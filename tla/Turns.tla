-------------------------------- MODULE Turns --------------------------------
(***************************************************************************)
(* What a host promises the person who starts it (internal/host/doc.go):    *)
(* runs take their turn, one has the services at a time; a run is let in     *)
(* only with a definition the person approved, as it was read when its turn  *)
(* came, and that one counts until the run is over; and when the host is     *)
(* over no run is in, nor will be.  What the services are started from is    *)
(* read once more, later: it is no part of this promise.                     *)
(***************************************************************************)

CONSTANTS
  Runs,   \* the runs that may connect, each once
  Texts,  \* the definitions that may be approved
  NoText

VARIABLES
  approved,  \* what the person approved
  at,        \* each run: "away", "queued", "served" or "over"
  text,      \* the definition each run was let in with
  over       \* the host has returned

turnsVars == <<approved, at, text, over>>

Init ==
  /\ approved \in SUBSET Texts
  /\ at = [r \in Runs |-> "away"]
  /\ text = [r \in Runs |-> NoText]
  /\ over = FALSE

Approve(t) ==
  /\ approved' = approved \cup {t}
  /\ UNCHANGED <<at, text, over>>

\* A run connects, and is queued or turned away.
Come(r) ==
  /\ ~ over /\ at[r] = "away"
  /\ \E to \in {"queued", "over"} : at' = [at EXCEPT ![r] = to]
  /\ UNCHANGED <<approved, text, over>>

\* Its turn: it is let in while no other is, with what was approved.
Serve(r, t) ==
  /\ at[r] = "queued" /\ t \in approved
  /\ \A q \in Runs : at[q] # "served"
  /\ at' = [at EXCEPT ![r] = "served"]
  /\ text' = [text EXCEPT ![r] = t]
  /\ UNCHANGED <<approved, over>>

\* It is over: its services were stopped, or it had none.
Leave(r) ==
  /\ at[r] \in {"queued", "served"}
  /\ at' = [at EXCEPT ![r] = "over"]
  /\ text' = [text EXCEPT ![r] = NoText]
  /\ UNCHANGED <<approved, over>>

\* The host is over once no run is with it.
End ==
  /\ ~ over /\ \A r \in Runs : at[r] \in {"away", "over"}
  /\ over' = TRUE
  /\ UNCHANGED <<approved, at, text>>

Next ==
  \/ \E t \in Texts : Approve(t)
  \/ \E r \in Runs : Come(r) \/ Leave(r) \/ \E t \in Texts : Serve(r, t)
  \/ End

Spec == Init /\ [][Next]_turnsVars
=============================================================================
