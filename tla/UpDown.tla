------------------------------- MODULE UpDown -------------------------------
(***************************************************************************)
(* `axx up`, `axx down` and the supervisor that stays between them          *)
(* (internal/cli/up.go).  They know of each other through two files, up.json *)
(* with the supervisor's pid and up.stop, and through signals.  Nothing      *)
(* locks the files: commands and supervisors interleave at every read, write *)
(* and removal.  A supervisor may be killed at any time, and its services    *)
(* may exit.                                                                *)
(*                                                                         *)
(* Supervisor u is the one that command u starts; its pid is u.  Of the      *)
(* services (module Services) and of Reap (module StateFile) only whether a  *)
(* supervisor's services run is kept.  No axx host serves the project.       *)
(***************************************************************************)
EXTENDS Integers

CONSTANTS Ups, Downs   \* the commands

ASSUME UpDownAssumption == 
  Ups \cap Downs = {} /\ Ups \cup Downs \subseteq Nat \ {0}

Commands == Ups \cup Downs
NoFile == 0
Partial == -1

VARIABLES
  signals,   \* whether a process can be signalled (on Windows it cannot)
  pc,        \* where each command is
  seen,      \* the supervisor that an `axx down` found
  sup,       \* where each supervisor is
  upFile,    \* the pid in up.json, Partial while it is written, or NoFile
  linked,    \* the supervisors whose open up.json is the one in the directory
  stopFile,  \* whether up.stop is there
  signalled, \* the supervisors whose own handler (251) got a signal
  running,   \* the supervisors whose services run
  killed,    \* history: the supervisors killed without a word
  asked      \* history: those that were there when up.stop was written

files == <<upFile, linked, stopFile>>
history == <<killed, asked>>
vars == <<signals, pc, seen, sup, files, signalled, running, history>>

TypeOK ==
  /\ signals \in BOOLEAN
  /\ pc \in [Commands -> {"new", "stale", "launch", "stop file", "signal", "waiting",
                          "remove up", "remove stop", "reap", "returned", "failed", "interrupted"}]
  /\ seen \in [Downs -> Ups \cup {0}]
  /\ sup \in [Ups -> {"none", "launched", "begin", "starting", "start done", "writing", "ready",
                      "stopping", "remove up", "remove stop", "gone"}]
  /\ upFile \in Ups \cup {NoFile, Partial}
  /\ upFile = NoFile => linked = {}
  /\ linked \cup signalled \cup running \cup killed \cup asked \subseteq Ups
  /\ stopFile \in BOOLEAN
  /\ \A d \in Downs : pc[d] \in {"stop file", "signal", "waiting"} => seen[d] # 0

Init ==
  /\ signals \in BOOLEAN
  /\ pc = [c \in Commands |-> "new"] /\ seen = [d \in Downs |-> 0]
  /\ sup = [u \in Ups |-> "none"]
  /\ upFile = NoFile /\ linked = {} /\ stopFile = FALSE
  /\ signalled = {} /\ running = {} /\ killed = {} /\ asked = {}

alive(u) == sup[u] \notin {"none", "gone"}
Go(c, place) == pc' = [pc EXCEPT ![c] = place]
SupGo(u, place) == sup' = [sup EXCEPT ![u] = place]

\* What a signal to supervisor u does: it ends the process before Main handles
\* signals (root.go:28).  From then on it cancels Main's context, which the
\* supervisor does not use, and its own once it has one (up.go:251).
Deliver(u) ==
  /\ sup' = IF signals /\ sup[u] = "launched" THEN [sup EXCEPT ![u] = "gone"] ELSE sup
  /\ signalled' =
       IF signals /\ sup[u] \notin {"none", "launched", "begin", "gone"}
       THEN signalled \cup {u} ELSE signalled

\* os.Remove(upFile): who has it open writes to a file that is in no directory.
RemoveUp == upFile' = NoFile /\ linked' = {}

-----------------------------------------------------------------------------
(* The commands *)

\* liveUp reads the file.  An `axx up` that finds a supervisor is done.
liveUp(c) ==
  /\ pc[c] = "new"
  /\ LET found == upFile \in Ups /\ alive(upFile) IN
     /\ Go(c, IF found THEN IF c \in Ups THEN "returned" ELSE "stop file"
              ELSE IF upFile # NoFile THEN "stale"
              ELSE IF c \in Ups THEN "launch" ELSE "remove up")
     /\ seen' = IF found /\ c \in Downs THEN [seen EXCEPT ![c] = upFile] ELSE seen
  /\ UNCHANGED <<signals, sup, files, signalled, running, history>>

\* liveUp removes what it could not read, or names a process that is gone.
RemoveStale(c) ==
  /\ pc[c] = "stale"
  /\ RemoveUp
  /\ Go(c, IF c \in Ups THEN "launch" ELSE "remove up")
  /\ UNCHANGED <<signals, seen, sup, stopFile, signalled, running, history>>

Launch(u) ==
  /\ pc[u] = "launch" /\ u \in Ups
  /\ Go(u, "waiting") /\ SupGo(u, "launched")
  /\ UNCHANGED <<signals, seen, files, signalled, running, history>>

\* The ready marker, or the end of the supervisor's output.
UpReturns(u) ==
  /\ u \in Ups /\ pc[u] = "waiting"
  /\ \/ sup[u] \in {"ready", "stopping", "remove up", "remove stop"} /\ Go(u, "returned")
     \/ sup[u] = "gone" /\ Go(u, "failed")
  /\ UNCHANGED <<signals, seen, sup, files, signalled, running, history>>

\* Ctrl-C: an `axx up` passes it on, an `axx down` just ends.
Interrupted(c) ==
  /\ pc[c] = "waiting"
  /\ Go(c, "interrupted")
  /\ IF c \in Ups THEN Deliver(c) ELSE UNCHANGED <<sup, signalled>>
  /\ UNCHANGED <<signals, seen, files, running, history>>

WriteStop(d) ==
  /\ d \in Downs /\ pc[d] = "stop file"
  /\ stopFile' = TRUE
  /\ asked' = asked \cup {u \in Ups : alive(u)}
  /\ Go(d, "signal")
  /\ UNCHANGED <<signals, seen, sup, upFile, linked, signalled, running, killed>>

signalTerm(d) ==
  /\ d \in Downs /\ pc[d] = "signal"
  /\ Deliver(seen[d])
  /\ Go(d, "waiting")
  /\ UNCHANGED <<signals, seen, files, running, history>>

\* The supervisor is gone, or three minutes are over.
WaitOver(d) ==
  /\ d \in Downs /\ pc[d] = "waiting"
  /\ Go(d, "remove up")
  /\ UNCHANGED <<signals, seen, sup, files, signalled, running, history>>

DownRemovesUp(d) ==
  /\ d \in Downs /\ pc[d] = "remove up"
  /\ RemoveUp
  /\ Go(d, "remove stop")
  /\ UNCHANGED <<signals, seen, sup, stopFile, signalled, running, history>>

DownRemovesStop(d) ==
  /\ pc[d] = "remove stop"
  /\ stopFile' = FALSE
  /\ Go(d, "reap")
  /\ UNCHANGED <<signals, seen, sup, upFile, linked, signalled, running, history>>

(* The bug leaves the services to the supervisor it found. *)
Reap_NoneFound(d) ==
  /\ pc[d] = "reap"
  /\ running' = IF seen[d] = 0 THEN {} ELSE running
  /\ Go(d, "returned")
  /\ UNCHANGED <<signals, seen, sup, files, signalled, history>>

\* lifecycle.Reap stops every service of the state file, whoever started it.
Reap(d) ==
  /\ pc[d] = "reap"
  /\ running' = {}
  /\ Go(d, "returned")
  /\ UNCHANGED <<signals, seen, sup, files, signalled, history>>

-----------------------------------------------------------------------------
(* The supervisor *)

\* The process handles signals (Main), long before it looks at any file.
Main(u) ==
  /\ sup[u] = "launched"
  /\ SupGo(u, "begin")
  /\ UNCHANGED <<signals, pc, seen, files, signalled, running, history>>

(* The bug leaves an up.stop that is there. *)
Begin_KeepsStop(u) ==
  /\ sup[u] = "begin"
  /\ SupGo(u, "starting")
  /\ UNCHANGED <<signals, pc, seen, files, signalled, running, history>>

\* It removes an old up.stop, and from here on handles signals itself.
Begin(u) ==
  /\ sup[u] = "begin"
  /\ stopFile' = FALSE
  /\ SupGo(u, "starting")
  /\ UNCHANGED <<signals, pc, seen, upFile, linked, signalled, running, history>>

\* Prepare and Manager.Start: the services run, or none is left.
Started(u) ==
  /\ sup[u] = "starting"
  /\ IF u \in signalled THEN SupGo(u, "gone") /\ running' = running
     ELSE SupGo(u, "start done") /\ running' = running \cup {u}
  /\ UNCHANGED <<signals, pc, seen, files, signalled, history>>

\* os.WriteFile(upFile) truncates the file or makes one, then writes.
Truncate(u) ==
  /\ sup[u] = "start done"
  /\ upFile' = Partial /\ linked' = linked \cup {u}
  /\ SupGo(u, "writing")
  /\ UNCHANGED <<signals, pc, seen, stopFile, signalled, running, history>>

Write(u) ==
  /\ sup[u] = "writing"
  /\ upFile' = IF u \in linked THEN u ELSE upFile
  /\ SupGo(u, "ready")
  /\ UNCHANGED <<signals, pc, seen, linked, stopFile, signalled, running, history>>

(* The bug waits for up.stop alone. *)
Wait_StopFile(u) ==
  /\ sup[u] = "ready" /\ stopFile
  /\ SupGo(u, "stopping")
  /\ UNCHANGED <<signals, pc, seen, files, signalled, running, history>>

\* The wait loop ends.
Wait(u) ==
  /\ sup[u] = "ready" /\ (u \in signalled \/ stopFile)
  /\ SupGo(u, "stopping")
  /\ UNCHANGED <<signals, pc, seen, files, signalled, running, history>>

StopServices(u) ==
  /\ sup[u] = "stopping"
  /\ running' = running \ {u}
  /\ SupGo(u, "remove up")
  /\ UNCHANGED <<signals, pc, seen, files, signalled, history>>

SupRemovesUp(u) ==
  /\ sup[u] = "remove up"
  /\ RemoveUp
  /\ SupGo(u, "remove stop")
  /\ UNCHANGED <<signals, pc, seen, stopFile, signalled, running, history>>

SupRemovesStop(u) ==
  /\ sup[u] = "remove stop"
  /\ stopFile' = FALSE
  /\ SupGo(u, "gone")
  /\ UNCHANGED <<signals, pc, seen, upFile, linked, signalled, running, history>>

\* Its set-up, the services or the write of up.json fails: it stops them.
SupFails(u) ==
  /\ sup[u] \in {"begin", "starting", "start done", "writing"}
  /\ running' = running \ {u}
  /\ SupGo(u, "gone")
  /\ UNCHANGED <<signals, pc, seen, files, signalled, history>>

Killed(u) ==
  /\ alive(u)
  /\ SupGo(u, "gone")
  /\ killed' = killed \cup {u}
  /\ UNCHANGED <<signals, pc, seen, files, signalled, running, asked>>

\* Every service of the supervisor exits.
ServicesExit(u) ==
  /\ u \in running
  /\ running' = running \ {u}
  /\ UNCHANGED <<signals, pc, seen, sup, files, signalled, history>>

-----------------------------------------------------------------------------
Command(c) ==
  \/ liveUp(c) \/ RemoveStale(c) \/ Launch(c) \/ UpReturns(c)
  \/ WriteStop(c) \/ signalTerm(c) \/ WaitOver(c) \/ DownRemovesUp(c) \/ DownRemovesStop(c) \/ Reap(c)

Supervise(u) ==
  \/ Main(u) \/ Begin(u) \/ Started(u) \/ Truncate(u) \/ Write(u)
  \/ Wait(u) \/ StopServices(u) \/ SupRemovesUp(u) \/ SupRemovesStop(u)

Next ==
  \/ \E c \in Commands : Command(c) \/ Interrupted(c)
  \/ \E u \in Ups : Supervise(u) \/ SupFails(u) \/ Killed(u) \/ ServicesExit(u)

Spec == Init /\ [][Next]_vars

\* Every process runs; failures, kills and Ctrl-C need not happen.  The wait of
\* an `axx down` is over at the latest after its three minutes.
FairSpec ==
  /\ Spec
  /\ \A c \in Commands : WF_vars(Command(c))
  /\ \A u \in Ups : WF_vars(Supervise(u))

-----------------------------------------------------------------------------
(* Properties *)

\* An `axx down` that returns has stopped the services of the supervisor it
\* found, also if that was killed meanwhile or did not stop in three minutes:
\* nothing may start them again.
DownStops ==
  \A d \in Downs : pc[d] = "returned" => seen[d] \notin running

\* A supervisor stops only for a signal, or for an up.stop written since it was
\* launched: not for one that an interrupted `axx down` left (Begin).
NoStaleStop ==
  \A u \in Ups : sup[u] \in {"stopping", "remove up", "remove stop"} =>
                   u \in signalled \cup asked

\* A supervisor whose own handler (up.go:251) got a signal ends, whatever it was
\* doing and whoever removes up.stop before it looks.
SignalEnds == \A u \in Ups : u \in signalled ~> sup[u] = "gone"

\* The comment of the wait loop (up.go:314): "Wait for `axx down` (stop file or
\* signal) or for every service to exit."
EndsWithServices ==
  \A u \in Ups : sup[u] = "ready" /\ u \notin running ~> sup[u] = "gone"
=============================================================================
