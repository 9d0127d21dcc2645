-------------------------------- MODULE Suite --------------------------------
(***************************************************************************)
(* What a run promises its suite (docs: explanations/how-axx-works.md and   *)
(* scenario-isolation.md): every scenario runs at most once, exclusive      *)
(* scenarios overlap with nothing and come after the others, and when the   *)
(* run is over every scenario has its result or is counted as not run.      *)
(***************************************************************************)
EXTENDS Naturals

CONSTANT N  \* scenarios, named by their place in the run's order

VARIABLES
  exclusive,  \* the scenarios that must run alone
  phase,      \* each scenario: "waiting", "running" or "finished"
  over        \* the run has returned its result

suiteVars == <<exclusive, phase, over>>

Scenarios == 1..N

In(p) == {i \in Scenarios : phase[i] = p}

Init ==
  /\ exclusive \in SUBSET Scenarios
  /\ phase = [i \in Scenarios |-> "waiting"]
  /\ over = FALSE

\* A scenario starts: an exclusive one alone, any other before the first
\* exclusive one.
Start(i) ==
  /\ ~over
  /\ phase[i] = "waiting"
  /\ IF i \in exclusive
     THEN In("running") = {}
     ELSE \A x \in exclusive : phase[x] = "waiting"
  /\ phase' = [phase EXCEPT ![i] = "running"]
  /\ UNCHANGED <<exclusive, over>>

Finish(i) ==
  /\ phase[i] = "running"
  /\ phase' = [phase EXCEPT ![i] = "finished"]
  /\ UNCHANGED <<exclusive, over>>

\* The run ends with nothing running; what still waits is not run.
End ==
  /\ ~over
  /\ In("running") = {}
  /\ over' = TRUE
  /\ UNCHANGED <<exclusive, phase>>

Next == (\E i \in Scenarios : Start(i) \/ Finish(i)) \/ End

Spec == Init /\ [][Next]_suiteVars
=============================================================================
