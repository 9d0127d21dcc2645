------------------------------ MODULE Scheduler ------------------------------
(***************************************************************************)
(* Runner.Run of internal/runner/runner.go: the dispatcher, the workers of  *)
(* the parallel phase, the serial phase for exclusive scenarios, fail-fast  *)
(* and interruption, and what the result of the run says.                   *)
(*                                                                         *)
(* A scenario is named by its place in the order `order` returned, so the   *)
(* order is 1..N, and a random order is any choice of which of them are     *)
(* exclusive.  Sorting the results by that place at the end (so that the    *)
(* report does not depend on the workers) is why results are kept here as a *)
(* function of the place and not as the list they arrived in.  runScenario  *)
(* is one step here, from "running" to its result: ScenarioRun is its model.*)
(***************************************************************************)
EXTENDS Integers, FiniteSets

CONSTANTS
  N,         \* the number of pickles
  Workers,   \* Options.Workers
  FailFast,  \* Options.FailFast
  DryRun,    \* Options.DryRun
  Outcomes   \* the statuses scenarios may end with

\* Status: worse is higher.
Passed == 0
Skipped == 1
Pending == 2
Undefined == 3
Ambiguous == 4
Failed == 5

ASSUME RunAssumption ==
  /\ N \in Nat
  /\ Workers \in Nat \ {0}
  /\ FailFast \in BOOLEAN
  /\ DryRun \in BOOLEAN
  /\ Outcomes \subseteq Passed..Failed

VARIABLES
  exclusive,    \* partition: the scenarios of the serial phase
  main,         \* where Run is
  left,         \* what the loop of the current phase has not come to
  dispatched,   \* local of Run
  notRun,       \* local of Run
  state,        \* each scenario on its way through runScenario and record
  on,           \* the worker that has it (0: Run itself, in the serial phase)
  status,       \* ScenarioResult.Status, once it has one
  appended,     \* len(res.Scenarios)
  runErr,       \* runCtx.Err() # nil
  ctxErr,       \* ctx.Err() # nil: the run was interrupted
  interrupted,  \* res.Interrupted
  runErrors,    \* len(res.RunErrors) > 0
  late          \* history: scenarios started after runCtx was done

vars == <<exclusive, main, left, dispatched, notRun, state, on, status,
          appended, runErr, ctxErr, interrupted, runErrors, late>>

Pickles == 1..N
Parallel == Pickles \ exclusive

WorkerIDs_OfSerial ==
  1 .. (IF Cardinality(exclusive) < Workers THEN Cardinality(exclusive)
        ELSE Workers)

\* The goroutines Run starts: min(Workers, max(1, len(parallel))).
WorkerIDs ==
  LET n == Cardinality(Parallel) IN
  1 .. (IF n = 0 THEN 1 ELSE IF n < Workers THEN n ELSE Workers)

InState(S) == {i \in Pickles : state[i] \in S}
Started == {"running", "appended", "reported", "done"}
Busy == {"running", "appended", "reported"}

Idle(w) == \A i \in Pickles : on[i] = w => state[i] \notin Busy

TypeOK ==
  /\ exclusive \in SUBSET Pickles
  /\ main \in {"loop", "select", "drain", "serial", "serialRun",
               "sort", "afterRun", "finish", "returned"}
  /\ left \in SUBSET Pickles
  /\ dispatched \in 0..N
  /\ notRun \in 0..N
  /\ state \in [Pickles -> Started \union {"waiting"}]
  /\ on \in [Pickles -> 0..Workers]
  /\ status \in [Pickles -> Passed..Failed]
  /\ appended \in 0..N
  /\ runErr \in BOOLEAN
  /\ ctxErr \in BOOLEAN
  /\ interrupted \in BOOLEAN
  /\ runErrors \in BOOLEAN
  /\ late \in Nat

-----------------------------------------------------------------------------
Init ==
  /\ exclusive \in SUBSET Pickles
  /\ main = "loop"
  /\ left = Parallel
  /\ dispatched = 0
  /\ notRun = 0
  /\ state = [i \in Pickles |-> "waiting"]
  /\ on = [i \in Pickles |-> 0]
  /\ status = [i \in Pickles |-> Passed]
  /\ appended = 0
  /\ runErr = FALSE
  /\ ctxErr = FALSE
  /\ interrupted = FALSE
  /\ runErrors = FALSE
  /\ late = 0

First(i) == i \in left /\ \A j \in left : i <= j

\* Worker w has scenario i from now on.
run(i, w) ==
  /\ state' = [state EXCEPT ![i] = "running"]
  /\ on' = [on EXCEPT ![i] = w]
  /\ late' = IF runErr THEN late + 1 ELSE late

LoopBreak_CountsLeft ==
  /\ main = "loop"
  /\ left = {} \/ runErr
  /\ notRun' = notRun + Cardinality(left)
  /\ main' = "drain"
  /\ UNCHANGED <<exclusive, left, dispatched, state, on, status, appended,
                 runErr, ctxErr, interrupted, runErrors, late>>

\* The dispatcher's loop is over: all are sent, or runCtx is done.
LoopBreak ==
  /\ main = "loop"
  /\ left = {} \/ runErr
  /\ notRun' = notRun + Cardinality(Parallel) - dispatched
  /\ main' = "drain"
  /\ UNCHANGED <<exclusive, left, dispatched, state, on, status, appended,
                 runErr, ctxErr, interrupted, runErrors, late>>

\* There is one more to send and runCtx is not done yet: on to the select.
LoopSelect ==
  /\ main = "loop"
  /\ left # {} /\ ~runErr
  /\ main' = "select"
  /\ UNCHANGED <<exclusive, left, dispatched, notRun, state, on, status,
                 appended, runErr, ctxErr, interrupted, runErrors, late>>

\* The select sends to a worker that waits for a job.  It may do so even
\* though runCtx was done since the check: a select takes any ready case.
SelectSend(i, w) ==
  /\ main = "select"
  /\ First(i)
  /\ w \in WorkerIDs /\ Idle(w)
  /\ run(i, w)
  /\ dispatched' = dispatched + 1
  /\ left' = left \ {i}
  /\ main' = "loop"
  /\ UNCHANGED <<exclusive, notRun, status, appended, runErr, ctxErr,
                 interrupted, runErrors>>

\* The select sees that runCtx is done.
SelectDone(i) ==
  /\ main = "select"
  /\ runErr
  /\ First(i)
  /\ left' = left \ {i}
  /\ main' = "loop"
  /\ UNCHANGED <<exclusive, dispatched, notRun, state, on, status, appended,
                 runErr, ctxErr, interrupted, runErrors, late>>

Drain_AllPickles ==
  /\ main = "drain"
  /\ \A w \in WorkerIDs : Idle(w)
  /\ left' = Pickles
  /\ main' = "serial"
  /\ UNCHANGED <<exclusive, dispatched, notRun, state, on, status, appended,
                 runErr, ctxErr, interrupted, runErrors, late>>

\* close(jobs) and wg.Wait: the workers have recorded what they had.
Drain ==
  /\ main = "drain"
  /\ \A w \in WorkerIDs : Idle(w)
  /\ left' = exclusive
  /\ main' = "serial"
  /\ UNCHANGED <<exclusive, dispatched, notRun, state, on, status, appended,
                 runErr, ctxErr, interrupted, runErrors, late>>

\* The serial phase: there is one more exclusive scenario, and runCtx is not
\* done yet.
SerialCheck ==
  /\ main = "serial"
  /\ Idle(0)
  /\ left # {} /\ ~runErr
  /\ main' = "serialRun"
  /\ UNCHANGED <<exclusive, left, dispatched, notRun, state, on, status,
                 appended, runErr, ctxErr, interrupted, runErrors, late>>

\* It runs in Run itself, even if runCtx was done since the check.
SerialRun(i) ==
  /\ main = "serialRun"
  /\ First(i)
  /\ run(i, 0)
  /\ left' = left \ {i}
  /\ main' = "serial"
  /\ UNCHANGED <<exclusive, dispatched, notRun, status, appended, runErr,
                 ctxErr, interrupted, runErrors>>

\* The serial phase is over, or cut short.
SerialBreak ==
  /\ main = "serial"
  /\ Idle(0)
  /\ left = {} \/ runErr
  /\ notRun' = notRun + Cardinality(left)
  /\ main' = "sort"
  /\ UNCHANGED <<exclusive, left, dispatched, state, on, status, appended,
                 runErr, ctxErr, interrupted, runErrors, late>>

SortResult_Always ==
  /\ main = "sort"
  /\ interrupted' = ctxErr
  /\ main' = IF ~DryRun THEN "afterRun" ELSE "finish"
  /\ UNCHANGED <<exclusive, left, dispatched, notRun, state, on, status,
                 appended, runErr, ctxErr, runErrors, late>>

\* The result: NotRun, and Interrupted only by the run's own context, not by
\* fail-fast.  AfterRun is left out of dry and interrupted runs.
SortResult ==
  /\ main = "sort"
  /\ interrupted' = ctxErr
  /\ main' = IF ~DryRun /\ ~interrupted' THEN "afterRun" ELSE "finish"
  /\ UNCHANGED <<exclusive, left, dispatched, notRun, state, on, status,
                 appended, runErr, ctxErr, runErrors, late>>

\* AfterRun (the packs' Finishers), whatever it finds.
AfterRun ==
  /\ main = "afterRun"
  /\ runErrors' \in BOOLEAN
  /\ main' = "finish"
  /\ UNCHANGED <<exclusive, left, dispatched, notRun, state, on, status,
                 appended, runErr, ctxErr, interrupted, late>>

\* The reporters' Finish; Run returns, which cancels runCtx.
FinishRun ==
  /\ main = "finish"
  /\ main' = "returned"
  /\ runErr' = TRUE
  /\ UNCHANGED <<exclusive, left, dispatched, notRun, state, on, status,
                 appended, ctxErr, interrupted, runErrors, late>>

-----------------------------------------------------------------------------
\* runScenario returns: a scenario that is cut short ends with some status too.
\* record appends the result under its mutex.
record(i) ==
  /\ state[i] = "running"
  /\ state' = [state EXCEPT ![i] = "appended"]
  /\ \E s \in Outcomes : status' = [status EXCEPT ![i] = s]
  /\ appended' = appended + 1
  /\ UNCHANGED <<exclusive, main, left, dispatched, notRun, on, runErr, ctxErr,
                 interrupted, runErrors, late>>

\* The reporters' ScenarioFinished, under repMu.
ScenarioFinished(i) ==
  /\ state[i] = "appended"
  /\ state' = [state EXCEPT ![i] = "reported"]
  /\ UNCHANGED <<exclusive, main, left, dispatched, notRun, on, status,
                 appended, runErr, ctxErr, interrupted, runErrors, late>>

\* The last thing record does; the worker is free for another scenario.
failFast(i) ==
  /\ state[i] = "reported"
  /\ state' = [state EXCEPT ![i] = "done"]
  /\ runErr' = (runErr \/ (FailFast /\ status[i] >= Undefined))
  /\ UNCHANGED <<exclusive, main, left, dispatched, notRun, on, status,
                 appended, ctxErr, interrupted, runErrors, late>>

\* The run is interrupted: ctx is done, and with it runCtx.
Interrupt ==
  /\ ~ctxErr
  /\ main # "returned"
  /\ ctxErr' = TRUE
  /\ runErr' = TRUE
  /\ UNCHANGED <<exclusive, main, left, dispatched, notRun, state, on, status,
                 appended, interrupted, runErrors, late>>

Main ==
  \/ LoopBreak
  \/ LoopSelect
  \/ \E i \in Pickles, w \in WorkerIDs : SelectSend(i, w)
  \/ \E i \in Pickles : SelectDone(i)
  \/ Drain
  \/ SerialCheck
  \/ \E i \in Pickles : SerialRun(i)
  \/ SerialBreak
  \/ SortResult
  \/ AfterRun
  \/ FinishRun

Worker == \E i \in Pickles : record(i) \/ ScenarioFinished(i) \/ failFast(i)

Next == Main \/ Worker \/ Interrupt

Spec == Init /\ [][Next]_vars

\* Run goes on when it can, and so does every worker: its scenario returns
\* (TimedCall shows that no step or hook can keep it) and is recorded.
FairSpec ==
  /\ Spec
  /\ WF_vars(Main)
  /\ \A i \in Pickles :
       WF_vars(record(i) \/ ScenarioFinished(i) \/ failFast(i))

-----------------------------------------------------------------------------
\* RunResult.Worst: the worst status, and Failed for any run error.
Worst ==
  IF runErrors THEN Failed
  ELSE CHOOSE s \in Passed..Failed :
         /\ s = Passed \/ \E i \in InState({"done"}) : status[i] = s
         /\ \A i \in InState({"done"}) : status[i] <= s

runExitCode_WorstOnly ==
  IF Worst \in {Failed, Pending} THEN 1
  ELSE IF Worst \in {Undefined, Ambiguous} THEN 3
  ELSE 0

\* runExitCode of internal/cli/run.go.
runExitCode ==
  IF interrupted THEN 130
  ELSE IF Worst \in {Failed, Pending} THEN 1
  ELSE IF Worst \in {Undefined, Ambiguous} THEN 3
  ELSE 0

\* Nothing is lost: when Run returns every pickle has its one result or is
\* counted in NotRun, whichever of the loops fail-fast or an interrupt cut.
NothingLost ==
  main \in {"sort", "afterRun", "finish", "returned"} =>
    /\ appended + notRun = N
    /\ appended = Cardinality(InState({"done"}))
    /\ notRun = Cardinality(InState({"waiting"}))

\* An exclusive scenario never overlaps with another one.
ExclusiveAlone ==
  \A i \in exclusive : state[i] \in Busy =>
    \A j \in Pickles \ {i} : state[j] \notin Busy

\* After fail-fast or an interrupt at most one scenario starts in all: the one
\* the dispatcher was offering, or the exclusive one the serial phase had just
\* looked at the context for, never one of each.
StopsStarting ==
  [][\A i \in Pickles :
       runErr /\ state[i] = "waiting" /\ state'[i] = "running"
         => late = 0]_vars

\* Exit code 0 says that the whole suite ran and nothing in it was undefined,
\* pending or failed: neither an interrupt nor fail-fast can produce it.
SuccessMeansAllRan ==
  main = "returned" /\ runExitCode = 0 =>
    /\ notRun = 0
    /\ \A i \in Pickles : state[i] = "done" /\ status[i] < Pending

\* The run's own checks see a run that is over: nothing is still in a worker,
\* and what did not run was kept back by a scenario that failed the run fast.
AfterRunSeesAll ==
  main = "afterRun" =>
    /\ \A i \in Pickles : state[i] \in {"waiting", "done"}
    /\ notRun > 0 => /\ FailFast
                     /\ \E i \in InState({"done"}) : status[i] >= Undefined

\* Run returns, and so every run ends with a result.
RunReturns == <>(main = "returned")

\* Run does what a run promises: a scenario is finished for its suite when it
\* has been recorded, reported and, with fail-fast, acted upon.
Promise == INSTANCE Suite WITH
  phase <- [i \in Pickles |->
              IF state[i] \in Busy THEN "running"
              ELSE IF state[i] = "done" THEN "finished" ELSE "waiting"],
  over <- main = "returned"

KeepsPromise == Promise!Spec

=============================================================================
