----------------------------- MODULE ScenarioRun -----------------------------
(***************************************************************************)
(* One scenario: runScenario, execStep and execHook of                      *)
(* internal/runner/scenario.go, with the closers and the state keys of      *)
(* core.Scenario.  Which result logs and attachments go to (the sink) and   *)
(* the messages of internal/runner/messages.go are left out.                *)
(*                                                                         *)
(* The scenario's results are numbered in the order they are made: Before   *)
(* hooks, steps, After hooks, and last the result of the cleanup.  A call   *)
(* of step or hook code is <<result, role>>.  How long a call may take is   *)
(* TimedCall's subject; here it returns, or it is abandoned and its         *)
(* goroutine goes on beside the rest of the scenario.                       *)
(***************************************************************************)
EXTENDS Integers, Sequences, FiniteSets, SequencesExt

CONSTANTS
  NBefore, NSteps, NAfter,  \* hooksFor(BeforeScenario), p.Steps, ...
  Closing,   \* the calls that register a closer (Scenario.OnClose)
  Keyed      \* those that do so through one state key (StateKey.Of)

Passed == 0
Skipped == 1
Pending == 2
Undefined == 3
Ambiguous == 4
Failed == 5
NoStatus == -1

\* How a step's text and arguments resolve.
Matches == {"undefined", "ambiguous", "badArguments", "ok"}

\* What a call returns: nil, core.ErrPending, core.ErrSkip or another error.
Errors == {"nil", "pending", "skip", "error"}

Hooked == 1..(NBefore + NSteps + NAfter)
Cleanup == NBefore + NSteps + NAfter + 1
Results == 1..Cleanup
IsBefore(i) == i <= NBefore
IsStep(i) == i > NBefore /\ i <= NBefore + NSteps
IsAfter(i) == i > NBefore + NSteps /\ i < Cleanup

Roles == {"hook", "beforeStep", "run", "afterStep", "close"}
Calls == Results \X Roles
NoCall == <<0, "hook">>

\* Steps and hooks register closers, or make state; no closer does.
ASSUME ScenarioAssumption ==
  /\ NBefore \in Nat /\ NSteps \in Nat /\ NAfter \in Nat
  /\ Closing \subseteq Hooked \X (Roles \ {"close"}) /\ Keyed \subseteq Closing

VARIABLES
  dryRun,    \* Options.DryRun
  match,     \* what the registry makes of each step
  at,        \* the result runScenario is at; Cleanup + 1 once it returned
  live,      \* the call withTimeout waits for, or NoCall
  abandoned, \* calls that were abandoned and whose goroutine still runs
  err,       \* the error of the step so far
  failed,    \* local of runScenario
  status,    \* the status of each result
  state,     \* core.Scenario.state of the key: the call whose value it is
  making,    \* the calls in the key's init
  got,       \* the value that Of returned to a call
  closers,   \* core.Scenario.closers: the calls that registered them
  taken,     \* what Close took, in the order it runs them
  cleaned,   \* the closers that ran
  closeErr,  \* one of them failed
  called,    \* history: the calls made
  outcome    \* ScenarioResult.Status

vars == <<dryRun, match, at, live, abandoned, err, failed, status, state, making, got, closers, taken, cleaned, closeErr, called, outcome>>

keyVars == <<state, making, got>>
closeVars == <<closers, taken, cleaned, closeErr, keyVars>>

Statuses == NoStatus..Failed

TypeOK ==
  /\ dryRun \in BOOLEAN
  /\ match \in [Results -> Matches]
  /\ at \in 1..(Cleanup + 1)
  /\ live \in Calls \union {NoCall}
  /\ abandoned \in SUBSET Calls
  /\ err \in Errors
  /\ failed \in BOOLEAN
  /\ status \in [Results -> Statuses]
  /\ state \in Keyed \union {NoCall}
  /\ making \in SUBSET Keyed
  /\ got \in [Keyed -> Keyed \union {NoCall}]
  /\ closers \in Seq(Closing)
  /\ taken \in Seq(Closing)
  /\ cleaned \in SUBSET Closing
  /\ closeErr \in BOOLEAN
  /\ called \in SUBSET Calls
  /\ outcome \in Statuses

-----------------------------------------------------------------------------
Init ==
  /\ dryRun \in BOOLEAN
  /\ match \in {m \in [Results -> Matches] : \A i \in Results : ~IsStep(i) => m[i] = "ok"}
  /\ at = 1
  /\ live = NoCall
  /\ abandoned = {}
  /\ err = "nil"
  /\ failed = FALSE
  /\ status = [i \in Results |-> NoStatus]
  /\ state = NoCall
  /\ making = {}
  /\ got = [c \in Keyed |-> NoCall]
  /\ closers = <<>>
  /\ taken = <<>>
  /\ cleaned = {}
  /\ closeErr = FALSE
  /\ called = {}
  /\ outcome = NoStatus

statusOf(e) ==
  CASE e = "nil" -> Passed
    [] e = "pending" -> Pending
    [] e = "skip" -> Skipped
    [] OTHER -> Failed

\* ScenarioResult.worst: Passed when nothing has a status.
worst(st) ==
  CHOOSE s \in Passed..Failed :
    /\ s = Passed \/ \E i \in Results : st[i] = s
    /\ \A i \in Results : st[i] <= s

\* The result at hand can make the scenario failed: an After hook no longer
\* does, and a Before hook that a dry run leaves out does not.
matters == IsStep(at) \/ (IsBefore(at) /\ ~dryRun)

settle_FailedOnly(s) ==
  /\ status' = [status EXCEPT ![at] = s]
  /\ failed' = (failed \/ (s = Failed /\ matters))
  /\ at' = at + 1
  /\ live' = NoCall

\* The result at hand gets status s and the scenario moves on.
settle(s) ==
  /\ status' = [status EXCEPT ![at] = s]
  /\ failed' = (failed \/ (s # Passed /\ matters))
  /\ at' = at + 1
  /\ live' = NoCall

\* Step or hook code is called.
call(role) ==
  /\ live' = <<at, role>>
  /\ called' = called \union {<<at, role>>}

\* A hook that is left out: a Before hook after a failure, any in a dry run.
HookSkipped ==
  /\ \/ IsBefore(at) /\ (failed \/ dryRun)
     \/ IsAfter(at) /\ dryRun
  /\ settle(Skipped)
  /\ UNCHANGED <<dryRun, match, abandoned, err, closeVars, called, outcome>>

\* execHook: After hooks run whatever happened before.
HookStarts ==
  /\ live = NoCall
  /\ ~dryRun
  /\ (IsBefore(at) /\ ~failed) \/ IsAfter(at)
  /\ call("hook")
  /\ UNCHANGED <<dryRun, match, at, abandoned, err, failed, status, closeVars,
                 outcome>>

\* execStep: an undefined or ambiguous step is one even after a failure.
StepUnmatched ==
  /\ IsStep(at)
  /\ match[at] \in {"undefined", "ambiguous"}
  /\ settle(IF match[at] = "undefined" THEN Undefined ELSE Ambiguous)
  /\ UNCHANGED <<dryRun, match, abandoned, err, closeVars, called, outcome>>

StepSkipped ==
  /\ IsStep(at)
  /\ match[at] \in {"badArguments", "ok"}
  /\ failed \/ dryRun
  /\ settle(Skipped)
  /\ UNCHANGED <<dryRun, match, abandoned, err, closeVars, called, outcome>>

\* A step that runs: its arguments are resolved, then come the BeforeStep
\* hooks; without arguments it goes straight to its AfterStep hooks.
StepStarts ==
  /\ IsStep(at)
  /\ live = NoCall
  /\ match[at] \in {"badArguments", "ok"}
  /\ ~failed /\ ~dryRun
  /\ call(IF match[at] = "ok" THEN "beforeStep" ELSE "afterStep")
  /\ err' = IF match[at] = "ok" THEN "nil" ELSE "error"
  /\ UNCHANGED <<dryRun, match, at, abandoned, failed, status, closeVars,
                 outcome>>

after_NoAfterStep(e) ==
  CASE live[2] = "hook" -> settle(statusOf(e)) /\ UNCHANGED <<err, called>>
    [] live[2] = "beforeStep" /\ e = "nil" ->
         /\ call("run")
         /\ UNCHANGED <<at, err, failed, status>>
    [] live[2] = "run" /\ e = "nil" ->
         /\ call("afterStep")
         /\ err' = e
         /\ UNCHANGED <<at, failed, status>>
    [] OTHER ->
         LET final == IF err = "nil" THEN e ELSE err IN
         settle(statusOf(final)) /\ err' = "nil" /\ UNCHANGED called

\* What follows a call of hook or step code that gave e: the step's function
\* only after BeforeStep hooks that passed, the AfterStep hooks always.
after(e) ==
  CASE live[2] = "hook" -> settle(statusOf(e)) /\ UNCHANGED <<err, called>>
    [] live[2] = "beforeStep" /\ e = "nil" ->
         /\ call("run")
         /\ UNCHANGED <<at, err, failed, status>>
    [] live[2] = "run" \/ (live[2] = "beforeStep" /\ e # "nil") ->
         /\ call("afterStep")
         /\ err' = e
         /\ UNCHANGED <<at, failed, status>>
    [] OTHER ->
         LET final == IF err = "nil" THEN e ELSE err IN
         settle(statusOf(final)) /\ err' = "nil" /\ UNCHANGED called

\* withTimeout returns what the call returned, or that it timed out.
CallReturns(e) ==
  /\ live \in called \ making
  /\ after(e)
  /\ UNCHANGED <<dryRun, match, abandoned, closeVars, outcome>>

\* withTimeout abandons the call.
CallAbandoned ==
  /\ live \in called
  /\ after("error")
  /\ abandoned' = abandoned \union {live}
  /\ UNCHANGED <<dryRun, match, closeVars, outcome>>

\* An abandoned call's goroutine ends at last.
AbandonedReturns(c) ==
  /\ c \in abandoned \ making
  /\ abandoned' = abandoned \ {c}
  /\ UNCHANGED <<dryRun, match, at, live, err, failed, status, closeVars,
                 called, outcome>>

-----------------------------------------------------------------------------
Running(c) == c = live \/ c \in abandoned

\* Scenario.OnClose, once for each call that uses it.
OnClose(c) ==
  /\ Running(c)
  /\ c \in Closing \ Keyed
  /\ c \notin Range(closers) \union Range(taken)
  /\ closers' = Append(closers, c)
  /\ UNCHANGED <<dryRun, match, at, live, abandoned, err, failed, status,
                 keyVars, taken, cleaned, closeErr, called, outcome>>

\* StateKey.Of, once for each call that uses it: the value there is, or init,
\* without the lock.
OfLooks(c) ==
  /\ Running(c)
  /\ c \in Keyed \ making /\ got[c] = NoCall
  /\ IF state # NoCall THEN got' = [got EXCEPT ![c] = state] /\ making' = making
     ELSE making' = making \union {c} /\ got' = got
  /\ UNCHANGED <<dryRun, match, at, live, abandoned, err, failed, status,
                 state, closers, taken, cleaned, closeErr, called, outcome>>

OfStores_NoLook(c) ==
  /\ c \in making
  /\ making' = making \ {c}
  /\ state' = c /\ closers' = Append(closers, c)
  /\ got' = [got EXCEPT ![c] = state']
  /\ UNCHANGED <<dryRun, match, at, live, abandoned, err, failed, status,
                 taken, cleaned, closeErr, called, outcome>>

\* After init: a value another caller stored meanwhile, or its own, with the
\* key's closer.
OfStores(c) ==
  /\ c \in making
  /\ making' = making \ {c}
  /\ IF state # NoCall THEN UNCHANGED <<state, closers>>
     ELSE state' = c /\ closers' = Append(closers, c)
  /\ got' = [got EXCEPT ![c] = state']
  /\ UNCHANGED <<dryRun, match, at, live, abandoned, err, failed, status,
                 taken, cleaned, closeErr, called, outcome>>

Close_Waits ==
  /\ at = Cleanup
  /\ live = NoCall
  /\ abandoned = {}
  /\ live' = <<Cleanup, "close">>
  /\ taken' = Reverse(closers)
  /\ closers' = <<>>
  /\ UNCHANGED <<dryRun, match, at, abandoned, err, failed, status, keyVars,
                 cleaned, closeErr, called, outcome>>

\* Scenario.Close takes the closers registered so far.
Close ==
  /\ at = Cleanup
  /\ live = NoCall
  /\ live' = <<Cleanup, "close">>
  /\ taken' = Reverse(closers)
  /\ closers' = <<>>
  /\ UNCHANGED <<dryRun, match, at, abandoned, err, failed, status, keyVars,
                 cleaned, closeErr, called, outcome>>

\* One closer after the other, last registered first, whatever they return.
CloserRuns(fails) ==
  /\ live = <<Cleanup, "close">>
  /\ \E k \in DOMAIN taken :
       /\ cleaned = {taken[j] : j \in 1..(k - 1)}
       /\ cleaned' = cleaned \union {taken[k]}
  /\ closeErr' = (closeErr \/ fails)
  /\ UNCHANGED <<dryRun, match, at, live, abandoned, err, failed, status,
                 keyVars, closers, taken, called, outcome>>

CloseOver_AtError == closeErr \/ cleaned = Range(taken)

\* Close has gone through what it took.
CloseOver == cleaned = Range(taken)

CleanupDone_EarlyOutcome ==
  /\ live = <<Cleanup, "close">>
  /\ CloseOver
  /\ status' = IF closeErr THEN [status EXCEPT ![Cleanup] = Failed] ELSE status
  /\ outcome' = worst(status)
  /\ live' = NoCall
  /\ at' = Cleanup + 1
  /\ UNCHANGED <<dryRun, match, abandoned, err, failed, closeVars, called>>

\* Close returns its errors joined; they make a result of their own, and
\* the scenario's status is the worst of all.
CleanupDone ==
  /\ live = <<Cleanup, "close">>
  /\ CloseOver
  /\ status' = IF closeErr THEN [status EXCEPT ![Cleanup] = Failed] ELSE status
  /\ outcome' = worst(status')
  /\ live' = NoCall
  /\ at' = Cleanup + 1
  /\ UNCHANGED <<dryRun, match, abandoned, err, failed, closeVars, called>>

runScenario ==
  \/ HookSkipped \/ HookStarts
  \/ StepUnmatched \/ StepSkipped \/ StepStarts
  \/ CallAbandoned
  \/ \E e \in Errors : CallReturns(e)
  \/ Close
  \/ \E fails \in BOOLEAN : CloserRuns(fails)
  \/ CleanupDone

Next ==
  \/ runScenario
  \/ \E c \in Calls : AbandonedReturns(c)
  \/ \E c \in Closing : OnClose(c)
  \/ \E c \in Keyed : OfLooks(c) \/ OfStores(c)

Spec == Init /\ [][Next]_vars

\* runScenario goes on: every call returns or is abandoned (TimedCall), and
\* closers return.  Abandoned code need not ever.
FairSpec == Spec /\ WF_vars(runScenario)

Over == at = Cleanup + 1

-----------------------------------------------------------------------------
\* When the scenario is over every closer has run, also after closers that
\* failed.  Only code that was abandoned can leave one behind (OnClose, or a
\* state key's, after Close took the closers), and its result did not pass.
CleanupRuns ==
  Over => /\ cleaned = Range(taken)
          /\ \A c \in Range(closers) : status[c[1]] # Passed

\* Whatever happened in a step, the AfterStep hooks follow its BeforeStep hooks
\* and the After hooks run: what a Before hook set up is taken down.
TeardownRuns ==
  /\ \A i \in Hooked :
       <<i, "beforeStep">> \in called /\ at > i => <<i, "afterStep">> \in called
  /\ Over /\ ~dryRun =>
       \A i \in Hooked : IsAfter(i) => <<i, "hook">> \in called

\* No step code runs after anything before it did not pass: a step that is
\* pending or was skipped by its own code stops the scenario too.
StopsAtFailure ==
  live[2] \in {"beforeStep", "run"} => \A i \in 1..(at - 1) : status[i] = Passed

\* A scenario reported as passed is one in which every step and hook passed,
\* the cleanup succeeded, and neither code nor a closer was left behind.
PassedMeansClean ==
  Over /\ outcome = Passed =>
    /\ abandoned = {} /\ closers = <<>>
    /\ ~closeErr
    /\ \A i \in Hooked : status[i] = Passed

\* Step code and abandoned code that use a state key at once have one value,
\* with one closer, though each may have run the key's init (StateKey.Of).
OneState ==
  /\ \A c \in Keyed : got[c] \in {state, NoCall}
  /\ \A c \in Keyed : c \in Range(closers) \union Range(taken) => c = state

\* A scenario ends even if code it abandoned never returns.
ScenarioEnds == <>Over

=============================================================================
