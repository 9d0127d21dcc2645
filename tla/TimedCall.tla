------------------------------ MODULE TimedCall ------------------------------
(***************************************************************************)
(* withTimeout of internal/runner/scenario.go: one call of a step's or      *)
(* hook's function under a step clock.  The function runs in a goroutine of *)
(* its own; the caller waits for it or for the context, then for it or for  *)
(* the grace period, and leaves a function that ignores cancellation        *)
(* behind.  When two channels of a select are ready either may be taken.    *)
(***************************************************************************)
EXTENDS StepClock

CONSTANT Grace  \* Options.TimeoutGrace

ASSUME GraceAssumption == Grace \in Nat

VARIABLES
  fn,       \* the function: "running", or what it returned (a panic is an error)
  call,     \* where withTimeout is: outer select, inner select, returned
  graceEnd, \* when time.After(TimeoutGrace) fires
  result    \* what withTimeout returned

callVars == <<fn, call, graceEnd, result>>
timedCallVars == <<clockVars, callVars>>

Results == {"nil", "fnError", "parentError", "timeout", "abandoned"}

CallTypeOK ==
  /\ ClockTypeOK
  /\ fn \in {"running", "nil", "error"}
  /\ call \in {"waiting", "grace", "returned"}
  /\ graceEnd \in Nat
  /\ result \in Results \union {"none"}

-----------------------------------------------------------------------------
CallInit ==
  /\ ClockInit
  /\ fn = "running"
  /\ call = "waiting"
  /\ graceEnd = 0
  /\ result = "none"

\* The function returns, in time, late, or long after it was abandoned.
FnReturns ==
  /\ fn = "running"
  /\ fn' \in {"nil", "error"}
  /\ UNCHANGED <<clockVars, call, graceEnd, result>>

\* Scenario.Hold, which withTimeout points at this context until it returns, is
\* called: by the step's function, by a goroutine it started, or by the code of
\* an earlier step that was abandoned and goes on.  It reads the hold and then
\* calls it, which may be after withTimeout returned.
FnHolds(h) == Hold(h) /\ UNCHANGED callVars

FnReleases(h) == Release(h) /\ UNCHANGED callVars

\* withTimeout returns r; its deferred cancel ends the context.
return(r) ==
  /\ call' = "returned"
  /\ result' = r
  /\ Cancel
  /\ UNCHANGED <<fn, graceEnd>>

OuterDone_AnyDeadline ==
  /\ call = "waiting"
  /\ fn # "running"
  /\ return(IF fn = "nil" THEN "nil"
            ELSE IF err = "DeadlineExceeded"
            THEN "timeout" ELSE "fnError")

\* The outer select, done first.  Only an error is read as a timeout: a
\* function that succeeds late has succeeded.
OuterDone ==
  /\ call = "waiting"
  /\ fn # "running"
  /\ return(IF fn = "nil" THEN "nil"
            ELSE IF err = "DeadlineExceeded" /\ parentErr = "none"
            THEN "timeout" ELSE "fnError")

\* The outer select, context first.
OuterCtxDone ==
  /\ call = "waiting"
  /\ err # "none"
  /\ call' = "grace"
  /\ graceEnd' = now + Grace
  /\ UNCHANGED <<clockVars, fn, result>>

\* The inner select: the function returned within the grace period.
InnerDone ==
  /\ call = "grace"
  /\ fn # "running"
  /\ return(IF parentErr # "none" THEN "parentError" ELSE "timeout")

\* The inner select: the grace period is over first.
InnerGraceOver ==
  /\ call = "grace"
  /\ now >= graceEnd
  /\ return(IF parentErr # "none" THEN "parentError" ELSE "abandoned")

\* Time passes while the caller waits out the grace period.
GraceTick ==
  /\ call = "grace"
  /\ now < graceEnd
  /\ Pass
  /\ UNCHANGED callVars

\* What the clock does beside the call; its context lasts as long as the call.
ClockStep ==
  /\ \/ Tick \/ TimerFires \/ Expire \/ ParentDone \/ Watch
  /\ UNCHANGED callVars

CallNext ==
  \/ ClockStep
  \/ FnReturns
  \/ \E h \in HoldCalls : FnHolds(h)
  \/ \E h \in HoldCalls : FnReleases(h)
  \/ OuterDone
  \/ OuterCtxDone
  \/ InnerDone
  \/ InnerGraceOver
  \/ GraceTick

\* Time goes on, the Go runtime runs timers and goroutines, and a select with
\* a ready channel proceeds.  Nothing is assumed of the function: it may never
\* return, never hold and never release; nor need the parent ever end.
CallFairness ==
  /\ WF_timedCallVars(Tick /\ UNCHANGED callVars)
  /\ WF_timedCallVars(TimerFires /\ UNCHANGED callVars)
  /\ WF_timedCallVars(Expire /\ UNCHANGED callVars)
  /\ WF_timedCallVars(Watch /\ UNCHANGED callVars)
  /\ WF_timedCallVars(GraceTick)
  /\ WF_timedCallVars(OuterDone \/ OuterCtxDone)
  /\ WF_timedCallVars(InnerDone \/ InnerGraceOver)

CallSpec == CallInit /\ [][CallNext]_timedCallVars

CallFairSpec == CallSpec /\ CallFairness

-----------------------------------------------------------------------------
\* A step is reported as timed out (or abandoned) only when it used up its
\* whole limit outside holds, whatever raced: an interrupt, the scenario's own
\* timeout, a hold taken as the timer fired, an error returned at that moment.
TimeoutIsEarned == result \in {"timeout", "abandoned"} => ran >= Limit

\* The comment on withTimeout: a hung step cannot hang the run.  The call
\* returns even if the function never does, if its holds are released.
HungStepReturns ==
  (\A h \in HoldCalls : []<>(token[h] # "held")) => <>(call = "returned")

\* The comment on Hold: the scenario's timeout and the end of the run still
\* end a held step, even one whose hold is never released.
EndOfRunReturns == (parentErr # "none") ~> (call = "returned")

=============================================================================
