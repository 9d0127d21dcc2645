---------------------------- MODULE RunnerProofs ----------------------------
(***************************************************************************)
(* Theorems of the runner (internal/runner): the step clock, withTimeout    *)
(* over it, and Run, for every value of their constants.                    *)
(*                                                                         *)
(* The clock's inductive invariant says what its fields mean in each of its *)
(* phases: running, held, and ended; that of the call adds why its context  *)
(* ended.  That of Run says, for each place Run can be in, which scenarios  *)
(* can be in which state, what the counters count, and why a scenario did   *)
(* not run.                                                                 *)
(***************************************************************************)
EXTENDS TimedCall, Scheduler, FiniteSetTheorems, TLAPS


-----------------------------------------------------------------------------
(* The step clock *)

\* x is what is left of the limit, or nothing if the limit has been used up.
Allowance(x) == IF ran <= Limit THEN x = Limit - ran ELSE x <= 0

\* The counter of holds is the number of hold tokens not yet released.
HoldsCounted == holds = Cardinality(Held)

\* The timer is armed exactly while the clock runs; one that fired has its
\* callback on the way, unless a hold had the callback ignored.
TimerPhases ==
  /\ timer = "armed" => err = "none" /\ holds = 0
  /\ timer = "stopped" /\ err = "none" => holds > 0
  /\ timer = "fired" /\ err = "none" /\ holds = 0 => callbacks > 0

\* Callbacks exist only once the limit is used up.
FiredIsLate == timer = "fired" \/ callbacks > 0 => ran >= Limit

\* Running, the allowance lies in the deadline; held, in remaining.
AllowanceKept ==
  /\ err = "none" /\ timer = "armed" => Allowance(deadline - now)
  /\ err = "none" /\ holds > 0 => Allowance(remaining)

\* The inductive invariant of the clock.
ClockInv ==
  /\ ClockTypeOK
  /\ HoldsCounted
  /\ TimerPhases
  /\ FiredIsLate
  /\ AllowanceKept
  /\ ExpiryIsEarned

-----------------------------------------------------------------------------
\* hold() adds one token to those held; release takes one away, and then
\* there was one to take.
LEMMA HeldAdd ==
  ASSUME ClockTypeOK, HoldsCounted, NEW h \in HoldCalls, token[h] # "held",
         token' = [token EXCEPT ![h] = "held"], holds' = holds + 1
  PROVE  HoldsCounted'
<1>1. IsFiniteSet(Held)
  BY ClockAssumption, FS_Subset DEF Held
<1>2. Held' = Held \union {h}
  BY DEF Held, ClockTypeOK
<1>3. h \notin Held
  BY DEF Held
<1>4. Cardinality(Held \union {h}) = Cardinality(Held) + 1
  BY <1>1, <1>3, FS_AddElement
<1> QED
  BY <1>2, <1>4 DEF HoldsCounted

LEMMA HeldRemove ==
  ASSUME ClockTypeOK, HoldsCounted, NEW h \in HoldCalls, token[h] = "held",
         token' = [token EXCEPT ![h] = "released"], holds' = holds - 1
  PROVE  holds > 0 /\ HoldsCounted'
<1>1. IsFiniteSet(Held)
  BY ClockAssumption, FS_Subset DEF Held
<1>2. Held' = Held \ {h}
  BY DEF Held, ClockTypeOK
<1>3. h \in Held
  BY DEF Held
<1>4. Cardinality(Held \ {h}) = Cardinality(Held) - 1
  BY <1>1, <1>3, FS_RemoveElement
<1>5. Cardinality(Held) # 0
  BY <1>1, <1>3, FS_EmptySet
<1> QED
  BY <1>2, <1>4, <1>5 DEF HoldsCounted, ClockTypeOK

LEMMA HeldSame ==
  ASSUME HoldsCounted, UNCHANGED <<holds, Held>>
  PROVE  HoldsCounted'
BY DEF HoldsCounted

-----------------------------------------------------------------------------
LEMMA ClockInitInv == ClockInit => ClockInv
<1> SUFFICES ASSUME ClockInit PROVE ClockInv
  OBVIOUS
<1> USE ClockAssumption DEF ClockInit
<1>1. ClockTypeOK
  BY DEF ClockTypeOK, CtxErrors, TokenStates
<1>2. HoldsCounted
  <2>1. Held = {}
    BY DEF Held
  <2> QED
    BY <2>1, FS_EmptySet DEF HoldsCounted
<1> QED
  BY <1>1, <1>2 DEF ClockInv, TimerPhases, FiredIsLate, AllowanceKept,
                    Allowance, ExpiryIsEarned

\* Time passing keeps the invariant, in a context that goes on and in one
\* that has ended.
LEMMA PassInv == ClockInv /\ Pass => ClockInv'
<1> SUFFICES ASSUME ClockInv, Pass PROVE ClockInv'
  OBVIOUS
<1> USE ClockAssumption DEF ClockInv, ClockTypeOK, Pass, parentVars
<1>1. ClockTypeOK'
  OBVIOUS
<1>2. HoldsCounted'
  BY HeldSame DEF Held
<1>3. TimerPhases' /\ FiredIsLate' /\ ExpiryIsEarned'
  BY DEF TimerPhases, FiredIsLate, ExpiryIsEarned
<1>4. AllowanceKept'
  BY DEF TimerPhases, AllowanceKept, Allowance
<1> QED
  BY <1>1, <1>2, <1>3, <1>4

LEMMA TimerFiresInv == ClockInv /\ TimerFires => ClockInv'
<1> SUFFICES ASSUME ClockInv, TimerFires PROVE ClockInv'
  OBVIOUS
<1> USE ClockAssumption DEF ClockInv, ClockTypeOK, TimerFires, parentVars
<1>1. ClockTypeOK'
  OBVIOUS
<1>2. HoldsCounted'
  BY HeldSame DEF Held
<1>3. ran >= Limit
  BY DEF TimerPhases, AllowanceKept, Allowance
<1> QED
  BY <1>1, <1>2, <1>3 DEF TimerPhases, FiredIsLate, AllowanceKept, Allowance,
                          ExpiryIsEarned

\* A context that ends keeps the invariant, if the error is one it may end
\* with: the step's own expiry only once the limit is used up.
LEMMA EndedInv ==
  ASSUME ClockInv, err' \in CtxErrors, timer' \in {"fired", "stopped"},
         timer' = "fired" => timer = "fired",
         UNCHANGED <<now, parentVars, remaining, deadline, holds, token, ran>>,
         callbacks' \in Nat, callbacks' <= callbacks,
         err' = "DeadlineExceeded" => ran >= Limit \/ parentErr = err'
  PROVE  ClockInv'
<1> USE ClockAssumption DEF ClockInv, ClockTypeOK, parentVars
<1>1. ClockTypeOK' /\ err' # "none"
  BY DEF CtxErrors
<1>2. HoldsCounted'
  BY HeldSame DEF Held
<1> QED
  BY <1>1, <1>2 DEF TimerPhases, FiredIsLate, AllowanceKept, ExpiryIsEarned

LEMMA ExpireInv == ClockInv /\ Expire => ClockInv'
<1> SUFFICES ASSUME ClockInv, Expire PROVE ClockInv'
  OBVIOUS
<1>1. /\ ran >= Limit /\ callbacks' \in Nat /\ callbacks' < callbacks
      /\ UNCHANGED <<now, parentVars, remaining, deadline, holds, token, ran>>
  BY DEF Expire, ClockInv, FiredIsLate, ClockTypeOK
<1>2. CASE err # "none" \/ holds > 0
  <2>1. UNCHANGED <<err, timer>>
    BY <1>2 DEF Expire, finish
  <2>2. ClockTypeOK'
    BY <1>1, <2>1 DEF ClockInv, ClockTypeOK, parentVars
  <2>3. HoldsCounted'
    BY <1>1, HeldSame DEF ClockInv, Held
  <2> QED
    BY <1>1, <1>2, <2>1, <2>2, <2>3
       DEF ClockInv, parentVars, TimerPhases, FiredIsLate, AllowanceKept,
           Allowance, ExpiryIsEarned
<1>3. CASE ~(err # "none" \/ holds > 0)
  <2>1. err' = "DeadlineExceeded" /\ timer' \in {"fired", "stopped"}
        /\ (timer' = "fired" => timer = "fired")
    BY <1>3 DEF Expire, finish, ClockInv, ClockTypeOK
  <2> QED
    BY <1>1, <2>1, EndedInv DEF CtxErrors, ClockInv, ClockTypeOK
<1> QED
  BY <1>2, <1>3

LEMMA ParentDoneInv == ClockInv /\ ParentDone => ClockInv'
<1> SUFFICES ASSUME ClockInv, ParentDone PROVE ClockInv'
  OBVIOUS
<1> USE ClockAssumption DEF ClockInv, ClockTypeOK, ParentDone
<1>1. ClockTypeOK'
  BY DEF CtxErrors
<1>2. HoldsCounted'
  BY HeldSame DEF Held
<1> QED
  BY <1>1, <1>2 DEF TimerPhases, FiredIsLate, AllowanceKept, Allowance,
                    ExpiryIsEarned

LEMMA WatchInv == ClockInv /\ Watch => ClockInv'
<1> SUFFICES ASSUME ClockInv, Watch PROVE ClockInv'
  OBVIOUS
<1>1. /\ err' = parentErr /\ parentErr \in CtxErrors
      /\ timer' \in {"fired", "stopped"} /\ (timer' = "fired" => timer = "fired")
      /\ callbacks' \in Nat /\ callbacks' <= callbacks
      /\ UNCHANGED <<now, parentVars, remaining, deadline, holds, token, ran>>
  BY DEF Watch, finish, ClockInv, ClockTypeOK, CtxErrors
<1> QED
  BY <1>1, EndedInv

LEMMA CancelInv == ClockInv /\ Cancel => ClockInv'
<1> SUFFICES ASSUME ClockInv, Cancel PROVE ClockInv'
  OBVIOUS
<1>1. /\ callbacks' \in Nat /\ callbacks' <= callbacks
      /\ UNCHANGED <<now, parentVars, remaining, deadline, holds, token, ran>>
  BY DEF Cancel, ClockInv, ClockTypeOK
<1>2. CASE err # "none"
  <2>1. UNCHANGED <<err, timer, callbacks>>
    BY <1>2 DEF Cancel, finish
  <2>2. ClockTypeOK'
    BY <1>1, <2>1 DEF ClockInv, ClockTypeOK, parentVars
  <2>3. HoldsCounted'
    BY <1>1, HeldSame DEF ClockInv, Held
  <2> QED
    BY <1>1, <2>1, <2>2, <2>3
       DEF ClockInv, parentVars, TimerPhases, FiredIsLate, AllowanceKept,
           Allowance, ExpiryIsEarned
<1>3. CASE err = "none"
  <2>1. err' = "Canceled" /\ timer' \in {"fired", "stopped"}
        /\ (timer' = "fired" => timer = "fired")
    BY <1>3 DEF Cancel, finish, ClockInv, ClockTypeOK
  <2> QED
    BY <1>1, <2>1, EndedInv DEF CtxErrors
<1> QED
  BY <1>2, <1>3 DEF ClockInv, ClockTypeOK

LEMMA HoldInv ==
  ASSUME ClockInv, NEW h \in HoldCalls, Hold(h)
  PROVE  ClockInv'
<1> USE ClockAssumption DEF ClockInv, ClockTypeOK, Hold, parentVars
<1>1. ClockTypeOK'
  BY DEF TokenStates
<1>2. CASE err # "none"
  <2>1. HoldsCounted'
    BY <1>2, HeldSame DEF Held
  <2> QED
    BY <1>1, <1>2, <2>1 DEF TimerPhases, FiredIsLate, AllowanceKept,
                            ExpiryIsEarned
<1>3. CASE err = "none" /\ holds > 0
  <2>1. HoldsCounted'
    BY <1>3, HeldAdd
  <2> QED
    BY <1>1, <1>3, <2>1 DEF TimerPhases, FiredIsLate, AllowanceKept, Allowance,
                            ExpiryIsEarned
<1>4. CASE err = "none" /\ holds = 0
  <2>1. HoldsCounted'
    BY <1>4, HeldAdd
  <2>2. AllowanceKept'
    BY <1>4 DEF TimerPhases, FiredIsLate, AllowanceKept, Allowance
  <2> QED
    BY <1>1, <1>4, <2>1, <2>2 DEF TimerPhases, FiredIsLate, ExpiryIsEarned
<1> QED
  BY <1>2, <1>3, <1>4

LEMMA ReleaseInv ==
  ASSUME ClockInv, NEW h \in HoldCalls, Release(h)
  PROVE  ClockInv'
<1> USE ClockAssumption DEF ClockInv, Release, parentVars
<1>1. CASE token[h] # "held"
  <2>1. UNCHANGED <<holds, Held>>
    BY <1>1 DEF Held
  <2> QED
    BY <1>1, <2>1, HeldSame DEF ClockTypeOK, TimerPhases, FiredIsLate,
                                AllowanceKept, Allowance, ExpiryIsEarned
<1>2. CASE token[h] = "held"
  <2>1. holds > 0 /\ HoldsCounted'
    BY <1>2, HeldRemove
  <2>2. CASE holds' = 0 /\ err = "none"
    <3>1. ClockTypeOK'
      BY <1>2, <2>1, <2>2 DEF ClockTypeOK, TokenStates, startLocked
    <3>2. AllowanceKept'
      BY <1>2, <2>1, <2>2 DEF ClockTypeOK, startLocked, AllowanceKept,
                              Allowance
    <3> QED
      BY <1>2, <2>1, <2>2, <3>1, <3>2
         DEF ClockTypeOK, startLocked, TimerPhases, FiredIsLate, ExpiryIsEarned
  <2>3. CASE ~(holds' = 0 /\ err = "none")
    <3>1. ClockTypeOK'
      BY <1>2, <2>1, <2>3 DEF ClockTypeOK, TokenStates
    <3>2. UNCHANGED <<now, parentVars, err, remaining, deadline, timer,
                      callbacks, ran>>
      BY <1>2, <2>3
    <3>3. holds \in Nat /\ holds' = holds - 1
      BY <1>2 DEF ClockTypeOK
    <3>4. CASE err # "none"
      BY <2>1, <3>1, <3>2, <3>3, <3>4
         DEF TimerPhases, FiredIsLate, AllowanceKept, ExpiryIsEarned
    <3>5. CASE err = "none" /\ holds' # 0
      BY <2>1, <3>1, <3>2, <3>3, <3>5
         DEF TimerPhases, FiredIsLate, AllowanceKept, Allowance, ExpiryIsEarned
    <3> QED
      BY <2>3, <3>4, <3>5
  <2> QED
    BY <2>2, <2>3
<1> QED
  BY <1>1, <1>2

\* The invariant is inductive.
LEMMA ClockNextInv == ClockInv /\ [ClockNext]_clockVars => ClockInv'
<1> SUFFICES ASSUME ClockInv, [ClockNext]_clockVars PROVE ClockInv'
  OBVIOUS
<1>1. CASE Tick
  BY <1>1, PassInv DEF Tick
<1>2. CASE UNCHANGED clockVars
  <2>1. UNCHANGED Held
    BY <1>2 DEF clockVars, Held
  <2> QED
    BY <1>2, <2>1 DEF clockVars, parentVars, ClockInv, ClockTypeOK,
         HoldsCounted, TimerPhases, FiredIsLate, AllowanceKept, Allowance,
         ExpiryIsEarned
<1> QED
  BY <1>1, <1>2, TimerFiresInv, ExpireInv, ParentDoneInv, WatchInv, HoldInv,
     ReleaseInv, CancelInv DEF ClockNext

-----------------------------------------------------------------------------
LEMMA ClockInvariant == ClockSpec => []ClockInv
BY ClockInitInv, ClockNextInv, PTL DEF ClockSpec

\* The clock's fields keep their types: the count of holds never goes below
\* zero, however often a release function is called.
THEOREM ClockTypeCorrect == ClockSpec => []ClockTypeOK
BY ClockInvariant, PTL DEF ClockInv

\* stepContext never ends a step by its own clock before the step has run for
\* its whole limit outside holds.
THEOREM ExpiryEarned == ClockSpec => []ExpiryIsEarned
BY ClockInvariant, PTL DEF ClockInv

\* stepContext never loses an expiry that a hold had ignored.
THEOREM ExpiryKept == ClockSpec => []ExpiryNotLost
<1>1. ClockInv => ExpiryNotLost
  BY DEF ClockInv, ClockTypeOK, TimerPhases, ExpiryNotLost
<1> QED
  BY <1>1, ClockInvariant, PTL

\* Deadline() of a running stepContext is exactly what is left of the limit,
\* unless the scenario's deadline comes first.
THEOREM DeadlineCorrect == ClockSpec => []DeadlineIsAllowance
<1>1. ClockInv => DeadlineIsAllowance
  BY ClockAssumption DEF ClockInv, ClockTypeOK, TimerPhases, AllowanceKept,
     Allowance, DeadlineIsAllowance, Deadline, NoDeadline
<1> QED
  BY <1>1, ClockInvariant, PTL

\* A held stepContext does not end by its own clock.
THEOREM HeldClockStands == ClockSpec => NeverExpiresHeld
<1>1. ClockInv /\ [ClockNext]_clockVars
        => [err = "none" /\ err' = "DeadlineExceeded"
              /\ parentErr # "DeadlineExceeded" => holds = 0]_clockVars
  <2> SUFFICES ASSUME ClockInv, [ClockNext]_clockVars, err = "none",
                      err' = "DeadlineExceeded",
                      parentErr # "DeadlineExceeded"
               PROVE  holds = 0
    OBVIOUS
  <2>1. Expire
    BY DEF ClockNext, clockVars, Tick, Pass, TimerFires, ParentDone, Watch,
           Hold, Release, Cancel, finish
  <2> QED
    BY <2>1 DEF Expire, finish, ClockInv, ClockTypeOK
<1> QED
  BY <1>1, ClockInvariant, PTL DEF ClockSpec, NeverExpiresHeld

-----------------------------------------------------------------------------
(* withTimeout *)

\* While the call is on, its context ended by itself or because its parent
\* did; only the deferred cancel of a call that returned ends it otherwise.
EndHasCause ==
  /\ call = "grace" => err # "none"
  /\ call # "returned" /\ err = "Canceled" => parentErr # "none"

CallInv ==
  /\ ClockInv
  /\ CallTypeOK
  /\ EndHasCause
  /\ TimeoutIsEarned

-----------------------------------------------------------------------------
\* What the clock does while the call is on.
LEMMA ClockStepInv == CallInv /\ ClockStep => CallInv'
<1> SUFFICES ASSUME CallInv, ClockStep PROVE CallInv'
  OBVIOUS
<1>1. ClockInv'
  BY ClockNextInv DEF CallInv, ClockStep, ClockNext
<1>2. CallTypeOK'
  BY <1>1 DEF CallInv, CallTypeOK, ClockInv, ClockStep, callVars
<1>3. EndHasCause'
  <2>1. CASE Tick \/ TimerFires \/ ParentDone
    BY <2>1 DEF CallInv, ClockStep, EndHasCause, callVars, Tick, Pass,
                TimerFires, ParentDone, parentVars
  <2>2. CASE Expire \/ Watch
    BY <2>2 DEF CallInv, ClockStep, EndHasCause, callVars, Expire, Watch,
                finish, parentVars
  <2> QED
    BY <2>1, <2>2 DEF ClockStep
<1>4. TimeoutIsEarned'
  <2>1. ran' \in {ran, ran + 1}
    BY DEF ClockStep, Tick, Pass, TimerFires, Expire, ParentDone, Watch
  <2> QED
    BY <2>1, ClockAssumption
       DEF CallInv, ClockInv, ClockTypeOK, ClockStep, callVars, TimeoutIsEarned
<1> QED
  BY <1>1, <1>2, <1>3, <1>4 DEF CallInv

\* Steps of the function and its holds.
LEMMA FnInv ==
  ASSUME CallInv,
         \/ FnReturns
         \/ \E h \in HoldCalls : FnHolds(h)
         \/ \E h \in HoldCalls : FnReleases(h)
  PROVE  CallInv'
<1>1. CASE FnReturns
  <2>1. UNCHANGED clockVars
    BY <1>1 DEF FnReturns
  <2>2. ClockInv'
    BY <2>1, ClockNextInv DEF CallInv
  <2> QED
    BY <1>1, <2>1, <2>2
       DEF CallInv, CallTypeOK, ClockInv, FnReturns, EndHasCause, TimeoutIsEarned,
           clockVars, parentVars
<1>2. ASSUME NEW h \in HoldCalls, FnHolds(h) \/ FnReleases(h)
      PROVE  CallInv'
  <2>1. Hold(h) \/ Release(h)
    BY <1>2 DEF FnHolds, FnReleases
  <2>2. ClockInv'
    BY <2>1, HoldInv, ReleaseInv DEF CallInv
  <2>3. UNCHANGED <<parentErr, err, ran, fn, call, graceEnd, result>>
    BY <1>2 DEF FnHolds, FnReleases, Hold, Release, callVars, parentVars
  <2> QED
    BY <2>2, <2>3 DEF CallInv, CallTypeOK, ClockInv, EndHasCause, TimeoutIsEarned
<1> QED
  BY <1>1, <1>2

\* Returning keeps the invariant when a timeout is reported only after the
\* limit.
LEMMA ReturnInv ==
  ASSUME CallInv, Cancel, call' = "returned", UNCHANGED <<fn, graceEnd>>,
         result' \in Results,
         result' \in {"timeout", "abandoned"} => ran >= Limit
  PROVE  CallInv'
<1>1. ClockInv'
  BY CancelInv DEF CallInv
<1>2. UNCHANGED ran
  BY DEF Cancel
<1> QED
  BY <1>1, <1>2 DEF CallInv, ClockInv, CallTypeOK, EndHasCause, TimeoutIsEarned

LEMMA SelectInv ==
  ASSUME CallInv, OuterDone \/ OuterCtxDone \/ InnerDone \/ InnerGraceOver
  PROVE  CallInv'
<1>1. CASE OuterDone
  <2>1. result' \in {"timeout", "abandoned"} => ran >= Limit
    BY <1>1 DEF OuterDone, return, CallInv, ClockInv, ExpiryIsEarned
  <2>2. result' \in Results
    BY <1>1 DEF OuterDone, return, Results
  <2> QED
    BY <1>1, <2>1, <2>2, ReturnInv DEF OuterDone, return
<1>2. CASE OuterCtxDone
  <2>1. ClockInv'
    BY <1>2, ClockNextInv DEF CallInv, OuterCtxDone
  <2> QED
    BY <1>2, <2>1, GraceAssumption
       DEF OuterCtxDone, CallInv, ClockInv, ClockTypeOK, CallTypeOK, EndHasCause,
           TimeoutIsEarned, clockVars, parentVars
<1>3. CASE InnerDone \/ InnerGraceOver
  <2>1. parentErr = "none" => ran >= Limit
    BY <1>3 DEF InnerDone, InnerGraceOver, CallInv, EndHasCause, ClockInv,
                ClockTypeOK, CtxErrors, ExpiryIsEarned
  <2>2. result' \in Results /\ (result' \in {"timeout", "abandoned"} => ran >= Limit)
    BY <1>3, <2>1 DEF InnerDone, InnerGraceOver, return, Results
  <2> QED
    BY <1>3, <2>2, ReturnInv DEF InnerDone, InnerGraceOver, return
<1> QED
  BY <1>1, <1>2, <1>3

LEMMA GraceTickInv == CallInv /\ GraceTick => CallInv'
<1> SUFFICES ASSUME CallInv, GraceTick PROVE CallInv'
  OBVIOUS
<1>1. ClockInv'
  BY PassInv DEF CallInv, GraceTick
<1>2. UNCHANGED <<parentErr, err, ran, fn, call, graceEnd, result>>
  BY DEF CallInv, EndHasCause, GraceTick, Pass, callVars, parentVars
<1> QED
  BY <1>1, <1>2 DEF CallInv, CallTypeOK, ClockInv, EndHasCause, TimeoutIsEarned

\* The invariant is inductive.
LEMMA CallInvariant == CallSpec => []CallInv
<1>1. CallInit => CallInv
  BY ClockInitInv DEF CallInit, CallInv, ClockInv, CallTypeOK, EndHasCause,
                      TimeoutIsEarned, ClockInit
<1>2. CallInv /\ [CallNext]_timedCallVars => CallInv'
  <2> SUFFICES ASSUME CallInv, [CallNext]_timedCallVars PROVE CallInv'
    OBVIOUS
  <2>1. CASE UNCHANGED timedCallVars
    <3>1. ClockInv'
      BY <2>1, ClockNextInv DEF CallInv, timedCallVars
    <3> QED
      BY <2>1, <3>1 DEF timedCallVars, clockVars, parentVars, callVars, CallInv, CallTypeOK,
                        ClockInv, EndHasCause, TimeoutIsEarned
  <2> QED
    BY <2>1, ClockStepInv, FnInv, SelectInv, GraceTickInv DEF CallNext
<1> QED
  BY <1>1, <1>2, PTL DEF CallSpec

\* withTimeout and the clock under it keep their types.
THEOREM CallTypeCorrect == CallSpec => []CallTypeOK
BY CallInvariant, PTL DEF CallInv

\* withTimeout says "timed out" only of a step that had its whole limit.
THEOREM TimeoutEarned == CallSpec => []TimeoutIsEarned
BY CallInvariant, PTL DEF CallInv

-----------------------------------------------------------------------------
(* Run *)


EndPlaces == {"sort", "afterRun", "finish", "returned"}
ParallelPlaces == {"loop", "select", "drain"}
SerialPlaces == {"serial", "serialRun"}

Waiting == InState({"waiting"})

\* Which scenarios may be where, by the phase Run is in.
PhaseInv ==
  /\ main \in ParallelPlaces =>
       /\ left \subseteq Parallel \intersect Waiting
       /\ exclusive \subseteq Waiting
  /\ main \in SerialPlaces =>
       /\ left = exclusive \intersect Waiting
       /\ \A i \in Parallel : state[i] \notin Busy
       /\ \A i, j \in exclusive :
            state[i] \in Busy /\ state[j] \in Busy => i = j
  /\ main = "serialRun" => \A i \in exclusive : state[i] \notin Busy
  /\ main \in EndPlaces => \A i \in Pickles : state[i] \notin Busy

\* Who runs what: exclusive scenarios run in Run itself.
PlaceInv ==
  /\ \A i \in exclusive : on[i] = 0
  /\ \A i \in Parallel : state[i] \in Busy => on[i] \in WorkerIDs

\* What the counters count.
CountInv ==
  /\ appended = Cardinality(InState({"appended", "reported", "done"}))
  /\ dispatched = Cardinality(Parallel \ Waiting)
  /\ main \in {"loop", "select"} => notRun = 0
  /\ main \in SerialPlaces \union {"drain"} =>
       notRun = Cardinality(Parallel \intersect Waiting)
  /\ main \in EndPlaces => notRun = Cardinality(Waiting)

\* After runCtx is done Run has at most one more to start: it is past one of
\* its two looks at the context, and the next one ends the loop.
LateInv ==
  /\ ~runErr => late = 0
  /\ late > 0 => main \notin {"select", "serialRun"}

RunInv == TypeOK /\ PhaseInv /\ PlaceInv /\ CountInv /\ LateInv

-----------------------------------------------------------------------------
LEMMA PicklesFinite ==
  /\ IsFiniteSet(Pickles) /\ Cardinality(Pickles) = N
  /\ \A S \in SUBSET Pickles : IsFiniteSet(S) /\ Cardinality(S) \in 0..N
<1>1. IsFiniteSet(Pickles) /\ Cardinality(Pickles) = N
  BY FS_Interval, RunAssumption DEF Pickles
<1>2. ASSUME NEW S \in SUBSET Pickles
      PROVE  IsFiniteSet(S) /\ Cardinality(S) \in 0..N
  <2>1. IsFiniteSet(S) /\ Cardinality(S) <= Cardinality(Pickles)
    BY <1>1, FS_Subset
  <2>2. Cardinality(S) \in Nat
    BY <2>1, FS_CardinalityType
  <2> QED
    BY <1>1, <2>1, <2>2, RunAssumption
<1> QED
  BY <1>1, <1>2

LEMMA CardAdd ==
  ASSUME NEW S \in SUBSET Pickles, NEW x \in Pickles, x \notin S
  PROVE  Cardinality(S \union {x}) = Cardinality(S) + 1
BY PicklesFinite, FS_AddElement

\* The scenarios that wait and those that do not make up a set of them.
LEMMA CardSplit ==
  ASSUME NEW S \in SUBSET Pickles, NEW T \in SUBSET Pickles,
         S \intersect T = {}
  PROVE  Cardinality(S \union T) = Cardinality(S) + Cardinality(T)
<1>1. IsFiniteSet(S) /\ IsFiniteSet(T)
  BY PicklesFinite
<1>2. Cardinality(S) \in Nat /\ Cardinality(T) \in Nat
  BY <1>1, FS_CardinalityType
<1>3. Cardinality(S \union T)
        = Cardinality(S) + Cardinality(T) - Cardinality(S \intersect T)
  BY <1>1, FS_Union
<1>4. Cardinality(S \intersect T) = 0
  BY FS_EmptySet
<1> QED
  BY <1>2, <1>3, <1>4

\* A count that is that of a set of scenarios is in range.
LEMMA CountsInRange ==
  ASSUME RunInv
  PROVE  /\ Cardinality(Parallel) - dispatched
              = Cardinality(Parallel \intersect Waiting)
         /\ Cardinality(Parallel \intersect Waiting) \in 0..N
<1>1. Parallel \ Waiting \in SUBSET Pickles /\ Parallel \intersect Waiting \in SUBSET Pickles
  BY DEF Parallel, Waiting, InState
<1>2. Parallel = (Parallel \ Waiting) \union (Parallel \intersect Waiting)
  OBVIOUS
<1>3. Cardinality(Parallel)
        = Cardinality(Parallel \ Waiting) + Cardinality(Parallel \intersect Waiting)
  BY <1>1, <1>2, CardSplit
<1>4. Cardinality(Parallel \ Waiting) \in 0..N
      /\ Cardinality(Parallel \intersect Waiting) \in 0..N
  BY <1>1, PicklesFinite
<1> QED
  BY <1>3, <1>4, RunAssumption DEF RunInv, CountInv

\* A scenario that starts leaves those waiting, and is counted once more
\* among those that do not wait.
LEMMA StartMoves ==
  ASSUME TypeOK, NEW i \in Pickles, state[i] = "waiting",
         state' = [state EXCEPT ![i] = "running"], UNCHANGED exclusive
  PROVE  /\ Waiting' = Waiting \ {i}
         /\ Parallel' = Parallel
         /\ InState({"appended", "reported", "done"})'
              = InState({"appended", "reported", "done"})
         /\ \A j \in Pickles : j # i => state'[j] = state[j]
         /\ state'[i] = "running"
         /\ state' \in [Pickles -> Started \union {"waiting"}]
         /\ i \in Parallel => Cardinality(Parallel' \ Waiting')
                                = Cardinality(Parallel \ Waiting) + 1
         /\ i \notin Parallel => Parallel' \ Waiting' = Parallel \ Waiting
<1> USE DEF TypeOK
<1>1. /\ Waiting' = Waiting \ {i}
      /\ InState({"appended", "reported", "done"})'
           = InState({"appended", "reported", "done"})
  BY DEF Waiting, InState, Pickles
<1>2. Parallel' = Parallel
  BY DEF Parallel
<1>3. i \in Waiting
  BY DEF Waiting, InState
<1>4. i \in Parallel => Cardinality(Parallel' \ Waiting')
                                = Cardinality(Parallel \ Waiting) + 1
  <2> SUFFICES ASSUME i \in Parallel
               PROVE  Cardinality(Parallel' \ Waiting')
                        = Cardinality(Parallel \ Waiting) + 1
    OBVIOUS
  <2>1. Parallel' \ Waiting' = (Parallel \ Waiting) \union {i}
    BY <1>1, <1>2
  <2> QED
    BY <1>3, <2>1, CardAdd DEF Parallel
<1>5. i \notin Parallel => Parallel' \ Waiting' = Parallel \ Waiting
  BY <1>1, <1>2
<1> QED
  BY <1>1, <1>2, <1>4, <1>5 DEF Started

\* A scenario that is under way moves on without waiting again.
LEMMA WorkMoves ==
  ASSUME TypeOK, NEW i \in Pickles, state[i] # "waiting",
         NEW s \in Started, state' = [state EXCEPT ![i] = s],
         UNCHANGED exclusive
  PROVE  /\ Waiting' = Waiting
         /\ Parallel' = Parallel
         /\ WorkerIDs' = WorkerIDs
         /\ \A j \in Pickles : j # i => state'[j] = state[j]
         /\ state'[i] = s
         /\ state' \in [Pickles -> Started \union {"waiting"}]
BY DEF TypeOK, Waiting, InState, Parallel, WorkerIDs, Started

LEMMA InitInv == Init => RunInv
<1> SUFFICES ASSUME Init PROVE RunInv
  OBVIOUS
<1>1. TypeOK
  <2>1. 0 \in 0..N /\ 0 \in 0..Workers /\ Passed \in Passed..Failed
    BY RunAssumption DEF Passed, Failed
  <2> QED
    BY <2>1 DEF Init, TypeOK, Started, Parallel
<1>2. Waiting = Pickles /\ InState({"appended", "reported", "done"}) = {}
  BY DEF Init, Waiting, InState
<1>3. Parallel \ Waiting = {}
  BY <1>2 DEF Parallel
<1>4. CountInv
  BY <1>2, <1>3, FS_EmptySet DEF Init, CountInv, SerialPlaces, EndPlaces
<1>5. PhaseInv
  BY <1>2 DEF Init, PhaseInv, ParallelPlaces, SerialPlaces, EndPlaces, Parallel
<1>6. PlaceInv /\ LateInv
  BY DEF Init, PlaceInv, LateInv, Busy, Parallel, Pickles
<1> QED
  BY <1>1, <1>4, <1>5, <1>6 DEF RunInv

\* The steps of Run that start no scenario leave the scenarios alone.
LEMMA QuietMoves ==
  ASSUME TypeOK, UNCHANGED <<exclusive, state, on>>
  PROVE  /\ Waiting' = Waiting
         /\ Parallel' = Parallel
         /\ WorkerIDs' = WorkerIDs
         /\ InState({"appended", "reported", "done"})'
              = InState({"appended", "reported", "done"})
         /\ \A w : Idle(w) => Idle(w)'
BY DEF Waiting, InState, Parallel, WorkerIDs, Idle

LEMMA LoopInv ==
  ASSUME RunInv, LoopBreak \/ LoopSelect \/ Interrupt
  PROVE  RunInv'
<1> USE DEF RunInv
<1>0. UNCHANGED <<exclusive, state, on, left, dispatched, appended, late>>
  BY DEF LoopBreak, LoopSelect, Interrupt
<1>1. /\ Waiting' = Waiting /\ Parallel' = Parallel /\ WorkerIDs' = WorkerIDs
      /\ InState({"appended", "reported", "done"})'
           = InState({"appended", "reported", "done"})
  BY <1>0, QuietMoves
<1>2. PlaceInv'
  BY <1>0, <1>1 DEF PlaceInv
<1>3. CASE LoopBreak
  <2>1. notRun' = Cardinality(Parallel \intersect Waiting) /\ notRun' \in 0..N
    BY <1>3, CountsInRange, RunAssumption DEF LoopBreak, CountInv, TypeOK
  <2>2. TypeOK'
    BY <1>3, <2>1 DEF LoopBreak, TypeOK
  <2>3. PhaseInv' /\ CountInv' /\ LateInv'
    BY <1>0, <1>1, <1>3, <2>1
       DEF LoopBreak, PhaseInv, CountInv, LateInv, ParallelPlaces, SerialPlaces,
           EndPlaces
  <2> QED
    BY <1>2, <2>2, <2>3
<1>4. CASE LoopSelect
  <2>1. TypeOK'
    BY <1>4 DEF LoopSelect, TypeOK
  <2>2. PhaseInv' /\ CountInv' /\ LateInv'
    BY <1>0, <1>1, <1>4
       DEF LoopSelect, PhaseInv, CountInv, LateInv, ParallelPlaces, SerialPlaces, EndPlaces,
           TypeOK
  <2> QED
    BY <1>2, <2>1, <2>2
<1>5. CASE Interrupt
  <2>1. TypeOK'
    BY <1>5 DEF Interrupt, TypeOK
  <2>2. PhaseInv' /\ CountInv' /\ LateInv'
    BY <1>0, <1>1, <1>5
       DEF Interrupt, PhaseInv, CountInv, LateInv, ParallelPlaces, SerialPlaces, EndPlaces
  <2> QED
    BY <1>2, <2>1, <2>2
<1> QED
  BY <1>3, <1>4, <1>5

LEMMA SelectSendInv ==
  ASSUME RunInv, NEW i \in Pickles, NEW w \in WorkerIDs, SelectSend(i, w)
  PROVE  RunInv'
<1> USE DEF RunInv
<1>1. i \in Parallel /\ state[i] = "waiting"
  BY DEF SelectSend, First, PhaseInv, ParallelPlaces, Waiting, InState
<1>2. /\ Waiting' = Waiting \ {i}
      /\ Parallel' = Parallel
      /\ InState({"appended", "reported", "done"})'
           = InState({"appended", "reported", "done"})
      /\ \A j \in Pickles : j # i => state'[j] = state[j]
      /\ state' \in [Pickles -> Started \union {"waiting"}]
      /\ Cardinality(Parallel' \ Waiting') = Cardinality(Parallel \ Waiting) + 1
  BY <1>1, StartMoves DEF SelectSend, run
<1>3. WorkerIDs' = WorkerIDs /\ w \in 0..Workers
  <2>1. Parallel \in SUBSET Pickles
    BY DEF Parallel
  <2>2. Cardinality(Parallel) \in Nat
    BY <2>1, PicklesFinite
  <2> QED
    BY <1>2, <2>2, RunAssumption DEF WorkerIDs
<1>4. dispatched' = Cardinality(Parallel' \ Waiting')
  BY <1>2 DEF SelectSend, CountInv
<1>5. dispatched' \in 0..N
  <2>1. Parallel' \ Waiting' \in SUBSET Pickles
    BY <1>2 DEF Parallel
  <2> QED
    BY <1>4, <2>1, PicklesFinite
<1>6. TypeOK'
  BY <1>2, <1>3, <1>5 DEF SelectSend, run, TypeOK
<1>7. PhaseInv'
  BY <1>1, <1>2 DEF SelectSend, PhaseInv, ParallelPlaces, SerialPlaces, EndPlaces, Parallel
<1>8. PlaceInv'
  BY <1>1, <1>2, <1>3 DEF SelectSend, run, PlaceInv, Parallel, TypeOK
<1>9. CountInv' /\ LateInv'
  BY <1>2, <1>4 DEF SelectSend, run, CountInv, LateInv, SerialPlaces,
                        EndPlaces, TypeOK
<1> QED
  BY <1>6, <1>7, <1>8, <1>9

LEMMA QuietInv ==
  ASSUME RunInv, (\E i \in Pickles : SelectDone(i)) \/ Drain \/ SerialCheck
  PROVE  RunInv'
<1> USE DEF RunInv
<1>0. UNCHANGED <<exclusive, state, on, dispatched, notRun, appended, late,
                  status, runErr, ctxErr, interrupted, runErrors>>
  BY DEF SelectDone, Drain, SerialCheck
<1>1. /\ Waiting' = Waiting /\ Parallel' = Parallel /\ WorkerIDs' = WorkerIDs
      /\ InState({"appended", "reported", "done"})'
           = InState({"appended", "reported", "done"})
  BY <1>0, QuietMoves
<1>2. PlaceInv'
  BY <1>0, <1>1 DEF PlaceInv
<1>3. ASSUME NEW i \in Pickles, SelectDone(i) PROVE RunInv'
  <2>1. TypeOK'
    BY <1>0, <1>3 DEF SelectDone, TypeOK
  <2>2. PhaseInv' /\ CountInv' /\ LateInv'
    BY <1>0, <1>1, <1>3
       DEF SelectDone, PhaseInv, CountInv, LateInv, ParallelPlaces, SerialPlaces, EndPlaces
  <2> QED
    BY <1>2, <2>1, <2>2
<1>4. CASE Drain
  <2>1. TypeOK'
    BY <1>0, <1>4 DEF Drain, TypeOK
  <2>2. \A i \in Parallel : state[i] \notin Busy
    BY <1>4 DEF Drain, PlaceInv, Idle, Parallel
  <2>3. \A i \in exclusive : state[i] \notin Busy
    BY <1>4 DEF Drain, PhaseInv, ParallelPlaces, Waiting, InState, Busy
  <2>4. PhaseInv'
    BY <1>0, <1>1, <1>4, <2>2, <2>3
       DEF Drain, PhaseInv, ParallelPlaces, SerialPlaces, EndPlaces
  <2>5. CountInv' /\ LateInv'
    BY <1>0, <1>1, <1>4 DEF Drain, CountInv, LateInv, SerialPlaces, EndPlaces
  <2> QED
    BY <1>2, <2>1, <2>4, <2>5
<1>5. CASE SerialCheck
  <2>1. TypeOK'
    BY <1>0, <1>5 DEF SerialCheck, TypeOK
  <2>2. \A i \in exclusive : state[i] \notin Busy
    BY <1>5 DEF SerialCheck, Idle, PlaceInv, TypeOK
  <2>3. PhaseInv'
    BY <1>0, <1>1, <1>5, <2>2
       DEF SerialCheck, PhaseInv, ParallelPlaces, SerialPlaces, EndPlaces
  <2>4. CountInv' /\ LateInv'
    BY <1>0, <1>1, <1>5
       DEF SerialCheck, CountInv, LateInv, SerialPlaces, EndPlaces
  <2> QED
    BY <1>2, <2>1, <2>3, <2>4
<1> QED
  BY <1>3, <1>4, <1>5

LEMMA SerialRunInv ==
  ASSUME RunInv, NEW i \in Pickles, SerialRun(i)
  PROVE  RunInv'
<1> USE DEF RunInv
<1>1. i \in exclusive /\ state[i] = "waiting" /\ i \notin Parallel
  BY DEF SerialRun, First, PhaseInv, SerialPlaces, Waiting, InState, Parallel
<1>2. /\ Waiting' = Waiting \ {i}
      /\ Parallel' = Parallel
      /\ InState({"appended", "reported", "done"})'
           = InState({"appended", "reported", "done"})
      /\ \A j \in Pickles : j # i => state'[j] = state[j]
      /\ state' \in [Pickles -> Started \union {"waiting"}]
      /\ Parallel' \ Waiting' = Parallel \ Waiting
  BY <1>1, StartMoves DEF SerialRun, run
<1>3. \A j \in exclusive : state[j] \notin Busy
  BY DEF SerialRun, PhaseInv
<1>4. TypeOK'
  <2>1. 0 \in 0..Workers
    BY RunAssumption
  <2> QED
    BY <1>2, <2>1 DEF SerialRun, run, TypeOK
<1>5. PhaseInv'
  <2>1. left' = exclusive' \intersect Waiting'
    BY <1>2 DEF SerialRun, PhaseInv, SerialPlaces
  <2>2. \A j \in Parallel' : state'[j] \notin Busy
    BY <1>1, <1>2 DEF SerialRun, PhaseInv, SerialPlaces, Parallel
  <2>3. \A j, k \in exclusive' :
          state'[j] \in Busy /\ state'[k] \in Busy => j = k
    BY <1>2, <1>3 DEF SerialRun, TypeOK
  <2> QED
    BY <2>1, <2>2, <2>3 DEF SerialRun, PhaseInv, ParallelPlaces, SerialPlaces, EndPlaces
<1>6. PlaceInv'
  <2>1. WorkerIDs' = WorkerIDs
    BY <1>2 DEF WorkerIDs
  <2> QED
    BY <1>1, <1>2, <2>1 DEF SerialRun, run, PlaceInv, Parallel, TypeOK
<1>7. CountInv'
  <2>1. Parallel' \intersect Waiting' = Parallel \intersect Waiting
    BY <1>1, <1>2
  <2> QED
    BY <1>2, <2>1 DEF SerialRun, CountInv, SerialPlaces, EndPlaces
<1>8. LateInv'
  BY DEF SerialRun, run, LateInv, TypeOK
<1> QED
  BY <1>4, <1>5, <1>6, <1>7, <1>8

LEMMA SerialBreakInv == RunInv /\ SerialBreak => RunInv'
<1> SUFFICES ASSUME RunInv, SerialBreak PROVE RunInv'
  OBVIOUS
<1> USE DEF RunInv
<1>0. UNCHANGED <<exclusive, state, on, dispatched, appended, late, left,
                  status, runErr, ctxErr, interrupted, runErrors>>
  BY DEF SerialBreak
<1>1. /\ Waiting' = Waiting /\ Parallel' = Parallel /\ WorkerIDs' = WorkerIDs
      /\ InState({"appended", "reported", "done"})'
           = InState({"appended", "reported", "done"})
  BY <1>0, QuietMoves
<1>2. notRun' = Cardinality(Waiting) /\ notRun' \in 0..N
  <2> DEFINE P == Parallel \intersect Waiting
             E == exclusive \intersect Waiting
  <2>1. P \in SUBSET Pickles /\ E \in SUBSET Pickles /\ P \intersect E = {}
        /\ Waiting = P \union E /\ Waiting \in SUBSET Pickles
    BY DEF TypeOK, Parallel, Waiting, InState
  <2>2. Cardinality(Waiting) = Cardinality(P) + Cardinality(E)
    BY <2>1, CardSplit
  <2>3. notRun' = Cardinality(P) + Cardinality(E)
    BY DEF SerialBreak, PhaseInv, CountInv, SerialPlaces
  <2> QED
    BY <2>1, <2>2, <2>3, PicklesFinite
<1>3. TypeOK'
  BY <1>0, <1>2 DEF SerialBreak, TypeOK
<1>4. \A i \in Pickles : state[i] \notin Busy
  BY DEF SerialBreak, Idle, PlaceInv, PhaseInv, SerialPlaces, Parallel
<1>5. PhaseInv' /\ PlaceInv' /\ LateInv'
  BY <1>0, <1>1, <1>4
     DEF SerialBreak, PhaseInv, PlaceInv, LateInv, ParallelPlaces, SerialPlaces, EndPlaces
<1>6. CountInv'
  BY <1>0, <1>1, <1>2 DEF SerialBreak, CountInv, SerialPlaces, EndPlaces
<1> QED
  BY <1>3, <1>5, <1>6

LEMMA EndInv ==
  ASSUME RunInv, SortResult \/ AfterRun \/ FinishRun
  PROVE  RunInv'
<1> USE DEF RunInv
<1>0. UNCHANGED <<exclusive, state, on, dispatched, appended, late, left,
                  status, notRun, ctxErr>>
  BY DEF SortResult, AfterRun, FinishRun
<1>1. /\ Waiting' = Waiting /\ Parallel' = Parallel /\ WorkerIDs' = WorkerIDs
      /\ InState({"appended", "reported", "done"})'
           = InState({"appended", "reported", "done"})
  BY <1>0, QuietMoves
<1>2. main \in EndPlaces /\ main' \in {"afterRun", "finish", "returned"}
  BY DEF SortResult, AfterRun, FinishRun, EndPlaces
<1>3. TypeOK'
  BY <1>0, <1>2 DEF SortResult, AfterRun, FinishRun, TypeOK
<1>4. PhaseInv' /\ PlaceInv' /\ CountInv'
  BY <1>0, <1>1, <1>2
     DEF PhaseInv, PlaceInv, CountInv, ParallelPlaces, SerialPlaces, EndPlaces
<1>5. LateInv'
  BY <1>0, <1>2 DEF SortResult, AfterRun, FinishRun, LateInv
<1> QED
  BY <1>3, <1>4, <1>5

LEMMA WorkerInv ==
  ASSUME RunInv, NEW i \in Pickles,
         record(i) \/ ScenarioFinished(i) \/ failFast(i)
  PROVE  RunInv'
<1> USE DEF RunInv
<1> DEFINE Recorded == {"appended", "reported", "done"}
<1>0. /\ state[i] \in Busy
      /\ UNCHANGED <<exclusive, main, left, dispatched, notRun, on, late>>
      /\ runErr => runErr'
  BY DEF record, ScenarioFinished, failFast, Busy, TypeOK
<1>1. PICK s \in Recorded : state' = [state EXCEPT ![i] = s]
  BY DEF record, ScenarioFinished, failFast
<1>2. /\ Waiting' = Waiting /\ Parallel' = Parallel /\ WorkerIDs' = WorkerIDs
      /\ \A j \in Pickles : j # i => state'[j] = state[j]
      /\ state'[i] = s
      /\ state' \in [Pickles -> Started \union {"waiting"}]
  BY <1>0, <1>1, WorkMoves DEF Started, Busy
<1>3. \A j \in Pickles : state'[j] \in Busy => state[j] \in Busy
  BY <1>0, <1>2
<1>4. /\ appended' = Cardinality(InState(Recorded)')
      /\ appended' \in 0..N
  <2>1. CASE record(i)
    <3>1. i \notin InState(Recorded)
      BY <2>1 DEF record, InState
    <3>2. InState(Recorded)' = InState(Recorded) \union {i}
      BY <1>1, <1>2 DEF InState
    <3>3. InState(Recorded) \in SUBSET Pickles
          /\ InState(Recorded)' \in SUBSET Pickles
      BY DEF InState
    <3>4. Cardinality(InState(Recorded)') = Cardinality(InState(Recorded)) + 1
      BY <3>1, <3>2, <3>3, CardAdd
    <3>5. Cardinality(InState(Recorded)') \in 0..N
      BY <3>3, PicklesFinite
    <3> QED
      BY <2>1, <3>4, <3>5 DEF record, CountInv
  <2>2. CASE ScenarioFinished(i) \/ failFast(i)
    <3>1. i \in InState(Recorded)
      BY <2>2 DEF ScenarioFinished, failFast, InState
    <3>2. InState(Recorded)' = InState(Recorded)
      BY <1>1, <1>2, <3>1 DEF InState
    <3> QED
      BY <2>2, <3>2 DEF ScenarioFinished, failFast, CountInv, TypeOK
  <2> QED
    BY <2>1, <2>2
<1>5. TypeOK'
  <2>1. status' \in [Pickles -> Passed..Failed]
    BY RunAssumption DEF record, ScenarioFinished, failFast, TypeOK
  <2>2. runErr' \in BOOLEAN
    BY RunAssumption DEF record, ScenarioFinished, failFast, TypeOK
  <2>3. UNCHANGED <<ctxErr, interrupted, runErrors>>
    BY DEF record, ScenarioFinished, failFast
  <2> QED
    BY <1>0, <1>2, <1>4, <2>1, <2>2, <2>3 DEF TypeOK
<1>6. PhaseInv'
  BY <1>0, <1>2, <1>3
     DEF PhaseInv, ParallelPlaces, SerialPlaces, EndPlaces, Parallel, TypeOK
<1>7. PlaceInv'
  BY <1>0, <1>2, <1>3 DEF PlaceInv, Parallel
<1>8. CountInv'
  BY <1>0, <1>2, <1>4 DEF CountInv, SerialPlaces
<1>9. LateInv'
  BY <1>0 DEF LateInv
<1> QED
  BY <1>5, <1>6, <1>7, <1>8, <1>9

LEMMA RunInvariant == Spec => []RunInv
<1>1. RunInv /\ [Next]_vars => RunInv'
  <2> SUFFICES ASSUME RunInv, [Next]_vars PROVE RunInv'
    OBVIOUS
  <2>1. CASE UNCHANGED vars
    <3>1. /\ Waiting' = Waiting /\ Parallel' = Parallel
          /\ WorkerIDs' = WorkerIDs
          /\ InState({"appended", "reported", "done"})'
               = InState({"appended", "reported", "done"})
      BY <2>1, QuietMoves DEF vars, RunInv
    <3> QED
      BY <2>1, <3>1 DEF vars, RunInv, TypeOK, PhaseInv, PlaceInv, CountInv,
                        LateInv
  <2> QED
    BY <2>1, LoopInv, SelectSendInv, QuietInv, SerialRunInv, SerialBreakInv,
       EndInv, WorkerInv DEF Next, Main, Worker
<1> QED
  BY <1>1, InitInv, PTL DEF Spec

-----------------------------------------------------------------------------
(* Why scenarios did not run *)

\* A scenario that is over failed the run fast.
FailedFast ==
  FailFast /\ \E i \in Pickles : state[i] = "done" /\ status[i] >= Undefined

\* Whatever did not run has a cause: runCtx was done, by an interrupt that the
\* result tells of or by a scenario that failed.
CauseInv ==
  /\ main \in {"loop", "select"} /\ ~runErr => left = Parallel \intersect Waiting
  /\ runErr => main = "returned" \/ ctxErr \/ FailedFast
  /\ main \in SerialPlaces \union {"drain", "sort"} /\ notRun > 0 => runErr
  /\ main \in {"afterRun", "finish", "returned"} /\ ~interrupted /\ notRun > 0
       => FailedFast
  /\ main = "afterRun" => ~interrupted

\* What is over stays so, with its status.
LEMMA FailedFastStays ==
  ASSUME TypeOK, FailedFast, UNCHANGED status,
         \A i \in Pickles : state[i] = "done" => state'[i] = "done"
  PROVE  FailedFast'
BY DEF FailedFast

LEMMA SelectCause ==
  ASSUME RunInv, CauseInv, NEW i \in Pickles, NEW w \in WorkerIDs, SelectSend(i, w)
  PROVE  CauseInv'
<1>1. i \in left /\ state[i] = "waiting" /\ i \in Parallel
  BY DEF SelectSend, First, RunInv, PhaseInv, ParallelPlaces, Waiting, InState
<1>2. /\ Waiting' = Waiting \ {i} /\ Parallel' = Parallel
      /\ \A j \in Pickles : state[j] = "done" => state'[j] = "done"
  BY <1>1, StartMoves DEF SelectSend, run, RunInv
<1>3. FailedFast => FailedFast'
  BY <1>2, FailedFastStays DEF SelectSend, RunInv
<1> QED
  BY <1>1, <1>2, <1>3 DEF CauseInv, SelectSend, SerialPlaces

LEMMA SerialCause ==
  ASSUME RunInv, CauseInv, NEW i \in Pickles, SerialRun(i)
  PROVE  CauseInv'
<1>1. state[i] = "waiting"
  BY DEF SerialRun, First, RunInv, PhaseInv, SerialPlaces, Waiting, InState
<1>2. \A j \in Pickles : state[j] = "done" => state'[j] = "done"
  BY <1>1, StartMoves DEF SerialRun, run, RunInv
<1>3. FailedFast => FailedFast'
  BY <1>2, FailedFastStays DEF SerialRun, RunInv
<1> QED
  BY <1>3 DEF CauseInv, SerialRun, SerialPlaces

\* The steps of Run that start nothing.
LEMMA QuietCause ==
  ASSUME RunInv, CauseInv,
         \/ LoopBreak \/ LoopSelect \/ Drain \/ SerialCheck \/ SerialBreak
         \/ SortResult \/ AfterRun \/ FinishRun \/ Interrupt \/ (\E i \in Pickles : SelectDone(i))
         \/ UNCHANGED vars
  PROVE  CauseInv'
<1>1. UNCHANGED <<exclusive, state, on, status>>
  BY DEF LoopBreak, LoopSelect, Drain, SerialCheck, SerialBreak, SortResult,
         AfterRun, FinishRun, Interrupt, SelectDone, vars
<1>2. Waiting' = Waiting /\ Parallel' = Parallel
  BY <1>1, QuietMoves DEF RunInv
<1>3. FailedFast' = FailedFast
  BY <1>1 DEF FailedFast
<1>4. CASE LoopBreak
  <2>1. notRun' = Cardinality(Parallel \intersect Waiting)
    BY <1>4, CountsInRange, RunAssumption DEF LoopBreak, RunInv, CountInv, TypeOK
  <2>2. ~runErr => notRun' = 0
    BY <1>4, <2>1, FS_EmptySet DEF LoopBreak, CauseInv, SerialPlaces
  <2> QED
    BY <1>3, <1>4, <2>2 DEF LoopBreak, CauseInv, SerialPlaces
<1>5. CASE SerialBreak
  <2>1. ~runErr => notRun' = notRun
    BY <1>5, FS_EmptySet DEF SerialBreak, RunInv, TypeOK
  <2> QED
    BY <1>3, <1>5, <2>1 DEF SerialBreak, CauseInv, SerialPlaces
<1>6. CASE LoopSelect \/ Drain \/ SerialCheck \/ (\E i \in Pickles : SelectDone(i))
  BY <1>2, <1>3, <1>6
     DEF LoopSelect, Drain, SerialCheck, SelectDone, CauseInv, SerialPlaces
<1>7. CASE SortResult
  BY <1>3, <1>7 DEF SortResult, CauseInv, SerialPlaces
<1>8. CASE AfterRun \/ FinishRun
  BY <1>3, <1>8 DEF AfterRun, FinishRun, CauseInv, SerialPlaces
<1>9. CASE Interrupt \/ UNCHANGED vars
  BY <1>2, <1>3, <1>9 DEF Interrupt, vars, CauseInv, SerialPlaces
<1> QED
  BY <1>4, <1>5, <1>6, <1>7, <1>8, <1>9

LEMMA WorkerCause ==
  ASSUME RunInv, CauseInv, NEW i \in Pickles,
         record(i) \/ ScenarioFinished(i) \/ failFast(i)
  PROVE  CauseInv'
<1>1. /\ state[i] \in Busy
      /\ UNCHANGED <<exclusive, main, left, notRun, ctxErr, interrupted>>
      /\ \A j \in Pickles : j # i => state'[j] = state[j] /\ status'[j] = status[j]
      /\ \A j \in Pickles : state'[j] = "waiting" <=> state[j] = "waiting"
  BY DEF record, ScenarioFinished, failFast, Busy, RunInv, TypeOK
<1>2. Waiting' = Waiting /\ Parallel' = Parallel
  BY <1>1 DEF Waiting, InState, Parallel
<1>3. FailedFast => FailedFast'
  BY <1>1 DEF FailedFast, Busy
<1>4. runErr' = runErr \/ (runErr' = TRUE /\ FailedFast')
  BY DEF record, ScenarioFinished, failFast, FailedFast, RunInv, TypeOK
<1> QED
  BY <1>1, <1>2, <1>3, <1>4 DEF CauseInv, RunInv, TypeOK

LEMMA CauseInvariant == Spec => [](RunInv /\ CauseInv)
<1>1. Init => CauseInv
  <2> SUFFICES ASSUME Init PROVE CauseInv
    OBVIOUS
  <2>1. Parallel \intersect Waiting = Parallel
    BY DEF Init, Parallel, Waiting, InState
  <2> QED
    BY <2>1 DEF Init, CauseInv
<1>2. RunInv /\ CauseInv /\ [Next]_vars => CauseInv'
  BY QuietCause, SelectCause, SerialCause, WorkerCause DEF Next, Main, Worker
<1> QED
  BY <1>1, <1>2, RunInvariant, PTL DEF Spec

-----------------------------------------------------------------------------
\* Run's variables keep their types, whatever the workers and fail-fast do.
THEOREM RunTypeCorrect == Spec => []TypeOK
BY RunInvariant, PTL DEF RunInv

\* Run accounts for every pickle: len(Scenarios) + NotRun is the number of
\* pickles, however the loops were cut short.
THEOREM RunLosesNothing == Spec => []NothingLost
<1>1. RunInv => NothingLost
  <2> SUFFICES ASSUME RunInv, main \in EndPlaces
               PROVE  /\ appended + notRun = N
                      /\ appended = Cardinality(InState({"done"}))
                      /\ notRun = Cardinality(InState({"waiting"}))
    BY DEF NothingLost, EndPlaces
  <2> DEFINE D == InState({"done"})
  <2>1. InState({"appended", "reported", "done"}) = D
    BY DEF RunInv, PhaseInv, InState, Busy
  <2>2. D \in SUBSET Pickles /\ Waiting \in SUBSET Pickles
        /\ D \intersect Waiting = {} /\ D \union Waiting = Pickles
    BY DEF RunInv, PhaseInv, TypeOK, Started, Busy, Waiting, InState
  <2>3. Cardinality(D) + Cardinality(Waiting) = N
    BY <2>2, CardSplit, PicklesFinite
  <2> QED
    BY <2>1, <2>3 DEF RunInv, CountInv, Waiting
<1> QED
  BY <1>1, RunInvariant, PTL

\* The serial phase of Run keeps exclusive scenarios apart from all others.
THEOREM ExclusiveRunsAlone == Spec => []ExclusiveAlone
<1>1. RunInv => ExclusiveAlone
  <2> SUFFICES ASSUME RunInv, NEW i \in exclusive, state[i] \in Busy,
                      NEW j \in Pickles \ {i}
               PROVE  state[j] \notin Busy
    BY DEF ExclusiveAlone
  <2>1. main \in SerialPlaces
    BY DEF SerialPlaces, RunInv, TypeOK, PhaseInv, ParallelPlaces, SerialPlaces, EndPlaces, Waiting,
           InState, Busy
  <2> QED
    BY <2>1 DEF RunInv, PhaseInv, Parallel
<1> QED
  BY <1>1, RunInvariant, PTL

\* Once fail-fast or an interrupt has ended runCtx, Run starts at most one
\* scenario more, over the select of the dispatcher and the serial phase
\* together.
THEOREM RunStopsStarting == Spec => StopsStarting
<1>1. RunInv /\ [Next]_vars =>
        [\A i \in Pickles :
           runErr /\ state[i] = "waiting" /\ state'[i] = "running"
             => late = 0]_vars
  <2> SUFFICES ASSUME RunInv, Next, NEW i \in Pickles, runErr,
                      state[i] = "waiting", state'[i] = "running"
               PROVE  late = 0
    BY DEF vars
  <2>1. main \in {"select", "serialRun"}
    <3>1. CASE Worker \/ Interrupt
      BY <3>1 DEF Worker, record, ScenarioFinished, failFast, Interrupt, RunInv,
                  TypeOK
    <3> QED
      BY <3>1 DEF Next, Main, LoopBreak, LoopSelect, SelectSend, SelectDone,
                  Drain, SerialCheck, SerialRun, SerialBreak, SortResult,
                  AfterRun, FinishRun
  <2> QED
    BY <2>1 DEF RunInv, TypeOK, LateInv
<1> QED
  BY <1>1, RunInvariant, PTL DEF Spec, StopsStarting

\* AfterRun sees a run that is over, and one that was not cut short but by a
\* scenario that failed it fast.
THEOREM RunAfterRunSeesAll == Spec => []AfterRunSeesAll
<1>1. RunInv /\ CauseInv => AfterRunSeesAll
  <2> SUFFICES ASSUME RunInv, CauseInv, main = "afterRun"
               PROVE  /\ \A i \in Pickles : state[i] \in {"waiting", "done"}
                      /\ notRun > 0 =>
                           /\ FailFast
                           /\ \E i \in InState({"done"}) : status[i] >= Undefined
    BY DEF AfterRunSeesAll
  <2>1. \A i \in Pickles : state[i] \in {"waiting", "done"}
    BY DEF RunInv, TypeOK, PhaseInv, EndPlaces, Started, Busy
  <2> QED
    BY <2>1 DEF CauseInv, FailedFast, InState
<1> QED
  BY <1>1, CauseInvariant, PTL

\* Worst is a status that no scenario's is above.
LEMMA WorstIs ==
  ASSUME TypeOK, ~runErrors
  PROVE  Worst \in Passed..Failed /\ \A i \in InState({"done"}) : status[i] <= Worst
<1> DEFINE Is(s) == s = Passed \/ \E i \in InState({"done"}) : status[i] = s
           Worse(s) == \E i \in InState({"done"}) : status[i] > s
<1>1. \A i \in InState({"done"}) : status[i] \in 0..5
  BY DEF TypeOK, InState, Passed, Failed
<1>2. \A s \in 0..5 : Worse(s) => \E r \in (s + 1)..5 : Is(r)
  BY <1>1
<1>3. \A s \in 0..5 : ~ Worse(s) => \A i \in InState({"done"}) : status[i] <= s
  BY <1>1
<1>4. Is(0) /\ ~ Worse(5)
  BY <1>1 DEF Passed
<1> HIDE DEF Is, Worse
<1>5. \E s \in 0..5 : Is(s) /\ ~ Worse(s)
  <2>1. \/ Is(5) \/ (Is(4) /\ ~ Is(5)) \/ (Is(3) /\ ~ Is(4) /\ ~ Is(5))
        \/ (Is(2) /\ ~ Is(3) /\ ~ Is(4) /\ ~ Is(5))
        \/ (Is(1) /\ ~ Is(2) /\ ~ Is(3) /\ ~ Is(4) /\ ~ Is(5))
        \/ (Is(0) /\ ~ Is(1) /\ ~ Is(2) /\ ~ Is(3) /\ ~ Is(4) /\ ~ Is(5))
    BY <1>4
  <2> QED
    BY <1>2, <1>4, <2>1
<1>6. \E s \in Passed..Failed :
         /\ s = Passed \/ \E i \in InState({"done"}) : status[i] = s
         /\ \A i \in InState({"done"}) : status[i] <= s
  BY <1>3, <1>5 DEF Is, Passed, Failed
<1> QED
  BY <1>6 DEF Worst

\* Exit code 0 of the command means that the whole suite ran and that nothing
\* in it was pending, undefined, ambiguous or failed.
THEOREM RunSuccessMeansAllRan == Spec => []SuccessMeansAllRan
<1>1. RunInv /\ CauseInv => SuccessMeansAllRan
  <2> SUFFICES ASSUME RunInv, CauseInv, main = "returned", runExitCode = 0
               PROVE  /\ notRun = 0
                      /\ \A i \in Pickles : state[i] = "done" /\ status[i] < Pending
    BY DEF SuccessMeansAllRan
  <2>1. ~interrupted /\ Worst \notin {Failed, Pending, Undefined, Ambiguous}
    BY DEF runExitCode
  <2>2. ~runErrors
    BY <2>1 DEF Worst
  <2>3. /\ Worst \in Passed..Failed
        /\ \A i \in InState({"done"}) : status[i] <= Worst
    BY <2>2, WorstIs DEF RunInv
  <2>4. \A i \in Pickles : state[i] = "done" => status[i] \in Int /\ status[i] < Pending
    BY <2>1, <2>3 DEF InState, RunInv, TypeOK, Passed, Skipped, Pending, Undefined,
                      Ambiguous, Failed
  <2>5. notRun = 0
    BY <2>1, <2>4 DEF CauseInv, FailedFast, RunInv, TypeOK, Pending, Undefined
  <2>6. IsFiniteSet(Waiting) /\ Cardinality(Waiting) = 0
    BY <2>5, PicklesFinite DEF RunInv, CountInv, EndPlaces, Waiting, InState
  <2>7. Waiting = {}
    BY <2>6, FS_EmptySet
  <2>8. \A i \in Pickles : state[i] = "done"
    BY <2>7 DEF RunInv, TypeOK, PhaseInv, EndPlaces, Started, Busy, Waiting, InState
  <2> QED
    BY <2>4, <2>5, <2>8
<1> QED
  BY <1>1, CauseInvariant, PTL

\* Run implements the promise a run makes to its suite: each step of Run is a
\* step of Suite, or changes nothing that Suite shows.
THEOREM RunKeepsPromise == Spec => KeepsPromise
<1> DEFINE ph == [i \in Pickles |->
                    IF state[i] \in Busy THEN "running"
                    ELSE IF state[i] = "done" THEN "finished" ELSE "waiting"]
<1>1. Init => Promise!Init
  BY DEF Init, Promise!Init, Promise!Scenarios, Pickles, Busy
<1>2. RunInv /\ [Next]_vars => [Promise!Next]_(Promise!suiteVars)
  <2> SUFFICES ASSUME RunInv, [Next]_vars
               PROVE  Promise!Next \/ UNCHANGED Promise!suiteVars
    OBVIOUS
  <2> USE DEF RunInv, Promise!suiteVars
  <2>1. ASSUME NEW i \in Pickles, state[i] = "waiting", i \in exclusive,
               \A j \in Pickles : state[j] \notin Busy,
               state' = [state EXCEPT ![i] = "running"],
               UNCHANGED exclusive, main = "serialRun", main' = "serial"
        PROVE  Promise!Start(i)
    <3>1. ph' = [ph EXCEPT ![i] = "running"]
      BY <2>1 DEF TypeOK, Busy
    <3>2. ph[i] = "waiting" /\ \A j \in Pickles : ph[j] # "running"
      BY <2>1 DEF Busy
    <3> QED
      BY <2>1, <3>1, <3>2
         DEF Promise!Start, Promise!In, Promise!Scenarios, Pickles
  <2>2. ASSUME NEW i \in Pickles, state[i] = "waiting", i \notin exclusive,
               exclusive \subseteq Waiting,
               state' = [state EXCEPT ![i] = "running"],
               UNCHANGED exclusive, main = "select", main' = "loop"
        PROVE  Promise!Start(i)
    <3>1. ph' = [ph EXCEPT ![i] = "running"]
      BY <2>2 DEF TypeOK, Busy
    <3>2. ph[i] = "waiting" /\ \A j \in exclusive : ph[j] = "waiting"
      BY <2>2 DEF Busy, Waiting, InState
    <3> QED
      BY <2>2, <3>1, <3>2 DEF Promise!Start
  <2>3. ASSUME NEW i \in Pickles, failFast(i) PROVE Promise!Finish(i)
    <3>1. ph' = [ph EXCEPT ![i] = "finished"] /\ ph[i] = "running"
      BY <2>3 DEF failFast, TypeOK, Busy
    <3> QED
      BY <2>3, <3>1 DEF failFast, Promise!Finish
  <2>4. ASSUME NEW i \in Pickles, record(i) \/ ScenarioFinished(i)
        PROVE  UNCHANGED Promise!suiteVars
    <3>1. ph' = ph
      BY <2>4 DEF record, ScenarioFinished, TypeOK, Busy
    <3> QED
      BY <2>4, <3>1 DEF record, ScenarioFinished
  <2>5. CASE FinishRun
    <3>1. ph' = ph /\ \A j \in Pickles : ph[j] # "running"
      BY <2>5 DEF FinishRun, PhaseInv, EndPlaces
    <3>2. Promise!End
      BY <2>5, <3>1
         DEF FinishRun, Promise!End, Promise!In, Promise!Scenarios, Pickles
    <3> QED
      BY <3>2 DEF Promise!Next
  <2>6. ASSUME UNCHANGED <<exclusive, state>>,
               main = "returned" <=> main' = "returned"
        PROVE  UNCHANGED Promise!suiteVars
    BY <2>6
  <2>7. CASE \/ LoopBreak \/ LoopSelect \/ Drain \/ SerialCheck \/ SerialBreak
             \/ SortResult \/ AfterRun \/ Interrupt \/ (\E i \in Pickles : SelectDone(i))
             \/ UNCHANGED vars
    BY <2>6, <2>7 DEF LoopBreak, LoopSelect, Drain, SerialCheck, SerialBreak,
       SortResult, AfterRun, Interrupt, SelectDone, vars
  <2>8. ASSUME NEW i \in Pickles, NEW w \in WorkerIDs, SelectSend(i, w)
        PROVE  Promise!Start(i)
    <3>1. state[i] = "waiting" /\ i \notin exclusive /\ exclusive \subseteq Waiting
      BY <2>8 DEF SelectSend, First, PhaseInv, ParallelPlaces, Parallel, Waiting,
                  InState
    <3> QED
      BY <2>2, <2>8, <3>1 DEF SelectSend, run
  <2>9. ASSUME NEW i \in Pickles, SerialRun(i) PROVE Promise!Start(i)
    <3>1. state[i] = "waiting" /\ i \in exclusive
      BY <2>9 DEF SerialRun, First, PhaseInv, SerialPlaces, Waiting, InState
    <3>2. \A j \in Pickles : state[j] \notin Busy
      BY <2>9 DEF SerialRun, PhaseInv, SerialPlaces, Parallel
    <3> QED
      BY <2>1, <2>9, <3>1, <3>2 DEF SerialRun, run
  <2>10. Pickles = Promise!Scenarios
    BY DEF Pickles, Promise!Scenarios
  <2> QED
    BY <2>3, <2>4, <2>5, <2>7, <2>8, <2>9, <2>10
       DEF Next, Main, Worker, Promise!Next
<1> QED
  BY <1>1, <1>2, RunInvariant, PTL DEF Spec, KeepsPromise, Promise!Spec

=============================================================================
