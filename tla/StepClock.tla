------------------------------ MODULE StepClock ------------------------------
(***************************************************************************)
(* The clock of one timed step or hook: stepContext of                      *)
(* internal/runner/stepclock.go.  Every method takes the context's mutex,   *)
(* so each is one action.  What runs beside them is modelled as it is in    *)
(* the code: the timer fires and only later does its callback take the     *)
(* lock (TimerFires, Expire), and a goroutine watches the parent (Watch).   *)
(*                                                                         *)
(* Time is counted in ticks.  A timer may fire, and a callback may run,     *)
(* later than it is due.                                                    *)
(***************************************************************************)
EXTENDS Integers, FiniteSets

CONSTANTS
  HoldCalls,  \* the calls of hold() made on this context
  Limit,      \* the step's or hook's time limit
  ParentDeadlines,  \* when the parent may end by itself, or NoDeadline
  MaxLate,    \* bound: ticks the clock may run past the limit unnoticed
  MaxHeld     \* bound: ticks spent held, over all holds

\* The deadline of a context that has none.
NoDeadline == -1

ASSUME ClockAssumption ==
  /\ IsFiniteSet(HoldCalls)
  /\ ParentDeadlines \subseteq Nat \union {NoDeadline}
  /\ Limit \in Nat \ {0}
  /\ MaxLate \in Nat
  /\ MaxHeld \in Nat

VARIABLES
  now,        \* the clock on the wall
  parentErr,  \* parent.Err()
  parentDeadline,  \* parent.Deadline(): the scenario's timeout, if it has one
  err,        \* c.err
  remaining,  \* c.remaining
  deadline,   \* c.deadline
  holds,      \* c.holds
  timer,      \* c.timer, the one armed last
  callbacks,  \* timer callbacks that have been started and wait for the lock
  token,      \* what became of each hold(): its release function's state
  ran         \* history: the ticks for which the clock was not held

parentVars == <<parentErr, parentDeadline>>

clockVars == <<now, parentVars, err, remaining, deadline, holds, timer,
               callbacks, token, ran>>

\* The errors a context ends with; "none" is a nil error.
CtxErrors == {"Canceled", "DeadlineExceeded"}

\* A release function belongs to a hold that was never made, that stopped the
\* clock, that came after the end of the context (it does nothing), or that
\* has been released.
TokenStates == {"unused", "held", "noop", "released"}

ClockTypeOK ==
  /\ now \in Nat
  /\ parentErr \in CtxErrors \union {"none"}
  /\ parentDeadline \in ParentDeadlines
  /\ err \in CtxErrors \union {"none"}
  /\ remaining \in Int
  /\ deadline \in Int
  /\ holds \in Nat
  /\ timer \in {"armed", "fired", "stopped"}
  /\ callbacks \in Nat
  /\ token \in [HoldCalls -> TokenStates]
  /\ ran \in Nat

Held == {h \in HoldCalls : token[h] = "held"}

-----------------------------------------------------------------------------
\* newStepContext: the clock runs from the start, for the whole limit.
ClockInit ==
  /\ now = 0
  /\ parentErr = "none"
  /\ parentDeadline \in ParentDeadlines
  /\ err = "none"
  /\ remaining = Limit
  /\ deadline = Limit
  /\ holds = 0
  /\ timer = "armed"
  /\ callbacks = 0
  /\ token = [h \in HoldCalls |-> "unused"]
  /\ ran = 0

\* startLocked: the clock runs for what remains, never for less than nothing.
startLocked ==
  /\ remaining' = IF remaining < 0 THEN 0 ELSE remaining
  /\ deadline' = now + remaining'
  /\ timer' = "armed"

\* finish: ends the context unless it has ended, or its own time is up while
\* it is held.  Stopping a timer that has fired leaves its callback running.
finish(e, own) ==
  IF err # "none" \/ (own /\ holds > 0)
  THEN UNCHANGED <<err, timer>>
  ELSE /\ err' = e
       /\ timer' = IF timer = "armed" THEN "stopped" ELSE timer

-----------------------------------------------------------------------------
\* Time passes for a context that goes on.
Pass ==
  /\ now' = now + 1
  /\ ran' = IF err = "none" /\ holds = 0 THEN ran + 1 ELSE ran
  /\ UNCHANGED <<parentVars, err, remaining, deadline, holds, timer, callbacks,
                 token>>

Tick ==
  /\ err = "none"
  /\ IF holds > 0 THEN now - ran < MaxHeld ELSE ran < Limit + MaxLate
  /\ Pass

\* time.AfterFunc: once the deadline is there the callback's goroutine starts.
TimerFires ==
  /\ timer = "armed"
  /\ now >= deadline
  /\ timer' = "fired"
  /\ callbacks' = callbacks + 1
  /\ UNCHANGED <<now, parentVars, err, remaining, deadline, holds, token, ran>>

\* The callback takes the lock.
Expire ==
  /\ callbacks > 0
  /\ callbacks' = callbacks - 1
  /\ finish("DeadlineExceeded", TRUE)
  /\ UNCHANGED <<now, parentVars, remaining, deadline, holds, token, ran>>

\* The parent ends: the run is interrupted or failed fast (Canceled), or the
\* scenario's own timeout is up (DeadlineExceeded).
ParentDone ==
  /\ parentErr = "none"
  /\ \/ parentErr' = "Canceled"
     \/ /\ parentDeadline # NoDeadline
        /\ now >= parentDeadline
        /\ parentErr' = "DeadlineExceeded"
  /\ UNCHANGED <<now, parentDeadline, err, remaining, deadline, holds, timer,
                 callbacks, token, ran>>

Watch_AsOwn ==
  /\ parentErr # "none"
  /\ err = "none"
  /\ finish(parentErr, TRUE)
  /\ UNCHANGED <<now, parentVars, remaining, deadline, holds, callbacks, token,
                 ran>>

\* The goroutine newStepContext starts; it goes away once c.done is closed.
Watch ==
  /\ parentErr # "none"
  /\ err = "none"
  /\ finish(parentErr, FALSE)
  /\ UNCHANGED <<now, parentVars, remaining, deadline, holds, callbacks, token,
                 ran>>

Hold_StopsAgain(h) ==
  /\ token[h] = "unused"
  /\ IF err # "none"
     THEN /\ token' = [token EXCEPT ![h] = "noop"]
          /\ UNCHANGED <<remaining, timer, holds>>
     ELSE /\ token' = [token EXCEPT ![h] = "held"]
          /\ remaining' = IF timer = "armed" THEN deadline - now ELSE 0
          /\ timer' = IF timer = "armed" THEN "stopped" ELSE timer
          /\ holds' = holds + 1
  /\ UNCHANGED <<now, parentVars, err, deadline, callbacks, ran>>

\* hold: the first hold stops the timer and keeps what was left of it; of a
\* timer that had fired nothing is left, whether its callback ran or not.
Hold(h) ==
  /\ token[h] = "unused"
  /\ IF err # "none"
     THEN /\ token' = [token EXCEPT ![h] = "noop"]
          /\ UNCHANGED <<remaining, timer, holds>>
     ELSE /\ token' = [token EXCEPT ![h] = "held"]
          /\ holds' = holds + 1
          /\ IF holds > 0
             THEN UNCHANGED <<remaining, timer>>
             ELSE /\ remaining' = IF timer = "armed" THEN deadline - now ELSE 0
                  /\ timer' = IF timer = "armed" THEN "stopped" ELSE timer
  /\ UNCHANGED <<now, parentVars, err, deadline, callbacks, ran>>

Release_NoRestart(h) ==
  /\ token[h] \in {"held", "noop", "released"}
  /\ IF token[h] = "held"
     THEN /\ token' = [token EXCEPT ![h] = "released"]
          /\ holds' = holds - 1
          /\ IF holds' = 0 /\ err = "none" /\ timer = "stopped"
             THEN startLocked
             ELSE UNCHANGED <<remaining, deadline, timer>>
     ELSE UNCHANGED <<token, holds, remaining, deadline, timer>>
  /\ UNCHANGED <<now, parentVars, err, callbacks, ran>>

\* The function hold returned: only its first call counts (sync.Once), and the
\* last hold released starts the clock for what remains.
Release(h) ==
  /\ token[h] \in {"held", "noop", "released"}
  /\ IF token[h] = "held"
     THEN /\ token' = [token EXCEPT ![h] = "released"]
          /\ holds' = holds - 1
          /\ IF holds' = 0 /\ err = "none"
             THEN startLocked
             ELSE UNCHANGED <<remaining, deadline, timer>>
     ELSE UNCHANGED <<token, holds, remaining, deadline, timer>>
  /\ UNCHANGED <<now, parentVars, err, callbacks, ran>>

\* cancel: withTimeout ends the context once the step is over.
Cancel ==
  /\ finish("Canceled", FALSE)
  /\ UNCHANGED <<now, parentVars, remaining, deadline, holds, callbacks, token,
                 ran>>

\* Deadline: the parent's while held, else the earlier of the two.
Deadline ==
  IF holds > 0 \/ (parentDeadline # NoDeadline /\ parentDeadline < deadline)
  THEN parentDeadline
  ELSE deadline

ClockNext ==
  \/ Tick
  \/ TimerFires
  \/ Expire
  \/ ParentDone
  \/ Watch
  \/ \E h \in HoldCalls : Hold(h)
  \/ \E h \in HoldCalls : Release(h)
  \/ Cancel

ClockSpec == ClockInit /\ [][ClockNext]_clockVars

-----------------------------------------------------------------------------
\* The context ends by its own clock only when it ran for the whole limit,
\* however holds, nested holds and late callbacks fell: time spent held is
\* never charged to the step.
ExpiryIsEarned ==
  err = "DeadlineExceeded" /\ parentErr # "DeadlineExceeded" => ran >= Limit

\* While the clock runs, what Deadline() tells the step's code is what is left
\* of the step's limit, cut short only by the scenario's own deadline: earlier
\* holds moved it by exactly their length.
DeadlineIsAllowance ==
  err = "none" /\ holds = 0 /\ timer = "armed" =>
    LET own == now + (Limit - ran) IN
    IF ran > Limit THEN Deadline <= now
    ELSE IF parentDeadline # NoDeadline /\ parentDeadline < own
         THEN Deadline = parentDeadline
         ELSE Deadline = own

\* An expiry a hold put off is not lost: a context that goes on unheld always
\* has its timer armed, or the callback of a timer that fired on its way.
ExpiryNotLost ==
  err = "none" /\ holds = 0 => timer = "armed" \/ callbacks > 0

\* A hold puts off the end of the step's own time until the last release,
\* even when the timer had fired before the hold began.
NeverExpiresHeld ==
  [][err = "none" /\ err' = "DeadlineExceeded"
       /\ parentErr # "DeadlineExceeded"
       => holds = 0]_clockVars

=============================================================================
