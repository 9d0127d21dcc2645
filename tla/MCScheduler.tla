----------------------------- MODULE MCScheduler -----------------------------
EXTENDS Scheduler

\* One status on each side of the two lines the code draws: what is not a
\* success (Pending and worse) and what fails the run fast (Undefined and worse).
MCOutcomes == {Passed, Pending, Undefined}
=============================================================================
