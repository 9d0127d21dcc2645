----------------------------- MODULE MCTimedCall -----------------------------
EXTENDS TimedCall

\* A scenario without a timeout, and one whose timeout falls before or after
\* the step's own limit, as the holds have it.
MCParentDeadlines == {NoDeadline, 3}
=============================================================================
