---------------------------- MODULE MCScenarioRun ----------------------------
EXTENDS ScenarioRun

\* A closer of the Before hook, of each step's own code, and of an After hook.
MCClosing == {<<1, "hook">>, <<2, "run">>, <<3, "run">>, <<4, "hook">>}
\* The steps and the After hook, which may run beside a step that was
\* abandoned, use the same state key.
MCKeyed == {<<2, "run">>, <<3, "run">>, <<4, "hook">>}
=============================================================================
