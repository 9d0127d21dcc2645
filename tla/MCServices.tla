----------------------------- MODULE MCServices -----------------------------
EXTENDS Services

\* Services that name no dependency; a chain, declared last first; one that
\* needs two others; and one that two others need.
MCGraphs == {<<{}, {}, {}>>, <<{2}, {3}, {}>>, <<{}, {}, {1, 2}>>, <<{}, {1}, {1}>>}
=============================================================================
