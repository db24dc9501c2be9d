------------------------ MODULE MCParallelEvaluation ------------------------
\* The problems evaluated: independent functions, or the first feeds the second.
EXTENDS ParallelEvaluation

Unconnected   == {}
FirstToSecond == {<<1, 2>>}
=============================================================================
