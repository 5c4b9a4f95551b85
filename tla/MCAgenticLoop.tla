--------------------------- MODULE MCAgenticLoop ---------------------------
(* Small instances of AgenticLoop for TLC. *)
EXTENDS AgenticLoop

CONSTANTS c1, c2, n1, n2

\* A final answer and two calls run by one gather.
MCBatches == {<<>>, <<c2, c1>>}
=============================================================================
