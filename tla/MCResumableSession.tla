------------------------- MODULE MCResumableSession -------------------------
(* Small instances of ResumableSession for TLC. *)
EXTENDS ResumableSession

CONSTANTS c1, c2, n1, n2

\* A final answer, a single call, and two calls run by one gather.
MCBatches == {<<>>, <<c1>>, <<c2, c1>>}
=============================================================================
