---------------------------- MODULE MCLifecycle ----------------------------
(* Small instances of Lifecycle for TLC. *)
EXTENDS Lifecycle

CONSTANTS p1, p2, p3, t1, t2

\* p1 and p2 provide the same capability; p3 requires it.
Provider == {p1, p2} \cap Plugins
MCCapabilities == {Provider, {p3}}
MCRequires == [p \in Plugins |-> IF p = p3 THEN {Provider} ELSE {}]
=============================================================================
