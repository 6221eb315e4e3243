---------------------------- MODULE MCLifecycle -----------------------------
(***************************************************************************)
(* Instances of Lifecycle for TLC.                                         *)
(***************************************************************************)
EXTENDS Lifecycle

CONSTANTS p1, p2, o1, o2

MCProcs == {p1, p2}
MCKeyHolders == {p1}
MCOperators == {o1, o2}
=============================================================================
