------------------------- MODULE MCRuntimeLifecycle -------------------------
(***************************************************************************)
(* A small instance of RuntimeLifecycle; values, tokens and places of     *)
(* the queue are interchangeable.                                          *)
(***************************************************************************)
EXTENDS RuntimeLifecycle, TLC

MCSymmetry == Permutations(Values) \cup Permutations(Tokens) \cup Permutations(Jobs)
=============================================================================
