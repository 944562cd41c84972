------------------------------ MODULE MCRwLock ------------------------------
(***************************************************************************)
(* Three threads on a word of three bits: the smallest whose count has     *)
(* room for all of them.                                                   *)
(***************************************************************************)
EXTENDS RwLock, TLC

Symmetry == Permutations(Thread)

=============================================================================
