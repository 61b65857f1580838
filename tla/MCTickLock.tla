---------------------------- MODULE MCTickLock ------------------------------
(* TickLock on a small instance. *)
EXTENDS TickLock, TLC

Symmetry == Permutations(Workers)
=============================================================================
