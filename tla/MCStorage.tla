----------------------------- MODULE MCStorage -----------------------------
(***************************************************************************)
(* Instances of Storage for TLC. The blocks are interchangeable: nothing   *)
(* but equality is ever asked of them.                                     *)
(***************************************************************************)
EXTENDS Storage, TLC

Symmetry == Permutations(Pools)
=============================================================================
