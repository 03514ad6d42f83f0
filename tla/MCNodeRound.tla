---------------------------- MODULE MCNodeRound ----------------------------
(* Instances of NodeRound for TLC: one confidant beside the main node is   *)
(* enough for every role; the code has three.                              *)
EXTENDS NodeRound, TLC

CONSTANTS a, b, c

TwoTables == {[main |-> a, conf |-> {b}], [main |-> b, conf |-> {a}]}
FullTables == {[main |-> a, conf |-> {b, c}], [main |-> b, conf |-> {a, c}]}

(* a and b are interchangeable: the tables and the initial states are. *)
Symmetry == Permutations({a, b})
=============================================================================
