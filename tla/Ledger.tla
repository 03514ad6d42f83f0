------------------------------- MODULE Ledger -------------------------------
(***************************************************************************)
(* What the block store promises to the node: a sequence of distinct       *)
(* blocks that only ever grows at its end.                                 *)
(***************************************************************************)
EXTENDS Sequences, Integers

CONSTANT Blocks      \* the blocks that may ever be stored

VARIABLE chain       \* the stored blocks, oldest first

Init == chain = <<>>

Append1(b) ==
  /\ \A i \in DOMAIN chain : chain[i] # b
  /\ chain' = Append(chain, b)

Next == \E b \in Blocks : Append1(b)

Spec == Init /\ [][Next]_chain
=============================================================================
