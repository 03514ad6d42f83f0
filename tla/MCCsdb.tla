------------------------------- MODULE MCCsdb -------------------------------
(***************************************************************************)
(* Instances for TLC of the parts of csdb that do not share state: the     *)
(* life of a Pool, Amount, the encodings, and the reading side. A          *)
(* behaviour is one of the part chosen at its start; the other parts stay  *)
(* in their initial states.                                                *)
(***************************************************************************)
EXTENDS Pool, Amount, Codec, ChainQuery

VARIABLE part

csdbVars == <<poolVars, amountVars, codecVars, queryVars, part>>

CsdbInit ==
  /\ PoolInit /\ AmountInit /\ CodecInit /\ QueryInit
  /\ part \in {"pool", "amount", "codec", "query"}

CsdbNext ==
  \/ part = "pool" /\ PoolNext /\ UNCHANGED <<amountVars, codecVars, queryVars, part>>
  \/ part = "amount" /\ AmountNext /\ UNCHANGED <<poolVars, codecVars, queryVars, part>>
  \/ part = "codec" /\ CodecNext /\ UNCHANGED <<poolVars, amountVars, queryVars, part>>
  \/ part = "query" /\ QueryNext /\ UNCHANGED <<poolVars, amountVars, codecVars, part>>

CsdbSpec == CsdbInit /\ [][CsdbNext]_csdbVars

-----------------------------------------------------------------------------
(* Both signs, a carry, a borrow and a whole number. *)
MCOperands == {Amt(0, 1), Amt(0, 9), Amt(-1, 5), Amt(-2, 0), Amt(3, 3)}
MCFactors == {-3, 0, 1, 2, 3}

(* Words of 64 bits around every boundary of the encoding, and their       *)
(* complements.                                                            *)
Pow(k) == [i \in Bits(64) |-> IF i = k THEN 1 ELSE 0]
Ones(k) == [i \in Bits(64) |-> IF i < k THEN 1 ELSE 0]
Mix(k) == [i \in Bits(64) |-> IF i < k THEN i % 2 ELSE 0]
Not(w) == [i \in Bits(64) |-> 1 - w[i]]
Half == {Pow(k) : k \in Bits(63)} \cup {Ones(k) : k \in 0..63} \cup {Mix(k) : k \in Bits(63)}
MCWords == Half \cup {Not(w) : w \in Half}

(* Blocks without, with one and with several transactions of an address. *)
T(s, t, n) == [source |-> s, target |-> t, inner |-> n]
MCBlocks == {<<>>, <<T(2, 1, 0), T(1, 2, 1)>>,
             <<T(2, 2, 1), T(2, 1, 0), T(2, 2, 0)>>}
=============================================================================
