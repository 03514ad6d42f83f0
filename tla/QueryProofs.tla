---------------------------- MODULE QueryProofs ----------------------------
(***************************************************************************)
(* Proofs about the queries to the chain, for every chain, any addresses   *)
(* and all limits and offsets, while blocks arrive. The list of a walk is  *)
(* what is asked for among the transactions it has behind it, newest       *)
(* first; once it is full, or the walk at the end of the chain, these are  *)
(* the newest of all. The list of blocks ends with the blocks of the turns *)
(* after the offset.                                                       *)
(***************************************************************************)
EXTENDS ChainQuery, TLAPS

USE Zenon

(* Facts about sequences. *)
LEMMA LenProperties ==
  ASSUME NEW S, NEW s \in Seq(S)
  PROVE  Len(s) \in Nat /\ DOMAIN s = 1..Len(s)
BY SMT

LEMMA AppendProperties ==
  ASSUME NEW S, NEW s \in Seq(S), NEW x \in S
  PROVE  /\ Append(s, x) \in Seq(S) /\ Len(Append(s, x)) = Len(s) + 1
         /\ \A i \in 1..Len(s) : Append(s, x)[i] = s[i]
         /\ Append(s, x)[Len(s) + 1] = x
BY SMT

LEMMA EmptySeq ==
  ASSUME NEW S, NEW s \in Seq(S), s # <<>>
  PROVE  Len(s) \in Nat \ {0}
BY SMT

LEMMA SeqEqual ==
  ASSUME NEW S, NEW s \in Seq(S), NEW t \in Seq(S), Len(s) = Len(t), \A i \in 1..Len(s) : s[i] = t[i]
  PROVE  s = t
BY SMT

LEMMA SubSeqEmpty ==
  ASSUME NEW s, NEW m \in Int, NEW n \in Int, n < m
  PROVE  SubSeq(s, m, n) = <<>>
BY SMT

LEMMA SubSeqProperties ==
  ASSUME NEW S, NEW s, NEW m \in Int, NEW n \in Int, \A i \in m..n : s[i] \in S
  PROVE  /\ SubSeq(s, m, n) \in Seq(S) /\ Len(SubSeq(s, m, n)) = IF m <= n THEN n - m + 1 ELSE 0
         /\ \A i \in 1..(n - m + 1) : SubSeq(s, m, n)[i] = s[m + i - 1]
BY SMT

-----------------------------------------------------------------------------
Place == Nat \X Nat
Walks == {"transactions", "get", "source", "target", "inner", "seek"}

QueryType ==
  /\ stored \in Seq(ChainBlocks)
  /\ limit \in Nat /\ offset \in Nat /\ start \in Place
  /\ tip \in 0..Len(stored) /\ pos \in Place
  /\ sequence \in Nat /\ it \in Nat
  /\ passed \in Seq(Place) /\ res \in Seq(Place)

(* What the program counter says of the query and of its place. *)
PlaceInv ==
  /\ at \in {"idle", "test", "land", "look", "size", "list", "done"}
  /\ at = "idle" => passed = <<>> /\ res = <<>> /\ tip = 0 /\ pos = Nowhere /\ query = "none"
  /\ at \in {"land", "look"} => query \in Walks
  /\ at = "test" => query = "transactions"
  /\ at \in {"size", "list"} => query = "list"
  /\ at = "done" => query \in Walks \cup {"list"}
  /\ query \notin {"get", "list"} => offset = 0
  /\ query \in {"source", "target", "inner", "seek"} => limit = 1
  /\ at = "land" => pos[1] <= tip
  /\ at = "look" => InChain(pos) /\ pos[1] <= tip
  /\ at = "test" => \/ InChain(pos) /\ pos[1] <= tip
                    \/ pos = Nowhere /\ tip = 0 /\ res = <<>> /\ start = Nowhere
  /\ query = "transactions" /\ start # Nowhere =>
       /\ at = "test" => ~Newer(pos, start)
       /\ at = "look" => Newer(start, pos)
       /\ at = "land" => pos[1] < start[1]

(* The transactions that the walk has behind it, and those of them that    *)
(* are asked for.                                                          *)
Behind(x) ==
  IF at = "test" THEN ~Newer(pos, x)
  ELSE IF at = "land" THEN x[1] > pos[1]
  ELSE Newer(x, pos)
Met == {x \in Matching : Behind(x)}

Descends(list) == \A j, k \in DOMAIN list : j < k => Newer(list[j], list[k])

(* The two lists of a walk hold what it has met. *)
WalkInv ==
  at \in {"test", "land", "look"} =>
    /\ Members(passed) \cup Members(res) = Met
    /\ Descends(passed) /\ Descends(res)
    /\ \A x \in Members(passed), y \in Members(res) : Newer(x, y)
    /\ Len(passed) <= offset /\ (res # <<>> => Len(passed) = offset)
    /\ query \notin {"transactions", "get"} => res = <<>>
    /\ query = "transactions" => Len(res) <= limit /\ (at # "test" => Len(res) < limit)
    /\ query = "get" /\ limit > 0 => Len(res) < limit
    /\ query = "inner" => \A x \in Ids(tip) : Behind(x) => Tx(x).source # addr

-----------------------------------------------------------------------------
(* The transactions of a chain are the pairs of a block and a place in it. *)
LEMMA IdsAre ==
  ASSUME stored \in Seq(ChainBlocks), NEW n \in 0..Len(stored)
  PROVE  \A x : x \in Ids(n) <=> x \in Place /\ x[1] \in 1..n /\ x[2] \in 1..Len(stored[x[1]])
<1>1. \A b \in 1..n : Len(stored[b]) \in Nat
  BY QueryAssumption, SMT
<1>2. ASSUME NEW x \in Ids(n)
      PROVE  x \in Place /\ x[1] \in 1..n /\ x[2] \in 1..Len(stored[x[1]])
  <2>1. PICK b \in 1..n : x \in {<<b, i>> : i \in 1..Len(stored[b])}
    BY <1>2 DEF Ids
  <2>2. PICK i \in 1..Len(stored[b]) : x = <<b, i>>
    BY <2>1
  <2> QED  BY <1>1, <2>2, SMT DEF Place
<1>3. ASSUME NEW x \in Place, x[1] \in 1..n, x[2] \in 1..Len(stored[x[1]])
      PROVE  x \in Ids(n)
  <2>1. x = <<x[1], x[2]>>
    BY SMT DEF Place
  <2>2. x \in {<<x[1], i>> : i \in 1..Len(stored[x[1]])}
    BY <1>3, <2>1
  <2> QED  BY <1>3, <2>2 DEF Ids
<1> QED  BY <1>2, <1>3

(* Newer is a linear order of the places. *)
LEMMA Order ==
  /\ \A x, y \in Place : Newer(x, y) \/ x = y \/ Newer(y, x)
  /\ \A x, y \in Place : Newer(x, y) => x # y /\ ~Newer(y, x)
  /\ \A x, y, z \in Place : Newer(x, y) /\ Newer(y, z) => Newer(x, z)
 BY SMT DEF Newer, Place

(* What one more at the end does to a list. *)
LEMMA MembersAppend ==
  ASSUME NEW list \in Seq(Place), NEW x \in Place
  PROVE  /\ Members(Append(list, x)) = Members(list) \cup {x}
         /\ Descends(list) /\ (\A y \in Members(list) : Newer(y, x)) => Descends(Append(list, x))
         /\ Len(Append(list, x)) = Len(list) + 1
         /\ Append(list, x) \in Seq(Place)
<1>1. /\ Append(list, x) \in Seq(Place) /\ Len(Append(list, x)) = Len(list) + 1
      /\ \A j \in 1..Len(list) : Append(list, x)[j] = list[j]
      /\ Append(list, x)[Len(list) + 1] = x
      /\ DOMAIN list = 1..Len(list) /\ DOMAIN Append(list, x) = 1..(Len(list) + 1)
      /\ Len(list) \in Nat
  BY AppendProperties, LenProperties, SMT
<1>2. Members(Append(list, x)) = Members(list) \cup {x}
  BY <1>1, SMT DEF Members
<1>3. ASSUME Descends(list), \A y \in Members(list) : Newer(y, x)
      PROVE  Descends(Append(list, x))
  BY <1>1, <1>3, SMT DEF Descends, Members
<1> QED  BY <1>1, <1>2, <1>3

LEMMA MembersEmpty == Members(<<>>) = {} /\ Descends(<<>>) /\ Len(<<>>) = 0 /\ <<>> \in Seq(Place)
 BY SMT DEF Members, Descends

LEMMA MembersIn ==
  ASSUME NEW list \in Seq(Place)
  PROVE  Members(list) \subseteq Place /\ \A j \in DOMAIN list : list[j] \in Members(list)
 BY SMT DEF Members

(* A list of what was met is right when it is full, or when the walk is    *)
(* at its end.                                                             *)
LEMMA Complete ==
  ASSUME NEW list \in Seq(Place), NEW S, NEW n \in Nat,
         Members(list) \subseteq S, Descends(list), Len(list) <= n,
         \A x \in S \ Members(list) :
           Len(list) = n /\ \A y \in Members(list) : Newer(y, x)
  PROVE  IsNewest(list, S, n)
 BY DEF IsNewest, Members, Descends

(* A block more at the end leaves what is asked for as it is. *)
LEMMA GrowthKeeps ==
  ASSUME QueryType, NEW blk \in ChainBlocks, stored' = Append(stored, blk),
         UNCHANGED <<asked, tip>>
  PROVE  /\ Ids(tip)' = Ids(tip) /\ Matching' = Matching
         /\ stored' \in Seq(ChainBlocks) /\ Len(stored') = Len(stored) + 1
         /\ \A b \in 1..Len(stored) : stored'[b] = stored[b]
         /\ \A x \in Ids(tip) : Tx(x)' = Tx(x)
<1>1. /\ stored' \in Seq(ChainBlocks) /\ Len(stored') = Len(stored) + 1
      /\ \A b \in 1..Len(stored) : stored'[b] = stored[b]
      /\ Len(stored) \in Nat
  BY AppendProperties, LenProperties, SMT DEF QueryType
<1>2. \A b \in 1..tip : stored'[b] = stored[b]
  BY <1>1, SMT DEF QueryType
<1>3. tip' = tip
  BY DEF asked
<1>4. Ids(tip)' = Ids(tip)
  <2> DEFINE G(b) == {<<b, i>> : i \in 1..Len(stored'[b])}
             H(b) == {<<b, i>> : i \in 1..Len(stored[b])}
  <2>1. \A b \in 1..tip : G(b) = H(b)
    BY <1>2
  <2>2. Ids(tip) = UNION {H(b) : b \in 1..tip} /\ Ids(tip)' = UNION {G(b) : b \in 1..tip}
    BY <1>3 DEF Ids
  <2> HIDE DEF G, H
  <2>3. {G(b) : b \in 1..tip} = {H(b) : b \in 1..tip}
    BY <2>1
  <2> QED  BY <2>2, <2>3
<1>5. \A x \in Ids(tip) : x[1] \in 1..tip
  BY IdsAre DEF QueryType
<1>6. \A x \in Ids(tip) : Tx(x)' = Tx(x)
  BY <1>2, <1>5 DEF Tx
<1>7. ASSUME NEW x \in Ids(tip)  PROVE Matches(x)' = Matches(x)
  BY <1>6 DEF Matches, asked
<1>8. Matching' = Matching
  BY <1>4, <1>7 DEF Matching
<1> QED  BY <1>1, <1>4, <1>6, <1>8
-----------------------------------------------------------------------------
(* After Back the transaction at the old place is behind, and nothing else *)
(* than before.                                                            *)
LEMMA BackMoves ==
  ASSUME QueryType, InChain(pos), pos[1] <= tip, Back
  PROVE  /\ pos' \in Place /\ at' \in {"look", "land"} /\ pos'[1] <= tip
         /\ at' = "look" => pos'[1] \in DOMAIN stored /\ pos'[2] \in DOMAIN stored[pos'[1]]
         /\ \A x \in Ids(tip) : Behind(x)' <=> Newer(x, pos) \/ x = pos
         /\ \A y \in Place : ~Newer(pos, y) =>
              IF at' = "look" THEN Newer(y, pos') ELSE pos'[1] < y[1]
<1>0. /\ pos \in Place /\ pos[1] \in Nat /\ pos[2] \in Nat /\ pos = <<pos[1], pos[2]>>
      /\ tip \in Nat /\ Len(stored) \in Nat /\ pos[1] \in 1..Len(stored)
  BY SMT DEF QueryType, Place, InChain
<1>1. Len(stored[pos[1]]) \in Nat /\ pos[2] \in 1..Len(stored[pos[1]])
      /\ DOMAIN stored[pos[1]] = 1..Len(stored[pos[1]])
  <2>1. stored[pos[1]] \in ChainBlocks
    BY <1>0, SMT DEF QueryType
  <2> QED  BY <2>1, QueryAssumption, LenProperties DEF InChain
<1>2. \A x \in Ids(tip) : x \in Place /\ x[1] \in 1..tip /\ x[2] \in Nat /\ x[2] >= 1 /\ x = <<x[1], x[2]>>
  BY IdsAre, SMTT(30) DEF QueryType, Place
<1>3. CASE pos[2] > 1
  <2>1. at' = "look" /\ pos' = <<pos[1], pos[2] - 1>>
    BY <1>3 DEF Back
  <2>2. pos'[1] = pos[1] /\ pos'[2] = pos[2] - 1 /\ pos' \in Place
    BY <1>0, <1>1, <1>3, <2>1, SMT DEF Place
  <2>3. ASSUME NEW x \in Ids(tip)
        PROVE  Behind(x)' <=> Newer(x, pos) \/ x = pos
    BY <1>0, <1>2, <2>1, <2>2, SMT DEF Behind, Newer
  <2>4. \A y \in Place : ~Newer(pos, y) => Newer(y, pos')
    BY <1>0, <2>2, SMT DEF Newer, Place
  <2> QED  BY <1>0, <1>1, <1>3, <2>1, <2>2, <2>3, <2>4, SMT
<1>4. CASE ~(pos[2] > 1)
  <2>1. at' = "land" /\ pos' = <<pos[1] - 1, 0>>
    BY <1>4 DEF Back
  <2>2. pos'[1] = pos[1] - 1 /\ pos'[2] = 0 /\ pos' \in Place /\ pos[2] = 1
    BY <1>0, <1>1, <1>4, <2>1, SMT DEF Place
  <2>3. ASSUME NEW x \in Ids(tip)
        PROVE  Behind(x)' <=> Newer(x, pos) \/ x = pos
    BY <1>0, <1>2, <2>1, <2>2, SMT DEF Behind, Newer
  <2>4. \A y \in Place : ~Newer(pos, y) => pos'[1] < y[1]
    BY <1>0, <2>2, SMT DEF Newer, Place
  <2> QED  BY <1>0, <2>1, <2>2, <2>3, <2>4, SMT
<1> QED  BY <1>3, <1>4

QueryInv == QueryType /\ PlaceInv /\ WalkInv /\ StorageQueriesExact /\ AddressPage

(* The same question, of the same chain. *)
LEMMA SameQuestion ==
  ASSUME UNCHANGED <<stored, asked, tip>>
  PROVE  /\ Ids(tip)' = Ids(tip) /\ Matching' = Matching
         /\ \A x : Matches(x)' = Matches(x) /\ Tx(x)' = Tx(x) /\ InChain(x)' = InChain(x)
 BY SMT DEF Ids, Matching, Matches, Tx, InChain, asked

LEMMA SameAnswer ==
  ASSUME Matching' = Matching, UNCHANGED <<limit, offset, passed, res>>
  PROVE  /\ IsNewest(res, Matching, limit)' = IsNewest(res, Matching, limit)
         /\ IsNewest(passed, Matching, offset)' = IsNewest(passed, Matching, offset)
         /\ IsNewest(res, Matching \ Members(passed), limit)' = IsNewest(res, Matching \ Members(passed), limit)
 BY SMT DEF IsNewest, Members, Newer

LEMMA InMatching ==
  ASSUME QueryType
  PROVE  /\ \A x \in Matching : x \in Ids(tip) /\ x \in Place /\ Matches(x)
         /\ \A x \in Ids(tip) : x \in Place /\ (Matches(x) => x \in Matching)
         /\ InChain(pos) /\ pos[1] <= tip => pos \in Ids(tip)
<1>1. \A x : x \in Ids(tip) <=> x \in Place /\ x[1] \in 1..tip /\ x[2] \in 1..Len(stored[x[1]])
  BY IdsAre DEF QueryType
<1>2. InChain(pos) /\ pos[1] <= tip => pos[1] \in 1..tip /\ pos[2] \in 1..Len(stored[pos[1]])
  <2> SUFFICES ASSUME InChain(pos), pos[1] <= tip  PROVE pos[1] \in 1..tip /\ pos[2] \in 1..Len(stored[pos[1]])
    OBVIOUS
  <2>1. stored[pos[1]] \in ChainBlocks
    BY SMT DEF QueryType, InChain
  <2> QED  BY <2>1, QueryAssumption, SMTT(30) DEF QueryType, InChain, Place
<1> QED  BY <1>1, <1>2 DEF Matching, QueryType

(* The walk goes on: what changes is the list, by what it looked at. *)
LEMMA TestStep ==
  ASSUME QueryInv, Test
  PROVE  QueryInv'
<1> USE DEF QueryInv
<1>0. /\ at = "test" /\ query = "transactions" /\ UNCHANGED <<stored, asked, passed, res, counters>>
      /\ offset = 0
  BY DEF Test, Found, PlaceInv, asked
<1>1. passed = <<>> /\ Members(res) = Met /\ Descends(res) /\ Len(res) <= limit
  <2>1. Len(passed) <= 0 /\ passed \in Seq(Place)
    BY <1>0 DEF WalkInv, QueryType
  <2>2. passed = <<>>
    BY <2>1, SMT
  <2> QED  BY <1>0, <2>2, MembersEmpty DEF WalkInv
<1>2. CASE Len(res) >= limit /\ at' = "done" /\ UNCHANGED <<tip, pos>>
  <2>1. Matching' = Matching
    BY <1>0, <1>2, SameQuestion
  <2>2. \A x \in Matching \ Members(res) : x \in Place /\ Newer(pos, x)
    BY <1>0, <1>1, InMatching DEF Met, Behind
  <2>3. \A y \in Members(res) : y \in Place /\ ~Newer(pos, y)
    BY <1>0, <1>1, InMatching DEF Met, Behind
  <2>4. IsNewest(res, Matching, limit)
    <3>1. \A x \in Matching \ Members(res), y \in Members(res) : Newer(y, x)
      BY <2>2, <2>3, Order DEF QueryType
    <3>2. Len(res) = limit /\ Members(res) \subseteq Matching
      BY <1>1, <1>2, SMT DEF QueryType, Met
    <3> QED  BY <1>1, <3>1, <3>2, Complete DEF QueryType
  <2>5. QueryType' /\ PlaceInv'
    BY <1>0, <1>2 DEF QueryType, PlaceInv, asked, counters, Walks
  <2> QED  BY <1>0, <1>2, <2>1, <2>4, <2>5, SMT DEF WalkInv, StorageQueriesExact, AddressPage, asked, IsNewest, Members, Newer
<1>3. CASE Len(res) < limit /\ pos[1] = 0 /\ at' = "land" /\ LoadLast
  <2>1. pos = Nowhere /\ tip = 0 /\ res = <<>> /\ start = Nowhere
    BY <1>0, <1>3, SMT DEF PlaceInv, InChain, QueryType
  <2>2. tip' = Len(stored) /\ pos' = <<Len(stored), 0>> /\ pos'[1] = tip'
    BY <1>3 DEF LoadLast
  <2>3. QueryType' /\ PlaceInv'
    BY <1>0, <1>3, <2>1, <2>2, SMT DEF QueryType, PlaceInv, asked, counters, Walks, Place
  <2>4. \A x \in Ids(tip)' : ~Behind(x)'
    <3>1. \A x \in Ids(tip') : x[1] \in 1..tip'
      BY <2>2, IdsAre, SMTT(30) DEF QueryType
    <3>2. Ids(tip)' = Ids(tip')
      BY <1>0, SMT DEF Ids
    <3> QED  BY <1>3, <2>2, <3>1, <3>2, SMT DEF Behind, QueryType
  <2>5. Met' = {}
    BY <2>4 DEF Met, Matching
  <2> QED  BY <1>0, <1>1, <1>3, <2>1, <2>3, <2>5, MembersEmpty, SMT DEF WalkInv, StorageQueriesExact, AddressPage, asked, Members, Descends
<1>4. CASE Len(res) < limit /\ pos[1] # 0 /\ Back /\ UNCHANGED tip
  <2>1. InChain(pos) /\ pos[1] <= tip
    BY <1>0, <1>4, SMT DEF PlaceInv, Nowhere
  <2>2. /\ pos' \in Place /\ at' \in {"look", "land"} /\ pos'[1] <= tip
        /\ at' = "look" => pos'[1] \in DOMAIN stored /\ pos'[2] \in DOMAIN stored[pos'[1]]
        /\ \A x \in Ids(tip) : Behind(x)' <=> Newer(x, pos) \/ x = pos
    BY <1>4, <2>1, BackMoves
  <2>3. QueryType' /\ PlaceInv'
    <3>1. start # Nowhere => IF at' = "look" THEN Newer(start, pos') ELSE pos'[1] < start[1]
      BY <1>0, <1>4, <2>1, BackMoves DEF QueryType, PlaceInv
    <3> QED  BY <1>0, <1>4, <2>2, <3>1 DEF QueryType, PlaceInv, asked, counters, Walks, InChain, Newer
  <2>4. Matching' = Matching
    BY <1>0, <1>4, SameQuestion
  <2>5. \A x \in Matching : Behind(x)' <=> Behind(x)
    BY <1>0, <2>2, InMatching, Order DEF Behind, QueryType
  <2>6. Met' = Met
    BY <2>4, <2>5 DEF Met
  <2> QED  BY <1>0, <1>1, <1>4, <2>2, <2>3, <2>6, MembersEmpty, SMT DEF WalkInv, StorageQueriesExact, AddressPage, asked, Members, Descends, Newer
<1> QED  BY <1>2, <1>3, <1>4 DEF Test

LEMMA LandStep ==
  ASSUME QueryInv, Land
  PROVE  QueryInv'
<1> USE DEF QueryInv
<1>0. /\ at = "land" /\ query \in Walks /\ pos[1] <= tip /\ pos[1] \in Nat /\ pos \in Place
      /\ tip \in Nat /\ tip <= Len(stored) /\ Len(stored) \in Nat
      /\ UNCHANGED <<stored, asked, tip, passed, res, counters>>
  BY SMT DEF Land, Found, PlaceInv, asked, QueryType, Place
<1>1. Matching' = Matching /\ Ids(tip)' = Ids(tip) /\ \A x : Tx(x)' = Tx(x)
  BY <1>0, SameQuestion
<1>2. ASSUME \A x \in Ids(tip) : Behind(x)' <=> Behind(x), at' \in {"land", "look"}, QueryType', PlaceInv'
      PROVE  QueryInv'
  <2>1. Met' = Met
    BY <1>1, <1>2, InMatching DEF Met
  <2>2. WalkInv'
    BY <1>0, <1>1, <1>2, <2>1, SMT DEF WalkInv, asked, Members, Descends, Newer
  <2> QED  BY <1>2, <2>2 DEF StorageQueriesExact, AddressPage
<1>3. CASE pos[1] = 0 /\ at' = "done" /\ UNCHANGED pos
  <2>1. Met = Matching
    <3>1. \A x \in Ids(tip) : x[1] \in 1..tip
      BY IdsAre DEF QueryType
    <3>2. \A x \in Matching : Behind(x)
      BY <1>0, <1>3, <3>1, InMatching, SMT DEF Behind
    <3> QED  BY <3>2 DEF Met
  <2>2. QueryType' /\ PlaceInv'
    BY <1>0, <1>3 DEF QueryType, PlaceInv, asked, counters, Walks
  <2>3. ASSUME query # "get"  PROVE IsNewest(res, Matching, limit)
    <3>1. passed = <<>>
      BY <1>0, <2>3, SMT DEF WalkInv, PlaceInv, QueryType, Walks
    <3>2. Members(res) = Matching /\ Descends(res)
      BY <1>0, <2>1, <3>1, MembersEmpty DEF WalkInv
    <3>3. Len(res) <= limit
      BY <1>0, <2>3, SMT DEF WalkInv, PlaceInv, Walks, QueryType
    <3> QED  BY <3>2, <3>3, Complete DEF QueryType
  <2>4. ASSUME query = "get", limit > 0
        PROVE  IsNewest(passed, Matching, offset) /\ IsNewest(res, Matching \ Members(passed), limit)
    <3>1. /\ Members(passed) \cup Members(res) = Matching
          /\ Descends(passed) /\ Descends(res)
          /\ \A x \in Members(passed), y \in Members(res) : Newer(x, y)
          /\ Len(passed) <= offset /\ (res # <<>> => Len(passed) = offset) /\ Len(res) < limit
      BY <1>0, <2>1, <2>4 DEF WalkInv
    <3>2. \A x \in Matching \ Members(passed) : x \in Members(res) /\ res # <<>>
      BY <3>1, MembersEmpty
    <3>3. IsNewest(passed, Matching, offset)
      BY <3>1, <3>2, Complete DEF QueryType
    <3>4. \A x \in Members(res) : x \notin Members(passed)
      BY <3>1, Order, MembersIn DEF QueryType
    <3>5. IsNewest(res, Matching \ Members(passed), limit)
      <4>1. Members(res) = Matching \ Members(passed)
        BY <3>1, <3>4
      <4> QED  BY <3>1, <4>1, Complete, SMTT(30) DEF QueryType
    <3> QED  BY <3>3, <3>5
  <2>5. StorageQueriesExact' /\ AddressPage'
    BY <1>0, <1>1, <1>3, <2>3, <2>4, SameAnswer DEF StorageQueriesExact, AddressPage, asked
  <2> QED  BY <1>3, <2>2, <2>5 DEF WalkInv
<1>4. CASE pos[1] # 0 /\ stored[pos[1]] = <<>>
  <2>1. pos[1] \in 1..tip
    BY <1>0, <1>4, SMT
  <2>2. CASE query = "get" /\ Len(res) = limit
    <3>1. at' = "done" /\ UNCHANGED pos
      BY <1>4, <2>2 DEF Land
    <3>2. ~(limit > 0)
      BY <1>0, <2>2, SMT DEF WalkInv, QueryType
    <3>3. QueryType' /\ PlaceInv'
      BY <1>0, <3>1 DEF QueryType, PlaceInv, asked, counters, Walks
    <3> QED  BY <1>0, <2>2, <3>1, <3>2, <3>3 DEF WalkInv, StorageQueriesExact, AddressPage, asked
  <2>3. CASE ~(query = "get" /\ Len(res) = limit)
    <3>1. at' = "land" /\ pos' = <<pos[1] - 1, 0>>
      BY <1>4, <2>3 DEF Land
    <3>2. pos'[1] = pos[1] - 1 /\ pos' \in Place
      BY <1>0, <2>1, <3>1, SMT DEF Place
    <3>3. QueryType' /\ PlaceInv'
      BY <1>0, <3>1, <3>2, SMT DEF QueryType, PlaceInv, asked, counters, Walks, Place
    <3>4. \A x \in Ids(tip) : x \in Place /\ x[1] \in 1..tip /\ x[1] # pos[1]
      <4>1. \A x \in Ids(tip) : x \in Place /\ x[1] \in 1..tip /\ x[2] \in 1..Len(stored[x[1]])
        BY IdsAre DEF QueryType
      <4> QED  BY <1>4, <4>1, SMT
    <3>5. \A x \in Ids(tip) : Behind(x)' <=> Behind(x)
      BY <1>0, <3>1, <3>2, <3>4, SMT DEF Behind
    <3> QED  BY <1>2, <3>1, <3>3, <3>5
  <2> QED  BY <2>2, <2>3
<1>5. CASE /\ pos[1] # 0 /\ stored[pos[1]] # <<>>
           /\ at' = "look" /\ pos' = <<pos[1], Len(stored[pos[1]])>>
  <2>1. /\ stored[pos[1]] \in Seq([source : Addresses, target : Addresses, inner : InnerIds])
        /\ pos[1] \in DOMAIN stored
    <3>1. pos[1] \in 1..Len(stored)
      BY <1>0, <1>5, SMT
    <3>2. stored[pos[1]] \in ChainBlocks /\ pos[1] \in DOMAIN stored
      BY <3>1, SMT DEF QueryType
    <3> QED  BY <3>2, QueryAssumption
  <2>2. PICK n \in Nat \ {0} : n = Len(stored[pos[1]]) /\ DOMAIN stored[pos[1]] = 1..n
    <3>1. Len(stored[pos[1]]) \in Nat /\ DOMAIN stored[pos[1]] = 1..Len(stored[pos[1]])
      BY <2>1, LenProperties
    <3>2. Len(stored[pos[1]]) # 0
      BY <1>5, <2>1, EmptySeq
    <3> QED  BY <3>1, <3>2
  <2>3. pos'[1] = pos[1] /\ pos'[2] = n /\ pos' \in Place /\ pos' = <<pos[1], n>>
    BY <1>0, <1>5, <2>2 DEF Place
  <2>4. QueryType' /\ PlaceInv'
    BY <1>0, <1>5, <2>1, <2>2, <2>3, SMTT(30) DEF QueryType, PlaceInv, asked, counters, Walks, InChain, Newer
  <2>5. \A x \in Ids(tip) : x[1] \in Nat /\ x[2] \in 1..Len(stored[x[1]])
    BY IdsAre, SMT DEF QueryType
  <2>6. ASSUME NEW x \in Ids(tip)  PROVE Behind(x)' <=> Behind(x)
    <3>1. x[1] = pos[1] => x[2] \in 1..n
      BY <2>2, <2>5
    <3>2. x[1] \in Nat /\ ~(x[1] = pos[1] /\ x[2] > n)
      BY <2>2, <2>5, <3>1, SMT
    <3> QED  BY <1>0, <1>5, <2>3, <3>2 DEF Behind, Newer
  <2> QED  BY <1>2, <1>5, <2>4, <2>6
<1> QED  BY <1>3, <1>4, <1>5 DEF Land
(* At a transaction: everything newer has been met, and it is the next. *)
LEMMA AtLook ==
  ASSUME QueryInv, at = "look"
  PROVE  /\ query \in Walks /\ InChain(pos) /\ pos[1] <= tip /\ pos \in Place /\ pos \in Ids(tip)
         /\ Matches(pos) <=> pos \in Matching
         /\ \A x \in Met : x \in Place /\ Newer(x, pos) /\ x \in Matching
         /\ \A x \in Matching : x \in Place /\ (x \in Met \/ x = pos \/ Newer(pos, x))
         /\ pos \notin Met
<1> USE DEF QueryInv
<1>1. query \in Walks /\ InChain(pos) /\ pos[1] <= tip /\ pos \in Place
  BY DEF PlaceInv, QueryType
<1>2. \A x \in Matching : x \in Place
  BY InMatching
<1>3. \A x \in Met : x \in Matching /\ Newer(x, pos)
  BY DEF Met, Behind
<1>4. \A x \in Matching : Newer(x, pos) => x \in Met
  BY DEF Met, Behind
<1>5. pos \in Ids(tip) /\ (Matches(pos) <=> pos \in Matching)
  BY <1>1, InMatching
<1> QED  BY <1>1, <1>2, <1>3, <1>4, <1>5, Order

LEMMA LookTransactionsStep ==
  ASSUME QueryInv, LookTransactions
  PROVE  QueryInv'
<1> USE DEF QueryInv
<1>0. /\ at = "look" /\ query = "transactions" /\ at' = "test" /\ offset = 0
      /\ UNCHANGED <<stored, asked, tip, pos, passed, counters>>
      /\ res' = IF Touches(Tx(pos), addr) THEN Append(res, pos) ELSE res
  BY DEF LookTransactions, Found, PlaceInv, asked
<1>1. passed = <<>> /\ Members(res) = Met /\ Descends(res) /\ Len(res) < limit /\ res \in Seq(Place)
  <2>1. passed = <<>>
    BY <1>0, SMT DEF WalkInv, QueryType
  <2> QED  BY <1>0, <2>1, MembersEmpty DEF WalkInv, QueryType
<1>2. Matching' = Matching /\ Ids(tip)' = Ids(tip)
  BY <1>0, SameQuestion
<1>3. Touches(Tx(pos), addr) <=> pos \in Matching
  <2>1. start = Nowhere \/ Newer(start, pos)
    BY <1>0 DEF PlaceInv
  <2>2. Matches(pos) <=> Touches(Tx(pos), addr)
    BY <1>0, <2>1 DEF Matches
  <2> QED  BY <1>0, <2>2, AtLook
<1>4. \A x \in Matching : Behind(x)' <=> x \in Met \/ x = pos
  <2>1. \A x \in Matching : Behind(x)' <=> ~Newer(pos, x)
    BY <1>0 DEF Behind, Newer
  <2> QED  BY <1>0, <2>1, AtLook, Order
<1>5. Met' = IF pos \in Matching THEN Met \cup {pos} ELSE Met
  <2>1. Met' = {x \in Matching : x \in Met \/ x = pos}
    BY <1>2, <1>4 DEF Met
  <2> QED  BY <1>0, <2>1, AtLook
<1>6. Members(res') = Met' /\ Descends(res') /\ Len(res') <= limit /\ res' \in Seq(Place)
  <2>1. CASE pos \in Matching
    <3>1. res' = Append(res, pos)
      BY <1>0, <1>3, <2>1
    <3>2. pos \in Place /\ \A y \in Members(res) : Newer(y, pos)
      BY <1>0, <1>1, AtLook
    <3>3. /\ Members(res') = Members(res) \cup {pos} /\ Descends(res')
          /\ Len(res') = Len(res) + 1 /\ res' \in Seq(Place)
      BY <1>1, <3>1, <3>2, MembersAppend
    <3> QED  BY <1>1, <1>5, <2>1, <3>3, SMT DEF QueryType
  <2>2. CASE pos \notin Matching
    BY <1>0, <1>1, <1>3, <1>5, <2>2, SMT DEF QueryType
  <2> QED  BY <2>1, <2>2
<1>7. QueryType' /\ PlaceInv'
  <2>1. Newer(start, pos) => ~Newer(pos, start)
    BY Order DEF QueryType
  <2> QED  BY <1>0, <1>6, <2>1, AtLook DEF QueryType, PlaceInv, asked, counters, Walks, InChain, Newer
<1>8. WalkInv'
  BY <1>0, <1>1, <1>6, MembersEmpty, SMT DEF WalkInv, asked, Members, Descends, Newer
<1> QED  BY <1>0, <1>7, <1>8 DEF StorageQueriesExact, AddressPage

(* A lookup that does not find what it looks for at its place goes on. *)
LEMMA LookOn ==
  ASSUME QueryInv, at = "look", query # "transactions", pos \notin Matching, Back,
         query = "inner" => Tx(pos).source # addr,
         UNCHANGED <<stored, asked, tip, passed, res, counters>>
  PROVE  QueryInv'
<1> USE DEF QueryInv
<1>1. /\ pos' \in Place /\ at' \in {"look", "land"} /\ pos'[1] <= tip
      /\ at' = "look" => pos'[1] \in DOMAIN stored /\ pos'[2] \in DOMAIN stored[pos'[1]]
      /\ \A x \in Ids(tip) : Behind(x)' <=> Newer(x, pos) \/ x = pos
  BY AtLook, BackMoves
<1>2. Matching' = Matching /\ Ids(tip)' = Ids(tip) /\ \A x : Tx(x)' = Tx(x)
  BY SameQuestion
<1>3. QueryType' /\ PlaceInv'
  BY <1>1, AtLook DEF QueryType, PlaceInv, asked, counters, Walks, InChain
<1>4. Met' = Met
  <2>1. \A x \in Matching : Behind(x)' <=> Behind(x)
    BY <1>1, InMatching DEF Behind
  <2> QED  BY <1>2, <2>1 DEF Met
<1>5. query = "inner" => \A x \in Ids(tip) : Behind(x)' => Tx(x).source # addr
  BY <1>1 DEF WalkInv, Behind
<1>6. WalkInv'
  BY <1>1, <1>2, <1>4, <1>5, SMT DEF WalkInv, asked, Members, Descends, Newer
<1> QED  BY <1>1, <1>3, <1>6 DEF StorageQueriesExact, AddressPage

(* The first one met is the newest. *)
LEMMA LookHit ==
  ASSUME QueryInv, at = "look", query \in {"source", "target", "seek"}, pos \in Matching,
         at' = "done", res' = <<pos>>,
         UNCHANGED <<stored, asked, tip, pos, passed, counters>>
  PROVE  QueryInv'
<1> USE DEF QueryInv
<1>1. Matching' = Matching
  BY SameQuestion
<1>2. Met = {} /\ limit = 1
  BY MembersEmpty, SMT DEF WalkInv, PlaceInv, QueryType
<1>3. res' \in Seq(Place) /\ Len(res') = 1 /\ Members(res') = {pos} /\ Descends(res')
  BY AtLook, SMT DEF Members, Descends
<1>4. \A x \in Matching \ {pos} : Newer(pos, x)
  BY <1>2, AtLook
<1>5. IsNewest(res', Matching, limit)
  <2>1. \A x \in Matching \ Members(res') : Len(res') = limit /\ \A y \in Members(res') : Newer(y, x)
    BY <1>2, <1>3, <1>4
  <2>2. Members(res') \subseteq Matching /\ Len(res') <= limit /\ limit \in Nat
    BY <1>2, <1>3, SMT
  <2> QED  BY <1>3, <2>1, <2>2, Complete
<1>6. IsNewest(res, Matching, limit)'
  BY <1>1, <1>5, ZenonT(40) DEF asked, IsNewest, Members, Newer
<1>7. QueryType' /\ PlaceInv'
  BY <1>3, AtLook DEF QueryType, PlaceInv, asked, counters, Walks
<1> QED  BY <1>6, <1>7 DEF WalkInv, StorageQueriesExact, AddressPage, asked

LEMMA LookupStep ==
  ASSUME QueryInv, LookLast \/ LookSource \/ LookInner
  PROVE  QueryInv'
<1> USE DEF QueryInv
<1>1. CASE LookLast
  <2>0. /\ at = "look" /\ query \in {"source", "target"} /\ UNCHANGED <<stored, asked, tip, passed, counters>>
        /\ IF Tx(pos)[query] = addr THEN res' = <<pos>> /\ at' = "done" /\ UNCHANGED pos
           ELSE Back /\ UNCHANGED res
    BY <1>1 DEF LookLast, Found, asked
  <2>1. Tx(pos)[query] = addr <=> pos \in Matching
    BY <2>0, AtLook DEF Matches
  <2> QED  BY <2>0, <2>1, LookHit, LookOn
<1>2. CASE LookInner
  <2>0. /\ at = "look" /\ query = "seek" /\ UNCHANGED <<stored, asked, tip, passed, counters>>
        /\ IF Tx(pos).source = addr /\ Tx(pos).inner = innerID THEN res' = <<pos>> /\ at' = "done" /\ UNCHANGED pos
           ELSE Back /\ UNCHANGED res
    BY <1>2 DEF LookInner, Found, asked
  <2>1. (Tx(pos).source = addr /\ Tx(pos).inner = innerID) <=> pos \in Matching
    BY <2>0, AtLook DEF Matches
  <2> QED  BY <2>0, <2>1, LookHit, LookOn
<1>3. CASE LookSource /\ Tx(pos).source # addr
  <2>0. /\ at = "look" /\ query = "inner" /\ UNCHANGED <<stored, asked, tip, passed, res, counters>> /\ Back
    BY <1>3 DEF LookSource, Found, asked
  <2>1. pos \notin Matching
    BY <1>3, <2>0, AtLook DEF Matches
  <2> QED  BY <1>3, <2>0, <2>1, LookOn
<1>4. CASE LookSource /\ Tx(pos).source = addr
  <2>0. /\ at = "look" /\ query = "inner" /\ query' = "seek"
        /\ UNCHANGED <<stored, addr, limit, offset, start, innerID, at, pos, tip, passed, res, counters>>
    BY <1>4 DEF LookSource, Found
  <2>1. Ids(tip)' = Ids(tip)
    BY <2>0, SMT DEF Ids
  <2>2. \A x : Matches(x)' <=> Matches(x)
    BY <2>0 DEF Matches, Tx
  <2>3. Matching' = Matching
    BY <2>1, <2>2 DEF Matching
  <2>4. Met' = Met
    BY <2>0, <2>3 DEF Met, Behind, Newer
  <2>5. QueryType' /\ PlaceInv'
    BY <2>0 DEF QueryType, PlaceInv, counters, Walks, InChain
  <2>6. WalkInv'
    BY <2>0, <2>4, SMT DEF WalkInv, Members, Descends, Newer
  <2> QED  BY <2>0, <2>5, <2>6 DEF StorageQueriesExact, AddressPage
<1> QED  BY <1>1, <1>2, <1>3, <1>4

LEMMA LookGetStep ==
  ASSUME QueryInv, LookGet
  PROVE  QueryInv'
<1> USE DEF QueryInv
<1>0. /\ at = "look" /\ query = "get" /\ UNCHANGED <<stored, asked, tip, counters>>
      /\ passed' = IF Touches(Tx(pos), addr) /\ Len(passed) < offset THEN Append(passed, pos) ELSE passed
      /\ res' = IF Touches(Tx(pos), addr) /\ Len(passed) = offset THEN Append(res, pos) ELSE res
      /\ IF Len(res') = limit THEN at' = "done" /\ UNCHANGED pos ELSE Back
  BY DEF LookGet, Found, asked
<1>1. /\ Members(passed) \cup Members(res) = Met
      /\ Descends(passed) /\ Descends(res)
      /\ \A x \in Members(passed), y \in Members(res) : Newer(x, y)
      /\ Len(passed) <= offset /\ (res # <<>> => Len(passed) = offset)
      /\ limit > 0 => Len(res) < limit
      /\ passed \in Seq(Place) /\ res \in Seq(Place) /\ offset \in Nat /\ limit \in Nat
      /\ Len(passed) \in Nat /\ Len(res) \in Nat
  BY <1>0, LenProperties DEF WalkInv, QueryType
<1>2. Matching' = Matching /\ Ids(tip)' = Ids(tip)
  BY <1>0, SameQuestion
<1>3. Touches(Tx(pos), addr) <=> pos \in Matching
  BY <1>0, AtLook DEF Matches
<1> DEFINE Now == IF pos \in Matching THEN Met \cup {pos} ELSE Met
<1>4. /\ Members(passed') \cup Members(res') = Now
      /\ Descends(passed') /\ Descends(res')
      /\ \A x \in Members(passed'), y \in Members(res') : Newer(x, y)
      /\ Len(passed') <= offset /\ (res' # <<>> => Len(passed') = offset)
      /\ limit > 0 => Len(res') <= limit
      /\ passed' \in Seq(Place) /\ res' \in Seq(Place) /\ Len(res') \in Nat
  <2>0. pos \in Place /\ \A y \in Members(passed) \cup Members(res) : Newer(y, pos)
    BY <1>0, <1>1, AtLook
  <2>1. CASE pos \notin Matching
    BY <1>0, <1>1, <1>3, <2>1, SMT
  <2>2. CASE pos \in Matching /\ Len(passed) < offset
    <3>1. res = <<>> /\ res' = res /\ passed' = Append(passed, pos)
      BY <1>0, <1>1, <1>3, <2>2, SMT
    <3>2. /\ Members(passed') = Members(passed) \cup {pos} /\ Descends(passed')
          /\ Len(passed') = Len(passed) + 1 /\ passed' \in Seq(Place)
      BY <1>1, <2>0, <3>1, MembersAppend
    <3> QED  BY <1>1, <2>2, <3>1, <3>2, MembersEmpty, SMT
  <2>3. CASE pos \in Matching /\ Len(passed) = offset
    <3>1. res' = Append(res, pos) /\ passed' = passed
      BY <1>0, <1>1, <1>3, <2>3, SMT
    <3>2. /\ Members(res') = Members(res) \cup {pos} /\ Descends(res')
          /\ Len(res') = Len(res) + 1 /\ res' \in Seq(Place)
      BY <1>1, <2>0, <3>1, MembersAppend
    <3> QED  BY <1>1, <2>0, <2>3, <3>1, <3>2, SMT
  <2> QED  BY <1>1, <2>1, <2>2, <2>3, SMT
<1>5. \A x \in Matching : x \in Place /\ (x \in Now \/ Newer(pos, x))
  BY <1>0, AtLook
<1>6. Now \subseteq Matching /\ \A x \in Now : x \in Place /\ (Newer(x, pos) \/ x = pos)
  BY <1>0, AtLook
<1>7. CASE Len(res') = limit
  <2>1. at' = "done" /\ UNCHANGED pos
    BY <1>0, <1>7
  <2>2. QueryType' /\ PlaceInv'
    BY <1>0, <1>4, <2>1 DEF QueryType, PlaceInv, asked, counters, Walks
  <2>3. ASSUME limit > 0
        PROVE  IsNewest(passed', Matching, offset) /\ IsNewest(res', Matching \ Members(passed'), limit)
    <3>1. res' # <<>> /\ Len(passed') = offset
      BY <1>4, <1>7, <2>3, MembersEmpty, SMT
    <3>2. pos \in Place /\ \A x \in Matching \ Now, y \in Now : Newer(y, x)
      BY <1>0, <1>5, <1>6, AtLook, Order
    <3> HIDE DEF Now
    <3>3. IsNewest(passed', Matching, offset)
      <4>1. \A x \in Matching \ Members(passed'), y \in Members(passed') : Newer(y, x)
        BY <1>4, <3>2
      <4>2. Members(passed') \subseteq Matching
        BY <1>4, <1>6
      <4> QED  BY <1>1, <1>4, <3>1, <4>1, <4>2, Complete
    <3>4. IsNewest(res', Matching \ Members(passed'), limit)
      <4>1. \A x \in Members(res') : x \notin Members(passed')
        BY <1>4, Order, MembersIn
      <4>2. Members(res') \subseteq Matching \ Members(passed')
        BY <1>4, <1>6, <4>1
      <4>3. \A x \in (Matching \ Members(passed')) \ Members(res'), y \in Members(res') : Newer(y, x)
        BY <1>4, <3>2
      <4>4. Len(res') <= limit
        BY <1>1, <1>4, <1>7, SMT
      <4> QED  BY <1>1, <1>4, <1>7, <4>2, <4>3, <4>4, Complete
    <3> QED  BY <3>3, <3>4
  <2>4. AddressPage'
    <3>1. ASSUME limit > 0  PROVE IsNewest(passed, Matching, offset)'
      BY <1>0, <1>2, <2>3, <3>1, SMTT(30) DEF asked, IsNewest, Members, Newer
    <3>2. ASSUME limit > 0  PROVE IsNewest(res, Matching \ Members(passed), limit)'
      <4>1. PICK S : S = Matching \ Members(passed')
        OBVIOUS
      <4>2. (Matching \ Members(passed))' = S
        BY <1>2, <4>1 DEF Members
      <4>3. IsNewest(res', S, limit)
        BY <2>3, <3>2, <4>1
      <4> QED  BY <1>0, <4>2, <4>3, SMTT(30) DEF asked, IsNewest, Members, Newer
    <3> QED  BY <1>0, <3>1, <3>2 DEF AddressPage, asked
  <2> QED  BY <1>0, <2>1, <2>2, <2>4 DEF WalkInv, StorageQueriesExact, asked
<1>8. CASE Len(res') # limit
  <2>1. Back
    BY <1>0, <1>8
  <2>2. /\ pos' \in Place /\ at' \in {"look", "land"} /\ pos'[1] <= tip
        /\ at' = "look" => pos'[1] \in DOMAIN stored /\ pos'[2] \in DOMAIN stored[pos'[1]]
        /\ \A x \in Ids(tip) : Behind(x)' <=> Newer(x, pos) \/ x = pos
    BY <1>0, <2>1, AtLook, BackMoves
  <2>3. QueryType' /\ PlaceInv'
    BY <1>0, <1>4, <2>2 DEF QueryType, PlaceInv, asked, counters, Walks, InChain
  <2>4. Met' = Now
    <3>1. \A x \in Matching : Behind(x)' <=> x \in Now
      BY <1>0, <1>5, <1>6, <2>2, InMatching, AtLook, Order
    <3> QED  BY <1>2, <1>6, <3>1 DEF Met
  <2>5. WalkInv'
    <3> HIDE DEF Now
    <3>1. limit > 0 => Len(res') < limit
      BY <1>1, <1>4, <1>8, SMT
    <3> QED  BY <1>0, <1>4, <2>4, <3>1 DEF WalkInv, asked, Members, Descends, Newer
  <2> QED  BY <2>2, <2>3, <2>5 DEF StorageQueriesExact, AddressPage
<1> QED  BY <1>7, <1>8
-----------------------------------------------------------------------------
(* The block that PoolListGet, begun at block first, has in its hands in    *)
(* turn q.                                                                 *)
InTurn(first, q) == IF q <= first THEN first - q + 1 ELSE 0

(* The last of the answer are the blocks of the turns after the offset. *)
Answered(list, first, off, t) ==
  \E m \in 0..Len(list) :
    /\ Len(list) = IF t > off THEN m + (t - off) ELSE m
    /\ \A k \in 1..(t - off) : list[m + k][1] = InTurn(first, off + k)

ListInv ==
  /\ at = "size" => pos[1] = tip /\ res = <<>>
  /\ at = "list" => /\ tip <= sequence /\ it <= sequence /\ it >= Lower
                    /\ pos[1] = InTurn(tip, sequence - it + 1)
                    /\ Answered(res, tip, offset, sequence - it)

(* A turn before the offset may add a block, a later one adds its own. *)
LEMMA TurnAnswered ==
  ASSUME NEW list \in Seq(Place), NEW first \in Nat, NEW off \in Nat, NEW t \in Nat, NEW x \in Place,
         Answered(list, first, off, t)
  PROVE  /\ t < off => \A l \in Seq(Place) : Answered(l, first, off, t + 1)
         /\ t >= off /\ x[1] = InTurn(first, t + 1) => Answered(Append(list, x), first, off, t + 1)
<1>1. ASSUME t < off, NEW l \in Seq(Place)  PROVE Answered(l, first, off, t + 1)
  <2>1. Len(l) \in Nat /\ ~(t + 1 > off) /\ \A k \in 1..(t + 1 - off) : FALSE
    BY <1>1, LenProperties, SMT
  <2> QED  BY <2>1, SMT DEF Answered
<1>2. ASSUME t >= off, x[1] = InTurn(first, t + 1)  PROVE Answered(Append(list, x), first, off, t + 1)
  <2>1. PICK m \in 0..Len(list) :
          /\ Len(list) = IF t > off THEN m + (t - off) ELSE m
          /\ \A k \in 1..(t - off) : list[m + k][1] = InTurn(first, off + k)
    BY DEF Answered
  <2>2. PICK s : s = Append(list, x)
    OBVIOUS
  <2>3. /\ Len(list) \in Nat /\ Len(s) = Len(list) + 1 /\ s[Len(list) + 1] = x
        /\ \A j \in 1..Len(list) : s[j] = list[j]
    BY <2>2, AppendProperties, LenProperties, SMT
  <2>4. Len(list) = m + (t - off) /\ m \in 0..Len(s) /\ m \in Nat
    BY <1>2, <2>1, <2>3, SMT
  <2>5. ASSUME NEW k \in 1..(t + 1 - off)  PROVE s[m + k][1] = InTurn(first, off + k)
    <3>1. CASE k = t + 1 - off
      <4>1. m + k = Len(list) + 1 /\ off + k = t + 1
        BY <2>4, <3>1, SMT
      <4> QED  BY <1>2, <2>3, <4>1
    <3>2. CASE k # t + 1 - off
      <4>1. k \in 1..(t - off) /\ m + k \in 1..Len(list)
        BY <1>2, <2>3, <2>4, <3>2, SMT
      <4> QED  BY <2>1, <2>3, <4>1
    <3> QED  BY <3>1, <3>2
  <2>6. t + 1 > off /\ Len(s) = m + (t + 1 - off)
    BY <1>2, <2>3, <2>4, SMT
  <2>7. Answered(s, first, off, t + 1)
    BY <2>4, <2>5, <2>6, SMT DEF Answered
  <2> QED  BY <2>2, <2>7
<1> QED  BY <1>1, <1>2

LEMMA ListPoolStep ==
  ASSUME QueryType, ListInv, ListPool
  PROVE  ListInv' /\ pos' \in Place /\ it' \in Nat /\ res' \in Seq(Place)
<1>0. /\ at = "list" /\ at' = "list" /\ it > Lower /\ it' = it - 1
      /\ UNCHANGED <<tip, sequence, offset, limit>>
      /\ res' = IF pos[1] \in poolCache \/ it <= sequence - Smaller(sequence, offset) THEN Append(res, pos) ELSE res
      /\ pos' = <<IF pos[1] = 0 THEN 0 ELSE pos[1] - 1, 0>>
      /\ tip \in Nat /\ sequence \in Nat /\ it \in Nat /\ offset \in Nat /\ limit \in Nat
      /\ pos \in Place /\ pos[1] \in Nat /\ res \in Seq(Place)
      /\ tip <= sequence /\ it <= sequence
  BY SMT DEF ListPool, asked, QueryType, ListInv, Place
<1>1. Lower \in Nat /\ it >= 1 /\ it' \in Nat /\ Lower' = Lower /\ it' >= Lower
  BY <1>0, SMT DEF Lower, Smaller
<1>2. PICK t \in Nat : t = sequence - it
  BY <1>0, SMT
<1>3. sequence - it' = t + 1 /\ t < sequence /\ pos[1] = InTurn(tip, t + 1) /\ Answered(res, tip, offset, t)
  BY <1>0, <1>1, <1>2, SMT DEF ListInv
<1>4. pos' \in Place /\ pos'[1] = InTurn(tip, t + 2)
  BY <1>0, <1>3, SMTT(30) DEF InTurn, Place
<1>5. res' \in Seq(Place)
  BY <1>0, AppendProperties
<1>6. t >= offset => it <= sequence - Smaller(sequence, offset)
  BY <1>0, <1>2, <1>3, SMT DEF Smaller
<1>7. Answered(res', tip, offset, t + 1)
  <2>1. CASE t < offset
    BY <1>0, <1>3, <1>5, <2>1, TurnAnswered
  <2>2. CASE t >= offset
    <3>1. res' = Append(res, pos)
      BY <1>0, <1>6, <2>2
    <3> QED  BY <1>0, <1>3, <2>2, <3>1, TurnAnswered
  <2> QED  BY <1>0, <2>1, <2>2, SMT
<1>8. t + 2 = sequence - it' + 1
  BY <1>0, <1>1, <1>3, SMT
<1>9. it' <= sequence
  BY <1>0, SMT
<1>10. pos'[1] = InTurn(tip, sequence - it' + 1) /\ Answered(res', tip, offset, sequence - it')
  BY <1>3, <1>4, <1>7, <1>8
<1>11. ListInv'
  BY <1>0, <1>1, <1>9, <1>10 DEF ListInv
<1> QED  BY <1>1, <1>4, <1>5, <1>11

LEMMA ListEndStep ==
  ASSUME QueryType, ListInv, ListEnd
  PROVE  ListEndsWithPage'
<1>0. /\ at = "list" /\ UNCHANGED <<tip, sequence, offset, limit, res>>
      /\ tip \in Nat /\ sequence \in Nat /\ it \in Nat /\ offset \in Nat /\ limit \in Nat
      /\ Len(res) \in Nat /\ tip <= sequence /\ it = sequence - Smaller(sequence, offset + limit)
  BY LenProperties, SMT DEF ListEnd, asked, counters, QueryType, ListInv, Lower, Smaller
<1>1. PICK t \in Nat : t = Smaller(sequence, offset + limit) /\ t = sequence - it
  BY <1>0, SMT DEF Smaller
<1>2. PICK m \in 0..Len(res) :
        /\ Len(res) = IF t > offset THEN m + (t - offset) ELSE m
        /\ \A k \in 1..(t - offset) : res[m + k][1] = InTurn(tip, offset + k)
  BY <1>0, <1>1 DEF ListInv, Answered
<1>3. PICK n : n = Smaller(tip, offset + limit) - Smaller(tip, offset)
  OBVIOUS
<1>4. n \in Nat /\ (n > 0 => n <= t - offset /\ n <= tip - offset) /\ (sequence = tip => n = IF t > offset THEN t - offset ELSE 0)
  BY <1>0, <1>1, <1>3, SMT DEF Smaller
<1>5. m \in 0..(Len(res) - n)
  BY <1>0, <1>2, <1>4, SMT
<1>6. ASSUME NEW k \in 1..n  PROVE res[m + k][1] = tip - offset - k + 1
  <2>1. k \in 1..(t - offset) /\ k \in Nat /\ offset + k <= tip
    BY <1>0, <1>4, SMT
  <2>2. res[m + k][1] = InTurn(tip, offset + k)
    BY <1>2, <2>1
  <2> QED  BY <1>0, <2>1, <2>2, SMT DEF InTurn
<1>7. ASSUME NEW j \in (m + n + 1)..Len(res)  PROVE res[j][1] = 0
  <2>1. PICK k \in Nat : j = m + k
    BY <1>0, <1>2, <1>4, SMT
  <2>2. k > n /\ k \in 1..(t - offset)
    BY <1>0, <1>2, <1>4, <2>1, SMT
  <2>3. offset + k > tip
    BY <1>0, <1>1, <1>3, <2>2, SMT DEF Smaller
  <2>4. res[j][1] = InTurn(tip, offset + k)
    BY <1>2, <2>1, <2>2
  <2> QED  BY <1>0, <2>1, <2>3, <2>4, SMT DEF InTurn
<1>8. sequence = tip => m + n = Len(res)
  BY <1>0, <1>2, <1>4, SMT
<1> QED  BY <1>0, <1>3, <1>5, <1>6, <1>7, <1>8 DEF ListEndsWithPage, Smaller
-----------------------------------------------------------------------------
PagesInv == QueryInv /\ ListInv /\ ListEndsWithPage

(* Every step of a walk keeps the invariant. *)
LEMMA WalkStep ==
  ASSUME PagesInv,
         Test \/ Land \/ LookTransactions \/ LookLast \/ LookSource \/ LookInner \/ LookGet
  PROVE  PagesInv'
<1>1. QueryInv'
  BY TestStep, LandStep, LookTransactionsStep, LookupStep, LookGetStep DEF PagesInv
<1>2. at' \notin {"size", "list"}
  BY DEF Test, Land, LookTransactions, LookLast, LookSource, LookInner, LookGet, Back, LoadLast
<1>3. at \in {"test", "land", "look"}
  BY DEF Test, Land, LookTransactions, LookLast, LookSource, LookInner, LookGet
<1>4. query' # "list"
  BY <1>3 DEF PagesInv, QueryInv, PlaceInv, Walks,
     Test, Land, LookTransactions, LookLast, LookSource, LookInner, LookGet, Found
<1> QED  BY <1>1, <1>2, <1>4 DEF PagesInv, ListInv, ListEndsWithPage

(* So does every step of the list of blocks. *)
LEMMA ListStep ==
  ASSUME PagesInv, ListSize \/ ListPool \/ ListEnd
  PROVE  PagesInv'
<1> USE DEF PagesInv, QueryInv
<1>1. CASE ListSize
  <2>0. /\ at = "size" /\ at' = "list" /\ query = "list" /\ sequence' = Len(stored) /\ it' = Len(stored)
        /\ UNCHANGED <<stored, asked, tip, pos, passed, res>>
        /\ tip \in Nat /\ tip <= Len(stored) /\ Len(stored) \in Nat /\ offset \in Nat /\ limit \in Nat
        /\ pos[1] = tip /\ res = <<>>
    BY <1>1, SMT DEF ListSize, PlaceInv, QueryType, ListInv
  <2>1. QueryType' /\ PlaceInv'
    BY <2>0 DEF QueryType, PlaceInv, asked, Walks
  <2>2. Lower' \in Nat /\ Lower' <= sequence'
    BY <2>0, SMT DEF Lower, Smaller, asked
  <2>3. Answered(res, tip, offset, sequence - it)'
    <3>1. (sequence - it)' = 0 /\ Len(res') = 0 /\ offset' \in Nat
      BY <2>0, MembersEmpty, SMT DEF asked
    <3>2. ~(0 > offset') /\ 0 \in 0..Len(res')
      BY <3>1, SMT
    <3>3. \A o \in Nat : \A k \in 1..(0 - o) : FALSE
      BY SMT
    <3> QED  BY <3>1, <3>2, <3>3 DEF Answered
  <2>4. pos'[1] = InTurn(tip, sequence - it + 1)'
    BY <2>0, SMT DEF InTurn, asked
  <2>5. ListInv'
    BY <2>0, <2>2, <2>3, <2>4, SMT DEF ListInv
  <2> QED  BY <2>0, <2>1, <2>5 DEF WalkInv, StorageQueriesExact, AddressPage, ListEndsWithPage
<1>2. CASE ListPool
  <2>0. /\ at = "list" /\ at' = "list" /\ query = "list"
        /\ UNCHANGED <<stored, asked, tip, sequence, passed>>
    BY <1>2 DEF ListPool, PlaceInv
  <2>1. ListInv' /\ pos' \in Place /\ it' \in Nat /\ res' \in Seq(Place)
    BY <1>2, ListPoolStep
  <2>2. QueryType' /\ PlaceInv'
    BY <2>0, <2>1 DEF QueryType, PlaceInv, asked, Walks
  <2> QED  BY <2>0, <2>1, <2>2 DEF WalkInv, StorageQueriesExact, AddressPage, ListEndsWithPage
<1>3. CASE ListEnd
  <2>0. /\ at = "list" /\ at' = "done" /\ query = "list"
        /\ UNCHANGED <<stored, asked, tip, pos, counters, passed, res>>
    BY <1>3 DEF ListEnd, PlaceInv
  <2>1. QueryType' /\ PlaceInv'
    BY <2>0 DEF QueryType, PlaceInv, asked, counters, Walks
  <2>2. ListEndsWithPage'
    BY <1>3, ListEndStep
  <2> QED  BY <2>0, <2>1, <2>2 DEF WalkInv, StorageQueriesExact, AddressPage, ListInv, asked
<1> QED  BY <1>1, <1>2, <1>3

(* A walk from the tip has nothing behind it; nor has one from a given place. *)
LEMMA BeginStep ==
  ASSUME PagesInv, NEW a, NEW lim \in Nat, NEW off \in Nat, NEW inner,
         NEW id \in {Nowhere} \cup ((1..MaxChain) \X (1..MaxPage)),
         \/ BeginTransactions(a, lim, id) \/ BeginGet(a, off, lim)
         \/ BeginLast("source", a) \/ BeginLast("target", a)
         \/ BeginSeek(a, inner) \/ BeginList(off, lim)
  PROVE  PagesInv'
<1> USE DEF PagesInv, QueryInv
<1>0. /\ at = "idle" /\ passed = <<>> /\ res = <<>> /\ tip = 0 /\ pos = Nowhere
      /\ UNCHANGED <<stored, counters, passed, res>>
      /\ limit' \in Nat /\ offset' \in Nat /\ Len(stored) \in Nat
  BY LenProperties, QueryAssumption, SMT DEF BeginTransactions, BeginGet, BeginLast, BeginSeek, BeginList, Smaller, Ask, PlaceInv, QueryType
<1>1. ASSUME Met' = {}, QueryType', PlaceInv', at' \in {"test", "land"},
             query' = "transactions" /\ at' = "land" => 0 < limit',
             \A x \in Ids(tip)' : query' = "inner" => ~Behind(x)'
      PROVE  PagesInv'
  <2>1. Members(passed') = {} /\ Members(res') = {} /\ Descends(passed') /\ Descends(res')
        /\ Len(passed') = 0 /\ Len(res') = 0 /\ passed' = <<>> /\ res' = <<>>
    BY <1>0, MembersEmpty
  <2>2. passed' = <<>> => Len(passed') <= offset'
    BY <1>0, <2>1, SMTT(30)
  <2>3. WalkInv'
    BY <1>0, <1>1, <2>1, <2>2, SMT DEF WalkInv, Members, Descends
  <2> QED  BY <1>1, <2>3 DEF StorageQueriesExact, AddressPage, ListInv, ListEndsWithPage
<1>2. ASSUME LoadLast, at' = "land"
      PROVE  /\ Met' = {} /\ \A x \in Ids(tip)' : ~Behind(x)'
             /\ tip' \in 0..Len(stored) /\ pos' \in Place /\ pos'[1] = tip'
  <2>1. tip' = Len(stored) /\ pos' = <<Len(stored), 0>> /\ pos'[1] = tip' /\ pos' \in Place
    BY <1>0, <1>2 DEF LoadLast, Place
  <2>2. \A x \in Ids(tip') : x[1] \in 1..tip'
    BY <1>0, <2>1, IdsAre, SMT DEF QueryType
  <2>3. Ids(tip)' = Ids(tip')
    BY <1>0, SMT DEF Ids
  <2>4. \A x \in Ids(tip)' : ~Behind(x)'
    BY <1>0, <1>2, <2>1, <2>2, <2>3, SMT DEF Behind
  <2> QED  BY <1>0, <2>1, <2>4, SMT DEF Met, Matching
<1>3. CASE BeginGet(a, off, lim) \/ BeginLast("source", a) \/ BeginLast("target", a) \/ BeginSeek(a, inner)
  <2>1. /\ LoadLast /\ at' = "land" /\ start' = Nowhere /\ query' \in Walks \ {"transactions"}
        /\ query' # "get" => offset' = 0 /\ limit' = 1
    BY <1>3 DEF BeginGet, BeginLast, BeginSeek, Ask, Walks
  <2>2. QueryType' /\ PlaceInv'
    BY <1>0, <1>2, <2>1, SMT DEF QueryType, PlaceInv, counters, Walks, Nowhere, Place
  <2> QED  BY <1>1, <1>2, <2>1, <2>2
<1>4. CASE BeginList(off, lim)
  <2>1. LoadLast /\ at' = "size" /\ start' = Nowhere /\ query' = "list"
    BY <1>4 DEF BeginList, Ask
  <2>2. tip' = Len(stored) /\ pos' = <<Len(stored), 0>> /\ pos'[1] = tip' /\ pos' \in Place
    BY <1>0, <2>1 DEF LoadLast, Place
  <2>3. QueryType' /\ PlaceInv'
    BY <1>0, <2>1, <2>2, SMT DEF QueryType, PlaceInv, counters, Walks, Nowhere, Place
  <2> QED  BY <1>0, <2>1, <2>2, <2>3 DEF WalkInv, StorageQueriesExact, AddressPage, ListInv, ListEndsWithPage
<1>5. CASE BeginTransactions(a, lim, id)
  <2>0. /\ query' = "transactions" /\ start' = id /\ offset' = 0
        /\ at' = IF id = Nowhere \/ InChain(id) THEN "test" ELSE "done"
        /\ IF InChain(id) THEN tip' = id[1] /\ pos' = id ELSE UNCHANGED <<tip, pos>>
        /\ id \in Place
    BY <1>5, QueryAssumption, SMT DEF BeginTransactions, Ask, Nowhere, Place
  <2>1. CASE InChain(id)
    <3>1. at' = "test" /\ tip' = id[1] /\ pos' = id /\ tip' \in 1..Len(stored) /\ start' = id
      BY <1>0, <2>0, <2>1, SMT DEF InChain, QueryType
    <3>2. ~Newer(id, id) /\ id # Nowhere
      BY <2>0, <3>1, Order, SMTT(30) DEF Nowhere
    <3>3. QueryType' /\ PlaceInv'
      BY <1>0, <2>0, <2>1, <3>1, <3>2, SMT DEF QueryType, PlaceInv, counters, Walks, InChain, Newer, Place
    <3>4. Met' = {}
      BY <2>0, <3>1, <3>2 DEF Met, Matching, Matches, Behind, Newer
    <3> QED  BY <1>1, <2>0, <3>1, <3>3, <3>4
  <2>2. CASE ~InChain(id)
    <3>1. UNCHANGED <<tip, pos>>
      BY <2>0, <2>2
    <3>2. Ids(tip)' = {}
      <4>1. tip' = 0
        BY <1>0, <3>1
      <4>2. 1..tip' = {}
        BY <4>1, SMT
      <4> QED  BY <4>2 DEF Ids
    <3>3. Met' = {} /\ Matching' = {}
      BY <3>2 DEF Met, Matching
    <3>4. QueryType' /\ PlaceInv'
      BY <1>0, <2>0, <3>1 DEF QueryType, PlaceInv, counters, Walks, Nowhere, Place
    <3>5. CASE id = Nowhere
      BY <1>1, <2>0, <3>3, <3>4, <3>5
    <3>6. CASE id # Nowhere
      <4>1. at' = "done"
        BY <2>0, <2>2, <3>6
      <4>2. IsNewest(<<>>, {}, limit')
        BY <1>0, SMT DEF IsNewest, Members
      <4>3. IsNewest(res, Matching, limit)'
        BY <1>0, <3>3, <4>2 DEF IsNewest, Members
      <4> QED  BY <2>0, <3>4, <4>1, <4>3 DEF WalkInv, StorageQueriesExact, AddressPage, ListInv, ListEndsWithPage
    <3> QED  BY <3>5, <3>6
  <2> QED  BY <2>1, <2>2
<1> QED  BY <1>3, <1>4, <1>5
(* A block more, or none. *)
LEMMA KeepStep ==
  ASSUME PagesInv, UNCHANGED <<asked, at, tip, pos, counters, passed, res>>,
         Ids(tip)' = Ids(tip), Matching' = Matching, \A x \in Ids(tip) : Tx(x)' = Tx(x),
         InChain(pos) => InChain(pos)',
         stored' \in Seq(ChainBlocks), Len(stored') >= Len(stored)
  PROVE  PagesInv'
<1> USE DEF PagesInv, QueryInv
<1>1. QueryType'
  BY LenProperties, SMT DEF QueryType, asked, counters
<1>2. PlaceInv'
  BY DEF PlaceInv, asked, Newer
<1>3. \A x : Behind(x)' <=> Behind(x)
  BY DEF Behind, Newer
<1>4. Met' = Met
  BY <1>3 DEF Met
<1>5. WalkInv'
  <2>1. at \in {"test", "land", "look"} /\ query = "inner" =>
          \A x \in Ids(tip)' : Behind(x)' => (Tx(x)').source # addr
    BY <1>3 DEF WalkInv
  <2> HIDE DEF QueryInv
  <2>2. WalkInv
    BY DEF QueryInv
  <2>3. UNCHANGED <<at, query, addr, limit, offset, passed, res>>
    BY DEF asked
  <2>4. Members(passed)' = Members(passed) /\ Members(res)' = Members(res)
        /\ Descends(passed)' = Descends(passed) /\ Descends(res)' = Descends(res)
        /\ \A x, y : Newer(x, y)' = Newer(x, y)
    BY <2>3, SMT DEF Members, Descends, Newer
  <2> QED  BY <1>4, <2>1, <2>2, <2>3, <2>4 DEF WalkInv
<1>6. StorageQueriesExact' /\ AddressPage'
  <2>1. UNCHANGED <<at, query, limit, offset, passed, res>>
    BY DEF asked
  <2> QED  BY <2>1, SameAnswer DEF StorageQueriesExact, AddressPage
<1>7. ListInv' /\ ListEndsWithPage'
  BY DEF ListInv, ListEndsWithPage, Lower, asked, counters
<1> QED  BY <1>1, <1>2, <1>5, <1>6, <1>7

LEMMA GrowStep ==
  ASSUME PagesInv, NEW blk \in ChainBlocks, AddBlock(blk)
  PROVE  PagesInv'
<1>0. /\ stored' = Append(stored, blk) /\ QueryType
      /\ UNCHANGED <<asked, at, tip, pos, counters, passed, res>>
  BY DEF AddBlock, PagesInv, QueryInv
<1>1. /\ Ids(tip)' = Ids(tip) /\ Matching' = Matching
      /\ stored' \in Seq(ChainBlocks) /\ Len(stored') = Len(stored) + 1
      /\ \A b \in 1..Len(stored) : stored'[b] = stored[b]
      /\ \A x \in Ids(tip) : Tx(x)' = Tx(x)
  BY <1>0, GrowthKeeps
<1>2. (InChain(pos) => InChain(pos)') /\ Len(stored') >= Len(stored)
  BY <1>0, <1>1, LenProperties, SMT DEF InChain, QueryType
<1> QED  BY <1>0, <1>1, <1>2, KeepStep

LEMMA PagesInit == QueryInit => PagesInv
<1> SUFFICES ASSUME QueryInit  PROVE PagesInv
  OBVIOUS
<1>1. QueryType /\ PlaceInv
  BY SMT DEF QueryInit, QueryType, PlaceInv, Nowhere, Place, Walks
<1> QED  BY <1>1 DEF QueryInit, PagesInv, QueryInv, WalkInv, StorageQueriesExact, AddressPage, ListInv, ListEndsWithPage

LEMMA PagesStep == PagesInv /\ [QueryNext]_queryVars => PagesInv'
<1> SUFFICES ASSUME PagesInv, [QueryNext]_queryVars  PROVE PagesInv'
  OBVIOUS
<1>1. CASE \E blk \in ChainBlocks : AddBlock(blk)
  BY <1>1, GrowStep
<1>2. ASSUME NEW a \in Addresses, NEW lim \in 0..MaxPage,
             \/ \E id \in {Nowhere} \cup ((1..MaxChain) \X (1..MaxPage)) : BeginTransactions(a, lim, id)
             \/ \E off \in 0..MaxPage : BeginGet(a, off, lim)
      PROVE  PagesInv'
  <2>1. lim \in Nat /\ \A off \in 0..MaxPage : off \in Nat
    BY QueryAssumption, SMT
  <2>2. ASSUME NEW id \in {Nowhere} \cup ((1..MaxChain) \X (1..MaxPage)), BeginTransactions(a, lim, id)
        PROVE  PagesInv'
    BY <2>1, <2>2, BeginStep
  <2>3. ASSUME NEW off \in 0..MaxPage, BeginGet(a, off, lim)
        PROVE  PagesInv'
    BY <2>1, <2>3, BeginStep
  <2> QED  BY <1>2, <2>2, <2>3
<1>3. ASSUME NEW a \in Addresses, BeginLast("source", a) \/ BeginLast("target", a) \/ \E inner \in InnerIds : BeginSeek(a, inner)
      PROVE  PagesInv'
  <2>1. CASE BeginLast("source", a) \/ BeginLast("target", a)
    BY <2>1, BeginStep
  <2>2. ASSUME NEW inner \in InnerIds, BeginSeek(a, inner)
        PROVE  PagesInv'
    BY <2>2, BeginStep
  <2> QED  BY <1>3, <2>1, <2>2
<1>4. ASSUME NEW off \in 0..(MaxList + 1), NEW lim \in 0..(MaxList + 1), BeginList(off, lim)
      PROVE  PagesInv'
  <2>1. lim \in Nat /\ off \in Nat
    BY QueryAssumption, SMT
  <2> QED  BY <1>4, <2>1, BeginStep
<1>5. CASE QueryStep
  BY <1>5, WalkStep, ListStep DEF QueryStep
<1>6. CASE Return
  <2>1. QueryType' /\ PlaceInv'
    BY <1>6, LenProperties, SMT DEF Return, PagesInv, QueryInv, QueryType, PlaceInv, Nowhere, Place, Walks
  <2> QED  BY <1>6, <2>1 DEF Return, PagesInv, QueryInv, WalkInv, StorageQueriesExact, AddressPage, ListInv, ListEndsWithPage
<1>7. CASE UNCHANGED queryVars
  <2>1. UNCHANGED <<stored, asked, at, tip, pos, counters, passed, res>>
    BY <1>7 DEF queryVars
  <2>2. /\ Ids(tip)' = Ids(tip) /\ Matching' = Matching
        /\ \A x : Tx(x)' = Tx(x) /\ InChain(x)' = InChain(x)
    BY <2>1, SameQuestion
  <2>3. stored' \in Seq(ChainBlocks) /\ Len(stored') >= Len(stored) /\ (InChain(pos) => InChain(pos)')
    BY <2>1, LenProperties, SMT DEF PagesInv, QueryInv, QueryType, InChain
  <2> QED  BY <2>1, <2>2, <2>3, KeepStep
<1> QED  BY <1>1, <1>2, <1>3, <1>4, <1>5, <1>6, <1>7 DEF QueryNext

LEMMA ExtractIsPage ==
  ASSUME QueryType, NEW b \in DOMAIN stored, NEW off \in Nat, NEW lim \in Nat
  PROVE  Extract(b, lim, off) =
           SubSeq([i \in DOMAIN stored[b] |-> <<b, i>>], off + 1, Smaller(Len(stored[b]), off + lim))
<1>1. stored[b] \in Seq([source : Addresses, target : Addresses, inner : InnerIds])
  <2>1. stored[b] \in ChainBlocks
    BY SMT DEF QueryType
  <2> QED  BY <2>1, QueryAssumption
<1>2. PICK c \in Nat : c = Len(stored[b]) /\ DOMAIN stored[b] = 1..c
  BY <1>1, LenProperties
<1>3. PICK s : s = [i \in 1..c |-> <<b, i>>]
  OBVIOUS
<1>5. PICK u \in Nat : u = Smaller(c, off + lim)
  BY SMT DEF Smaller
<1>6. CASE off > c
  <2>1. off + 1 \in Int /\ u \in Int /\ u < off + 1
    BY <1>5, <1>6, SMT DEF Smaller
  <2>2. SubSeq(s, off + 1, u) = <<>>
    BY <2>1, SubSeqEmpty
  <2> QED  BY <1>2, <1>3, <1>5, <1>6, <2>2 DEF Extract
<1>7. CASE ~(off > c)
  <2>1. PICK w \in Nat : w = u - off /\ w = (IF lim > c - off THEN c - off ELSE lim)
    BY <1>5, <1>7, SMT DEF Smaller
  <2>2. \A k \in 1..w : off + k \in 1..c /\ off + 1 + k - 1 = off + k
    BY <1>5, <1>7, <2>1, SMT DEF Smaller
  <2>3. \A i \in (off + 1)..u : s[i] \in {b} \X Nat
    BY <1>3, <1>5, SMT DEF Smaller
  <2>4. /\ SubSeq(s, off + 1, u) \in Seq({b} \X Nat)
        /\ Len(SubSeq(s, off + 1, u)) = IF off + 1 <= u THEN u - (off + 1) + 1 ELSE 0
        /\ \A k \in 1..(u - (off + 1) + 1) : SubSeq(s, off + 1, u)[k] = s[off + 1 + k - 1]
    <3>1. off + 1 \in Int /\ u \in Int
      BY SMT
    <3> QED  BY <2>3, <3>1, SubSeqProperties, SMT
  <2>5. PICK q : q = SubSeq(s, off + 1, u)
    OBVIOUS
  <2>6. q \in Seq({b} \X Nat) /\ Len(q) = w /\ \A k \in 1..w : q[k] = s[off + k]
    <3>1. (IF off + 1 <= u THEN u - (off + 1) + 1 ELSE 0) = w /\ u - (off + 1) + 1 = w
      BY <2>1, SMT
    <3> QED  BY <2>2, <2>4, <2>5, <3>1
  <2>7. PICK t : t = [k \in 1..w |-> <<b, off + k>>]
    OBVIOUS
  <2>8. t \in Seq({b} \X Nat) /\ Len(t) = w
    BY <2>7, SMT
  <2>9. \A k \in 1..w : q[k] = t[k]
    <3>1. \A k \in 1..w : s[off + k] = <<b, off + k>>
      BY <1>3, <2>2
    <3> QED  BY <2>6, <2>7, <3>1
  <2>10. q = t
    BY <2>6, <2>8, <2>9, SeqEqual
  <2> QED  BY <1>2, <1>3, <1>5, <1>7, <2>1, <2>5, <2>7, <2>10 DEF Extract
<1> QED  BY <1>6, <1>7

(* Whatever the chain, the transactions and the page: Storage::transactions *)
(* and the lookups by source, target and innerID answer with the newest     *)
(* transactions that were asked for, also while blocks are added.           *)
THEOREM StorageQueriesAlways == QuerySpec => []StorageQueriesExact
<1>1. QuerySpec => []PagesInv
  BY PagesInit, PagesStep, PTL DEF QuerySpec
<1>2. PagesInv => StorageQueriesExact
  BY DEF PagesInv, QueryInv
<1> QED  BY <1>1, <1>2, PTL

(* The pages of TransactionsGet, extractTransactions and PoolListGet are    *)
(* those asked for, whatever the chain, the page and the cache.             *)
THEOREM ApiPagesAlways == QuerySpec => []ApiPagesExact
<1>1. QuerySpec => []PagesInv
  BY PagesInit, PagesStep, PTL DEF QuerySpec
<1>2. PagesInv => ApiPagesExact
  <2> SUFFICES ASSUME PagesInv  PROVE ApiPagesExact
    OBVIOUS
  <2>1. \A off \in 0..MaxPage : off \in Nat
    BY QueryAssumption, SMT
  <2>2. QueryType /\ AddressPage /\ ListEndsWithPage
    BY DEF PagesInv, QueryInv
  <2> QED  BY <2>1, <2>2, ExtractIsPage DEF ApiPagesExact
<1> QED  BY <1>1, <1>2, PTL
=============================================================================
