---------------------------- MODULE SmartProofs ----------------------------
(***************************************************************************)
(* Proof that the caches of smart contracts are exact for whoever uses     *)
(* them, as long as calls do not overlap. While a walk runs the caches say *)
(* what the transactions it has entered and the blocks seen before it say; *)
(* its iterators into the lists stand between the two. Once a walk has     *)
(* failed they need not, but then no walk comes to its end any more.       *)
(***************************************************************************)
EXTENDS SmartCache, TLAPS

USE Zenon

NN == Nat \X Nat

LEMMA NewerOrder ==
  ASSUME NEW x \in NN, NEW y \in NN, NEW z \in NN
  PROVE  /\ ~(Newer(x, y) /\ Newer(y, x)) /\ ~Newer(x, x)
         /\ Newer(x, y) /\ Newer(y, z) => Newer(x, z)
BY SMT DEF NN, Newer

(* The last pos elements of a list are its members of O. *)
OldFrom(list, pos, O) ==
  pos \in 0..Len(list) /\ \A j \in 1..Len(list) : list[j] \in O <=> j > Len(list) - pos

LEMMA InsertSeq ==
  ASSUME NEW list \in Seq(NN), NEW id \in NN, NEW pos \in 0..Len(list)
  PROVE  InsertBefore(list, id, pos) \in Seq(NN) /\ Len(InsertBefore(list, id, pos)) = Len(list) + 1
BY SMT DEF InsertBefore

LEMMA InsertKeeps ==
  ASSUME NEW list \in Seq(NN), NEW W \in SUBSET NN, NEW O \in SUBSET NN, NEW id \in NN, NEW pos,
         Lists(list, W \cup O), OldFrom(list, pos, O),
         \A w \in W : Newer(w, id), \A o \in O : Newer(id, o)
  PROVE  /\ InsertBefore(list, id, pos) \in Seq(NN)
         /\ Lists(InsertBefore(list, id, pos), W \cup {id} \cup O)
         /\ OldFrom(InsertBefore(list, id, pos), pos, O)
<1> DEFINE k == Len(list) - pos + 1
           new == InsertBefore(list, id, pos)
           n == Len(list)
<1>1. n \in Nat /\ DOMAIN list = 1..n /\ \A j \in 1..n : list[j] \in NN
  BY SMT
<1>2. /\ k \in 1..(n + 1)
      /\ \A j \in 1..n : j < k => list[j] \in W /\ list[j] \notin O
      /\ \A j \in 1..n : j >= k => list[j] \in O
  <2>1. \A j \in 1..n : list[j] \in W \cup O
    BY <1>1 DEF Lists
  <2>2. \A j \in 1..n : list[j] \in O <=> j >= k
    BY <1>1, SMT DEF OldFrom
  <2>3. k \in 1..(n + 1)
    BY <1>1, SMT DEF OldFrom
  <2> QED
    BY <1>1, <2>1, <2>2, <2>3, SMT
<1>3. new = [j \in 1..(n + 1) |-> IF j < k THEN list[j] ELSE IF j = k THEN id ELSE list[j - 1]]
  BY DEF InsertBefore
<1>0. k = n - pos + 1 /\ pos \in 0..n
  BY DEF OldFrom
<1> HIDE DEF k, new
<1>4. /\ DOMAIN new = 1..(n + 1) /\ new[k] = id
      /\ \A j \in 1..(n + 1) : j < k => j \in 1..n /\ new[j] = list[j] /\ new[j] \in W
      /\ \A j \in 1..(n + 1) : j > k => j - 1 \in 1..n /\ new[j] = list[j - 1] /\ new[j] \in O
  BY <1>1, <1>2, <1>3, SMT
<1>5. new \in Seq(NN)
  BY <1>1, <1>2, <1>3, SMT
<1>6. {new[j] : j \in DOMAIN new} = W \cup {id} \cup O
  <2>1. \A j \in DOMAIN new : new[j] \in W \cup {id} \cup O
    <3> TAKE j \in DOMAIN new
    <3>1. j < k \/ j = k \/ j > k
      BY <1>2, <1>4, SMT
    <3> QED
      BY <1>4, <3>1
  <2>2. ASSUME NEW x \in W \cup {id} \cup O PROVE \E j \in DOMAIN new : new[j] = x
    <3>1. CASE x = id
      BY <1>2, <1>4, <3>1
    <3>2. CASE x \in W \cup O
      <4>1. PICK i \in 1..n : list[i] = x
        <5>1. x \in {list[j] : j \in DOMAIN list}
          BY <3>2 DEF Lists
        <5> QED
          BY <1>1, <5>1
      <4>2. CASE i < k
        BY <1>1, <1>2, <1>3, <1>4, <4>1, <4>2, SMT
      <4>3. CASE i >= k
        <5>1. i + 1 \in 1..(n + 1) /\ i + 1 > k /\ (i + 1) - 1 = i
          BY <1>1, <1>2, <4>3, SMT
        <5>2. new[i + 1] = list[i]
          BY <1>4, <5>1
        <5> QED
          BY <1>4, <4>1, <5>1, <5>2
      <4> QED
        BY <1>1, <1>2, <4>2, <4>3, SMT
    <3> QED
      BY <2>2, <3>1, <3>2
  <2> QED
    BY <2>1, <2>2
<1>7. ASSUME NEW i \in DOMAIN new, NEW j \in DOMAIN new, i < j PROVE Newer(new[i], new[j])
  <2>1. i \in 1..(n + 1) /\ j \in 1..(n + 1) /\ k \in 1..(n + 1)
    BY <1>2, <1>4
  <2>2. CASE j < k
    BY <1>1, <1>4, <1>7, <2>1, <2>2, SMT DEF Lists
  <2>3. CASE j = k
    BY <1>4, <1>7, <2>1, <2>3
  <2>4. CASE j > k /\ i = k
    BY <1>4, <2>1, <2>4
  <2>5. CASE j > k /\ i < k
    <3>1. new[i] = list[i] /\ i \in 1..n /\ new[j] = list[j - 1] /\ j - 1 \in 1..n /\ i < j - 1
      BY <1>1, <1>4, <2>1, <2>5, SMT
    <3> QED
      BY <1>1, <3>1 DEF Lists
  <2>6. CASE i > k
    <3>1. new[i] = list[i - 1] /\ i - 1 \in 1..n /\ new[j] = list[j - 1] /\ j - 1 \in 1..n /\ i - 1 < j - 1
      BY <1>1, <1>4, <1>7, <2>1, <2>6, SMT
    <3> QED
      BY <1>1, <3>1 DEF Lists
  <2> QED
    BY <1>1, <1>7, <2>1, <2>2, <2>3, <2>4, <2>5, <2>6, SMT
<1>8. Lists(new, W \cup {id} \cup O)
  BY <1>6, <1>7 DEF Lists
<1>9. OldFrom(new, pos, O)
  <2>1. id \notin O
    BY NewerOrder
  <2>2. Len(new) = n + 1
    BY <1>1, <1>5, <1>4, SMT
  <2>3. \A j \in 1..(n + 1) : j < k => new[j] \notin O
    BY <1>2, <1>4
  <2>4. \A j \in 1..(n + 1) : new[j] \in O <=> j > k
    BY <1>2, <1>4, <2>1, <2>3, SMT
  <2>5. n + 1 - pos = k
    BY <1>0, <1>1, SMT
  <2>6. pos \in 0..(n + 1)
    BY <1>0, <1>1, SMT
  <2>7. \A j \in 1..Len(new) : new[j] \in O <=> j > Len(new) - pos
    BY <1>0, <1>1, <2>2, <2>4, <2>5, SMT
  <2> QED
    BY <2>2, <2>6, <2>7 DEF OldFrom
<1> QED
  BY <1>5, <1>8, <1>9 DEF new
-----------------------------------------------------------------------------
SmartTypeOK ==
  /\ blocks \in Seq(Seq(SmartTransactions)) /\ lastSeen \in Nat
  /\ deployed_by_creator \in [Deployers -> Seq(NN)]
  /\ smart_origin \in [Contracts -> NN \cup {NoTx}] /\ smart_state \in [Contracts -> NN \cup {NoTx}]
  /\ call \in [Connections -> {"idle", "test", "enter", "use"}]
  /\ last_ph \in [Connections -> Nat] /\ curr_ph \in [Connections -> Nat] /\ i_tr \in [Connections -> Nat]
  /\ poss \in [Connections -> [Deployers -> Nat \cup {NoTx}]]
  /\ state_updated \in [Connections -> SUBSET Contracts]

(* What the walk of t has entered, and what the caches hold with it. *)
Walked(t) == {x \in Ids(last_ph[t]) : \/ x[1] > curr_ph[t]
                                      \/ call[t] = "enter" /\ x[1] = curr_ph[t] /\ x[2] > i_tr[t]}
Seen(t) == Walked(t) \cup Ids(lastSeen)

AtRest(t) == last_ph[t] = 0 /\ poss[t] = NotMet /\ state_updated[t] = {}

(* A walk goes from its tip down to the block seen last. *)
WalkPlace(t) ==
  /\ call[t] \in {"idle", "use"} => AtRest(t)
  /\ call[t] \in {"test", "enter"} => lastSeen <= curr_ph[t] /\ curr_ph[t] <= last_ph[t] /\ last_ph[t] <= Len(blocks)
  /\ call[t] = "enter" => lastSeen < curr_ph[t] /\ i_tr[t] <= Len(blocks[curr_ph[t]])

(* What a walk remembers: where the older deployments of each deployer it  *)
(* met begin, and the contracts whose newest state it has seen.      *)
WalkMemory(t) ==
  /\ \A d \in Deployers : IF poss[t][d] = NoTx THEN DeploymentsOf(d, Walked(t)) = {}
                          ELSE OldFrom(deployed_by_creator[d], poss[t][d], DeploymentsOf(d, Ids(lastSeen)))
  /\ state_updated[t] = {c \in Contracts : Of(c, "state", Walked(t)) # {}}

(* The caches are what the walk of t, if there is one, and the blocks seen *)
(* before it make them.                                                    *)
Good(t) == WalkPlace(t) /\ WalkMemory(t) /\ ExactFor(Seen(t))

PlacesIn(t) == \A d \in Deployers : poss[t][d] # NoTx => poss[t][d] <= Len(deployed_by_creator[d])

(* A walk has failed. The bad transaction lies between the block seen last *)
(* and the place of any walk, so that no walk gets past it.                *)
Spoilt(t) ==
  /\ call[t] \in {"idle", "test", "enter"} /\ (call[t] = "idle" => AtRest(t)) /\ PlacesIn(t)
  /\ call[t] # "idle" => curr_ph[t] <= Len(blocks)
  /\ call[t] = "enter" => curr_ph[t] \in 1..Len(blocks) /\ i_tr[t] <= Len(blocks[curr_ph[t]])
  /\ \E x \in Ids(Len(blocks)) :
       /\ Tx(x).kind = "bad" /\ lastSeen < x[1]
       /\ call[t] # "idle" => x[1] <= curr_ph[t]
       /\ call[t] = "enter" => x[1] < curr_ph[t] \/ x[2] <= i_tr[t]

Base == SmartTypeOK /\ lastSeen <= Len(blocks)
One(t) == Base /\ Good(t)

(* No call but the one of t. *)
Only(t) == \A u \in Connections \ {t} : call[u] = "idle" /\ AtRest(u)

SmartInv ==
  \/ overlapped \/ Connections = {}
  \/ Base /\ \E t \in Connections : Only(t) /\ (Good(t) \/ Spoilt(t))

LEMMA IdsMember ==
  ASSUME SmartTypeOK, NEW n \in Nat, n <= Len(blocks)
  PROVE  /\ \A x \in Ids(n) : /\ x \in NN /\ x = <<x[1], x[2]>> /\ x[1] \in 1..n /\ x[2] \in 1..Len(blocks[x[1]])
                              /\ Tx(x) \in SmartTransactions
         /\ \A b \in 1..n : \A i \in 1..Len(blocks[b]) : <<b, i>> \in Ids(n)
<1>1. \A b \in 1..n : blocks[b] \in Seq(SmartTransactions)
  BY SMT DEF SmartTypeOK
<1>2. \A x : x \in Ids(n) <=> \E b \in 1..n : \E i \in 1..Len(blocks[b]) : x = <<b, i>>
  BY SMT DEF Ids
<1>3. ASSUME NEW x \in Ids(n)
      PROVE  /\ x \in NN /\ x = <<x[1], x[2]>> /\ x[1] \in 1..n /\ x[2] \in 1..Len(blocks[x[1]])
             /\ Tx(x) \in SmartTransactions
  <2>1. PICK b \in 1..n : \E i \in 1..Len(blocks[b]) : x = <<b, i>>
    BY <1>2, <1>3
  <2>2. PICK i \in 1..Len(blocks[b]) : x = <<b, i>>
    BY <2>1
  <2>3. x[1] = b /\ x[2] = i
    BY <2>2
  <2>4. blocks[b][i] \in SmartTransactions
    BY <1>1, SMT
  <2>5. x \in NN
    BY <2>2, SMT DEF NN
  <2> QED
    BY <2>2, <2>3, <2>4, <2>5 DEF Tx
<1> QED
  BY <1>2, <1>3

LEMMA IdsGrow ==
  ASSUME SmartTypeOK, NEW m \in Nat, NEW n \in Nat, n <= m, m <= Len(blocks)
  PROVE  Ids(n) \subseteq Ids(m)
<1> SUFFICES ASSUME NEW x \in Ids(n) PROVE x \in Ids(m)
  OBVIOUS
<1>1. n <= Len(blocks)
  BY SMT DEF SmartTypeOK
<1>2. x[1] \in 1..n /\ x[2] \in 1..Len(blocks[x[1]]) /\ x = <<x[1], x[2]>>
  BY <1>1, IdsMember
<1>3. x[1] \in 1..m
  BY <1>2, SMT
<1>4. \A b \in 1..m : \A i \in 1..Len(blocks[b]) : <<b, i>> \in Ids(m)
  BY IdsMember
<1> QED
  BY <1>2, <1>3, <1>4

(* Where a walk can be. *)
LEMMA WalkBounds ==
  ASSUME NEW t \in Connections, One(t)
  PROVE  /\ Len(blocks) \in Nat /\ lastSeen \in Nat /\ lastSeen <= Len(blocks)
         /\ last_ph[t] \in Nat /\ curr_ph[t] \in Nat /\ last_ph[t] <= Len(blocks)
         /\ call[t] = "enter" => curr_ph[t] \in 1..Len(blocks)
<1>1. /\ Len(blocks) \in Nat /\ lastSeen \in Nat /\ lastSeen <= Len(blocks)
      /\ last_ph[t] \in Nat /\ curr_ph[t] \in Nat
  BY SMT DEF One, Base, Good, SmartTypeOK
<1>2. WalkPlace(t) /\ call[t] \in {"idle", "test", "enter", "use"}
  BY DEF One, Base, Good, SmartTypeOK
<1> QED
  BY <1>1, <1>2, SMT DEF WalkPlace, AtRest

LEMMA SameChain ==
  ASSUME blocks' = blocks
  PROVE  /\ \A n : Ids(n)' = Ids(n)
         /\ \A x : Tx(x)' = Tx(x)
         /\ \A d, S : DeploymentsOf(d, S)' = DeploymentsOf(d, S)
         /\ \A c, kind, S : Of(c, kind, S)' = Of(c, kind, S)
<1>1. \A n : Ids(n)' = Ids(n)
  BY SMT DEF Ids
<1>2. \A x : Tx(x)' = Tx(x)
  BY DEF Tx
<1>3. \A d, S : DeploymentsOf(d, S)' = DeploymentsOf(d, S)
  BY DEF DeploymentsOf, Tx
<1>4. \A c, kind, S : Of(c, kind, S)' = Of(c, kind, S)
  BY DEF Of, Tx
<1> QED
  BY <1>1, <1>2, <1>3, <1>4

(* The chain and the caches are as before: what they say of a set of       *)
(* transactions too.                                                       *)
LEMMA SameCaches ==
  ASSUME blocks' = blocks, UNCHANGED smartCaches, NEW S, ExactFor(S)
  PROVE  ExactFor(S)'
<1>1. /\ \A d : DeploymentsOf(d, S)' = DeploymentsOf(d, S)
      /\ \A c, kind : Of(c, kind, S)' = Of(c, kind, S)
  BY SameChain
<1>2. deployed_by_creator' = deployed_by_creator /\ smart_origin' = smart_origin /\ smart_state' = smart_state
  BY DEF smartCaches
<1> QED
  BY <1>1, <1>2 DEF ExactFor

(* A step of the walk's loop that enters nothing. *)
LEMMA LoopStep ==
  ASSUME NEW t \in Connections, One(t), SmartTypeOK',
         blocks' = blocks, UNCHANGED smartCaches, lastSeen' = lastSeen,
         poss' = poss, state_updated' = state_updated,
         Walked(t)' = Walked(t), WalkPlace(t)'
  PROVE  One(t)'
<1>1. PICK W : W = Walked(t)
  OBVIOUS
<1>2. PICK O : O = Ids(lastSeen)
  OBVIOUS
<1>3. Walked(t)' = W /\ Ids(lastSeen)' = O
  BY <1>1, <1>2, SameChain
<1>4. ExactFor(W \cup O)
  BY <1>1, <1>2 DEF One, Base, Good, Seen
<1>5. ExactFor(W \cup O)'
  BY <1>4, SameCaches
<1>6. ExactFor(Seen(t))'
  BY <1>3, <1>5 DEF Seen
<1>7. WalkMemory(t)'
  <2>1. /\ \A d, S : DeploymentsOf(d, S)' = DeploymentsOf(d, S)
        /\ \A c, kind, S : Of(c, kind, S)' = Of(c, kind, S)
    BY SameChain
  <2>2. deployed_by_creator' = deployed_by_creator
    BY DEF smartCaches
  <2>3. (state_updated[t] = {c \in Contracts : Of(c, "state", Walked(t)) # {}})'
    BY <1>1, <1>3, <2>1 DEF One, Good, WalkMemory
  <2> QED
    BY <1>1, <1>2, <1>3, <2>1, <2>2, <2>3 DEF One, Good, WalkMemory
<1>8. (lastSeen <= Len(blocks))'
  BY SameChain, SMT DEF One, Base, Good
<1> QED
  BY <1>6, <1>7, <1>8 DEF One, Base, Good

LEMMA SmartInitInv == SmartInit => SmartInv
<1> SUFFICES ASSUME SmartInit, NEW t \in Connections PROVE Base /\ Only(t) /\ Good(t)
  BY DEF SmartInv
<1>1. SmartTypeOK
  BY SMT DEF SmartInit, SmartTypeOK, NotMet
<1>2. Ids(0) = {} /\ Len(blocks) = 0 /\ lastSeen = 0
  BY SMT DEF Ids, SmartInit
<1>3. \A u \in Connections : call[u] = "idle" /\ AtRest(u)
  BY DEF SmartInit, AtRest
<1>4. Good(t)
  <2>1. Walked(t) = {} /\ Seen(t) = {}
    BY <1>2, <1>3 DEF Walked, Seen, AtRest
  <2>2. \A c, kind, d : Of(c, kind, {}) = {} /\ DeploymentsOf(d, {}) = {}
    BY DEF Of, DeploymentsOf
  <2>3. ExactFor({})
    BY <2>2, SMT DEF ExactFor, IsNewest, IsSome, Lists, SmartInit
  <2> QED
    BY <1>3, <2>1, <2>2, <2>3 DEF Good, WalkPlace, WalkMemory, AtRest, NotMet
<1> QED
  BY <1>1, <1>2, <1>3, <1>4, SMT DEF Base, Only

LEMMA BeginKeeps ==
  ASSUME NEW t \in Connections, One(t), BeginUpdate(t)
  PROVE  One(t)'
<1> USE DEF One, Base, Good
<1>1. SmartTypeOK'
  BY SMT DEF BeginUpdate, SmartTypeOK, smartCaches
<1>2. /\ blocks' = blocks /\ UNCHANGED smartCaches /\ lastSeen' = lastSeen /\ poss' = poss
      /\ state_updated' = state_updated /\ call[t] = "idle" /\ call'[t] = "test"
      /\ last_ph'[t] = Len(blocks) /\ curr_ph'[t] = Len(blocks)
  BY DEF BeginUpdate, SmartTypeOK
<1>3. WalkPlace(t)'
  BY <1>2, SMT DEF WalkPlace, SmartTypeOK
<1>4. Walked(t) = {}
  <2>1. last_ph[t] = 0
    BY <1>2 DEF WalkPlace, AtRest
  <2> QED
    BY <2>1, SMT DEF Walked, Ids
<1>5. Walked(t)' = {}
  <2>1. \A x \in Ids(Len(blocks)) : ~(x[1] > Len(blocks))
    <3>1. Len(blocks) \in Nat
      BY SMT DEF SmartTypeOK
    <3> QED
      BY <3>1, IdsMember, SMT
  <2> QED
    BY <1>2, <2>1, SameChain DEF Walked
<1> QED
  BY <1>1, <1>2, <1>3, <1>4, <1>5, LoopStep

LEMMA LoadKeeps ==
  ASSUME NEW t \in Connections, One(t), LoadNext(t)
  PROVE  One(t)'
<1> USE DEF One, Base, Good
<1>1. /\ blocks' = blocks /\ UNCHANGED smartCaches /\ lastSeen' = lastSeen /\ poss' = poss
      /\ state_updated' = state_updated /\ call[t] = "test" /\ call'[t] = "enter"
      /\ last_ph' = last_ph /\ curr_ph' = curr_ph /\ i_tr'[t] = Length(curr_ph[t]) /\ curr_ph[t] # lastSeen
  BY DEF LoadNext, SmartTypeOK
<1>2. /\ lastSeen < curr_ph[t] /\ curr_ph[t] <= last_ph[t] /\ last_ph[t] <= Len(blocks)
      /\ curr_ph[t] \in Nat /\ last_ph[t] \in Nat /\ lastSeen \in Nat
  BY <1>1, SMT DEF WalkPlace, SmartTypeOK
<1>3. Length(curr_ph[t]) = Len(blocks[curr_ph[t]]) /\ Length(curr_ph[t]) \in Nat
  BY <1>2, SMT DEF Length, SmartTypeOK
<1>4. SmartTypeOK'
  BY <1>3 DEF LoadNext, SmartTypeOK, smartCaches
<1>5. WalkPlace(t)'
  BY <1>1, <1>2, <1>3, SMT DEF WalkPlace
<1>6. Walked(t)' = Walked(t)
  <2>1. \A x \in Ids(last_ph[t]) : x[1] = curr_ph[t] => ~(x[2] > Length(curr_ph[t]))
    BY <1>2, <1>3, IdsMember, SMT
  <2> QED
    BY <1>1, <2>1, SameChain, SMT DEF Walked
<1> QED
  BY <1>1, <1>4, <1>5, <1>6, LoopStep

LEMMA PreviousKeeps ==
  ASSUME NEW t \in Connections, One(t), PreviousBlock(t)
  PROVE  One(t)'
<1> USE DEF One, Base, Good
<1>1. /\ blocks' = blocks /\ UNCHANGED smartCaches /\ lastSeen' = lastSeen /\ poss' = poss
      /\ state_updated' = state_updated /\ call[t] = "enter" /\ call'[t] = "test"
      /\ last_ph' = last_ph /\ i_tr[t] = 0 /\ i_tr' = i_tr
  BY DEF PreviousBlock, SmartTypeOK
<1>2. /\ lastSeen < curr_ph[t] /\ curr_ph[t] <= last_ph[t] /\ last_ph[t] <= Len(blocks)
      /\ curr_ph[t] \in Nat /\ last_ph[t] \in Nat /\ lastSeen \in Nat
  BY <1>1 DEF WalkPlace, SmartTypeOK
<1>3. curr_ph'[t] = curr_ph[t] - 1 /\ curr_ph[t] - 1 \in Nat
  BY <1>2, SMT DEF PreviousBlock, SmartTypeOK
<1>4. SmartTypeOK'
  BY <1>2, SMTT(30) DEF PreviousBlock, SmartTypeOK, smartCaches
<1>5. WalkPlace(t)'
  BY <1>1, <1>2, <1>3, SMT DEF WalkPlace
<1>6. Walked(t)' = Walked(t)
  <2>1. \A x \in Ids(last_ph[t]) : x[1] \in Nat /\ x[2] \in Nat /\ x[2] > 0
    BY <1>2, IdsMember, SMT DEF NN
  <2>2. \A x \in Ids(last_ph[t]) : x[1] > curr_ph[t] - 1 <=> x[1] > curr_ph[t] \/ x[1] = curr_ph[t]
    BY <1>2, <2>1, SMT
  <2> QED
    BY <1>1, <1>3, <2>1, <2>2, SameChain, SMT DEF Walked
<1> QED
  BY <1>1, <1>4, <1>5, <1>6, LoopStep

LEMMA EndKeeps ==
  ASSUME NEW t \in Connections, One(t), EndUpdate(t)
  PROVE  One(t)'
<1> USE DEF One, Base, Good
<1>1. /\ blocks' = blocks /\ UNCHANGED smartCaches /\ lastSeen' = last_ph[t]
      /\ call[t] = "test" /\ call'[t] = "use" /\ last_ph'[t] = 0 /\ poss'[t] = NotMet
      /\ state_updated'[t] = {} /\ curr_ph[t] = lastSeen
  BY DEF EndUpdate, Leave, SmartTypeOK
<1>2. /\ curr_ph[t] <= last_ph[t] /\ last_ph[t] <= Len(blocks)
      /\ curr_ph[t] \in Nat /\ last_ph[t] \in Nat /\ lastSeen \in Nat
  BY <1>1 DEF WalkPlace, SmartTypeOK
<1>3. SmartTypeOK'
  BY <1>2, SMT DEF EndUpdate, Leave, SmartTypeOK, smartCaches, NotMet
<1>4. PICK N : N = Ids(last_ph[t])
  OBVIOUS
<1>5. Seen(t) = N
  <2>1. \A x \in Ids(last_ph[t]) : x[1] \in Nat /\ (x \in Ids(lastSeen) <=> x[1] <= lastSeen)
    <3> TAKE x \in Ids(last_ph[t])
    <3>1. x[1] \in 1..last_ph[t] /\ x[2] \in 1..Len(blocks[x[1]]) /\ x = <<x[1], x[2]>>
      BY <1>2, IdsMember
    <3>2. \A b \in 1..lastSeen : \A i \in 1..Len(blocks[b]) : <<b, i>> \in Ids(lastSeen)
      BY <1>1, <1>2, IdsMember
    <3>3. x \in Ids(lastSeen) => x[1] \in 1..lastSeen
      BY <1>1, <1>2, IdsMember
    <3> QED
      BY <1>2, <3>1, <3>2, <3>3, SMT
  <2>2. Ids(lastSeen) \subseteq Ids(last_ph[t])
    BY <1>1, <1>2, IdsGrow
  <2>3. Walked(t) = {x \in Ids(last_ph[t]) : x[1] > lastSeen}
    BY <1>1 DEF Walked
  <2> QED
    BY <1>2, <1>4, <2>1, <2>2, <2>3, SMT DEF Seen
<1>6. Ids(lastSeen)' = N
  BY <1>1, <1>4, SameChain
<1>7. Walked(t)' = {}
  BY <1>1, SMT DEF Walked, Ids
<1>8. ExactFor(N)'
  BY <1>1, <1>5, SameCaches
<1>9. ExactFor(Seen(t))'
  BY <1>6, <1>7, <1>8 DEF Seen
<1>10. WalkMemory(t)'
  <2>1. \A d, c, kind : DeploymentsOf(d, {})' = {} /\ Of(c, kind, {})' = {}
    BY DEF DeploymentsOf, Of
  <2> QED
    BY <1>1, <1>7, <2>1 DEF WalkMemory, NotMet
<1>11. WalkPlace(t)' /\ (lastSeen <= Len(blocks))'
  BY <1>1, <1>2 DEF WalkPlace, AtRest
<1> QED
  BY <1>3, <1>9, <1>10, <1>11
(* Where the walk is: the next transaction is older than all it entered    *)
(* and newer than all of the blocks seen before.                           *)
LEMMA NextPlace ==
  ASSUME NEW t \in Connections, One(t), call[t] = "enter", i_tr[t] > 0,
         NEW id, id = <<curr_ph[t], i_tr[t]>>
  PROVE  /\ id \in NN /\ id \in Ids(last_ph[t]) /\ Tx(id) \in SmartTransactions
         /\ last_ph[t] \in Nat /\ last_ph[t] <= Len(blocks)
         /\ Walked(t) \subseteq NN /\ Ids(lastSeen) \subseteq NN
         /\ \A w \in Walked(t) : Newer(w, id)
         /\ \A o \in Ids(lastSeen) : Newer(id, o)
<1> USE DEF One, Base, Good
<1>1. /\ lastSeen < curr_ph[t] /\ curr_ph[t] <= last_ph[t] /\ last_ph[t] <= Len(blocks)
      /\ curr_ph[t] \in Nat /\ last_ph[t] \in Nat /\ lastSeen \in Nat
      /\ i_tr[t] <= Len(blocks[curr_ph[t]]) /\ i_tr[t] \in Nat
  BY DEF WalkPlace, SmartTypeOK
<1>2. curr_ph[t] \in 1..last_ph[t] /\ i_tr[t] \in 1..Len(blocks[curr_ph[t]])
  <2>1. blocks[curr_ph[t]] \in Seq(SmartTransactions)
    BY <1>1, SMT DEF SmartTypeOK
  <2> QED
    BY <1>1, <2>1, SMT
<1>3. id \in Ids(last_ph[t])
  BY <1>1, <1>2, IdsMember
<1>4. id \in NN /\ Tx(id) \in SmartTransactions
  BY <1>1, <1>3, IdsMember
<1>5. \A w \in Walked(t) : w \in NN /\ Newer(w, id)
  BY <1>1, IdsMember DEF Walked, Newer, NN
<1>6. \A o \in Ids(lastSeen) : o \in NN /\ Newer(id, o)
  <2>1. \A o \in Ids(lastSeen) : o \in NN /\ o[1] \in 1..lastSeen
    BY <1>1, IdsMember
  <2> QED
    BY <1>1, <2>1, SMT DEF Newer
<1> QED
  BY <1>1, <1>3, <1>4, <1>5, <1>6

LEMMA WalkedGrows ==
  ASSUME NEW t \in Connections, One(t), EnterTransaction(t),
         NEW id, id = <<curr_ph[t], i_tr[t]>>
  PROVE  Walked(t)' = Walked(t) \cup {id}
<1> USE DEF One, Base, Good
<1>1. /\ call[t] = "enter" /\ i_tr[t] > 0 /\ call' = call /\ last_ph' = last_ph /\ curr_ph' = curr_ph
      /\ i_tr'[t] = i_tr[t] - 1 /\ blocks' = blocks
  BY DEF EnterTransaction, SmartTypeOK
<1>2. last_ph[t] \in Nat /\ last_ph[t] <= Len(blocks) /\ id \in Ids(last_ph[t])
  BY <1>1, NextPlace
<1>3. \A x \in Ids(last_ph[t]) : x = <<x[1], x[2]>> /\ x[2] \in Nat
  BY <1>2, IdsMember DEF NN
<1>4. curr_ph[t] \in Nat /\ i_tr[t] \in Nat
  BY DEF SmartTypeOK
<1>5. \A x \in Ids(last_ph[t]) :
        x[1] = curr_ph[t] /\ x[2] > i_tr[t] - 1 <=> (x[1] = curr_ph[t] /\ x[2] > i_tr[t]) \/ x = id
  <2> TAKE x \in Ids(last_ph[t])
  <2>1. x[2] > i_tr[t] - 1 <=> x[2] > i_tr[t] \/ x[2] = i_tr[t]
    BY <1>3, <1>4, SMT
  <2>2. x = id <=> x[1] = curr_ph[t] /\ x[2] = i_tr[t]
    BY <1>3, SMT
  <2> QED
    BY <2>1, <2>2
<1> QED
  BY <1>1, <1>2, <1>5, SameChain, SMT DEF Walked

(* What holds after a transaction has been entered, from what it did to    *)
(* the caches and to the walk's memory.                                    *)
LEMMA EnterKeeps ==
  ASSUME NEW t \in Connections, One(t), EnterTransaction(t), SmartTypeOK',
         NEW id, id = <<curr_ph[t], i_tr[t]>>,
         NEW W, W = Walked(t), NEW O, O = Ids(lastSeen),
         ExactFor(W \cup {id} \cup O)',
         \A d \in Deployers : IF poss'[t][d] = NoTx THEN DeploymentsOf(d, W \cup {id}) = {}
                              ELSE OldFrom(deployed_by_creator'[d], poss'[t][d], DeploymentsOf(d, O)),
         state_updated'[t] = {c \in Contracts : Of(c, "state", W \cup {id}) # {}}
  PROVE  One(t)'
<1>1. blocks' = blocks /\ lastSeen' = lastSeen
  BY DEF EnterTransaction
<1>2. Walked(t)' = W \cup {id} /\ Ids(lastSeen)' = O
  BY <1>1, WalkedGrows, SameChain
<1>3. ExactFor(Seen(t))'
  BY <1>2 DEF Seen
<1>4. WalkMemory(t)'
  <2>1. /\ \A d, S : DeploymentsOf(d, S)' = DeploymentsOf(d, S)
        /\ \A c, kind, S : Of(c, kind, S)' = Of(c, kind, S)
    BY <1>1, SameChain
  <2>2. (state_updated[t] = {c \in Contracts : Of(c, "state", Walked(t)) # {}})'
    BY <1>2, <2>1
  <2> QED
    BY <1>2, <2>1, <2>2 DEF WalkMemory
<1>5. WalkPlace(t)'
  <2>1. /\ call[t] = "enter" /\ i_tr[t] > 0 /\ call' = call /\ last_ph' = last_ph /\ curr_ph' = curr_ph
        /\ i_tr'[t] = i_tr[t] - 1
    BY DEF EnterTransaction, One, Base, Good, SmartTypeOK
  <2>2. i_tr[t] \in Nat /\ i_tr[t] <= Len(blocks[curr_ph[t]]) /\ Len(blocks[curr_ph[t]]) \in Nat
    <3>1. curr_ph[t] \in 1..Len(blocks)
      BY <2>1, SMTT(30) DEF One, Base, Good, WalkPlace, SmartTypeOK
    <3>2. blocks[curr_ph[t]] \in Seq(SmartTransactions)
      BY <3>1, SMT DEF One, Base, Good, SmartTypeOK
    <3> QED
      BY <2>1, <3>2, SMT DEF One, Base, Good, WalkPlace, SmartTypeOK
  <2>3. i_tr[t] - 1 <= Len(blocks[curr_ph[t]])
    BY <2>2, SMT
  <2> QED
    BY <1>1, <2>1, <2>3 DEF One, Base, Good, WalkPlace
<1>6. (lastSeen <= Len(blocks))'
  BY <1>1, SameChain, SMT DEF One, Base, Good
<1> QED
  BY <1>3, <1>4, <1>5, <1>6 DEF One, Base, Good

LEMMA DeployKeeps ==
  ASSUME NEW t \in Connections, One(t), EnterTransaction(t),
         NEW id, id = <<curr_ph[t], i_tr[t]>>, EnterDeploy(t, id)
  PROVE  One(t)'
<1> PICK W : W = Walked(t)
  OBVIOUS
<1> PICK O : O = Ids(lastSeen)
  OBVIOUS
<1>1. /\ id \in NN /\ id \in Ids(last_ph[t]) /\ Tx(id) \in SmartTransactions
      /\ W \subseteq NN /\ O \subseteq NN
      /\ \A w \in W : Newer(w, id)
      /\ \A o \in O : Newer(id, o)
      /\ last_ph[t] \in Nat /\ last_ph[t] <= Len(blocks)
  BY NextPlace DEF EnterTransaction
<1>2. PICK d \in Deployers : d = Tx(id).source
  BY <1>1 DEF SmartTransactions
<1>3. PICK c \in Contracts : c = Tx(id).contract
  BY <1>1 DEF SmartTransactions
<1>4. PICK pos : pos = FirstMet(t, d)
  OBVIOUS
<1>5. /\ Tx(id).kind = "deploy" /\ blocks' = blocks
      /\ smart_origin' = [smart_origin EXCEPT ![c] = id]
      /\ poss' = [poss EXCEPT ![t] = [poss[t] EXCEPT ![d] = pos]]
      /\ deployed_by_creator' = [deployed_by_creator EXCEPT ![d] = InsertBefore(deployed_by_creator[d], id, pos)]
      /\ smart_state' = smart_state /\ state_updated' = state_updated
  BY <1>2, <1>3, <1>4 DEF EnterDeploy, EnterTransaction
<1>6. ExactFor(W \cup O) /\ SmartTypeOK
  BY DEF One, Base, Good, Seen
<1>7. DeploymentsOf(d, W) \subseteq W /\ DeploymentsOf(d, O) \subseteq O
  BY DEF DeploymentsOf
<1>8. /\ DeploymentsOf(d, W \cup O) = DeploymentsOf(d, W) \cup DeploymentsOf(d, O)
      /\ DeploymentsOf(d, W \cup {id} \cup O) = DeploymentsOf(d, W) \cup {id} \cup DeploymentsOf(d, O)
  BY <1>2, <1>5 DEF DeploymentsOf
<1>9. deployed_by_creator[d] \in Seq(NN)
      /\ Lists(deployed_by_creator[d], DeploymentsOf(d, W) \cup DeploymentsOf(d, O))
  BY <1>6, <1>8 DEF ExactFor, SmartTypeOK
<1>10. OldFrom(deployed_by_creator[d], pos, DeploymentsOf(d, O)) /\ pos \in Nat
  <2>1. PICK l \in Seq(NN) : l = deployed_by_creator[d]
    BY <1>9
  <2>2. PICK D : D = DeploymentsOf(d, O)
    OBVIOUS
  <2>3. CASE poss[t][d] # NoTx
    <3>1. pos = poss[t][d]
      BY <1>4, <2>3 DEF FirstMet
    <3>2. poss[t][d] \in Nat
      <4>1. poss[t] \in [Deployers -> Nat \cup {NoTx}]
        BY <1>6 DEF SmartTypeOK
      <4> QED
        BY <2>3, <4>1
    <3> QED
      BY <2>3, <3>1, <3>2 DEF One, Good, WalkMemory
  <2>4. CASE poss[t][d] = NoTx
    <3>1. DeploymentsOf(d, W) = {}
      BY <2>4 DEF One, Good, WalkMemory
    <3>2. Lists(l, D)
      BY <1>9, <2>1, <2>2, <3>1
    <3>3. pos = Len(l)
      BY <1>4, <2>1, <2>4 DEF FirstMet
    <3>4. \A j \in DOMAIN l : l[j] \in D
      BY <3>2 DEF Lists
    <3>5. OldFrom(l, pos, D) /\ pos \in Nat
      BY <3>3, <3>4, SMT DEF OldFrom
    <3> QED
      BY <2>1, <2>2, <3>5
  <2> QED
    BY <2>3, <2>4
<1>11. /\ InsertBefore(deployed_by_creator[d], id, pos) \in Seq(NN)
       /\ Lists(InsertBefore(deployed_by_creator[d], id, pos), DeploymentsOf(d, W \cup {id} \cup O))
       /\ OldFrom(InsertBefore(deployed_by_creator[d], id, pos), pos, DeploymentsOf(d, O))
  <2>1. /\ \A w \in DeploymentsOf(d, W) : Newer(w, id)
        /\ \A o \in DeploymentsOf(d, O) : Newer(id, o)
        /\ DeploymentsOf(d, W) \in SUBSET NN /\ DeploymentsOf(d, O) \in SUBSET NN
    BY <1>1, <1>7
  <2>2. PICK A, B : A = DeploymentsOf(d, W) /\ B = DeploymentsOf(d, O)
    OBVIOUS
  <2>3. PICK l \in Seq(NN) : l = deployed_by_creator[d]
    BY <1>9
  <2>4. Lists(l, A \cup B) /\ OldFrom(l, pos, B) /\ A \in SUBSET NN /\ B \in SUBSET NN
    BY <1>9, <1>10, <2>1, <2>2, <2>3
  <2>5. (\A w \in A : Newer(w, id)) /\ (\A o \in B : Newer(id, o))
    BY <2>1, <2>2
  <2>6. InsertBefore(l, id, pos) \in Seq(NN) /\ Lists(InsertBefore(l, id, pos), A \cup {id} \cup B)
       /\ OldFrom(InsertBefore(l, id, pos), pos, B)
    BY <1>1, <2>4, <2>5, InsertKeeps
  <2> QED
    BY <1>8, <2>2, <2>3, <2>6
<1>12. SmartTypeOK'
  <2>1. i_tr' \in [Connections -> Nat]
    BY <1>6, SMT DEF EnterTransaction, SmartTypeOK
  <2>2. poss' \in [Connections -> [Deployers -> Nat \cup {NoTx}]]
    BY <1>5, <1>6, <1>10 DEF SmartTypeOK
  <2>3. deployed_by_creator' \in [Deployers -> Seq(NN)]
    BY <1>5, <1>6, <1>11 DEF SmartTypeOK
  <2> QED
    BY <1>1, <1>5, <1>6, <2>1, <2>2, <2>3 DEF EnterTransaction, SmartTypeOK
<1>13. PICK N : N = W \cup {id} \cup O
  OBVIOUS
<1>14. ExactFor(N)'
  <2>1. ASSUME NEW e \in Deployers PROVE Lists(deployed_by_creator'[e], DeploymentsOf(e, N))
    <3>1. CASE e = d
      BY <1>5, <1>6, <1>11, <1>13, <3>1 DEF SmartTypeOK
    <3>2. CASE e # d
      <4>1. DeploymentsOf(e, N) = DeploymentsOf(e, W \cup O)
        BY <1>2, <1>13, <3>2 DEF DeploymentsOf
      <4> QED
        BY <1>5, <1>6, <3>2, <4>1 DEF SmartTypeOK, ExactFor
    <3> QED
      BY <3>1, <3>2
  <2>2. ASSUME NEW a \in Contracts PROVE IsSome(smart_origin'[a], Of(a, "deploy", N))
    <3>1. CASE a = c
      <4>1. smart_origin'[a] = id
        BY <1>5, <1>6, <3>1 DEF SmartTypeOK
      <4>2. id \in Of(a, "deploy", N)
        BY <1>3, <1>5, <1>13, <3>1 DEF Of
      <4> QED
        BY <4>1, <4>2 DEF IsSome
    <3>2. CASE a # c
      <4>1. Of(a, "deploy", N) = Of(a, "deploy", W \cup O)
        BY <1>3, <1>13, <3>2 DEF Of
      <4> QED
        BY <1>5, <1>6, <3>2, <4>1 DEF SmartTypeOK, ExactFor
    <3> QED
      BY <3>1, <3>2
  <2>3. ASSUME NEW a \in Contracts PROVE IsNewest(smart_state'[a], Of(a, "state", N))
    <3>1. Of(a, "state", N) = Of(a, "state", W \cup O)
      BY <1>5, <1>13 DEF Of
    <3> QED
      BY <1>5, <1>6, <3>1 DEF ExactFor
  <2> QED
    BY <1>5, <2>1, <2>2, <2>3, SameChain, SMT DEF ExactFor
<1>15. \A e \in Deployers : IF poss'[t][e] = NoTx THEN DeploymentsOf(e, W \cup {id}) = {}
                            ELSE OldFrom(deployed_by_creator'[e], poss'[t][e], DeploymentsOf(e, O))
  <2> TAKE e \in Deployers
  <2>1. CASE e = d
    <3>1. poss'[t][e] = pos /\ pos # NoTx
      BY <1>5, <1>6, <1>10, <2>1, SmartAssumption DEF SmartTypeOK
    <3>2. deployed_by_creator'[e] = InsertBefore(deployed_by_creator[d], id, pos)
      BY <1>5, <1>6, <2>1 DEF SmartTypeOK
    <3> QED
      BY <1>11, <2>1, <3>1, <3>2
  <2>2. CASE e # d
    <3>1. poss'[t][e] = poss[t][e] /\ deployed_by_creator'[e] = deployed_by_creator[e]
      BY <1>5, <1>6, <2>2 DEF SmartTypeOK
    <3>2. DeploymentsOf(e, W \cup {id}) = DeploymentsOf(e, W)
      BY <1>2, <2>2 DEF DeploymentsOf
    <3> QED
      BY <3>1, <3>2 DEF One, Base, Good, WalkMemory
  <2> QED
    BY <2>1, <2>2
<1>16. state_updated'[t] = {a \in Contracts : Of(a, "state", W \cup {id}) # {}}
  <2>1. \A a : Of(a, "state", W \cup {id}) = Of(a, "state", W)
    BY <1>5 DEF Of
  <2> QED
    BY <1>5, <2>1 DEF One, Base, Good, WalkMemory
<1> QED
  BY <1>12, <1>13, <1>14, <1>15, <1>16, EnterKeeps
LEMMA StateKeeps ==
  ASSUME NEW t \in Connections, One(t), EnterTransaction(t),
         NEW id, id = <<curr_ph[t], i_tr[t]>>, EnterState(t, id) \/ SkipTransaction(t, id)
  PROVE  One(t)'
<1> PICK W : W = Walked(t)
  OBVIOUS
<1> PICK O : O = Ids(lastSeen)
  OBVIOUS
<1>1. /\ id \in NN /\ Tx(id) \in SmartTransactions
      /\ W \subseteq NN /\ O \subseteq NN
      /\ \A w \in W : Newer(w, id)
      /\ \A o \in O : Newer(id, o)
  BY NextPlace DEF EnterTransaction
<1>2. PICK c \in Contracts : c = Tx(id).contract
  BY <1>1 DEF SmartTransactions
<1>3. /\ Tx(id).kind # "deploy" /\ blocks' = blocks /\ smart_origin' = smart_origin
      /\ poss' = poss /\ deployed_by_creator' = deployed_by_creator
  BY DEF EnterState, SkipTransaction, EnterTransaction, smartCaches
<1>4. ExactFor(W \cup O) /\ SmartTypeOK
  BY DEF One, Base, Good, Seen
<1>5. state_updated[t] = {a \in Contracts : Of(a, "state", W) # {}}
  BY DEF One, Base, Good, WalkMemory
<1>6. \/ /\ Tx(id).kind = "state" /\ c \notin state_updated[t]
         /\ smart_state' = [smart_state EXCEPT ![c] = id]
         /\ state_updated' = [state_updated EXCEPT ![t] = state_updated[t] \cup {c}]
      \/ /\ Tx(id).kind = "state" => c \in state_updated[t]
         /\ smart_state' = smart_state /\ state_updated' = state_updated
  BY <1>2 DEF EnterState, SkipTransaction, smartCaches
<1>7. SmartTypeOK'
  <2>1. i_tr' \in [Connections -> Nat]
    BY <1>4, SMT DEF EnterTransaction, SmartTypeOK
  <2>2. smart_state' \in [Contracts -> NN \cup {NoTx}] /\ state_updated' \in [Connections -> SUBSET Contracts]
    <3>1. /\ [smart_state EXCEPT ![c] = id] \in [Contracts -> NN \cup {NoTx}]
          /\ [state_updated EXCEPT ![t] = state_updated[t] \cup {c}] \in [Connections -> SUBSET Contracts]
      BY <1>1, <1>4 DEF SmartTypeOK
    <3> QED
      BY <1>4, <1>6, <3>1 DEF SmartTypeOK
  <2> QED
    BY <1>3, <1>4, <2>1, <2>2 DEF EnterTransaction, SmartTypeOK
<1>8. PICK N : N = W \cup {id} \cup O
  OBVIOUS
<1>9. \A e : DeploymentsOf(e, N) = DeploymentsOf(e, W \cup O) /\ DeploymentsOf(e, W \cup {id}) = DeploymentsOf(e, W)
  BY <1>3, <1>8 DEF DeploymentsOf
<1>10. \A a : Of(a, "deploy", N) = Of(a, "deploy", W \cup O)
  BY <1>3, <1>8 DEF Of
<1>11. ASSUME NEW a \in Contracts PROVE IsNewest(smart_state'[a], Of(a, "state", N))
  <2>1. IsNewest(smart_state[a], Of(a, "state", W \cup O))
    BY <1>4 DEF ExactFor
  <2>2. CASE Tx(id).kind = "state" /\ a = c /\ c \notin state_updated[t]
    <3>1. Of(c, "state", W) = {}
      BY <1>5, <2>2
    <3>2. Of(c, "state", N) = {id} \cup Of(c, "state", O)
      BY <1>2, <1>8, <2>2, <3>1 DEF Of
    <3>3. \A y \in Of(c, "state", O) : Newer(id, y)
      BY <1>1 DEF Of
    <3>4. smart_state'[a] = id
      BY <1>4, <1>6, <2>2 DEF SmartTypeOK
    <3> QED
      BY <2>2, <3>2, <3>3, <3>4 DEF IsNewest
  <2>3. CASE Tx(id).kind = "state" /\ a = c /\ c \in state_updated[t]
    <3>1. PICK w \in Of(c, "state", W) : TRUE
      BY <1>5, <2>3
    <3>2. w \in W /\ w \in Of(a, "state", W \cup O)
      BY <2>3, <3>1 DEF Of
    <3>3. Of(a, "state", N) = Of(a, "state", W \cup O) \cup {id}
      BY <1>2, <1>8, <2>3 DEF Of
    <3>4. smart_state[a] \in Of(a, "state", W \cup O)
          /\ \A y \in Of(a, "state", W \cup O) : y = smart_state[a] \/ Newer(smart_state[a], y)
      BY <2>1, <3>2 DEF IsNewest
    <3>5. Newer(smart_state[a], id)
      <4>1. Newer(w, id) /\ w \in NN
        BY <1>1, <3>2
      <4>2. smart_state[a] \in NN
        BY <1>1, <3>4 DEF Of
      <4>3. w = smart_state[a] \/ Newer(smart_state[a], w)
        BY <3>2, <3>4
      <4> QED
        BY <1>1, <4>1, <4>2, <4>3, NewerOrder, SMT
    <3>6. smart_state'[a] = smart_state[a]
      BY <1>6, <2>3
    <3> QED
      BY <3>3, <3>4, <3>5, <3>6 DEF IsNewest
  <2>4. CASE Tx(id).kind # "state" \/ a # c
    <3>1. Of(a, "state", N) = Of(a, "state", W \cup O)
      BY <1>2, <1>8, <2>4 DEF Of
    <3>2. smart_state'[a] = smart_state[a]
      BY <1>4, <1>6, <2>4 DEF SmartTypeOK
    <3> QED
      BY <2>1, <3>1, <3>2
  <2> QED
    BY <2>2, <2>3, <2>4
<1>12. ExactFor(N)'
  <2>1. \A e \in Deployers : Lists(deployed_by_creator'[e], DeploymentsOf(e, N))
    BY <1>3, <1>4, <1>9 DEF ExactFor
  <2>2. \A a \in Contracts : IsSome(smart_origin'[a], Of(a, "deploy", N))
    BY <1>3, <1>4, <1>10 DEF ExactFor
  <2> QED
    BY <1>3, <1>11, <2>1, <2>2, SameChain, ZenonT(40) DEF ExactFor
<1>13. \A e \in Deployers : IF poss'[t][e] = NoTx THEN DeploymentsOf(e, W \cup {id}) = {}
                            ELSE OldFrom(deployed_by_creator'[e], poss'[t][e], DeploymentsOf(e, O))
  BY <1>3, <1>9 DEF One, Base, Good, WalkMemory
<1>14. state_updated'[t] = {a \in Contracts : Of(a, "state", W \cup {id}) # {}}
  <2>1. \A a : Of(a, "state", W \cup {id}) # {} <=>
               Of(a, "state", W) # {} \/ (Tx(id).kind = "state" /\ a = c)
    BY <1>2 DEF Of
  <2>2. state_updated'[t] = IF Tx(id).kind = "state" THEN state_updated[t] \cup {c} ELSE state_updated[t]
    BY <1>4, <1>6 DEF SmartTypeOK
  <2> QED
    BY <1>5, <2>1, <2>2
<1> QED
  BY <1>7, <1>8, <1>12, <1>13, <1>14, EnterKeeps

LEMMA ChainKeeps ==
  ASSUME NEW t \in Connections, One(t), NEW b \in SmartBlocks, SmartBlock(b)
  PROVE  One(t)'
<1>1. /\ blocks' = Append(blocks, b) /\ lastSeen' = lastSeen /\ UNCHANGED smartCaches
      /\ call' = call /\ last_ph' = last_ph /\ curr_ph' = curr_ph /\ i_tr' = i_tr
      /\ poss' = poss /\ state_updated' = state_updated
  BY DEF SmartBlock, smartWalks
<1>2. SmartTypeOK /\ b \in Seq(SmartTransactions)
  BY SmartAssumption DEF One, Base, Good
<1>3. /\ Len(blocks) \in Nat /\ Len(blocks') = Len(blocks) + 1 /\ blocks'[Len(blocks) + 1] = b
      /\ \A n \in 1..Len(blocks) : blocks'[n] = blocks[n]
  BY <1>1, <1>2, SMT DEF SmartTypeOK
<1>4. SmartTypeOK'
  BY <1>1, <1>2, SMT DEF SmartTypeOK, smartCaches
<1>5. ASSUME NEW n \in Nat, n <= Len(blocks) PROVE Ids(n)' = Ids(n) /\ \A x \in Ids(n) : Tx(x)' = Tx(x)
  <2>1. \A m \in 1..n : blocks'[m] = blocks[m]
    BY <1>3, <1>5, SMT
  <2>2. Ids(n)' = Ids(n)
    BY <2>1, SMT DEF Ids
  <2>3. \A x \in Ids(n) : x[1] \in 1..n
    BY <1>2, <1>5, IdsMember
  <2> QED
    BY <2>1, <2>2, <2>3 DEF Tx
<1>6. lastSeen \in Nat /\ lastSeen <= Len(blocks) /\ last_ph[t] \in Nat /\ last_ph[t] <= Len(blocks)
  BY WalkBounds
<1>7. PICK W : W = Walked(t)
  OBVIOUS
<1>8. PICK O : O = Ids(lastSeen)
  OBVIOUS
<1>9. Walked(t)' = W /\ Ids(lastSeen)' = O
  <2>1. Ids(lastSeen)' = O
    BY <1>1, <1>5, <1>6, <1>8
  <2>2. Ids(last_ph[t])' = Ids(last_ph[t])
    BY <1>1, <1>5, <1>6
  <2> QED
    BY <1>1, <1>7, <2>1, <2>2 DEF Walked
<1>10. \A x \in W \cup O : Tx(x)' = Tx(x)
  BY <1>5, <1>6, <1>7, <1>8 DEF Walked
<1>11. ASSUME NEW S \in SUBSET (W \cup O)
       PROVE  /\ \A d : DeploymentsOf(d, S)' = DeploymentsOf(d, S)
              /\ \A c, kind : Of(c, kind, S)' = Of(c, kind, S)
  BY <1>10, <1>11 DEF DeploymentsOf, Of
<1>12. ExactFor(W \cup O)'
  <2>1. ExactFor(W \cup O)
    BY <1>7, <1>8 DEF One, Base, Good, Seen
  <2>2. deployed_by_creator' = deployed_by_creator /\ smart_origin' = smart_origin /\ smart_state' = smart_state
    BY <1>1 DEF smartCaches
  <2> QED
    BY <1>11, <2>1, <2>2 DEF ExactFor
<1>13. ExactFor(Seen(t))'
  BY <1>9, <1>12 DEF Seen
<1>14. WalkMemory(t)'
  <2>1. /\ \A d : DeploymentsOf(d, W)' = DeploymentsOf(d, W) /\ DeploymentsOf(d, O)' = DeploymentsOf(d, O)
        /\ \A c, kind : Of(c, kind, W)' = Of(c, kind, W)
    BY <1>11
  <2>2. (state_updated[t] = {c \in Contracts : Of(c, "state", Walked(t)) # {}})'
    BY <1>1, <1>7, <1>9, <2>1 DEF One, Base, Good, WalkMemory
  <2> QED
    BY <1>1, <1>7, <1>8, <1>9, <2>1, <2>2 DEF One, Good, WalkMemory, smartCaches
<1>15. WalkPlace(t)'
  <2>1. lastSeen <= Len(blocks) + 1 /\ last_ph[t] <= Len(blocks) + 1
    BY <1>3, <1>6, SMT
  <2>2. call[t] = "enter" => curr_ph[t] \in 1..Len(blocks)
    BY WalkBounds
  <2> QED
    BY <1>1, <1>3, <2>1, <2>2 DEF One, Base, Good, WalkPlace, AtRest, NotMet
<1>16. (lastSeen <= Len(blocks))'
  BY <1>1, <1>3, <1>6, SMT
<1> QED
  BY <1>4, <1>13, <1>14, <1>15, <1>16 DEF One, Base, Good

LEMMA UseKeeps ==
  ASSUME NEW t \in Connections, One(t), EndCall(t)
  PROVE  One(t)'
<1> USE DEF One, Base, Good
<1>1. /\ blocks' = blocks /\ UNCHANGED smartCaches /\ lastSeen' = lastSeen /\ poss' = poss
      /\ state_updated' = state_updated /\ call[t] = "use" /\ call'[t] = "idle"
      /\ last_ph' = last_ph /\ curr_ph' = curr_ph /\ i_tr' = i_tr
  BY DEF EndCall, SmartTypeOK
<1>2. SmartTypeOK'
  BY DEF EndCall, SmartTypeOK, smartCaches
<1>3. WalkPlace(t)' /\ Walked(t)' = Walked(t)
  <2>1. WalkPlace(t)'
    BY <1>1 DEF WalkPlace, AtRest, NotMet
  <2> QED
    BY <1>1, <2>1, SameChain DEF Walked
<1> QED
  BY <1>1, <1>2, <1>3, LoopStep

(* A walk that fails leaves caches that nobody uses. *)
LEMMA FailSpoils ==
  ASSUME NEW t \in Connections, One(t), EnterFails(t)
  PROVE  Base' /\ Spoilt(t)'
<1> USE DEF One, Base, Good
<1>1. /\ blocks' = blocks /\ UNCHANGED smartCaches /\ lastSeen' = lastSeen
      /\ call[t] = "enter" /\ i_tr[t] > 0 /\ Tx(<<curr_ph[t], i_tr[t]>>).kind = "bad"
      /\ call'[t] = "idle" /\ last_ph'[t] = 0 /\ poss'[t] = NotMet /\ state_updated'[t] = {}
  BY DEF EnterFails, Leave, SmartTypeOK
<1>2. SmartTypeOK'
  BY SMT DEF EnterFails, Leave, SmartTypeOK, smartCaches, NotMet
<1>3. PICK x : x = <<curr_ph[t], i_tr[t]>>
  OBVIOUS
<1>4. x \in Ids(last_ph[t]) /\ last_ph[t] \in Nat /\ last_ph[t] <= Len(blocks)
  BY <1>1, <1>3, NextPlace
<1>5. x \in Ids(Len(blocks))
  <2>1. PICK m \in Nat : m = last_ph[t]
    BY <1>4
  <2>2. PICK n \in Nat : n = Len(blocks)
    BY SMT DEF SmartTypeOK
  <2> QED
    BY <1>4, <2>1, <2>2, IdsGrow, SMT
<1>6. lastSeen < x[1]
  BY <1>1, <1>3 DEF WalkPlace
<1>7. Tx(x)' = Tx(x) /\ x \in Ids(Len(blocks))'
  BY <1>1, <1>5, SameChain DEF Ids, Tx
<1>8. Spoilt(t)'
  <2>1. \A d \in Deployers : poss'[t][d] = NoTx
    BY <1>1 DEF NotMet
  <2> QED
    BY <1>1, <1>3, <1>6, <1>7, <2>1 DEF Spoilt, AtRest, PlacesIn
<1> QED
  BY <1>1, <1>2, <1>8

(* The transaction that a walk is at. *)
LEMMA SpoiltPlace ==
  ASSUME NEW t \in Connections, Base, Spoilt(t), call[t] = "enter", i_tr[t] > 0,
         NEW id, id = <<curr_ph[t], i_tr[t]>>
  PROVE  id \in NN /\ Tx(id) \in SmartTransactions
<1>1. /\ curr_ph[t] \in 1..Len(blocks) /\ i_tr[t] \in Nat /\ i_tr[t] <= Len(blocks[curr_ph[t]])
      /\ blocks \in Seq(Seq(SmartTransactions))
  BY DEF Spoilt, Base, SmartTypeOK
<1>2. blocks[curr_ph[t]] \in Seq(SmartTransactions) /\ curr_ph[t] \in Nat
  BY <1>1, SMT
<1>3. i_tr[t] \in 1..Len(blocks[curr_ph[t]])
  BY <1>1, <1>2, SMT
<1>4. blocks[curr_ph[t]][i_tr[t]] \in SmartTransactions
  BY <1>2, <1>3, SMT
<1> QED
  BY <1>1, <1>2, <1>4, SMT DEF NN, Tx

(* What a walk enters in spoilt caches still is a list of transactions. *)
LEMMA SpoiltTypes ==
  ASSUME NEW t \in Connections, Base, Spoilt(t), EnterTransaction(t)
  PROVE  SmartTypeOK' /\ PlacesIn(t)'
<1>1. PICK id : id = <<curr_ph[t], i_tr[t]>>
  OBVIOUS
<1>2. id \in NN /\ Tx(id) \in SmartTransactions /\ SmartTypeOK /\ PlacesIn(t)
  BY <1>1, SpoiltPlace DEF EnterTransaction, Base, Spoilt
<1>3. /\ blocks' = blocks /\ lastSeen' = lastSeen /\ call' = call /\ last_ph' = last_ph /\ curr_ph' = curr_ph
      /\ i_tr' = [i_tr EXCEPT ![t] = i_tr[t] - 1] /\ i_tr[t] > 0
      /\ EnterDeploy(t, id) \/ EnterState(t, id) \/ SkipTransaction(t, id)
  BY <1>1 DEF EnterTransaction
<1>4. i_tr' \in [Connections -> Nat]
  BY <1>2, <1>3, SMT DEF SmartTypeOK
<1>5. PICK d \in Deployers : d = Tx(id).source
  BY <1>2 DEF SmartTransactions
<1>6. PICK c \in Contracts : c = Tx(id).contract
  BY <1>2 DEF SmartTransactions
<1>7. CASE EnterDeploy(t, id)
  <2>1. PICK list \in Seq(NN) : list = deployed_by_creator[d]
    BY <1>2 DEF SmartTypeOK
  <2>2. PICK pos : pos = FirstMet(t, d)
    OBVIOUS
  <2>3. PICK new : new = InsertBefore(list, id, pos)
    OBVIOUS
  <2>4. /\ smart_origin' = [smart_origin EXCEPT ![c] = id]
        /\ poss' = [poss EXCEPT ![t] = [poss[t] EXCEPT ![d] = pos]]
        /\ deployed_by_creator' = [deployed_by_creator EXCEPT ![d] = new]
        /\ smart_state' = smart_state /\ state_updated' = state_updated
    BY <1>5, <1>6, <1>7, <2>1, <2>2, <2>3 DEF EnterDeploy
  <2>5. pos \in 0..Len(list)
    <3>1. poss[t][d] \in Nat \cup {NoTx} /\ (poss[t][d] # NoTx => poss[t][d] <= Len(list))
      BY <1>2, <2>1 DEF SmartTypeOK, PlacesIn
    <3>2. pos = IF poss[t][d] # NoTx THEN poss[t][d] ELSE Len(list)
      BY <2>1, <2>2 DEF FirstMet
    <3> QED
      BY <3>1, <3>2, SMT
  <2>6. new \in Seq(NN) /\ Len(new) = Len(list) + 1
    BY <1>2, <2>3, <2>5, InsertSeq
  <2>7. pos \in Nat /\ Len(list) \in Nat /\ pos <= Len(list)
    BY <2>5, SMT
  <2>8. SmartTypeOK'
    <3>1. poss' \in [Connections -> [Deployers -> Nat \cup {NoTx}]]
      BY <1>2, <2>4, <2>7 DEF SmartTypeOK
    <3>2. deployed_by_creator' \in [Deployers -> Seq(NN)]
      BY <1>2, <2>4, <2>6 DEF SmartTypeOK
    <3>3. smart_origin' \in [Contracts -> NN \cup {NoTx}]
      BY <1>2, <2>4 DEF SmartTypeOK
    <3> QED
      BY <1>2, <1>3, <1>4, <2>4, <3>1, <3>2, <3>3 DEF SmartTypeOK
  <2>9. ASSUME NEW e \in Deployers, poss'[t][e] # NoTx PROVE poss'[t][e] <= Len(deployed_by_creator'[e])
    <3>1. CASE e = d
      <4>1. poss'[t][e] = pos /\ deployed_by_creator'[e] = new
        BY <1>2, <2>4, <3>1 DEF SmartTypeOK
      <4> QED
        BY <2>6, <2>7, <4>1, SMT
    <3>2. CASE e # d
      BY <1>2, <2>4, <2>9, <3>2 DEF SmartTypeOK, PlacesIn
    <3> QED
      BY <3>1, <3>2
  <2> QED
    BY <2>8, <2>9 DEF PlacesIn
<1>8. CASE ~EnterDeploy(t, id)
  <2>1. /\ smart_origin' = smart_origin /\ poss' = poss /\ deployed_by_creator' = deployed_by_creator
        /\ \/ smart_state' = smart_state /\ state_updated' = state_updated
           \/ /\ smart_state' = [smart_state EXCEPT ![c] = id]
              /\ state_updated' = [state_updated EXCEPT ![t] = state_updated[t] \cup {c}]
    BY <1>3, <1>6, <1>8 DEF EnterState, SkipTransaction, smartCaches
  <2>2. /\ [smart_state EXCEPT ![c] = id] \in [Contracts -> NN \cup {NoTx}]
        /\ [state_updated EXCEPT ![t] = state_updated[t] \cup {c}] \in [Connections -> SUBSET Contracts]
    BY <1>2 DEF SmartTypeOK
  <2>3. smart_state' \in [Contracts -> NN \cup {NoTx}] /\ state_updated' \in [Connections -> SUBSET Contracts]
    BY <1>2, <2>1, <2>2 DEF SmartTypeOK
  <2> QED
    BY <1>2, <1>3, <1>4, <2>1, <2>3 DEF SmartTypeOK, PlacesIn
<1> QED
  BY <1>7, <1>8

(* No walk gets past the bad transaction. *)
LEMMA SpoiltStep ==
  ASSUME NEW t \in Connections, Base, Spoilt(t), BeginUpdate(t) \/ SmartStep(t)
  PROVE  Base' /\ Spoilt(t)'
<1>1. PICK x \in Ids(Len(blocks)) :
        /\ Tx(x).kind = "bad" /\ lastSeen < x[1]
        /\ call[t] # "idle" => x[1] <= curr_ph[t]
        /\ call[t] = "enter" => x[1] < curr_ph[t] \/ x[2] <= i_tr[t]
  BY DEF Spoilt
<1>2. /\ SmartTypeOK /\ Len(blocks) \in Nat /\ lastSeen \in Nat /\ lastSeen <= Len(blocks)
      /\ curr_ph[t] \in Nat /\ i_tr[t] \in Nat
  BY SMT DEF Base, SmartTypeOK
<1>3. /\ x = <<x[1], x[2]>> /\ x[1] \in 1..Len(blocks) /\ x[2] \in 1..Len(blocks[x[1]])
      /\ blocks[x[1]] \in Seq(SmartTransactions)
  <2>1. x = <<x[1], x[2]>> /\ x[1] \in 1..Len(blocks) /\ x[2] \in 1..Len(blocks[x[1]])
    BY <1>2, IdsMember, SMT
  <2> QED
    BY <1>2, <2>1, SMT DEF SmartTypeOK
<1>4. x[1] \in Nat /\ x[1] >= 1 /\ x[1] <= Len(blocks) /\ x[2] \in Nat /\ x[2] >= 1 /\ x[2] <= Len(blocks[x[1]])
  BY <1>3, SMT
<1>5. /\ call[t] \in {"idle", "test", "enter"} /\ PlacesIn(t)
      /\ call[t] # "idle" => curr_ph[t] <= Len(blocks)
      /\ call[t] = "enter" => curr_ph[t] \in 1..Len(blocks) /\ i_tr[t] <= Len(blocks[curr_ph[t]])
  BY DEF Spoilt
<1>6. blocks' = blocks /\ Ids(Len(blocks))' = Ids(Len(blocks)) /\ Tx(x)' = Tx(x)
  <2>1. blocks' = blocks
    BY DEF BeginUpdate, SmartStep, LoadNext, EnterTransaction, EnterFails, PreviousBlock, EndUpdate, EndCall
  <2> QED
    BY <2>1, SMT DEF Ids, Tx
<1>7. CASE BeginUpdate(t)
  <2>1. /\ lastSeen' = lastSeen /\ call'[t] = "test" /\ curr_ph'[t] = Len(blocks) /\ PlacesIn(t)'
    BY <1>2, <1>5, <1>7 DEF BeginUpdate, SmartTypeOK, PlacesIn, smartCaches
  <2>2. SmartTypeOK'
    BY <1>2, <1>7 DEF BeginUpdate, SmartTypeOK, smartCaches
  <2>3. Len(blocks) <= Len(blocks)
    BY <1>2, SMT
  <2> QED
    BY <1>1, <1>2, <1>4, <1>6, <2>1, <2>2, <2>3 DEF Base, Spoilt
<1>8. CASE LoadNext(t)
  <2>1. /\ lastSeen' = lastSeen /\ call[t] = "test" /\ call'[t] = "enter" /\ curr_ph' = curr_ph /\ PlacesIn(t)'
        /\ i_tr'[t] = Length(curr_ph[t])
    BY <1>2, <1>5, <1>8 DEF LoadNext, SmartTypeOK, PlacesIn, smartCaches
  <2>2. curr_ph[t] \in 1..Len(blocks)
    BY <1>1, <1>2, <1>4, <1>5, <2>1, SMT
  <2>3. Length(curr_ph[t]) = Len(blocks[curr_ph[t]]) /\ Length(curr_ph[t]) \in Nat
    BY <1>2, <2>2, SMT DEF Length, SmartTypeOK
  <2>4. SmartTypeOK'
    BY <1>2, <1>8, <2>3 DEF LoadNext, SmartTypeOK, smartCaches
  <2>5. x[1] <= curr_ph[t] /\ (x[1] < curr_ph[t] \/ x[2] <= Len(blocks[curr_ph[t]]))
    BY <1>1, <1>2, <1>4, <2>1, SMT
  <2>6. Len(blocks[curr_ph[t]]) <= Len(blocks[curr_ph[t]])
    BY <2>3, SMT
  <2> QED
    BY <1>1, <1>2, <1>5, <1>6, <2>1, <2>2, <2>3, <2>4, <2>5, <2>6 DEF Base, Spoilt
<1>9. CASE EnterTransaction(t)
  <2>1. /\ lastSeen' = lastSeen /\ call[t] = "enter" /\ call' = call /\ curr_ph' = curr_ph
        /\ i_tr'[t] = i_tr[t] - 1 /\ i_tr[t] > 0
    BY <1>2, <1>9 DEF EnterTransaction, SmartTypeOK
  <2>2. SmartTypeOK' /\ PlacesIn(t)'
    BY <1>9, SpoiltTypes
  <2>3. x # <<curr_ph[t], i_tr[t]>>
    BY <1>1, <1>9 DEF EnterTransaction, EnterDeploy, EnterState, SkipTransaction
  <2>4. x[1] < curr_ph[t] \/ x[2] <= i_tr[t] - 1
    <3>1. x[1] # curr_ph[t] \/ x[2] # i_tr[t]
      BY <1>3, <2>3
    <3> QED
      BY <1>1, <1>2, <1>4, <2>1, <3>1, SMT
  <2>5. i_tr[t] - 1 <= Len(blocks[curr_ph[t]])
    <3>1. Len(blocks[curr_ph[t]]) \in Nat
      BY <1>2, <1>5, <2>1, SMT DEF SmartTypeOK
    <3> QED
      BY <1>2, <1>5, <2>1, <3>1, SMT
  <2> QED
    BY <1>1, <1>2, <1>5, <1>6, <2>1, <2>2, <2>4, <2>5 DEF Base, Spoilt
<1>10. CASE EnterFails(t)
  <2>1. /\ lastSeen' = lastSeen /\ call'[t] = "idle" /\ UNCHANGED smartCaches
        /\ last_ph'[t] = 0 /\ poss'[t] = NotMet /\ state_updated'[t] = {}
    BY <1>2, <1>10 DEF EnterFails, Leave, SmartTypeOK
  <2>2. SmartTypeOK'
    BY <1>2, <1>10, SMT DEF EnterFails, Leave, SmartTypeOK, smartCaches, NotMet
  <2>3. PlacesIn(t)'
    BY <2>1 DEF PlacesIn, NotMet
  <2> QED
    BY <1>1, <1>2, <1>6, <2>1, <2>2, <2>3 DEF Base, Spoilt, AtRest
<1>11. CASE PreviousBlock(t)
  <2>1. /\ lastSeen' = lastSeen /\ call[t] = "enter" /\ call'[t] = "test" /\ i_tr[t] = 0 /\ PlacesIn(t)'
        /\ curr_ph'[t] = IF curr_ph[t] = 0 THEN 0 ELSE curr_ph[t] - 1
    BY <1>2, <1>5, <1>11 DEF PreviousBlock, SmartTypeOK, PlacesIn, smartCaches
  <2>2. SmartTypeOK'
    BY <1>2, <1>11, SMT DEF PreviousBlock, SmartTypeOK, smartCaches
  <2>3. x[1] <= curr_ph'[t] /\ curr_ph'[t] <= Len(blocks)
    BY <1>1, <1>2, <1>4, <1>5, <2>1, SMT
  <2> QED
    BY <1>1, <1>2, <1>6, <2>1, <2>2, <2>3 DEF Base, Spoilt
<1>12. ~EndUpdate(t)
  <2> SUFFICES ASSUME EndUpdate(t) PROVE FALSE
    OBVIOUS
  <2>1. call[t] = "test" /\ curr_ph[t] = lastSeen
    BY DEF EndUpdate
  <2>2. x[1] <= lastSeen /\ lastSeen < x[1]
    BY <1>1, <2>1
  <2> QED
    BY <1>2, <1>4, <2>2, SMT
<1>13. ~EndCall(t)
  BY <1>5 DEF EndCall
<1> QED
  BY <1>7, <1>8, <1>9, <1>10, <1>11, <1>12, <1>13 DEF SmartStep

LEMMA SpoiltChain ==
  ASSUME NEW t \in Connections, Base, Spoilt(t), NEW b \in SmartBlocks, SmartBlock(b)
  PROVE  Base' /\ Spoilt(t)'
<1>1. /\ blocks' = Append(blocks, b) /\ lastSeen' = lastSeen /\ UNCHANGED smartCaches
      /\ call' = call /\ last_ph' = last_ph /\ curr_ph' = curr_ph /\ i_tr' = i_tr
      /\ poss' = poss /\ state_updated' = state_updated
  BY DEF SmartBlock, smartWalks
<1>2. SmartTypeOK /\ b \in Seq(SmartTransactions) /\ lastSeen <= Len(blocks)
  BY SmartAssumption DEF Base
<1>3. /\ Len(blocks) \in Nat /\ Len(blocks') = Len(blocks) + 1
      /\ \A n \in 1..Len(blocks) : blocks'[n] = blocks[n] /\ n \in 1..(Len(blocks) + 1)
      /\ lastSeen \in Nat /\ curr_ph[t] \in Nat
  BY <1>1, <1>2, SMT DEF SmartTypeOK
<1>4. SmartTypeOK'
  BY <1>1, <1>2, SMT DEF SmartTypeOK, smartCaches
<1>5. lastSeen <= Len(blocks) + 1 /\ (curr_ph[t] <= Len(blocks) => curr_ph[t] <= Len(blocks) + 1)
  BY <1>2, <1>3, SMT
<1>6. PICK x \in Ids(Len(blocks)) :
        /\ Tx(x).kind = "bad" /\ lastSeen < x[1]
        /\ call[t] # "idle" => x[1] <= curr_ph[t]
        /\ call[t] = "enter" => x[1] < curr_ph[t] \/ x[2] <= i_tr[t]
  BY DEF Spoilt
<1>7. x = <<x[1], x[2]>> /\ x[1] \in 1..Len(blocks) /\ x[2] \in 1..Len(blocks[x[1]])
  BY <1>2, <1>3, IdsMember, SMT
<1>8. Tx(x)' = Tx(x)
  BY <1>3, <1>7 DEF Tx
<1>9. x \in Ids(Len(blocks))'
  <2>1. x[1] \in 1..Len(blocks') /\ x[2] \in 1..Len(blocks'[x[1]])
    BY <1>3, <1>7
  <2> QED
    BY <1>7, <2>1, SMT DEF Ids
<1>10. PlacesIn(t)'
  BY <1>1 DEF Spoilt, PlacesIn, smartCaches
<1>11. /\ call[t] # "idle" => curr_ph[t] <= Len(blocks')
       /\ call[t] = "enter" => curr_ph[t] \in 1..Len(blocks') /\ i_tr[t] <= Len(blocks'[curr_ph[t]])
  BY <1>3, <1>5 DEF Spoilt
<1>12. call[t] \in {"idle", "test", "enter"} /\ (call[t] = "idle" => AtRest(t)')
  BY <1>1 DEF Spoilt, AtRest
<1> QED
  BY <1>1, <1>3, <1>4, <1>5, <1>6, <1>8, <1>9, <1>10, <1>11, <1>12 DEF Base, Spoilt
-----------------------------------------------------------------------------
(* A call changes nothing of the other calls. *)
LEMMA OthersRest ==
  ASSUME NEW t \in Connections, SmartTypeOK, Only(t), BeginUpdate(t) \/ SmartStep(t)
  PROVE  Only(t)'
<1> SUFFICES ASSUME NEW u \in Connections \ {t} PROVE call'[u] = "idle" /\ AtRest(u)'
  BY DEF Only
<1>1. call[u] = "idle" /\ last_ph[u] = 0 /\ poss[u] = NotMet /\ state_updated[u] = {}
  BY DEF Only, AtRest
<1>2. call'[u] = call[u] /\ last_ph'[u] = last_ph[u]
  BY DEF SmartTypeOK, BeginUpdate, SmartStep, LoadNext, EnterTransaction, EnterFails, PreviousBlock,
         EndUpdate, EndCall, Leave
<1>3. poss'[u] = poss[u] /\ state_updated'[u] = state_updated[u]
  BY DEF SmartTypeOK, BeginUpdate, SmartStep, LoadNext, EnterTransaction, EnterFails, PreviousBlock,
         EndUpdate, EndCall, Leave, EnterDeploy, EnterState, SkipTransaction
<1> QED
  BY <1>1, <1>2, <1>3 DEF AtRest, NotMet

(* When no call runs, any connection may be the next to call. *)
LEMMA HandOver ==
  ASSUME NEW t \in Connections, NEW u \in Connections, Base, Only(t), Good(t) \/ Spoilt(t), call[t] = "idle"
  PROVE  Only(u) /\ (Good(u) \/ Spoilt(u))
<1>1. call[t] = "idle" /\ AtRest(t)
  BY DEF Good, WalkPlace, Spoilt
<1>2. \A v \in Connections : call[v] = "idle" /\ AtRest(v)
  BY <1>1 DEF Only
<1>3. Only(u)
  BY <1>2 DEF Only
<1>4. \A v \in Connections : Walked(v) = {}
  <2>1. Ids(0) = {}
    BY SMT DEF Ids
  <2> QED
    BY <1>2, <2>1 DEF Walked, AtRest
<1>5. CASE Good(t)
  <2>1. ExactFor(Seen(u))
    BY <1>4, <1>5 DEF Good, Seen
  <2>2. \A d, c, kind : DeploymentsOf(d, {}) = {} /\ Of(c, kind, {}) = {}
    BY DEF DeploymentsOf, Of
  <2>3. WalkPlace(u) /\ WalkMemory(u)
    BY <1>2, <1>4, <2>2 DEF WalkPlace, WalkMemory, AtRest, NotMet
  <2> QED
    BY <1>3, <2>1, <2>3 DEF Good
<1>6. CASE Spoilt(t)
  BY <1>1, <1>2, <1>3, <1>6 DEF Spoilt, PlacesIn, AtRest, NotMet
<1> QED
  BY <1>5, <1>6

LEMMA OneStep ==
  ASSUME NEW t \in Connections, One(t), BeginUpdate(t) \/ SmartStep(t)
  PROVE  Base' /\ (Good(t)' \/ Spoilt(t)')
<1>1. CASE BeginUpdate(t)
  BY <1>1, BeginKeeps DEF One
<1>2. CASE LoadNext(t)
  BY <1>2, LoadKeeps DEF One
<1>3. CASE EnterTransaction(t)
  <2>1. PICK id : id = <<curr_ph[t], i_tr[t]>>
    OBVIOUS
  <2>2. EnterDeploy(t, id) \/ EnterState(t, id) \/ SkipTransaction(t, id)
    BY <1>3, <2>1 DEF EnterTransaction
  <2>3. One(t)'
    BY <1>3, <2>1, <2>2, DeployKeeps, StateKeeps
  <2> QED
    BY <2>3 DEF One
<1>4. CASE EnterFails(t)
  BY <1>4, FailSpoils
<1>5. CASE PreviousBlock(t)
  BY <1>5, PreviousKeeps DEF One
<1>6. CASE EndUpdate(t)
  BY <1>6, EndKeeps DEF One
<1>7. CASE EndCall(t)
  BY <1>7, UseKeeps DEF One
<1> QED
  BY <1>1, <1>2, <1>3, <1>4, <1>5, <1>6, <1>7 DEF SmartStep

LEMMA CallStep ==
  ASSUME NEW t \in Connections, Base, Only(t), Good(t) \/ Spoilt(t), BeginUpdate(t) \/ SmartStep(t)
  PROVE  Base' /\ Only(t)' /\ (Good(t)' \/ Spoilt(t)')
<1>1. Only(t)'
  BY OthersRest DEF Base
<1>2. Base' /\ (Good(t)' \/ Spoilt(t)')
  BY OneStep, SpoiltStep DEF One
<1> QED
  BY <1>1, <1>2

(* For any connections, deployers, contracts and blocks: as long as calls  *)
(* do not overlap, every query that gets to use the caches finds in them   *)
(* what the chain says up to the block seen last. The walk of              *)
(* update_smart_caches from the tip back keeps every list newest first and *)
(* loses no deployment, however many blocks are added while it runs, and   *)
(* what calls that failed have left in the caches is never used.           *)
THEOREM CachesExactAlways == SmartSpec => []CachesExact
<1>1. SmartInv /\ [SmartNext]_smartVars => SmartInv'
  <2> SUFFICES ASSUME SmartInv, [SmartNext]_smartVars, ~overlapped', Connections # {} PROVE SmartInv'
    BY DEF SmartInv
  <2>1. ~overlapped
    BY DEF SmartNext, SmartStep, SmartBlock, BeginUpdate, LoadNext, EnterTransaction, EnterFails, PreviousBlock,
           EndUpdate, EndCall, smartVars, smartCalls
  <2>2. Base
    BY <2>1 DEF SmartInv
  <2>3. PICK t \in Connections : Only(t) /\ (Good(t) \/ Spoilt(t))
    BY <2>1 DEF SmartInv
  <2>4. ASSUME NEW b \in SmartBlocks, SmartBlock(b) PROVE SmartInv'
    <3>1. Only(t)'
      BY <2>3, <2>4 DEF SmartBlock, smartWalks, Only, AtRest, NotMet
    <3>2. Base' /\ (Good(t)' \/ Spoilt(t)')
      BY <2>2, <2>3, <2>4, ChainKeeps, SpoiltChain DEF One
    <3> QED
      BY <3>1, <3>2 DEF SmartInv
  <2>5. ASSUME NEW u \in Connections, BeginUpdate(u) PROVE SmartInv'
    <3>1. call[t] = "idle"
      BY <2>5 DEF BeginUpdate
    <3>2. Only(u) /\ (Good(u) \/ Spoilt(u))
      BY <2>2, <2>3, <3>1, HandOver
    <3>3. Base' /\ Only(u)' /\ (Good(u)' \/ Spoilt(u)')
      BY <2>2, <2>5, <3>2, CallStep
    <3> QED
      BY <3>3 DEF SmartInv
  <2>6. ASSUME NEW u \in Connections, SmartStep(u) PROVE SmartInv'
    <3>1. u = t
      BY <2>3, <2>6, ZenonT(40)
      DEF SmartStep, LoadNext, EnterTransaction, EnterFails, PreviousBlock, EndUpdate, EndCall, Only
    <3>2. Base' /\ Only(t)' /\ (Good(t)' \/ Spoilt(t)')
      BY <2>2, <2>3, <2>6, <3>1, CallStep
    <3> QED
      BY <3>2 DEF SmartInv
  <2>7. CASE UNCHANGED smartVars
    <3>1. blocks' = blocks /\ UNCHANGED smartCaches /\ lastSeen' = lastSeen /\ poss' = poss
          /\ state_updated' = state_updated /\ call' = call /\ last_ph' = last_ph
          /\ curr_ph' = curr_ph /\ i_tr' = i_tr
      BY <2>7 DEF smartVars, smartWalks
    <3>2. Base' /\ Only(t)'
      BY <2>2, <2>3, <3>1 DEF Base, SmartTypeOK, Only, AtRest, NotMet, smartCaches
    <3>3. CASE Good(t)
      <4>1. Walked(t)' = Walked(t)
        BY <3>1, SameChain DEF Walked
      <4>2. WalkPlace(t)'
        BY <3>1, <3>3 DEF Good, WalkPlace, AtRest, NotMet
      <4> QED
        BY <2>2, <3>1, <3>2, <3>3, <4>1, <4>2, LoopStep DEF One, Base, SmartInv
    <3>4. CASE Spoilt(t)
      <4>1. Spoilt(t)'
        <5>1. Ids(Len(blocks))' = Ids(Len(blocks)) /\ \A x : Tx(x)' = Tx(x)
          BY <3>1, SMT DEF Ids, Tx
        <5>2. PlacesIn(t)' = PlacesIn(t) /\ AtRest(t)' = AtRest(t)
          BY <3>1 DEF PlacesIn, AtRest, NotMet, smartCaches
        <5> QED
          BY <3>1, <3>4, <5>1, <5>2 DEF Spoilt
      <4> QED
        BY <3>2, <4>1 DEF SmartInv
    <3> QED
      BY <2>3, <3>3, <3>4
  <2> QED
    BY <2>4, <2>5, <2>6, <2>7 DEF SmartNext
<1>2. SmartInv => CachesExact
  <2> SUFFICES ASSUME SmartInv, ~overlapped, NEW u \in Connections, call[u] = "use"
               PROVE  ExactFor(Ids(lastSeen))
    BY DEF CachesExact
  <2>1. PICK t \in Connections : Only(t) /\ (Good(t) \/ Spoilt(t))
    BY DEF SmartInv
  <2>2. u = t
    BY <2>1 DEF Only
  <2>3. Good(t)
    BY <2>1, <2>2 DEF Spoilt
  <2>4. Walked(t) = {}
    <3>1. last_ph[t] = 0
      BY <2>2, <2>3 DEF Good, WalkPlace, AtRest
    <3>2. Ids(0) = {}
      BY SMT DEF Ids
    <3> QED
      BY <3>1, <3>2 DEF Walked
  <2> QED
    BY <2>3, <2>4 DEF Good, Seen
<1> QED
  BY <1>1, <1>2, SmartInitInv, PTL DEF SmartSpec
=============================================================================
