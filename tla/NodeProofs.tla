---------------------------- MODULE NodeProofs ----------------------------
(***************************************************************************)
(* Proofs about the nodes and what they work on: the pools of transactions *)
(* (Pool, for all headers, transactions and bounds) and the rounds         *)
(* (NodeRound, for every number of nodes, rounds and messages, when the    *)
(* signal server's data is well-formed).                                   *)
(***************************************************************************)
EXTENDS NodeRound, Pool, TLAPS

USE Zenon

(* Pool. Every operation keeps a pool GoodPool, that is, a read-only pool  *)
(* holds the hash of its bytes, ids made of that hash, and either the      *)
(* transactions of its bytes or, after clear, none.                        *)

Bytes == Contents \cup {NoBytes}
Hashes == {EmptyHash} \cup {Hash(b) : b \in Bytes}
Ids == {NoId} \cup (Hashes \X Nat)

Pools == [valid : BOOLEAN, readOnly : BOOLEAN, hash : Hashes, head : Heads, txs : Seq(Trans),
          signed : BOOLEAN, bytes : Bytes, ids : Seq(Ids)]

GoodPool(p) ==
  /\ p \in Pools
  /\ p.readOnly => /\ p.hash = Hash(p.bytes) /\ p.bytes \in Contents
                   /\ p.txs = <<>> \/ p.txs = p.bytes.txs
  /\ Len(p.ids) = Len(p.txs)
  /\ \A i \in 1..Len(p.txs) : p.ids[i] = IF p.readOnly THEN <<p.hash, i>> ELSE NoId

LEMMA HashType ==
  ASSUME NEW b \in Bytes
  PROVE  Hash(b) \in Hashes
BY DEF Hashes

LEMMA ContentType ==
  ASSUME NEW p \in Pools
  PROVE  Content(p) \in Contents
BY DEF Pools, Content, Contents

LEMMA GoodFresh ==
  ASSUME NEW h \in Heads, NEW v \in BOOLEAN
  PROVE  GoodPool(Fresh(h, v))
<1>1. NoBytes \in Bytes /\ EmptyHash \in Hashes
  BY DEF Bytes, Hashes
<1>2. Fresh(h, v) \in Pools
  BY <1>1, SMT DEF Fresh, Pools
<1> QED BY <1>2, SMT DEF GoodPool, Fresh

LEMMA GoodFrozen ==
  ASSUME NEW p \in Pools, NEW b \in Contents, p.txs = b.txs
  PROVE  GoodPool(Frozen(p, b))
<1> DEFINE ids == [i \in DOMAIN p.txs |-> <<Hash(b), i>>]
           n == Len(p.txs)
<1>1. b \in Bytes /\ Hash(b) \in Hashes
  BY HashType DEF Bytes
<1>2. n \in Nat /\ DOMAIN p.txs = 1..n /\ p.txs \in Seq(Trans)
  BY SMT DEF Pools
<1>3. \A i \in 1..n : <<Hash(b), i>> \in Ids
  BY <1>1, <1>2, SMT DEF Ids
<1>4. ids \in Seq(Ids) /\ Len(ids) = n
  <2> HIDE DEF n
  <2>1. ids = [i \in 1..n |-> <<Hash(b), i>>]
    BY <1>2
  <2> QED BY <1>2, <1>3, <2>1, SMT
<1>5. /\ Frozen(p, b) \in Pools /\ Frozen(p, b).readOnly = TRUE
      /\ Frozen(p, b).hash = Hash(b) /\ Frozen(p, b).bytes = b
      /\ Frozen(p, b).txs = p.txs /\ Frozen(p, b).ids = ids
  <2> HIDE DEF n
  <2> QED BY <1>1, <1>4 DEF Frozen, Pools
<1>6. \A i \in 1..n : ids[i] = <<Hash(b), i>>
  BY <1>2
<1> HIDE DEF ids
<1> QED BY <1>4, <1>5, <1>6 DEF GoodPool

LEMMA GoodComposed ==
  ASSUME NEW p, GoodPool(p)
  PROVE  GoodPool(ComposedPool(p))
<1>1. CASE p.readOnly \/ ~p.valid
  BY <1>1 DEF ComposedPool
<1>2. CASE ~(p.readOnly \/ ~p.valid)
  <2>1. Content(p) \in Contents /\ p \in Pools /\ p.txs = Content(p).txs
    BY ContentType DEF GoodPool, Content
  <2>2. GoodPool(Frozen(p, Content(p)))
    BY <2>1, GoodFrozen
  <2> QED BY <1>2, <2>2 DEF ComposedPool
<1> QED BY <1>1, <1>2

LEMMA ComposedIsFrozen ==
  ASSUME NEW p, GoodPool(p), p.valid
  PROVE  ComposedPool(p).readOnly
<1>1. CASE p.readOnly
  BY <1>1 DEF ComposedPool
<1>2. CASE ~p.readOnly
  BY <1>2 DEF ComposedPool, Frozen, GoodPool, Pools
<1> QED BY <1>1, <1>2

LEMMA GoodHashed ==
  ASSUME NEW p, GoodPool(p)
  PROVE  GoodPool(Hashed(p)) /\ Hashed(p).valid = p.valid
<1>1. CASE p.hash = EmptyHash
  <2>1. p \in Pools /\ p.bytes \in Bytes /\ Hash(p.bytes) \in Hashes
    BY HashType DEF GoodPool, Pools
  <2>2. p.readOnly = FALSE
    BY <1>1, <2>1, SMT DEF GoodPool, Pools, EmptyHash, Hash
  <2> QED BY <1>1, <2>1, <2>2 DEF Hashed, GoodPool, Pools
<1>2. CASE p.hash # EmptyHash
  BY <1>2 DEF Hashed
<1> QED BY <1>1, <1>2

LEMMA GoodParsed ==
  ASSUME NEW b \in Contents
  PROVE  GoodPool(Parsed(b)) /\ Parsed(b).txs = b.txs
<1> DEFINE ids == [i \in DOMAIN b.txs |-> NoId]
           n == Len(b.txs)
<1>1. n \in Nat /\ DOMAIN b.txs = 1..n /\ b.head \in Heads /\ b.txs \in Seq(Trans) /\ b.signed \in BOOLEAN
  BY SMT DEF Contents
<1>2. b \in Bytes /\ EmptyHash \in Hashes /\ NoId \in Ids
  BY DEF Bytes, Hashes, Ids
<1>3. ids \in Seq(Ids) /\ Len(ids) = n
  <2> HIDE DEF n
  <2>1. ids = [i \in 1..n |-> NoId]
    BY <1>1
  <2> QED BY <1>1, <1>2, <2>1, SMT
<1>4. \A i \in 1..n : ids[i] = NoId
  BY <1>1
<1>5. /\ Parsed(b) \in Pools /\ Parsed(b).readOnly = FALSE
      /\ Parsed(b).txs = b.txs /\ Parsed(b).ids = ids
  <2> HIDE DEF n
  <2> QED BY <1>1, <1>2, <1>3 DEF Parsed, Pools
<1> HIDE DEF ids
<1> QED BY <1>3, <1>4, <1>5 DEF GoodPool

LEMMA GoodWithHead ==
  ASSUME NEW p, GoodPool(p), NEW h \in Heads
  PROVE  GoodPool(WithHead(p, h))
BY DEF GoodPool, WithHead, Pools

LEMMA GoodStreamed ==
  ASSUME NEW p, GoodPool(p)
  PROVE  GoodPool(Streamed(p)) /\ Streamed(p).bytes \in Bytes
<1>1. CASE p.bytes = NoBytes
  <2>1. p \in Pools /\ Content(p) \in Contents /\ Content(p) \in Bytes
    BY ContentType DEF GoodPool, Bytes
  <2>2. p.readOnly = FALSE
    BY <1>1, PoolAssumption DEF GoodPool, Pools
  <2> QED BY <1>1, <2>1, <2>2 DEF Streamed, GoodPool, Pools
<1>2. CASE p.bytes # NoBytes
  BY <1>2 DEF Streamed, GoodPool, Pools
<1> QED BY <1>1, <1>2

LEMMA GoodValid ==
  ASSUME NEW p, GoodPool(p)
  PROVE  GoodPool([p EXCEPT !.valid = TRUE])
BY DEF GoodPool, Pools

LEMMA GoodAdd ==
  ASSUME NEW p, GoodPool(p), NEW t \in Trans, ~p.readOnly
  PROVE  GoodPool([p EXCEPT !.txs = Append(@, t), !.ids = Append(@, NoId)])
<1> DEFINE q == [p EXCEPT !.txs = Append(@, t), !.ids = Append(@, NoId)]
<1>1. /\ p \in Pools /\ p.txs \in Seq(Trans) /\ p.ids \in Seq(Ids) /\ NoId \in Ids
      /\ Len(p.ids) = Len(p.txs) /\ p.readOnly = FALSE
      /\ \A i \in 1..Len(p.txs) : p.ids[i] = NoId
  BY DEF GoodPool, Pools, Ids
<1>2. /\ Append(p.txs, t) \in Seq(Trans) /\ Append(p.ids, NoId) \in Seq(Ids)
      /\ Len(Append(p.txs, t)) = Len(p.txs) + 1 /\ Len(Append(p.ids, NoId)) = Len(p.txs) + 1
      /\ \A i \in 1..(Len(p.txs) + 1) : Append(p.ids, NoId)[i] = NoId
  BY <1>1, SMT
<1>3. /\ q \in Pools /\ q.readOnly = FALSE
      /\ q.txs = Append(p.txs, t) /\ q.ids = Append(p.ids, NoId)
  BY <1>1, <1>2 DEF Pools
<1> HIDE DEF q
<1>4. GoodPool(q)
  BY <1>2, <1>3 DEF GoodPool
<1> QED BY <1>4 DEF q

LEMMA GoodClear ==
  ASSUME NEW p, GoodPool(p)
  PROVE  GoodPool([p EXCEPT !.txs = <<>>, !.ids = <<>>])
<1> DEFINE q == [p EXCEPT !.txs = <<>>, !.ids = <<>>]
<1>1. <<>> \in Seq(Trans) /\ <<>> \in Seq(Ids) /\ Len(<<>>) = 0
  BY SMT
<1>2. /\ q \in Pools /\ q.txs = <<>> /\ q.ids = <<>>
      /\ q.readOnly = p.readOnly /\ q.hash = p.hash /\ q.bytes = p.bytes
  BY <1>1 DEF GoodPool, Pools
<1> HIDE DEF q
<1>3. GoodPool(q)
  BY <1>1, <1>2, SMT DEF GoodPool
<1> QED BY <1>3 DEF q

LEMMA GoodSign ==
  ASSUME NEW p, GoodPool(p)
  PROVE  GoodPool([p EXCEPT !.signed = TRUE])
BY DEF GoodPool, Pools

-----------------------------------------------------------------------------
QueueGood == /\ queue \in Seq(Pools)
             /\ \A i \in 1..Len(queue) : GoodPool(queue[i]) /\ queue[i].valid
RecordsGood == \A r \in records : r.key = Hash(r.bytes) /\ r.bytes \in Contents

PoolInv == GoodPool(pool) /\ QueueGood /\ RecordsGood /\ wire \in Bytes

LEMMA EnqueueGood ==
  ASSUME QueueGood, NEW p, GoodPool(p), Enqueue(p)
  PROVE  QueueGood'
<1>1. CASE p.valid /\ queue' = Append(queue, Hashed(p))
  <2>1. GoodPool(Hashed(p)) /\ Hashed(p).valid /\ Hashed(p) \in Pools
    BY <1>1, GoodHashed DEF GoodPool
  <2> DEFINE x == Hashed(p)
  <2> HIDE DEF x
  <2>2. x \in Pools /\ GoodPool(x) /\ x.valid /\ queue' = Append(queue, x)
    BY <1>1, <2>1 DEF x
  <2>3. queue' \in Seq(Pools) /\ Len(queue') = Len(queue) + 1
    BY <2>2, SMT DEF QueueGood
  <2>4. \A i \in 1..(Len(queue) + 1) : queue'[i] = IF i = Len(queue) + 1 THEN x ELSE queue[i]
    BY <2>2, SMT DEF QueueGood
  <2>5. \A i \in 1..Len(queue') : GoodPool(queue'[i]) /\ queue'[i].valid
    <3> SUFFICES ASSUME NEW i \in 1..Len(queue') PROVE GoodPool(queue'[i]) /\ queue'[i].valid
      OBVIOUS
    <3>1. CASE i = Len(queue) + 1
      BY <2>2, <2>3, <2>4, <3>1
    <3>2. CASE i # Len(queue) + 1
      <4>1. i \in 1..Len(queue) /\ queue'[i] = queue[i]
        BY <2>3, <2>4, <3>2, SMT DEF QueueGood
      <4> QED BY <4>1 DEF QueueGood
    <3> QED BY <3>1, <3>2
  <2> QED BY <2>3, <2>5 DEF QueueGood
<1>2. CASE queue' = queue
  BY <1>2 DEF QueueGood
<1> QED BY <1>1, <1>2 DEF Enqueue

LEMMA WriteInv ==
  ASSUME PoolInv, Write
  PROVE  PoolInv'
<1> DEFINE p == ComposedPool(Head(queue))
<1>1. /\ queue \in Seq(Pools) /\ queue # <<>> /\ Len(queue) >= 1 /\ Head(queue) = queue[1]
      /\ Tail(queue) \in Seq(Pools) /\ Len(Tail(queue)) = Len(queue) - 1
      /\ \A i \in 1..Len(Tail(queue)) : Tail(queue)[i] = queue[i + 1]
  BY SMT DEF Write, PoolInv, QueueGood
<1>2. GoodPool(Head(queue)) /\ Head(queue).valid
  <2>1. 1 \in 1..Len(queue)
    BY <1>1, SMT
  <2> QED BY <1>1, <2>1 DEF PoolInv, QueueGood
<1>3. GoodPool(p) /\ p.readOnly
  BY <1>2, GoodComposed, ComposedIsFrozen
<1>4. p.hash = Hash(p.bytes) /\ p.bytes \in Contents
  BY <1>3 DEF GoodPool
<1>5. records' = records \cup {[key |-> p.hash, bytes |-> p.bytes]}
  BY DEF Write
<1> HIDE DEF p
<1>6. RecordsGood'
  BY <1>4, <1>5, SMT DEF PoolInv, RecordsGood
<1>7. \A i \in 1..Len(Tail(queue)) : i + 1 \in 1..Len(queue)
  BY <1>1, SMT
<1>8. queue' = Tail(queue)
  BY DEF Write
<1>9. \A i \in 1..Len(Tail(queue)) : GoodPool(queue[i + 1]) /\ queue[i + 1].valid
  BY <1>7 DEF PoolInv, QueueGood
<1>10. \A i \in 1..Len(queue') : GoodPool(queue'[i]) /\ queue'[i].valid
  BY <1>1, <1>8, <1>9
<1>11. QueueGood'
  BY <1>1, <1>8, <1>10 DEF QueueGood
<1> QED BY <1>6, <1>11 DEF PoolInv, Write, GoodPool

LEMMA PoolNextInv ==
  ASSUME PoolInv, [PoolNext]_poolVars
  PROVE  PoolInv'
<1>0. GoodPool(pool) /\ QueueGood /\ RecordsGood /\ wire \in Bytes
  BY DEF PoolInv
<1>a. ASSUME GoodPool(pool'), UNCHANGED <<queue, records, wire>> PROVE PoolInv'
  <2>1. QueueGood' /\ RecordsGood' /\ (wire \in Bytes)'
    BY <1>0, <1>a DEF QueueGood, RecordsGood
  <2>2. GoodPool(pool)'
    BY <1>a DEF GoodPool
  <2> QED BY <2>1, <2>2 DEF PoolInv
<1>b. ASSUME GoodPool(pool'), QueueGood', UNCHANGED <<records, wire>> PROVE PoolInv'
  <2>1. RecordsGood' /\ (wire \in Bytes)'
    BY <1>0, <1>b DEF RecordsGood
  <2>2. GoodPool(pool)'
    BY <1>b DEF GoodPool
  <2> QED BY <1>b, <2>1, <2>2 DEF PoolInv
<1>1. ASSUME NEW h \in Heads, New(h) PROVE PoolInv'
  BY <1>1, <1>a, GoodFresh DEF New
<1>2. ASSUME NEW h \in Heads, SetHead(h) PROVE PoolInv'
  BY <1>0, <1>2, <1>a, GoodWithHead DEF SetHead
<1>3. ASSUME NEW h \in Heads, WriteLastBlock(h) PROVE PoolInv'
  <2> DEFINE v == [pool EXCEPT !.valid = TRUE]  p == ComposedPool(WithHead(v, h))
  <2>1. GoodPool(v)
    BY <1>0, GoodValid
  <2> HIDE DEF v
  <2>2. GoodPool(p)
    BY <2>1, GoodWithHead, GoodComposed
  <2>3. pool' = p /\ Enqueue(p) /\ UNCHANGED <<records, wire>>
    BY <1>3 DEF WriteLastBlock, v
  <2> HIDE DEF p
  <2>4. QueueGood'
    BY <1>0, <2>2, <2>3, EnqueueGood
  <2> QED BY <1>b, <2>2, <2>3, <2>4
<1>4. ASSUME NEW t \in Trans, AddTransaction(t) PROVE PoolInv'
  BY <1>0, <1>4, <1>a, GoodAdd DEF AddTransaction
<1>5. CASE Clear
  BY <1>0, <1>5, <1>a, GoodClear DEF Clear
<1>6. CASE Sign
  BY <1>0, <1>6, <1>a, GoodSign DEF Sign
<1>7. CASE Compose
  BY <1>0, <1>7, <1>a, GoodComposed DEF Compose
<1>8. CASE PoolHash
  BY <1>0, <1>8, <1>a, GoodHashed DEF PoolHash
<1>9. CASE Send
  <2>1. GoodPool(pool') /\ wire' \in Bytes /\ UNCHANGED <<queue, records>>
    BY <1>0, <1>9, GoodStreamed DEF Send
  <2>2. QueueGood' /\ RecordsGood'
    BY <1>0, <2>1 DEF QueueGood, RecordsGood
  <2>3. GoodPool(pool)'
    BY <2>1 DEF GoodPool
  <2> QED BY <2>1, <2>2, <2>3 DEF PoolInv
<1>10. CASE Save
  <2>1. GoodPool(pool')
    BY <1>0, <1>10, GoodHashed DEF Save
  <2>2. QueueGood'
    BY <1>0, <1>10, EnqueueGood DEF Save
  <2> QED BY <1>10, <1>b, <2>1, <2>2 DEF Save
<1>11. CASE Write
  BY <1>11, WriteInv
<1>12. CASE Load
  <2> PICK r \in records : pool' = Frozen(Parsed(r.bytes), r.bytes) /\ UNCHANGED <<queue, records, wire>>
    BY <1>12 DEF Load
  <2>1. r.bytes \in Contents
    BY <1>0 DEF RecordsGood
  <2>2. Parsed(r.bytes) \in Pools /\ Parsed(r.bytes).txs = r.bytes.txs
    BY <2>1, GoodParsed DEF GoodPool
  <2>3. GoodPool(Frozen(Parsed(r.bytes), r.bytes))
    BY <2>1, <2>2, GoodFrozen
  <2> QED BY <1>a, <2>3
<1>13. CASE Arrive
  <2>1. wire \in Contents
    BY <1>0, <1>13 DEF Arrive, Bytes
  <2>2. GoodPool(Hashed(Parsed(wire)))
    BY <2>1, GoodParsed, GoodHashed
  <2> QED BY <1>13, <1>a, <2>2 DEF Arrive
<1>14. CASE UNCHANGED poolVars
  <2>1. pool' = pool /\ UNCHANGED <<queue, records, wire>>
    BY <1>14 DEF poolVars
  <2>2. GoodPool(pool')
    BY <1>0, <2>1
  <2> QED BY <1>a, <2>1, <2>2
<1> QED BY <1>1, <1>2, <1>3, <1>4, <1>5, <1>6, <1>7, <1>8, <1>9, <1>10, <1>11, <1>12, <1>13, <1>14
    DEF PoolNext

LEMMA PoolInitInv == PoolInit => PoolInv
<1> SUFFICES ASSUME PoolInit PROVE PoolInv
  OBVIOUS
<1>1. (CHOOSE h \in Heads : TRUE) \in Heads
  BY PoolAssumption
<1>2. GoodPool(pool)
  BY <1>1, GoodFresh DEF PoolInit
<1>3. QueueGood /\ RecordsGood /\ wire \in Bytes
  BY SMT DEF PoolInit, QueueGood, RecordsGood, Bytes
<1> QED BY <1>2, <1>3 DEF PoolInv

(* A record lies under the hash of its bytes, for every way of building,   *)
(* sending, receiving, changing and saving pools.                          *)
THEOREM KeysMatch == PoolSpec => []RecordsKeyed
<1>1. PoolInv => RecordsKeyed
  BY PoolAssumption DEF PoolInv, RecordsGood, RecordsKeyed
<1> QED BY <1>1, PoolInitInv, PoolNextInv, PTL DEF PoolSpec

(* Transaction ids lead to their transactions, in the pool and on disk. *)
THEOREM IdsLead == PoolSpec => []IdsLocate
<1>1. PoolInv => IdsLocate
  <2> SUFFICES ASSUME PoolInv, NEW i \in DOMAIN pool.ids, pool.ids[i] # NoId
               PROVE  /\ pool.ids[i] = <<pool.hash, i>>
                      /\ \A r \in records : r.key = pool.hash =>
                           i \in DOMAIN r.bytes.txs /\ r.bytes.txs[i] = pool.txs[i]
    BY DEF IdsLocate
  <2>1. pool.ids \in Seq(Ids) /\ pool.txs \in Seq(Trans) /\ Len(pool.ids) = Len(pool.txs)
    BY DEF PoolInv, GoodPool, Pools
  <2>2. i \in 1..Len(pool.txs)
    BY <2>1, SMT
  <2>3. pool.readOnly /\ pool.ids[i] = <<pool.hash, i>>
    BY <2>2 DEF PoolInv, GoodPool
  <2>4. pool.txs = pool.bytes.txs /\ pool.hash = Hash(pool.bytes)
    BY <2>2, <2>3, SMT DEF PoolInv, GoodPool
  <2>5. \A r \in records : r.key = pool.hash => r.bytes = pool.bytes
    BY <2>4, SMT DEF PoolInv, RecordsGood, Hash
  <2>6. i \in DOMAIN pool.txs
    BY <2>1, <2>2, SMT
  <2> QED BY <2>3, <2>4, <2>5, <2>6
<1> QED BY <1>1, PoolInitInv, PoolNextInv, PTL DEF PoolSpec

LEMMA FrozenStep ==
  ASSUME PoolInv, PoolNext, pool.readOnly, pool'.readOnly, ~Load
  PROVE  pool'.bytes = pool.bytes /\ pool'.hash = pool.hash
<1>0. /\ GoodPool(pool) /\ pool \in Pools /\ pool.bytes # NoBytes
      /\ pool.hash # EmptyHash /\ wire \in Bytes
  <2>1. GoodPool(pool) /\ wire \in Bytes
    BY DEF PoolInv
  <2>2. pool \in Pools /\ pool.hash = Hash(pool.bytes) /\ pool.bytes \in Contents
    BY <2>1 DEF GoodPool
  <2>3. Hash(pool.bytes) # EmptyHash
    BY DEF Hash, EmptyHash
  <2> QED BY <2>1, <2>2, <2>3, PoolAssumption
<1>1. ASSUME NEW h \in Heads, New(h) PROVE FALSE
  BY <1>1 DEF New, Fresh
<1>2. ASSUME NEW h \in Heads, SetHead(h) PROVE pool' = pool
  BY <1>2 DEF SetHead, WithHead
<1>3. ASSUME NEW h \in Heads, WriteLastBlock(h)
      PROVE  pool'.bytes = pool.bytes /\ pool'.hash = pool.hash
  <2> DEFINE v == [pool EXCEPT !.valid = TRUE]
  <2>1. v.readOnly /\ v.bytes = pool.bytes /\ v.hash = pool.hash
    BY <1>0 DEF Pools
  <2>2. pool' = ComposedPool(WithHead(v, h))
    BY <1>3 DEF WriteLastBlock
  <2> HIDE DEF v
  <2> QED BY <2>1, <2>2 DEF ComposedPool, WithHead
<1>4. ASSUME NEW t \in Trans, AddTransaction(t) PROVE FALSE
  BY <1>4 DEF AddTransaction
<1>5. CASE Clear
  BY <1>0, <1>5 DEF Clear, Pools
<1>6. CASE Sign
  BY <1>0, <1>6 DEF Sign, Pools
<1>7. CASE Compose
  BY <1>7 DEF Compose, ComposedPool
<1>8. CASE PoolHash
  BY <1>0, <1>8 DEF PoolHash, Hashed
<1>9. CASE Send
  BY <1>0, <1>9 DEF Send, Streamed
<1>10. CASE Save
  BY <1>0, <1>10 DEF Save, Hashed
<1>11. CASE Write
  BY <1>11 DEF Write
<1>12. CASE Arrive
  <2>1. Parsed(wire).readOnly = FALSE /\ Parsed(wire).hash = EmptyHash
    BY DEF Parsed
  <2>2. Hashed(Parsed(wire)).readOnly = FALSE
    BY <2>1 DEF Hashed, Parsed
  <2> QED BY <1>12, <2>2 DEF Arrive
<1> QED BY <1>1, <1>2, <1>3, <1>4, <1>5, <1>6, <1>7, <1>8, <1>9, <1>10, <1>11, <1>12 DEF PoolNext

(* The bytes and the hash of a composed pool are final. *)
THEOREM FrozenAlways == PoolSpec => ComposedFrozen
<1>1. PoolInv /\ [PoolNext]_poolVars =>
        [pool.readOnly /\ pool'.readOnly /\ ~Load
           => pool'.bytes = pool.bytes /\ pool'.hash = pool.hash]_poolVars
  BY FrozenStep
<1> QED BY <1>1, PoolInitInv, PoolNextInv, PTL DEF PoolSpec, ComposedFrozen

-----------------------------------------------------------------------------
(* NodeRound. *)

(* A message fits the table and the writer of the round it was sent in. *)
Good(m) ==
  /\ m.round \in Rounds /\ decided[m.round] # None
  /\ m.kind = "table" => m.table = decided[m.round]
  /\ m.kind \in {"first", "list"} => m.from = decided[m.round].main
  /\ m.kind \in {"vector", "matrix"} => m.from \in decided[m.round].conf
  /\ m.kind = "block" => m.from = writer[m.round]

(* The round data of a node is that of the round it is in. *)
RoundOK(n) ==
  /\ phase[n] = "registering" => round[n] = 0 /\ table[n] = None
  /\ phase[n] = "receiving" => /\ round[n] \in Rounds /\ decided[round[n]] # None
                               /\ table[n] = decided[round[n]]

(* Its level is the one the round gives it. *)
LevelOK(n) ==
  phase[n] = "receiving" =>
    /\ level[n] = "Main" => table[n].main = n
    /\ level[n] = "Confidant" => n \in table[n].conf
    /\ level[n] = "Writer" => writer[round[n]] = n

GivenOK(n) ==
  given[n] # None => /\ Good(given[n]) /\ phase[n] = "receiving"
                     /\ given[n].kind \in {"first", "vector", "matrix"} => n \in table[n].conf

(* A round after the first was begun by the writer of the one before, who *)
(* has left that round.                                                   *)
BegunInv ==
  \A r \in Rounds : r + 1 \in Rounds /\ decided[r + 1] # None =>
    writer[r] \in Nodes /\ round[writer[r]] > r

RoundInv ==
  /\ TypeOK
  /\ \A n \in Nodes : RoundOK(n)
  /\ \A n \in Nodes : LevelOK(n)
  /\ \A n \in Nodes : GivenOK(n)
  /\ \A n \in Nodes : \A m \in tasks[n] : Good(m)
  /\ \A m \in net : Good(m)
  /\ BegunInv

(* Rounds that have begun keep their table and their writer. *)
Stable ==
  /\ \A r \in Rounds : decided[r] # None => decided'[r] = decided[r]
  /\ \A r \in Rounds : writer[r] # None => writer'[r] = writer[r]
  /\ \A n \in Nodes : round'[n] \in Nat /\ round'[n] >= round[n]

LEMMA GoodStable ==
  ASSUME RoundInv, Stable, NEW m \in Messages, Good(m)
  PROVE  Good(m)'
<1>1. decided'[m.round] = decided[m.round] /\ m.round \in Rounds
  BY DEF Good, Stable
<1>2. m.kind = "block" => writer'[m.round] = writer[m.round]
  BY <1>1, RoundAssumption DEF Good, Stable, Messages
<1> QED
  BY <1>1, <1>2 DEF Good

(* A node none of whose variables change stays as it should be. *)
LEMMA OtherNode ==
  ASSUME RoundInv, Stable, NEW n \in Nodes,
         phase'[n] = phase[n], round'[n] = round[n], table'[n] = table[n]
  PROVE  /\ RoundOK(n)'
         /\ level'[n] = level[n] => LevelOK(n)'
         /\ given'[n] = given[n] => GivenOK(n)'
         /\ tasks'[n] = tasks[n] => \A m \in tasks'[n] : Good(m)'
<1>1. RoundOK(n) /\ LevelOK(n) /\ GivenOK(n)
  BY DEF RoundInv
<1>2. RoundOK(n)'
  BY <1>1 DEF RoundOK, Stable
<1>3. level'[n] = level[n] => LevelOK(n)'
  <2>1. phase[n] = "receiving" => round[n] \in Rounds
    BY <1>1 DEF RoundOK
  <2> QED
    BY <1>1, <2>1, RoundAssumption DEF LevelOK, Stable
<1>4. given'[n] = given[n] => GivenOK(n)'
  <2> SUFFICES ASSUME given'[n] = given[n], given[n] # None PROVE GivenOK(n)'
    BY DEF GivenOK
  <2>1. given[n] \in Messages /\ Good(given[n])
    BY <1>1 DEF RoundInv, TypeOK, GivenOK
  <2>2. \A m \in Messages : Good(m) => Good(m)'
    BY GoodStable
  <2> QED
    BY <1>1, <2>1, <2>2 DEF GivenOK
<1>5. tasks'[n] = tasks[n] => \A m \in tasks'[n] : Good(m)'
  BY GoodStable DEF RoundInv, TypeOK
<1> QED
  BY <1>2, <1>3, <1>4, <1>5

LEMMA BegunStable ==
  ASSUME RoundInv, Stable, decided' = decided
  PROVE  BegunInv'
<1> SUFFICES ASSUME NEW r \in Rounds, r + 1 \in Rounds, decided[r + 1] # None
             PROVE  writer'[r] \in Nodes /\ round'[writer'[r]] > r
  BY DEF BegunInv
<1>1. writer[r] \in Nodes /\ round[writer[r]] > r
  BY DEF RoundInv, BegunInv
<1>2. writer'[r] = writer[r]
  BY <1>1, RoundAssumption DEF Stable
<1>3. round[writer[r]] \in Nat /\ r \in Nat
  BY <1>1, RoundAssumption, SMT DEF RoundInv, TypeOK, Rounds
<1> QED
  BY <1>1, <1>2, <1>3, SMT DEF Stable

LEMMA NetStable ==
  ASSUME RoundInv, Stable, net' \subseteq net
  PROVE  \A m \in net' : Good(m)'
BY GoodStable DEF RoundInv, TypeOK

(* A step that changes the variables of one node only. *)
LEMMA OneNode ==
  ASSUME RoundInv, Stable, TypeOK', BegunInv', NEW n \in Nodes,
         \A u \in Nodes \ {n} : /\ phase'[u] = phase[u] /\ round'[u] = round[u]
                                /\ table'[u] = table[u] /\ level'[u] = level[u]
                                /\ given'[u] = given[u] /\ tasks'[u] = tasks[u],
         RoundOK(n)', LevelOK(n)', GivenOK(n)', \A m \in tasks'[n] : Good(m)',
         \A m \in net' : Good(m)'
  PROVE  RoundInv'
<1>1. ASSUME NEW u \in Nodes
      PROVE  RoundOK(u)' /\ LevelOK(u)' /\ GivenOK(u)' /\ \A m \in tasks'[u] : Good(m)'
  <2>1. CASE u = n
    BY <2>1
  <2>2. CASE u # n
    BY <2>2, OtherNode
  <2> QED
    BY <2>1, <2>2
<1> QED
  BY <1>1 DEF RoundInv

LEMMA MaxRoundNat == MaxRound \in Nat \ {0} /\ Rounds \subseteq Nat /\ Rounds \subseteq 0..MaxRound
BY RoundAssumption, SMT DEF Rounds

(* The writer, the tables and the rounds of a step that leaves them alone. *)
LEMMA StillStable ==
  ASSUME TypeOK, decided' = decided, writer' = writer, round' = round
  PROVE  Stable
BY SMT DEF TypeOK, Stable

LEMMA InvInit == Init => RoundInv
<1> SUFFICES ASSUME Init PROVE RoundInv
  OBVIOUS
<1>1. TypeOK
  BY RoundAssumption, SMT DEF Init, TypeOK, Rounds
<1>2. \A n \in Nodes : RoundOK(n) /\ LevelOK(n) /\ GivenOK(n) /\ tasks[n] = {}
  BY DEF Init, RoundOK, LevelOK, GivenOK
<1>3. BegunInv
  BY SMT DEF Init, BegunInv, Rounds
<1> QED
  BY <1>1, <1>2, <1>3 DEF RoundInv, Init

(* A node starts a round that has begun, later than its own. *)
LEMMA StartInv ==
  ASSUME RoundInv, NEW n \in Nodes, NEW r \in Rounds, NEW t \in Tables,
         OnRoundStart(n, r, t), r > round[n],
         \/ phase' = phase /\ phase[n] = "receiving"
         \/ phase' = [phase EXCEPT ![n] = "receiving"],
         \/ tasks' = tasks \/ tasks' = [tasks EXCEPT ![n] = {}],
         UNCHANGED <<net, writer>>,
         decided' \in [Rounds -> Tables \cup {None}], decided'[r] = t,
         \A q \in Rounds : decided[q] # None => decided'[q] = decided[q]
  PROVE  Stable /\ TypeOK' /\ (BegunInv' => RoundInv')
<1>1. /\ round' = [round EXCEPT ![n] = r] /\ table' = [table EXCEPT ![n] = t]
      /\ level' = [level EXCEPT ![n] = RoleIn(t, n)] /\ given' = [given EXCEPT ![n] = None]
  BY DEF OnRoundStart
<1>2. RoleIn(t, n) \in {"Main", "Confidant", "Normal"}
  BY DEF RoleIn
<1>3. TypeOK'
  BY <1>1, <1>2, MaxRoundNat DEF RoundInv, TypeOK, Levels
<1>4. Stable
  BY <1>1, MaxRoundNat, SMT DEF RoundInv, TypeOK, Stable
<1>5. t # None
  BY RoundAssumption
<1>6. RoundOK(n)'
  BY <1>1, <1>5 DEF RoundInv, TypeOK, RoundOK
<1>7. LevelOK(n)'
  BY <1>1 DEF RoundInv, TypeOK, LevelOK, RoleIn
<1>8. GivenOK(n)'
  BY <1>1 DEF RoundInv, TypeOK, GivenOK
<1>9. \A m \in tasks'[n] : Good(m)'
  BY <1>4, GoodStable DEF RoundInv, TypeOK
<1>10. \A m \in net' : Good(m)'
  BY <1>4, NetStable
<1>11. \A u \in Nodes \ {n} : /\ phase'[u] = phase[u] /\ round'[u] = round[u]
                                /\ table'[u] = table[u] /\ level'[u] = level[u]
                                /\ given'[u] = given[u] /\ tasks'[u] = tasks[u]
  BY <1>1, ZenonT(40) DEF RoundInv, TypeOK
<1> QED
  BY <1>3, <1>4, <1>6, <1>7, <1>8, <1>9, <1>10, <1>11, OneNode

LEMMA GetInitRingInv ==
  ASSUME RoundInv, NEW n \in Nodes, NEW r \in Rounds, GetInitRing(n, r)
  PROVE  RoundInv' /\ Stable
<1>1. /\ phase' = [phase EXCEPT ![n] = "receiving"] /\ phase[n] = "registering"
      /\ OnRoundStart(n, r, decided[r]) /\ tasks' = [tasks EXCEPT ![n] = {}]
      /\ UNCHANGED <<net, writer>> /\ decided' = decided /\ decided[r] # None
  BY DEF GetInitRing, ReadRoundData
<1>2. decided[r] \in Tables /\ decided \in [Rounds -> Tables \cup {None}]
  BY <1>1 DEF RoundInv, TypeOK
<1>3. round[n] = 0 /\ r > round[n]
  BY <1>1, SMT DEF RoundInv, RoundOK, Rounds
<1>4. Stable /\ (BegunInv' => RoundInv')
  BY <1>1, <1>2, <1>3, StartInv
<1> QED
  BY <1>1, <1>4, BegunStable

LEMMA GetRoundTableInv ==
  ASSUME RoundInv, NEW n \in Nodes, NEW m \in net, GetRoundTable(n, m)
  PROVE  RoundInv' /\ Stable
<1>1. /\ phase' = phase /\ phase[n] = "receiving" /\ m.round > round[n]
      /\ OnRoundStart(n, m.round, m.table) /\ tasks' = [tasks EXCEPT ![n] = {}]
      /\ UNCHANGED <<net, writer>> /\ decided' = decided /\ m.kind = "table"
  BY DEF GetRoundTable, ReadRoundData
<1>2. m.round \in Rounds /\ decided[m.round] # None /\ m.table = decided[m.round]
  BY <1>1 DEF RoundInv, Good
<1>3. m.table \in Tables /\ decided \in [Rounds -> Tables \cup {None}]
  BY <1>2 DEF RoundInv, TypeOK
<1>4. Stable /\ (BegunInv' => RoundInv')
  BY <1>1, <1>2, <1>3, StartInv
<1> QED
  BY <1>1, <1>4, BegunStable

(* Only the one writer of a round can begin the next, and only once. *)
LEMMA InitNextRoundInv ==
  ASSUME RoundInv, NEW n \in Nodes, NEW t \in Tables, InitNextRound(n, t)
  PROVE  RoundInv' /\ Stable
<1> DEFINE r == round[n]
<1>1. /\ phase' = phase /\ phase[n] = "receiving" /\ r \in 1..(MaxRound - 1) /\ level[n] = "Writer"
      /\ OnRoundStart(n, r + 1, t) /\ tasks' = tasks /\ UNCHANGED <<net, writer>>
      /\ decided' = [decided EXCEPT ![r + 1] = t]
  BY DEF InitNextRound
<1>2. r \in Rounds /\ r + 1 \in Rounds /\ r + 1 > r /\ r \in Nat
  BY <1>1, MaxRoundNat, SMT DEF Rounds
<1>3. writer[r] = n
  BY <1>1 DEF RoundInv, LevelOK
<1>4. decided[r + 1] = None
  BY <1>2, <1>3, SMT DEF RoundInv, BegunInv
<1>5. /\ decided' \in [Rounds -> Tables \cup {None}] /\ decided'[r + 1] = t
      /\ \A q \in Rounds : q # r + 1 => decided'[q] = decided[q]
      /\ \A q \in Rounds : decided[q] # None => decided'[q] = decided[q]
  BY <1>1, <1>2, <1>4 DEF RoundInv, TypeOK
<1>6. Stable /\ (BegunInv' => RoundInv')
  <2> HIDE DEF r
  <2>1. r + 1 > round[n]
    BY <1>2 DEF r
  <2> QED
    BY <1>1, <1>2, <1>5, <2>1, StartInv
<1>7. BegunInv'
  <2> SUFFICES ASSUME NEW q \in Rounds, q + 1 \in Rounds, decided'[q + 1] # None
               PROVE  writer'[q] \in Nodes /\ round'[writer'[q]] > q
    BY DEF BegunInv
  <2>1. q \in Nat /\ writer' = writer
    BY <1>1, MaxRoundNat
  <2>2. CASE q = r
    <3>1. round'[n] = r + 1
      BY <1>1 DEF OnRoundStart, RoundInv, TypeOK
    <3> QED
      BY <1>2, <1>3, <2>1, <2>2, <3>1
  <2>3. CASE q # r
    <3>1. decided[q + 1] # None
      BY <1>2, <1>5, <2>1, <2>3, SMT
    <3>2. writer[q] \in Nodes /\ round[writer[q]] > q /\ round[writer[q]] \in Nat
      BY <3>1, SMT DEF RoundInv, BegunInv, TypeOK
    <3> QED
      BY <1>6, <2>1, <3>2, SMT DEF Stable
  <2> QED
    BY <2>2, <2>3
<1> QED
  BY <1>6, <1>7

(* A node that has a table is in a round, with that round's table. *)
LEMMA InRound ==
  ASSUME RoundInv, NEW n \in Nodes, table[n] # None
  PROVE  /\ phase[n] = "receiving" /\ round[n] \in Rounds /\ decided[round[n]] # None
         /\ table[n] = decided[round[n]] /\ table[n] \in Tables /\ table[n].conf \subseteq Nodes
         /\ table[n].main \in Nodes
<1>1. RoundOK(n) /\ phase[n] \in {"registering", "receiving"} /\ table[n] \in Tables
  BY DEF RoundInv, TypeOK
<1> QED
  BY <1>1, RoundAssumption DEF RoundOK

(* Messages enter the resend list. *)
LEMMA TasksInv ==
  ASSUME RoundInv, NEW n \in Nodes, NEW S \in SUBSET Messages, \A m \in S : Good(m),
         tasks' = [tasks EXCEPT ![n] = S],
         UNCHANGED <<phase, level, round, table, net, given, writer, decided>>
  PROVE  RoundInv' /\ Stable
<1>1. Stable
  BY StillStable DEF RoundInv
<1>2. TypeOK'
  BY DEF RoundInv, TypeOK
<1>3. \A m \in tasks'[n] : Good(m)'
  BY <1>1, GoodStable DEF RoundInv, TypeOK
<1>4. RoundOK(n)' /\ LevelOK(n)' /\ GivenOK(n)'
  BY <1>1, OtherNode
<1>5. BegunInv' /\ \A m \in net' : Good(m)'
  BY <1>1, BegunStable, NetStable
<1>6. \A u \in Nodes \ {n} : /\ phase'[u] = phase[u] /\ round'[u] = round[u]
                               /\ table'[u] = table[u] /\ level'[u] = level[u]
                               /\ given'[u] = given[u] /\ tasks'[u] = tasks[u]
  BY DEF RoundInv, TypeOK
<1> QED
  BY <1>1, <1>2, <1>3, <1>4, <1>5, <1>6, OneNode

LEMMA SendRoundTableInv ==
  ASSUME RoundInv, NEW n \in Nodes, SendRoundTable(n)
  PROVE  RoundInv' /\ Stable
<1> DEFINE m == [kind |-> "table", from |-> n, to |-> Nodes, round |-> round[n], table |-> table[n]]
<1>1. /\ tasks' = [tasks EXCEPT ![n] = {m}] /\ table[n] # None
      /\ UNCHANGED <<phase, level, round, table, net, given, writer, decided>>
  BY DEF SendRoundTable
<1>2. m \in Messages
  BY <1>1, InRound, MaxRoundNat DEF Messages
<1>3. Good(m)
  BY <1>1, InRound DEF Good
<1> HIDE DEF m
<1> QED
  BY <1>1, <1>2, <1>3, TasksInv

LEMMA PostInv ==
  ASSUME RoundInv, NEW n \in Nodes, NEW k \in AllKinds, NEW to \in SUBSET Nodes, Post(n, k, to),
         k \in {"first", "list"} => level[n] = "Main",
         k \in {"vector", "matrix"} => level[n] = "Confidant",
         k = "block" => level[n] = "Writer"
  PROVE  RoundInv' /\ Stable
<1> DEFINE m == Message(k, n, to)
<1>1. /\ tasks' = [tasks EXCEPT ![n] = tasks[n] \cup {m}] /\ table[n] # None
      /\ UNCHANGED <<phase, level, round, table, net, given, writer, decided>>
  BY DEF Post
<1>2. m \in Messages
  BY <1>1, InRound, MaxRoundNat DEF Messages, Message
<1>3. /\ m.kind = k /\ m.from = n /\ m.round = round[n]
  BY DEF Message
<1> HIDE DEF m
<1>4. LevelOK(n) /\ phase[n] = "receiving"
  BY <1>1, InRound DEF RoundInv
<1>5. Good(m)
  BY <1>1, <1>3, <1>4, InRound DEF Good, LevelOK, AllKinds
<1>6. tasks[n] \cup {m} \in SUBSET Messages /\ \A x \in tasks[n] \cup {m} : Good(x)
  BY <1>2, <1>5 DEF RoundInv, TypeOK
<1> QED
  BY <1>1, <1>6, TasksInv

LEMMA GiveInv ==
  ASSUME RoundInv, NEW n \in Nodes, NEW m \in net, NEW k, Give(n, m, k),
         k \in {"first", "vector", "matrix"} => level[n] = "Confidant",
         level' = level \/ level' = [level EXCEPT ![n] = "Normal"]
  PROVE  RoundInv' /\ Stable
<1>1. /\ given' = [given EXCEPT ![n] = m] /\ m.kind = k /\ phase[n] = "receiving"
      /\ UNCHANGED <<phase, round, table, tasks, net, writer, decided>>
  BY DEF Give
<1>2. Stable
  BY <1>1, StillStable DEF RoundInv
<1>3. TypeOK'
  BY <1>1 DEF RoundInv, TypeOK, Levels
<1>4. LevelOK(n)'
  BY <1>1 DEF RoundInv, TypeOK, LevelOK
<1>5. GivenOK(n)'
  <2>1. Good(m) /\ m \in Messages
    BY DEF RoundInv, TypeOK
  <2>2. Good(m)'
    BY <1>2, <2>1, GoodStable
  <2>3. k \in {"first", "vector", "matrix"} => n \in table[n].conf
    BY <1>1 DEF RoundInv, LevelOK
  <2>4. given'[n] = m
    BY <1>1 DEF RoundInv, TypeOK
  <2> QED
    BY <1>1, <2>2, <2>3, <2>4 DEF GivenOK, Good
<1>6. RoundOK(n)' /\ \A x \in tasks'[n] : Good(x)'
  BY <1>1, <1>2, OtherNode
<1>7. BegunInv' /\ \A x \in net' : Good(x)'
  BY <1>1, <1>2, BegunStable, NetStable
<1>8. \A u \in Nodes \ {n} : /\ phase'[u] = phase[u] /\ round'[u] = round[u]
                               /\ table'[u] = table[u] /\ level'[u] = level[u]
                               /\ given'[u] = given[u] /\ tasks'[u] = tasks[u]
  BY <1>1 DEF RoundInv, TypeOK
<1> QED
  BY <1>2, <1>3, <1>4, <1>5, <1>6, <1>7, <1>8, OneNode

LEMMA BecomeWriterInv ==
  ASSUME RoundInv, NEW n \in Nodes, BecomeWriter(n)
  PROVE  RoundInv' /\ Stable
<1>1. /\ writer' = [writer EXCEPT ![round[n]] = n] /\ level' = [level EXCEPT ![n] = "Writer"]
      /\ phase[n] = "receiving" /\ writer[round[n]] \in {None, n}
      /\ UNCHANGED <<phase, round, table, tasks, net, given, decided>>
  BY DEF BecomeWriter
<1>2. round[n] \in Rounds
  BY <1>1 DEF RoundInv, RoundOK
<1>3. TypeOK'
  BY <1>1, <1>2 DEF RoundInv, TypeOK, Levels
<1>4. Stable
  BY <1>1, <1>2, SMT DEF RoundInv, TypeOK, Stable
<1>5. LevelOK(n)'
  BY <1>1, <1>2 DEF RoundInv, TypeOK, LevelOK
<1>6. RoundOK(n)' /\ GivenOK(n)' /\ \A x \in tasks'[n] : Good(x)'
  BY <1>1, <1>4, OtherNode
<1>7. BegunInv' /\ \A x \in net' : Good(x)'
  BY <1>1, <1>4, BegunStable, NetStable
<1>8. \A u \in Nodes \ {n} : /\ phase'[u] = phase[u] /\ round'[u] = round[u]
                               /\ table'[u] = table[u] /\ level'[u] = level[u]
                               /\ given'[u] = given[u] /\ tasks'[u] = tasks[u]
  BY <1>1 DEF RoundInv, TypeOK
<1> QED
  BY <1>3, <1>4, <1>5, <1>6, <1>7, <1>8, OneNode

(* Copies appear and disappear. *)
LEMMA NetInv ==
  ASSUME RoundInv, \A m \in net' : m \in Messages /\ Good(m),
         UNCHANGED <<phase, level, round, table, tasks, given, writer, decided>>
  PROVE  RoundInv' /\ Stable
<1>1. Stable
  BY StillStable DEF RoundInv
<1>2. TypeOK' /\ BegunInv'
  BY <1>1, BegunStable DEF RoundInv, TypeOK
<1>3. \A m \in net' : Good(m)'
  BY <1>1, GoodStable
<1>4. \A n \in Nodes : RoundOK(n)' /\ LevelOK(n)' /\ GivenOK(n)' /\ \A m \in tasks'[n] : Good(m)'
  BY <1>1, OtherNode
<1> QED
  BY <1>1, <1>2, <1>3, <1>4 DEF RoundInv

LEMMA SolveInv ==
  ASSUME RoundInv, NEW n \in Nodes, Solve(n)
  PROVE  RoundInv' /\ Stable
<1>1. ASSUME NEW k \in AllKinds, NEW to, Post(n, k, to)
      PROVE  table[n] # None /\ table[n].main \in Nodes /\ table[n].conf \subseteq Nodes
  BY <1>1, InRound DEF Post
<1>2. CASE SendTransaction(n)
  <2>1. Post(n, "tx", {table[n].main}) /\ "tx" \in AllKinds
    BY <1>2 DEF SendTransaction, AllKinds
  <2>2. {table[n].main} \in SUBSET Nodes
    BY <1>1, <2>1
  <2> QED
    BY <2>1, <2>2, PostInv
<1>3. CASE SendFirstTransaction(n)
  <2>1. Post(n, "first", table[n].conf \ {n}) /\ "first" \in AllKinds /\ level[n] = "Main"
    BY <1>3 DEF SendFirstTransaction, ByConfidants, AllKinds
  <2>2. table[n].conf \ {n} \in SUBSET Nodes
    BY <1>1, <2>1
  <2> QED
    BY <2>1, <2>2, PostInv
<1>4. CASE SendVector(n)
  <2>1. Post(n, "vector", table[n].conf \ {n}) /\ "vector" \in AllKinds /\ level[n] = "Confidant"
    BY <1>4 DEF SendVector, ByConfidants, AllKinds
  <2>2. table[n].conf \ {n} \in SUBSET Nodes
    BY <1>1, <2>1
  <2> QED
    BY <2>1, <2>2, PostInv
<1>5. CASE SendMatrix(n)
  <2>1. Post(n, "matrix", table[n].conf \ {n}) /\ "matrix" \in AllKinds /\ level[n] = "Confidant"
    BY <1>5 DEF SendMatrix, ByConfidants, AllKinds
  <2>2. table[n].conf \ {n} \in SUBSET Nodes
    BY <1>1, <2>1
  <2> QED
    BY <2>1, <2>2, PostInv
<1>6. CASE SendBlock(n)
  <2>1. Post(n, "block", Nodes) /\ "block" \in AllKinds /\ level[n] = "Writer"
    BY <1>6 DEF SendBlock, AllKinds
  <2> QED
    BY <2>1, PostInv
<1>7. ASSUME NEW target \in Nodes \ {n}, SendTransactionList(n, target)
      PROVE  RoundInv' /\ Stable
  <2>1. Post(n, "list", {target}) /\ "list" \in AllKinds /\ level[n] = "Main"
    BY <1>7 DEF SendTransactionList, AllKinds
  <2> QED
    BY <2>1, PostInv
<1>8. ASSUME NEW target \in Nodes \ {n}, SendHash(n, target)
      PROVE  RoundInv' /\ Stable
  <2>1. Post(n, "hash", {target}) /\ "hash" \in AllKinds
    BY <1>8 DEF SendHash, AllKinds
  <2> QED
    BY <2>1, PostInv
<1> QED
  BY <1>2, <1>3, <1>4, <1>5, <1>6, <1>7, <1>8, SendRoundTableInv, BecomeWriterInv, InitNextRoundInv
     DEF Solve

LEMMA HandleInv ==
  ASSUME RoundInv, NEW n \in Nodes, NEW m \in net, Handle(n, m)
  PROVE  RoundInv' /\ Stable
<1>1. CASE GetRoundTable(n, m)
  BY <1>1, GetRoundTableInv
<1>2. CASE GetTransaction(n, m)
  BY <1>2, GiveInv DEF GetTransaction
<1>3. CASE GetFirstTransaction(n, m)
  BY <1>3, GiveInv DEF GetFirstTransaction
<1>4. CASE GetTransactionsList(n, m)
  BY <1>4, GiveInv DEF GetTransactionsList
<1>5. CASE GetVector(n, m)
  BY <1>5, GiveInv DEF GetVector
<1>6. CASE GetMatrix(n, m)
  BY <1>6, GiveInv DEF GetMatrix
<1>7. CASE GetBlock(n, m)
  BY <1>7, GiveInv DEF GetBlock
<1>8. CASE GetHash(n, m)
  BY <1>8, GiveInv DEF GetHash
<1> QED
  BY <1>1, <1>2, <1>3, <1>4, <1>5, <1>6, <1>7, <1>8 DEF Handle

LEMMA InvNext ==
  ASSUME Malformed = FALSE, RoundInv, [Next]_vars
  PROVE  RoundInv' /\ Stable
<1>1. CASE UNCHANGED vars
  <2>1. UNCHANGED <<phase, level, round, table, tasks, net, given, writer, decided>>
    BY <1>1 DEF vars
  <2> QED
    BY <2>1, NetInv DEF RoundInv, TypeOK
<1>2. ASSUME NEW n \in Nodes, Register(n)
      PROVE  RoundInv' /\ Stable
  BY <1>2, GetInitRingInv DEF Register, GetInitRingBadTail, GetInitRingBadHead
<1>3. ASSUME NEW n \in Nodes, Launch(n)
      PROVE  RoundInv' /\ Stable
  <2>1. /\ \A m \in net' : m \in net \/ m \in tasks[n]
        /\ UNCHANGED <<phase, level, round, table, tasks, given, writer, decided>>
    BY <1>3 DEF Launch
  <2>2. \A m \in net' : m \in Messages /\ Good(m)
    BY <2>1 DEF RoundInv, TypeOK
  <2> QED
    BY <2>1, <2>2, NetInv
<1>4. ASSUME NEW m \in net, Lose(m)
      PROVE  RoundInv' /\ Stable
  <2>1. /\ net' \subseteq net
        /\ UNCHANGED <<phase, level, round, table, tasks, given, writer, decided>>
    BY <1>4 DEF Lose
  <2>2. \A x \in net' : x \in Messages /\ Good(x)
    BY <2>1 DEF RoundInv, TypeOK
  <2> QED
    BY <2>1, <2>2, NetInv
<1> QED
  BY <1>1, <1>2, <1>3, <1>4, SolveInv, HandleInv DEF Next

LEMMA InvAlways ==
  ASSUME Malformed = FALSE
  PROVE  Spec => []RoundInv
<1>1. RoundInv /\ [Next]_vars => RoundInv'
  BY InvNext
<1> QED
  BY <1>1, InvInit, PTL DEF Spec

(* Nodes in the same round have the same table: the Writer guard of        *)
(* initNextRound and the round test of readRoundData are enough, with one  *)
(* writer a round.                                                         *)
THEOREM Agreement ==
  ASSUME Malformed = FALSE
  PROVE  Spec => []RoundAgreement
<1>1. RoundInv => RoundAgreement
  <2> SUFFICES ASSUME RoundInv, NEW n \in Nodes, NEW k \in Nodes, round[n] = round[k]
               PROVE  table[n] = table[k]
    BY DEF RoundAgreement
  <2>1. /\ RoundOK(n) /\ RoundOK(k) /\ 0 \notin Rounds
        /\ phase[n] \in {"registering", "receiving"} /\ phase[k] \in {"registering", "receiving"}
    BY SMT DEF RoundInv, TypeOK, Rounds
  <2> QED
    BY <2>1 DEF RoundOK
<1> QED
  BY <1>1, InvAlways, PTL

(* No node plays a part its round table, or the consensus, does not give it. *)
THEOREM Roles ==
  ASSUME Malformed = FALSE
  PROVE  Spec => []RoleByTable
<1>1. RoundInv => RoleByTable
  BY DEF RoundInv, LevelOK, RoleByTable
<1> QED
  BY <1>1, InvAlways, PTL

(* What a Solver is given from its own round comes from the right node. *)
THEOREM InRole ==
  ASSUME Malformed = FALSE
  PROVE  Spec => []GivenInRole
<1>1. RoundInv => GivenInRole
  <2> SUFFICES ASSUME RoundInv, NEW n \in Nodes, given[n] # None, given[n].round = round[n]
               PROVE  /\ given[n].kind \in {"first", "list"} => given[n].from = table[n].main
                      /\ given[n].kind \in {"vector", "matrix"} => given[n].from \in table[n].conf
                      /\ given[n].kind \in {"first", "vector", "matrix"} => n \in table[n].conf
                      /\ given[n].kind = "block" => given[n].from = writer[round[n]]
    BY DEF GivenInRole
  <2>1. GivenOK(n) /\ RoundOK(n)
    BY DEF RoundInv
  <2>2. table[n] = decided[given[n].round]
    BY <2>1 DEF GivenOK, RoundOK
  <2> QED
    BY <2>1, <2>2 DEF GivenOK, Good
<1> QED
  BY <1>1, InvAlways, PTL

-----------------------------------------------------------------------------
(* Whatever init data the signal server sends, also such as is taken over  *)
(* in part, the types hold and rounds only grow.                           *)
Forward == \A n \in Nodes : round'[n] >= round[n]

LEMMA ForwardTo ==
  ASSUME TypeOK, NEW n \in Nodes, NEW r \in 0..MaxRound, r > round[n],
         round' = [round EXCEPT ![n] = r]
  PROVE  Forward
<1>1. /\ \A k \in Nodes : round[k] \in Int /\ round'[k] = IF k = n THEN r ELSE round[k]
      /\ r \in Int
  BY RoundAssumption, SMT DEF TypeOK
<1> QED
  BY <1>1, SMT DEF Forward

LEMMA TypeStart ==
  ASSUME TypeOK, NEW n \in Nodes, NEW r \in 0..MaxRound, r > round[n], NEW t \in Tables \cup {None},
         NEW l \in Levels, NEW g \in Messages \cup {None},
         round' = [round EXCEPT ![n] = r], table' = [table EXCEPT ![n] = t],
         level' = [level EXCEPT ![n] = l], given' = [given EXCEPT ![n] = g],
         phase' = phase \/ phase' = [phase EXCEPT ![n] = "receiving"],
         tasks' = tasks \/ tasks' = [tasks EXCEPT ![n] = {}],
         UNCHANGED <<net, writer>>, decided' \in [Rounds -> Tables \cup {None}]
  PROVE  TypeOK' /\ Forward
<1>1. TypeOK'
  BY DEF TypeOK
<1> QED
  BY <1>1, ForwardTo

LEMMA TypeStill ==
  ASSUME TypeOK, round' = round
  PROVE  Forward
BY SMT DEF TypeOK, Forward

LEMMA TypeRegister ==
  ASSUME TypeOK, NEW n \in Nodes, Register(n)
  PROVE  TypeOK' /\ Forward
<1>0. level[n] \in Levels /\ given[n] \in Messages \cup {None} /\ Rounds \subseteq 0..MaxRound
  BY MaxRoundNat DEF TypeOK
<1>1. ASSUME NEW r \in Rounds, GetInitRing(n, r)
      PROVE  TypeOK' /\ Forward
  <2>1. /\ decided[r] \in Tables \cup {None} /\ r \in 0..MaxRound /\ r > round[n]
        /\ RoleIn(decided[r], n) \in Levels /\ decided \in [Rounds -> Tables \cup {None}]
    BY <1>0, <1>1 DEF TypeOK, GetInitRing, ReadRoundData, RoleIn, Levels
  <2> QED
    BY <1>1, <2>1, TypeStart DEF GetInitRing, OnRoundStart
<1>2. ASSUME NEW r \in Rounds, GetInitRingBadTail(n, r)
      PROVE  TypeOK' /\ Forward
  <2>1. /\ decided[r] \in Tables \cup {None} /\ r \in 0..MaxRound /\ r > round[n]
        /\ round' = [round EXCEPT ![n] = r] /\ table' = [table EXCEPT ![n] = decided[r]]
        /\ phase' = [phase EXCEPT ![n] = "receiving"]
        /\ UNCHANGED <<level, tasks, net, given, writer, decided>>
    BY <1>0, <1>2 DEF TypeOK, GetInitRingBadTail, ReadRoundData
  <2>2. TypeOK'
    BY <2>1, ZenonT(40) DEF TypeOK
  <2> QED
    BY <2>1, <2>2, ForwardTo
<1>3. CASE GetInitRingBadHead(n)
  BY <1>3, TypeStill DEF GetInitRingBadHead, TypeOK
<1> QED
  BY <1>1, <1>2, <1>3 DEF Register

LEMMA TypePost ==
  ASSUME TypeOK, NEW n \in Nodes, NEW k \in AllKinds, NEW to, table[n] # None => to \in SUBSET Nodes,
         Post(n, k, to)
  PROVE  TypeOK' /\ Forward
<1>1. Message(k, n, to) \in Messages
  BY DEF TypeOK, Post, Message, Messages
<1> QED
  BY <1>1, TypeStill DEF TypeOK, Post

LEMMA TypeSolve ==
  ASSUME TypeOK, NEW n \in Nodes, Solve(n)
  PROVE  TypeOK' /\ Forward
<1>0. /\ table[n] # None => {table[n].main} \in SUBSET Nodes /\ ByConfidants(n) \in SUBSET Nodes
      /\ Nodes \in SUBSET Nodes /\ \A target \in Nodes : {target} \in SUBSET Nodes
      /\ {"tx", "first", "list", "vector", "matrix", "block", "hash"} \subseteq AllKinds
  <2>1. table[n] # None => table[n] \in [main : Nodes, conf : SUBSET Nodes]
    BY RoundAssumption DEF TypeOK
  <2> QED
    BY <2>1 DEF ByConfidants, AllKinds
<1>1. CASE SendTransaction(n) \/ SendFirstTransaction(n) \/ SendVector(n) \/ SendMatrix(n) \/ SendBlock(n)
  BY <1>0, <1>1, TypePost
     DEF SendTransaction, SendFirstTransaction, SendVector, SendMatrix, SendBlock
<1>2. ASSUME NEW target \in Nodes, SendTransactionList(n, target) \/ SendHash(n, target)
      PROVE  TypeOK' /\ Forward
  BY <1>0, <1>2, TypePost DEF SendTransactionList, SendHash
<1>3. CASE SendRoundTable(n)
  <2>1. [kind |-> "table", from |-> n, to |-> Nodes, round |-> round[n], table |-> table[n]] \in Messages
    BY DEF TypeOK, Messages
  <2> QED
    BY <1>3, <2>1, TypeStill DEF TypeOK, SendRoundTable
<1>4. CASE BecomeWriter(n)
  <2>1. round[n] \in Rounds
    BY <1>4, SMT DEF BecomeWriter, TypeOK, Rounds
  <2> QED
    BY <1>4, <2>1, TypeStill DEF TypeOK, BecomeWriter, Levels
<1>5. ASSUME NEW t \in Tables, InitNextRound(n, t)
      PROVE  TypeOK' /\ Forward
  <2>1. round[n] + 1 \in Rounds /\ round[n] + 1 > round[n] /\ round[n] + 1 \in 0..MaxRound
    BY <1>5, RoundAssumption, SMT DEF InitNextRound, Rounds, TypeOK
  <2>2. RoleIn(t, n) \in Levels /\ [decided EXCEPT ![round[n] + 1] = t] \in [Rounds -> Tables \cup {None}]
    BY <2>1 DEF RoleIn, Levels, TypeOK
  <2> QED
    BY <1>5, <2>1, <2>2, TypeStart DEF InitNextRound, OnRoundStart
<1> QED
  BY <1>1, <1>2, <1>3, <1>4, <1>5 DEF Solve

LEMMA TypeHandle ==
  ASSUME TypeOK, NEW n \in Nodes, NEW m \in net, Handle(n, m)
  PROVE  TypeOK' /\ Forward
<1>0. m \in Messages
  BY DEF TypeOK
<1>1. CASE GetRoundTable(n, m)
  <2>1. /\ m.round \in 0..MaxRound /\ m.table \in Tables \cup {None} /\ m.round > round[n]
        /\ RoleIn(m.table, n) \in Levels /\ decided \in [Rounds -> Tables \cup {None}]
    BY <1>0, <1>1 DEF Messages, GetRoundTable, ReadRoundData, RoleIn, Levels, TypeOK
  <2> QED
    BY <1>1, <2>1, TypeStart DEF GetRoundTable, OnRoundStart
<1>2. ASSUME NEW k, Give(n, m, k), level' = level \/ level' = [level EXCEPT ![n] = "Normal"]
      PROVE  TypeOK' /\ Forward
  BY <1>0, <1>2, TypeStill DEF TypeOK, Give, Levels
<1> QED
  BY <1>1, <1>2 DEF Handle, GetTransaction, GetFirstTransaction, GetTransactionsList, GetVector,
                    GetMatrix, GetBlock, GetHash

LEMMA TypeNext ==
  ASSUME TypeOK, [Next]_vars
  PROVE  TypeOK' /\ Forward
<1>1. CASE UNCHANGED vars
  BY <1>1, TypeStill DEF TypeOK, vars
<1>2. ASSUME NEW n \in Nodes, Launch(n)
      PROVE  TypeOK' /\ Forward
  BY <1>2, TypeStill DEF TypeOK, Launch
<1>3. ASSUME NEW m \in net, Lose(m)
      PROVE  TypeOK' /\ Forward
  BY <1>3, TypeStill DEF TypeOK, Lose
<1> QED
  BY <1>1, <1>2, <1>3, TypeRegister, TypeSolve, TypeHandle DEF Next

LEMMA TypeInit == Init => TypeOK
BY InvInit DEF RoundInv

(* Type correctness, also with ill-formed init data. *)
THEOREM TypeCorrect == Spec => []TypeOK
BY TypeInit, TypeNext, PTL DEF Spec

(* No node goes back to an earlier round, whatever init data it was given  *)
(* and however late the tables come: readRoundData refuses older rounds.   *)
THEOREM Monotone == Spec => RoundsGrow
<1>1. TypeOK /\ [Next]_vars => [\A n \in Nodes : round'[n] >= round[n]]_vars
  BY TypeNext DEF Forward
<1> QED
  BY <1>1, TypeCorrect, PTL DEF Spec, RoundsGrow
=============================================================================
