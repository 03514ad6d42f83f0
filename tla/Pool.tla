-------------------------------- MODULE Pool --------------------------------
(***************************************************************************)
(* The life of a csdb::Pool: a mutable block that caches its bytes and its *)
(* hash, becomes read-only when it is composed, is sent and saved, and is  *)
(* read back. One object is operated on; saved copies wait in Storage's    *)
(* queue and become records.                                               *)
(*                                                                         *)
(* head stands for the fields that are set under the same guard (sequence, *)
(* previous hash, writer's key, user fields). Encoding and hashing are     *)
(* taken to be injective. A transaction that is added has no id yet. The   *)
(* cached count of transactions is left out.                               *)
(***************************************************************************)
EXTENDS Naturals, Sequences, FiniteSets

CONSTANTS
  Heads,      \* values of the header fields
  Trans,      \* valid transactions
  MaxTrans,   \* bound: transactions in a pool
  MaxRecords, \* bound: records and copies waiting to become one
  NoBytes     \* an empty binary_representation_

Contents == [head : Heads, txs : Seq(Trans), signed : BOOLEAN]

ASSUME PoolAssumption ==
  MaxTrans \in Nat /\ MaxRecords \in Nat /\ Heads # {} /\ NoBytes \notin Contents

VARIABLES
  pool,     \* the object
  queue,    \* Storage's write_queue
  records,  \* blocks on disk: [key, bytes]
  wire      \* what was last sent

poolVars == <<pool, queue, records, wire>>

EmptyHash == <<>>
Hash(b) == <<b>>
NoId == <<>>

Content(p) == [head |-> p.head, txs |-> p.txs, signed |-> p.signed]

(* update_transactions: the hash of the bytes, and an id for everything. *)
Frozen(p, b) ==
  [p EXCEPT !.readOnly = TRUE, !.bytes = b, !.hash = Hash(b),
            !.ids = [i \in DOMAIN p.txs |-> <<Hash(b), i>>]]

ComposedPool(p) == IF p.readOnly \/ ~p.valid THEN p ELSE Frozen(p, Content(p))

(* hash() fills the cache, with the hash of no bytes if need be. *)
Hashed(p) == IF p.hash = EmptyHash THEN [p EXCEPT !.hash = Hash(p.bytes)] ELSE p

(* What get reads out of the bytes of a block. *)
Parsed(b) ==
  [valid |-> TRUE, readOnly |-> FALSE, hash |-> EmptyHash, head |-> b.head, txs |-> b.txs,
   signed |-> b.signed, bytes |-> b, ids |-> [i \in DOMAIN b.txs |-> NoId]]

Fresh(h, v) ==
  [valid |-> v, readOnly |-> FALSE, hash |-> EmptyHash, head |-> h, txs |-> <<>>,
   signed |-> FALSE, bytes |-> NoBytes, ids |-> <<>>]

PoolInit ==
  /\ pool = Fresh(CHOOSE h \in Heads : TRUE, FALSE)
  /\ queue = <<>> /\ records = {} /\ wire = NoBytes

New(h) == pool' = Fresh(h, TRUE) /\ UNCHANGED <<queue, records, wire>>

(* set_sequence, set_previous_hash, set_writer_public_key, add_user_field. *)
WithHead(p, h) == IF p.readOnly THEN p ELSE [p EXCEPT !.valid = TRUE, !.head = h]

SetHead(h) == pool' = WithHead(pool, h) /\ UNCHANGED <<queue, records, wire>>

(* Mutant: a composed pool still takes transactions. *)
AddTransactionAlways(t) ==
  /\ Len(pool.txs) < MaxTrans
  /\ pool' = [pool EXCEPT !.txs = Append(@, t), !.ids = Append(@, <<pool.hash, Len(pool.txs) + 1>>)]
  /\ UNCHANGED <<queue, records, wire>>

AddTransaction(t) ==
  /\ ~pool.readOnly /\ Len(pool.txs) < MaxTrans
  /\ pool' = [pool EXCEPT !.txs = Append(@, t), !.ids = Append(@, NoId)]
  /\ UNCHANGED <<queue, records, wire>>

(* clear and sign do not look at read_only_. *)
Clear == pool' = [pool EXCEPT !.txs = <<>>, !.ids = <<>>] /\ UNCHANGED <<queue, records, wire>>
Sign == pool' = [pool EXCEPT !.signed = TRUE] /\ UNCHANGED <<queue, records, wire>>

Compose == pool' = ComposedPool(pool) /\ UNCHANGED <<queue, records, wire>>
PoolHash == pool' = Hashed(pool) /\ UNCHANGED <<queue, records, wire>>

(* Mutant: the bytes are always written anew. *)
StreamedAnew(p) == [p EXCEPT !.bytes = Content(p)]

(* to_byte_stream fills the cache and never renews it. *)
Streamed(p) == IF p.bytes = NoBytes THEN [p EXCEPT !.bytes = Content(p)] ELSE p

Send ==
  /\ pool' = Streamed(pool)
  /\ wire' = Streamed(pool).bytes
  /\ UNCHANGED <<queue, records>>

Room == Cardinality(records) + Len(queue) < MaxRecords

(* pool_save refuses what is there, and keeps a copy of the rest. *)
Enqueue(p) ==
  IF p.valid /\ ~\E r \in records : r.key = Hashed(p).hash
  THEN Room /\ queue' = Append(queue, Hashed(p))
  ELSE queue' = queue

Save ==
  /\ pool' = (IF pool.valid THEN Hashed(pool) ELSE pool)
  /\ Enqueue(pool)
  /\ UNCHANGED <<records, wire>>

(* BlockChain::writeLastBlock: set_storage makes the pool valid. *)
WriteLastBlock(h) ==
  LET p == ComposedPool(WithHead([pool EXCEPT !.valid = TRUE], h)) IN
  /\ pool' = p
  /\ Enqueue(p)
  /\ UNCHANGED <<records, wire>>

(* Mutant: the writer trusts the hash the pool came with. *)
WriteNoCompose ==
  /\ queue # <<>>
  /\ records' = records \cup {[key |-> Head(queue).hash, bytes |-> Content(Head(queue))]}
  /\ queue' = Tail(queue)
  /\ UNCHANGED <<pool, wire>>

(* One round of write_routine. *)
Write ==
  /\ queue # <<>>
  /\ LET p == ComposedPool(Head(queue))
     IN  records' = records \cup {[key |-> p.hash, bytes |-> p.bytes]}
  /\ queue' = Tail(queue)
  /\ UNCHANGED <<pool, wire>>

(* from_binary, for a pool that is loaded; from_lz4_byte_stream, for one   *)
(* that arrives, which leaves it open to changes.                          *)
Load == \E r \in records : pool' = Frozen(Parsed(r.bytes), r.bytes) /\ UNCHANGED <<queue, records, wire>>

Arrive ==
  /\ wire # NoBytes
  /\ pool' = Hashed(Parsed(wire))
  /\ UNCHANGED <<queue, records, wire>>

PoolNext ==
  \/ \E h \in Heads : New(h) \/ SetHead(h) \/ WriteLastBlock(h)
  \/ \E t \in Trans : AddTransaction(t)
  \/ Clear \/ Sign \/ Compose \/ PoolHash \/ Send \/ Save \/ Write \/ Load \/ Arrive

PoolSpec == PoolInit /\ [][PoolNext]_poolVars

-----------------------------------------------------------------------------
(* A record lies under the hash of its bytes, whatever was saved: composed *)
(* or not, received, hashed or streamed before and changed since.          *)
RecordsKeyed == \A r \in records : r.key = Hash(r.bytes) /\ r.bytes # NoBytes

(* Whatever is done with a composed pool, its bytes and its hash stay, so  *)
(* what is sent is what is saved, until another block takes its place.     *)
ComposedFrozen ==
  [][pool.readOnly /\ pool'.readOnly /\ ~Load
       => pool'.bytes = pool.bytes /\ pool'.hash = pool.hash]_poolVars

(* A transaction id leads to its transaction: in the pool that gave it,    *)
(* and in the record that is stored under the id's hash.                   *)
IdsLocate ==
  \A i \in DOMAIN pool.ids :
    pool.ids[i] # NoId =>
      /\ pool.ids[i] = <<pool.hash, i>>
      /\ \A r \in records : r.key = pool.hash =>
           i \in DOMAIN r.bytes.txs /\ r.bytes.txs[i] = pool.txs[i]

(* save() takes composed pools only. *)
UncomposedRefused == \A i \in DOMAIN queue : queue[i].readOnly

(* What is sent is what the pool holds. *)
SentCurrent == [][Send => wire' = Content(pool)]_poolVars
=============================================================================
