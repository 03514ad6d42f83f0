----------------------------- MODULE ChainQuery -----------------------------
(***************************************************************************)
(* The reading side of Storage and of the API: walks along the stored      *)
(* chain, from its tip back, while blocks are added. A transaction has a   *)
(* source, a target and the sender's innerID, and is known by its place,   *)
(* the block's number and the position in it. One query at a time; every   *)
(* block it loads and every transaction it looks at is a step.             *)
(***************************************************************************)
EXTENDS Integers, Sequences

CONSTANTS
  Addresses,
  InnerIds,
  ChainBlocks,  \* contents a block can have
  MaxChain,     \* bound: blocks in the chain
  MaxPage,      \* bound: limits and offsets of transactions that are asked for
  MaxList       \* limit and offset to which PoolListGet cuts larger ones (100)

ASSUME QueryAssumption ==
  /\ MaxChain \in Nat /\ MaxPage \in Nat /\ MaxList \in Nat
  /\ ChainBlocks \subseteq Seq([source : Addresses, target : Addresses, inner : InnerIds])

VARIABLES
  stored,     \* the chain
  poolCache,  \* numbers of the blocks PoolListGet has converted before
  (* The query and its arguments. *)
  query, addr, limit, offset, start, innerID,
  (* Where it is. *)
  at,
  tip,        \* the block its walk began with
  pos,        \* the block it is at and the transaction in it
  sequence, it,
  (* What it has found. *)
  passed,     \* the transactions its offset has passed over
  res

asked == <<query, addr, limit, offset, start, innerID>>
counters == <<sequence, it>>
queryVars == <<stored, poolCache, asked, at, tip, pos, counters, passed, res>>

Nowhere == <<0, 0>>
NoInner == -1
Tx(x) == stored[x[1]][x[2]]
Touches(t, a) == t.source = a \/ t.target = a
InChain(x) == x[1] \in DOMAIN stored /\ x[2] \in DOMAIN stored[x[1]]

QueryInit ==
  /\ stored = <<>> /\ poolCache = {}
  /\ query = "none" /\ addr = 0 /\ limit = 0 /\ offset = 0 /\ start = Nowhere /\ innerID = NoInner
  /\ at = "idle" /\ tip = 0 /\ pos = Nowhere /\ sequence = 0 /\ it = 0
  /\ passed = <<>> /\ res = <<>>

AddBlock(blk) ==
  /\ Len(stored) < MaxChain
  /\ stored' = Append(stored, blk)
  /\ UNCHANGED <<poolCache, asked, at, tip, pos, counters, passed, res>>

-----------------------------------------------------------------------------
Smaller(a, b) == IF a < b THEN a ELSE b

Ask(q, a, lim, off, id, inner) ==
  /\ at = "idle"
  /\ query' = q /\ addr' = a /\ limit' = lim /\ offset' = off /\ start' = id /\ innerID' = inner
  /\ UNCHANGED <<stored, poolCache, counters, passed, res>>

(* pool_load(last_hash()) *)
LoadLast == tip' = Len(stored) /\ pos' = <<Len(stored), 0>>

(* Storage::transactions: seekIt refuses an offset that is not in the chain. *)
BeginTransactions(a, lim, id) ==
  /\ Ask("transactions", a, lim, 0, id, NoInner)
  /\ at' = IF id = Nowhere \/ InChain(id) THEN "test" ELSE "done"
  /\ IF InChain(id) THEN tip' = id[1] /\ pos' = id ELSE UNCHANGED <<tip, pos>>

(* get_last_by_source and get_last_by_target *)
BeginLast(end, a) == Ask(end, a, 1, 0, Nowhere, NoInner) /\ at' = "land" /\ LoadLast

(* get_from_blockchain, which begins with get_last_by_source. *)
BeginSeek(a, inner) == Ask("inner", a, 1, 0, Nowhere, inner) /\ at' = "land" /\ LoadLast

(* APIHandler::TransactionsGet *)
BeginGet(a, off, lim) == Ask("get", a, lim, off, Nowhere, NoInner) /\ at' = "land" /\ LoadLast

(* APIHandler::PoolListGet cuts what it is asked for, reads the tip, then  *)
(* the size.                                                               *)
BeginList(off, lim) ==
  /\ Ask("list", 0, Smaller(lim, MaxList), Smaller(off, MaxList), Nowhere, NoInner)
  /\ at' = "size" /\ LoadLast

Found == UNCHANGED <<stored, poolCache, addr, limit, offset, start, innerID, counters>>

(* Mutant: the first transaction of a block is passed over. *)
BackShort ==
  IF pos[2] > 2 THEN at' = "look" /\ pos' = <<pos[1], pos[2] - 1>>
  ELSE at' = "land" /\ pos' = <<pos[1] - 1, 0>>

(* One transaction back, or to the previous block. *)
Back ==
  IF pos[2] > 1 THEN at' = "look" /\ pos' = <<pos[1], pos[2] - 1>>
  ELSE at' = "land" /\ pos' = <<pos[1] - 1, 0>>

(* The loop of Storage::transactions; nextIt begins at the tip when it has *)
(* no pool.                                                                *)
Test ==
  /\ at = "test"
  /\ \/ Len(res) >= limit /\ at' = "done" /\ UNCHANGED <<tip, pos>>
     \/ Len(res) < limit /\ pos[1] = 0 /\ at' = "land" /\ LoadLast
     \/ Len(res) < limit /\ pos[1] # 0 /\ Back /\ UNCHANGED tip
  /\ Found /\ UNCHANGED <<query, passed, res>>

(* A loaded pool: none, one without transactions, or its last transaction  *)
(* is the next. Before it goes on TransactionsGet asks if it has enough.   *)
Land ==
  /\ at = "land"
  /\ \/ pos[1] = 0 /\ at' = "done" /\ UNCHANGED pos
     \/ /\ pos[1] # 0 /\ stored[pos[1]] = <<>>
        /\ IF query = "get" /\ Len(res) = limit THEN at' = "done" /\ UNCHANGED pos
           ELSE at' = "land" /\ pos' = <<pos[1] - 1, 0>>
     \/ /\ pos[1] # 0 /\ stored[pos[1]] # <<>>
        /\ at' = "look" /\ pos' = <<pos[1], Len(stored[pos[1]])>>
  /\ Found /\ UNCHANGED <<query, tip, passed, res>>

LookTransactions ==
  /\ at = "look" /\ query = "transactions"
  /\ at' = "test"
  /\ res' = IF Touches(Tx(pos), addr) THEN Append(res, pos) ELSE res
  /\ Found /\ UNCHANGED <<query, tip, pos, passed>>

LookLast ==
  /\ at = "look" /\ query \in {"source", "target"}
  /\ IF Tx(pos)[query] = addr THEN res' = <<pos>> /\ at' = "done" /\ UNCHANGED pos
     ELSE Back /\ UNCHANGED res
  /\ Found /\ UNCHANGED <<query, tip, passed>>

(* The last transaction of the source is where the search begins ... *)
LookSource ==
  /\ at = "look" /\ query = "inner"
  /\ IF Tx(pos).source = addr THEN query' = "seek" /\ UNCHANGED <<at, pos>>
     ELSE Back /\ UNCHANGED query
  /\ Found /\ UNCHANGED <<tip, passed, res>>

(* ... and whatever nextIt reaches from there. *)
LookInner ==
  /\ at = "look" /\ query = "seek"
  /\ IF Tx(pos).source = addr /\ Tx(pos).inner = innerID
     THEN res' = <<pos>> /\ at' = "done" /\ UNCHANGED pos
     ELSE Back /\ UNCHANGED res
  /\ Found /\ UNCHANGED <<query, tip, passed>>

(* TransactionsGet: the offset is counted down to zero first; whether      *)
(* enough has been found is asked after a transaction was looked at.       *)
LookGet ==
  /\ at = "look" /\ query = "get"
  /\ passed' = IF Touches(Tx(pos), addr) /\ Len(passed) < offset THEN Append(passed, pos) ELSE passed
  /\ res' = IF Touches(Tx(pos), addr) /\ Len(passed) = offset THEN Append(res, pos) ELSE res
  /\ IF Len(res') = limit THEN at' = "done" /\ UNCHANGED pos ELSE Back
  /\ Found /\ UNCHANGED <<query, tip>>

Return ==
  /\ at = "done" /\ at' = "idle"
  /\ query' = "none" /\ addr' = 0 /\ limit' = 0 /\ offset' = 0 /\ start' = Nowhere /\ innerID' = NoInner
  /\ tip' = 0 /\ pos' = Nowhere /\ sequence' = 0 /\ it' = 0
  /\ passed' = <<>> /\ res' = <<>>
  /\ UNCHANGED <<stored, poolCache>>

-----------------------------------------------------------------------------
ListSize ==
  /\ at = "size" /\ at' = "list"
  /\ sequence' = Len(stored) /\ it' = Len(stored)
  /\ UNCHANGED <<stored, poolCache, asked, tip, pos, passed, res>>

(* Mutant: the offset is left out. *)
LowerShort == sequence - Smaller(sequence, limit)

Lower == sequence - Smaller(sequence, offset + limit)

(* A block that has to be loaded is answered below the offset only; one    *)
(* that is known, always. Below the first block is an invalid pool.        *)
ListPool ==
  /\ at = "list" /\ it > Lower
  /\ res' = IF pos[1] \in poolCache \/ it <= sequence - Smaller(sequence, offset)
            THEN Append(res, pos) ELSE res
  /\ poolCache' = poolCache \cup {pos[1]}
  /\ pos' = <<IF pos[1] = 0 THEN 0 ELSE pos[1] - 1, 0>>
  /\ it' = it - 1
  /\ UNCHANGED <<stored, asked, at, tip, sequence, passed>>

ListEnd ==
  /\ at = "list" /\ ~(it > Lower) /\ at' = "done"
  /\ UNCHANGED <<stored, poolCache, asked, tip, pos, counters, passed, res>>

(* extractTransactions: positions of a page of one block. *)
Extract(b, lim, off) ==
  LET count == Len(stored[b])
      n == IF lim > count - off THEN count - off ELSE lim
  IN  IF off > count THEN <<>> ELSE [k \in 1..n |-> <<b, off + k>>]

QueryStep ==
  \/ Test \/ Land \/ LookTransactions \/ LookLast \/ LookSource \/ LookInner \/ LookGet
  \/ ListSize \/ ListPool \/ ListEnd

QueryNext ==
  \/ \E blk \in ChainBlocks : AddBlock(blk)
  \/ \E a \in Addresses :
       \/ \E lim \in 0..MaxPage :
            \/ \E id \in {Nowhere} \cup ((1..MaxChain) \X (1..MaxPage)) : BeginTransactions(a, lim, id)
            \/ \E off \in 0..MaxPage : BeginGet(a, off, lim)
       \/ BeginLast("source", a) \/ BeginLast("target", a)
       \/ \E inner \in InnerIds : BeginSeek(a, inner)
  \/ \E off, lim \in 0..(MaxList + 1) : BeginList(off, lim)
  \/ QueryStep \/ Return

QuerySpec == QueryInit /\ [][QueryNext]_queryVars

-----------------------------------------------------------------------------
(* The transactions of the first n blocks. *)
Ids(n) == UNION {{<<b, i>> : i \in 1..Len(stored[b])} : b \in 1..n}
Newer(x, y) == x[1] > y[1] \/ (x[1] = y[1] /\ x[2] > y[2])

(* What is asked for. *)
Matches(x) ==
  CASE query = "transactions" -> Touches(Tx(x), addr) /\ (start = Nowhere \/ Newer(start, x))
    [] query = "get" -> Touches(Tx(x), addr)
    [] query = "source" -> Tx(x).source = addr
    [] query = "target" -> Tx(x).target = addr
    [] OTHER -> Tx(x).source = addr /\ Tx(x).inner = innerID

Matching == {x \in Ids(tip) : Matches(x)}

Members(list) == {list[j] : j \in DOMAIN list}

(* The n newest of S, or all of them, newest first. *)
IsNewest(list, S, n) ==
  /\ Members(list) \subseteq S /\ Len(list) <= n
  /\ \A j, k \in DOMAIN list : j < k => Newer(list[j], list[k])
  /\ \A x \in S \ Members(list) : Len(list) = n /\ \A j \in DOMAIN list : Newer(list[j], x)

(* Storage::transactions returns the newest transactions of an address,    *)
(* and, given one of the chain's transactions, those before it: so pages   *)
(* that each begin at the end of the last neither skip nor repeat. The     *)
(* lookups by source, by target and by innerID find a transaction exactly  *)
(* when the chain has one, and the newest. Blocks that are added during    *)
(* the walk do not disturb it.                                             *)
StorageQueriesExact ==
  at = "done" /\ query \notin {"get", "list"} => IsNewest(res, Matching, limit)

(* With the newest transactions passed over, these are the next. *)
AddressPage ==
  at = "done" /\ query = "get" /\ limit > 0 =>
    IsNewest(passed, Matching, offset) /\ IsNewest(res, Matching \ Members(passed), limit)

(* The blocks PoolListGet is asked for, up to its cut of the limit and the *)
(* offset, end its answer, but for the invalid pools it takes along when   *)
(* blocks come between tip and size.                                       *)
ListEndsWithPage ==
  LET n == Smaller(tip, offset + limit) - Smaller(tip, offset)
  IN  at = "done" /\ query = "list" =>
        \E m \in 0..(Len(res) - n) :
          /\ \A k \in 1..n : res[m + k][1] = tip - offset - k + 1
          /\ \A j \in (m + n + 1)..Len(res) : res[j][1] = 0
          /\ sequence = tip => m + n = Len(res)

(* The API's pages of an address and of a block are the parts asked for,   *)
(* leaving aside a limit of zero in TransactionsGet; and a list of blocks  *)
(* ends with those asked for, in order and without gaps, whatever earlier  *)
(* calls have left in its cache.                                           *)
ApiPagesExact ==
  /\ AddressPage /\ ListEndsWithPage
  /\ \A b \in DOMAIN stored, off, lim \in 0..MaxPage :
       Extract(b, lim, off) =
         SubSeq([i \in DOMAIN stored[b] |-> <<b, i>>], off + 1, Smaller(Len(stored[b]), off + lim))

(* The list has only the blocks that were asked for. *)
ListIsPage ==
  at = "done" /\ query = "list" =>
    Len(res) = Smaller(tip, offset + limit) - Smaller(tip, offset)
=============================================================================
