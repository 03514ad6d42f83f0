------------------------------ MODULE Storage ------------------------------
(***************************************************************************)
(* The block store of the node: csdb::Storage with its background writer   *)
(* thread, the two BerkeleyDB files below it and the node's only writing   *)
(* path above it, BlockChain::writeLastBlock.                              *)
(*                                                                         *)
(* Three parties run concurrently: the node thread (which opens the store, *)
(* writes blocks and finally destroys the store), the writer thread, and   *)
(* the environment (crash of the process, failing database calls).         *)
(* A block is identified with its hash: two blocks of different content    *)
(* have different hashes, and the content the store looks at (previous     *)
(* hash and sequence number) is kept in meta.                              *)
(***************************************************************************)
EXTENDS Integers, Sequences, FiniteSets

CONSTANTS
  Pools,          \* blocks (their hashes) the node may ever compose
  NoHash,         \* the empty PoolHash
  MaxSeq,         \* bound: largest block sequence number
  MaxOpens,       \* bound: how often the store is opened
  MaxCrashes,     \* bound: how often the process dies
  MaxFails,       \* bound: how often a BerkeleyDB put reports an error
  MaxResaves,     \* bound: how often a block is handed to pool_save again
  MaxPending,     \* blocks the node has under way before it starts another
  EarlyWrite      \* may the node write before the writer first waits?

ASSUME StorageAssumption ==
  /\ NoHash \notin Pools
  /\ MaxSeq \in Nat /\ MaxOpens \in Nat /\ MaxCrashes \in Nat
  /\ MaxFails \in Nat /\ MaxResaves \in Nat /\ MaxPending \in Nat
  /\ EarlyWrite \in BOOLEAN

VARIABLES
  meta,         \* composed blocks: hash -> previous hash, sequence number
  blocks,       \* blockchain.db: record number (less one) -> block
  index,        \* sequence.db: hash -> sequence number
  last_hash,    \* Storage::priv::last_hash
  count_pool,   \* Storage::priv::count_pool
  write_queue,  \* Storage::priv::write_queue
  quit,         \* Storage::priv::quit
  wpc,          \* where the writer thread is in write_routine
  cpc,          \* where the node thread is in writeLastBlock / pool_save
  cur,          \* the block the node thread is saving
  curPrev,      \* the last_hash() it has read for that block
  st,           \* life cycle of the Storage object
  pos,          \* loop counter of rescan
  accepted,     \* blocks for which pool_save has returned true since opening
  budget        \* what is left of the environment bounds

dbVars == <<blocks, index>>
callVars == <<cpc, cur, curPrev>>
vars == <<meta, blocks, index, last_hash, count_pool, write_queue, quit, wpc,
          cpc, cur, curPrev, st, pos, accepted, budget>>

Seqs == 0..MaxSeq
NoSeq == -1
Hashes == Pools \cup {NoHash}
Unset == [prev |-> NoHash, seq |-> NoSeq]   \* meta of a block not composed yet

WriterStates == {"none", "start", "check", "prewait", "waiting", "woken",
                 "put", "index", "count", "link", "exited"}
CallerStates == {"idle", "size", "check", "push"}
StoreStates == {"closed", "scan", "chain", "open", "failed", "nodb",
                "quitting", "joining"}

Budget == [opens : Nat, crashes : Nat, fails : Nat, resaves : Nat]

Composed == {p \in Pools : meta[p].seq # NoSeq}

(* The writer owns write_lock from the moment it has it until wait() or exit. *)
WriterHoldsLock == wpc \in {"check", "prewait", "put", "index", "count", "link"}

-----------------------------------------------------------------------------
(* Opening: BerkeleyDB files, writer thread, then the two loops of rescan. *)

Init ==
  /\ meta = [p \in Pools |-> Unset]
  /\ blocks = [i \in Seqs |-> NoHash]
  /\ index = [p \in Pools |-> NoSeq]
  /\ last_hash = NoHash
  /\ count_pool = 0
  /\ write_queue = <<>>
  /\ quit = FALSE
  /\ wpc = "none"
  /\ cpc = "idle"
  /\ cur = NoHash
  /\ curPrev = NoHash
  /\ st = "closed"
  /\ pos = 0
  /\ accepted = {}
  /\ budget = [opens |-> MaxOpens, crashes |-> MaxCrashes, fails |-> MaxFails,
               resaves |-> MaxResaves]

(* Storage::open(path): a new Storage object; its writer thread is started *)
(* before the database has been scanned.                                   *)
Open ==
  /\ st = "closed"
  /\ budget.opens > 0
  /\ budget' = [budget EXCEPT !.opens = @ - 1]
  /\ st' = "scan"
  /\ wpc' = "start"
  /\ pos' = 0
  /\ last_hash' = NoHash
  /\ count_pool' = 0
  /\ UNCHANGED <<meta, dbVars, write_queue, quit, callVars, accepted>>

(* Any error exit of open: database not open, unreadable block, callback.  *)
OpenFails ==
  /\ st = "scan"
  /\ st' = "failed"
  /\ UNCHANGED <<meta, dbVars, last_hash, count_pool, write_queue, quit, wpc,
                 callVars, pos, accepted, budget>>

(* First loop of rescan: visit the records in order, count the existing    *)
(* ones (the cursor skips record numbers that were never written).         *)
RescanCount ==
  /\ st = "scan"
  /\ IF pos <= MaxSeq
     THEN /\ count_pool' = IF blocks[pos] # NoHash THEN count_pool + 1 ELSE count_pool
          /\ pos' = pos + 1
          /\ UNCHANGED <<last_hash, st>>
     ELSE /\ st' = "chain"
          /\ last_hash' = blocks[0]
          /\ pos' = 1
          /\ UNCHANGED count_pool
  /\ UNCHANGED <<meta, dbVars, write_queue, quit, wpc, callVars, accepted, budget>>

(* The entry als[i] of rescan: (hash, previous hash), empty for a gap. *)
PrevOf(h) == IF h = NoHash THEN NoHash ELSE meta[h].prev

InAls(i) == i <= MaxSeq /\ \E j \in i..MaxSeq : blocks[j] # NoHash

(* Mutant: the chain is followed but last_hash stays at the first block. *)
RescanChainStuck ==
  /\ st = "chain"
  /\ IF InAls(pos) /\ PrevOf(blocks[pos]) = blocks[pos - 1]
     THEN pos' = pos + 1 /\ UNCHANGED st
     ELSE st' = "open" /\ UNCHANGED pos
  /\ UNCHANGED <<meta, dbVars, last_hash, count_pool, write_queue, quit, wpc, callVars,
                 accepted, budget>>

(* Second loop of rescan: follow the chain until the first broken link. *)
RescanChain ==
  /\ st = "chain"
  /\ IF InAls(pos) /\ PrevOf(blocks[pos]) = blocks[pos - 1]
     THEN /\ last_hash' = blocks[pos]
          /\ pos' = pos + 1
          /\ UNCHANGED st
     ELSE /\ st' = "open"
          /\ UNCHANGED <<last_hash, pos>>
  /\ UNCHANGED <<meta, dbVars, count_pool, write_queue, quit, wpc, callVars,
                 accepted, budget>>

-----------------------------------------------------------------------------
(* The node thread: BlockChain::writeLastBlock, under dbLock_ throughout.  *)

(* Blocks under way: queued, or between writeLastBlock's entry and push. *)
Pending == Len(write_queue) + (IF cpc = "idle" THEN 0 ELSE 1)

(* pool.set_previous_hash(storage_.last_hash()), read without write_lock. *)
ReadLastHash(p) ==
  /\ cpc = "idle" /\ st = "open"
  /\ Pending < MaxPending
  /\ EarlyWrite \/ wpc # "start"
  /\ p \in Pools \ Composed
  /\ cur' = p
  /\ curPrev' = last_hash
  /\ cpc' = "size"
  /\ UNCHANGED <<meta, dbVars, last_hash, count_pool, write_queue, quit, wpc, st,
                 pos, accepted, budget>>

(* Mutant: the new block takes the number of the newest stored block. *)
ReadSizeOffByOne ==
  /\ cpc = "size"
  /\ count_pool \in Seqs
  /\ meta' = [meta EXCEPT ![cur] = [prev |-> curPrev,
                                   seq |-> IF count_pool = 0 THEN 0 ELSE count_pool - 1]]
  /\ cpc' = "check"
  /\ UNCHANGED <<dbVars, last_hash, count_pool, write_queue, quit, wpc, cur, curPrev,
                 st, pos, accepted, budget>>

(* pool.set_sequence(storage_.size()), then compose fixes the content. *)
ReadSizeAndCompose ==
  /\ cpc = "size"
  /\ count_pool \in Seqs
  /\ meta' = [meta EXCEPT ![cur] = [prev |-> curPrev, seq |-> count_pool]]
  /\ cpc' = "check"
  /\ UNCHANGED <<dbVars, last_hash, count_pool, write_queue, quit, wpc, cur, curPrev,
                 st, pos, accepted, budget>>

(* A composed block is handed to Storage::pool_save once more. *)
Resave(p) ==
  /\ cpc = "idle" /\ st \in {"open", "nodb"}
  /\ budget.resaves > 0
  /\ p \in accepted
  /\ budget' = [budget EXCEPT !.resaves = @ - 1]
  /\ cur' = p
  /\ cpc' = "check"
  /\ UNCHANGED <<meta, dbVars, last_hash, count_pool, write_queue, quit, wpc, curPrev,
                 st, pos, accepted>>

(* pool_save's early returns: storage not open, or the hash already in the *)
(* database (the blocks still in write_queue are not looked at).           *)
CheckPresent ==
  /\ cpc = "check"
  /\ cpc' = IF st # "open" \/ index[cur] # NoSeq THEN "idle" ELSE "push"
  /\ UNCHANGED <<meta, dbVars, last_hash, count_pool, write_queue, quit, wpc, cur,
                 curPrev, st, pos, accepted, budget>>

(* notify_one: wakes the writer only if it is waiting at this moment. *)
Notified == IF wpc = "waiting" THEN "woken" ELSE wpc

(* Mutant: pool_save forgets to notify the writer. *)
PushSilently ==
  /\ cpc = "push"
  /\ ~WriterHoldsLock
  /\ write_queue' = Append(write_queue, cur)
  /\ accepted' = accepted \cup {cur}
  /\ cpc' = "idle"
  /\ UNCHANGED <<meta, dbVars, last_hash, count_pool, quit, wpc, cur, curPrev, st, pos, budget>>

(* The critical section of pool_save: push and notify under write_lock. *)
Push ==
  /\ cpc = "push"
  /\ ~WriterHoldsLock
  /\ write_queue' = Append(write_queue, cur)
  /\ wpc' = Notified
  /\ accepted' = accepted \cup {cur}
  /\ cpc' = "idle"
  /\ UNCHANGED <<meta, dbVars, last_hash, count_pool, quit, cur, curPrev, st, pos, budget>>

-----------------------------------------------------------------------------
(* The writer thread: Storage::priv::write_routine.                        *)

WriterKeeps == UNCHANGED <<meta, quit, callVars, st, pos, accepted>>

(* unique_lock on entry: nobody else holds write_lock across steps. *)
WLock ==
  /\ wpc = "start"
  /\ wpc' = "check"
  /\ UNCHANGED <<dbVars, last_hash, count_pool, write_queue, budget>>
  /\ WriterKeeps

(* while (!quit) *)
WCheck ==
  /\ wpc = "check"
  /\ wpc' = IF quit THEN "exited" ELSE "prewait"
  /\ UNCHANGED <<dbVars, last_hash, count_pool, write_queue, budget>>
  /\ WriterKeeps

(* wait(lock) without a predicate: it sleeps whatever the queue holds. *)
WWait ==
  /\ wpc = "prewait"
  /\ wpc' = "waiting"
  /\ UNCHANGED <<dbVars, last_hash, count_pool, write_queue, budget>>
  /\ WriterKeeps

(* A spurious wakeup, which condition variables are allowed. *)
WSpurious ==
  /\ wpc = "waiting"
  /\ wpc' = "woken"
  /\ UNCHANGED <<dbVars, last_hash, count_pool, write_queue, budget>>
  /\ WriterKeeps

(* while (!write_queue.empty()) *)
AfterQueueTest(q) == IF q = <<>> THEN "check" ELSE "put"

(* Mutant: a writer woken by the destructor leaves without draining. *)
WWakeQuits ==
  /\ wpc = "woken"
  /\ wpc' = IF quit THEN "exited" ELSE AfterQueueTest(write_queue)
  /\ UNCHANGED <<dbVars, last_hash, count_pool, write_queue, budget>>
  /\ WriterKeeps

WWake ==
  /\ wpc = "woken"
  /\ wpc' = AfterQueueTest(write_queue)
  /\ UNCHANGED <<dbVars, last_hash, count_pool, write_queue, budget>>
  /\ WriterKeeps

(* DatabaseBerkeleyDB::put, first file: record seq+1 is written over. *)
WPutBlock ==
  /\ wpc = "put"
  /\ blocks' = [blocks EXCEPT ![meta[Head(write_queue)].seq] = Head(write_queue)]
  /\ wpc' = "index"
  /\ UNCHANGED <<index, last_hash, count_pool, write_queue, budget>>
  /\ WriterKeeps

(* DatabaseBerkeleyDB::put, second file: hash -> record number. *)
WPutIndex ==
  /\ wpc = "index"
  /\ index' = [index EXCEPT ![Head(write_queue)] = meta[Head(write_queue)].seq]
  /\ wpc' = "count"
  /\ UNCHANGED <<blocks, last_hash, count_pool, write_queue, budget>>
  /\ WriterKeeps

(* Mutant: put goes on to sequence.db after a failed put of the block. *)
WPutFailsGoesOn ==
  /\ wpc \in {"put", "index"}
  /\ budget.fails > 0
  /\ budget' = [budget EXCEPT !.fails = @ - 1]
  /\ wpc' = IF wpc = "put" THEN "index" ELSE "count"
  /\ UNCHANGED <<dbVars, last_hash, count_pool, write_queue>>
  /\ WriterKeeps

(* Either put reports an error: put returns false, which nobody looks at. *)
WPutFails ==
  /\ wpc \in {"put", "index"}
  /\ budget.fails > 0
  /\ budget' = [budget EXCEPT !.fails = @ - 1]
  /\ wpc' = "count"
  /\ UNCHANGED <<dbVars, last_hash, count_pool, write_queue>>
  /\ WriterKeeps

(* Mutant: the written block is not counted. *)
WCountNot ==
  /\ wpc = "count"
  /\ wpc' = "link"
  /\ UNCHANGED <<dbVars, last_hash, count_pool, write_queue, budget>>
  /\ WriterKeeps

(* ++count_pool, which size() reads without write_lock. *)
WCount ==
  /\ wpc = "count"
  /\ count_pool' = count_pool + 1
  /\ wpc' = "link"
  /\ UNCHANGED <<dbVars, last_hash, write_queue, budget>>
  /\ WriterKeeps

(* Advance last_hash if the block extends it; pop; test the queue again. *)
WLink ==
  /\ wpc = "link"
  /\ last_hash' = IF last_hash = meta[Head(write_queue)].prev
                  THEN Head(write_queue) ELSE last_hash
  /\ write_queue' = Tail(write_queue)
  /\ wpc' = AfterQueueTest(Tail(write_queue))
  /\ UNCHANGED <<dbVars, count_pool, budget>>
  /\ WriterKeeps

Writer == WLock \/ WCheck \/ WWait \/ WWake \/ WPutBlock \/ WPutIndex \/ WCount \/ WLink

-----------------------------------------------------------------------------
(* The end of a Storage object.                                            *)

(* Storage::close() drops the database; modelled for callers that close a  *)
(* quiet store, the only use in the repository.                            *)
Close ==
  /\ st = "open" /\ cpc = "idle"
  /\ write_queue = <<>>
  /\ st' = "nodb"
  /\ UNCHANGED <<meta, dbVars, last_hash, count_pool, write_queue, quit, wpc, callVars,
                 pos, accepted, budget>>

(* ~priv: quit = true, without write_lock ... *)
SetQuit ==
  /\ st \in {"open", "failed", "nodb"} /\ cpc = "idle"
  /\ quit' = TRUE
  /\ st' = "quitting"
  /\ UNCHANGED <<meta, dbVars, last_hash, count_pool, write_queue, wpc, callVars, pos,
                 accepted, budget>>

(* ... notify_one, again without the lock ... *)
NotifyQuit ==
  /\ st = "quitting"
  /\ wpc' = Notified
  /\ st' = "joining"
  /\ UNCHANGED <<meta, dbVars, last_hash, count_pool, write_queue, quit, callVars, pos,
                 accepted, budget>>

(* The object and everything in memory is gone; the two files stay. *)
Vanish ==
  /\ st' = "closed"
  /\ wpc' = "none" /\ cpc' = "idle"
  /\ cur' = NoHash /\ curPrev' = NoHash
  /\ quit' = FALSE
  /\ write_queue' = <<>>
  /\ accepted' = {}
  /\ UNCHANGED <<meta, dbVars, last_hash, count_pool, pos>>

(* ... and join, which returns once the writer has left write_routine. *)
Join ==
  /\ st = "joining" /\ wpc = "exited"
  /\ UNCHANGED budget
  /\ Vanish

(* The process dies at any point; completed puts survive in the files. *)
Crash ==
  /\ st # "closed"
  /\ budget.crashes > 0
  /\ budget' = [budget EXCEPT !.crashes = @ - 1]
  /\ Vanish

-----------------------------------------------------------------------------
Caller == \/ \E p \in Pools : ReadLastHash(p) \/ Resave(p)
          \/ ReadSizeAndCompose \/ CheckPresent \/ Push

Opening == Open \/ OpenFails \/ RescanCount \/ RescanChain

Closing == Close \/ SetQuit \/ NotifyQuit \/ Join

Next == Opening \/ Caller \/ Writer \/ WSpurious \/ WPutFails \/ Closing \/ Crash

Spec == Init /\ [][Next]_vars

(* The operating system schedules both threads: each goes on when it can.  *)
(* Nobody is obliged to write a block, to open or to destroy the store.    *)
Fairness ==
  /\ WF_vars(Writer)
  /\ WF_vars(ReadSizeAndCompose \/ CheckPresent)
  /\ SF_vars(Push)
  /\ WF_vars(RescanCount \/ RescanChain)
  /\ WF_vars(NotifyQuit \/ Join)

FairSpec == Spec /\ Fairness

-----------------------------------------------------------------------------
TypeOK ==
  /\ meta \in [Pools -> [prev : Hashes, seq : Seqs \cup {NoSeq}]]
  /\ blocks \in [Seqs -> Hashes]
  /\ index \in [Pools -> Seqs \cup {NoSeq}]
  /\ last_hash \in Hashes
  /\ count_pool \in Nat
  /\ write_queue \in Seq(Pools)
  /\ quit \in BOOLEAN
  /\ wpc \in WriterStates
  /\ cpc \in CallerStates
  /\ cur \in Hashes /\ curPrev \in Hashes
  /\ st \in StoreStates
  /\ pos \in Nat
  /\ accepted \in SUBSET Pools
  /\ budget \in Budget

-----------------------------------------------------------------------------
(* Safety.                                                                 *)

(* sequence.db never points at a record that was not written: whatever     *)
(* crashes, failed puts and overlapping writes happen, DatabaseBerkeleyDB:: *)
(* put has written the block before it writes the hash (pool_load of an    *)
(* indexed hash finds a record).                                           *)
IndexPointsToRecord ==
  \A p \in Pools : index[p] # NoSeq => blocks[index[p]] # NoHash

(* A block has a larger sequence number than the block it names as its     *)
(* predecessor, however many blocks are under way: write_routine counts a  *)
(* block before it makes it last_hash and writeLastBlock reads last_hash   *)
(* before size, all without a common lock.                                 *)
SequenceGrows ==
  \A p \in Composed : meta[p].prev # NoHash => meta[meta[p].prev].seq < meta[p].seq

(* No put has reported an error so far. *)
NoPutFailed == budget.fails = MaxFails

(* Record i is the block with sequence i and names record i-1 as its       *)
(* predecessor.                                                            *)
Linked ==
  \A i \in Seqs : blocks[i] # NoHash =>
    /\ meta[blocks[i]].seq = i
    /\ IF i = 0 THEN meta[blocks[i]].prev = NoHash
       ELSE blocks[i - 1] # NoHash /\ meta[blocks[i]].prev = blocks[i - 1]

(* blockchain.db holds one unbroken hash chain until a put fails. Holds    *)
(* while the node waits for a block to be written before it composes the   *)
(* next one.                                                               *)
ChainLinked == NoPutFailed => Linked

(* An open, quiet store knows its own contents until a put fails: size()   *)
(* is the number of records, they are 0..size-1, and last_hash() is the    *)
(* newest of them, after any number of restarts through rescan.            *)
TipCurrent ==
  NoPutFailed /\ st = "open" /\ Pending = 0 =>
    /\ \A i \in Seqs : blocks[i] # NoHash <=> i < count_pool
    /\ last_hash = IF count_pool = 0 THEN NoHash ELSE blocks[count_pool - 1]

(* pool_load(last_hash()) returns the block whose hash is last_hash(): the *)
(* walk over the chain that every reader makes can start.                  *)
TipLoadable ==
  st = "open" /\ last_hash # NoHash =>
    index[last_hash] # NoSeq /\ blocks[index[last_hash]] = last_hash

(* Destroying the store loses nothing: when ~priv joins the writer, every  *)
(* block pool_save accepted is in the database. Holds while no block is    *)
(* saved before the writer has reached its first wait.                     *)
ShutdownKeepsAccepted ==
  st = "joining" /\ wpc = "exited" => \A p \in accepted : index[p] # NoSeq

(* size() is the number of pools in the storage (storage.h:116), for an    *)
(* open store in which nothing is under way.                               *)
SizeIsPoolCount ==
  st = "open" /\ Pending = 0 => count_pool = Cardinality({i \in Seqs : blocks[i] # NoHash})

(* Once save() has returned true, last_hash() is the saved block (the unit *)
(* test MultiPoolOneCurrency asserts it after every save).                 *)
SavedIsLastHash ==
  st = "open" /\ cpc = "idle" /\ cur \in accepted => last_hash = cur

-----------------------------------------------------------------------------
(* Liveness.                                                               *)

(* Every block pool_save accepts is eventually found by its hash. *)
AcceptedWritten ==
  \A p \in Pools : p \in accepted ~> index[p] # NoSeq

(* Destroying a Storage object terminates: ~priv's join returns. *)
ShutdownCompletes == st = "quitting" ~> st = "closed"

-----------------------------------------------------------------------------
(* The durable history as an append-only ledger. *)

(* The records 0, 1, ... of such a file up to the first hole. *)
Prefix(file, n) ==
  /\ \A i \in 0..(n - 1) : file[i] # NoHash
  /\ n = MaxSeq + 1 \/ file[n] = NoHash

HistoryOf(file) ==
  LET n == CHOOSE k \in 0..(MaxSeq + 1) : Prefix(file, k)
  IN  [i \in 1..n |-> file[i - 1]]

History == HistoryOf(blocks)

L == INSTANCE Ledger WITH Blocks <- Pools, chain <- History

(* blockchain.db implements the append-only ledger: the stored history is  *)
(* never rewritten, shortened or given the same block twice, by writes,    *)
(* failing puts, crashes or restarts. Holds while the node writes one      *)
(* block at a time.                                                        *)
ImplementsLedger == L!Spec
=============================================================================
