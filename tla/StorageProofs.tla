--------------------------- MODULE StorageProofs ---------------------------
(***************************************************************************)
(* Proofs about Storage, for every set of blocks and all bounds on         *)
(* crashes, restarts and failed puts; among them that blockchain.db        *)
(* implements Ledger.                                                      *)
(***************************************************************************)
EXTENDS Storage, TLAPS

USE Zenon

(* Facts about sequences. *)
LEMMA SeqEqual ==
  ASSUME NEW S, NEW s \in Seq(S), NEW t \in Seq(S), Len(s) = Len(t), \A i \in 1..Len(s) : s[i] = t[i]
  PROVE  s = t
BY SMT

LEMMA AppendProperties ==
  ASSUME NEW S, NEW s \in Seq(S), NEW x \in S
  PROVE  /\ Append(s, x) \in Seq(S) /\ Len(Append(s, x)) = Len(s) + 1
         /\ \A i \in 1..Len(s) : Append(s, x)[i] = s[i]
         /\ Append(s, x)[Len(s) + 1] = x
BY SMT

(* The writer dereferences write_queue.front() in these states. *)
Draining == wpc \in {"put", "index", "count", "link"}

(* Everything queued was accepted, everything accepted has been composed,  *)
(* and a store that is not open yet has neither.                           *)
QueueInv ==
  /\ Draining => write_queue # <<>>
  /\ \A i \in 1..Len(write_queue) : write_queue[i] \in accepted
  /\ accepted \subseteq Composed
  /\ cpc \in {"check", "push"} => cur \in Composed
  /\ cpc = "size" => cur \in Pools /\ cur \notin Composed
  /\ st \in {"closed", "scan", "chain", "failed"} =>
       write_queue = <<>> /\ accepted = {} /\ cpc = "idle"
  /\ st \in {"quitting", "joining"} => cpc = "idle"

BaseInv == TypeOK /\ QueueInv

USE StorageAssumption DEF Seqs, NoSeq, Hashes, Unset, Composed

(* Spending one unit of a bound leaves a budget. *)
LEMMA BudgetSpent ==
  ASSUME NEW b \in Budget
  PROVE  /\ b.opens > 0 => [b EXCEPT !.opens = @ - 1] \in Budget
         /\ b.crashes > 0 => [b EXCEPT !.crashes = @ - 1] \in Budget
         /\ b.fails > 0 => [b EXCEPT !.fails = @ - 1] \in Budget
         /\ b.resaves > 0 => [b EXCEPT !.resaves = @ - 1] \in Budget
<1>1. b.opens > 0 => [b EXCEPT !.opens = @ - 1] \in Budget
  BY SMT DEF Budget
<1>2. b.crashes > 0 => [b EXCEPT !.crashes = @ - 1] \in Budget
  BY SMT DEF Budget
<1>3. b.fails > 0 => [b EXCEPT !.fails = @ - 1] \in Budget
  BY SMT DEF Budget
<1>4. b.resaves > 0 => [b EXCEPT !.resaves = @ - 1] \in Budget
  BY SMT DEF Budget
<1> QED
  BY <1>1, <1>2, <1>3, <1>4

LEMMA BaseInit == Init => BaseInv
<1> SUFFICES ASSUME Init PROVE BaseInv
  OBVIOUS
<1>1. meta \in [Pools -> [prev : Hashes, seq : Seqs \cup {NoSeq}]]
  BY DEF Init
<1>2. budget \in Budget
  BY DEF Init, Budget
<1>3. TypeOK
  BY <1>1, <1>2, SMT DEF Init, TypeOK, WriterStates, CallerStates, StoreStates
<1>4. QueueInv
  BY SMT DEF Init, QueueInv, Draining
<1> QED
  BY <1>3, <1>4 DEF BaseInv

(* Each action preserves BaseInv; the groups follow the disjuncts of Next. *)
LEMMA BaseOpening == BaseInv /\ Opening => BaseInv'
<1> SUFFICES ASSUME BaseInv, Opening PROVE BaseInv'
  OBVIOUS
<1> USE DEF BaseInv, TypeOK, QueueInv, Draining, WriterStates, CallerStates, StoreStates,
            dbVars, callVars
<1>1. CASE Open
  BY <1>1, BudgetSpent DEF Open
<1>2. CASE OpenFails
  BY <1>2 DEF OpenFails
<1>3. CASE RescanCount
  BY <1>3, SMT DEF RescanCount
<1>4. CASE RescanChain
  BY <1>4, SMT DEF RescanChain, InAls
<1> QED
  BY <1>1, <1>2, <1>3, <1>4 DEF Opening

LEMMA BaseCaller == BaseInv /\ Caller => BaseInv'
<1> SUFFICES ASSUME BaseInv, Caller PROVE BaseInv'
  OBVIOUS
<1> USE DEF BaseInv, TypeOK, QueueInv, Draining, WriterStates, CallerStates, StoreStates,
            dbVars, callVars
<1>1. ASSUME NEW p \in Pools, ReadLastHash(p) PROVE BaseInv'
  BY <1>1 DEF ReadLastHash
<1>2. ASSUME NEW p \in Pools, Resave(p) PROVE BaseInv'
  BY <1>2, BudgetSpent, ZenonT(40) DEF Resave
<1>3. CASE ReadSizeAndCompose
  BY <1>3, SMT DEF ReadSizeAndCompose
<1>4. CASE CheckPresent
  BY <1>4, SMT DEF CheckPresent
<1>5. CASE Push
  BY <1>5, SMT DEF Push, Notified, WriterHoldsLock
<1> QED
  BY <1>1, <1>2, <1>3, <1>4, <1>5 DEF Caller

LEMMA BaseWriter == BaseInv /\ (Writer \/ WSpurious \/ WPutFails) => BaseInv'
<1> SUFFICES ASSUME BaseInv, Writer \/ WSpurious \/ WPutFails PROVE BaseInv'
  OBVIOUS
<1> USE DEF BaseInv, TypeOK, QueueInv, Draining, WriterStates, CallerStates, StoreStates,
            dbVars, callVars, WriterKeeps
<1>1. CASE WLock \/ WCheck \/ WWait \/ WSpurious \/ WWake
  BY <1>1, SMT DEF WLock, WCheck, WWait, WSpurious, WWake, AfterQueueTest
<1>2. CASE WPutBlock
  BY <1>2, SMT DEF WPutBlock
<1>3. CASE WPutIndex
  BY <1>3 DEF WPutIndex
<1>4. CASE WPutFails
  BY <1>4, BudgetSpent, ZenonT(40) DEF WPutFails
<1>6. CASE WCount
  BY <1>6, SMT DEF WCount
<1>5. CASE WLink
  BY <1>5, SMT DEF WLink, AfterQueueTest
<1> QED
  BY <1>1, <1>2, <1>3, <1>4, <1>5, <1>6 DEF Writer

LEMMA BaseClosing == BaseInv /\ (Closing \/ Crash) => BaseInv'
<1> SUFFICES ASSUME BaseInv, Closing \/ Crash PROVE BaseInv'
  OBVIOUS
<1> USE DEF BaseInv, TypeOK, QueueInv, Draining, WriterStates, CallerStates, StoreStates,
            dbVars, callVars
<1>1. CASE Close
  BY <1>1 DEF Close
<1>2. CASE SetQuit
  BY <1>2 DEF SetQuit
<1>3. CASE NotifyQuit
  BY <1>3 DEF NotifyQuit, Notified
<1>4. ASSUME Vanish, budget' \in Budget PROVE BaseInv'
  <2>0. <<>> \in Seq(Pools) /\ {} \in SUBSET Pools
    BY SMT
  <2>1. TypeOK'
    BY <1>4, <2>0 DEF Vanish
  <2>2. QueueInv'
    BY <1>4, SMT DEF Vanish
  <2> QED
    BY <2>1, <2>2
<1>5. CASE Join \/ Crash
  BY <1>4, <1>5, BudgetSpent DEF Join, Crash
<1> QED
  BY <1>1, <1>2, <1>3, <1>4, <1>5 DEF Closing

LEMMA BaseStep == BaseInv /\ [Next]_vars => BaseInv'
<1> SUFFICES ASSUME BaseInv, [Next]_vars PROVE BaseInv'
  OBVIOUS
<1>1. CASE UNCHANGED vars
  BY <1>1 DEF vars, BaseInv, TypeOK, QueueInv, Draining
<1> QED
  BY <1>1, BaseOpening, BaseCaller, BaseWriter, BaseClosing DEF Next

LEMMA BaseAlways == Spec => []BaseInv
BY BaseInit, BaseStep, PTL DEF Spec

(* Storage's variables keep their types: in particular front() and pop()   *)
(* are only reached with a non-empty queue, and every queued block has the *)
(* sequence number that DatabaseBerkeleyDB::put needs.                     *)
THEOREM TypeCorrect == Spec => []TypeOK
BY BaseAlways, PTL DEF BaseInv

(* The bound on failed puts only falls, so as long as it has not, no put   *)
(* has failed.                                                             *)
LEMMA FailsStep ==
  ASSUME BaseInv, [Next]_vars
  PROVE  budget'.fails <= budget.fails /\ (WPutFails => budget'.fails < budget.fails)
<1>1. CASE WPutFails
  BY <1>1, SMTT(30) DEF WPutFails, BaseInv, TypeOK, Budget
<1>2. CASE Next /\ ~WPutFails
  <2>1. budget'.fails = budget.fails
    BY <1>2 DEF Next, Opening, Open, OpenFails, RescanCount, RescanChain, Caller, ReadLastHash, Resave,
      ReadSizeAndCompose, CheckPresent, Push, Writer, WLock, WCheck, WWait, WSpurious, WWake, WPutBlock, WPutIndex,
      WCount, WLink, Closing, Close, SetQuit, NotifyQuit, Join, Crash, BaseInv, TypeOK, Budget
  <2> QED
    BY <1>2, <2>1, SMT DEF BaseInv, TypeOK, Budget
<1>3. CASE UNCHANGED vars
  <2>1. budget' = budget /\ wpc' = wpc
    BY <1>3 DEF vars
  <2>2. ~WPutFails
    BY <2>1 DEF WPutFails
  <2> QED
    BY <2>1, <2>2, SMT DEF BaseInv, TypeOK, Budget
<1> QED
  BY <1>1, <1>2, <1>3

FailsBound == budget.fails <= MaxFails

LEMMA FailsAlways == Spec => []FailsBound
<1>1. Init => FailsBound
  BY SMT DEF Init, FailsBound
<1>2. BaseInv /\ FailsBound /\ [Next]_vars => FailsBound'
  <2> SUFFICES ASSUME BaseInv, FailsBound, [Next]_vars PROVE FailsBound'
    OBVIOUS
  <2>1. budget.fails \in Nat /\ budget'.fails \in Nat /\ budget'.fails <= budget.fails
    BY FailsStep, BaseStep DEF BaseInv, TypeOK, Budget
  <2> QED
    BY <2>1, SMT DEF FailsBound
<1> QED
  BY <1>1, <1>2, BaseAlways, PTL DEF Spec

LEMMA FailsCount ==
  BaseInv /\ FailsBound /\ [Next]_vars /\ NoPutFailed' => NoPutFailed /\ ~WPutFails
<1> SUFFICES ASSUME BaseInv, FailsBound, [Next]_vars, NoPutFailed' PROVE NoPutFailed /\ ~WPutFails
  OBVIOUS
<1>1. budget.fails \in Nat /\ budget.fails <= MaxFails /\ budget'.fails = MaxFails
  BY DEF BaseInv, TypeOK, Budget, FailsBound, NoPutFailed
<1>2. budget'.fails <= budget.fails /\ (WPutFails => budget'.fails < budget.fails)
  BY FailsStep
<1> QED
  BY <1>1, <1>2, SMT DEF NoPutFailed

-----------------------------------------------------------------------------
(* sequence.db never runs ahead of blockchain.db. *)

IndexInv ==
  /\ IndexPointsToRecord
  /\ wpc = "index" => blocks[meta[Head(write_queue)].seq] # NoHash

(* The front of the queue is a composed block, so its record exists. *)
LEMMA FrontComposed ==
  ASSUME BaseInv, Draining
  PROVE  /\ Head(write_queue) \in accepted /\ Head(write_queue) \in Pools
         /\ meta[Head(write_queue)].seq \in Seqs
BY SMT DEF BaseInv, TypeOK, QueueInv

LEMMA IndexStep == BaseInv /\ IndexInv /\ [Next]_vars => IndexInv'
<1> SUFFICES ASSUME BaseInv, IndexInv, [Next]_vars PROVE IndexInv'
  OBVIOUS
<1> USE DEF BaseInv, TypeOK, QueueInv, IndexInv, IndexPointsToRecord, dbVars, callVars
<1>1. CASE Opening
  BY <1>1 DEF Opening, Open, OpenFails, RescanCount, RescanChain
<1>2. CASE Caller
  <2>1. CASE ReadSizeAndCompose
    BY <2>1, FrontComposed DEF ReadSizeAndCompose, Draining
  <2>2. CASE Push
    BY <2>2 DEF Push, Notified, WriterHoldsLock
  <2> QED
    BY <1>2, <2>1, <2>2 DEF Caller, ReadLastHash, Resave, CheckPresent
<1>3. CASE WPutBlock
  BY <1>3, FrontComposed DEF WPutBlock, WriterKeeps, Draining
<1>4. CASE WPutIndex
  BY <1>4, FrontComposed DEF WPutIndex, WriterKeeps, Draining
<1>5. CASE WLock \/ WCheck \/ WWait \/ WSpurious \/ WWake \/ WPutFails \/ WCount \/ WLink
  BY <1>5 DEF WLock, WCheck, WWait, WSpurious, WWake, WPutFails, WCount, WLink,
              AfterQueueTest, WriterKeeps
<1>6. CASE Closing \/ Crash
  BY <1>6 DEF Closing, Close, SetQuit, NotifyQuit, Notified, Join, Crash, Vanish
<1>7. CASE UNCHANGED vars
  BY <1>7 DEF vars
<1> QED
  BY <1>1, <1>2, <1>3, <1>4, <1>5, <1>6, <1>7 DEF Next, Writer

(* An indexed hash always leads to a written record, whatever overlapping  *)
(* writes, failed puts, crashes and restarts came before.                  *)
THEOREM IndexSafe == Spec => []IndexPointsToRecord
<1>1. Init => IndexInv
  BY DEF Init, IndexInv, IndexPointsToRecord
<1> QED
  BY <1>1, BaseAlways, IndexStep, PTL DEF Spec, IndexInv

-----------------------------------------------------------------------------
(* Sequence numbers grow along the chain. *)

(* A block that may be named as a predecessor has been counted already. *)
Counted(h) == h # NoHash => h \in Composed /\ meta[h].seq < count_pool

(* The first record exists as soon as anything has been written. *)
FileInv ==
  /\ \A i \in Seqs : blocks[i] # NoHash => blocks[i] \in Composed /\ meta[blocks[i]].seq = i
  /\ blocks[0] = NoHash => \A i \in Seqs : blocks[i] = NoHash
  /\ count_pool > 0 => blocks[0] # NoHash
  /\ wpc \in {"index", "count", "link"} => blocks[0] # NoHash
  /\ \A p \in Composed : meta[p].seq > 0 => blocks[0] # NoHash

(* The records 0..i, if they all exist, have been counted. *)
PrefixCounted(n) ==
  \A i \in Seqs : i < n /\ (\A j \in 0..i : blocks[j] # NoHash) => i < count_pool

ScanInv ==
  /\ st = "scan" => pos <= MaxSeq + 1 /\ PrefixCounted(pos)
  /\ st = "chain" => /\ pos - 1 \in Seqs /\ PrefixCounted(MaxSeq + 1)
                     /\ blocks[0] # NoHash => \A j \in 0..(pos - 1) : blocks[j] # NoHash

CountInv ==
  /\ Counted(last_hash)
  /\ cpc = "size" => Counted(curPrev)
  /\ \A p \in accepted : meta[p].seq <= count_pool
  /\ cpc \in {"check", "push"} => meta[cur].seq <= count_pool
  /\ wpc = "link" => meta[Head(write_queue)].seq < count_pool

GrowInv ==
  /\ SequenceGrows
  /\ \A p \in Composed : meta[p].prev # NoHash => meta[p].prev \in Composed

SeqInv == FileInv /\ ScanInv /\ CountInv /\ GrowInv

LEMMA SeqOpening == BaseInv /\ SeqInv /\ Opening => SeqInv'
<1> SUFFICES ASSUME BaseInv, SeqInv, Opening PROVE SeqInv'
  OBVIOUS
<1> USE DEF BaseInv, TypeOK, QueueInv, SeqInv, FileInv, ScanInv, CountInv, GrowInv,
            SequenceGrows, Counted, PrefixCounted, dbVars, callVars
<1>1. CASE Open
  BY <1>1, SMTT(30) DEF Open, Budget
<1>2. CASE OpenFails
  BY <1>2 DEF OpenFails
<1>3. CASE RescanCount /\ pos <= MaxSeq
  <2>1. /\ UNCHANGED <<meta, blocks, index, last_hash, wpc, cpc, cur, curPrev, st, accepted,
                       write_queue, budget>>
        /\ pos' = pos + 1 /\ st = "scan"
        /\ count_pool' = IF blocks[pos] # NoHash THEN count_pool + 1 ELSE count_pool
    BY <1>3 DEF RescanCount
  <2>2. pos \in Seqs /\ count_pool \in Nat /\ count_pool' \in Nat /\ count_pool <= count_pool'
    BY <2>1, <1>3, SMT
  <2>3. ScanInv'
    <3> SUFFICES ASSUME NEW i \in Seqs, i < pos + 1, \A j \in 0..i : blocks[j] # NoHash
                 PROVE  i < count_pool'
      BY <2>1, <1>3, SMT
    <3>0. PrefixCounted(pos)
      BY <2>1
    <3> HIDE DEF BaseInv, TypeOK, QueueInv, SeqInv, FileInv, ScanInv, CountInv, GrowInv
    <3>1. CASE i < pos
      BY <2>2, <3>0, <3>1, SMT
    <3>2. CASE i = pos
      <4>1. count_pool' = count_pool + 1
        BY <2>1, <2>2, <3>2, SMT
      <4>2. CASE i > 0
        <5>1. /\ i - 1 \in Seqs /\ i - 1 < pos
              /\ \A j \in 0..(i - 1) : blocks[j] # NoHash
          BY <2>2, <3>2, <4>2, SMT
        <5>2. i - 1 < count_pool
          BY <3>0, <5>1
        <5> QED
          BY <2>2, <4>1, <5>2, SMT
      <4> QED
        BY <2>2, <4>1, <4>2, SMT
    <3> QED
      BY <2>2, <3>1, <3>2, SMT
  <2>4. FileInv'
    <3>1. count_pool' > 0 => blocks[0] # NoHash
      BY <2>1, <2>2
    <3> QED
      BY <2>1, <3>1
  <2>5. CountInv'
    <3>1. Counted(last_hash)'
      BY <2>1, <2>2, SMT
    <3>2. cpc = "idle" /\ accepted = {} /\ write_queue = <<>> /\ wpc # "link"
      BY <2>1 DEF Draining
    <3> QED
      BY <2>1, <3>1, <3>2
  <2>6. GrowInv'
    BY <2>1
  <2> QED
    BY <2>3, <2>4, <2>5, <2>6
<1>4. CASE RescanCount /\ ~(pos <= MaxSeq)
  <2>1. /\ UNCHANGED <<meta, blocks, index, count_pool, wpc, cpc, cur, curPrev, accepted,
                       write_queue, budget>>
        /\ last_hash' = blocks[0] /\ pos' = 1 /\ st' = "chain" /\ pos = MaxSeq + 1
        /\ st = "scan"
    BY <1>4, SMT DEF RescanCount
  <2>2. Counted(last_hash)'
    <3>1. blocks[0] # NoHash => blocks[0] \in Composed /\ meta[blocks[0]].seq = 0
      BY SMT
    <3>2. blocks[0] # NoHash => 0 < count_pool
      <4>1. PrefixCounted(MaxSeq + 1) /\ 0 \in Seqs /\ 0 < MaxSeq + 1
        BY <2>1, SMT
      <4>2. blocks[0] # NoHash => \A j \in 0..0 : blocks[j] # NoHash
        BY SMT
      <4> HIDE DEF BaseInv, SeqInv
      <4> QED
        BY <4>1, <4>2
    <3> QED
      BY <2>1, <3>1, <3>2
  <2>3. cpc = "idle" /\ accepted = {} /\ write_queue = <<>> /\ wpc # "link"
    BY <2>1 DEF Draining
  <2> QED
    BY <2>1, <2>2, <2>3, SMT
<1>5. CASE RescanChain
  <2>1. CASE InAls(pos) /\ PrevOf(blocks[pos]) = blocks[pos - 1]
    <3>1. /\ UNCHANGED <<meta, blocks, index, count_pool, wpc, cpc, cur, curPrev, accepted,
                         write_queue, budget, st>>
          /\ last_hash' = blocks[pos] /\ pos' = pos + 1 /\ st = "chain"
      BY <1>5, <2>1 DEF RescanChain
    <3>2. pos \in Seqs /\ blocks[0] # NoHash
      BY <2>1, <3>1, SMT DEF InAls
    <3>3. blocks[pos] # NoHash
      BY <2>1, <3>1, <3>2, SMT DEF PrevOf
    <3>4. Counted(last_hash)'
      <4>1. \A j \in 0..pos : blocks[j] # NoHash
        BY <3>1, <3>2, <3>3, SMT
      <4>2. pos < count_pool
        <5>1. PrefixCounted(MaxSeq + 1) /\ pos < MaxSeq + 1
          BY <3>1, <3>2, SMT
        <5> HIDE DEF BaseInv, SeqInv
        <5> QED
          BY <3>2, <4>1, <5>1
      <4>3. blocks[pos] \in Composed /\ meta[blocks[pos]].seq = pos
        BY <3>2, <3>3
      <4> QED
        BY <3>1, <4>2, <4>3
    <3>5. ScanInv'
      BY <3>1, <3>2, <3>3, SMT
    <3> QED
      BY <3>1, <3>4, <3>5
  <2>2. CASE ~(InAls(pos) /\ PrevOf(blocks[pos]) = blocks[pos - 1])
    BY <1>5, <2>2 DEF RescanChain
  <2> QED
    BY <2>1, <2>2
<1> QED
  BY <1>1, <1>2, <1>3, <1>4, <1>5 DEF Opening

LEMMA SeqCaller == BaseInv /\ SeqInv /\ Caller => SeqInv'
<1> SUFFICES ASSUME BaseInv, SeqInv, Caller PROVE SeqInv'
  OBVIOUS
<1> USE DEF BaseInv, TypeOK, QueueInv, SeqInv, FileInv, ScanInv, CountInv, GrowInv,
            SequenceGrows, Counted, PrefixCounted, dbVars, callVars
<1>1. ASSUME NEW p \in Pools, ReadLastHash(p) PROVE SeqInv'
  BY <1>1 DEF ReadLastHash
<1>2. ASSUME NEW p \in Pools, Resave(p) PROVE SeqInv'
  BY <1>2 DEF Resave, Budget
<1>3. CASE ReadSizeAndCompose
  <2>1. /\ UNCHANGED <<blocks, index, last_hash, count_pool, write_queue, quit, wpc, cur,
                       curPrev, st, pos, accepted, budget>>
        /\ cpc = "size" /\ cpc' = "check" /\ count_pool \in Seqs
        /\ cur \in Pools /\ cur \notin Composed
        /\ meta' = [meta EXCEPT ![cur] = [prev |-> curPrev, seq |-> count_pool]]
    BY <1>3 DEF ReadSizeAndCompose
  <2>2. /\ meta'[cur].seq = count_pool /\ meta'[cur].prev = curPrev
        /\ \A p \in Pools \ {cur} : meta'[p] = meta[p]
    BY <2>1
  <2>3. Composed' = Composed \cup {cur}
    BY <2>1, <2>2, SMT
  <2>4. FileInv'
    BY <2>1, <2>2, <2>3, SMT
  <2>5. ScanInv'
    BY <2>1
  <2>6. CountInv'
    <3>1. wpc = "link" => Head(write_queue) \in Composed
      BY FrontComposed DEF Draining
    <3> QED
      BY <2>1, <2>2, <2>3, <3>1, SMT
  <2>7. GrowInv'
    BY <2>1, <2>2, <2>3, SMT
  <2> QED
    BY <2>4, <2>5, <2>6, <2>7
<1>4. CASE CheckPresent
  BY <1>4 DEF CheckPresent
<1>5. CASE Push
  BY <1>5 DEF Push, Notified, WriterHoldsLock
<1> QED
  BY <1>1, <1>2, <1>3, <1>4, <1>5 DEF Caller

LEMMA SeqWriter == BaseInv /\ SeqInv /\ (Writer \/ WSpurious) => SeqInv'
<1> SUFFICES ASSUME BaseInv, SeqInv, Writer \/ WSpurious PROVE SeqInv'
  OBVIOUS
<1> USE DEF BaseInv, TypeOK, QueueInv, SeqInv, FileInv, ScanInv, CountInv, GrowInv,
            SequenceGrows, Counted, PrefixCounted, dbVars, callVars, WriterKeeps
<1>1. CASE WLock \/ WCheck \/ WWait \/ WSpurious \/ WWake
  <2>1. /\ UNCHANGED <<meta, blocks, last_hash, count_pool, write_queue, cpc, cur, curPrev,
                       st, pos, accepted, budget>>
        /\ wpc' \notin {"index", "count", "link"}
    BY <1>1 DEF WLock, WCheck, WWait, WSpurious, WWake, AfterQueueTest
  <2> QED
    BY <2>1
<1>2. CASE WPutBlock
  <2>1. /\ Head(write_queue) \in accepted /\ Head(write_queue) \in Pools
        /\ meta[Head(write_queue)].seq \in Seqs
    BY <1>2, FrontComposed DEF Draining, WPutBlock
  <2>2. st \notin {"scan", "chain"}
    BY <1>2 DEF WPutBlock, Draining
  <2> DEFINE p == Head(write_queue)
             s == meta[p].seq
  <2>3. /\ blocks'[s] = p /\ p # NoHash
        /\ \A i \in Seqs \ {s} : blocks'[i] = blocks[i]
        /\ UNCHANGED <<meta, index, last_hash, count_pool, write_queue, quit, cpc, cur,
                       curPrev, st, pos, accepted, budget>>
        /\ wpc' = "index"
    BY <1>2, <2>1, ZenonT(40) DEF WPutBlock
  <2>4. blocks'[0] # NoHash
    BY <2>1, <2>3, SMT
  <2> HIDE DEF p, s
  <2>5. FileInv'
    <3>1. Composed' = Composed /\ p \in Composed /\ meta[p].seq = s
      BY <2>1, <2>3 DEF p, s
    <3>2. \A i \in Seqs : blocks'[i] # NoHash => blocks'[i] \in Composed /\ meta[blocks'[i]].seq = i
      BY <2>3, <3>1
    <3> QED
      BY <2>3, <2>4, <3>1, <3>2
  <2>6. ScanInv'
    BY <2>2, <2>3
  <2>7. CountInv' /\ GrowInv'
    BY <2>3
  <2> QED
    BY <2>5, <2>6, <2>7
<1>3. CASE WPutIndex
  BY <1>3 DEF WPutIndex
<1>5. CASE WCount
  <2>1. Head(write_queue) \in accepted /\ st \notin {"scan", "chain"}
    BY <1>5, FrontComposed DEF Draining, WCount
  <2> QED
    BY <1>5, <2>1, SMT DEF WCount
<1>6. CASE WLink
  <2>1. Head(write_queue) \in Composed
    BY <1>6, FrontComposed DEF Draining, WLink
  <2> QED
    BY <1>6, <2>1 DEF WLink, AfterQueueTest
<1> QED
  BY <1>1, <1>2, <1>3, <1>5, <1>6 DEF Writer

LEMMA SeqStep == BaseInv /\ SeqInv /\ [Next]_vars /\ ~WPutFails => SeqInv'
<1> SUFFICES ASSUME BaseInv, SeqInv, [Next]_vars, ~WPutFails PROVE SeqInv'
  OBVIOUS
<1>1. CASE Closing \/ Crash
  <2>1. /\ UNCHANGED <<meta, blocks, last_hash, count_pool>>
        /\ st' \notin {"scan", "chain"}
        /\ cpc' = "idle"
        /\ wpc' \in {"index", "count", "link"} => wpc' = wpc /\ write_queue' = write_queue
        /\ accepted' = accepted \/ accepted' = {}
    BY <1>1 DEF Closing, Close, SetQuit, NotifyQuit, Notified, Join, Crash, Vanish, Budget,
                BaseInv, TypeOK, QueueInv, dbVars, callVars
  <2> QED
    BY <2>1 DEF SeqInv, FileInv, ScanInv, CountInv, GrowInv, SequenceGrows, Counted,
                PrefixCounted
<1>2. CASE UNCHANGED vars
  BY <1>2 DEF vars, SeqInv, FileInv, ScanInv, CountInv, GrowInv, SequenceGrows, Counted,
              PrefixCounted
<1> QED
  BY <1>1, <1>2, SeqOpening, SeqCaller, SeqWriter DEF Next

(* However many blocks the node has under way, through crashes, restarts   *)
(* and repeated saves: a block's sequence number exceeds its predecessor's *)
(* until the database reports a failed put.                                *)
THEOREM SequenceGrowsAlways == Spec => [](NoPutFailed => SequenceGrows)
<1>1. Init => SeqInv
  BY SMT DEF Init, SeqInv, FileInv, ScanInv, CountInv, GrowInv, SequenceGrows, Counted,
         PrefixCounted
<1>2. BaseInv /\ FailsBound /\ (NoPutFailed => SeqInv) /\ [Next]_vars => (NoPutFailed => SeqInv)'
  BY FailsCount, SeqStep
<1>3. (NoPutFailed => SeqInv) => (NoPutFailed => SequenceGrows)
  BY DEF SeqInv, GrowInv
<1> QED
  BY <1>1, <1>2, <1>3, BaseAlways, FailsAlways, PTL DEF Spec

-----------------------------------------------------------------------------
(* A regular shutdown loses no accepted block. *)

(* An accepted block is in the index or still queued, and a writer that    *)
(* may sleep or leave sees an empty queue.                                 *)
KeepInv ==
  /\ \A p \in accepted :
       index[p] # NoSeq \/ \E i \in 1..Len(write_queue) : write_queue[i] = p
  /\ wpc \in {"start", "check", "prewait", "waiting", "exited"} => write_queue = <<>>
  /\ wpc = "start" => accepted = {} /\ cpc = "idle"
  /\ wpc \in {"count", "link"} => index[Head(write_queue)] # NoSeq
  /\ quit => st \in {"quitting", "joining"}
  /\ wpc = "exited" => quit

LEMMA KeepStep ==
  ASSUME EarlyWrite = FALSE
  PROVE  BaseInv /\ KeepInv /\ [Next]_vars /\ ~WPutFails => KeepInv'
<1> SUFFICES ASSUME BaseInv, KeepInv, [Next]_vars, ~WPutFails PROVE KeepInv'
  OBVIOUS
<1> USE DEF BaseInv, TypeOK, QueueInv, KeepInv, dbVars, callVars
<1>1. CASE Opening
  <2>1. /\ UNCHANGED <<index, write_queue, accepted, quit, cpc>>
        /\ st \in {"closed", "scan", "chain"}
        /\ wpc' = wpc \/ wpc' = "start"
    BY <1>1 DEF Opening, Open, OpenFails, RescanCount, RescanChain, Budget
  <2>2. write_queue = <<>> /\ accepted = {} /\ cpc = "idle" /\ ~quit
    BY <2>1
  <2> QED
    BY <2>1, <2>2 DEF Draining
<1>2. CASE Caller
  <2>1. CASE Push
    <3>1. /\ UNCHANGED <<index, quit, st, budget>>
          /\ wpc \in {"waiting", "woken", "none"} /\ cur \in Pools
          /\ wpc' \notin {"start", "check", "prewait", "waiting", "exited", "count", "link"}
          /\ cpc' = "idle"
          /\ write_queue' = Append(write_queue, cur) /\ accepted' = accepted \cup {cur}
      BY <2>1 DEF Push, Notified, WriterHoldsLock, WriterStates
    <3>2. /\ write_queue'[Len(write_queue) + 1] = cur
          /\ Len(write_queue') = Len(write_queue) + 1
          /\ \A i \in 1..Len(write_queue) : write_queue'[i] = write_queue[i]
      BY <3>1, SMT
    <3> QED
      BY <3>1, <3>2, SMT
  <2>2. ASSUME NEW p \in Pools, ReadLastHash(p) PROVE KeepInv'
    BY <2>2 DEF ReadLastHash
  <2>3. ASSUME NEW p \in Pools, Resave(p) PROVE KeepInv'
    BY <2>3 DEF Resave, Budget
  <2>4. CASE ReadSizeAndCompose \/ CheckPresent
    <3>1. /\ UNCHANGED <<index, write_queue, accepted, quit, wpc, st, budget>>
          /\ wpc # "start"
      BY <2>4 DEF ReadSizeAndCompose, CheckPresent
    <3> QED
      BY <3>1
  <2> QED
    BY <1>2, <2>1, <2>2, <2>3, <2>4 DEF Caller
<1>3. CASE WLock \/ WCheck \/ WWait \/ WSpurious \/ WWake \/ WPutBlock \/ WCount
  <2>1. /\ UNCHANGED <<index, write_queue, accepted, quit, cpc, st, budget>>
        /\ wpc' \in {"check", "prewait", "waiting", "exited"} => write_queue = <<>>
        /\ wpc' # "start" /\ wpc' # "count"
        /\ wpc' = "link" => wpc = "count"
        /\ wpc' = "exited" => quit
    BY <1>3 DEF WLock, WCheck, WWait, WSpurious, WWake, WPutBlock, WCount,
                AfterQueueTest, WriterKeeps
  <2> QED
    BY <2>1
<1>4. CASE WPutIndex
  BY <1>4, FrontComposed DEF WPutIndex, WriterKeeps, Draining
<1>5. CASE WLink
  <2>1. /\ UNCHANGED <<index, quit, cpc, st, accepted, budget>>
        /\ write_queue # <<>> /\ write_queue' = Tail(write_queue)
        /\ index[Head(write_queue)] # NoSeq
        /\ wpc' = IF write_queue' = <<>> THEN "check" ELSE "put"
    BY <1>5 DEF WLink, WriterKeeps, AfterQueueTest, Draining
  <2>2. ASSUME NEW i \in 1..Len(write_queue), i # 1
        PROVE  i - 1 \in 1..Len(write_queue') /\ write_queue'[i - 1] = write_queue[i]
    BY <2>1, <2>2, SMT
  <2>3. ASSUME NEW p \in accepted, index[p] = NoSeq
        PROVE  \E i \in 1..Len(write_queue') : write_queue'[i] = p
    <3>1. PICK i \in 1..Len(write_queue) : write_queue[i] = p
      BY <2>3
    <3>2. i # 1
      BY <2>1, <2>3, <3>1, SMT
    <3> QED
      BY <2>2, <3>1, <3>2
  <2> QED
    BY <2>1, <2>3
<1>6. CASE Closing \/ Crash
  <2>1. CASE Close \/ SetQuit \/ NotifyQuit
    <3>1. /\ UNCHANGED <<index, write_queue, accepted, cpc, budget>>
          /\ wpc' = wpc \/ wpc' = "woken"
          /\ quit' => st' \in {"quitting", "joining"}
          /\ quit => quit'
      BY <2>1, SMT DEF Close, SetQuit, NotifyQuit, Notified
    <3> QED
      BY <3>1
  <2>2. CASE Join \/ Crash
    BY <2>2 DEF Join, Crash, Vanish, Budget
  <2> QED
    BY <1>6, <2>1, <2>2 DEF Closing
<1>7. CASE UNCHANGED vars
  BY <1>7 DEF vars
<1> QED
  BY <1>1, <1>2, <1>3, <1>4, <1>5, <1>6, <1>7 DEF Next, Writer

(* When ~priv can join the writer, every block for which pool_save has     *)
(* returned true is in the database, provided no block was saved before    *)
(* the writer's first wait and the database has reported no failed put.    *)
THEOREM ShutdownSafe ==
  ASSUME EarlyWrite = FALSE
  PROVE  Spec => [](NoPutFailed => ShutdownKeepsAccepted)
<1>1. Init => KeepInv
  BY DEF Init, KeepInv
<1>2. BaseInv /\ KeepInv => ShutdownKeepsAccepted
  BY SMT DEF BaseInv, TypeOK, KeepInv, ShutdownKeepsAccepted
<1> QED
  <2>1. BaseInv /\ FailsBound /\ (NoPutFailed => KeepInv) /\ [Next]_vars => (NoPutFailed => KeepInv)'
    BY FailsCount, KeepStep
  <2> QED
    BY <1>1, <1>2, <2>1, BaseAlways, FailsAlways, PTL DEF Spec

-----------------------------------------------------------------------------
(* One block at a time: blockchain.db is one chain and its tip is known. *)

Full(n) == \A i \in Seqs : blocks[i] # NoHash <=> i < n

Tip(n) == IF n = 0 THEN NoHash ELSE blocks[n - 1]

(* At most one block is under way, and nothing is saved twice. *)
OneInv ==
  /\ budget.resaves = 0
  /\ write_queue = <<>> \/ Len(write_queue) = 1
  /\ cpc # "idle" => write_queue = <<>> /\ st = "open"

NoGap == \A i \in Seqs : blocks[i] # NoHash => \A j \in 0..i : blocks[j] # NoHash

RescanInv ==
  /\ st = "scan" => /\ pos <= MaxSeq + 1 /\ count_pool <= pos
                    /\ \A i \in Seqs : i < pos => (blocks[i] # NoHash <=> i < count_pool)
  /\ st = "chain" => /\ Full(count_pool) /\ count_pool <= MaxSeq + 1
                     /\ pos - 1 \in Seqs /\ last_hash = blocks[pos - 1]
                     /\ count_pool > 0 => pos <= count_pool

(* The number of blocks written and counted but for the one in hand. *)
Settled == IF wpc = "link" THEN count_pool - 1 ELSE count_pool

(* The block under way extends the tip by one. *)
Extends1(p) == meta[p].prev = last_hash /\ meta[p].seq = Settled

TipInv ==
  st = "open" \/ write_queue # <<>> =>
    /\ Settled \in Nat /\ last_hash = Tip(Settled)
    /\ Full(IF wpc \in {"index", "count", "link"} THEN Settled + 1 ELSE Settled)
    /\ write_queue # <<>> => Extends1(Head(write_queue))
    /\ wpc \in {"index", "count", "link"} => blocks[Settled] = Head(write_queue)
    /\ cpc = "size" => curPrev = last_hash
    /\ cpc \in {"check", "push"} => Extends1(cur)

SerialInv == OneInv /\ Linked /\ NoGap /\ RescanInv /\ TipInv

LEMMA SerialOpening == BaseInv /\ SerialInv /\ Opening => SerialInv'
<1> SUFFICES ASSUME BaseInv, SerialInv, Opening PROVE SerialInv'
  OBVIOUS
<1>0. /\ UNCHANGED <<meta, blocks, write_queue, cpc, cur, curPrev>>
      /\ budget'.resaves = budget.resaves
      /\ write_queue = <<>> /\ cpc = "idle" /\ ~Draining
      /\ wpc' = wpc \/ wpc' = "start"
  BY DEF Opening, Open, OpenFails, RescanCount, RescanChain, Budget, BaseInv, TypeOK,
         QueueInv, dbVars, callVars
<1>1. OneInv' /\ Linked' /\ NoGap'
  BY <1>0 DEF SerialInv, OneInv, Linked, NoGap
<1>2. RescanInv' /\ TipInv'
  <2> USE DEF BaseInv, TypeOK, SerialInv, RescanInv, dbVars, callVars
  <2>1. CASE Open \/ OpenFails
    BY <1>0, <2>1, SMT DEF Open, OpenFails, TipInv
  <2>2. CASE RescanCount
    <3>1. st' # "open" /\ st = "scan"
      BY <2>2 DEF RescanCount
    <3>2. CASE pos <= MaxSeq
      <4>1. /\ pos' = pos + 1 /\ st' = "scan" /\ pos \in Seqs
            /\ count_pool' = IF blocks[pos] # NoHash THEN count_pool + 1 ELSE count_pool
        BY <2>2, <3>2, SMT DEF RescanCount
      <4>2. blocks[pos] # NoHash => count_pool = pos
        <5>1. CASE pos = 0
          BY <3>1, <5>1, SMT
        <5>2. CASE pos > 0 /\ blocks[pos] # NoHash
          <6>1. pos - 1 \in Seqs /\ blocks[pos - 1] # NoHash
            BY <4>1, <5>2, SMT DEF NoGap
          <6> QED
            BY <3>1, <6>1, SMT
        <5> QED
          BY <5>1, <5>2, SMT
      <4>3. blocks[pos] = NoHash => ~(pos < count_pool)
        BY <3>1, SMT
      <4> QED
        BY <1>0, <3>1, <4>1, <4>2, <4>3, SMT DEF TipInv
    <3>3. CASE ~(pos <= MaxSeq)
      <4>1. /\ pos' = 1 /\ st' = "chain" /\ pos = MaxSeq + 1
            /\ last_hash' = blocks[0] /\ count_pool' = count_pool
        BY <2>2, <3>1, <3>3, SMT DEF RescanCount
      <4> QED
        BY <1>0, <3>1, <4>1, SMT DEF TipInv, Full
    <3> QED
      BY <3>2, <3>3
  <2>3. CASE RescanChain
    <3>1. /\ Full(count_pool) /\ count_pool <= MaxSeq + 1 /\ count_pool' = count_pool
          /\ pos - 1 \in Seqs /\ last_hash = blocks[pos - 1] /\ st = "chain"
          /\ count_pool > 0 => pos <= count_pool
      BY <2>3 DEF RescanChain
    <3>2. InAls(pos) <=> pos < count_pool
      BY <3>1, SMT DEF InAls, Full
    <3>3. CASE pos < count_pool
      <4>1. PrevOf(blocks[pos]) = blocks[pos - 1]
        BY <3>1, <3>3, SMTT(30) DEF PrevOf, Full, Linked
      <4>2. last_hash' = blocks[pos] /\ pos' = pos + 1 /\ st' = "chain"
        BY <2>3, <3>2, <3>3, <4>1 DEF RescanChain
      <4> QED
        BY <1>0, <3>1, <3>3, <4>2, SMTT(30) DEF TipInv, Full
    <3>4. CASE ~(pos < count_pool)
      <4>1. last_hash' = last_hash /\ st' = "open"
        BY <2>3, <3>2, <3>4 DEF RescanChain
      <4>2. last_hash = Tip(count_pool)
        BY <3>1, <3>4, SMTT(30) DEF Tip, Full
      <4>3. wpc' \notin {"index", "count", "link"} /\ Settled' = count_pool
        BY <1>0, <3>1 DEF Draining, Settled
      <4> QED
        BY <1>0, <3>1, <4>1, <4>2, <4>3 DEF TipInv, Full, Tip
    <3> QED
      BY <3>3, <3>4
  <2> QED
    BY <2>1, <2>2, <2>3 DEF Opening
<1> QED
  BY <1>1, <1>2 DEF SerialInv

LEMMA SerialCaller ==
  ASSUME MaxPending = 1
  PROVE  BaseInv /\ SerialInv /\ Caller => SerialInv'
<1> SUFFICES ASSUME BaseInv, SerialInv, Caller PROVE SerialInv'
  OBVIOUS
<1> USE DEF BaseInv, TypeOK, QueueInv, SerialInv, OneInv, dbVars, callVars
<1>1. ASSUME NEW p \in Pools, ReadLastHash(p) PROVE SerialInv'
  <2>1. /\ UNCHANGED <<meta, blocks, last_hash, count_pool, write_queue, wpc, st, pos, budget>>
        /\ write_queue = <<>> /\ st = "open" /\ cpc' = "size" /\ curPrev' = last_hash
    BY <1>1, SMT DEF ReadLastHash, Pending
  <2> QED
    BY <2>1, SMT DEF Linked, NoGap, RescanInv, TipInv, Full, Tip, Settled
<1>2. ASSUME NEW p \in Pools, Resave(p) PROVE SerialInv'
  BY <1>2, SMT DEF Resave
<1>3. CASE ReadSizeAndCompose
  <2>1. /\ UNCHANGED <<blocks, last_hash, count_pool, write_queue, wpc, st, pos, budget, cur>>
        /\ cpc = "size" /\ cpc' = "check" /\ cur \in Pools /\ cur \notin Composed
        /\ meta'[cur].prev = curPrev /\ meta'[cur].seq = count_pool
        /\ \A p \in Pools \ {cur} : meta'[p] = meta[p]
    BY <1>3 DEF ReadSizeAndCompose
  <2>2. write_queue = <<>> /\ st = "open" /\ ~Draining
    BY <2>1
  <2>3. Linked'
    <3>1. \A i \in Seqs : blocks[i] # NoHash => blocks[i] # cur /\ blocks[i] \in Pools
      BY <2>1, SMT DEF Linked
    <3> QED
      BY <2>1, <3>1, SMTT(30) DEF Linked
  <2>4. TipInv'
    BY <2>1, <2>2 DEF TipInv, Full, Tip, Settled, Extends1, Draining
  <2> QED
    BY <2>1, <2>2, <2>3, <2>4, ZenonT(40) DEF NoGap, RescanInv
<1>4. CASE CheckPresent
  <2>1. /\ UNCHANGED <<meta, blocks, last_hash, count_pool, write_queue, wpc, st, pos, budget,
                       cur>>
        /\ cpc = "check" /\ cpc' \in {"idle", "push"}
    BY <1>4 DEF CheckPresent
  <2> QED
    BY <2>1, SMT DEF Linked, NoGap, RescanInv, TipInv, Full, Tip, Settled, Extends1
<1>5. CASE Push
  <2>1. /\ UNCHANGED <<meta, blocks, last_hash, count_pool, st, pos, budget>>
        /\ cpc = "push" /\ cpc' = "idle" /\ write_queue = <<>> /\ st = "open"
        /\ write_queue' = Append(<<>>, cur) /\ cur \in Pools
        /\ ~Draining /\ ~Draining'
    BY <1>5 DEF Push, Notified, WriterHoldsLock, Draining
  <2>2. write_queue' # <<>> /\ Len(write_queue') = 1 /\ Head(write_queue') = cur
    BY <2>1, SMT
  <2>3. TipInv'
    BY <2>1, <2>2, ZenonT(40) DEF TipInv, Full, Tip, Settled, Extends1, Draining
  <2> QED
    BY <2>1, <2>2, <2>3, SMT DEF Linked, NoGap, RescanInv
<1> QED
  BY <1>1, <1>2, <1>3, <1>4, <1>5 DEF Caller

LEMMA SerialWriter == BaseInv /\ SerialInv /\ (Writer \/ WSpurious) => SerialInv'
<1> SUFFICES ASSUME BaseInv, SerialInv, Writer \/ WSpurious PROVE SerialInv'
  OBVIOUS
<1> USE DEF BaseInv, TypeOK, QueueInv, SerialInv, OneInv, dbVars, callVars, WriterKeeps
<1>1. CASE WLock \/ WCheck \/ WWait \/ WSpurious \/ WWake
  <2>1. /\ UNCHANGED <<meta, blocks, last_hash, count_pool, write_queue, cpc, cur, curPrev,
                       st, pos, budget>>
        /\ wpc' \notin {"index", "count", "link"} /\ wpc \notin {"index", "count", "link"}
    BY <1>1 DEF WLock, WCheck, WWait, WSpurious, WWake, AfterQueueTest
  <2> QED
    BY <2>1, SMT DEF Linked, NoGap, RescanInv, TipInv, Full, Tip, Settled, Extends1
<1>2. CASE WPutBlock
  <2> DEFINE p == Head(write_queue)
  <2>1. /\ p \in Pools /\ meta[p].seq \in Seqs /\ write_queue # <<>>
        /\ st \notin {"scan", "chain"} /\ cpc = "idle" /\ wpc = "put"
    BY <1>2, FrontComposed DEF Draining, WPutBlock
  <2>2. /\ meta[p].seq = count_pool /\ meta[p].prev = last_hash /\ last_hash = Tip(count_pool)
        /\ Full(count_pool)
    BY <2>1 DEF TipInv, Extends1, Settled
  <2>3. /\ blocks'[count_pool] = p /\ p # NoHash
        /\ \A i \in Seqs \ {count_pool} : blocks'[i] = blocks[i]
        /\ UNCHANGED <<meta, last_hash, count_pool, write_queue, cpc, st, pos, budget>>
        /\ wpc' = "index"
    BY <1>2, <2>1, <2>2 DEF WPutBlock
  <2> HIDE DEF p
  <2>4. /\ Full(count_pool + 1)' /\ NoGap'
    BY <2>1, <2>2, <2>3, SMT DEF Full, NoGap
  <2>5. Linked'
    <3> SUFFICES ASSUME NEW i \in Seqs, blocks'[i] # NoHash
                 PROVE  /\ meta[blocks'[i]].seq = i
                        /\ IF i = 0 THEN meta[blocks'[i]].prev = NoHash
                           ELSE blocks'[i - 1] # NoHash /\ meta[blocks'[i]].prev = blocks'[i - 1]
      BY <2>3 DEF Linked
    <3>1. CASE i = count_pool
      BY <2>1, <2>2, <2>3, <3>1, SMTT(30) DEF Tip, Full
    <3>2. CASE i # count_pool
      <4>1. i < count_pool /\ blocks'[i] = blocks[i] /\ (i > 0 => blocks'[i - 1] = blocks[i - 1])
        BY <2>1, <2>2, <2>3, <3>2, SMTT(30) DEF Full
      <4> QED
        BY <4>1, SMT DEF Linked
    <3> QED
      BY <3>1, <3>2
  <2>6. TipInv'
    BY <2>1, <2>2, <2>3, <2>4, SMTT(30) DEF TipInv, Extends1, Settled, Tip, p
  <2> QED
    BY <2>1, <2>3, <2>4, <2>5, <2>6 DEF RescanInv
<1>3. CASE WPutIndex
  <2>1. /\ UNCHANGED <<meta, blocks, last_hash, count_pool, write_queue, cpc, cur, curPrev,
                       st, pos, budget>>
        /\ wpc' = "count" /\ wpc = "index"
    BY <1>3 DEF WPutIndex
  <2> QED
    BY <2>1, SMT DEF Linked, NoGap, RescanInv, TipInv, Full, Tip, Settled, Extends1
<1>5. CASE WCount
  <2>1. /\ UNCHANGED <<meta, blocks, last_hash, write_queue, cpc, cur, curPrev, st, pos, budget>>
        /\ wpc' = "link" /\ wpc = "count" /\ count_pool' = count_pool + 1
        /\ write_queue # <<>> /\ st \notin {"scan", "chain"}
    BY <1>5 DEF WCount, Draining
  <2>2. Settled' = Settled /\ Settled \in Nat
    BY <2>1, SMTT(30) DEF Settled
  <2> QED
    BY <2>1, <2>2, SMT DEF Linked, NoGap, RescanInv, TipInv, Full, Tip, Extends1
<1>6. CASE WLink
  <2>1. /\ UNCHANGED <<meta, blocks, count_pool, cpc, st, pos, budget>>
        /\ wpc = "link" /\ write_queue # <<>> /\ Len(write_queue) = 1
        /\ write_queue' = Tail(write_queue) /\ cpc = "idle"
        /\ wpc' = AfterQueueTest(Tail(write_queue))
        /\ last_hash' = IF last_hash = meta[Head(write_queue)].prev
                        THEN Head(write_queue) ELSE last_hash
        /\ st \notin {"scan", "chain"}
    BY <1>6 DEF WLink, Draining
  <2>2. write_queue' = <<>> /\ wpc' = "check"
    BY <2>1, SMT DEF AfterQueueTest
  <2>3. /\ last_hash' = blocks[count_pool - 1] /\ Full(count_pool) /\ count_pool > 0
    BY <2>1, SMTT(30) DEF TipInv, Settled, Extends1
  <2>4. TipInv'
    BY <2>1, <2>2, <2>3, SMT DEF TipInv, Settled, Full, Tip
  <2> QED
    BY <2>1, <2>2, <2>4, SMT DEF Linked, NoGap, RescanInv
<1> QED
  BY <1>1, <1>2, <1>3, <1>5, <1>6 DEF Writer

LEMMA SerialStep ==
  ASSUME MaxPending = 1
  PROVE  BaseInv /\ SerialInv /\ [Next]_vars /\ ~WPutFails => SerialInv'
<1> SUFFICES ASSUME BaseInv, SerialInv, [Next]_vars, ~WPutFails PROVE SerialInv'
  OBVIOUS
<1> USE DEF BaseInv, TypeOK, QueueInv, SerialInv, OneInv, Linked, NoGap, RescanInv,
            TipInv, Full, Tip, Settled, Extends1
<1>1. CASE Close \/ SetQuit \/ NotifyQuit
  <2>1. /\ UNCHANGED <<meta, blocks, last_hash, count_pool, write_queue, pos, budget>>
        /\ st' \notin {"scan", "chain", "open"} /\ cpc = "idle" /\ cpc' = "idle"
        /\ wpc' = wpc \/ (wpc = "waiting" /\ wpc' = "woken")
    BY <1>1 DEF Close, SetQuit, NotifyQuit, Notified, dbVars, callVars
  <2> QED
    BY <2>1, SMT
<1>2. CASE Join \/ Crash
  <2>1. /\ UNCHANGED <<meta, blocks>> /\ write_queue' = <<>> /\ st' = "closed"
        /\ cpc' = "idle"
        /\ budget'.resaves = budget.resaves
    BY <1>2, ZenonT(40) DEF Join, Crash, Vanish, Budget, dbVars
  <2> QED
    BY <2>1, SMT
<1>3. CASE UNCHANGED vars
  BY <1>3, SMT DEF vars
<1> QED
  BY <1>1, <1>2, <1>3, SerialOpening, SerialCaller, SerialWriter DEF Next, Closing

LEMMA SerialAlways ==
  ASSUME MaxPending = 1, MaxResaves = 0
  PROVE  Spec => [](BaseInv /\ (NoPutFailed => SerialInv))
<1>1. Init => SerialInv
  BY SMT DEF Init, SerialInv, OneInv, Linked, NoGap, RescanInv, TipInv
<1>2. BaseInv /\ FailsBound /\ (NoPutFailed => SerialInv) /\ [Next]_vars => (NoPutFailed => SerialInv)'
  BY FailsCount, SerialStep
<1> QED
  BY <1>1, <1>2, BaseAlways, FailsAlways, PTL DEF Spec

(* A node that lets each block be written before it composes the next one  *)
(* keeps blockchain.db one unbroken hash chain, through any number of      *)
(* crashes and restarts, until a put fails.                                *)
THEOREM SerialChain ==
  ASSUME MaxPending = 1, MaxResaves = 0
  PROVE  Spec => []ChainLinked
<1>1. (NoPutFailed => SerialInv) => ChainLinked
  BY DEF SerialInv, ChainLinked
<1> QED
  BY <1>1, SerialAlways, PTL

(* The open store of such a node, when nothing is under way, knows its     *)
(* size and its tip: rescan finds again what write_routine has kept.       *)
THEOREM SerialTip ==
  ASSUME MaxPending = 1, MaxResaves = 0
  PROVE  Spec => []TipCurrent
<1>1. BaseInv /\ SerialInv => TipCurrent
  BY SMT DEF BaseInv, TypeOK, QueueInv, Draining, SerialInv, TipInv, TipCurrent, Pending, Full, Tip, Settled
<1>2. ~NoPutFailed => TipCurrent
  BY DEF TipCurrent
<1> QED
  BY <1>1, <1>2, SerialAlways, PTL

-----------------------------------------------------------------------------
(* blockchain.db implements Ledger when the node has one block under way   *)
(* at a time. A put writes at the number of the block, and the history     *)
(* ends at the first hole: the number must never fall behind the hole, and *)
(* must not fill it while records lie beyond, for these would join the     *)
(* history at once.                                                        *)

(* There is a record from n up to, but without, m. *)
Beyond(n, m) == \E j \in Seqs : n < j /\ j < m /\ blocks[j] # NoHash

(* A block with sequence c goes to the first hole n only if nothing lies   *)
(* behind it.                                                              *)
Ahead(n, c) == n <= c /\ (Beyond(n, MaxSeq + 1) => n < c)

(* The number of the block after the one in hand. *)
NextSeq == IF wpc \in {"index", "count"} THEN count_pool + 1 ELSE count_pool

Numbered == \A i \in Seqs : blocks[i] # NoHash => meta[blocks[i]].seq = i

UnderWay ==
  /\ cpc \in {"check", "push"} => meta[cur].seq = count_pool
  /\ write_queue # <<>> /\ wpc # "link" => meta[Head(write_queue)].seq = count_pool

(* What rescan has counted, and what a running store counts, is never less *)
(* than the place of the first hole n.                                     *)
Placed(n) ==
  /\ st = "scan" => /\ pos <= MaxSeq + 1
                    /\ pos <= n => pos <= count_pool
                    /\ n <= pos => n <= count_pool
                    /\ Beyond(n, pos) => n < count_pool
  /\ st = "chain" => Ahead(n, count_pool)
  /\ st = "open" \/ write_queue # <<>> => Ahead(n, NextSeq)

LedgerInv ==
  /\ Numbered /\ OneInv /\ UnderWay
  /\ \E n \in 0..(MaxSeq + 1) : Prefix(blocks, n) /\ Placed(n)

(* The first hole is one place. *)
LEMMA HistoryIs ==
  ASSUME NEW file, NEW n \in 0..(MaxSeq + 1), Prefix(file, n)
  PROVE  HistoryOf(file) = [i \in 1..n |-> file[i - 1]]
<1>1. ASSUME NEW k \in 0..(MaxSeq + 1), Prefix(file, k) PROVE k = n
  <2>1. ~(k < n)
    BY <1>1, SMT DEF Prefix
  <2>2. ~(n < k)
    BY <1>1, SMT DEF Prefix
  <2> QED
    BY <2>1, <2>2, SMT
<1>2. (CHOOSE k \in 0..(MaxSeq + 1) : Prefix(file, k)) = n
  BY <1>1
<1> QED
  BY <1>2 DEF HistoryOf

(* Filling the hole adds one block at the end. *)
LEMMA HoleFilled ==
  ASSUME NEW f \in [Seqs -> Hashes], NEW n \in Seqs, NEW p \in Hashes,
         NEW g, g = [f EXCEPT ![n] = p]
  PROVE  [i \in 1..(n + 1) |-> g[i - 1]] = Append([i \in 1..n |-> f[i - 1]], p)
<1>1. PICK h : h = [i \in 1..n |-> f[i - 1]]
  OBVIOUS
<1>2. PICK t : t = [i \in 1..(n + 1) |-> g[i - 1]]
  OBVIOUS
<1>3. \A i \in 1..n : i - 1 \in Seqs /\ g[i - 1] = f[i - 1] /\ f[i - 1] \in Hashes
  BY SMT
<1>4. g[n] = p /\ n \in Nat
  BY SMT
<1>5. h \in Seq(Hashes) /\ Len(h) = n
  BY <1>1, <1>3, <1>4, SMT
<1>6. \A i \in 1..n : h[i] \in Hashes
  BY <1>1, <1>3
<1>7. \A i \in 1..(n + 1) : t[i] = IF i = n + 1 THEN p ELSE h[i]
  BY <1>1, <1>2, <1>3, <1>4, SMT
<1>8. \A i \in 1..(n + 1) : t[i] \in Hashes
  BY <1>4, <1>7, <1>6, SMT
<1>9. t \in Seq(Hashes) /\ Len(t) = n + 1
  BY <1>2, <1>4, <1>8, SMT
<1>10. t = Append(h, p)
  BY <1>4, <1>5, <1>7, <1>9, AppendProperties, SeqEqual, SMT
<1> QED
  BY <1>1, <1>2, <1>10

LEMMA LedgerInit ==
  ASSUME MaxResaves = 0
  PROVE  Init => LedgerInv
<1> SUFFICES ASSUME Init PROVE LedgerInv
  OBVIOUS
<1>1. Numbered /\ OneInv /\ UnderWay
  BY DEF Init, Numbered, OneInv, UnderWay
<1>2. 0 \in 0..(MaxSeq + 1) /\ Prefix(blocks, 0) /\ Placed(0)
  BY SMT DEF Init, Prefix, Placed
<1> QED
  BY <1>1, <1>2 DEF LedgerInv

(* A step that keeps the files and the composed blocks. *)
LEMMA LedgerOpening == BaseInv /\ LedgerInv /\ Opening => LedgerInv'
<1> SUFFICES ASSUME BaseInv, LedgerInv, Opening PROVE LedgerInv'
  OBVIOUS
<1>1. /\ UNCHANGED <<meta, blocks, write_queue, cpc, cur>>
      /\ budget'.resaves = budget.resaves
      /\ write_queue = <<>> /\ cpc = "idle" /\ ~Draining
      /\ wpc' = wpc \/ wpc' = "start"
  BY DEF Opening, Open, OpenFails, RescanCount, RescanChain, Budget, BaseInv, TypeOK,
         QueueInv, dbVars, callVars
<1>2. Numbered' /\ OneInv' /\ UnderWay'
  BY <1>1 DEF LedgerInv, Numbered, OneInv, UnderWay
<1>3. PICK n \in 0..(MaxSeq + 1) : Prefix(blocks, n) /\ Placed(n)
  BY DEF LedgerInv
<1>4. Prefix(blocks', n)
  BY <1>1, <1>3
<1>5. \A m : Beyond(n, m)' <=> Beyond(n, m)
  BY <1>1 DEF Beyond
<1>6. pos \in Nat /\ count_pool \in Nat
  BY DEF BaseInv, TypeOK
<1>7. Placed(n)'
  <2>1. CASE Open
    <3>1. ~Beyond(n, 0)
      BY SMT DEF Beyond
    <3> QED
      BY <1>1, <1>5, <2>1, <3>1, SMT DEF Open, Placed
  <2>2. CASE OpenFails
    BY <1>1, <2>2 DEF OpenFails, Placed
  <2>3. CASE RescanCount /\ pos <= MaxSeq
    <3>1. /\ pos' = pos + 1 /\ st' = "scan" /\ st = "scan"
          /\ count_pool' = IF blocks[pos] # NoHash THEN count_pool + 1 ELSE count_pool
      BY <2>3 DEF RescanCount
    <3>2. /\ pos <= n => pos <= count_pool
          /\ n <= pos => n <= count_pool
          /\ Beyond(n, pos) => n < count_pool
      BY <1>3, <3>1 DEF Placed
    <3>3. pos < n => blocks[pos] # NoHash
      BY <1>3, <1>6, SMT DEF Prefix
    <3>4. Beyond(n, pos + 1) => Beyond(n, pos) \/ (n < pos /\ blocks[pos] # NoHash)
      BY <1>6, SMT DEF Beyond
    <3>5. /\ pos + 1 <= n => pos + 1 <= count_pool'
          /\ n <= pos + 1 => n <= count_pool'
      BY <1>6, <3>1, <3>2, <3>3, SMT
    <3>6. Beyond(n, pos + 1) => n < count_pool'
      BY <1>6, <3>1, <3>2, <3>4, SMT
    <3> QED
      BY <1>1, <1>5, <1>6, <2>3, <3>1, <3>5, <3>6, SMT DEF Placed
  <2>4. CASE RescanCount /\ ~(pos <= MaxSeq)
    <3>1. st' = "chain" /\ st = "scan" /\ count_pool' = count_pool
      BY <2>4 DEF RescanCount
    <3>2. pos = MaxSeq + 1 /\ n <= pos
      BY <1>3, <1>6, <2>4, <3>1, SMT DEF Placed
    <3>3. Ahead(n, count_pool)
      BY <1>3, <3>1, <3>2 DEF Placed, Ahead
    <3> QED
      BY <1>1, <1>5, <3>1, <3>3 DEF Placed, Ahead
  <2>5. CASE RescanChain
    <3>1. st = "chain" /\ st' \in {"chain", "open"} /\ count_pool' = count_pool /\ wpc' = wpc
      BY <2>5 DEF RescanChain
    <3>2. Ahead(n, count_pool)' /\ NextSeq' = count_pool
      BY <1>1, <1>3, <1>5, <3>1 DEF Placed, Ahead, NextSeq, Draining
    <3> QED
      BY <1>1, <3>1, <3>2 DEF Placed
  <2> QED
    BY <2>1, <2>2, <2>3, <2>4, <2>5 DEF Opening
<1> QED
  BY <1>2, <1>4, <1>7 DEF LedgerInv
LEMMA LedgerCaller ==
  ASSUME MaxPending = 1
  PROVE  BaseInv /\ LedgerInv /\ Caller => LedgerInv'
<1> SUFFICES ASSUME BaseInv, LedgerInv, Caller PROVE LedgerInv'
  OBVIOUS
<1> USE DEF BaseInv, TypeOK, QueueInv, OneInv, dbVars, callVars
<1>1. PICK n \in 0..(MaxSeq + 1) : Prefix(blocks, n) /\ Placed(n)
  BY DEF LedgerInv
<1>2. Numbered /\ OneInv /\ UnderWay
  BY DEF LedgerInv
<1>3. /\ UNCHANGED <<blocks, count_pool, st, pos>>
      /\ write_queue # <<>> => UNCHANGED write_queue
      /\ wpc' \in {"index", "count"} <=> wpc \in {"index", "count"}
      /\ write_queue' # <<>> => write_queue # <<>> \/ st = "open"
  BY <1>2 DEF Caller, ReadLastHash, Resave, ReadSizeAndCompose, CheckPresent, Push, Notified,
              Pending
<1>4. Prefix(blocks', n) /\ Placed(n)'
  BY <1>1, <1>3 DEF Placed, Ahead, Beyond, NextSeq
<1>5. Numbered' /\ OneInv' /\ UnderWay'
  <2>1. ASSUME NEW p \in Pools, ReadLastHash(p) PROVE Numbered' /\ OneInv' /\ UnderWay'
    <3>1. /\ UNCHANGED <<meta, blocks, count_pool, write_queue, wpc, st, budget>>
          /\ write_queue = <<>> /\ st = "open" /\ cpc' = "size"
      BY <2>1, SMT DEF ReadLastHash, Pending
    <3> QED
      BY <1>2, <3>1 DEF Numbered, UnderWay
  <2>2. ASSUME NEW p \in Pools, Resave(p) PROVE FALSE
    BY <1>2, <2>2, SMTT(30) DEF Resave
  <2>3. CASE ReadSizeAndCompose
    <3>1. /\ UNCHANGED <<blocks, count_pool, write_queue, wpc, st, budget, cur>>
          /\ cpc = "size" /\ cpc' = "check" /\ cur \in Pools /\ cur \notin Composed
          /\ meta'[cur].seq = count_pool
          /\ \A p \in Pools \ {cur} : meta'[p] = meta[p]
      BY <2>3 DEF ReadSizeAndCompose
    <3>2. \A i \in Seqs : blocks[i] # NoHash => blocks[i] # cur /\ blocks[i] \in Pools
      BY <1>2, <3>1, SMT DEF Numbered
    <3> QED
      BY <1>2, <3>1, <3>2, SMT DEF Numbered, UnderWay
  <2>4. CASE CheckPresent
    <3>1. /\ UNCHANGED <<meta, blocks, count_pool, write_queue, wpc, st, budget, cur>>
          /\ cpc = "check" /\ cpc' \in {"idle", "push"}
      BY <2>4 DEF CheckPresent
    <3> QED
      BY <1>2, <3>1 DEF Numbered, UnderWay
  <2>5. CASE Push
    <3>1. /\ UNCHANGED <<meta, blocks, count_pool, st, budget>>
          /\ cpc = "push" /\ cpc' = "idle" /\ write_queue = <<>>
          /\ write_queue' = Append(<<>>, cur) /\ cur \in Pools
      BY <1>2, <2>5 DEF Push
    <3>2. write_queue' # <<>> /\ Len(write_queue') = 1 /\ Head(write_queue') = cur
      BY <3>1, SMT
    <3> QED
      BY <1>2, <3>1, <3>2 DEF Numbered, UnderWay
  <2> QED
    BY <2>1, <2>2, <2>3, <2>4, <2>5 DEF Caller
<1> QED
  BY <1>4, <1>5 DEF LedgerInv

(* What the put of a block does to a file: it goes to the first hole, with *)
(* nothing beyond, or to a later place.                                    *)
LEMMA LedgerPut ==
  ASSUME BaseInv, LedgerInv, WPutBlock,
         NEW n \in 0..(MaxSeq + 1), Prefix(blocks, n), Placed(n)
  PROVE  \E p \in Pools :
           /\ meta[p].seq = count_pool /\ count_pool \in Seqs /\ n <= count_pool
           /\ blocks' = [blocks EXCEPT ![count_pool] = p]
           /\ n = count_pool => ~Beyond(n, MaxSeq + 1) /\ Prefix(blocks', n + 1)
           /\ n < count_pool => Prefix(blocks', n)
<1> USE DEF BaseInv, TypeOK, QueueInv
<1>1. PICK p : p = Head(write_queue)
  OBVIOUS
<1>2. /\ p \in Pools /\ meta[p].seq \in Seqs /\ write_queue # <<>> /\ wpc = "put"
      /\ blocks' = [blocks EXCEPT ![meta[p].seq] = p]
  BY <1>1, FrontComposed DEF Draining, WPutBlock
<1>3. meta[p].seq = count_pool /\ count_pool \in Seqs
  BY <1>1, <1>2 DEF LedgerInv, UnderWay
<1>4. Ahead(n, count_pool)
  BY <1>2 DEF Placed, NextSeq
<1>5. blocks \in [Seqs -> Hashes] /\ p # NoHash
  BY <1>2
<1>6. \A i \in Seqs : blocks'[i] = IF i = count_pool THEN p ELSE blocks[i]
  BY <1>2, <1>3, <1>5
<1>7. ASSUME n = count_pool PROVE ~Beyond(n, MaxSeq + 1) /\ Prefix(blocks', n + 1)
  <2>1. ~Beyond(n, MaxSeq + 1)
    BY <1>4, <1>7, SMT DEF Ahead
  <2>2. \A i \in 0..n : blocks'[i] # NoHash
    BY <1>3, <1>5, <1>6, <1>7, SMTT(30) DEF Prefix
  <2>3. n + 1 <= MaxSeq => blocks'[n + 1] = NoHash
    BY <1>3, <1>6, <1>7, <2>1, SMTT(30) DEF Beyond
  <2> QED
    BY <1>3, <1>7, <2>1, <2>2, <2>3, SMTT(30) DEF Prefix
<1>8. ASSUME n < count_pool PROVE Prefix(blocks', n)
  BY <1>3, <1>6, <1>8, SMT DEF Prefix
<1> QED
  BY <1>2, <1>3, <1>4, <1>7, <1>8 DEF Ahead

LEMMA LedgerWriter ==
  BaseInv /\ LedgerInv /\ (Writer \/ WSpurious \/ WPutFails) => LedgerInv'
<1> SUFFICES ASSUME BaseInv, LedgerInv, Writer \/ WSpurious \/ WPutFails PROVE LedgerInv'
  OBVIOUS
<1> USE DEF BaseInv, TypeOK, QueueInv, OneInv, dbVars, callVars, WriterKeeps
<1>1. PICK n \in 0..(MaxSeq + 1) : Prefix(blocks, n) /\ Placed(n)
  BY DEF LedgerInv
<1>2. Numbered /\ OneInv /\ UnderWay
  BY DEF LedgerInv
<1>3. CASE WLock \/ WCheck \/ WWait \/ WSpurious \/ WWake
  <2>1. /\ UNCHANGED <<meta, blocks, count_pool, write_queue, cpc, cur, st, pos, budget>>
        /\ wpc' \notin {"index", "count", "link"} /\ wpc \notin {"index", "count", "link"}
    BY <1>3 DEF WLock, WCheck, WWait, WSpurious, WWake, AfterQueueTest
  <2>2. Prefix(blocks', n) /\ Placed(n)'
    BY <1>1, <2>1 DEF Placed, Ahead, Beyond, NextSeq
  <2> QED
    BY <1>2, <2>1, <2>2 DEF LedgerInv, Numbered, UnderWay
<1>4. CASE WPutBlock
  <2>1. PICK p \in Pools :
           /\ meta[p].seq = count_pool /\ count_pool \in Seqs /\ n <= count_pool
           /\ blocks' = [blocks EXCEPT ![count_pool] = p]
           /\ n = count_pool => ~Beyond(n, MaxSeq + 1) /\ Prefix(blocks', n + 1)
           /\ n < count_pool => Prefix(blocks', n)
    BY <1>1, <1>4, LedgerPut
  <2>2. /\ UNCHANGED <<meta, count_pool, write_queue, cpc, cur, st, pos, budget>>
        /\ wpc' = "index" /\ wpc = "put" /\ write_queue # <<>> /\ cpc = "idle"
        /\ st \notin {"scan", "chain"}
    BY <1>2, <1>4 DEF WPutBlock, Draining
  <2>3. Numbered' /\ OneInv' /\ UnderWay'
    BY <1>2, <2>1, <2>2 DEF Numbered, UnderWay
  <2>4. \A i \in Seqs : blocks'[i] = IF i = count_pool THEN p ELSE blocks[i]
    BY <2>1
  <2>5. CASE n = count_pool
    <3>1. n + 1 \in 0..(MaxSeq + 1) /\ Prefix(blocks', n + 1)
      BY <2>1, <2>5, SMTT(30)
    <3>2. ~Beyond(n + 1, MaxSeq + 1)'
      BY <2>1, <2>4, <2>5, SMTT(30) DEF Beyond
    <3>3. Placed(n + 1)'
      BY <2>2, <2>5, <3>2, SMT DEF Placed, Ahead, NextSeq
    <3> QED
      BY <2>3, <3>1, <3>3 DEF LedgerInv
  <2>6. CASE n < count_pool
    <3>1. Prefix(blocks', n)
      BY <2>1, <2>6
    <3>2. Placed(n)'
      BY <2>1, <2>2, <2>6, SMT DEF Placed, Ahead, NextSeq
    <3> QED
      BY <2>3, <3>1, <3>2 DEF LedgerInv
  <2> QED
    BY <2>1, <2>5, <2>6, SMT
<1>5. CASE WPutIndex \/ WPutFails
  <2>1. /\ UNCHANGED <<meta, blocks, count_pool, write_queue, cpc, cur, st, pos>>
        /\ wpc' = "count" /\ wpc \in {"put", "index"} /\ budget'.resaves = budget.resaves
        /\ write_queue # <<>> /\ st \notin {"scan", "chain"}
    BY <1>5 DEF WPutIndex, WPutFails, Draining, Budget
  <2>2. Prefix(blocks', n) /\ Placed(n)'
    BY <1>1, <2>1, SMT DEF Placed, Ahead, Beyond, NextSeq
  <2> QED
    BY <1>2, <2>1, <2>2 DEF LedgerInv, Numbered, UnderWay
<1>6. CASE WCount
  <2>1. /\ UNCHANGED <<meta, blocks, write_queue, cpc, cur, st, pos, budget>>
        /\ wpc' = "link" /\ wpc = "count" /\ count_pool' = count_pool + 1
        /\ write_queue # <<>> /\ st \notin {"scan", "chain"} /\ cpc = "idle"
    BY <1>2, <1>6 DEF WCount, Draining
  <2>2. Prefix(blocks', n) /\ Placed(n)'
    BY <1>1, <2>1 DEF Placed, Ahead, Beyond, NextSeq
  <2> QED
    BY <1>2, <2>1, <2>2 DEF LedgerInv, Numbered, UnderWay
<1>7. CASE WLink
  <2>1. /\ UNCHANGED <<meta, blocks, count_pool, cpc, cur, st, pos, budget>>
        /\ wpc = "link" /\ write_queue # <<>> /\ Len(write_queue) = 1 /\ cpc = "idle"
        /\ write_queue' = Tail(write_queue)
        /\ wpc' = AfterQueueTest(Tail(write_queue))
        /\ st \notin {"scan", "chain"}
    BY <1>2, <1>7 DEF WLink, Draining
  <2>2. write_queue' = <<>> /\ wpc' = "check"
    BY <2>1, SMT DEF AfterQueueTest
  <2>3. Prefix(blocks', n) /\ Placed(n)'
    BY <1>1, <2>1, <2>2 DEF Placed, Ahead, Beyond, NextSeq
  <2> QED
    BY <1>2, <2>1, <2>2, <2>3 DEF LedgerInv, Numbered, UnderWay
<1> QED
  BY <1>3, <1>4, <1>5, <1>6, <1>7 DEF Writer

LEMMA LedgerStep ==
  ASSUME MaxPending = 1
  PROVE  BaseInv /\ LedgerInv /\ [Next]_vars => LedgerInv'
<1> SUFFICES ASSUME BaseInv, LedgerInv, [Next]_vars PROVE LedgerInv'
  OBVIOUS
<1> USE DEF LedgerInv, Numbered, OneInv, UnderWay, Placed, Ahead, Beyond, NextSeq
<1>1. CASE Close \/ SetQuit \/ NotifyQuit
  <2>1. /\ UNCHANGED <<meta, blocks, count_pool, write_queue, pos, budget>>
        /\ st' \notin {"scan", "chain", "open"} /\ cpc = "idle" /\ cpc' = "idle"
        /\ wpc' = wpc \/ (wpc = "waiting" /\ wpc' = "woken")
    BY <1>1 DEF Close, SetQuit, NotifyQuit, Notified, dbVars, callVars
  <2> QED
    BY <2>1, ZenonT(40)
<1>2. CASE Join \/ Crash
  <2>1. /\ UNCHANGED <<meta, blocks>> /\ write_queue' = <<>> /\ st' = "closed"
        /\ cpc' = "idle"
        /\ budget'.resaves = budget.resaves
    BY <1>2 DEF Join, Crash, Vanish, Budget, dbVars, BaseInv, TypeOK
  <2> QED
    BY <2>1
<1>3. CASE UNCHANGED vars
  BY <1>3, SMT DEF vars
<1> QED
  BY <1>1, <1>2, <1>3, LedgerOpening, LedgerCaller, LedgerWriter DEF Next, Closing

(* Every step of the store is a step of the ledger or none. *)
LEMMA StepRefined == BaseInv /\ LedgerInv /\ [Next]_vars => [L!Next]_History
<1> SUFFICES ASSUME BaseInv, LedgerInv, [Next]_vars, ~UNCHANGED History PROVE L!Next
  OBVIOUS
<1>1. WPutBlock
  <2>1. WPutBlock \/ UNCHANGED blocks
    BY DEF Next, vars, Opening, Open, OpenFails, RescanCount, RescanChain, Caller,
           ReadLastHash, Resave, ReadSizeAndCompose, CheckPresent, Push, Writer, WLock,
           WCheck, WWait, WSpurious, WWake, WPutIndex, WPutFails, WCount, WLink,
           WriterKeeps, Closing, Close, SetQuit, NotifyQuit, Join, Crash, Vanish, dbVars
  <2> QED
    BY <2>1 DEF History
<1>2. PICK n \in 0..(MaxSeq + 1) : Prefix(blocks, n) /\ Placed(n)
  BY DEF LedgerInv
<1>3. PICK p \in Pools :
           /\ meta[p].seq = count_pool /\ count_pool \in Seqs /\ n <= count_pool
           /\ blocks' = [blocks EXCEPT ![count_pool] = p]
           /\ n = count_pool => ~Beyond(n, MaxSeq + 1) /\ Prefix(blocks', n + 1)
           /\ n < count_pool => Prefix(blocks', n)
  BY <1>1, <1>2, LedgerPut
<1>4. History = [i \in 1..n |-> blocks[i - 1]]
  BY <1>2, HistoryIs DEF History
<1>5. blocks \in [Seqs -> Hashes]
  BY DEF BaseInv, TypeOK
<1>6. \A i \in Seqs : blocks'[i] = IF i = count_pool THEN p ELSE blocks[i]
  BY <1>3, <1>5
<1>7. n = count_pool
  <2> SUFFICES ASSUME n < count_pool PROVE FALSE
    BY <1>3, SMT
  <2>1. History' = [i \in 1..n |-> blocks'[i - 1]]
    <3>1. Prefix(blocks', n)
      BY <1>3
    <3> QED
      BY <3>1, HistoryIs DEF History
  <2>2. \A i \in 1..n : blocks'[i - 1] = blocks[i - 1]
    BY <1>3, <1>6, SMT
  <2> QED
    BY <1>4, <2>1, <2>2
<1>8. History' = [i \in 1..(n + 1) |-> blocks'[i - 1]]
  <2>1. n + 1 \in 0..(MaxSeq + 1) /\ Prefix(blocks', n + 1)
    BY <1>3, <1>7, SMT
  <2> QED
    BY <2>1, HistoryIs DEF History
<1>10. History' = Append(History, p)
  BY <1>3, <1>4, <1>5, <1>7, <1>8, HoleFilled, SMTT(30)
<1>11. \A i \in DOMAIN History : History[i] # p
  <2> SUFFICES ASSUME NEW i \in 1..n PROVE History[i] # p
    BY <1>4
  <2>1. i - 1 \in Seqs /\ blocks[i - 1] # NoHash /\ History[i] = blocks[i - 1]
    BY <1>2, <1>3, <1>4, <1>7, SMT DEF Prefix
  <2>2. meta[blocks[i - 1]].seq = i - 1
    BY <2>1 DEF LedgerInv, Numbered
  <2> QED
    BY <1>3, <1>7, <2>1, <2>2, SMT
<1> QED
  BY <1>3, <1>10, <1>11 DEF L!Next, L!Append1

(* The durable history is an append-only ledger: no write, failed put,     *)
(* crash or restart rewrites it, shortens it, adds several blocks at once  *)
(* or a block it already has. This is for a node that lets write_routine   *)
(* finish a block before it composes the next one, and hands no block to   *)
(* pool_save twice.                                                        *)
THEOREM LedgerRefined ==
  ASSUME MaxPending = 1, MaxResaves = 0
  PROVE  Spec => ImplementsLedger
<1>1. Init => L!Init
  <2> SUFFICES ASSUME Init PROVE History = <<>>
    BY DEF L!Init
  <2>1. Prefix(blocks, 0)
    BY SMT DEF Init, Prefix
  <2>2. History = [i \in 1..0 |-> blocks[i - 1]]
    BY <2>1, HistoryIs, SMT DEF History
  <2> QED
    BY <2>2, SMT
<1> QED
  BY <1>1, LedgerInit, LedgerStep, StepRefined, BaseAlways, PTL
     DEF Spec, ImplementsLedger, L!Spec
=============================================================================
