------------------------------ MODULE Balance ------------------------------
(***************************************************************************)
(* BlockChain::getBalance and its cache, called by API connections (one    *)
(* thread each) while the chain grows. The chain is the one the block      *)
(* store keeps: a reader sees its newest block and follows previous_hash,  *)
(* so a hash is the position of its block and 0 is the empty hash.         *)
(*                                                                         *)
(* One address is followed: balancesCache_ treats addresses separately. Of *)
(* a block the walk needs its effect on that address: what the address     *)
(* receives in it and, if the address is a source in it, the balance the   *)
(* last such transaction records.                                          *)
(***************************************************************************)
EXTENDS Integers, Sequences

CONSTANTS
  Threads,     \* API connections that call getBalance
  Effects,     \* possible effects of a block on the address
  MaxBlocks,   \* bound: length of the chain
  None         \* no cache entry yet, no balance returned yet

ASSUME BalanceAssumption ==
  /\ Effects \subseteq [role : {"source", "other"}, bal : Nat, recv : Nat]
  /\ MaxBlocks \in Nat
  /\ None \notin Nat

VARIABLES
  chain,     \* effects of the stored blocks, oldest first
  truth,     \* truth[n+1]: the balance after the first n blocks
  cache,     \* balancesCache_[address]: hash and balance
  pc,        \* where a thread is in getBalance
  lastHash,  \* its lastHash
  checked,   \* its lastCheckedHash and cachedBalance
  curr,      \* the block its walk stands at, 0 for an invalid Pool
  result,    \* its result
  answer     \* the last balance it returned, with the tip it is for

callVars == <<pc, lastHash, checked, curr, result, answer>>
vars == <<chain, truth, cache, pc, lastHash, checked, curr, result, answer>>

Truth(n) == truth[n + 1]

Init ==
  /\ chain = <<>>
  /\ truth = <<0>>
  /\ cache = [hash |-> None, bal |-> 0]
  /\ pc = [t \in Threads |-> "idle"]
  /\ lastHash = [t \in Threads |-> 0]
  /\ checked = [t \in Threads |-> [hash |-> 0, bal |-> 0]]
  /\ curr = [t \in Threads |-> 0]
  /\ result = [t \in Threads |-> 0]
  /\ answer = [t \in Threads |-> [hash |-> None, bal |-> 0]]

(* What one block adds to the result of a walk. *)
Gain(e) == IF e.role = "source" THEN e.recv + e.bal ELSE e.recv

(* The balance after a block that follows a balance of b. *)
Settle(e, b) == IF e.role = "source" THEN Gain(e) ELSE Gain(e) + b

(* The writer thread makes a new block the last one. *)
AppendBlock(e) ==
  /\ Len(chain) < MaxBlocks
  /\ chain' = Append(chain, e)
  /\ truth' = Append(truth, Settle(e, Truth(Len(chain))))
  /\ UNCHANGED <<cache, callVars>>

(* lastHash = getLastHash(), under dbLock_. *)
GetLastHash(t) ==
  /\ pc[t] = "idle"
  /\ lastHash' = [lastHash EXCEPT ![t] = Len(chain)]
  /\ pc' = [pc EXCEPT ![t] = "find"]
  /\ UNCHANGED <<chain, truth, cache, checked, curr, result, answer>>

(* balancesCache_.find(address), outside any lock: no entry reads as the   *)
(* balance 0 of the empty hash.                                            *)
Found == IF cache.hash = None THEN [hash |-> 0, bal |-> 0] ELSE cache

(* A hit for the tip is the answer. *)
CacheHit(t) ==
  /\ pc[t] = "find"
  /\ cache.hash = lastHash[t]
  /\ answer' = [answer EXCEPT ![t] = cache]
  /\ pc' = [pc EXCEPT ![t] = "idle"]
  /\ UNCHANGED <<chain, truth, cache, lastHash, checked, curr, result>>

(* Otherwise the walk starts at the tip: loadBlock(lastHash). *)
StartWalk(t) ==
  /\ pc[t] = "find"
  /\ cache.hash # lastHash[t]
  /\ checked' = [checked EXCEPT ![t] = Found]
  /\ curr' = [curr EXCEPT ![t] = lastHash[t]]
  /\ result' = [result EXCEPT ![t] = 0]
  /\ pc' = [pc EXCEPT ![t] = "walk"]
  /\ UNCHANGED <<chain, truth, cache, lastHash, answer>>

(* The while condition: a valid block that the cache does not cover. *)
Continues(t) == curr[t] # 0 /\ curr[t] # checked[t].hash

(* A block in which the address is a source ends the walk. *)
WalkSource(t) ==
  /\ pc[t] = "walk"
  /\ Continues(t)
  /\ chain[curr[t]].role = "source"
  /\ result' = [result EXCEPT ![t] = @ + Gain(chain[curr[t]])]
  /\ pc' = [pc EXCEPT ![t] = "store"]
  /\ UNCHANGED <<chain, truth, cache, lastHash, checked, curr, answer>>

(* Mutant: a block that does not concern the address is not left again. *)
WalkBackStays(t) ==
  /\ pc[t] = "walk"
  /\ Continues(t)
  /\ chain[curr[t]].role # "source"
  /\ result' = [result EXCEPT ![t] = @ + Gain(chain[curr[t]])]
  /\ curr' = [curr EXCEPT ![t] = IF chain[@].recv = 0 THEN @ ELSE @ - 1]
  /\ UNCHANGED <<chain, truth, cache, pc, lastHash, checked, answer>>

(* Any other block adds what it pays: loadBlock(curr.previous_hash()). *)
WalkBack(t) ==
  /\ pc[t] = "walk"
  /\ Continues(t)
  /\ chain[curr[t]].role # "source"
  /\ result' = [result EXCEPT ![t] = @ + Gain(chain[curr[t]])]
  /\ curr' = [curr EXCEPT ![t] = @ - 1]
  /\ UNCHANGED <<chain, truth, cache, pc, lastHash, checked, answer>>

(* Mutant: the cached balance is forgotten. *)
WalkEndsWithout(t) ==
  /\ pc[t] = "walk"
  /\ ~Continues(t)
  /\ pc' = [pc EXCEPT ![t] = "store"]
  /\ UNCHANGED <<chain, truth, cache, lastHash, checked, curr, result, answer>>

(* The walk ended without a source: if (!foundSource) result += cachedBalance. *)
WalkEnds(t) ==
  /\ pc[t] = "walk"
  /\ ~Continues(t)
  /\ result' = [result EXCEPT ![t] = @ + checked[t].bal]
  /\ pc' = [pc EXCEPT ![t] = "store"]
  /\ UNCHANGED <<chain, truth, cache, lastHash, checked, curr, answer>>

(* balancesCache_[address] = (lastHash, result); return result. *)
StoreAndReturn(t) ==
  /\ pc[t] = "store"
  /\ cache' = [hash |-> lastHash[t], bal |-> result[t]]
  /\ answer' = [answer EXCEPT ![t] = [hash |-> lastHash[t], bal |-> result[t]]]
  /\ pc' = [pc EXCEPT ![t] = "idle"]
  /\ UNCHANGED <<chain, truth, lastHash, checked, curr, result>>

Step(t) == \/ CacheHit(t) \/ StartWalk(t) \/ WalkSource(t) \/ WalkBack(t)
           \/ WalkEnds(t) \/ StoreAndReturn(t)

Next == \/ \E e \in Effects : AppendBlock(e)
        \/ \E t \in Threads : GetLastHash(t) \/ Step(t)

Spec == Init /\ [][Next]_vars

(* A connection's thread that has begun a call is scheduled. *)
FairSpec == Spec /\ \A t \in Threads : WF_vars(Step(t))

-----------------------------------------------------------------------------
Heights == 0..Len(chain)
Entries == [hash : Heights, bal : Nat]

TypeOK ==
  /\ chain \in Seq(Effects)
  /\ truth \in Seq(Nat) /\ Len(truth) = Len(chain) + 1
  /\ cache \in [hash : Heights \cup {None}, bal : Nat]
  /\ pc \in [Threads -> {"idle", "find", "walk", "store"}]
  /\ lastHash \in [Threads -> Heights]
  /\ checked \in [Threads -> Entries]
  /\ curr \in [Threads -> Heights]
  /\ result \in [Threads -> Nat]
  /\ answer \in [Threads -> [hash : Heights \cup {None}, bal : Nat]]

(* With one connection the cache is invisible: every balance returned is   *)
(* the balance of the chain that ended in the block the call started from, *)
(* however many blocks arrived before, during and between the calls.       *)
AnswerExact ==
  \A t \in Threads : answer[t].hash # None => answer[t].bal = Truth(answer[t].hash)

(* With any number of connections, whose reads and writes of the cache     *)
(* interleave freely, a balance is never understated.                      *)
NeverUnderstated ==
  \A t \in Threads : answer[t].hash # None => answer[t].bal >= Truth(answer[t].hash)

(* A call returns although blocks keep arriving: it walks a fixed past. *)
CallReturns == \A t \in Threads : pc[t] # "idle" ~> pc[t] = "idle"
=============================================================================
