----------------------------- MODULE ApiProofs ------------------------------
(***************************************************************************)
(* Proofs about parts below the API, for every number of connections:      *)
(* balances, the requests for smart contracts, the statistics thread.      *)
(***************************************************************************)
EXTENDS Balance, ContractFlow, Stats, FiniteSetTheorems, TLAPS

USE Zenon

(* Balances. *)

(* The reference balance as the walk of getBalance sees it: block by block. *)
TruthInv ==
  /\ Truth(0) = 0
  /\ \A n \in 1..Len(chain) :
       Truth(n) = Settle(chain[n], Truth(n - 1))

(* A walk that stands at block curr has collected what lies above it. *)
WalkInv ==
  \A t \in Threads :
    /\ pc[t] = "walk" => /\ curr[t] <= lastHash[t]
                         /\ result[t] + Truth(curr[t]) = Truth(lastHash[t])

(* Cached, remembered and computed balances are not below the reference. *)
LowerInv ==
  /\ cache.hash # None => cache.bal >= Truth(cache.hash)
  /\ \A t \in Threads : /\ checked[t].bal >= Truth(checked[t].hash)
                        /\ pc[t] = "store" => result[t] >= Truth(lastHash[t])
  /\ NeverUnderstated

Inv == TypeOK /\ TruthInv /\ WalkInv /\ LowerInv

(* A block adds a natural number, and a source settles the balance. *)
LEMMA GainType ==
  ASSUME NEW e \in Effects, NEW b \in Nat
  PROVE  /\ Gain(e) \in Nat /\ Settle(e, b) \in Nat
         /\ e.role = "source" => Settle(e, b) = Gain(e)
         /\ e.role # "source" => Settle(e, b) = Gain(e) + b
<1>1. e.recv \in Nat /\ e.bal \in Nat
  BY BalanceAssumption
<1>2. Gain(e) \in Nat
  BY <1>1, SMT DEF Gain
<1> QED
  BY <1>2, SMT DEF Settle

LEMMA TruthType ==
  ASSUME TypeOK, NEW n \in Heights
  PROVE  Truth(n) \in Nat
BY SMT DEF TypeOK, Heights, Truth

LEMMA InvInit == Init => Inv
<1> SUFFICES ASSUME Init PROVE Inv
  OBVIOUS
<1>1. chain = <<>> /\ truth = <<0>> /\ Len(chain) = 0 /\ Len(truth) = 1 /\ Truth(0) = 0
  BY SMT DEF Init, Truth
<1>2. TypeOK
  BY <1>1, SMT DEF Init, TypeOK, Heights, Entries
<1>3. TruthInv /\ WalkInv /\ LowerInv
  BY <1>1, SMT DEF Init, TruthInv, WalkInv, LowerInv, NeverUnderstated
<1> QED
  BY <1>2, <1>3 DEF Inv

(* A new block changes no balance that was already defined. *)
LEMMA InvAppend ==
  ASSUME Inv, NEW e \in Effects, AppendBlock(e)
  PROVE  Inv'
<1> USE DEF Inv
<1>1. /\ chain' = Append(chain, e) /\ Len(chain) \in Nat /\ Len(chain') = Len(chain) + 1
      /\ UNCHANGED <<cache, pc, lastHash, checked, curr, result, answer>>
      /\ truth' = Append(truth, Settle(e, Truth(Len(chain))))
  BY SMT DEF AppendBlock, callVars, TypeOK
<1>2. Truth(Len(chain)) \in Nat /\ Settle(e, Truth(Len(chain))) \in Nat
  <2>1. Len(chain) \in Heights
    BY <1>1, SMT DEF Heights
  <2>2. Truth(Len(chain)) \in Nat
    BY <2>1, TruthType
  <2> QED
    BY <2>2, GainType
<1>3. truth' \in Seq(Nat) /\ Len(truth') = Len(chain') + 1
  BY <1>1, <1>2, SMT DEF TypeOK
<1>4. \A n \in Heights : n \in Heights' /\ Truth(n)' = Truth(n)
  BY <1>1, SMT DEF TypeOK, Heights, Truth
<1>5. TypeOK'
  <2>1. chain' \in Seq(Effects)
    BY <1>1, SMT DEF TypeOK
  <2>2. Heights \subseteq Heights'
    BY <1>4
  <2> QED
    BY <1>1, <1>3, <2>1, <2>2 DEF TypeOK, Entries
<1>6. TruthInv'
  <2>1. Truth(0)' = 0
    BY <1>1, <1>4, SMT DEF TruthInv, Heights
  <2>2. ASSUME NEW n \in 1..Len(chain')
        PROVE  (Truth(n) = Settle(chain[n], Truth(n - 1)))'
    <3>1. CASE n = Len(chain')
      <4>1. chain'[n] = e
        BY <1>1, <3>1, SMT DEF TypeOK
      <4>2. Truth(n)' = Settle(e, Truth(Len(chain)))
        BY <1>1, <1>3, <3>1, SMT DEF TypeOK, Truth
      <4>3. Truth(n - 1)' = Truth(Len(chain))
        BY <1>1, <1>4, <3>1, SMT DEF Heights
      <4> QED
        BY <4>1, <4>2, <4>3
    <3>2. CASE n # Len(chain')
      <4>1. n \in 1..Len(chain) /\ chain'[n] = chain[n] /\ n \in Heights /\ n - 1 \in Heights
        BY <1>1, <3>2, SMT DEF TypeOK, Heights
      <4> QED
        BY <1>4, <4>1 DEF TruthInv
    <3> QED
      BY <3>1, <3>2
  <2> QED
    BY <2>1, <2>2 DEF TruthInv
<1>7. WalkInv'
  BY <1>1, <1>4 DEF TypeOK, WalkInv
<1>8. LowerInv'
  BY <1>1, <1>4 DEF TypeOK, LowerInv, NeverUnderstated, Entries
<1> QED
  BY <1>5, <1>6, <1>7, <1>8

(* A step of a call leaves the chain and its reference balances alone. *)
LEMMA CallFrame ==
  ASSUME Inv, NEW t \in Threads, GetLastHash(t) \/ Step(t)
  PROVE  /\ chain' = chain /\ truth' = truth /\ TruthInv'
         /\ Heights' = Heights /\ Entries' = Entries
         /\ \A n \in Heights : Truth(n)' = Truth(n)
<1>1. UNCHANGED <<chain, truth>>
  BY DEF GetLastHash, Step, CacheHit, StartWalk, WalkSource, WalkBack, WalkEnds, StoreAndReturn
<1>2. Heights' = Heights
  BY <1>1 DEF Heights
<1> QED
  BY <1>1, <1>2 DEF Inv, TruthInv, Entries, Truth

(* What the types say about one thread. *)
LEMMA ThreadType ==
  ASSUME TypeOK, NEW t \in Threads
  PROVE  /\ lastHash[t] \in Heights /\ curr[t] \in Heights /\ result[t] \in Nat
         /\ checked[t].hash \in Heights /\ checked[t].bal \in Nat
         /\ 0 \in Heights /\ Heights \subseteq Nat /\ Len(chain) \in Nat
BY SMT DEF TypeOK, Heights, Entries

LEMMA GetLastHashInv ==
  ASSUME Inv, NEW t \in Threads, GetLastHash(t)
  PROVE  Inv'
<1>1. /\ chain' = chain /\ truth' = truth /\ TruthInv' /\ Heights' = Heights
      /\ Entries' = Entries /\ \A n \in Heights : Truth(n)' = Truth(n)
  BY CallFrame
<1>2. TypeOK'
  BY <1>1, SMTT(30) DEF GetLastHash, Inv, TypeOK, Heights
<1>3. WalkInv' /\ LowerInv'
  BY <1>1 DEF GetLastHash, Inv, TypeOK, WalkInv, LowerInv, NeverUnderstated, Entries
<1> QED
  BY <1>1, <1>2, <1>3 DEF Inv

LEMMA CacheHitInv ==
  ASSUME Inv, NEW t \in Threads, CacheHit(t)
  PROVE  Inv'
<1>1. /\ chain' = chain /\ truth' = truth /\ TruthInv' /\ Heights' = Heights
      /\ Entries' = Entries /\ \A n \in Heights : Truth(n)' = Truth(n)
  BY CallFrame DEF Step
<1>2. cache.hash # None
  BY ThreadType, BalanceAssumption DEF Inv, CacheHit
<1>3. TypeOK'
  BY <1>1 DEF CacheHit, Inv, TypeOK
<1>4. WalkInv' /\ LowerInv'
  BY <1>1, <1>2, SMT DEF CacheHit, Inv, TypeOK, WalkInv, LowerInv, NeverUnderstated, Entries
<1> QED
  BY <1>1, <1>3, <1>4 DEF Inv

LEMMA StartWalkInv ==
  ASSUME Inv, NEW t \in Threads, StartWalk(t)
  PROVE  Inv'
<1>1. /\ chain' = chain /\ truth' = truth /\ TruthInv' /\ Heights' = Heights
      /\ Entries' = Entries /\ \A n \in Heights : Truth(n)' = Truth(n)
  BY CallFrame DEF Step
<1>2. Found \in Entries /\ Found.bal >= Truth(Found.hash)
  <2>1. Truth(0) = 0 /\ 0 \in Heights
    BY ThreadType DEF Inv, TruthInv
  <2>2. CASE cache.hash = None
    BY <2>1, <2>2, SMT DEF Found, Entries
  <2>3. CASE cache.hash # None
    BY <2>3 DEF Inv, TypeOK, LowerInv, Found, Entries
  <2> QED
    BY <2>2, <2>3
<1>3. /\ checked' = [checked EXCEPT ![t] = Found]
      /\ curr' = [curr EXCEPT ![t] = lastHash[t]]
      /\ result' = [result EXCEPT ![t] = 0]
      /\ pc' = [pc EXCEPT ![t] = "walk"]
      /\ UNCHANGED <<cache, lastHash, answer>>
  BY DEF StartWalk
<1>4. TypeOK'
  BY <1>1, <1>2, <1>3 DEF Inv, TypeOK
<1>5. WalkInv'
  <2> SUFFICES ASSUME NEW u \in Threads, pc'[u] = "walk"
               PROVE  (curr[u] <= lastHash[u] /\ result[u] + Truth(curr[u]) = Truth(lastHash[u]))'
    BY DEF WalkInv
  <2>1. Truth(lastHash[u]) \in Nat /\ lastHash[u] \in Heights /\ curr[u] \in Heights /\ lastHash[u] \in Nat
    BY TruthType, ThreadType DEF Inv
  <2>2. CASE u = t
    <3>1. curr'[u] = lastHash[u] /\ result'[u] = 0 /\ lastHash'[u] = lastHash[u]
      BY <1>3, <2>2 DEF Inv, TypeOK
    <3> QED
      BY <1>1, <2>1, <3>1, SMT DEF Truth
  <2>3. CASE u # t
    <3>1. pc[u] = "walk" /\ curr'[u] = curr[u] /\ result'[u] = result[u] /\ lastHash'[u] = lastHash[u]
      BY <1>3, <2>3 DEF Inv, TypeOK
    <3> QED
      BY <1>1, <2>1, <3>1 DEF Inv, WalkInv, Truth
  <2> QED
    BY <2>2, <2>3
<1>6. LowerInv'
  BY <1>1, <1>2, <1>3 DEF Inv, TypeOK, LowerInv, NeverUnderstated, Entries, Truth
<1> QED
  BY <1>1, <1>4, <1>5, <1>6 DEF Inv

(* What a block of the walk contributes. *)
LEMMA WalkFacts ==
  ASSUME Inv, NEW t \in Threads, pc[t] = "walk", Continues(t)
  PROVE  /\ chain[curr[t]] \in Effects /\ Gain(chain[curr[t]]) \in Nat
         /\ curr[t] - 1 \in Heights /\ curr[t] - 1 <= lastHash[t]
         /\ chain[curr[t]].role = "source" =>
              result[t] + Gain(chain[curr[t]]) = Truth(lastHash[t])
         /\ chain[curr[t]].role # "source" =>
              result[t] + Gain(chain[curr[t]]) + Truth(curr[t] - 1) = Truth(lastHash[t])
<1>1. curr[t] \in Nat /\ curr[t] # 0 /\ curr[t] \in 1..Len(chain) /\ Len(chain) \in Nat
  BY ThreadType, SMT DEF Inv, Continues, Heights
<1>2. curr[t] - 1 \in Heights /\ curr[t] <= lastHash[t] /\ lastHash[t] \in Nat /\ result[t] \in Nat
  BY <1>1, ThreadType, SMT DEF Inv, WalkInv, Heights
<1>3. chain[curr[t]] \in Effects
  BY <1>1, SMT DEF Inv, TypeOK
<1>4. Truth(curr[t] - 1) \in Nat
  BY <1>2, TruthType DEF Inv
<1>5. Truth(curr[t]) = Settle(chain[curr[t]], Truth(curr[t] - 1))
  BY <1>1 DEF Inv, TruthInv
<1>6. result[t] + Truth(curr[t]) = Truth(lastHash[t])
  BY DEF Inv, WalkInv
<1>7. Gain(chain[curr[t]]) \in Nat
  BY <1>3, <1>4, GainType
<1>8. chain[curr[t]].role = "source" => Truth(curr[t]) = Gain(chain[curr[t]])
  BY <1>3, <1>4, <1>5, GainType
<1>9. chain[curr[t]].role # "source" => Truth(curr[t]) = Gain(chain[curr[t]]) + Truth(curr[t] - 1)
  BY <1>3, <1>4, <1>5, GainType
<1> QED
  BY <1>1, <1>2, <1>3, <1>4, <1>6, <1>7, <1>8, <1>9, SMTT(30)

LEMMA WalkSourceInv ==
  ASSUME Inv, NEW t \in Threads, WalkSource(t)
  PROVE  Inv'
<1>1. /\ chain' = chain /\ truth' = truth /\ TruthInv' /\ Heights' = Heights
      /\ Entries' = Entries /\ \A n \in Heights : Truth(n)' = Truth(n)
  BY CallFrame DEF Step
<1> DEFINE r == result[t] + Gain(chain[curr[t]])
<1>2. r = Truth(lastHash[t]) /\ r \in Nat
  BY WalkFacts, ThreadType, SMT DEF WalkSource, Inv
<1>3. /\ result' = [result EXCEPT ![t] = r]
      /\ pc' = [pc EXCEPT ![t] = "store"]
      /\ UNCHANGED <<cache, lastHash, checked, curr, answer>>
  BY DEF WalkSource
<1> HIDE DEF r
<1>4. TypeOK'
  BY <1>1, <1>2, <1>3 DEF Inv, TypeOK
<1>5. WalkInv' /\ LowerInv'
  BY <1>1, <1>2, <1>3, SMTT(30) DEF Inv, TypeOK, WalkInv, LowerInv, NeverUnderstated, Truth
<1> QED
  BY <1>1, <1>4, <1>5 DEF Inv

LEMMA WalkBackInv ==
  ASSUME Inv, NEW t \in Threads, WalkBack(t)
  PROVE  Inv'
<1>1. /\ chain' = chain /\ truth' = truth /\ TruthInv' /\ Heights' = Heights
      /\ Entries' = Entries /\ \A n \in Heights : Truth(n)' = Truth(n)
  BY CallFrame DEF Step
<1> DEFINE r == result[t] + Gain(chain[curr[t]])
           c == curr[t] - 1
<1>2. r + Truth(c) = Truth(lastHash[t]) /\ r \in Nat /\ c \in Heights /\ c <= lastHash[t]
  BY WalkFacts, ThreadType, SMT DEF WalkBack, Inv
<1>3. /\ result' = [result EXCEPT ![t] = r]
      /\ curr' = [curr EXCEPT ![t] = c]
      /\ UNCHANGED <<cache, pc, lastHash, checked, answer>>
      /\ pc[t] = "walk"
  BY DEF WalkBack
<1> HIDE DEF r, c
<1>4. TypeOK'
  BY <1>1, <1>2, <1>3 DEF Inv, TypeOK
<1>5. WalkInv'
  BY <1>1, <1>2, <1>3 DEF Inv, TypeOK, WalkInv, Truth
<1>6. LowerInv'
  BY <1>1, <1>3 DEF Inv, TypeOK, LowerInv, NeverUnderstated, Truth
<1> QED
  BY <1>1, <1>4, <1>5, <1>6 DEF Inv

LEMMA WalkEndsInv ==
  ASSUME Inv, NEW t \in Threads, WalkEnds(t)
  PROVE  Inv'
<1>1. /\ chain' = chain /\ truth' = truth /\ TruthInv' /\ Heights' = Heights
      /\ Entries' = Entries /\ \A n \in Heights : Truth(n)' = Truth(n)
  BY CallFrame DEF Step
<1> DEFINE r == result[t] + checked[t].bal
<1>2. r >= Truth(lastHash[t]) /\ r \in Nat
  <2>1. /\ result[t] \in Nat /\ checked[t].bal \in Nat /\ checked[t].hash \in Heights
        /\ Truth(checked[t].hash) \in Nat /\ checked[t].bal >= Truth(checked[t].hash)
        /\ result[t] + Truth(curr[t]) = Truth(lastHash[t]) /\ Truth(0) = 0
        /\ curr[t] = 0 \/ curr[t] = checked[t].hash
    BY ThreadType, TruthType DEF WalkEnds, Continues, Inv, WalkInv, LowerInv, TruthInv
  <2> QED
    BY <2>1, SMT
<1>3. /\ result' = [result EXCEPT ![t] = r]
      /\ pc' = [pc EXCEPT ![t] = "store"]
      /\ UNCHANGED <<cache, lastHash, checked, curr, answer>>
  BY DEF WalkEnds
<1> HIDE DEF r
<1>4. TypeOK'
  BY <1>1, <1>2, <1>3 DEF Inv, TypeOK
<1>5. WalkInv' /\ LowerInv'
  BY <1>1, <1>2, <1>3 DEF Inv, TypeOK, WalkInv, LowerInv, NeverUnderstated, Truth
<1> QED
  BY <1>1, <1>4, <1>5 DEF Inv

LEMMA StoreInv ==
  ASSUME Inv, NEW t \in Threads, StoreAndReturn(t)
  PROVE  Inv'
<1>1. /\ chain' = chain /\ truth' = truth /\ TruthInv' /\ Heights' = Heights
      /\ Entries' = Entries /\ \A n \in Heights : Truth(n)' = Truth(n)
  BY CallFrame DEF Step
<1>2. result[t] >= Truth(lastHash[t]) /\ lastHash[t] \in Heights /\ result[t] \in Nat
  BY ThreadType DEF StoreAndReturn, Inv, LowerInv
<1>3. /\ cache' = [hash |-> lastHash[t], bal |-> result[t]]
      /\ answer' = [answer EXCEPT ![t] = [hash |-> lastHash[t], bal |-> result[t]]]
      /\ pc' = [pc EXCEPT ![t] = "idle"]
      /\ UNCHANGED <<lastHash, checked, curr, result>>
  BY DEF StoreAndReturn
<1>4. TypeOK'
  BY <1>1, <1>2, <1>3 DEF Inv, TypeOK
<1>5. WalkInv'
  BY <1>1, <1>3 DEF Inv, TypeOK, WalkInv, Truth
<1>6. LowerInv'
  BY <1>1, <1>2, <1>3 DEF Inv, TypeOK, LowerInv, NeverUnderstated, Truth
<1> QED
  BY <1>1, <1>4, <1>5, <1>6 DEF Inv

LEMMA InvAlways == Spec => []Inv
<1>1. Inv /\ [Next]_vars => Inv'
  <2> SUFFICES ASSUME Inv, [Next]_vars PROVE Inv'
    OBVIOUS
  <2>1. CASE UNCHANGED vars
    BY <2>1 DEF vars, Inv, TypeOK, Heights, Entries, TruthInv, WalkInv, LowerInv,
                NeverUnderstated, Truth
  <2> QED
    BY <2>1, InvAppend, GetLastHashInv, CacheHitInv, StartWalkInv, WalkSourceInv, WalkBackInv,
       WalkEndsInv, StoreInv DEF Next, Step
<1> QED
  BY <1>1, InvInit, PTL DEF Spec

(* However many API connections race on balancesCache_, getBalance never   *)
(* returns less than the chain it started from says.                       *)
THEOREM NotUnderstated == Spec => []NeverUnderstated
BY InvAlways, PTL DEF Inv, LowerInv

-----------------------------------------------------------------------------
(* One connection: the cache never runs ahead of the call that reads it,  *)
(* so the walk always meets the cached block.                              *)

ExactInv ==
  /\ cache.hash # None => cache.bal = Truth(cache.hash)
  /\ \A t \in Threads :
       /\ checked[t].bal = Truth(checked[t].hash)
       /\ pc[t] \in {"find", "walk", "store"} => cache.hash = None \/ cache.hash <= lastHash[t]
       /\ pc[t] = "walk" => checked[t].hash <= curr[t]
       /\ pc[t] = "store" => result[t] = Truth(lastHash[t])
  /\ AnswerExact

(* An exact invariant is untouched where nothing it mentions changes. *)
LEMMA ExactAppend ==
  ASSUME Inv, ExactInv, NEW e \in Effects, AppendBlock(e)
  PROVE  ExactInv'
<1>1. /\ UNCHANGED <<cache, pc, lastHash, checked, curr, result, answer>>
      /\ truth' = Append(truth, Settle(e, Truth(Len(chain))))
  BY DEF AppendBlock, callVars
<1>2. \A n \in Heights : Truth(n)' = Truth(n)
  <2>1. Truth(Len(chain)) \in Nat /\ Settle(e, Truth(Len(chain))) \in Nat
    <3>1. Len(chain) \in Heights
      BY SMT DEF Inv, TypeOK, Heights
    <3>2. Truth(Len(chain)) \in Nat
      BY <3>1, TruthType DEF Inv
    <3> QED
      BY <3>2, GainType
  <2> QED
    BY <1>1, <2>1, SMT DEF Inv, TypeOK, Heights, Truth
<1> QED
  BY <1>1, <1>2, ZenonT(40) DEF Inv, TypeOK, ExactInv, AnswerExact, Entries

LEMMA ExactCall ==
  ASSUME Inv, ExactInv, NEW t \in Threads, \A u \in Threads : u = t, GetLastHash(t) \/ Step(t)
  PROVE  ExactInv'
<1>1. /\ truth' = truth /\ \A n \in Heights : Truth(n)' = Truth(n)
  BY CallFrame
<1>2. SUFFICES /\ cache'.hash # None => cache'.bal = truth[cache'.hash + 1]
               /\ checked'[t].bal = truth[checked'[t].hash + 1]
               /\ pc'[t] \in {"find", "walk", "store"} =>
                    cache'.hash = None \/ cache'.hash <= lastHash'[t]
               /\ pc'[t] = "walk" => checked'[t].hash <= curr'[t]
               /\ pc'[t] = "store" => result'[t] = truth[lastHash'[t] + 1]
               /\ answer'[t].hash # None => answer'[t].bal = truth[answer'[t].hash + 1]
  BY <1>1 DEF ExactInv, AnswerExact, Truth
<1> USE DEF Truth
<1>3. CASE GetLastHash(t)
  BY <1>3, SMT DEF GetLastHash, Inv, TypeOK, Heights, ExactInv, AnswerExact
<1>4. CASE CacheHit(t)
  BY <1>4 DEF CacheHit, Inv, TypeOK, ExactInv, AnswerExact
<1>5. CASE StartWalk(t)
  <2>1. truth[1] = 0 /\ lastHash[t] \in Nat /\ 0 + 1 = 1
    BY ThreadType, SMT DEF Inv, TruthInv
  <2>2. Found.bal = truth[Found.hash + 1] /\ Found.hash <= lastHash[t]
    <3>1. CASE cache.hash = None
      BY <2>1, <3>1, SMT DEF Found
    <3>2. CASE cache.hash # None
      BY <1>5, <3>2 DEF Found, StartWalk, ExactInv
    <3> QED
      BY <3>1, <3>2
  <2> QED
    BY <1>5, <2>2 DEF StartWalk, Inv, TypeOK, ExactInv, AnswerExact
<1>6. CASE WalkSource(t)
  <2>1. result[t] + Gain(chain[curr[t]]) = truth[lastHash[t] + 1]
    BY <1>6, WalkFacts DEF WalkSource
  <2> QED
    BY <1>6, <2>1 DEF WalkSource, Inv, TypeOK, ExactInv, AnswerExact
<1>7. CASE WalkBack(t)
  <2>1. checked[t].hash <= curr[t] - 1
    BY <1>7, ThreadType, SMTT(30) DEF WalkBack, Continues, Inv, ExactInv
  <2> QED
    BY <1>7, <2>1 DEF WalkBack, Inv, TypeOK, ExactInv, AnswerExact
<1>8. CASE WalkEnds(t)
  <2>1. curr[t] = checked[t].hash
    BY <1>8, ThreadType, SMT DEF WalkEnds, Continues, Inv, ExactInv
  <2>2. result[t] + checked[t].bal = truth[lastHash[t] + 1]
    BY <1>8, <2>1, SMT DEF WalkEnds, Inv, WalkInv, ExactInv
  <2> QED
    BY <1>8, <2>2 DEF WalkEnds, Inv, TypeOK, ExactInv, AnswerExact
<1>9. CASE StoreAndReturn(t)
  BY <1>9, ThreadType DEF StoreAndReturn, Inv, TypeOK, ExactInv, AnswerExact
<1> QED
  BY <1>3, <1>4, <1>5, <1>6, <1>7, <1>8, <1>9 DEF Step

(* With a single API connection getBalance is exact: the cache can neither *)
(* lose nor repeat a block, whatever blocks arrive before, during and      *)
(* between its calls.                                                      *)
THEOREM ExactForOne ==
  ASSUME \A t, u \in Threads : t = u
  PROVE  Spec => []AnswerExact
<1>1. Init => ExactInv
  BY SMT DEF Init, ExactInv, AnswerExact, Truth
<1>2. Inv /\ ExactInv /\ [Next]_vars => ExactInv'
  <2> SUFFICES ASSUME Inv, ExactInv, [Next]_vars PROVE ExactInv'
    OBVIOUS
  <2>1. CASE UNCHANGED vars
    BY <2>1 DEF vars, ExactInv, AnswerExact, Truth
  <2> QED
    BY <2>1, ExactAppend, ExactCall DEF Next
<1>3. ExactInv => AnswerExact
  BY DEF ExactInv
<1> QED
  BY <1>1, <1>2, <1>3, InvAlways, PTL DEF Spec

-----------------------------------------------------------------------------
(* Requests for smart contracts. *)

(* A call that is on its way, with a client or with the Solver, is of a    *)
(* contract that is in the chain.                                          *)
Transactions == [kind : Kinds \cup {"state"}, contract : FlowContracts, flow : Nat, base : Nat]
Requests == [kind : Kinds, contract : FlowContracts, no : Nat, base : Nat, code : BOOLEAN]

FlowTypeOK ==
  /\ ledger \in Seq(Transactions) /\ waiting \subseteq Transactions
  /\ flow \in [Clients -> {"idle", "send", "open", "execute"}]
  /\ DOMAIN request = Clients /\ flows \in Nat
  /\ \A k \in Clients : flow[k] # "idle" => request[k] \in Requests

StatesNamed == \A c \in FlowContracts : StateOf(c) \in Nat

FlowInv ==
  /\ FlowTypeOK /\ StatesNamed
  /\ \A k \in Clients : flow[k] = "send" /\ request[k].kind = "call" => IsDeployed(request[k].contract)
  /\ \A t \in waiting : t.kind = "call" => IsDeployed(t.contract)
  /\ CallsDeployed

(* The newest state of a contract stays a place in the chain. *)
LEMMA StatesStay ==
  ASSUME FlowTypeOK, StatesNamed, ledger' = ledger \/ \E t \in Transactions : ledger' = Append(ledger, t)
  PROVE  StatesNamed'
<1>0. CASE ledger' = ledger
  BY <1>0, SMTT(30) DEF StatesNamed, StateOf
<1>1. ASSUME NEW t \in Transactions, ledger' = Append(ledger, t), NEW c \in FlowContracts
      PROVE  StateOf(c)' \in Nat
  <2> DEFINE S == {i \in DOMAIN ledger : ledger[i].kind \in {"state", "call"} /\ ledger[i].contract = c}
             n == Len(ledger) + 1
  <2>1. /\ n \in Nat /\ n \notin DOMAIN ledger /\ DOMAIN ledger' = DOMAIN ledger \cup {n}
        /\ ledger'[n] = t /\ \A i \in DOMAIN ledger : ledger'[i] = ledger[i] /\ i \in Nat /\ i <= n
    BY <1>1, SMT DEF FlowTypeOK
  <2>2. CASE t.kind \in {"state", "call"} /\ t.contract = c
    <3>1. n \in S' /\ \A i \in S' : i \in Nat /\ i <= n
      BY <2>1, <2>2, SMT
    <3>2. StateOf(c)' \in S'
      BY <3>1 DEF StateOf
    <3> QED
      BY <3>1, <3>2
  <2>3. CASE ~(t.kind \in {"state", "call"} /\ t.contract = c)
    <3>1. S' = S
      BY <2>1, <2>3
    <3> DEFINE Last(T) == IF T = {} THEN 0 ELSE CHOOSE i \in T : \A j \in T : j <= i
    <3>2. StateOf(c) = Last(S) /\ StateOf(c)' = Last(S')
      BY ZenonT(40) DEF StateOf
    <3> HIDE DEF S, Last
    <3> QED
      BY <3>1, <3>2 DEF StatesNamed
  <2> QED
    BY <2>2, <2>3
<1> QED
  BY <1>0, <1>1 DEF StatesNamed

(* What is deployed stays deployed. *)
LEMMA DeployedStays ==
  ASSUME FlowTypeOK, NEW c, IsDeployed(c),
         ledger' = ledger \/ \E t \in Transactions : ledger' = Append(ledger, t)
  PROVE  IsDeployed(c)'
<1>1. PICK i \in DOMAIN ledger : ledger[i].kind = "deploy" /\ ledger[i].contract = c
  BY DEF IsDeployed
<1>2. i \in DOMAIN ledger' /\ ledger'[i] = ledger[i]
  BY SMT DEF FlowTypeOK
<1> QED
  BY <1>1, <1>2 DEF IsDeployed

LEMMA FlowStep == FlowInv /\ [FlowNext]_flowVars => FlowInv'
<1> SUFFICES ASSUME FlowInv, [FlowNext]_flowVars PROVE FlowInv'
  OBVIOUS
<1> USE DEF FlowInv
<1>1. ASSUME NEW k \in Clients, NEW kind \in Kinds, NEW c \in FlowContracts, BeginFlow(k, kind, c)
      PROVE  FlowInv'
  <2>1. /\ ledger' = ledger /\ waiting' = waiting /\ CallsDeployed'
        /\ \A a : IsDeployed(a)' <=> IsDeployed(a)
    BY <1>1 DEF BeginFlow, CallsDeployed, IsDeployed
  <2>2. CASE ~Admits(kind, c)
    BY <1>1, <2>1, <2>2, StatesStay, SMT DEF BeginFlow, FlowTypeOK
  <2>3. CASE Admits(kind, c)
    <3> DEFINE r == [kind |-> kind, contract |-> c, no |-> flows + 1,
                     base |-> StateOf(c), code |-> IsDeployed(c)]
    <3>1. r \in Requests
      BY SMT DEF Requests, FlowTypeOK, IsDeployed, StatesNamed
    <3>2. r.kind = "call" => IsDeployed(r.contract)
      BY <2>3 DEF Admits
    <3>3. flow' = [flow EXCEPT ![k] = "send"] /\ request' = [request EXCEPT ![k] = r] /\ flows' = flows + 1
      BY <1>1, <2>3 DEF BeginFlow
    <3> HIDE DEF r
    <3>4. FlowTypeOK'
      BY <2>1, <3>1, <3>3, SMT DEF FlowTypeOK
    <3>5. \A m \in Clients : flow'[m] = "send" /\ request'[m].kind = "call" => IsDeployed(request'[m].contract)
      BY <3>2, <3>3 DEF FlowTypeOK
    <3> QED
      BY <2>1, <3>4, <3>5, StatesStay
  <2> QED
    BY <2>2, <2>3
<1>2. ASSUME NEW k \in Clients, SendRequest(k) PROVE FlowInv'
  <2> DEFINE t == [kind |-> request[k].kind, contract |-> request[k].contract,
                   flow |-> request[k].no, base |-> request[k].base]
  <2>1. t \in Transactions /\ (t.kind = "call" => IsDeployed(t.contract))
    BY <1>2 DEF SendRequest, FlowTypeOK, Requests, Transactions
  <2>2. waiting' = waiting \cup {t}
    BY <1>2 DEF SendRequest, Give
  <2> HIDE DEF t
  <2>3. /\ ledger' = ledger /\ CallsDeployed'
        /\ \A a : IsDeployed(a)' <=> IsDeployed(a)
    BY <1>2 DEF SendRequest, CallsDeployed, IsDeployed
  <2>4. FlowTypeOK'
    BY <1>2, <2>1, <2>2, <2>3 DEF SendRequest, EndFlow, FlowTypeOK
  <2>5. \A m \in Clients : flow'[m] = "send" => flow[m] = "send" /\ request'[m] = request[m]
    BY <1>2 DEF SendRequest, EndFlow, FlowTypeOK
  <2> QED
    BY <2>1, <2>2, <2>3, <2>4, <2>5, StatesStay
<1>3. ASSUME NEW k \in Clients, OpenTransport(k) \/ ExecuteFails(k) PROVE FlowInv'
  <2>1. /\ ledger' = ledger /\ waiting' = waiting /\ CallsDeployed'
        /\ \A a : IsDeployed(a)' <=> IsDeployed(a)
    BY <1>3, SMT DEF OpenTransport, ExecuteFails, CallsDeployed, IsDeployed
  <2>2. FlowTypeOK'
    BY <1>3, <2>1 DEF OpenTransport, ExecuteFails, EndFlow, FlowTypeOK
  <2>3. \A m \in Clients : flow'[m] = "send" => flow[m] = "send" /\ request'[m] = request[m]
    BY <1>3 DEF OpenTransport, ExecuteFails, EndFlow, FlowTypeOK
  <2> QED
    BY <2>1, <2>2, <2>3, StatesStay
<1>4. ASSUME NEW k \in Clients, ExecuteAndSend(k) PROVE FlowInv'
  <2> DEFINE t == [kind |-> "state", contract |-> request[k].contract,
                   flow |-> request[k].no, base |-> request[k].base]
  <2>1. t \in Transactions /\ t.kind # "call"
    BY <1>4 DEF ExecuteAndSend, FlowTypeOK, Requests, Transactions
  <2>2. waiting' = waiting \cup {t}
    BY <1>4 DEF ExecuteAndSend, Give
  <2> HIDE DEF t
  <2>3. /\ ledger' = ledger /\ CallsDeployed'
        /\ \A a : IsDeployed(a)' <=> IsDeployed(a)
    BY <1>4, ZenonT(40) DEF ExecuteAndSend, CallsDeployed, IsDeployed
  <2>4. FlowTypeOK'
    BY <1>4, <2>1, <2>2, <2>3 DEF ExecuteAndSend, EndFlow, FlowTypeOK
  <2>5. \A m \in Clients : flow'[m] = "send" => flow[m] = "send" /\ request'[m] = request[m]
    BY <1>4 DEF ExecuteAndSend, EndFlow, FlowTypeOK
  <2> QED
    BY <2>1, <2>2, <2>3, <2>4, <2>5, StatesStay
<1>5. ASSUME NEW t \in waiting, SolverWrites(t) PROVE FlowInv'
  <2>1. t \in Transactions /\ (t.kind = "call" => IsDeployed(t.contract))
    BY DEF FlowTypeOK
  <2>2. ledger' = Append(ledger, t) /\ waiting' \subseteq waiting /\ flow' = flow /\ request' = request
    BY <1>5 DEF SolverWrites
  <2>3. FlowTypeOK'
    BY <1>5, <2>1, <2>2, SMT DEF SolverWrites, FlowTypeOK
  <2>4. \A a : IsDeployed(a) => IsDeployed(a)'
    BY <2>1, <2>2, DeployedStays
  <2>5. CallsDeployed'
    <3> SUFFICES ASSUME NEW i \in DOMAIN ledger', ledger'[i].kind = "call"
                 PROVE  \E j \in 1..(i - 1) : ledger'[j].kind = "deploy" /\ ledger'[j].contract = ledger'[i].contract
      BY DEF CallsDeployed
    <3>1. /\ Len(ledger) \in Nat /\ i \in 1..(Len(ledger) + 1) /\ DOMAIN ledger = 1..Len(ledger)
          /\ \A j \in 1..Len(ledger) : ledger'[j] = ledger[j]
          /\ ledger'[Len(ledger) + 1] = t
      BY <2>1, <2>2, SMT DEF FlowTypeOK
    <3>2. CASE i = Len(ledger) + 1
      <4>1. PICK j \in DOMAIN ledger : ledger[j].kind = "deploy" /\ ledger[j].contract = t.contract
        BY <2>1, <3>1, <3>2 DEF IsDeployed
      <4> QED
        BY <3>1, <3>2, <4>1, SMT
    <3>3. CASE i # Len(ledger) + 1
      <4>1. i \in DOMAIN ledger /\ ledger'[i] = ledger[i]
        BY <3>1, <3>3, SMT
      <4>2. PICK j \in 1..(i - 1) : ledger[j].kind = "deploy" /\ ledger[j].contract = ledger[i].contract
        BY <4>1 DEF CallsDeployed
      <4>3. j \in 1..Len(ledger)
        BY <3>1, <4>1, SMT
      <4> QED
        BY <3>1, <4>1, <4>2, <4>3
    <3> QED
      BY <3>2, <3>3
  <2> QED
    BY <2>1, <2>2, <2>3, <2>4, <2>5, StatesStay
<1>6. ASSUME NEW t \in waiting, SolverDrops(t) PROVE FlowInv'
  BY <1>6, StatesStay, SMT DEF SolverDrops, FlowTypeOK, CallsDeployed, IsDeployed
<1>7. CASE UNCHANGED flowVars
  BY <1>7, StatesStay, SMT DEF flowVars, FlowTypeOK, CallsDeployed, IsDeployed
<1> QED
  BY <1>1, <1>2, <1>3, <1>4, <1>5, <1>6, <1>7 DEF FlowNext

(* A call is in the chain only behind the deployment it is of, for any     *)
(* number of connections, contracts and requests: APIHandler's test in     *)
(* TransactionFlow suffices, whatever the Solver drops, delays or reorders *)
(* between the test and the chain.                                         *)
THEOREM CallsDeployedAlways == FlowSpec => []CallsDeployed
<1>1. FlowInit => FlowInv
  BY SMT DEF FlowInit, FlowInv, FlowTypeOK, CallsDeployed, StatesNamed, StateOf
<1> QED
  BY <1>1, FlowStep, PTL DEF FlowSpec, FlowInv

-----------------------------------------------------------------------------
(* Statistics. *)

Counts == [Periods -> Nat]

(* The blocks lo..hi of the chain ts that are in period p throughout, or at *)
(* some time; and counts in between.                                       *)
InAll(ts, lo, hi, from, to, p) == {b \in lo..hi : AgeSec(ts[b], from) >= 0 /\ AgeSec(ts[b], to) < p}
InOnce(ts, lo, hi, from, to, p) == {b \in lo..hi : AgeSec(ts[b], to) >= 0 /\ AgeSec(ts[b], from) < p}
Between(ts, count, lo, hi, from, to) ==
  \A p \in Periods : /\ Cardinality(InAll(ts, lo, hi, from, to, p)) <= count[p]
                     /\ count[p] <= Cardinality(InOnce(ts, lo, hi, from, to, p))

Now == 0..MaxTicks

StatsTypeOK ==
  /\ times \in Seq(Stamps) /\ clock \in Now
  /\ reading \in Nat /\ tipRead \in 0..Len(times) /\ startTime \in Now /\ startTime <= clock
  /\ stats \in Counts
  /\ currentStats \in Counts /\ currentTip \in 0..Len(times)
  /\ currentStart \in Now /\ currentEnd \in Now

(* The walk has counted the blocks behind it as of now, and unless it was  *)
(* cut short these are all when it publishes.                              *)
StatsInv ==
  /\ StatsTypeOK
  /\ ~quit => Between(times, currentStats, 1, currentTip, currentStart, currentEnd)
  /\ worker = "walk" => reading <= tipRead /\ Between(times, stats, reading + 1, tipRead, startTime, clock)
  /\ worker = "publish" /\ ~quit => Between(times, stats, 1, tipRead, startTime, clock)

LEMMA DivGrows ==
  ASSUME NEW d \in Nat \ {0}, NEW a \in Nat, NEW b \in Nat, a <= b
  PROVE  a \div d \in Nat /\ b \div d \in Nat /\ a \div d <= b \div d
<1>1. PICK q \in Nat, r \in 0..(d - 1) : q = a \div d /\ a = d * q + r
  <2>1. a \div d \in Nat /\ a % d \in 0..(d - 1) /\ a = d * (a \div d) + (a % d)
    BY SMT
  <2> QED BY <2>1
<1>2. PICK u \in Nat, v \in 0..(d - 1) : u = b \div d /\ b = d * u + v
  <2>1. b \div d \in Nat /\ b % d \in 0..(d - 1) /\ b = d * (b \div d) + (b % d)
    BY SMT
  <2> QED BY <2>1
<1>3. q >= u + 1 => d * q >= d * u + d
  BY SMT
<1>4. q <= u
  BY <1>1, <1>2, <1>3, SMT
<1> QED BY <1>1, <1>2, <1>4

(* A block grows older as the clock goes on. *)
LEMMA AgeGrows ==
  ASSUME NEW s \in Stamps, NEW m \in Now, NEW n \in Now, m <= n
  PROVE  AgeSec(s, m) \in Int /\ AgeSec(s, n) \in Int /\ AgeSec(s, m) <= AgeSec(s, n)
<1>1. PICK d \in Nat \ {0} : d = TicksPerSecond
  BY StatsAssumption
<1>2. PICK x \in Int : x = m - s * d
  BY <1>1, StatsAssumption, SMT DEF Now
<1>3. PICK y \in Int : y = n - s * d /\ x <= y
  BY <1>1, <1>2, StatsAssumption, SMT DEF Now
<1>4. /\ AgeSec(s, m) = IF x < 0 THEN -((-x) \div d) ELSE x \div d
      /\ AgeSec(s, n) = IF y < 0 THEN -((-y) \div d) ELSE y \div d
  BY <1>1, <1>2, <1>3 DEF AgeSec
<1>5. CASE x < 0 /\ y < 0
  <2>1. -x \in Nat /\ -y \in Nat /\ -y <= -x
    BY <1>3, <1>5, SMT
  <2>2. (-x) \div d \in Nat /\ (-y) \div d \in Nat /\ (-y) \div d <= (-x) \div d
    BY <2>1, DivGrows
  <2> QED BY <1>4, <1>5, <2>2, SMT
<1>6. CASE x < 0 /\ ~(y < 0)
  <2>1. -x \in Nat /\ y \in Nat /\ -x <= -x /\ y <= y
    BY <1>6, SMT
  <2>2. (-x) \div d \in Nat /\ y \div d \in Nat
    BY <2>1, DivGrows
  <2> QED BY <1>4, <1>6, <2>2, SMT
<1>7. CASE ~(x < 0)
  <2>1. x \in Nat /\ y \in Nat /\ ~(y < 0)
    BY <1>3, <1>7, SMT
  <2>2. x \div d \in Nat /\ y \div d \in Nat /\ x \div d <= y \div d
    BY <1>3, <2>1, DivGrows
  <2> QED BY <1>4, <1>7, <2>1, <2>2, SMT
<1> QED BY <1>5, <1>6, <1>7

(* The test of matchPeriod on the cast age. *)
LEMMA PeriodIs ==
  ASSUME NEW s \in Stamps, NEW n \in Now, NEW p \in Periods
  PROVE  AsPeriod(AgeSec(s, n)) < p <=> AgeSec(s, n) >= 0 /\ AgeSec(s, n) < p
<1>1. PICK a \in Int : a = AgeSec(s, n)
  <2>1. n <= n
    BY SMT DEF Now
  <2> QED BY <2>1, AgeGrows
<1>2. PICK r \in Nat \ {0} : r = AgeRange
  BY StatsAssumption
<1>3. p \in Nat /\ a < r /\ p <= a + r
  BY <1>1, <1>2, StatsAssumption DEF Now
<1>4. CASE a >= 0
  <2>1. a % r = a
    BY <1>3, <1>4, SMT
  <2> QED BY <1>1, <1>2, <1>4, <2>1 DEF AsPeriod
<1>5. CASE a < 0
  <2>1. PICK q \in Int, k \in 0..(r - 1) : k = a % r /\ a = r * q + k
    <3>1. a \div r \in Int /\ a % r \in 0..(r - 1) /\ a = r * (a \div r) + (a % r)
      BY SMT
    <3> QED BY <3>1
  <2>2. q >= 0 => r * q >= 0
    BY SMT
  <2>3. q <= -1 => r * q <= -r
    BY SMT
  <2>4. k >= a + r
    BY <1>5, <2>1, <2>2, <2>3, SMT
  <2>5. ~(k < p) /\ ~(a >= 0)
    BY <1>3, <1>5, <2>4, SMT
  <2> QED BY <1>1, <1>2, <2>1, <2>5 DEF AsPeriod
<1> QED BY <1>4, <1>5, SMT

LEMMA InFinite ==
  ASSUME NEW ts, NEW lo \in Int, NEW hi \in Int, NEW from, NEW to, NEW p
  PROVE  /\ IsFiniteSet(InAll(ts, lo, hi, from, to, p)) /\ IsFiniteSet(InOnce(ts, lo, hi, from, to, p))
         /\ Cardinality(InAll(ts, lo, hi, from, to, p)) \in Nat
         /\ Cardinality(InOnce(ts, lo, hi, from, to, p)) \in Nat
<1>1. IsFiniteSet(lo..hi)
  BY FS_Interval
<1>2. InAll(ts, lo, hi, from, to, p) \subseteq lo..hi /\ InOnce(ts, lo, hi, from, to, p) \subseteq lo..hi
  BY DEF InAll, InOnce
<1>3. IsFiniteSet(InAll(ts, lo, hi, from, to, p)) /\ IsFiniteSet(InOnce(ts, lo, hi, from, to, p))
  BY <1>1, <1>2, FS_Subset
<1> QED BY <1>3, FS_CardinalityType

(* Time that passes, and blocks that come, leave counts in between. *)
LEMMA BetweenStays ==
  ASSUME NEW ts, NEW us, NEW lo \in Int, NEW hi \in Int, \A b \in lo..hi : ts[b] \in Stamps /\ us[b] = ts[b],
         NEW from \in Now, NEW to \in Now, NEW later \in Now, to <= later,
         NEW count \in Counts, Between(ts, count, lo, hi, from, to)
  PROVE  Between(us, count, lo, hi, from, later)
<1> SUFFICES ASSUME NEW p \in Periods
             PROVE  /\ Cardinality(InAll(us, lo, hi, from, later, p)) <= count[p]
                    /\ count[p] <= Cardinality(InOnce(us, lo, hi, from, later, p))
  BY DEF Between
<1> DEFINE A == InAll(ts, lo, hi, from, to, p)  B == InAll(us, lo, hi, from, later, p)
           C == InOnce(ts, lo, hi, from, to, p)  D == InOnce(us, lo, hi, from, later, p)
<1>1. p \in Int
  BY StatsAssumption, SMT
<1>2. \A b \in lo..hi : /\ us[b] = ts[b] /\ AgeSec(ts[b], to) \in Int /\ AgeSec(ts[b], later) \in Int
                        /\ AgeSec(ts[b], to) <= AgeSec(ts[b], later)
  BY AgeGrows
<1>3. B \subseteq A
  BY <1>1, <1>2, SMT DEF InAll
<1>4. C \subseteq D
  BY <1>1, <1>2, SMT DEF InOnce
<1>5. IsFiniteSet(A) /\ IsFiniteSet(D) /\ Cardinality(A) \in Nat /\ Cardinality(B) \in Nat
      /\ Cardinality(C) \in Nat /\ Cardinality(D) \in Nat
  BY InFinite
<1> HIDE DEF A, B, C, D
<1>6. Cardinality(B) <= Cardinality(A) /\ Cardinality(C) <= Cardinality(D)
  BY <1>3, <1>4, <1>5, FS_Subset
<1>7. Cardinality(A) <= count[p] /\ count[p] <= Cardinality(C) /\ count[p] \in Nat
  BY DEF A, C, Between, Counts
<1>8. Cardinality(B) <= count[p] /\ count[p] <= Cardinality(D)
  BY <1>5, <1>6, <1>7, SMT
<1> QED BY <1>8 DEF B, D

LEMMA BetweenEmpty ==
  ASSUME NEW ts, NEW lo \in Int, NEW hi \in Int, hi < lo, NEW from, NEW to
  PROVE  Zero \in Counts /\ Between(ts, Zero, lo, hi, from, to)
<1>1. lo..hi = {}
  BY SMT
<1>2. \A p : InAll(ts, lo, hi, from, to, p) = {} /\ InOnce(ts, lo, hi, from, to, p) = {}
  BY <1>1 DEF InAll, InOnce
<1>3. Cardinality({}) = 0
  BY FS_EmptySet
<1>4. Zero \in Counts /\ \A p \in Periods : Zero[p] = 0
  BY SMT DEF Zero, Counts
<1>5. 0 <= 0
  BY SMT
<1> QED BY <1>2, <1>3, <1>4, <1>5 DEF Between

(* The walk counts one block more. *)
LEMMA BetweenCounts ==
  ASSUME NEW ts, NEW r \in Int, NEW hi \in Int, r <= hi, ts[r] \in Stamps,
         NEW from \in Now, NEW to \in Now, from <= to,
         NEW count \in Counts, Between(ts, count, r + 1, hi, from, to)
  PROVE  /\ MatchPeriod(count, AgeSec(ts[r], to)) \in Counts
         /\ Between(ts, MatchPeriod(count, AgeSec(ts[r], to)), r, hi, from, to)
<1> DEFINE new == MatchPeriod(count, AgeSec(ts[r], to))
<1>1. PICK a \in Int, b \in Int : a = AgeSec(ts[r], from) /\ b = AgeSec(ts[r], to) /\ a <= b
  BY AgeGrows
<1>2. ASSUME NEW p \in Periods
      PROVE  /\ count[p] \in Nat /\ new[p] = IF b >= 0 /\ b < p THEN count[p] + 1 ELSE count[p]
             /\ new[p] \in Nat
  <2>1. count[p] \in Nat
    BY DEF Counts
  <2>2. new[p] = IF b >= 0 /\ b < p THEN count[p] + 1 ELSE count[p]
    BY <1>1, PeriodIs DEF MatchPeriod
  <2> QED BY <2>1, <2>2, SMT
<1>3. new \in Counts
  BY <1>2 DEF Counts, MatchPeriod
<1>4. ASSUME NEW p \in Periods
      PROVE  /\ Cardinality(InAll(ts, r, hi, from, to, p)) <= new[p]
             /\ new[p] <= Cardinality(InOnce(ts, r, hi, from, to, p))
  <2> DEFINE A == InAll(ts, r + 1, hi, from, to, p)  B == InAll(ts, r, hi, from, to, p)
             C == InOnce(ts, r + 1, hi, from, to, p)  D == InOnce(ts, r, hi, from, to, p)
  <2>1. /\ IsFiniteSet(A) /\ IsFiniteSet(B) /\ IsFiniteSet(C) /\ IsFiniteSet(D)
        /\ Cardinality(A) \in Nat /\ Cardinality(B) \in Nat /\ Cardinality(C) \in Nat /\ Cardinality(D) \in Nat
    <3>1. r + 1 \in Int
      BY SMT
    <3> QED BY <3>1, InFinite
  <2>2. r..hi = ((r + 1)..hi) \cup {r} /\ r \notin (r + 1)..hi
    BY SMT
  <2>3. B = IF a >= 0 /\ b < p THEN A \cup {r} ELSE A
    BY <1>1, <2>2 DEF InAll
  <2>4. D = IF b >= 0 /\ a < p THEN C \cup {r} ELSE C
    BY <1>1, <2>2 DEF InOnce
  <2>5. r \notin A /\ r \notin C
    BY <2>2 DEF InAll, InOnce
  <2>6. Cardinality(A) <= count[p] /\ count[p] <= Cardinality(C)
    BY DEF Between
  <2> HIDE DEF A, B, C, D, new
  <2>7. Cardinality(A \cup {r}) = Cardinality(A) + 1 /\ Cardinality(C \cup {r}) = Cardinality(C) + 1
    BY <2>1, <2>5, FS_AddElement
  <2>8. p \in Int
    BY StatsAssumption, SMT
  <2>9. Cardinality(B) <= new[p]
    BY <1>1, <1>2, <2>1, <2>3, <2>6, <2>7, <2>8, SMTT(30)
  <2>10. new[p] <= Cardinality(D)
    BY <1>1, <1>2, <2>1, <2>4, <2>6, <2>7, <2>8, SMTT(30)
  <2> QED BY <2>9, <2>10 DEF B, D
<1> QED BY <1>3, <1>4 DEF Between

LEMMA WholeIsBetween ==
  PublishedWhole <=> (~quit => Between(times, currentStats, 1, currentTip, currentStart, currentEnd))
BY DEF PublishedWhole, Between, YoungAll, YoungOnce, InAll, InOnce

(* A step that leaves the walk and what is published alone. *)
LEMMA StatsFrame ==
  ASSUME StatsInv, UNCHANGED <<walkVars, publishedVars>>, worker' \in {"walk", "publish"} => worker' = worker,
         quit => quit', clock' \in Now, clock <= clock',
         times' = times \/ \E s \in Stamps : times' = Append(times, s)
  PROVE  StatsInv'
<1>1. /\ times \in Seq(Stamps) /\ times' \in Seq(Stamps) /\ Len(times) \in Nat /\ Len(times') \in Nat
      /\ Len(times) <= Len(times')
      /\ \A b \in 1..Len(times) : times[b] \in Stamps /\ times'[b] = times[b]
  BY SMT DEF StatsInv, StatsTypeOK
<1>2. StatsTypeOK'
  BY <1>1, SMT DEF StatsInv, StatsTypeOK, walkVars, publishedVars, Now
<1>3. ASSUME NEW lo \in Nat \ {0}, NEW hi \in 0..Len(times)
      PROVE  lo \in Int /\ hi \in Int /\ \A b \in lo..hi : times[b] \in Stamps /\ times'[b] = times[b]
  BY <1>1, SMT
<1>4. ~quit' => Between(times', currentStats', 1, currentTip', currentStart', currentEnd')
  <2>1. 1 \in Nat \ {0} /\ currentEnd <= currentEnd
    BY SMT DEF StatsInv, StatsTypeOK, Now
  <2> QED BY <1>3, <2>1, BetweenStays DEF StatsInv, StatsTypeOK, publishedVars
<1>5. worker' = "walk" => reading' <= tipRead' /\ Between(times', stats', reading' + 1, tipRead', startTime', clock')
  <2>1. reading + 1 \in Nat \ {0}
    BY SMT DEF StatsInv, StatsTypeOK
  <2> QED BY <1>3, <2>1, BetweenStays DEF StatsInv, StatsTypeOK, walkVars
<1>6. worker' = "publish" /\ ~quit' => Between(times', stats', 1, tipRead', startTime', clock')
  <2>1. 1 \in Nat \ {0}
    BY SMT
  <2> QED BY <1>3, <2>1, BetweenStays DEF StatsInv, StatsTypeOK, walkVars
<1> QED BY <1>2, <1>4, <1>5, <1>6 DEF StatsInv

LEMMA StatsStep == StatsInv /\ [StatsNext]_statsVars => StatsInv'
<1> SUFFICES ASSUME StatsInv, [StatsNext]_statsVars PROVE StatsInv'
  OBVIOUS
<1>0. /\ clock \in Now /\ clock <= clock /\ Len(times) \in Nat
      /\ reading \in Nat /\ tipRead \in Nat /\ tipRead <= Len(times)
  BY SMT DEF StatsInv, StatsTypeOK, Now
<1>1. CASE StatsStart
  BY <1>0, <1>1, StatsFrame DEF StatsStart, world
<1>2. ASSUME NEW s \in Stamps, StatsBlock(s) PROVE StatsInv'
  BY <1>0, <1>2, StatsFrame DEF StatsBlock
<1>3. CASE Tick
  <2>1. clock' \in Now /\ clock <= clock'
    BY <1>0, <1>3, StatsAssumption, SMT DEF Tick, Now
  <2> QED BY <1>3, <2>1, StatsFrame DEF Tick
<1>4. CASE Loop \/ Ready \/ Sleep \/ Deadline
  <2>1. UNCHANGED <<times, clock, walkVars, quit, publishedVars>>
    BY <1>4 DEF Loop, Ready, Sleep, Deadline, To, world
  <2>2. worker' \notin {"walk", "publish"}
    BY <1>4 DEF Loop, Ready, Sleep, Deadline, To
  <2> QED BY <1>0, <2>1, <2>2, StatsFrame
<1>5. CASE Awake
  <2>1. CASE quit
    BY <1>0, <1>5, <2>1, StatsFrame DEF Awake, world
  <2>2. CASE ~quit
    <3>1. /\ worker' = "walk" /\ reading' = Len(times) /\ tipRead' = Len(times) /\ startTime' = clock /\ stats' = Zero
          /\ UNCHANGED <<times, clock, quit, publishedVars>>
      BY <1>5, <2>2 DEF Awake, world
    <3>2. Len(times) + 1 \in Int /\ Len(times) \in Int /\ Len(times) < Len(times) + 1 /\ Len(times) <= Len(times)
          /\ Len(times) \in 0..Len(times)
      BY <1>0, SMT
    <3>3. Zero \in Counts /\ Between(times, Zero, Len(times) + 1, Len(times), clock, clock)
      BY <3>2, BetweenEmpty
    <3> QED BY <1>0, <3>1, <3>2, <3>3 DEF StatsInv, StatsTypeOK, publishedVars
  <2> QED BY <2>1, <2>2
<1>6. CASE Walk
  <2>1. CASE reading = 0 \/ quit
    <3>1. /\ worker = "walk" /\ worker' = "publish"
          /\ UNCHANGED <<times, clock, walkVars, quit, publishedVars>>
      BY <1>6, <2>1 DEF Walk, world
    <3>2. ~quit => reading + 1 = 1
      BY <2>1, <3>1, SMT
    <3> QED BY <3>1, <3>2 DEF StatsInv, StatsTypeOK, walkVars, publishedVars
  <2>2. CASE ~(reading = 0 \/ quit)
    <3>1. /\ worker = "walk" /\ worker' = "walk" /\ reading' = reading - 1
          /\ stats' = MatchPeriod(stats, AgeSec(times[reading], clock))
          /\ UNCHANGED <<times, clock, tipRead, startTime, quit, publishedVars>>
      BY <1>6, <2>2 DEF Walk, world
    <3>2. reading <= tipRead /\ Between(times, stats, reading + 1, tipRead, startTime, clock)
      BY <3>1 DEF StatsInv
    <3>3. /\ reading \in Int /\ tipRead \in Int /\ times[reading] \in Stamps
          /\ reading - 1 \in Nat /\ (reading - 1) + 1 = reading /\ reading - 1 <= tipRead
      BY <1>0, <2>2, <3>2, SMT DEF StatsInv, StatsTypeOK
    <3>4. stats' \in Counts /\ Between(times, stats', reading, tipRead, startTime, clock)
      BY <3>1, <3>2, <3>3, BetweenCounts DEF StatsInv, StatsTypeOK
    <3> QED BY <3>1, <3>3, <3>4 DEF StatsInv, StatsTypeOK, publishedVars
  <2> QED BY <2>1, <2>2
<1>7. CASE Publish
  <2>1. /\ worker = "publish" /\ worker' = "loop" /\ currentStats' = stats /\ currentTip' = tipRead
        /\ currentStart' = startTime /\ currentEnd' = clock
        /\ UNCHANGED <<times, clock, walkVars, quit>>
    BY <1>7 DEF Publish, world
  <2> QED BY <2>1 DEF StatsInv, StatsTypeOK, walkVars
<1>8. CASE Quit
  BY <1>0, <1>8, StatsFrame DEF Quit, world
<1>9. CASE Notify
  BY <1>0, <1>9, StatsFrame DEF Notify, world
<1>10. CASE Join \/ UNCHANGED statsVars
  <2>1. UNCHANGED <<times, clock, walkVars, quit, publishedVars, worker>>
    BY <1>10 DEF Join, statsVars, world
  <2> QED BY <1>0, <2>1, StatsFrame
<1> QED
  BY <1>1, <1>2, <1>3, <1>4, <1>5, <1>6, <1>7, <1>8, <1>9, <1>10 DEF StatsNext, WorkerStep

(* Statistics read while the node is up are about a whole chain, for all   *)
(* periods, stamps and units of time: blocks that come and grow older      *)
(* during the walk, stamps ahead of the clock, and a walk that quit cuts   *)
(* short (csstats::collectStats), leave no published count that misses a   *)
(* block which was in the period all the time, or has one that never was.  *)
THEOREM WholeAlways == StatsSpec => []PublishedWhole
<1>1. StatsInit => StatsInv
  <2> SUFFICES ASSUME StatsInit PROVE StatsInv
    OBVIOUS
  <2>1. /\ 1 \in Int /\ 0 \in Int /\ 0 < 1 /\ 0 \in Now /\ 0 \in Nat /\ 0 <= 0
        /\ <<>> \in Seq(Stamps) /\ 0 \in 0..Len(<<>>)
    BY StatsAssumption, SMT DEF Now
  <2>2. Zero \in Counts /\ Between(times, Zero, 1, 0, 0, 0)
    BY <2>1, BetweenEmpty
  <2> QED BY <2>1, <2>2 DEF StatsInit, StatsInv, StatsTypeOK
<1>2. StatsInv => PublishedWhole
  BY WholeIsBetween DEF StatsInv
<1> QED
  BY <1>1, <1>2, StatsStep, PTL DEF StatsSpec
=============================================================================
