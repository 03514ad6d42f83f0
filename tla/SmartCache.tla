----------------------------- MODULE SmartCache -----------------------------
(***************************************************************************)
(* The API's caches of smart contracts: for each deployer the list of its  *)
(* deployments, for each contract its origin and its newest state. Every   *)
(* contract query first walks from the tip back to the block seen last and *)
(* enters what it finds, one transaction at a time. Connections are        *)
(* threads that share the caches, and blocks are added in between.         *)
(*                                                                         *)
(* A transaction is reduced to its kind, contract and source; the field of *)
(* a bad one is a string that is no SmartContract, and reading it throws.  *)
(* A contract may be deployed more than once: TransactionFlow does not     *)
(* exclude it (ContractFlow!DeployedOnce).                                 *)
(*                                                                         *)
(* Nothing locks the caches: calls that overlap race for them. Steps of    *)
(* such calls are interleaved here, which is one of the outcomes.          *)
(***************************************************************************)
EXTENDS Naturals, Sequences

CONSTANTS
  Connections,
  Deployers,
  Contracts,
  SmartBlocks,     \* contents a block can have
  MaxSmartChain,   \* bound: blocks in the chain
  MaxRaceChain,    \* bound: blocks in the chain once calls have overlapped
  MaxQueries,      \* bound: calls
  NoTx             \* the id of no transaction; no place in a list

SmartTransactions ==
  [kind : {"deploy", "state", "bad", "other"}, contract : Contracts, source : Deployers]

ASSUME SmartAssumption ==
  /\ MaxSmartChain \in Nat /\ MaxRaceChain \in Nat /\ MaxQueries \in Nat
  /\ NoTx \notin Nat \cup (Nat \X Nat)
  /\ SmartBlocks \subseteq Seq(SmartTransactions)

VARIABLES
  blocks,               \* the chain
  lastSeen,             \* last_seen_contract_block, 0 for the empty hash
  deployed_by_creator,
  smart_origin,
  smart_state,
  queries,              \* calls so far
  overlapped,           \* a call has begun while another was not over
  (* Per connection: where its call is, in update_smart_caches or after it. *)
  call,
  last_ph,
  curr_ph,
  i_tr,                 \* transactions of the block still to come
  poss,                 \* places in the lists, counted from their ends
  state_updated

smartCaches == <<deployed_by_creator, smart_origin, smart_state>>
smartWalks == <<call, last_ph, curr_ph, i_tr, poss, state_updated>>
smartCalls == <<queries, overlapped>>
smartVars == <<blocks, lastSeen, smartCaches, smartCalls, smartWalks>>

NotMet == [d \in Deployers |-> NoTx]

SmartInit ==
  /\ blocks = <<>> /\ lastSeen = 0
  /\ deployed_by_creator = [d \in Deployers |-> <<>>]
  /\ smart_origin = [c \in Contracts |-> NoTx]
  /\ smart_state = [c \in Contracts |-> NoTx]
  /\ queries = 0 /\ overlapped = FALSE
  /\ call = [t \in Connections |-> "idle"]
  /\ last_ph = [t \in Connections |-> 0] /\ curr_ph = [t \in Connections |-> 0]
  /\ i_tr = [t \in Connections |-> 0] /\ poss = [t \in Connections |-> NotMet]
  /\ state_updated = [t \in Connections |-> {}]

SmartBlock(b) ==
  /\ Len(blocks) < MaxSmartChain
  /\ blocks' = Append(blocks, b)
  /\ overlapped => Len(blocks) < MaxRaceChain
  /\ UNCHANGED <<lastSeen, smartCaches, smartCalls, smartWalks>>

(* update_smart_caches reads the tip. *)
BeginUpdate(t) ==
  /\ call[t] = "idle" /\ call' = [call EXCEPT ![t] = "test"]
  /\ queries < MaxQueries /\ queries' = queries + 1
  /\ overlapped' = (overlapped \/ \E u \in Connections : call[u] # "idle")
  /\ overlapped' => Len(blocks) <= MaxRaceChain
  /\ last_ph' = [last_ph EXCEPT ![t] = Len(blocks)]
  /\ curr_ph' = [curr_ph EXCEPT ![t] = Len(blocks)]
  /\ UNCHANGED <<blocks, lastSeen, smartCaches, i_tr, poss, state_updated>>

(* The block at the empty hash is an invalid pool without transactions. *)
Length(b) == IF b = 0 THEN 0 ELSE Len(blocks[b])

(* The test of the loop: the next block is loaded. *)
LoadNext(t) ==
  /\ call[t] = "test" /\ curr_ph[t] # lastSeen
  /\ call' = [call EXCEPT ![t] = "enter"]
  /\ i_tr' = [i_tr EXCEPT ![t] = Length(curr_ph[t])]
  /\ UNCHANGED <<blocks, lastSeen, smartCaches, smartCalls, last_ph, curr_ph, poss, state_updated>>

(* What update_smart_caches leaves of its variables. *)
Leave(t) ==
  /\ last_ph' = [last_ph EXCEPT ![t] = 0] /\ curr_ph' = [curr_ph EXCEPT ![t] = 0]
  /\ i_tr' = [i_tr EXCEPT ![t] = 0]
  /\ poss' = [poss EXCEPT ![t] = NotMet] /\ state_updated' = [state_updated EXCEPT ![t] = {}]

(* The test fails: the tip of the walk is the block seen last, and the     *)
(* caller of update_smart_caches reads the caches.                         *)
EndUpdate(t) ==
  /\ call[t] = "test" /\ curr_ph[t] = lastSeen
  /\ lastSeen' = last_ph[t]
  /\ call' = [call EXCEPT ![t] = "use"] /\ Leave(t)
  /\ UNCHANGED <<blocks, smartCaches, smartCalls>>

EndCall(t) ==
  /\ call[t] = "use" /\ call' = [call EXCEPT ![t] = "idle"]
  /\ UNCHANGED <<blocks, lastSeen, smartCaches, smartCalls, last_ph, curr_ph, i_tr, poss, state_updated>>

(* Where the list of d began when this walk met it. *)
FirstMet(t, d) == IF poss[t][d] # NoTx THEN poss[t][d] ELSE Len(deployed_by_creator[d])

(* Mutant: a new deployment goes to the end of the list. *)
InsertAtEnd(list, id, pos) == Append(list, id)

(* std::list::insert, before the last pos elements. *)
InsertBefore(list, id, pos) ==
  LET k == Len(list) - pos + 1
  IN  [j \in 1..(Len(list) + 1) |->
         IF j < k THEN list[j] ELSE IF j = k THEN id ELSE list[j - 1]]

Tx(id) == blocks[id[1]][id[2]]

EnterDeploy(t, id) ==
  LET d == Tx(id).source IN
  /\ Tx(id).kind = "deploy"
  /\ smart_origin' = [smart_origin EXCEPT ![Tx(id).contract] = id]
  /\ poss' = [poss EXCEPT ![t] = [poss[t] EXCEPT ![d] = FirstMet(t, d)]]
  /\ deployed_by_creator' =
       [deployed_by_creator EXCEPT ![d] = InsertBefore(deployed_by_creator[d], id, FirstMet(t, d))]
  /\ UNCHANGED <<smart_state, state_updated>>

EnterState(t, id) ==
  LET c == Tx(id).contract IN
  /\ Tx(id).kind = "state" /\ c \notin state_updated[t]
  /\ smart_state' = [smart_state EXCEPT ![c] = id]
  /\ state_updated' = [state_updated EXCEPT ![t] = state_updated[t] \cup {c}]
  /\ UNCHANGED <<smart_origin, poss, deployed_by_creator>>

SkipTransaction(t, id) ==
  /\ Tx(id).kind = "other" \/ (Tx(id).kind = "state" /\ Tx(id).contract \in state_updated[t])
  /\ UNCHANGED <<smartCaches, poss, state_updated>>

(* The last of the transactions still to come. *)
EnterTransaction(t) ==
  /\ call[t] = "enter" /\ i_tr[t] > 0
  /\ LET id == <<curr_ph[t], i_tr[t]>>
     IN  EnterDeploy(t, id) \/ EnterState(t, id) \/ SkipTransaction(t, id)
  /\ i_tr' = [i_tr EXCEPT ![t] = i_tr[t] - 1]
  /\ UNCHANGED <<blocks, lastSeen, smartCalls, call, last_ph, curr_ph>>

(* deserialize throws: the call is over, and what it has entered stays in  *)
(* the caches while last_seen_contract_block is not set.                   *)
EnterFails(t) ==
  /\ call[t] = "enter" /\ i_tr[t] > 0
  /\ Tx(<<curr_ph[t], i_tr[t]>>).kind = "bad"
  /\ call' = [call EXCEPT ![t] = "idle"] /\ Leave(t)
  /\ UNCHANGED <<blocks, lastSeen, smartCaches, smartCalls>>

(* The previous hash, which is empty again below the first block. *)
PreviousBlock(t) ==
  /\ call[t] = "enter" /\ i_tr[t] = 0
  /\ call' = [call EXCEPT ![t] = "test"]
  /\ curr_ph' = [curr_ph EXCEPT ![t] = IF curr_ph[t] = 0 THEN 0 ELSE curr_ph[t] - 1]
  /\ UNCHANGED <<blocks, lastSeen, smartCaches, smartCalls, last_ph, i_tr, poss, state_updated>>

SmartStep(t) ==
  LoadNext(t) \/ EnterTransaction(t) \/ EnterFails(t) \/ PreviousBlock(t) \/ EndUpdate(t) \/ EndCall(t)

SmartNext ==
  \/ \E b \in SmartBlocks : SmartBlock(b)
  \/ \E t \in Connections : BeginUpdate(t) \/ SmartStep(t)

SmartFairness == \A t \in Connections : WF_smartVars(SmartStep(t))
SmartSpec == SmartInit /\ [][SmartNext]_smartVars /\ SmartFairness

-----------------------------------------------------------------------------
(* The transactions of the first n blocks. *)
Ids(n) == UNION {{<<b, i>> : i \in 1..Len(blocks[b])} : b \in 1..n}
Newer(x, y) == x[1] > y[1] \/ (x[1] = y[1] /\ x[2] > y[2])

DeploymentsOf(d, S) == {x \in S : Tx(x).kind = "deploy" /\ Tx(x).source = d}
Of(c, kind, S) == {x \in S : Tx(x).kind = kind /\ Tx(x).contract = c}

(* A list of the members of S, the newest first. *)
Lists(list, S) ==
  /\ {list[j] : j \in DOMAIN list} = S
  /\ \A j, k \in DOMAIN list : j < k => Newer(list[j], list[k])

IsNewest(x, S) == IF S = {} THEN x = NoTx ELSE x \in S /\ \A y \in S : y = x \/ Newer(x, y)
IsSome(x, S) == IF S = {} THEN x = NoTx ELSE x \in S

(* The caches say what the transactions of S say. *)
ExactFor(S) ==
  /\ \A d \in Deployers : Lists(deployed_by_creator[d], DeploymentsOf(d, S))
  /\ \A c \in Contracts : /\ IsSome(smart_origin[c], Of(c, "deploy", S))
                           /\ IsNewest(smart_state[c], Of(c, "state", S))

(* As long as calls do not overlap, whoever has updated the caches finds   *)
(* in them what the chain says up to the block seen last, however the      *)
(* calls and the new blocks fell: all deployments of a deployer once each  *)
(* and newest first, for every contract its newest state and a deployment  *)
(* of it. Calls that a bad transaction ends leave caches that are not      *)
(* exact, and later calls enter things twice; nobody gets to see that.     *)
CachesExact ==
  ~overlapped => \A t \in Connections : call[t] = "use" => ExactFor(Ids(lastSeen))

(* A contract query comes to an end. *)
QueryReturns == \A t \in Connections : call[t] # "idle" ~> call[t] = "idle"
=============================================================================
