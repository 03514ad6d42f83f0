---------------------------- MODULE ContractFlow ----------------------------
(***************************************************************************)
(* APIHandler::TransactionFlow on several connections: a transfer, or a    *)
(* deployment or call of a smart contract, which is handed to the Solver,  *)
(* then run by the executor service, and followed by a second transaction  *)
(* with the contract's new state. The caches are taken to be exact when    *)
(* they have been updated (SmartCache).                                    *)
(*                                                                         *)
(* The Solver and the executor are not in the repository. The Solver may   *)
(* drop a transaction and writes the others in any order; the executor's   *)
(* connection may fail to open, and an execution may fail.                 *)
(***************************************************************************)
EXTENDS Naturals, Sequences

CONSTANTS
  Clients,        \* connections of the API
  FlowContracts,  \* contract addresses
  MaxFlows        \* bound: requests

ASSUME FlowAssumption == MaxFlows \in Nat

VARIABLES
  ledger,            \* the chain: transactions [kind, contract, flow]
  waiting,           \* transactions the Solver has been given
  flow,              \* per connection: where its request is
  request,           \* per connection: the request
  flows,             \* requests so far
  transport_opened,  \* the static flag
  connected          \* executor_transport is open

flowVars == <<ledger, waiting, flow, request, flows, transport_opened, connected>>

NoRequest == [kind |-> "none"]
Kinds == {"transfer", "deploy", "call"}

IsDeployed(c) == \E i \in DOMAIN ledger : ledger[i].kind = "deploy" /\ ledger[i].contract = c

(* The newest state of c in the chain, by its position: what is of c and   *)
(* deploys nothing, which a call's own transaction is as well.             *)
StateOf(c) ==
  LET S == {i \in DOMAIN ledger : ledger[i].kind \in {"state", "call"} /\ ledger[i].contract = c}
  IN  IF S = {} THEN 0 ELSE CHOOSE i \in S : \A j \in S : j <= i

FlowInit ==
  /\ ledger = <<>> /\ waiting = {} /\ flows = 0
  /\ flow = [k \in Clients |-> "idle"] /\ request = [k \in Clients |-> NoRequest]
  /\ transport_opened = FALSE /\ connected = FALSE

(* Mutant: whether the contract is there is not asked. *)
AdmitsAny(kind, c) == TRUE

(* smart_for_executor.address.empty() == deploy *)
Admits(kind, c) == kind = "transfer" \/ (~IsDeployed(c) <=> kind = "deploy")

(* Up to the test; a request it does not pass is answered with FAILURE. A  *)
(* deployment runs the code found in the chain, which is none.             *)
BeginFlow(k, kind, c) ==
  /\ flow[k] = "idle" /\ flows < MaxFlows
  /\ flows' = flows + 1
  /\ IF Admits(kind, c)
     THEN /\ flow' = [flow EXCEPT ![k] = "send"]
          /\ request' = [request EXCEPT ![k] =
               [kind |-> kind, contract |-> c, no |-> flows + 1,
                base |-> StateOf(c), code |-> IsDeployed(c)]]
     ELSE UNCHANGED <<flow, request>>
  /\ UNCHANGED <<ledger, waiting, transport_opened, connected>>

Give(k, kind) == waiting' = waiting \cup
  {[kind |-> kind, contract |-> request[k].contract, flow |-> request[k].no, base |-> request[k].base]}

(* The answer goes to the client. *)
EndFlow(k) ==
  flow' = [flow EXCEPT ![k] = "idle"] /\ request' = [request EXCEPT ![k] = NoRequest]

(* solver.send_wallet_transaction(send_transaction) *)
SendRequest(k) ==
  /\ flow[k] = "send"
  /\ Give(k, request[k].kind)
  /\ IF request[k].kind = "transfer" THEN EndFlow(k)
     ELSE flow' = [flow EXCEPT ![k] = "open"] /\ UNCHANGED request
  /\ UNCHANGED <<ledger, flows, transport_opened, connected>>

(* The first request sets the flag and opens the transport; if open        *)
(* throws, the request ends and the flag stays.                            *)
OpenTransport(k) ==
  /\ flow[k] = "open"
  /\ transport_opened' = TRUE
  /\ \/ /\ flow' = [flow EXCEPT ![k] = "execute"]
        /\ connected' = (connected \/ ~transport_opened) /\ UNCHANGED request
     \/ ~transport_opened /\ EndFlow(k) /\ UNCHANGED connected
  /\ UNCHANGED <<ledger, waiting, flows>>

(* executeByteCode, which throws without a connection. *)
ExecuteFails(k) ==
  /\ flow[k] = "execute" /\ EndFlow(k)
  /\ UNCHANGED <<ledger, waiting, flows, transport_opened, connected>>

(* The new state goes to the Solver, the answer is SUCCESS. *)
ExecuteAndSend(k) ==
  /\ flow[k] = "execute" /\ connected
  /\ Give(k, "state") /\ EndFlow(k)
  /\ UNCHANGED <<ledger, flows, transport_opened, connected>>

(* External: the Solver writes or drops a transaction. *)
SolverWrites(t) ==
  /\ t \in waiting
  /\ waiting' = waiting \ {t} /\ ledger' = Append(ledger, t)
  /\ UNCHANGED <<flow, request, flows, transport_opened, connected>>

SolverDrops(t) ==
  /\ t \in waiting
  /\ waiting' = waiting \ {t}
  /\ UNCHANGED <<ledger, flow, request, flows, transport_opened, connected>>

FlowNext ==
  \/ \E k \in Clients :
       \/ \E kind \in Kinds, c \in FlowContracts : BeginFlow(k, kind, c)
       \/ SendRequest(k) \/ OpenTransport(k) \/ ExecuteFails(k) \/ ExecuteAndSend(k)
  \/ \E t \in waiting : SolverWrites(t) \/ SolverDrops(t)

FlowSpec == FlowInit /\ [][FlowNext]_flowVars

-----------------------------------------------------------------------------
(* A call is in the chain only behind a deployment of its contract,        *)
(* whatever the Solver drops or delays and however requests overlap: the   *)
(* caches TransactionFlow asks only know what is in the chain.             *)
CallsDeployed ==
  \A i \in DOMAIN ledger : ledger[i].kind = "call" =>
    \E j \in 1..(i - 1) : ledger[j].kind = "deploy" /\ ledger[j].contract = ledger[i].contract

(* A contract is deployed once. Fails: two requests pass the test before   *)
(* the first deployment is in the chain.                                   *)
DeployedOnce ==
  \A i, j \in DOMAIN ledger :
    ledger[i].kind = "deploy" /\ ledger[j].kind = "deploy" /\ ledger[i].contract = ledger[j].contract => i = j

(* Every state of a contract was computed from the one before it. Fails:   *)
(* two calls run on the same state.                                        *)
StatesFollow ==
  \A i \in DOMAIN ledger : ledger[i].kind = "state" =>
    ~\E j \in DOMAIN ledger : /\ ledger[j].kind = "state" /\ ledger[j].contract = ledger[i].contract
                              /\ ledger[i].base < j /\ j < i

(* The flag tells whether the transport is open. Fails when open throws:   *)
(* nobody opens it again.                                                  *)
FlagTellsOpen == transport_opened => connected

(* What is executed is the contract's code. Fails for every deployment. *)
RunsCode == \A k \in Clients : flow[k] = "execute" => request[k].code
=============================================================================
