----------------------------- MODULE NodeRound -----------------------------
(***************************************************************************)
(* The roles and rounds of a network of nodes: csnode's Node on every      *)
(* node, over a transport that resends, loses, repeats and reorders.       *)
(*                                                                         *)
(* External: the Solver, whose source is not in the repository. It calls   *)
(* the sending operations of its Node whenever it likes, and its consensus *)
(* settles on at most one writer in a round. The signal server tells a     *)
(* joining node the table of some round that has begun.                    *)
(*                                                                         *)
(* A message carries the round it was sent in, which no packet of the      *)
(* Solver's does, and its sender (origin_ip), which no Node::get... tests. *)
(* Messages of a kind that a node sends in one round are not told apart.   *)
(***************************************************************************)
EXTENDS Integers, FiniteSets

CONSTANTS
  Nodes,      \* node ids
  Tables,     \* round tables: mainNode_ and confidantNodes_
  Kinds,      \* messages the Solver sends, besides the round table
  MaxRound,   \* bound: rounds
  MaxTasks,   \* bound: messages in a resend list
  MaxNet,     \* bound: messages with copies under way at a time
  Malformed,  \* whether the signal server's init data may be ill-formed
  None        \* no table, no writer, nothing received

AllKinds == {"tx", "first", "list", "vector", "matrix", "block", "hash"}
Rounds == 1..MaxRound

ASSUME RoundAssumption ==
  /\ Tables \subseteq [main : Nodes, conf : SUBSET Nodes]
  /\ Kinds \subseteq AllKinds
  /\ MaxRound \in Nat \ {0} /\ MaxTasks \in Nat /\ MaxNet \in Nat
  /\ Malformed \in BOOLEAN
  /\ None \notin Nodes /\ None \notin Tables

VARIABLES
  phase,    \* registering until ReceiveRegistration hands over to StartReceive
  level,    \* myLevel_
  round,    \* roundNum_
  table,    \* mainNode_ and confidantNodes_
  tasks,    \* messages in the resend list of the node
  net,      \* messages with a copy under way
  given,    \* what the Node gave its Solver last in this round
  writer,   \* the Solvers' consensus: the writer of a round
  decided   \* the table a round was begun with

vars == <<phase, level, round, table, tasks, net, given, writer, decided>>

Levels == {"Normal", "Confidant", "Main", "Writer"}

(* myLevel_ is not initialised. The signal server opens the first round. *)
Init ==
  /\ phase = [n \in Nodes |-> "registering"]
  /\ level \in [Nodes -> Levels]
  /\ round = [n \in Nodes |-> 0]
  /\ table = [n \in Nodes |-> None]
  /\ tasks = [n \in Nodes |-> {}]
  /\ net = {}
  /\ given = [n \in Nodes |-> None]
  /\ writer = [r \in Rounds |-> None]
  /\ \E t \in Tables : decided = [r \in Rounds |-> IF r = 1 THEN t ELSE None]

(* The role a table gives a node. *)
RoleIn(t, n) ==
  IF t.main = n THEN "Main" ELSE IF n \in t.conf THEN "Confidant" ELSE "Normal"

(* Mutant: the role of the last round is kept. *)
OnRoundStartKeeps(n, r, t) ==
  /\ round' = [round EXCEPT ![n] = r]
  /\ table' = [table EXCEPT ![n] = t]
  /\ given' = [given EXCEPT ![n] = None]
  /\ UNCHANGED level

(* onRoundStart, with the round data just stored: nextRound restarts the Solver. *)
OnRoundStart(n, r, t) ==
  /\ round' = [round EXCEPT ![n] = r]
  /\ table' = [table EXCEPT ![n] = t]
  /\ level' = [level EXCEPT ![n] = RoleIn(t, n)]
  /\ given' = [given EXCEPT ![n] = None]

(* readRoundData: a round that is over, or the current one, is not read. *)
ReadRoundData(n, r) == r > round[n]

(* getInitRing: round data newer than roundNum_ (0), the first round starts. *)
GetInitRing(n, r) ==
  /\ phase[n] = "registering"
  /\ decided[r] # None /\ ReadRoundData(n, r)
  /\ phase' = [phase EXCEPT ![n] = "receiving"]
  /\ OnRoundStart(n, r, decided[r])
  /\ tasks' = [tasks EXCEPT ![n] = {}]
  /\ UNCHANGED <<net, writer, decided>>

(* getInitRing: the round data is good and stored, the list of nodes after *)
(* it is not, and the handler returns before onRoundStart.                 *)
GetInitRingBadTail(n, r) ==
  /\ Malformed
  /\ phase[n] = "registering"
  /\ decided[r] # None /\ ReadRoundData(n, r)
  /\ phase' = [phase EXCEPT ![n] = "receiving"]
  /\ round' = [round EXCEPT ![n] = r]
  /\ table' = [table EXCEPT ![n] = decided[r]]
  /\ UNCHANGED <<level, tasks, net, given, writer, decided>>

(* getInitRing: readRoundData fails; the node is receiving all the same. *)
GetInitRingBadHead(n) ==
  /\ Malformed
  /\ phase[n] = "registering"
  /\ phase' = [phase EXCEPT ![n] = "receiving"]
  /\ UNCHANGED <<level, round, table, tasks, net, given, writer, decided>>

Message(k, n, to) == [kind |-> k, from |-> n, to |-> to, round |-> round[n], table |-> None]

(* Mutant: any table is accepted. *)
GetRoundTableAny(n, m) ==
  /\ phase[n] = "receiving"
  /\ m \in net /\ m.kind = "table"
  /\ m.round # round[n]
  /\ OnRoundStart(n, m.round, m.table)
  /\ tasks' = [tasks EXCEPT ![n] = {}]
  /\ UNCHANGED <<phase, net, writer, decided>>

(* Mutant: only the next round's table is accepted. *)
GetRoundTableNext(n, m) ==
  /\ phase[n] = "receiving"
  /\ m \in net /\ m.kind = "table"
  /\ m.round = round[n] + 1
  /\ OnRoundStart(n, m.round, m.table)
  /\ tasks' = [tasks EXCEPT ![n] = {}]
  /\ UNCHANGED <<phase, net, writer, decided>>

(* getRoundTable: a newer round starts, other tables are ignored. *)
GetRoundTable(n, m) ==
  /\ phase[n] = "receiving"
  /\ m \in net /\ m.kind = "table"
  /\ ReadRoundData(n, m.round)
  /\ OnRoundStart(n, m.round, m.table)
  /\ tasks' = [tasks EXCEPT ![n] = {}]
  /\ UNCHANGED <<phase, net, writer, decided>>

(* sendRoundTable: drops all tasks and broadcasts the node's round data. *)
SendRoundTable(n) ==
  /\ phase[n] = "receiving" /\ table[n] # None
  /\ tasks' = [tasks EXCEPT ![n] = {[kind |-> "table", from |-> n, to |-> Nodes,
                                     round |-> round[n], table |-> table[n]]}]
  /\ UNCHANGED <<phase, level, round, table, net, given, writer, decided>>

(* addTaskDirect, addTaskBroadcast: one more message in the resend list.   *)
(* Without a table there is no address to send to.                         *)
Post(n, k, to) ==
  /\ k \in Kinds /\ table[n] # None
  /\ Cardinality(tasks[n]) < MaxTasks
  /\ tasks' = [tasks EXCEPT ![n] = @ \cup {Message(k, n, to)}]
  /\ UNCHANGED <<phase, level, round, table, net, given, writer, decided>>

(* sendByConfidants: a task for each confidant but the node itself. *)
ByConfidants(n) == table[n].conf \ {n}

SendTransaction(n) == level[n] # "Main" /\ Post(n, "tx", {table[n].main})

SendFirstTransaction(n) == level[n] = "Main" /\ Post(n, "first", ByConfidants(n))

SendTransactionList(n, target) == level[n] = "Main" /\ Post(n, "list", {target})

SendVector(n) == level[n] = "Confidant" /\ Post(n, "vector", ByConfidants(n))

(* Mutant: a node outside the round's confidants sends matrices. *)
SendMatrixAny(n) == level[n] # "Writer" /\ Post(n, "matrix", ByConfidants(n))

SendMatrix(n) == level[n] = "Confidant" /\ Post(n, "matrix", ByConfidants(n))

(* A broadcast, which other nodes send on to everyone, its sender included. *)
SendBlock(n) == level[n] = "Writer" /\ Post(n, "block", Nodes)

SendHash(n, target) == level[n] # "Writer" /\ Post(n, "hash", {target})

(* A message reaches the Solver of a receiver. *)
Give(n, m, k) ==
  /\ phase[n] = "receiving"
  /\ m \in net /\ m.kind = k /\ n \in m.to
  /\ given' = [given EXCEPT ![n] = m]
  /\ UNCHANGED <<phase, round, table, tasks, net, writer, decided>>

GetTransaction(n, m) ==
  level[n] \in {"Main", "Writer"} /\ Give(n, m, "tx") /\ UNCHANGED level

GetFirstTransaction(n, m) == level[n] = "Confidant" /\ Give(n, m, "first") /\ UNCHANGED level

GetTransactionsList(n, m) ==
  level[n] \in {"Confidant", "Writer"} /\ Give(n, m, "list") /\ UNCHANGED level

GetVector(n, m) == level[n] = "Confidant" /\ Give(n, m, "vector") /\ UNCHANGED level

GetMatrix(n, m) == level[n] = "Confidant" /\ Give(n, m, "matrix") /\ UNCHANGED level

(* Whatever round the block is from, the node's part in this one is over. *)
GetBlock(n, m) ==
  /\ level[n] # "Writer"
  /\ Give(n, m, "block")
  /\ level' = [level EXCEPT ![n] = "Normal"]

GetHash(n, m) == level[n] = "Writer" /\ Give(n, m, "hash") /\ UNCHANGED level

(* becomeWriter, called by the Solver the consensus of the round settled   *)
(* on. The code warns at an unexpected level and goes on.                  *)
BecomeWriter(n) ==
  /\ phase[n] = "receiving" /\ round[n] > 0
  /\ writer[round[n]] \in {None, n}
  /\ writer' = [writer EXCEPT ![round[n]] = n]
  /\ level' = [level EXCEPT ![n] = "Writer"]
  /\ UNCHANGED <<phase, round, table, tasks, net, given, decided>>

(* Mutant: the level is not looked at. *)
InitNextRoundAny(n, t) ==
  /\ phase[n] = "receiving" /\ round[n] \in 1..(MaxRound - 1)
  /\ OnRoundStart(n, round[n] + 1, t)
  /\ decided' = [decided EXCEPT ![round[n] + 1] = t]
  /\ UNCHANGED <<phase, tasks, net, writer>>

(* initNextRound: the writer begins the next round with a table of its choice. *)
InitNextRound(n, t) ==
  /\ phase[n] = "receiving" /\ round[n] \in 1..(MaxRound - 1)
  /\ level[n] = "Writer"
  /\ OnRoundStart(n, round[n] + 1, t)
  /\ decided' = [decided EXCEPT ![round[n] + 1] = t]
  /\ UNCHANGED <<phase, tasks, net, writer>>

(* TaskManager::run sends a message (again). *)
Launch(n) ==
  \E m \in tasks[n] :
    /\ Cardinality(net) < MaxNet
    /\ net' = net \cup {m}
    /\ UNCHANGED <<phase, level, round, table, tasks, given, writer, decided>>

(* Every copy under way is lost, or has arrived for the last time. *)
Lose(m) ==
  /\ net' = net \ {m}
  /\ UNCHANGED <<phase, level, round, table, tasks, given, writer, decided>>

Register(n) ==
  \/ \E r \in Rounds : GetInitRing(n, r) \/ GetInitRingBadTail(n, r)
  \/ GetInitRingBadHead(n)

Solve(n) ==
  \/ SendRoundTable(n) \/ SendTransaction(n) \/ SendFirstTransaction(n)
  \/ SendVector(n) \/ SendMatrix(n) \/ SendBlock(n) \/ BecomeWriter(n)
  \/ \E target \in Nodes \ {n} : SendTransactionList(n, target) \/ SendHash(n, target)
  \/ \E t \in Tables : InitNextRound(n, t)

Handle(n, m) ==
  \/ GetRoundTable(n, m) \/ GetTransaction(n, m) \/ GetFirstTransaction(n, m)
  \/ GetTransactionsList(n, m) \/ GetVector(n, m) \/ GetMatrix(n, m)
  \/ GetBlock(n, m) \/ GetHash(n, m)

Next ==
  \/ \E n \in Nodes : Register(n) \/ Solve(n) \/ Launch(n) \/ \E m \in net : Handle(n, m)
  \/ \E m \in net : Lose(m)

Spec == Init /\ [][Next]_vars

(* The network thread resends what is in the list, and only the bound on   *)
(* the network ever stops it; no copy is under way for ever; of the copies *)
(* of round tables that keep coming one arrives at each node.              *)
FairSpec ==
  /\ Spec
  /\ WF_vars(\E m \in net : Lose(m))
  /\ \A n \in Nodes : SF_vars(Launch(n)) /\ SF_vars(\E m \in net : GetRoundTable(n, m))

-----------------------------------------------------------------------------
Messages == [kind : AllKinds \cup {"table"}, from : Nodes, to : SUBSET Nodes,
             round : 0..MaxRound, table : Tables \cup {None}]

TypeOK ==
  /\ phase \in [Nodes -> {"registering", "receiving"}]
  /\ level \in [Nodes -> Levels]
  /\ round \in [Nodes -> 0..MaxRound]
  /\ table \in [Nodes -> Tables \cup {None}]
  /\ tasks \in [Nodes -> SUBSET Messages]
  /\ net \subseteq Messages
  /\ given \in [Nodes -> Messages \cup {None}]
  /\ writer \in [Rounds -> Nodes \cup {None}]
  /\ decided \in [Rounds -> Tables \cup {None}]

(* Nodes that are in the same round have the same main node and the same   *)
(* confidants, however late, repeated or out of order the tables came.     *)
RoundAgreement ==
  \A n, k \in Nodes : round[n] = round[k] => table[n] = table[k]

(* A node plays a part only as far as its round table, or the consensus,   *)
(* gives it that part.                                                     *)
RoleByTable ==
  \A n \in Nodes : phase[n] = "receiving" /\ table[n] # None =>
    /\ level[n] = "Main" => table[n].main = n
    /\ level[n] = "Confidant" => n \in table[n].conf
    /\ level[n] = "Writer" => writer[round[n]] = n

(* What a Solver is given from its own round comes from a node that has    *)
(* the right part in the receiver's own table, although no handler checks  *)
(* its sender; and only confidants are given vectors, matrices and the     *)
(* first transaction.                                                      *)
GivenInRole ==
  \A n \in Nodes :
    LET m == given[n]
    IN  m # None /\ m.round = round[n] =>
          /\ m.kind \in {"first", "list"} => m.from = table[n].main
          /\ m.kind \in {"vector", "matrix"} => m.from \in table[n].conf
          /\ m.kind \in {"first", "vector", "matrix"} => n \in table[n].conf
          /\ m.kind = "block" => m.from = writer[round[n]]

(* No node ever goes back to an earlier round. *)
RoundsGrow == [][\A n \in Nodes : round'[n] >= round[n]]_vars

(* A round that is being announced reaches every node, although copies are *)
(* lost and announcers move on: each gets to that round or a later one.    *)
RoundSpreads ==
  \A r \in Rounds :
    (\E n \in Nodes : \E m \in tasks[n] : m.kind = "table" /\ m.round = r)
      ~> (\A n \in Nodes : phase[n] = "receiving" => round[n] >= r)
=============================================================================
