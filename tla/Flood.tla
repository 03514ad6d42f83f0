------------------------------- MODULE Flood -------------------------------
(***************************************************************************)
(* The start of a round over several nodes: the transport's filter and     *)
(* redirects (SessionIO), its resend list and the Node's level guard seen  *)
(* together. The writer broadcasts the round table; whoever gets it starts *)
(* the round, and confidants that have started send their vectors to the   *)
(* other confidants directly. Packets are lost, repeated and reordered.    *)
(***************************************************************************)
EXTENDS Integers, FiniteSets

CONSTANTS
  Nodes,       \* nodes of the network
  Origin,      \* the writer that sends the table
  Ring,        \* m_nodesRing of each node
  Confidants,  \* confidants of the new round
  Lossy        \* packets may be lost

ASSUME FloodAssumption ==
  /\ Origin \in Nodes /\ Confidants \subseteq Nodes
  /\ Ring \in [Nodes -> SUBSET Nodes]
  /\ Lossy \in BOOLEAN

VARIABLES
  started,   \* nodes that have started the round
  sent,      \* confidants that have sent their vector
  resends,   \* m_taskman of each node: <<to, message>>
  net,       \* packets under way: <<to, message>>
  seen,      \* m_backData of each node: messages
  gotVector, \* vectors a node has passed to its Solver
  early      \* vectors a node has dropped since its level was not Confidant

floodVars == <<started, sent, resends, net, seen, gotVector, early>>

(* A message is known by its HashBlock; the vector of s by its sender. *)
Table == <<"table", Origin>>
Vector(s) == <<"vector", s>>

FloodInit ==
  /\ started = {} /\ sent = {} /\ net = {}
  /\ resends = [n \in Nodes |-> {}]
  /\ seen = [n \in Nodes |-> {}]
  /\ gotVector = [n \in Nodes |-> {}]
  /\ early = [n \in Nodes |-> {}]

(* Mutant: the list is cleared after the table was put into it. *)
SendRoundTableCleared ==
  /\ started = {}
  /\ started' = {Origin}
  /\ resends' = [resends EXCEPT ![Origin] = {}]
  /\ UNCHANGED <<sent, net, seen, gotVector, early>>

(* initNextRound and sendRoundTable of the writer. *)
SendRoundTable ==
  /\ started = {}
  /\ started' = {Origin}
  /\ resends' = [resends EXCEPT ![Origin] = {<<n, Table>> : n \in Ring[Origin]}]
  /\ UNCHANGED <<sent, net, seen, gotVector, early>>

(* sendVector after the round has started: a task per other confidant. *)
SendVector(s) ==
  /\ s \in (Confidants \cap started) \ sent
  /\ sent' = sent \cup {s}
  /\ resends' = [resends EXCEPT ![s] = @ \cup {<<n, Vector(s)>> : n \in Confidants \ {s}}]
  /\ UNCHANGED <<started, net, seen, gotVector, early>>

(* TaskManager::run launches what is in the list, again and again. *)
Launch(n) ==
  /\ net' = net \cup resends[n]
  /\ UNCHANGED <<started, sent, resends, seen, gotVector, early>>

(* Mutant: every copy of the table removes all tasks. *)
ReceiveTableClears(n) ==
  LET p     == <<n, Table>>
      first == Table \notin seen[n]
  IN  /\ p \in net
      /\ seen' = [seen EXCEPT ![n] = @ \cup {Table}]
      /\ net' = (net \ {p}) \cup (IF first THEN {<<q, Table>> : q \in Ring[n]} ELSE {})
      /\ started' = started \cup {n}
      /\ resends' = [resends EXCEPT ![n] = {}]
      /\ UNCHANGED <<sent, gotVector, early>>

(* A table is redirected and processed by whoever sees it first: the round *)
(* starts, and getRoundTable removes all tasks. A round that has started   *)
(* is not started again.                                                   *)
ReceiveTable(n) ==
  LET p     == <<n, Table>>
      first == Table \notin seen[n]
      start == first /\ n \notin started
  IN  /\ p \in net
      /\ seen' = [seen EXCEPT ![n] = @ \cup {Table}]
      /\ net' = (net \ {p}) \cup (IF first THEN {<<q, Table>> : q \in Ring[n]} ELSE {})
      /\ started' = IF start THEN started \cup {n} ELSE started
      /\ resends' = IF start THEN [resends EXCEPT ![n] = {}] ELSE resends
      /\ UNCHANGED <<sent, gotVector, early>>

(* A vector is counted first and looked at by the level guard of getVector *)
(* afterwards; every later copy is stopped by the filter.                  *)
ReceiveVector(n, s) ==
  LET first == Vector(s) \notin seen[n]
  IN  /\ <<n, Vector(s)>> \in net
      /\ net' = net \ {<<n, Vector(s)>>}
      /\ seen' = [seen EXCEPT ![n] = @ \cup {Vector(s)}]
      /\ gotVector' = IF first /\ n \in started THEN [gotVector EXCEPT ![n] = @ \cup {s}] ELSE gotVector
      /\ early' = IF first /\ n \notin started THEN [early EXCEPT ![n] = @ \cup {s}] ELSE early
      /\ UNCHANGED <<started, sent, resends>>

Lose(p) ==
  /\ Lossy /\ p \in net
  /\ net' = net \ {p}
  /\ UNCHANGED <<started, sent, resends, seen, gotVector, early>>

FloodNext ==
  \/ SendRoundTable
  \/ \E n \in Nodes : ReceiveTable(n) \/ Launch(n)
  \/ \E n, s \in Confidants : ReceiveVector(n, s)
  \/ \E s \in Confidants : SendVector(s)
  \/ \E p \in net : Lose(p)

(* Tasks are launched for ever; what is sent over and over arrives.        *)
FloodFairness ==
  /\ \A n \in Nodes : WF_floodVars(Launch(n)) /\ SF_floodVars(ReceiveTable(n))
  /\ \A n \in Confidants : \A s \in Confidants \ {n} : SF_floodVars(ReceiveVector(n, s))

FloodSpec == FloodInit /\ [][FloodNext]_floodVars /\ FloodFairness

-----------------------------------------------------------------------------
(* Once the writer has begun the round every node it knows starts it,      *)
(* whatever is lost: the table stays in the resend list, and a packet that *)
(* is already known is stopped only where the round has started.           *)
NeighboursStart == started # {} ~> Ring[Origin] \subseteq started

(* Every vector that is sent reaches each confidant's Solver, or its first *)
(* copy came before the table did.                                         *)
VectorOrEarly ==
  \A n \in Confidants : \A s \in Confidants \ {n} :
    s \in sent ~> (s \in gotVector[n] \cup early[n])

(* No vector is lost for good. Fails: one that overtakes the table is      *)
(* marked as seen, dropped by the level guard, and all resends of it are   *)
(* stopped by the filter.                                                  *)
VectorArrives ==
  \A n \in Confidants : \A s \in Confidants \ {n} : s \in sent ~> s \in gotVector[n]

(* Everyone the table can reach over the rings starts the round. Fails if  *)
(* packets are lost: a redirect is sent once.                              *)
RingStarts == started # {} ~> started = Nodes
=============================================================================
