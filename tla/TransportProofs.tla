-------------------------- MODULE TransportProofs ---------------------------
(***************************************************************************)
(* Proofs about parts of the transport, for every value of their           *)
(* constants: the pool of packets, the resending of messages, registration *)
(* and the spreading of a round.                                           *)
(***************************************************************************)
EXTENDS PacketPool, TaskManager, Registration, Flood, FiniteSetTheorems, TLAPS

USE Zenon

(* TaskManager. *)

(* A task that was never launched was due when it was added, and run wakes *)
(* up no later than that.                                                  *)
PromptInv ==
  \A i \in DOMAIN tasks : ~tasks[i].launched => nextTime <= tasks[i].next /\ tasks[i].next <= now

TaskInv == TypeOK /\ PromptInv /\ OldestDecides

LEMMA RelaunchType ==
  ASSUME NEW t \in TaskRecord, now \in Nat
  PROVE  /\ Relaunch(t) \in TaskRecord /\ t.next <= Relaunch(t).next
         /\ t.next <= now => Relaunch(t).launched = TRUE
         /\ t.next > now => Relaunch(t) = t
<1>1. NextTimeout(t.timeout) \in Nat \ {0}
  BY TaskAssumption, SMT DEF NextTimeout, TaskRecord
<1> QED
  BY <1>1, SMT DEF Relaunch, TaskRecord

LEMMA TaskType ==
  ASSUME TypeOK, NEW i \in DOMAIN tasks
  PROVE  tasks[i] \in TaskRecord /\ tasks[i].next \in Nat /\ now \in Nat /\ nextTime \in Nat
<1>1. tasks[i] \in TaskRecord /\ now \in Nat /\ nextTime \in Nat
  BY SMT DEF TypeOK
<1> QED
  BY <1>1 DEF TaskRecord

LEMMA LastTask ==
  ASSUME TypeOK, tasks # <<>>
  PROVE  Len(tasks) \in DOMAIN tasks /\ Len(tasks) \in 1..Len(tasks)
BY SMT DEF TypeOK

LEMMA TaskInvInit == Init => TaskInv
BY SMT DEF Init, TaskInv, TypeOK, PromptInv, OldestDecides

LEMMA TaskInvAdd ==
  ASSUME TaskInv, Add
  PROVE  TaskInv'
<1> DEFINE t == [next |-> now, timeout |-> INIT_TIMEOUT, launched |-> FALSE]
<1>1. /\ nextTime' = IF tasks = <<>> \/ t.next < nextTime THEN t.next ELSE nextTime
      /\ tasks' = <<t>> \o tasks /\ now' = now
  BY DEF Add
<1>2. t \in TaskRecord /\ t.next = now /\ now \in Nat /\ nextTime \in Nat /\ tasks \in Seq(TaskRecord)
  BY TaskAssumption DEF TaskInv, TypeOK, TaskRecord
<1> HIDE DEF t
<1>3. /\ tasks' \in Seq(TaskRecord) /\ Len(tasks') = Len(tasks) + 1 /\ Len(tasks) \in Nat
      /\ tasks'[1] = t
      /\ \A i \in 2..Len(tasks') : i - 1 \in DOMAIN tasks /\ tasks'[i] = tasks[i - 1]
  BY <1>1, <1>2, SMT
<1>4. nextTime' \in Nat /\ nextTime' <= now /\ (tasks # <<>> => nextTime' <= nextTime)
  BY <1>1, <1>2, SMT
<1>5. TypeOK'
  BY <1>1, <1>2, <1>3, <1>4 DEF TypeOK
<1>6. PromptInv'
  <2> SUFFICES ASSUME NEW i \in DOMAIN tasks', ~tasks'[i].launched
               PROVE  nextTime' <= tasks'[i].next /\ tasks'[i].next <= now'
    BY DEF PromptInv
  <2>1. CASE i = 1
    BY <1>1, <1>2, <1>3, <1>4, <2>1, SMT
  <2>2. CASE i # 1
    <3>1. i \in 2..Len(tasks') /\ i - 1 \in DOMAIN tasks /\ tasks'[i] = tasks[i - 1] /\ tasks # <<>>
      BY <1>2, <1>3, <2>2, SMT
    <3>2. nextTime <= tasks[i - 1].next /\ tasks[i - 1].next <= now /\ tasks[i - 1].next \in Nat
      BY <3>1, TaskType DEF TaskInv, PromptInv
    <3> QED
      BY <1>1, <1>2, <1>4, <3>1, <3>2, SMT
  <2> QED
    BY <2>1, <2>2
<1>7. OldestDecides'
  <2>1. CASE tasks = <<>>
    BY <1>1, <1>2, <1>3, <2>1, SMT DEF OldestDecides
  <2>2. CASE tasks # <<>>
    <3>0. Len(tasks) \in DOMAIN tasks /\ Len(tasks) \in 1..Len(tasks)
      BY <2>2, LastTask DEF TaskInv
    <3>1. tasks'[Len(tasks')] = tasks[Len(tasks)]
      BY <1>3, <3>0, SMT
    <3>2. tasks[Len(tasks)].next \in Nat /\ nextTime <= tasks[Len(tasks)].next
      BY <2>2, <3>0, TaskType DEF TaskInv, OldestDecides
    <3> QED
      BY <1>2, <1>4, <2>2, <3>1, <3>2, SMT DEF OldestDecides
  <2> QED
    BY <2>1, <2>2
<1> QED
  BY <1>5, <1>6, <1>7 DEF TaskInv

LEMMA TaskInvRun ==
  ASSUME TaskInv, Run
  PROVE  TaskInv'
<1>1. /\ nextTime <= now /\ now' = now /\ now \in Nat /\ nextTime \in Nat
      /\ tasks' = [i \in DOMAIN tasks |-> Relaunch(tasks[i])] /\ tasks \in Seq(TaskRecord)
      /\ nextTime' = IF tasks = <<>> THEN nextTime ELSE Relaunch(tasks[Len(tasks)]).next
  BY DEF Run, TaskInv, TypeOK
<1>2. /\ DOMAIN tasks' = DOMAIN tasks /\ \A i \in DOMAIN tasks : tasks[i] \in TaskRecord
      /\ \A i \in DOMAIN tasks : tasks'[i] = Relaunch(tasks[i])
      /\ DOMAIN tasks = 1..Len(tasks) /\ Len(tasks) \in Nat
  BY <1>1, SMT
<1>3. \A i \in DOMAIN tasks : tasks'[i] \in TaskRecord
  BY <1>1, <1>2, RelaunchType
<1>4. tasks' \in Seq(TaskRecord) /\ Len(tasks') = Len(tasks)
  BY <1>2, <1>3, <1>1, SMT
<1>5. CASE tasks = <<>>
  BY <1>1, <1>2, <1>4, <1>5, SMT DEF TaskInv, TypeOK, PromptInv, OldestDecides
<1>6. CASE tasks # <<>>
  <2>1. Len(tasks) \in DOMAIN tasks /\ nextTime' = tasks'[Len(tasks)].next /\ nextTime' \in Nat
    <3>1. Len(tasks) \in DOMAIN tasks
      BY <1>6, LastTask DEF TaskInv
    <3>2. nextTime' = tasks'[Len(tasks)].next /\ tasks'[Len(tasks)] \in TaskRecord
      BY <1>1, <1>2, <1>3, <1>6, <3>1
    <3> QED
      BY <3>1, <3>2 DEF TaskRecord
  <2>2. \A i \in DOMAIN tasks : tasks'[i].launched
    <3> SUFFICES ASSUME NEW i \in DOMAIN tasks PROVE tasks'[i].launched
      OBVIOUS
    <3>1. tasks[i] \in TaskRecord /\ tasks'[i] = Relaunch(tasks[i]) /\ tasks[i].next \in Nat
          /\ tasks[i].launched \in BOOLEAN
      BY <1>2 DEF TaskRecord
    <3>2. CASE tasks[i].launched
      BY <3>1, <3>2, SMT DEF Relaunch
    <3>3. CASE ~tasks[i].launched
      BY <1>1, <3>1, <3>3 DEF TaskInv, PromptInv, Relaunch
    <3> QED
      BY <3>2, <3>3
  <2>3. TypeOK' /\ PromptInv'
    BY <1>1, <1>2, <1>4, <2>1, <2>2 DEF TypeOK, PromptInv
  <2>4. OldestDecides'
    BY <1>4, <2>1, SMT DEF OldestDecides
  <2> QED
    BY <2>3, <2>4 DEF TaskInv
<1> QED
  BY <1>5, <1>6

LEMMA TaskInvAlways == Spec => []TaskInv
<1>1. TaskInv /\ [Next]_vars => TaskInv'
  <2> SUFFICES ASSUME TaskInv, [Next]_vars PROVE TaskInv'
    OBVIOUS
  <2>1. CASE Tick
    <3>1. now \in Nat /\ now' = now + 1 /\ tasks' = tasks /\ nextTime' = nextTime
      BY <2>1 DEF Tick, TaskInv, TypeOK
    <3>2. \A i \in DOMAIN tasks : tasks[i].next \in Nat
      BY TaskType DEF TaskInv
    <3> QED
      BY <3>1, <3>2, SMT DEF TaskInv, TypeOK, PromptInv, OldestDecides
  <2>2. CASE Clear
    BY <2>2, SMT DEF Clear, TaskInv, TypeOK, PromptInv, OldestDecides
  <2>3. CASE RunTooEarly \/ UNCHANGED vars
    BY <2>3 DEF RunTooEarly, vars, TaskInv, TypeOK, PromptInv, OldestDecides
  <2> QED
    BY <2>1, <2>2, <2>3, TaskInvAdd, TaskInvRun DEF Next
<1> QED
  BY <1>1, TaskInvInit, PTL DEF Spec

(* run never returns early while a message was never sent: the long pauses *)
(* of older tasks cannot hold back a new message.                          *)
THEOREM PromptFirstSend == Spec => []FirstSendPrompt
<1>1. TaskInv => FirstSendPrompt
  <2> SUFFICES ASSUME TaskInv, NEW i \in DOMAIN tasks, ~tasks[i].launched PROVE nextTime <= now
    BY DEF FirstSendPrompt
  <2>1. tasks[i].next \in Nat /\ now \in Nat /\ nextTime \in Nat
    BY TaskType DEF TaskInv
  <2> QED
    BY <2>1, SMT DEF TaskInv, PromptInv
<1> QED
  BY <1>1, TaskInvAlways, PTL

(* The wake-up time never lies beyond the next launch of the oldest task. *)
THEOREM OldestBounds == Spec => []OldestDecides
BY TaskInvAlways, PTL DEF TaskInv

-----------------------------------------------------------------------------
(* Registration. *)

RegistrationInv ==
  /\ handler \in {"none", "registration", "messages"}
  /\ inits = IF handler = "messages" THEN 1 ELSE 0

(* getInitRing is called once, whatever packets are lost, repeated or      *)
(* overtake each other, and whether or not the server takes the version:   *)
(* the callback of ReceiveRegistration gives up its place with the first   *)
(* data of a round.                                                        *)
THEOREM InitOnceAlways == RegistrationSpec => []InitOnce
<1>1. RegistrationInit => RegistrationInv
  BY DEF RegistrationInit, RegistrationInv
<1>2. RegistrationInv /\ [RegistrationNext]_registrationVars => RegistrationInv'
  <2> SUFFICES ASSUME RegistrationInv, [RegistrationNext]_registrationVars PROVE RegistrationInv'
    OBVIOUS
  <2>1. ASSUME NEW p \in ServerPackets, Receive(p) PROVE RegistrationInv'
    BY <2>1, RegistrationAssumption, SMT DEF RegistrationInv, Receive, ReceiveRegistration, Ignore, Counted
  <2>2. CASE InitConnection
    BY <2>2 DEF RegistrationInv, InitConnection
  <2>3. CASE \/ AskerTest \/ AskerSend \/ Answer \/ StartFirstRound \/ LoseRequest
             \/ \E p \in ServerPackets : LoseAnswer(p)
             \/ UNCHANGED registrationVars
    BY <2>3 DEF RegistrationInv, AskerTest, AskerSend, Answer, StartFirstRound, LoseRequest,
                LoseAnswer, registrationVars
  <2> QED
    BY <2>1, <2>2, <2>3 DEF RegistrationNext
<1>3. RegistrationInv => InitOnce
  BY SMT DEF RegistrationInv, InitOnce
<1> QED
  BY <1>1, <1>2, <1>3, PTL DEF RegistrationSpec

-----------------------------------------------------------------------------
(* The start of a round. *)

(* What is still needed stays in the resend lists: the table for all nodes *)
(* the writer knows, and every vector that was sent.                       *)
TasksStay ==
  /\ started # {} => \A n \in Ring[Origin] : <<n, Table>> \in resends[Origin]
  /\ \A s \in sent, n \in Confidants : n # s => <<n, Vector(s)>> \in resends[s]

(* What the filter stops was passed on: a node that has seen the table has *)
(* started, and a vector it has seen is with its Solver or came early.     *)
SeenWasHandled ==
  \A n \in Nodes : /\ Table \in seen[n] => n \in started
                   /\ \A s \in Confidants : Vector(s) \in seen[n] => s \in gotVector[n] \cup early[n]

FloodInv ==
  /\ resends \in [Nodes -> SUBSET (Nodes \X ({Table} \cup {Vector(s) : s \in Nodes}))]
  /\ seen \in [Nodes -> SUBSET ({Table} \cup {Vector(s) : s \in Nodes})]
  /\ gotVector \in [Nodes -> SUBSET Nodes] /\ early \in [Nodes -> SUBSET Nodes]
  /\ started \subseteq Nodes /\ sent \subseteq Confidants \cap started
  /\ started # {} => Origin \in started
  /\ started = {} => net = {} /\ \A n \in Nodes : resends[n] = {}
  /\ TasksStay /\ SeenWasHandled

LEMMA FloodStep == FloodInv /\ [FloodNext]_floodVars => FloodInv'
<1> SUFFICES ASSUME FloodInv, [FloodNext]_floodVars PROVE FloodInv'
  OBVIOUS
<1> USE FloodAssumption DEF FloodInv, TasksStay, SeenWasHandled
<1> DEFINE M == {Table} \cup {Vector(s) : s \in Nodes}
<1>0. \A s, r \in Nodes : Vector(s) # Table /\ (Vector(s) = Vector(r) => s = r)
  BY DEF Vector, Table
<1>1. CASE SendRoundTable
  <2>1. sent = {} /\ Ring[Origin] \subseteq Nodes
    BY <1>1 DEF SendRoundTable
  <2>2. {<<n, Table>> : n \in Ring[Origin]} \in SUBSET (Nodes \X M)
    BY <2>1, SMT
  <2> QED
    BY <1>1, <2>1, <2>2, SMT DEF SendRoundTable
<1>2. ASSUME NEW s \in Confidants, SendVector(s) PROVE FloodInv'
  <2>1. {<<n, Vector(s)>> : n \in Confidants \ {s}} \in SUBSET (Nodes \X M)
    BY SMT
  <2>2. resends' \in [Nodes -> SUBSET (Nodes \X M)]
    BY <1>2, <2>1 DEF SendVector
  <2>3. /\ started' = started /\ seen' = seen /\ gotVector' = gotVector /\ early' = early /\ net' = net
        /\ sent' = sent \cup {s} /\ s \in started
    BY <1>2 DEF SendVector
  <2>4. \A r \in Nodes : resends[r] \subseteq resends'[r]
    BY <1>2 DEF SendVector
  <2>5. \A n \in Confidants : n # s => <<n, Vector(s)>> \in resends'[s]
    BY <1>2, SMT DEF SendVector
  <2>6. TasksStay'
    BY <2>3, <2>4, <2>5
  <2> QED
    BY <2>2, <2>3, <2>6, SMT
<1>3. ASSUME NEW n \in Nodes, Launch(n) PROVE FloodInv'
  BY <1>3 DEF Launch
<1>4. ASSUME NEW n \in Nodes, ReceiveTable(n) PROVE FloodInv'
  <2>1. /\ started # {} /\ Origin \in started
        /\ sent' = sent /\ gotVector' = gotVector /\ early' = early
        /\ seen' = [seen EXCEPT ![n] = seen[n] \cup {Table}]
        /\ started \subseteq started' /\ n \in started' /\ started' \subseteq Nodes
    BY <1>4 DEF ReceiveTable
  <2>2. \/ resends' = resends
        \/ n \notin started /\ resends' = [resends EXCEPT ![n] = {}]
    BY <1>4 DEF ReceiveTable
  <2>3. resends' \in [Nodes -> SUBSET (Nodes \X M)] /\ \A m \in started : resends'[m] = resends[m]
    BY <2>2, SMT
  <2>4. TasksStay'
    BY <2>1, <2>3
  <2>5. seen' \in [Nodes -> SUBSET M]
    BY <2>1
  <2>6. SeenWasHandled'
    BY <1>0, <2>1
  <2> QED
    BY <2>1, <2>3, <2>4, <2>5, <2>6
<1>5. ASSUME NEW n \in Confidants, NEW s \in Confidants, ReceiveVector(n, s) PROVE FloodInv'
  <2>1. /\ started' = started /\ sent' = sent /\ resends' = resends /\ started # {}
        /\ seen' = [seen EXCEPT ![n] = seen[n] \cup {Vector(s)}]
    BY <1>5 DEF ReceiveVector
  <2>2. /\ gotVector' \in [Nodes -> SUBSET Nodes] /\ early' \in [Nodes -> SUBSET Nodes]
        /\ \A m \in Nodes : gotVector[m] \subseteq gotVector'[m] /\ early[m] \subseteq early'[m]
    BY <1>5 DEF ReceiveVector
  <2>3. Vector(s) \notin seen[n] => s \in gotVector'[n] \cup early'[n]
    BY <1>5 DEF ReceiveVector
  <2>4. seen' \in [Nodes -> SUBSET M]
    BY <2>1
  <2>5. SeenWasHandled'
    BY <1>0, <2>1, <2>2, <2>3
  <2> QED
    BY <2>1, <2>2, <2>4, <2>5
<1>6. ASSUME NEW p \in net, Lose(p) PROVE FloodInv'
  BY <1>6 DEF Lose
<1>7. CASE UNCHANGED floodVars
  BY <1>7 DEF floodVars
<1> QED
  BY <1>1, <1>2, <1>3, <1>4, <1>5, <1>6, <1>7 DEF FloodNext

(* In a network of any nodes and rings, lossy or not, no table or vector   *)
(* that somebody still waits for leaves its sender's resend list, though   *)
(* getRoundTable clears the list; and the filter of SessionIO stops only   *)
(* what the Node has been given. This is the safety on which rests that    *)
(* neighbours start the round and vectors arrive or come early.            *)
THEOREM FloodSafe == FloodSpec => [](TasksStay /\ SeenWasHandled)
<1>1. FloodInit => FloodInv
  BY FloodAssumption DEF FloodInit, FloodInv, TasksStay, SeenWasHandled
<1>2. FloodInv => TasksStay /\ SeenWasHandled
  BY DEF FloodInv
<1> QED
  BY <1>1, <1>2, FloodStep, PTL DEF FloodSpec

-----------------------------------------------------------------------------
(* A fact about sequences. *)
LEMMA SubSeqProperties ==
  ASSUME NEW S, NEW s, NEW m \in Int, NEW n \in Int, \A i \in m..n : s[i] \in S
  PROVE  /\ SubSeq(s, m, n) \in Seq(S) /\ Len(SubSeq(s, m, n)) = IF m <= n THEN n - m + 1 ELSE 0
         /\ \A i \in 1..(n - m + 1) : SubSeq(s, m, n)[i] = s[m + i - 1]
BY SMT
-----------------------------------------------------------------------------
(* PacketPool. Good says of given counters, stack and pointers what        *)
(* FreeOrHeld says of the state; r is a packet that is counted once more   *)
(* than it is held, because a PacketPtr to it is on its way between two    *)
(* holders. Each operation is a sequence of such moves.                    *)

Held(q, p) == {h \in Holders : q[h] = p}
Extra(p, r) == IF p = r THEN 1 ELSE 0
In(s, p) == \E i \in 1..Len(s) : s[i] = p

Typed(n, s, c, q, r) ==
  /\ n \in Nat
  /\ s \in Seq(1..n)
  /\ c \in [1..n -> Nat]
  /\ q \in [Holders -> (1..n) \cup {Null}]
  /\ r \in (1..n) \cup {Null}

Distinct(s) == \A i, j \in 1..Len(s) : s[i] = s[j] => i = j

CountedOrFree(n, s, c, q, r) ==
  \A p \in 1..n :
    IF In(s, p) THEN Held(q, p) = {} /\ p # r
    ELSE c[p] = Cardinality(Held(q, p)) + Extra(p, r) /\ c[p] > 0

Good(n, s, c, q, r) == Typed(n, s, c, q, r) /\ Distinct(s) /\ CountedOrFree(n, s, c, q, r)

(* The number of holders of a packet is a number. *)
LEMMA HeldFinite ==
  ASSUME NEW q, NEW p
  PROVE  IsFiniteSet(Held(q, p)) /\ Cardinality(Held(q, p)) \in Nat
<1>1. Held(q, p) \in SUBSET Holders
  BY DEF Held
<1> QED BY <1>1, PacketAssumption, FS_Subset, FS_CardinalityType

(* w points where q does, but for the holder h. *)
Differ(q, w, h) == \A g \in Holders : g # h => w[g] = q[g]

(* How the holders of a packet change when h lets it go, or takes it. *)
LEMMA HeldAfter ==
  ASSUME NEW q, NEW w, NEW h \in Holders, NEW p, Differ(q, w, h)
  PROVE  Held(w, p) = IF w[h] = p THEN Held(q, p) \cup {h} ELSE Held(q, p) \ {h}
BY DEF Held, Differ

LEMMA CountAfter ==
  ASSUME NEW q, NEW w, NEW h \in Holders, NEW p, Differ(q, w, h)
  PROVE  /\ w[h] = p /\ q[h] # p => Cardinality(Held(w, p)) = Cardinality(Held(q, p)) + 1
         /\ w[h] # p /\ q[h] = p => Cardinality(Held(w, p)) = Cardinality(Held(q, p)) - 1
         /\ (w[h] = p <=> q[h] = p) => Cardinality(Held(w, p)) = Cardinality(Held(q, p))
<1> DEFINE S == Held(q, p)
<1>1. h \in S <=> q[h] = p
  BY DEF Held
<1>2. IsFiniteSet(S)
  BY HeldFinite
<1>3. Cardinality(S \cup {h}) = IF h \in S THEN Cardinality(S) ELSE Cardinality(S) + 1
  BY <1>2, FS_AddElement
<1>4. Cardinality(S \ {h}) = IF h \in S THEN Cardinality(S) - 1 ELSE Cardinality(S)
  BY <1>2, FS_RemoveElement
<1>5. Held(w, p) = IF w[h] = p THEN S \cup {h} ELSE S \ {h}
  BY HeldAfter, SMT
<1> HIDE DEF S
<1>6. CASE w[h] = p
  BY <1>1, <1>3, <1>5, <1>6 DEF S
<1>7. CASE w[h] # p
  BY <1>1, <1>4, <1>5, <1>7 DEF S
<1> QED BY <1>6, <1>7

(* A packet that is held is not free. *)
LEMMA HeldNotFree ==
  ASSUME NEW n, NEW s, NEW c, NEW q, NEW r, Good(n, s, c, q, r), NEW h \in Holders, q[h] # Null
  PROVE  q[h] \in 1..n /\ ~In(s, q[h]) /\ c[q[h]] = Cardinality(Held(q, q[h])) + Extra(q[h], r)
<1>1. q[h] \in 1..n
  BY DEF Good, Typed
<1>2. h \in Held(q, q[h])
  BY DEF Held
<1> QED BY <1>1, <1>2 DEF Good, CountedOrFree

(* A holder drops its packet: decrement. *)
LEMMA DropHolder ==
  ASSUME NEW n, NEW s, NEW c, NEW q, NEW r, Good(n, s, c, q, r), NEW h \in Holders
  PROVE  Good(n, Decremented(c, s, q[h]).stack, Decremented(c, s, q[h]).counter, [q EXCEPT ![h] = Null], r)
<1> DEFINE p == q[h]
           d == Decremented(c, s, p)
           w == [q EXCEPT ![h] = Null]
<1>0. Typed(n, s, c, q, r) /\ Distinct(s) /\ CountedOrFree(n, s, c, q, r)
  BY DEF Good
<1>n. 1..n \subseteq Nat /\ Null \notin 1..n
  BY <1>0, PacketAssumption, SMT DEF Typed
<1>1. CASE p = Null
  <2>1. d.counter = c /\ d.stack = s /\ w = q
    BY <1>1, <1>0 DEF Decremented, Typed
  <2> QED BY <2>1
<1>2. CASE p # Null
  <2>1. p \in 1..n /\ ~In(s, p) /\ c[p] = Cardinality(Held(q, p)) + Extra(p, r) /\ c[p] > 0 /\ c[p] \in Nat
    BY <1>2, HeldNotFree, <1>0 DEF CountedOrFree, Typed
  <2>2. d.counter = [c EXCEPT ![p] = @ - 1] /\ d.stack = IF c[p] = 1 THEN Append(s, p) ELSE s
    BY <1>2 DEF Decremented
  <2>a. q \in [Holders -> (1..n) \cup {Null}]
    BY <1>0 DEF Typed
  <2>c. Differ(q, w, h) /\ w[h] = Null /\ w \in [Holders -> (1..n) \cup {Null}]
    BY <2>a DEF Differ
  <2> HIDE DEF w
  <2>3. ASSUME NEW x \in 1..n
        PROVE  Cardinality(Held(w, x)) = IF x = p THEN Cardinality(Held(q, x)) - 1 ELSE Cardinality(Held(q, x))
    <3>1. x # Null
      BY <1>n
    <3> QED BY <2>c, <3>1, CountAfter, SMT
  <2>4. ASSUME NEW x \in 1..n
        PROVE  Held(w, x) = Held(q, x) \ {h}
    <3>1. x # Null
      BY <1>n
    <3> QED BY <2>c, <3>1, HeldAfter, SMT
  <2>b. s \in Seq(1..n) /\ c \in [1..n -> Nat] /\ n \in Nat /\ r \in (1..n) \cup {Null}
    BY <1>0 DEF Typed
  <2>5. Typed(n, d.stack, d.counter, w, r)
    <3>1. d.stack \in Seq(1..n)
      <4>1. Append(s, p) \in Seq(1..n)
        BY <2>1, <2>b, SMT
      <4> QED BY <4>1, <2>2, <2>b
    <3>2. d.counter \in [1..n -> Nat]
      BY <2>1, <2>2, <2>b, SMT
    <3> QED BY <3>1, <3>2, <2>b, <2>c DEF Typed
  <2>6. Distinct(d.stack)
    <3>1. CASE c[p] = 1
      <4>1. Len(Append(s, p)) = Len(s) + 1 /\ Append(s, p)[Len(s) + 1] = p /\ \A i \in 1..Len(s) : Append(s, p)[i] = s[i]
        BY <2>b, <2>1, SMT
      <4>2. Len(s) \in Nat
        BY <2>b, SMT
      <4>3. d.stack = Append(s, p)
        BY <3>1, <2>2
      <4>4. \A i \in 1..(Len(s) + 1) : i \in 1..Len(s) \/ i = Len(s) + 1
        BY <4>2, SMT
      <4>5. \A i \in 1..Len(s) : s[i] # p
        BY <2>1 DEF In
      <4> QED BY <4>1, <4>2, <4>3, <4>4, <4>5, <1>0, SMT DEF Distinct
    <3>2. CASE c[p] # 1
      BY <3>2, <2>2, <1>0
    <3> QED BY <3>1, <3>2
  <2>7. \A x : In(d.stack, x) <=> (In(s, x) \/ (c[p] = 1 /\ x = p))
    <3>1. CASE c[p] = 1
      <4>1. Len(Append(s, p)) = Len(s) + 1 /\ Append(s, p)[Len(s) + 1] = p /\ \A i \in 1..Len(s) : Append(s, p)[i] = s[i]
        BY <1>0, SMT DEF Typed
      <4>2. Len(s) \in Nat
        BY <1>0, SMT DEF Typed
      <4> QED BY <3>1, <4>1, <4>2, <2>2, SMT DEF In
    <3>2. CASE c[p] # 1
      BY <3>2, <2>2
    <3> QED BY <3>1, <3>2
  <2>8. ASSUME NEW x \in 1..n
        PROVE  IF In(d.stack, x) THEN Held(w, x) = {} /\ x # r
               ELSE d.counter[x] = Cardinality(Held(w, x)) + Extra(x, r) /\ d.counter[x] > 0
    <3>1. CASE x # p
      <4>1. d.counter[x] = c[x] /\ (In(d.stack, x) <=> In(s, x)) /\ Cardinality(Held(w, x)) = Cardinality(Held(q, x))
        BY <3>1, <2>2, <2>3, <2>7, <1>0 DEF Typed
      <4>2. Held(q, x) = {} => Held(w, x) = {}
        BY <2>4
      <4> QED BY <4>1, <4>2, <1>0 DEF CountedOrFree
    <3>2. CASE x = p
      <4>1. d.counter[x] = c[p] - 1
        BY <3>2, <2>1, <2>2, <1>0 DEF Typed
      <4>2. Cardinality(Held(q, p)) \in Nat /\ Cardinality(Held(w, x)) \in Nat /\ IsFiniteSet(Held(w, x))
        BY HeldFinite
      <4>3. CASE c[p] = 1
        <5>1. Cardinality(Held(w, x)) + Extra(x, r) = 0
          <6>1. Cardinality(Held(w, x)) = Cardinality(Held(q, p)) - 1
            BY <2>3, <3>2
          <6>2. Extra(x, r) \in Nat
            BY DEF Extra
          <6> QED BY <6>1, <6>2, <4>3, <4>2, <2>1, <3>2, SMT
        <5>2. Cardinality(Held(w, x)) = 0 /\ x # r
          BY <5>1, <4>2, SMT DEF Extra
        <5> QED BY <5>2, <4>2, <4>3, <2>7, <3>2, FS_EmptySet
      <4>4. CASE c[p] # 1
        <5>1. ~In(d.stack, x)
          BY <4>4, <2>1, <2>7, <3>2
        <5>2. Cardinality(Held(w, x)) = Cardinality(Held(q, p)) - 1
          BY <2>3, <3>2
        <5>3. Extra(x, r) \in Nat
          BY DEF Extra
        <5> QED BY <5>1, <5>2, <5>3, <4>1, <4>2, <4>4, <2>1, <3>2, SMT
      <4> QED BY <4>3, <4>4
    <3> QED BY <3>1, <3>2
  <2>9. Good(n, d.stack, d.counter, w, r)
    BY <2>5, <2>6, <2>8 DEF Good, CountedOrFree
  <2> QED BY <2>9 DEF w
<1> QED BY <1>1, <1>2

(* A packet that is held gets another PacketPtr: increment. *)
LEMMA Reserve ==
  ASSUME NEW n, NEW s, NEW c, NEW q, Good(n, s, c, q, Null), NEW g \in Holders
  PROVE  Good(n, s, Incremented(c, q[g]), q, q[g])
<1> DEFINE p == q[g]
           e == Incremented(c, p)
<1>0. Typed(n, s, c, q, Null) /\ Distinct(s) /\ CountedOrFree(n, s, c, q, Null)
  BY DEF Good
<1>1. CASE p = Null
  BY <1>1 DEF Incremented
<1>2. CASE p # Null
  <2>1. p \in 1..n /\ ~In(s, p) /\ p # Null
    BY <1>2, HeldNotFree
  <2>2. e = [c EXCEPT ![p] = @ + 1]
    BY <1>2 DEF Incremented
  <2>3. Typed(n, s, e, q, p)
    BY <1>0, <2>1, <2>2, SMT DEF Typed
  <2>4. ASSUME NEW x \in 1..n
        PROVE  IF In(s, x) THEN Held(q, x) = {} /\ x # p
               ELSE e[x] = Cardinality(Held(q, x)) + Extra(x, p) /\ e[x] > 0
    <3>1. Cardinality(Held(q, x)) \in Nat
      BY HeldFinite
    <3>2. x # Null
      BY <1>0, PacketAssumption, SMT DEF Typed
    <3>3. e[x] = IF x = p THEN c[x] + 1 ELSE c[x]
      BY <1>0, <2>1, <2>2 DEF Typed
    <3>4. IF In(s, x) THEN Held(q, x) = {} ELSE c[x] = Cardinality(Held(q, x)) + Extra(x, Null) /\ c[x] > 0
      BY <1>0 DEF CountedOrFree
    <3>5. Extra(x, Null) = 0 /\ Extra(x, p) = IF x = p THEN 1 ELSE 0
      BY <3>2 DEF Extra
    <3>6. c[x] \in Nat
      BY <1>0 DEF Typed
    <3>7. CASE In(s, x)
      BY <3>4, <3>7, <2>1
    <3>8. CASE ~In(s, x)
      BY <3>1, <3>3, <3>4, <3>5, <3>6, <3>8, SMT
    <3> QED BY <3>7, <3>8
  <2> QED BY <1>0, <2>3, <2>4 DEF Good, CountedOrFree
<1> QED BY <1>1, <1>2

(* A holder is moved from: its packet is on its way. *)
LEMMA MoveFrom ==
  ASSUME NEW n, NEW s, NEW c, NEW q, Good(n, s, c, q, Null), NEW g \in Holders,
         NEW w \in [Holders -> (1..n) \cup {Null}], Differ(q, w, g), w[g] = Null
  PROVE  Good(n, s, c, w, q[g])
<1> DEFINE p == q[g]
<1>0. Typed(n, s, c, q, Null) /\ Distinct(s) /\ CountedOrFree(n, s, c, q, Null)
  BY DEF Good
<1>1. Differ(q, w, g) /\ w[g] = Null /\ Typed(n, s, c, w, p)
  BY <1>0 DEF Typed
<1>2. ASSUME NEW x \in 1..n
      PROVE  IF In(s, x) THEN Held(w, x) = {} /\ x # p
             ELSE c[x] = Cardinality(Held(w, x)) + Extra(x, p) /\ c[x] > 0
  <2>1. Cardinality(Held(q, x)) \in Nat /\ Cardinality(Held(w, x)) \in Nat
    BY HeldFinite
  <2>2. x # Null
    BY <1>0, PacketAssumption, SMT DEF Typed
  <2>3. IF In(s, x) THEN Held(q, x) = {} ELSE c[x] = Cardinality(Held(q, x)) + 0 /\ c[x] > 0
    BY <1>0, <2>2 DEF CountedOrFree, Extra
  <2>4. CASE In(s, x)
    <3>1. x # p
      BY <2>3, <2>4 DEF Held
    <3>2. Held(w, x) = {}
      BY <1>1, <2>2, <2>3, <2>4, HeldAfter, SMT
    <3> QED BY <3>1, <3>2, <2>4
  <2>5. CASE ~In(s, x)
    <3>1. Cardinality(Held(w, x)) = IF x = p THEN Cardinality(Held(q, x)) - 1 ELSE Cardinality(Held(q, x))
      BY <1>1, <2>2, CountAfter, SMT
    <3>2. Extra(x, p) = IF x = p THEN 1 ELSE 0
      BY DEF Extra
    <3> QED BY <2>1, <2>3, <2>5, <3>1, <3>2, SMT
  <2> QED BY <2>4, <2>5
<1> QED BY <1>0, <1>1, <1>2 DEF Good, CountedOrFree

(* The packet on its way arrives at an empty holder. *)
LEMMA Arrives ==
  ASSUME NEW n, NEW s, NEW c, NEW q, NEW r, Good(n, s, c, q, r), NEW h \in Holders, q[h] = Null,
         NEW w \in [Holders -> (1..n) \cup {Null}], Differ(q, w, h), w[h] = r
  PROVE  Good(n, s, c, w, Null)
<1>0. Typed(n, s, c, q, r) /\ Distinct(s) /\ CountedOrFree(n, s, c, q, r)
  BY DEF Good
<1>1. Differ(q, w, h) /\ w[h] = r /\ Typed(n, s, c, w, Null)
  BY <1>0 DEF Typed
<1>2. ASSUME NEW x \in 1..n
      PROVE  IF In(s, x) THEN Held(w, x) = {} /\ x # Null
             ELSE c[x] = Cardinality(Held(w, x)) + Extra(x, Null) /\ c[x] > 0
  <2>1. Cardinality(Held(q, x)) \in Nat /\ Cardinality(Held(w, x)) \in Nat
    BY HeldFinite
  <2>2. x # Null
    BY <1>0, PacketAssumption, SMT DEF Typed
  <2>3. IF In(s, x) THEN Held(q, x) = {} /\ x # r ELSE c[x] = Cardinality(Held(q, x)) + Extra(x, r) /\ c[x] > 0
    BY <1>0 DEF CountedOrFree
  <2>4. CASE In(s, x)
    BY <1>1, <2>2, <2>3, <2>4, HeldAfter, SMT
  <2>5. CASE ~In(s, x)
    <3>1. Cardinality(Held(w, x)) = IF x = r THEN Cardinality(Held(q, x)) + 1 ELSE Cardinality(Held(q, x))
      BY <1>1, <2>2, CountAfter, SMT
    <3>2. Extra(x, r) = (IF x = r THEN 1 ELSE 0) /\ Extra(x, Null) = 0
      BY <2>2 DEF Extra
    <3> QED BY <2>1, <2>3, <2>5, <3>1, <3>2, SMT
  <2> QED BY <2>4, <2>5
<1> QED BY <1>0, <1>1, <1>2 DEF Good, CountedOrFree

(* The packet on top of the free stack is taken. *)
LEMMA Pop ==
  ASSUME NEW n, NEW s, NEW c, NEW q, Good(n, s, c, q, Null), s # <<>>,
         NEW e \in [1..n -> Nat], \A x \in 1..n : e[x] = IF x = s[Len(s)] THEN 1 ELSE c[x]
  PROVE  Good(n, SubSeq(s, 1, Len(s) - 1), e, q, s[Len(s)])
<1> DEFINE p == s[Len(s)]
           t == SubSeq(s, 1, Len(s) - 1)
<1>0. Typed(n, s, c, q, Null) /\ Distinct(s) /\ CountedOrFree(n, s, c, q, Null)
  BY DEF Good
<1>1. s \in Seq(1..n) /\ n \in Nat /\ Len(s) \in Nat \ {0}
  BY <1>0, SMT DEF Typed
<1>2. p \in 1..n /\ t \in Seq(1..n) /\ Len(t) = Len(s) - 1 /\ \A i \in 1..Len(t) : t[i] = s[i]
  <2>1. \A i \in 1..(Len(s) - 1) : s[i] \in 1..n
    BY <1>1, SMTT(30)
  <2>2. /\ t \in Seq(1..n)
        /\ Len(t) = IF 1 <= Len(s) - 1 THEN Len(s) - 1 - 1 + 1 ELSE 0
        /\ \A i \in 1..(Len(s) - 1 - 1 + 1) : t[i] = s[1 + i - 1]
    BY <1>1, <2>1, SubSeqProperties, SMT
  <2>3. p \in 1..n
    BY <1>1, SMT
  <2> HIDE DEF t, p
  <2>4. Len(t) = Len(s) - 1
    <3>1. PICK k \in Nat \ {0} : k = Len(s)
      BY <1>1
    <3>2. Len(t) = IF 1 <= k - 1 THEN k - 1 - 1 + 1 ELSE 0
      BY <2>2, <3>1
    <3>3. Len(t) = k - 1
      BY <3>2, SMT
    <3> QED BY <3>1, <3>3
  <2>5. ASSUME NEW i \in 1..Len(t) PROVE t[i] = s[i]
    <3>1. i \in 1..(Len(s) - 1 - 1 + 1) /\ 1 + i - 1 = i
      BY <1>1, <2>4, SMT
    <3>2. t[i] = s[1 + i - 1]
      BY <2>2, <3>1
    <3> QED BY <3>1, <3>2
  <2> QED BY <2>2, <2>3, <2>4, <2>5
<1>a. In(s, p)
  BY <1>1, SMT DEF In
<1> HIDE DEF t, p
<1>3. Typed(n, t, e, q, p)
  BY <1>0, <1>2 DEF Typed
<1>b. Len(t) = Len(s) - 1
  BY <1>2
<1>c. 1..Len(t) \subseteq 1..Len(s) /\ Len(s) \notin 1..Len(t)
  BY <1>1, <1>b, SMT
<1>4. Distinct(t)
  <2>1. ASSUME NEW i \in 1..Len(t), NEW j \in 1..Len(t), t[i] = t[j] PROVE i = j
    <3>1. t[i] = s[i] /\ t[j] = s[j]
      BY <1>2
    <3>2. i \in 1..Len(s) /\ j \in 1..Len(s)
      BY <1>c
    <3>3. s[i] = s[j]
      BY <3>1, <2>1
    <3> QED BY <3>2, <3>3, <1>0 DEF Distinct
  <2> QED BY <2>1 DEF Distinct
<1>5. ASSUME NEW x \in 1..n
      PROVE  In(t, x) <=> In(s, x) /\ x # p
  <2>1. \A i \in 1..Len(t) : i \in 1..Len(s) /\ i # Len(s)
    BY <1>c
  <2>2. \A i \in 1..Len(s) : i = Len(s) \/ i \in 1..Len(t)
    BY <1>1, <1>2, SMT
  <2>3. Len(s) \in 1..Len(s) /\ s[Len(s)] = p
    BY <1>1, SMT DEF p
  <2>4. ASSUME In(t, x) PROVE In(s, x) /\ x # p
    <3>1. PICK i \in 1..Len(t) : t[i] = x
      BY <2>4 DEF In
    <3>2. i \in 1..Len(s) /\ s[i] = x /\ i # Len(s)
      BY <3>1, <2>1, <1>2
    <3>3. x # p
      BY <3>2, <2>3, <1>0 DEF Distinct
    <3> QED BY <3>2, <3>3 DEF In
  <2>5. ASSUME In(s, x), x # p PROVE In(t, x)
    <3>1. PICK i \in 1..Len(s) : s[i] = x
      BY <2>5 DEF In
    <3>2. i \in 1..Len(t)
      BY <3>1, <2>2, <2>3, <2>5
    <3> QED BY <3>1, <3>2, <1>2 DEF In
  <2> QED BY <2>4, <2>5
<1>6. Held(q, p) = {}
  BY <1>a, <1>2, <1>0 DEF CountedOrFree
<1>7. ASSUME NEW x \in 1..n
      PROVE  IF In(t, x) THEN Held(q, x) = {} /\ x # p
             ELSE e[x] = Cardinality(Held(q, x)) + Extra(x, p) /\ e[x] > 0
  <2>1. CASE x = p
    <3>1. Cardinality(Held(q, x)) = 0 /\ Extra(x, p) = 1 /\ e[x] = 1
      BY <2>1, <1>6, FS_EmptySet DEF Extra, p
    <3> QED BY <3>1, <2>1, <1>5, SMT
  <2>2. CASE x # p
    <3>a. x # Null
      BY <1>1, PacketAssumption, SMT
    <3>b. e[x] = c[x]
      BY <2>2 DEF p
    <3>1. e[x] = c[x] /\ Extra(x, p) = 0 /\ x # Null
      BY <2>2, <3>a, <3>b DEF Extra
    <3>2. Extra(x, Null) = 0
      BY <3>1 DEF Extra
    <3> QED BY <3>1, <3>2, <2>2, <1>5, <1>0 DEF CountedOrFree
  <2> QED BY <2>1, <2>2
<1>8. Good(n, t, e, q, p)
  BY <1>3, <1>4, <1>7 DEF Good, CountedOrFree
<1> QED BY <1>8 DEF t, p

(* A page is added to an empty stack. *)
LEMMA Grow ==
  ASSUME NEW n \in Nat, NEW c, NEW q, Good(n * PageSize, <<>>, c, q, Null), NEW e \in [1..((n + 1) * PageSize) -> Nat],
         \A x \in 1..(n * PageSize) : e[x] = c[x]
  PROVE  Good((n + 1) * PageSize, PagePackets(n), e, q, Null)
<1> DEFINE a == n * PageSize
           b == (n + 1) * PageSize
           s == PagePackets(n)
<1>0. PageSize \in Nat \ {0}
  BY PacketAssumption
<1>1. a \in Nat /\ b = a + PageSize /\ b \in Nat
  BY <1>0, SMT
<1>2. s = [i \in 1..PageSize |-> a + i]
  BY DEF PagePackets
<1>z. Good(a, <<>>, c, q, Null) /\ e \in [1..b -> Nat] /\ \A x \in 1..a : e[x] = c[x]
  OBVIOUS
<1> HIDE DEF a, b, s
<1>3. Typed(a, <<>>, c, q, Null) /\ CountedOrFree(a, <<>>, c, q, Null)
  BY <1>z DEF Good
<1>4. Len(s) = PageSize /\ s \in Seq(1..b)
  BY <1>0, <1>1, <1>2, SMT
<1>5. Typed(b, s, e, q, Null)
  <2>1. 1..a \subseteq 1..b
    BY <1>0, <1>1, SMT
  <2> QED BY <1>1, <1>3, <1>4, <1>z, <2>1 DEF Typed
<1>6. Distinct(s)
  BY <1>0, <1>1, <1>2, <1>4, SMT DEF Distinct
<1>7. ASSUME NEW x \in 1..b
      PROVE  IF In(s, x) THEN Held(q, x) = {} /\ x # Null
             ELSE e[x] = Cardinality(Held(q, x)) + Extra(x, Null) /\ e[x] > 0
  <2>0. x # Null
    BY <1>1, PacketAssumption, SMT
  <2>1. In(s, x) <=> x > a
    <3>1. ASSUME x > a PROVE In(s, x)
      <4>1. x - a \in 1..PageSize /\ s[x - a] = x
        BY <3>1, <1>0, <1>1, <1>2, SMT
      <4> QED BY <4>1, <1>4 DEF In
    <3>2. ASSUME In(s, x) PROVE x > a
      BY <3>2, <1>0, <1>1, <1>2, <1>4, SMT DEF In
    <3> QED BY <3>1, <3>2
  <2>2. CASE x > a
    <3>1. x \notin (1..a) \cup {Null}
      BY <2>0, <2>2, <1>1, SMT
    <3>2. Held(q, x) = {}
      BY <3>1, <1>3 DEF Typed, Held
    <3> QED BY <2>0, <2>1, <2>2, <3>2
  <2>3. CASE ~(x > a)
    <3>1. x \in 1..a
      BY <2>3, <1>1, SMT
    <3>2. ~In(<<>>, x)
      BY SMT DEF In
    <3> QED BY <2>1, <2>3, <3>1, <3>2, <1>3, <1>z DEF CountedOrFree
  <2> QED BY <2>2, <2>3
<1>8. Good(b, s, e, q, Null)
  BY <1>5, <1>6, <1>7 DEF Good, CountedOrFree
<1> QED BY <1>8 DEF b, s

-----------------------------------------------------------------------------
PoolInv == pages \in Nat \ {0} /\ Good(pages * PageSize, freeStack, counter, ptr, Null)

LEMMA PoolInvInit == PacketInit => PoolInv
<1> SUFFICES ASSUME PacketInit PROVE PoolInv
  OBVIOUS
<1>0. PageSize \in Nat \ {0} /\ Null \notin Nat
  BY PacketAssumption
<1>1. pages = 1 /\ pages * PageSize = PageSize
  BY <1>0, SMT DEF PacketInit
<1>2. freeStack = [i \in 1..PageSize |-> i]
  BY <1>0, SMT DEF PacketInit, PagePackets
<1>3. Len(freeStack) = PageSize /\ freeStack \in Seq(1..PageSize)
  BY <1>0, <1>2, SMT
<1>4. Typed(PageSize, freeStack, counter, ptr, Null)
  BY <1>0, <1>3 DEF Typed, PacketInit
<1>5. Distinct(freeStack)
  BY <1>2, <1>3 DEF Distinct
<1>6. ASSUME NEW x \in 1..PageSize
      PROVE  In(freeStack, x) /\ Held(ptr, x) = {} /\ x # Null
  <2>1. x # Null
    BY <1>0, SMT
  <2>2. In(freeStack, x)
    BY <1>2, <1>3 DEF In
  <2> QED BY <2>1, <2>2 DEF Held, PacketInit
<1>7. Good(PageSize, freeStack, counter, ptr, Null)
  BY <1>4, <1>5, <1>6 DEF Good, CountedOrFree
<1> QED BY <1>1, <1>7, SMT DEF PoolInv

(* The holder h has let its packet go and the packet r arrives instead. *)
LEMMA Replaced ==
  ASSUME NEW n, NEW s, NEW c, NEW q, NEW r, NEW h \in Holders,
         Good(n, s, c, [q EXCEPT ![h] = Null], r), q \in [Holders -> (1..n) \cup {Null}]
  PROVE  Good(n, s, c, [q EXCEPT ![h] = r], Null)
<1> DEFINE v == [q EXCEPT ![h] = Null]
           w == [q EXCEPT ![h] = r]
<1>1. r \in (1..n) \cup {Null}
  BY DEF Good, Typed
<1>2. v[h] = Null /\ w[h] = r /\ Differ(v, w, h) /\ w \in [Holders -> (1..n) \cup {Null}]
  BY <1>1 DEF Differ
<1>3. Good(n, s, c, v, r)
  OBVIOUS
<1> HIDE DEF v, w
<1>4. Good(n, s, c, w, Null)
  BY <1>2, <1>3, Arrives
<1> QED BY <1>4 DEF w

LEMMA DropStep ==
  ASSUME PoolInv, NEW h \in Holders, Drop(h)
  PROVE  PoolInv'
<1>1. Good(pages * PageSize, Decremented(counter, freeStack, ptr[h]).stack,
           Decremented(counter, freeStack, ptr[h]).counter, [ptr EXCEPT ![h] = Null], Null)
  BY DropHolder DEF PoolInv
<1> QED BY <1>1 DEF PoolInv, Drop

LEMMA CopyStep ==
  ASSUME PoolInv, NEW h \in Holders, NEW g \in Holders, Copy(h, g)
  PROVE  PoolInv'
<1> DEFINE n == pages * PageSize
           d == Decremented(counter, freeStack, ptr[h])
           v == [ptr EXCEPT ![h] = Null]
<1>1. Good(n, freeStack, counter, ptr, Null) /\ ptr \in [Holders -> (1..n) \cup {Null}]
  BY DEF PoolInv, Good, Typed
<1>2. Good(n, d.stack, d.counter, v, Null)
  BY <1>1, DropHolder
<1>3. v[g] = ptr[g]
  BY <1>1 DEF Copy
<1>4. /\ counter' = Incremented(d.counter, ptr[g]) /\ freeStack' = d.stack
      /\ ptr' = [ptr EXCEPT ![h] = ptr[g]] /\ pages' = pages
  BY DEF Copy
<1> HIDE DEF d, n
<1>5. Good(n, freeStack', counter', v, ptr[g])
  <2> HIDE DEF v
  <2>1. Good(n, d.stack, Incremented(d.counter, v[g]), v, v[g])
    BY <1>2, Reserve
  <2> QED BY <2>1, <1>3, <1>4
<1>6. Good(n, freeStack', counter', [ptr EXCEPT ![h] = ptr[g]], Null)
  BY <1>1, <1>5, Replaced
<1> QED BY <1>4, <1>6 DEF PoolInv, n

LEMMA MoveStep ==
  ASSUME PoolInv, NEW h \in Holders, NEW g \in Holders, MoveInUse(h, g)
  PROVE  PoolInv'
<1> DEFINE n == pages * PageSize
           d == Decremented(counter, freeStack, ptr[h])
           v == [ptr EXCEPT ![h] = Null]
           u == [v EXCEPT ![g] = Null]
<1>1. Good(n, freeStack, counter, ptr, Null) /\ ptr \in [Holders -> (1..n) \cup {Null}]
  BY DEF PoolInv, Good, Typed
<1>2. h # g /\ pages' = pages /\ ptr' = [ptr EXCEPT ![h] = ptr[g], ![g] = Null]
  BY DEF MoveInUse, Move
<1>3. CASE ptr[h] = ptr[g]
  <2>1. ptr[g] = Null /\ counter' = counter /\ freeStack' = freeStack
    BY <1>3 DEF MoveInUse, Move
  <2>2. ptr' = ptr
    BY <1>1, <1>2, <1>3, <2>1
  <2> QED BY <1>2, <2>1, <2>2 DEF PoolInv
<1>4. CASE ptr[h] # ptr[g]
  <2>1. counter' = d.counter /\ freeStack' = d.stack
    BY <1>4 DEF MoveInUse, Move
  <2>2. Good(n, freeStack', counter', v, Null)
    BY <1>1, <2>1, DropHolder
  <2>3. v \in [Holders -> (1..n) \cup {Null}] /\ v[g] = ptr[g] /\ v[h] = Null
    BY <1>1, <1>2
  <2>4. u \in [Holders -> (1..n) \cup {Null}] /\ Differ(v, u, g) /\ u[g] = Null /\ u[h] = Null
    BY <1>2, <2>3 DEF Differ
  <2>5. ptr' \in [Holders -> (1..n) \cup {Null}] /\ Differ(u, ptr', h) /\ ptr'[h] = ptr[g]
    BY <1>1, <1>2 DEF Differ
  <2> HIDE DEF d, n, v, u
  <2>6. Good(n, freeStack', counter', u, ptr[g])
    <3>1. Good(n, freeStack', counter', u, v[g])
      BY <2>2, <2>4, MoveFrom
    <3> QED BY <2>3, <3>1
  <2>7. Good(n, freeStack', counter', ptr', Null)
    BY <2>4, <2>5, <2>6, Arrives
  <2> QED BY <1>2, <2>7 DEF PoolInv, n
<1> QED BY <1>3, <1>4

(* The packet that getFreePack takes off the stack, for stack and counters *)
(* to which a page has been added if need be.                              *)
LEMMA Taken ==
  ASSUME NEW m, NEW s, NEW c, Good(m, s, c, ptr, Null), s # <<>>, NEW h \in Holders,
         NEW e \in [1..m -> Nat], \A x \in 1..m : e[x] = IF x = s[Len(s)] THEN 1 ELSE c[x],
         NEW d, d = Decremented(e, SubSeq(s, 1, Len(s) - 1), ptr[h])
  PROVE  Good(m, d.stack, d.counter, [ptr EXCEPT ![h] = s[Len(s)]], Null)
<1> DEFINE t == SubSeq(s, 1, Len(s) - 1)
           p == s[Len(s)]
<1>1. Good(m, t, e, ptr, p)
  BY Pop
<1>2. ptr \in [Holders -> (1..m) \cup {Null}]
  BY DEF Good, Typed
<1> HIDE DEF t, p
<1>3. Good(m, Decremented(e, t, ptr[h]).stack, Decremented(e, t, ptr[h]).counter, [ptr EXCEPT ![h] = Null], p)
  BY <1>1, DropHolder
<1>4. Good(m, d.stack, d.counter, [ptr EXCEPT ![h] = Null], p)
  BY <1>3 DEF t
<1>5. Good(m, d.stack, d.counter, [ptr EXCEPT ![h] = p], Null)
  BY <1>2, <1>4, Replaced
<1> QED BY <1>5 DEF p

LEMMA GetFreePackStep ==
  ASSUME PoolInv, NEW h \in Holders, GetFreePack(h)
  PROVE  PoolInv'
<1> DEFINE grow  == freeStack = <<>>
           k     == IF grow THEN pages + 1 ELSE pages
           m     == k * PageSize
           s     == IF grow THEN PagePackets(pages) ELSE freeStack
           p     == s[Len(s)]
           c     == [x \in 1..m |-> IF x \in DOMAIN counter THEN counter[x] ELSE 0]
           e     == [x \in 1..m |-> IF x = p THEN 1 ELSE IF x \in DOMAIN counter THEN counter[x] ELSE 0]
           d     == Decremented(e, SubSeq(s, 1, Len(s) - 1), ptr[h])
<1>0. PageSize \in Nat \ {0} /\ pages \in Nat \ {0}
  BY PacketAssumption DEF PoolInv
<1>1. Good(pages * PageSize, freeStack, counter, ptr, Null)
  BY DEF PoolInv
<1>2. counter \in [1..(pages * PageSize) -> Nat]
  BY <1>1 DEF Good, Typed
<1>3. pages' = k /\ counter' = d.counter /\ freeStack' = d.stack /\ ptr' = [ptr EXCEPT ![h] = p]
  BY DEF GetFreePack
<1>4. k \in Nat \ {0} /\ m \in Nat
  BY <1>0, SMT
<1>5. c \in [1..m -> Nat] /\ e \in [1..m -> Nat]
  BY <1>2
<1>6. Good(m, s, c, ptr, Null) /\ s # <<>>
  <2>1. CASE grow
    <3>1. (pages + 1) * PageSize = pages * PageSize + PageSize /\ pages * PageSize \in Nat
      BY <1>0, SMT
    <3>2. \A x \in 1..(pages * PageSize) : c[x] = counter[x]
      BY <1>0, <1>2, <2>1, <3>1, SMT
    <3>3. Good(pages * PageSize, <<>>, counter, ptr, Null) /\ c \in [1..((pages + 1) * PageSize) -> Nat]
      BY <1>1, <1>5, <2>1
    <3> HIDE DEF c
    <3>4. Good((pages + 1) * PageSize, PagePackets(pages), c, ptr, Null)
      BY <1>0, <3>2, <3>3, Grow
    <3>5. PagePackets(pages) # <<>>
      <4>1. 1 \in DOMAIN PagePackets(pages)
        BY <1>0, SMT DEF PagePackets
      <4> QED BY <4>1, SMT
    <3> QED BY <2>1, <3>4, <3>5
  <2>2. CASE ~grow
    <3>1. c = counter
      BY <1>2, <2>2
    <3> QED BY <1>1, <2>2, <3>1
  <2> QED BY <2>1, <2>2
<1>7. \A x \in 1..m : e[x] = IF x = s[Len(s)] THEN 1 ELSE c[x]
  OBVIOUS
<1>8. d = Decremented(e, SubSeq(s, 1, Len(s) - 1), ptr[h])
  OBVIOUS
<1> HIDE DEF m, k, s, c, e, d
<1>9. Good(m, d.stack, d.counter, [ptr EXCEPT ![h] = s[Len(s)]], Null)
  BY <1>5, <1>6, <1>7, <1>8, Taken, ZenonT(40)
<1> QED BY <1>3, <1>4, <1>9 DEF PoolInv, m

LEMMA PoolInvHolds == PacketSpec => []PoolInv
<1>1. PoolInv /\ [PacketNext]_packetVars => PoolInv'
  <2> SUFFICES ASSUME PoolInv, [PacketNext]_packetVars PROVE PoolInv'
    OBVIOUS
  <2>1. CASE UNCHANGED packetVars
    BY <2>1 DEF packetVars, PoolInv
  <2>2. CASE PacketNext
    BY <2>2, GetFreePackStep, DropStep, CopyStep, MoveStep DEF PacketNext
  <2> QED BY <2>1, <2>2
<1> QED BY <1>1, PoolInvInit, PTL DEF PacketSpec

(* PacketManager never hands out a packet that something still refers to,  *)
(* and never loses one: for any number of holders, any page size and any   *)
(* number of pages, a packet is on the free stack once and held by nobody, *)
(* or its counter is the number of its holders and not zero.               *)
THEOREM FreeOrHeldAlways == PacketSpec => []FreeOrHeld
<1>1. PoolInv => FreeOrHeld
  <2> SUFFICES ASSUME PoolInv, NEW p \in Packets
               PROVE  IF \E i \in DOMAIN freeStack : freeStack[i] = p
                      THEN HoldersOf(p) = {} /\ Cardinality({i \in DOMAIN freeStack : freeStack[i] = p}) = 1
                      ELSE counter[p] = Cardinality(HoldersOf(p)) /\ counter[p] > 0
    BY DEF FreeOrHeld
  <2> DEFINE n == pages * PageSize
             S == {i \in DOMAIN freeStack : freeStack[i] = p}
  <2>1. Typed(n, freeStack, counter, ptr, Null) /\ Distinct(freeStack)
        /\ CountedOrFree(n, freeStack, counter, ptr, Null) /\ p \in 1..n
    BY DEF PoolInv, Good, Packets
  <2>2. DOMAIN freeStack = 1..Len(freeStack) /\ HoldersOf(p) = Held(ptr, p) /\ p # Null
    BY <2>1, PacketAssumption, SMT DEF Typed, HoldersOf, Held
  <2> HIDE DEF n
  <2>3. CASE In(freeStack, p)
    <3>1. PICK i \in 1..Len(freeStack) : freeStack[i] = p
      BY <2>3 DEF In
    <3>2. S = {i}
      BY <2>1, <2>2, <3>1 DEF Distinct
    <3>3. Cardinality(S) = 1
      BY <3>2, FS_Singleton
    <3>4. HoldersOf(p) = {}
      BY <2>1, <2>2, <2>3 DEF CountedOrFree
    <3> QED BY <2>2, <3>1, <3>3, <3>4
  <2>4. CASE ~In(freeStack, p)
    <3>1. counter[p] = Cardinality(Held(ptr, p)) + Extra(p, Null) /\ counter[p] > 0
      BY <2>1, <2>4 DEF CountedOrFree
    <3>2. Extra(p, Null) = 0 /\ Cardinality(Held(ptr, p)) \in Nat
      BY <2>2, HeldFinite DEF Extra
    <3>3. ~\E i \in DOMAIN freeStack : freeStack[i] = p
      BY <2>2, <2>4 DEF In
    <3> QED BY <2>2, <3>1, <3>2, <3>3, SMT
  <2> QED BY <2>3, <2>4
<1> QED BY <1>1, PoolInvHolds, PTL
=============================================================================
