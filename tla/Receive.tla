------------------------------ MODULE Receive ------------------------------
(***************************************************************************)
(* What a node does with a datagram: SessionIO::InputServiceHandleReceive  *)
(* with the ring of known endpoints, the ring of seen packets (m_backData) *)
(* and the collector of message parts (m_packets). The network may         *)
(* deliver any datagram of any message at any time, repeatedly and in any  *)
(* order. Handlers run on the one network thread, so each is a step.       *)
(*                                                                         *)
(* A message is identified by its HashBlock, a packet by that and its      *)
(* header, which is how getBackDataCounter builds its key.                 *)
(***************************************************************************)
EXTENDS Integers, Sequences, FiniteSets

CONSTANTS
  Messages,      \* messages other nodes send
  Redirects,     \* those with the command Redirect
  countHeader,   \* number of parts, 0 for a message of one packet
  Senders,       \* endpoints datagrams come from
  RingCapacity,  \* m_nodesRing, 500 in the code
  BackCapacity,  \* m_backData, 50000 in the code
  PartCapacity,  \* m_packets, 1000 in the code
  MAX_REDIRECT,  \* 1 in the code
  MaxCounter     \* bound: arrivals of a packet that are counted

ASSUME ReceiveAssumption ==
  /\ Redirects \subseteq Messages
  /\ countHeader \in [Messages -> Nat]
  /\ {RingCapacity, BackCapacity, PartCapacity, MAX_REDIRECT, MaxCounter} \subseteq Nat \ {0}

VARIABLES
  nodes,      \* m_nodesRing.nodes_
  endpoints,  \* m_nodesRing.endpoints_, oldest first
  back,       \* m_backData.map_: packet key -> counter
  backQueue,  \* m_backData.queue_
  parts,      \* m_packets.map_: message -> headers present and left
  partQueue,  \* m_packets.queue_
  handled,    \* per message: times given to the Node since it was last forgotten
  forwarded   \* per packet: times sent on since it was last forgotten

vars == <<nodes, endpoints, back, backQueue, parts, partQueue, handled, forwarded>>

Headers(m) == IF countHeader[m] = 0 THEN {0} ELSE 0..(countHeader[m] - 1)
Keys == {<<m, h>> : m \in Messages, h \in UNION {Headers(n) : n \in Messages}}
Elements(s) == {s[i] : i \in DOMAIN s}
Without(f, x) == [y \in DOMAIN f \ {x} |-> f[y]]
With(f, x, v) == [y \in DOMAIN f \cup {x} |-> IF y = x THEN v ELSE f[y]]

Init ==
  /\ nodes = {} /\ endpoints = <<>>
  /\ back = <<>> /\ backQueue = <<>>
  /\ parts = <<>> /\ partQueue = <<>>
  /\ handled = [m \in Messages |-> 0]
  /\ forwarded = [k \in Keys |-> 0]

(* NodesRing::place: a new endpoint displaces the oldest of a full ring. *)
Place(ep) ==
  LET full == Len(endpoints) = RingCapacity
  IN  IF ep \in nodes
      THEN UNCHANGED <<nodes, endpoints>>
      ELSE /\ nodes' = (IF full THEN nodes \ {Head(endpoints)} ELSE nodes) \cup {ep}
           /\ endpoints' = Append(IF full THEN Tail(endpoints) ELSE endpoints, ep)

(* Mutant: the displaced packet stays in the map. *)
PushAndIncreaseLeak(k) ==
  IF k \in DOMAIN back
  THEN [map |-> [back EXCEPT ![k] = @ + 1], queue |-> backQueue, lost |-> {}]
  ELSE [map |-> With(back, k, 1),
        queue |-> Append(IF Len(backQueue) = BackCapacity THEN Tail(backQueue) ELSE backQueue, k),
        lost |-> {}]

(* CircularMap::pushAndIncrease(key): the new map and queue, and the key   *)
(* displaced from a full queue, if any.                                    *)
PushAndIncrease(k) ==
  LET full == Len(backQueue) = BackCapacity
      old  == Head(backQueue)
  IN  IF k \in DOMAIN back
      THEN [map |-> [back EXCEPT ![k] = @ + 1], queue |-> backQueue, lost |-> {}]
      ELSE IF full
      THEN [map |-> With(Without(back, old), k, 1), queue |-> Append(Tail(backQueue), k), lost |-> {old}]
      ELSE [map |-> With(back, k, 1), queue |-> Append(backQueue, k), lost |-> {}]

(* getBackDataCounter: the packet is counted; p is the result of the push. *)
Counted(k, p) ==
  /\ k \in DOMAIN back => back[k] < MaxCounter
  /\ back' = p.map
  /\ backQueue' = p.queue

(* What is forgotten loses its history. *)
Fresh(f, lost) == [x \in DOMAIN f |-> IF x \in lost THEN 0 ELSE f[x]]
SingleLost(lost) == {k[1] : k \in {j \in lost : countHeader[j[1]] = 0}}

(* Mutant: every copy is sent on. *)
RunRedirectAlways(k, p) ==
  /\ Counted(k, p)
  /\ forwarded' = [Fresh(forwarded, p.lost) EXCEPT ![k] = @ + 1]

(* RunRedirect: the packet is counted and, unless it was seen too often,   *)
(* sent on to every endpoint of the ring.                                  *)
RunRedirect(k, p) ==
  /\ Counted(k, p)
  /\ forwarded' = [Fresh(forwarded, p.lost) EXCEPT ![k] = IF p.map[k] > MAX_REDIRECT THEN @ ELSE @ + 1]
(* Mutant: a part that is already there is taken again. *)
TryInsertAgain(e, h) == [have |-> e.have \cup {h}, left |-> e.left - 1]

(* PacketPart::tryInsert: a part that is already there changes nothing. *)
TryInsert(e, h) ==
  IF h \in e.have THEN e ELSE [have |-> e.have \cup {h}, left |-> e.left - 1]

(* Mutant: a message waits for one part more than it has. *)
CollectOneMore(m, h) ==
  LET new  == m \notin DOMAIN parts
      full == Len(partQueue) = PartCapacity
      old  == IF new /\ full THEN {Head(partQueue)} ELSE {}
      kept == [x \in DOMAIN parts \ old |-> parts[x]]
      e    == IF new THEN [have |-> {}, left |-> countHeader[m] + 1] ELSE parts[m]
  IN  [map |-> With(kept, m, TryInsert(e, h)),
       queue |-> IF new THEN Append(IF full THEN Tail(partQueue) ELSE partQueue, m) ELSE partQueue,
       lost |-> old, added |-> TryInsert(e, h) # e]

(* PacketCollector::append: a new message displaces the oldest of a full   *)
(* collector, complete or not.                                             *)
Collect(m, h) ==
  LET new  == m \notin DOMAIN parts
      full == Len(partQueue) = PartCapacity
      old  == IF new /\ full THEN {Head(partQueue)} ELSE {}
      kept == [x \in DOMAIN parts \ old |-> parts[x]]
      e    == IF new THEN [have |-> {}, left |-> countHeader[m]] ELSE parts[m]
  IN  [map |-> With(kept, m, TryInsert(e, h)),
       queue |-> IF new THEN Append(IF full THEN Tail(partQueue) ELSE partQueue, m) ELSE partQueue,
       lost |-> old, added |-> TryInsert(e, h) # e]

Collected(c) == parts' = c.map /\ partQueue' = c.queue

(* The part that completes its message. *)
Completes(c, m) == c.added /\ c.map[m].left = 0

(* The message goes to its handler in the Node, or not. *)
Dispatch(m, cond, lost) ==
  handled' = [Fresh(handled, lost) EXCEPT ![m] = IF cond THEN @ + 1 ELSE @]

(* A Redirect of one packet: sent on, and handled when seen first. *)
ReceiveRedirect(m, ep) ==
  LET k == <<m, 0>>
      p == PushAndIncrease(k)
  IN  /\ m \in Redirects /\ countHeader[m] = 0
      /\ Place(ep)
      /\ RunRedirect(k, p)
      /\ Dispatch(m, p.map[k] = 1, SingleLost(p.lost))
      /\ UNCHANGED <<parts, partQueue>>

(* Mutant: copies are not filtered. *)
ReceiveDirectTwice(m, ep) ==
  LET k == <<m, 0>>
      p == PushAndIncrease(k)
  IN  /\ m \notin Redirects /\ countHeader[m] = 0
      /\ Place(ep)
      /\ Counted(k, p)
      /\ forwarded' = Fresh(forwarded, p.lost)
      /\ Dispatch(m, TRUE, SingleLost(p.lost))
      /\ UNCHANGED <<parts, partQueue>>

(* Any other message of one packet: handled when seen first. *)
ReceiveDirect(m, ep) ==
  LET k == <<m, 0>>
      p == PushAndIncrease(k)
  IN  /\ m \notin Redirects /\ countHeader[m] = 0
      /\ Place(ep)
      /\ Counted(k, p)
      /\ forwarded' = Fresh(forwarded, p.lost)
      /\ Dispatch(m, p.map[k] = 1, SingleLost(p.lost))
      /\ UNCHANGED <<parts, partQueue>>

(* A part of a Redirect is sent on by itself. The completed message is     *)
(* handled without a look at the counter.                                  *)
ReceiveRedirectPart(m, h, ep) ==
  LET k == <<m, h>>
      p == PushAndIncrease(k)
      c == Collect(m, h)
  IN  /\ m \in Redirects /\ countHeader[m] > 0
      /\ Place(ep)
      /\ RunRedirect(k, p)
      /\ Collected(c)
      /\ Dispatch(m, Completes(c, m), SingleLost(p.lost) \cup c.lost)

(* A part of any other message is only collected, ... *)
ReceivePart(m, h, ep) ==
  LET c == Collect(m, h)
  IN  /\ m \notin Redirects /\ countHeader[m] > 0 /\ ~Completes(c, m)
      /\ Place(ep)
      /\ Collected(c)
      /\ Dispatch(m, FALSE, c.lost)
      /\ UNCHANGED <<back, backQueue, forwarded>>

(* ... and the one that completes it is counted for the whole message. *)
ReceiveLastPart(m, h, ep) ==
  LET k == <<m, h>>
      p == PushAndIncrease(k)
      c == Collect(m, h)
  IN  /\ m \notin Redirects /\ countHeader[m] > 0 /\ Completes(c, m)
      /\ Place(ep)
      /\ Collected(c)
      /\ Counted(k, p)
      /\ forwarded' = Fresh(forwarded, p.lost)
      /\ Dispatch(m, p.map[k] = 1, SingleLost(p.lost) \cup c.lost)

(* A packet whose header fields are out of range leaves only its sender. *)
ReceiveOutOfRange(ep) ==
  /\ Place(ep)
  /\ UNCHANGED <<back, backQueue, parts, partQueue, handled, forwarded>>

HandleReceive(m, h, ep) ==
  \/ h = 0 /\ (ReceiveRedirect(m, ep) \/ ReceiveDirect(m, ep))
  \/ ReceiveRedirectPart(m, h, ep) \/ ReceivePart(m, h, ep) \/ ReceiveLastPart(m, h, ep)

Next == \E ep \in Senders :
          \/ \E m \in Messages : \E h \in Headers(m) : HandleReceive(m, h, ep)
          \/ ReceiveOutOfRange(ep)

Spec == Init /\ [][Next]_vars

(* A sender resends every packet until its round ends (TaskManager), and   *)
(* a packet that is sent over and over arrives.                            *)
FairSpec == Spec /\ \A m \in Messages : \A h \in Headers(m) :
                      WF_vars(\E ep \in Senders : HandleReceive(m, h, ep))

-----------------------------------------------------------------------------
TypeOK ==
  /\ nodes \subseteq Senders
  /\ endpoints \in Seq(Senders)
  /\ DOMAIN back \subseteq Keys /\ \A k \in DOMAIN back : back[k] \in 1..MaxCounter
  /\ backQueue \in Seq(Keys)
  /\ DOMAIN parts \subseteq Messages
  /\ \A m \in DOMAIN parts : parts[m].have \subseteq Headers(m) /\ parts[m].left \in 0..countHeader[m]
  /\ partQueue \in Seq(Messages)
  /\ handled \in [Messages -> Nat]
  /\ forwarded \in [Keys -> Nat]

(* The queues name exactly what the maps hold, each once, within their     *)
(* capacities: eviction takes the same entry from both sides.              *)
QueuesMatch ==
  /\ Elements(endpoints) = nodes /\ Len(endpoints) = Cardinality(nodes)
  /\ Elements(backQueue) = DOMAIN back /\ Len(backQueue) = Cardinality(DOMAIN back)
  /\ Elements(partQueue) = DOMAIN parts /\ Len(partQueue) = Cardinality(DOMAIN parts)
  /\ Len(endpoints) <= RingCapacity /\ Len(backQueue) <= BackCapacity
  /\ Len(partQueue) <= PartCapacity

(* Copies of a packet, however often and late they arrive, do not make the *)
(* Node handle a message twice, as long as the node still remembers it.    *)
HandledOnce == \A m \in Messages : handled[m] <= 1

(* A packet is sent on at most MAX_REDIRECT times while it is remembered. *)
FloodBounded == \A k \in Keys : forwarded[k] <= MAX_REDIRECT

(* A message of several packets reaches the Node only with all its parts,  *)
(* whatever copies arrived and whatever was evicted in between.            *)
HandledComplete ==
  [][\A m \in Messages : countHeader[m] > 0 /\ handled'[m] > handled[m]
       => m \in DOMAIN parts' /\ parts'[m].have = Headers(m)]_vars

(* With room for all of them every message is handled in the end, in       *)
(* whatever order its parts and copies come.                               *)
EveryMessageHandled == \A m \in Messages : <>(handled[m] = 1)
=============================================================================
