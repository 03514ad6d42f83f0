--------------------------- MODULE ReceiveProofs ----------------------------
(***************************************************************************)
(* Proofs of the safety properties of Receive, for any messages, senders   *)
(* and capacities. The invariant says of each ring that its queue lists    *)
(* the keys of its map without repetition, and ties the history variables  *)
(* to the maps: what is not remembered has not been handled or sent on,    *)
(* and a message that still lacks parts has not been handled.              *)
(***************************************************************************)
EXTENDS Receive, FiniteSetTheorems, TLAPS

USE Zenon

LEMMA HeadTailProperties ==
  ASSUME NEW S, NEW s \in Seq(S), s # <<>>
  PROVE  /\ Head(s) \in S /\ Tail(s) \in Seq(S) /\ Len(Tail(s)) = Len(s) - 1 /\ Head(s) = s[1]
         /\ \A i \in 1..Len(Tail(s)) : Tail(s)[i] = s[i + 1]
BY SMT

(* The queue q of members of U lists the set D, each member once. *)
Lists(U, q, D) ==
  /\ q \in Seq(U)
  /\ D \subseteq U /\ IsFiniteSet(D)
  /\ \A i \in 1..Len(q) : q[i] \in D
  /\ \A x \in D : \E i \in 1..Len(q) : q[i] = x
  /\ \A i, j \in 1..Len(q) : q[i] = q[j] => i = j
  /\ Len(q) = Cardinality(D)

LEMMA ListsEmpty ==
  ASSUME NEW U
  PROVE  Lists(U, <<>>, {})
BY FS_EmptySet, SMT DEF Lists

LEMMA ListsAppend ==
  ASSUME NEW U, NEW q, NEW D, Lists(U, q, D), NEW x \in U, x \notin D
  PROVE  Lists(U, Append(q, x), D \cup {x}) /\ Len(Append(q, x)) = Len(q) + 1
<1> DEFINE a == Append(q, x)
           n == Len(q)
<1>1. q \in Seq(U) /\ n \in Nat
  BY SMT DEF Lists
<1>2. a \in Seq(U) /\ Len(a) = n + 1 /\ a[n + 1] = x /\ \A i \in 1..n : a[i] = q[i]
  BY <1>1, SMT
<1>3. \A i \in 1..(n + 1) : i \in 1..n \/ i = n + 1
  BY <1>1, SMT
<1>4. 1..n \subseteq 1..(n + 1) /\ n + 1 \in 1..(n + 1)
  BY <1>1, SMT
<1>5. IsFiniteSet(D \cup {x}) /\ Cardinality(D \cup {x}) = n + 1
  BY FS_AddElement DEF Lists
<1> HIDE DEF a
<1>6. \A i \in 1..n : q[i] \in D
  BY DEF Lists
<1>7. \A i, j \in 1..n : q[i] = q[j] => i = j
  BY DEF Lists
<1>8. \A y \in D : \E i \in 1..n : q[i] = y
  BY DEF Lists
<1> HIDE DEF n
<1>9. \A i \in 1..Len(a) : a[i] \in D \cup {x}
  BY <1>2, <1>3, <1>6
<1>10. \A y \in D \cup {x} : \E i \in 1..Len(a) : a[i] = y
  BY <1>2, <1>4, <1>8
<1>11. ASSUME NEW i \in 1..Len(a), NEW j \in 1..Len(a), a[i] = a[j]
       PROVE  i = j
  <2>1. i \in 1..(n + 1) /\ j \in 1..(n + 1)
    BY <1>2
  <2>2. CASE i \in 1..n /\ j \in 1..n
    BY <1>2, <1>7, <1>11, <2>2
  <2>3. CASE i = n + 1 /\ j \in 1..n
    BY <1>2, <1>6, <1>11, <2>3
  <2>4. CASE i \in 1..n /\ j = n + 1
    BY <1>2, <1>6, <1>11, <2>4
  <2> QED BY <1>3, <2>1, <2>2, <2>3, <2>4
<1>12. Lists(U, a, D \cup {x})
  <2>1. D \cup {x} \subseteq U
    BY DEF Lists
  <2> QED BY <1>2, <1>5, <1>9, <1>10, <1>11, <2>1 DEF Lists
<1> QED BY <1>2, <1>12 DEF a, n

LEMMA ListsTail ==
  ASSUME NEW U, NEW q, NEW D, Lists(U, q, D), q # <<>>
  PROVE  Lists(U, Tail(q), D \ {Head(q)}) /\ Len(Tail(q)) = Len(q) - 1 /\ Head(q) \in D
<1> DEFINE t == Tail(q)
           n == Len(q)
<1>1. q \in Seq(U) /\ n \in Nat \ {0}
  BY SMT DEF Lists
<1>2. t \in Seq(U) /\ Len(t) = n - 1 /\ Head(q) = q[1] /\ \A i \in 1..Len(t) : t[i] = q[i + 1]
  BY <1>1, HeadTailProperties
<1>3. \A i \in 1..(n - 1) : i + 1 \in 1..n /\ i + 1 # 1
  BY <1>1, SMT
<1>4. \A i \in 1..n : i = 1 \/ (i - 1 \in 1..(n - 1) /\ (i - 1) + 1 = i)
  BY <1>1, SMT
<1>5. 1 \in 1..n
  BY <1>1, SMT
<1> HIDE DEF t
<1>6. (\A i \in 1..n : q[i] \in D) /\ (\A y \in D : \E i \in 1..n : q[i] = y)
  BY DEF Lists
<1>7. \A i, j \in 1..n : q[i] = q[j] => i = j
  BY DEF Lists
<1>8. q[1] \in D
  BY <1>5, <1>6
<1>9. IsFiniteSet(D \ {q[1]}) /\ Cardinality(D \ {q[1]}) = n - 1 /\ D \ {q[1]} \subseteq U
  BY <1>8, FS_RemoveElement DEF Lists
<1> HIDE DEF n
<1>10. ASSUME NEW i \in 1..Len(t) PROVE t[i] \in D \ {q[1]}
  <2>1. i \in 1..(n - 1) /\ t[i] = q[i + 1]
    BY <1>2
  <2>2. i + 1 \in 1..n /\ i + 1 # 1
    BY <1>3, <2>1
  <2>3. q[i + 1] \in D /\ q[i + 1] # q[1]
    BY <1>5, <1>6, <1>7, <2>2
  <2> QED BY <2>1, <2>3
<1>11. ASSUME NEW y \in D \ {q[1]} PROVE \E i \in 1..Len(t) : t[i] = y
  <2>1. PICK i \in 1..n : q[i] = y
    BY <1>6
  <2>2. i - 1 \in 1..(n - 1) /\ (i - 1) + 1 = i
    BY <1>4, <2>1
  <2>3. i - 1 \in 1..Len(t)
    BY <1>2, <2>2
  <2>4. t[i - 1] = y
    BY <1>2, <2>1, <2>2, <2>3
  <2> QED BY <2>3, <2>4
<1>12. ASSUME NEW i \in 1..Len(t), NEW j \in 1..Len(t), t[i] = t[j] PROVE i = j
  <2>1. i \in 1..(n - 1) /\ j \in 1..(n - 1)
    BY <1>2
  <2>2. i + 1 \in 1..n /\ j + 1 \in 1..n
    BY <1>3, <2>1
  <2>3. q[i + 1] = q[j + 1]
    BY <1>2, <1>12
  <2>4. i + 1 = j + 1
    BY <1>7, <2>2, <2>3
  <2> QED BY <2>1, <2>4, <1>1, SMT
<1>13. Lists(U, t, D \ {q[1]})
  BY <1>2, <1>9, <1>10, <1>11, <1>12 DEF Lists
<1> QED BY <1>2, <1>8, <1>13 DEF t, n

(* A new member displaces the oldest of a full queue. *)
LEMMA ListsPush ==
  ASSUME NEW U, NEW q, NEW D, Lists(U, q, D), NEW x \in U, x \notin D,
         NEW cap \in Nat \ {0}, Len(q) <= cap
  PROVE  /\ Len(q) = cap => /\ Lists(U, Append(Tail(q), x), (D \ {Head(q)}) \cup {x})
                            /\ Len(Append(Tail(q), x)) <= cap /\ Head(q) \in D
         /\ Len(q) # cap => Lists(U, Append(q, x), D \cup {x}) /\ Len(Append(q, x)) <= cap
<1>0. q \in Seq(U) /\ Len(q) \in Nat
  BY SMT DEF Lists
<1>1. CASE Len(q) = cap
  <2>1. q # <<>>
    BY <1>0, <1>1
  <2>2. Lists(U, Tail(q), D \ {Head(q)}) /\ Len(Tail(q)) = Len(q) - 1 /\ Head(q) \in D
    BY <2>1, ListsTail
  <2>3. Lists(U, Append(Tail(q), x), (D \ {Head(q)}) \cup {x}) /\ Len(Append(Tail(q), x)) = Len(Tail(q)) + 1
    BY <2>2, ListsAppend, SMT
  <2> QED BY <1>0, <1>1, <2>2, <2>3, SMT
<1>2. CASE Len(q) # cap
  <2>1. Lists(U, Append(q, x), D \cup {x}) /\ Len(Append(q, x)) = Len(q) + 1
    BY ListsAppend
  <2> QED BY <1>0, <1>2, <2>1, SMT
<1> QED BY <1>1, <1>2

-----------------------------------------------------------------------------
RingInv == Lists(Senders, endpoints, nodes) /\ Len(endpoints) <= RingCapacity

(* The key of a packet names a part of its message. *)
Proper(k) == k[2] \in Headers(k[1])

BackInv ==
  /\ Lists(Keys, backQueue, DOMAIN back) /\ Len(backQueue) <= BackCapacity
  /\ \A k \in DOMAIN back : back[k] \in Nat \ {0} /\ Proper(k)

PartInv ==
  /\ Lists(Messages, partQueue, DOMAIN parts) /\ Len(partQueue) <= PartCapacity
  /\ \A m \in DOMAIN parts :
       /\ parts[m].have \subseteq Headers(m)
       /\ parts[m].left = countHeader[m] - Cardinality(parts[m].have)

(* Nothing is sent on oftener than it was counted, or before. *)
FloodInv ==
  /\ forwarded \in [Keys -> Nat]
  /\ \A k \in Keys : /\ forwarded[k] <= MAX_REDIRECT
                     /\ IF k \in DOMAIN back THEN forwarded[k] <= back[k] ELSE forwarded[k] = 0

(* A message of one packet is handled when it is first remembered, one of  *)
(* several when the last part is there.                                    *)
OnceInv ==
  /\ handled \in [Messages -> Nat]
  /\ \A m \in Messages :
       /\ handled[m] <= 1
       /\ countHeader[m] = 0 /\ <<m, 0>> \notin DOMAIN back => handled[m] = 0
       /\ countHeader[m] > 0 /\ (m \in DOMAIN parts => parts[m].left > 0) => handled[m] = 0

RInv == RingInv /\ BackInv /\ PartInv /\ FloodInv /\ OnceInv

(* The parts of a message: as many as its header says. *)
LEMMA HeadersFinite ==
  ASSUME NEW m \in Messages, countHeader[m] > 0
  PROVE  IsFiniteSet(Headers(m)) /\ Cardinality(Headers(m)) = countHeader[m]
<1>1. countHeader[m] \in Nat \ {0}
  BY ReceiveAssumption, SMT
<1>2. Headers(m) = 0..(countHeader[m] - 1)
  BY <1>1 DEF Headers
<1>3. IsFiniteSet(0..(countHeader[m] - 1)) /\ Cardinality(0..(countHeader[m] - 1)) = countHeader[m]
  <2>1. PICK n \in Nat \ {0} : n = countHeader[m]
    BY <1>1
  <2>2. n - 1 \in Int /\ 0 \in Int /\ ~(0 > n - 1) /\ (n - 1) - 0 + 1 = n
    BY SMT
  <2>3. IsFiniteSet(0..(n - 1)) /\ Cardinality(0..(n - 1)) = (n - 1) - 0 + 1
    BY <2>2, FS_Interval
  <2> QED BY <2>1, <2>2, <2>3
<1> QED BY <1>2, <1>3

LEMMA KeyIn ==
  ASSUME NEW m \in Messages, NEW h \in Headers(m)
  PROVE  <<m, h>> \in Keys
BY SMT DEF Keys

LEMMA RingStep ==
  ASSUME RingInv, NEW ep \in Senders, Place(ep)
  PROVE  RingInv'
<1>0. RingCapacity \in Nat \ {0}
  BY ReceiveAssumption
<1>1. CASE ep \in nodes
  BY <1>1 DEF Place, RingInv
<1>2. CASE ep \notin nodes
  <2>1. /\ nodes' = (IF Len(endpoints) = RingCapacity THEN nodes \ {Head(endpoints)} ELSE nodes) \cup {ep}
        /\ endpoints' = Append(IF Len(endpoints) = RingCapacity THEN Tail(endpoints) ELSE endpoints, ep)
    BY <1>2 DEF Place
  <2>2. Lists(Senders, endpoints, nodes) /\ Len(endpoints) <= RingCapacity
    BY DEF RingInv
  <2>3. CASE Len(endpoints) = RingCapacity
    <3>1. /\ Lists(Senders, Append(Tail(endpoints), ep), (nodes \ {Head(endpoints)}) \cup {ep})
          /\ Len(Append(Tail(endpoints), ep)) <= RingCapacity
      BY <1>0, <1>2, <2>2, <2>3, ListsPush
    <3> QED BY <2>1, <2>3, <3>1 DEF RingInv
  <2>4. CASE Len(endpoints) # RingCapacity
    <3>1. Lists(Senders, Append(endpoints, ep), nodes \cup {ep}) /\ Len(Append(endpoints, ep)) <= RingCapacity
      BY <1>0, <1>2, <2>2, <2>4, ListsPush
    <3> QED BY <2>1, <2>4, <3>1 DEF RingInv
  <2> QED BY <2>3, <2>4
<1> QED BY <1>1, <1>2

(* The count that the packet k has once it is counted again. *)
Seen(k) == IF k \in DOMAIN back THEN back[k] + 1 ELSE 1

(* What the push p of k does to the seen packets. *)
Pushes(p, k) ==
  /\ DOMAIN p.map = (DOMAIN back \ p.lost) \cup {k}
  /\ k \notin p.lost /\ p.lost \subseteq DOMAIN back
  /\ \A x \in DOMAIN p.map : p.map[x] = IF x = k THEN Seen(k) ELSE back[x]
  /\ Lists(Keys, p.queue, DOMAIN p.map) /\ Len(p.queue) <= BackCapacity

LEMMA PushFacts ==
  ASSUME BackInv, NEW k \in Keys
  PROVE  Pushes(PushAndIncrease(k), k)
<1> DEFINE p == PushAndIncrease(k)
           old == Head(backQueue)
<1>0. BackCapacity \in Nat \ {0}
  BY ReceiveAssumption
<1>1. Lists(Keys, backQueue, DOMAIN back) /\ Len(backQueue) <= BackCapacity
  BY DEF BackInv
<1>2. CASE k \in DOMAIN back
  <2>1. p.map = [back EXCEPT ![k] = @ + 1] /\ p.queue = backQueue /\ p.lost = {}
    BY <1>2 DEF PushAndIncrease
  <2>2. DOMAIN p.map = DOMAIN back /\ \A x \in DOMAIN back : p.map[x] = IF x = k THEN back[k] + 1 ELSE back[x]
    BY <2>1
  <2> QED BY <1>1, <1>2, <2>1, <2>2 DEF Pushes, Seen
<1>3. CASE k \notin DOMAIN back /\ Len(backQueue) = BackCapacity
  <2>1. p.map = With(Without(back, old), k, 1) /\ p.queue = Append(Tail(backQueue), k) /\ p.lost = {old}
    BY <1>3 DEF PushAndIncrease
  <2>2. /\ Lists(Keys, Append(Tail(backQueue), k), (DOMAIN back \ {old}) \cup {k})
        /\ Len(Append(Tail(backQueue), k)) <= BackCapacity /\ old \in DOMAIN back
    BY <1>0, <1>1, <1>3, ListsPush
  <2>3. /\ DOMAIN p.map = (DOMAIN back \ {old}) \cup {k}
        /\ \A x \in (DOMAIN back \ {old}) \cup {k} : p.map[x] = IF x = k THEN 1 ELSE back[x]
    BY <2>1 DEF With, Without
  <2> QED BY <1>3, <2>1, <2>2, <2>3 DEF Pushes, Seen
<1>4. CASE k \notin DOMAIN back /\ Len(backQueue) # BackCapacity
  <2>1. p.map = With(back, k, 1) /\ p.queue = Append(backQueue, k) /\ p.lost = {}
    BY <1>4 DEF PushAndIncrease
  <2>2. Lists(Keys, Append(backQueue, k), DOMAIN back \cup {k}) /\ Len(Append(backQueue, k)) <= BackCapacity
    BY <1>0, <1>1, <1>4, ListsPush
  <2>3. /\ DOMAIN p.map = DOMAIN back \cup {k}
        /\ \A x \in DOMAIN back \cup {k} : p.map[x] = IF x = k THEN 1 ELSE back[x]
    BY <2>1 DEF With
  <2> QED BY <1>4, <2>1, <2>2, <2>3 DEF Pushes, Seen
<1> QED BY <1>2, <1>3, <1>4

LEMMA SeenNat ==
  ASSUME BackInv, NEW k
  PROVE  Seen(k) \in Nat \ {0} /\ (Seen(k) = 1 <=> k \notin DOMAIN back)
BY SMT DEF BackInv, Seen

LEMMA CountedStep ==
  ASSUME BackInv, NEW k \in Keys, Proper(k), NEW p, Pushes(p, k), Counted(k, p)
  PROVE  BackInv'
<1>1. back' = p.map /\ backQueue' = p.queue
  BY DEF Counted
<1>2. \A x \in DOMAIN p.map : p.map[x] \in Nat \ {0} /\ Proper(x)
  BY SeenNat DEF Pushes, BackInv
<1> QED BY <1>1, <1>2 DEF Pushes, BackInv

(* The packet is counted and not sent on. *)
LEMMA KeepsFlood ==
  ASSUME BackInv, FloodInv, NEW k \in Keys, NEW p, Pushes(p, k), Counted(k, p),
         forwarded' = Fresh(forwarded, p.lost)
  PROVE  FloodInv'
<1>0. MAX_REDIRECT \in Nat \ {0}
  BY ReceiveAssumption
<1>1. back' = p.map /\ forwarded \in [Keys -> Nat]
  BY DEF Counted, FloodInv
<1>2. forwarded' \in [Keys -> Nat] /\ \A x \in Keys : forwarded'[x] = IF x \in p.lost THEN 0 ELSE forwarded[x]
  BY <1>1 DEF Fresh
<1>3. ASSUME NEW x \in Keys
      PROVE  /\ forwarded'[x] <= MAX_REDIRECT
             /\ IF x \in DOMAIN back' THEN forwarded'[x] <= back'[x] ELSE forwarded'[x] = 0
  <2>1. /\ forwarded[x] \in Nat /\ forwarded[x] <= MAX_REDIRECT
        /\ IF x \in DOMAIN back THEN forwarded[x] <= back[x] ELSE forwarded[x] = 0
    BY DEF FloodInv
  <2>2. CASE x = k
    <3>1. x \in DOMAIN back' /\ back'[x] = Seen(k) /\ x \notin p.lost
      BY <1>1, <2>2 DEF Pushes
    <3>2. forwarded[x] <= Seen(k)
      BY <2>1, <2>2, SMT DEF Seen, BackInv
    <3> QED BY <1>2, <2>1, <3>1, <3>2
  <2>3. CASE x # k
    <3>1. x \in DOMAIN back' <=> x \in DOMAIN back /\ x \notin p.lost
      BY <1>1, <2>3 DEF Pushes
    <3>2. x \in DOMAIN back' => back'[x] = back[x]
      BY <1>1, <2>3 DEF Pushes
    <3>3. CASE x \in p.lost
      BY <1>0, <1>2, <3>1, <3>3, SMT
    <3>4. CASE x \notin p.lost
      BY <1>2, <2>1, <3>1, <3>2, <3>4
    <3> QED BY <3>3, <3>4
  <2> QED BY <2>2, <2>3
<1> QED BY <1>2, <1>3 DEF FloodInv

(* The packet is counted and sent on, unless it was seen too often. *)
LEMMA RedirectStep ==
  ASSUME BackInv, FloodInv, NEW k \in Keys, NEW p, Pushes(p, k), RunRedirect(k, p)
  PROVE  FloodInv'
<1>0. MAX_REDIRECT \in Nat \ {0}
  BY ReceiveAssumption
<1>1. back' = p.map /\ forwarded \in [Keys -> Nat]
  BY DEF RunRedirect, Counted, FloodInv
<1>2. DOMAIN Fresh(forwarded, p.lost) = Keys
      /\ \A x \in Keys : Fresh(forwarded, p.lost)[x] = IF x \in p.lost THEN 0 ELSE forwarded[x]
  BY <1>1 DEF Fresh
<1>3. forwarded' = [Fresh(forwarded, p.lost) EXCEPT ![k] = IF p.map[k] > MAX_REDIRECT THEN @ ELSE @ + 1]
  BY DEF RunRedirect
<1>4. k \notin p.lost /\ p.map[k] = Seen(k) /\ k \in DOMAIN p.map
  BY DEF Pushes
<1>5. \A x \in Keys : forwarded'[x] = IF x = k THEN IF Seen(k) > MAX_REDIRECT THEN forwarded[k] ELSE forwarded[k] + 1
                                      ELSE IF x \in p.lost THEN 0 ELSE forwarded[x]
  BY <1>2, <1>3, <1>4
<1>6. DOMAIN forwarded' = Keys /\ forwarded' = [x \in Keys |-> forwarded'[x]]
  BY <1>2, <1>3
<1>7. forwarded' \in [Keys -> Nat]
  BY <1>1, <1>5, <1>6, SMT
<1>8. ASSUME NEW x \in Keys
      PROVE  /\ forwarded'[x] <= MAX_REDIRECT
             /\ IF x \in DOMAIN back' THEN forwarded'[x] <= back'[x] ELSE forwarded'[x] = 0
  <2>1. /\ forwarded[x] \in Nat /\ forwarded[x] <= MAX_REDIRECT
        /\ IF x \in DOMAIN back THEN forwarded[x] <= back[x] ELSE forwarded[x] = 0
    BY DEF FloodInv
  <2>2. CASE x = k
    <3>1. x \in DOMAIN back' /\ back'[x] = Seen(k)
      BY <1>1, <1>4, <2>2
    <3>2. Seen(k) \in Nat /\ forwarded[x] + 1 <= Seen(k)
      BY <2>1, <2>2, SMT DEF Seen, BackInv
    <3>3. forwarded'[x] = IF Seen(k) > MAX_REDIRECT THEN forwarded[x] ELSE forwarded[x] + 1
      BY <1>5, <2>2
    <3> QED BY <1>0, <2>1, <3>1, <3>2, <3>3, SMT
  <2>3. CASE x # k
    <3>1. x \in DOMAIN back' <=> x \in DOMAIN back /\ x \notin p.lost
      BY <1>1, <2>3 DEF Pushes
    <3>2. x \in DOMAIN back' => back'[x] = back[x]
      BY <1>1, <2>3 DEF Pushes
    <3>3. CASE x \in p.lost
      BY <1>0, <1>5, <2>3, <3>1, <3>3, SMT
    <3>4. CASE x \notin p.lost
      BY <1>5, <2>1, <2>3, <3>1, <3>2, <3>4
    <3> QED BY <3>3, <3>4
  <2> QED BY <2>2, <2>3
<1> QED BY <1>7, <1>8 DEF FloodInv

-----------------------------------------------------------------------------
(* An entry of the collector for the message m. *)
Entry(e, m) == e.have \subseteq Headers(m) /\ e.left = countHeader[m] - Cardinality(e.have)

(* What is known of an entry after the part h has been offered to it. *)
LEMMA InsertFacts ==
  ASSUME NEW m \in Messages, countHeader[m] > 0, NEW h \in Headers(m), NEW e, Entry(e, m)
  PROVE  /\ Entry(TryInsert(e, h), m)
         /\ TryInsert(e, h) # e => TryInsert(e, h).left = e.left - 1
         /\ e.left \in Int
         /\ TryInsert(e, h).left = 0 => TryInsert(e, h).have = Headers(m)
<1> DEFINE f == TryInsert(e, h)
<1>0. countHeader[m] \in Nat
  BY ReceiveAssumption
<1>1. IsFiniteSet(Headers(m)) /\ Cardinality(Headers(m)) = countHeader[m]
  BY HeadersFinite
<1>2. IsFiniteSet(e.have) /\ Cardinality(e.have) \in Nat /\ e.left \in Int
  <2>1. e.have \in SUBSET Headers(m)
    BY DEF Entry
  <2>2. IsFiniteSet(e.have)
    BY <1>1, <2>1, FS_Subset
  <2>3. Cardinality(e.have) \in Nat
    BY <2>2, FS_CardinalityType
  <2> QED BY <1>0, <2>2, <2>3, SMT DEF Entry
<1>3. Entry(f, m) /\ (f # e => f.left = e.left - 1)
  <2>1. CASE h \in e.have
    BY <2>1 DEF TryInsert
  <2>2. CASE h \notin e.have
    <3>1. f.have = e.have \cup {h} /\ f.left = e.left - 1
      BY <2>2 DEF TryInsert
    <3>2. Cardinality(e.have \cup {h}) = Cardinality(e.have) + 1
      BY <1>2, <2>2, FS_AddElement
    <3>3. f.left = countHeader[m] - Cardinality(f.have)
      BY <1>0, <1>2, <3>1, <3>2, SMT DEF Entry
    <3> QED BY <3>1, <3>3 DEF Entry
  <2> QED BY <2>1, <2>2
<1> HIDE DEF f
<1>4. f.left = 0 => f.have = Headers(m)
  <2> SUFFICES ASSUME f.left = 0 PROVE f.have = Headers(m)
    OBVIOUS
  <2>1. f.have \in SUBSET Headers(m)
    BY <1>3 DEF Entry
  <2>2. Cardinality(f.have) \in Nat
    BY <1>1, <2>1, FS_Subset, FS_CardinalityType
  <2>3. Cardinality(f.have) = Cardinality(Headers(m))
    BY <1>0, <1>1, <1>3, <2>2, SMT DEF Entry
  <2> QED BY <1>1, <2>1, <2>3, FS_Subset
<1> QED BY <1>2, <1>3, <1>4 DEF f

(* The message m, if it is being collected, still lacks a part. *)
Lacks(m) == m \in DOMAIN parts => parts[m].left > 0

(* What the collection c of a part of m does to the collector. *)
Collects(c, m) ==
  /\ DOMAIN c.map = (DOMAIN parts \ c.lost) \cup {m}
  /\ m \notin c.lost
  /\ \A x \in DOMAIN parts \ c.lost : x # m => c.map[x] = parts[x]
  /\ Lists(Messages, c.queue, DOMAIN c.map) /\ Len(c.queue) <= PartCapacity
  /\ Entry(c.map[m], m)
  /\ c.map[m].left > 0 => Lacks(m)
  /\ Completes(c, m) => Lacks(m) /\ c.map[m].left = 0 /\ c.map[m].have = Headers(m)

LEMMA CollectFacts ==
  ASSUME PartInv, NEW m \in Messages, countHeader[m] > 0, NEW h \in Headers(m)
  PROVE  Collects(Collect(m, h), m)
<1> DEFINE c == Collect(m, h)
           new == m \notin DOMAIN parts
           e == IF new THEN [have |-> {}, left |-> countHeader[m]] ELSE parts[m]
           f == TryInsert(e, h)
<1>0. PartCapacity \in Nat \ {0} /\ countHeader[m] \in Nat
  BY ReceiveAssumption
<1>1. Lists(Messages, partQueue, DOMAIN parts) /\ Len(partQueue) <= PartCapacity
  BY DEF PartInv
<1>2. Entry(e, m)
  <2>1. CASE new
    BY <1>0, <2>1, FS_EmptySet, SMT DEF Entry
  <2>2. CASE ~new
    BY <2>2 DEF PartInv, Entry
  <2> QED BY <2>1, <2>2
<1>3. c.added = (f # e)
  BY DEF Collect
<1>4. Entry(f, m) /\ (f # e => f.left = e.left - 1) /\ e.left \in Int /\ (f.left = 0 => f.have = Headers(m))
  <2> HIDE DEF e
  <2> QED BY <1>2, InsertFacts
<1>5. ~new => e = parts[m]
  OBVIOUS
<1>6. /\ DOMAIN c.map = (DOMAIN parts \ c.lost) \cup {m}
      /\ c.map[m] = f
      /\ \A x \in DOMAIN parts \ c.lost : x # m => c.map[x] = parts[x]
  <2>1. /\ c.map = With([x \in DOMAIN parts \ c.lost |-> parts[x]], m, f)
    BY DEF Collect
  <2> HIDE DEF c, f
  <2> QED BY <2>1 DEF With
<1>7. m \notin c.lost /\ Lists(Messages, c.queue, (DOMAIN parts \ c.lost) \cup {m}) /\ Len(c.queue) <= PartCapacity
  <2>1. CASE ~new
    <3>1. c.lost = {} /\ c.queue = partQueue
      BY <2>1 DEF Collect
    <3>2. (DOMAIN parts \ {}) \cup {m} = DOMAIN parts
      BY <2>1
    <3> QED BY <1>1, <3>1, <3>2
  <2>2. CASE new /\ Len(partQueue) = PartCapacity
    <3>1. c.lost = {Head(partQueue)} /\ c.queue = Append(Tail(partQueue), m)
      BY <2>2 DEF Collect
    <3>2. /\ Lists(Messages, Append(Tail(partQueue), m), (DOMAIN parts \ {Head(partQueue)}) \cup {m})
          /\ Len(Append(Tail(partQueue), m)) <= PartCapacity /\ Head(partQueue) \in DOMAIN parts
      BY <1>0, <1>1, <2>2, ListsPush
    <3> QED BY <2>2, <3>1, <3>2
  <2>3. CASE new /\ Len(partQueue) # PartCapacity
    <3>1. c.lost = {} /\ c.queue = Append(partQueue, m)
      BY <2>3 DEF Collect
    <3>2. /\ Lists(Messages, Append(partQueue, m), DOMAIN parts \cup {m})
          /\ Len(Append(partQueue, m)) <= PartCapacity
      BY <1>0, <1>1, <2>3, ListsPush
    <3> QED BY <2>3, <3>1, <3>2
  <2> QED BY <2>1, <2>2, <2>3
<1> HIDE DEF c, e, f
<1>8. f.left > 0 => Lacks(m)
  <2>1. CASE f = e
    BY <1>5, <2>1 DEF Lacks
  <2>2. CASE f # e
    BY <1>4, <1>5, <2>2, SMT DEF Lacks
  <2> QED BY <2>1, <2>2
<1>9. Completes(c, m) => Lacks(m) /\ f.left = 0 /\ f.have = Headers(m)
  <2> SUFFICES ASSUME Completes(c, m) PROVE Lacks(m) /\ f.left = 0 /\ f.have = Headers(m)
    OBVIOUS
  <2>1. f # e /\ f.left = 0
    BY <1>3, <1>6 DEF Completes
  <2>2. e.left > 0
    BY <1>4, <2>1, SMT
  <2> QED BY <1>4, <1>5, <2>1, <2>2 DEF Lacks
<1>10. Collects(c, m)
  BY <1>4, <1>6, <1>7, <1>8, <1>9 DEF Collects
<1> QED BY <1>10 DEF c

LEMMA CollectedStep ==
  ASSUME PartInv, NEW m \in Messages, NEW c, Collects(c, m), Collected(c)
  PROVE  PartInv'
<1>1. parts' = c.map /\ partQueue' = c.queue
  BY DEF Collected
<1>2. ASSUME NEW x \in DOMAIN c.map PROVE Entry(c.map[x], x)
  <2>1. CASE x = m
    BY <2>1 DEF Collects
  <2>2. CASE x # m
    <3>1. x \in DOMAIN parts \ c.lost /\ c.map[x] = parts[x]
      BY <2>2 DEF Collects
    <3>2. Entry(parts[x], x)
      BY <3>1 DEF PartInv, Entry
    <3> QED BY <3>1, <3>2
  <2> QED BY <2>1, <2>2
<1>3. Lists(Messages, c.queue, DOMAIN c.map) /\ Len(c.queue) <= PartCapacity
  BY DEF Collects
<1> QED BY <1>1, <1>2, <1>3 DEF PartInv, Entry

-----------------------------------------------------------------------------
LEMMA DispatchFacts ==
  ASSUME handled \in [Messages -> Nat], NEW m \in Messages, NEW cond, NEW lost, m \notin lost,
         Dispatch(m, cond, lost)
  PROVE  /\ handled' \in [Messages -> Nat]
         /\ \A x \in Messages :
              handled'[x] = IF x = m THEN IF cond THEN handled[m] + 1 ELSE handled[m]
                            ELSE IF x \in lost THEN 0 ELSE handled[x]
<1>1. /\ DOMAIN Fresh(handled, lost) = Messages
      /\ \A x \in Messages : Fresh(handled, lost)[x] = IF x \in lost THEN 0 ELSE handled[x]
  BY DEF Fresh
<1>2. handled' = [Fresh(handled, lost) EXCEPT ![m] = IF cond THEN @ + 1 ELSE @]
  BY DEF Dispatch
<1>3. \A x \in Messages :
        handled'[x] = IF x = m THEN IF cond THEN handled[m] + 1 ELSE handled[m]
                      ELSE IF x \in lost THEN 0 ELSE handled[x]
  BY <1>1, <1>2
<1>4. handled' = [x \in Messages |-> handled'[x]]
  BY <1>1, <1>2
<1>5. ASSUME NEW x \in Messages PROVE handled'[x] \in Nat
  BY <1>3, SMT
<1>6. handled' \in [Messages -> Nat]
  BY <1>4, <1>5
<1> QED BY <1>3, <1>6

(* The step forgets, and gives new parts to, no message but m and the lost *)
(* ones.                                                                   *)
OthersKept(m, lost) ==
  \A x \in Messages : x # m /\ x \notin lost =>
    /\ countHeader[x] = 0 /\ <<x, 0>> \notin DOMAIN back' => <<x, 0>> \notin DOMAIN back
    /\ countHeader[x] > 0 /\ Lacks(x)' => Lacks(x)

(* m is handled under the condition only for the first time, and is then   *)
(* remembered, or complete.                                                *)
DueOnce(m, cond) ==
  /\ cond => handled[m] = 0
  /\ countHeader[m] = 0 /\ <<m, 0>> \notin DOMAIN back' => ~cond /\ handled[m] = 0
  /\ countHeader[m] > 0 /\ Lacks(m)' => ~cond /\ handled[m] = 0

LEMMA OnceStep ==
  ASSUME OnceInv, NEW m \in Messages, NEW cond, NEW lost, m \notin lost, Dispatch(m, cond, lost),
         OthersKept(m, lost), DueOnce(m, cond)
  PROVE  OnceInv'
<1>0. handled \in [Messages -> Nat]
  BY DEF OnceInv
<1>1. /\ handled' \in [Messages -> Nat]
      /\ \A x \in Messages :
           handled'[x] = IF x = m THEN IF cond THEN handled[m] + 1 ELSE handled[m]
                         ELSE IF x \in lost THEN 0 ELSE handled[x]
  BY <1>0, DispatchFacts
<1>2. ASSUME NEW x \in Messages
      PROVE  /\ handled'[x] <= 1
             /\ countHeader[x] = 0 /\ <<x, 0>> \notin DOMAIN back' => handled'[x] = 0
             /\ countHeader[x] > 0 /\ Lacks(x)' => handled'[x] = 0
  <2>0. /\ handled[x] \in Nat /\ handled[x] <= 1
        /\ countHeader[x] = 0 /\ <<x, 0>> \notin DOMAIN back => handled[x] = 0
        /\ countHeader[x] > 0 /\ Lacks(x) => handled[x] = 0
    BY DEF OnceInv, Lacks
  <2>1. CASE x = m
    BY <1>1, <2>0, <2>1, SMT DEF DueOnce
  <2>2. CASE x # m
    BY <1>1, <2>0, <2>2, SMT DEF OthersKept
  <2> QED BY <2>1, <2>2
<1> QED BY <1>1, <1>2 DEF OnceInv, Lacks

(* A message of one packet that is forgotten loses its history. *)
LEMMA SingleForgotten ==
  ASSUME BackInv, NEW k \in Keys, NEW p, Pushes(p, k), Counted(k, p), NEW x \in Messages,
         countHeader[x] = 0
  PROVE  /\ x \notin SingleLost(p.lost) /\ <<x, 0>> \notin DOMAIN back' => <<x, 0>> \notin DOMAIN back
         /\ k = <<x, 0>> => x \notin SingleLost(p.lost)
<1>1. DOMAIN back' = (DOMAIN back \ p.lost) \cup {k}
  BY DEF Counted, Pushes
<1>2. <<x, 0>> \in p.lost => x \in SingleLost(p.lost)
  BY SMT DEF SingleLost
<1>3. ASSUME k = <<x, 0>>, x \in SingleLost(p.lost) PROVE FALSE
  <2>1. PICK j \in p.lost : j[1] = x
    BY <1>3 DEF SingleLost
  <2>2. j \in Keys /\ Proper(j)
    BY <2>1 DEF Pushes, BackInv, Lists
  <2>3. j[2] = 0
    BY <2>1, <2>2 DEF Proper, Headers
  <2>4. j = <<j[1], j[2]>>
    BY <2>2, SMT DEF Keys
  <2> QED BY <1>3, <2>1, <2>3, <2>4 DEF Pushes
<1> QED BY <1>1, <1>2, <1>3

(* The step of HandledComplete. *)
GrowsWhole ==
  \A m \in Messages : countHeader[m] > 0 /\ handled'[m] > handled[m]
    => m \in DOMAIN parts' /\ parts'[m].have = Headers(m)

LEMMA GrowsWholeStep ==
  ASSUME OnceInv, NEW m \in Messages, NEW cond, NEW lost, m \notin lost, Dispatch(m, cond, lost),
         cond /\ countHeader[m] > 0 => m \in DOMAIN parts' /\ parts'[m].have = Headers(m)
  PROVE  GrowsWhole
<1>0. handled \in [Messages -> Nat]
  BY DEF OnceInv
<1>1. \A x \in Messages :
        handled'[x] = IF x = m THEN IF cond THEN handled[m] + 1 ELSE handled[m]
                      ELSE IF x \in lost THEN 0 ELSE handled[x]
  BY <1>0, DispatchFacts
<1>2. ASSUME NEW x \in Messages, handled'[x] > handled[x] PROVE x = m /\ cond
  <2>1. handled[x] \in Nat
    BY <1>0
  <2>2. CASE x = m
    BY <1>1, <1>2, <2>1, <2>2, SMT
  <2>3. CASE x # m
    BY <1>1, <1>2, <2>1, <2>3, SMT
  <2> QED BY <2>2, <2>3
<1> QED BY <1>2 DEF GrowsWhole

(* A packet that is a whole message. *)
LEMMA SingleStep ==
  ASSUME RInv, NEW m \in Messages, countHeader[m] = 0, NEW p, p = PushAndIncrease(<<m, 0>>),
         Counted(<<m, 0>>, p), Dispatch(m, p.map[<<m, 0>>] = 1, SingleLost(p.lost)),
         UNCHANGED <<parts, partQueue>>
  PROVE  BackInv' /\ PartInv' /\ OnceInv' /\ GrowsWhole /\ Pushes(p, <<m, 0>>) /\ <<m, 0>> \in Keys
<1> DEFINE k == <<m, 0>>
<1>1. k \in Keys /\ Proper(k)
  BY KeyIn DEF Headers, Proper
<1>i. BackInv /\ PartInv /\ OnceInv
  BY DEF RInv
<1>2. Pushes(p, k)
  BY <1>1, <1>i, PushFacts
<1>c. Counted(k, p) /\ k = <<m, 0>>
  OBVIOUS
<1> HIDE DEF k
<1>3. BackInv'
  BY <1>1, <1>2, <1>c, <1>i, CountedStep
<1>4. PartInv'
  BY <1>i DEF PartInv
<1>5. \A x \in Messages : countHeader[x] = 0 =>
        /\ x \notin SingleLost(p.lost) /\ <<x, 0>> \notin DOMAIN back' => <<x, 0>> \notin DOMAIN back
        /\ k = <<x, 0>> => x \notin SingleLost(p.lost)
  BY <1>1, <1>2, <1>c, <1>i, SingleForgotten
<1>6. m \notin SingleLost(p.lost)
  BY <1>5, <1>c
<1>7. p.map[k] = 1 => handled[m] = 0
  <2>1. p.map[k] = Seen(k)
    BY <1>2 DEF Pushes
  <2>2. Seen(k) = 1 => k \notin DOMAIN back
    BY <1>i, SeenNat
  <2> QED BY <1>c, <1>i, <2>1, <2>2 DEF OnceInv
<1>8. k \in DOMAIN back'
  BY <1>2, <1>c DEF Counted, Pushes
<1>9. \A x : Lacks(x)' = Lacks(x)
  BY DEF Lacks
<1>10. countHeader[m] \in Nat
  BY ReceiveAssumption
<1>d. Dispatch(m, p.map[k] = 1, SingleLost(p.lost))
  BY <1>c
<1>11. OnceInv'
  <2>1. OthersKept(m, SingleLost(p.lost))
    BY <1>5, <1>9 DEF OthersKept
  <2>2. DueOnce(m, p.map[k] = 1)
    BY <1>7, <1>8, <1>10, <1>c, SMT DEF DueOnce
  <2> QED BY <1>6, <1>d, <1>i, <2>1, <2>2, OnceStep
<1>12. GrowsWhole
  BY <1>6, <1>d, <1>10, <1>i, GrowsWholeStep, SMT
<1> QED BY <1>1, <1>2, <1>3, <1>4, <1>11, <1>12 DEF k

(* One part of a message that has several: p counts the packet, if it is   *)
(* counted, and lost are the messages of one packet that are forgotten.    *)
LEMMA PartStep ==
  ASSUME RInv, NEW m \in Messages, countHeader[m] > 0, NEW h \in Headers(m),
         NEW c, c = Collect(m, h), Collected(c), NEW cond, cond => Completes(c, m), NEW lost,
         m \notin lost, Dispatch(m, cond, lost \cup c.lost),
         \A x \in Messages : x \notin lost /\ countHeader[x] = 0 /\ <<x, 0>> \notin DOMAIN back'
                               => <<x, 0>> \notin DOMAIN back
  PROVE  PartInv' /\ OnceInv' /\ GrowsWhole
<1>i. PartInv /\ OnceInv
  BY DEF RInv
<1>1. Collects(c, m)
  BY <1>i, CollectFacts
<1>2. PartInv'
  BY <1>1, <1>i, CollectedStep
<1>3. parts' = c.map /\ m \notin lost \cup c.lost
  BY <1>1 DEF Collected, Collects
<1>4. OthersKept(m, lost \cup c.lost)
  <2> SUFFICES ASSUME NEW x \in Messages, x # m, x \notin lost, x \notin c.lost
               PROVE  /\ countHeader[x] = 0 /\ <<x, 0>> \notin DOMAIN back' => <<x, 0>> \notin DOMAIN back
                      /\ countHeader[x] > 0 /\ Lacks(x)' => Lacks(x)
    BY DEF OthersKept
  <2>1. x \in DOMAIN parts => x \in DOMAIN parts' /\ parts'[x] = parts[x]
    BY <1>1, <1>3 DEF Collects
  <2> QED BY <2>1 DEF Lacks
<1>5. DueOnce(m, cond)
  <2>0. countHeader[m] \in Nat
    BY ReceiveAssumption
  <2>1. Lacks(m) => handled[m] = 0
    BY <1>i DEF OnceInv, Lacks
  <2>2. cond => handled[m] = 0
    BY <1>1, <2>1 DEF Collects
  <2>3. Lacks(m)' => c.map[m].left > 0
    BY <1>1, <1>3 DEF Collects, Lacks
  <2>4. c.map[m].left > 0 => Lacks(m) /\ ~(c.map[m].left = 0)
    BY <1>1, SMT DEF Collects
  <2>5. Lacks(m)' => ~cond
    BY <1>1, <2>3, <2>4 DEF Collects
  <2> QED BY <2>0, <2>1, <2>2, <2>3, <2>4, <2>5, SMT DEF DueOnce
<1>6. OnceInv'
  BY <1>3, <1>4, <1>5, <1>i, OnceStep
<1>7. cond => m \in DOMAIN parts' /\ parts'[m].have = Headers(m)
  BY <1>1, <1>3 DEF Collects
<1>8. GrowsWhole
  BY <1>3, <1>7, <1>i, GrowsWholeStep
<1> QED BY <1>2, <1>6, <1>8

(* What a counted part leaves for PartStep. *)
LEMMA PartCounted ==
  ASSUME RInv, NEW m \in Messages, countHeader[m] > 0, NEW h \in Headers(m),
         NEW p, p = PushAndIncrease(<<m, h>>), Counted(<<m, h>>, p)
  PROVE  /\ <<m, h>> \in Keys /\ Pushes(p, <<m, h>>) /\ BackInv'
         /\ m \notin SingleLost(p.lost)
         /\ \A x \in Messages : x \notin SingleLost(p.lost) /\ countHeader[x] = 0 /\ <<x, 0>> \notin DOMAIN back'
                                  => <<x, 0>> \notin DOMAIN back
<1> DEFINE k == <<m, h>>
<1>1. k \in Keys /\ Proper(k)
  BY KeyIn DEF Proper
<1>i. BackInv
  BY DEF RInv
<1>2. Pushes(p, k)
  BY <1>1, <1>i, PushFacts
<1>c. Counted(k, p)
  OBVIOUS
<1> HIDE DEF k
<1>3. BackInv'
  BY <1>1, <1>2, <1>c, <1>i, CountedStep
<1>4. m \notin SingleLost(p.lost)
  <2>1. countHeader[m] # 0
    BY ReceiveAssumption, SMT
  <2> QED BY <2>1 DEF SingleLost
<1>5. \A x \in Messages : x \notin SingleLost(p.lost) /\ countHeader[x] = 0 /\ <<x, 0>> \notin DOMAIN back'
                            => <<x, 0>> \notin DOMAIN back
  BY <1>1, <1>2, <1>c, <1>i, SingleForgotten
<1> QED BY <1>1, <1>2, <1>3, <1>4, <1>5 DEF k

-----------------------------------------------------------------------------
LEMMA RInvInit == Init => RInv
<1> SUFFICES ASSUME Init PROVE RInv
  OBVIOUS
<1>0. {RingCapacity, BackCapacity, PartCapacity, MAX_REDIRECT} \subseteq Nat \ {0}
  BY ReceiveAssumption
<1>1. nodes = {} /\ DOMAIN back = {} /\ DOMAIN parts = {} /\ endpoints = <<>> /\ backQueue = <<>> /\ partQueue = <<>>
  BY SMT DEF Init
<1>2. Lists(Senders, <<>>, {}) /\ Lists(Keys, <<>>, {}) /\ Lists(Messages, <<>>, {})
  BY ListsEmpty
<1>3. RingInv /\ BackInv /\ PartInv
  BY <1>0, <1>1, <1>2, SMT DEF RingInv, BackInv, PartInv
<1>4. FloodInv /\ OnceInv
  BY <1>0, <1>1, SMT DEF Init, FloodInv, OnceInv
<1> QED BY <1>3, <1>4 DEF RInv

LEMMA RInvNext == RInv /\ [Next]_vars => RInv' /\ (Next => GrowsWhole)
<1> SUFFICES ASSUME RInv, [Next]_vars PROVE RInv' /\ (Next => GrowsWhole)
  OBVIOUS
<1>i. RingInv /\ BackInv /\ PartInv /\ FloodInv /\ OnceInv
  BY DEF RInv
<1>1. ASSUME NEW m \in Messages, NEW ep \in Senders, ReceiveRedirect(m, ep) PROVE RInv' /\ GrowsWhole
  <2> DEFINE p == PushAndIncrease(<<m, 0>>)
  <2>1. /\ countHeader[m] = 0 /\ Place(ep) /\ RunRedirect(<<m, 0>>, p)
        /\ Dispatch(m, p.map[<<m, 0>>] = 1, SingleLost(p.lost)) /\ UNCHANGED <<parts, partQueue>>
    BY <1>1 DEF ReceiveRedirect
  <2> HIDE DEF p
  <2>2. Counted(<<m, 0>>, p)
    BY <2>1 DEF RunRedirect
  <2>3. BackInv' /\ PartInv' /\ OnceInv' /\ GrowsWhole /\ Pushes(p, <<m, 0>>) /\ <<m, 0>> \in Keys
    BY <2>1, <2>2, SingleStep DEF p
  <2>4. FloodInv'
    BY <1>i, <2>1, <2>3, RedirectStep
  <2>5. RingInv'
    BY <1>i, <2>1, RingStep
  <2> QED BY <2>3, <2>4, <2>5 DEF RInv
<1>2. ASSUME NEW m \in Messages, NEW ep \in Senders, ReceiveDirect(m, ep) PROVE RInv' /\ GrowsWhole
  <2> DEFINE p == PushAndIncrease(<<m, 0>>)
  <2>1. /\ countHeader[m] = 0 /\ Place(ep) /\ Counted(<<m, 0>>, p) /\ forwarded' = Fresh(forwarded, p.lost)
        /\ Dispatch(m, p.map[<<m, 0>>] = 1, SingleLost(p.lost)) /\ UNCHANGED <<parts, partQueue>>
    BY <1>2 DEF ReceiveDirect
  <2> HIDE DEF p
  <2>3. BackInv' /\ PartInv' /\ OnceInv' /\ GrowsWhole /\ Pushes(p, <<m, 0>>) /\ <<m, 0>> \in Keys
    BY <2>1, SingleStep DEF p
  <2>4. FloodInv'
    BY <1>i, <2>1, <2>3, KeepsFlood
  <2>5. RingInv'
    BY <1>i, <2>1, RingStep
  <2> QED BY <2>3, <2>4, <2>5 DEF RInv
<1>3. ASSUME NEW m \in Messages, NEW h \in Headers(m), NEW ep \in Senders, ReceiveRedirectPart(m, h, ep)
      PROVE  RInv' /\ GrowsWhole
  <2> DEFINE p == PushAndIncrease(<<m, h>>)
             c == Collect(m, h)
  <2>1. /\ countHeader[m] > 0 /\ Place(ep) /\ RunRedirect(<<m, h>>, p) /\ Collected(c)
        /\ Dispatch(m, Completes(c, m), SingleLost(p.lost) \cup c.lost)
    BY <1>3 DEF ReceiveRedirectPart
  <2>p. p = PushAndIncrease(<<m, h>>) /\ c = Collect(m, h)
    OBVIOUS
  <2> HIDE DEF p, c
  <2>2. Counted(<<m, h>>, p)
    BY <2>1 DEF RunRedirect
  <2>3. /\ <<m, h>> \in Keys /\ Pushes(p, <<m, h>>) /\ BackInv'
        /\ m \notin SingleLost(p.lost)
        /\ \A x \in Messages : x \notin SingleLost(p.lost) /\ countHeader[x] = 0 /\ <<x, 0>> \notin DOMAIN back'
                                 => <<x, 0>> \notin DOMAIN back
    BY <2>1, <2>2, <2>p, PartCounted
  <2>4. PartInv' /\ OnceInv' /\ GrowsWhole
    BY <2>1, <2>3, <2>p, PartStep
  <2>5. FloodInv'
    BY <1>i, <2>1, <2>3, RedirectStep
  <2>6. RingInv'
    BY <1>i, <2>1, RingStep
  <2> QED BY <2>3, <2>4, <2>5, <2>6 DEF RInv
<1>4. ASSUME NEW m \in Messages, NEW h \in Headers(m), NEW ep \in Senders, ReceivePart(m, h, ep)
      PROVE  RInv' /\ GrowsWhole
  <2> DEFINE c == Collect(m, h)
  <2>1. /\ countHeader[m] > 0 /\ Place(ep) /\ Collected(c) /\ Dispatch(m, FALSE, c.lost)
        /\ UNCHANGED <<back, backQueue, forwarded>>
    BY <1>4 DEF ReceivePart
  <2>p. c = Collect(m, h)
    OBVIOUS
  <2> HIDE DEF c
  <2>2. {} \cup c.lost = c.lost /\ m \notin {}
    OBVIOUS
  <2>3. Dispatch(m, FALSE, {} \cup c.lost) /\ (FALSE => Completes(c, m))
    BY <2>1, <2>2
  <2>4. \A x \in Messages : x \notin {} /\ countHeader[x] = 0 /\ <<x, 0>> \notin DOMAIN back'
                              => <<x, 0>> \notin DOMAIN back
    BY <2>1
  <2>5. PartInv' /\ OnceInv' /\ GrowsWhole
    BY <2>1, <2>2, <2>3, <2>4, <2>p, PartStep
  <2>6. BackInv' /\ FloodInv'
    BY <1>i, <2>1 DEF BackInv, FloodInv
  <2>7. RingInv'
    BY <1>i, <2>1, RingStep
  <2> QED BY <2>5, <2>6, <2>7 DEF RInv
<1>5. ASSUME NEW m \in Messages, NEW h \in Headers(m), NEW ep \in Senders, ReceiveLastPart(m, h, ep)
      PROVE  RInv' /\ GrowsWhole
  <2> DEFINE p == PushAndIncrease(<<m, h>>)
             c == Collect(m, h)
  <2>1. /\ countHeader[m] > 0 /\ Completes(c, m) /\ Place(ep) /\ Collected(c) /\ Counted(<<m, h>>, p)
        /\ forwarded' = Fresh(forwarded, p.lost)
        /\ Dispatch(m, p.map[<<m, h>>] = 1, SingleLost(p.lost) \cup c.lost)
    BY <1>5 DEF ReceiveLastPart
  <2>p. p = PushAndIncrease(<<m, h>>) /\ c = Collect(m, h)
    OBVIOUS
  <2> HIDE DEF p, c
  <2>3. /\ <<m, h>> \in Keys /\ Pushes(p, <<m, h>>) /\ BackInv'
        /\ m \notin SingleLost(p.lost)
        /\ \A x \in Messages : x \notin SingleLost(p.lost) /\ countHeader[x] = 0 /\ <<x, 0>> \notin DOMAIN back'
                                 => <<x, 0>> \notin DOMAIN back
    BY <2>1, <2>p, PartCounted
  <2>4. PartInv' /\ OnceInv' /\ GrowsWhole
    BY <2>1, <2>3, <2>p, PartStep
  <2>5. FloodInv'
    BY <1>i, <2>1, <2>3, KeepsFlood
  <2>6. RingInv'
    BY <1>i, <2>1, RingStep
  <2> QED BY <2>3, <2>4, <2>5, <2>6 DEF RInv
<1>6. ASSUME NEW ep \in Senders, ReceiveOutOfRange(ep) PROVE RInv' /\ GrowsWhole
  <2>1. RingInv'
    BY <1>i, <1>6, RingStep DEF ReceiveOutOfRange
  <2>2. UNCHANGED <<back, backQueue, parts, partQueue, handled, forwarded>>
    BY <1>6 DEF ReceiveOutOfRange
  <2>3. BackInv' /\ PartInv' /\ FloodInv' /\ OnceInv'
    BY <1>i, <2>2 DEF BackInv, PartInv, FloodInv, OnceInv
  <2>4. GrowsWhole
    BY <1>i, <2>2, SMT DEF GrowsWhole, OnceInv
  <2> QED BY <2>1, <2>3, <2>4 DEF RInv
<1>7. CASE Next
  BY <1>1, <1>2, <1>3, <1>4, <1>5, <1>6, <1>7 DEF Next, HandleReceive
<1>8. CASE UNCHANGED vars /\ ~Next
  BY <1>i, <1>8 DEF vars, RInv, RingInv, BackInv, PartInv, FloodInv, OnceInv
<1> QED BY <1>7, <1>8

LEMMA RInvHolds == Spec => []RInv
BY RInvInit, RInvNext, PTL DEF Spec

(* The three rings of a node never lose step with their maps, whatever     *)
(* arrives and however small they are: the queue names the entries of the  *)
(* map, each once, within the capacity.                                    *)
THEOREM QueuesAlways == Spec => []QueuesMatch
<1>1. ASSUME NEW U, NEW q, NEW D, Lists(U, q, D)
      PROVE  Elements(q) = D /\ Len(q) = Cardinality(D)
  <2>1. DOMAIN q = 1..Len(q)
    BY <1>1, SMT DEF Lists
  <2> QED BY <1>1, <2>1, SMT DEF Lists, Elements
<1>2. RInv => QueuesMatch
  BY <1>1 DEF RInv, RingInv, BackInv, PartInv, QueuesMatch
<1> QED BY <1>2, RInvHolds, PTL

(* Repeated, late and reordered packets never make the Node handle a       *)
(* message twice while it is remembered.                                   *)
THEOREM OnceAlways == Spec => []HandledOnce
<1>1. RInv => HandledOnce
  BY DEF RInv, OnceInv, HandledOnce
<1> QED BY <1>1, RInvHolds, PTL

(* RunRedirect sends a remembered packet on MAX_REDIRECT times at most. *)
THEOREM FloodAlways == Spec => []FloodBounded
<1>1. RInv => FloodBounded
  BY DEF RInv, FloodInv, FloodBounded
<1> QED BY <1>1, RInvHolds, PTL

(* A message of several packets reaches the Node only with all its parts.  *)
THEOREM CompleteAlways == Spec => HandledComplete
<1>1. RInv /\ [Next]_vars => [GrowsWhole]_vars
  BY RInvNext
<1>2. HandledComplete <=> [][GrowsWhole]_vars
  BY DEF HandledComplete, GrowsWhole
<1> QED BY <1>1, <1>2, RInvHolds, PTL DEF Spec
=============================================================================
