----------------------------- MODULE PacketPool -----------------------------
(***************************************************************************)
(* PacketManager and the counted references PacketPtr to its packets. A    *)
(* holder is any place that has a PacketPtr: a handler's argument, a slot  *)
(* of the collector, a task, the output stream, a pending send. Operations *)
(* are those of the network thread, one step each: counts and stack are    *)
(* plain data, and what a second thread would make of them is undefined.   *)
(***************************************************************************)
EXTENDS Integers, Sequences, FiniteSets

CONSTANTS
  Holders,    \* places that can hold a PacketPtr
  PageSize,   \* packets allocated at once
  MaxPages,   \* bound: pages
  Null        \* nullptr

ASSUME PacketAssumption ==
  {PageSize, MaxPages} \subseteq Nat \ {0} /\ Null \notin Nat /\ IsFiniteSet(Holders)

VARIABLES
  pages,      \* pages_.size()
  freeStack,  \* freeStack_, top last
  counter,    \* PacketWithCounter::counter, of every allocated packet
  ptr         \* ptr_ of every holder

packetVars == <<pages, freeStack, counter, ptr>>

Packets == 1..(pages * PageSize)
HoldersOf(p) == {h \in Holders : ptr[h] = p}

PagePackets(n) == [i \in 1..PageSize |-> n * PageSize + i]

(* The constructor allocates the first page; a counter of fresh memory     *)
(* has no value yet and is set when the packet is taken.                   *)
PacketInit ==
  /\ pages = 1
  /\ freeStack = PagePackets(0)
  /\ counter = [p \in 1..PageSize |-> 0]
  /\ ptr = [h \in Holders |-> Null]

(* decrement of the packet p, which the last holder gives back: the new    *)
(* counters and stack.                                                     *)
Decremented(c, stack, p) ==
  IF p = Null
  THEN [counter |-> c, stack |-> stack]
  ELSE [counter |-> [c EXCEPT ![p] = @ - 1],
        stack   |-> IF c[p] = 1 THEN Append(stack, p) ELSE stack]

Incremented(c, p) == IF p = Null THEN c ELSE [c EXCEPT ![p] = @ + 1]

(* getFreePack into a holder that may have had another packet: an empty    *)
(* stack is refilled with a page first.                                    *)
GetFreePack(h) ==
  LET grow  == freeStack = <<>>
      stack == IF grow THEN PagePackets(pages) ELSE freeStack
      p     == stack[Len(stack)]
      fresh == [q \in 1..((IF grow THEN pages + 1 ELSE pages) * PageSize) |->
                  IF q = p THEN 1 ELSE IF q \in DOMAIN counter THEN counter[q] ELSE 0]
      d     == Decremented(fresh, SubSeq(stack, 1, Len(stack) - 1), ptr[h])
  IN  /\ grow => pages < MaxPages
      /\ pages' = IF grow THEN pages + 1 ELSE pages
      /\ counter' = d.counter
      /\ freeStack' = d.stack
      /\ ptr' = [ptr EXCEPT ![h] = p]

(* Mutant: the new packet is not counted. *)
CopyUncounted(h, g) ==
  LET d == Decremented(counter, freeStack, ptr[h])
  IN  /\ ptr[h] # ptr[g]
      /\ counter' = d.counter
      /\ freeStack' = d.stack
      /\ ptr' = [ptr EXCEPT ![h] = ptr[g]]
      /\ UNCHANGED pages

(* operator=(const PacketPtr&), and the copy constructor when h is empty.  *)
(* Two holders of the same packet are left alone.                          *)
Copy(h, g) ==
  LET d == Decremented(counter, freeStack, ptr[h])
  IN  /\ ptr[h] # ptr[g]
      /\ counter' = Incremented(d.counter, ptr[g])
      /\ freeStack' = d.stack
      /\ ptr' = [ptr EXCEPT ![h] = ptr[g]]
      /\ UNCHANGED pages

(* operator=(PacketPtr&&), and the move constructor when h is empty. Of    *)
(* two holders of one packet the second is emptied without a decrement.    *)
Move(h, g) ==
  LET d == IF ptr[h] # ptr[g] THEN Decremented(counter, freeStack, ptr[h])
                              ELSE [counter |-> counter, stack |-> freeStack]
  IN  /\ h # g
      /\ counter' = d.counter
      /\ freeStack' = d.stack
      /\ ptr' = [ptr EXCEPT ![h] = ptr[g], ![g] = Null]
      /\ UNCHANGED pages

(* The destructor, and the assignment of PacketPtr() in PacketPart::clear. *)
Drop(h) ==
  LET d == Decremented(counter, freeStack, ptr[h])
  IN  /\ ptr[h] # Null
      /\ counter' = d.counter
      /\ freeStack' = d.stack
      /\ ptr' = [ptr EXCEPT ![h] = Null]
      /\ UNCHANGED pages

(* The uses in the node never move between two holders of one packet. *)
MoveInUse(h, g) == (ptr[g] # Null => ptr[h] # ptr[g]) /\ Move(h, g)

PacketNext == \E h \in Holders :
  \/ GetFreePack(h) \/ Drop(h)
  \/ \E g \in Holders : Copy(h, g) \/ MoveInUse(h, g)

PacketSpec == PacketInit /\ [][PacketNext]_packetVars

-----------------------------------------------------------------------------
(* A packet goes back to the free stack with its last holder, once, and is *)
(* never handed out while anything still refers to it: every allocated     *)
(* packet is either free, with nobody holding it, or counts its holders.   *)
FreeOrHeld ==
  \A p \in Packets :
    IF \E i \in DOMAIN freeStack : freeStack[i] = p
    THEN HoldersOf(p) = {} /\ Cardinality({i \in DOMAIN freeStack : freeStack[i] = p}) = 1
    ELSE counter[p] = Cardinality(HoldersOf(p)) /\ counter[p] > 0
=============================================================================
