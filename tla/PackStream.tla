----------------------------- MODULE PackStream -----------------------------
(***************************************************************************)
(* How a message becomes packets and is read again: OPackStream spreads    *)
(* the fields over packets, SessionIO sends and combines them, IPackStream *)
(* and the handlers of the Node take the fields out. A byte is known by    *)
(* its place in the message; 0 is a byte that belongs to nobody, left over *)
(* in a packet from its earlier use. Every turn of a loop is a step.       *)
(***************************************************************************)
EXTENDS Integers, Sequences

CONSTANTS
  PacketSize,   \* sizeof(Packet::data), 62440 in the code
  WordSize,     \* sizeof(uint32_t): a round number, a NodeId
  HashLength,   \* FixedString<hash_length>
  VectorSize,   \* sizeof a vector or matrix of the Solver
  Chunks,       \* sizes of strings, transactions and pools
  CONFIDANTS,   \* MIN_CONFIDANTS and MAX_CONFIDANTS, both 3 in the code
  MaxBytes      \* bound: bytes of a message

ASSUME PackAssumption ==
  /\ {PacketSize, WordSize, HashLength, VectorSize, CONFIDANTS} \subseteq Nat \ {0}
  /\ WordSize <= PacketSize /\ VectorSize <= PacketSize  \* static_assert "Type too long"
  /\ Chunks \subseteq Nat

VARIABLES
  parts,     \* parts_: the bytes written to each packet
  total,     \* bytes written so far
  size,      \* bytes insertBytes has still to put
  (* The receiver: its handler, where that is, and its IPackStream. *)
  command,
  reading,
  ptr_,      \* bytes taken; end_ is total
  good_,
  count,     \* confidants or transactions read
  acted      \* the handler has gone on with the message

writeVars == <<parts, total, size>>
readVars == <<command, reading, ptr_, good_, count, acted>>
packVars == <<writeVars, readVars>>

Bytes(from, n) == [i \in 1..n |-> from + i]
Back(ps) == ps[Len(ps)]
Into(ps, bytes) == [ps EXCEPT ![Len(ps)] = Back(ps) \o bytes]
Left(ps) == PacketSize - Len(Back(ps))

PackInit ==
  /\ parts = <<<<>>>> /\ total = 0 /\ size = 0
  /\ command = "none" /\ reading = "none" /\ ptr_ = 0 /\ good_ = FALSE /\ count = 0 /\ acted = FALSE

(* OPackStream::init, once the last message is sent and read. *)
Restart ==
  /\ size = 0 /\ reading \in {"none", "done"}
  /\ parts' = <<<<>>>> /\ total' = 0 /\ size' = 0
  /\ command' = "none" /\ reading' = "none" /\ ptr_' = 0 /\ good_' = FALSE /\ count' = 0 /\ acted' = FALSE

(* Mutant: a value that does not fit starts the next packet. *)
PutValueUnsplit(n) ==
  IF Left(parts) >= n
  THEN Into(parts, Bytes(total, n))
  ELSE Append(parts, Bytes(total, n))

(* operator<< of a plain value: one on the border is split. *)
PutValue(n) ==
  LET left == Left(parts)
  IN  IF left >= n
      THEN Into(parts, Bytes(total, n))
      ELSE Append(Into(parts, Bytes(total, left)), Bytes(total + left, n - left))

Put(n) ==
  /\ reading = "none" /\ size = 0 /\ total + n <= MaxBytes
  /\ parts' = PutValue(n)
  /\ total' = total + n
  /\ UNCHANGED <<size, readVars>>

Insert(n) ==
  /\ reading = "none" /\ size = 0 /\ total + n <= MaxBytes
  /\ size' = n
  /\ UNCHANGED <<parts, total, readVars>>

(* insertBytes: a new packet is opened only when there is a byte for it. *)
InsertBytes ==
  LET ps    == IF Left(parts) = 0 THEN Append(parts, <<>>) ELSE parts
      toPut == IF Left(ps) < size THEN Left(ps) ELSE size
  IN  /\ size > 0
      /\ parts' = Into(ps, Bytes(total, toPut))
      /\ size' = size - toPut
      /\ total' = total + toPut
      /\ UNCHANGED readVars

-----------------------------------------------------------------------------
(* senderThreadRoutine sends every packet but the last in full length. *)
Data(i) == [j \in 1..PacketSize |-> IF j <= Len(parts[i]) THEN parts[i][j] ELSE 0]
SizeSent(i) == IF i = Len(parts) THEN Len(parts[i]) ELSE PacketSize
TotalSize == (Len(parts) - 1) * PacketSize + SizeSent(Len(parts))

(* The receiver copies the packets one behind the other, the first ones in *)
(* full length and of the last what is left of the sum of the sizes.       *)
Combined ==
  [k \in 1..TotalSize |-> Data(((k - 1) \div PacketSize) + 1)[((k - 1) % PacketSize) + 1]]

(* The message is given to a handler. *)
Deliver(c, first) ==
  /\ reading = "none" /\ size = 0
  /\ command' = c /\ reading' = first
  /\ ptr_' = 0 /\ good_' = TRUE /\ count' = 0 /\ acted' = FALSE
  /\ UNCHANGED writeVars

AtEnd == ptr_ = total
More == good_ /\ ~AtEnd

(* operator>> of a plain value tests (ptr_ - end_) < sizeof in unsigned    *)
(* numbers: before the end the difference is huge and the value is read.   *)
ReadValue(n) ==
  IF ptr_ >= total /\ ptr_ - total < n
  THEN good_' = FALSE /\ ptr_' = ptr_
  ELSE ptr_' = ptr_ + n /\ good_' = good_

(* operator>> of a FixedString tests end_ - ptr_ < Length, unsigned too. *)
ReadFixed(n) ==
  IF ptr_ <= total /\ total - ptr_ < n
  THEN good_' = FALSE /\ ptr_' = ptr_
  ELSE ptr_' = ptr_ + n /\ good_' = good_

(* A step of the handler that keeps the message. *)
Goes(from, to) == reading = from /\ reading' = to /\ UNCHANGED <<writeVars, command>>
Unread == UNCHANGED <<ptr_, good_, count>>

ReadHash == Goes("hash", "whole") /\ ReadFixed(HashLength) /\ UNCHANGED <<count, acted>>
ReadVector == Goes("vector", "whole") /\ ReadValue(VectorSize) /\ UNCHANGED <<count, acted>>

(* readRoundData, for a round number that is not old. *)
ReadRound == Goes("round", "main") /\ ReadValue(WordSize) /\ UNCHANGED <<count, acted>>
ReadMain == Goes("main", "confidants") /\ ReadValue(WordSize) /\ UNCHANGED <<count, acted>>

(* With confidants enough and bytes left the loop ends: a tail follows, or *)
(* there are too many.                                                     *)
ReadConfidant ==
  /\ More /\ ReadValue(WordSize) /\ count' = count + 1
  /\ Goes("confidants", IF count + 1 # CONFIDANTS \/ ptr_' = total THEN "confidants"
                        ELSE IF command = "ring" THEN "table" ELSE "done")
  /\ UNCHANGED acted

NoConfidantLeft == Goes("confidants", "table") /\ ~More /\ Unread /\ UNCHANGED acted

EndRoundData ==
  LET ok == good_ /\ count >= CONFIDANTS
  IN  /\ Goes("table", IF ok /\ command = "ring" THEN "ring" ELSE "done")
      /\ acted' = (ok /\ command = "table")
      /\ Unread

(* getInitRing: addresses up to the end. *)
ReadAddress == Goes("ring", "ring") /\ More /\ ReadValue(WordSize) /\ UNCHANGED <<count, acted>>
NoAddressLeft == Goes("ring", "whole") /\ ~More /\ Unread /\ UNCHANGED acted

(* Mutant: the handler does not ask for the end of the message. *)
WholeOrMore == good_

(* !istream_.good() || !istream_.end(): the message is refused. *)
Whole == good_ /\ AtEnd

EndWhole == Goes("whole", "done") /\ acted' = Whole /\ Unread

(* getTransaction: operator>> of a Transaction takes the rest of the       *)
(* message, so the loop reads one, however many were written.              *)
ReadTransaction ==
  /\ Goes("transactions", "transactions") /\ More
  /\ ptr_' = total /\ count' = count + 1 /\ UNCHANGED <<good_, acted>>
NoTransactionLeft == Goes("transactions", "done") /\ ~More /\ acted' = good_ /\ Unread

Read ==
  \/ ReadHash \/ ReadVector \/ ReadRound \/ ReadMain \/ ReadConfidant \/ NoConfidantLeft \/ EndRoundData
  \/ ReadAddress \/ NoAddressLeft \/ EndWhole \/ ReadTransaction \/ NoTransactionLeft

PackNext ==
  \/ Restart
  \/ \E n \in {WordSize, VectorSize} : Put(n)
  \/ \E n \in Chunks \cup {HashLength} : Insert(n)
  \/ InsertBytes
  \/ Deliver("hash", "hash") \/ Deliver("vector", "vector") \/ Deliver("transactions", "transactions")
  \/ Deliver("table", "round") \/ Deliver("ring", "round")
  \/ Read

PackSpec == PackInit /\ [][PackNext]_packVars

-----------------------------------------------------------------------------
(* However the fields of a message fall on the borders of packets, and     *)
(* whatever the packets held before, the receiver combines exactly the     *)
(* bytes that were written, in their order.                                *)
MessageWhole == Combined = Bytes(0, total)

(* The lengths a message of this kind can have. *)
Fits ==
  CASE command = "hash" -> total = HashLength
    [] command = "vector" -> total = VectorSize
    [] command = "table" -> total = (2 + CONFIDANTS) * WordSize
    [] command = "ring" -> \E w \in 0..total : total = (2 + CONFIDANTS + w) * WordSize
    [] OTHER -> TRUE

(* A handler acts on a message exactly if the message has the length of    *)
(* its fields, and what it acts on was read within the message: the        *)
(* reversed test of operator>> lets a read pass the end, but the handler   *)
(* then never finds good() and end() together.                             *)
ActsOnWhole == reading = "done" => (acted <=> Fits) /\ (acted => ptr_ = total)

(* sendTransaction writes a vector of transactions to one message and      *)
(* getTransaction reads in a loop, say two of n bytes. Fails: the first    *)
(* operator>> takes all.                                                   *)
BatchRead ==
  \A n \in Chunks \ {0} : reading = "done" /\ command = "transactions" /\ total = 2 * n => count = 2
=============================================================================
