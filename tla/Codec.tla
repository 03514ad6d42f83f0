-------------------------------- MODULE Codec --------------------------------
(***************************************************************************)
(* Two conversions of csdb. The compact coding of a 64-bit integer as 1 to *)
(* 9 bytes (integral_encdec.cpp), on words and codes that are functions    *)
(* from bit positions, lowest bit of the first byte first. And the text of *)
(* a TransactionID: written by to_string, read back by from_string and by  *)
(* the API's TransactionGet; the pool's hash is taken to survive it.       *)
(***************************************************************************)
EXTENDS Integers, Sequences
LOCAL INSTANCE Folds

CONSTANTS
  Words,    \* 64-bit words to encode
  Indices   \* positions of transactions in a block

Bits(n) == 0..(n - 1)

ASSUME CodecAssumption ==
  Words \subseteq [Bits(64) -> {0, 1}] /\ Indices \subseteq Nat

VARIABLES
  word,     \* the value given to encode
  code,     \* the bytes it became, as bits
  bufSize,  \* how many of them decode is told about
  idIndex   \* the index of a TransactionID

codecVars == <<word, code, bufSize, idIndex>>

-----------------------------------------------------------------------------
(* The position of the highest bit that differs from the sign; for 0 and   *)
(* -1 there is none, and the intrinsics leave bits undefined.              *)
Significant(w) == {i \in Bits(64) : w[i] # w[63]}
Highest(S) == CHOOSE i \in S : \A j \in S : j <= i

(* The number of bytes after the first, from bits = highest + 2, at least 7. *)
BytesFor(bits) == IF 57 > bits THEN ((IF bits < 7 THEN 7 ELSE bits) - 1) \div 7 ELSE 8

(* Mutant: no room is left for the sign. *)
LengthsNoSign(w) ==
  IF Significant(w) = {} THEN 0..8 ELSE {BytesFor(Highest(Significant(w)) + 1)}

Lengths(w) ==
  IF Significant(w) = {} THEN 0..8 ELSE {BytesFor(Highest(Significant(w)) + 2)}

(* bytes ones, a zero, then the low bits of the value; 0xFF means all 64. *)
Encode(w, bytes) ==
  [k \in Bits(8 * (bytes + 1)) |->
     IF k < bytes THEN 1
     ELSE IF bytes = 8 THEN w[k - 8]
     ELSE IF k = bytes THEN 0 ELSE w[k - bytes - 1]]

LeadingOnes(c) == CHOOSE n \in 0..8 : /\ \A k \in Bits(n) : c[k] = 1
                                      /\ n < 8 => c[n] = 0

(* The value behind the first byte; above its last bit the sign goes on. *)
Unpack(c, bytes) ==
  [i \in Bits(64) |->
     IF bytes = 8 THEN c[i + 8]
     ELSE IF i < 7 * (bytes + 1) THEN c[i + bytes + 1] ELSE c[8 * bytes + 7]]

(* used = 0 is failure: no byte at all, or fewer than the first one says. *)
Decode(c, n) ==
  IF n = 0 \/ LeadingOnes(c) + 1 > n THEN [used |-> 0]
  ELSE [used |-> LeadingOnes(c) + 1, value |-> Unpack(c, LeadingOnes(c))]

-----------------------------------------------------------------------------
(* Digits, most significant first. *)
HexText(i) == [d \in 1..8 |-> (i \div 16^(8 - d)) % 16]
ReadDecimal(s) == MapThenFoldSet(+, 0, LAMBDA i : s[i] * 10^(Len(s) - i), LAMBDA S : CHOOSE i \in S : TRUE, DOMAIN s)

(* strtoumax(start, &end, 10): the whole text must have been read. *)
FromText(s) ==
  IF s # <<>> /\ \A i \in DOMAIN s : s[i] < 10 THEN ReadDecimal(s) ELSE -1

(* std::stoi in convertStringToID: reads as far as it can. *)
Stoi(s) ==
  LET n == CHOOSE n \in 0..Len(s) : /\ \A i \in 1..n : s[i] < 10
                                    /\ n < Len(s) => s[n + 1] >= 10
  IN  ReadDecimal(SubSeq(s, 1, n))

-----------------------------------------------------------------------------
CodecInit ==
  /\ word = [i \in Bits(64) |-> 0]
  /\ code = <<>>
  /\ bufSize = 0
  /\ idIndex = 0

(* A word is encoded into a fresh buffer. *)
EncodeWord(w, bytes) ==
  /\ word' = w
  /\ code' = Encode(w, bytes)
  /\ bufSize' = bytes + 1
  /\ UNCHANGED idIndex

(* A buffer that ends early. *)
Cut ==
  /\ bufSize > 0
  /\ bufSize' = bufSize - 1
  /\ UNCHANGED <<word, code, idIndex>>

NameTransaction(i) ==
  /\ idIndex' = i
  /\ UNCHANGED <<word, code, bufSize>>

CodecNext ==
  \/ code = <<>> /\ \E w \in Words : \E bytes \in Lengths(w) : EncodeWord(w, bytes)
  \/ Cut
  \/ \E i \in Indices : NameTransaction(i)

CodecSpec == CodecInit /\ [][CodecNext]_codecVars

-----------------------------------------------------------------------------
Uncut == bufSize > 0 /\ DOMAIN code = Bits(8 * bufSize)

(* decode gives back the word and the length encode used, whatever the     *)
(* intrinsics make of 0 and -1; a buffer that ends early is refused.       *)
DecodeInverts ==
  IF Uncut
  THEN Decode(code, bufSize) = [used |-> bufSize, value |-> word]
  ELSE Decode(code, bufSize).used = 0

(* A TransactionID read back from its text is the same. *)
IdRoundTrip == FromText(HexText(idIndex)) = idIndex

(* TransactionGet, given an id the API has sent, asks for that transaction. *)
IdFindsTransaction == Stoi(HexText(idIndex)) = idIndex
=============================================================================
