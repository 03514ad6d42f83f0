----------------------------- MODULE DataProofs -----------------------------
(***************************************************************************)
(* Proofs about data: amounts (Amount, for every AMOUNT_MAX_FRACTION),     *)
(* the encoding of integers (Codec, for every width), and the fields of    *)
(* messages in packets (PackStream, for all sizes of packets, fields and   *)
(* messages).                                                              *)
(***************************************************************************)
EXTENDS PackStream, Amount, Codec, TLAPS

USE Zenon

(* Facts about sequences. *)
LEMMA ElementOfSeq ==
  ASSUME NEW S, NEW s \in Seq(S), NEW n \in 1..Len(s)
  PROVE  s[n] \in S
BY SMT

LEMMA LenProperties ==
  ASSUME NEW S, NEW s \in Seq(S)
  PROVE  Len(s) \in Nat /\ DOMAIN s = 1..Len(s)
BY SMT

LEMMA EmptySeq ==
  ASSUME NEW S
  PROVE  <<>> \in Seq(S) /\ Len(<<>>) = 0 /\ \A s \in Seq(S) : s # <<>> => Len(s) \in Nat \ {0}
BY SMT

LEMMA SeqEqual ==
  ASSUME NEW S, NEW s \in Seq(S), NEW t \in Seq(S), Len(s) = Len(t), \A i \in 1..Len(s) : s[i] = t[i]
  PROVE  s = t
BY SMT

LEMMA ExceptSeq ==
  ASSUME NEW S, NEW s \in Seq(S), NEW i \in 1..Len(s), NEW x \in S
  PROVE  /\ [s EXCEPT ![i] = x] \in Seq(S) /\ Len([s EXCEPT ![i] = x]) = Len(s)
         /\ \A j \in 1..Len(s) : [s EXCEPT ![i] = x][j] = IF j = i THEN x ELSE s[j]
BY SMT

LEMMA AppendProperties ==
  ASSUME NEW S, NEW s \in Seq(S), NEW x \in S
  PROVE  /\ Append(s, x) \in Seq(S) /\ Len(Append(s, x)) = Len(s) + 1
         /\ \A i \in 1..Len(s) : Append(s, x)[i] = s[i]
         /\ Append(s, x)[Len(s) + 1] = x
BY SMT

LEMMA ConcatProperties ==
  ASSUME NEW S, NEW s \in Seq(S), NEW t \in Seq(S)
  PROVE  /\ s \o t \in Seq(S) /\ Len(s \o t) = Len(s) + Len(t)
         /\ \A i \in 1..(Len(s) + Len(t)) :
              (s \o t)[i] = IF i <= Len(s) THEN s[i] ELSE t[i - Len(s)]
BY SMT

LEMMA ConcatEmptySeq ==
  ASSUME NEW S, NEW s \in Seq(S)
  PROVE  s \o <<>> = s /\ <<>> \o s = s
BY SMT

(* PackStream. What was written fills the packets up to the last, which    *)
(* gives each byte the place where the receiver looks for it. A reader is  *)
(* behind a whole number of words as long as its stream is good, and stays *)
(* good in every message that has the words it asks for.                   *)

LEMMA Product ==
  ASSUME NEW a \in Nat, NEW m \in Nat
  PROVE  a * m \in Nat /\ (a + 1) * m = a * m + m
BY SMT

LEMMA ProductLess ==
  ASSUME NEW a \in Nat, NEW b \in Nat, NEW m \in Nat, a < b
  PROVE  a * m + m <= b * m
<1>1. PICK d \in Nat : b = a + 1 + d
  <2>1. b - a - 1 \in Nat /\ b = a + 1 + (b - a - 1)
    BY SMT
  <2> QED
    BY <2>1
<1>2. b * m = a * m + m + d * m
  BY <1>1, SMT
<1>3. a * m \in Nat /\ d * m \in Nat
  BY Product
<1> QED
  BY <1>2, <1>3, SMT

(* The parts of a place in the message: its packet and its place there. *)
LEMMA Quotient ==
  ASSUME NEW k \in Nat, NEW m \in Nat \ {0}
  PROVE  /\ k \div m \in Nat /\ k % m \in 0..(m - 1)
         /\ k = (k \div m) * m + (k % m)
BY SMT
(* Where the bytes of packet i begin. *)
Off(i) == (i - 1) * PacketSize

LEMMA Offsets ==
  /\ PacketSize \in Nat \ {0}
  /\ \A i \in Nat \ {0} : Off(i) \in Nat /\ Off(i + 1) = Off(i) + PacketSize
  /\ \A i, j \in Nat \ {0} : i < j => Off(i) + PacketSize <= Off(j)
<1>1. PacketSize \in Nat \ {0}
  BY PackAssumption
<1>2. ASSUME NEW i \in Nat \ {0} PROVE Off(i) \in Nat /\ Off(i + 1) = Off(i) + PacketSize
  <2>1. PICK a \in Nat : a = i - 1 /\ (i + 1) - 1 = a + 1
    BY SMT
  <2> QED
    BY <1>1, <2>1, Product DEF Off
<1>3. ASSUME NEW i \in Nat \ {0}, NEW j \in Nat \ {0}, i < j PROVE Off(i) + PacketSize <= Off(j)
  <2>1. PICK a \in Nat : a = i - 1
    BY SMT
  <2>2. PICK b \in Nat : b = j - 1
    BY SMT
  <2>3. a < b
    BY <1>3, <2>1, <2>2, SMT
  <2> QED
    BY <1>1, <2>1, <2>2, <2>3, ProductLess DEF Off
<1> QED
  BY <1>1, <1>2, <1>3

(* Packets that hold the first n bytes of a message, all but the last full. *)
Filled(ps, n) ==
  /\ ps \in Seq(Seq(Nat)) /\ Len(ps) \in Nat \ {0} /\ n \in Nat
  /\ \A i \in 1..Len(ps) : /\ Len(ps[i]) <= PacketSize
                           /\ i < Len(ps) => Len(ps[i]) = PacketSize
                           /\ \A j \in 1..Len(ps[i]) : ps[i][j] = Off(i) + j
  /\ n = Off(Len(ps)) + Len(ps[Len(ps)])

LEMMA BytesSeq ==
  ASSUME NEW n \in Nat, NEW k \in Nat
  PROVE  Bytes(n, k) \in Seq(Nat) /\ Len(Bytes(n, k)) = k /\ \A j \in 1..k : Bytes(n, k)[j] = n + j
BY SMT DEF Bytes

(* The last packet of packets that are filled so. *)
LEMMA FilledBack ==
  ASSUME NEW ps, NEW n, Filled(ps, n)
  PROVE  /\ ps \in Seq(Seq(Nat)) /\ Len(ps) \in Nat \ {0} /\ n \in Nat
         /\ Back(ps) = ps[Len(ps)] /\ Back(ps) \in Seq(Nat) /\ Len(Back(ps)) \in Nat
         /\ n = Off(Len(ps)) + Len(Back(ps))
         /\ Left(ps) \in Nat /\ Left(ps) + Len(Back(ps)) = PacketSize
<1>1. ps \in Seq(Seq(Nat)) /\ Len(ps) \in Nat \ {0} /\ n \in Nat /\ Back(ps) = ps[Len(ps)]
      /\ n = Off(Len(ps)) + Len(Back(ps)) /\ Len(Back(ps)) <= PacketSize
  BY SMT DEF Filled, Back
<1>2. Back(ps) \in Seq(Nat)
  BY <1>1, ElementOfSeq, SMT
<1>3. Len(Back(ps)) \in Nat
  BY <1>2, LenProperties
<1>4. PICK P \in Nat : P = PacketSize
  BY Offsets
<1>5. PICK m \in Nat : m = Len(Back(ps)) /\ m <= P
  BY <1>1, <1>3, <1>4
<1>6. Left(ps) = P - m
  BY <1>4, <1>5 DEF Left
<1>7. Left(ps) \in Nat /\ Left(ps) + m = P
  BY <1>5, <1>6, SMT
<1> QED
  BY <1>1, <1>2, <1>3, <1>4, <1>5, <1>7

LEMMA FilledInto ==
  ASSUME NEW ps, NEW n, Filled(ps, n), NEW k \in Nat, k <= Left(ps)
  PROVE  Filled(Into(ps, Bytes(n, k)), n + k)
<1>1. PICK l \in Nat \ {0} : l = Len(ps)
  BY FilledBack
<1>2. PICK last \in Seq(Nat) : last = Back(ps)
  BY FilledBack
<1>3. PICK m \in Nat : m = Len(last)
  BY <1>2, FilledBack
<1>4. PICK o \in Nat : o = Off(l)
  BY <1>1, Offsets
<1>5. n = o + m /\ m + k <= PacketSize /\ n \in Nat
  <2>1. PICK P \in Nat : P = PacketSize
    BY Offsets
  <2>2. PICK left \in Nat : left = Left(ps) /\ left + m = P /\ n = o + m /\ n \in Nat
    BY <1>1, <1>2, <1>3, <1>4, <2>1, FilledBack
  <2>3. m + k <= P
    BY <2>2, SMT
  <2> QED
    BY <2>1, <2>2, <2>3
<1>6. PICK b \in Seq(Nat) : b = Bytes(n, k)
  BY <1>5, BytesSeq
<1>7. Len(b) = k /\ \A j \in 1..k : b[j] = n + j
  BY <1>5, <1>6, BytesSeq
<1>8. PICK new \in Seq(Nat) : new = last \o b
  BY <1>2, <1>6, ConcatProperties
<1>9. Len(new) = m + k /\ \A j \in 1..(m + k) : new[j] = IF j <= m THEN last[j] ELSE b[j - m]
  <2>1. /\ Len(new) = Len(last) + Len(b)
        /\ \A j \in 1..(Len(last) + Len(b)) : new[j] = IF j <= Len(last) THEN last[j] ELSE b[j - Len(last)]
    BY <1>8, ConcatProperties
  <2> QED
    BY <1>3, <1>7, <2>1
<1>10. \A j \in 1..m : last[j] = o + j
  <2>1. l \in 1..Len(ps) /\ last = ps[l]
    BY <1>1, <1>2, SMT DEF Back
  <2>2. \A j \in 1..Len(ps[l]) : ps[l][j] = Off(l) + j
    BY <2>1 DEF Filled
  <2> QED
    BY <1>3, <1>4, <2>1, <2>2
<1>11. ASSUME NEW j \in 1..(m + k) PROVE new[j] = o + j
  <2>1. CASE j <= m
    <3>1. j \in 1..m
      BY <2>1, SMT
    <3>2. new[j] = last[j]
      BY <1>9, <2>1
    <3> QED
      BY <1>10, <3>1, <3>2
  <2>2. CASE j > m
    <3>1. j - m \in 1..k /\ n + (j - m) = o + j
      BY <1>5, <2>2, SMT
    <3> QED
      BY <1>7, <1>9, <2>2, <3>1, SMT
  <2> QED
    BY <2>1, <2>2, SMT
<1>12. PICK qs : qs = Into(ps, Bytes(n, k))
  OBVIOUS
<1>13. qs \in Seq(Seq(Nat)) /\ Len(qs) = l /\ qs[l] = new /\ \A i \in 1..l : i # l => qs[i] = ps[i]
  <2>1. qs = [ps EXCEPT ![l] = new]
    BY <1>1, <1>2, <1>6, <1>8, <1>12 DEF Into
  <2>2. ps \in Seq(Seq(Nat)) /\ l \in 1..Len(ps)
    BY <1>1, FilledBack, SMT
  <2> QED
    BY <1>1, <2>1, <2>2, ExceptSeq, SMT
<1>14. ASSUME NEW i \in 1..l
       PROVE  /\ Len(qs[i]) <= PacketSize
              /\ i < l => Len(qs[i]) = PacketSize
              /\ \A j \in 1..Len(qs[i]) : qs[i][j] = Off(i) + j
  <2>1. CASE i = l
    <3>1. qs[i] = new /\ Off(i) = o /\ ~(i < l) /\ Len(new) = m + k
      BY <1>4, <1>9, <1>13, <2>1, SMT
    <3>2. \A j \in 1..Len(new) : new[j] = o + j
      BY <1>9, <1>11
    <3> QED
      BY <1>5, <3>1, <3>2
  <2>2. CASE i # l
    BY <1>1, <1>13, <2>2 DEF Filled
  <2> QED
    BY <2>1, <2>2
<1>15. n + k \in Nat /\ n + k = Off(Len(qs)) + Len(qs[Len(qs)])
  <2>1. Len(qs) = l /\ qs[Len(qs)] = new /\ Len(new) = m + k /\ Off(Len(qs)) = o
    BY <1>4, <1>9, <1>13
  <2>2. n + k \in Nat /\ n + k = o + (m + k)
    BY <1>5, SMT
  <2> QED
    BY <2>1, <2>2
<1>16. Filled(qs, n + k)
  BY <1>13, <1>14, <1>15 DEF Filled
<1> QED
  BY <1>12, <1>16

LEMMA FilledNew ==
  ASSUME NEW ps, NEW n, Filled(ps, n), Left(ps) = 0
  PROVE  Filled(Append(ps, <<>>), n) /\ Left(Append(ps, <<>>)) = PacketSize
<1>1. PICK l \in Nat \ {0} : l = Len(ps)
  BY FilledBack
<1>2. ps \in Seq(Seq(Nat)) /\ n \in Nat /\ PacketSize \in Nat /\ Len(ps[l]) = PacketSize /\ n = Off(l + 1)
  <2>1. PICK P \in Nat : P = PacketSize
    BY Offsets
  <2>2. PICK m \in Nat : m = Len(ps[l])
    BY <1>1, FilledBack
  <2>3. PICK o \in Nat : o = Off(l) /\ Off(l + 1) = o + P
    BY <2>1, Offsets
  <2>4. ps \in Seq(Seq(Nat)) /\ n \in Nat /\ n = o + m /\ 0 + m = P
    BY <1>1, <2>1, <2>2, <2>3, FilledBack
  <2>5. m = P
    BY <2>4, SMT
  <2> QED
    BY <2>1, <2>2, <2>3, <2>4, <2>5
<1>3. PICK qs : qs = Append(ps, <<>>)
  OBVIOUS
<1>4. qs \in Seq(Seq(Nat)) /\ Len(qs) = l + 1 /\ qs[l + 1] = <<>> /\ \A i \in 1..l : qs[i] = ps[i]
  <2>1. <<>> \in Seq(Nat)
    BY EmptySeq
  <2> QED
    BY <1>1, <1>2, <1>3, <2>1, AppendProperties, SMT
<1>5. Len(<<>>) = 0
  BY EmptySeq
<1>6. ASSUME NEW i \in 1..(l + 1)
      PROVE  /\ Len(qs[i]) <= PacketSize
             /\ i < l + 1 => Len(qs[i]) = PacketSize
             /\ \A j \in 1..Len(qs[i]) : qs[i][j] = Off(i) + j
  <2>1. CASE i = l + 1
    BY <1>2, <1>4, <1>5, <2>1, SMTT(30)
  <2>2. CASE i # l + 1
    <3>1. i \in 1..Len(ps) /\ qs[i] = ps[i] /\ (i < Len(ps) \/ i = l)
      BY <1>1, <1>4, <2>2, SMTT(30)
    <3>2. Len(ps[i]) = PacketSize /\ \A j \in 1..Len(ps[i]) : ps[i][j] = Off(i) + j
      BY <1>2, <3>1 DEF Filled
    <3> QED
      BY <1>2, <3>1, <3>2, SMT
  <2> QED
    BY <2>1, <2>2
<1>7. n = Off(Len(qs)) + Len(qs[Len(qs)]) /\ Len(qs) \in Nat \ {0}
  BY <1>2, <1>4, <1>5, SMTT(30)
<1>8. Filled(qs, n)
  BY <1>2, <1>4, <1>6, <1>7, SMTT(30) DEF Filled
<1>9. Left(qs) = PacketSize
  BY <1>2, <1>4, <1>5, SMT DEF Left, Back
<1> QED
  BY <1>3, <1>8, <1>9

LEMMA FilledValue ==
  ASSUME NEW n \in Nat, n <= PacketSize, Filled(parts, total)
  PROVE  Filled(PutValue(n), total + n)
<1>1. PICK left \in Nat : left = Left(parts)
  BY FilledBack
<1>2. total \in Nat
  BY FilledBack
<1>3. CASE left >= n
  BY <1>1, <1>3, FilledInto DEF PutValue
<1>4. CASE ~(left >= n)
  <2>1. PICK ps : ps = Into(parts, Bytes(total, left))
    OBVIOUS
  <2>2. Filled(ps, total + left)
    BY <1>1, <2>1, FilledInto, SMT
  <2>3. Len(ps) = Len(parts)
    <3>1. parts \in Seq(Seq(Nat)) /\ Len(parts) \in 1..Len(parts) /\ Back(parts) \in Seq(Nat)
      BY FilledBack, SMT
    <3>2. PICK e \in Seq(Nat) : e = Back(parts) \o Bytes(total, left)
      BY <1>2, <3>1, BytesSeq, ConcatProperties
    <3>3. ps = [parts EXCEPT ![Len(parts)] = e]
      BY <2>1, <3>2 DEF Into
    <3> QED
      BY <3>1, <3>2, <3>3, ExceptSeq, SMT
  <2>4. Left(ps) = 0
    <3>1. PICK o \in Nat : o = Off(Len(parts))
      BY FilledBack, Offsets
    <3>2. total = o + Len(Back(parts)) /\ left + Len(Back(parts)) = PacketSize /\ Len(Back(parts)) \in Nat
      BY <1>1, <3>1, FilledBack
    <3>3. total + left = o + Len(Back(ps)) /\ Left(ps) + Len(Back(ps)) = PacketSize
          /\ Len(Back(ps)) \in Nat /\ Left(ps) \in Nat
      BY <2>2, <2>3, <3>1, FilledBack
    <3> QED
      BY <1>2, <3>2, <3>3, Offsets, SMT
  <2>5. Filled(Append(ps, <<>>), total + left) /\ Left(Append(ps, <<>>)) = PacketSize
    BY <2>2, <2>4, FilledNew
  <2>6. PICK k \in Nat : k = n - left /\ k <= PacketSize /\ (total + left) + k = total + n
    BY <1>2, <1>4, Offsets, SMT
  <2>7. PICK b \in Seq(Nat) : b = Bytes(total + left, k)
    <3>1. total + left \in Nat
      BY <1>2, SMT
    <3> QED
      BY <3>1, BytesSeq
  <2>8. Filled(Into(Append(ps, <<>>), b), total + n)
    BY <2>5, <2>6, <2>7, FilledInto
  <2>9. Into(Append(ps, <<>>), b) = Append(ps, b)
    <3>1. ps \in Seq(Seq(Nat)) /\ Len(ps) \in Nat /\ <<>> \in Seq(Nat) /\ <<>> \o b = b
      BY <2>2, FilledBack, EmptySeq, ConcatEmptySeq
    <3>2. PICK rs \in Seq(Seq(Nat)) : rs = Append(ps, <<>>)
      BY <3>1, AppendProperties
    <3>3. Len(rs) = Len(ps) + 1 /\ (\A i \in 1..Len(ps) : rs[i] = ps[i]) /\ rs[Len(ps) + 1] = <<>>
      BY <3>1, <3>2, AppendProperties, SMT
    <3>4. Into(rs, b) = [rs EXCEPT ![Len(rs)] = b]
      BY <3>1, <3>3 DEF Into, Back
    <3>5. PICK ss \in Seq(Seq(Nat)) : ss = Into(rs, b)
      <4>1. Len(rs) \in 1..Len(rs)
        BY <3>1, <3>3, SMT
      <4> QED
        BY <3>2, <3>4, <4>1, ExceptSeq
    <3>6. Len(ss) = Len(ps) + 1 /\ \A i \in 1..(Len(ps) + 1) : ss[i] = IF i = Len(ps) + 1 THEN b ELSE rs[i]
      BY <3>1, <3>3, <3>4, <3>5, ExceptSeq, SMT
    <3>7. PICK as \in Seq(Seq(Nat)) : as = Append(ps, b)
      BY <3>1, AppendProperties
    <3>8. Len(as) = Len(ps) + 1 /\ (\A i \in 1..Len(ps) : as[i] = ps[i]) /\ as[Len(ps) + 1] = b
      BY <3>1, <3>7, AppendProperties, SMT
    <3>9. ASSUME NEW i \in 1..Len(ss) PROVE ss[i] = as[i]
      <4>1. CASE i = Len(ps) + 1
        BY <3>6, <3>8, <4>1
      <4>2. CASE i # Len(ps) + 1
        <5>1. i \in 1..Len(ps) /\ i \in 1..(Len(ps) + 1)
          BY <3>1, <3>6, <4>2, SMT
        <5> QED
          BY <3>3, <3>6, <3>8, <4>2, <5>1
      <4> QED
        BY <4>1, <4>2
    <3>10. ss = as
      BY <3>6, <3>8, <3>9, SeqEqual
    <3> QED
      BY <3>2, <3>5, <3>7, <3>10
  <2>10. PutValue(n) = Append(ps, b)
    BY <1>1, <1>4, <2>1, <2>6, <2>7 DEF PutValue
  <2> QED
    BY <2>8, <2>9, <2>10
<1> QED
  BY <1>3, <1>4

(* What the receiver combines from packets that are filled so. *)
LEMMA FilledWhole == Filled(parts, total) => MessageWhole
<1> SUFFICES ASSUME Filled(parts, total) PROVE Combined = Bytes(0, total)
  BY DEF MessageWhole
<1>1. PICK l \in Nat \ {0} : l = Len(parts)
  BY FilledBack
<1>2. PICK P \in Nat \ {0} : P = PacketSize
  BY Offsets
<1>3. PICK m \in Nat : m = Len(parts[l]) /\ m <= P
  BY <1>1, <1>2, FilledBack, SMT DEF Filled
<1>4. PICK o \in Nat : o = Off(l)
  BY Offsets
<1>5. total \in Nat /\ total = o + m
  BY <1>1, <1>3, <1>4, FilledBack
<1>6. TotalSize = total
  BY <1>1, <1>3, <1>4, <1>5 DEF TotalSize, SizeSent, Off
<1>7. ASSUME NEW k \in 1..total
      PROVE  Data(((k - 1) \div PacketSize) + 1)[((k - 1) % PacketSize) + 1] = k
  <2>1. k - 1 \in Nat
    BY <1>5, SMT
  <2>2. PICK q \in Nat : q = (k - 1) \div P
    BY <1>2, <2>1, Quotient
  <2>3. PICK r \in 0..(P - 1) : r = (k - 1) % P
    BY <1>2, <2>1, Quotient
  <2>4. k - 1 = Off(q + 1) + r
    <3>1. (q + 1) - 1 = q
      BY SMT
    <3> QED
      BY <1>2, <2>1, <2>2, <2>3, <3>1, Quotient, SMT DEF Off
  <2>5. PICK f \in Nat : f = Off(q + 1)
    BY Offsets, SMT
  <2>6. q + 1 <= l
    <3> SUFFICES ASSUME l < q + 1 PROVE FALSE
      BY SMT
    <3>1. o + P <= f
      BY <1>2, <1>4, <2>5, Offsets, SMT
    <3> QED
      BY <1>2, <1>3, <1>5, <2>3, <2>4, <2>5, <3>1, SMT
  <2>7. q + 1 \in 1..l /\ r + 1 \in 1..P
    BY <2>3, <2>6, SMT
  <2>8. r + 1 <= Len(parts[q + 1])
    <3>1. CASE q + 1 = l
      <4>1. k - 1 = o + r /\ k <= o + m
        BY <1>4, <1>5, <2>4, <3>1, SMT
      <4>2. r + 1 <= m
        BY <1>5, <2>3, <4>1, SMT
      <4> QED
        BY <1>3, <3>1, <4>2
    <3>2. CASE q + 1 # l
      BY <1>1, <1>2, <2>7, <3>2, SMT DEF Filled
    <3> QED
      BY <3>1, <3>2
  <2>9. Len(parts[q + 1]) \in Nat
    BY <1>1, <2>7, FilledBack, ElementOfSeq, LenProperties
  <2>10. parts[q + 1][r + 1] = f + (r + 1)
    <3>1. q + 1 \in 1..Len(parts) /\ r + 1 \in 1..Len(parts[q + 1])
      BY <1>1, <2>3, <2>7, <2>8, <2>9, SMT
    <3>2. \A j \in 1..Len(parts[q + 1]) : parts[q + 1][j] = Off(q + 1) + j
      BY <3>1 DEF Filled
    <3> QED
      BY <2>5, <3>1, <3>2
  <2>11. Data(q + 1)[r + 1] = parts[q + 1][r + 1]
    BY <1>2, <2>7, <2>8 DEF Data
  <2>12. f + (r + 1) = k
    BY <1>5, <2>3, <2>4, <2>5, SMT
  <2> QED
    BY <1>2, <2>2, <2>3, <2>10, <2>11, <2>12
<1>8. Bytes(0, total) = [k \in 1..total |-> k]
  BY <1>5, SMT DEF Bytes
<1> QED
  BY <1>6, <1>7, <1>8 DEF Combined
(* The packets hold what was written, and insertBytes is finished before   *)
(* the message is sent.                                                    *)
WriteInv ==
  /\ Filled(parts, total)
  /\ size \in Nat
  /\ reading # "none" => size = 0

LEMMA FilledEmpty == Filled(<<<<>>>>, 0)
<1>1. <<>> \in Seq(Nat) /\ Len(<<>>) = 0
  BY EmptySeq
<1>2. PICK e \in Seq(Nat) : e = <<>>
  BY <1>1
<1>3. PICK ps : ps = <<e>>
  OBVIOUS
<1>4. ps \in Seq(Seq(Nat)) /\ Len(ps) = 1 /\ ps[1] = e
  BY <1>3, SMT
<1>5. Off(1) = 0
  BY Offsets, SMT DEF Off
<1>6. ASSUME NEW i \in 1..1
      PROVE  Len(ps[i]) = 0
  BY <1>1, <1>2, <1>4, SMT
<1>7. Len(ps) \in Nat \ {0} /\ 0 = Off(Len(ps)) + Len(ps[Len(ps)])
  BY <1>1, <1>2, <1>4, <1>5, SMT
<1>8. Filled(ps, 0)
  <2>1. ASSUME NEW i \in 1..Len(ps)
        PROVE  /\ Len(ps[i]) <= PacketSize
               /\ i < Len(ps) => Len(ps[i]) = PacketSize
               /\ \A j \in 1..Len(ps[i]) : ps[i][j] = Off(i) + j
    <3>1. Len(ps[i]) = 0 /\ ~(i < Len(ps))
      BY <1>4, <1>6, SMT
    <3>2. PacketSize \in Nat
      BY Offsets
    <3> QED
      BY <3>1, <3>2, SMT
  <2> QED
    BY <1>4, <1>7, <2>1 DEF Filled
<1> QED
  BY <1>2, <1>3, <1>8

LEMMA WriteStart ==
  ASSUME PackInit
  PROVE  WriteInv
BY FilledEmpty DEF PackInit, WriteInv

LEMMA InsertBytesFilled ==
  ASSUME WriteInv, InsertBytes
  PROVE  WriteInv'
<1>1. PICK ps : ps = IF Left(parts) = 0 THEN Append(parts, <<>>) ELSE parts
  OBVIOUS
<1>2. Filled(ps, total)
  <2>1. CASE Left(parts) = 0
    BY <1>1, <2>1, FilledNew DEF WriteInv
  <2>2. CASE Left(parts) # 0
    BY <1>1, <2>2 DEF WriteInv
  <2> QED
    BY <2>1, <2>2
<1>3. Left(ps) \in Nat /\ size \in Nat /\ total \in Nat
  BY <1>2, FilledBack DEF WriteInv
<1>4. PICK k \in Nat : k = IF Left(ps) < size THEN Left(ps) ELSE size
  BY <1>3
<1>5. k <= Left(ps) /\ size - k \in Nat
  BY <1>3, <1>4, SMT
<1>6. parts' = Into(ps, Bytes(total, k)) /\ total' = total + k /\ size' = size - k /\ size > 0 /\ reading' = reading
  BY <1>1, <1>4 DEF InsertBytes, readVars
<1>7. Filled(parts', total')
  BY <1>2, <1>5, <1>6, FilledInto
<1> QED
  BY <1>5, <1>6, <1>7, SMT DEF WriteInv

LEMMA WriteStep ==
  ASSUME WriteInv, [PackNext]_packVars
  PROVE  WriteInv'
<1>1. CASE Restart
  BY <1>1, FilledEmpty DEF Restart, WriteInv
<1>2. ASSUME NEW n \in {WordSize, VectorSize}, Put(n) PROVE WriteInv'
  <2>1. n \in Nat /\ n <= PacketSize
    BY PackAssumption
  <2>2. Filled(parts', total')
    BY <1>2, <2>1, FilledValue DEF WriteInv, Put
  <2> QED
    BY <1>2, <2>2 DEF WriteInv, Put, readVars
<1>3. ASSUME NEW n \in Chunks \cup {HashLength}, Insert(n) PROVE WriteInv'
  BY <1>3, PackAssumption DEF WriteInv, Insert, readVars
<1>4. CASE InsertBytes
  BY <1>4, InsertBytesFilled
<1>5. ASSUME NEW c, NEW first, Deliver(c, first) PROVE WriteInv'
  BY <1>5 DEF WriteInv, Deliver, writeVars
<1>6. ASSUME Read PROVE WriteInv'
  <2>1. UNCHANGED writeVars /\ reading # "none"
    BY <1>6 DEF Read, ReadHash, ReadVector, ReadRound, ReadMain, ReadConfidant, NoConfidantLeft, EndRoundData,
      ReadAddress, NoAddressLeft, EndWhole, ReadTransaction, NoTransactionLeft, Goes
  <2> QED
    BY <2>1 DEF WriteInv, writeVars
<1>7. CASE UNCHANGED packVars
  BY <1>7 DEF WriteInv, packVars, writeVars, readVars
<1> QED
  BY <1>1, <1>2, <1>3, <1>4, <1>5, <1>6, <1>7 DEF PackNext

(* Whatever sizes the fields have and wherever a packet ends, what is      *)
(* combined from the packets of OPackStream is what was written.           *)
THEOREM MessageWholeAlways == PackSpec => []MessageWhole
<1>1. WriteInv => MessageWhole
  BY FilledWhole DEF WriteInv
<1>2. PackInit => WriteInv
  BY WriteStart
<1>3. WriteInv /\ [PackNext]_packVars => WriteInv'
  BY WriteStep
<1> QED
  BY <1>1, <1>2, <1>3, PTL DEF PackSpec
-----------------------------------------------------------------------------
(* The place behind w words, and a message of enough whole words. *)
Word(w) == w * WordSize
Enough == \E v \in Nat : v >= 2 + CONFIDANTS /\ total = Word(v)

LEMMA WordsAre ==
  /\ WordSize \in Nat \ {0} /\ CONFIDANTS \in Nat \ {0} /\ Word(0) = 0
  /\ \A w \in Nat : Word(w) \in Nat /\ Word(w + 1) = Word(w) + WordSize
  /\ \A w, v \in Nat : w < v => Word(w) + WordSize <= Word(v)
<1>1. WordSize \in Nat \ {0} /\ CONFIDANTS \in Nat \ {0}
  BY PackAssumption
<1>2. Word(0) = 0
  BY <1>1, SMT DEF Word
<1>3. ASSUME NEW w \in Nat PROVE Word(w) \in Nat /\ Word(w + 1) = Word(w) + WordSize
  BY <1>1, Product DEF Word
<1>4. ASSUME NEW w \in Nat, NEW v \in Nat, w < v PROVE Word(w) + WordSize <= Word(v)
  BY <1>1, <1>4, ProductLess DEF Word
<1> QED
  BY <1>1, <1>2, <1>3, <1>4

LEMMA WordsOrder ==
  ASSUME NEW w \in Nat, NEW v \in Nat
  PROVE  /\ Word(w) < Word(v) => w < v
         /\ w < v => Word(w) < Word(v)
         /\ Word(w) = Word(v) => w = v
         /\ w <= Word(w)
<1>1. PICK s \in Nat \ {0} : s = WordSize
  BY WordsAre
<1>2. PICK a \in Nat : a = Word(w)
  BY WordsAre
<1>3. PICK b \in Nat : b = Word(v)
  BY WordsAre
<1>4. w < v => a + s <= b
  BY <1>1, <1>2, <1>3, WordsAre
<1>5. v < w => b + s <= a
  BY <1>1, <1>2, <1>3, WordsAre
<1>6. w <= w * s
  BY SMT
<1>7. w <= a
  BY <1>1, <1>2, <1>6 DEF Word
<1> QED
  BY <1>2, <1>3, <1>4, <1>5, <1>7, SMT

(* What the handlers of round tables know after w words. *)
AtWord(w) ==
  /\ command \in {"table", "ring"} /\ count \in 0..CONFIDANTS
  /\ good_ => ptr_ = Word(w)
  /\ Enough => good_ /\ ptr_ <= total

ReadInv ==
  /\ total \in Nat /\ ptr_ \in Nat /\ good_ \in BOOLEAN /\ acted \in BOOLEAN
  /\ reading \in {"none", "hash", "vector", "round", "main", "confidants", "table", "ring", "whole", "transactions", "done"}
  /\ reading = "hash" => command = "hash" /\ good_ /\ ptr_ = 0
  /\ reading = "vector" => command = "vector" /\ good_ /\ ptr_ = 0
  /\ reading = "transactions" => command = "transactions" /\ good_
  /\ reading = "round" => AtWord(0) /\ count = 0
  /\ reading = "main" => AtWord(1) /\ count = 0
  /\ reading = "confidants" => AtWord(2 + count) /\ (count = CONFIDANTS => ptr_ = total)
  /\ reading = "table" => /\ AtWord(2 + count) /\ (Enough => count = CONFIDANTS)
                          /\ command = "table" => ~More
  /\ reading = "ring" => /\ command = "ring" /\ (Enough => good_ /\ ptr_ <= total)
                         /\ good_ => \E w \in Nat : w >= 2 + CONFIDANTS /\ ptr_ = Word(w)
  /\ reading = "whole" =>
       \/ command = "hash" /\ (good_ <=> total >= HashLength) /\ (good_ => ptr_ = HashLength)
       \/ command = "vector" /\ (good_ <=> total > 0) /\ (good_ => ptr_ = VectorSize)
       \/ /\ command = "ring" /\ ~More /\ (Enough => good_ /\ ptr_ <= total)
          /\ good_ => \E w \in Nat : w >= 2 + CONFIDANTS /\ ptr_ = Word(w)
  /\ reading # "done" => ~acted
  /\ ActsOnWhole

LEMMA FitsIs ==
  /\ command = "hash" => (Fits <=> total = HashLength)
  /\ command = "vector" => (Fits <=> total = VectorSize)
  /\ command = "transactions" => Fits
  /\ command = "table" => (Fits <=> total = Word(2 + CONFIDANTS))
  /\ command = "ring" => (Fits <=> \E w \in 0..total : total = Word(2 + CONFIDANTS + w))
BY DEF Fits, Word

LEMMA FitsEnough ==
  ASSUME total \in Nat
  PROVE  /\ command = "ring" => (Fits <=> Enough)
         /\ command = "table" => (Fits => Enough)
<1>1. PICK c \in Nat : c = 2 + CONFIDANTS
  BY WordsAre, SMT
<1>2. command = "table" => (Fits => Enough)
  BY <1>1, FitsIs, SMT DEF Enough
<1>3. ASSUME command = "ring", Fits PROVE Enough
  <2>1. PICK w \in 0..total : total = Word(c + w)
    BY <1>1, <1>3, FitsIs
  <2>2. c + w \in Nat /\ c + w >= c
    BY <2>1, SMT
  <2> QED
    BY <1>1, <2>1, <2>2 DEF Enough
<1>4. ASSUME command = "ring", Enough PROVE Fits
  <2>1. PICK v \in Nat : v >= c /\ total = Word(v)
    BY <1>1, <1>4 DEF Enough
  <2>2. v <= total
    BY <2>1, WordsOrder
  <2>3. v - c \in 0..total /\ c + (v - c) = v
    BY <2>1, <2>2, SMT
  <2>4. \E w \in 0..total : total = Word(c + w)
    BY <2>1, <2>3
  <2> QED
    BY <1>1, <1>4, <2>4, FitsIs
<1> QED
  BY <1>2, <1>3, <1>4

(* One word more is read. A message of whole words is never left. *)
LEMMA NextWord ==
  ASSUME NEW w \in Nat, total \in Nat, ptr_ \in Nat, good_ \in BOOLEAN, good_ => ptr_ = Word(w),
         Enough => good_ /\ ptr_ < total, ReadValue(WordSize), total' = total
  PROVE  /\ ptr_' \in Nat /\ good_' \in BOOLEAN
         /\ good_' => good_ /\ ptr_' = Word(w + 1)
         /\ Enough' => good_' /\ ptr_' <= total'
<1>1. PICK s \in Nat \ {0} : s = WordSize
  BY WordsAre
<1>2. Enough' <=> Enough
  BY DEF Enough
<1>3. CASE ptr_ >= total /\ ptr_ - total < s
  <2>1. good_' = FALSE /\ ptr_' = ptr_
    BY <1>1, <1>3 DEF ReadValue
  <2>2. ~Enough
    BY <1>3, SMT
  <2> QED
    BY <1>2, <2>1, <2>2
<1>4. CASE ~(ptr_ >= total /\ ptr_ - total < s)
  <2>1. good_' = good_ /\ ptr_' = ptr_ + s
    BY <1>1, <1>4 DEF ReadValue
  <2>2. good_ => ptr_' = Word(w + 1)
    BY <1>1, <2>1, WordsAre
  <2>3. ASSUME Enough PROVE ptr_' <= total
    <3>1. PICK v \in Nat : total = Word(v)
      BY <2>3 DEF Enough
    <3>2. ptr_ = Word(w) /\ Word(w) < Word(v)
      BY <2>3, <3>1
    <3>3. Word(w) + s <= Word(v)
      BY <1>1, <3>2, WordsAre, WordsOrder
    <3> QED
      BY <2>1, <3>1, <3>2, <3>3
  <2> QED
    BY <1>2, <2>1, <2>2, <2>3, SMT
<1> QED
  BY <1>3, <1>4
(* More than w words are in a message of enough words, w below that. *)
LEMMA StillWords ==
  ASSUME NEW w \in Nat, w < 2 + CONFIDANTS, total \in Nat, good_ => ptr_ = Word(w), Enough => good_
  PROVE  Enough => good_ /\ ptr_ < total
<1> SUFFICES ASSUME Enough PROVE ptr_ < total
  OBVIOUS
<1>1. PICK v \in Nat : v >= 2 + CONFIDANTS /\ total = Word(v)
  BY DEF Enough
<1>2. w < v
  BY <1>1, WordsAre, SMT
<1> QED
  BY <1>1, <1>2, WordsOrder, SMT

LEMMA ReadFirst ==
  ASSUME ReadInv, ReadHash \/ ReadVector
  PROVE  ReadInv'
<1>1. total' = total /\ command' = command /\ reading' = "whole" /\ acted' = acted /\ count' = count
  BY DEF ReadHash, ReadVector, Goes, writeVars
<1>2. total \in Nat /\ acted \in BOOLEAN /\ HashLength \in Nat \ {0} /\ VectorSize \in Nat \ {0} /\ ~acted
  BY PackAssumption DEF ReadInv, ReadHash, ReadVector, Goes
<1>3. CASE ReadHash
  <2>1. command = "hash" /\ good_ = TRUE /\ ptr_ = 0 /\ ReadFixed(HashLength)
    BY <1>3 DEF ReadInv, ReadHash, Goes
  <2>2. CASE total < HashLength
    <3>1. ptr_ <= total /\ total - ptr_ < HashLength
      BY <1>2, <2>1, <2>2, SMT
    <3>2. ~good_' /\ good_' \in BOOLEAN /\ ptr_' = 0
      BY <2>1, <3>1 DEF ReadFixed
    <3>3. ~(total >= HashLength)
      BY <1>2, <2>2, SMT
    <3> QED
      BY <1>1, <1>2, <2>1, <3>2, <3>3 DEF ReadInv, ActsOnWhole
  <2>3. CASE ~(total < HashLength)
    <3>1. good_' = TRUE /\ ptr_' = HashLength
      BY <1>2, <2>1, <2>3, SMT DEF ReadFixed
    <3> QED
      BY <1>1, <1>2, <2>1, <2>3, <3>1, SMT DEF ReadInv, ActsOnWhole
  <2> QED
    BY <2>2, <2>3
<1>4. CASE ReadVector
  <2>1. command = "vector" /\ good_ = TRUE /\ ptr_ = 0 /\ ReadValue(VectorSize)
    BY <1>4 DEF ReadInv, ReadVector, Goes
  <2>2. CASE total = 0
    <3>1. ptr_ >= total /\ ptr_ - total < VectorSize
      BY <1>2, <2>1, <2>2, SMT
    <3>2. ~good_' /\ good_' \in BOOLEAN /\ ptr_' = 0
      BY <2>1, <3>1 DEF ReadValue
    <3>3. ~(total > 0)
      BY <2>2, SMT
    <3> QED
      BY <1>1, <1>2, <2>1, <3>2, <3>3 DEF ReadInv, ActsOnWhole
  <2>3. CASE ~(total = 0)
    <3>1. ~(ptr_ >= total) /\ 0 + VectorSize = VectorSize
      BY <1>2, <2>1, <2>3, SMT
    <3>2. good_' = TRUE /\ ptr_' = VectorSize
      BY <2>1, <3>1 DEF ReadValue
    <3> QED
      BY <1>1, <1>2, <2>1, <2>3, <3>2, SMT DEF ReadInv, ActsOnWhole
  <2> QED
    BY <2>2, <2>3
<1> QED
  BY <1>3, <1>4

LEMMA ReadHeader ==
  ASSUME ReadInv, ReadRound \/ ReadMain
  PROVE  ReadInv'
<1>1. total' = total /\ command' = command /\ acted' = acted /\ count' = count /\ ReadValue(WordSize)
  BY DEF ReadRound, ReadMain, Goes, writeVars
<1>2. total \in Nat /\ acted \in BOOLEAN /\ ptr_ \in Nat /\ good_ \in BOOLEAN /\ ~acted
  BY DEF ReadInv, ReadRound, ReadMain, Goes
<1>3. CASE ReadRound
  <2>1. AtWord(0) /\ count = 0 /\ reading' = "main"
    BY <1>3 DEF ReadInv, ReadRound, Goes
  <2>2. Enough => good_ /\ ptr_ < total
    BY <1>2, <2>1, StillWords, WordsAre, SMT DEF AtWord
  <2>3. ptr_' \in Nat /\ good_' \in BOOLEAN /\ (good_' => ptr_' = Word(0 + 1)) /\ (Enough' => good_' /\ ptr_' <= total')
    BY <1>1, <1>2, <2>1, <2>2, NextWord DEF AtWord
  <2>4. AtWord(1)'
    BY <1>1, <2>1, <2>3, SMT DEF AtWord
  <2> QED
    BY <1>1, <1>2, <2>1, <2>3, <2>4 DEF ReadInv, ActsOnWhole
<1>4. CASE ReadMain
  <2>1. AtWord(1) /\ count = 0 /\ reading' = "confidants"
    BY <1>4 DEF ReadInv, ReadMain, Goes
  <2>2. Enough => good_ /\ ptr_ < total
    BY <1>2, <2>1, StillWords, WordsAre, SMT DEF AtWord
  <2>3. ptr_' \in Nat /\ good_' \in BOOLEAN /\ (good_' => ptr_' = Word(1 + 1)) /\ (Enough' => good_' /\ ptr_' <= total')
    BY <1>1, <1>2, <2>1, <2>2, NextWord DEF AtWord
  <2>4. 1 + 1 = 2 + count' /\ count' # CONFIDANTS
    BY <1>1, <2>1, WordsAre, SMT
  <2>5. AtWord(2 + count)'
    BY <1>1, <2>1, <2>3, <2>4 DEF AtWord
  <2> QED
    BY <1>1, <1>2, <2>1, <2>3, <2>4, <2>5 DEF ReadInv, ActsOnWhole
<1> QED
  BY <1>3, <1>4

LEMMA ReadConfidants ==
  ASSUME ReadInv, ReadConfidant
  PROVE  ReadInv'
<1>1. total' = total /\ command' = command /\ acted' = acted /\ count' = count + 1 /\ ReadValue(WordSize) /\ More
      /\ reading = "confidants"
  BY DEF ReadConfidant, Goes, writeVars
<1>2. total \in Nat /\ acted \in BOOLEAN /\ ptr_ \in Nat /\ good_ \in BOOLEAN
      /\ AtWord(2 + count) /\ (count = CONFIDANTS => ptr_ = total)
  BY <1>1 DEF ReadInv
<1>3. PICK C \in Nat \ {0} : C = CONFIDANTS
  BY WordsAre
<1>4. PICK c \in Nat : c = count /\ c < C /\ good_
  BY <1>1, <1>2, <1>3, SMT DEF AtWord, More, AtEnd
<1>5. PICK w \in Nat : w = 2 + count /\ w < 2 + CONFIDANTS /\ w + 1 = 2 + count'
  BY <1>1, <1>3, <1>4, SMT
<1>6. Enough => good_ /\ ptr_ < total
  BY <1>2, <1>5, StillWords DEF AtWord
<1>7. ptr_' \in Nat /\ good_' \in BOOLEAN /\ (good_' => ptr_' = Word(w + 1)) /\ (Enough' => good_' /\ ptr_' <= total')
  BY <1>1, <1>2, <1>5, <1>6, NextWord DEF AtWord
<1>8. AtWord(2 + count)'
  BY <1>1, <1>2, <1>3, <1>4, <1>5, <1>7, SMT DEF AtWord
<1>9. CASE count + 1 # CONFIDANTS \/ ptr_' = total
  <2>1. reading' = "confidants"
    BY <1>9 DEF ReadConfidant, Goes
  <2> QED
    BY <1>1, <1>2, <1>7, <1>8, <1>9, <2>1 DEF ReadInv, ActsOnWhole
<1>10. CASE ~(count + 1 # CONFIDANTS \/ ptr_' = total)
  <2>1. count' = CONFIDANTS /\ ptr_' # total'
    BY <1>1, <1>10
  <2>2. CASE command = "ring"
    <3>1. reading' = "table"
      BY <1>10, <2>2 DEF ReadConfidant, Goes
    <3> QED
      BY <1>1, <1>2, <1>7, <1>8, <2>1, <2>2, <3>1 DEF ReadInv, ActsOnWhole
  <2>3. CASE command = "table"
    <3>1. reading' = "done"
      BY <1>10, <2>3 DEF ReadConfidant, Goes
    <3>2. ~Fits'
      <4> SUFFICES ASSUME Fits' PROVE FALSE
        OBVIOUS
      <4>1. Fits /\ total = Word(2 + CONFIDANTS)
        BY <1>1, <2>3, FitsIs DEF Fits
      <4>2. Enough'
        BY <1>1, <1>2, <2>3, <4>1, FitsEnough DEF Enough
      <4>3. good_' /\ ptr_' = Word(2 + CONFIDANTS)
        BY <1>5, <1>7, <2>1, <4>2
      <4> QED
        BY <1>1, <2>1, <4>1, <4>3
    <3>3. ~acted
      BY <1>1, <1>2 DEF ReadInv
    <3> QED
      BY <1>1, <1>2, <1>7, <3>1, <3>2, <3>3 DEF ReadInv, ActsOnWhole
  <2> QED
    BY <1>2, <2>2, <2>3 DEF AtWord
<1> QED
  BY <1>9, <1>10
LEMMA EndConfidants ==
  ASSUME ReadInv, NoConfidantLeft
  PROVE  ReadInv'
<1>1. total' = total /\ command' = command /\ acted' = acted /\ count' = count /\ ptr_' = ptr_ /\ good_' = good_
      /\ ~More /\ reading = "confidants" /\ reading' = "table"
  BY DEF NoConfidantLeft, Goes, writeVars, Unread
<1>2. total \in Nat /\ acted \in BOOLEAN /\ ptr_ \in Nat /\ good_ \in BOOLEAN /\ AtWord(2 + count) /\ ~acted
  BY <1>1 DEF ReadInv
<1>3. PICK C \in Nat \ {0} : C = CONFIDANTS
  BY WordsAre
<1>4. PICK c \in Nat : c = count /\ c <= C
  BY <1>2, <1>3, SMT DEF AtWord
<1>5. ASSUME Enough PROVE count = CONFIDANTS
  <2>1. PICK v \in Nat : v >= 2 + CONFIDANTS /\ total = Word(v)
    BY <1>5 DEF Enough
  <2>2. good_ /\ ptr_ = Word(2 + c) /\ ptr_ = total
    BY <1>1, <1>2, <1>4, <1>5 DEF AtWord, More, AtEnd
  <2>3. v = 2 + c
    BY <2>1, <2>2, WordsOrder, SMT
  <2> QED
    BY <1>3, <1>4, <2>1, <2>3, SMT
<1>6. AtWord(2 + count)' /\ (Enough' => Enough) /\ ~More'
  BY <1>1, <1>2 DEF AtWord, Enough, More, AtEnd
<1> QED
  BY <1>1, <1>2, <1>5, <1>6 DEF ReadInv, ActsOnWhole

LEMMA EndOfRoundData ==
  ASSUME ReadInv, EndRoundData
  PROVE  ReadInv'
<1>1. total' = total /\ command' = command /\ count' = count /\ ptr_' = ptr_ /\ good_' = good_ /\ reading = "table"
      /\ reading' = (IF (good_ /\ count >= CONFIDANTS) /\ command = "ring" THEN "ring" ELSE "done")
      /\ acted' = ((good_ /\ count >= CONFIDANTS) /\ command = "table")
  BY DEF EndRoundData, Goes, writeVars, Unread
<1>2. total \in Nat /\ ptr_ \in Nat /\ good_ \in BOOLEAN /\ AtWord(2 + count) /\ (Enough => count = CONFIDANTS)
      /\ (command = "table" => ~More)
  BY <1>1 DEF ReadInv
<1>3. PICK C \in Nat \ {0} : C = CONFIDANTS
  BY WordsAre
<1>4. PICK c \in Nat : c = count /\ c <= C /\ (count >= CONFIDANTS <=> c = C)
  BY <1>2, <1>3, SMT DEF AtWord
<1>5. (Enough' <=> Enough) /\ (Enough => good_ /\ count >= CONFIDANTS)
  BY <1>1, <1>2, <1>3, <1>4 DEF AtWord, Enough
<1>6. CASE command = "ring" /\ good_ /\ count >= CONFIDANTS
  <2>1. reading' = "ring" /\ ~acted' /\ acted' \in BOOLEAN
    BY <1>1, <1>6
  <2>2. 2 + c \in Nat /\ 2 + c >= 2 + CONFIDANTS /\ ptr_ = Word(2 + c)
    BY <1>2, <1>3, <1>4, <1>6, SMT DEF AtWord
  <2>3. Enough' => good_' /\ ptr_' <= total'
    BY <1>1, <1>2, <1>5 DEF AtWord
  <2> QED
    BY <1>1, <1>2, <1>6, <2>1, <2>2, <2>3 DEF ReadInv, ActsOnWhole
<1>7. CASE command = "ring" /\ ~(good_ /\ count >= CONFIDANTS)
  <2>1. reading' = "done" /\ ~acted' /\ acted' \in BOOLEAN
    BY <1>1, <1>7
  <2>2. ~Fits'
    BY <1>1, <1>2, <1>5, <1>7, FitsEnough DEF Fits
  <2> QED
    BY <1>1, <1>2, <2>1, <2>2 DEF ReadInv, ActsOnWhole
<1>8. CASE command = "table"
  <2>1. reading' = "done" /\ (acted' <=> good_ /\ count >= CONFIDANTS) /\ acted' \in BOOLEAN
    BY <1>1, <1>8
  <2>2. Fits => Enough
    BY <1>2, <1>8, FitsEnough
  <2>3. ASSUME good_, count >= CONFIDANTS PROVE Fits /\ ptr_ = total
    <3>1. ptr_ = total
      BY <1>2, <1>8, <2>3 DEF More, AtEnd
    <3>2. ptr_ = Word(2 + CONFIDANTS)
      BY <1>2, <1>3, <1>4, <2>3 DEF AtWord
    <3> QED
      BY <1>8, <3>1, <3>2, FitsIs
  <2>4. Fits' <=> Fits
    BY <1>1 DEF Fits
  <2> QED
    BY <1>1, <1>2, <1>5, <2>1, <2>2, <2>3, <2>4 DEF ReadInv, ActsOnWhole
<1> QED
  BY <1>2, <1>6, <1>7, <1>8 DEF AtWord

LEMMA ReadAddresses ==
  ASSUME ReadInv, ReadAddress \/ NoAddressLeft
  PROVE  ReadInv'
<1>1. total' = total /\ command' = command /\ acted' = acted /\ reading = "ring"
  BY DEF ReadAddress, NoAddressLeft, Goes, writeVars
<1>2. total \in Nat /\ acted \in BOOLEAN /\ ptr_ \in Nat /\ good_ \in BOOLEAN /\ ~acted
      /\ command = "ring" /\ (Enough => good_ /\ ptr_ <= total)
      /\ (good_ => \E w \in Nat : w >= 2 + CONFIDANTS /\ ptr_ = Word(w))
  BY <1>1 DEF ReadInv
<1>3. CASE ReadAddress
  <2>1. good_ /\ ptr_ # total /\ reading' = "ring" /\ ReadValue(WordSize)
    BY <1>3 DEF ReadAddress, More, AtEnd, Goes
  <2>2. PICK w \in Nat : w >= 2 + CONFIDANTS /\ ptr_ = Word(w)
    BY <1>2, <2>1
  <2>3. Enough => good_ /\ ptr_ < total
    BY <1>2, <2>1, SMT
  <2>4. ptr_' \in Nat /\ good_' \in BOOLEAN /\ (good_' => ptr_' = Word(w + 1)) /\ (Enough' => good_' /\ ptr_' <= total')
    BY <1>1, <1>2, <2>1, <2>2, <2>3, NextWord
  <2>5. w + 1 \in Nat /\ w + 1 >= 2 + CONFIDANTS
    BY <2>2, WordsAre, SMT
  <2> QED
    BY <1>1, <1>2, <2>1, <2>4, <2>5 DEF ReadInv, ActsOnWhole
<1>4. CASE NoAddressLeft
  <2>1. ptr_' = ptr_ /\ good_' = good_ /\ reading' = "whole" /\ ~More' /\ (Enough' => Enough)
    BY <1>1, <1>4 DEF NoAddressLeft, Goes, Unread, More, AtEnd, Enough
  <2> QED
    BY <1>1, <1>2, <2>1 DEF ReadInv, ActsOnWhole
<1> QED
  BY <1>3, <1>4

LEMMA EndOfWhole ==
  ASSUME ReadInv, EndWhole
  PROVE  ReadInv'
<1>1. total' = total /\ command' = command /\ ptr_' = ptr_ /\ good_' = good_ /\ reading = "whole" /\ reading' = "done"
      /\ acted' = (good_ /\ ptr_ = total)
  BY DEF EndWhole, Goes, writeVars, Unread, Whole, AtEnd
<1>2. total \in Nat /\ ptr_ \in Nat /\ good_ \in BOOLEAN
  BY <1>1 DEF ReadInv
<1>3. Fits' <=> Fits
  BY <1>1 DEF Fits
<1>4. HashLength \in Nat \ {0} /\ VectorSize \in Nat \ {0}
  BY PackAssumption
<1>5. Fits <=> good_ /\ ptr_ = total
  <2>1. CASE command = "hash" /\ (good_ <=> total >= HashLength) /\ (good_ => ptr_ = HashLength)
    BY <1>2, <1>4, <2>1, FitsIs, SMT
  <2>2. CASE command = "vector" /\ (good_ <=> total > 0) /\ (good_ => ptr_ = VectorSize)
    BY <1>2, <1>4, <2>2, FitsIs, SMT
  <2>3. CASE /\ command = "ring" /\ ~More /\ (Enough => good_ /\ ptr_ <= total)
             /\ good_ => \E w \in Nat : w >= 2 + CONFIDANTS /\ ptr_ = Word(w)
    <3>1. Fits <=> Enough
      BY <1>2, <2>3, FitsEnough
    <3>2. good_ => ptr_ = total
      BY <2>3 DEF More, AtEnd
    <3>3. good_ /\ ptr_ = total => Enough
      BY <2>3 DEF Enough
    <3> QED
      BY <2>3, <3>1, <3>2, <3>3
  <2> QED
    BY <1>1, <2>1, <2>2, <2>3 DEF ReadInv
<1> QED
  BY <1>1, <1>2, <1>3, <1>5 DEF ReadInv, ActsOnWhole

LEMMA ReadTransactions ==
  ASSUME ReadInv, ReadTransaction \/ NoTransactionLeft
  PROVE  ReadInv'
<1>1. total' = total /\ command' = command /\ good_' = good_ /\ reading = "transactions"
  BY DEF ReadTransaction, NoTransactionLeft, Goes, writeVars, Unread
<1>2. total \in Nat /\ ptr_ \in Nat /\ good_ \in BOOLEAN /\ good_ /\ command = "transactions" /\ ~acted /\ acted \in BOOLEAN
  BY <1>1 DEF ReadInv
<1>3. CASE ReadTransaction
  <2>1. ptr_' = total /\ acted' = acted /\ reading' = "transactions"
    BY <1>3 DEF ReadTransaction, Goes
  <2> QED
    BY <1>1, <1>2, <2>1 DEF ReadInv, ActsOnWhole
<1>4. CASE NoTransactionLeft
  <2>1. ptr_' = ptr_ /\ acted' = good_ /\ reading' = "done" /\ ptr_ = total
    BY <1>2, <1>4 DEF NoTransactionLeft, Goes, Unread, More, AtEnd
  <2>2. Fits'
    BY <1>1, <1>2 DEF Fits
  <2> QED
    BY <1>1, <1>2, <2>1, <2>2 DEF ReadInv, ActsOnWhole
<1> QED
  BY <1>3, <1>4

LEMMA DeliverStep ==
  ASSUME NEW c, NEW first, Deliver(c, first), total \in Nat,
         <<c, first>> \in {<<"hash", "hash">>, <<"vector", "vector">>, <<"transactions", "transactions">>,
                           <<"table", "round">>, <<"ring", "round">>}
  PROVE  ReadInv'
<1>1. total' = total /\ command' = c /\ reading' = first /\ ptr_' = 0 /\ good_' /\ good_' \in BOOLEAN /\ count' = 0
      /\ ~acted' /\ acted' \in BOOLEAN
  BY DEF Deliver, writeVars
<1>2. CASE first # "round"
  BY <1>1, <1>2 DEF ReadInv, ActsOnWhole
<1>3. CASE first = "round"
  <2>1. AtWord(0)'
    BY <1>1, <1>3, WordsAre, SMT DEF AtWord
  <2> QED
    BY <1>1, <1>3, <2>1 DEF ReadInv, ActsOnWhole
<1> QED
  BY <1>2, <1>3

LEMMA ReadStep ==
  ASSUME WriteInv, ReadInv, [PackNext]_packVars
  PROVE  ReadInv'
<1>1. WriteInv' /\ total' \in Nat /\ total \in Nat
  BY WriteStep, FilledBack DEF WriteInv
<1>2. CASE Restart
  BY <1>1, <1>2 DEF Restart, ReadInv, ActsOnWhole
<1>3. ASSUME \/ \E n \in {WordSize, VectorSize} : Put(n)
             \/ \E n \in Chunks \cup {HashLength} : Insert(n)
             \/ InsertBytes
      PROVE  ReadInv'
  <2>1. reading = "none" /\ UNCHANGED readVars
    BY <1>3, SMT DEF Put, Insert, InsertBytes, WriteInv
  <2> QED
    BY <1>1, <2>1 DEF ReadInv, ActsOnWhole, readVars
<1>4. CASE \/ Deliver("hash", "hash") \/ Deliver("vector", "vector") \/ Deliver("transactions", "transactions")
           \/ Deliver("table", "round") \/ Deliver("ring", "round")
  BY <1>1, <1>4, DeliverStep
<1>5. CASE Read
  BY <1>5, ReadFirst, ReadHeader, ReadConfidants, EndConfidants, EndOfRoundData, ReadAddresses, EndOfWhole,
    ReadTransactions DEF Read
<1>6. CASE UNCHANGED packVars
  BY <1>6, SMT DEF packVars, writeVars, readVars, ReadInv, ActsOnWhole, AtWord, Enough, More, AtEnd, Fits
<1> QED
  BY <1>2, <1>3, <1>4, <1>5, <1>6 DEF PackNext

(* For any sizes and any message, a handler acts exactly on the messages   *)
(* of the length of its fields, though its reads may pass the end.         *)
THEOREM ActsOnWholeAlways == PackSpec => []ActsOnWhole
<1>1. PackInit => WriteInv /\ ReadInv
  <2> SUFFICES ASSUME PackInit PROVE WriteInv /\ ReadInv
    OBVIOUS
  <2>1. total \in Nat /\ ptr_ \in Nat /\ reading = "none" /\ good_ \in BOOLEAN /\ acted \in BOOLEAN /\ ~acted
    BY DEF PackInit
  <2>2. ReadInv
    BY <2>1 DEF ReadInv, ActsOnWhole
  <2> QED
    BY <2>2, WriteStart
<1>2. WriteInv /\ ReadInv /\ [PackNext]_packVars => WriteInv' /\ ReadInv'
  BY WriteStep, ReadStep
<1>3. ReadInv => ActsOnWhole
  BY DEF ReadInv
<1> QED
  BY <1>1, <1>2, <1>3, PTL DEF PackSpec

-----------------------------------------------------------------------------
(* Amount. Each operator maps amounts whose fraction is at most a whole to *)
(* such amounts and does to their values what it says, if the result fits. *)

(* What += can leave behind: the fraction may be a whole. *)
Loose == [integral : (-MaxIntegral - 1)..MaxIntegral, fraction : 0..AMOUNT_MAX_FRACTION]

(* The values of amounts that can be negated. *)
Small(v) == -((MaxIntegral + 1) * AMOUNT_MAX_FRACTION) < v /\ v < (MaxIntegral + 1) * AMOUNT_MAX_FRACTION

LEMMA UnitAndBound ==
  /\ AMOUNT_MAX_FRACTION \in Nat \ {0} /\ MaxIntegral \in Nat \ {0}
  /\ MaxIntegral * AMOUNT_MAX_FRACTION \in Nat /\ (MaxIntegral + 1) * AMOUNT_MAX_FRACTION \in Nat
  /\ (MaxIntegral + 1) * AMOUNT_MAX_FRACTION = MaxIntegral * AMOUNT_MAX_FRACTION + AMOUNT_MAX_FRACTION
BY AmountAssumption, SMT

LEMMA ValueInt ==
  ASSUME NEW a \in Loose
  PROVE  Value(a) \in Int
BY AmountAssumption, SMT DEF Loose, Value

LEMMA DivMod ==
  ASSUME NEW u \in Int, NEW d \in Nat \ {0}
  PROVE  /\ u \div d \in Int /\ u % d \in 0..(d - 1)
         /\ u = d * (u \div d) + (u % d)
  BY SMT

LEMMA DivRest ==
  ASSUME NEW u \in Int, NEW d \in Nat \ {0}
  PROVE  u \div d \in Int /\ u - d * (u \div d) \in 0..(d - 1)
<1>1. /\ u \div d \in Int /\ u % d \in 0..(d - 1)
      /\ u = d * (u \div d) + (u % d)
  BY DivMod
<1>2. d * (u \div d) \in Int
  BY <1>1, SMT
<1> QED BY <1>1, <1>2, SMT

(* A multiple of n that is closer to zero than n is zero. *)
LEMMA NoMultiple ==
  ASSUME NEW n \in Nat \ {0}, NEW z \in Int, -n < n * z, n * z < n
  PROVE  z = 0
<1>1. z >= 1 => n * z >= n
  BY SMT
<1>2. z <= -1 => n * z <= -n
  BY SMT
<1> QED BY <1>1, <1>2, SMT

(* int32_t keeps an integer up to multiples of its number of values, and   *)
(* keeps what is in its range.                                             *)
LEMMA WrapTo ==
  ASSUME NEW t \in (-MaxIntegral - 1)..MaxIntegral, NEW q \in Int
  PROVE  Int32(t + (2 * MaxIntegral + 2) * q) = t
<1>1. PICK n \in Nat \ {0} : n = 2 * MaxIntegral + 2
  BY UnitAndBound, SMT
<1>2. PICK w \in 0..(n - 1) : w = t + MaxIntegral + 1
  BY <1>1, UnitAndBound, SMT
<1>3. n * q \in Int
  BY <1>1, SMT
<1>4. PICK u \in Int : u = w + n * q
  BY <1>2, <1>3, SMT
<1>5. u \div n \in Int /\ u % n \in 0..(n - 1) /\ u = n * (u \div n) + (u % n)
  BY DivMod
<1>6. PICK d \in Int : d = u \div n
  BY <1>5
<1>7. PICK m \in 0..(n - 1) : m = u % n
  BY <1>5
<1>8. n * (q - d) = m - w
  BY <1>4, <1>5, <1>6, <1>7, SMT
<1>9. -n < n * (q - d) /\ n * (q - d) < n /\ q - d \in Int
  BY <1>8, SMT
<1>10. m = w
  <2>1. q - d = 0
    BY <1>9, NoMultiple
  <2> QED BY <1>8, <2>1, SMT
<1>11. (t + n * q) + MaxIntegral + 1 = u
  BY <1>2, <1>3, <1>4, UnitAndBound, SMT
<1>12. Int32(t + n * q) = w - MaxIntegral - 1
  BY <1>1, <1>7, <1>10, <1>11 DEF Int32
<1> QED BY <1>1, <1>2, <1>12, UnitAndBound, SMT

LEMMA Int32Is ==
  ASSUME NEW i \in (-MaxIntegral - 1)..MaxIntegral
  PROVE  Int32(i) = i
<1>1. PICK q \in Int : i + (2 * MaxIntegral + 2) * q = i
  <2>1. 0 \in Int /\ i + (2 * MaxIntegral + 2) * 0 = i
    BY UnitAndBound, SMT
  <2> QED BY <2>1
<1>2. Int32(i + (2 * MaxIntegral + 2) * q) = i
  BY WrapTo, ZenonT(40)
<1> QED BY <1>1, <1>2

LEMMA Int32Of ==
  ASSUME NEW i \in Int
  PROVE  \E q \in Int : Int32(i) = i + (2 * MaxIntegral + 2) * q
<1>1. PICK n \in Nat \ {0} : n = 2 * MaxIntegral + 2
  BY UnitAndBound, SMT
<1>2. PICK u \in Int : u = i + MaxIntegral + 1
  BY UnitAndBound, SMT
<1>3. PICK d \in Int, m \in Int : d = u \div n /\ m = u % n /\ u = n * d + m
  <2>1. u \div n \in Int /\ u % n \in Int /\ u = n * (u \div n) + (u % n)
    BY DivMod, SMT
  <2> QED BY <2>1
<1>4. Int32(i) = m - MaxIntegral - 1
  BY <1>1, <1>2, <1>3 DEF Int32
<1>5. -d \in Int /\ m - MaxIntegral - 1 = i + n * (-d)
  BY <1>2, <1>3, UnitAndBound, SMT
<1> QED BY <1>1, <1>4, <1>5

(* The integral part of a value that fits is in range. *)
LEMMA PartFits ==
  ASSUME NEW i \in Int, NEW f \in 0..AMOUNT_MAX_FRACTION, InRange(i * AMOUNT_MAX_FRACTION + f, AMOUNT_MAX_FRACTION)
  PROVE  i \in (-MaxIntegral)..MaxIntegral
<1> DEFINE F == AMOUNT_MAX_FRACTION  M == MaxIntegral
<1>1. F \in Nat \ {0} /\ M \in Nat /\ f \in 0..F /\ -(M * F) < i * F + f /\ i * F + f < (M + 1) * F
  BY UnitAndBound, SMT DEF InRange
<1> HIDE DEF F, M
<1>2. i >= M + 1 => i * F >= (M + 1) * F
  BY <1>1, SMT
<1>3. i <= -M - 1 => i * F + F <= -(M * F)
  BY <1>1, SMT
<1>4. i >= -M /\ i <= M
  BY <1>1, <1>2, <1>3, SMT
<1> QED BY <1>4, UnitAndBound, SMT DEF M

LEMMA PartSmall ==
  ASSUME NEW i \in Int, NEW f \in 0..(AMOUNT_MAX_FRACTION - 1), Small(i * AMOUNT_MAX_FRACTION + f)
  PROVE  i \in (-MaxIntegral - 1)..MaxIntegral
<1> DEFINE F == AMOUNT_MAX_FRACTION  M == MaxIntegral
<1>1. F \in Nat \ {0} /\ M \in Nat /\ f \in 0..(F - 1) /\ -((M + 1) * F) < i * F + f /\ i * F + f < (M + 1) * F
  BY UnitAndBound, SMT DEF Small
<1> HIDE DEF F, M
<1>2. i >= M + 1 => i * F >= (M + 1) * F
  BY <1>1, SMT
<1>3. i <= -M - 2 => i * F + F <= -((M + 1) * F)
  BY <1>1, SMT
<1>4. i >= -M - 1 /\ i <= M
  BY <1>1, <1>2, <1>3, SMT
<1> QED BY <1>4, UnitAndBound, SMT DEF M

LEMMA AmtInRange ==
  ASSUME NEW i \in (-MaxIntegral - 1)..MaxIntegral, NEW f \in 0..AMOUNT_MAX_FRACTION
  PROVE  /\ Amt(i, f) \in Loose /\ Amt(i, f).integral = i /\ Amt(i, f).fraction = f
         /\ Value(Amt(i, f)) = i * AMOUNT_MAX_FRACTION + f
BY Int32Is DEF Amt, Loose, Value

(* An operator whose parts make up a value that fits has that value. *)
LEMMA AmtFits ==
  ASSUME NEW i \in Int, NEW f \in 0..AMOUNT_MAX_FRACTION, NEW v,
         v = i * AMOUNT_MAX_FRACTION + f, InRange(v, AMOUNT_MAX_FRACTION)
  PROVE  Amt(i, f) \in Loose /\ Value(Amt(i, f)) = v
<1>1. i \in (-MaxIntegral)..MaxIntegral
  BY PartFits
<1>2. i \in (-MaxIntegral - 1)..MaxIntegral
  BY <1>1, UnitAndBound, SMT
<1> QED BY <1>2, AmtInRange

LEMMA NegValue ==
  ASSUME NEW a \in Loose, Small(Value(a))
  PROVE  /\ Neg(a) \in Loose /\ Value(Neg(a)) = -Value(a) /\ Small(Value(Neg(a)))
         /\ a.integral < 0 => Neg(a).integral >= 0
<1> DEFINE F == AMOUNT_MAX_FRACTION  M == MaxIntegral  i == a.integral  f == a.fraction
<1>1. /\ F \in Nat \ {0} /\ M \in Nat /\ i \in (-M - 1)..M /\ f \in 0..F
      /\ Value(a) = i * F + f /\ Value(a) \in Int
  BY UnitAndBound, ValueInt DEF Loose, Value
<1>2. (M + 1) * F \in Int /\ -((M + 1) * F) < Value(a) /\ Value(a) < (M + 1) * F
  BY UnitAndBound, SMT DEF Small
<1>3. CASE f = 0
  <2>1. i # -M - 1
    BY <1>1, <1>2, <1>3, SMT
  <2>2. -i \in (-M - 1)..M /\ 0 \in 0..F /\ (-i) * F + 0 = -(i * F + f) /\ (i < 0 => -i >= 0)
    BY <1>1, <1>3, <2>1, SMT
  <2>3. Neg(a) = Amt(-i, 0)
    BY <1>3 DEF Neg
  <2>4. Neg(a) \in Loose /\ Value(Neg(a)) = -Value(a) /\ (i < 0 => Neg(a).integral >= 0)
    <3>1. PICK j \in (-M - 1)..M : j = -i
      BY <2>2
    <3>2. PICK g \in 0..F : g = 0
      BY <2>2
    <3>3. Amt(j, g) \in Loose /\ Amt(j, g).integral = j /\ Value(Amt(j, g)) = j * F + g
      BY AmtInRange
    <3> QED BY <1>1, <2>2, <2>3, <3>1, <3>2, <3>3
  <2> QED BY <1>1, <1>2, <2>4, SMT DEF Small
<1>4. CASE f # 0
  <2>1. /\ -i - 1 \in (-M - 1)..M /\ F - f \in 0..F
        /\ (-i - 1) * F + (F - f) = -(i * F + f) /\ (i < 0 => -i - 1 >= 0)
    BY <1>1, <1>4, SMT
  <2>2. Neg(a) = Amt(-i - 1, F - f)
    BY <1>4 DEF Neg
  <2>3. Neg(a) \in Loose /\ Value(Neg(a)) = -Value(a) /\ (i < 0 => Neg(a).integral >= 0)
    <3>1. PICK j \in (-M - 1)..M : j = -i - 1
      BY <2>1
    <3>2. PICK g \in 0..F : g = F - f
      BY <2>1
    <3>3. Amt(j, g) \in Loose /\ Amt(j, g).integral = j /\ Value(Amt(j, g)) = j * F + g
      BY AmtInRange
    <3> QED BY <1>1, <2>1, <2>2, <3>1, <3>2, <3>3
  <2> QED BY <1>1, <1>2, <2>3, SMT DEF Small
<1> QED BY <1>3, <1>4

LEMMA Parts ==
  ASSUME NEW a \in Loose
  PROVE  /\ a.integral \in Int /\ a.fraction \in 0..AMOUNT_MAX_FRACTION
         /\ Value(a) = a.integral * AMOUNT_MAX_FRACTION + a.fraction
         /\ AMOUNT_MAX_FRACTION \in Nat
BY UnitAndBound, SMT DEF Loose, Value

LEMMA PlusValue ==
  ASSUME NEW a \in Loose, NEW b \in Loose, InRange(Value(a) + Value(b), AMOUNT_MAX_FRACTION)
  PROVE  Plus(a, b) \in Loose /\ Value(Plus(a, b)) = Value(a) + Value(b)
<1> DEFINE F == AMOUNT_MAX_FRACTION
<1>1. PICK i \in Int, f \in 0..F : i = a.integral /\ f = a.fraction /\ Value(a) = i * F + f
  BY Parts
<1>2. PICK j \in Int, g \in 0..F : j = b.integral /\ g = b.fraction /\ Value(b) = j * F + g
  BY Parts
<1>3. /\ (i + j) * F + (f + g) = (i * F + f) + (j * F + g)
      /\ (i + j + 1) * F + (f + g - F) = (i * F + f) + (j * F + g)
      /\ i + j \in Int /\ i + j + 1 \in Int
  <2>1. F \in Nat
    BY UnitAndBound
  <2> HIDE DEF F
  <2> QED BY <2>1, SMTT(30)
<1>4. CASE F <= a.fraction + b.fraction
  <2>1. f + g - F \in 0..F
    BY <1>1, <1>2, <1>4, UnitAndBound, SMT
  <2>2. (i + j + 1) * F + (f + g - F) = Value(a) + Value(b) /\ i + j + 1 \in Int
    BY <1>3, <1>1, <1>2
  <2>3. Amt(i + j + 1, f + g - F) \in Loose /\ Value(Amt(i + j + 1, f + g - F)) = Value(a) + Value(b)
    BY <2>1, <2>2, AmtFits
  <2> QED BY <1>1, <1>2, <1>4, <2>3 DEF Plus
<1>5. CASE ~(F <= a.fraction + b.fraction)
  <2>1. f + g \in 0..F
    BY <1>1, <1>2, <1>5, UnitAndBound, SMT
  <2>2. (i + j) * F + (f + g) = Value(a) + Value(b) /\ i + j \in Int
    BY <1>3, <1>1, <1>2
  <2>3. Amt(i + j, f + g) \in Loose /\ Value(Amt(i + j, f + g)) = Value(a) + Value(b)
    BY <2>1, <2>2, AmtFits
  <2> QED BY <1>1, <1>2, <1>5, <2>3 DEF Plus
<1> QED BY <1>4, <1>5

LEMMA MinusValue ==
  ASSUME NEW a \in Loose, NEW b \in Loose, InRange(Value(a) - Value(b), AMOUNT_MAX_FRACTION)
  PROVE  Minus(a, b) \in Loose /\ Value(Minus(a, b)) = Value(a) - Value(b)
<1> DEFINE F == AMOUNT_MAX_FRACTION
<1>1. PICK i \in Int, f \in 0..F : i = a.integral /\ f = a.fraction /\ Value(a) = i * F + f
  BY Parts
<1>2. PICK j \in Int, g \in 0..F : j = b.integral /\ g = b.fraction /\ Value(b) = j * F + g
  BY Parts
<1>3. /\ (i - j) * F + (f - g) = (i * F + f) - (j * F + g)
      /\ (i - j - 1) * F + (f + F - g) = (i * F + f) - (j * F + g)
      /\ i - j \in Int /\ i - j - 1 \in Int /\ f + (F - g) = f + F - g
  <2>1. F \in Nat
    BY UnitAndBound
  <2> HIDE DEF F
  <2> QED BY <2>1, SMTT(30)
<1>4. CASE a.fraction < b.fraction
  <2>1. f + F - g \in 0..F
    BY <1>1, <1>2, <1>4, UnitAndBound, SMT
  <2>2. (i - j - 1) * F + (f + F - g) = Value(a) - Value(b) /\ i - j - 1 \in Int
    BY <1>3, <1>1, <1>2
  <2>3. Amt(i - j - 1, f + F - g) \in Loose /\ Value(Amt(i - j - 1, f + F - g)) = Value(a) - Value(b)
    BY <2>1, <2>2, AmtFits
  <2> QED BY <1>1, <1>2, <1>4, <2>3 DEF Minus
<1>5. CASE ~(a.fraction < b.fraction)
  <2>1. f - g \in 0..F
    BY <1>1, <1>2, <1>5, UnitAndBound, SMT
  <2>2. (i - j) * F + (f - g) = Value(a) - Value(b) /\ i - j \in Int
    BY <1>3, <1>1, <1>2
  <2>3. Amt(i - j, f - g) \in Loose /\ Value(Amt(i - j, f - g)) = Value(a) - Value(b)
    BY <2>1, <2>2, AmtFits
  <2> QED BY <1>1, <1>2, <1>5, <2>3 DEF Minus
<1> QED BY <1>4, <1>5

LEMMA PlusAssignValue ==
  ASSUME NEW a \in Loose, NEW b \in Loose, InRange(Value(a) + Value(b), AMOUNT_MAX_FRACTION)
  PROVE  PlusAssign(a, b) \in Loose /\ Value(PlusAssign(a, b)) = Value(a) + Value(b)
<1> DEFINE F == AMOUNT_MAX_FRACTION
<1>1. PICK i \in Int, f \in 0..F : i = a.integral /\ f = a.fraction /\ Value(a) = i * F + f
  BY Parts
<1>2. PICK j \in Int, g \in 0..F : j = b.integral /\ g = b.fraction /\ Value(b) = j * F + g
  BY Parts
<1>3. /\ (i + j) * F + (f + g) = (i * F + f) + (j * F + g)
      /\ (i + j + 1) * F + (f + g - F) = (i * F + f) + (j * F + g)
      /\ i + j \in Int /\ i + j + 1 \in Int
  <2>1. F \in Nat
    BY UnitAndBound
  <2> HIDE DEF F
  <2> QED BY <2>1, SMTT(30)
<1>4. CASE a.fraction + b.fraction > F
  <2>1. f + g - F \in 0..F
    BY <1>1, <1>2, <1>4, UnitAndBound, SMT
  <2>2. (i + j + 1) * F + (f + g - F) = Value(a) + Value(b) /\ i + j + 1 \in Int
    BY <1>3, <1>1, <1>2
  <2>3. Amt(i + j + 1, f + g - F) \in Loose /\ Value(Amt(i + j + 1, f + g - F)) = Value(a) + Value(b)
    BY <2>1, <2>2, AmtFits
  <2> QED BY <1>1, <1>2, <1>4, <2>3 DEF PlusAssign
<1>5. CASE ~(a.fraction + b.fraction > F)
  <2>1. f + g \in 0..F
    BY <1>1, <1>2, <1>5, UnitAndBound, SMT
  <2>2. (i + j) * F + (f + g) = Value(a) + Value(b) /\ i + j \in Int
    BY <1>3, <1>1, <1>2
  <2>3. Amt(i + j, f + g) \in Loose /\ Value(Amt(i + j, f + g)) = Value(a) + Value(b)
    BY <2>1, <2>2, AmtFits
  <2> QED BY <1>1, <1>2, <1>5, <2>3 DEF PlusAssign
<1> QED BY <1>4, <1>5

LEMMA MinusAssignValue ==
  ASSUME NEW a \in Loose, NEW b \in Loose, InRange(Value(a) - Value(b), AMOUNT_MAX_FRACTION)
  PROVE  MinusAssign(a, b) \in Loose /\ Value(MinusAssign(a, b)) = Value(a) - Value(b)
<1> DEFINE F == AMOUNT_MAX_FRACTION
<1>1. PICK i \in Int, f \in 0..F : i = a.integral /\ f = a.fraction /\ Value(a) = i * F + f
  BY Parts
<1>2. PICK j \in Int, g \in 0..F : j = b.integral /\ g = b.fraction /\ Value(b) = j * F + g
  BY Parts
<1>3. /\ (i - j) * F + (f - g) = (i * F + f) - (j * F + g)
      /\ (i - j - 1) * F + (f + F - g) = (i * F + f) - (j * F + g)
      /\ i - j \in Int /\ i - j - 1 \in Int /\ f + (F - g) = f + F - g
  <2>1. F \in Nat
    BY UnitAndBound
  <2> HIDE DEF F
  <2> QED BY <2>1, SMTT(30)
<1>4. CASE b.fraction > a.fraction
  <2>1. f + F - g \in 0..F
    BY <1>1, <1>2, <1>4, UnitAndBound, SMT
  <2>2. (i - j - 1) * F + (f + F - g) = Value(a) - Value(b) /\ i - j - 1 \in Int
    BY <1>3, <1>1, <1>2
  <2>3. Amt(i - j - 1, f + F - g) \in Loose /\ Value(Amt(i - j - 1, f + F - g)) = Value(a) - Value(b)
    BY <2>1, <2>2, AmtFits
  <2> QED BY <1>1, <1>2, <1>3, <1>4, <2>3 DEF MinusAssign
<1>5. CASE ~(b.fraction > a.fraction)
  <2>1. f - g \in 0..F
    BY <1>1, <1>2, <1>5, UnitAndBound, SMT
  <2>2. (i - j) * F + (f - g) = Value(a) - Value(b) /\ i - j \in Int
    BY <1>3, <1>1, <1>2
  <2>3. Amt(i - j, f - g) \in Loose /\ Value(Amt(i - j, f - g)) = Value(a) - Value(b)
    BY <2>1, <2>2, AmtFits
  <2> QED BY <1>1, <1>2, <1>5, <2>3 DEF MinusAssign
<1> QED BY <1>4, <1>5

LEMMA OfUnitsValue ==
  ASSUME NEW u \in Nat, u < (MaxIntegral + 1) * AMOUNT_MAX_FRACTION
  PROVE  OfUnits(u) \in Loose /\ Value(OfUnits(u)) = u
<1> DEFINE F == AMOUNT_MAX_FRACTION
<1>1. PICK q \in Int, r \in 0..(F - 1) : q = u \div F /\ r = u % F /\ u = F * q + r
  <2>1. u \div F \in Int /\ u % F \in 0..(F - 1) /\ u = F * (u \div F) + (u % F)
    BY UnitAndBound, DivMod, SMT
  <2> QED BY <2>1
<1>2. q * F + r = u /\ r \in 0..F
  BY <1>1, UnitAndBound, SMT
<1>3. InRange(u, F)
  BY UnitAndBound, SMT DEF InRange
<1> QED BY <1>1, <1>2, <1>3, AmtFits DEF OfUnits

(* The integral parts may wrap on the way: their sum is the right one. *)
LEMMA TimesNatValue ==
  ASSUME NEW a \in Loose, NEW k \in Int, Small(k * Value(a))
  PROVE  TimesNat(a, k) \in Loose /\ Value(TimesNat(a, k)) = k * Value(a)
<1> DEFINE F == AMOUNT_MAX_FRACTION  N == 2 * MaxIntegral + 2
<1>1. F \in Nat \ {0} /\ N \in Nat
  BY UnitAndBound, SMT
<1>2. PICK i \in Int, f \in Int : i = a.integral /\ f = a.fraction /\ Value(a) = i * F + f
  BY Parts, SMT
<1>3. PICK w \in Int : w = i * k
  BY SMT
<1>4. PICK u \in Int : u = f * k
  BY SMT
<1>5. PICK q \in Int, r \in 0..(F - 1) : q = u \div F /\ r = u % F /\ u = F * q + r
  <2>1. u \div F \in Int /\ u % F \in 0..(F - 1) /\ u = F * (u \div F) + (u % F)
    BY <1>1, DivMod
  <2> QED BY <2>1
<1>6. k * Value(a) = (w + q) * F + r /\ w + q \in Int
  <2> HIDE DEF F
  <2>1. k * (i * F + f) = (i * k) * F + f * k
    BY <1>1, SMT
  <2>2. (w + q) * F + r = w * F + (F * q + r)
    BY <1>1, SMT
  <2>3. k * (i * F + f) = w * F + u
    BY <1>3, <1>4, <2>1
  <2> QED BY <1>2, <1>5, <2>2, <2>3, SMT
<1>7. w + q \in (-MaxIntegral - 1)..MaxIntegral
  BY <1>6, PartSmall
<1>8. PICK x \in Int : Int32(w) = w + N * x
  BY Int32Of
<1>9. PICK y \in Int : Int32(q) = q + N * y
  BY Int32Of
<1>10. (w + N * x) + (q + N * y) = (w + q) + N * (x + y) /\ x + y \in Int
  <2> HIDE DEF N
  <2> QED BY <1>1, SMT
<1>11. Int32(Int32(w) + Int32(q)) = w + q
  <2>1. PICK t \in (-MaxIntegral - 1)..MaxIntegral : t = w + q
    BY <1>7
  <2>2. PICK z \in Int : z = x + y
    BY <1>10
  <2>3. Int32(t + N * z) = t
    BY WrapTo, ZenonT(40)
  <2> QED BY <1>8, <1>9, <1>10, <2>1, <2>2, <2>3
<1>12. r \in 0..F /\ ~(F <= 0 + r) /\ 0 + r = r
  BY <1>1, SMT
<1>13. TimesNat(a, k) = Amt(Int32(w) + Int32(q), r)
  BY <1>2, <1>3, <1>4, <1>5, <1>12 DEF TimesNat, Plus, OfUnits, Amt
<1>14. TimesNat(a, k) = Amt(w + q, r)
  BY <1>7, <1>11, <1>13, Int32Is DEF Amt
<1> QED BY <1>6, <1>7, <1>12, <1>14, AmtInRange

LEMMA TimesIntValue ==
  ASSUME NEW a \in Loose, NEW k \in Int, Small(k * Value(a))
  PROVE  TimesInt(a, k) \in Loose /\ Value(TimesInt(a, k)) = k * Value(a)
<1>1. CASE k < 0
  <2>1. k * Value(a) \in Int /\ (-k) * Value(a) = -(k * Value(a)) /\ -k \in Int
    BY ValueInt, SMT
  <2>2. Small((-k) * Value(a)) /\ -((-k) * Value(a)) = k * Value(a)
    BY <2>1, UnitAndBound, SMT DEF Small
  <2>3. TimesNat(a, -k) \in Loose /\ Value(TimesNat(a, -k)) = (-k) * Value(a)
    BY <2>1, <2>2, TimesNatValue
  <2>4. Neg(TimesNat(a, -k)) \in Loose /\ Value(Neg(TimesNat(a, -k))) = -((-k) * Value(a))
    BY <2>2, <2>3, NegValue
  <2> QED BY <1>1, <2>2, <2>4 DEF TimesInt
<1>2. CASE ~(k < 0)
  BY <1>2, TimesNatValue DEF TimesInt
<1> QED BY <1>1, <1>2

-----------------------------------------------------------------------------
AmountInv == acc \in Loose /\ exact = Value(acc) /\ InRange(exact, AMOUNT_MAX_FRACTION)

LEMMA FitsSmall ==
  ASSUME NEW v \in Int, InRange(v, AMOUNT_MAX_FRACTION)
  PROVE  Small(v)
BY UnitAndBound, SMT DEF InRange, Small

LEMMA BecomesInv ==
  ASSUME NEW a \in Loose, NEW v, v = Value(a), Becomes(a, v)
  PROVE  AmountInv'
BY DEF AmountInv, Becomes, Value, Loose, InRange

LEMMA AccumulateInv ==
  ASSUME AmountInv, NEW x \in Loose, Accumulate(x)
  PROVE  AmountInv'
<1>1. acc \in Loose /\ exact = Value(acc)
  BY DEF AmountInv
<1>2. CASE Becomes(Plus(acc, x), exact + Value(x))
  BY <1>1, <1>2, PlusValue, BecomesInv DEF Becomes
<1>3. CASE Becomes(Minus(acc, x), exact - Value(x))
  BY <1>1, <1>3, MinusValue, BecomesInv DEF Becomes
<1>4. CASE Becomes(PlusAssign(acc, x), exact + Value(x))
  BY <1>1, <1>4, PlusAssignValue, BecomesInv DEF Becomes
<1>5. CASE Becomes(MinusAssign(acc, x), exact - Value(x))
  BY <1>1, <1>5, MinusAssignValue, BecomesInv DEF Becomes
<1> QED BY <1>2, <1>3, <1>4, <1>5 DEF Accumulate

LEMMA OperandLoose ==
  ASSUME NEW x \in Operands
  PROVE  x \in Loose /\ x.integral \in (-MaxIntegral - 1)..MaxIntegral /\ Small(Value(x))
<1>1. x.integral \in (-MaxIntegral)..MaxIntegral /\ x.fraction \in 0..(AMOUNT_MAX_FRACTION - 1)
  BY AmountAssumption
<1>2. x.integral \in (-MaxIntegral - 1)..MaxIntegral /\ x.fraction \in 0..AMOUNT_MAX_FRACTION
  BY <1>1, UnitAndBound, SMT
<1>3. x \in Loose
  BY <1>2, AmountAssumption, SMT DEF Loose
<1>4. Small(Value(x))
  <2> DEFINE F == AMOUNT_MAX_FRACTION  M == MaxIntegral  i == x.integral  f == x.fraction
  <2>1. F \in Nat \ {0} /\ M \in Nat /\ i \in (-M)..M /\ f \in 0..(F - 1)
    BY <1>1, UnitAndBound
  <2> HIDE DEF F, M, i, f
  <2>2. i * F <= M * F /\ -(M * F) <= i * F /\ (M + 1) * F = M * F + F
    BY <2>1, SMT
  <2>3. -((M + 1) * F) < i * F + f /\ i * F + f < (M + 1) * F
    BY <2>1, <2>2, SMT
  <2> QED BY <2>3 DEF F, M, i, f, Small, Value
<1> QED BY <1>2, <1>3, <1>4

LEMMA ConstructInv ==
  ASSUME NEW i \in (-MaxIntegral - 1)..MaxIntegral, NEW n \in 0..2, NEW d \in 1..3, Construct(i, n, d)
  PROVE  AmountInv'
<1>1. /\ n * AMOUNT_MAX_FRACTION \in Nat /\ d \div 2 \in Nat
      /\ d \in Nat \ {0}
  BY AmountAssumption, SMT
<1>2. n * AMOUNT_MAX_FRACTION + d \div 2 \in Nat
  BY <1>1, SMT
<1>3. FractionOf(n, d) \in Nat
  BY <1>1, <1>2, SMT DEF FractionOf
<1>4. FractionOf(n, d) \in 0..AMOUNT_MAX_FRACTION
  BY <1>3, AmountAssumption, SMT DEF Construct
<1>5. Amt(i, FractionOf(n, d)) \in Loose
  BY <1>4, AmtInRange
<1> QED BY <1>5, BecomesInv DEF Construct

LEMMA NextInv ==
  ASSUME AmountInv, [AmountNext]_amountVars
  PROVE  AmountInv'
<1>1. ASSUME NEW x \in Operands, Accumulate(x) PROVE AmountInv'
  BY <1>1, OperandLoose, AccumulateInv
<1>2. ASSUME NEW x \in Operands, NEW n \in 0..2, NEW d \in 1..3, Construct(x.integral, n, d)
      PROVE  AmountInv'
  BY <1>2, OperandLoose, ConstructInv
<1>3. ASSUME NEW k \in Factors, Scale(k) PROVE AmountInv'
  <2>1. k \in Int /\ exact \in Int /\ k * exact \in Int
    <3>1. k \in Int /\ exact \in Int
      BY <1>3, AmountAssumption, ValueInt, SMT DEF AmountInv
    <3> QED BY <3>1, SMT
  <2>2. Small(k * exact)
    BY <1>3, <2>1, FitsSmall DEF Scale, Becomes
  <2> QED BY <1>3, <2>1, <2>2, TimesIntValue, BecomesInv DEF Scale, AmountInv
<1>4. CASE Negate
  <2>1. Small(exact)
    BY FitsSmall, ValueInt DEF AmountInv
  <2> QED BY <1>4, <2>1, NegValue, BecomesInv DEF Negate, AmountInv
<1>5. CASE UNCHANGED amountVars
  BY <1>5 DEF AmountInv, amountVars, Loose, Value, InRange
<1> QED BY <1>1, <1>2, <1>3, <1>4, <1>5 DEF AmountNext

LEMMA InitAmount == AmountInit => AmountInv
<1> SUFFICES ASSUME AmountInit PROVE AmountInv
  OBVIOUS
<1>1. 0 \in (-MaxIntegral - 1)..MaxIntegral /\ 0 \in 0..AMOUNT_MAX_FRACTION /\ 0 * AMOUNT_MAX_FRACTION + 0 = 0
  BY UnitAndBound, SMT
<1>2. Amt(0, 0) \in Loose /\ Value(Amt(0, 0)) = 0
  BY <1>1, AmtInRange
<1>3. InRange(0, AMOUNT_MAX_FRACTION)
  BY UnitAndBound, SMT DEF InRange
<1> QED BY <1>2, <1>3 DEF AmountInit, AmountInv

(* Adding, subtracting, negating and scaling an amount, in any order and   *)
(* any number of times, keeps its value exact as long as the results fit,  *)
(* whatever the unit and the width of the integral part.                   *)
THEOREM ExactAlways == AmountSpec => []AmountExact
<1>1. AmountInv => AmountExact
  BY DEF AmountInv, AmountExact, Loose
<1> QED BY <1>1, InitAmount, NextInv, PTL DEF AmountSpec

-----------------------------------------------------------------------------
(* Products and quotients. *)
LEMMA CutNeg ==
  ASSUME NEW p \in Int, NEW e \in Int, NEW s \in Int, CutTo(p, e, s)
  PROVE  CutTo(-p, -e, s)
BY SMT DEF CutTo

(* A result cut towards zero is no further from it than the exact one. *)
LEMMA CutSmall ==
  ASSUME NEW v \in Int, NEW e \in Int, NEW c \in Nat, NEW d \in Nat \ {0},
         CutTo(v * d, e, d), -(c * d) < e, e < c * d
  PROVE  -c < v /\ v < c
<1>1. v * d \in Int /\ c * d \in Int
  BY SMT
<1>2. v * d < c * d /\ -(c * d) < v * d
  BY <1>1, SMT DEF CutTo
<1>3. v >= c => v * d >= c * d
  BY SMT
<1>4. v <= -c => v * d <= -(c * d)
  BY SMT
<1> QED BY <1>1, <1>2, <1>3, <1>4, SMT

(* The exact product of two amounts whose product fits. *)
ProductFits(a, b) ==
  /\ -((MaxIntegral + 1) * AMOUNT_MAX_FRACTION * AMOUNT_MAX_FRACTION) < Value(a) * Value(b)
  /\ Value(a) * Value(b) < (MaxIntegral + 1) * AMOUNT_MAX_FRACTION * AMOUNT_MAX_FRACTION

LEMMA TimesPosCut ==
  ASSUME NEW a \in Loose, NEW b \in Loose, a.integral >= 0, b.integral >= 0, ProductFits(a, b)
  PROVE  /\ TimesPos(a, b) \in Loose
         /\ CutTo(Value(TimesPos(a, b)) * AMOUNT_MAX_FRACTION, Value(a) * Value(b), AMOUNT_MAX_FRACTION)
<1> DEFINE F == AMOUNT_MAX_FRACTION
           i == a.integral  f == a.fraction  j == b.integral  g == b.fraction
           r == (f * g) \div F
<1>1. F \in Nat \ {0} /\ i \in Nat /\ j \in Nat /\ f \in Nat /\ g \in Nat
  BY AmountAssumption, SMT DEF Loose
<1>2. PICK c \in Nat : c = (MaxIntegral + 1) * F
  BY UnitAndBound
<1>3. r \in Nat /\ (f * g) - F * r \in 0..(F - 1)
  <2> DEFINE u == f * g
  <2>1. u \in Nat
    BY <1>1, SMT
  <2> HIDE DEF u, F
  <2>2. u \div F \in Nat
    BY <1>1, <2>1, SMT
  <2>3. u - F * (u \div F) \in 0..(F - 1)
    BY <1>1, <2>1, DivRest, SMT
  <2> QED BY <2>2, <2>3 DEF u
<1>4. PICK x \in Nat : x = i * j
  BY <1>1, SMT
<1>5. PICK y \in Nat : y = f * j
  BY <1>1, SMT
<1>6. PICK z \in Nat : z = g * i
  BY <1>1, SMT
<1>7. PICK e \in Int : e = (i * F + f) * (j * F + g) /\ e = Value(a) * Value(b) /\ e < c * F
  <2>1. (i * F + f) * (j * F + g) \in Int
    <3> HIDE DEF F, i, j, f, g
    <3> QED BY <1>1, SMT
  <2>2. Value(a) * Value(b) = (i * F + f) * (j * F + g)
    BY DEF Value
  <2> QED BY <1>2, <2>1, <2>2 DEF ProductFits
<1> HIDE DEF F, i, j, f, g, r
<1>8. PICK v \in Nat : v = x * F + y + z + r
  BY <1>1, <1>3, SMT
<1>9. e - v * F = f * g - F * r /\ f * g \in Nat
  <2>1. (i * F + f) * (j * F + g) - (i * j * F + f * j + g * i + r) * F = f * g - F * r /\ f * g \in Nat
    BY <1>1, <1>3, SMT
  <2> QED BY <1>4, <1>5, <1>6, <1>7, <1>8, <2>1
<1>10. e >= 0
  BY <1>1, <1>7, SMT
<1>11. v * F \in Nat
  BY <1>1, SMT
<1>12. CutTo(v * F, e, F)
  BY <1>3, <1>9, <1>10 DEF CutTo
<1>13. v < c
  <2>1. -(c * F) < e
    <3>1. c * F \in Nat
      BY <1>1, SMT
    <3> QED BY <1>7, <1>10, <3>1, SMT
  <2>2. v \in Int
    BY SMT
  <2> QED BY <1>1, <1>7, <1>12, <2>1, <2>2, CutSmall
<1>14. x * F \in Nat /\ x * F < c /\ y < c /\ z < c /\ r < c /\ x * F + y < c /\ x * F + y + z < c
  <2>1. x * F \in Nat
    BY <1>1, SMT
  <2> QED BY <1>3, <1>8, <1>13, <2>1, SMT
<1>15. \A w \in Nat : w < c => InRange(w, F)
  BY <1>2, UnitAndBound, SMT DEF InRange, F
<1>16. Amt(x, 0) \in Loose /\ Value(Amt(x, 0)) = x * F
  <2>1. x \in Int /\ 0 \in 0..F /\ x * F + 0 = x * F
    BY <1>1, <1>14, SMT
  <2>2. InRange(x * F, F)
    BY <1>14, <1>15
  <2> QED BY <2>1, <2>2, AmtFits DEF F
<1>17. /\ OfUnits(y) \in Loose /\ Value(OfUnits(y)) = y
       /\ OfUnits(z) \in Loose /\ Value(OfUnits(z)) = z
       /\ OfUnits(r) \in Loose /\ Value(OfUnits(r)) = r
  BY <1>2, <1>3, <1>14, OfUnitsValue DEF F
<1>18. PICK m \in Nat : m = x * F + y /\ m < c
  BY <1>14, SMT
<1>19. PICK n \in Nat : n = m + z /\ n < c /\ v = n + r
  BY <1>8, <1>14, <1>18, SMT
<1>20. PICK p \in Loose : p = Plus(Amt(x, 0), OfUnits(y)) /\ Value(p) = m
  <2>1. Value(Amt(x, 0)) + Value(OfUnits(y)) = m
    BY <1>16, <1>17, <1>18
  <2> QED BY <1>15, <1>16, <1>17, <1>18, <2>1, PlusValue DEF F
<1>21. PICK q \in Loose : q = Plus(p, OfUnits(z)) /\ Value(q) = n
  <2>1. Value(p) + Value(OfUnits(z)) = n
    BY <1>17, <1>19, <1>20
  <2> QED BY ZenonT(40), <1>15, <1>17, <1>19, <2>1, PlusValue DEF F
<1>22. Plus(q, OfUnits(r)) \in Loose /\ Value(Plus(q, OfUnits(r))) = v
  <2>1. Value(q) + Value(OfUnits(r)) = v
    BY <1>17, <1>19, <1>21
  <2> QED BY <1>13, <1>15, <1>17, <2>1, PlusValue DEF F
<1>23. TimesPos(a, b) = Plus(q, OfUnits(r))
  BY ZenonT(40), <1>4, <1>5, <1>6, <1>20, <1>21 DEF TimesPos, F, i, j, f, g, r
<1> QED BY ZenonT(40), <1>7, <1>12, <1>22, <1>23 DEF F

LEMMA ProductNeg ==
  ASSUME NEW a \in Loose, NEW b \in Loose, NEW c \in Loose, Value(c) = -Value(b), ProductFits(a, b)
  PROVE  ProductFits(a, c) /\ Value(a) * Value(c) = -(Value(a) * Value(b)) /\ Value(a) * Value(b) \in Int
<1>1. Value(a) \in Int /\ Value(b) \in Int
  BY ValueInt
<1>2. Value(a) * (-Value(b)) = -(Value(a) * Value(b)) /\ Value(a) * Value(b) \in Int
  BY <1>1, SMT
<1>3. PICK d \in Int : d = (MaxIntegral + 1) * AMOUNT_MAX_FRACTION * AMOUNT_MAX_FRACTION
  BY UnitAndBound, SMT
<1> QED BY <1>2, <1>3, SMT DEF ProductFits

LEMMA ProductSwaps ==
  ASSUME NEW a \in Loose, NEW b \in Loose
  PROVE  Value(a) * Value(b) = Value(b) * Value(a)
BY ValueInt, SMT

LEMMA CutIsSmall ==
  ASSUME NEW a \in Loose, NEW b \in Loose, NEW t \in Loose, ProductFits(a, b),
         CutTo(Value(t) * AMOUNT_MAX_FRACTION, Value(a) * Value(b), AMOUNT_MAX_FRACTION)
  PROVE  Small(Value(t))
<1>1. Value(a) * Value(b) \in Int
  BY ValueInt, SMT
<1>2. PICK c \in Nat : c = (MaxIntegral + 1) * AMOUNT_MAX_FRACTION
  BY UnitAndBound
<1>3. PICK e \in Int : e = Value(a) * Value(b)
  BY <1>1
<1>4. -(c * AMOUNT_MAX_FRACTION) < e /\ e < c * AMOUNT_MAX_FRACTION
  BY <1>2, <1>3 DEF ProductFits
<1>5. -c < Value(t) /\ Value(t) < c
  BY <1>3, <1>4, ValueInt, UnitAndBound, CutSmall
<1> QED BY <1>2, <1>5 DEF Small

LEMMA CutNegRight ==
  ASSUME NEW a \in Loose, NEW b \in Loose, NEW c \in Loose, NEW t \in Loose, Value(c) = -Value(b),
         CutTo(Value(t) * AMOUNT_MAX_FRACTION, Value(a) * Value(c), AMOUNT_MAX_FRACTION)
  PROVE  CutTo((-Value(t)) * AMOUNT_MAX_FRACTION, Value(a) * Value(b), AMOUNT_MAX_FRACTION)
<1>1. /\ Value(t) \in Int /\ Value(a) \in Int /\ Value(b) \in Int /\ Value(c) \in Int
      /\ AMOUNT_MAX_FRACTION \in Int
  BY ValueInt, UnitAndBound, SMT
<1>2. PICK p \in Int : p = Value(t) * AMOUNT_MAX_FRACTION /\ (-Value(t)) * AMOUNT_MAX_FRACTION = -p
  <2>1. Value(t) * AMOUNT_MAX_FRACTION \in Int /\ (-Value(t)) * AMOUNT_MAX_FRACTION = -(Value(t) * AMOUNT_MAX_FRACTION)
    BY <1>1, SMT
  <2> QED BY <2>1
<1>3. PICK e \in Int : e = Value(a) * Value(c) /\ Value(a) * Value(b) = -e
  <2>1. Value(a) * (-Value(b)) \in Int /\ Value(a) * Value(b) = -(Value(a) * (-Value(b)))
    BY <1>1, SMT
  <2> QED BY <2>1
<1>4. CutTo(-p, -e, AMOUNT_MAX_FRACTION)
  BY <1>1, <1>2, <1>3, CutNeg
<1> QED BY <1>2, <1>3, <1>4

LEMMA TimesRightCut ==
  ASSUME NEW a \in Loose, NEW b \in Loose, a.integral >= 0, ProductFits(a, b), Small(Value(b))
  PROVE  /\ TimesRight(a, b) \in Loose
         /\ CutTo(Value(TimesRight(a, b)) * AMOUNT_MAX_FRACTION, Value(a) * Value(b), AMOUNT_MAX_FRACTION)
<1>1. CASE b.integral < 0
  <2> DEFINE c == Neg(b)  t == TimesPos(a, c)
  <2>1. c \in Loose /\ c.integral >= 0 /\ Value(c) = -Value(b)
    BY <1>1, NegValue
  <2>2. ProductFits(a, c)
    BY <2>1, ProductNeg
  <2>3. t \in Loose /\ CutTo(Value(t) * AMOUNT_MAX_FRACTION, Value(a) * Value(c), AMOUNT_MAX_FRACTION)
    BY <2>1, <2>2, TimesPosCut
  <2>4. Neg(t) \in Loose /\ Value(Neg(t)) = -Value(t)
    BY <2>1, <2>2, <2>3, CutIsSmall, NegValue
  <2>5. TimesRight(a, b) = Neg(t)
    BY <1>1 DEF TimesRight
  <2> HIDE DEF c, t
  <2>6. CutTo((-Value(t)) * AMOUNT_MAX_FRACTION, Value(a) * Value(b), AMOUNT_MAX_FRACTION)
    BY <2>1, <2>3, CutNegRight
  <2> QED BY <2>4, <2>5, <2>6
<1>2. CASE ~(b.integral < 0)
  <2>1. b.integral >= 0
    BY <1>2, SMT DEF Loose
  <2> QED BY <1>2, <2>1, TimesPosCut DEF TimesRight
<1> QED BY <1>1, <1>2

LEMMA TimesCut ==
  ASSUME NEW a \in Loose, NEW b \in Loose, ProductFits(a, b), Small(Value(a)), Small(Value(b))
  PROVE  CutTo(Value(Times(a, b)) * AMOUNT_MAX_FRACTION, Value(a) * Value(b), AMOUNT_MAX_FRACTION)
<1>1. CASE a.integral < 0
  <2> DEFINE c == Neg(a)  t == TimesRight(c, b)
  <2>1. c \in Loose /\ c.integral >= 0 /\ Value(c) = -Value(a)
    BY <1>1, NegValue
  <2>2. ProductFits(b, a) /\ Value(a) * Value(b) = Value(b) * Value(a) /\ Value(c) * Value(b) = Value(b) * Value(c)
    BY <2>1, ProductSwaps DEF ProductFits
  <2>3. ProductFits(b, c) /\ ProductFits(c, b)
    BY <2>1, <2>2, ProductNeg DEF ProductFits
  <2>4. t \in Loose /\ CutTo(Value(t) * AMOUNT_MAX_FRACTION, Value(c) * Value(b), AMOUNT_MAX_FRACTION)
    BY <2>1, <2>3, TimesRightCut
  <2>5. Value(Neg(t)) = -Value(t)
    BY <2>1, <2>3, <2>4, CutIsSmall, NegValue
  <2>6. Times(a, b) = Neg(t)
    BY <1>1 DEF Times
  <2> HIDE DEF c, t
  <2>7. CutTo(Value(t) * AMOUNT_MAX_FRACTION, Value(b) * Value(c), AMOUNT_MAX_FRACTION)
    BY <2>2, <2>4
  <2>8. CutTo((-Value(t)) * AMOUNT_MAX_FRACTION, Value(b) * Value(a), AMOUNT_MAX_FRACTION)
    BY <2>1, <2>4, <2>7, CutNegRight
  <2> QED BY <2>2, <2>5, <2>6, <2>8
<1>2. CASE ~(a.integral < 0)
  <2>1. a.integral >= 0
    BY <1>2, SMT DEF Loose
  <2> QED BY <1>2, <2>1, TimesRightCut DEF Times
<1> QED BY <1>1, <1>2

LEMMA DividePosCut ==
  ASSUME NEW a \in Loose, NEW k \in Nat \ {0}, a.integral >= 0, Small(Value(a))
  PROVE  /\ DividePos(a, k) \in Loose /\ CutTo(Value(DividePos(a, k)) * k, Value(a), 2 * k)
         /\ Small(Value(DividePos(a, k)))
<1> DEFINE F == AMOUNT_MAX_FRACTION
           n == a.integral * F  f == a.fraction
           q == n \div k  r == f \div k
<1>1. F \in Nat \ {0} /\ n \in Nat /\ f \in 0..F
  BY AmountAssumption, SMT DEF Loose
<1>2. /\ q \in Int /\ n - k * q \in 0..(k - 1)
      /\ r \in Int /\ f - k * r \in 0..(k - 1)
  <2>1. n \in Int /\ f \in Int
    BY <1>1, SMT
  <2> HIDE DEF n, f
  <2> QED BY <2>1, DivRest
<1>3. PICK c \in Nat : c = (MaxIntegral + 1) * F
  BY UnitAndBound
<1>4. Value(a) = n + f /\ n + f < c
  BY <1>3 DEF Value, Small
<1> HIDE DEF F, n, f, q, r
<1>5. q \in Nat /\ q <= n /\ r \in Nat /\ r <= f
  <2>1. ASSUME NEW x \in Int, NEW y \in Nat, y - k * x \in 0..(k - 1) PROVE x \in Nat /\ x <= y
    <3>1. x >= 0
      <4>1. x <= -1 => k * x <= -k
        BY SMT
      <4> QED BY <2>1, <4>1, SMT
    <3>2. x <= k * x
      BY <3>1, SMT
    <3> QED BY <2>1, <3>1, <3>2, SMT
  <2>2. f \in Nat
    BY <1>1, SMT
  <2> QED BY <1>1, <1>2, <2>1, <2>2
<1>6. q < c /\ q + r \in Nat /\ q + r < c /\ r \in 0..F
  BY <1>1, <1>4, <1>5, SMT
<1>7. OfUnits(q) \in Loose /\ Value(OfUnits(q)) = q
  BY <1>3, <1>5, <1>6, OfUnitsValue DEF F
<1>8. Amt(0, r) \in Loose /\ Value(Amt(0, r)) = r
  <2>1. 0 \in (-MaxIntegral - 1)..MaxIntegral /\ 0 * F + r = r
    BY <1>1, <1>5, UnitAndBound, SMT
  <2> QED BY <1>6, <2>1, AmtInRange DEF F
<1>9. InRange(q + r, F) /\ Small(q + r)
  BY <1>3, <1>6, UnitAndBound, SMT DEF InRange, Small, F
<1>10. DividePos(a, k) \in Loose /\ Value(DividePos(a, k)) = q + r
  BY <1>7, <1>8, <1>9, PlusValue DEF DividePos, F, n, f, q, r
<1>11. (n + f) - (q + r) * k = (n - k * q) + (f - k * r)
  BY <1>1, <1>2, SMT
<1>12. (q + r) * k \in Int /\ k * q \in Int /\ k * r \in Int
  BY <1>2, SMT
<1>13. CutTo((q + r) * k, n + f, 2 * k)
  BY <1>1, <1>2, <1>11, <1>12, SMT DEF CutTo
<1> QED BY <1>4, <1>9, <1>10, <1>13

LEMMA DivideNatCut ==
  ASSUME NEW a \in Loose, NEW k \in Nat \ {0}, Small(Value(a))
  PROVE  /\ DivideNat(a, k) \in Loose /\ CutTo(Value(DivideNat(a, k)) * k, Value(a), 2 * k)
         /\ Small(Value(DivideNat(a, k)))
<1>1. CASE k = 1
  <2>1. Value(a) \in Int /\ Value(a) * 1 = Value(a)
    BY ValueInt, SMT
  <2>2. CutTo(Value(a) * 1, Value(a), 2 * 1)
    BY <2>1, SMT DEF CutTo
  <2> QED BY <1>1, <2>2 DEF DivideNat
<1>2. CASE k # 1 /\ a.integral < 0
  <2> DEFINE c == Neg(a)  t == DividePos(c, k)
  <2>1. c \in Loose /\ c.integral >= 0 /\ Value(c) = -Value(a) /\ Small(Value(c))
    BY <1>2, NegValue
  <2>2. t \in Loose /\ CutTo(Value(t) * k, Value(c), 2 * k) /\ Small(Value(t))
    BY <2>1, DividePosCut
  <2>3. DivideNat(a, k) = Neg(t) /\ Neg(t) \in Loose /\ Value(Neg(t)) = -Value(t) /\ Small(Value(Neg(t)))
    BY <1>2, <2>2, NegValue DEF DivideNat
  <2> HIDE DEF c, t
  <2>4. Value(t) \in Int /\ Value(a) \in Int /\ Value(c) \in Int
    BY <2>1, <2>2, ValueInt
  <2>5. Value(t) * k \in Int /\ (-Value(t)) * k = -(Value(t) * k) /\ Value(a) = -Value(c) /\ 2 * k \in Int
    BY <2>1, <2>4, SMT
  <2>6. CutTo(-(Value(t) * k), -Value(c), 2 * k)
    BY <2>2, <2>4, <2>5, CutNeg
  <2> QED BY <2>3, <2>5, <2>6
<1>3. CASE k # 1 /\ ~(a.integral < 0)
  <2>1. a.integral >= 0
    BY <1>3, SMT DEF Loose
  <2> QED BY <1>3, <2>1, DividePosCut DEF DivideNat
<1> QED BY <1>1, <1>2, <1>3

LEMMA DivideCut ==
  ASSUME NEW a \in Loose, NEW k \in Int, Small(Value(a))
  PROVE  /\ k > 0 => CutTo(Value(Divide(a, k)) * k, Value(a), 2 * k)
         /\ k < 0 => CutTo(Value(Divide(a, k)) * k, Value(a), -2 * k)
<1>1. CASE k > 0
  <2>1. k \in Nat \ {0} /\ ~(k < 0)
    BY <1>1, SMT
  <2> QED BY <2>1, DivideNatCut DEF Divide
<1>2. CASE k < 0
  <2> DEFINE m == -k  t == DivideNat(a, m)
  <2>1. m \in Nat \ {0}
    BY <1>2, SMT
  <2>2. t \in Loose /\ CutTo(Value(t) * m, Value(a), 2 * m) /\ Small(Value(t))
    BY <2>1, DivideNatCut
  <2>3. Divide(a, k) = Neg(t) /\ Value(Neg(t)) = -Value(t)
    BY <1>2, <2>2, NegValue DEF Divide
  <2>4. Value(t) \in Int
    BY <2>2, ValueInt
  <2> HIDE DEF t
  <2>5. (-Value(t)) * k = Value(t) * m /\ 2 * m = -2 * k /\ ~(k > 0)
    BY <1>2, <2>4, SMT
  <2> QED BY <1>2, <2>2, <2>3, <2>5
<1>3. CASE k = 0
  BY <1>3, SMT
<1> QED BY <1>1, <1>2, <1>3, SMT

(* Multiplying and dividing a running amount cuts the exact result towards *)
(* zero by less than one unit, or two, for every unit, every width of the  *)
(* integral part and all signs, whenever the result fits.                  *)
THEOREM RoundsAlways == AmountSpec => []AmountRounds
<1>1. AmountInv => AmountRounds
  <2> SUFFICES ASSUME AmountInv PROVE AmountRounds
    OBVIOUS
  <2>1. acc \in Loose /\ exact = Value(acc) /\ Small(Value(acc))
    BY ValueInt, FitsSmall DEF AmountInv
  <2>2. ASSUME NEW x \in Operands, InRange(exact * Value(x), AMOUNT_MAX_FRACTION * AMOUNT_MAX_FRACTION)
        PROVE  CutTo(Value(Times(acc, x)) * AMOUNT_MAX_FRACTION, exact * Value(x), AMOUNT_MAX_FRACTION)
    <3>1. x \in Loose /\ Small(Value(x))
      BY OperandLoose
    <3>2. exact * Value(x) \in Int
      BY <2>1, <3>1, ValueInt, SMT
    <3>3. PICK s \in Nat : s = AMOUNT_MAX_FRACTION * AMOUNT_MAX_FRACTION
      BY UnitAndBound, SMT
    <3>4. /\ MaxIntegral * s \in Nat /\ (MaxIntegral + 1) * s = MaxIntegral * s + s
          /\ (MaxIntegral + 1) * AMOUNT_MAX_FRACTION * AMOUNT_MAX_FRACTION = (MaxIntegral + 1) * s
      <4>1. MaxIntegral * s \in Nat /\ (MaxIntegral + 1) * s = MaxIntegral * s + s
        BY UnitAndBound, SMT
      <4>2. (MaxIntegral + 1) * AMOUNT_MAX_FRACTION * AMOUNT_MAX_FRACTION
              = (MaxIntegral + 1) * (AMOUNT_MAX_FRACTION * AMOUNT_MAX_FRACTION)
        BY UnitAndBound, SMT
      <4> QED BY <3>3, <4>1, <4>2
    <3>5. -(MaxIntegral * s) < exact * Value(x) /\ exact * Value(x) < (MaxIntegral + 1) * s
      BY <2>2, <3>3 DEF InRange
    <3>6. ProductFits(acc, x)
      BY <2>1, <3>2, <3>4, <3>5, SMT DEF ProductFits
    <3> QED BY <2>1, <3>1, <3>6, TimesCut
  <2>3. \A k \in Factors : k \in Int
    BY AmountAssumption, SMT
  <2> QED BY <2>1, <2>2, <2>3, DivideCut DEF AmountRounds
<1> QED BY <1>1, InitAmount, NextInv, PTL DEF AmountSpec

-----------------------------------------------------------------------------
(* The integral encoding. *)

(* Some positions of a word have a highest one: it is found byte by byte. *)
Reaches(S, k) == \E j \in S : j >= k

LEMMA HighestOfByte ==
  ASSUME NEW S, \A j \in S : j \in Nat, NEW k \in Nat, Reaches(S, k), ~Reaches(S, k + 8)
  PROVE  \E i \in S : \A j \in S : j <= i
<1>1. \A j \in S : j < k + 8
  BY SMT DEF Reaches
<1>2. PICK j \in S : j >= k
  BY DEF Reaches
<1> QED
  BY <1>1, <1>2, SMT

LEMMA HighestIs ==
  ASSUME NEW S, S \subseteq Bits(64), S # {}
  PROVE  Highest(S) \in S /\ \A j \in S : j <= Highest(S)
<1>1. \A j \in S : j \in Nat /\ j < 64
  BY SMT DEF Bits
<1>2. Reaches(S, 0) /\ ~Reaches(S, 64)
  BY <1>1, SMT DEF Reaches
<1>3. \/ Reaches(S, 0) /\ ~Reaches(S, 0 + 8)
      \/ Reaches(S, 8) /\ ~Reaches(S, 8 + 8)
      \/ Reaches(S, 16) /\ ~Reaches(S, 16 + 8)
      \/ Reaches(S, 24) /\ ~Reaches(S, 24 + 8)
      \/ Reaches(S, 32) /\ ~Reaches(S, 32 + 8)
      \/ Reaches(S, 40) /\ ~Reaches(S, 40 + 8)
      \/ Reaches(S, 48) /\ ~Reaches(S, 48 + 8)
      \/ Reaches(S, 56) /\ ~Reaches(S, 56 + 8)
  BY <1>2, SMT
<1>4. \E i \in S : \A j \in S : j <= i
  BY <1>1, <1>3, HighestOfByte
<1> QED
  BY <1>4 DEF Highest

(* What encode leaves out is a copy of the sign. *)
LEMMA SignGoesOn ==
  ASSUME NEW w \in [Bits(64) -> {0, 1}], NEW b \in Lengths(w)
  PROVE  b \in 0..8 /\ (b < 8 => \A i \in Bits(64) : i >= 7 * b + 6 => w[i] = w[63])
<1>1. CASE Significant(w) = {}
  BY <1>1 DEF Lengths, Significant
<1>2. CASE Significant(w) # {}
  <2>1. PICK h : h = Highest(Significant(w))
    OBVIOUS
  <2>2. h \in Bits(64) /\ \A i \in Bits(64) : w[i] # w[63] => i <= h
    BY <1>2, <2>1, HighestIs DEF Significant
  <2>3. b = BytesFor(h + 2)
    BY <1>2, <2>1 DEF Lengths
  <2>4. b \in 0..8 /\ (b < 8 => h <= 7 * b + 5)
    BY <2>2, <2>3, SMT DEF BytesFor, Bits
  <2> QED
    BY <2>2, <2>4, SMT DEF Bits
<1> QED
  BY <1>1, <1>2

LEMMA LeadingOnesIs ==
  ASSUME NEW w, NEW b \in 0..8
  PROVE  LeadingOnes(Encode(w, b)) = b
<1>1. PICK c : c = Encode(w, b)
  OBVIOUS
<1>2. /\ \A k \in Bits(b) : c[k] = 1
      /\ b < 8 => c[b] = 0
  BY <1>1, SMT DEF Encode, Bits
<1>3. ASSUME NEW n \in 0..8, \A k \in Bits(n) : c[k] = 1, n < 8 => c[n] = 0
      PROVE  n = b
  <2>1. ~(n < b)
    BY <1>2, <1>3, SMT DEF Bits
  <2>2. ~(b < n)
    BY <1>2, <1>3, SMT DEF Bits
  <2> QED
    BY <2>1, <2>2, SMT
<1>4. LeadingOnes(c) = b
  BY <1>2, <1>3 DEF LeadingOnes
<1> QED
  BY <1>1, <1>4

LEMMA UnpackInverts ==
  ASSUME NEW w \in [Bits(64) -> {0, 1}], NEW b \in Lengths(w)
  PROVE  Unpack(Encode(w, b), b) = w
<1>1. PICK c : c = Encode(w, b)
  OBVIOUS
<1>2. b \in 0..8 /\ (b < 8 => \A i \in Bits(64) : i >= 7 * b + 6 => w[i] = w[63])
  BY SignGoesOn, SMT
<1>3. ASSUME NEW i \in Bits(64) PROVE Unpack(c, b)[i] = w[i]
  <2>1. CASE b = 8
    <3>1. i + 8 \in Bits(8 * (b + 1)) /\ ~(i + 8 < b) /\ (i + 8) - 8 = i
      BY <2>1, SMT DEF Bits
    <3> QED
      BY <1>1, <2>1, <3>1 DEF Unpack, Encode
  <2>2. CASE b < 8 /\ i < 7 * (b + 1)
    <3>1. PICK k : k = i + b + 1
      OBVIOUS
    <3>2. k \in Bits(8 * (b + 1)) /\ ~(k < b) /\ k # b /\ k - b - 1 = i
      BY <1>2, <2>2, <3>1, SMT DEF Bits
    <3>3. c[k] = w[k - b - 1]
      BY <1>1, <2>2, <3>2, SMT DEF Encode
    <3> QED
      BY <2>2, <3>1, <3>2, <3>3, SMT DEF Unpack
  <2>3. CASE b < 8 /\ ~(i < 7 * (b + 1))
    <3>1. PICK k : k = 8 * b + 7
      OBVIOUS
    <3>2. k \in Bits(8 * (b + 1)) /\ ~(k < b) /\ k # b /\ k - b - 1 = 7 * b + 6
      BY <1>2, <2>3, <3>1, SMT DEF Bits
    <3>3. c[k] = w[k - b - 1]
      BY <1>1, <2>3, <3>2, SMT DEF Encode
    <3>4. w[7 * b + 6] = w[63] /\ w[i] = w[63]
      BY <1>2, <2>3, SMT DEF Bits
    <3> QED
      BY <2>3, <3>1, <3>2, <3>3, <3>4, SMT DEF Unpack
  <2> QED
    BY <1>2, <2>1, <2>2, <2>3, SMT
<1> QED
  BY <1>1, <1>3 DEF Unpack

CodecInv ==
  \/ bufSize = 0
  \/ \E w \in Words : \E b \in Lengths(w) :
       word = w /\ code = Encode(w, b) /\ bufSize \in 0..(b + 1)

LEMMA CodecStep == CodecInv /\ [CodecNext]_codecVars => CodecInv'
<1> SUFFICES ASSUME CodecInv, [CodecNext]_codecVars PROVE CodecInv'
  OBVIOUS
<1>1. ASSUME NEW w \in Words, NEW b \in Lengths(w), EncodeWord(w, b) PROVE CodecInv'
  <2>1. b \in 0..8
    BY CodecAssumption, SignGoesOn
  <2> QED
    BY <1>1, <2>1, SMT DEF EncodeWord, CodecInv
<1>2. CASE Cut
  <2>0. PICK w \in Words : \E b \in Lengths(w) :
          word = w /\ code = Encode(w, b) /\ bufSize \in 0..(b + 1)
    BY <1>2, SMT DEF Cut, CodecInv
  <2>1. PICK b \in Lengths(w) :
          word = w /\ code = Encode(w, b) /\ bufSize \in 0..(b + 1)
    BY <2>0
  <2>2. b \in 0..8
    BY CodecAssumption, SignGoesOn
  <2> QED
    BY <1>2, <2>1, <2>2, SMT DEF Cut, CodecInv
<1>3. ASSUME NEW i \in Indices, NameTransaction(i) PROVE CodecInv'
  BY <1>3 DEF NameTransaction, CodecInv
<1>4. CASE UNCHANGED codecVars
  BY <1>4 DEF codecVars, CodecInv
<1> QED
  BY <1>1, <1>2, <1>3, <1>4 DEF CodecNext

(* For every 64-bit word decode gives back the word and the length encode  *)
(* used, with whatever the intrinsics make of 0 and -1, and it refuses     *)
(* every buffer that ends early.                                           *)
THEOREM DecodeInvertsAlways == CodecSpec => []DecodeInverts
<1>1. CodecInit => CodecInv
  BY DEF CodecInit, CodecInv
<1>2. CodecInv => DecodeInverts
  <2> SUFFICES ASSUME CodecInv PROVE DecodeInverts
    OBVIOUS
  <2>1. CASE bufSize = 0
    BY <2>1, SMT DEF DecodeInverts, Uncut, Decode
  <2>2. CASE bufSize # 0
    <3>0. PICK w \in Words : \E b \in Lengths(w) :
            word = w /\ code = Encode(w, b) /\ bufSize \in 0..(b + 1)
      BY <2>2 DEF CodecInv
    <3>1. PICK b \in Lengths(w) :
            word = w /\ code = Encode(w, b) /\ bufSize \in 0..(b + 1)
      BY <3>0
    <3>2. b \in 0..8 /\ w \in [Bits(64) -> {0, 1}]
      BY CodecAssumption, SignGoesOn
    <3>3. LeadingOnes(code) = b /\ Unpack(code, b) = word
      BY <3>1, <3>2, LeadingOnesIs, UnpackInverts
    <3>4. DOMAIN code = 0..(8 * (b + 1) - 1)
      BY <3>1 DEF Encode, Bits
    <3>5. Uncut <=> bufSize = b + 1
      <4>1. bufSize \in 1..(b + 1) /\ b \in Nat
        BY <2>2, <3>1, <3>2, SMT
      <4>2. bufSize < b + 1 => 8 * b + 7 \in DOMAIN code /\ 8 * b + 7 \notin Bits(8 * bufSize)
        BY <3>4, <4>1, SMT DEF Bits
      <4>3. bufSize = b + 1 => DOMAIN code = Bits(8 * bufSize)
        BY <3>4, <4>1 DEF Bits
      <4> QED
        BY <4>1, <4>2, <4>3, SMT DEF Uncut
    <3> QED
      BY <2>2, <3>1, <3>2, <3>3, <3>5, SMT DEF DecodeInverts, Decode
  <2> QED
    BY <2>1, <2>2
<1> QED
  BY <1>1, <1>2, CodecStep, PTL DEF CodecSpec
=============================================================================
