--------------------------- MODULE TcpPacket_proofs ---------------------------
(***************************************************************************)
(* Proofs about packets on the wire, for reads and bodies of any size and  *)
(* any number of packets: what is handled under a whole header is a packet *)
(* as it was sent, whole unless the read ended inside it, and in order;    *)
(* its body leaves room for the byte that ends a C string; and nothing is  *)
(* garbled before a read ends inside a frame.                              *)
(***************************************************************************)
EXTENDS TcpPacket, SequenceTheorems, FiniteSetTheorems, TLAPS

-----------------------------------------------------------------------------
(* A frame as a sequence of bytes.                                         *)

Fields == {"length", "func_id", "version", "reserved", "body"}

Byte == [of : Nat, field : Fields, byte : Nat]

B(id, field, k) == [of |-> id, field |-> field, byte |-> k]

\* The bytes of the frame before each field.
Before == [length |-> 0, func_id |-> 4, version |-> 6, reserved |-> 7, body |-> 8]

\* The place of a byte in its frame, and the byte at a place.
Offset(b) == Before[b.field] + b.byte

FrameByte(id, o) ==
  IF o <= 4 THEN B(id, "length", o)
  ELSE IF o <= 6 THEN B(id, "func_id", o - 4)
  ELSE IF o = 7 THEN B(id, "version", 1)
  ELSE IF o = 8 THEN B(id, "reserved", 1)
  ELSE B(id, "body", o - 8)

LEMMA ByteFacts ==
  ASSUME NEW id \in Nat, NEW o \in Nat \ {0}
  PROVE  LET b == FrameByte(id, o) IN
           /\ b \in Byte /\ b.of = id /\ Offset(b) = o
           /\ Starts(b) <=> o = 1
BY DEF FrameByte, Byte, B, Fields, Offset, Before, Starts

LEMMA BytesFacts ==
  ASSUME NEW id \in Nat, NEW field \in Fields, NEW width \in Nat
  PROVE  LET s == Bytes(id, field, width) IN
           /\ s \in Seq(Byte) /\ Len(s) = width
           /\ \A k \in 1..width : s[k] = B(id, field, k)
<1>1. \A k \in 1..width : B(id, field, k) \in Byte
  BY DEF B, Byte
<1>2. Bytes(id, field, width) = [k \in 1..width |-> B(id, field, k)]
  BY DEF Bytes, B
<1>3. [k \in 1..width |-> B(id, field, k)] \in Seq(Byte)
  BY <1>1, SeqDef
<1> QED BY <1>2, <1>3, LenProperties

Frame(id, len) == serializeconstPacket(Packet(id, len))

LEMMA FieldBytes ==
  ASSUME NEW id \in Nat
  PROVE  /\ \A k \in 1..4 : B(id, "length", k) = FrameByte(id, k)
         /\ \A k \in 1..2 : B(id, "func_id", k) = FrameByte(id, k + 4)
         /\ \A k \in 1..1 : B(id, "version", k) = FrameByte(id, k + 6)
         /\ \A k \in 1..1 : B(id, "reserved", k) = FrameByte(id, k + 7)
         /\ \A k \in Nat \ {0} : B(id, "body", k) = FrameByte(id, k + 8)
BY DEF FrameByte

\* The library's facts, about a sequence that has a name.
Joined(S, s, u, t) ==
  /\ t \in Seq(S) /\ Len(t) = Len(s) + Len(u)
  /\ \A o \in 1..Len(s) : t[o] = s[o]
  /\ \A o \in (Len(s) + 1)..(Len(s) + Len(u)) : t[o] = u[o - Len(s)]

LEMMA Concat ==
  ASSUME NEW S, NEW s \in Seq(S), NEW u \in Seq(S)
  PROVE  Joined(S, s, u, s \o u)
<1> DEFINE t == s \o u
<1>1. Len(s) \in Nat /\ Len(u) \in Nat
  BY LenProperties
<1>2. /\ t \in Seq(S) /\ Len(t) = Len(s) + Len(u)
      /\ \A o \in 1..(Len(s) + Len(u)) :
           t[o] = IF o <= Len(s) THEN s[o] ELSE u[o - Len(s)]
  BY ConcatProperties
<1> HIDE DEF t
<1>3. Joined(S, s, u, t)
  BY <1>1, <1>2 DEF Joined
<1> QED BY <1>3 DEF t

Slice(S, s, m, n, t) ==
  /\ t \in Seq(S) /\ Len(t) = n - m + 1
  /\ \A i \in 1..(n - m + 1) : t[i] = s[m + i - 1]

LEMMA Cut ==
  ASSUME NEW S, NEW s \in Seq(S), NEW m \in Nat \ {0}, NEW n \in Nat,
         n <= Len(s), m <= n + 1
  PROVE  Slice(S, s, m, n, SubSeq(s, m, n))
<1> DEFINE t == SubSeq(s, m, n)
<1>1. \A i \in m..n : s[i] \in S
  BY ElementOfSeq, LenProperties
<1>2. /\ t \in Seq(S) /\ Len(t) = IF m <= n THEN n - m + 1 ELSE 0
      /\ \A i \in 1..(n - m + 1) : t[i] = s[m + i - 1]
  BY <1>1, SubSeqProperties
<1> HIDE DEF t
<1>3. Slice(S, s, m, n, t)
  BY <1>2 DEF Slice
<1> QED BY <1>3 DEF t

\* The first n bytes of the frame, and a field at a place in it.
Written(id, s, n) ==
  s \in Seq(Byte) /\ Len(s) = n /\ \A o \in 1..n : s[o] = FrameByte(id, o)

FieldAt(id, field, w, n) ==
  field \in Fields /\ \A k \in 1..w : B(id, field, k) = FrameByte(id, k + n)

LEMMA Places ==
  ASSUME NEW id \in Nat
  PROVE  /\ FieldAt(id, "length", 4, 0) /\ FieldAt(id, "func_id", 2, 4)
         /\ FieldAt(id, "version", 1, 6) /\ FieldAt(id, "reserved", 1, 7)
         /\ \A len \in Nat : FieldAt(id, "body", len, 8)
BY DEF FieldAt, Fields, FrameByte

LEMMA FieldWritten ==
  ASSUME NEW id \in Nat, NEW n \in Nat, NEW w \in Nat, NEW field, NEW s,
         Written(id, s, n), FieldAt(id, field, w, n)
  PROVE  Written(id, s \o Bytes(id, field, w), n + w)
<1> DEFINE u == Bytes(id, field, w)
           t == s \o u
<1>1. /\ u \in Seq(Byte) /\ Len(u) = w
      /\ \A k \in 1..w : u[k] = FrameByte(id, k + n)
  BY BytesFacts DEF FieldAt
<1>2. /\ s \in Seq(Byte) /\ Len(s) = n /\ \A o \in 1..n : s[o] = FrameByte(id, o)
  BY DEF Written
<1>3. t = s \o u
  OBVIOUS
<1> HIDE DEF u, t
<1>4. Joined(Byte, s, u, t)
  BY <1>1, <1>2, <1>3, Concat
<1>5. ASSUME NEW o \in (n + 1)..(n + w)
      PROVE  t[o] = FrameByte(id, o)
  <2>1. o - n \in 1..w /\ (o - n) + n = o
    OBVIOUS
  <2>2. t[o] = u[o - n]
    BY <1>1, <1>2, <1>4 DEF Joined
  <2>3. u[o - n] = FrameByte(id, (o - n) + n)
    BY <1>1, <2>1
  <2> QED BY <2>1, <2>2, <2>3
<1>6. \A o \in 1..n : t[o] = FrameByte(id, o)
  BY <1>2, <1>4 DEF Joined
<1>7. \A o \in 1..(n + w) : t[o] = FrameByte(id, o)
  BY <1>5, <1>6
<1>8. t \in Seq(Byte) /\ Len(t) = n + w
  BY <1>1, <1>2, <1>4 DEF Joined
<1>9. Written(id, t, n + w)
  BY <1>7, <1>8 DEF Written
<1> QED BY <1>9 DEF t, u

\* The fields are written one after the other.
LEMMA FrameFacts ==
  ASSUME NEW id \in Nat, NEW len \in Nat
  PROVE  Written(id, Frame(id, len), HeaderLen + len)
<1> DEFINE s1 == Bytes(id, "length", 4)
           s2 == s1 \o Bytes(id, "func_id", 2)
           s3 == s2 \o Bytes(id, "version", 1)
           s4 == s3 \o Bytes(id, "reserved", 1)
           s5 == s4 \o Bytes(id, "body", len)
<1>1. Frame(id, len) = s5
  BY DEF Frame, serializeconstPacket, Packet
<1>2. Written(id, s1, 4)
  <2>1. /\ s1 \in Seq(Byte) /\ Len(s1) = 4
        /\ \A k \in 1..4 : s1[k] = B(id, "length", k)
    <3>1. "length" \in Fields /\ 4 \in Nat
      BY DEF Fields
    <3> QED BY <3>1, BytesFacts
  <2> HIDE DEF s1
  <2>2. \A k \in 1..4 : FrameByte(id, k) = B(id, "length", k)
    BY DEF FrameByte
  <2> QED BY <2>1, <2>2 DEF Written
<1>3. Written(id, s2, 4 + 2)
  BY <1>2, Places, FieldWritten
<1>4. Written(id, s3, 6 + 1)
  BY <1>3, Places, FieldWritten
<1>5. Written(id, s4, 7 + 1)
  BY <1>4, Places, FieldWritten
<1>6. Written(id, s5, 8 + len)
  BY <1>5, Places, FieldWritten
<1> QED BY <1>1, <1>6 DEF HeaderLen

\* A field is read from where it was written, whatever follows the frame.
Begun(id, ba, size) ==
  /\ ba \in Seq(Byte) /\ size <= Len(ba)
  /\ \A o \in 1..size : ba[o] = FrameByte(id, o)

ReadBack(id, ba, field, w, n) ==
  SubSeq(ba, n + 1, n + w) = Bytes(id, field, w)

LEMMA FieldRead ==
  ASSUME NEW id \in Nat, NEW n \in Nat, NEW w \in Nat, NEW size \in Nat,
         NEW field, NEW ba, Begun(id, ba, size),
         FieldAt(id, field, w, n), n + w <= size
  PROVE  ReadBack(id, ba, field, w, n)
<1> DEFINE s == SubSeq(ba, n + 1, n + w)
           t == Bytes(id, field, w)
<1>1. s = SubSeq(ba, n + 1, n + w)
  OBVIOUS
<1>2. /\ t \in Seq(Byte) /\ Len(t) = w
      /\ \A k \in 1..w : t[k] = FrameByte(id, k + n)
  BY BytesFacts DEF FieldAt
<1> HIDE DEF s, t
<1>3. /\ ba \in Seq(Byte) /\ size <= Len(ba) /\ Len(ba) \in Nat
      /\ \A o \in 1..size : ba[o] = FrameByte(id, o)
  BY LenProperties DEF Begun
<1>4. Slice(Byte, ba, n + 1, n + w, s)
  BY <1>1, <1>3, Cut
<1>5. ASSUME NEW k \in 1..w
      PROVE  s[k] = t[k]
  <2>1. /\ k \in 1..((n + w) - (n + 1) + 1)
        /\ (n + 1) + k - 1 = k + n /\ k + n \in 1..size
    OBVIOUS
  <2>2. s[k] = ba[k + n]
    BY <1>4, <2>1 DEF Slice
  <2> QED BY <1>2, <1>3, <2>1, <2>2
<1>6. s \in Seq(Byte) /\ Len(s) = w
  BY <1>4 DEF Slice
<1>7. s = t
  BY <1>2, <1>5, <1>6, SeqEqual
<1> QED BY <1>7 DEF s, t, ReadBack

LEMMA DecodeFrame ==
  ASSUME NEW id \in Nat, NEW len \in Nat, NEW ba, Begun(id, ba, HeaderLen + len)
  PROVE  Decode(ba, len) = Packet(id, len)
<1>1. Begun(id, ba, 8 + len) /\ 8 + len \in Nat
  BY DEF HeaderLen
<1>2. /\ ReadBack(id, ba, "length", 4, 0) /\ ReadBack(id, ba, "func_id", 2, 4)
      /\ ReadBack(id, ba, "version", 1, 6) /\ ReadBack(id, ba, "reserved", 1, 7)
      /\ ReadBack(id, ba, "body", len, 8)
  BY <1>1, Places, FieldRead
<1>3. /\ SubSeq(ba, 1, 4) = Bytes(id, "length", 4)
      /\ SubSeq(ba, 5, 6) = Bytes(id, "func_id", 2)
      /\ SubSeq(ba, 7, 7) = Bytes(id, "version", 1)
      /\ SubSeq(ba, 8, 8) = Bytes(id, "reserved", 1)
      /\ SubSeq(ba, 9, 8 + len) = Bytes(id, "body", len)
  BY <1>2 DEF ReadBack
<1> QED BY <1>3, Zenon DEF Decode, Packet

-----------------------------------------------------------------------------
(* The stream.                                                             *)

Size(lens, id) == HeaderLen + lens[id]

\* From the i-th byte of s on there are the bytes o, o + 1, ... of the frame.
From(s, i, id, o, last) ==
  \A p \in o..last :
    i + p - o \in 1..Len(s) /\ s[i + p - o] = FrameByte(id, p)

\* Every byte is one of a frame that was sent, and the rest of that frame
\* comes after it, with nothing in between.
Aligned(s, lens) ==
  \A i \in 1..Len(s) :
    /\ s[i].of \in 1..Len(lens)
    /\ Offset(s[i]) \in 1..Size(lens, s[i].of)
    /\ From(s, i, s[i].of, Offset(s[i]), Size(lens, s[i].of))

\* The frames begin in the order in which they were sent.
Ascending(s) ==
  \A i, j \in 1..Len(s) :
    i < j /\ Starts(s[i]) /\ Starts(s[j]) => s[i].of < s[j].of

LEMMA SizeFacts ==
  ASSUME NEW lens \in Seq(Nat), NEW id \in 1..Len(lens)
  PROVE  Size(lens, id) \in Nat /\ Size(lens, id) >= HeaderLen
<1>1. lens[id] \in Nat
  BY ElementOfSeq
<1> QED BY <1>1 DEF Size, HeaderLen

LEMMA OffsetFacts ==
  ASSUME NEW b \in Byte
  PROVE  Offset(b) \in Nat /\ b.of \in Nat
BY DEF Byte, Offset, Before, Fields

\* What a read leaves is aligned.
LEMMA AlignedRest ==
  ASSUME NEW s \in Seq(Byte), NEW lens \in Seq(Nat), Aligned(s, lens),
         NEW n \in 1..Len(s), NEW t, Slice(Byte, s, n + 1, Len(s), t)
  PROVE  Aligned(t, lens)
<1>1. Len(s) \in Nat /\ Len(lens) \in Nat
  BY LenProperties
<1>2. /\ t \in Seq(Byte) /\ Len(t) = Len(s) - n
      /\ \A i \in 1..Len(t) : i + n \in 1..Len(s) /\ t[i] = s[i + n]
  BY <1>1 DEF Slice
<1>3. ASSUME NEW i \in 1..Len(t)
      PROVE  /\ t[i].of \in 1..Len(lens)
             /\ Offset(t[i]) \in 1..Size(lens, t[i].of)
             /\ From(t, i, t[i].of, Offset(t[i]), Size(lens, t[i].of))
  <2> DEFINE b == t[i]
             o == Offset(b)
             last == Size(lens, b.of)
  <2>1. b = s[i + n] /\ i + n \in 1..Len(s)
    BY <1>2
  <2>2. b.of \in 1..Len(lens) /\ o \in 1..last /\ From(s, i + n, b.of, o, last)
    BY <2>1 DEF Aligned
  <2>3. last \in Nat
    BY <2>2, SizeFacts
  <2> HIDE DEF b, o, last
  <2>4. ASSUME NEW p \in o..last
        PROVE  i + p - o \in 1..Len(t) /\ t[i + p - o] = FrameByte(b.of, p)
    <3>1. (i + n) + p - o \in 1..Len(s) /\ s[(i + n) + p - o] = FrameByte(b.of, p)
      BY <2>2 DEF From
    <3>2. /\ i + p - o \in 1..Len(t)
          /\ (i + p - o) + n = (i + n) + p - o
      BY <1>1, <1>2, <2>2, <2>3, <3>1
    <3>3. t[i + p - o] = s[(i + p - o) + n]
      BY <1>2, <3>2
    <3> QED BY <3>1, <3>2, <3>3
  <2>5. From(t, i, b.of, o, last)
    BY <2>4 DEF From
  <2> QED BY <2>2, <2>5 DEF b, o, last
<1> QED BY <1>3 DEF Aligned

LEMMA AscendingRest ==
  ASSUME NEW s \in Seq(Byte), Ascending(s),
         NEW n \in 1..Len(s), NEW t, Slice(Byte, s, n + 1, Len(s), t)
  PROVE  /\ Ascending(t)
         /\ \A i \in 1..Len(t) : i + n \in 1..Len(s) /\ t[i] = s[i + n]
<1>1. Len(s) \in Nat
  BY LenProperties
<1>2. /\ Len(t) = Len(s) - n
      /\ \A i \in 1..Len(t) : i + n \in 1..Len(s) /\ t[i] = s[i + n]
  BY <1>1 DEF Slice
<1>3. ASSUME NEW i \in 1..Len(t), NEW j \in 1..Len(t), i < j,
             Starts(t[i]), Starts(t[j])
      PROVE  t[i].of < t[j].of
  <2>1. i + n < j + n
    BY <1>3
  <2> QED BY <1>2, <1>3, <2>1 DEF Ascending
<1> QED BY <1>2, <1>3 DEF Ascending

\* So is the stream once a frame more has been written to it.
LEMMA AlignedSent ==
  ASSUME NEW s \in Seq(Byte), NEW lens \in Seq(Nat), Aligned(s, lens),
         NEW len \in Nat, NEW id, id = Len(lens) + 1,
         NEW u, Written(id, u, HeaderLen + len), NEW t, Joined(Byte, s, u, t),
         NEW lens1 \in Seq(Nat), Len(lens1) = id, lens1[id] = len,
         \A i \in 1..Len(lens) : lens1[i] = lens[i]
  PROVE  Aligned(t, lens1)
<1>1. Len(s) \in Nat /\ Len(lens) \in Nat
  BY LenProperties
<1>2. /\ u \in Seq(Byte) /\ Len(u) = HeaderLen + len
      /\ \A o \in 1..(HeaderLen + len) : u[o] = FrameByte(id, o)
  BY DEF Written
<1>3. /\ t \in Seq(Byte) /\ Len(t) = Len(s) + Len(u)
      /\ \A o \in 1..Len(s) : t[o] = s[o]
      /\ \A o \in (Len(s) + 1)..(Len(s) + Len(u)) : t[o] = u[o - Len(s)]
  BY DEF Joined
<1>4. Size(lens1, id) = HeaderLen + len
  BY DEF Size
<1>5. \A i \in 1..Len(lens) : Size(lens1, i) = Size(lens, i)
  BY DEF Size
<1> DEFINE F == HeaderLen + len
<1>6. F \in Nat /\ F >= 8
  BY DEF HeaderLen
<1> HIDE DEF F
<1>7. ASSUME NEW i \in 1..Len(s)
      PROVE  /\ t[i].of \in 1..Len(lens1)
             /\ Offset(t[i]) \in 1..Size(lens1, t[i].of)
             /\ From(t, i, t[i].of, Offset(t[i]), Size(lens1, t[i].of))
  <2> DEFINE b == t[i]
             o == Offset(b)
             last == Size(lens, b.of)
  <2>1. b = s[i]
    BY <1>3
  <2>2. b.of \in 1..Len(lens) /\ o \in 1..last /\ From(s, i, b.of, o, last)
    BY <2>1 DEF Aligned
  <2>3. Size(lens1, b.of) = last
    BY <1>5, <2>2
  <2> HIDE DEF b, o, last
  <2>4. ASSUME NEW p \in o..last
        PROVE  i + p - o \in 1..Len(t) /\ t[i + p - o] = FrameByte(b.of, p)
    <3>1. i + p - o \in 1..Len(s) /\ s[i + p - o] = FrameByte(b.of, p)
      BY <2>2 DEF From
    <3>2. Len(u) \in Nat
      BY <1>2, <1>6 DEF F
    <3> QED BY SMTT(30), <1>1, <1>3, <3>1, <3>2
  <2>5. From(t, i, b.of, o, last)
    BY <2>4 DEF From
  <2>6. b.of \in 1..Len(lens1)
    BY <1>1, <2>2
  <2> QED BY <2>2, <2>3, <2>5, <2>6 DEF b, o, last
<1>8. ASSUME NEW i \in 1..Len(t), i > Len(s)
      PROVE  /\ t[i].of \in 1..Len(lens1)
             /\ Offset(t[i]) \in 1..Size(lens1, t[i].of)
             /\ From(t, i, t[i].of, Offset(t[i]), Size(lens1, t[i].of))
  <2> DEFINE b == t[i]
             o == i - Len(s)
  <2>1. o \in 1..F /\ i \in (Len(s) + 1)..(Len(s) + Len(u))
    BY <1>1, <1>2, <1>3, <1>6, <1>8 DEF F
  <2>2. b = FrameByte(id, o)
    BY <1>2, <1>3, <2>1 DEF F
  <2>3. id \in Nat /\ o \in Nat \ {0}
    BY <1>1, <1>6, <2>1
  <2> HIDE DEF b, o
  <2>4. b.of = id /\ Offset(b) = o
    BY <2>2, <2>3, ByteFacts
  <2>5. ASSUME NEW p \in o..F
        PROVE  i + p - o \in 1..Len(t) /\ t[i + p - o] = FrameByte(id, p)
    <3>1. /\ i + p - o = Len(s) + p
          /\ Len(s) + p \in (Len(s) + 1)..(Len(s) + Len(u))
          /\ (Len(s) + p) - Len(s) = p /\ p \in 1..F
      BY SMTT(30), <1>1, <1>2, <1>6, <2>1 DEF F, o
    <3>2. t[Len(s) + p] = u[p]
      BY <1>3, <3>1
    <3>3. Len(s) + p \in 1..Len(t)
      BY <1>1, <1>3, <3>1
    <3> QED BY <1>2, <3>1, <3>2, <3>3 DEF F
  <2>6. From(t, i, id, o, F)
    BY <2>5 DEF From
  <2>7. id \in 1..Len(lens1)
    BY <1>1
  <2> QED BY <1>4, <2>1, <2>4, <2>6, <2>7 DEF b, F
<1>9. \A i \in 1..Len(t) : i \in 1..Len(s) \/ i > Len(s)
  BY <1>1, <1>3
<1> QED BY <1>7, <1>8, <1>9 DEF Aligned

LEMMA AscendingSent ==
  ASSUME NEW s \in Seq(Byte), NEW lens \in Seq(Nat), Aligned(s, lens), Ascending(s),
         NEW len \in Nat, NEW id, id = Len(lens) + 1,
         NEW u, Written(id, u, HeaderLen + len), NEW t, Joined(Byte, s, u, t)
  PROVE  /\ Ascending(t)
         /\ \A i \in 1..Len(s) : i \in 1..Len(t) /\ t[i] = s[i]
         /\ \A i \in 1..Len(t) :
              Starts(t[i]) => \/ i \in 1..Len(s)
                              \/ i = Len(s) + 1 /\ t[i].of = id
         /\ Len(t) = Len(s) + HeaderLen + len
         /\ Len(s) + 1 \in 1..Len(t) /\ Starts(t[Len(s) + 1])
         /\ t[Len(s) + 1].of = id
<1>1. Len(s) \in Nat /\ Len(lens) \in Nat
  BY LenProperties
<1> DEFINE F == HeaderLen + len
<1>2. /\ u \in Seq(Byte) /\ Len(u) = F
      /\ \A o \in 1..F : u[o] = FrameByte(id, o)
  BY DEF Written
<1>3. /\ t \in Seq(Byte) /\ Len(t) = Len(s) + Len(u)
      /\ \A o \in 1..Len(s) : t[o] = s[o]
      /\ \A o \in (Len(s) + 1)..(Len(s) + Len(u)) : t[o] = u[o - Len(s)]
  BY DEF Joined
<1>4. F \in Nat /\ F >= 8
  BY DEF HeaderLen
<1> HIDE DEF F
<1>5. \A i \in 1..Len(s) : i \in 1..Len(t) /\ t[i] = s[i] /\ s[i].of < id
  BY <1>1, <1>2, <1>3, <1>4 DEF Aligned
<1>6. ASSUME NEW i \in 1..Len(t), i > Len(s)
      PROVE  t[i].of = id /\ (Starts(t[i]) <=> i = Len(s) + 1)
  <2> DEFINE o == i - Len(s)
  <2>1. /\ o \in 1..F /\ o \in Nat \ {0} /\ id \in Nat
        /\ i \in (Len(s) + 1)..(Len(s) + Len(u)) /\ (o = 1 <=> i = Len(s) + 1)
    BY <1>1, <1>2, <1>3, <1>4, <1>6
  <2>2. t[i] = FrameByte(id, o)
    BY <1>2, <1>3, <2>1
  <2> HIDE DEF o
  <2> QED BY SMTT(30), <2>1, <2>2, ByteFacts
<1>7. ASSUME NEW i \in 1..Len(t), NEW j \in 1..Len(t), i < j,
             Starts(t[i]), Starts(t[j])
      PROVE  t[i].of < t[j].of
  <2>1. i \in 1..Len(s)
    <3>1. i \in 1..Len(s) \/ i > Len(s)
      BY <1>1, <1>2, <1>3, <1>4
    <3>2. CASE i > Len(s)
      <4>1. i = Len(s) + 1
        BY <1>6, <1>7, <3>2
      <4>2. j > Len(s)
        BY <1>1, <1>2, <1>3, <1>4, <1>7, <3>2
      <4>3. j = Len(s) + 1
        BY <1>6, <1>7, <4>2
      <4> QED BY <1>1, <1>7, <4>1, <4>3
    <3> QED BY <3>1, <3>2
  <2>2. CASE j \in 1..Len(s)
    BY <1>5, <1>7, <2>1, <2>2 DEF Ascending
  <2>3. CASE j > Len(s)
    BY <1>5, <1>6, <2>1, <2>3
  <2> QED BY <1>1, <2>2, <2>3
<1>8. Len(s) + 1 \in 1..Len(t) /\ Len(s) + 1 > Len(s) /\ Len(t) = Len(s) + F
  BY <1>1, <1>2, <1>3, <1>4
<1>9. Starts(t[Len(s) + 1]) /\ t[Len(s) + 1].of = id
  BY <1>6, <1>8
<1>10. \A i \in 1..Len(t) : i \in 1..Len(s) \/ i > Len(s)
  BY <1>1, <1>2, <1>3, <1>4
<1>11. Len(t) = Len(s) + HeaderLen + len
  BY <1>1, <1>8 DEF F, HeaderLen
<1> QED BY <1>5, <1>6, <1>7, <1>8, <1>9, <1>10, <1>11 DEF Ascending

-----------------------------------------------------------------------------
(* Reads.                                                                  *)

StreamInv == Aligned(stream, sent) /\ Ascending(stream)

TypeInv ==
  /\ client \in {"any", "patient"} /\ split \in BOOLEAN
  /\ sent \in Seq(Nat)
  /\ stream \in Seq(Byte)
  /\ at \in {"new", "waiting", "handling", "lost"}
  /\ handled \in Seq(Nat)

\* A stream that starts with a frame has all of it, and a read that is shorter
\* leaves the rest in front.
LEMMA FrontFacts ==
  ASSUME NEW s \in Seq(Byte), NEW lens \in Seq(Nat), Aligned(s, lens),
         NEW n \in 1..Len(s), NEW ba, Slice(Byte, s, 1, n, ba), Starts(s[1]),
         NEW id, id = s[1].of
  PROVE  /\ id \in 1..Len(lens) /\ id \in Nat
         /\ Size(lens, id) \in Nat /\ Size(lens, id) <= Len(s)
         /\ \A m \in 0..n : m <= Size(lens, id) => Begun(id, ba, m)
         /\ n < Size(lens, id) =>
              n + 1 \in 1..Len(s) /\ s[n + 1].of = id /\ ~Starts(s[n + 1])
<1>1. Len(s) \in Nat /\ Len(lens) \in Nat /\ 1 \in 1..Len(s)
  BY LenProperties
<1>2. s[1] \in Byte
  BY <1>1, ElementOfSeq
<1>3. Offset(s[1]) = 1
  BY <1>2 DEF Offset, Starts, Before
<1> DEFINE size == Size(lens, id)
<1>4. id \in 1..Len(lens) /\ From(s, 1, id, 1, size)
  BY <1>1, <1>3 DEF Aligned
<1>5. size \in Nat /\ size >= 8
  BY <1>4, SizeFacts DEF HeaderLen
<1> HIDE DEF size
<1>6. \A p \in 1..size : 1 + p - 1 = p /\ p \in 1..Len(s) /\ s[p] = FrameByte(id, p)
  <2> TAKE p \in 1..size
  <2>1. 1 + p - 1 = p
    BY <1>5
  <2>2. 1 + p - 1 \in 1..Len(s) /\ s[1 + p - 1] = FrameByte(id, p)
    BY <1>4 DEF From
  <2> QED BY <2>1, <2>2
<1>7. size <= Len(s)
  BY <1>1, <1>5, <1>6
<1>8. ASSUME NEW m \in 0..n, m <= size
      PROVE  Begun(id, ba, m)
  <2>1. /\ ba \in Seq(Byte) /\ Len(ba) = n
        /\ \A i \in 1..n : ba[i] = s[i]
    BY <1>1 DEF Slice
  <2> QED BY <1>1, <1>5, <1>6, <1>8, <2>1 DEF Begun
<1>9. ASSUME n < size
      PROVE  n + 1 \in 1..Len(s) /\ s[n + 1].of = id /\ ~Starts(s[n + 1])
  <2>1. /\ n + 1 \in 1..size /\ n + 1 \in Nat \ {0} /\ id \in Nat
        /\ n + 1 # 1
    BY <1>1, <1>4, <1>5, <1>9
  <2>2. s[n + 1] = FrameByte(id, n + 1) /\ n + 1 \in 1..Len(s)
    BY <1>6, <2>1
  <2> QED BY <2>1, <2>2, ByteFacts
<1> QED BY <1>1, <1>4, <1>5, <1>7, <1>8, <1>9 DEF size

LEMMA LengthField ==
  /\ \A ba \in Seq(Byte) : Len(ba) >= 8 => SubSeq(ba, 1, 4)[1] = ba[1]
  /\ \A id, ba : ReadBack(id, ba, "length", 4, 0) =>
                   SubSeq(ba, 1, 4) = Bytes(id, "length", 4)
<1>1. ASSUME NEW ba \in Seq(Byte), Len(ba) >= 8
      PROVE  SubSeq(ba, 1, 4)[1] = ba[1]
  <2> DEFINE t == SubSeq(ba, 1, 4)
  <2>1. Slice(Byte, ba, 1, 4, t)
    BY <1>1, Cut, LenProperties
  <2> HIDE DEF t
  <2>2. t[1] = ba[1]
    BY <2>1 DEF Slice
  <2> QED BY <2>2 DEF t
<1>2. ASSUME NEW id, NEW ba, ReadBack(id, ba, "length", 4, 0)
      PROVE  SubSeq(ba, 1, 4) = Bytes(id, "length", 4)
  BY <1>2 DEF ReadBack
<1> QED BY <1>1, <1>2

\* The packet whose header begins what was read is the one the stream starts
\* with, and it is decoded as it was sent, as far as it was read.
LEMMA BeginsFacts ==
  ASSUME TypeInv, StreamInv, NEW n \in 1..Len(stream),
         NEW ba, ba = SubSeq(stream, 1, n), NEW id \in Begins(ba)
  PROVE  /\ id \in 1..Len(sent) /\ sent[id] \in Nat /\ n \in Nat /\ n >= 8
         /\ Starts(stream[1]) /\ stream[1].of = id
         /\ \A len \in 0..sent[id] : len + 8 <= n => Decode(ba, len) = Packet(id, len)
<1>1. /\ stream \in Seq(Byte) /\ sent \in Seq(Nat) /\ Aligned(stream, sent)
      /\ Len(stream) \in Nat /\ DOMAIN sent = 1..Len(sent)
  BY LenProperties DEF TypeInv, StreamInv
<1>2. Slice(Byte, stream, 1, n, ba)
  BY <1>1, Cut
<1>3. /\ ba \in Seq(Byte) /\ Len(ba) = n
      /\ \A i \in 1..n : ba[i] = stream[i]
  BY <1>1, <1>2 DEF Slice
<1>4. /\ id \in 1..Len(sent) /\ n >= 8
      /\ SubSeq(ba, 1, 4) = Bytes(id, "length", 4)
  BY <1>1, <1>3 DEF Begins, HeaderLen
<1>5. sent[id] \in Nat /\ id \in Nat
  BY <1>1, <1>4, ElementOfSeq
<1>6. Bytes(id, "length", 4)[1] = B(id, "length", 1)
  BY DEF Bytes, B
<1>7. SubSeq(ba, 1, 4)[1] = ba[1]
  BY <1>3, <1>4, LengthField
<1>8. stream[1] = B(id, "length", 1)
  BY <1>3, <1>4, <1>6, <1>7
<1>9. Starts(stream[1]) /\ stream[1].of = id
  BY <1>8 DEF B, Starts
<1>10. ASSUME NEW len \in 0..sent[id], len + 8 <= n
       PROVE  Decode(ba, len) = Packet(id, len)
  <2>1. HeaderLen + len \in 0..n /\ HeaderLen + len <= Size(sent, id) /\ len \in Nat
    BY <1>5, <1>10 DEF HeaderLen, Size
  <2>2. Begun(id, ba, HeaderLen + len)
    BY <1>1, <1>2, <1>9, <2>1, FrontFacts
  <2> QED BY <1>5, <2>1, <2>2, DecodeFrame
<1> QED BY <1>4, <1>5, <1>9, <1>10

LEMMA WholeFacts ==
  ASSUME TypeInv, StreamInv, NEW n \in 1..Len(stream),
         NEW ba, ba = SubSeq(stream, 1, n)
  PROVE  /\ ba \in Seq(Byte) /\ Len(ba) = n
         /\ Starts(stream[1]) /\ Size(sent, stream[1].of) <= n
              => stream[1].of \in Whole(ba)
<1>1. /\ stream \in Seq(Byte) /\ sent \in Seq(Nat) /\ Aligned(stream, sent)
      /\ Len(stream) \in Nat /\ DOMAIN sent = 1..Len(sent)
  BY LenProperties DEF TypeInv, StreamInv
<1>2. Slice(Byte, stream, 1, n, ba)
  BY <1>1, Cut
<1>3. ba \in Seq(Byte) /\ Len(ba) = n
  BY <1>1, <1>2 DEF Slice
<1>4. ASSUME Starts(stream[1]), Size(sent, stream[1].of) <= n
      PROVE  stream[1].of \in Whole(ba)
  <2> DEFINE id == stream[1].of
  <2>1. /\ id \in 1..Len(sent) /\ id \in Nat /\ Size(sent, id) \in Nat
        /\ Size(sent, id) \in 0..n => Begun(id, ba, Size(sent, id))
    BY <1>1, <1>2, <1>4, FrontFacts
  <2> HIDE DEF id
  <2>2. 8 <= Size(sent, id) /\ Size(sent, id) \in 0..n
    BY <1>1, <1>4, <2>1, SizeFacts DEF HeaderLen, id
  <2>3. ReadBack(id, ba, "length", 4, 0)
    BY <2>1, <2>2, Places, FieldRead
  <2>4. SubSeq(ba, 1, 4) = Bytes(id, "length", 4)
    BY <2>3, LengthField
  <2>5. n >= Size(sent, id) /\ n >= HeaderLen
    BY <1>1, <2>1, <2>2 DEF HeaderLen
  <2>6. id \in Whole(ba)
    BY <1>1, <1>3, <2>1, <2>4, <2>5 DEF Whole, Begins, Size
  <2> QED BY <2>6 DEF id
<1> QED BY <1>3, <1>4

LEMMA PacketFacts ==
  ASSUME NEW id \in Nat, NEW len \in Nat
  PROVE  /\ Ids(Packet(id, len)) = {id}
         /\ Len(Packet(id, len).body) = len
<1>1. Packet(id, len).length = [k \in 1..4 |-> B(id, "length", k)]
  BY DEF Packet, Bytes, B
<1>2. \A k \in 1..4 : B(id, "length", k).of = id
  BY DEF B
<1>3. Ids(Packet(id, len)) = {id}
  BY <1>1, <1>2 DEF Ids
<1>4. "body" \in Fields
  BY DEF Fields
<1>5. Len(Bytes(id, "body", len)) = len
  BY <1>4, BytesFacts
<1> QED BY <1>3, <1>5 DEF Packet

LEMMA GarbledFacts ==
  ASSUME NEW body
  PROVE  Ids(Garbled(body)) = {} /\ Garbled(body).body = body
BY DEF Ids, Garbled

\* What handleClient makes of one read: the packet the stream starts with, or
\* what the read has of it, or something without a header, or nothing.
WholeRead(n) == Starts(stream[1]) /\ Size(sent, stream[1].of) <= n

Read(n) ==
  \/ /\ at' = "handling"
     /\ \E id \in 1..Len(sent) : \E len \in 0..sent[id] :
          /\ Starts(stream[1]) /\ stream[1].of = id /\ len + 8 <= n
          /\ tcp_packet' = Packet(id, len)
          /\ len = sent[id] \/ n < Size(sent, id)
  \/ at' = "lost" /\ UNCHANGED tcp_packet /\ ~WholeRead(n)
  \/ /\ at' = "handling" /\ ~WholeRead(n)
     /\ \E body \in Seq(Byte) :
          /\ Len(body) = 0 \/ Len(body) + 8 <= n
          /\ tcp_packet' = Garbled(body)

LEMMA ReadFacts ==
  ASSUME TypeInv, StreamInv, NEW n \in DOMAIN stream, handleClient(n)
  PROVE  /\ n \in 1..Len(stream) /\ n <= ReadMax /\ at = "waiting"
         /\ Slice(Byte, stream, n + 1, Len(stream), stream')
         /\ Read(n)
         /\ split' = (split \/ Splits(n))
         /\ UNCHANGED <<client, sent, handled>>
<1>1. /\ stream \in Seq(Byte) /\ Len(stream) \in Nat /\ DOMAIN stream = 1..Len(stream)
  BY LenProperties DEF TypeInv
<1>2. Slice(Byte, stream, n + 1, Len(stream), stream')
  BY <1>1, Cut DEF handleClient
<1> DEFINE ba == SubSeq(stream, 1, n)
<1>3. /\ ba \in Seq(Byte) /\ Len(ba) = n
      /\ WholeRead(n) => Whole(ba) # {}
  BY <1>1, WholeFacts DEF WholeRead
<1>4. \A id \in Begins(ba) :
        /\ id \in 1..Len(sent) /\ sent[id] \in Nat /\ n \in Nat /\ n >= 8
        /\ Starts(stream[1]) /\ stream[1].of = id
        /\ \A len \in 0..sent[id] : len + 8 <= n => Decode(ba, len) = Packet(id, len)
  BY <1>1, BeginsFacts
<1>5. \/ at' = "handling" /\ Decoded(ba)
      \/ Whole(ba) = {} /\ at' = "lost" /\ UNCHANGED tcp_packet
  BY DEF handleClient
<1> HIDE DEF ba
<1>6. \A id \in Whole(ba) : id \in Begins(ba) /\ n >= 8 + sent[id]
  BY <1>3 DEF Whole, HeaderLen
<1>7. \A id \in Begins(ba) \ Whole(ba) : ~(n >= 8 + sent[id])
  BY <1>3 DEF Whole, HeaderLen
<1>8. ASSUME at' = "handling", NEW id \in Whole(ba), tcp_packet' = Decode(ba, sent[id])
      PROVE  Read(n)
  <2>1. /\ id \in 1..Len(sent) /\ sent[id] \in 0..sent[id] /\ sent[id] + 8 <= n
        /\ Starts(stream[1]) /\ stream[1].of = id
        /\ tcp_packet' = Packet(id, sent[id])
    BY <1>4, <1>6, <1>8
  <2> QED BY <1>8, <2>1 DEF Read
<1>9. ASSUME at' = "handling", NEW id \in Begins(ba) \ Whole(ba),
             NEW len \in 0..(Len(ba) - HeaderLen), tcp_packet' = Decode(ba, len)
      PROVE  Read(n)
  <2>1. /\ id \in 1..Len(sent) /\ sent[id] \in Nat /\ n \in Nat
        /\ Starts(stream[1]) /\ stream[1].of = id
    BY <1>4, <1>9
  <2>2. n < Size(sent, id) /\ len \in 0..sent[id] /\ len + 8 <= n
    BY <1>3, <1>7, <1>9, <2>1 DEF Size, HeaderLen
  <2>3. tcp_packet' = Packet(id, len)
    BY <1>4, <1>9, <2>2
  <2> QED BY <1>9, <2>1, <2>2, <2>3 DEF Read
<1>10. ASSUME at' = "handling", Begins(ba) = {}, NEW m \in {HeaderLen} \cup HeaderLen..Len(ba),
              tcp_packet' = Garbled(SubSeq(ba, HeaderLen + 1, m))
       PROVE  Read(n)
  <2> DEFINE body == SubSeq(ba, HeaderLen + 1, m)
  <2>1. body \in Seq(Byte) /\ (Len(body) = 0 \/ Len(body) + 8 <= n)
    <3>1. CASE m <= n
      <4>1. m \in Nat /\ m >= 8 /\ HeaderLen = 8
        BY <1>1, <1>3 DEF HeaderLen
      <4>2. Slice(Byte, ba, HeaderLen + 1, m, body)
        BY <1>3, <3>1, <4>1, Cut
      <4> HIDE DEF body
      <4>3. body \in Seq(Byte) /\ Len(body) + 8 = m
        BY <4>1, <4>2 DEF Slice
      <4> QED BY <3>1, <4>3
    <3>2. CASE m = HeaderLen
      <4>1. body = <<>>
        BY <3>2, SubSeqEmpty DEF HeaderLen
      <4> HIDE DEF body
      <4> QED BY <4>1, EmptySeq
    <3> QED BY <1>1, <1>3, <3>1, <3>2 DEF HeaderLen
  <2>2. Whole(ba) = {}
    BY <1>6, <1>10
  <2> HIDE DEF body
  <2>3. tcp_packet' = Garbled(body)
    BY <1>10 DEF body
  <2> QED BY <1>3, <1>10, <2>1, <2>2, <2>3 DEF Read
<1>11. Read(n)
  BY <1>3, <1>5, <1>8, <1>9, <1>10 DEF Decoded, Read
<1> QED BY <1>1, <1>2, <1>11 DEF handleClient

-----------------------------------------------------------------------------
(* The other steps, and what every step keeps.                             *)

LEMMA SendFacts ==
  ASSUME TypeInv, StreamInv, NEW len \in BodyLengths, send(len)
  PROVE  LET id == Len(sent) + 1 IN
           /\ len \in Nat /\ id \in 1..MaxPackets /\ Len(sent) \in Nat
           /\ sent' \in Seq(Nat) /\ Len(sent') = id /\ sent'[id] = len
           /\ \A i \in 1..Len(sent) : sent'[i] = sent[i]
           /\ stream' \in Seq(Byte)
           /\ \E u : Written(id, u, HeaderLen + len) /\ Joined(Byte, stream, u, stream')
           /\ UNCHANGED <<client, at, tcp_packet, handled, split>>
<1> DEFINE id == Len(sent) + 1
           u == Frame(id, len)
<1>1. len \in Nat /\ MaxPackets \in Nat
  BY FrameAssumption
<1>2. Len(sent) \in Nat /\ id \in 1..MaxPackets
  BY <1>1, LenProperties DEF send, TypeInv
<1>3. Written(id, u, HeaderLen + len)
  BY <1>1, <1>2, FrameFacts
<1>4. stream' = stream \o u
  BY DEF send, Frame
<1> HIDE DEF u
<1>5. Joined(Byte, stream, u, stream')
  BY <1>3, <1>4, Concat DEF Written, TypeInv
<1>6. /\ sent' \in Seq(Nat) /\ Len(sent') = id /\ sent'[id] = len
      /\ \A i \in 1..Len(sent) : sent'[i] = sent[i]
  BY <1>1, AppendProperties DEF send, TypeInv
<1> QED BY SMTT(30), <1>1, <1>2, <1>3, <1>5, <1>6 DEF send, Joined

LEMMA InitInv ==
  ASSUME Init
  PROVE  TypeInv /\ StreamInv
<1>1. /\ sent \in Seq(Nat) /\ stream \in Seq(Byte) /\ handled \in Seq(Nat)
      /\ Len(stream) = 0
  BY EmptySeq DEF Init
<1>2. split \in BOOLEAN
  BY DEF Init
<1>3. TypeInv
  BY <1>1, <1>2 DEF Init, TypeInv
<1>4. StreamInv
  BY <1>1 DEF StreamInv, Aligned, Ascending
<1> QED BY <1>3, <1>4

\* What a handler may be given under a header.
Part(id) ==
  /\ id \in DOMAIN sent /\ RestFollows(id)
  /\ \E len \in 0..sent[id] : tcp_packet = Packet(id, len)

Given(id) == AsSent(tcp_packet, id) \/ Part(id)

LEMMA GivenFacts ==
  ASSUME TypeInv, NEW id, Given(id)
  PROVE  id \in 1..Len(sent) /\ Ids(tcp_packet) = {id}
<1>1. id \in DOMAIN sent /\ DOMAIN sent = 1..Len(sent) /\ Len(sent) \in Nat
  BY LenProperties DEF Given, Part, AsSent, TypeInv
<1>2. sent[id] \in Nat /\ id \in Nat
  BY <1>1, ElementOfSeq DEF TypeInv
<1>3. \E len \in Nat : tcp_packet = Packet(id, len)
  BY <1>2 DEF Given, Part, AsSent
<1> QED BY <1>1, <1>2, <1>3, PacketFacts

LEMMA DoneFacts ==
  ASSUME TypeInv, Done, \A id \in Ids(tcp_packet) : Given(id)
  PROVE  /\ handled' \in Seq(Nat) /\ Ids(tcp_packet)' = {}
         /\ \/ UNCHANGED handled
            \/ \E id \in Ids(tcp_packet) :
                 /\ Len(handled') = Len(handled) + 1 /\ handled'[Len(handled) + 1] = id
                 /\ \A i \in 1..Len(handled) : handled'[i] = handled[i]
<1>1. Ids(tcp_packet)' = {}
  BY GarbledFacts DEF Done, NoPacket
<1>2. CASE Ids(tcp_packet) = {}
  BY <1>1, <1>2 DEF Done, TypeInv
<1>3. ASSUME NEW id \in Ids(tcp_packet)
      PROVE  /\ handled' \in Seq(Nat) /\ Len(handled') = Len(handled) + 1
             /\ handled'[Len(handled) + 1] = id
             /\ \A i \in 1..Len(handled) : handled'[i] = handled[i]
  <2>2. id \in Nat
    BY <1>3, GivenFacts, LenProperties DEF TypeInv
  <2>3. Ids(tcp_packet) = {id}
    BY <1>3, GivenFacts
  <2>4. (CHOOSE i \in Ids(tcp_packet) : TRUE) = id
    BY <2>3
  <2>5. handled' = Append(handled, id)
    BY <2>3, <2>4 DEF Done
  <2> QED BY <2>2, <2>5, AppendProperties DEF TypeInv
<1> QED BY <1>1, <1>2, <1>3

\* What a handler is given, and what has been handled: the packets still in
\* the stream were sent later than both.
HandleInv ==
  /\ \A id \in Ids(tcp_packet) : Given(id)
  /\ \A id \in Ids(tcp_packet) : \A i \in 1..Len(handled) : handled[i] < id
  /\ \A i \in 1..Len(handled) : handled[i] \in 1..Len(sent)
  /\ at # "handling" => Ids(tcp_packet) = {}
  /\ \A j \in 1..Len(stream) : Starts(stream[j]) =>
       /\ \A id \in Ids(tcp_packet) : id < stream[j].of
       /\ \A i \in 1..Len(handled) : handled[i] < stream[j].of

LEMMA NextInv ==
  ASSUME TypeInv, StreamInv, HandleInv, [Next]_vars
  PROVE  TypeInv' /\ StreamInv'
<1>1. ASSUME NEW len \in BodyLengths, send(len)
      PROVE  TypeInv' /\ StreamInv'
  <2>1. PICK u : /\ Written(Len(sent) + 1, u, HeaderLen + len)
                 /\ Joined(Byte, stream, u, stream')
    BY <1>1, SendFacts
  <2>2. Aligned(stream', sent')
    BY <1>1, <2>1, SendFacts, AlignedSent DEF TypeInv, StreamInv
  <2>3. Ascending(stream')
    BY <1>1, <2>1, SendFacts, AscendingSent DEF TypeInv, StreamInv
  <2>4. TypeInv'
    BY <1>1, SendFacts DEF TypeInv
  <2> QED BY <2>2, <2>3, <2>4 DEF StreamInv
<1>2. CASE startAccpet
  BY <1>2 DEF startAccpet, TypeInv, StreamInv
<1>3. CASE handleData
  BY <1>3, DoneFacts DEF handleData, TypeInv, StreamInv, HandleInv
<1>4. ASSUME NEW n \in DOMAIN stream, handleClient(n)
      PROVE  TypeInv' /\ StreamInv'
  <2>1. Slice(Byte, stream, n + 1, Len(stream), stream')
    BY <1>4, ReadFacts
  <2>2. Aligned(stream', sent') /\ Ascending(stream')
    BY <1>4, <2>1, ReadFacts, AlignedRest, AscendingRest DEF TypeInv, StreamInv
  <2>3. TypeInv'
    BY <1>4, <2>1, ReadFacts DEF TypeInv, Read, Slice
  <2> QED BY <2>2, <2>3 DEF StreamInv
<1>5. CASE UNCHANGED vars
  BY <1>5 DEF vars, TypeInv, StreamInv
<1> QED BY <1>1, <1>2, <1>3, <1>4, <1>5 DEF Next, Server

LEMMA InitHandle ==
  ASSUME Init
  PROVE  HandleInv
<1>1. Ids(tcp_packet) = {}
  BY GarbledFacts DEF Init, NoPacket
<1>2. Len(handled) = 0 /\ Len(stream) = 0
  BY EmptySeq DEF Init
<1> QED BY <1>1, <1>2 DEF HandleInv

LEMMA NextHandle ==
  ASSUME TypeInv, StreamInv, HandleInv, [Next]_vars
  PROVE  HandleInv'
<1>0. /\ DOMAIN sent = 1..Len(sent) /\ DOMAIN handled = 1..Len(handled)
      /\ Len(sent) \in Nat /\ Len(handled) \in Nat /\ Len(stream) \in Nat
  BY LenProperties DEF TypeInv
<1>1. ASSUME NEW len \in BodyLengths, send(len)
      PROVE  HandleInv'
  <2> DEFINE new == Len(sent) + 1
  <2>1. PICK u : /\ Written(new, u, HeaderLen + len)
                 /\ Joined(Byte, stream, u, stream')
    BY <1>1, SendFacts
  <2>2. \A j \in 1..Len(stream') : Starts(stream'[j]) =>
          \/ j \in 1..Len(stream) /\ stream'[j] = stream[j]
          \/ stream'[j].of = new
    BY <1>1, <2>1, SendFacts, AscendingSent DEF TypeInv, StreamInv
  <2>3. /\ \A id \in 1..Len(sent) : id \in 1..Len(sent') /\ id < new
        /\ \A id \in 1..Len(sent) : sent'[id] = sent[id]
        /\ DOMAIN sent' = 1..Len(sent')
    BY <1>0, <1>1, SendFacts, LenProperties
  <2>4. \A id \in Ids(tcp_packet) : id \in 1..Len(sent) /\ Given(id)
    BY GivenFacts DEF HandleInv
  <2>5. UNCHANGED <<at, tcp_packet, handled>>
    BY <1>1, SendFacts
  <2> HIDE DEF new
  <2>6. \A id \in Ids(tcp_packet)' : Given(id)'
    <3> SUFFICES ASSUME NEW id \in Ids(tcp_packet)
                 PROVE  Given(id)'
      BY <2>5 DEF Ids
    <3>1. id \in 1..Len(sent) /\ id \in DOMAIN sent' /\ sent'[id] = sent[id]
      BY <2>3, <2>4
    <3>2. CASE AsSent(tcp_packet, id)
      BY <2>5, <3>1, <3>2 DEF Given, AsSent
    <3>3. CASE Part(id)
      <4>1. 1 \in 1..Len(stream)
        BY <1>0, <3>3, EmptySeq DEF Part, RestFollows, TypeInv
      <4>2. stream'[1] = stream[1] /\ Len(stream') # 0
        BY <1>1, <2>1, <4>1, SendFacts, AscendingSent DEF TypeInv, StreamInv
      <4>3. stream' # <<>>
        BY <4>2, EmptySeq
      <4> QED BY <2>5, <3>1, <3>3, <4>2, <4>3 DEF Given, Part, RestFollows
    <3> QED BY <2>4, <3>2, <3>3 DEF Given
  <2>7. Ids(tcp_packet)' = Ids(tcp_packet)
    BY <2>5 DEF Ids
  <2>8. \A j \in 1..Len(stream') : Starts(stream'[j]) =>
          /\ \A id \in Ids(tcp_packet) : id < stream'[j].of
          /\ \A i \in 1..Len(handled) : handled[i] < stream'[j].of
    BY <2>2, <2>3, <2>4 DEF HandleInv
  <2> QED BY <2>3, <2>5, <2>6, <2>7, <2>8 DEF HandleInv
<1>2. CASE startAccpet
  BY <1>2 DEF startAccpet, HandleInv, Given, Part, RestFollows, AsSent, Ids
<1>3. CASE handleData
  <2>1. /\ handled' \in Seq(Nat) /\ Ids(tcp_packet)' = {}
        /\ \/ UNCHANGED handled
           \/ \E id \in Ids(tcp_packet) :
                /\ Len(handled') = Len(handled) + 1 /\ handled'[Len(handled) + 1] = id
                /\ \A i \in 1..Len(handled) : handled'[i] = handled[i]
        /\ UNCHANGED <<sent, stream>>
    BY <1>3, DoneFacts DEF handleData, HandleInv
  <2>2. CASE UNCHANGED handled
    BY <2>1, <2>2 DEF HandleInv
  <2>3. ASSUME NEW id \in Ids(tcp_packet),
               Len(handled') = Len(handled) + 1, handled'[Len(handled) + 1] = id,
               \A i \in 1..Len(handled) : handled'[i] = handled[i]
        PROVE  HandleInv'
    <3>1. id \in 1..Len(sent)
      BY GivenFacts DEF HandleInv
    <3>2. \A i \in 1..Len(handled') : i \in 1..Len(handled) \/ i = Len(handled) + 1
      BY <1>0, <2>3
    <3>3. \A i \in 1..Len(handled') :
            /\ handled'[i] \in 1..Len(sent)
            /\ \A j \in 1..Len(stream) :
                 Starts(stream[j]) => handled'[i] < stream[j].of
      BY <2>3, <3>1, <3>2 DEF HandleInv
    <3> QED BY <2>1, <3>3 DEF HandleInv
  <2> QED BY <2>1, <2>2, <2>3
<1>4. ASSUME NEW n \in DOMAIN stream, handleClient(n)
      PROVE  HandleInv'
  <2>1. /\ n \in 1..Len(stream) /\ UNCHANGED <<sent, handled>>
        /\ Slice(Byte, stream, n + 1, Len(stream), stream')
    BY <1>4, ReadFacts
  <2>2. \A j \in 1..Len(stream') : j + n \in 1..Len(stream) /\ stream'[j] = stream[j + n]
    BY <2>1, AscendingRest DEF TypeInv, StreamInv
  <2>3. ASSUME NEW id \in 1..Len(sent), NEW len \in 0..sent[id],
               Starts(stream[1]), stream[1].of = id, tcp_packet' = Packet(id, len),
               len = sent[id] \/ n < Size(sent, id), at' = "handling"
        PROVE  HandleInv'
    <3>0. sent[id] \in Nat /\ len \in Nat /\ id \in Nat
      BY <1>0, ElementOfSeq DEF TypeInv
    <3>1. Ids(tcp_packet)' = {id}
      BY <2>3, <3>0, PacketFacts
    <3>2. \A i \in 1..Len(handled) : handled[i] < id
      BY <1>0, <2>1, <2>3 DEF HandleInv
    <3>3. ASSUME NEW j \in 1..Len(stream'), Starts(stream'[j])
          PROVE  /\ id < stream'[j].of
                 /\ \A i \in 1..Len(handled) : handled[i] < stream'[j].of
      <4>1. /\ j + n \in 1..Len(stream) /\ 1 \in 1..Len(stream) /\ 1 < j + n
            /\ Starts(stream[j + n]) /\ stream'[j] = stream[j + n]
        BY <1>0, <2>1, <2>2, <3>3
      <4> QED BY <2>3, <4>1 DEF HandleInv, StreamInv, Ascending
    <3>4. Given(id)'
      <4>1. CASE len = sent[id]
        BY <1>0, <2>1, <2>3, <4>1 DEF Given, AsSent
      <4>2. CASE n < Size(sent, id)
        <5> DEFINE ba == SubSeq(stream, 1, n)
        <5>1. Slice(Byte, stream, 1, n, ba)
          BY <1>0, <2>1, Cut DEF TypeInv
        <5> HIDE DEF ba
        <5>2. n + 1 \in 1..Len(stream) /\ stream[n + 1].of = id
          <6>1. /\ stream \in Seq(Byte) /\ sent \in Seq(Nat)
                /\ Aligned(stream, sent) /\ n \in 1..Len(stream)
            BY <2>1 DEF TypeInv, StreamInv
          <6> QED BY <2>3, <4>2, <5>1, <6>1, FrontFacts
        <5>3. Len(stream') = Len(stream) - n /\ stream' \in Seq(Byte)
          BY <1>0, <2>1 DEF Slice
        <5>4. 1 \in 1..Len(stream') /\ 1 + n = n + 1
          BY <1>0, <2>1, <5>2, <5>3
        <5>5. stream'[1] = stream[n + 1]
          BY <2>2, <5>4
        <5>6. stream' # <<>>
          BY <5>4, EmptySeq
        <5> QED BY <1>0, <2>1, <2>3, <5>2, <5>5, <5>6 DEF Given, Part, RestFollows
      <4> QED BY <2>3, <4>1, <4>2
    <3> QED BY <2>1, <2>3, <3>1, <3>2, <3>3, <3>4 DEF HandleInv
  <2>4. ASSUME Ids(tcp_packet)' = {}
        PROVE  HandleInv'
    <3>1. \A j \in 1..Len(stream') : Starts(stream'[j]) =>
            \A i \in 1..Len(handled) : handled[i] < stream'[j].of
      BY <2>2 DEF HandleInv
    <3> QED BY <2>1, <2>4, <3>1 DEF HandleInv
  <2>5. \A body : tcp_packet' = Garbled(body) => Ids(tcp_packet)' = {}
    BY GarbledFacts
  <2>6. UNCHANGED tcp_packet => Ids(tcp_packet)' = {}
    BY <1>4, ReadFacts DEF HandleInv, Ids
  <2> QED BY <1>4, <2>3, <2>4, <2>5, <2>6, ReadFacts DEF Read
<1>5. CASE UNCHANGED vars
  <2>1. Ids(tcp_packet)' = Ids(tcp_packet)
    BY <1>5 DEF vars, Ids
  <2>2. ASSUME NEW id, Given(id)
        PROVE  Given(id)'
    BY <1>5, <2>2 DEF vars, Given, Part, RestFollows, AsSent
  <2> QED BY <1>5, <2>1, <2>2 DEF vars, HandleInv
<1> QED BY <1>1, <1>2, <1>3, <1>4, <1>5 DEF Next, Server

LEMMA Inductive == Spec => [](TypeInv /\ StreamInv /\ HandleInv)
<1>1. Init => TypeInv /\ StreamInv /\ HandleInv
  BY InitInv, InitHandle
<1>2. TypeInv /\ StreamInv /\ HandleInv /\ [Next]_vars
        => (TypeInv /\ StreamInv /\ HandleInv)'
  BY NextInv, NextHandle
<1> QED BY <1>1, <1>2, PTL DEF Spec

\* However TCP cuts the stream, what a handler gets under a header is a packet
\* the client sent, with its whole body unless the read ended inside it, and
\* later than all before it.
THEOREM HandledAsSent == Spec => []HandledInOrder
<1>1. TypeInv /\ HandleInv => HandledInOrder
  BY LenProperties DEF TypeInv, HandleInv, HandledInOrder, Given, Part
<1> QED BY <1>1, Inductive, PTL

\* The array of a packet being handled always has room for the byte that ends
\* a C string: eight bytes of the read were the header.
THEOREM Terminated == Spec => []BodyTerminated
<1>1. Init => BodyTerminated
  BY DEF Init, BodyTerminated
<1>2. ASSUME TypeInv, StreamInv, BodyTerminated, [Next]_vars
      PROVE  BodyTerminated'
  <2>0. /\ ReadMax \in Nat /\ BodyMax \in Nat /\ 0 < BodyMax
        /\ ReadMax < 8 + BodyMax
    BY FrameAssumption DEF HeaderLen
  <2>1. ASSUME NEW len \in BodyLengths, send(len)
        PROVE  BodyTerminated'
    BY <1>2, <2>1 DEF send, BodyTerminated
  <2>2. CASE startAccpet
    BY <2>2 DEF startAccpet, BodyTerminated
  <2>3. CASE handleData
    BY <2>3 DEF handleData, BodyTerminated
  <2>4. ASSUME NEW n \in DOMAIN stream, handleClient(n)
        PROVE  BodyTerminated'
    <3>1. n \in 1..Len(stream) /\ n <= ReadMax /\ Read(n) /\ Len(stream) \in Nat
      BY <1>2, <2>4, ReadFacts, LenProperties DEF TypeInv
    <3>2. ASSUME NEW id \in 1..Len(sent), NEW len \in 0..sent[id], len + 8 <= n,
                 tcp_packet' = Packet(id, len)
          PROVE  Len(tcp_packet'.body) < BodyMax
      <4>1. len \in Nat /\ id \in Nat
        BY <1>2, <3>2, ElementOfSeq, LenProperties DEF TypeInv
      <4>2. Len(tcp_packet'.body) = len
        BY <3>2, <4>1, PacketFacts
      <4> QED BY <2>0, <3>1, <3>2, <4>1, <4>2
    <3>3. ASSUME NEW body \in Seq(Byte), Len(body) = 0 \/ Len(body) + 8 <= n,
                 tcp_packet' = Garbled(body)
          PROVE  Len(tcp_packet'.body) < BodyMax
      <4>1. tcp_packet'.body = body /\ Len(body) \in Nat
        BY <3>3, GarbledFacts, LenProperties
      <4> QED BY <2>0, <3>1, <3>3, <4>1
    <3> QED BY <3>1, <3>2, <3>3 DEF Read, BodyTerminated
  <2>5. CASE UNCHANGED vars
    BY <1>2, <2>5 DEF vars, BodyTerminated
  <2> QED BY <1>2, <2>1, <2>2, <2>3, <2>4, <2>5 DEF Next, Server
<1> QED BY <1>1, <1>2, Inductive, PTL DEF Spec

-----------------------------------------------------------------------------
(* Until a read ends inside a frame.                                       *)

\* What there is starts with a frame, so that a read which does not split
\* frames finds that frame whole.
Tame ==
  /\ stream # <<>> => Starts(stream[1])
  /\ at # "lost"
  /\ at = "handling" => \E id \in DOMAIN sent : AsSent(tcp_packet, id)

TameInv == ~split => Tame

LEMMA SplitStays ==
  ASSUME TypeInv, StreamInv, [Next]_vars, ~split'
  PROVE  ~split
BY SendFacts DEF Next, Server, startAccpet, handleData, handleClient, vars

\* A read of a tame stream that splits no frame gives the packet the stream
\* starts with and leaves a tame stream.
LEMMA TameRead ==
  ASSUME TypeInv, StreamInv, Tame,
         NEW n \in DOMAIN stream, handleClient(n), ~split'
  PROVE  /\ at' = "handling" /\ n \in 1..Len(stream)
         /\ n = Len(stream) \/ Starts(stream[n + 1])
         /\ Starts(stream[1])
         /\ \E id \in 1..Len(sent) :
              stream[1].of = id /\ tcp_packet' = Packet(id, sent[id])
<1>1. /\ Len(stream) \in Nat /\ n \in 1..Len(stream) /\ 1 \in 1..Len(stream)
      /\ Len(sent) \in Nat
  BY ReadFacts, LenProperties DEF TypeInv
<1>2. n = Len(stream) \/ Starts(stream[n + 1])
  <2>1. split' = (split \/ Splits(n))
    BY ReadFacts
  <2>2. ~Splits(n)
    BY <2>1
  <2> QED BY <1>1, <2>2 DEF Splits
<1>3. Starts(stream[1])
  BY <1>1, EmptySeq DEF Tame
<1> DEFINE id == stream[1].of
           size == Size(sent, id)
           ba == SubSeq(stream, 1, n)
<1>4. Slice(Byte, stream, 1, n, ba)
  BY <1>1, Cut DEF TypeInv
<1> HIDE DEF ba
<1>5. /\ id \in 1..Len(sent) /\ size \in Nat /\ size <= Len(stream)
      /\ n < size => ~Starts(stream[n + 1])
  BY <1>1, <1>3, <1>4, FrontFacts DEF TypeInv, StreamInv
<1> HIDE DEF size
<1>6. size <= n
  BY <1>1, <1>2, <1>5
<1>7. WholeRead(n)
  BY <1>3, <1>6 DEF WholeRead, size
<1> HIDE DEF id
<1>8. Read(n)
  BY ReadFacts
<1>9. at' = "handling" /\ tcp_packet' = Packet(id, sent[id])
  <2>1. PICK i \in 1..Len(sent) : \E len \in 0..sent[i] :
          /\ stream[1].of = i /\ at' = "handling"
          /\ tcp_packet' = Packet(i, len)
          /\ len = sent[i] \/ n < Size(sent, i)
    BY <1>7, <1>8 DEF Read
  <2>2. i = id
    BY <2>1 DEF id
  <2>3. ~(n < Size(sent, id))
    BY <1>1, <1>5, <1>6 DEF size
  <2> QED BY <2>1, <2>2, <2>3
<1> QED BY <1>1, <1>2, <1>3, <1>5, <1>9 DEF id

\* A packet sent into a tame stream keeps it tame.
LEMMA TameSend ==
  ASSUME TypeInv, StreamInv, Tame, NEW len \in BodyLengths, send(len)
  PROVE  Tame'
<1> DEFINE new == Len(sent) + 1
<1>1. PICK u : /\ Written(new, u, HeaderLen + len)
               /\ Joined(Byte, stream, u, stream')
  BY SendFacts
<1>2. /\ \A i \in 1..Len(stream) : i \in 1..Len(stream') /\ stream'[i] = stream[i]
      /\ Starts(stream'[Len(stream) + 1])
  BY <1>1, SendFacts, AscendingSent DEF TypeInv, StreamInv
<1>3. /\ Len(stream) \in Nat
      /\ DOMAIN sent = 1..Len(sent) /\ DOMAIN sent' = 1..Len(sent')
      /\ Len(sent) \in Nat
  BY SendFacts, LenProperties DEF TypeInv
<1>4. /\ Len(sent') = new /\ UNCHANGED tcp_packet
      /\ \A i \in 1..Len(sent) : sent'[i] = sent[i]
  BY SendFacts
<1>5. \A i \in DOMAIN sent : i \in DOMAIN sent'
  BY <1>3, <1>4
<1>6. Starts(stream'[1])
  <2>1. CASE stream = <<>>
    <3>1. Len(stream) + 1 = 1
      BY <2>1, EmptySeq
    <3> QED BY <1>2, <3>1
  <2>2. CASE stream # <<>>
    <3>1. 1 \in 1..Len(stream)
      BY <1>3, <2>2, EmptySeq DEF TypeInv
    <3> QED BY <1>2, <2>2, <3>1 DEF Tame
  <2> QED BY <2>1, <2>2
<1>7. at' = "handling" => \E id \in DOMAIN sent' : AsSent(tcp_packet, id)'
  <2>1. ASSUME at = "handling", NEW id \in DOMAIN sent, AsSent(tcp_packet, id)
        PROVE  id \in DOMAIN sent' /\ AsSent(tcp_packet, id)'
    <3>1. id \in DOMAIN sent' /\ sent'[id] = sent[id] /\ tcp_packet' = tcp_packet
      BY <1>3, <1>4, <1>5, <2>1
    <3> QED BY <2>1, <3>1 DEF AsSent
  <2> QED BY <2>1, SendFacts DEF Tame
<1> QED BY <1>6, <1>7, SendFacts DEF Tame

LEMMA NextTame ==
  ASSUME TypeInv, StreamInv, TameInv, [Next]_vars
  PROVE  TameInv'
<1> SUFFICES ASSUME ~split' PROVE Tame'
  BY DEF TameInv
<1>1. Tame
  BY SplitStays DEF TameInv
<1>2. ASSUME NEW len \in BodyLengths, send(len)
      PROVE  Tame'
  BY <1>1, <1>2, TameSend
<1>3. CASE startAccpet
  BY <1>1, <1>3 DEF startAccpet, Tame
<1>4. CASE handleData
  BY <1>1, <1>4 DEF handleData, Tame
<1>5. ASSUME NEW n \in DOMAIN stream, handleClient(n)
      PROVE  Tame'
  <2>1. /\ at' = "handling" /\ sent' = sent /\ n \in 1..Len(stream)
        /\ n = Len(stream) \/ Starts(stream[n + 1])
        /\ \E id \in 1..Len(sent) : tcp_packet' = Packet(id, sent[id])
        /\ Slice(Byte, stream, n + 1, Len(stream), stream')
    BY <1>1, <1>5, TameRead, ReadFacts
  <2>2. DOMAIN sent = 1..Len(sent) /\ Len(stream) \in Nat
    BY LenProperties DEF TypeInv
  <2>3. /\ stream' \in Seq(Byte) /\ Len(stream') = Len(stream) - n
        /\ \A j \in 1..Len(stream') : stream'[j] = stream[j + n]
    <3>1. \A j \in 1..Len(stream') : stream'[j] = stream[j + n]
      BY <2>1, AscendingRest DEF TypeInv, StreamInv
    <3>2. stream' \in Seq(Byte) /\ Len(stream') = Len(stream) - (n + 1) + 1
      BY <2>1 DEF Slice
    <3> QED BY <2>1, <2>2, <3>1, <3>2
  <2>4. ASSUME stream' # <<>>
        PROVE  Starts(stream'[1])
    <3>1. Len(stream') # 0 /\ Len(stream') \in Nat
      BY <2>3, <2>4, EmptySeq, LenProperties
    <3>2. 1 \in 1..Len(stream') /\ n # Len(stream) /\ 1 + n = n + 1
      BY <2>1, <2>2, <2>3, <3>1
    <3> QED BY <2>1, <2>3, <3>2
  <2>5. \E id \in DOMAIN sent : AsSent(tcp_packet, id)'
    BY <2>1, <2>2 DEF AsSent
  <2> QED BY <2>1, <2>4, <2>5 DEF Tame
<1>6. CASE UNCHANGED vars
  BY <1>1, <1>6 DEF vars, Tame, AsSent
<1> QED BY <1>2, <1>3, <1>4, <1>5, <1>6 DEF Next, Server

\* Before a read ends inside a frame nothing is garbled and the connection is
\* not lost, whatever the sizes and however many frames a read takes.
THEOREM NotGarbled == Spec => []NothingGarbled
<1>1. Init => TameInv
  BY DEF Init, TameInv, Tame
<1>2. TameInv => NothingGarbled
  BY DEF TameInv, Tame, NothingGarbled
<1> QED BY <1>1, <1>2, NextTame, Inductive, PTL DEF Spec

-----------------------------------------------------------------------------
(* The bytes as a conversation of packets.                                 *)

LEMMA SortedInterval ==
  ASSUME NEW a \in Nat, NEW b \in Nat, a <= b + 1
  PROVE  Sorted(a..b) = [k \in 1..(b - a + 1) |-> a + k - 1]
<1>1. Cardinality(a..b) = b - a + 1
  BY FS_Interval
<1>2. \A id \in a..b : Cardinality({x \in a..b : x <= id}) = id - a + 1
  <2> TAKE id \in a..b
  <2>1. {x \in a..b : x <= id} = a..id
    OBVIOUS
  <2>2. Cardinality(a..id) = id - a + 1
    BY FS_Interval
  <2> QED BY <2>1, <2>2
<1>3. ASSUME NEW k \in 1..(b - a + 1)
      PROVE  (CHOOSE id \in a..b : Cardinality({x \in a..b : x <= id}) = k) = a + k - 1
  <2>1. a + k - 1 \in a..b /\ (a + k - 1) - a + 1 = k
    OBVIOUS
  <2>2. \A id \in a..b :
          Cardinality({x \in a..b : x <= id}) = k <=> id = a + k - 1
    <3> TAKE id \in a..b
    <3>1. id - a + 1 = k <=> id = a + k - 1
      OBVIOUS
    <3> QED BY <1>2, <3>1
  <2> QED BY <2>1, <2>2
<1> QED BY <1>1, <1>3 DEF Sorted

LEMMA SortedEmpty ==
  Sorted({}) = <<>>
<1>1. Cardinality({}) = 0
  BY FS_EmptySet
<1> QED BY <1>1 DEF Sorted

LEMMA SortedAppend ==
  ASSUME NEW a \in Nat, NEW b \in Nat, a <= b + 1
  PROVE  Sorted(a..(b + 1)) = Append(Sorted(a..b), b + 1)
<1> DEFINE s == [k \in 1..(b - a + 1) |-> a + k - 1]
           t == [k \in 1..(b - a + 2) |-> a + k - 1]
           u == Append(s, b + 1)
<1>1. Sorted(a..b) = s
  BY SortedInterval
<1>2. Sorted(a..(b + 1)) = t
  <2>1. (b + 1) - a + 1 = b - a + 2 /\ b + 1 \in Nat /\ a <= (b + 1) + 1
    OBVIOUS
  <2>2. Sorted(a..(b + 1)) = [k \in 1..((b + 1) - a + 1) |-> a + k - 1]
    BY <2>1, SortedInterval
  <2> QED BY <2>1, <2>2
<1>3. s \in Seq(Nat) /\ Len(s) = b - a + 1 /\ \A k \in 1..(b - a + 1) : s[k] = a + k - 1
  <2>1. \A k \in 1..(b - a + 1) : a + k - 1 \in Nat
    OBVIOUS
  <2>2. b - a + 1 \in Nat
    OBVIOUS
  <2>3. s \in Seq(Nat)
    BY <2>1, <2>2, SeqDef
  <2> QED BY <2>2, <2>3, LenProperties
<1>4. t \in Seq(Nat) /\ Len(t) = b - a + 2 /\ \A k \in 1..(b - a + 2) : t[k] = a + k - 1
  <2>1. \A k \in 1..(b - a + 2) : a + k - 1 \in Nat
    OBVIOUS
  <2>2. b - a + 2 \in Nat
    OBVIOUS
  <2>3. t \in Seq(Nat)
    BY <2>1, <2>2, SeqDef
  <2> QED BY <2>2, <2>3, LenProperties
<1> HIDE DEF s, t
<1>5. /\ u \in Seq(Nat) /\ Len(u) = Len(s) + 1 /\ u[Len(s) + 1] = b + 1
      /\ \A k \in 1..Len(s) : u[k] = s[k]
  BY <1>3, AppendProperties
<1> HIDE DEF u
<1>6. Len(u) = Len(t)
  BY <1>3, <1>4, <1>5
<1>7. ASSUME NEW k \in 1..Len(u)
      PROVE  u[k] = t[k]
  <2>1. k \in 1..(b - a + 2) /\ t[k] = a + k - 1
    BY <1>3, <1>4, <1>5
  <2>2. CASE k \in 1..(b - a + 1)
    BY <1>3, <1>5, <2>1, <2>2
  <2>3. CASE k = b - a + 2
    <3>1. k = Len(s) + 1 /\ a + k - 1 = b + 1
      BY <1>3, <2>3
    <3> QED BY <1>5, <2>1, <3>1
  <2> QED BY <2>1, <2>2, <2>3
<1>8. u = t
  BY <1>4, <1>5, <1>6, <1>7, SeqEqual
<1> QED BY <1>1, <1>2, <1>8 DEF u

\* What is dropped from the front of the numbers is a shorter interval.
LEMMA SortedDrop ==
  ASSUME NEW a \in Nat, NEW b \in Nat, NEW c \in Nat, a <= b, b <= c + 1
  PROVE  /\ Sorted(a..c) \in Seq(Nat) /\ Len(Sorted(a..c)) = c - a + 1
         /\ a <= c => Sorted(a..c)[1] = a
         /\ Sorted(b..c) = SubSeq(Sorted(a..c), (b - a) + 1, c - a + 1)
<1> DEFINE L == c - a + 1
           M == c - b + 1
           s == [k \in 1..L |-> a + k - 1]
           t == [k \in 1..M |-> b + k - 1]
           u == SubSeq(s, (b - a) + 1, L)
<1>1. Sorted(a..c) = s
  BY SortedInterval
<1>2. Sorted(b..c) = t
  BY SortedInterval
<1>3. L \in Nat /\ M \in Nat /\ b - a \in Nat /\ L - (b - a) = M
  OBVIOUS
<1>4. s \in Seq(Nat) /\ Len(s) = L /\ \A k \in 1..L : s[k] = a + k - 1
  <2>1. \A k \in 1..L : a + k - 1 \in Nat
    OBVIOUS
  <2> HIDE DEF L
  <2>2. s \in Seq(Nat)
    BY <1>3, <2>1, SeqDef
  <2> QED BY <1>3, <2>2, LenProperties
<1>5. t \in Seq(Nat) /\ Len(t) = M /\ \A k \in 1..M : t[k] = b + k - 1
  <2>1. \A k \in 1..M : b + k - 1 \in Nat
    OBVIOUS
  <2> HIDE DEF M
  <2>2. t \in Seq(Nat)
    BY <1>3, <2>1, SeqDef
  <2> QED BY <1>3, <2>2, LenProperties
<1>6. u = SubSeq(s, (b - a) + 1, L)
  OBVIOUS
<1> HIDE DEF s, t, u
<1>7. Slice(Nat, s, (b - a) + 1, L, u)
  BY SMTT(30), <1>3, <1>4, <1>6, Cut
<1>8. /\ u \in Seq(Nat) /\ Len(u) = M
      /\ \A k \in 1..M : u[k] = s[(b - a) + k]
  <2>1. /\ u \in Seq(Nat) /\ Len(u) = L - ((b - a) + 1) + 1
        /\ \A k \in 1..(L - ((b - a) + 1) + 1) : u[k] = s[((b - a) + 1) + k - 1]
    BY <1>7 DEF Slice
  <2>2. L - ((b - a) + 1) + 1 = M
    OBVIOUS
  <2>3. \A k \in 1..M : ((b - a) + 1) + k - 1 = (b - a) + k
    OBVIOUS
  <2> QED BY <2>1, <2>2, <2>3
<1>9. ASSUME NEW k \in 1..M
      PROVE  u[k] = t[k]
  <2>1. (b - a) + k \in 1..L /\ a + ((b - a) + k) - 1 = b + k - 1
    OBVIOUS
  <2> QED BY <1>4, <1>5, <1>8, <2>1
<1>10. u = t
  BY <1>5, <1>8, <1>9, SeqEqual
<1>11. a <= c => s[1] = a
  BY <1>4
<1> QED BY <1>1, <1>2, <1>4, <1>6, <1>10, <1>11

\* Until a read splits a frame, the packets under way are the last ones sent.
Last(n) == \E a \in 1..(n + 1) : Unread = a..n

FramesInv == ~split => Last(Len(sent))

LEMMA InitFrames ==
  ASSUME Init
  PROVE  FramesInv
<1>1. Len(sent) = 0 /\ DOMAIN stream = {}
  BY EmptySeq, LenProperties DEF Init
<1>2. Unread = {} /\ {} = 1..0
  BY <1>1 DEF Unread
<1>3. Last(0)
  BY <1>2 DEF Last
<1> QED BY <1>1, <1>3 DEF FramesInv

\* What a packet sent and what a read do to the packets under way.
LEMMA UnreadSent ==
  ASSUME TypeInv, StreamInv, NEW len \in BodyLengths, send(len)
  PROVE  Unread' = Unread \cup {Len(sent) + 1}
<1> DEFINE new == Len(sent) + 1
<1>1. PICK u : /\ Written(new, u, HeaderLen + len)
               /\ Joined(Byte, stream, u, stream')
  BY SendFacts
<1>2. /\ \A i \in 1..Len(stream) : i \in 1..Len(stream') /\ stream'[i] = stream[i]
      /\ \A i \in 1..Len(stream') :
           Starts(stream'[i]) => \/ i \in 1..Len(stream)
                                 \/ i = Len(stream) + 1 /\ stream'[i].of = new
      /\ Len(stream) + 1 \in 1..Len(stream') /\ Starts(stream'[Len(stream) + 1])
      /\ stream'[Len(stream) + 1].of = new
  BY <1>1, SendFacts, AscendingSent DEF TypeInv, StreamInv
<1>3. DOMAIN stream = 1..Len(stream) /\ DOMAIN stream' = 1..Len(stream')
  BY SendFacts, LenProperties DEF TypeInv
<1> HIDE DEF new
<1>4. Unread' \subseteq Unread \cup {new}
  BY <1>2, <1>3 DEF Unread
<1>5. Unread \subseteq Unread'
  BY <1>2, <1>3 DEF Unread
<1>6. new \in Unread'
  BY <1>2, <1>3 DEF Unread
<1> QED BY <1>4, <1>5, <1>6 DEF new

LEMMA UnreadRead ==
  ASSUME TypeInv, StreamInv, TameInv, FramesInv,
         NEW n \in DOMAIN stream, handleClient(n), ~split'
  PROVE  /\ at = "waiting" /\ at' = "handling" /\ UNCHANGED sent
         /\ \E a \in 1..Len(sent) : \E b \in (a + 1)..(Len(sent) + 1) :
              /\ Unread = a..Len(sent) /\ Unread' = b..Len(sent)
              /\ Ids(tcp_packet)' = {a}
<1>1. ~split /\ Tame
  BY ReadFacts DEF TameInv
<1>2. /\ n \in 1..Len(stream) /\ Starts(stream[1])
      /\ n = Len(stream) \/ Starts(stream[n + 1])
      /\ at' = "handling" /\ at = "waiting" /\ UNCHANGED sent
      /\ Slice(Byte, stream, n + 1, Len(stream), stream')
  BY <1>1, TameRead, ReadFacts
<1>3. PICK id \in 1..Len(sent) : stream[1].of = id /\ tcp_packet' = Packet(id, sent[id])
  BY <1>1, TameRead
<1>4. /\ Len(sent) \in Nat /\ Len(stream) \in Nat /\ DOMAIN stream = 1..Len(stream)
      /\ 1 \in 1..Len(stream) /\ id \in Nat /\ sent[id] \in Nat
  BY <1>2, LenProperties, ElementOfSeq DEF TypeInv
<1>5. /\ Len(stream') = Len(stream) - n /\ DOMAIN stream' = 1..Len(stream')
      /\ \A j \in 1..Len(stream') : j + n \in 1..Len(stream) /\ stream'[j] = stream[j + n]
  <2>1. \A j \in 1..Len(stream') : j + n \in 1..Len(stream) /\ stream'[j] = stream[j + n]
    BY <1>2, AscendingRest DEF TypeInv, StreamInv
  <2>2. stream' \in Seq(Byte) /\ Len(stream') = Len(stream) - (n + 1) + 1
    BY <1>2 DEF Slice
  <2>3. DOMAIN stream' = 1..Len(stream')
    BY <2>2, LenProperties
  <2> QED BY <1>2, <1>4, <2>1, <2>2, <2>3
<1>6. Ids(tcp_packet)' = {id}
  BY <1>3, <1>4, PacketFacts
<1>7. PICK a \in 1..(Len(sent) + 1) : Unread = a..Len(sent)
  BY <1>1 DEF FramesInv, Last
<1>8. \A i \in 1..Len(stream) : Starts(stream[i]) => stream[i].of \in Unread
  BY <1>4 DEF Unread
<1>9. \A x \in Unread : \E i \in 1..Len(stream) : Starts(stream[i]) /\ stream[i].of = x
  BY <1>4 DEF Unread
<1>10. \A i, j \in 1..Len(stream) :
         i < j /\ Starts(stream[i]) /\ Starts(stream[j]) => stream[i].of < stream[j].of
  BY DEF StreamInv, Ascending
<1>11. id \in a..Len(sent) /\ a \in Unread
  BY <1>2, <1>3, <1>4, <1>7, <1>8
<1>12. a = id
  <2>1. PICK j \in 1..Len(stream) : Starts(stream[j]) /\ stream[j].of = a
    BY <1>9, <1>11
  <2>2. CASE j = 1
    BY <1>3, <2>1, <2>2
  <2>3. CASE 1 < j
    <3>1. id < a
      BY <1>2, <1>3, <1>4, <1>10, <2>1, <2>3
    <3> QED BY <1>4, <1>7, <1>11, <3>1
  <2> QED BY <1>4, <2>2, <2>3
<1>13. \E b \in (a + 1)..(Len(sent) + 1) : Unread' = b..Len(sent)
  <2>1. CASE n = Len(stream)
    <3>1. DOMAIN stream' = {}
      BY <1>4, <1>5, <2>1
    <3>2. Unread' = {} /\ (Len(sent) + 1)..Len(sent) = {}
      BY <1>4, <3>1 DEF Unread
    <3>3. Len(sent) + 1 \in (a + 1)..(Len(sent) + 1)
      BY <1>4, <1>11
    <3> QED BY <3>2, <3>3
  <2>2. CASE n # Len(stream)
    <3>1. /\ Starts(stream[n + 1]) /\ n + 1 \in 1..Len(stream) /\ 1 < n + 1
          /\ 1 \in 1..Len(stream') /\ 1 + n = n + 1
      BY <1>2, <1>4, <1>5, <2>2
    <3> DEFINE b == stream[n + 1].of
    <3>2. b \in a..Len(sent) /\ id < b
      BY <1>2, <1>3, <1>4, <1>7, <1>8, <1>10, <3>1
    <3>3. ASSUME NEW x \in Unread'
          PROVE  x \in b..Len(sent)
      <4>1. PICK j \in 1..Len(stream') : Starts(stream'[j]) /\ stream'[j].of = x
        BY <1>5 DEF Unread
      <4>2. /\ j + n \in 1..Len(stream) /\ Starts(stream[j + n])
            /\ stream[j + n].of = x /\ x \in a..Len(sent)
        BY <1>5, <1>7, <1>8, <4>1
      <4>3. CASE j = 1
        BY <1>4, <3>1, <3>2, <4>2, <4>3
      <4>4. CASE j # 1
        <5>1. n + 1 < j + n
          BY <1>2, <1>4, <1>5, <4>1, <4>4
        <5>2. b < x
          BY <1>10, <3>1, <4>2, <5>1
        <5> QED BY <1>4, <3>2, <4>2, <5>2
      <4> QED BY <4>3, <4>4
    <3>4. ASSUME NEW x \in b..Len(sent)
          PROVE  x \in Unread'
      <4>1. x \in Unread
        BY <1>4, <1>7, <3>2, <3>4
      <4>2. PICK i \in 1..Len(stream) : Starts(stream[i]) /\ stream[i].of = x
        BY <1>9, <4>1
      <4>3. ~(i < n + 1)
        <5>1. i < n + 1 => x < b
          BY <1>10, <3>1, <4>2
        <5> QED BY <1>4, <3>2, <3>4, <5>1
      <4>4. i - n \in 1..Len(stream') /\ (i - n) + n = i
        BY SMTT(30), <1>2, <1>4, <1>5, <4>2, <4>3
      <4>5. stream'[i - n] = stream[i]
        BY <1>5, <4>4
      <4> QED BY <1>5, <4>2, <4>4, <4>5 DEF Unread
    <3>5. b \in (a + 1)..(Len(sent) + 1)
      BY <1>4, <1>12, <3>2
    <3> HIDE DEF b
    <3> QED BY <3>3, <3>4, <3>5
  <2> QED BY <2>1, <2>2
<1> QED BY <1>2, <1>3, <1>6, <1>7, <1>12, <1>13

LEMMA Unchanged ==
  /\ UNCHANGED stream => UNCHANGED Unread
  /\ UNCHANGED tcp_packet => UNCHANGED Ids(tcp_packet)
  /\ UNCHANGED <<stream, sent>> => (Last(Len(sent)) <=> Last(Len(sent))')
<1>1. UNCHANGED stream => UNCHANGED Unread
  BY DEF Unread
<1>2. UNCHANGED tcp_packet => UNCHANGED Ids(tcp_packet)
  BY DEF Ids
<1>3. UNCHANGED <<stream, sent>> => (Last(Len(sent)) <=> Last(Len(sent))')
  BY <1>1 DEF Last
<1> QED BY <1>1, <1>2, <1>3

LEMMA NextFrames ==
  ASSUME TypeInv, StreamInv, TameInv, FramesInv, [Next]_vars
  PROVE  FramesInv'
<1> SUFFICES ASSUME ~split' PROVE Last(Len(sent))'
  BY DEF FramesInv
<1>1. Len(sent) \in Nat /\ Last(Len(sent))
  BY SplitStays, LenProperties DEF TypeInv, FramesInv
<1>2. ASSUME NEW len \in BodyLengths, send(len)
      PROVE  Last(Len(sent))'
  <2> DEFINE new == Len(sent) + 1
  <2>1. Len(sent') = new
    BY <1>2, SendFacts
  <2>2. PICK a \in 1..new : Unread = a..Len(sent)
    BY <1>1 DEF Last
  <2>3. Unread' = Unread \cup {new}
    BY <1>2, UnreadSent
  <2>4. a..Len(sent) \cup {new} = a..new /\ a \in 1..(new + 1)
    BY <1>1
  <2>5. Unread' = a..new
    BY <2>2, <2>3, <2>4
  <2> QED BY <2>1, <2>4, <2>5 DEF Last
<1>3. CASE startAccpet
  BY <1>1, <1>3, Unchanged DEF startAccpet
<1>4. CASE handleData
  BY <1>1, <1>4, Unchanged DEF handleData
<1>5. ASSUME NEW n \in DOMAIN stream, handleClient(n)
      PROVE  Last(Len(sent))'
  <2>1. PICK a \in 1..Len(sent) : \E b \in (a + 1)..(Len(sent) + 1) :
          Unread' = b..Len(sent) /\ sent' = sent
    BY <1>5, UnreadRead
  <2>2. PICK b \in (a + 1)..(Len(sent) + 1) : Unread' = b..Len(sent) /\ sent' = sent
    BY <2>1
  <2>3. b \in 1..(Len(sent) + 1)
    BY <1>1
  <2> QED BY <2>2, <2>3 DEF Last
<1>6. CASE UNCHANGED vars
  BY <1>1, <1>6, Unchanged DEF vars
<1> QED BY <1>2, <1>3, <1>4, <1>5, <1>6 DEF Next, Server

Inv == TypeInv /\ StreamInv /\ HandleInv /\ TameInv /\ FramesInv

LEMMA Invariant == Spec => []Inv
<1>1. Init => TameInv
  BY DEF Init, TameInv, Tame
<1>2. Init => Inv
  BY <1>1, InitInv, InitHandle, InitFrames DEF Inv
<1>3. Inv /\ [Next]_vars => Inv'
  BY NextInv, NextHandle, NextTame, NextFrames DEF Inv
<1> QED BY <1>2, <1>3, PTL DEF Spec

\* The steps of Conversation, for its one client.
LEMMA TalkSteps ==
  /\ Life = "new" /\ Life' = "open" /\ UNCHANGED <<Inbox, Serving>>
       => Talk!Accept(1)
  /\ (\E id \in 1..MaxPackets : Inbox' = Append(Inbox, id))
       /\ UNCHANGED <<Life, Serving>>
       => Talk!Send(1)
  /\ Life = "open" /\ Serving = {} /\ Inbox # <<>>
       /\ Serving' = {Head(Inbox)}
       /\ (\E n \in 1..Len(Inbox) : Inbox' = SubSeq(Inbox, n + 1, Len(Inbox)))
       /\ UNCHANGED Life
       => Talk!Take(1)
  /\ Serving' = {} /\ UNCHANGED <<Life, Inbox>>
       => Talk!Finish(1)
<1>1. ASSUME Life = "new", Life' = "open", UNCHANGED <<Inbox, Serving>>
      PROVE  Talk!Accept(1)
  BY <1>1 DEF Talk!Accept
<1>2. ASSUME NEW id \in 1..MaxPackets, Inbox' = Append(Inbox, id),
             UNCHANGED <<Life, Serving>>
      PROVE  Talk!Send(1)
  <2> DEFINE new == Append(Inbox, id)
  <2>1. [c \in {1} |-> Inbox'] = [[c \in {1} |-> Inbox] EXCEPT ![1] = new]
    <3> HIDE DEF new
    <3>1. Inbox' = new
      BY <1>2 DEF new
    <3> QED BY <3>1
  <2> QED BY <1>2, <2>1 DEF Talk!Send
<1>3. ASSUME Life = "open", Serving = {}, Inbox # <<>>,
             Serving' = {Head(Inbox)},
             NEW n \in 1..Len(Inbox), Inbox' = SubSeq(Inbox, n + 1, Len(Inbox)),
             UNCHANGED Life
      PROVE  Talk!Take(1)
  <2> DEFINE new == SubSeq(Inbox, n + 1, Len(Inbox))
             first == Head(Inbox)
  <2>1. /\ [c \in {1} |-> Inbox'] = [[c \in {1} |-> Inbox] EXCEPT ![1] = new]
        /\ [c \in {1} |-> Serving'] = [[c \in {1} |-> Serving] EXCEPT ![1] = {first}]
    <3> HIDE DEF new, first
    <3>1. Inbox' = new /\ Serving' = {first}
      BY <1>3 DEF new, first
    <3> QED BY <3>1
  <2> QED BY <1>3, <2>1 DEF Talk!Take
<1>4. ASSUME Serving' = {}, UNCHANGED <<Life, Inbox>>
      PROVE  Talk!Finish(1)
  BY <1>4 DEF Talk!Finish
<1> QED BY <1>1, <1>2, <1>3, <1>4

\* Until a read ends inside a frame the bytes are a conversation of packets:
\* accepted once, read in the order sent, served one at a time.
THEOREM FramesConverse == Spec => FramedConversation
<1>1. Init => Talk!ConversationInit
  <2>1. ASSUME Init
        PROVE  Life = "new" /\ Inbox = <<>> /\ Serving = {}
    <3>1. Ids(tcp_packet) = {}
      BY <2>1, GarbledFacts DEF Init, NoPacket
    <3>2. DOMAIN stream = {}
      BY <2>1, EmptySeq, LenProperties DEF Init
    <3>3. Unread = {}
      BY <3>2 DEF Unread
    <3> QED BY <2>1, <3>1, <3>3, SortedEmpty DEF Init, Life, Inbox, Serving
  <2> QED BY <2>1 DEF Talk!ConversationInit
<1>2. ASSUME Inv, [Next]_vars
      PROVE  [split' \/ Talk!ConversationNext]_(Talk!convVars)
  <2> USE DEF Inv
  <2> SUFFICES ASSUME ~split' PROVE [Talk!ConversationNext]_(Talk!convVars)
    OBVIOUS
  <2>1. ASSUME UNCHANGED <<Life, Inbox, Serving>>
        PROVE  UNCHANGED Talk!convVars
    BY <2>1 DEF Talk!convVars
  <2>2. ASSUME Talk!Accept(1) \/ Talk!Send(1) \/ Talk!Take(1) \/ Talk!Finish(1)
        PROVE  Talk!ConversationNext
    BY <2>2 DEF Talk!ConversationNext
  <2>3. ASSUME NEW len \in BodyLengths, send(len)
        PROVE  Talk!Send(1)
    <3>1. PICK a \in 1..(Len(sent) + 1) : Unread = a..Len(sent)
      BY <1>2, SplitStays DEF FramesInv, Last
    <3>2. Len(sent) \in Nat /\ Len(sent) + 1 \in 1..MaxPackets
      BY <1>2, <2>3, SendFacts
    <3>3. Unread' = a..(Len(sent) + 1)
      <4>1. Unread' = Unread \cup {Len(sent) + 1}
        BY <1>2, <2>3, UnreadSent
      <4> QED BY <3>1, <3>2, <4>1
    <3>4. Sorted(a..(Len(sent) + 1)) = Append(Sorted(a..Len(sent)), Len(sent) + 1)
      <4>1. a \in Nat /\ Len(sent) \in Nat /\ a <= Len(sent) + 1
        BY <3>2
      <4> QED BY <4>1, SortedAppend
    <3>5. Inbox' = Append(Inbox, Len(sent) + 1)
      BY <3>1, <3>3, <3>4, Zenon DEF Inbox
    <3>6. UNCHANGED <<Life, Serving>>
      BY <1>2, <2>3, SendFacts, Unchanged DEF Life, Serving
    <3> QED BY <3>2, <3>5, <3>6, TalkSteps
  <2>4. CASE startAccpet
    <3>1. Life = "new" /\ Life' = "open"
      BY <2>4 DEF startAccpet, Life
    <3>2. UNCHANGED <<Inbox, Serving>>
      BY <2>4, Unchanged DEF startAccpet, Inbox, Serving
    <3> QED BY <2>2, <3>1, <3>2, TalkSteps
  <2>5. CASE handleData
    <3>1. Serving' = {}
      BY <1>2, <2>5, DoneFacts DEF handleData, HandleInv, Serving
    <3>2. UNCHANGED <<Life, Inbox>>
      BY <2>5, Unchanged DEF handleData, Life, Inbox
    <3> QED BY <2>2, <3>1, <3>2, TalkSteps
  <2>6. ASSUME NEW n \in DOMAIN stream, handleClient(n)
        PROVE  Talk!Take(1)
    <3>1. PICK a \in 1..Len(sent) : \E b \in (a + 1)..(Len(sent) + 1) :
            /\ Unread = a..Len(sent) /\ Unread' = b..Len(sent)
            /\ Ids(tcp_packet)' = {a}
      BY <1>2, <2>6, UnreadRead
    <3>2. PICK b \in (a + 1)..(Len(sent) + 1) :
            /\ Unread = a..Len(sent) /\ Unread' = b..Len(sent)
            /\ Ids(tcp_packet)' = {a}
      BY <3>1
    <3>3. Len(sent) \in Nat /\ at = "waiting" /\ at' = "handling"
      BY <1>2, <2>6, UnreadRead, LenProperties DEF TypeInv
    <3>4. Life = "open" /\ Life' = "open" /\ Serving = {} /\ Serving' = {a}
      BY <1>2, <3>2, <3>3 DEF Life, Serving, HandleInv
    <3>5. a \in Nat /\ b \in Nat /\ a <= b /\ b <= Len(sent) + 1 /\ a <= Len(sent)
      BY <3>3
    <3>6. /\ Sorted(a..Len(sent)) \in Seq(Nat)
          /\ Len(Sorted(a..Len(sent))) = Len(sent) - a + 1
          /\ Sorted(a..Len(sent))[1] = a
          /\ Sorted(b..Len(sent))
               = SubSeq(Sorted(a..Len(sent)), (b - a) + 1, Len(sent) - a + 1)
      BY <3>3, <3>5, SortedDrop
    <3>7. Inbox = Sorted(a..Len(sent)) /\ Inbox' = Sorted(b..Len(sent))
      BY <3>2, Zenon DEF Inbox
    <3> HIDE DEF Inbox
    <3>8. /\ Inbox \in Seq(Nat) /\ Len(Inbox) = Len(sent) - a + 1 /\ Inbox[1] = a
          /\ Inbox' = SubSeq(Inbox, (b - a) + 1, Len(Inbox))
      BY <3>6, <3>7
    <3>9. b - a \in 1..Len(Inbox) /\ Len(Inbox) # 0
      BY <3>3, <3>8
    <3>10. Inbox # <<>> /\ Head(Inbox) = a
      BY <3>8, <3>9, EmptySeq
    <3> QED BY <3>4, <3>8, <3>9, <3>10, TalkSteps
  <2>7. CASE UNCHANGED vars
    <3>1. UNCHANGED <<Life, Inbox, Serving>>
      BY <2>7, Unchanged DEF vars, Life, Inbox, Serving
    <3> QED BY <2>1, <3>1
  <2> QED BY <1>2, <2>1, <2>2, <2>3, <2>4, <2>5, <2>6, <2>7 DEF Next, Server
<1> QED BY <1>1, <1>2, Invariant, PTL
        DEF Spec, FramedConversation, Talk!ConversationSpec
===============================================================================
