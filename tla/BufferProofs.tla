---------------------------- MODULE BufferProofs ----------------------------
(***************************************************************************)
(* What TLAPS proves of Buffer, for any set of bytes, any initial size and *)
(* writes of any length: its type invariant, that it never aborts, that    *)
(* its size is bounded by what it had to hold, and that it implements      *)
(* ByteQueue.                                                              *)
(***************************************************************************)
EXTENDS Buffer, SequenceTheorems, WellFoundedInduction, TLAPS

USE ByteAssumption, SizeAssumption, LengthAssumption

-----------------------------------------------------------------------------
(* Numbers: the first newline and the longest text exist. *)

LEMMA LeastExists ==
    ASSUME NEW T \in SUBSET Nat, T # {}
    PROVE  \E x \in T : \A y \in T : x <= y
<1> DEFINE R == {ss \in Nat \X Nat : ss[1] < ss[2]}
<1>1. IsWellFoundedOn(R, Nat)
  BY NatLessThanWellFounded DEF OpToRel
<1> HIDE DEF R
<1>2. \E x \in T : \A y \in T : ~ (<<y, x>> \in R)
  BY <1>1, WFMin
<1>3. \A x, y \in Nat : <<y, x>> \in R <=> y < x
  BY DEF R
<1>4. PICK x \in T : \A y \in T : ~ (<<y, x>> \in R)
  BY <1>2
<1>5. ASSUME NEW y \in T
      PROVE  x <= y
  <2>1. x \in Nat /\ y \in Nat /\ ~ (y < x)
    BY <1>3, <1>4
  <2> QED
    BY <2>1
<1> QED
  BY <1>5

LEMMA GreatestExists ==
    ASSUME NEW T \in SUBSET Nat, T # {}, NEW m \in Nat, \A x \in T : x <= m
    PROVE  \E x \in T : \A y \in T : y <= x
<1> DEFINE U == {m - x : x \in T}
<1>1. U \in SUBSET Nat /\ U # {}
  <2>1. \A x \in T : x \in Nat /\ m - x \in Nat
    OBVIOUS
  <2> QED
    BY <2>1
<1> HIDE DEF U
<1>2. PICK u \in U : \A v \in U : u <= v
  BY <1>1, LeastExists
<1>3. PICK x \in T : u = m - x
  BY <1>2 DEF U
<1>4. \A y \in T : m - x <= m - y
  BY <1>2, <1>3 DEF U
<1> QED
  BY <1>4

-----------------------------------------------------------------------------
(* Sequences. *)

LEMMA Joined ==
    ASSUME NEW s \in Seq(Byte), NEW t \in Seq(Byte)
    PROVE  /\ s \o t \in Seq(Byte)
           /\ Len(s \o t) = Len(s) + Len(t)
           /\ \A i \in 1 .. Len(s) + Len(t) :
                  (s \o t)[i] = IF i <= Len(s) THEN s[i] ELSE t[i - Len(s)]
  BY ConcatProperties, Zenon

(* Copying keeps the size of the vector and puts data after what was there. *)
LEMMA Copied ==
    \A b, data \in Seq(Byte), n \in Nat : \A r \in 0 .. n :
        n + Len(data) <= Len(b)
        => /\ CopiedTo(b, n, data) \in Seq(Byte)
           /\ Len(CopiedTo(b, n, data)) = Len(b)
           /\ SubSeq(CopiedTo(b, n, data), r + 1, n + Len(data))
              = SubSeq(b, r + 1, n) \o data
<1> SUFFICES
      ASSUME NEW b \in Seq(Byte), NEW data \in Seq(Byte), NEW n \in Nat,
             NEW r \in 0 .. n, n + Len(data) <= Len(b)
      PROVE  /\ CopiedTo(b, n, data) \in Seq(Byte)
             /\ Len(CopiedTo(b, n, data)) = Len(b)
             /\ SubSeq(CopiedTo(b, n, data), r + 1, n + Len(data))
                = SubSeq(b, r + 1, n) \o data
  BY Zenon
<1> DEFINE head == SubSeq(b, 1, n)
           tail == SubSeq(b, n + Len(data) + 1, Len(b))
           c    == head \o data \o tail
<1>0. Len(b) \in Nat /\ Len(data) \in Nat /\ \A i \in 1 .. Len(b) : b[i] \in Byte
  BY LenProperties, ElementOfSeq
<1>1. /\ head \in Seq(Byte) /\ Len(head) = n
      /\ \A i \in 1 .. n : head[i] = b[i]
  <2>1. \A i \in 1 .. n : b[i] \in Byte
    BY <1>0
  <2> QED
    BY <1>0, <2>1, SubSeqProperties
<1>2. tail \in Seq(Byte) /\ Len(tail) = Len(b) - n - Len(data)
  <2>1. \A i \in n + Len(data) + 1 .. Len(b) : b[i] \in Byte
    BY <1>0
  <2> QED
    BY <1>0, <2>1, SubSeqProperties
<1> HIDE DEF head, tail
<1>3. /\ head \o data \in Seq(Byte) /\ Len(head \o data) = n + Len(data)
      /\ \A i \in 1 .. n + Len(data) :
             (head \o data)[i] = IF i <= n THEN b[i] ELSE data[i - n]
  <2>1. /\ head \o data \in Seq(Byte)
        /\ Len(head \o data) = Len(head) + Len(data)
        /\ \A i \in 1 .. Len(head) + Len(data) :
               (head \o data)[i] = IF i <= Len(head) THEN head[i] ELSE data[i - Len(head)]
    BY <1>1, Joined, Zenon
  <2>2. /\ Len(head \o data) = n + Len(data)
        /\ \A i \in 1 .. n + Len(data) :
               (head \o data)[i] = IF i <= n THEN head[i] ELSE data[i - n]
    BY <1>1, <2>1, Zenon
  <2>3. ASSUME NEW i \in 1 .. n + Len(data), i <= n
        PROVE  head[i] = b[i]
    BY <1>0, <1>1, <2>3
  <2> QED
    BY <2>1, <2>2, <2>3
<1>4. /\ c \in Seq(Byte) /\ Len(c) = Len(b)
      /\ \A i \in 1 .. n + Len(data) : c[i] = IF i <= n THEN b[i] ELSE data[i - n]
  BY <1>0, <1>2, <1>3, Joined
<1>5. CopiedTo(b, n, data) = c
  BY DEF CopiedTo, head, tail
<1> HIDE DEF c
<1>6. /\ SubSeq(c, r + 1, n + Len(data)) \in Seq(Byte)
      /\ Len(SubSeq(c, r + 1, n + Len(data))) = n + Len(data) - r
      /\ \A i \in 1 .. n + Len(data) - r :
             SubSeq(c, r + 1, n + Len(data))[i] = c[r + i]
  <2>1. \A i \in r + 1 .. n + Len(data) : c[i] \in Byte
    BY <1>0, <1>4, ElementOfSeq
  <2> QED
    BY <1>0, <2>1, SubSeqProperties
<1>7. /\ SubSeq(b, r + 1, n) \in Seq(Byte)
      /\ Len(SubSeq(b, r + 1, n)) = n - r
      /\ \A i \in 1 .. n - r : SubSeq(b, r + 1, n)[i] = b[r + i]
  <2>1. \A i \in r + 1 .. n : b[i] \in Byte
    BY <1>0
  <2> QED
    BY <1>0, <2>1, SubSeqProperties
<1> DEFINE mid == SubSeq(b, r + 1, n)
<1> HIDE DEF mid
<1>8. /\ mid \o data \in Seq(Byte)
      /\ Len(mid \o data) = n - r + Len(data)
      /\ \A i \in 1 .. n - r + Len(data) : (mid \o data)[i]
             = IF i <= n - r THEN b[r + i] ELSE data[i - (n - r)]
  <2>1. /\ mid \in Seq(Byte) /\ Len(mid) = n - r
        /\ \A i \in 1 .. n - r : mid[i] = b[r + i]
    BY <1>7 DEF mid
  <2> QED
    BY <1>0, <2>1, Joined
<1>9. \A i \in 1 .. n + Len(data) - r :
          SubSeq(c, r + 1, n + Len(data))[i] = (mid \o data)[i]
  BY <1>0, <1>4, <1>6, <1>8
<1>10. SubSeq(c, r + 1, n + Len(data)) = mid \o data
  <2> DEFINE s == SubSeq(c, r + 1, n + Len(data))
             t == mid \o data
  <2>1. s \in Seq(Byte) /\ t \in Seq(Byte) /\ Len(s) = Len(t)
    BY <1>0, <1>6, <1>8
  <2>2. \A i \in 1 .. Len(s) : s[i] = t[i]
    BY <1>0, <1>6, <1>9
  <2> HIDE DEF s, t
  <2>3. s = t
    BY <2>1, <2>2, SeqEqual
  <2> QED
    BY <2>3 DEF s, t
<1> QED
  BY <1>4, <1>5, <1>10 DEF mid

LEMMA ZerosAreBytes ==
    ASSUME NEW n \in Nat
    PROVE  Zeros(n) \in Seq(Byte) /\ Len(Zeros(n)) = n
  BY DEF Zeros

-----------------------------------------------------------------------------
(* The operations. *)

(* EnsureWrite leaves the unread bytes as they are, room for len bytes and *)
(* one more, and grows the vector only when it is too full to compact.     *)
LEMMA EnsuredRoom ==
    ASSUME TypeOK, NeverAborts, NEW len \in Nat
    PROVE  LET room == EnsureWrite(len)
           IN  /\ room.buffer \in Seq(Byte)
               /\ room.read_idx \in 0 .. room.write_idx
               /\ room.write_idx \in Nat
               /\ room.write_idx - room.read_idx = ReadableSize
               /\ room.write_idx + len < Len(room.buffer)
               /\ SubSeq(room.buffer, room.read_idx + 1, room.write_idx) = Readable
               /\ \/ Len(room.buffer) = Capacity
                  \/ /\ Len(room.buffer) = Capacity + 2 * len
                     /\ Capacity - ReadableSize <= len
<1> DEFINE r == read_idx
           w == write_idx
           n == Len(buffer)
<1>1. /\ r \in Nat /\ w \in Nat /\ n \in Nat /\ r <= w /\ w < n
      /\ buffer \in Seq(Byte)
      /\ \A i \in 1 .. n : buffer[i] \in Byte
  BY LenProperties, ElementOfSeq DEF TypeOK, NeverAborts, Capacity
<1>2. /\ Readable \in Seq(Byte) /\ Len(Readable) = w - r
      /\ \A i \in 1 .. w - r : Readable[i] = buffer[r + i]
  <2>1. \A i \in r + 1 .. w : buffer[i] \in Byte
    BY <1>1
  <2> QED
    BY <1>1, <2>1, SubSeqProperties DEF Readable
<1>3. CASE PostIdle > len
  <2>1. EnsureWrite(len) = AsItIs
    BY <1>3 DEF EnsureWrite
  <2> QED
    BY <1>1, <1>3, <2>1 DEF AsItIs, Readable, PostIdle, ReadableSize, Capacity
<1>4. CASE ~ (PostIdle > len) /\ PreIdle + PostIdle > len
  <2>1. EnsureWrite(len) = Compacted
    BY <1>4 DEF EnsureWrite
  <2> DEFINE rest == SubSeq(buffer, w - r + 1, n)
             moved == Readable \o rest
  <2>2. rest \in Seq(Byte) /\ Len(rest) = n - (w - r)
    <3>1. \A i \in w - r + 1 .. n : buffer[i] \in Byte
      BY <1>1
    <3> QED
      BY <1>1, <3>1, SubSeqProperties
  <2> HIDE DEF rest
  <2>3. /\ moved \in Seq(Byte) /\ Len(moved) = n
        /\ \A i \in 1 .. w - r : moved[i] = Readable[i]
    <3>1. /\ moved \in Seq(Byte)
          /\ Len(moved) = Len(Readable) + Len(rest)
          /\ \A i \in 1 .. Len(Readable) + Len(rest) :
                 moved[i] = IF i <= Len(Readable) THEN Readable[i]
                            ELSE rest[i - Len(Readable)]
      BY <1>2, <2>2, Joined, Zenon
    <3> QED
      BY <1>1, <1>2, <2>2, <3>1
  <2> HIDE DEF moved
  <2>4. /\ EnsureWrite(len).buffer = moved
        /\ EnsureWrite(len).read_idx = 0
        /\ EnsureWrite(len).write_idx = w - r
    <3>1. moved = Readable \o SubSeq(buffer, ReadableSize + 1, Capacity)
      BY Zenon DEF ReadableSize, Capacity, moved, rest
    <3>2. ReadableSize = w - r
      BY DEF ReadableSize
    <3>3. Compacted.buffer = Readable \o SubSeq(buffer, ReadableSize + 1, Capacity)
      BY Zenon DEF Compacted
    <3>4. Compacted.read_idx = 0 /\ Compacted.write_idx = ReadableSize
      BY DEF Compacted
    <3> QED
      BY <2>1, <3>1, <3>2, <3>3, <3>4, Zenon
  <2>5. SubSeq(moved, 0 + 1, w - r) = Readable
    <3> DEFINE front == SubSeq(moved, 0 + 1, w - r)
    <3>1. \A i \in 1 .. w - r : moved[i] \in Byte
      BY <1>1, <2>3, ElementOfSeq
    <3>2. /\ front \in Seq(Byte) /\ Len(front) = w - r
          /\ \A i \in 1 .. w - r : front[i] = moved[i]
      BY <1>1, <3>1, SubSeqProperties
    <3> HIDE DEF front
    <3>3. Len(front) = Len(Readable) /\ \A i \in 1 .. Len(front) : front[i] = Readable[i]
      BY <1>2, <2>3, <3>2
    <3>4. front = Readable
      BY <1>2, <3>2, <3>3, SeqEqual
    <3> QED
      BY <3>4 DEF front
  <2>6. w - r \in Nat /\ w - r + len < n
    BY <1>1, <1>4 DEF PreIdle, PostIdle, Capacity
  <2> QED
    BY <1>1, <2>3, <2>4, <2>5, <2>6 DEF ReadableSize, Capacity
<1>5. CASE ~ (PostIdle > len) /\ ~ (PreIdle + PostIdle > len)
  <2> DEFINE more == Zeros(2 * len)
             grown == buffer \o more
  <2>1. EnsureWrite(len) = Resized(len)
    BY <1>5 DEF EnsureWrite
  <2>2. more \in Seq(Byte) /\ Len(more) = 2 * len
    BY ZerosAreBytes
  <2> HIDE DEF more
  <2>3. /\ grown \in Seq(Byte) /\ Len(grown) = n + 2 * len
        /\ \A i \in 1 .. n : grown[i] = buffer[i]
    <3>1. /\ grown \in Seq(Byte)
          /\ Len(grown) = Len(buffer) + Len(more)
          /\ \A i \in 1 .. Len(buffer) + Len(more) :
                 grown[i] = IF i <= Len(buffer) THEN buffer[i] ELSE more[i - Len(buffer)]
      BY <1>1, <2>2, Joined, Zenon
    <3> QED
      BY <1>1, <2>2, <3>1
  <2> HIDE DEF grown
  <2>4. /\ EnsureWrite(len).buffer = grown
        /\ EnsureWrite(len).read_idx = r
        /\ EnsureWrite(len).write_idx = w
    BY <2>1 DEF Resized, AsItIs, grown, more
  <2>5. SubSeq(grown, r + 1, w) = Readable
    <3> DEFINE same == SubSeq(grown, r + 1, w)
    <3>1. \A i \in r + 1 .. w : grown[i] \in Byte
      BY <1>1, <2>3
    <3>2. /\ same \in Seq(Byte) /\ Len(same) = w - r
          /\ \A i \in 1 .. w - r : same[i] = grown[r + i]
      BY <1>1, <3>1, SubSeqProperties
    <3> HIDE DEF same
    <3>3. Len(same) = Len(Readable) /\ \A i \in 1 .. Len(same) : same[i] = Readable[i]
      <4>1. ASSUME NEW i \in 1 .. w - r
            PROVE  same[i] = Readable[i]
        <5>1. r + i \in 1 .. n
          BY <1>1
        <5> QED
          BY <1>2, <2>3, <3>2, <5>1
      <4> QED
        BY <1>2, <3>2, <4>1
    <3>4. same = Readable
      BY <1>2, <3>2, <3>3, SeqEqual
    <3> QED
      BY <3>4 DEF same
  <2>6. w + len < n + 2 * len /\ n - (w - r) <= len
    BY <1>1, <1>5 DEF PreIdle, PostIdle, Capacity
  <2> QED
    BY <1>1, <2>3, <2>4, <2>5, <2>6 DEF ReadableSize, Capacity
<1> QED
  BY <1>3, <1>4, <1>5

(* A write leaves the indices in order, with the bytes after those that    *)
(* were unread, and does not abort.                                        *)
LEMMA Written ==
    ASSUME TypeOK, NeverAborts, NEW data \in Seq(Byte), WriteAndPush(data)
    PROVE  /\ TypeOK'
           /\ NeverAborts'
           /\ Readable' = Readable \o data
           /\ in' = data /\ out' = <<>>
           /\ peak' >= peak /\ peak' >= ReadableSize + Len(data)
           /\ \/ Capacity' = Capacity
              \/ /\ Capacity' = Capacity + 2 * Len(data)
                 /\ Capacity - ReadableSize <= Len(data)
<1> DEFINE len  == Len(data)
           room == EnsureWrite(len)
           vec   == room.buffer
           start == room.read_idx
           end   == room.write_idx
<1>1. len \in Nat
  BY LenProperties
<1>2. /\ vec \in Seq(Byte)
      /\ start \in 0 .. end
      /\ end \in Nat
      /\ end - start = ReadableSize
      /\ end + len < Len(vec)
      /\ SubSeq(vec, start + 1, end) = Readable
      /\ \/ Len(vec) = Capacity
         \/ Len(vec) = Capacity + 2 * len /\ Capacity - ReadableSize <= len
  BY <1>1, EnsuredRoom
<1>3. /\ buffer' = CopiedTo(vec, end, data)
      /\ read_idx' = start
      /\ IF len >= Len(vec) - end
         THEN aborted' = TRUE /\ write_idx' = end
         ELSE aborted' = FALSE /\ write_idx' = end + len
      /\ in' = data
      /\ out' = <<>>
      /\ peak' = IF ReadableSize + len > peak THEN ReadableSize + len ELSE peak
  BY Zenon DEF WriteAndPush
<1> HIDE DEF len, vec, start, end, room
<1>4. Len(vec) \in Nat
  BY <1>2, LenProperties
<1>5. aborted' = FALSE /\ write_idx' = end + len
  BY <1>1, <1>2, <1>3, <1>4
<1>6. /\ CopiedTo(vec, end, data) \in Seq(Byte)
      /\ Len(CopiedTo(vec, end, data)) = Len(vec)
      /\ SubSeq(CopiedTo(vec, end, data), start + 1, end + len)
         = SubSeq(vec, start + 1, end) \o data
  <2>1. PICK v \in Seq(Byte), e \in Nat : v = vec /\ e = end
    BY <1>2
  <2>2. PICK s \in 0 .. e : s = start
    BY <1>2, <2>1
  <2>3. e + Len(data) <= Len(v)
    BY <1>1, <1>2, <1>4, <2>1 DEF len
  <2>4. /\ CopiedTo(v, e, data) \in Seq(Byte)
        /\ Len(CopiedTo(v, e, data)) = Len(v)
        /\ SubSeq(CopiedTo(v, e, data), s + 1, e + Len(data)) = SubSeq(v, s + 1, e) \o data
    BY <2>3, Copied
  <2> QED
    BY <2>1, <2>2, <2>4, Zenon DEF len
<1>7. Readable' = Readable \o data
  BY <1>2, <1>3, <1>5, <1>6, Zenon DEF Readable
<1>8. ReadableSize \in Nat /\ peak' \in Nat /\ peak' >= peak /\ peak' >= ReadableSize + len
  BY <1>1, <1>2, <1>3 DEF TypeOK
<1>9. Capacity' = Len(vec) /\ read_idx' \in Nat /\ write_idx' \in Nat
      /\ read_idx' <= write_idx' /\ write_idx' < Len(vec)
  BY <1>1, <1>2, <1>3, <1>5, <1>6 DEF Capacity
<1>10. TypeOK'
  <2>1. buffer' \in Seq(Byte) /\ in' \in Seq(Byte) /\ out' \in Seq(Byte)
    BY <1>3, <1>6, EmptySeq
  <2>2. read_idx' \in 0 .. write_idx'
    BY <1>9
  <2> QED
    BY <1>5, <1>8, <1>9, <2>1, <2>2, Zenon DEF TypeOK
<1> QED
  BY <1>2, <1>3, <1>5, <1>7, <1>8, <1>9, <1>10 DEF NeverAborts, len

(* Taking the first bytes leaves the others. *)
LEMMA Taken ==
    ASSUME TypeOK, NeverAborts, NEW len \in 0 .. ReadableSize, TakeFirst(len)
    PROVE  /\ TypeOK'
           /\ NeverAborts'
           /\ Readable = out' \o Readable'
           /\ in' = <<>>
           /\ UNCHANGED <<buffer, peak>>
<1> DEFINE r == read_idx
           w == write_idx
<1>1. /\ r \in Nat /\ w \in Nat /\ r <= w /\ w < Len(buffer) /\ Len(buffer) \in Nat
      /\ len \in 0 .. w - r
      /\ buffer \in Seq(Byte)
      /\ \A i \in 1 .. Len(buffer) : buffer[i] \in Byte
  BY LenProperties, ElementOfSeq DEF TypeOK, NeverAborts, Capacity, ReadableSize
<1>2. /\ out' = SubSeq(buffer, r + 1, r + len)
      /\ read_idx' = r + len
      /\ in' = <<>>
      /\ UNCHANGED <<write_idx, buffer, aborted, peak>>
  BY DEF TakeFirst
<1>3. out' \in Seq(Byte)
  <2>1. \A i \in r + 1 .. r + len : buffer[i] \in Byte
    BY <1>1
  <2> QED
    BY <1>1, <1>2, <2>1, SubSeqProperties
<1>4. Readable = out' \o Readable'
  <2>1. /\ r + 1 \in 1 .. Len(buffer) + 1
        /\ r + len \in (r + 1) - 1 .. Len(buffer)
        /\ w \in r + len .. Len(buffer)
    BY <1>1
  <2>2. SubSeq(buffer, r + 1, r + len) \o SubSeq(buffer, r + len + 1, w)
        = SubSeq(buffer, r + 1, w)
    BY <1>1, <2>1, ConcatAdjacentSubSeq, Zenon
  <2> QED
    BY <1>2, <2>2, Zenon DEF Readable
<1>5. in' \in Seq(Byte) /\ read_idx' \in Nat /\ read_idx' <= write_idx'
  BY <1>1, <1>2, EmptySeq
<1> QED
  BY <1>1, <1>2, <1>3, <1>4, <1>5 DEF TypeOK, NeverAborts, Capacity

(* GetLineAndPop takes no more than there is to read. *)
LEMMA LineFits ==
    ASSUME TypeOK, NeverAborts, Newlines # {}
    PROVE  LengthOfText(FirstNewline) \in 0 .. ReadableSize
<1>1. read_idx \in Nat /\ write_idx \in Nat /\ read_idx <= write_idx
  BY DEF TypeOK, NeverAborts
<1>2. Newlines \in SUBSET Nat
  BY <1>1 DEF Newlines
<1>3. \E i \in Newlines : \A j \in Newlines : i <= j
  BY <1>2, LeastExists
<1>4. FirstNewline \in Newlines
  BY <1>3 DEF FirstNewline
<1>5. PICK last \in Newlines : last = FirstNewline
  BY <1>4
<1>6. last \in Nat /\ last - read_idx \in 0 .. ReadableSize
  BY <1>1 DEF Newlines, ReadableSize
<1>7. /\ Text(last) \in SUBSET Nat
      /\ 0 \in Text(last)
      /\ \A n \in Text(last) : n <= last - read_idx
  BY <1>1, <1>6 DEF Text
<1>8. last - read_idx \in Nat
  BY <1>1, <1>6
<1>9. \E n \in Text(last) : \A m \in Text(last) : m <= n
  BY <1>7, <1>8, GreatestExists
<1>10. LengthOfText(last) \in Text(last)
  BY <1>9 DEF LengthOfText
<1>11. LengthOfText(last) \in 0 .. ReadableSize
  BY <1>1, <1>6, <1>7, <1>10 DEF ReadableSize
<1> QED
  BY <1>5, <1>11

(* The reads are all TakeFirst of what there is. *)
LEMMA ReadsTakeFirst ==
    ASSUME TypeOK, NeverAborts
    PROVE  /\ \A len \in Nat : ReadAndPop(len) => \E n \in 0 .. ReadableSize : TakeFirst(n)
           /\ GetLineAndPop => \E n \in 0 .. ReadableSize : TakeFirst(n)
<1>1. ReadableSize \in Nat
  BY DEF TypeOK, NeverAborts, ReadableSize
<1>2. ASSUME NEW len \in Nat, ReadAndPop(len)
      PROVE  \E n \in 0 .. ReadableSize : TakeFirst(n)
  <2> DEFINE n == IF ReadableSize < len THEN ReadableSize ELSE len
  <2>1. n \in 0 .. ReadableSize
    BY <1>1
  <2>2. TakeFirst(n)
    BY <1>2, Zenon DEF ReadAndPop
  <2> QED
    BY <2>1, <2>2
<1>3. ASSUME GetLineAndPop
      PROVE  \E n \in 0 .. ReadableSize : TakeFirst(n)
  <2>1. CASE Newlines = {}
    BY <1>1, <1>3, <2>1 DEF GetLineAndPop
  <2>2. CASE Newlines # {}
    BY <1>3, <2>2, LineFits DEF GetLineAndPop
  <2> QED
    BY <2>1, <2>2
<1> QED
  BY <1>2, <1>3

(* Every step writes a sequence of bytes or takes some of what there is. *)
LEMMA WritesOrTakes ==
    ASSUME TypeOK, NeverAborts, Next
    PROVE  \/ \E data \in Seq(Byte) : WriteAndPush(data)
           \/ \E n \in 0 .. ReadableSize : TakeFirst(n)
<1>1. ASSUME NEW len \in 0 .. MaxLength, NEW data \in [1 .. len -> Byte],
             WriteAndPush(data)
      PROVE  data \in Seq(Byte)
  BY SeqDef
<1>2. ASSUME NEW len \in 0 .. MaxLength, ReadAndPop(len)
      PROVE  \E n \in 0 .. ReadableSize : TakeFirst(n)
  BY <1>2, ReadsTakeFirst
<1>3. ASSUME GetLineAndPop
      PROVE  \E n \in 0 .. ReadableSize : TakeFirst(n)
  BY <1>3, ReadsTakeFirst
<1> QED
  BY <1>1, <1>2, <1>3, Zenon DEF Next

LEMMA InitIsInOrder == Init => TypeOK /\ NeverAborts
<1> SUFFICES ASSUME Init
             PROVE  TypeOK /\ NeverAborts
  OBVIOUS
<1>1. buffer \in Seq(Byte) /\ Len(buffer) = DefaultSize
  BY ZerosAreBytes DEF Init
<1>2. in \in Seq(Byte) /\ out \in Seq(Byte)
  BY EmptySeq DEF Init
<1>3. TypeOK
  <2>1. read_idx \in 0 .. write_idx /\ write_idx \in Nat /\ peak \in Nat
    BY DEF Init
  <2> QED
    BY <1>1, <1>2, <2>1, Zenon DEF Init, TypeOK
<1>4. NeverAborts
  BY <1>1 DEF Init, NeverAborts, Capacity
<1> QED
  BY <1>3, <1>4

LEMMA StepKeepsOrder == TypeOK /\ NeverAborts /\ [Next]_vars => TypeOK' /\ NeverAborts'
<1> SUFFICES ASSUME TypeOK, NeverAborts, [Next]_vars
             PROVE  TypeOK' /\ NeverAborts'
  OBVIOUS
<1>1. ASSUME NEW data \in Seq(Byte), WriteAndPush(data)
      PROVE  TypeOK' /\ NeverAborts'
  BY <1>1, Written
<1>2. ASSUME NEW n \in 0 .. ReadableSize, TakeFirst(n)
      PROVE  TypeOK' /\ NeverAborts'
  BY <1>2, Taken
<1>3. CASE UNCHANGED vars
  BY <1>3 DEF vars, TypeOK, NeverAborts, Capacity
<1> QED
  BY <1>1, <1>2, <1>3, WritesOrTakes

-----------------------------------------------------------------------------
(* The state variables keep their types. *)
THEOREM TypeCorrect == Spec => []TypeOK
  BY InitIsInOrder, StepKeepsOrder, PTL DEF Spec

(* MoveWriteOffset never aborts, after any sequence of writes and reads,   *)
(* of any lengths.  That the last element is never filled is what makes    *)
(* the invariant inductive: without it a write of nothing would abort.     *)
THEOREM NoAbort == Spec => []NeverAborts
  BY InitIsInOrder, StepKeepsOrder, PTL DEF Spec

(* The size of the vector is bounded by what it had to hold at once, not   *)
(* by what passed through it.                                              *)
THEOREM SizeBounded == Spec => []BoundedByPeak
<1>1. Init => BoundedByPeak
  BY ZerosAreBytes DEF Init, BoundedByPeak, Capacity
<1>2. TypeOK /\ NeverAborts /\ BoundedByPeak /\ [Next]_vars => BoundedByPeak'
  <2> SUFFICES ASSUME TypeOK, NeverAborts, BoundedByPeak, [Next]_vars
               PROVE  BoundedByPeak'
    OBVIOUS
  <2>1. ASSUME NEW data \in Seq(Byte), WriteAndPush(data)
        PROVE  BoundedByPeak'
    <3>1. /\ peak' >= peak /\ peak' >= ReadableSize + Len(data)
          /\ \/ Capacity' = Capacity
             \/ /\ Capacity' = Capacity + 2 * Len(data)
                /\ Capacity - ReadableSize <= Len(data)
      BY <2>1, Written
    <3>2. /\ Capacity \in Nat /\ Len(data) \in Nat /\ ReadableSize \in Nat
          /\ peak \in Nat /\ peak' \in Nat
      <4>1. peak' \in Nat
        BY <2>1, Written DEF TypeOK
      <4> QED
        BY <4>1, LenProperties DEF TypeOK, NeverAborts, Capacity, ReadableSize
    <3> HIDE DEF BoundedByPeak
    <3>3. Capacity <= DefaultSize \/ Capacity <= 3 * peak
      BY DEF BoundedByPeak
    <3>4. Capacity' <= DefaultSize \/ Capacity' <= 3 * peak'
      BY <3>1, <3>2, <3>3
    <3> QED
      BY <3>4, Zenon DEF BoundedByPeak
  <2>2. ASSUME NEW n \in 0 .. ReadableSize, TakeFirst(n)
        PROVE  BoundedByPeak'
    <3>1. UNCHANGED <<buffer, peak>>
      BY <2>2, Taken
    <3> QED
      BY <3>1 DEF BoundedByPeak, Capacity
  <2>3. CASE UNCHANGED vars
    BY <2>3 DEF vars, BoundedByPeak, Capacity
  <2> QED
    BY <2>1, <2>2, <2>3, WritesOrTakes
<1> QED
  BY <1>1, <1>2, TypeCorrect, NoAbort, PTL DEF Spec

-----------------------------------------------------------------------------
(* Compaction, growth and the strict bounds are invisible: the buffer is a *)
(* queue of bytes.                                                         *)
THEOREM BufferIsByteQueue == Spec => IsByteQueue
<1>1. Init => Q!Init
  <2> SUFFICES ASSUME Init
               PROVE  Q!Init
    OBVIOUS
  <2>1. Readable = <<>>
    BY SubSeqEmpty DEF Init, Readable
  <2> QED
    BY <2>1 DEF Init, Q!Init
<1>2. TypeOK /\ NeverAborts /\ [Next]_vars => [Q!Next]_Q!vars
  <2> SUFFICES ASSUME TypeOK, NeverAborts, [Next]_vars
               PROVE  Q!Next \/ UNCHANGED Q!vars
    OBVIOUS
  <2>1. ASSUME NEW data \in Seq(Byte), WriteAndPush(data)
        PROVE  Q!Put
    BY <2>1, Written, Zenon DEF Q!Put
  <2>2. ASSUME NEW n \in 0 .. ReadableSize, TakeFirst(n)
        PROVE  Q!Take
    BY <2>2, Taken, Zenon DEF Q!Take
  <2>3. CASE UNCHANGED vars
    BY <2>3 DEF vars, Q!vars, Readable
  <2> QED
    BY <2>1, <2>2, <2>3, WritesOrTakes DEF Q!Next
<1> QED
  BY <1>1, <1>2, TypeCorrect, NoAbort, PTL DEF Spec, IsByteQueue, Q!Spec

-----------------------------------------------------------------------------
(* In bytes without a 0 the text of a line is the line. *)
LEMMA LineIsText ==
    ASSUME TypeOK, NeverAborts, Newlines # {},
           \A i \in read_idx + 1 .. write_idx : buffer[i] # Nul
    PROVE  /\ FirstNewline \in Newlines
           /\ \A j \in Newlines : FirstNewline <= j
           /\ LengthOfText(FirstNewline) = FirstNewline - read_idx
<1>1. read_idx \in Nat /\ write_idx \in Nat /\ read_idx <= write_idx
  BY DEF TypeOK, NeverAborts
<1>2. Newlines \in SUBSET Nat
  BY <1>1 DEF Newlines
<1>3. \E i \in Newlines : \A j \in Newlines : i <= j
  BY <1>2, LeastExists
<1>4. FirstNewline \in Newlines /\ \A j \in Newlines : FirstNewline <= j
  BY <1>3 DEF FirstNewline
<1>5. PICK last \in Newlines : last = FirstNewline
  BY <1>4
<1>6. last \in read_idx + 1 .. write_idx
  BY DEF Newlines
<1>7. last - read_idx \in Text(last) /\ \A n \in Text(last) : n <= last - read_idx /\ n \in Nat
  <2>1. \A i \in read_idx + 1 .. read_idx + (last - read_idx) : buffer[i] # Nul
    BY <1>1, <1>6
  <2> QED
    BY <1>1, <1>6, <2>1 DEF Text
<1>8. LengthOfText(last) \in Text(last) /\ \A n \in Text(last) : n <= LengthOfText(last)
  BY <1>7 DEF LengthOfText
<1>9. LengthOfText(last) = last - read_idx
  <2>1. /\ LengthOfText(last) <= last - read_idx /\ last - read_idx <= LengthOfText(last)
        /\ LengthOfText(last) \in Nat /\ last - read_idx \in Int
    BY <1>1, <1>6, <1>7, <1>8
  <2> QED
    BY <2>1
<1> QED
  BY <1>4, <1>5, <1>9

(* A line is taken up to and including the first newline, or not at all    *)
(* (server.hpp:314-328).                                                   *)
THEOREM LinesCorrect == Spec => LineComesWhole
<1> DEFINE Line == GetLineAndPop /\ (\A i \in read_idx + 1 .. write_idx : buffer[i] # Nul)
               => IF Newlines = {} THEN out' = <<>>
                  ELSE /\ out' # <<>>
                       /\ out'[Len(out')] = Newline
                       /\ \A i \in 1 .. Len(out') - 1 : out'[i] # Newline
<1>1. ASSUME TypeOK, NeverAborts, GetLineAndPop,
             \A i \in read_idx + 1 .. write_idx : buffer[i] # Nul
      PROVE  IF Newlines = {} THEN out' = <<>>
             ELSE /\ out' # <<>>
                  /\ out'[Len(out')] = Newline
                  /\ \A i \in 1 .. Len(out') - 1 : out'[i] # Newline
  <2> DEFINE r == read_idx
             w == write_idx
  <2>1. /\ r \in Nat /\ w \in Nat /\ r <= w /\ w < Len(buffer) /\ Len(buffer) \in Nat
        /\ \A i \in 1 .. Len(buffer) : buffer[i] \in Byte
    BY <1>1, LenProperties, ElementOfSeq DEF TypeOK, NeverAborts, Capacity
  <2>2. CASE Newlines = {}
    <3>1. out' = SubSeq(buffer, r + 1, r + 0)
      BY <1>1, <2>2 DEF GetLineAndPop, TakeFirst
    <3>2. out' = <<>>
      BY <2>1, <3>1, SubSeqEmpty
    <3> QED
      BY <2>2, <3>2
  <2>3. CASE Newlines # {}
    <3>1. PICK last \in Newlines : /\ last = FirstNewline
                                   /\ \A j \in Newlines : last <= j
                                   /\ LengthOfText(last) = last - r
      BY <1>1, <2>3, LineIsText
    <3>2. last \in r + 1 .. w /\ buffer[last] = Newline
      BY DEF Newlines
    <3>3. out' = SubSeq(buffer, r + 1, last)
      <4>1. out' = SubSeq(buffer, r + 1, r + (last - r))
        BY <1>1, <2>3, <3>1 DEF GetLineAndPop, TakeFirst
      <4>2. r + (last - r) = last
        BY <2>1, <3>2
      <4> QED
        BY <4>1, <4>2
    <3>4. /\ Len(out') = last - r
          /\ \A i \in 1 .. last - r : out'[i] = buffer[r + i]
          /\ out' \in Seq(Byte)
      <4>1. \A i \in r + 1 .. last : buffer[i] \in Byte
        BY <2>1, <3>2
      <4>2. /\ SubSeq(buffer, r + 1, last) \in Seq(Byte)
            /\ Len(SubSeq(buffer, r + 1, last)) = last - r
            /\ \A i \in 1 .. last - r : SubSeq(buffer, r + 1, last)[i] = buffer[r + i]
        BY <2>1, <3>2, <4>1, SubSeqProperties
      <4> QED
        BY <3>3, <4>2, Zenon
    <3>5. out'[last - r] = Newline
      BY <2>1, <3>2, <3>4
    <3>6. ASSUME NEW i \in 1 .. last - r - 1
          PROVE  out'[i] # Newline
      <4>1. r + i \in r + 1 .. w /\ r + i < last /\ i \in 1 .. last - r
        BY <2>1, <3>2
      <4>2. buffer[r + i] # Newline
        BY <3>1, <4>1, <3>2, <2>1 DEF Newlines
      <4> QED
        BY <3>4, <4>1, <4>2
    <3>7. out' # <<>>
      <4>1. Len(out') # 0
        BY <2>1, <3>2, <3>4
      <4> QED
        BY <4>1, EmptySeq
    <3> QED
      BY <2>3, <3>4, <3>5, <3>6, <3>7
  <2> QED
    BY <2>2, <2>3
<1>2. TypeOK /\ NeverAborts /\ [Next]_vars => [Line]_vars
  BY <1>1
<1> QED
  BY <1>2, TypeCorrect, NoAbort, PTL DEF Spec, LineComesWhole
=============================================================================
