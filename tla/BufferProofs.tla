------------------------------ MODULE BufferProofs ------------------------------
(***************************************************************************)
(* Proofs about Buffer, for any sizes and bytes: the indices stay in order,  *)
(* the memory is bounded by twice the peak, and the buffer is a byte queue.  *)
(***************************************************************************)
EXTENDS Buffer, SequenceTheorems, TLAPS

\* A buffer in order, as every operation finds and leaves it.
Good(b) == b \in State /\ InOrder(b)

-----------------------------------------------------------------------------
(* Vectors *)

LEMMA OverwriteProperties ==
    ASSUME NEW buf \in Seq(Byte), NEW at \in Nat, NEW data \in Seq(Byte),
           at + Len(data) <= Len(buf)
    PROVE  /\ Overwrite(buf, at, data) \in Seq(Byte)
           /\ Len(Overwrite(buf, at, data)) = Len(buf)
           /\ \A i \in 1..Len(buf) : Overwrite(buf, at, data)[i] =
                  IF at < i /\ i <= at + Len(data) THEN data[i - at] ELSE buf[i]
<1>1. \A i \in 1..Len(buf) :
          (IF at < i /\ i <= at + Len(data) THEN data[i - at] ELSE buf[i]) \in Byte
    <2> SUFFICES ASSUME NEW i \in 1..Len(buf)
                 PROVE  (IF at < i /\ i <= at + Len(data) THEN data[i - at] ELSE buf[i]) \in Byte
        OBVIOUS
    <2>1. CASE at < i /\ i <= at + Len(data)
        <3>1. i - at \in 1..Len(data)
            BY <2>1
        <3> QED
            BY <2>1, <3>1, ElementOfSeq
    <2>2. CASE ~(at < i /\ i <= at + Len(data))
        BY <2>2, ElementOfSeq
    <2> QED
        BY <2>1, <2>2
<1> QED
    BY <1>1 DEF Overwrite

LEMMA ResizeProperties ==
    ASSUME NEW buf \in Seq(Byte), NEW size \in Nat
    PROVE  /\ Resize(buf, size) \in Seq(Byte)
           /\ Len(Resize(buf, size)) = size
           /\ \A i \in 1..size : i <= Len(buf) => Resize(buf, size)[i] = buf[i]
<1>1. \A i \in 1..size : (IF i <= Len(buf) THEN buf[i] ELSE Fresh) \in Byte
    BY BufferAssumption, ElementOfSeq
<1> QED
    BY <1>1 DEF Resize

LEMMA SliceProperties ==
    ASSUME NEW buf \in Seq(Byte), NEW from \in Nat, NEW to \in Nat,
           from <= to, to <= Len(buf)
    PROVE  /\ SubSeq(buf, from + 1, to) \in Seq(Byte)
           /\ Len(SubSeq(buf, from + 1, to)) = to - from
           /\ \A i \in 1..(to - from) : SubSeq(buf, from + 1, to)[i] = buf[from + i]
<1> DEFINE m == from + 1
<1>1. m \in Int /\ to \in Int /\ to - m + 1 = to - from
    OBVIOUS
<1>2. \A i \in m..to : buf[i] \in Byte
    BY ElementOfSeq
<1>3. \A i \in 1..(to - from) : m + i - 1 = from + i
    OBVIOUS
<1>4. m <= to \/ to - from = 0
    OBVIOUS
<1>5. IF m <= to THEN to - m + 1 = to - from ELSE to - from = 0
    BY <1>1, <1>4
<1> HIDE DEF m
<1>6. /\ SubSeq(buf, m, to) \in Seq(Byte)
      /\ Len(SubSeq(buf, m, to)) = IF m <= to THEN to - m + 1 ELSE 0
      /\ \A i \in 1..(to - m + 1) : SubSeq(buf, m, to)[i] = buf[m + i - 1]
    BY <1>1, <1>2, SubSeqProperties
<1>7. /\ SubSeq(buf, m, to) \in Seq(Byte)
      /\ Len(SubSeq(buf, m, to)) = to - from
      /\ \A i \in 1..(to - from) : SubSeq(buf, m, to)[i] = buf[from + i]
    BY <1>1, <1>3, <1>5, <1>6
<1> QED
    BY <1>7 DEF m

\* The n elements of new behind position to are those of old behind from.
Same(new, to, old, from, n) == \A i \in 1..n : new[to + i] = old[from + i]

\* new is old with data written to the positions to..m-1, where the slice of old
\* that starts at from ends.
Patched(new, old, from, to, m, data) ==
    /\ Len(new) = Len(old) /\ from <= to /\ m = to + Len(data) /\ m <= Len(old)
    /\ \A i \in 1..Len(old) :
           new[i] = IF to < i /\ i <= m THEN data[i - to] ELSE old[i]

\* Concatenation under a name, which the provers match where they do not match \o.
Joined(c, d) == c \o d

\* The first n elements of a slice.
LEMMA HeadOfSlice ==
    ASSUME NEW buf \in Seq(Byte), NEW from \in Nat, NEW to \in Nat,
           from <= to, to <= Len(buf), NEW n \in Nat, n <= to - from
    PROVE  SubSeq(buf, from + 1, from + n) = SubSeq(SubSeq(buf, from + 1, to), 1, n)
<1> DEFINE m == from + n
           z == 0
           c == SubSeq(buf, from + 1, to)
           d == SubSeq(buf, from + 1, m)
           e == SubSeq(c, z + 1, n)
<1>0. /\ m \in Nat /\ from <= m /\ m <= Len(buf) /\ m - from = n
      /\ z \in Nat /\ z <= n /\ n - z = n /\ z + 1 = 1 /\ \A i \in 1..n : z + i = i
      /\ \A i \in 1..n : i \in 1..(to - from)
    OBVIOUS
<1> HIDE DEF m, z
<1>1. c \in Seq(Byte) /\ Len(c) = to - from /\ \A i \in 1..(to - from) : c[i] = buf[from + i]
    BY SliceProperties
<1>2. d \in Seq(Byte) /\ Len(d) = m - from /\ \A i \in 1..(m - from) : d[i] = buf[from + i]
    BY <1>0, SliceProperties
<1> HIDE DEF c
<1>3. e \in Seq(Byte) /\ Len(e) = n - z /\ \A i \in 1..(n - z) : e[i] = c[z + i]
    BY <1>0, <1>1, SliceProperties
<1> HIDE DEF d, e
<1>4. \A i \in 1..n : d[i] = e[i]
    BY <1>0, <1>1, <1>2, <1>3
<1>5. d = e
    BY <1>0, <1>2, <1>3, <1>4, SeqEqual
<1> QED
    BY <1>0, <1>5 DEF c, d, e, m

LEMMA JoinedAssociative ==
    ASSUME NEW c \in Seq(Byte), NEW d \in Seq(Byte), NEW e \in Seq(Byte)
    PROVE  Joined(Joined(c, d), e) = Joined(c, Joined(d, e))
<1>1. (c \o d) \o e = c \o (d \o e)
    BY ConcatAssociative
<1> QED
    BY <1>1, Zenon DEF Joined

\* A sequence is its first n elements followed by the others.
LEMMA HeadAndTail ==
    ASSUME NEW data \in Seq(Byte), NEW n \in Nat, n <= Len(data)
    PROVE  /\ SubSeq(data, 1, n) \in Seq(Byte) /\ Len(SubSeq(data, 1, n)) = n
           /\ SubSeq(data, n + 1, Len(data)) \in Seq(Byte)
           /\ Len(SubSeq(data, n + 1, Len(data))) = Len(data) - n
           /\ Joined(SubSeq(data, 1, n), SubSeq(data, n + 1, Len(data))) = data
<1> DEFINE size == Len(data)
           c == SubSeq(data, 1, n)
           d == SubSeq(data, n + 1, size)
<1>0. size \in Nat /\ size = Len(data) /\ n <= size
    OBVIOUS
<1> HIDE DEF size
<1>1. c \in Seq(Byte) /\ Len(c) = n /\ \A i \in 1..n : c[i] = data[i]
    <2> DEFINE z == 0
    <2>1. z \in Nat /\ z <= n /\ n - z = n /\ z + 1 = 1 /\ \A i \in 1..n : z + i = i
        OBVIOUS
    <2> HIDE DEF z
    <2>2. /\ SubSeq(data, z + 1, n) \in Seq(Byte) /\ Len(SubSeq(data, z + 1, n)) = n - z
          /\ \A i \in 1..(n - z) : SubSeq(data, z + 1, n)[i] = data[z + i]
        BY <1>0, <2>1, SliceProperties
    <2> QED
        BY <2>1, <2>2
<1>2. d \in Seq(Byte) /\ Len(d) = size - n /\ \A i \in 1..(size - n) : d[i] = data[n + i]
    BY SMTT(30), <1>0, SliceProperties
<1> HIDE DEF c, d
<1>3. /\ c \o d \in Seq(Byte) /\ Len(c \o d) = size
      /\ \A i \in 1..size : (c \o d)[i] = IF i <= n THEN c[i] ELSE d[i - n]
    <2>1. c \in Seq(Byte) /\ d \in Seq(Byte) /\ Len(c) = n /\ Len(c) + Len(d) = size
        BY <1>0, <1>1, <1>2
    <2>2. /\ c \o d \in Seq(Byte) /\ Len(c \o d) = Len(c) + Len(d)
          /\ \A i \in 1..(Len(c) + Len(d)) :
                 (c \o d)[i] = IF i <= Len(c) THEN c[i] ELSE d[i - Len(c)]
        BY <2>1, ConcatProperties
    <2> QED
        BY <2>1, <2>2
<1>4. \A i \in 1..size : (c \o d)[i] = data[i]
    <2> SUFFICES ASSUME NEW i \in 1..size
                 PROVE  (c \o d)[i] = data[i]
        OBVIOUS
    <2>1. (c \o d)[i] = IF i <= n THEN c[i] ELSE d[i - n]
        BY <1>0, <1>3
    <2>2. i <= n => i \in 1..n
        BY <1>0
    <2>3. ~(i <= n) => i - n \in 1..(size - n) /\ n + (i - n) = i
        BY <1>0
    <2> QED
        BY <1>1, <1>2, <2>1, <2>2, <2>3
<1>5. Len(c \o d) = size
    BY <1>0, <1>3
<1>6. c \o d = data
    BY <1>0, <1>3, <1>4, <1>5, SeqEqual
<1> QED
    BY <1>0, <1>1, <1>2, <1>6 DEF c, d, size, Joined

LEMMA AppendedSlice ==
    ASSUME NEW old \in Seq(Byte), NEW new \in Seq(Byte),
           NEW from \in Nat, NEW to \in Nat, NEW data \in Seq(Byte), NEW m \in Nat,
           Patched(new, old, from, to, m, data)
    PROVE  SubSeq(new, from + 1, m) = Joined(SubSeq(old, from + 1, to), data)
<1> DEFINE n == to - from
           c == SubSeq(old, from + 1, to)
           d == SubSeq(new, from + 1, m)
<1>0. n \in Nat /\ Len(data) \in Nat /\ from <= m /\ m - from = n + Len(data)
    BY DEF Patched
<1>1. c \in Seq(Byte) /\ Len(c) = n /\ \A i \in 1..n : c[i] = old[from + i]
    BY SliceProperties DEF Patched
<1>2. d \in Seq(Byte) /\ Len(d) = m - from /\ \A i \in 1..(m - from) : d[i] = new[from + i]
    BY <1>0, SliceProperties DEF Patched
<1>3. \A i \in 1..n : from + i \in 1..Len(old) /\ ~(to < from + i)
    BY DEF Patched
<1>4. \A i \in 1..(n + Len(data)) : i > n =>
          /\ from + i \in 1..Len(old) /\ to < from + i /\ from + i <= m
          /\ (from + i) - to = i - n
    BY DEF Patched
<1> HIDE DEF n, c, d
<1>5. /\ c \o data \in Seq(Byte) /\ Len(c \o data) = n + Len(data)
      /\ \A i \in 1..(n + Len(data)) :
             (c \o data)[i] = IF i <= n THEN c[i] ELSE data[i - n]
    BY <1>1, ConcatProperties
<1>6. ASSUME NEW i \in 1..(n + Len(data))
      PROVE  d[i] = (c \o data)[i]
    <2>1. d[i] = new[from + i]
        BY <1>0, <1>2
    <2>2. CASE i <= n
        <3>1. i \in 1..n
            BY <1>0, <2>2
        <3>2. new[from + i] = old[from + i]
            BY <1>3, <3>1 DEF Patched
        <3> QED
            BY <1>1, <1>5, <2>1, <2>2, <3>1, <3>2
    <2>3. CASE i > n
        <3>1. new[from + i] = data[(from + i) - to]
            BY <1>4, <2>3 DEF Patched
        <3>2. new[from + i] = data[i - n]
            BY <1>4, <2>3, <3>1
        <3>3. (c \o data)[i] = data[i - n]
            BY <1>0, <1>5, <2>3
        <3> QED
            BY <2>1, <3>2, <3>3
    <2>4. i <= n \/ i > n
        BY <1>0
    <2> QED
        BY <2>2, <2>3, <2>4
<1>7. d = c \o data
    BY <1>0, <1>2, <1>5, <1>6, SeqEqual
<1> QED
    BY <1>7 DEF c, d, Joined

LEMMA MovedSlice ==
    ASSUME NEW old \in Seq(Byte), NEW new \in Seq(Byte), NEW n \in Nat,
           NEW from \in Nat, NEW fromEnd \in Nat, fromEnd = from + n, fromEnd <= Len(old),
           NEW to \in Nat, NEW toEnd \in Nat, toEnd = to + n, toEnd <= Len(new),
           Same(new, to, old, from, n)
    PROVE  SubSeq(new, to + 1, toEnd) = SubSeq(old, from + 1, fromEnd)
<1> DEFINE c == SubSeq(old, from + 1, fromEnd)
           d == SubSeq(new, to + 1, toEnd)
<1>0. from <= fromEnd /\ fromEnd - from = n /\ to <= toEnd /\ toEnd - to = n
    OBVIOUS
<1>1. c \in Seq(Byte) /\ Len(c) = n /\ \A i \in 1..n : c[i] = old[from + i]
    BY <1>0, SliceProperties
<1>2. d \in Seq(Byte) /\ Len(d) = n /\ \A i \in 1..n : d[i] = new[to + i]
    BY <1>0, SliceProperties
<1> HIDE DEF c, d
<1>3. c = d
    BY <1>1, <1>2, SeqEqual DEF Same
<1> QED
    BY <1>3 DEF c, d

LEMMA ContentProperties ==
    ASSUME NEW b, Good(b)
    PROVE  /\ readableBytes(b) \in Nat
           /\ Content(b) \in Seq(Byte)
           /\ Len(Content(b)) = readableBytes(b)
           /\ \A i \in 1..readableBytes(b) : Content(b)[i] = b.buf[b.reader + i]
<1>1. /\ b.buf \in Seq(Byte) /\ b.reader \in Nat /\ b.writer \in Nat
      /\ b.reader <= b.writer /\ b.writer <= Len(b.buf)
    BY DEF Good, State, InOrder
<1> QED
    BY SMTT(30), <1>1, SliceProperties DEF readableBytes, Content

-----------------------------------------------------------------------------
(* Operations *)

\* Growing the vector, or moving the readable bytes to its front, leaves them as
\* they are and makes the room that was asked for.
LEMMA EnsureProperties ==
    ASSUME NEW b, Good(b), NEW len \in Nat
    PROVE  LET e == ensureWritableBytes(b, len)
           IN  /\ Good(e)
               /\ writableBytes(e) >= len
               /\ Content(e) = Content(b)
               /\ readableBytes(e) = readableBytes(b)
               /\ \/ Len(e.buf) = Len(b.buf)
                  \/ Len(e.buf) <= kCheapPrepend + 2 * (readableBytes(b) + len)
<1> USE BufferAssumption
<1> DEFINE e == ensureWritableBytes(b, len)
<1>0. /\ b.buf \in Seq(Byte) /\ b.reader \in Nat /\ b.writer \in Nat
      /\ kCheapPrepend <= b.reader /\ b.reader <= b.writer /\ b.writer <= Len(b.buf)
      /\ Len(b.buf) \in Nat
    BY DEF Good, State, InOrder
<1>c. /\ Content(b) \in Seq(Byte) /\ Len(Content(b)) = b.writer - b.reader
      /\ \A i \in 1..(b.writer - b.reader) : Content(b)[i] = b.buf[b.reader + i]
    BY ContentProperties DEF readableBytes
<1>1. CASE writableBytes(b) >= len
    <2>1. e = b
        BY <1>0, <1>1 DEF ensureWritableBytes, writableBytes
    <2> QED
        BY <1>1, <2>1
<1>2. CASE writableBytes(b) < len /\ ~Fits(b, len)
    <2> DEFINE buf == Resize(b.buf, b.writer + len)
    <2>0. b \in State
        BY DEF Good
    <2>1. e = [buf |-> buf, reader |-> b.reader, writer |-> b.writer]
        BY <1>2, <2>0 DEF ensureWritableBytes, makeSpace, State
    <2>2. /\ buf \in Seq(Byte) /\ Len(buf) = b.writer + len
          /\ \A i \in 1..b.writer : buf[i] = b.buf[i]
        <3>1. b.writer + len \in Nat
            BY <1>0
        <3>2. /\ buf \in Seq(Byte) /\ Len(buf) = b.writer + len
              /\ \A i \in 1..(b.writer + len) : i <= Len(b.buf) => buf[i] = b.buf[i]
            BY <1>0, <3>1, ResizeProperties
        <3>3. \A i \in 1..b.writer : i \in 1..(b.writer + len) /\ i <= Len(b.buf)
            BY <1>0
        <3> HIDE DEF buf
        <3> QED
            BY <3>2, <3>3
    <2> HIDE DEF buf
    <2>3. Good(e)
        BY <1>0, <2>1, <2>2 DEF Good, State, InOrder
    <2>4. Content(e) = Content(b)
        <3>1. \A i \in 1..(b.writer - b.reader) : b.reader + i \in 1..b.writer
            BY <1>0
        <3>2. \A i \in 1..(b.writer - b.reader) : buf[b.reader + i] = b.buf[b.reader + i]
            BY <2>2, <3>1
        <3> DEFINE n == b.writer - b.reader
        <3>3. n \in Nat /\ b.reader + n = b.writer /\ b.reader + n <= Len(buf)
            BY <1>0, <2>2
        <3>4. \A i \in 1..n : buf[b.reader + i] = b.buf[b.reader + i]
            BY <3>2
        <3> HIDE DEF n
        <3> DEFINE old  == b.buf
                   from == b.reader
                   to   == b.writer
        <3>5. /\ old \in Seq(Byte) /\ from \in Nat /\ to \in Nat /\ to = from + n
              /\ to <= Len(old) /\ to <= Len(buf)
              /\ Same(buf, from, old, from, n)
            BY <1>0, <3>3, <3>4 DEF Same
        <3> HIDE DEF old, from, to
        <3>6. SubSeq(buf, from + 1, to) = SubSeq(old, from + 1, to)
            BY <2>2, <3>3, <3>5, MovedSlice
        <3> HIDE DEF e
        <3>7. Content(e) = SubSeq(buf, b.reader + 1, b.writer)
            BY <2>1 DEF Content
        <3> QED
            BY <3>3, <3>6, <3>7 DEF Content, old, from, to
    <2>5. Len(e.buf) <= kCheapPrepend + 2 * (readableBytes(b) + len)
        <3>1. Len(b.buf) - b.writer + b.reader < len + kCheapPrepend
            BY <1>0, <1>2 DEF Fits, writableBytes, prependableBytes
        <3>2. Len(e.buf) = b.writer + len
            BY <2>1, <2>2
        <3>3. b.writer + len <= kCheapPrepend + 2 * ((b.writer - b.reader) + len)
            BY SMTT(30), <1>0, <3>1
        <3> QED
            BY <3>2, <3>3 DEF readableBytes
    <2> QED
        BY <1>0, <2>1, <2>2, <2>3, <2>4, <2>5 DEF writableBytes, readableBytes
<1>3. CASE writableBytes(b) < len /\ Fits(b, len)
    <2> DEFINE buf == Overwrite(b.buf, kCheapPrepend, Content(b))
    <2>1. e = [buf |-> buf, reader |-> kCheapPrepend,
               writer |-> kCheapPrepend + (b.writer - b.reader)]
        BY <1>3 DEF ensureWritableBytes, makeSpace, readableBytes
    <2>a. kCheapPrepend + Len(Content(b)) <= Len(b.buf)
        BY <1>0, <1>c
    <2>2. /\ buf \in Seq(Byte) /\ Len(buf) = Len(b.buf)
          /\ \A i \in 1..Len(b.buf) : buf[i] =
                 IF kCheapPrepend < i /\ i <= kCheapPrepend + Len(Content(b))
                   THEN Content(b)[i - kCheapPrepend] ELSE b.buf[i]
        BY ZenonT(40), <1>0, <1>c, <2>a, OverwriteProperties
    <2> HIDE DEF buf
    <2>3. Good(e)
        BY <1>0, <2>1, <2>2 DEF Good, State, InOrder
    <2>4. Content(e) = Content(b)
        <3>1. /\ Content(e) \in Seq(Byte) /\ Len(Content(e)) = b.writer - b.reader
              /\ \A i \in 1..(b.writer - b.reader) : Content(e)[i] = buf[kCheapPrepend + i]
            BY <1>0, <2>1, <2>3, ContentProperties DEF readableBytes
        <3>2. \A i \in 1..(b.writer - b.reader) : buf[kCheapPrepend + i] = Content(b)[i]
            <4> SUFFICES ASSUME NEW i \in 1..(b.writer - b.reader)
                         PROVE  buf[kCheapPrepend + i] = Content(b)[i]
                OBVIOUS
            <4> DEFINE k == kCheapPrepend + i
            <4>1. /\ k \in 1..Len(b.buf) /\ kCheapPrepend < k
                  /\ k <= kCheapPrepend + Len(Content(b)) /\ k - kCheapPrepend = i
                BY <1>0, <1>c
            <4> HIDE DEF k
            <4>2. buf[k] = Content(b)[i]
                BY <2>2, <4>1
            <4> QED
                BY <4>2 DEF k
        <3> QED
            BY <1>c, <3>1, <3>2, SeqEqual
    <2>5. writableBytes(e) >= len
        BY <1>0, <1>3, <2>1, <2>2 DEF Fits, writableBytes, prependableBytes
    <2> QED
        BY <1>0, <2>1, <2>2, <2>3, <2>4, <2>5 DEF readableBytes
<1> QED
    BY <1>0, <1>1, <1>2, <1>3 DEF writableBytes

\* Copying into the room behind the readable bytes puts the data at their end.
LEMMA WrittenProperties ==
    ASSUME NEW b, Good(b), NEW data \in Seq(Byte), Len(data) <= writableBytes(b)
    PROVE  LET w == Written(b, data)
           IN  /\ Good(w)
               /\ Content(w) = Content(b) \o data
               /\ readableBytes(w) = readableBytes(b) + Len(data)
               /\ writableBytes(w) = writableBytes(b) - Len(data)
               /\ Len(w.buf) = Len(b.buf)
<1> USE BufferAssumption
<1> DEFINE buf == Overwrite(b.buf, b.writer, data)
           w   == Written(b, data)
<1>0. /\ b.buf \in Seq(Byte) /\ b.reader \in Nat /\ b.writer \in Nat
      /\ kCheapPrepend <= b.reader /\ b.reader <= b.writer /\ b.writer <= Len(b.buf)
      /\ Len(b.buf) \in Nat /\ Len(data) \in Nat
      /\ b.writer + Len(data) <= Len(b.buf)
    BY DEF Good, State, InOrder, writableBytes
<1>c. /\ Content(b) \in Seq(Byte) /\ Len(Content(b)) = b.writer - b.reader
      /\ \A i \in 1..(b.writer - b.reader) : Content(b)[i] = b.buf[b.reader + i]
    BY ContentProperties DEF readableBytes
<1>r. b \in State
    BY DEF Good
<1>1. w = [buf |-> buf, reader |-> b.reader, writer |-> b.writer + Len(data)]
    <2> HIDE DEF buf
    <2>1. w = [b EXCEPT !.buf = buf, !.writer = @ + Len(data)]
        BY DEF Written, buf
    <2> QED
        BY <1>r, <2>1 DEF State
<1>2. /\ buf \in Seq(Byte) /\ Len(buf) = Len(b.buf)
      /\ \A i \in 1..Len(b.buf) : buf[i] =
             IF b.writer < i /\ i <= b.writer + Len(data) THEN data[i - b.writer] ELSE b.buf[i]
    BY <1>0, OverwriteProperties
<1> HIDE DEF buf, w
<1>3. Good(w)
    BY <1>0, <1>1, <1>2 DEF Good, State, InOrder
<1>4. Content(w) = Content(b) \o data
    <2> DEFINE old  == b.buf
               from == b.reader
               to   == b.writer
               m    == to + Len(data)
    <2>1. /\ old \in Seq(Byte) /\ buf \in Seq(Byte) /\ data \in Seq(Byte)
          /\ from \in Nat /\ to \in Nat /\ m \in Nat
          /\ Patched(buf, old, from, to, m, data)
        BY <1>0, <1>2 DEF Patched
    <2> HIDE DEF old, from, to, m
    <2>2. SubSeq(buf, from + 1, m) = Joined(SubSeq(old, from + 1, to), data)
        BY <2>1, AppendedSlice
    <2>3. Content(w) = SubSeq(buf, b.reader + 1, b.writer + Len(data))
        BY <1>1 DEF Content
    <2> QED
        BY <2>2, <2>3 DEF Content, old, from, to, m, Joined
<1>5. /\ readableBytes(w) = readableBytes(b) + Len(data)
      /\ writableBytes(w) = writableBytes(b) - Len(data)
    BY <1>0, <1>1, <1>2 DEF readableBytes, writableBytes
<1> QED
    BY SMTT(30), <1>1, <1>2, <1>3, <1>4, <1>5 DEF w

\* What the operations that add data do: its bytes come last, and the vector keeps
\* its size or has at most twice the bytes that are now readable.
Added(b, r, data) ==
    /\ Good(r)
    /\ Content(r) = Joined(Content(b), data)
    /\ readableBytes(r) = readableBytes(b) + Len(data)
    /\ \/ Len(r.buf) = Len(b.buf)
       \/ Len(r.buf) <= kCheapPrepend + 2 * readableBytes(r)

LEMMA AppendedProperties ==
    ASSUME NEW b, Good(b), NEW data \in Seq(Byte)
    PROVE  Added(b, append(b, data), data)
<1> DEFINE len == Len(data)
           e   == ensureWritableBytes(b, len)
           w   == Written(e, data)
<1>1. len \in Nat
    OBVIOUS
<1> HIDE DEF len
<1>2. /\ Good(e) /\ writableBytes(e) >= len /\ Content(e) = Content(b)
      /\ readableBytes(e) = readableBytes(b)
      /\ \/ Len(e.buf) = Len(b.buf)
         \/ Len(e.buf) <= kCheapPrepend + 2 * (readableBytes(b) + len)
    BY <1>1, EnsureProperties
<1>3. writableBytes(e) \in Int
    BY <1>2 DEF Good, State, writableBytes
<1> HIDE DEF e
<1>4. Len(data) <= writableBytes(e)
    BY <1>1, <1>2, <1>3 DEF len
<1>5. /\ Good(w) /\ Content(w) = Joined(Content(e), data)
      /\ readableBytes(w) = readableBytes(e) + Len(data)
      /\ Len(w.buf) = Len(e.buf)
    BY <1>2, <1>4, WrittenProperties DEF Joined
<1>6. append(b, data) = w
    BY DEF append, e, w, len
<1> HIDE DEF w
<1>7. readableBytes(b) \in Nat
    BY ContentProperties
<1>8. readableBytes(w) = readableBytes(b) + len
    BY <1>2, <1>5 DEF len
<1>9. \/ Len(w.buf) = Len(b.buf)
      \/ Len(w.buf) <= kCheapPrepend + 2 * readableBytes(w)
    BY <1>2, <1>5, <1>8
<1>10. Content(w) = Joined(Content(b), data)
    BY <1>2, <1>5
<1>11. readableBytes(w) = readableBytes(b) + Len(data)
    BY <1>8 DEF len
<1>12. Added(b, w, data)
    BY <1>5, <1>9, <1>10, <1>11 DEF Added
<1> QED
    BY <1>6, <1>12

LEMMA ReadFdProperties ==
    ASSUME NEW b, Good(b), NEW data \in Seq(Byte)
    PROVE  Added(b, readFd(b, data), data)
<1> DEFINE n == writableBytes(b)
<1>0. n \in Nat /\ Len(data) \in Nat /\ readableBytes(b) \in Nat
    BY ContentProperties DEF Good, State, InOrder, writableBytes
<1>1. CASE Len(data) <= n
    <2> DEFINE w == Written(b, data)
    <2>1. /\ Good(w) /\ Content(w) = Joined(Content(b), data)
          /\ readableBytes(w) = readableBytes(b) + Len(data)
          /\ Len(w.buf) = Len(b.buf)
        BY <1>1, WrittenProperties DEF Joined
    <2>2. readFd(b, data) = w
        BY <1>1 DEF readFd
    <2> HIDE DEF w
    <2> QED
        BY <2>1, <2>2 DEF Added
<1>2. CASE ~(Len(data) <= n)
    <2> DEFINE head == SubSeq(data, 1, n)
               tail == SubSeq(data, n + 1, Len(data))
               w    == Written(b, head)
               r    == append(w, tail)
    <2>1. /\ head \in Seq(Byte) /\ tail \in Seq(Byte)
          /\ Len(head) = n /\ Len(tail) = Len(data) - n
          /\ Joined(head, tail) = data
        <3>1. n <= Len(data)
            BY <1>0, <1>2
        <3> HIDE DEF n
        <3> QED
            BY <1>0, <3>1, HeadAndTail
    <2>2. Joined(Joined(Content(b), head), tail) = Joined(Content(b), data)
        <3>1. Content(b) \in Seq(Byte)
            BY ContentProperties
        <3> HIDE DEF head, tail
        <3> QED
            BY <2>1, <3>1, JoinedAssociative
    <2>3. readFd(b, data) = r
        BY <1>2 DEF readFd
    <2> HIDE DEF head, tail
    <2>4. /\ Good(w) /\ Content(w) = Joined(Content(b), head)
          /\ readableBytes(w) = readableBytes(b) + Len(head)
          /\ Len(w.buf) = Len(b.buf)
        BY SMTT(30), <1>0, <2>1, WrittenProperties DEF Joined
    <2> HIDE DEF w
    <2>5. Added(w, r, tail)
        <3>1. Good(w) /\ tail \in Seq(Byte)
            BY <2>1, <2>4
        <3>2. Added(w, append(w, tail), tail)
            BY <3>1, AppendedProperties
        <3> QED
            BY <3>2
    <2> HIDE DEF n, r
    <2>6. Content(r) = Joined(Content(b), data)
        BY <2>2, <2>4, <2>5 DEF Added
    <2>7. readableBytes(r) = readableBytes(b) + Len(data)
        BY <1>0, <2>1, <2>4, <2>5 DEF Added
    <2> QED
        BY <2>3, <2>4, <2>5, <2>6, <2>7 DEF Added
<1> QED
    BY <1>1, <1>2

\* Retrieving takes bytes from the front and leaves the vector as it is.
LEMMA RetrieveProperties ==
    ASSUME NEW b, Good(b), NEW len \in Nat
    PROVE  LET r == retrieve(b, len)
               n == IF len < readableBytes(b) THEN len ELSE readableBytes(b)
           IN  /\ Good(r)
               /\ Content(r) = SubSeq(Content(b), n + 1, Len(Content(b)))
               /\ r.buf = b.buf
               /\ readableBytes(r) \in Nat /\ readableBytes(r) <= readableBytes(b)
<1> USE BufferAssumption
<1> DEFINE r == retrieve(b, len)
           size == b.writer - b.reader
<1>0. /\ b.buf \in Seq(Byte) /\ b.reader \in Nat /\ b.writer \in Nat
      /\ kCheapPrepend <= b.reader /\ b.reader <= b.writer /\ b.writer <= Len(b.buf)
      /\ Len(b.buf) \in Nat /\ size \in Nat
    BY DEF Good, State, InOrder
<1>c. /\ Content(b) \in Seq(Byte) /\ Len(Content(b)) = size
      /\ \A i \in 1..size : Content(b)[i] = b.buf[b.reader + i]
    BY ContentProperties DEF readableBytes
<1>r. b \in State
    BY DEF Good
<1>1. CASE len < size
    <2>1. r = [buf |-> b.buf, reader |-> b.reader + len, writer |-> b.writer]
        BY <1>r, <1>1 DEF retrieve, readableBytes, State
    <2> HIDE DEF r
    <2>2. Good(r)
        BY <1>0, <1>1, <2>1 DEF Good, State, InOrder
    <2> DEFINE m == size - len
    <2>3. m \in Nat /\ len + m = size /\ len <= size /\ b.writer - (b.reader + len) = m
        BY <1>0, <1>1
    <2>4. /\ Content(r) \in Seq(Byte) /\ Len(Content(r)) = m
          /\ \A i \in 1..m : Content(r)[i] = b.buf[(b.reader + len) + i]
        BY <2>1, <2>2, <2>3, ContentProperties DEF readableBytes
    <2>5. \A i \in 1..m : len + i \in 1..size /\ b.reader + (len + i) = (b.reader + len) + i
        BY <1>0, <2>3
    <2> DEFINE c == Content(b)
               s == SubSeq(c, len + 1, size)
    <2> HIDE DEF m, c, size
    <2>6. s \in Seq(Byte) /\ Len(s) = size - len /\ \A i \in 1..(size - len) : s[i] = c[len + i]
        BY <1>0, <1>c, <2>3, SliceProperties DEF c
    <2>7. s \in Seq(Byte) /\ Len(s) = m /\ \A i \in 1..m : s[i] = c[len + i]
        BY <2>6 DEF m
    <2> HIDE DEF s
    <2>8. \A i \in 1..m : Content(r)[i] = s[i]
        BY <1>c, <2>4, <2>5, <2>7 DEF c
    <2>9. Content(r) = s
        BY <2>4, <2>7, <2>8, SeqEqual
    <2>10. readableBytes(r) = m /\ m <= size
        BY <1>0, <2>1, <2>3 DEF readableBytes, m
    <2> QED
        <3>1. r.buf = b.buf
            BY <2>1
        <3>2. len < readableBytes(b) /\ readableBytes(b) = size
            BY <1>1 DEF readableBytes, size
        <3>3. Content(r) = SubSeq(Content(b), len + 1, Len(Content(b)))
            BY <1>c, <2>9 DEF s, c
        <3> QED
            BY <2>2, <2>3, <2>10, <3>1, <3>2, <3>3 DEF r
<1>2. CASE ~(len < size)
    <2>1. r = [buf |-> b.buf, reader |-> kCheapPrepend, writer |-> kCheapPrepend]
        BY <1>r, <1>2 DEF retrieve, retrieveAll, readableBytes, State
    <2> HIDE DEF r
    <2>2. Good(r)
        BY <1>0, <1>2, <2>1 DEF Good, State, InOrder
    <2>3. Len(Content(r)) = 0 /\ Content(r) \in Seq(Byte)
        BY <2>1, <2>2, ContentProperties DEF readableBytes
    <2> DEFINE c == Content(b)
               s == SubSeq(c, size + 1, size)
    <2> HIDE DEF c, size
    <2>4. s \in Seq(Byte) /\ Len(s) = size - size
        BY <1>0, <1>c, SliceProperties DEF c
    <2> HIDE DEF s
    <2>5. Content(r) = s
        BY <1>0, <2>3, <2>4, SeqEqual
    <2>6. readableBytes(r) = 0
        BY <2>1 DEF readableBytes
    <2> QED
        BY SMTT(30), <1>0, <1>2, <1>c, <2>1, <2>2, <2>5, <2>6 DEF s, c, r, readableBytes, size
<1> QED
    BY <1>1, <1>2

-----------------------------------------------------------------------------
(* Invariant and refinement *)

IInv == TypeOK /\ MemoryBounded

LEMMA InitIInv == Init => IInv
<1> SUFFICES ASSUME Init
             PROVE  IInv
    OBVIOUS
<1> USE BufferAssumption
<1>1. /\ buffer_ \in Seq(Byte) /\ Len(buffer_) = kCheapPrepend + kInitialSize
    BY DEF Init
<1>2. This \in State /\ InOrder(This) /\ readableBytes(This) = 0
    BY <1>1 DEF Init, This, State, InOrder, readableBytes
<1>3. last \in [op : {"put", "take"}, data : Seq(Byte)]
    BY DEF Init, Moved
<1>4. MemoryBounded
    BY <1>1 DEF Init, MemoryBounded, Larger
<1> QED
    BY <1>2, <1>3, <1>4 DEF IInv, TypeOK, Init

\* The members take the values of r, and the vector of r is not larger than what
\* IInv allows: whatever the operation, its state is a good one.
LEMMA Change ==
    ASSUME IInv,
           NEW r, Good(r), NEW asked \in Nat, Becomes(r, asked),
           last' \in [op : {"put", "take"}, data : Seq(Byte)],
           \/ Len(r.buf) = Len(buffer_)
           \/ Len(r.buf) <= kCheapPrepend + 2 * (readableBytes(r) + asked)
    PROVE  /\ IInv'
           /\ Content(This)' = Content(r)
<1> USE BufferAssumption
<1>0. /\ r \in State /\ InOrder(r) /\ Len(r.buf) \in Nat /\ readableBytes(r) \in Nat
      /\ r = [buf |-> r.buf, reader |-> r.reader, writer |-> r.writer]
    BY ContentProperties DEF Good, State
<1>1. buffer_' = r.buf /\ readerIndex_' = r.reader /\ writerIndex_' = r.writer
    BY DEF Becomes
<1>2. This' = r
    BY <1>0, <1>1 DEF This
<1>3. peak \in Nat /\ Len(buffer_) \in Nat
    BY DEF IInv, TypeOK, This, State
<1>4. /\ peak' \in Nat /\ readableBytes(r) <= peak'
      /\ peak <= peak' /\ readableBytes(r) + asked <= peak'
    BY <1>0, <1>3 DEF Becomes, Larger
<1>5. InOrder(This)' /\ readableBytes(This)' = readableBytes(r) /\ Content(This)' = Content(r)
    BY <1>0, <1>1 DEF This, InOrder, readableBytes, Content
<1>6. TypeOK'
    BY <1>0, <1>2, <1>4, <1>5 DEF TypeOK
<1>7. Len(buffer_) <= kCheapPrepend + Larger(kInitialSize, 2 * peak)
    BY DEF IInv, MemoryBounded
<1>8. Len(r.buf) <= kCheapPrepend + Larger(kInitialSize, 2 * peak')
    <2>1. /\ Larger(kInitialSize, 2 * peak) <= Larger(kInitialSize, 2 * peak')
          /\ 2 * (readableBytes(r) + asked) <= Larger(kInitialSize, 2 * peak')
          /\ Larger(kInitialSize, 2 * peak) \in Nat /\ Larger(kInitialSize, 2 * peak') \in Nat
        BY SMTT(30), <1>0, <1>3, <1>4 DEF Larger
    <2>2. CASE Len(r.buf) = Len(buffer_)
        BY <1>3, <1>7, <2>1, <2>2
    <2>3. CASE Len(r.buf) <= kCheapPrepend + 2 * (readableBytes(r) + asked)
        BY SMTT(30), <1>0, <2>1, <2>3
    <2> QED
        BY <2>2, <2>3
<1>9. MemoryBounded'
    BY <1>1, <1>8 DEF MemoryBounded
<1> QED
    BY <1>5, <1>6, <1>9 DEF IInv

\* Every step keeps the invariant, and is one of the byte queue or changes nothing of it.
LEMMA NextStep ==
    ASSUME IInv, [Next]_vars
    PROVE  IInv' /\ [BQ!Next]_<<Content(This), last>>
<1> USE BufferAssumption
<1>0. /\ Good(This) /\ This.buf = buffer_
      /\ Content(This) \in Seq(Byte) /\ Len(Content(This)) = readableBytes(This)
      /\ readableBytes(This) \in Nat
      /\ last \in [op : {"put", "take"}, data : Seq(Byte)]
    <2>1. Good(This)
        BY DEF IInv, TypeOK, Good
    <2>2. This.buf = buffer_
        BY DEF This
    <2> QED
        BY <2>1, <2>2, ContentProperties DEF IInv, TypeOK
<1>d. ASSUME NEW data \in Data
      PROVE  data \in Seq(Byte)
    BY DEF Data
<1>p. ASSUME NEW r, NEW data \in Seq(Byte), Added(This, r, data), Becomes(r, 0),
             last' = Moved("put", data)
      PROVE  IInv' /\ BQ!Next
    <2>1. last' \in [op : {"put", "take"}, data : Seq(Byte)] /\ last'.op = "put" /\ last'.data = data
        BY <1>p DEF Moved
    <2>2. Good(r) /\ readableBytes(r) + 0 = readableBytes(r)
        BY <1>0, <1>p DEF Added
    <2>3. \/ Len(r.buf) = Len(buffer_)
          \/ Len(r.buf) <= kCheapPrepend + 2 * (readableBytes(r) + 0)
        BY <1>0, <1>p, <2>2 DEF Added
    <2>4. IInv' /\ Content(This)' = Content(r)
        BY <1>p, <2>1, <2>2, <2>3, Change
    <2>5. Content(This)' = Content(This) \o last'.data
        BY <1>p, <2>1, <2>4 DEF Added, Joined
    <2> QED
        BY <2>1, <2>4, <2>5 DEF BQ!Next, BQ!Put, BQ!Moved
<1>t. ASSUME NEW len \in Nat, Becomes(retrieve(This, len), 0),
             last' = Moved("take", SubSeq(Content(This), 1,
                         IF len < readableBytes(This) THEN len ELSE readableBytes(This)))
      PROVE  IInv' /\ BQ!Next
    <2> DEFINE c == Content(This)
               n == IF len < readableBytes(This) THEN len ELSE readableBytes(This)
               r == retrieve(This, len)
    <2>1. /\ Good(r) /\ Content(r) = SubSeq(c, n + 1, Len(c)) /\ r.buf = buffer_
        BY <1>0, RetrieveProperties
    <2>2. n \in Nat /\ n <= Len(c) /\ n \in 0..Len(c)
        BY <1>0
    <2>3. SubSeq(c, 1, n) \in Seq(Byte)
        <3> HIDE DEF c, n
        <3> QED
            BY <1>0, <2>2, HeadAndTail DEF c
    <2>4. /\ last' \in [op : {"put", "take"}, data : Seq(Byte)]
          /\ last'.op = "take" /\ last'.data = SubSeq(c, 1, n)
        BY <1>t, <2>3 DEF Moved
    <2>5. Becomes(r, 0) /\ Len(r.buf) = Len(buffer_)
        BY <1>t, <2>1
    <2> HIDE DEF r
    <2>6. IInv' /\ Content(This)' = Content(r)
        BY <2>1, <2>4, <2>5, Change
    <2>7. BQ!Take
        BY <2>1, <2>2, <2>4, <2>6 DEF BQ!Take
    <2> QED
        BY <2>4, <2>6, <2>7 DEF BQ!Next, BQ!Moved
<1>h. ASSUME NEW len \in Nat, len <= readableBytes(This)
      PROVE  SubSeq(buffer_, readerIndex_ + 1, readerIndex_ + len)
               = SubSeq(Content(This), 1, len)
    <2>1. /\ buffer_ \in Seq(Byte) /\ readerIndex_ \in Nat /\ writerIndex_ \in Nat
          /\ readerIndex_ <= writerIndex_ /\ writerIndex_ <= Len(buffer_)
          /\ len <= writerIndex_ - readerIndex_
        BY <1>h, <1>0 DEF Good, This, State, InOrder, readableBytes
    <2> QED
        BY <2>1, HeadOfSlice DEF Content, This
<1>w. SubSeq(Content(This), 1, readableBytes(This)) = Content(This)
    <2> DEFINE c == Content(This)
    <2> HIDE DEF c
    <2>1. SubSeq(c, 1, Len(c)) \in Seq(Byte) /\ Len(SubSeq(c, 1, Len(c))) = Len(c)
          /\ \A i \in 1..Len(c) : SubSeq(c, 1, Len(c))[i] = c[i]
        BY <1>0, SubSeqProperties DEF c
    <2>2. SubSeq(c, 1, Len(c)) = c
        BY <1>0, <2>1, SeqEqual DEF c
    <2> QED
        BY <1>0, <2>2 DEF c
<1>1. CASE AppendData
    <2>1. PICK data \in Data : Becomes(append(This, data), 0) /\ last' = Moved("put", data)
        BY <1>1 DEF AppendData
    <2>2. data \in Seq(Byte)
        BY <1>d
    <2>3. Added(This, append(This, data), data)
        BY <1>0, <2>2, AppendedProperties
    <2> QED
        BY <1>p, <2>1, <2>2, <2>3
<1>2. CASE EnsureWritableBytes
    <2>1. PICK len \in 0..MaxAppend :
              Becomes(ensureWritableBytes(This, len), len) /\ UNCHANGED last
        BY <1>2 DEF EnsureWritableBytes
    <2> DEFINE r == ensureWritableBytes(This, len)
    <2>2. /\ Good(r) /\ Content(r) = Content(This)
          /\ readableBytes(r) = readableBytes(This)
          /\ \/ Len(r.buf) = Len(This.buf)
             \/ Len(r.buf) <= kCheapPrepend + 2 * (readableBytes(This) + len)
        BY <1>0, EnsureProperties
    <2>3. Becomes(r, len) /\ last' = last /\ len \in Nat
        BY <2>1
    <2> HIDE DEF r
    <2>4. IInv' /\ Content(This)' = Content(r)
        BY <1>0, <2>2, <2>3, Change
    <2> QED
        BY <2>2, <2>3, <2>4
<1>3. CASE Retrieve
    <2>1. PICK len \in 0..(readableBytes(This) + 1) :
              /\ Becomes(retrieve(This, len), 0)
              /\ last' = Moved("take", IF len <= readableBytes(This)
                             THEN SubSeq(buffer_, readerIndex_ + 1, readerIndex_ + len)
                             ELSE Content(This))
        BY <1>3 DEF Retrieve
    <2> DEFINE n == IF len < readableBytes(This) THEN len ELSE readableBytes(This)
    <2>2. CASE len <= readableBytes(This)
        <3>1. n = len /\ len \in Nat
            BY <1>0, <2>2
        <3>2. last' = Moved("take", SubSeq(Content(This), 1, n))
            BY <1>h, <2>1, <2>2, <3>1
        <3> QED
            BY <1>t, <2>1, <3>1, <3>2
    <2>3. CASE ~(len <= readableBytes(This))
        <3>1. n = readableBytes(This) /\ len \in Nat
            BY <1>0, <2>3
        <3>2. last' = Moved("take", SubSeq(Content(This), 1, n))
            BY <1>w, <2>1, <2>3, <3>1
        <3> QED
            BY <1>t, <2>1, <3>1, <3>2
    <2> QED
        BY <2>2, <2>3
<1>4. CASE RetrieveAsString
    <2>1. PICK len \in 0..readableBytes(This) :
              /\ last' = Moved("take", SubSeq(buffer_, readerIndex_ + 1, readerIndex_ + len))
              /\ Becomes(retrieve(This, len), 0)
        BY <1>4 DEF RetrieveAsString
    <2> DEFINE n == IF len < readableBytes(This) THEN len ELSE readableBytes(This)
    <2>2. n = len /\ len \in Nat /\ len <= readableBytes(This)
        BY <1>0
    <2>3. last' = Moved("take", SubSeq(Content(This), 1, n))
        BY <1>h, <2>1, <2>2
    <2> QED
        BY <1>t, <2>1, <2>2, <2>3
<1>5. CASE ReadFd
    <2>1. PICK data \in Data : Becomes(readFd(This, data), 0) /\ last' = Moved("put", data)
        BY <1>5 DEF ReadFd
    <2>2. data \in Seq(Byte)
        BY <1>d
    <2>3. Added(This, readFd(This, data), data)
        BY <1>0, <2>2, ReadFdProperties
    <2> QED
        BY <1>p, <2>1, <2>2, <2>3
<1>6. CASE UNCHANGED vars
    <2>1. IInv'
        BY <1>6 DEF IInv, TypeOK, MemoryBounded, vars, This, State, InOrder, readableBytes
    <2>2. Content(This)' = Content(This) /\ last' = last
        BY <1>6 DEF vars, This, Content
    <2> QED
        BY <2>1, <2>2
<1> QED
    BY <1>1, <1>2, <1>3, <1>4, <1>5, <1>6 DEF Next

LEMMA IInvHolds == Spec => []IInv
<1>1. IInv /\ [Next]_vars => IInv'
    BY NextStep
<1> QED
    BY InitIInv, <1>1, PTL DEF Spec

\* The type invariant: the indices never leave the vector, nor enter the reserved
\* bytes, whatever the sizes and the calls.
THEOREM Typing == Spec => []TypeOK
<1>1. IInv => TypeOK
    BY DEF IInv
<1> QED
    BY IInvHolds, <1>1, PTL

\* makeSpace grows the vector only when the readable bytes need it.
THEOREM MemoryBound == Spec => []MemoryBounded
<1>1. IInv => MemoryBounded
    BY DEF IInv
<1> QED
    BY IInvHolds, <1>1, PTL

\* The readable bytes of a Buffer are a queue of bytes.
THEOREM Refinement == Spec => ImplementsByteQueue
<1>1. Init => BQ!Init
    <2> SUFFICES ASSUME Init
                 PROVE  BQ!Init
        OBVIOUS
    <2>1. Content(This) = <<>>
        <3>0. Good(This)
            BY InitIInv DEF IInv, TypeOK, Good
        <3>1. readableBytes(This) = 0
            BY BufferAssumption DEF Init, This, readableBytes
        <3>2. Content(This) \in Seq(Byte) /\ Len(Content(This)) = 0
            BY <3>0, <3>1, ContentProperties
        <3> QED
            BY <3>2
    <2>2. last \in BQ!Moved /\ last.data = <<>>
        BY DEF Init, Moved, BQ!Moved
    <2> QED
        BY <2>1, <2>2 DEF BQ!Init
<1>2. IInv /\ [Next]_vars => [BQ!Next]_<<Content(This), last>>
    BY NextStep
<1> QED
    BY IInvHolds, <1>1, <1>2, PTL DEF Spec, ImplementsByteQueue, BQ!Spec
=============================================================================
