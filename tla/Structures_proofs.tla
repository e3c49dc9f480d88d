---------------------------- MODULE Structures_proofs ----------------------------
(***************************************************************************)
(* The theorems of the two data structures. Buffer: its layout, the bound  *)
(* on its growth, and that it is a byte stream; the lemmas follow the      *)
(* functions of the code from the inside out, each saying what it does to  *)
(* the layout and the content. HeapTimer: that its index and its order     *)
(* survive every operation, and that it is the set of timers it promises.  *)
(***************************************************************************)
EXTENDS Buffer, HeapTimer, SequenceTheorems, FiniteSetTheorems,
        WellFoundedInduction, TLAPS

Good(b) == BufferType(b) /\ Layout(b)

LEMMA BufFields ==
  ASSUME NEW f, NEW n, NEW r, NEW w
  PROVE  /\ Buf(f, n, r, w).bytes = f /\ Buf(f, n, r, w).size = n
         /\ Buf(f, n, r, w).reader = r /\ Buf(f, n, r, w).writer = w
  BY DEF Buf

------------------------------------------------------------------------------
(* Contents.                                                                *)

LEMMA GoodArith ==
  ASSUME NEW b, Good(b)
  PROVE  /\ b.size \in Nat /\ b.reader \in Nat /\ b.writer \in Nat
         /\ KCheapPrepend <= b.reader /\ b.reader <= b.writer /\ b.writer <= b.size
         /\ Readable(b) \in Nat /\ Writable(b) \in Nat
         /\ b.writer = b.reader + Readable(b) /\ b.size = b.writer + Writable(b)
         /\ \A i \in 0..(b.size - 1) : b.bytes[i] \in Bytes
  BY SizesAssumption DEF Good, BufferType, Layout, Readable, Writable

LEMMA ContentType ==
  ASSUME NEW b, Good(b)
  PROVE  /\ Content(b) \in Seq(Bytes)
         /\ Len(Content(b)) = Readable(b)
         /\ \A i \in 1..Readable(b) : Content(b)[i] = b.bytes[b.reader + i - 1]
  <1>1. Readable(b) \in Nat /\ b.reader \in Nat /\ b.writer = b.reader + Readable(b)
        /\ b.writer <= b.size /\ b.size \in Nat
    BY GoodArith
  <1>2. \A i \in 1..Readable(b) : b.reader + i - 1 \in 0..(b.size - 1)
    BY <1>1
  <1>3. \A i \in 1..Readable(b) : b.bytes[b.reader + i - 1] \in Bytes
    BY <1>2, GoodArith
  <1>4. Content(b) \in [1..Readable(b) -> Bytes]
    BY <1>3 DEF Content
  <1>5. QED
    BY <1>1, <1>4 DEF Content

\* Two buffers with the same readable bytes have the same content.
LEMMA SameContent ==
  ASSUME NEW b, NEW c, Readable(b) \in Nat, Readable(c) = Readable(b),
         b.reader \in Nat, c.reader \in Nat,
         \A i \in 0..(Readable(b) - 1) : c.bytes[c.reader + i] = b.bytes[b.reader + i]
  PROVE  Content(c) = Content(b)
  <1>1. ASSUME NEW i \in 1..Readable(b)
        PROVE  c.bytes[c.reader + i - 1] = b.bytes[b.reader + i - 1]
    <2>1. i - 1 \in 0..(Readable(b) - 1)
      OBVIOUS
    <2>2. c.bytes[c.reader + (i - 1)] = b.bytes[b.reader + (i - 1)]
      BY <2>1
    <2>3. c.reader + (i - 1) = c.reader + i - 1 /\ b.reader + (i - 1) = b.reader + i - 1
      OBVIOUS
    <2>4. QED
      BY <2>2, <2>3
  <1>2. QED
    BY <1>1 DEF Content

------------------------------------------------------------------------------
(* makeSpace and append.                                                    *)

LEMMA ResizeOK ==
  ASSUME NEW b, Good(b), NEW n \in Nat, b.size <= n
  PROVE  /\ Good(Resize(b, n))
         /\ Resize(b, n).size = n
         /\ Resize(b, n).reader = b.reader /\ Resize(b, n).writer = b.writer
         /\ \A i \in 0..(b.size - 1) : Resize(b, n).bytes[i] = b.bytes[i]
  <1> DEFINE r == Resize(b, n)
             f == [i \in 0..(n - 1) |-> IF i < b.size THEN b.bytes[i] ELSE Zero]
  <1>1. /\ r.bytes = f /\ r.size = n
        /\ r.reader = b.reader /\ r.writer = b.writer
    BY BufFields DEF Resize
  <1>2. f \in [0..(n - 1) -> Bytes]
    BY GoodArith, ChunksAssumption
  <1>3. \A i \in 0..(b.size - 1) : f[i] = b.bytes[i]
    BY GoodArith
  <1> HIDE DEF f, r
  <1>4. BufferType(r)
    BY <1>1, <1>2, GoodArith DEF BufferType
  <1>5. Layout(r)
    BY <1>1, GoodArith DEF Layout
  <1>6. QED
    BY <1>1, <1>4, <1>5, <1>3 DEF Good, r

LEMMA CompactOK ==
  ASSUME NEW b, Good(b)
  PROVE  /\ Good(Compact(b))
         /\ Compact(b).size = b.size
         /\ Compact(b).reader = KCheapPrepend
         /\ Compact(b).writer = KCheapPrepend + Readable(b)
         /\ \A i \in 0..(Readable(b) - 1) :
              Compact(b).bytes[KCheapPrepend + i] = b.bytes[b.reader + i]
  <1> DEFINE r == Compact(b)
             f == [i \in 0..(b.size - 1) |->
                     IF KCheapPrepend <= i /\ i < KCheapPrepend + Readable(b)
                       THEN b.bytes[b.reader + (i - KCheapPrepend)]
                       ELSE b.bytes[i]]
  <1>1. /\ r.bytes = f /\ r.size = b.size
        /\ r.reader = KCheapPrepend /\ r.writer = KCheapPrepend + Readable(b)
    BY BufFields DEF Compact
  <1>2. KCheapPrepend + Readable(b) <= b.size
    BY GoodArith, SizesAssumption
  <1>3. ASSUME NEW i \in 0..(b.size - 1) PROVE f[i] \in Bytes
    <2>1. CASE KCheapPrepend <= i /\ i < KCheapPrepend + Readable(b)
      <3>1. b.reader + (i - KCheapPrepend) \in 0..(b.size - 1)
        BY <2>1, GoodArith, SizesAssumption
      <3>2. QED
        BY <2>1, <3>1, GoodArith
    <2>2. CASE ~(KCheapPrepend <= i /\ i < KCheapPrepend + Readable(b))
      BY <2>2, GoodArith
    <2>3. QED
      BY <2>1, <2>2
  <1>4. ASSUME NEW i \in 0..(Readable(b) - 1)
        PROVE  f[KCheapPrepend + i] = b.bytes[b.reader + i]
    <2>1. /\ KCheapPrepend + i \in 0..(b.size - 1)
          /\ KCheapPrepend <= KCheapPrepend + i
          /\ KCheapPrepend + i < KCheapPrepend + Readable(b)
          /\ b.reader + ((KCheapPrepend + i) - KCheapPrepend) = b.reader + i
      BY <1>2, GoodArith, SizesAssumption
    <2>2. QED
      BY <2>1
  <1> HIDE DEF f, r
  <1>5. f \in [0..(b.size - 1) -> Bytes]
    BY <1>3 DEF f
  <1>6. BufferType(r) /\ Layout(r)
    BY <1>1, <1>2, <1>5, GoodArith, SizesAssumption DEF BufferType, Layout
  <1>7. QED
    BY <1>1, <1>6, <1>4 DEF Good, r

\* There is room for len bytes afterwards, and the content is the same.
LEMMA EnsureOK ==
  ASSUME NEW b, Good(b), NEW len \in Nat
  PROVE  /\ Good(EnsureWritable(b, len))
         /\ len <= Writable(EnsureWritable(b, len))
         /\ Readable(EnsureWritable(b, len)) = Readable(b)
         /\ Content(EnsureWritable(b, len)) = Content(b)
         /\ \/ EnsureWritable(b, len).size = b.size
            \/ EnsureWritable(b, len).size < KCheapPrepend + Readable(b) + 2 * len
  <1> DEFINE s == EnsureWritable(b, len)
  <1>1. CASE len <= Writable(b)
    <2>1. s = b
      BY <1>1, GoodArith DEF EnsureWritable
    <2>2. QED
      BY <1>1, <2>1
  <1>2. CASE /\ Writable(b) < len
             /\ Writable(b) + b.reader < len + KCheapPrepend
    <2>1. s = Resize(b, b.writer + len) /\ b.writer + len \in Nat /\ b.size <= b.writer + len
      BY <1>2, GoodArith DEF EnsureWritable, MakeSpace
    <2>2. /\ Good(s) /\ s.size = b.writer + len
          /\ s.reader = b.reader /\ s.writer = b.writer
          /\ \A i \in 0..(b.size - 1) : s.bytes[i] = b.bytes[i]
      BY <2>1, ResizeOK
    <2>3. Readable(s) = Readable(b) /\ len <= Writable(s)
      BY <2>2, GoodArith DEF Readable, Writable
    <2>4. Content(s) = Content(b)
      <3>1. \A i \in 0..(Readable(b) - 1) : b.reader + i \in 0..(b.size - 1)
        BY GoodArith
      <3>2. \A i \in 0..(Readable(b) - 1) : s.bytes[s.reader + i] = b.bytes[b.reader + i]
        BY <2>2, <3>1
      <3>3. QED
        BY <2>2, <2>3, <3>2, GoodArith, SameContent
    <2>5. s.size < KCheapPrepend + Readable(b) + 2 * len
      BY <1>2, <2>2, GoodArith, SizesAssumption
    <2>6. QED
      BY <2>2, <2>3, <2>4, <2>5
  <1>3. CASE /\ Writable(b) < len
             /\ ~(Writable(b) + b.reader < len + KCheapPrepend)
    <2>1. s = Compact(b)
      BY <1>3 DEF EnsureWritable, MakeSpace
    <2>2. /\ Good(s) /\ s.size = b.size
          /\ s.reader = KCheapPrepend /\ s.writer = KCheapPrepend + Readable(b)
          /\ \A i \in 0..(Readable(b) - 1) : s.bytes[KCheapPrepend + i] = b.bytes[b.reader + i]
      BY <2>1, CompactOK
    <2>3. Readable(s) = Readable(b) /\ len <= Writable(s)
      BY <1>3, <2>2, GoodArith, SizesAssumption DEF Readable, Writable
    <2>4. Content(s) = Content(b)
      BY <2>2, <2>3, GoodArith, SizesAssumption, SameContent
    <2>5. QED
      BY <2>2, <2>3, <2>4
  <1>4. QED
    BY <1>1, <1>2, <1>3, GoodArith

LEMMA StoreOK ==
  ASSUME NEW b, Good(b), NEW data \in Seq(Bytes), Len(data) <= Writable(b)
  PROVE  /\ Good(Store(b, data))
         /\ Store(b, data).size = b.size
         /\ Store(b, data).reader = b.reader
         /\ Store(b, data).writer = b.writer + Len(data)
         /\ Content(Store(b, data)) = Content(b) \o data
  <1> DEFINE r == Store(b, data)
             f == [i \in 0..(b.size - 1) |->
                     IF b.writer <= i /\ i < b.writer + Len(data)
                       THEN data[(i - b.writer) + 1]
                       ELSE b.bytes[i]]
  <1>1. /\ r.bytes = f /\ r.size = b.size
        /\ r.reader = b.reader /\ r.writer = b.writer + Len(data)
    BY BufFields DEF Store
  <1>0. \A k \in 0..(b.size - 1) : b.writer <= k /\ k < b.writer + Len(data)
                                   => f[k] = data[(k - b.writer) + 1]
    OBVIOUS
  <1>2. Len(data) \in Nat /\ b.writer + Len(data) <= b.size
    BY GoodArith
  <1>3. ASSUME NEW i \in 0..(b.size - 1) PROVE f[i] \in Bytes
    <2>1. CASE b.writer <= i /\ i < b.writer + Len(data)
      <3>1. (i - b.writer) + 1 \in 1..Len(data)
        BY <1>2, <2>1, GoodArith
      <3>2. data[(i - b.writer) + 1] \in Bytes
        BY <3>1
      <3>3. QED
        BY <2>1, <3>2
    <2>2. CASE ~(b.writer <= i /\ i < b.writer + Len(data))
      BY <2>2, GoodArith
    <2>3. QED
      BY <2>1, <2>2
  <1>4. f \in [0..(b.size - 1) -> Bytes]
    BY <1>3
  <1>5. /\ Content(b) \in Seq(Bytes) /\ Len(Content(b)) = Readable(b)
        /\ \A i \in 1..Readable(b) : Content(b)[i] = b.bytes[b.reader + i - 1]
    BY ContentType
  <1>6. ASSUME NEW i \in 1..Readable(b)
        PROVE  f[b.reader + i - 1] = b.bytes[b.reader + i - 1]
    <2>1. /\ b.reader \in Nat /\ Readable(b) \in Nat /\ b.size \in Nat
          /\ b.reader + Readable(b) <= b.size
          /\ b.writer = b.reader + Readable(b)
      BY GoodArith
    <2> DEFINE k == b.reader + i - 1
    <2>2. k \in 0..(b.size - 1) /\ k < b.writer
      BY <2>1
    <2> HIDE DEF k
    <2>3. f[k] = b.bytes[k]
      BY <2>1, <2>2
    <2>4. QED
      BY <2>3 DEF k
  <1>7. ASSUME NEW i \in 1..Len(data)
         PROVE  f[b.reader + (Readable(b) + i) - 1] = data[i]
    <2>1. /\ b.reader \in Nat /\ Readable(b) \in Nat /\ b.size \in Nat
          /\ b.reader + Readable(b) + Len(data) <= b.size
          /\ b.writer = b.reader + Readable(b)
      BY <1>2, GoodArith
    <2> DEFINE k == b.reader + (Readable(b) + i) - 1
    <2>2. /\ k \in 0..(b.size - 1)
          /\ b.writer <= k /\ k < b.writer + Len(data)
          /\ (k - b.writer) + 1 = i
      <3>1. PICK rd \in Nat, n \in Nat, sz \in Nat, len \in Nat :
                 rd = b.reader /\ n = Readable(b) /\ sz = b.size /\ len = Len(data)
        BY <1>2, <2>1, GoodArith
      <3>2. rd + n + len <= sz /\ b.writer = rd + n /\ i \in 1..len /\ k = rd + (n + i) - 1
        BY ONLY <2>1, <3>1, i \in 1..Len(data)
      <3> HIDE DEF k
      <3>3. k \in 0..(sz - 1) /\ rd + n <= k /\ k < (rd + n) + len /\ (k - (rd + n)) + 1 = i
        BY ONLY <3>2, rd \in Nat, n \in Nat, sz \in Nat, len \in Nat
      <3>4. QED
        BY ONLY <3>1, <3>2, <3>3
    <2> HIDE DEF k
    <2>3. f[k] = data[(k - b.writer) + 1]
      <3> HIDE DEF f
      <3>1. QED
        BY ONLY <1>0, <2>2
    <2>4. f[k] = data[i]
      BY ONLY <2>2, <2>3
    <2>5. QED
      BY ONLY <2>4 DEF k
  <1> HIDE DEF f, r
  <1>8. BufferType(r) /\ Layout(r)
    BY <1>1, <1>2, <1>4, GoodArith DEF BufferType, Layout
  <1>9. Good(r) /\ Readable(r) = Readable(b) + Len(data)
    BY <1>1, <1>2, <1>8, GoodArith DEF Good, Readable
  <1>10. /\ Content(r) \in Seq(Bytes) /\ Len(Content(r)) = Readable(b) + Len(data)
        /\ \A i \in 1..(Readable(b) + Len(data)) : Content(r)[i] = f[b.reader + i - 1]
    BY <1>1, <1>9, ContentType
  <1>11. Content(r) = Content(b) \o data
    <2>1. /\ Content(b) \o data \in Seq(Bytes)
          /\ Len(Content(b) \o data) = Readable(b) + Len(data)
      BY <1>5
    <2>2. ASSUME NEW i \in 1..(Readable(b) + Len(data))
          PROVE  Content(r)[i] = (Content(b) \o data)[i]
      <3>1. CASE i <= Readable(b)
        <4>1. i \in 1..Readable(b)
          BY <3>1, GoodArith
        <4>2. (Content(b) \o data)[i] = Content(b)[i]
          BY <1>5, <4>1
        <4>3. QED
          BY <1>10, <1>5, <1>6, <4>1, <4>2
      <3>2. CASE Readable(b) < i
        <4>1. PICK j \in 1..Len(data) : i = Readable(b) + j
          <5>1. i - Readable(b) \in 1..Len(data) /\ i = Readable(b) + (i - Readable(b))
            BY <1>2, <3>2, GoodArith
          <5>2. QED
            BY <5>1
        <4>2. (Content(b) \o data)[i] = data[j]
          BY <1>5, <4>1, GoodArith
        <4>3. QED
          BY <1>10, <1>7, <4>1, <4>2
      <3>3. i <= Readable(b) \/ Readable(b) < i
        <4>1. i \in Nat /\ Readable(b) \in Nat
          BY <1>2, GoodArith
        <4>2. QED
          BY <4>1
      <3>4. QED
        BY <3>1, <3>2, <3>3
    <2>3. /\ Len(Content(r)) = Len(Content(b) \o data)
          /\ \A i \in 1..Len(Content(r)) : Content(r)[i] = (Content(b) \o data)[i]
      BY <1>10, <2>1, <2>2
    <2>4. QED
      BY <1>10, <2>1, <2>3, SeqEqual
  <1>12. QED
    BY <1>1, <1>9, <1>11 DEF r

LEMMA AppendedOK ==
  ASSUME NEW b, Good(b), NEW data \in Seq(Bytes)
  PROVE  /\ Good(Appended(b, data))
         /\ Readable(Appended(b, data)) = Readable(b) + Len(data)
         /\ Content(Appended(b, data)) = Content(b) \o data
         /\ \/ Appended(b, data).size = b.size
            \/ Appended(b, data).size < KCheapPrepend + Readable(b) + 2 * Len(data)
  <1> DEFINE s == EnsureWritable(b, Len(data))
  <1>1. Len(data) \in Nat
    OBVIOUS
  <1>2. /\ Good(s) /\ Len(data) <= Writable(s)
        /\ Readable(s) = Readable(b) /\ Content(s) = Content(b)
        /\ s.size = b.size \/ s.size < KCheapPrepend + Readable(b) + 2 * Len(data)
    BY <1>1, EnsureOK
  <1> HIDE DEF s
  <1>3. /\ Good(Store(s, data)) /\ Store(s, data).size = s.size
        /\ Store(s, data).reader = s.reader /\ Store(s, data).writer = s.writer + Len(data)
        /\ Content(Store(s, data)) = Content(s) \o data
    BY <1>2, StoreOK
  <1>4. Readable(Store(s, data)) = Readable(s) + Len(data)
    <2>1. s.reader \in Nat /\ s.writer \in Nat
      BY <1>2, GoodArith
    <2>2. QED
      BY <1>1, <1>3, <2>1 DEF Readable
  <1>5. QED
    BY <1>2, <1>3, <1>4 DEF Appended, s

------------------------------------------------------------------------------
(* readFd and retrieve.                                                     *)

\* Cutting data in two and putting the parts in one after the other.
LEMMA SplitData ==
  ASSUME NEW data \in Seq(Bytes), NEW c \in Seq(Bytes), NEW w \in 0..Len(data)
  PROVE  /\ SubSeq(data, 1, w) \in Seq(Bytes) /\ Len(SubSeq(data, 1, w)) = w
         /\ SubSeq(data, w + 1, Len(data)) \in Seq(Bytes)
         /\ Len(SubSeq(data, w + 1, Len(data))) = Len(data) - w
         /\ (c \o SubSeq(data, 1, w)) \o SubSeq(data, w + 1, Len(data)) = c \o data
  <1> DEFINE p == SubSeq(data, 1, w)
             q == SubSeq(data, w + 1, Len(data))
  <1>1. Len(data) \in Nat /\ w \in Int /\ w + 1 \in Int
    OBVIOUS
  <1>2. /\ p \in Seq(Bytes) /\ Len(p) = w
        /\ \A i \in 1..w : p[i] = data[i]
    <2>1. \A i \in 1..w : data[i] \in Bytes
      BY <1>1
    <2>2. /\ p \in Seq(Bytes) /\ Len(p) = IF 1 <= w THEN w - 1 + 1 ELSE 0
          /\ \A i \in 1..(w - 1 + 1) : p[i] = data[1 + i - 1]
      BY <1>1, <2>1, SubSeqProperties
    <2>3. QED
      BY <1>1, <2>2
  <1>3. /\ q \in Seq(Bytes) /\ Len(q) = Len(data) - w
        /\ \A i \in 1..(Len(data) - w) : q[i] = data[w + i]
    <2>1. \A i \in (w + 1)..Len(data) : data[i] \in Bytes
      BY <1>1
    <2>2. /\ q \in Seq(Bytes)
          /\ Len(q) = IF w + 1 <= Len(data) THEN Len(data) - (w + 1) + 1 ELSE 0
          /\ \A i \in 1..(Len(data) - (w + 1) + 1) : q[i] = data[(w + 1) + i - 1]
      BY <1>1, <2>1, SubSeqProperties
    <2>3. QED
      BY <1>1, <2>2
  <1> HIDE DEF p, q
  <1>4. /\ p \o q \in Seq(Bytes) /\ Len(p \o q) = Len(data)
        /\ \A i \in 1..Len(data) : (p \o q)[i] = data[i]
    <2>1. /\ p \o q \in Seq(Bytes) /\ Len(p \o q) = Len(p) + Len(q)
          /\ \A i \in 1..(Len(p) + Len(q)) :
               (p \o q)[i] = IF i <= Len(p) THEN p[i] ELSE q[i - Len(p)]
      BY <1>2, <1>3, ConcatProperties
    <2>2. ASSUME NEW i \in 1..Len(data) PROVE (p \o q)[i] = data[i]
      <3>1. CASE i <= w
        BY <1>1, <1>2, <1>3, <2>1, <3>1
      <3>2. CASE w < i
        <4>1. PICK k \in 1..(Len(data) - w) : k = i - w
          BY <1>1, <3>2
        <4>2. (p \o q)[i] = q[k]
          BY <1>1, <1>2, <1>3, <2>1, <3>2, <4>1
        <4>3. w + k = i
          BY <1>1, <4>1
        <4>4. QED
          BY <1>3, <4>1, <4>2, <4>3
      <3>3. i <= w \/ w < i
        BY <1>1
      <3>4. QED
        BY <3>1, <3>2, <3>3
    <2>3. QED
      BY <1>1, <1>2, <1>3, <2>1, <2>2
  <1>5. p \o q = data
    BY <1>4, SeqEqual
  <1>6. (c \o p) \o q = c \o data
    <2>1. (c \o p) \o q = c \o (p \o q)
      BY <1>2, <1>3, ConcatAssociative
    <2>2. QED
      BY <1>5, <2>1
  <1>7. QED
    BY <1>2, <1>3, <1>6 DEF p, q

LEMMA ReceivedOK ==
  ASSUME NEW b, Good(b), NEW data \in Seq(Bytes)
  PROVE  /\ Good(Received(b, data))
         /\ Readable(Received(b, data)) = Readable(b) + Len(data)
         /\ Content(Received(b, data)) = Content(b) \o data
         /\ \/ Received(b, data).size = b.size
            \/ Received(b, data).size < KCheapPrepend + 2 * (Readable(b) + Len(data))
  <1>1. Len(data) \in Nat /\ Writable(b) \in Nat /\ Readable(b) \in Nat
    BY GoodArith
  <1>2. CASE Len(data) <= Writable(b)
    <2>1. /\ Good(Store(b, data)) /\ Store(b, data).size = b.size
          /\ Store(b, data).reader = b.reader /\ Store(b, data).writer = b.writer + Len(data)
          /\ Content(Store(b, data)) = Content(b) \o data
      BY <1>2, StoreOK
    <2>2. Readable(Store(b, data)) = Readable(b) + Len(data)
      <3>1. b.reader \in Nat /\ b.writer \in Nat
        BY GoodArith
      <3>2. QED
        BY <1>1, <2>1, <3>1 DEF Readable
    <2>3. QED
      BY <1>2, <2>1, <2>2 DEF Received
  <1>3. CASE Writable(b) < Len(data)
    <2> DEFINE w == Writable(b)
               p == SubSeq(data, 1, w)
               q == SubSeq(data, w + 1, Len(data))
               s == Store(b, p)
    <2>1. Content(b) \in Seq(Bytes) /\ w \in 0..Len(data)
      BY <1>1, <1>3, ContentType
    <2>2. /\ p \in Seq(Bytes) /\ Len(p) = w /\ q \in Seq(Bytes) /\ Len(q) = Len(data) - w
          /\ (Content(b) \o p) \o q = Content(b) \o data
      BY <2>1, SplitData
    <2>3. Received(b, data) = Appended(s, q)
      BY <1>1, <1>3 DEF Received
    <2> HIDE DEF p, q
    <2>4. Len(p) <= Writable(b)
      BY <1>1, <2>2
    <2>5. /\ Good(s) /\ s.size = b.size
          /\ s.reader = b.reader /\ s.writer = b.writer + Len(p)
          /\ Content(s) = Content(b) \o p
      BY <2>2, <2>4, StoreOK
    <2> HIDE DEF s
    <2>6. Readable(s) = Readable(b) + w
      <3>1. /\ b.writer \in Nat /\ b.reader \in Nat /\ w \in Nat
        BY <2>1, <1>1, GoodArith
      <3>2. QED
        BY <2>2, <2>5, <3>1 DEF Readable
    <2>7. /\ Good(Appended(s, q))
          /\ Readable(Appended(s, q)) = Readable(s) + Len(q)
          /\ Content(Appended(s, q)) = Content(s) \o q
          /\ \/ Appended(s, q).size = s.size
             \/ Appended(s, q).size < KCheapPrepend + Readable(s) + 2 * Len(q)
      BY <2>2, <2>5, AppendedOK
    <2>8. Appended(s, q).size \in Nat
      BY <2>7 DEF Good, BufferType
    <2> HIDE DEF w
    <2>9. Readable(Appended(s, q)) = Readable(b) + Len(data)
      BY <1>1, <2>1, <2>2, <2>6, <2>7
    <2>10. Readable(s) + 2 * Len(q) <= 2 * (Readable(b) + Len(data))
      BY <1>1, <2>1, <2>2, <2>6
    <2>11. \/ Appended(s, q).size = b.size
           \/ Appended(s, q).size < KCheapPrepend + 2 * (Readable(b) + Len(data))
      <3>1. CASE Appended(s, q).size = s.size
        BY <2>5, <3>1
      <3>2. CASE Appended(s, q).size < KCheapPrepend + Readable(s) + 2 * Len(q)
        <4>1. /\ KCheapPrepend \in Nat /\ Readable(s) \in Nat /\ Len(q) \in Nat
              /\ Len(data) \in Nat /\ Readable(b) \in Nat
          BY <1>1, <2>1, <2>2, <2>5, GoodArith, SizesAssumption
        <4>2. QED
          BY <2>8, <2>10, <3>2, <4>1
      <3>3. QED
        BY <2>7, <3>1, <3>2
    <2>12. QED
      BY <2>2, <2>3, <2>5, <2>7, <2>9, <2>11
  <1>4. QED
    BY <1>1, <1>2, <1>3

LEMMA RetrievedOK ==
  ASSUME NEW b, Good(b), NEW n \in 0..Readable(b)
  PROVE  /\ Good(Retrieved(b, n))
         /\ Readable(Retrieved(b, n)) = Readable(b) - n
         /\ Retrieved(b, n).size = b.size
         /\ SubSeq(Content(b), 1, n) \in Seq(Bytes)
         /\ Content(Retrieved(b, n)) = SubSeq(Content(b), n + 1, Len(Content(b)))
  <1> DEFINE r == Retrieved(b, n)
             c == Content(b)
             t == SubSeq(c, n + 1, Len(c))
  <1>1. n \in Nat /\ n <= Readable(b) /\ Readable(b) \in Nat
    BY GoodArith
  <1>2. /\ r.bytes = b.bytes /\ r.size = b.size
        /\ \/ n < Readable(b) /\ r.reader = b.reader + n /\ r.writer = b.writer
           \/ n = Readable(b) /\ r.reader = KCheapPrepend /\ r.writer = KCheapPrepend
    BY <1>1, BufFields DEF Retrieved
  <1> HIDE DEF r
  <1>3. BufferType(r) /\ Layout(r)
    <2>1. b.bytes \in [0..(b.size - 1) -> Bytes]
      BY DEF Good, BufferType
    <2>2. /\ r.size \in Nat /\ r.reader \in Nat /\ r.writer \in Nat
          /\ KCheapPrepend <= r.reader /\ r.reader <= r.writer /\ r.writer <= r.size
      <3>1. CASE n < Readable(b) /\ r.reader = b.reader + n /\ r.writer = b.writer
        BY <1>1, <1>2, <3>1, GoodArith, SizesAssumption
      <3>2. CASE r.reader = KCheapPrepend /\ r.writer = KCheapPrepend
        BY <1>2, <3>2, GoodArith, SizesAssumption
      <3>3. QED
        BY <1>2, <3>1, <3>2
    <2>3. QED
      BY <1>2, <2>1, <2>2 DEF BufferType, Layout
  <1>4. Good(r) /\ Readable(r) = Readable(b) - n
    BY <1>1, <1>2, <1>3, GoodArith, SizesAssumption DEF Good, Readable
  <1>5. /\ c \in Seq(Bytes) /\ Len(c) = Readable(b)
        /\ \A i \in 1..Readable(b) : c[i] = b.bytes[b.reader + i - 1]
    BY ContentType
  <1> HIDE DEF c
  <1>6. SubSeq(c, 1, n) \in Seq(Bytes)
    <2>1. n \in Int /\ 1 \in Int /\ \A i \in 1..n : c[i] \in Bytes
      BY <1>1, <1>5
    <2>2. QED
      BY <2>1, SubSeqProperties
  <1>7. /\ t \in Seq(Bytes) /\ Len(t) = Readable(b) - n
        /\ \A i \in 1..(Readable(b) - n) : t[i] = c[n + i]
    <2>1. n + 1 \in Int /\ Len(c) \in Int /\ \A i \in (n + 1)..Len(c) : c[i] \in Bytes
      BY <1>1, <1>5
    <2>2. /\ t \in Seq(Bytes)
          /\ Len(t) = IF n + 1 <= Len(c) THEN Len(c) - (n + 1) + 1 ELSE 0
          /\ \A i \in 1..(Len(c) - (n + 1) + 1) : t[i] = c[(n + 1) + i - 1]
      BY <2>1, SubSeqProperties
    <2>3. QED
      BY <1>1, <1>5, <2>2
  <1> HIDE DEF t
  <1>8. /\ Content(r) \in Seq(Bytes) /\ Len(Content(r)) = Readable(b) - n
        /\ \A i \in 1..(Readable(b) - n) : Content(r)[i] = r.bytes[r.reader + i - 1]
    BY <1>4, ContentType
  <1>9. ASSUME NEW i \in 1..(Readable(b) - n) PROVE Content(r)[i] = t[i]
    <2>1. n < Readable(b) /\ n + i \in 1..Readable(b)
      BY <1>1
    <2>2. r.reader + i - 1 = b.reader + (n + i) - 1
      BY <1>1, <1>2, <2>1, GoodArith
    <2>3. QED
      BY <1>2, <1>5, <1>7, <1>8, <2>1, <2>2
  <1>10. Content(r) = t
    BY <1>1, <1>7, <1>8, <1>9, SeqEqual
  <1>11. QED
    BY <1>2, <1>4, <1>6, <1>10 DEF r, c, t

------------------------------------------------------------------------------
(* The theorems.                                                            *)

IInv == TypeOK /\ GrowthBounded

\* Putting data in, by either function.
LEMMA PutStep ==
  ASSUME IInv, NEW data \in Chunks, AppendData(data) \/ ReadFd(data)
  PROVE  /\ IInv'
         /\ Content(buf)' = Content(buf) \o data /\ moved' = data
  <1>1. data \in Seq(Bytes) /\ Len(data) \in Nat
    BY ChunksAssumption
  <1>2. Good(buf) /\ peak \in Nat /\ Readable(buf) \in Nat /\ Readable(buf) <= peak
    BY GoodArith DEF IInv, TypeOK, Good
  <1>3. /\ Good(buf') /\ Readable(buf') = Readable(buf) + Len(data)
        /\ Content(buf') = Content(buf) \o data
        /\ \/ buf'.size = buf.size
           \/ buf'.size < KCheapPrepend + 2 * (Readable(buf) + Len(data))
    <2>1. CASE AppendData(data)
      <3>1. buf' = Appended(buf, data)
        BY <2>1 DEF AppendData
      <3>2. /\ Good(buf') /\ Readable(buf') = Readable(buf) + Len(data)
            /\ Content(buf') = Content(buf) \o data
            /\ \/ buf'.size = buf.size
               \/ buf'.size < KCheapPrepend + Readable(buf) + 2 * Len(data)
        BY <1>1, <1>2, <3>1, AppendedOK
      <3>3. buf'.size \in Nat
        BY <3>2 DEF Good, BufferType
      <3>4. QED
        BY <1>1, <1>2, <3>2, <3>3, SizesAssumption
    <2>2. CASE ReadFd(data)
      <3>1. buf' = Received(buf, data)
        BY <2>2 DEF ReadFd
      <3>2. QED
        BY <1>1, <1>2, <3>1, ReceivedOK
    <2>3. QED
      BY <2>1, <2>2
  <1>4. moved' = data /\ peak' = IF Readable(buf') > peak THEN Readable(buf') ELSE peak
    BY DEF AppendData, ReadFd, Notes
  <1>5. Readable(buf') \in Nat /\ buf'.size \in Nat /\ buf.size \in Nat
    BY <1>2, <1>3, GoodArith
  <1>6. peak' \in Nat /\ peak <= peak' /\ Readable(buf') <= peak'
    BY <1>2, <1>4, <1>5
  <1>7. TypeOK'
    BY <1>1, <1>3, <1>4, <1>6 DEF TypeOK, Good
  <1>8. GrowthBounded'
    <2>1. CASE buf'.size = buf.size
      BY <1>2, <1>5, <1>6, <2>1, SizesAssumption DEF IInv, GrowthBounded
    <2>2. CASE buf'.size < KCheapPrepend + 2 * (Readable(buf) + Len(data))
      <3>1. buf'.size < KCheapPrepend + 2 * Readable(buf')
        BY <1>3, <2>2
      <3>2. QED
        BY <1>5, <1>6, <3>1, SizesAssumption DEF GrowthBounded
    <2>3. QED
      BY <1>3, <2>1, <2>2
  <1>9. QED
    BY <1>3, <1>4, <1>7, <1>8 DEF IInv

\* Taking n bytes out, by either function.
LEMMA TakeStep ==
  ASSUME IInv, NEW n \in 0..Readable(buf), RetrieveAsString(n) \/ WriteFd(n)
  PROVE  /\ IInv'
         /\ Content(buf)' = SubSeq(Content(buf), n + 1, Len(Content(buf)))
         /\ moved' = SubSeq(Content(buf), 1, n)
  <1>1. Good(buf) /\ peak \in Nat /\ Readable(buf) \in Nat /\ Readable(buf) <= peak
    BY GoodArith DEF IInv, TypeOK, Good
  <1>2. buf' = Retrieved(buf, n) /\ moved' = SubSeq(Content(buf), 1, n) /\ peak' = peak
    BY DEF RetrieveAsString, WriteFd
  <1>3. /\ Good(buf') /\ Readable(buf') = Readable(buf) - n /\ buf'.size = buf.size
        /\ moved' \in Seq(Bytes)
        /\ Content(buf') = SubSeq(Content(buf), n + 1, Len(Content(buf)))
    BY <1>1, <1>2, RetrievedOK
  <1>4. Readable(buf') <= peak'
    BY <1>1, <1>2, <1>3
  <1>5. TypeOK' /\ GrowthBounded'
    BY <1>1, <1>2, <1>3, <1>4 DEF IInv, TypeOK, GrowthBounded, Good
  <1>6. QED
    BY <1>2, <1>3, <1>5 DEF IInv

LEMMA InitInv == Init => IInv /\ Content(buf) = <<>>
  <1> SUFFICES ASSUME Init PROVE IInv /\ Content(buf) = <<>>
    OBVIOUS
  <1> DEFINE n == KCheapPrepend + InitialSize
             f == [i \in 0..(n - 1) |-> Zero]
  <1>1. n \in Nat /\ f \in [0..(n - 1) -> Bytes]
    BY SizesAssumption, ChunksAssumption
  <1>2. /\ buf.bytes = f /\ buf.size = n
        /\ buf.reader = KCheapPrepend /\ buf.writer = KCheapPrepend
    BY BufFields DEF Init, Empty
  <1> HIDE DEF f
  <1>3. Readable(buf) = 0
    BY <1>2, SizesAssumption DEF Readable
  <1>4. TypeOK
    BY <1>1, <1>2, <1>3, SizesAssumption DEF Init, TypeOK, BufferType, Layout
  <1>5. GrowthBounded
    BY <1>1, <1>2 DEF GrowthBounded
  <1>6. Content(buf) = <<>>
    BY <1>3 DEF Content
  <1>7. QED
    BY <1>4, <1>5, <1>6 DEF IInv

LEMMA NextInv == IInv /\ [Next]_vars => IInv'
  <1> SUFFICES ASSUME IInv, [Next]_vars PROVE IInv'
    OBVIOUS
  <1>1. CASE \E data \in Chunks : AppendData(data) \/ ReadFd(data)
    BY <1>1, PutStep
  <1>2. CASE \E n \in 0..Readable(buf) : RetrieveAsString(n) \/ WriteFd(n)
    BY <1>2, TakeStep
  <1>3. CASE UNCHANGED vars
    BY <1>3 DEF vars, IInv, TypeOK, GrowthBounded
  <1>4. QED
    BY <1>1, <1>2, <1>3 DEF Next

LEMMA AlwaysIInv == Spec => []IInv
  BY InitInv, NextInv, PTL DEF Spec

\* The indices stay in order, within the vector and behind the prependable bytes.
THEOREM TypeCorrect == Spec => []TypeOK
  <1>1. IInv => TypeOK
    BY DEF IInv
  <1>2. QED
    BY <1>1, AlwaysIInv, PTL

\* The vector never grows beyond twice what the buffer had to hold.
THEOREM GrowthIsBounded == Spec => []GrowthBounded
  <1>1. IInv => GrowthBounded
    BY DEF IInv
  <1>2. QED
    BY <1>1, AlwaysIInv, PTL

\* The buffer implements the byte stream: compaction, enlargement and the two
\* parts of readFd lose, repeat or reorder nothing.
THEOREM BufferIsByteStream == Spec => ImplementsByteStream
  <1>1. Init => Stream!Init
    BY InitInv DEF Init, Stream!Init
  <1>2. IInv /\ [Next]_vars => [Stream!Next]_(Stream!vars)
    <2> SUFFICES ASSUME IInv, [Next]_vars PROVE [Stream!Next]_(Stream!vars)
      OBVIOUS
    <2>1. ASSUME NEW data \in Chunks, AppendData(data) \/ ReadFd(data)
          PROVE  Stream!Next
      BY <2>1, PutStep DEF Stream!Next, Stream!Put
    <2>2. ASSUME NEW n \in 0..Readable(buf), RetrieveAsString(n) \/ WriteFd(n)
          PROVE  Stream!Next
      <3>1. Len(Content(buf)) = Readable(buf)
        BY ContentType DEF IInv, TypeOK, Good
      <3>2. Stream!Take(n)
        BY <2>2, TakeStep DEF Stream!Take
      <3>3. QED
        BY <3>1, <3>2 DEF Stream!Next
    <2>3. CASE UNCHANGED vars
      BY <2>3 DEF vars, Stream!vars, Content, Readable
    <2>4. QED
      BY <2>1, <2>2, <2>3 DEF Next
  <1>3. QED
    BY <1>1, <1>2, AlwaysIInv, PTL DEF Spec, Stream!Spec, ImplementsByteStream

------------------------------------------------------------------------------
(* The timers. First, loops: what a heap does is a loop over its levels,     *)
(* written as a function of the turn. The provers have no induction, so the  *)
(* two lemmas about loops take the least counterexample.                     *)

LEMMA LeastOf ==
  ASSUME NEW S, S \in SUBSET Nat, S # {}
  PROVE  \E n \in S : \A m \in S : n <= m
  <1> DEFINE Less == {p \in Nat \X Nat : p[1] < p[2]}
  <1>1. IsWellFoundedOn(Less, Nat)
    BY NatLessThanWellFounded DEF OpToRel
  <1> HIDE DEF Less
  <1>2. PICK n \in S : \A m \in S : <<m, n>> \notin Less
    BY <1>1, WFMin
  <1>3. \A m \in S : m \in Nat /\ n \in Nat /\ (m < n => <<m, n>> \in Less)
    BY DEF Less
  <1>4. \A m \in S : m \in Nat /\ n \in Nat /\ ~(m < n)
    BY <1>2, <1>3
  <1>5. \A m \in S : n <= m
    BY <1>4
  <1>6. QED
    BY <1>5

\* A set that holds the first number and the next of each holds them all.
LEMMA Upto ==
  ASSUME NEW N \in Nat, NEW G, 0 \in G, \A n \in 1..N : n - 1 \in G => n \in G
  PROVE  \A n \in 0..N : n \in G
  <1>1. SUFFICES ASSUME (0..N) \ G # {} PROVE FALSE
    OBVIOUS
  <1>2. (0..N) \ G \in SUBSET Nat
    OBVIOUS
  <1>3. PICK n \in (0..N) \ G : \A m \in (0..N) \ G : n <= m
    BY <1>1, <1>2, LeastOf
  <1>4. n \in 1..N /\ n - 1 \in 0..N /\ n - 1 \in G
    BY <1>3
  <1>5. QED
    BY <1>3, <1>4

\* A loop whose turn is a function of its state has a state after each turn.
LEMMA TurnsExist ==
  ASSUME NEW N \in Nat, NEW S, NEW x \in S, NEW turn \in [S -> S]
  PROVE  \E f \in [0..N -> S] : f[0] = x /\ \A k \in 1..N : f[k] = turn[f[k - 1]]
  <1> DEFINE Runs(f, n) == f[0] = x /\ \A k \in 1..n : f[k] = turn[f[k - 1]]
             G == {n \in 0..N : \E f \in [0..n -> S] : Runs(f, n)}
  <1>1. 0 \in G
    <2>1. [k \in 0..0 |-> x] \in [0..0 -> S] /\ Runs([k \in 0..0 |-> x], 0)
      OBVIOUS
    <2>2. \E f \in [0..0 -> S] : Runs(f, 0)
      BY ONLY <2>1
    <2>3. QED
      BY <2>2
  <1>2. ASSUME NEW n \in 1..N, n - 1 \in G PROVE n \in G
    <2>1. PICK g \in [0..(n - 1) -> S] : Runs(g, n - 1)
      BY <1>2
    <2>2. PICK f : f = [k \in 0..n |-> IF k = n THEN turn[g[n - 1]] ELSE g[k]]
      OBVIOUS
    <2>3. n - 1 \in 0..(n - 1) /\ turn[g[n - 1]] \in S
      BY <2>1
    <2>4. f \in [0..n -> S]
      BY <2>2, <2>3
    <2>5. f[0] = x
      BY <2>1, <2>2
    <2>6. ASSUME NEW k \in 1..n PROVE f[k] = turn[f[k - 1]]
      <3>1. k - 1 \in 0..n /\ k \in 0..n /\ k - 1 # n
        OBVIOUS
      <3>2. f[k - 1] = g[k - 1]
        BY <2>2, <3>1
      <3>3. CASE k = n
        BY <2>2, <3>1, <3>2, <3>3
      <3>4. CASE k # n
        <4>1. k \in 1..(n - 1) /\ f[k] = g[k]
          BY <2>2, <3>1, <3>4
        <4>2. QED
          BY <2>1, <3>2, <4>1
      <3>5. QED
        BY <3>3, <3>4
    <2>7. QED
      BY <2>4, <2>5, <2>6
  <1>3. N \in G
    <2> HIDE DEF G
    <2>1. QED
      BY <1>1, <1>2, Upto
  <1>4. PICK f \in [0..N -> S] : Runs(f, N)
    BY <1>3
  <1>5. QED
    BY <1>4

\* What the turns keep holds after the last.
LEMMA TurnsKeep ==
  ASSUME NEW N \in Nat, NEW f, NEW good,
         f[0] \in good[0],
         \A k \in 1..N : f[k - 1] \in good[k - 1] => f[k] \in good[k]
  PROVE  f[N] \in good[N]
  <1> DEFINE G == {n \in 0..N : f[n] \in good[n]}
  <1>1. 0 \in G
    OBVIOUS
  <1>2. \A n \in 1..N : n - 1 \in G => n \in G
    OBVIOUS
  <1>3. N \in G
    <2> HIDE DEF G
    <2>1. QED
      BY <1>1, <1>2, Upto
  <1>4. QED
    BY <1>3

------------------------------------------------------------------------------
(* The order of a heap, on its deadlines alone: e[i] is the deadline of the  *)
(* node at position i.                                                       *)

\* The position of the parent.
Up(j) == j \div 2

LEMMA UpIs ==
  \A j \in Nat : j >= 2 => Up(j) \in 1..(j - 1) /\ (j = 2 * Up(j) \/ j = 2 * Up(j) + 1)
  BY DEF Up

LEMMA ChildUp ==
  \A i, j \in Nat : i >= 1 /\ (j = 2 * i \/ j = 2 * i + 1) => Up(j) = i /\ j > i /\ j >= 2
  BY DEF Up

\* No node is before its parent; the nodes below i are not before the parent of
\* i; only i itself may be before its parent, as while siftup_ runs; only the
\* nodes below i may be before it, as while siftdown_ runs.
Ordered(e, n) == \A j \in 2..n : e[Up(j)] <= e[j]
AboveBelow(e, n, i) == \A j \in 2..n : Up(j) = i /\ i > 1 => e[Up(i)] <= e[j]
Low(e, n, i) == AboveBelow(e, n, i) /\ \A j \in 2..n : j # i => e[Up(j)] <= e[j]
Hole(e, n, i) == AboveBelow(e, n, i) /\ \A j \in 2..n : j # i /\ Up(j) # i => e[Up(j)] <= e[j]

Swapped(e, f, i, j) == /\ f[i] = e[j] /\ f[j] = e[i]
                       /\ \A k \in DOMAIN e \ {i, j} : f[k] = e[k]

\* Where the parent of a position is.
LEMMA Above ==
  ASSUME NEW N \in Nat, NEW n \in 0..N, NEW j \in 2..n
  PROVE  j \in 1..N /\ Up(j) \in 1..N /\ Up(j) \in Nat /\ Up(j) < j
  <1>1. j \in Nat /\ j >= 2 /\ j <= N
    OBVIOUS
  <1>2. Up(j) \in 1..(j - 1)
    BY <1>1, UpIs
  <1>3. QED
    BY <1>1, <1>2

\* One turn of siftup_ moves the node that is too early one level up.
LEMMA LowRises ==
  ASSUME NEW N \in Nat, NEW e \in [1..N -> Nat], NEW f \in [1..N -> Nat],
         NEW n \in 0..N, NEW i \in 2..n, Low(e, n, i), e[i] < e[Up(i)], Swapped(e, f, i, Up(i))
  PROVE  Low(f, n, Up(i))
  <1>1. PICK p \in 1..N : p = Up(i) /\ p < i
    BY Above
  <1>2. i \in 1..N /\ \A k \in 1..N : e[k] \in Nat
    BY Above
  <1>3. f[i] = e[p] /\ f[p] = e[i] /\ \A k \in 1..N \ {i, p} : f[k] = e[k]
    BY <1>1 DEF Swapped
  <1>4. ASSUME NEW j \in 2..n, j # p PROVE f[Up(j)] <= f[j]
    <2>1. PICK q \in 1..N : q = Up(j) /\ q < j /\ j \in 1..N
      BY Above
    <2>2. j # i => e[q] <= e[j]
      BY <2>1 DEF Low
    <2>3. q = i => e[p] <= e[j]
      <3>1. i > 1 /\ AboveBelow(e, n, i)
        BY DEF Low
      <3>2. Up(j) = i => e[Up(i)] <= e[j]
        BY <3>1 DEF AboveBelow
      <3>3. QED
        BY <1>1, <2>1, <3>2
    <2>4. f[q] <= f[j]
      <3>1. CASE j = i
        BY <1>1, <1>2, <1>3, <2>1, <3>1
      <3>2. CASE j # i /\ q \in {i, p}
        BY <1>1, <1>2, <1>3, <1>4, <2>1, <2>2, <2>3, <3>2
      <3>3. CASE j # i /\ q \notin {i, p}
        BY <1>1, <1>2, <1>3, <1>4, <2>1, <2>2, <3>3
      <3>4. QED
        BY <3>1, <3>2, <3>3
    <2>5. QED
      BY <2>1, <2>4
  <1>5. ASSUME NEW j \in 2..n, Up(j) = p, p > 1 PROVE f[Up(p)] <= f[j]
    <2>1. j \in 1..N /\ p < j
      BY <1>5, Above
    <2>7. p \in 2..n /\ p # i
      BY <1>1, <1>5
    <2>2. PICK g \in 1..N : g = Up(p) /\ g < p
      BY <2>7, Above
    <2>3. e[g] <= e[p]
      BY <2>7, <2>2 DEF Low
    <2>4. j # i => e[p] <= e[j]
      BY <1>5 DEF Low
    <2>5. f[g] <= f[j]
      <3>1. f[g] = e[g] /\ g # j /\ e[g] \in Nat /\ e[p] \in Nat /\ e[j] \in Nat
        <4>0. g \in Nat /\ p \in Nat /\ i \in Nat /\ j \in Nat
          BY <1>2, <2>1
        <4>1. g \in 1..N \ {i, p} /\ g # j
          <5>1. g < p /\ p < i /\ p < j
            BY <1>1, <2>1, <2>2
          <5>2. g # p /\ g # i /\ g # j
            BY ONLY <4>0, <5>1
          <5>3. QED
            BY <5>2
        <4>2. f[g] = e[g]
          BY ONLY <1>3, <4>1
        <4>3. QED
          BY <1>2, <2>1, <4>1, <4>2
      <3>2. CASE j = i
        BY <1>3, <2>3, <3>1, <3>2
      <3>3. CASE j # i
        BY <1>3, <2>1, <2>3, <2>4, <3>1, <3>3
      <3>4. QED
        BY <3>2, <3>3
    <2>6. QED
      BY <2>2, <2>5
  <1>6. QED
    BY <1>1, <1>4, <1>5 DEF Low, AboveBelow

\* One turn of siftdown_ moves the hole one level down, behind the earlier child.
LEMMA HoleSinks ==
  ASSUME NEW N \in Nat, NEW e \in [1..N -> Nat], NEW f \in [1..N -> Nat],
         NEW n \in 0..N, NEW i \in 1..n, NEW c \in 2..n, Up(c) = i, Hole(e, n, i), e[c] < e[i],
         \A j \in 2..n : Up(j) = i => e[c] <= e[j], Swapped(e, f, i, c)
  PROVE  Hole(f, n, c) /\ f[i] <= f[c]
  <1>1. i \in 1..N /\ c \in 1..N /\ i < c
    BY Above
  <1>2. \A k \in 1..N : e[k] \in Nat
    OBVIOUS
  <1>3. f[i] = e[c] /\ f[c] = e[i] /\ \A k \in 1..N \ {i, c} : f[k] = e[k]
    BY DEF Swapped
  <1>4. ASSUME NEW j \in 2..n, j # c, Up(j) # c PROVE f[Up(j)] <= f[j]
    <2>1. PICK q \in 1..N : q = Up(j) /\ q < j /\ j \in 1..N
      BY Above
    <2>2. j # i /\ q # i => e[q] <= e[j]
      BY <2>1 DEF Hole
    <2>3. q = i => e[c] <= e[j]
      BY <2>1
    <2>4. j = i => e[q] <= e[c]
      BY <2>1, <1>1 DEF Hole, AboveBelow
    <2>5. f[q] <= f[j]
      <3>1. CASE j = i
        BY <1>1, <1>2, <1>3, <1>4, <2>1, <2>4, <3>1
      <3>2. CASE q = i
        BY <1>1, <1>2, <1>3, <1>4, <2>1, <2>3, <3>2
      <3>3. CASE j # i /\ q # i
        BY <1>1, <1>2, <1>3, <1>4, <2>1, <2>2, <3>3
      <3>4. QED
        BY <3>1, <3>2, <3>3
    <2>6. QED
      BY <2>1, <2>5
  <1>5. ASSUME NEW j \in 2..n, Up(j) = c PROVE f[i] <= f[j]
    <2>1. j \in 1..N /\ c < j
      BY <1>5, Above
    <2>2. e[c] <= e[j]
      <3>1. j # i /\ Up(j) # i
        BY <1>1, <1>5, <2>1
      <3>2. e[Up(j)] <= e[j]
        BY <3>1 DEF Hole
      <3>3. QED
        BY <1>5, <3>2
    <2>3. f[j] = e[j]
      BY <1>1, <1>3, <2>1
    <2>4. QED
      BY <1>3, <2>2, <2>3
  <1>6. QED
    BY <1>1, <1>2, <1>3, <1>4, <1>5 DEF Hole, AboveBelow

------------------------------------------------------------------------------
(* The two structures together: positions and identifiers.                   *)

Node == [id : Ids, expires : Nat]
Trees(N, D) == [heap : [1..N -> Node], ref : [D -> 1..N]]

\* ref and heap name each other's places.
Linked(t, N, D) ==
  /\ t \in Trees(N, D)
  /\ \A i \in 1..N : t.heap[i].id \in D /\ t.ref[t.heap[i].id] = i
  /\ \A d \in D : t.heap[t.ref[d]].id = d

\* The node of each identifier is the same in both.
Same(t, u, D) == \A d \in D : u.heap[u.ref[d]] = t.heap[t.ref[d]]

\* The deadlines by position.
Exp(t) == [i \in DOMAIN t.heap |-> t.heap[i].expires]

LEMMA ExpIs ==
  ASSUME NEW N \in Nat, NEW D, NEW t \in Trees(N, D)
  PROVE  /\ Exp(t) \in [1..N -> Nat] /\ \A i \in 1..N : Exp(t)[i] = t.heap[i].expires
         /\ \A i, j \in 1..N : Earlier(t, i, j) <=> Exp(t)[i] < Exp(t)[j]
  BY DEF Trees, Node, Exp, Earlier

LEMMA SwapFields ==
  ASSUME NEW N \in Nat, NEW D, NEW t \in Trees(N, D), NEW i \in 1..N, NEW j \in 1..N,
         i # j
  PROVE  LET u == SwapNode(t, i, j) IN
         /\ u \in Trees(N, D) /\ u.heap[i] = t.heap[j] /\ u.heap[j] = t.heap[i]
         /\ \A k \in 1..N \ {i, j} : u.heap[k] = t.heap[k]
         /\ Swapped(Exp(t), Exp(u), i, j)
  <1>1. PICK u : u = SwapNode(t, i, j)
    OBVIOUS
  <1>2. /\ u.heap = [t.heap EXCEPT ![i] = t.heap[j], ![j] = t.heap[i]]
        /\ u.ref = [t.ref EXCEPT ![t.heap[j].id] = i, ![t.heap[i].id] = j]
        /\ u = [heap |-> u.heap, ref |-> u.ref]
    BY <1>1 DEF SwapNode
  <1>3. t.heap \in [1..N -> Node] /\ t.ref \in [D -> 1..N]
    BY DEF Trees
  <1>4. u.heap \in [1..N -> Node] /\ u.ref \in [D -> 1..N]
    <2>1. u.heap \in [1..N -> Node]
      BY <1>2, <1>3
    <2>2. u.ref \in [D -> 1..N]
      BY <1>2, <1>3
    <2>3. QED
      BY <2>1, <2>2
  <1>5. u \in Trees(N, D)
    BY <1>2, <1>4 DEF Trees
  <1>6. u.heap[i] = t.heap[j] /\ u.heap[j] = t.heap[i]
        /\ \A k \in 1..N \ {i, j} : u.heap[k] = t.heap[k]
    BY <1>2, <1>3
  <1>7. Swapped(Exp(t), Exp(u), i, j)
    <2>1. /\ Exp(t) \in [1..N -> Nat] /\ \A k \in 1..N : Exp(t)[k] = t.heap[k].expires
          /\ Exp(u) \in [1..N -> Nat] /\ \A k \in 1..N : Exp(u)[k] = u.heap[k].expires
      BY <1>5, ExpIs
    <2>2. \A k \in 1..N \ {i, j} : Exp(u)[k] = Exp(t)[k]
      BY <1>6, <2>1
    <2>3. Exp(u)[i] = Exp(t)[j] /\ Exp(u)[j] = Exp(t)[i]
      BY <1>6, <2>1
    <2>4. QED
      BY <2>1, <2>2, <2>3 DEF Swapped
  <1>8. QED
    BY <1>1, <1>5, <1>6, <1>7

LEMMA SwapLinked ==
  ASSUME NEW N \in Nat, NEW D, NEW t, Linked(t, N, D), NEW i \in 1..N, NEW j \in 1..N,
         i # j
  PROVE  LET u == SwapNode(t, i, j) IN Linked(u, N, D) /\ Same(t, u, D)
  <1>1. PICK u : u = SwapNode(t, i, j)
    OBVIOUS
  <1>2. t \in Trees(N, D)
    BY DEF Linked
  <1>3. /\ u \in Trees(N, D) /\ u.heap[i] = t.heap[j] /\ u.heap[j] = t.heap[i]
        /\ \A k \in 1..N \ {i, j} : u.heap[k] = t.heap[k]
    BY <1>1, <1>2, SwapFields
  <1>4. PICK a \in D, b \in D : a = t.heap[i].id /\ b = t.heap[j].id
    BY DEF Linked
  <1>5. a # b /\ t.ref[a] = i /\ t.ref[b] = j
    BY <1>4 DEF Linked
  <1>6. u.ref[b] = i /\ u.ref[a] = j /\ \A d \in D \ {a, b} : u.ref[d] = t.ref[d]
    <2>1. u.ref = [t.ref EXCEPT ![b] = i, ![a] = j]
      BY <1>1, <1>4 DEF SwapNode
    <2>2. t.ref \in [D -> 1..N]
      BY <1>2 DEF Trees
    <2>3. QED
      BY <1>5, <2>1, <2>2
  <1>7. ASSUME NEW k \in 1..N PROVE u.heap[k].id \in D /\ u.ref[u.heap[k].id] = k
    <2>1. CASE k \in {i, j}
      BY <1>3, <1>4, <1>6, <2>1
    <2>2. CASE k \notin {i, j}
      <3>1. PICK d \in D : d = t.heap[k].id /\ t.ref[d] = k
        BY DEF Linked
      <3>2. d \notin {a, b} /\ u.heap[k].id = d
        BY <1>3, <1>5, <2>2, <3>1
      <3>3. QED
        BY <1>6, <3>1, <3>2
    <2>3. QED
      BY <2>1, <2>2
  <1>8. ASSUME NEW d \in D
        PROVE  u.heap[u.ref[d]].id = d /\ u.heap[u.ref[d]] = t.heap[t.ref[d]]
    <2>1. CASE d \in {a, b}
      BY <1>3, <1>4, <1>5, <1>6, <2>1
    <2>2. CASE d \notin {a, b}
      <3>1. PICK k \in 1..N : k = t.ref[d] /\ t.heap[k].id = d
        BY DEF Linked, Trees
      <3>2. k \notin {i, j} /\ u.ref[d] = k
        BY <1>4, <1>6, <2>2, <3>1
      <3>3. QED
        BY <1>3, <3>1, <3>2
    <2>3. QED
      BY <2>1, <2>2
  <1>9. QED
    BY <1>1, <1>3, <1>7, <1>8 DEF Linked, Same

\* u is a rearrangement of the first n nodes of t.
Keeps(t, u, N, D, n) == /\ Linked(u, N, D) /\ Same(t, u, D)
                        /\ \A k \in (n + 1)..N : u.heap[k] = t.heap[k]

LEMMA SwapKeeps ==
  ASSUME NEW N \in Nat, NEW D, NEW n \in 0..N, NEW t, NEW u, Keeps(t, u, N, D, n),
         NEW i \in 1..n, NEW j \in 1..n, i # j
  PROVE  /\ Keeps(t, SwapNode(u, i, j), N, D, n)
         /\ SwapNode(u, i, j) \in Trees(N, D)
         /\ Swapped(Exp(u), Exp(SwapNode(u, i, j)), i, j)
  <1>1. PICK v : v = SwapNode(u, i, j)
    OBVIOUS
  <1>2. i \in 1..N /\ j \in 1..N /\ Linked(u, N, D) /\ u \in Trees(N, D)
    BY DEF Keeps, Linked
  <1>3. Linked(v, N, D) /\ Same(u, v, D)
    BY <1>1, <1>2, SwapLinked
  <1>4. /\ v \in Trees(N, D) /\ Swapped(Exp(u), Exp(v), i, j)
        /\ \A k \in 1..N \ {i, j} : v.heap[k] = u.heap[k]
    <2>1. i # j
      OBVIOUS
    <2>2. QED
      BY ONLY N \in Nat, <1>1, <1>2, <2>1, SwapFields
  <1>5. ASSUME NEW k \in (n + 1)..N PROVE v.heap[k] = t.heap[k]
    <2>1. k \in 1..N \ {i, j}
      OBVIOUS
    <2>2. QED
      BY <1>4, <2>1 DEF Keeps
  <1>6. Same(t, v, D)
    BY <1>3 DEF Same, Keeps
  <1>7. QED
    BY <1>1, <1>3, <1>4, <1>5, <1>6 DEF Keeps

------------------------------------------------------------------------------
(* siftup_ and siftdown_, turn by turn.                                      *)

Turns(N, D, n) == [t : Trees(N, D), at : 1..n]

Risen(r) == r.at = 1 \/ ~Earlier(r.t, r.at, Up(r.at))

\* The states after k turns of siftup.
Rising(t, i, N, D, n, k) ==
  {r \in Turns(N, D, n) : /\ Keeps(t, r.t, N, D, n) /\ Low(Exp(r.t), n, r.at)
                          /\ r.at + k <= i \/ Risen(r)}

LEMMA RiseIs ==
  ASSUME NEW N \in Nat, NEW D, NEW n \in 1..N, NEW r \in Turns(N, D, n)
  PROVE  /\ Risen(r) => Rise(r) = r
         /\ ~Risen(r) => /\ r.at \in 2..n /\ Up(r.at) \in 1..n /\ Up(r.at) < r.at
                         /\ Rise(r) = [t |-> SwapNode(r.t, r.at, Up(r.at)), at |-> Up(r.at)]
  <1>1. r.at \in 1..n
    BY DEF Turns
  <1>2. r.at > 1 => r.at \in 2..n
    BY <1>1
  <1>3. r.at \in 2..n => Up(r.at) < r.at /\ Up(r.at) \in 1..n
    <2>1. SUFFICES ASSUME r.at \in 2..n PROVE Up(r.at) < r.at /\ Up(r.at) \in 1..n
      OBVIOUS
    <2>2. Up(r.at) \in 1..N /\ Up(r.at) < r.at
      BY <2>1, Above
    <2>3. QED
      BY <1>1, <2>2
  <1>4. Rise(r) = IF r.at > 1 /\ Earlier(r.t, r.at, Up(r.at))
                    THEN [t |-> SwapNode(r.t, r.at, Up(r.at)), at |-> Up(r.at)] ELSE r
    BY DEF Rise, Up
  <1>5. QED
    BY <1>1, <1>2, <1>3, <1>4 DEF Risen

LEMMA RiseTurn ==
  ASSUME NEW N \in Nat, NEW D, NEW n \in 1..N, NEW i \in 1..n, NEW t, NEW k \in 1..N,
         NEW r \in Rising(t, i, N, D, n, k - 1)
  PROVE  Rise(r) \in Rising(t, i, N, D, n, k)
  <1>1. /\ r \in Turns(N, D, n) /\ Keeps(t, r.t, N, D, n) /\ Low(Exp(r.t), n, r.at)
        /\ r.at + (k - 1) <= i \/ Risen(r)
    BY DEF Rising
  <1>2. CASE Risen(r)
    BY <1>1, <1>2, RiseIs DEF Rising
  <1>3. CASE ~Risen(r)
    <2>1. PICK p, u : p = Up(r.at) /\ u = SwapNode(r.t, r.at, p)
      OBVIOUS
    <2>2. r.at \in 2..n /\ p \in 1..n /\ p < r.at /\ Rise(r) = [t |-> u, at |-> p]
      BY <1>1, <1>3, <2>1, RiseIs
    <2>3. r.at \in 1..n /\ r.at # p
      BY <2>2
    <2>4. Keeps(t, u, N, D, n) /\ u \in Trees(N, D) /\ Swapped(Exp(r.t), Exp(u), r.at, p)
      BY <1>1, <2>1, <2>2, <2>3, SwapKeeps
    <2>5. Exp(r.t) \in [1..N -> Nat] /\ Exp(u) \in [1..N -> Nat]
      BY <1>1, <2>4, ExpIs DEF Turns
    <2>6. Exp(r.t)[r.at] < Exp(r.t)[p]
      <3>1. Earlier(r.t, r.at, p) /\ r.at \in 1..N /\ p \in 1..N /\ r.t \in Trees(N, D)
        BY <1>1, <1>3, <2>1, <2>2 DEF Risen, Turns
      <3>2. QED
        BY <3>1, ExpIs
    <2>7. Low(Exp(u), n, p)
      <3>1. PICK a, e, f : a = r.at /\ e = Exp(r.t) /\ f = Exp(u)
        OBVIOUS
      <3>2. e \in [1..N -> Nat] /\ f \in [1..N -> Nat] /\ a \in 2..n /\ n \in 0..N
        <4>1. n \in 0..N
          OBVIOUS
        <4>2. QED
          BY ONLY <2>2, <2>5, <3>1, <4>1
      <3>3. Low(e, n, a) /\ e[a] < e[Up(a)] /\ Swapped(e, f, a, Up(a))
        BY <1>1, <2>1, <2>4, <2>6, <3>1
      <3>4. Low(f, n, Up(a))
        BY <3>2, <3>3, LowRises
      <3>5. QED
        BY <2>1, <3>1, <3>4
    <2>8. p + k <= i
      BY <1>1, <1>3, <2>2
    <2>9. QED
      BY <2>2, <2>4, <2>7, <2>8 DEF Rising, Turns
  <1>4. QED
    BY <1>2, <1>3

LEMMA siftupOrders ==
  ASSUME NEW N \in Nat, NEW D, NEW n \in 1..N, NEW i \in 1..n, NEW t, Linked(t, N, D),
         Low(Exp(t), n, i)
  PROVE  Keeps(t, siftup(t, i), N, D, n) /\ Ordered(Exp(siftup(t, i)), n)
  <1> DEFINE S == Turns(N, D, n)
             x == [t |-> t, at |-> i]
             turn == [r \in S |-> Rise(r)]
             good == [k \in 0..N |-> Rising(t, i, N, D, n, k)]
  <1>1. t \in Trees(N, D) /\ x \in S /\ x \in good[0]
    BY DEF Linked, Turns, Rising, Keeps, Same
  <1>2. turn \in [S -> S]
    <2>1. SUFFICES ASSUME NEW r \in S PROVE Rise(r) \in S
      OBVIOUS
    <2>2. CASE Risen(r)
      BY <2>2, RiseIs
    <2>3. CASE ~Risen(r)
      <3>1. r.at \in 1..N /\ Up(r.at) \in 1..N /\ Up(r.at) # r.at /\ r.t \in Trees(N, D)
        BY <2>3, RiseIs DEF Turns
      <3>2. SwapNode(r.t, r.at, Up(r.at)) \in Trees(N, D)
        BY <3>1, SwapFields
      <3>3. QED
        BY <2>3, <3>2, RiseIs DEF Turns
    <2>4. QED
      BY <2>2, <2>3
  <1>3. PICK g \in [0..N -> S] : g[0] = x /\ \A k \in 1..N : g[k] = turn[g[k - 1]]
    <2>1. x \in S /\ N \in Nat
      BY <1>1
    <2> HIDE DEF S, x, turn, good
    <2>2. QED
      BY ONLY <1>2, <2>1, TurnsExist, SMTT(60)
  <1>4. g = [k \in 0..N |-> IF k = 0 THEN x ELSE Rise(g[k - 1])]
    <2>1. ASSUME NEW k \in 0..N, k # 0 PROVE g[k] = Rise(g[k - 1])
      <3>1. k \in 1..N /\ k - 1 \in 0..N
        BY <2>1
      <3>2. g[k] = turn[g[k - 1]] /\ g[k - 1] \in S
        BY <1>3, <3>1
      <3>3. QED
        BY <3>2
    <2>2. QED
      BY <1>3, <2>1
  <1>5. Len(t.heap) = N
    BY <1>1 DEF Trees
  <1>6. PICK f : /\ f = [k \in 0..N |-> IF k = 0 THEN x ELSE Rise(f[k - 1])]
                 /\ siftup(t, i) = f[N].t
    BY <1>4, <1>5 DEF siftup
  <1>7. f[0] \in good[0]
    BY <1>1, <1>6
  <1>8. ASSUME NEW k \in 1..N, f[k - 1] \in good[k - 1] PROVE f[k] \in good[k]
    <2>1. f[k - 1] \in Rising(t, i, N, D, n, k - 1) /\ f[k] = Rise(f[k - 1])
      BY <1>6, <1>8
    <2>2. f[k] \in Rising(t, i, N, D, n, k)
      BY <2>1, RiseTurn
    <2>3. QED
      BY <2>2
  <1>9. f[N] \in good[N]
    <2> HIDE DEF good
    <2>1. QED
      BY <1>7, <1>8, TurnsKeep
  <1>10. PICK r \in Turns(N, D, n) : /\ r = f[N] /\ Keeps(t, r.t, N, D, n)
                                     /\ Low(Exp(r.t), n, r.at)
                                     /\ r.at + N <= i \/ Risen(r)
    BY <1>9 DEF Rising
  <1>11. Risen(r)
    BY <1>10 DEF Turns
  <1>12. Ordered(Exp(r.t), n)
    <2>1. r.t \in Trees(N, D) /\ r.at \in 1..n
      BY DEF Turns
    <2>2. PICK e \in [1..N -> Nat] : e = Exp(r.t)
      BY <2>1, ExpIs
    <2>3. ASSUME NEW j \in 2..n PROVE e[Up(j)] <= e[j]
      <3>1. CASE j # r.at
        <4>1. Low(e, n, r.at)
          BY <1>10, <2>2
        <4>2. QED
          BY <3>1, <4>1 DEF Low
      <3>2. CASE j = r.at
        <4>1. j \in 1..N /\ Up(j) \in 1..N /\ ~Earlier(r.t, j, Up(j))
          <5>1. j \in 1..N /\ Up(j) \in 1..N /\ j # 1
            BY Above
          <5>2. QED
            BY <1>11, <3>2, <5>1 DEF Risen
        <4>2. e[j] \in Nat /\ e[Up(j)] \in Nat /\ ~(e[j] < e[Up(j)])
          BY <2>1, <2>2, <4>1, ExpIs
        <4>3. QED
          BY <4>2
      <3>3. QED
        BY <3>1, <3>2
    <2>4. QED
      BY <2>2, <2>3 DEF Ordered
  <1>13. QED
    BY <1>6, <1>10, <1>12

LEMMA ChildIs ==
  ASSUME NEW N \in Nat, NEW D, NEW t \in Trees(N, D), NEW n \in 1..N, NEW i \in 1..n,
         2 * i <= n
  PROVE  /\ Child(t, i, n) \in 2..n /\ Up(Child(t, i, n)) = i /\ Child(t, i, n) > i
         /\ \A j \in 2..n : Up(j) = i => Exp(t)[Child(t, i, n)] <= Exp(t)[j]
  <1>1. PICK c, e : c = Child(t, i, n) /\ e = Exp(t)
    OBVIOUS
  <1>2. e \in [1..N -> Nat] /\ \A j, k \in 1..N : Earlier(t, j, k) <=> e[j] < e[k]
    BY <1>1, ExpIs
  <1>3. i \in Nat /\ 2 * i \in 1..N /\ n \in Nat /\ (2 * i + 1 <= n => 2 * i + 1 \in 1..N)
    OBVIOUS
  <1>4. c = IF 2 * i + 1 <= n /\ Earlier(t, 2 * i + 1, 2 * i) THEN 2 * i + 1 ELSE 2 * i
    BY <1>1 DEF Child
  <1>5. c \in 2..n /\ c > i /\ (c = 2 * i \/ c = 2 * i + 1)
    BY <1>3, <1>4
  <1>6. Up(c) = i
    BY <1>3, <1>5, ChildUp
  <1>7. ASSUME NEW j \in 2..n, Up(j) = i PROVE e[c] <= e[j]
    <2>1. j = 2 * i \/ j = 2 * i + 1
      BY <1>7, UpIs
    <2>2. e[2 * i] \in Nat /\ (2 * i + 1 <= n => e[2 * i + 1] \in Nat)
      BY <1>2, <1>3
    <2>3. CASE 2 * i + 1 <= n
      <3>1. Earlier(t, 2 * i + 1, 2 * i) <=> e[2 * i + 1] < e[2 * i]
        BY <1>2, <1>3, <2>3
      <3>2. QED
        BY <1>4, <2>1, <2>2, <2>3, <3>1
    <2>4. CASE ~(2 * i + 1 <= n)
      <3>1. j = 2 * i
        BY <2>1, <2>4
      <3>2. QED
        BY <1>4, <2>2, <2>4, <3>1
    <2>5. QED
      BY <2>3, <2>4
  <1>8. QED
    BY <1>1, <1>5, <1>6, <1>7

Sunk(r, n) == ~(2 * r.at <= n /\ Earlier(r.t, Child(r.t, r.at, n), r.at))

\* The node at r.at has sunk from above it, and is not before its parent.
Under(r, i) == r.at > i /\ Exp(r.t)[Up(r.at)] <= Exp(r.t)[r.at]

\* The states after k turns of siftdown.
Sinking(t, i, N, D, n, k) ==
  {r \in Turns(N, D, n) : /\ Keeps(t, r.t, N, D, n) /\ Hole(Exp(r.t), n, r.at)
                          /\ (r.at = i /\ r.t = t) \/ Under(r, i)
                          /\ r.at >= i + k \/ Sunk(r, n)}

LEMMA SinkIs ==
  ASSUME NEW N \in Nat, NEW D, NEW n \in 1..N, NEW r \in Turns(N, D, n)
  PROVE  /\ Sunk(r, n) => Sink(r, n) = r
         /\ ~Sunk(r, n) => \E c \in 2..n :
              /\ c = Child(r.t, r.at, n) /\ Up(c) = r.at /\ c > r.at
              /\ Exp(r.t)[c] < Exp(r.t)[r.at]
              /\ \A j \in 2..n : Up(j) = r.at => Exp(r.t)[c] <= Exp(r.t)[j]
              /\ Sink(r, n) = [t |-> SwapNode(r.t, r.at, c), at |-> c]
  <1>1. PICK c : c = Child(r.t, r.at, n)
    OBVIOUS
  <1>2. Sink(r, n) = IF 2 * r.at <= n /\ Earlier(r.t, c, r.at)
                       THEN [t |-> SwapNode(r.t, r.at, c), at |-> c] ELSE r
    BY <1>1 DEF Sink
  <1>3. ASSUME ~Sunk(r, n)
        PROVE  /\ c \in 2..n /\ Up(c) = r.at /\ c > r.at
               /\ Exp(r.t)[c] < Exp(r.t)[r.at]
               /\ \A j \in 2..n : Up(j) = r.at => Exp(r.t)[c] <= Exp(r.t)[j]
    <2>1. r.at \in 1..n /\ r.t \in Trees(N, D) /\ 2 * r.at <= n /\ Earlier(r.t, c, r.at)
      BY <1>1, <1>3 DEF Turns, Sunk
    <2>2. /\ c \in 2..n /\ Up(c) = r.at /\ c > r.at
          /\ \A j \in 2..n : Up(j) = r.at => Exp(r.t)[c] <= Exp(r.t)[j]
      BY <1>1, <2>1, ChildIs
    <2>3. c \in 1..N /\ r.at \in 1..N
      BY <2>1, <2>2
    <2>4. QED
      BY <2>1, <2>2, <2>3, ExpIs
  <1>4. QED
    BY <1>1, <1>2, <1>3 DEF Sunk

LEMMA SinkTurn ==
  ASSUME NEW N \in Nat, NEW D, NEW n \in 1..N, NEW i \in 1..n, NEW t, NEW k \in 1..n,
         NEW r \in Sinking(t, i, N, D, n, k - 1)
  PROVE  Sink(r, n) \in Sinking(t, i, N, D, n, k)
  <1>1. /\ r \in Turns(N, D, n) /\ Keeps(t, r.t, N, D, n) /\ Hole(Exp(r.t), n, r.at)
        /\ (r.at = i /\ r.t = t) \/ Under(r, i)
        /\ r.at >= i + (k - 1) \/ Sunk(r, n)
    BY DEF Sinking
  <1>2. CASE Sunk(r, n)
    BY <1>1, <1>2, SinkIs DEF Sinking
  <1>3. CASE ~Sunk(r, n)
    <2>1. PICK c \in 2..n :
              /\ c = Child(r.t, r.at, n) /\ Up(c) = r.at /\ c > r.at
              /\ Exp(r.t)[c] < Exp(r.t)[r.at]
              /\ \A j \in 2..n : Up(j) = r.at => Exp(r.t)[c] <= Exp(r.t)[j]
              /\ Sink(r, n) = [t |-> SwapNode(r.t, r.at, c), at |-> c]
      BY <1>1, <1>3, SinkIs
    <2>2. PICK a, u : a = r.at /\ u = SwapNode(r.t, a, c)
      OBVIOUS
    <2>3. a \in 1..n /\ c \in 1..n /\ a # c /\ r.t \in Trees(N, D)
      BY <1>1, <2>1, <2>2 DEF Turns
    <2>4. Keeps(t, u, N, D, n) /\ u \in Trees(N, D) /\ Swapped(Exp(r.t), Exp(u), a, c)
      BY <1>1, <2>2, <2>3, SwapKeeps
    <2>5. PICK e, f : e = Exp(r.t) /\ f = Exp(u)
      OBVIOUS
    <2>6. e \in [1..N -> Nat] /\ f \in [1..N -> Nat]
      BY <2>3, <2>4, <2>5, ExpIs
    <2>7. /\ Up(c) = a /\ Hole(e, n, a) /\ e[c] < e[a] /\ Swapped(e, f, a, c)
          /\ \A j \in 2..n : Up(j) = a => e[c] <= e[j]
      BY <1>1, <2>1, <2>2, <2>4, <2>5
    <2>8. Hole(f, n, c) /\ f[a] <= f[c]
      <3>1. n \in 0..N
        OBVIOUS
      <3>2. QED
        BY <2>3, <2>6, <2>7, <3>1, HoleSinks
    <2>9. c >= i + k /\ c > i
      BY <1>1, <1>3, <2>1, <2>2, <2>3 DEF Under
    <2>10. Sink(r, n) = [t |-> u, at |-> c] /\ [t |-> u, at |-> c] \in Turns(N, D, n)
      BY <2>1, <2>2, <2>3, <2>4 DEF Turns
    <2>11. Under([t |-> u, at |-> c], i)
      BY <2>5, <2>7, <2>8, <2>9 DEF Under
    <2>12. QED
      BY <2>4, <2>5, <2>8, <2>9, <2>10, <2>11 DEF Sinking
  <1>4. QED
    BY <1>2, <1>3

LEMMA siftdownOrders ==
  ASSUME NEW N \in Nat, NEW D, NEW n \in 1..N, NEW i \in 1..n, NEW t, Linked(t, N, D),
         Hole(Exp(t), n, i)
  PROVE  LET d == siftdown(t, i, n) IN
         /\ d \in Turns(N, D, n) /\ Keeps(t, d.t, N, D, n)
         /\ \/ d.at > i /\ Ordered(Exp(d.t), n)
            \/ d.at = i /\ d.t = t /\ Low(Exp(t), n, i)
  <1> DEFINE S == Turns(N, D, n)
             x == [t |-> t, at |-> i]
             turn == [r \in S |-> Sink(r, n)]
             good == [k \in 0..n |-> Sinking(t, i, N, D, n, k)]
  <1>1. t \in Trees(N, D) /\ x \in S /\ x \in good[0]
    <2>1. t \in Trees(N, D)
      BY DEF Linked
    <2>2. x \in Turns(N, D, n) /\ x.t = t /\ x.at = i
      BY <2>1 DEF Turns
    <2>3. Keeps(t, t, N, D, n)
      BY DEF Keeps, Same
    <2>4. x \in Sinking(t, i, N, D, n, 0)
      BY <2>2, <2>3 DEF Sinking
    <2>5. 0 \in 0..n
      OBVIOUS
    <2>6. QED
      BY <2>1, <2>2, <2>4, <2>5
  <1>2. turn \in [S -> S]
    <2>1. SUFFICES ASSUME NEW r \in S PROVE Sink(r, n) \in S
      OBVIOUS
    <2>2. CASE Sunk(r, n)
      BY <2>2, SinkIs
    <2>3. CASE ~Sunk(r, n)
      <3>1. PICK c \in 2..n :
                 c > r.at /\ Sink(r, n) = [t |-> SwapNode(r.t, r.at, c), at |-> c]
        BY <2>3, SinkIs
      <3>2. r.at \in 1..N /\ c \in 1..N /\ c # r.at /\ r.t \in Trees(N, D) /\ c \in 1..n
        BY <3>1 DEF Turns
      <3>3. SwapNode(r.t, r.at, c) \in Trees(N, D)
        BY ONLY <3>2, N \in Nat, SwapFields
      <3>4. QED
        BY <3>1, <3>2, <3>3 DEF Turns
    <2>4. QED
      BY <2>2, <2>3
  <1>3. PICK g \in [0..n -> S] : g[0] = x /\ \A k \in 1..n : g[k] = turn[g[k - 1]]
    <2>1. PICK m \in Nat : m = n
      OBVIOUS
    <2>2. x \in S
      BY <1>1
    <2> HIDE DEF S, x, turn, good
    <2>3. \E g \in [0..m -> S] : g[0] = x /\ \A k \in 1..m : g[k] = turn[g[k - 1]]
      BY ONLY <1>2, <2>2, m \in Nat, TurnsExist, SMTT(60)
    <2>4. QED
      BY <2>1, <2>3
  <1>4. g = [k \in 0..n |-> IF k = 0 THEN x ELSE Sink(g[k - 1], n)]
    <2>1. ASSUME NEW k \in 0..n, k # 0 PROVE g[k] = Sink(g[k - 1], n)
      <3>1. k \in 1..n /\ k - 1 \in 0..n
        BY <2>1
      <3>2. g[k] = turn[g[k - 1]] /\ g[k - 1] \in S
        BY <1>3, <3>1
      <3>3. QED
        BY <3>2
    <2>2. QED
      BY <1>3, <2>1
  <1>5. PICK f : /\ f = [k \in 0..n |-> IF k = 0 THEN x ELSE Sink(f[k - 1], n)]
                 /\ siftdown(t, i, n) = f[n]
    BY <1>4 DEF siftdown
  <1>6. f[0] \in good[0]
    BY <1>1, <1>5
  <1>7. ASSUME NEW k \in 1..n, f[k - 1] \in good[k - 1] PROVE f[k] \in good[k]
    <2>1. f[k - 1] \in Sinking(t, i, N, D, n, k - 1) /\ f[k] = Sink(f[k - 1], n)
      BY <1>5, <1>7
    <2>2. f[k] \in Sinking(t, i, N, D, n, k)
      BY <2>1, SinkTurn
    <2>3. QED
      BY <2>2
  <1>8. f[n] \in good[n]
    <2>1. n \in Nat
      OBVIOUS
    <2> HIDE DEF good
    <2>2. QED
      BY <1>6, <1>7, <2>1, TurnsKeep
  <1>9. PICK r \in Turns(N, D, n) : /\ r = f[n] /\ Keeps(t, r.t, N, D, n)
                                    /\ Hole(Exp(r.t), n, r.at)
                                    /\ (r.at = i /\ r.t = t) \/ Under(r, i)
                                    /\ r.at >= i + n \/ Sunk(r, n)
    BY <1>8 DEF Sinking
  <1>10. r.at \in 1..n /\ Sunk(r, n) /\ r.t \in Trees(N, D)
    BY <1>9 DEF Turns
  <1>11. PICK a, e : a = r.at /\ e = Exp(r.t)
    OBVIOUS
  <1>12. Hole(e, n, a) /\ e \in [1..N -> Nat] /\ a \in 1..n
    BY <1>9, <1>10, <1>11, ExpIs
  <1>13. ASSUME NEW j \in 2..n, Up(j) = a PROVE e[Up(j)] <= e[j]
    <2>1. 2 * a <= n /\ j \in 1..N
      <3>1. j \in Nat /\ j >= 2 /\ j <= n /\ a \in Nat /\ j \in 1..N
        BY <1>12
      <3>2. j = 2 * a \/ j = 2 * a + 1
        BY <1>13, <3>1, UpIs
      <3>3. QED
        BY <3>1, <3>2
    <2>2. PICK c \in 1..N : c = Child(r.t, a, n) /\ e[c] <= e[j]
      <3>1. Child(r.t, a, n) \in 2..n /\ e[Child(r.t, a, n)] <= e[j]
        BY <1>10, <1>11, <1>12, <1>13, <2>1, ChildIs
      <3>2. QED
        BY <3>1
    <2>3. a \in 1..N /\ ~(e[c] < e[a]) /\ e[a] \in Nat /\ e[c] \in Nat /\ e[j] \in Nat
      <3>1. a \in 1..N /\ ~Earlier(r.t, c, a)
        BY <1>10, <1>11, <1>12, <2>1, <2>2 DEF Sunk
      <3>2. QED
        BY <1>10, <1>11, <1>12, <2>1, <2>2, <3>1, ExpIs
    <2>4. QED
      BY <1>13, <2>2, <2>3
  <1>14. CASE Under(r, i)
    <2>1. a > i /\ e[Up(a)] <= e[a]
      BY <1>11, <1>14 DEF Under
    <2>2. Ordered(e, n)
      BY <1>12, <1>13, <2>1 DEF Hole, Ordered
    <2>3. QED
      BY <1>5, <1>9, <1>11, <2>1, <2>2
  <1>15. CASE r.at = i /\ r.t = t
    <2>1. Low(e, n, i)
      BY <1>11, <1>12, <1>13, <1>15 DEF Hole, Low
    <2>2. QED
      BY <1>5, <1>9, <1>11, <1>15, <2>1
  <1>16. QED
    BY <1>9, <1>14, <1>15

LEMMA SettleOrders ==
  ASSUME NEW N \in Nat, NEW D, NEW n \in 1..N, NEW i \in 1..n, NEW t, Linked(t, N, D),
         Hole(Exp(t), n, i)
  PROVE  Keeps(t, Settle(t, i, n), N, D, n) /\ Ordered(Exp(Settle(t, i, n)), n)
  <1>1. PICK d : d = siftdown(t, i, n)
    OBVIOUS
  <1>2. /\ d \in Turns(N, D, n) /\ Keeps(t, d.t, N, D, n)
        /\ \/ d.at > i /\ Ordered(Exp(d.t), n)
           \/ d.at = i /\ d.t = t /\ Low(Exp(t), n, i)
    BY <1>1, siftdownOrders
  <1>3. Settle(t, i, n) = IF d.at > i THEN d.t ELSE siftup(d.t, i)
    BY <1>1 DEF Settle
  <1>4. CASE d.at > i /\ Ordered(Exp(d.t), n)
    BY <1>2, <1>3, <1>4
  <1>5. CASE d.at = i /\ d.t = t /\ Low(Exp(t), n, i)
    <2>1. Settle(t, i, n) = siftup(t, i)
      BY <1>3, <1>5
    <2>2. QED
      BY <1>5, <2>1, siftupOrders
  <1>6. QED
    BY <1>2, <1>4, <1>5

------------------------------------------------------------------------------
(* Removal of a node.                                                        *)

\* A heap in which one node's deadline changed is in order but around that node.
LEMMA ChangedHole ==
  ASSUME NEW N \in Nat, NEW n \in 0..N, NEW e \in [1..N -> Nat], NEW f, Ordered(e, N),
         NEW i \in 1..n, \A k \in 1..n \ {i} : f[k] = e[k]
  PROVE  Hole(f, n, i)
  <1>1. ASSUME NEW j \in 2..n, j # i, Up(j) # i PROVE f[Up(j)] <= f[j]
    <2>1. PICK q \in 1..N : q = Up(j) /\ q < j /\ j \in 1..N
      BY Above
    <2>2. e[q] <= e[j]
      BY <2>1 DEF Ordered
    <2>3. q \in 1..n \ {i} /\ j \in 1..n \ {i}
      BY <1>1, <2>1
    <2>4. QED
      BY <2>1, <2>2, <2>3
  <1>2. ASSUME NEW j \in 2..n, Up(j) = i, i > 1 PROVE f[Up(i)] <= f[j]
    <2>1. i \in 2..n /\ i < j /\ j \in 1..N
      BY <1>2, Above
    <2>2. PICK g \in 1..N : g = Up(i) /\ g < i
      BY <2>1, Above
    <2>3. e[g] <= e[i]
      BY <2>1, <2>2 DEF Ordered
    <2>4. e[i] <= e[j]
      BY <1>2 DEF Ordered
    <2>5. g \in 1..n \ {i} /\ j \in 1..n \ {i} /\ i \in 1..N
      BY <2>1, <2>2
    <2>6. f[g] = e[g] /\ f[j] = e[j]
      BY <2>5
    <2>7. e[g] \in Nat /\ e[i] \in Nat /\ e[j] \in Nat
      BY <2>1, <2>2, <2>5
    <2>8. QED
      BY <2>2, <2>3, <2>4, <2>6, <2>7
  <1>3. QED
    BY <1>1, <1>2 DEF Hole, AboveBelow

\* The top of the heap is the earliest.
LEMMA TopIsLeast ==
  ASSUME NEW N \in Nat, NEW e \in [1..N -> Nat], Ordered(e, N), NEW i \in 1..N
  PROVE  e[1] <= e[i]
  <1> DEFINE B == {k \in 1..N : ~(e[1] <= e[k])}
  <1>1. SUFFICES ASSUME B # {} PROVE FALSE
    OBVIOUS
  <1>2. PICK k \in B : \A m \in B : k <= m
    <2>1. B \in SUBSET Nat
      OBVIOUS
    <2> HIDE DEF B
    <2>2. QED
      BY <1>1, <2>1, LeastOf
  <1>3. k \in 1..N /\ ~(e[1] <= e[k]) /\ 1 \in 1..N
    BY <1>2
  <1>4. k \in 2..N
    BY <1>3
  <1>5. PICK q \in 1..N : q = Up(k) /\ q < k
    BY <1>4, Above
  <1>6. e[q] <= e[k]
    BY <1>4, <1>5 DEF Ordered
  <1>7. e[1] <= e[q]
    BY <1>2, <1>5
  <1>8. QED
    BY <1>3, <1>5, <1>6, <1>7

\* A heap without its last node.
LEMMA Cut ==
  ASSUME NEW N \in Nat \ {0}, NEW D, NEW s, Linked(s, N, D), Ordered(Exp(s), N - 1),
         NEW u, u = [heap |-> SubSeq(s.heap, 1, N - 1),
                     ref  |-> Restrict(s.ref, DOMAIN s.ref \ {s.heap[N].id})]
  PROVE  /\ Linked(u, N - 1, D \ {s.heap[N].id}) /\ Ordered(Exp(u), N - 1)
         /\ Same(s, u, D \ {s.heap[N].id})
  <1>1. s \in Trees(N, D) /\ s.heap \in [1..N -> Node] /\ s.ref \in [D -> 1..N]
    BY DEF Linked, Trees
  <1>2. PICK n \in Nat, d0 \in D : n = N - 1 /\ d0 = s.heap[N].id /\ s.ref[d0] = N
    <2>1. N \in 1..N /\ N - 1 \in Nat
      OBVIOUS
    <2>2. s.heap[N].id \in D /\ s.ref[s.heap[N].id] = N
      BY <2>1 DEF Linked
    <2>3. QED
      BY <2>1, <2>2
  <1>3. u.heap = [k \in 1..n |-> s.heap[k]]
    <2>1. s.heap \in Seq(Node) /\ Len(s.heap) = N
      BY <1>1
    <2>2. u.heap = SubSeq(s.heap, 1, n)
      BY <1>2
    <2>3. QED
      BY <1>2, <2>1, <2>2
  <1>4. u.ref = [d \in D \ {d0} |-> s.ref[d]]
    BY <1>1, <1>2 DEF Restrict
  <1>5. u.heap \in [1..n -> Node] /\ \A k \in 1..n : k \in 1..N /\ u.heap[k] = s.heap[k]
    <2>1. \A k \in 1..n : k \in 1..N
      BY <1>2
    <2>2. QED
      BY <1>1, <1>3, <2>1
  <1>6. ASSUME NEW d \in D \ {d0} PROVE u.ref[d] = s.ref[d] /\ s.ref[d] \in 1..n
    <2>1. s.ref[d] # N
      BY <1>2 DEF Linked
    <2>2. QED
      BY <1>1, <1>2, <1>4, <2>1
  <1>7. u \in Trees(n, D \ {d0})
    BY <1>3, <1>4, <1>5, <1>6 DEF Trees
  <1>8. ASSUME NEW k \in 1..n PROVE u.heap[k].id \in D \ {d0} /\ u.ref[u.heap[k].id] = k
    <2>1. k \in 1..N /\ k # N
      BY <1>2
    <2>2. s.heap[k].id \in D /\ s.ref[s.heap[k].id] = k
      BY <2>1 DEF Linked
    <2>3. s.heap[k].id # d0
      BY <1>2, <2>1, <2>2
    <2>4. QED
      BY <1>5, <1>6, <2>2, <2>3
  <1>9. ASSUME NEW d \in D \ {d0}
        PROVE  u.heap[u.ref[d]] = s.heap[s.ref[d]] /\ s.heap[s.ref[d]].id = d
    BY <1>5, <1>6 DEF Linked
  <1>10. Ordered(Exp(u), n)
    <2>1. PICK e, f : e = Exp(s) /\ f = Exp(u)
      OBVIOUS
    <2>2. \A k \in 1..n : e[k] = s.heap[k].expires /\ f[k] = u.heap[k].expires
      <3>1. n \in Nat /\ N \in Nat
        OBVIOUS
      <3>2. \A k \in 1..N : Exp(s)[k] = s.heap[k].expires
        BY ONLY <1>1, <3>1, ExpIs
      <3>3. \A k \in 1..n : Exp(u)[k] = u.heap[k].expires
        BY ONLY <1>7, <3>1, ExpIs
      <3>4. \A k \in 1..n : k \in 1..N
        BY <1>5
      <3>5. QED
        BY ONLY <2>1, <3>2, <3>3, <3>4
    <2>3. \A k \in 1..n : e[k] = f[k]
      BY <1>5, <2>2
    <2>4. ASSUME NEW j \in 2..n PROVE f[Up(j)] <= f[j]
      <3>1. j \in 1..n /\ Up(j) \in 1..n
        BY Above
      <3>2. e[Up(j)] <= e[j]
        BY <1>2, <2>1 DEF Ordered
      <3>3. QED
        BY <2>3, <3>1, <3>2
    <2>5. QED
      BY <2>1, <2>4 DEF Ordered
  <1>11. QED
    BY <1>2, <1>7, <1>8, <1>9, <1>10 DEF Linked, Same

LEMMA delOrders ==
  ASSUME NEW N \in Nat \ {0}, NEW D, NEW t, Linked(t, N, D), Ordered(Exp(t), N),
         NEW i \in 1..N
  PROVE  LET u == del(t, i)
             E == D \ {t.heap[i].id}
         IN  Linked(u, N - 1, E) /\ Ordered(Exp(u), N - 1) /\ Same(t, u, E)
  <1>1. PICK n \in Nat : n = N - 1
    OBVIOUS
  <1>2. t \in Trees(N, D) /\ Len(t.heap) = N
    BY DEF Linked, Trees
  <1>3. PICK s : s = IF i <= n THEN Settle(SwapNode(t, i, N), i, n) ELSE t
    OBVIOUS
  <1>4. del(t, i) = [heap |-> SubSeq(s.heap, 1, n),
                     ref  |-> Restrict(s.ref, DOMAIN s.ref \ {s.heap[N].id})]
    <2>1. Len(t.heap) - 1 = n /\ n + 1 = N
      BY <1>1, <1>2
    <2>2. QED
      BY <1>3, <2>1 DEF del
  <1>5. Linked(s, N, D) /\ Same(t, s, D) /\ Ordered(Exp(s), n) /\ s.heap[N] = t.heap[i]
    <2>1. CASE i <= n
      <3>1. PICK v : v = SwapNode(t, i, N)
        OBVIOUS
      <3>2. N \in 1..N /\ i # N /\ n \in 1..N /\ i \in 1..n /\ n \in 0..N
        BY <1>1, <2>1
      <3>3. Linked(v, N, D) /\ Same(t, v, D)
        BY <3>1, <3>2, SwapLinked
      <3>4. v.heap[N] = t.heap[i] /\ Swapped(Exp(t), Exp(v), i, N)
        BY <1>2, <3>1, <3>2, SwapFields
      <3>5. Hole(Exp(v), n, i)
        <4>1. PICK e, f : e = Exp(t) /\ f = Exp(v)
          OBVIOUS
        <4>2. e \in [1..N -> Nat] /\ Ordered(e, N)
          BY <1>2, <4>1, ExpIs
        <4>3. \A k \in 1..n \ {i} : f[k] = e[k]
          BY <1>1, <3>4, <4>1, <4>2 DEF Swapped
        <4>4. QED
          BY <3>2, <4>1, <4>2, <4>3, ChangedHole
      <3>6. s = Settle(v, i, n)
        BY <1>3, <2>1, <3>1
      <3>7. Keeps(v, s, N, D, n) /\ Ordered(Exp(s), n)
        BY <3>2, <3>3, <3>5, <3>6, SettleOrders
      <3>8. s.heap[N] = v.heap[N]
        <4>1. N \in (n + 1)..N
          BY <1>1
        <4>2. QED
          BY <3>7, <4>1 DEF Keeps
      <3>9. QED
        BY <3>3, <3>4, <3>7, <3>8 DEF Keeps, Same
    <2>2. CASE ~(i <= n)
      <3>1. i = N /\ s = t
        BY <1>1, <1>3, <2>2
      <3>2. Ordered(Exp(t), n)
        BY <1>1 DEF Ordered
      <3>3. QED
        BY <3>1, <3>2 DEF Same
    <2>3. QED
      BY <2>1, <2>2
  <1>6. PICK u : u = del(t, i)
    OBVIOUS
  <1>7. /\ Linked(u, n, D \ {s.heap[N].id}) /\ Ordered(Exp(u), n)
        /\ Same(s, u, D \ {s.heap[N].id})
    BY <1>1, <1>4, <1>5, <1>6, Cut
  <1>8. QED
    BY <1>1, <1>5, <1>6, <1>7 DEF Same

------------------------------------------------------------------------------
(* tick: what it fires.                                                      *)

Time(t, d) == t.heap[t.ref[d]].expires

Left(D, s) == D \ {s[j] : j \in DOMAIN s}

LEMMA TreeSeq ==
  ASSUME NEW N \in Nat, NEW D, NEW t, Linked(t, N, D)
  PROVE  t.heap \in Seq(Node) /\ Len(t.heap) = N /\ (N = 0 <=> t.heap = <<>>)
         /\ (N # 0 => Head(t.heap) = t.heap[1])
  <1>1. t.heap \in [1..N -> Node]
    BY DEF Linked, Trees
  <1>2. t.heap \in Seq(Node) /\ Len(t.heap) = N
    BY <1>1
  <1>3. QED
    BY <1>2

LEMMA TimeIs ==
  ASSUME NEW N \in Nat, NEW D, NEW t, Linked(t, N, D), NEW d \in D
  PROVE  Time(t, d) \in Nat /\ t.ref[d] \in 1..N /\ Time(t, d) = Exp(t)[t.ref[d]]
  <1>1. t \in Trees(N, D) /\ t.ref[d] \in 1..N
    BY DEF Linked, Trees
  <1>2. QED
    BY <1>1, ExpIs DEF Time

LEMMA TopTime ==
  ASSUME NEW N \in Nat \ {0}, NEW D, NEW t, Linked(t, N, D), Ordered(Exp(t), N)
  PROVE  /\ Head(t.heap) = t.heap[1] /\ t.heap[1].id \in D
         /\ Time(t, t.heap[1].id) = Head(t.heap).expires
         /\ \A d \in D : Head(t.heap).expires <= Time(t, d)
  <1>1. 1 \in 1..N /\ N \in Nat
    OBVIOUS
  <1>2. Head(t.heap) = t.heap[1]
    BY TreeSeq
  <1>3. t.heap[1].id \in D /\ t.ref[t.heap[1].id] = 1
    BY <1>1 DEF Linked
  <1>4. PICK e \in [1..N -> Nat] : e = Exp(t) /\ e[1] = t.heap[1].expires
    BY <1>1, ExpIs DEF Linked
  <1>5. ASSUME NEW d \in D PROVE e[1] <= Time(t, d)
    <2>1. t.ref[d] \in 1..N /\ Time(t, d) = e[t.ref[d]]
      BY <1>4, TimeIs
    <2>2. e[1] <= e[t.ref[d]]
      BY <1>4, <2>1, TopIsLeast
    <2>3. QED
      BY <2>1, <2>2
  <1>6. QED
    BY <1>2, <1>3, <1>4, <1>5 DEF Time

Forest(N, D) == UNION {Trees(m, E) : m \in 0..N, E \in SUBSET D}

Popped(p) == p.t.heap = <<>> \/ ~(Head(p.t.heap).expires <= now)

\* The earliest timers of t are fired, in order, and the others left.
Fires(t, s, D) ==
  /\ \A i, j \in DOMAIN s : i < j => s[i] # s[j] /\ Time(t, s[i]) <= Time(t, s[j])
  /\ \A i \in DOMAIN s : /\ Time(t, s[i]) <= now
                         /\ \A d \in Left(D, s) : Time(t, s[i]) <= Time(t, d)

\* The states after k turns of tick.
Popping(t, N, D, k) ==
  {p \in [t : Forest(N, D), fired : Seq(D)] :
     /\ Len(p.fired) <= N /\ Fires(t, p.fired, D)
     /\ Linked(p.t, N - Len(p.fired), Left(D, p.fired))
     /\ Ordered(Exp(p.t), N - Len(p.fired))
     /\ Same(t, p.t, Left(D, p.fired))
     /\ Len(p.fired) >= k \/ Popped(p)}

LEMMA PopTurn ==
  ASSUME NEW N \in Nat, NEW D, NEW t, Linked(t, N, D), now \in Nat, NEW k \in Nat \ {0},
         NEW p \in Popping(t, N, D, k - 1)
  PROVE  Pop(p) \in Popping(t, N, D, k)
  <1>1. PICK s \in Seq(D), m \in Nat, E \in SUBSET D :
             s = p.fired /\ m = N - Len(s) /\ E = Left(D, s)
    <2>1. p.fired \in Seq(D) /\ Len(p.fired) <= N
      BY DEF Popping
    <2>2. N - Len(p.fired) \in Nat /\ Left(D, p.fired) \in SUBSET D
      BY <2>1 DEF Left
    <2>3. QED
      BY <2>1, <2>2
  <1>2. /\ p \in [t : Forest(N, D), fired : Seq(D)]
        /\ Linked(p.t, m, E) /\ Ordered(Exp(p.t), m) /\ Same(t, p.t, E)
        /\ Fires(t, s, D) /\ Len(s) <= N /\ (Len(s) >= k - 1 \/ Popped(p))
    BY <1>1 DEF Popping
  <1>3. CASE Popped(p)
    <2>1. Pop(p) = p
      BY <1>3 DEF Pop, Popped
    <2>2. QED
      BY <1>1, <1>2, <1>3, <2>1 DEF Popping
  <1>4. CASE ~Popped(p)
    <2>1. p.t.heap # <<>> /\ Head(p.t.heap).expires <= now
      BY <1>4 DEF Popped
    <2>2. m \in Nat \ {0}
      BY <1>2, <2>1, TreeSeq
    <2>3. PICK a \in E : /\ a = p.t.heap[1].id /\ Head(p.t.heap).id = a
                         /\ Time(p.t, a) = Head(p.t.heap).expires
                         /\ \A d \in E : Time(p.t, a) <= Time(p.t, d)
      BY <1>2, <2>2, TopTime
    <2>4. PICK u : u = del(p.t, 1)
      OBVIOUS
    <2>5. PICK n \in Nat, F \in SUBSET E : n = m - 1 /\ F = E \ {a}
      <3>1. m - 1 \in Nat
        BY <2>2
      <3>2. E \ {a} \in SUBSET E
        OBVIOUS
      <3>3. QED
        BY <3>1, <3>2
    <2>6. Linked(u, n, F) /\ Ordered(Exp(u), n) /\ Same(p.t, u, F)
      <3>1. 1 \in 1..m
        BY <2>2
      <3>2. QED
        BY <1>2, <2>2, <2>3, <2>4, <2>5, <3>1, delOrders
    <2>7. PICK r : r = Append(s, a)
      OBVIOUS
    <2>8. Pop(p) = [t |-> u, fired |-> r]
      BY <1>1, <2>1, <2>3, <2>4, <2>7 DEF Pop
    <2>9. /\ r \in Seq(D) /\ Len(r) = Len(s) + 1 /\ DOMAIN r = 1..(Len(s) + 1)
          /\ r[Len(s) + 1] = a /\ \A i \in DOMAIN s : i \in DOMAIN r /\ r[i] = s[i]
      BY <2>7
    <2>10. Left(D, r) = F
      <3>1. {r[j] : j \in DOMAIN r} = {s[j] : j \in DOMAIN s} \cup {a}
        BY <2>9
      <3>2. QED
        BY <1>1, <2>5, <3>1 DEF Left
    <2>11. n = N - Len(r) /\ Len(r) <= N /\ Len(r) >= k
      BY <1>1, <1>2, <1>4, <2>2, <2>5, <2>9
    <2>12. \A d \in E : Time(p.t, d) = Time(t, d) /\ Time(t, d) \in Nat
      BY <1>2, TimeIs DEF Same, Time
    <2>13. Fires(t, r, D)
      <3>1. \A i \in DOMAIN s :
              Time(t, s[i]) <= now /\ \A d \in E : Time(t, s[i]) <= Time(t, d)
        BY <1>1, <1>2 DEF Fires
      <3>2. \A i \in DOMAIN s : s[i] \in D /\ s[i] # a
        BY <1>1 DEF Left
      <3>3. Time(t, a) <= now /\ \A d \in E : Time(t, a) <= Time(t, d)
        BY <2>1, <2>3, <2>12
      <3>4. ASSUME NEW i \in DOMAIN r, NEW j \in DOMAIN r, i < j
            PROVE  r[i] # r[j] /\ Time(t, r[i]) <= Time(t, r[j])
        <4>1. i \in DOMAIN s /\ r[i] = s[i]
          BY <2>9, <3>4
        <4>2. CASE j \in DOMAIN s
          BY <1>2, <2>9, <3>4, <4>1, <4>2 DEF Fires
        <4>3. CASE j \notin DOMAIN s
          <5>1. j = Len(s) + 1
            BY <2>9, <4>3
          <5>2. QED
            BY <2>9, <3>1, <3>2, <4>1, <5>1
        <4>4. QED
          BY <4>2, <4>3
      <3>5. ASSUME NEW i \in DOMAIN r
            PROVE  Time(t, r[i]) <= now /\ \A d \in F : Time(t, r[i]) <= Time(t, d)
        <4>1. CASE i \in DOMAIN s
          BY <2>5, <2>9, <3>1, <4>1
        <4>2. CASE i \notin DOMAIN s
          <5>1. i = Len(s) + 1
            BY <2>9, <4>2
          <5>2. QED
            BY <2>5, <2>9, <3>3, <5>1
        <4>3. QED
          BY <4>1, <4>2
      <3>6. QED
        BY <2>10, <3>4, <3>5 DEF Fires
    <2>14. Same(t, u, F)
      BY <1>2, <2>5, <2>6 DEF Same
    <2>15. u \in Forest(N, D)
      <3>1. n \in 0..N /\ F \in SUBSET D /\ u \in Trees(n, F)
        BY <2>6, <2>11, <2>9 DEF Linked
      <3>2. QED
        BY <3>1 DEF Forest
    <2>16. QED
      BY <2>6, <2>8, <2>9, <2>10, <2>11, <2>13, <2>14, <2>15 DEF Popping
  <1>5. QED
    BY <1>3, <1>4

------------------------------------------------------------------------------
(* The inductive invariant, and tick from the current state.                 *)

HeapInv == /\ now \in Nat /\ heap \in Seq(Node)
           /\ Linked(T, Len(heap), DOMAIN ref) /\ Ordered(Exp(T), Len(heap))

LEMMA tickFires ==
  ASSUME HeapInv
  PROVE  LET s == tick.fired
             N == Len(heap)
             D == DOMAIN ref
         IN  /\ s \in Seq(D) /\ Len(s) <= N /\ Fires(T, s, D) /\ Popped(tick)
             /\ Linked(tick.t, N - Len(s), Left(D, s))
             /\ Ordered(Exp(tick.t), N - Len(s)) /\ Same(T, tick.t, Left(D, s))
  <1>0. PICK N \in Nat : N = Len(heap)
    BY DEF HeapInv
  <1>1. PICK D, t :
         N = Len(heap) /\ D = DOMAIN ref /\ t = T
    BY <1>0
  <1>2. Linked(t, N, D) /\ Ordered(Exp(t), N) /\ now \in Nat
    BY <1>1 DEF HeapInv
  <1> DEFINE S == Popping(t, N, D, 0)
             x == [t |-> t, fired |-> <<>>]
             turn == [p \in S |-> Pop(p)]
             good == [k \in 0..N |-> Popping(t, N, D, k)]
  <1>3. x \in S /\ x \in good[0]
    <2>1. <<>> \in Seq(D) /\ Len(<<>>) = 0 /\ DOMAIN <<>> = {} /\ N - 0 = N /\ N \in 0..N
      OBVIOUS
    <2>2. Left(D, <<>>) = D /\ Fires(t, <<>>, D)
      BY <2>1 DEF Left, Fires
    <2>3. t \in Forest(N, D)
      BY <1>2, <2>1 DEF Linked, Forest
    <2>4. x \in Popping(t, N, D, 0)
      BY <1>2, <2>1, <2>2, <2>3 DEF Popping, Same
    <2>5. QED
      BY <2>4
  <1>4. turn \in [S -> S]
    <2>1. ASSUME NEW p \in S PROVE Pop(p) \in S
      <3>1. p \in Popping(t, N, D, 1 - 1) /\ 1 \in Nat \ {0}
        OBVIOUS
      <3>2. Pop(p) \in Popping(t, N, D, 1)
        BY <1>2, <3>1, PopTurn
      <3>3. QED
        BY <3>2 DEF Popping
    <2>2. QED
      BY <2>1
  <1>5. PICK g \in [0..N -> S] : g[0] = x /\ \A k \in 1..N : g[k] = turn[g[k - 1]]
    <2>1. x \in S
      BY <1>3
    <2> HIDE DEF S, x, turn, good
    <2>2. QED
      BY ONLY <1>4, <2>1, N \in Nat, TurnsExist, SMTT(60)
  <1>6. g = [k \in 0..N |-> IF k = 0 THEN x ELSE Pop(g[k - 1])]
    <2>1. ASSUME NEW k \in 0..N, k # 0 PROVE g[k] = Pop(g[k - 1])
      <3>1. k \in 1..N /\ k - 1 \in 0..N
        BY <2>1
      <3>2. g[k] = turn[g[k - 1]] /\ g[k - 1] \in S
        BY <1>5, <3>1
      <3>3. QED
        BY <3>2
    <2>2. QED
      BY <1>5, <2>1
  <1>7. PICK f : /\ f = [k \in 0..N |-> IF k = 0 THEN x ELSE Pop(f[k - 1])]
                 /\ tick = f[N]
    <2> DEFINE Pops(h) ==
          h = [k \in 0..Len(heap) |->
                 IF k = 0 THEN [t |-> T, fired |-> <<>>] ELSE Pop(h[k - 1])]
    <2>1. Pops(g)
      BY <1>1, <1>6
    <2>2. tick = (CHOOSE h : Pops(h))[Len(heap)]
      BY DEF tick
    <2>3. PICK h : Pops(h) /\ tick = h[Len(heap)]
      <3> HIDE DEF Pops
      <3>1. QED
        BY <2>1, <2>2
    <2>4. QED
      BY <1>1, <2>3
  <1>8. f[0] \in good[0]
    BY <1>3, <1>7
  <1>9. ASSUME NEW k \in 1..N, f[k - 1] \in good[k - 1] PROVE f[k] \in good[k]
    <2>1. f[k - 1] \in Popping(t, N, D, k - 1) /\ f[k] = Pop(f[k - 1]) /\ k \in Nat \ {0}
      BY <1>7, <1>9
    <2>2. f[k] \in Popping(t, N, D, k)
      BY <1>2, <2>1, PopTurn
    <2>3. QED
      BY <2>2
  <1>10. f[N] \in good[N]
    <2> HIDE DEF good
    <2>1. QED
      BY <1>8, <1>9, TurnsKeep
  <1>11. PICK p : p = tick /\ p \in Popping(t, N, D, N)
    BY <1>7, <1>10
  <1>12. PICK s \in Seq(D) :
              /\ s = p.fired /\ Len(s) <= N /\ Fires(t, s, D)
              /\ Linked(p.t, N - Len(s), Left(D, s))
              /\ Ordered(Exp(p.t), N - Len(s)) /\ Same(t, p.t, Left(D, s))
              /\ Len(s) >= N \/ Popped(p)
    BY <1>11 DEF Popping
  <1>13. Popped(p)
    <2>1. CASE Len(s) >= N
      <3>1. N - Len(s) = 0 /\ 0 \in Nat
        BY <1>12, <2>1
      <3>2. p.t.heap = <<>>
        BY <1>12, <3>1, TreeSeq
      <3>3. QED
        BY <3>2 DEF Popped
    <2>2. QED
      BY <1>12, <2>1
  <1>14. QED
    BY <1>1, <1>11, <1>12, <1>13

\* What has fired is what is due, and as much of it.
LEMMA FiredIsDue ==
  ASSUME HeapInv
  PROVE  LET Due == {i \in DOMAIN ref : Time(T, i) <= now} IN
         /\ Due = {tick.fired[j] : j \in DOMAIN tick.fired}
         /\ Cardinality(Due) = Len(tick.fired)
  <1>0. PICK N \in Nat : N = Len(heap)
    BY DEF HeapInv
  <1>1. PICK D, t, s, u :
         N = Len(heap) /\ D = DOMAIN ref /\ t = T /\ s = tick.fired /\ u = tick.t
    BY <1>0
  <1>2. /\ /\ Linked(t, N, D) /\ s \in Seq(D) /\ Len(s) <= N /\ Fires(t, s, D)
        /\ Popped(tick)
        /\ Linked(u, N - Len(s), Left(D, s)) /\ Ordered(Exp(u), N - Len(s))
        /\ Same(t, u, Left(D, s)) /\ now \in Nat
    BY <1>1, tickFires DEF HeapInv
  <1> DEFINE Due == {i \in D : Time(t, i) <= now}
             Fired == {s[j] : j \in DOMAIN s}
  <1>3. Fired \subseteq Due
    BY <1>2 DEF Fires
  <1>4. ASSUME NEW d \in Left(D, s) PROVE ~(Time(t, d) <= now)
    <2>1. PICK m \in Nat : m = N - Len(s)
      BY <1>2
    <2>2. d \in D /\ Time(u, d) = Time(t, d) /\ u.ref[d] \in 1..m /\ Time(t, d) \in Nat
      <3>1. d \in D
        BY DEF Left
      <3>2. Time(u, d) = Time(t, d)
        BY <1>2 DEF Same, Time
      <3>3. QED
        BY <1>2, <2>1, <3>1, <3>2, TimeIs
    <2>3. m \in Nat \ {0}
      BY <2>1, <2>2
    <2>4. u.heap # <<>> /\ Head(u.heap).expires <= Time(u, d)
      BY <1>2, <2>1, <2>3, TreeSeq, TopTime
    <2>5. ~(Head(u.heap).expires <= now)
      BY <1>1, <1>2, <2>4 DEF Popped
    <2>6. Head(u.heap).expires \in Nat
      BY <1>2, <2>1, <2>3, TopTime, TimeIs
    <2>7. QED
      BY <1>2, <2>2, <2>4, <2>5, <2>6
  <1>5. Due = Fired
    BY <1>3, <1>4 DEF Left
  <1>6. Cardinality(Fired) = Len(s)
    <2>1. Len(s) \in Nat /\ DOMAIN s = 1..Len(s)
      BY <1>2
    <2>2. IsFiniteSet(1..Len(s)) /\ Cardinality(1..Len(s)) = Len(s)
      <3>1. \A n \in Nat : IsFiniteSet(1..n) /\ Cardinality(1..n) = n
        BY FS_Interval
      <3>2. QED
        BY <2>1, <3>1
    <2>3. \A i, j \in 1..Len(s) : i # j => s[i] # s[j]
      BY <1>2, <2>1 DEF Fires
    <2>4. s \in Bijection(1..Len(s), Fired)
      BY <1>2, <2>1, <2>3 DEF Bijection, Injection, Surjection, IsInjective
    <2>5. QED
      BY <2>2, <2>4, FS_Bijection DEF ExistsBijection
  <1>7. QED
    BY <1>1, <1>5, <1>6

------------------------------------------------------------------------------
(* add, and the deadline of a timer that is moved.                           *)

\* What a heap becomes by an operation.
LEMMA Becoming ==
  ASSUME NEW N \in Nat, NEW D, NEW u, Linked(u, N, D), Ordered(Exp(u), N), Becomes(u),
         now' \in Nat
  PROVE  HeapInv' /\ DOMAIN ref' = D /\ T' = u /\ Len(heap') = N
  <1>1. u \in Trees(N, D) /\ u.heap \in Seq(Node) /\ Len(u.heap) = N
    BY TreeSeq DEF Linked
  <1>2. heap' = u.heap /\ ref' = u.ref
    BY DEF Becomes
  <1>3. u = [heap |-> u.heap, ref |-> u.ref] /\ DOMAIN u.ref = D
    BY <1>1 DEF Trees
  <1>4. T' = u
    BY <1>2, <1>3 DEF T
  <1>5. QED
    BY <1>1, <1>2, <1>3, <1>4 DEF HeapInv

\* A deadline that is moved.
LEMMA SetExpiresOrders ==
  ASSUME HeapInv, NEW id \in DOMAIN ref, NEW d \in Timeouts
  PROVE  LET u == SetExpires(id, d) IN
         /\ Linked(u, Len(heap), DOMAIN ref) /\ Ordered(Exp(u), Len(heap))
         /\ \A j \in DOMAIN ref : Time(u, j) = IF j = id THEN now + d ELSE Time(T, j)
  <1>0. PICK N \in Nat : N = Len(heap)
    BY DEF HeapInv
  <1>1. PICK D, t, i, x :
         N = Len(heap) /\ D = DOMAIN ref /\ t = T /\ i = ref[id] /\ x = now + d
    BY <1>0
  <1>2. Linked(t, N, D) /\ Ordered(Exp(t), N) /\ x \in Nat /\ id \in D
    BY <1>1, TimesAssumption DEF HeapInv
  <1>3. t \in Trees(N, D) /\ t.ref = ref /\ t.heap = heap
    BY <1>1, <1>2 DEF Linked, T
  <1>4. i \in 1..N /\ t.heap[i].id = id /\ t.ref[id] = i
    BY <1>1, <1>2, <1>3 DEF Linked, Trees
  <1>5. PICK v : v = [t EXCEPT !.heap[i].expires = x]
    OBVIOUS
  <1>6. /\ v.ref = t.ref
        /\ v.heap = [t.heap EXCEPT ![i] = [t.heap[i] EXCEPT !.expires = x]]
        /\ v = [heap |-> v.heap, ref |-> v.ref]
    BY <1>3, <1>5 DEF Trees
  <1>7. t.heap \in [1..N -> Node] /\ t.heap[i] \in Node
    BY <1>3, <1>4 DEF Trees
  <1>8. PICK nd \in Node :
             nd = [t.heap[i] EXCEPT !.expires = x] /\ nd.id = t.heap[i].id /\ nd.expires = x
    <2>1. PICK b \in Node : b = t.heap[i]
      BY <1>7
    <2>2. [b EXCEPT !.expires = x] = [id |-> b.id, expires |-> x] /\ b.id \in Ids
      BY DEF Node
    <2>3. [id |-> b.id, expires |-> x] \in Node
      BY <1>2, <2>2 DEF Node
    <2>4. QED
      BY <2>1, <2>2, <2>3
  <1>9. /\ v.heap \in [1..N -> Node] /\ v.heap[i] = nd
        /\ \A k \in 1..N \ {i} : v.heap[k] = t.heap[k]
    BY <1>4, <1>6, <1>7, <1>8
  <1>10. v \in Trees(N, D)
    BY <1>3, <1>6, <1>9 DEF Trees
  <1>11. \A k \in 1..N : v.heap[k].id = t.heap[k].id
    BY <1>8, <1>9
  <1>12. Linked(v, N, D)
    BY <1>2, <1>3, <1>6, <1>10, <1>11 DEF Linked, Trees
  <1>13. Hole(Exp(v), N, i)
    <2>1. PICK e, f : e = Exp(t) /\ f = Exp(v)
      OBVIOUS
    <2>2. e \in [1..N -> Nat] /\ f \in [1..N -> Nat] /\ N \in 0..N
      BY <1>3, <1>10, <2>1, ExpIs
    <2>3. \A k \in 1..N \ {i} : f[k] = e[k]
      BY <1>3, <1>9, <1>10, <2>1, ExpIs
    <2>4. QED
      BY <1>2, <1>4, <2>1, <2>2, <2>3, ChangedHole
  <1>14. PICK u : u = Settle(v, i, N)
    OBVIOUS
  <1>15. SetExpires(id, d) = u
    BY <1>1, <1>5, <1>14 DEF SetExpires
  <1>16. N \in 1..N
    BY <1>4
  <1>17. Linked(u, N, D) /\ Same(v, u, D) /\ Ordered(Exp(u), N)
    BY <1>4, <1>12, <1>13, <1>14, <1>16, SettleOrders DEF Keeps
  <1>18. ASSUME NEW j \in D PROVE Time(u, j) = IF j = id THEN x ELSE Time(t, j)
    <2>1. Time(u, j) = v.heap[t.ref[j]].expires
      BY <1>6, <1>17 DEF Same, Time
    <2>2. CASE j = id
      BY <1>4, <1>8, <1>9, <2>1, <2>2
    <2>3. CASE j # id
      <3>1. t.ref[j] \in 1..N \ {i}
        BY <1>2, <1>3, <1>4, <2>3 DEF Linked, Trees
      <3>2. QED
        BY <1>9, <2>1, <2>3, <3>1 DEF Time
    <2>4. QED
      BY <2>2, <2>3
  <1>19. QED
    BY <1>1, <1>15, <1>17, <1>18

\* A new node at the end.
Pushed(id, d) ==
  siftup([heap |-> Append(heap, [id |-> id, expires |-> now + d]),
          ref  |-> [j \in DOMAIN ref \cup {id} |-> IF j = id THEN Len(heap) + 1 ELSE ref[j]]],
         Len(heap) + 1)

LEMMA AppendOrders ==
  ASSUME HeapInv, NEW id \in Ids \ DOMAIN ref, NEW d \in Timeouts
  PROVE  LET u == Pushed(id, d)
             E == DOMAIN ref \cup {id}
         IN  /\ Linked(u, Len(heap) + 1, E) /\ Ordered(Exp(u), Len(heap) + 1)
             /\ \A j \in E : Time(u, j) = IF j = id THEN now + d ELSE Time(T, j)
  <1>n. PICK N \in Nat, n \in Nat : N = Len(heap) /\ n = N + 1
    <2>1. Len(heap) \in Nat /\ Len(heap) + 1 \in Nat
      BY DEF HeapInv
    <2>2. QED
      BY <2>1
  <1>d. PICK D, t, nd, E :
             D = DOMAIN ref /\ t = T /\ nd = [id |-> id, expires |-> now + d] /\ E = D \cup {id}
    OBVIOUS
  <1>1. /\ N = Len(heap) /\ D = DOMAIN ref /\ t = T
        /\ nd = [id |-> id, expires |-> now + d]
        /\ n = N + 1 /\ E = D \cup {id}
    BY <1>n, <1>d
  <1>2. Linked(t, N, D) /\ Ordered(Exp(t), N) /\ nd \in Node /\ id \notin D
    BY <1>1, TimesAssumption DEF HeapInv, Node
  <1>3. t \in Trees(N, D) /\ t.ref = ref /\ t.heap = heap /\ heap \in Seq(Node)
    BY <1>1, <1>2 DEF Linked, T, HeapInv
  <1>4. t.heap \in [1..N -> Node] /\ t.ref \in [D -> 1..N]
    BY <1>3 DEF Trees
  <1>5. PICK v : v = [heap |-> Append(heap, nd),
                      ref  |-> [j \in E |-> IF j = id THEN n ELSE ref[j]]]
    OBVIOUS
  <1>6. /\ v.heap \in Seq(Node) /\ Len(v.heap) = n
        /\ v.heap[n] = nd /\ \A k \in 1..N : v.heap[k] = t.heap[k]
    BY <1>1, <1>2, <1>3, <1>5
  <1>7. v.heap \in [1..n -> Node]
    BY <1>6
  <1>8. /\ v.ref \in [E -> 1..n] /\ v.ref[id] = n
        /\ \A j \in D : v.ref[j] = t.ref[j] /\ t.ref[j] \in 1..N
    BY <1>1, <1>2, <1>3, <1>4, <1>5
  <1>9. v \in Trees(n, E)
    BY <1>5, <1>7, <1>8 DEF Trees
  <1>10. ASSUME NEW k \in 1..n PROVE v.heap[k].id \in E /\ v.ref[v.heap[k].id] = k
    <2>1. CASE k = n
      BY <1>1, <1>6, <1>8, <2>1
    <2>2. CASE k # n
      <3>1. k \in 1..N
        BY <1>1, <2>2
      <3>2. t.heap[k].id \in D /\ t.ref[t.heap[k].id] = k
        BY <1>2, <3>1 DEF Linked
      <3>3. QED
        BY <1>1, <1>6, <1>8, <3>1, <3>2
    <2>3. QED
      BY <2>1, <2>2
  <1>11. ASSUME NEW j \in E
         PROVE  /\ v.heap[v.ref[j]].id = j
                /\ Time(v, j) = IF j = id THEN now + d ELSE Time(t, j)
    <2>1. CASE j = id
      BY <1>1, <1>6, <1>8, <2>1 DEF Time
    <2>2. CASE j # id
      <3>1. j \in D /\ v.ref[j] = t.ref[j] /\ t.ref[j] \in 1..N
        BY <1>1, <1>8, <2>2
      <3>2. v.heap[v.ref[j]] = t.heap[t.ref[j]]
        BY <1>6, <3>1
      <3>3. QED
        BY <1>2, <2>2, <3>1, <3>2 DEF Linked, Time
    <2>3. QED
      BY <2>1, <2>2
  <1>12. Linked(v, n, E)
    BY <1>9, <1>10, <1>11 DEF Linked
  <1>13. Low(Exp(v), n, n)
    <2>1. PICK e, f : e = Exp(t) /\ f = Exp(v)
      OBVIOUS
    <2>2. \A k \in 1..N : f[k] = e[k]
      <3>1. \A k \in 1..N :
              k \in 1..n /\ e[k] = t.heap[k].expires /\ v.heap[k] = t.heap[k]
        BY <1>1, <1>3, <1>6, <2>1, ExpIs
      <3>2. \A k \in 1..n : f[k] = v.heap[k].expires
        BY <1>9, <2>1, ExpIs
      <3>3. QED
        BY <3>1, <3>2
    <2>3. ASSUME NEW j \in 2..n PROVE Up(j) # n /\ (j # n => f[Up(j)] <= f[j])
      <3>1. n \in 0..n
        OBVIOUS
      <3>2. Up(j) \in 1..n /\ Up(j) < j
        BY <3>1, Above
      <3>3. ASSUME j # n PROVE f[Up(j)] <= f[j]
        <4>1. j \in 2..N /\ j \in 1..N /\ Up(j) \in 1..N
          BY <1>1, <3>2, <3>3
        <4>2. e[Up(j)] <= e[j]
          BY <1>2, <2>1, <4>1 DEF Ordered
        <4>3. QED
          BY <2>2, <4>1, <4>2
      <3>4. QED
        BY <3>2, <3>3
    <2>4. QED
      BY <2>1, <2>3 DEF Low, AboveBelow
  <1>14. n \in 1..n
    BY <1>1
  <1>15. PICK u : u = siftup(v, n)
    OBVIOUS
  <1>16. Linked(u, n, E) /\ Same(v, u, E) /\ Ordered(Exp(u), n)
    BY <1>12, <1>13, <1>14, <1>15, siftupOrders DEF Keeps
  <1>17. Pushed(id, d) = u
    BY <1>1, <1>5, <1>15 DEF Pushed
  <1>18. \A j \in E : Time(u, j) = IF j = id THEN now + d ELSE Time(t, j)
    BY <1>11, <1>16 DEF Same, Time
  <1>19. QED
    BY <1>1, <1>16, <1>17, <1>18

------------------------------------------------------------------------------
(* The steps, and that each is a step of Timers.                             *)

LEMMA InitHeap == InitTimer => HeapInv /\ Promise!Init
  <1> SUFFICES ASSUME InitTimer PROVE HeapInv /\ Promise!Init
    OBVIOUS
  <1>1. /\ heap = <<>> /\ ref = [i \in {} |-> 0] /\ now = 0 /\ fired = <<>> /\ sleep = -1
    BY DEF InitTimer
  <1>2. /\ /\ heap \in Seq(Node) /\ heap \in [1..0 -> Node] /\ Len(heap) = 0
        /\ DOMAIN ref = {}
        /\ ref \in [{} -> 1..0]
    BY <1>1
  <1>3. Linked(T, 0, {})
    BY <1>2 DEF Linked, Trees, T
  <1>4. Ordered(Exp(T), 0)
    BY DEF Ordered
  <1>5. Promise!Init
    BY <1>1 DEF Promise!Init, deadlines
  <1>6. QED
    BY <1>1, <1>2, <1>3, <1>4, <1>5 DEF HeapInv

\* All names are identifiers.
LEMMA Names ==
  HeapInv => \A d \in DOMAIN ref : d \in Ids /\ ref[d] \in 1..Len(heap) /\ heap[ref[d]].id = d
  BY DEF HeapInv, Linked, Trees, Node, T

LEMMA MovedTimer ==
  ASSUME NEW id \in Ids, NEW d \in Timeouts, NEW E, E = DOMAIN ref \cup {id},
         DOMAIN ref' = E,
         \A j \in E : Time(T', j) = IF j = id THEN now + d ELSE Time(T, j),
         fired' = <<>>, UNCHANGED <<now, sleep>>
  PROVE  Promise!Next
  <1>1. \A j \in E : heap'[ref'[j]].expires = IF j = id THEN now + d ELSE heap[ref[j]].expires
    BY DEF Time, T
  <1>2. deadlines' = [j \in E |-> heap'[ref'[j]].expires]
    BY DEF deadlines
  <1>3. /\ DOMAIN deadlines = DOMAIN ref
        /\ \A j \in DOMAIN ref : deadlines[j] = heap[ref[j]].expires
    BY DEF deadlines
  <1>4. deadlines' =
          [j \in DOMAIN deadlines \cup {id} |-> IF j = id THEN now + d ELSE deadlines[j]]
    BY <1>1, <1>2, <1>3
  <1>5. Promise!Set(id)
    BY <1>4 DEF Promise!Set
  <1>6. QED
    BY <1>5 DEF Promise!Next

\* Timers that are gone leave the others as they were.
LEMMA GoneTimers ==
  ASSUME NEW G, DOMAIN ref' = DOMAIN ref \ G,
         \A j \in DOMAIN ref \ G : heap'[ref'[j]].expires = heap[ref[j]].expires
  PROVE  deadlines' = Promise!Without(G)
  <1>1. deadlines' = [j \in DOMAIN ref \ G |-> heap[ref[j]].expires]
    BY DEF deadlines
  <1>2. /\ DOMAIN deadlines = DOMAIN ref
        /\ \A j \in DOMAIN ref : deadlines[j] = heap[ref[j]].expires
    BY DEF deadlines
  <1>3. deadlines' = [j \in DOMAIN deadlines \ G |-> deadlines[j]]
    BY <1>1, <1>2
  <1>4. QED
    BY <1>3 DEF Promise!Without

LEMMA SetStep ==
  ASSUME HeapInv, NEW id \in DOMAIN ref, NEW d \in Timeouts, Becomes(SetExpires(id, d)),
         fired' = <<>>, UNCHANGED <<now, sleep>>
  PROVE  HeapInv' /\ Promise!Next
  <1>n. PICK N \in Nat : N = Len(heap)
    BY DEF HeapInv
  <1>u. PICK u, D : u = SetExpires(id, d) /\ D = DOMAIN ref
    OBVIOUS
  <1>1. u = SetExpires(id, d) /\ N = Len(heap) /\ D = DOMAIN ref
    BY <1>n, <1>u
  <1>2. /\ Linked(u, N, D) /\ Ordered(Exp(u), N) /\ Becomes(u)
        /\ \A j \in D : Time(u, j) = IF j = id THEN now + d ELSE Time(T, j)
    BY <1>1, SetExpiresOrders
  <1>3. now' \in Nat
    BY DEF HeapInv
  <1>4. HeapInv' /\ DOMAIN ref' = D /\ T' = u
    BY <1>2, <1>3, Becoming
  <1>5. id \in Ids /\ D = DOMAIN ref \cup {id}
    BY <1>1, Names
  <1>6. \A j \in D : Time(T', j) = IF j = id THEN now + d ELSE Time(T, j)
    BY <1>2, <1>4
  <1>7. Promise!Next
    BY <1>4, <1>5, <1>6, MovedTimer
  <1>8. QED
    BY <1>4, <1>7

LEMMA AddStep ==
  ASSUME HeapInv, NEW id \in Ids, NEW d \in Timeouts, add(id, d)
  PROVE  HeapInv' /\ Promise!Next
  <1>1. fired' = <<>> /\ UNCHANGED <<now, sleep>>
    BY DEF add
  <1>2. CASE id \in DOMAIN ref
    <2>1. Becomes(SetExpires(id, d))
      BY <1>2 DEF add
    <2>2. QED
      BY <1>1, <1>2, <2>1, SetStep
  <1>3. CASE id \notin DOMAIN ref
    <2>n. PICK n \in Nat : n = Len(heap) + 1
      BY DEF HeapInv
    <2>u. PICK u, E : u = Pushed(id, d) /\ E = DOMAIN ref \cup {id}
      OBVIOUS
    <2>1. u = Pushed(id, d) /\ n = Len(heap) + 1 /\ E = DOMAIN ref \cup {id}
      BY <2>n, <2>u
    <2>2. Becomes(u)
      BY <1>3, <2>1 DEF add, Pushed
    <2>3. /\ Linked(u, n, E) /\ Ordered(Exp(u), n)
          /\ \A j \in E : Time(u, j) = IF j = id THEN now + d ELSE Time(T, j)
      BY <1>3, <2>1, AppendOrders
    <2>4. now' \in Nat
      BY <1>1 DEF HeapInv
    <2>5. HeapInv' /\ DOMAIN ref' = E /\ T' = u
      BY <2>2, <2>3, <2>4, Becoming
    <2>6. \A j \in E : Time(T', j) = IF j = id THEN now + d ELSE Time(T, j)
      BY <2>3, <2>5
    <2>7. Promise!Next
      BY <1>1, <2>1, <2>5, <2>6, MovedTimer
    <2>8. QED
      BY <2>5, <2>7
  <1>4. QED
    BY <1>2, <1>3

LEMMA doWorkStep ==
  ASSUME HeapInv, NEW id \in Ids, doWork(id)
  PROVE  HeapInv' /\ Promise!Next
  <1>1. /\ id \in DOMAIN ref /\ Becomes(del(T, ref[id])) /\ fired' = <<id>>
        /\ UNCHANGED <<now, sleep>>
    BY DEF doWork
  <1>0. PICK N \in Nat : N = Len(heap)
    BY DEF HeapInv
  <1>2. PICK D, t, i :
         N = Len(heap) /\ D = DOMAIN ref /\ t = T /\ i = ref[id]
    BY <1>0
  <1>3. Linked(t, N, D) /\ Ordered(Exp(t), N) /\ now' \in Nat
    BY <1>1, <1>2 DEF HeapInv
  <1>4. i \in 1..N /\ t.heap[i].id = id /\ N \in Nat \ {0}
    BY <1>1, <1>2, Names DEF T
  <1>n. PICK n \in Nat : n = N - 1
    BY <1>4
  <1>5. PICK u, E : u = del(t, i) /\ E = D \ {id}
    OBVIOUS
  <1>6. Linked(u, n, E) /\ Ordered(Exp(u), n) /\ Same(t, u, E)
    BY <1>3, <1>4, <1>5, <1>n, delOrders
  <1>7. HeapInv' /\ DOMAIN ref' = E /\ T' = u
    BY <1>1, <1>2, <1>3, <1>5, <1>6, Becoming
  <1>8. \A j \in DOMAIN ref \ {id} : heap'[ref'[j]].expires = heap[ref[j]].expires
    BY <1>2, <1>5, <1>6, <1>7 DEF Same, T
  <1>9. deadlines' = Promise!Without({id})
    BY <1>2, <1>5, <1>7, <1>8, GoneTimers
  <1>10. Promise!Fire(id)
    BY <1>1, <1>9 DEF Promise!Fire, deadlines
  <1>11. QED
    BY <1>7, <1>10 DEF Promise!Next

LEMMA clearStep ==
  ASSUME HeapInv, clear
  PROVE  HeapInv' /\ Promise!Next
  <1>1. /\ heap' = <<>> /\ ref' = Restrict(ref, {}) /\ fired' = <<>>
        /\ UNCHANGED <<now, sleep>>
    BY DEF clear
  <1>2. /\ heap' \in Seq(Node) /\ heap' \in [1..0 -> Node] /\ Len(heap') = 0
        /\ DOMAIN ref' = {} /\ ref' \in [{} -> 1..0]
    BY <1>1 DEF Restrict
  <1>3. Linked(T', 0, {})
    BY <1>2 DEF Linked, Trees, T
  <1>4. Ordered(Exp(T'), 0)
    BY DEF Ordered
  <1>5. HeapInv'
    BY <1>1, <1>2, <1>3, <1>4 DEF HeapInv
  <1>6. DOMAIN ref \ Ids = {}
    BY Names
  <1>7. deadlines' = Promise!Without(Ids)
    BY <1>2, <1>6, GoneTimers
  <1>8. Promise!Clear
    BY <1>1, <1>7 DEF Promise!Clear
  <1>9. QED
    BY <1>5, <1>8 DEF Promise!Next

LEMMA GetNextTickStep ==
  ASSUME HeapInv, GetNextTick
  PROVE  HeapInv' /\ Promise!Next
  <1>1. /\ Becomes(tick.t) /\ fired' = tick.fired /\ now' \in now..MaxTime
        /\ sleep' = IF heap' = <<>> THEN -1
                    ELSE IF Head(heap').expires < now' THEN 0 ELSE Head(heap').expires - now'
    BY DEF GetNextTick
  <1>0. PICK N \in Nat : N = Len(heap)
    BY DEF HeapInv
  <1>2. PICK D, t, s, u :
         N = Len(heap) /\ D = DOMAIN ref /\ t = T /\ s = tick.fired /\ u = tick.t
    BY <1>0
  <1>3. /\ s \in Seq(D) /\ Len(s) <= N /\ Fires(t, s, D)
        /\ Linked(u, N - Len(s), Left(D, s)) /\ Ordered(Exp(u), N - Len(s))
        /\ Same(t, u, Left(D, s)) /\ Linked(t, N, D) /\ now \in Nat /\ now' \in Nat
    BY <1>1, <1>2, tickFires, TimesAssumption DEF HeapInv
  <1>4. PICK n \in Nat, E \in SUBSET D : n = N - Len(s) /\ E = Left(D, s)
    <2>1. N - Len(s) \in Nat /\ Left(D, s) \in SUBSET D
      BY <1>3 DEF Left
    <2>2. QED
      BY <2>1
  <1>5. HeapInv' /\ DOMAIN ref' = E /\ T' = u
    BY <1>1, <1>2, <1>3, <1>4, Becoming
  <1>6. DOMAIN deadlines = D /\ \A j \in D : deadlines[j] = Time(t, j)
    BY <1>2 DEF deadlines, Time, T
  <1>7. PICK X : X = {i \in D : Time(t, i) <= now}
    OBVIOUS
  <1>8. Promise!Due = X
    BY <1>6, <1>7 DEF Promise!Due
  <1>9. X = {s[j] : j \in DOMAIN s} /\ Cardinality(X) = Len(s)
    BY <1>2, <1>7, FiredIsDue
  <1>10. E = D \ X
    BY <1>4, <1>9 DEF Left
  <1>11. deadlines' = Promise!Without(X)
    <2>1. \A j \in E : heap'[ref'[j]].expires = heap[ref[j]].expires
      BY <1>2, <1>3, <1>4, <1>5 DEF Same, T
    <2>2. QED
      BY <1>2, <1>5, <1>10, <2>1, GoneTimers
  <1>12. s \in [1..Promise!Cardinality(X) -> X]
    <2>1. s \in [1..Len(s) -> X]
      BY <1>3, <1>9
    <2>2. Promise!Cardinality(X) = Cardinality(X)
      BY DEF Promise!Cardinality, Cardinality
    <2>3. QED
      BY <1>9, <2>1, <2>2
  <1>13. ASSUME NEW i \in DOMAIN s, NEW j \in DOMAIN s, i < j
         PROVE  s[i] # s[j] /\ deadlines[s[i]] <= deadlines[s[j]]
    BY <1>3, <1>6, <1>13 DEF Fires
  <1>14. CASE heap' = <<>>
    <2>1. n = 0
      BY <1>3, <1>4, <1>5, <1>14, TreeSeq DEF T
    <2>2. E = {}
      BY <1>3, <1>4, <2>1 DEF Linked, Trees
    <2>3. DOMAIN deadlines' = {} /\ sleep' = -1
      BY <1>1, <1>5, <1>14, <2>2 DEF deadlines
    <2>4. Promise!Tick
      BY <1>1, <1>2, <1>8, <1>11, <1>12, <1>13, <2>3 DEF Promise!Tick
    <2>5. QED
      BY <1>5, <2>4 DEF Promise!Next
  <1>15. CASE heap' # <<>>
    <2>1. n \in Nat \ {0} /\ heap' = u.heap
      BY <1>3, <1>4, <1>5, <1>15, TreeSeq DEF T
    <2>2. PICK a \in E : /\ Time(u, a) = Head(heap').expires
                         /\ \A d \in E : Time(u, a) <= Time(u, d)
      BY <1>3, <1>4, <2>1, TopTime
    <2>3. DOMAIN deadlines' = E /\ \A j \in E : deadlines[j] = Time(u, j)
      BY <1>3, <1>4, <1>5, <1>6 DEF deadlines, Same, Time
    <2>4. /\ /\ a \in DOMAIN deadlines'
          /\ \A j \in DOMAIN deadlines' : deadlines[a] <= deadlines[j]
          /\ sleep' = IF deadlines[a] < now' THEN 0 ELSE deadlines[a] - now'
      BY <1>1, <1>15, <2>2, <2>3
    <2>5. Promise!Tick
      BY <1>1, <1>2, <1>8, <1>11, <1>12, <1>13, <2>4 DEF Promise!Tick
    <2>6. QED
      BY <1>5, <2>5 DEF Promise!Next
  <1>16. QED
    BY <1>14, <1>15

LEMMA NextHeap ==
  HeapInv /\ [NextTimer]_timerVars => HeapInv' /\ [Promise!Next]_(Promise!vars)
  <1> SUFFICES ASSUME HeapInv, [NextTimer]_timerVars
               PROVE  HeapInv' /\ [Promise!Next]_(Promise!vars)
    OBVIOUS
  <1>1. ASSUME NEW id \in Ids, NEW d \in Timeouts, add(id, d)
        PROVE  HeapInv' /\ Promise!Next
    BY <1>1, AddStep
  <1>2. ASSUME NEW id \in Ids, NEW d \in Timeouts, adjust(id, d)
        PROVE  HeapInv' /\ Promise!Next
    BY <1>2, SetStep DEF adjust
  <1>3. ASSUME NEW id \in Ids, doWork(id) PROVE HeapInv' /\ Promise!Next
    BY <1>3, doWorkStep
  <1>4. CASE GetNextTick
    BY <1>4, GetNextTickStep
  <1>5. CASE clear
    BY <1>5, clearStep
  <1>6. CASE UNCHANGED timerVars
    <2>1. heap' = heap /\ ref' = ref /\ now' = now /\ fired' = fired /\ sleep' = sleep
      BY <1>6 DEF timerVars
    <2>2. HeapInv'
      BY <2>1 DEF HeapInv, T
    <2>3. UNCHANGED Promise!vars
      BY <2>1 DEF Promise!vars, deadlines
    <2>4. QED
      BY <2>2, <2>3
  <1>7. QED
    BY <1>1, <1>2, <1>3, <1>4, <1>5, <1>6 DEF NextTimer

\* After every call of add, adjust, doWork, tick, GetNextTick and clear, ref_ is
\* the index of heap_ (each identifier names the node that holds it, and each
\* node is named) and no node is before its parent: SwapNode_ keeps the two
\* vectors together through siftup_, siftdown_ and del_.
THEOREM HeapStaysIndexed == SpecTimer => []HeapIndexed
  <1>1. HeapInv => HeapIndexed
    <2> SUFFICES ASSUME HeapInv PROVE HeapIndexed
      OBVIOUS
    <2>0. PICK N \in Nat : N = Len(heap)
      BY DEF HeapInv
    <2>1. PICK t, D :
           N = Len(heap) /\ t = T /\ D = DOMAIN ref
      BY <2>0
    <2>2. /\ /\ Linked(t, N, D) /\ Ordered(Exp(t), N) /\ t \in Trees(N, D)
          /\ DOMAIN heap = 1..N
          /\ t.heap = heap /\ t.ref = ref
      BY <2>1 DEF HeapInv, Linked, T
    <2>3. DOMAIN ref = {heap[i].id : i \in DOMAIN heap}
      <3>1. \A d \in D : ref[d] \in DOMAIN heap /\ heap[ref[d]].id = d
        BY <2>1, <2>2 DEF Linked, Trees
      <3>2. \A i \in DOMAIN heap : heap[i].id \in D
        BY <2>1, <2>2 DEF Linked
      <3>3. QED
        BY <2>1, <3>1, <3>2
    <2>4. \A i \in DOMAIN heap : ref[heap[i].id] = i
      BY <2>2 DEF Linked
    <2>5. ASSUME NEW i \in DOMAIN heap, i > 1 PROVE ~Earlier(T, i, i \div 2)
      <3>1. i \in 2..N /\ N \in 0..N
        BY <2>2, <2>5
      <3>2. i \in 1..N /\ Up(i) \in 1..N
        BY <3>1, Above
      <3>3. PICK e \in [1..N -> Nat] :
                 e = Exp(t) /\ (Earlier(t, i, Up(i)) <=> e[i] < e[Up(i)])
        BY <2>2, <3>2, ExpIs
      <3>4. e[Up(i)] <= e[i]
        BY <2>2, <3>1, <3>3 DEF Ordered
      <3>5. ~Earlier(t, i, Up(i))
        BY <3>2, <3>3, <3>4
      <3>6. QED
        BY <2>1, <3>5 DEF Up
    <2>6. QED
      BY <2>3, <2>4, <2>5 DEF HeapIndexed
  <1>2. QED
    BY <1>1, InitHeap, NextHeap, PTL DEF SpecTimer

\* The heap implements the set of timers of Timers: each identifier keeps the
\* deadline last given to it, a tick calls the callbacks of the expired timers
\* only, of all of them and in the order of their deadlines, and GetNextTick
\* answers the time left until the earliest one.
THEOREM HeapTimerIsTimers == SpecTimer => ImplementsTimers
  BY InitHeap, NextHeap, PTL DEF SpecTimer, ImplementsTimers, Promise!Spec
================================================================================
