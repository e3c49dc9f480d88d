-------------------------------- MODULE Buffer --------------------------------
(***************************************************************************)
(* Buffer of 7_myMuduo: a vector of bytes with a read and a write index,   *)
(* filled by append and by readFd, emptied by retrieve and by writeFd, and *)
(* compacted or enlarged when the room behind the write index runs out.    *)
(* Only its connection's loop uses a buffer, so a call is one step.        *)
(***************************************************************************)
EXTENDS Integers, Sequences

CONSTANTS Bytes,
          Zero,           \* what vector::resize fills with
          Chunks,         \* what may be appended, or arrive on the socket
          KCheapPrepend,  \* kCheapPrepend
          InitialSize,    \* kInitialSize
          ExtraSize,      \* sizeof extrabuf
          MaxReadable     \* bound: bytes held at once

ASSUME ChunksAssumption == Zero \in Bytes /\ Chunks \subseteq Seq(Bytes)
ASSUME SizesAssumption ==
  /\ KCheapPrepend \in Nat /\ InitialSize \in Nat /\ ExtraSize \in Nat
  /\ MaxReadable \in Nat

VARIABLES buf,      \* bytes (buffer_), size, reader and writer (its indices)
          moved,    \* history: the bytes last put in or taken out
          peak      \* history: the most bytes held so far

vars == <<buf, moved, peak>>

Readable(b) == b.writer - b.reader
Writable(b) == b.size - b.writer

Buf(bytes, size, reader, writer) ==
  [bytes |-> bytes, size |-> size, reader |-> reader, writer |-> writer]

Empty(n) == Buf([i \in 0..(n - 1) |-> Zero], n, KCheapPrepend, KCheapPrepend)

\* What [peek(), beginWrite()) holds.
Content(b) == [i \in 1..Readable(b) |-> b.bytes[b.reader + i - 1]]

Init ==
  /\ buf = Empty(KCheapPrepend + InitialSize)
  /\ moved = <<>>
  /\ peak = 0

------------------------------------------------------------------------------
Resize(b, n) ==
  Buf([i \in 0..(n - 1) |-> IF i < b.size THEN b.bytes[i] ELSE Zero],
      n, b.reader, b.writer)

\* The readable bytes are moved to the front.
Compact(b) ==
  Buf([i \in 0..(b.size - 1) |->
         IF KCheapPrepend <= i /\ i < KCheapPrepend + Readable(b)
           THEN b.bytes[b.reader + (i - KCheapPrepend)]
           ELSE b.bytes[i]],
      b.size, KCheapPrepend, KCheapPrepend + Readable(b))

\* Mutant of MakeSpace: it forgets that kCheapPrepend bytes are kept in front.
MakeSpaceNoPrepend(b, len) ==
  IF Writable(b) + b.reader < len THEN Resize(b, b.writer + len) ELSE Compact(b)

MakeSpace(b, len) ==
  IF Writable(b) + b.reader < len + KCheapPrepend
    THEN Resize(b, b.writer + len)
    ELSE Compact(b)

EnsureWritable(b, len) == IF Writable(b) < len THEN MakeSpace(b, len) ELSE b

\* data is copied to beginWrite() and the write index moved past it.
Store(b, data) ==
  Buf([i \in 0..(b.size - 1) |->
         IF b.writer <= i /\ i < b.writer + Len(data)
           THEN data[(i - b.writer) + 1]
           ELSE b.bytes[i]],
      b.size, b.reader, b.writer + Len(data))

Appended(b, data) == Store(EnsureWritable(b, Len(data)), data)

\* Mutant of Received: the whole of extrabuf's share is taken from its start.
ReceivedTwice(b, data) ==
  IF Len(data) <= Writable(b)
    THEN Store(b, data)
    ELSE Appended(Store(b, SubSeq(data, 1, Writable(b))),
                  SubSeq(data, 1, Len(data) - Writable(b)))

\* readv filled the room behind the write index first, then extrabuf.
Received(b, data) ==
  IF Len(data) <= Writable(b)
    THEN Store(b, data)
    ELSE Appended(Store(b, SubSeq(data, 1, Writable(b))),
                  SubSeq(data, Writable(b) + 1, Len(data)))

Retrieved(b, n) ==
  IF n < Readable(b)
    THEN Buf(b.bytes, b.size, b.reader + n, b.writer)
    ELSE Buf(b.bytes, b.size, KCheapPrepend, KCheapPrepend)

------------------------------------------------------------------------------
Fits(data) == Readable(buf) + Len(data) <= MaxReadable

Notes(b) == peak' = IF Readable(b) > peak THEN Readable(b) ELSE peak

AppendData(data) ==
  /\ Fits(data)
  /\ buf' = Appended(buf, data)
  /\ moved' = data
  /\ Notes(buf')

\* readv takes as much as both parts of the vector hold.
ReadFd(data) ==
  /\ Fits(data)
  /\ Len(data) <= Writable(buf) + (IF Writable(buf) < ExtraSize THEN ExtraSize ELSE 0)
  /\ buf' = Received(buf, data)
  /\ moved' = data
  /\ Notes(buf')

RetrieveAsString(n) ==
  /\ n <= Readable(buf)
  /\ moved' = SubSeq(Content(buf), 1, n)
  /\ buf' = Retrieved(buf, n)
  /\ UNCHANGED peak

\* write takes n of the readable bytes, and handleWrite retrieves as many.
WriteFd(n) ==
  /\ 0 < n /\ n <= Readable(buf)
  /\ moved' = SubSeq(Content(buf), 1, n)
  /\ buf' = Retrieved(buf, n)
  /\ UNCHANGED peak

Next ==
  \/ \E data \in Chunks : AppendData(data) \/ ReadFd(data)
  \/ \E n \in 0..Readable(buf) : RetrieveAsString(n) \/ WriteFd(n)

Spec == Init /\ [][Next]_vars

------------------------------------------------------------------------------
BufferType(b) ==
  /\ b.size \in Nat /\ b.reader \in Nat /\ b.writer \in Nat
  /\ b.bytes \in [0..(b.size - 1) -> Bytes]

\* The indices are in order and within the vector, with the prependable bytes
\* always in front.
Layout(b) ==
  KCheapPrepend <= b.reader /\ b.reader <= b.writer /\ b.writer <= b.size

TypeOK ==
  /\ BufferType(buf)
  /\ Layout(buf)
  /\ moved \in Seq(Bytes)
  /\ peak \in Nat
  /\ Readable(buf) <= peak

\* The vector never grows beyond twice what the buffer had to hold at its
\* fullest, because it is compacted first (makeSpace).
GrowthBounded ==
  buf.size <= KCheapPrepend + InitialSize \/ buf.size < KCheapPrepend + 2 * peak

\* The buffer is a byte stream: what is retrieved, or written to the socket, is
\* what was appended and read, in order, wherever the bytes were moved to.
Stream == INSTANCE ByteStream WITH stream <- Content(buf)

ImplementsByteStream == Stream!Spec
==============================================================================
