------------------------- MODULE TcpConnection_proofs -------------------------
(***************************************************************************)
(* Proofs about TcpConnection, for any messages, threads, socket buffer    *)
(* and high-water mark: its types; that the peer's stream is whole and in  *)
(* order; and, where the threads that would spoil it stay away, that a     *)
(* connection goes up then down once and loses no step of its way down.    *)
(***************************************************************************)
EXTENDS TcpConnection, SequenceTheorems, TLAPS

------------------------------------------------------------------------------
(* What the operators return.                                               *)

\* Cutting a sequence in two loses nothing.
LEMMA CutInTwo ==
  ASSUME NEW S, NEW s \in Seq(S), NEW n \in 0..Len(s)
  PROVE  /\ SubSeq(s, 1, n) \in Seq(S)
         /\ From(s, n) \in Seq(S)
         /\ SubSeq(s, 1, n) \o From(s, n) = s
  <1>1. SubSeq(s, 1, n) \in Seq(S) /\ From(s, n) \in Seq(S)
    BY DEF From
  <1>2. SubSeq(s, 1, n) \o SubSeq(s, n + 1, Len(s)) = SubSeq(s, 1, Len(s))
    <2>1. Len(s) \in Nat
      OBVIOUS
    <2>2. 1 \in 1..(Len(s) + 1) /\ n \in (1 - 1)..Len(s) /\ Len(s) \in n..Len(s)
      BY <2>1
    <2>3. QED
      BY <2>2, ConcatAdjacentSubSeq
  <1>3. QED
    BY <1>1, <1>2, SubSeqFull DEF From

\* What write(2) takes is a beginning of what it is given.
LEMMA TakenRange ==
  ASSUME DataTypes, NEW s \in Seq(Units)
  PROVE  Taken(s) \in 0..Len(s) /\ room - Taken(s) \in 0..Room
  BY RoomAssumption DEF Taken, DataTypes

LEMMA PiecesType ==
  ASSUME NEW m \in Messages
  PROVE  Pieces(m) \in Seq(Units) /\ Len(Pieces(m)) = 2
  BY DEF Pieces, Units

LEMMA AppendFunctor ==
  ASSUME FunctorTypes,
         NEW op \in {"established", "complete", "highWater", "shutdown", "destroyed"}
  PROVE  Append(queue, Functor(op)) \in Seq(Functors)
  <1>1. Functor(op) \in Functors
    BY DEF Functor, Functors
  <1>2. QED
    BY <1>1 DEF FunctorTypes

LEMMA UpdateTypes ==
  ASSUME ChannelTypes, NEW ev \in SUBSET {"read", "write"}, Update(ev)
  PROVE  events' \subseteq {"read", "write"} /\ index' \in {"kAdded", "kDeleted"}
  BY DEF Update, IndexAfter, ChannelTypes

LEMMA BufferedTypes ==
  ASSUME TypeOK, NEW r \in Seq(Units), Buffered(r), UNCHANGED st
  PROVE  out' \in Seq(Units) /\ queue' \in Seq(Functors) /\ ChannelTypes'
  <1>1. out' \in Seq(Units)
    BY DEF Buffered, TypeOK, DataTypes
  <1>2. Append(queue, Functor("highWater")) \in Seq(Functors)
    BY AppendFunctor DEF TypeOK
  <1>3. queue' \in Seq(Functors)
    BY <1>2 DEF Buffered, TypeOK, FunctorTypes
  <1>4. CASE UNCHANGED chan
    BY <1>1, <1>3, <1>4 DEF chan, ChannelTypes, TypeOK
  <1>5. CASE Update(events \cup {"write"})
    <2>1. events \cup {"write"} \in SUBSET {"read", "write"}
      BY DEF TypeOK, ChannelTypes
    <2>2. ChannelTypes'
      BY <1>5, <2>1, UpdateTypes DEF TypeOK, ChannelTypes
    <2>3. QED
      BY <1>1, <1>3, <2>2
  <1>6. QED
    BY <1>4, <1>5 DEF Buffered

------------------------------------------------------------------------------
(* What sendInLoop does to the stream.                                      *)

StreamInv == TypeOK /\ StreamInOrder

LEMMA ConcatAssoc ==
  \A a, b, c \in Seq(Units) : (a \o b) \o c = a \o (b \o c)
  BY ConcatAssociative

LEMMA SendKeepsStream ==
  ASSUME StreamInv, NEW m \in Messages, SendInLoop(m), UNCHANGED st
  PROVE  DataTypes' /\ queue' \in Seq(Functors) /\ ChannelTypes' /\ StreamInOrder'
  <1> DEFINE p == Pieces(m)
             n == Taken(p)
  <1>1. TypeOK /\ DataTypes /\ FunctorTypes /\ ChannelTypes /\ sent \o out = accepted
    BY DEF StreamInv, TypeOK, StreamInOrder
  <1>2. p \in Seq(Units) /\ Len(p) = 2
    BY PiecesType
  <1>3. n \in 0..Len(p) /\ room - n \in 0..Room
    BY <1>1, <1>2, TakenRange
  <1>4. /\ SubSeq(p, 1, n) \in Seq(Units) /\ From(p, n) \in Seq(Units)
        /\ SubSeq(p, 1, n) \o From(p, n) = p
    BY <1>2, <1>3, CutInTwo
  <1>5. CASE UNCHANGED <<queue, chan, data>>
    BY <1>1, <1>5 DEF DataTypes, FunctorTypes, ChannelTypes, StreamInOrder, chan, data
  <1>6. CASE KernelTakes(<<>>, 0) /\ UNCHANGED <<queue, chan, out, accepted>>
    <2>1. SubSeq(<<>>, 1, 0) = <<>>
      OBVIOUS
    <2>2. sent' = sent /\ room' = room
      BY <1>1, <1>6, <2>1 DEF KernelTakes, DataTypes
    <2>3. QED
      BY <1>1, <1>6, <2>2
      DEF DataTypes, FunctorTypes, ChannelTypes, StreamInOrder, chan, KernelTakes
  <1>7. CASE /\ out = <<>>
             /\ KernelTakes(p, n)
             /\ accepted' = accepted \o p
             /\ \/ /\ n = Len(p)
                   /\ queue' = Append(queue, Functor("complete"))
                   /\ UNCHANGED <<out, chan>>
                \/ Buffered(From(p, n))
    <2>1. accepted = sent /\ sent \in Seq(Units)
      BY <1>1, <1>7 DEF DataTypes
    <2>2. /\ sent' = sent \o SubSeq(p, 1, n)
          /\ accepted' = sent \o p
      BY <1>7, <2>1 DEF KernelTakes
    <2>3. /\ sent' \in Seq(Units) /\ accepted' \in Seq(Units)
          /\ room' \in 0..Room /\ soErr' \in BOOLEAN /\ brokenPipe' \in BOOLEAN
      <3>1. sent' \in Seq(Units) /\ accepted' \in Seq(Units)
        BY <1>2, <1>4, <2>1, <2>2
      <3>2. room' \in 0..Room /\ soErr' \in BOOLEAN /\ brokenPipe' \in BOOLEAN
        BY <1>1, <1>3, <1>7 DEF KernelTakes, DataTypes
      <3>3. QED
        BY <3>1, <3>2
    <2>4. sent' \o From(p, n) = accepted'
      <3>1. (sent \o SubSeq(p, 1, n)) \o From(p, n)
              = sent \o (SubSeq(p, 1, n) \o From(p, n))
        BY <1>4, <2>1, ConcatAssoc
      <3>2. QED
        BY <1>4, <2>2, <3>1
    <2>5. CASE /\ n = Len(p)
               /\ queue' = Append(queue, Functor("complete"))
               /\ UNCHANGED <<out, chan>>
      <3>1. From(p, n) = <<>>
        BY <1>2, <2>5 DEF From
      <3>2. sent' \o out' = accepted' /\ out' \in Seq(Units)
        BY <1>7, <2>4, <2>5, <3>1
      <3>3. queue' \in Seq(Functors)
        BY <1>1, <2>5, AppendFunctor DEF FunctorTypes
      <3>4. QED
        BY <1>1, <2>3, <2>5, <3>2, <3>3
        DEF DataTypes, ChannelTypes, StreamInOrder, chan
    <2>6. CASE Buffered(From(p, n))
      <3>1. out' = From(p, n)
        BY <1>4, <1>7, <2>6, ConcatEmptySeq DEF Buffered
      <3>2. out' \in Seq(Units) /\ queue' \in Seq(Functors) /\ ChannelTypes'
        BY <1>1, <1>4, <2>6, BufferedTypes
      <3>3. QED
        BY <2>3, <2>4, <3>1, <3>2 DEF DataTypes, StreamInOrder
    <2>7. QED
      BY <1>7, <2>5, <2>6
  <1>8. CASE /\ Buffered(p)
             /\ accepted' = accepted \o p
             /\ UNCHANGED <<sent, room, soErr, brokenPipe>>
    <2>1. out' \in Seq(Units) /\ queue' \in Seq(Functors) /\ ChannelTypes'
      BY <1>1, <1>2, <1>8, BufferedTypes
    <2>2. accepted' \in Seq(Units)
      BY <1>1, <1>2, <1>8 DEF DataTypes
    <2>3. sent' \o out' = accepted'
      <3>1. sent \in Seq(Units) /\ out \in Seq(Units) /\ p \in Seq(Units)
        BY <1>1, <1>2 DEF DataTypes
      <3>2. (sent \o out) \o p = sent \o (out \o p)
        BY <3>1, ConcatAssoc
      <3>3. sent' = sent /\ out' = out \o p /\ accepted' = (sent \o out) \o p
        BY <1>1, <1>8 DEF Buffered, StreamInOrder
      <3>4. QED
        BY <3>2, <3>3
    <2>4. QED
      BY <1>1, <1>8, <2>1, <2>2, <2>3 DEF DataTypes, StreamInOrder
  <1>9. QED
    BY <1>5, <1>6, <1>7, <1>8 DEF SendInLoop
------------------------------------------------------------------------------
(* One lemma per kind of step.                                              *)

LEMMA InitStream == Init => StreamInv
  <1> SUFFICES ASSUME Init PROVE StreamInv
    OBVIOUS
  <1>1. <<Functor("established")>> \in Seq(Functors)
    BY DEF Functor, Functors
  <1>2. <<>> \in Seq(Units) /\ <<>> \in Seq(Functors) /\ <<>> \o <<>> = <<>>
    OBVIOUS
  <1>3. ChannelTypes /\ LoopTypes /\ FunctorTypes
    BY <1>1, <1>2 DEF Init, ChannelTypes, LoopTypes, FunctorTypes
  <1>4. DataTypes /\ StreamInOrder
    <2>1. Room \in 0..Room
      BY RoomAssumption
    <2>2. DataTypes
      BY <1>2, <2>1 DEF Init, DataTypes
    <2>3. QED
      BY <1>2, <2>2 DEF Init, StreamInOrder
  <1>5. OtherTypes
    BY DEF Init, OtherTypes
  <1>6. QED
    BY <1>3, <1>4, <1>5 DEF StreamInv, TypeOK

LEMMA HandleCloseTypes ==
  ASSUME TypeOK, HandleClose
  PROVE  ChannelTypes' /\ ups' \in Nat /\ downs' \in Nat /\ removals' \in Nat
  <1>1. {} \in SUBSET {"read", "write"}
    OBVIOUS
  <1>2. events' \subseteq {"read", "write"} /\ index' \in {"kAdded", "kDeleted"}
    BY <1>1, UpdateTypes DEF HandleClose, TypeOK
  <1>3. QED
    BY <1>2 DEF HandleClose, TypeOK, ChannelTypes, OtherTypes

LEMMA EventWriteStream == StreamInv /\ EventWrite => StreamInv'
  <1> SUFFICES ASSUME StreamInv, EventWrite PROVE StreamInv'
    OBVIOUS
  <1> DEFINE n == Taken(out)
  <1>1. /\ TypeOK /\ ChannelTypes /\ DataTypes /\ LoopTypes /\ FunctorTypes
        /\ OtherTypes /\ sent \o out = accepted
        /\ out \in Seq(Units) /\ sent \in Seq(Units)
    BY DEF StreamInv, TypeOK, StreamInOrder, DataTypes
  <1>2. n \in 0..Len(out) /\ room - n \in 0..Room
    BY <1>1, TakenRange
  <1>3. /\ SubSeq(out, 1, n) \in Seq(Units) /\ From(out, n) \in Seq(Units)
        /\ SubSeq(out, 1, n) \o From(out, n) = out
    BY <1>1, <1>2, CutInTwo
  <1>4. LoopTypes' /\ OtherTypes'
    BY <1>1 DEF EventWrite, LoopTypes, OtherTypes, thr, server, calls
  <1>5. CASE UNCHANGED <<chan, queue, wrShut, out, sent, room, soErr, brokenPipe>>
    BY <1>1, <1>4, <1>5
    DEF EventWrite, StreamInv, TypeOK, StreamInOrder, ChannelTypes, DataTypes,
        FunctorTypes, chan
  <1>6. CASE KernelTakes(out, n) /\ out' = From(out, n)
    <2>1. DataTypes'
      BY <1>1, <1>2, <1>3, <1>6 DEF EventWrite, KernelTakes, DataTypes
    <2>2. sent' \o out' = accepted'
      <3>1. (sent \o SubSeq(out, 1, n)) \o From(out, n)
              = sent \o (SubSeq(out, 1, n) \o From(out, n))
        BY <1>1, <1>3, ConcatAssoc
      <3>2. QED
        BY <1>1, <1>3, <1>6, <3>1 DEF EventWrite, KernelTakes
    <2>3. ChannelTypes'
      <3>1. events \ {"write"} \in SUBSET {"read", "write"}
        BY <1>1 DEF ChannelTypes
      <3>2. CASE Update(events \ {"write"})
        BY <1>1, <3>1, <3>2, UpdateTypes DEF EventWrite, ChannelTypes
      <3>3. CASE UNCHANGED chan
        BY <1>1, <3>3 DEF EventWrite, ChannelTypes, chan
      <3>4. QED
        BY <3>2, <3>3 DEF EventWrite, chan
    <2>4. FunctorTypes'
      <3>1. Append(queue, Functor("complete")) \in Seq(Functors)
        BY <1>1, AppendFunctor
      <3>2. QED
        BY <1>1, <3>1 DEF EventWrite, FunctorTypes
    <2>5. QED
      BY <1>4, <2>1, <2>2, <2>3, <2>4 DEF StreamInv, TypeOK, StreamInOrder
  <1>7. QED
    BY <1>5, <1>6 DEF EventWrite

LEMMA EventStream ==
  StreamInv /\ (Poll \/ EventClose \/ EventError \/ EventRead \/ StartFunctors)
    => StreamInv'
  <1> SUFFICES ASSUME StreamInv,
                      Poll \/ EventClose \/ EventError \/ EventRead \/ StartFunctors
               PROVE  StreamInv'
    OBVIOUS
  <1> USE DEF StreamInv, TypeOK
  <1>1. CASE Poll
    BY <1>1 DEF Poll, Callbacks, Revents, ChannelTypes, DataTypes, LoopTypes, FunctorTypes,
       OtherTypes, StreamInOrder, chan, thr, server, sock, data, calls
  <1>2. CASE EventClose
    <2>1. ChannelTypes' /\ ups' \in Nat /\ downs' \in Nat /\ removals' \in Nat
      BY <1>2, HandleCloseTypes DEF EventClose
    <2>2. QED
      BY <1>2, <2>1 DEF EventClose, HandleClose, DataTypes, LoopTypes, FunctorTypes,
         OtherTypes, StreamInOrder, thr, sock, data
  <1>3. CASE EventError
    <2>1. /\ lp = "event" /\ rev' = rev \ {"err"} /\ soErr' = FALSE
          /\ UNCHANGED <<st, events, index, queue, batch, lp, tpc, tmsg, inMap, removals,
                         serverUp, wrShut, peer, inbox, out, sent, accepted, room,
                         brokenPipe, ups, downs>>
      BY <1>3 DEF EventError, chan, thr, server, sock, calls
    <2>2. ChannelTypes' /\ FunctorTypes' /\ StreamInOrder'
      BY <2>1 DEF ChannelTypes, FunctorTypes, StreamInOrder
    <2>3. DataTypes' /\ LoopTypes'
      BY <2>1 DEF DataTypes, LoopTypes
    <2>4. OtherTypes'
      BY <2>1 DEF OtherTypes
    <2>5. QED
      BY <2>2, <2>3, <2>4
  <1>4. CASE EventRead
    <2>1. CASE HandleClose /\ UNCHANGED <<lp, inbox, data>>
      <3>1. ChannelTypes' /\ ups' \in Nat /\ downs' \in Nat /\ removals' \in Nat
        BY <2>1, HandleCloseTypes
      <3>2. QED
        BY <1>4, <2>1, <3>1 DEF EventRead, HandleClose, DataTypes, LoopTypes,
           FunctorTypes, OtherTypes, StreamInOrder, thr, data
    <2>2. CASE /\ inbox /\ inbox' = FALSE
               /\ lp' = "userInEvent"
               /\ UNCHANGED <<st, chan, server, calls, data>>
      <3>1. /\ lp' = "userInEvent" /\ inbox' = FALSE /\ rev' = rev \ {"in"}
            /\ UNCHANGED <<st, events, index, queue, batch, tpc, tmsg, inMap, removals,
                           serverUp, wrShut, peer, soErr, out, sent, accepted, room,
                           brokenPipe, ups, downs>>
        BY <1>4, <2>2 DEF EventRead, chan, thr, server, calls, data
      <3>2. ChannelTypes' /\ FunctorTypes' /\ StreamInOrder'
        BY <3>1 DEF ChannelTypes, FunctorTypes, StreamInOrder
      <3>3. DataTypes' /\ LoopTypes'
        BY <3>1 DEF DataTypes, LoopTypes
      <3>4. OtherTypes'
        BY <3>1 DEF OtherTypes
      <3>5. QED
        BY <3>2, <3>3, <3>4
    <2>3. CASE /\ ~inbox /\ soErr /\ soErr' = FALSE
               /\ UNCHANGED <<st, chan, lp, server, calls, inbox, out, sent,
                              accepted, room, brokenPipe>>
      <3>1. /\ UNCHANGED <<st, events, index, queue, batch, lp, tpc, tmsg, inMap, removals,
                           serverUp, wrShut, peer, inbox, ups, downs>>
            /\ UNCHANGED <<out, sent, accepted, room, brokenPipe>>
            /\ rev' = rev \ {"in"} /\ soErr' = FALSE
        BY <1>4, <2>3 DEF EventRead, chan, thr, server, calls
      <3>2. ChannelTypes' /\ FunctorTypes' /\ StreamInOrder'
        BY <3>1 DEF ChannelTypes, FunctorTypes, StreamInOrder
      <3>3. DataTypes' /\ LoopTypes'
        BY <3>1 DEF DataTypes, LoopTypes
      <3>4. OtherTypes'
        BY <3>1 DEF OtherTypes
      <3>5. QED
        BY <3>2, <3>3, <3>4
    <2>4. QED
      BY <1>4, <2>1, <2>2, <2>3 DEF EventRead
  <1>5. CASE StartFunctors
    BY <1>5 DEF StartFunctors, ChannelTypes, DataTypes, LoopTypes, FunctorTypes,
       OtherTypes, StreamInOrder, chan, thr, server, sock, data, calls
  <1>6. QED
    BY <1>1, <1>2, <1>3, <1>4, <1>5

LEMMA FunctorStream ==
  StreamInv /\ (\/ RunEstablished \/ RunCallback \/ RunSend \/ RunShutdown
                \/ RunDestroyed \/ EndFunctors \/ UserReturns)
    => StreamInv'
  <1> SUFFICES ASSUME StreamInv,
                      \/ RunEstablished \/ RunCallback \/ RunSend \/ RunShutdown
                      \/ RunDestroyed \/ EndFunctors \/ UserReturns
               PROVE  StreamInv'
    OBVIOUS
  <1> USE DEF StreamInv, TypeOK
  <1>1. ASSUME NEW op, NextFunctor(op)
        PROVE  batch' \in Seq(Functors) /\ Head(batch) \in Functors
    BY <1>1 DEF NextFunctor, FunctorTypes
  <1>2. CASE RunEstablished
    <2>1. events \cup {"read"} \in SUBSET {"read", "write"}
      BY DEF ChannelTypes
    <2>2. ChannelTypes'
      BY <1>2, <2>1, UpdateTypes DEF RunEstablished, ChannelTypes
    <2>3. QED
      BY <1>1, <1>2, <2>2 DEF RunEstablished, DataTypes, LoopTypes, FunctorTypes,
         OtherTypes, StreamInOrder, thr, server, sock, data, NextFunctor
  <1>3. CASE RunCallback
    BY <1>1, <1>3 DEF RunCallback, ChannelTypes, DataTypes, LoopTypes, FunctorTypes,
       OtherTypes, StreamInOrder, chan, thr, server, sock, data, calls, NextFunctor
  <1>4. CASE RunSend
    <2>1. Head(batch).msg \in Messages
      BY <1>1, <1>4 DEF RunSend, NextFunctor, Functors
    <2>2. LoopTypes' /\ OtherTypes'
      BY <1>4 DEF RunSend, LoopTypes, OtherTypes, thr, server, sock, calls, NextFunctor
    <2>3. DataTypes' /\ queue' \in Seq(Functors) /\ ChannelTypes' /\ StreamInOrder'
      BY <1>4, <2>1, SendKeepsStream DEF RunSend
    <2>4. QED
      BY <1>1, <1>4, <2>2, <2>3 DEF RunSend, FunctorTypes
  <1>5. CASE RunShutdown
    BY <1>1, <1>5 DEF RunShutdown, ShutdownInLoop, ChannelTypes, DataTypes, LoopTypes,
       FunctorTypes, OtherTypes, StreamInOrder, chan, thr, server, data, calls,
       NextFunctor
  <1>6. CASE RunDestroyed
    <2>1. ChannelTypes' /\ ups' \in Nat /\ downs' \in Nat
      <3>1. ups \in Nat /\ downs \in Nat /\ ChannelTypes /\ ConnectDestroyed
        BY <1>6 DEF RunDestroyed, OtherTypes
      <3>2. CASE st = "kConnected"
        BY <3>1, <3>2 DEF ConnectDestroyed, ChannelTypes
      <3>3. CASE st # "kConnected"
        BY <3>1, <3>3 DEF ConnectDestroyed, ChannelTypes, calls
      <3>4. QED
        BY <3>2, <3>3
    <2>2. batch' \in Seq(Functors)
      BY <1>1, <1>6 DEF RunDestroyed
    <2>3. QED
      BY <1>6, <2>1, <2>2 DEF RunDestroyed, DataTypes, LoopTypes, FunctorTypes,
         OtherTypes, StreamInOrder, thr, server, sock, data
  <1>7. CASE EndFunctors
    BY <1>7 DEF EndFunctors, ChannelTypes, DataTypes, LoopTypes, FunctorTypes,
       OtherTypes, StreamInOrder, chan, thr, server, sock, data, calls
  <1>8. CASE UserReturns
    <2>1. LoopTypes'
      BY <1>8 DEF UserReturns, LoopTypes
    <2>2. UNCHANGED <<st, chan, queue, batch, thr, server, sock, data, calls>>
      BY <1>8 DEF UserReturns
    <2>3. QED
      BY <2>1, <2>2 DEF ChannelTypes, DataTypes, FunctorTypes, OtherTypes,
         StreamInOrder, chan, thr, server, sock, data, calls
  <1>9. QED
    BY <1>2, <1>3, <1>4, <1>5, <1>6, <1>7, <1>8

LEMMA UserStream ==
  StreamInv /\ (UserShutsDown \/ \E m \in Messages : UserSends(m)) => StreamInv'
  <1> SUFFICES ASSUME StreamInv, UserShutsDown \/ \E m \in Messages : UserSends(m)
               PROVE  StreamInv'
    OBVIOUS
  <1> USE DEF StreamInv, TypeOK
  <1>1. CASE UserShutsDown
    BY <1>1 DEF UserShutsDown, ShutdownInLoop, ChannelTypes, DataTypes, LoopTypes,
       FunctorTypes, OtherTypes, StreamInOrder, chan, thr, server, data, calls
  <1>2. ASSUME NEW m \in Messages, UserSends(m)
        PROVE  StreamInv'
    <2>1. DataTypes' /\ queue' \in Seq(Functors) /\ ChannelTypes' /\ StreamInOrder'
      BY <1>2, SendKeepsStream DEF UserSends
    <2>2. QED
      BY <1>2, <2>1 DEF UserSends, LoopTypes, FunctorTypes, OtherTypes, thr, server,
         sock, calls
  <1>3. QED
    BY <1>1, <1>2

LEMMA ThreadStream ==
  ASSUME StreamInv, NEW t \in Threads,
         \/ \E m \in Messages : ThreadSends(t, m)
         \/ ThreadReturns(t)
         \/ ThreadChecksShutdown(t)
  PROVE  StreamInv'
  <1> USE DEF StreamInv, TypeOK
  <1>1. ASSUME NEW m \in Messages, ThreadSends(t, m)
        PROVE  StreamInv'
    BY <1>1 DEF ThreadSends, ThreadStep, ChannelTypes, DataTypes, LoopTypes,
       FunctorTypes, OtherTypes, StreamInOrder, chan, server, sock, data, calls
  <1>2. CASE ThreadQueuesSend(t)
    <2>1. SendFunctor(tmsg[t]) \in Functors
      BY <1>2 DEF ThreadQueuesSend, ThreadStep, SendFunctor, Functors, OtherTypes
    <2>2. Append(queue, SendFunctor(tmsg[t])) \in Seq(Functors)
      BY <2>1 DEF FunctorTypes
    <2>3. OtherTypes'
      BY <1>2 DEF ThreadQueuesSend, ThreadStep, OtherTypes, server, sock, calls
    <2>4. QED
      BY <1>2, <2>2, <2>3 DEF ThreadQueuesSend, ChannelTypes, DataTypes, LoopTypes,
         FunctorTypes, StreamInOrder, chan, data
  <1>3. CASE ThreadSetsDisconnecting(t) \/ ThreadChecksShutdown(t)
    <2>1. OtherTypes'
      BY <1>3 DEF ThreadSetsDisconnecting, ThreadChecksShutdown, ThreadStep, OtherTypes,
         server, sock, calls
    <2>2. ChannelTypes'
      BY <1>3 DEF ThreadSetsDisconnecting, ThreadChecksShutdown, ChannelTypes, chan
    <2>3. DataTypes' /\ LoopTypes' /\ FunctorTypes' /\ StreamInOrder'
      BY <1>3 DEF ThreadSetsDisconnecting, ThreadChecksShutdown, DataTypes, LoopTypes,
         FunctorTypes, StreamInOrder, data
    <2>4. QED
      BY <2>1, <2>2, <2>3
  <1>4. CASE ThreadQueuesShutdown(t)
    <2>1. Append(queue, Functor("shutdown")) \in Seq(Functors)
      BY AppendFunctor
    <2>2. QED
      BY <1>4, <2>1 DEF ThreadQueuesShutdown, ThreadStep, ChannelTypes, DataTypes,
         LoopTypes, FunctorTypes, OtherTypes, StreamInOrder, chan, server, sock, data,
         calls
  <1>5. QED
    BY <1>1, <1>2, <1>3, <1>4 DEF ThreadReturns

LEMMA BaseStream == StreamInv /\ (BaseRemoves \/ ServerDestroyed) => StreamInv'
  <1> SUFFICES ASSUME StreamInv, BaseRemoves \/ ServerDestroyed PROVE StreamInv'
    OBVIOUS
  <1> USE DEF StreamInv, TypeOK
  <1>1. Append(queue, Functor("destroyed")) \in Seq(Functors)
    BY AppendFunctor
  <1>2. queue' \in Seq(Functors) /\ batch' \in Seq(Functors)
    <2>1. queue' = Append(queue, Functor("destroyed")) \/ queue' = queue
      BY DEF BaseRemoves, ServerDestroyed
    <2>2. queue \in Seq(Functors) /\ batch \in Seq(Functors) /\ batch' = batch
      BY DEF BaseRemoves, ServerDestroyed, FunctorTypes
    <2>3. QED
      BY <1>1, <2>1, <2>2
  <1>3. OtherTypes'
    <2>1. removals' \in Nat /\ inMap' \in BOOLEAN /\ serverUp' \in BOOLEAN
      <3>1. removals \in Nat /\ serverUp \in BOOLEAN
        BY DEF OtherTypes
      <3>2. CASE BaseRemoves
        <4>1. removals' = removals - 1 /\ removals > 0
          BY <3>2 DEF BaseRemoves
        <4>2. inMap' = FALSE /\ serverUp' = serverUp
          BY <3>2 DEF BaseRemoves
        <4>3. removals' \in Nat
          BY <3>1, <4>1
        <4>4. QED
          BY <3>1, <4>2, <4>3
      <3>3. CASE ServerDestroyed
        BY <3>1, <3>3 DEF ServerDestroyed
      <3>4. QED
        BY <3>2, <3>3
    <2>2. UNCHANGED <<thr, sock, calls>>
      BY DEF BaseRemoves, ServerDestroyed
    <2>3. QED
      BY <2>1, <2>2 DEF OtherTypes, thr, sock, calls
  <1>4. ChannelTypes' /\ DataTypes' /\ LoopTypes' /\ StreamInOrder'
    BY DEF BaseRemoves, ServerDestroyed, ChannelTypes, DataTypes, LoopTypes,
       StreamInOrder, chan, data
  <1>5. QED
    BY <1>2, <1>3, <1>4 DEF FunctorTypes

LEMMA PeerStream ==
  StreamInv /\ (PeerSends \/ PeerReceives \/ PeerCloses \/ PeerResets) => StreamInv'
  <1> SUFFICES ASSUME StreamInv, PeerSends \/ PeerReceives \/ PeerCloses \/ PeerResets
               PROVE  StreamInv'
    OBVIOUS
  <1>1. Room \in 0..Room
    BY RoomAssumption
  <1>2. UNCHANGED <<st, chan, queue, batch, lp, rev, thr, server, calls>>
    BY DEF PeerSends, PeerReceives, PeerCloses, PeerResets
  <1>3. ChannelTypes' /\ LoopTypes' /\ FunctorTypes'
    BY <1>2 DEF StreamInv, TypeOK, ChannelTypes, LoopTypes, FunctorTypes, chan
  <1>4. OtherTypes'
    <2>1. wrShut' \in BOOLEAN /\ peer' \in {"open", "fin", "rst"} /\ inbox' \in BOOLEAN
      BY DEF StreamInv, TypeOK, OtherTypes, PeerSends, PeerReceives, PeerCloses,
         PeerResets, sock
    <2>2. QED
      BY <1>2, <2>1 DEF StreamInv, TypeOK, OtherTypes, thr, server, calls
  <1>5. UNCHANGED <<out, sent, accepted, brokenPipe>> /\ room' \in {room, Room}
        /\ soErr' \in {soErr, TRUE}
    BY DEF PeerSends, PeerReceives, PeerCloses, PeerResets, data
  <1>6. DataTypes' /\ StreamInOrder'
    BY <1>1, <1>5 DEF StreamInv, TypeOK, DataTypes, StreamInOrder
  <1>7. QED
    BY <1>3, <1>4, <1>6 DEF StreamInv, TypeOK

------------------------------------------------------------------------------
(* The theorems.                                                            *)

LEMMA NextStream == StreamInv /\ [Next]_vars => StreamInv'
  <1> SUFFICES ASSUME StreamInv, [Next]_vars PROVE StreamInv'
    OBVIOUS
  <1>1. CASE LoopStep
    BY <1>1, EventStream, EventWriteStream, FunctorStream DEF LoopStep
  <1>2. CASE UserShutsDown \/ \E m \in Messages : UserSends(m)
    BY <1>2, UserStream
  <1>3. CASE \/ \E t \in Threads : ThreadReturns(t)
             \/ \E t \in Senders, m \in Messages : ThreadSends(t, m)
             \/ \E t \in Closers : ThreadChecksShutdown(t)
    BY <1>3, ThreadStream DEF Threads
  <1>4. CASE BaseRemoves \/ ServerDestroyed
    BY <1>4, BaseStream
  <1>5. CASE PeerSends \/ PeerReceives \/ PeerCloses \/ PeerResets
    BY <1>5, PeerStream
  <1>6. CASE UNCHANGED vars
    BY <1>6 DEF vars, StreamInv, TypeOK, ChannelTypes, DataTypes, LoopTypes,
       FunctorTypes, OtherTypes, StreamInOrder, chan, thr, server, sock, data, calls
  <1>7. QED
    BY <1>1, <1>2, <1>3, <1>4, <1>5, <1>6 DEF Next

LEMMA AlwaysStreamInv == Spec => []StreamInv
  BY InitStream, NextStream, PTL DEF Spec

\* The variables keep their types; a thread about to queue a send has a message.
THEOREM TypeCorrect == Spec => []TypeOK
  <1>1. StreamInv => TypeOK
    BY DEF StreamInv
  <1>2. QED
    BY <1>1, AlwaysStreamInv, PTL

\* However writes are cut short and whoever sends, what the kernel took followed
\* by outputBuffer_ is the messages sendInLoop accepted, end to end.
THEOREM StreamAlwaysInOrder == Spec => []StreamInOrder
  <1>1. StreamInv => StreamInOrder
    BY DEF StreamInv
  <1>2. QED
    BY <1>1, AlwaysStreamInv, PTL
------------------------------------------------------------------------------
(* The life of a connection that only its own loop shuts down: Closers is   *)
(* empty.  Other threads may send.                                          *)

NoOp(s, op) == \A i \in 1..Len(s) : s[i].op # op

EstablishedFirst(s) ==
  /\ s # <<>> /\ s[1].op = "established"
  /\ \A i \in 2..Len(s) : s[i].op # "established"

\* connectEstablished is queued once and runs before everything else.
EstOK ==
  IF st = "kConnecting"
    THEN \/ batch = <<>> /\ EstablishedFirst(queue)
         \/ EstablishedFirst(batch) /\ NoOp(queue, "established")
    ELSE NoOp(batch, "established") /\ NoOp(queue, "established")

\* What state_ says of the channel and of the callbacks made.
PhaseOK ==
  /\ st = "kConnecting" => ups = 0 /\ downs = 0 /\ events = {} /\ index = "kNew"
  /\ st \in {"kConnected", "kDisconnecting"} =>
       ups = 1 /\ downs = 0 /\ "read" \in events
  /\ st = "kDisconnected" =>
       ups = 1 /\ downs = 1 /\ events = {} /\ index # "kAdded"

\* The round of events that a handleClose may end is of a registered channel, and
\* has one callback that may make it.
RoundOK ==
  /\ rev \cap {"in", "close"} # {} => index = "kAdded"
  /\ ~({"in", "close"} \subseteq rev)
  /\ lp \in {"poll", "event", "userInEvent"} => batch = <<>>
  /\ lp = "userInEvent" => rev \subseteq {"out"}

NoCloser == \A t \in Threads : tpc[t] \in {"idle", "sending"}

LifeInv == TypeOK /\ EstOK /\ PhaseOK /\ RoundOK /\ NoCloser

LEMMA OpsAfterAppend ==
  ASSUME NEW s \in Seq(Functors), NEW f \in Functors, NEW op, f.op # op
  PROVE  /\ NoOp(s, op) => NoOp(Append(s, f), op)
         /\ op = "established" /\ EstablishedFirst(s) => EstablishedFirst(Append(s, f))
  BY DEF NoOp, EstablishedFirst

LEMMA OpsAfterTail ==
  ASSUME NEW s \in Seq(Functors), NEW op, s # <<>>
  PROVE  /\ NoOp(s, op) => NoOp(Tail(s), op)
         /\ EstablishedFirst(s) => NoOp(Tail(s), "established")
  BY DEF NoOp, EstablishedFirst

\* Functors other than connectEstablished may be queued at any time.
LEMMA QueueingKeepsFirst ==
  ASSUME TypeOK, EstOK, NEW f \in Functors, f.op # "established",
         queue' \in {queue, Append(queue, f)}, UNCHANGED <<st, batch>>
  PROVE  EstOK'
  BY OpsAfterAppend DEF EstOK, TypeOK, FunctorTypes

LEMMA FunctorIs ==
  \A op \in {"established", "complete", "highWater", "shutdown", "destroyed"} :
    Functor(op) \in Functors /\ Functor(op).op = op
  BY DEF Functor, Functors

\* Once reading is enabled, events_ is never the write bit alone: isWriting() of
\* a connection in use is always false, whatever waits in outputBuffer_.
LEMMA NotWriting == TypeOK /\ PhaseOK => ~IsWriting
  BY DEF PhaseOK, IsWriting, TypeOK, ChannelTypes

\* sendInLoop queues no connectEstablished and only ever enables writing.
LEMMA SendKeepsLife ==
  ASSUME LifeInv, NEW m \in Messages, SendInLoop(m), st # "kConnecting"
  PROVE  /\ \E f \in {Functor("complete"), Functor("highWater")} :
              queue' \in {queue, Append(queue, f)}
         /\ \/ UNCHANGED chan
            \/ st # "kDisconnected" /\ events' = events \cup {"write"} /\ index' = "kAdded"
  BY DEF SendInLoop, Buffered, Update, IndexAfter, chan

LEMMA InitLife == Init => LifeInv
  <1> SUFFICES ASSUME Init PROVE LifeInv
    OBVIOUS
  <1>1. TypeOK
    BY InitStream DEF StreamInv
  <1>2. EstOK
    BY DEF Init, EstOK, EstablishedFirst, Functor
  <1>3. PhaseOK /\ RoundOK /\ NoCloser
    BY DEF Init, PhaseOK, RoundOK, NoCloser
  <1>4. QED
    BY <1>1, <1>2, <1>3 DEF LifeInv

\* handleClose ends a round's callbacks that may make it.
LEMMA HandleCloseLife ==
  ASSUME LifeInv, HandleClose, rev \cap {"in", "close"} # {}
  PROVE  /\ PhaseOK' /\ st' = "kDisconnected"
         /\ st \in {"kConnected", "kDisconnecting"}
  <1>1. index = "kAdded"
    BY DEF LifeInv, RoundOK
  <1>2. st \in {"kConnected", "kDisconnecting"} /\ ups = 1 /\ downs = 0
    BY <1>1 DEF LifeInv, PhaseOK, TypeOK, ChannelTypes
  <1>3. st' = "kDisconnected" /\ index' = "kDeleted" /\ events' = {} /\ ups' = 1 /\ downs' = 1
    BY <1>1, <1>2 DEF HandleClose, Update, IndexAfter
  <1>4. QED
    BY <1>2, <1>3 DEF PhaseOK

LEMMA EventLife ==
  ASSUME LifeInv, Poll \/ EventClose \/ EventError \/ EventRead \/ EventWrite
  PROVE  EstOK' /\ PhaseOK' /\ RoundOK' /\ NoCloser'
  <1> USE DEF LifeInv
  <1>1. CASE Poll
    <2>1. UNCHANGED <<st, events, index, queue, batch, tpc, ups, downs>>
      BY <1>1 DEF Poll, chan, thr, calls
    <2>2. EstOK' /\ PhaseOK' /\ NoCloser'
      BY <2>1 DEF EstOK, PhaseOK, NoCloser, NoOp, EstablishedFirst
    <2>3. /\ rev' # {} => index = "kAdded"
          /\ ~({"in", "close"} \subseteq rev')
      BY <1>1 DEF Poll, Callbacks, Revents
    <2>4. QED
      BY <1>1, <2>1, <2>2, <2>3 DEF Poll, RoundOK
  <1>2. CASE EventClose
    <2>1. /\ "close" \in rev /\ rev' = rev \ {"close"} /\ lp = "event"
          /\ HandleClose /\ UNCHANGED <<queue, batch, lp, tpc>>
      BY <1>2 DEF EventClose, thr
    <2>2. PhaseOK' /\ st' = "kDisconnected" /\ st # "kConnecting"
      BY <2>1, HandleCloseLife
    <2>3. EstOK' /\ NoCloser'
      BY <2>1, <2>2 DEF EstOK, NoCloser, NoOp, EstablishedFirst
    <2>4. QED
      BY <2>1, <2>2, <2>3 DEF RoundOK
  <1>3. CASE EventError
    BY <1>3 DEF EventError, EstOK, PhaseOK, RoundOK, NoCloser, NoOp, EstablishedFirst,
       chan, thr, calls
  <1>4. CASE EventRead
    <2>1. /\ "in" \in rev /\ rev' = rev \ {"in"} /\ lp = "event"
          /\ rev \cap {"close", "err"} = {} /\ UNCHANGED <<queue, batch, tpc>>
      BY <1>4 DEF EventRead, thr
    <2>2. rev' \subseteq {"out"}
      BY <2>1 DEF TypeOK, LoopTypes
    <2>3. CASE HandleClose /\ UNCHANGED lp
      <3>1. PhaseOK' /\ st' = "kDisconnected" /\ st # "kConnecting"
        BY <2>1, <2>3, HandleCloseLife
      <3>2. EstOK' /\ NoCloser'
        BY <2>1, <3>1 DEF EstOK, NoCloser, NoOp, EstablishedFirst
      <3>3. QED
        BY <2>1, <2>2, <2>3, <3>1, <3>2 DEF RoundOK
    <2>4. CASE UNCHANGED <<st, chan, calls>> /\ lp' \in {"event", "userInEvent"}
      BY <2>1, <2>2, <2>4 DEF EstOK, PhaseOK, RoundOK, NoCloser, NoOp, EstablishedFirst,
         chan, calls
    <2>5. QED
      BY <1>4, <2>1, <2>3, <2>4 DEF EventRead
  <1>5. CASE EventWrite
    <2>1. /\ rev' = {} /\ UNCHANGED <<st, events, index, queue, batch, lp, tpc, ups, downs>>
      BY <1>5, NotWriting DEF EventWrite, chan, thr, calls
    <2>2. QED
      BY <2>1 DEF EstOK, PhaseOK, RoundOK, NoCloser, NoOp, EstablishedFirst
  <1>6. QED
    BY <1>1, <1>2, <1>3, <1>4, <1>5

LEMMA FunctorLife ==
  ASSUME LifeInv,
         \/ StartFunctors \/ RunEstablished \/ RunCallback \/ RunSend \/ RunShutdown
         \/ RunDestroyed \/ EndFunctors \/ UserReturns
  PROVE  EstOK' /\ PhaseOK' /\ RoundOK' /\ NoCloser'
  <1> USE DEF LifeInv
  <1>1. queue \in Seq(Functors) /\ batch \in Seq(Functors)
    BY DEF TypeOK, FunctorTypes
  <1>2. CASE StartFunctors \/ EndFunctors
    <2>1. /\ UNCHANGED <<st, events, index, tpc, ups, downs, rev>>
          /\ lp' \in {"functors", "poll"} /\ (lp' = "poll" => batch' = <<>>)
          /\ \/ UNCHANGED <<queue, batch>>
             \/ batch = <<>> /\ batch' = queue /\ queue' = <<>>
      BY <1>2 DEF StartFunctors, EndFunctors, RoundOK, chan, thr, calls
    <2>2. EstOK'
      BY <2>1 DEF EstOK, NoOp, EstablishedFirst
    <2>3. QED
      BY <2>1, <2>2 DEF PhaseOK, RoundOK, NoCloser
  <1>3. CASE UserReturns
    <2>1. UNCHANGED <<st, events, index, tpc, ups, downs, rev, queue, batch>>
      BY <1>3 DEF UserReturns, chan, thr, calls
    <2>2. RoundOK'
      BY <1>3, <2>1 DEF UserReturns, RoundOK
    <2>3. QED
      BY <2>1, <2>2 DEF EstOK, PhaseOK, NoCloser, NoOp, EstablishedFirst
  <1>4. ASSUME NEW op, NextFunctor(op), lp' \in {"functors", "userInFunctor"},
               UNCHANGED <<rev, tpc>>
        PROVE  RoundOK' /\ NoCloser'
    <2>1. rev = {}
      BY <1>4 DEF NextFunctor, TypeOK, LoopTypes
    <2>2. QED
      BY <1>4, <2>1 DEF RoundOK, NoCloser
  <1>5. CASE RunEstablished
    <2>1. /\ NextFunctor("established") /\ batch # <<>> /\ batch[1].op = "established"
          /\ st' = "kConnected" /\ Update(events \cup {"read"}) /\ ups' = ups + 1
          /\ UNCHANGED <<downs, queue, rev, tpc>> /\ lp' = "userInFunctor"
          /\ batch' = Tail(batch)
      BY <1>1, <1>5 DEF RunEstablished, NextFunctor, thr
    <2>2. st = "kConnecting" /\ EstablishedFirst(batch) /\ NoOp(queue, "established")
      BY <1>1, <2>1 DEF EstOK, NoOp
    <2>3. EstOK'
      BY <1>1, <2>1, <2>2, OpsAfterTail DEF EstOK
    <2>4. PhaseOK'
      BY <2>1, <2>2 DEF PhaseOK, Update, IndexAfter
    <2>5. QED
      BY <2>1, <2>3, <2>4, <1>4
  <1>6. ASSUME NEW op, op # "established", NextFunctor(op)
        PROVE  st # "kConnecting" /\ NoOp(batch', "established")
    <2>1. batch # <<>> /\ batch[1].op # "established" /\ batch' = Tail(batch)
      BY <1>1, <1>6 DEF NextFunctor
    <2>2. st # "kConnecting" /\ NoOp(batch, "established")
      BY <2>1 DEF EstOK, EstablishedFirst
    <2>3. QED
      BY <1>1, <2>1, <2>2, OpsAfterTail
  <1>7. CASE RunCallback
    <2>1. PICK op \in {"complete", "highWater"} : NextFunctor(op)
      BY <1>7 DEF RunCallback
    <2>2. UNCHANGED <<st, events, index, tpc, ups, downs, rev, queue>> /\ lp' = "userInFunctor"
      BY <1>7 DEF RunCallback, chan, thr, calls
    <2>3. EstOK' /\ PhaseOK'
      BY <2>1, <2>2, <1>6 DEF EstOK, PhaseOK, NoOp
    <2>4. QED
      BY <2>1, <2>2, <2>3, <1>4
  <1>8. CASE RunSend
    <2>1. /\ NextFunctor("send") /\ SendInLoop(Head(batch).msg)
          /\ UNCHANGED <<st, tpc, ups, downs, rev>> /\ lp' = "functors"
      BY <1>8 DEF RunSend, NextFunctor, thr, calls
    <2>2. Head(batch).msg \in Messages
      <3>1. Head(batch) \in Functors /\ Head(batch).op = "send"
        BY <1>1, <2>1 DEF NextFunctor
      <3>2. QED
        BY <3>1 DEF Functors
    <2>3. st # "kConnecting" /\ NoOp(batch', "established")
      BY <2>1, <1>6
    <2>4. PICK f \in {Functor("complete"), Functor("highWater")} :
            queue' \in {queue, Append(queue, f)}
      BY <2>1, <2>2, <2>3, SendKeepsLife
    <2>5. \/ UNCHANGED chan
          \/ st # "kDisconnected" /\ events' = events \cup {"write"} /\ index' = "kAdded"
      BY <2>1, <2>2, <2>3, SendKeepsLife
    <2>6. NoOp(queue', "established")
      BY <1>1, <2>3, <2>4, FunctorIs, OpsAfterAppend DEF EstOK
    <2>7. EstOK' /\ PhaseOK'
      BY <2>1, <2>3, <2>5, <2>6 DEF EstOK, PhaseOK, chan
    <2>8. QED
      BY <2>1, <2>7, <1>4
  <1>9. CASE RunShutdown
    <2>1. /\ NextFunctor("shutdown")
          /\ UNCHANGED <<st, events, index, tpc, ups, downs, rev, queue>> /\ lp' = "functors"
      BY <1>9 DEF RunShutdown, NextFunctor, chan, thr, calls
    <2>2. EstOK' /\ PhaseOK'
      BY <2>1, <1>6 DEF EstOK, PhaseOK, NoOp
    <2>3. QED
      BY <2>1, <2>2, <1>4
  <1>10. CASE RunDestroyed
    <2>1. /\ NextFunctor("destroyed") /\ ConnectDestroyed
          /\ UNCHANGED <<tpc, rev, queue>> /\ lp' = "functors"
      BY <1>10 DEF RunDestroyed, NextFunctor, thr
    <2>2. st # "kConnecting" /\ NoOp(batch', "established")
      BY <2>1, <1>6
    <2>3. PhaseOK' /\ st' # "kConnecting"
      BY <2>1, <2>2 DEF ConnectDestroyed, PhaseOK, calls
    <2>4. EstOK'
      BY <2>1, <2>2, <2>3 DEF EstOK
    <2>5. QED
      BY <2>1, <2>3, <2>4, <1>4
  <1>11. QED
    BY <1>2, <1>3, <1>5, <1>7, <1>8, <1>9, <1>10

LEMMA UserLife ==
  ASSUME LifeInv, UserShutsDown \/ \E m \in Messages : UserSends(m)
  PROVE  EstOK' /\ PhaseOK' /\ RoundOK' /\ NoCloser'
  <1> USE DEF LifeInv
  <1>1. CASE UserShutsDown
    BY <1>1 DEF UserShutsDown, EstOK, PhaseOK, RoundOK, NoCloser, NoOp, chan, thr, calls
  <1>2. ASSUME NEW m \in Messages, UserSends(m)
        PROVE  EstOK' /\ PhaseOK' /\ RoundOK' /\ NoCloser'
    <2>1. /\ st = "kConnected" /\ SendInLoop(m)
          /\ UNCHANGED <<st, batch, lp, rev, tpc, ups, downs>>
      BY <1>2 DEF UserSends, thr, calls
    <2>2. PICK f \in {Functor("complete"), Functor("highWater")} :
            queue' \in {queue, Append(queue, f)}
      BY <2>1, SendKeepsLife
    <2>3. \/ UNCHANGED chan
          \/ events' = events \cup {"write"} /\ index' = "kAdded"
      BY <2>1, SendKeepsLife
    <2>4. EstOK'
      BY <2>1, <2>2, FunctorIs, QueueingKeepsFirst
    <2>5. QED
      BY <2>1, <2>3, <2>4 DEF PhaseOK, RoundOK, NoCloser, chan
  <1>3. QED
    BY <1>1, <1>2

LEMMA OthersLife ==
  ASSUME LifeInv, Closers = {},
         \/ \E t \in Threads : ThreadReturns(t)
         \/ \E t \in Senders, m \in Messages : ThreadSends(t, m)
         \/ BaseRemoves \/ ServerDestroyed
  PROVE  EstOK' /\ PhaseOK' /\ RoundOK' /\ NoCloser'
  <1> USE DEF LifeInv
  <1>1. \/ UNCHANGED queue
        \/ queue' = Append(queue, Functor("destroyed"))
        \/ \E t \in Threads : ThreadQueuesSend(t)
    BY DEF ThreadReturns, ThreadSends, ThreadSetsDisconnecting, ThreadQueuesShutdown,
       ThreadStep, BaseRemoves, ServerDestroyed, NoCloser
  <1>2. \E f \in Functors : f.op # "established" /\ queue' \in {queue, Append(queue, f)}
    <2>1. ASSUME NEW t \in Threads, ThreadQueuesSend(t)
          PROVE  /\ SendFunctor(tmsg[t]) \in Functors
                 /\ SendFunctor(tmsg[t]).op # "established"
                 /\ queue' = Append(queue, SendFunctor(tmsg[t]))
      BY <2>1 DEF ThreadQueuesSend, ThreadStep, SendFunctor, Functors, TypeOK, OtherTypes
    <2>2. QED
      BY <1>1, <2>1, FunctorIs
  <1>3. UNCHANGED <<st, events, index, batch, lp, rev, ups, downs>>
    BY DEF ThreadReturns, ThreadSends, ThreadSetsDisconnecting, ThreadQueuesSend,
       ThreadQueuesShutdown, ThreadStep, BaseRemoves, ServerDestroyed, NoCloser, chan, calls
  <1>4. NoCloser'
    BY DEF ThreadReturns, ThreadSends, ThreadSetsDisconnecting, ThreadQueuesSend, Threads,
       ThreadQueuesShutdown, ThreadStep, BaseRemoves, ServerDestroyed, NoCloser, thr,
       TypeOK, OtherTypes
  <1>5. EstOK'
    BY <1>2, <1>3, QueueingKeepsFirst
  <1>6. QED
    BY <1>3, <1>4, <1>5 DEF PhaseOK, RoundOK

LEMMA NextLife == ASSUME LifeInv, TypeOK', Closers = {}, [Next]_vars PROVE LifeInv'
  <1>1. CASE LoopStep
    BY <1>1, EventLife, FunctorLife DEF LoopStep, LifeInv
  <1>2. CASE UserShutsDown \/ \E m \in Messages : UserSends(m)
    BY <1>2, UserLife DEF LifeInv
  <1>3. CASE \/ \E t \in Threads : ThreadReturns(t)
             \/ \E t \in Senders, m \in Messages : ThreadSends(t, m)
             \/ BaseRemoves \/ ServerDestroyed
    BY <1>3, OthersLife DEF LifeInv
  <1>4. CASE PeerSends \/ PeerReceives \/ PeerCloses \/ PeerResets \/ UNCHANGED vars
    <2>1. UNCHANGED <<st, events, index, queue, batch, lp, rev, tpc, ups, downs>>
      BY <1>4 DEF PeerSends, PeerReceives, PeerCloses, PeerResets, vars, chan, thr, calls
    <2>2. QED
      BY <2>1 DEF LifeInv, EstOK, PhaseOK, RoundOK, NoCloser, NoOp, EstablishedFirst
  <1>5. QED
    BY <1>1, <1>2, <1>3, <1>4 DEF Next

LEMMA AlwaysLife == ASSUME Closers = {} PROVE Spec => []LifeInv
  <1>1. TypeOK /\ TypeOK' /\ LifeInv /\ [Next]_vars => LifeInv'
    BY NextLife
  <1>2. StreamInv => TypeOK
    BY DEF StreamInv
  <1>3. QED
    BY <1>1, <1>2, InitLife, AlwaysStreamInv, PTL DEF Spec

\* Every connection goes up once and then down at most once, and its poller does
\* not know it afterwards, if only its own loop shuts it down: handleClose and
\* connectDestroyed never both report it (handleClose, connectDestroyed).
THEOREM ConnectionGoesUpThenDownOnce ==
  ASSUME Closers = {} PROVE Spec => []UpThenDownOnce
  <1>1. LifeInv => UpThenDownOnce
    BY DEF LifeInv, TypeOK, ChannelTypes, PhaseOK, UpThenDownOnce
  <1>2. QED
    BY <1>1, AlwaysLife, PTL

\* Under the same condition isWriting() is never true: why outputBuffer_ is never
\* drained (Channel.h, isWriting; handleWrite, shutdownInLoop).
THEOREM ChannelNeverIsWriting ==
  ASSUME Closers = {} PROVE Spec => []~IsWriting
  <1>1. LifeInv => ~IsWriting
    BY NotWriting DEF LifeInv
  <1>2. QED
    BY <1>1, AlwaysLife, PTL

------------------------------------------------------------------------------
(* What was begun is carried out, if only the loop's own thread shuts the    *)
(* connection down: the links of PeerCloseRemoves and ShutdownTakesEffect.   *)

DestroyComing == ~NoOp(queue, "destroyed") \/ ~NoOp(batch, "destroyed")

\* While the server is up a connection is removed only after handleClose, and
\* one that is down has its removal, then its connectDestroyed, still to come.
GoingInv ==
  /\ st = "kDisconnecting" => wrShut
  /\ serverUp /\ st # "kDisconnected" =>
       removals = 0 /\ ~DestroyComing /\ (st # "kConnecting" => index = "kAdded")
  /\ serverUp /\ DestroyComing => ~inMap
  /\ serverUp /\ st = "kDisconnected" =>
       removals > 0 \/ (~inMap /\ (DestroyComing \/ index = "kNew"))

LEMMA DestroyedAfterAppend ==
  ASSUME NEW s \in Seq(Functors), NEW f \in Functors
  PROVE  NoOp(Append(s, f), "destroyed") <=> NoOp(s, "destroyed") /\ f.op # "destroyed"
  <1>1. /\ Len(Append(s, f)) = Len(s) + 1 /\ Append(s, f)[Len(s) + 1] = f
        /\ \A i \in 1..Len(s) : Append(s, f)[i] = s[i]
        /\ Len(s) \in Nat
    OBVIOUS
  <1>2. 1..(Len(s) + 1) = (1..Len(s)) \cup {Len(s) + 1}
    BY <1>1
  <1>3. QED
    BY ONLY <1>1, <1>2 DEF NoOp

LEMMA DestroyedAfterTail ==
  ASSUME NEW s \in Seq(Functors), s # <<>>, s[1].op # "destroyed"
  PROVE  NoOp(Tail(s), "destroyed") <=> NoOp(s, "destroyed")
  <1>1. /\ Len(Tail(s)) = Len(s) - 1 /\ Len(s) \in Nat \ {0}
        /\ \A i \in 1..Len(Tail(s)) : Tail(s)[i] = s[i + 1]
    OBVIOUS
  <1>2. ASSUME NoOp(s, "destroyed") PROVE NoOp(Tail(s), "destroyed")
    BY <1>1, <1>2 DEF NoOp
  <1>3. ASSUME NoOp(Tail(s), "destroyed"), NEW i \in 1..Len(s) PROVE s[i].op # "destroyed"
    <2>1. CASE i = 1
      BY <2>1
    <2>2. CASE i # 1
      <3>1. i - 1 \in 1..Len(Tail(s)) /\ (i - 1) + 1 = i
        BY <1>1, <2>2
      <3>2. Tail(s)[i - 1] = s[i]
        BY <1>1, <3>1
      <3>3. QED
        BY <1>3, <3>1, <3>2 DEF NoOp
    <2>3. QED
      BY <2>1, <2>2
  <1>4. QED
    BY <1>2, <1>3 DEF NoOp

\* Steps that touch neither the life of the connection nor what is queued for it.
LEMMA GoingSame ==
  ASSUME GoingInv, UNCHANGED <<st, index, inMap, removals, serverUp>>, wrShut => wrShut',
         DestroyComing' <=> DestroyComing
  PROVE  GoingInv'
  BY DEF GoingInv

LEMMA HandleCloseGoing ==
  ASSUME LifeInv, GoingInv, HandleClose, UNCHANGED <<queue, batch>>
  PROVE  GoingInv'
  <1>1. st' = "kDisconnected" /\ removals' > 0 /\ UNCHANGED <<inMap, serverUp>>
    BY DEF HandleClose, LifeInv, TypeOK, OtherTypes
  <1>2. DestroyComing' <=> DestroyComing
    BY DEF DestroyComing, NoOp
  <1>3. QED
    BY <1>1, <1>2 DEF GoingInv

LEMMA SendGoing ==
  ASSUME LifeInv, GoingInv, NEW m \in Messages, SendInLoop(m), st # "kConnecting",
         UNCHANGED <<st, server, sock>>, NoOp(batch', "destroyed") <=> NoOp(batch, "destroyed")
  PROVE  GoingInv'
  <1>1. PICK f \in {Functor("complete"), Functor("highWater")} :
          queue' \in {queue, Append(queue, f)}
    BY SendKeepsLife
  <1>2. f \in Functors /\ f.op # "destroyed" /\ queue \in Seq(Functors)
    BY FunctorIs DEF LifeInv, TypeOK, FunctorTypes
  <1>3. NoOp(Append(queue, f), "destroyed") <=> NoOp(queue, "destroyed")
    BY ONLY <1>2, DestroyedAfterAppend
  <1>4. NoOp(queue', "destroyed") <=> NoOp(queue, "destroyed")
    BY <1>1, <1>3
  <1>5. DestroyComing' <=> DestroyComing
    BY <1>4 DEF DestroyComing
  <1>6. UNCHANGED <<st, inMap, removals, serverUp, wrShut>>
    BY DEF server, sock
  <1>7. index' = index \/ (st # "kDisconnected" /\ index' = "kAdded")
    BY SendKeepsLife DEF chan
  <1>8. QED
    BY <1>5, <1>6, <1>7 DEF GoingInv

LEMMA EventGoing ==
  ASSUME LifeInv, GoingInv,
         Poll \/ EventClose \/ EventError \/ EventRead \/ EventWrite \/ EndFunctors \/ UserReturns
  PROVE  GoingInv'
  <1>1. ~IsWriting
    BY NotWriting DEF LifeInv
  <1>2. CASE HandleClose
    BY <1>1, <1>2, HandleCloseGoing DEF Poll, EventClose, EventError, EventRead, EventWrite,
       EndFunctors, UserReturns
  <1>3. CASE ~HandleClose
    <2>1. UNCHANGED <<st, index, inMap, removals, serverUp, wrShut, queue, batch>>
      BY <1>1, <1>3 DEF Poll, EventClose, EventError, EventRead, EventWrite, EndFunctors,
         UserReturns, chan, server, sock
    <2>2. DestroyComing' <=> DestroyComing
      BY <2>1 DEF DestroyComing, NoOp
    <2>3. QED
      BY <2>1, <2>2, GoingSame
  <1>4. QED
    BY <1>2, <1>3

LEMMA FunctorGoing ==
  ASSUME LifeInv, GoingInv,
         StartFunctors \/ RunEstablished \/ RunCallback \/ RunSend \/ RunShutdown \/ RunDestroyed
  PROVE  GoingInv'
  <1>1. queue \in Seq(Functors) /\ batch \in Seq(Functors)
    BY DEF LifeInv, TypeOK, FunctorTypes
  <1>2. CASE StartFunctors
    <2>1. batch = <<>> /\ batch' = queue /\ queue' = <<>>
      BY <1>2 DEF StartFunctors, LifeInv, RoundOK
    <2>2. DestroyComing' <=> DestroyComing
      BY <2>1 DEF DestroyComing, NoOp
    <2>3. UNCHANGED <<st, index, inMap, removals, serverUp, wrShut>>
      BY <1>2 DEF StartFunctors, chan, server, sock
    <2>4. QED
      BY <2>2, <2>3, GoingSame
  <1>3. ASSUME NEW op, NextFunctor(op)
        PROVE  /\ batch # <<>> /\ batch[1] \in Functors /\ batch[1] = Head(batch)
               /\ batch[1].op = op /\ batch' = Tail(batch)
    BY <1>1, <1>3 DEF NextFunctor
  <1>4. ASSUME NEW op, NextFunctor(op), op # "destroyed"
        PROVE  NoOp(batch', "destroyed") <=> NoOp(batch, "destroyed")
    <2>1. batch # <<>> /\ batch[1].op # "destroyed" /\ batch' = Tail(batch)
      BY <1>3, <1>4
    <2>2. NoOp(Tail(batch), "destroyed") <=> NoOp(batch, "destroyed")
      BY ONLY <1>1, <2>1, DestroyedAfterTail
    <2>3. QED
      BY <2>1, <2>2
  <1>5. ASSUME NEW op, NextFunctor(op), op # "established"
        PROVE  st # "kConnecting"
    <2>1. batch # <<>> /\ batch[1].op = op
      BY <1>3, <1>5
    <2>2. QED
      BY <1>5, <2>1 DEF LifeInv, EstOK, EstablishedFirst
  <1>6. CASE RunEstablished
    <2>1. /\ st' = "kConnected" /\ NextFunctor("established")
          /\ UNCHANGED <<queue, inMap, removals, serverUp>>
          /\ index' = IndexAfter(events \cup {"read"})
      BY <1>6 DEF RunEstablished, Update, server
    <2>2. index' = "kAdded"
      BY <2>1 DEF IndexAfter
    <2>3. st = "kConnecting"
      <3>1. batch # <<>> /\ batch[1].op = "established" /\ 1 \in 1..Len(batch)
        BY <1>1, <1>3, <2>1
      <3>2. QED
        BY <3>1 DEF LifeInv, EstOK, NoOp
    <2>4. DestroyComing' <=> DestroyComing
      BY <1>4, <2>1 DEF DestroyComing
    <2>5. QED
      BY <2>1, <2>2, <2>3, <2>4 DEF GoingInv
  <1>7. CASE RunCallback \/ RunShutdown
    <2>1. PICK op \in {"complete", "highWater", "shutdown"} : NextFunctor(op)
      BY <1>7 DEF RunCallback, RunShutdown
    <2>2. /\ UNCHANGED <<st, index, inMap, removals, serverUp, queue>>
          /\ wrShut => wrShut'
      <3>1. wrShut => wrShut'
        BY <1>7 DEF RunCallback, RunShutdown, ShutdownInLoop, sock
      <3>2. UNCHANGED <<st, index, inMap, removals, serverUp, queue>>
        BY <1>7 DEF RunCallback, RunShutdown, chan, server
      <3>3. QED
        BY <3>1, <3>2
    <2>3. DestroyComing' <=> DestroyComing
      BY <1>4, <2>1, <2>2 DEF DestroyComing
    <2>4. QED
      BY <2>2, <2>3, GoingSame
  <1>8. CASE RunSend
    <2>1. NextFunctor("send") /\ SendInLoop(Head(batch).msg) /\ UNCHANGED <<st, server, sock>>
      BY <1>8 DEF RunSend
    <2>2. Head(batch).msg \in Messages
      BY <1>3, <2>1 DEF Functors
    <2>3. st # "kConnecting" /\ (NoOp(batch', "destroyed") <=> NoOp(batch, "destroyed"))
      BY <1>4, <1>5, <2>1
    <2>4. QED
      BY <2>1, <2>2, <2>3, SendGoing
  <1>9. CASE RunDestroyed
    <2>1. /\ NextFunctor("destroyed") /\ index' = "kNew"
          /\ UNCHANGED <<inMap, removals, serverUp, wrShut>>
          /\ st' \in {st, "kDisconnected"}
          /\ st = "kDisconnected" => st' = st
      BY <1>9 DEF RunDestroyed, ConnectDestroyed, server, sock
    <2>2. DestroyComing
      <3>1. batch[1].op = "destroyed" /\ 1 \in 1..Len(batch)
        BY <1>1, <1>3, <2>1
      <3>2. QED
        BY <3>1 DEF DestroyComing, NoOp
    <2>3. serverUp => ~inMap /\ st = "kDisconnected"
      BY <2>2 DEF GoingInv
    <2>4. QED
      BY <2>1, <2>3 DEF GoingInv
  <1>10. QED
    BY <1>2, <1>6, <1>7, <1>8, <1>9

LEMMA OthersGoing ==
  ASSUME LifeInv, GoingInv, Closers = {},
         \/ \E t \in Threads : ThreadReturns(t)
         \/ \E t \in Senders, m \in Messages : ThreadSends(t, m)
         \/ BaseRemoves \/ ServerDestroyed
  PROVE  GoingInv'
  <1>1. queue \in Seq(Functors)
    BY DEF LifeInv, TypeOK, FunctorTypes
  <1>2. ASSUME NEW t \in Threads, ThreadReturns(t) PROVE GoingInv'
    <2>1. ThreadQueuesSend(t)
      BY <1>2 DEF ThreadReturns, ThreadSetsDisconnecting, ThreadQueuesShutdown, ThreadStep,
         LifeInv, NoCloser
    <2>2. /\ SendFunctor(tmsg[t]) \in Functors /\ SendFunctor(tmsg[t]).op # "destroyed"
          /\ queue' = Append(queue, SendFunctor(tmsg[t])) /\ UNCHANGED batch
      BY <2>1 DEF ThreadQueuesSend, ThreadStep, SendFunctor, Functors, LifeInv, TypeOK, OtherTypes
    <2>3. NoOp(queue', "destroyed") <=> NoOp(queue, "destroyed")
      BY <1>1, <2>2, DestroyedAfterAppend
    <2>4. DestroyComing' <=> DestroyComing
      BY <2>2, <2>3 DEF DestroyComing, NoOp
    <2>5. UNCHANGED <<st, index, inMap, removals, serverUp, wrShut>>
      BY <2>1 DEF ThreadQueuesSend, chan, server, sock
    <2>6. QED
      BY <2>4, <2>5, GoingSame
  <1>3. ASSUME NEW t \in Senders, NEW m \in Messages, ThreadSends(t, m) PROVE GoingInv'
    <2>1. UNCHANGED <<st, index, inMap, removals, serverUp, wrShut, queue, batch>>
      BY <1>3 DEF ThreadSends, chan, server, sock
    <2>2. DestroyComing' <=> DestroyComing
      BY <2>1 DEF DestroyComing, NoOp
    <2>3. QED
      BY <2>1, <2>2, GoingSame
  <1>4. CASE BaseRemoves
    <2>1. /\ serverUp /\ removals > 0 /\ inMap' = FALSE
          /\ queue' = Append(queue, Functor("destroyed"))
          /\ UNCHANGED <<st, serverUp, wrShut>>
      BY <1>4 DEF BaseRemoves, sock
    <2>2. st = "kDisconnected"
      BY <2>1 DEF GoingInv
    <2>3. ~NoOp(queue', "destroyed")
      BY <1>1, <2>1, FunctorIs, DestroyedAfterAppend
    <2>4. QED
      BY <2>1, <2>2, <2>3 DEF GoingInv, DestroyComing
  <1>5. CASE ServerDestroyed
    <2>1. ~serverUp' /\ UNCHANGED <<st, wrShut>>
      BY <1>5 DEF ServerDestroyed, sock
    <2>2. QED
      BY <2>1 DEF GoingInv
  <1>6. QED
    BY <1>2, <1>3, <1>4, <1>5

LEMMA NextGoing ==
  ASSUME LifeInv, GoingInv, Closers = {}, [Next]_vars PROVE GoingInv'
  <1>1. CASE LoopStep
    BY <1>1, EventGoing, FunctorGoing DEF LoopStep
  <1>2. CASE UserShutsDown
    <2>1. wrShut'
      BY <1>2, NotWriting DEF UserShutsDown, ShutdownInLoop, LifeInv
    <2>2. /\ st = "kConnected" /\ st' = "kDisconnecting"
          /\ UNCHANGED <<index, inMap, removals, serverUp, queue, batch>>
      BY <1>2 DEF UserShutsDown, chan, server
    <2>3. DestroyComing' <=> DestroyComing
      BY <2>2 DEF DestroyComing, NoOp
    <2>4. QED
      BY <2>1, <2>2, <2>3 DEF GoingInv
  <1>3. ASSUME NEW m \in Messages, UserSends(m) PROVE GoingInv'
    <2>1. SendInLoop(m) /\ st = "kConnected" /\ UNCHANGED <<st, batch, server, sock>>
      BY <1>3 DEF UserSends
    <2>2. NoOp(batch', "destroyed") <=> NoOp(batch, "destroyed")
      BY <2>1 DEF NoOp
    <2>3. QED
      BY <2>1, <2>2, SendGoing
  <1>4. CASE \/ \E t \in Threads : ThreadReturns(t)
             \/ \E t \in Senders, m \in Messages : ThreadSends(t, m)
             \/ BaseRemoves \/ ServerDestroyed
    BY <1>4, OthersGoing
  <1>5. CASE PeerSends \/ PeerReceives \/ PeerCloses \/ PeerResets \/ UNCHANGED vars
    <2>1. UNCHANGED <<st, index, inMap, removals, serverUp, wrShut, queue, batch>>
      BY <1>5 DEF PeerSends, PeerReceives, PeerCloses, PeerResets, vars, chan, server, sock
    <2>2. DestroyComing' <=> DestroyComing
      BY <2>1 DEF DestroyComing, NoOp
    <2>3. QED
      BY <2>1, <2>2, GoingSame
  <1>6. ASSUME NEW t \in Closers, ThreadChecksShutdown(t) PROVE FALSE
    BY <1>6
  <1>7. QED
    BY <1>1, <1>2, <1>3, <1>4, <1>5, <1>6 DEF Next

\* While the server is up: epoll reports the close of a live connection's peer;
\* a shut down connection has its write side shut; and one that went down is
\* still to be removed by the base loop, or left the map and is still to be
\* destroyed by its own loop, or that is done.
ClosingGoesOn ==
  serverUp =>
    /\ st \in {"kConnected", "kDisconnecting"} /\ peer # "open" => index = "kAdded" /\ "in" \in Callbacks
    /\ st = "kDisconnecting" => wrShut
    /\ st = "kDisconnected" => removals > 0 \/ (~inMap /\ (DestroyComing \/ index = "kNew"))

\* No link of a connection's end is lost, whatever the order of the peer's
\* close, shutdown, removal and sends of other threads, if only its own loop
\* shuts it down (handleClose, removeConnectionInLoop, connectDestroyed): the
\* safety half of PeerCloseRemoves and ShutdownTakesEffect.
THEOREM ClosingIsCarriedOn ==
  ASSUME Closers = {} PROVE Spec => []ClosingGoesOn
  <1>1. Init => GoingInv
    BY DEF Init, GoingInv, DestroyComing, NoOp, Functor
  <1>2. LifeInv /\ GoingInv /\ [Next]_vars => GoingInv'
    BY NextGoing
  <1>3. LifeInv /\ GoingInv => ClosingGoesOn
    <2> SUFFICES ASSUME LifeInv, GoingInv, serverUp
                 PROVE  ClosingGoesOn
      BY DEF ClosingGoesOn
    <2>1. ASSUME st \in {"kConnected", "kDisconnecting"}, peer # "open"
          PROVE  index = "kAdded" /\ "in" \in Callbacks
      <3>1. index = "kAdded" /\ "read" \in events
        BY <2>1 DEF GoingInv, LifeInv, PhaseOK
      <3>2. "in" \in Revents
        BY <2>1, <3>1 DEF Revents
      <3>3. QED
        BY <3>1, <3>2 DEF Callbacks
    <2>2. QED
      BY <2>1 DEF GoingInv, ClosingGoesOn
  <1>4. QED
    BY <1>1, <1>2, <1>3, AlwaysLife, PTL DEF Spec

==============================================================================
