---------------------------- MODULE TcpConnection ----------------------------
(***************************************************************************)
(* One TcpConnection of 7_myMuduo: its state, its channel and its output   *)
(* buffer, driven by its io loop, by other threads that call send() and    *)
(* shutdown(), by the base loop that removes it, and by the peer.          *)
(*                                                                         *)
(* A message is Pieces(m), two units, so that the kernel, whose send       *)
(* buffer has room for Room units, may take half of one.  inbox says that  *)
(* something is there to be read; its content does not matter.  Other      *)
(* threads keep their TcpConnectionPtr, so the object outlives its         *)
(* functors (TcpServer is about the cases where it does not), and SIGPIPE  *)
(* is ignored by the application, so that a write can fail with EPIPE as   *)
(* sendInLoop expects.                                                     *)
(***************************************************************************)
EXTENDS Integers, Sequences

CONSTANTS Messages,    \* each is sent at most once
          Senders,     \* threads other than the loop's that call send()
          Closers,     \* threads other than the loop's that call shutdown()
          Room,        \* units the kernel's send buffer holds
          HighWater,   \* highWaterMark_, in units
          None

ASSUME RoomAssumption == Room \in Nat \ {0} /\ HighWater \in Nat \ {0}
ASSUME NoneAssumption == None \notin Messages

Threads == Senders \cup Closers

VARIABLES st,          \* state_
          events,      \* the channel's events_
          index,       \* the channel's index_
          out,         \* outputBuffer_
          queue,       \* the functors of this connection in pendingFunctors_
          batch,       \* those of doPendingFunctors' local vector
          lp,          \* what the io loop is doing
          rev,         \* the callbacks handleEventWithGuard has still to make
          tpc, tmsg,   \* where the other threads are, and what they send
          inMap,       \* TcpServer's connections_ holds the connection
          removals,    \* calls of removeConnectionInLoop queued on the base loop
          serverUp,    \* TcpServer has not been destroyed
          room,        \* kernel: free units in the send buffer
          wrShut,      \* kernel: the write side was shut down
          peer,        \* kernel: "open", or the peer sent "fin" or "rst"
          soErr,       \* kernel: a pending socket error
          inbox,       \* kernel: there is something to read
          sent,        \* history: the units the kernel took
          accepted,    \* history: the units of the messages send took
          brokenPipe,  \* history: a write on the side shut down
          ups, downs   \* history: calls of connectionCallback_

chan   == <<events, index>>
thr    == <<tpc, tmsg>>
server == <<inMap, removals, serverUp>>
sock   == <<wrShut, peer, inbox>>
data   == <<out, sent, accepted, room, soErr, brokenPipe>>
calls  == <<ups, downs>>
vars   == <<st, chan, queue, batch, lp, rev, thr, server, sock, data, calls>>

Pieces(m) == <<<<m, 1>>, <<m, 2>>>>
Functor(op) == [op |-> op, msg |-> None]
SendFunctor(m) == [op |-> "send", msg |-> m]
Used == {accepted[i][1] : i \in 1..Len(accepted)}

\* The state TcpServer::newConnection leaves behind.
Init ==
  /\ st = "kConnecting"
  /\ events = {} /\ index = "kNew"
  /\ out = <<>> /\ sent = <<>> /\ accepted = <<>>
  /\ room = Room /\ soErr = FALSE /\ brokenPipe = FALSE
  /\ queue = <<Functor("established")>> /\ batch = <<>>
  /\ lp = "poll" /\ rev = {}
  /\ tpc = [t \in Threads |-> "idle"] /\ tmsg = [t \in Threads |-> None]
  /\ inMap = TRUE /\ removals = 0 /\ serverUp = TRUE
  /\ wrShut = FALSE /\ peer = "open" /\ inbox = FALSE
  /\ ups = 0 /\ downs = 0

------------------------------------------------------------------------------
(* The channel.                                                             *)

\* Mutant of IsWriting: the test for the bit, as it is usually written.
IsWritingBit == "write" \in events

\* Compares the whole mask: false as soon as reading is enabled too.
IsWriting == events = {"write"}

\* updateChannel for a channel whose events_ become ev.
IndexAfter(ev) == IF index = "kAdded" /\ ev = {} THEN "kDeleted" ELSE "kAdded"

Update(ev) == events' = ev /\ index' = IndexAfter(ev)

\* What epoll reports for the descriptor, and which callbacks
\* handleEventWithGuard makes of it.
Revents ==
  {e \in {"in", "out", "err", "hup"} :
     \/ e = "in"  /\ "read" \in events /\ (inbox \/ peer # "open")
     \/ e = "out" /\ "write" \in events /\ (room > 0 \/ wrShut \/ peer = "rst")
     \/ e = "err" /\ soErr
     \/ e = "hup" /\ (peer = "rst" \/ (peer = "fin" /\ wrShut))}

Callbacks ==
  IF "hup" \in Revents /\ "in" \notin Revents
    THEN (Revents \ {"hup"}) \cup {"close"}
    ELSE Revents \ {"hup"}

------------------------------------------------------------------------------
(* Writing.                                                                 *)

\* write(2) on the descriptor with something to write.
WriteFails == wrShut \/ peer = "rst"
Taken(s) == IF WriteFails THEN 0
            ELSE IF Len(s) < room THEN Len(s) ELSE room
From(s, n) == SubSeq(s, n + 1, Len(s))

KernelTakes(s, n) ==
  /\ sent' = sent \o SubSeq(s, 1, n)
  /\ room' = room - n
  /\ soErr' = (soErr /\ ~WriteFails)
  /\ brokenPipe' = (brokenPipe \/ wrShut)

\* What is left of a message goes to the output buffer, and the channel waits
\* for EPOLLOUT.
Buffered(rest) ==
  /\ out' = out \o rest
  /\ queue' = IF Len(out) < HighWater /\ Len(out) + Len(rest) >= HighWater
                THEN Append(queue, Functor("highWater")) ELSE queue
  /\ IF IsWriting THEN UNCHANGED chan ELSE Update(events \cup {"write"})

\* Mutant of SendInLoop: the output buffer is not looked at.
SendInLoopOvertaking(m) ==
  \/ /\ st # "kDisconnected"
     /\ ~IsWriting /\ ~WriteFails
     /\ LET n == Taken(Pieces(m)) IN
          /\ KernelTakes(Pieces(m), n)
          /\ IF n = 2 THEN /\ queue' = Append(queue, Functor("complete"))
                           /\ UNCHANGED <<out, chan>>
                      ELSE Buffered(From(Pieces(m), n))
          /\ accepted' = accepted \o Pieces(m)
  \/ /\ st = "kDisconnected" \/ IsWriting \/ WriteFails
     /\ UNCHANGED <<queue, chan, data>>

SendInLoop(m) ==
  \/ /\ st = "kDisconnected"
     /\ UNCHANGED <<queue, chan, data>>
  \/ /\ st # "kDisconnected"
     /\ ~IsWriting /\ out = <<>>
     /\ IF WriteFails
          THEN /\ KernelTakes(<<>>, 0)
               /\ UNCHANGED <<queue, chan, out, accepted>>
          ELSE LET n == Taken(Pieces(m)) IN
               /\ KernelTakes(Pieces(m), n)
               /\ IF n = Len(Pieces(m))
                    THEN /\ queue' = Append(queue, Functor("complete"))
                         /\ UNCHANGED <<out, chan>>
                    ELSE Buffered(From(Pieces(m), n))
               /\ accepted' = accepted \o Pieces(m)
  \/ /\ st # "kDisconnected"
     /\ IsWriting \/ out # <<>>
     /\ Buffered(Pieces(m))
     /\ accepted' = accepted \o Pieces(m)
     /\ UNCHANGED <<sent, room, soErr, brokenPipe>>

ShutdownInLoop == wrShut' = (wrShut \/ ~IsWriting)

------------------------------------------------------------------------------
(* Closing.                                                                 *)

\* Mutant of HandleClose: the channel stays registered.
HandleCloseRegistered ==
  /\ st' = "kDisconnected"
  /\ downs' = downs + 1
  /\ removals' = removals + 1
  /\ UNCHANGED <<chan, inMap, serverUp, ups>>

\* connectionCallback_ finds the connection down and can do nothing with it;
\* closeCallback_ queues removeConnectionInLoop on the base loop.
HandleClose ==
  /\ st' = "kDisconnected"
  /\ Update({})
  /\ downs' = downs + 1
  /\ removals' = removals + 1
  /\ UNCHANGED <<inMap, serverUp, ups>>

\* Mutant of ConnectDestroyed: the state is not looked at.
ConnectDestroyedAnyState ==
  /\ st' = "kDisconnected"
  /\ events' = {}
  /\ index' = "kNew"
  /\ downs' = downs + 1
  /\ UNCHANGED ups

ConnectDestroyed ==
  /\ index' = "kNew"
  /\ IF st = "kConnected"
       THEN /\ st' = "kDisconnected"
            /\ events' = {}
            /\ downs' = downs + 1
            /\ UNCHANGED ups
       ELSE UNCHANGED <<st, events, calls>>

------------------------------------------------------------------------------
(* The io loop.                                                             *)

\* epoll_wait returns for the descriptor or for the eventfd.
Poll ==
  /\ lp = "poll"
  /\ rev' = IF index = "kAdded" THEN Callbacks ELSE {}
  /\ rev' # {} \/ queue # <<>>
  /\ lp' = "event"
  /\ UNCHANGED <<st, chan, queue, batch, thr, server, sock, data, calls>>

EventClose ==
  /\ lp = "event"
  /\ "close" \in rev
  /\ rev' = rev \ {"close"}
  /\ HandleClose
  /\ UNCHANGED <<queue, batch, lp, thr, sock, data>>

\* handleError only reads, and so clears, the socket's error.
EventError ==
  /\ lp = "event"
  /\ "close" \notin rev /\ "err" \in rev
  /\ rev' = rev \ {"err"}
  /\ soErr' = FALSE
  /\ UNCHANGED <<st, chan, queue, batch, lp, thr, server, sock, out, sent,
                 accepted, room, brokenPipe, calls>>

\* handleRead: data goes to messageCallback_, an error to handleError, end of
\* file to handleClose.
EventRead ==
  /\ lp = "event"
  /\ rev \cap {"close", "err"} = {} /\ "in" \in rev
  /\ rev' = rev \ {"in"}
  /\ \/ /\ inbox
        /\ inbox' = FALSE
        /\ lp' = "userInEvent"
        /\ UNCHANGED <<st, chan, server, calls, data>>
     \/ /\ ~inbox /\ soErr
        /\ soErr' = FALSE
        /\ UNCHANGED <<st, chan, lp, server, calls, inbox, out, sent, accepted,
                       room, brokenPipe>>
     \/ /\ ~inbox /\ ~soErr
        /\ HandleClose
        /\ UNCHANGED <<lp, inbox, data>>
  /\ UNCHANGED <<queue, batch, thr, wrShut, peer>>

\* handleWrite.
EventWrite ==
  /\ lp = "event"
  /\ rev = {"out"}
  /\ rev' = {}
  /\ IF IsWriting
       THEN LET n == Taken(out) IN
            /\ KernelTakes(out, n)
            /\ out' = From(out, n)
            /\ IF n > 0 /\ out' = <<>>
                 THEN /\ Update(events \ {"write"})
                      /\ queue' = Append(queue, Functor("complete"))
                      /\ wrShut' = (wrShut \/ st = "kDisconnected")
                 ELSE UNCHANGED <<chan, queue, wrShut>>
       ELSE UNCHANGED <<chan, queue, wrShut, out, sent, room, soErr, brokenPipe>>
  /\ UNCHANGED <<st, batch, lp, thr, server, peer, inbox, accepted, calls>>

StartFunctors ==
  /\ lp = "event"
  /\ rev = {}
  /\ batch' = queue
  /\ queue' = <<>>
  /\ lp' = "functors"
  /\ UNCHANGED <<st, chan, rev, thr, server, sock, data, calls>>

NextFunctor(op) ==
  /\ lp = "functors"
  /\ batch # <<>>
  /\ Head(batch).op = op
  /\ batch' = Tail(batch)

RunEstablished ==
  /\ NextFunctor("established")
  /\ st' = "kConnected"
  /\ Update(events \cup {"read"})
  /\ ups' = ups + 1
  /\ lp' = "userInFunctor"
  /\ UNCHANGED <<queue, rev, thr, server, sock, data, downs>>

\* writeCompleteCallback_ or highWaterMarkCallback_.
RunCallback ==
  /\ NextFunctor("complete") \/ NextFunctor("highWater")
  /\ lp' = "userInFunctor"
  /\ UNCHANGED <<st, chan, queue, rev, thr, server, sock, data, calls>>

RunSend ==
  /\ NextFunctor("send")
  /\ SendInLoop(Head(batch).msg)
  /\ UNCHANGED <<st, lp, rev, thr, server, sock, calls>>

RunShutdown ==
  /\ NextFunctor("shutdown")
  /\ ShutdownInLoop
  /\ UNCHANGED <<st, chan, queue, lp, rev, thr, server, peer, inbox, data, calls>>

RunDestroyed ==
  /\ NextFunctor("destroyed")
  /\ ConnectDestroyed
  /\ UNCHANGED <<queue, lp, rev, thr, server, sock, data>>

EndFunctors ==
  /\ lp = "functors"
  /\ batch = <<>>
  /\ lp' = "poll"
  /\ UNCHANGED <<st, chan, queue, batch, rev, thr, server, sock, data, calls>>

UserReturns ==
  \/ /\ lp = "userInEvent"
     /\ lp' = "event"
     /\ UNCHANGED <<st, chan, queue, batch, rev, thr, server, sock, data, calls>>
  \/ /\ lp = "userInFunctor"
     /\ lp' = "functors"
     /\ UNCHANGED <<st, chan, queue, batch, rev, thr, server, sock, data, calls>>

InUserCode == lp \in {"userInEvent", "userInFunctor"}

\* No call of send is in progress for m and none was accepted.
Fresh(m) ==
  /\ m \notin Used
  /\ \A t \in Threads : tmsg[t] # m
  /\ \A i \in 1..Len(queue) : queue[i].msg # m
  /\ \A i \in 1..Len(batch) : batch[i].msg # m

\* send and shutdown called from a callback, in the loop's own thread.
UserSends(m) ==
  /\ InUserCode
  /\ Fresh(m)
  /\ st = "kConnected"
  /\ SendInLoop(m)
  /\ UNCHANGED <<st, batch, lp, rev, thr, server, sock, calls>>

UserShutsDown ==
  /\ InUserCode
  /\ st = "kConnected"
  /\ st' = "kDisconnecting"
  /\ ShutdownInLoop
  /\ UNCHANGED <<chan, queue, batch, lp, rev, thr, server, peer, inbox, data,
                 calls>>

------------------------------------------------------------------------------
(* The other threads: each call tests state_ first and queues later.        *)

ThreadStep(t, from, to) ==
  /\ tpc[t] = from
  /\ tpc' = [tpc EXCEPT ![t] = to]

ThreadSends(t, m) ==
  /\ t \in Senders
  /\ Fresh(m)
  /\ st = "kConnected"
  /\ ThreadStep(t, "idle", "sending")
  /\ tmsg' = [tmsg EXCEPT ![t] = m]
  /\ UNCHANGED <<st, chan, queue, batch, lp, rev, server, sock, data, calls>>

ThreadQueuesSend(t) ==
  /\ ThreadStep(t, "sending", "idle")
  /\ queue' = Append(queue, SendFunctor(tmsg[t]))
  /\ tmsg' = [tmsg EXCEPT ![t] = None]
  /\ UNCHANGED <<st, chan, batch, lp, rev, server, sock, data, calls>>

ThreadChecksShutdown(t) ==
  /\ t \in Closers
  /\ st = "kConnected"
  /\ ThreadStep(t, "idle", "closing")
  /\ UNCHANGED <<st, chan, queue, batch, lp, rev, tmsg, server, sock, data, calls>>

ThreadSetsDisconnecting(t) ==
  /\ ThreadStep(t, "closing", "closed")
  /\ st' = "kDisconnecting"
  /\ UNCHANGED <<chan, queue, batch, lp, rev, tmsg, server, sock, data, calls>>

ThreadQueuesShutdown(t) ==
  /\ ThreadStep(t, "closed", "idle")
  /\ queue' = Append(queue, Functor("shutdown"))
  /\ UNCHANGED <<st, chan, batch, lp, rev, tmsg, server, sock, data, calls>>

------------------------------------------------------------------------------
(* The base loop: removeConnectionInLoop, and ~TcpServer, after which it    *)
(* runs nothing more.                                                       *)

BaseRemoves ==
  /\ serverUp
  /\ removals > 0
  /\ removals' = removals - 1
  /\ inMap' = FALSE
  /\ queue' = Append(queue, Functor("destroyed"))
  /\ UNCHANGED <<st, chan, batch, lp, rev, thr, serverUp, sock, data, calls>>

ServerDestroyed ==
  /\ serverUp
  /\ serverUp' = FALSE
  /\ inMap' = FALSE
  /\ queue' = IF inMap THEN Append(queue, Functor("destroyed")) ELSE queue
  /\ UNCHANGED <<st, chan, batch, lp, rev, thr, removals, sock, data, calls>>

------------------------------------------------------------------------------
(* The kernel and the peer.                                                 *)

PeerSends ==
  /\ peer = "open"
  /\ inbox' = TRUE
  /\ UNCHANGED <<st, chan, queue, batch, lp, rev, thr, server, wrShut, peer,
                 data, calls>>

PeerReceives ==
  /\ peer # "rst"
  /\ room < Room
  /\ room' = Room
  /\ UNCHANGED <<st, chan, queue, batch, lp, rev, thr, server, sock, out, sent,
                 accepted, soErr, brokenPipe, calls>>

PeerCloses ==
  /\ peer = "open"
  /\ peer' = "fin"
  /\ UNCHANGED <<st, chan, queue, batch, lp, rev, thr, server, wrShut, inbox,
                 data, calls>>

PeerResets ==
  /\ peer # "rst"
  /\ peer' = "rst"
  /\ soErr' = TRUE
  /\ UNCHANGED <<st, chan, queue, batch, lp, rev, thr, server, wrShut, inbox,
                 out, sent, accepted, room, brokenPipe, calls>>

------------------------------------------------------------------------------
LoopStep ==
  \/ Poll \/ EventClose \/ EventError \/ EventRead \/ EventWrite
  \/ StartFunctors
  \/ RunEstablished \/ RunCallback \/ RunSend \/ RunShutdown \/ RunDestroyed
  \/ EndFunctors
  \/ UserReturns

ThreadReturns(t) ==
  \/ ThreadQueuesSend(t)
  \/ ThreadSetsDisconnecting(t)
  \/ ThreadQueuesShutdown(t)

Next ==
  \/ LoopStep
  \/ UserShutsDown
  \/ \E m \in Messages : UserSends(m)
  \/ \E t \in Threads : ThreadReturns(t)
  \/ \E t \in Senders, m \in Messages : ThreadSends(t, m)
  \/ \E t \in Closers : ThreadChecksShutdown(t)
  \/ BaseRemoves
  \/ ServerDestroyed
  \/ PeerSends
  \/ PeerReceives
  \/ PeerCloses
  \/ PeerResets

Spec == Init /\ [][Next]_vars

\* The io loop, the base loop and threads inside a call are scheduled, callbacks
\* return, and a peer that is sent data reads it.
FairSpec ==
  /\ Spec
  /\ WF_vars(LoopStep)
  /\ WF_vars(BaseRemoves)
  /\ WF_vars(PeerReceives)
  /\ \A t \in Threads : WF_vars(ThreadReturns(t))

------------------------------------------------------------------------------
Functors == [op : {"established", "complete", "highWater", "shutdown", "destroyed"},
             msg : {None}] \cup [op : {"send"}, msg : Messages]
Units == Messages \X {1, 2}

ChannelTypes ==
  /\ st \in {"kConnecting", "kConnected", "kDisconnecting", "kDisconnected"}
  /\ events \subseteq {"read", "write"}
  /\ index \in {"kNew", "kAdded", "kDeleted"}

DataTypes ==
  /\ out \in Seq(Units) /\ sent \in Seq(Units) /\ accepted \in Seq(Units)
  /\ room \in 0..Room /\ soErr \in BOOLEAN /\ brokenPipe \in BOOLEAN

LoopTypes ==
  /\ lp \in {"poll", "event", "functors", "userInEvent", "userInFunctor"}
  /\ rev \subseteq {"in", "out", "err", "close"}
  /\ lp \in {"poll", "functors", "userInFunctor"} => rev = {}

FunctorTypes == queue \in Seq(Functors) /\ batch \in Seq(Functors)

OtherTypes ==
  /\ tpc \in [Threads -> {"idle", "sending", "closing", "closed"}]
  /\ tmsg \in [Threads -> Messages \cup {None}]
  /\ \A t \in Threads : tpc[t] = "sending" => tmsg[t] \in Messages
  /\ inMap \in BOOLEAN /\ removals \in Nat /\ serverUp \in BOOLEAN
  /\ wrShut \in BOOLEAN /\ peer \in {"open", "fin", "rst"} /\ inbox \in BOOLEAN
  /\ ups \in Nat /\ downs \in Nat

TypeOK == ChannelTypes /\ DataTypes /\ LoopTypes /\ FunctorTypes /\ OtherTypes

\* The peer receives whole messages in the order the loop took them, however
\* writes are cut short: what the kernel took followed by outputBuffer_ is the
\* messages accepted, end to end (sendInLoop, handleWrite).
StreamInOrder == sent \o out = accepted

\* The application sees a connection go up before it sees it go down, and sees
\* it go down once, though handleClose and connectDestroyed both report it; and
\* one reported down receives no more events, whatever enables writing later.
UpThenDownOnce == downs <= ups /\ (downs > 0 => index # "kAdded")

\* A closed or reset connection is removed from the server's map and from epoll
\* (handleClose, removeConnection, connectDestroyed).
PeerCloseRemoves ==
  (peer # "open") ~> (~serverUp \/ (~inMap /\ index = "kNew" /\ downs = 1))

\* Once shutdown is called the write side is shut or the connection goes down.
ShutdownTakesEffect ==
  (st = "kDisconnecting") ~> (wrShut \/ st = "kDisconnected" \/ ~serverUp)

\* The comment in sendInLoop: what is put in outputBuffer_ is sent by
\* handleWrite.
OutputDrains ==
  (out # <<>>) ~> (out = <<>> \/ peer # "open" \/ st = "kDisconnected" \/ ~serverUp)

\* What the comment at TcpConnection.cc:86 says, that nothing more can be sent
\* after a shutdown, of sends other threads queue too: no write is made on a side
\* that was shut down (sendInLoop, shutdownInLoop). The code breaks it (README, 5).
NoWriteAfterShutdown == ~brokenPipe
==============================================================================
