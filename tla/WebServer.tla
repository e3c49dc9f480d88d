------------------------------- MODULE WebServer -------------------------------
(* The server of tinyWebServer (webserver.cpp, httpconn.cpp, epoller.cpp and *)
(* the detached pool of threadpool.h): the main thread waits for events,     *)
(* accepts clients and closes those whose time is up; a read or a write is a *)
(* task for the pool. A descriptor is registered one-shot, so an event       *)
(* disarms it until the worker that served it arms it again. users_ keeps    *)
(* one HttpConn per descriptor number, which the next client with that       *)
(* number uses again. Trigger mode 3 (edge triggered), the one main.cpp      *)
(* asks for; timeouts enabled. When a timer expires is left open.            *)
EXTENDS Integers, Sequences, FiniteSets

CONSTANTS Fds,       \* descriptor numbers the kernel can give to clients
          Workers,   \* threads of the pool
          MAX_FD,    \* clients the server takes at once
          MaxConns,  \* bound: clients that connect
          LateTimeouts, \* a timer may expire while a task or a worker has the client
          None

VARIABLES
  main,       \* the main thread: [at, fd]
  batch,      \* events fetched by Wait and not dispatched yet: [fd, ev]
  armed,      \* epoll: [Fds -> "none" (not registered), "off", "in", "out"]
  timer,      \* descriptors with a node in timer_
  users,      \* users_: [Fds -> HttpConn]
  userCount,
  tasks,      \* the pool's queue of [fd, op]
  wk,         \* [Workers -> [at, fd]]
  sock,       \* kernel: [Fds -> None or [req, fin, full]]
  backlog,    \* kernel: connections not accepted yet
  edge,       \* the listening socket has an event to report
  conns       \* clients so far

http == <<users, userCount>>
pool == <<tasks, wk>>
clients == <<backlog, edge, conns>>
vars == <<main, batch, armed, timer, http, pool, sock, clients>>

Listen == "listen"

ASSUME NamesAssumption ==
  /\ Listen \notin Fds /\ None \notin Fds
  /\ None \notin [req : BOOLEAN, fin : BOOLEAN, full : BOOLEAN]
ASSUME FdsAssumption == IsFiniteSet(Fds)

NewConn == [closed |-> TRUE, head |-> 0, file |-> 0, cnt |-> 1]

\* HttpConn() leaves iov_ unset: the length of the file part is anything.
Init ==
  /\ main = [at |-> "tick", fd |-> None] /\ batch = {}
  /\ armed = [f \in Fds |-> "none"] /\ timer = {}
  /\ users \in [Fds -> {[NewConn EXCEPT !.file = n] : n \in 0..1}] /\ userCount = 0
  /\ tasks = <<>> /\ wk = [w \in Workers |-> [at |-> "ready", fd |-> None]]
  /\ sock = [f \in Fds |-> None] /\ backlog = 0 /\ edge = FALSE /\ conns = 0

\* The descriptor is open and its client has not closed.
Connected(f) == IF sock[f] = None THEN FALSE ELSE ~sock[f].fin

Held(f) == \/ \E i \in DOMAIN tasks : tasks[i].fd = f
           \/ \E w \in Workers : wk[w].fd = f
(***************************************************************************)
(* HttpConn::Close tests isClose_, then sets it, counts down and closes    *)
(* the descriptor. CloseConn_ unregisters first: DelTest is its first part *)
(* with the test, Shut the rest.                                           *)
(***************************************************************************)
DelTest(f) == armed' = [armed EXCEPT ![f] = "none"]

\* A bug: isClose_ is never set.
Shut_flagKept(f) ==
  /\ UNCHANGED users /\ userCount' = userCount - 1
  /\ sock' = [sock EXCEPT ![f] = None] /\ armed' = [armed EXCEPT ![f] = "none"]

Shut(f) ==
  /\ users' = [users EXCEPT ![f].closed = TRUE] /\ userCount' = userCount - 1
  /\ sock' = [sock EXCEPT ![f] = None] /\ armed' = [armed EXCEPT ![f] = "none"]

\* Epoller::ModFd fails on a descriptor that is not registered.
ModFd(f, ev) == armed' = IF armed[f] = "none" THEN armed ELSE [armed EXCEPT ![f] = ev]
(***************************************************************************)
(* The main thread: Start.                                                 *)
(***************************************************************************)
\* A bug: the node is popped and its callback not called.
TickExpire_noCallback(f) ==
  /\ main.at = "tick" /\ f \in timer /\ timer' = timer \ {f}
  /\ UNCHANGED <<main, batch, armed, http, pool, sock, clients>>

\* GetNextTick: the callback of an expired timer is CloseConn_, then the node is popped.
TickExpire(f) ==
  /\ main.at = "tick" /\ f \in timer
  /\ LateTimeouts \/ users[f].closed \/ ~Held(f)
  /\ DelTest(f)
  /\ IF users[f].closed THEN timer' = timer \ {f} /\ UNCHANGED main
     ELSE main' = [at |-> "tickShut", fd |-> f] /\ UNCHANGED timer
  /\ UNCHANGED <<batch, http, pool, sock, clients>>

TickShut ==
  /\ main.at = "tickShut"
  /\ Shut(main.fd) /\ timer' = timer \ {main.fd}
  /\ main' = [at |-> "tick", fd |-> None]
  /\ UNCHANGED <<batch, pool, clients>>

\* A bug: EPOLLRDHUP is not asked for.
Ready_noHup(f) == /\ armed[f] \in {"in", "out"} /\ sock[f] # None
                  /\ IF armed[f] = "in" THEN sock[f].req ELSE ~sock[f].full

Ready(f) == /\ armed[f] \in {"in", "out"} /\ sock[f] # None
            /\ sock[f].fin \/ (armed[f] = "in" /\ sock[f].req)
                           \/ (armed[f] = "out" /\ ~sock[f].full)

\* A bug: the registration is not one-shot.
Wait_notOneShot ==
  /\ main.at = "tick" /\ (edge \/ \E f \in Fds : Ready(f))
  /\ batch' = {[fd |-> f, ev |-> IF sock[f].fin THEN "hup" ELSE armed[f]] : f \in {g \in Fds : Ready(g)}}
                 \cup (IF edge THEN {[fd |-> Listen, ev |-> "in"]} ELSE {})
  /\ main' = [main EXCEPT !.at = "events"] /\ edge' = FALSE
  /\ UNCHANGED <<armed, timer, http, pool, sock, backlog, conns>>

\* Epoller::Wait returns when something is ready, or when the first timer is due.
Wait ==
  /\ main.at = "tick"
  /\ LET ready == {f \in Fds : Ready(f)}
     IN  /\ ready # {} \/ edge \/ timer # {}
         /\ batch' = {[fd |-> f, ev |-> IF sock[f].fin THEN "hup" ELSE armed[f]] : f \in ready}
                       \cup (IF edge THEN {[fd |-> Listen, ev |-> "in"]} ELSE {})
         /\ armed' = [f \in Fds |-> IF f \in ready THEN "off" ELSE armed[f]]
  /\ main' = [main EXCEPT !.at = IF batch' = {} THEN "tick" ELSE "events"]
  /\ edge' = FALSE
  /\ UNCHANGED <<timer, http, pool, sock, backlog, conns>>

\* The rest of the batch, or the next turn of the loop.
After(b) == [at |-> IF b = {} THEN "tick" ELSE "events", fd |-> None]

EventHup(e) ==
  /\ main.at = "events" /\ e \in batch /\ e.ev = "hup"
  /\ DelTest(e.fd) /\ batch' = batch \ {e}
  /\ main' = IF users[e.fd].closed THEN After(batch') ELSE [at |-> "shut", fd |-> e.fd]
  /\ UNCHANGED <<timer, http, pool, sock, clients>>

EventShut ==
  /\ main.at = "shut"
  /\ Shut(main.fd) /\ main' = After(batch)
  /\ UNCHANGED <<batch, timer, pool, clients>>

\* A bug: AddTask wakes nobody.
EventTask_noNotify(e) ==
  /\ main.at = "events" /\ e \in batch /\ e.fd \in timer /\ e.ev \in {"in", "out"}
  /\ batch' = batch \ {e} /\ main' = After(batch')
  /\ tasks' = Append(tasks, [fd |-> e.fd, op |-> e.ev])
  /\ UNCHANGED <<armed, timer, http, wk, sock, clients>>

\* DealRead_ and DealWrite_: ExtentTime_, which asserts that there is a timer, and AddTask,
\* which wakes one waiting worker.
EventTask(e) ==
  /\ main.at = "events" /\ e \in batch /\ e.fd \in timer /\ e.ev \in {"in", "out"}
  /\ batch' = batch \ {e} /\ main' = After(batch')
  /\ tasks' = Append(tasks, [fd |-> e.fd, op |-> e.ev])
  /\ \/ (\A w \in Workers : wk[w].at # "wait") /\ UNCHANGED wk
     \/ \E w \in Workers : wk[w].at = "wait" /\ wk' = [wk EXCEPT ![w].at = "ready"]
  /\ UNCHANGED <<armed, timer, http, sock, clients>>

EventListen ==
  /\ main.at = "events" /\ \E e \in batch : e.fd = Listen
  /\ main' = [main EXCEPT !.at = "accept"]
  /\ batch' = {e \in batch : e.fd # Listen}
  /\ UNCHANGED <<armed, timer, http, pool, sock, clients>>

Free == {f \in Fds : sock[f] = None}

\* DealListen_, one turn: accept a client and AddClient_.
Accept(f) ==
  /\ main.at = "accept" /\ backlog > 0 /\ f \in Free /\ userCount < MAX_FD
  /\ backlog' = backlog - 1 /\ sock' = [sock EXCEPT ![f] = [req |-> FALSE, fin |-> FALSE, full |-> FALSE]]
  /\ users' = [users EXCEPT ![f].closed = FALSE] /\ userCount' = userCount + 1
  /\ timer' = timer \cup {f} /\ armed' = [armed EXCEPT ![f] = "in"]
  /\ UNCHANGED <<main, batch, pool, edge, conns>>

\* A client too many is told so and closed; that, and an accept that fails, ends the loop.
AcceptEnds ==
  /\ main.at = "accept" /\ (backlog = 0 \/ Free = {} \/ userCount >= MAX_FD)
  /\ backlog' = IF backlog = 0 \/ Free = {} THEN backlog ELSE backlog - 1
  /\ main' = After(batch)
  /\ UNCHANGED <<batch, armed, timer, http, pool, sock, edge, conns>>
(***************************************************************************)
(* A worker: the loop of ThreadPool's constructor and the two tasks.       *)
(***************************************************************************)
Step(w, at) == wk' = [wk EXCEPT ![w].at = at]
Done(w) == wk' = [wk EXCEPT ![w] = [at |-> "ready", fd |-> None]]

Take(w) ==
  /\ wk[w].at = "ready" /\ tasks # <<>>
  /\ wk' = [wk EXCEPT ![w] = [at |-> Head(tasks).op, fd |-> Head(tasks).fd]]
  /\ tasks' = Tail(tasks)
  /\ UNCHANGED <<main, batch, armed, timer, http, sock, clients>>

Sleep(w) ==
  /\ wk[w].at = "ready" /\ tasks = <<>> /\ Step(w, "wait")
  /\ UNCHANGED <<main, batch, armed, timer, http, tasks, sock, clients>>

\* HttpConn::process: a response of a head and perhaps a file; iov_[1] is set only for a file.
Response(u, hasFile) ==
  IF hasFile THEN [u EXCEPT !.head = 1, !.cnt = 2, !.file = 1]
  ELSE [u EXCEPT !.head = 1, !.cnt = 1]

\* OnRead_ reads until EAGAIN, and end of file or an error closes the client; OnProcess
\* makes the response, or waits for more when nothing was read.
OnRead(w) == LET f == wk[w].fd IN
  /\ wk[w].at = "in"
  /\ \/ /\ ~Connected(f) /\ Step(w, "close") /\ UNCHANGED <<users, sock>>
     \/ /\ Connected(f) /\ ~sock[f].req /\ Step(w, "armIn") /\ UNCHANGED <<users, sock>>
     \/ /\ Connected(f) /\ sock[f].req /\ Step(w, "armOut")
        /\ sock' = [sock EXCEPT ![f].req = FALSE]
        /\ \E hasFile \in BOOLEAN :
             users' = [users EXCEPT ![f] = Response(@, hasFile)]
  /\ UNCHANGED <<main, batch, armed, timer, userCount, tasks, clients>>

\* The bytes writev is given, and those ToWriteBytes counts.
Left(u) == u.head + (IF u.cnt = 2 THEN u.file ELSE 0)
ToWriteBytes(u) == u.head + u.file

Sent(u) == IF u.cnt = 2 THEN [u EXCEPT !.head = 0, !.file = 0] ELSE [u EXCEPT !.head = 0]

\* OnWrite_: HttpConn::write runs until all is written or the socket is full, also for a
\* client that closed its side; only a reset makes it fail. A response that is all sent
\* keeps the client if its request asked for that.
OnWrite(w) == LET f == wk[w].fd IN
  /\ wk[w].at = "out"
  /\ \/ /\ sock[f] # None
        /\ users' = [users EXCEPT ![f] = Sent(@)]
        /\ \/ ToWriteBytes(users'[f]) = 0 /\ Step(w, "armIn")
           \/ Step(w, "close")
        /\ UNCHANGED sock
     \/ /\ sock[f] # None /\ Left(users[f]) = 2
        /\ users' = [users EXCEPT ![f].head = 0]
        /\ sock' = [sock EXCEPT ![f].full = TRUE] /\ Step(w, "armOut")
     \/ ~Connected(f) /\ Step(w, "close") /\ UNCHANGED <<users, sock>>
  /\ UNCHANGED <<main, batch, armed, timer, userCount, tasks, clients>>

Arm(w) ==
  /\ wk[w].at \in {"armIn", "armOut"}
  /\ ModFd(wk[w].fd, IF wk[w].at = "armIn" THEN "in" ELSE "out") /\ Done(w)
  /\ UNCHANGED <<main, batch, timer, http, tasks, sock, clients>>

CloseTest(w) ==
  /\ wk[w].at = "close" /\ DelTest(wk[w].fd)
  /\ IF users[wk[w].fd].closed THEN Done(w) ELSE Step(w, "shut")
  /\ UNCHANGED <<main, batch, timer, http, tasks, sock, clients>>

CloseShut(w) ==
  /\ wk[w].at = "shut" /\ Shut(wk[w].fd) /\ Done(w)
  /\ UNCHANGED <<main, batch, timer, tasks, clients>>
(***************************************************************************)
(* The clients.                                                            *)
(***************************************************************************)
Connect ==
  /\ conns < MaxConns /\ conns' = conns + 1 /\ backlog' = backlog + 1 /\ edge' = TRUE
  /\ UNCHANGED <<main, batch, armed, timer, http, pool, sock>>

Send(f) ==
  /\ Connected(f) /\ ~sock[f].req
  /\ sock' = [sock EXCEPT ![f].req = TRUE]
  /\ UNCHANGED <<main, batch, armed, timer, http, pool, clients>>

Leave(f) ==
  /\ sock[f] # None /\ sock' = [sock EXCEPT ![f].fin = TRUE]
  /\ UNCHANGED <<main, batch, armed, timer, http, pool, clients>>

Receive(f) ==
  /\ sock[f] # None /\ sock[f].full /\ sock' = [sock EXCEPT ![f].full = FALSE]
  /\ UNCHANGED <<main, batch, armed, timer, http, pool, clients>>
-------------------------------------------------------------------------------
MainStep == \/ \E f \in Fds : TickExpire(f)
            \/ TickShut \/ Wait \/ EventShut \/ EventListen \/ AcceptEnds
            \/ \E e \in batch : EventHup(e) \/ EventTask(e)
            \/ \E f \in Fds : Accept(f)
WorkerStep(w) == \/ Take(w) \/ Sleep(w) \/ OnRead(w) \/ OnWrite(w)
                 \/ Arm(w) \/ CloseTest(w) \/ CloseShut(w)

Next == \/ MainStep
        \/ \E w \in Workers : WorkerStep(w)
        \/ Connect
        \/ \E f \in Fds : Send(f) \/ Leave(f) \/ Receive(f)

Spec == Init /\ [][Next]_vars

\* The threads run, and a client that waits for its response reads it.
FairSpec == /\ Spec /\ WF_vars(MainStep)
            /\ \A w \in Workers : WF_vars(WorkerStep(w))
            /\ \A f \in Fds : WF_vars(Receive(f))
-------------------------------------------------------------------------------
Holders(f) ==
  Cardinality({w \in Workers : wk[w].fd = f}) + Cardinality({i \in DOMAIN tasks : tasks[i].fd = f})
    + Cardinality({e \in batch : e.fd = f}) + (IF main.fd = f THEN 1 ELSE 0)
    + (IF armed[f] \in {"in", "out"} THEN 1 ELSE 0)

(* One-shot registration hands every open client from one owner to the next: *)
(* it is armed, or in the batch, or a task, or with a worker, or being       *)
(* closed by the main thread, never two of these (two threads on one         *)
(* HttpConn) and never none (a client nobody will serve again).              *)
ExactlyOneOwner == \A f \in Fds : Holders(f) = IF users[f].closed THEN 0 ELSE 1

(* What webserver.cpp:57 says EPOLLONESHOT does, that one thread handles a    *)
(* connection: no two of the workers and the main thread, which closes, have *)
(* the same HttpConn. With late timeouts the code breaks it (README, 5).     *)
OneThreadPerConn ==
  \A f \in Fds : Cardinality({w \in Workers : wk[w].fd = f}) + (IF main.fd = f THEN 1 ELSE 0) <= 1

(* However a client ends (its own close, a worker, the timer), it is closed  *)
(* and counted down once: userCount is the number of open descriptors, and   *)
(* isClose_ tells which ones they are.                                       *)
CountMatchesSockets ==
  /\ userCount = Cardinality(Fds \ Free)
  /\ \A f \in Fds : users[f].closed <=> sock[f] = None

(* ExtentTime_ finds a timer: a worker that closes a client leaves its timer *)
(* behind, the tick closes clients that may be closed already, and           *)
(* descriptors are used again, and still no event is for a client without a  *)
(* timer, which HeapTimer::adjust asserts.                                   *)
EventHasTimer ==
  /\ \A e \in batch : e.fd \in Fds => e.fd \in timer
  /\ \A f \in Fds : armed[f] # "none" => f \in timer

Asked(f) == IF Connected(f) THEN sock[f].req ELSE FALSE
Owed(f)  == Connected(f) /\ Left(users[f]) > 0

(* A request that arrives while the descriptor is disarmed, or armed for     *)
(* writing, or in the middle of a response the socket has no room for, is    *)
(* answered in the end, unless the client goes or is closed.                 *)
RequestAnswered == \A f \in Fds : (Asked(f) ~> ~Asked(f)) /\ (Owed(f) ~> ~Owed(f))

(* A client that left is released: its descriptor does not stay open.        *)
LeaverReleased == \A f \in Fds : (sock[f] # None /\ ~Connected(f)) ~> sock[f] = None
===============================================================================
