---------------------------- MODULE WebServer_proofs ----------------------------
(* What holds of the web server for any descriptors, workers and numbers of  *)
(* clients: one owner for each client and a count that is right, if timers   *)
(* do not expire while a client is served, and nobody forgotten; a timer for *)
(* every event, whenever they expire.                                        *)
EXTENDS WebServer, FiniteSetTheorems, TLAPS

(* Who may have a client besides epoll and the main thread.                  *)
InBatch(f) == \E e \in batch : e.fd = f
InTasks(f) == \E i \in DOMAIN tasks : tasks[i].fd = f
InWork(f)  == \E w \in Workers : wk[w].fd = f

(* The values the variables take.                                            *)
Sockets == [req : BOOLEAN, fin : BOOLEAN, full : BOOLEAN]
HttpConns == [closed : BOOLEAN, head : 0..1, file : 0..1, cnt : 1..2]
MainAts == {"tick", "tickShut", "events", "shut", "accept"}
WorkerAts == {"ready", "wait", "in", "out", "armIn", "armOut", "close", "shut"}

(* Types, and what the program points say: the main thread holds a client    *)
(* exactly while it closes one, a worker while it serves one, and the tick   *)
(* begins when the batch is dispatched.                                      *)
Typed ==
  /\ main \in [at : MainAts, fd : Fds \cup {None}]
  /\ main.at \in {"tickShut", "shut"} <=> main.fd # None
  /\ batch \subseteq [fd : Fds \cup {Listen}, ev : {"in", "out", "hup"}]
  /\ main.at \in {"tick", "tickShut"} => batch = {}
  /\ \A e \in batch : e.fd = Listen => e.ev = "in"
  /\ armed \in [Fds -> {"none", "off", "in", "out"}]
  /\ timer \subseteq Fds
  /\ users \in [Fds -> HttpConns]
  /\ tasks \in Seq([fd : Fds, op : {"in", "out"}])
  /\ wk \in [Workers -> [at : WorkerAts, fd : Fds \cup {None}]]
  /\ \A w \in Workers : wk[w].at \in {"ready", "wait"} <=> wk[w].fd = None
  /\ sock \in [Fds -> Sockets \cup {None}]

(* No client is twice in the batch, in the queue, or with the workers.       *)
Unique ==
  /\ \A d, e \in batch : d.fd = e.fd => d = e
  /\ \A i, j \in DOMAIN tasks : tasks[i].fd = tasks[j].fd => i = j
  /\ \A v, w \in Workers : wk[v].fd = wk[w].fd /\ wk[v].fd # None => v = w

(* No client has owners of two kinds. What keeps them apart is the one-shot  *)
(* registration: it is off while the client is served, and gone while it is  *)
(* being closed.                                                             *)
Apart ==
  \A f \in Fds :
    /\ InBatch(f) => armed[f] = "off" /\ ~InTasks(f) /\ ~InWork(f)
    /\ InTasks(f) => armed[f] = "off" /\ ~InWork(f)
    /\ \A w \in Workers : wk[w].fd = f => armed[f] = IF wk[w].at = "shut" THEN "none" ELSE "off"
    /\ main.fd = f => armed[f] = "none" /\ ~InWork(f)

(* A client is open, in both senses, exactly while it has an owner.          *)
Owned ==
  \A f \in Fds :
    /\ users[f].closed <=> sock[f] = None
    /\ ~users[f].closed <=>
         armed[f] \in {"in", "out"} \/ InBatch(f) \/ InTasks(f) \/ InWork(f) \/ main.fd = f

(* The four together are inductive, if no timer expires while a client is    *)
(* served; none is without the others.                                       *)
IInv == Typed /\ Unique /\ Apart /\ Owned

(* Nobody is connected.                                                      *)
LEMMA Initially == ASSUME Init PROVE IInv
<1> USE NamesAssumption DEF Init
<1> DEFINE Fresh == {[NewConn EXCEPT !.file = n] : n \in 0..1}
<1>0. ASSUME NEW u \in Fresh PROVE u \in HttpConns /\ u.closed
  <2>1. PICK n \in 0..1 : u = [NewConn EXCEPT !.file = n] OBVIOUS
  <2>2. u = [closed |-> TRUE, head |-> 0, file |-> n, cnt |-> 1] BY <2>1 DEF NewConn
  <2>3. u.closed = TRUE BY <2>2
  <2>4. u \in HttpConns BY <2>2 DEF HttpConns
  <2> QED BY <2>3, <2>4
<1>0a. users \in [Fds -> Fresh] OBVIOUS
<1> HIDE DEF Fresh
<1>0b. users \in [Fds -> HttpConns] /\ \A f \in Fds : users[f].closed
  BY <1>0, <1>0a
<1>1. Typed
  BY <1>0b DEF Typed, Sockets, MainAts, WorkerAts
<1>2. \A f \in Fds : ~InBatch(f) /\ ~InTasks(f) /\ ~InWork(f) /\ users[f].closed /\ main.fd # f
  BY <1>0b DEF InBatch, InTasks, InWork
<1>3. Unique
  BY DEF Unique
<1>4. Apart /\ Owned
  BY <1>2 DEF Apart, Owned
<1> QED BY <1>1, <1>3, <1>4 DEF IInv

(* What closing a client changes, and only for that client.                  *)
LEMMA ShutEffect ==
  ASSUME Typed, NEW f \in Fds, Shut(f)
  PROVE  /\ users' \in [Fds -> HttpConns] /\ sock' \in [Fds -> Sockets \cup {None}]
         /\ armed' \in [Fds -> {"none", "off", "in", "out"}]
         /\ users'[f].closed /\ sock'[f] = None /\ armed'[f] = "none"
         /\ \A g \in Fds \ {f} : users'[g] = users[g] /\ sock'[g] = sock[g] /\ armed'[g] = armed[g]
<1>1. users[f] \in HttpConns BY DEF Typed
<1>2. [users[f] EXCEPT !.closed = TRUE] \in HttpConns /\ [users[f] EXCEPT !.closed = TRUE].closed = TRUE
  BY <1>1 DEF HttpConns
<1>3. users' = [users EXCEPT ![f] = [users[f] EXCEPT !.closed = TRUE]] BY DEF Shut
<1> QED BY <1>2, <1>3 DEF Shut, Typed

(* What unregistering a client changes.                                      *)
LEMMA DelTestEffect ==
  ASSUME Typed, NEW f \in Fds, DelTest(f)
  PROVE  /\ armed' \in [Fds -> {"none", "off", "in", "out"}] /\ armed'[f] = "none"
         /\ \A g \in Fds \ {f} : armed'[g] = armed[g]
BY DEF Typed, DelTest

(* The client of an expired timer is not served, so epoll alone had it: the  *)
(* tick takes it over. The timer of a closed client changes nothing.         *)
LEMMA TickExpireKeeps ==
  ASSUME IInv, ~LateTimeouts, NEW f \in Fds, TickExpire(f) PROVE IInv'
<1> USE NamesAssumption DEF IInv, TickExpire
<1>1. DelTest(f) /\ f \in timer /\ batch = {} /\ main.fd = None /\ UNCHANGED <<batch, users, tasks, wk, sock>>
  BY DEF Typed, http, pool
<1>2. \A g \in Fds : /\ InBatch(g)' <=> InBatch(g)
                     /\ InTasks(g)' <=> InTasks(g)
                     /\ InWork(g)' <=> InWork(g)
  BY <1>1 DEF InBatch, InTasks, InWork
<1>3. CASE users[f].closed
  <2>1. UNCHANGED main BY <1>3
  <2>2. armed[f] \notin {"in", "out"} /\ ~InWork(f) /\ ~InTasks(f) BY <1>3 DEF Owned
  <2>3. Typed' BY <1>1, <2>1, <1>3, DelTestEffect DEF Typed
  <2>4. Unique' BY <1>1 DEF Unique
  <2>5. Apart' BY <1>1, <1>2, <2>1, <2>2, DelTestEffect DEF Apart, InWork, InBatch
  <2>6. Owned' BY <1>1, <1>2, <2>1, <2>2, DelTestEffect DEF Owned
  <2> QED BY <2>3, <2>4, <2>5, <2>6
<1>4. CASE ~users[f].closed
  <2>1. main' = [at |-> "tickShut", fd |-> f] /\ UNCHANGED timer BY <1>4
  <2>2. ~InWork(f) /\ ~InTasks(f) /\ ~InBatch(f)
    BY <1>1, <1>4 DEF Held, InWork, InTasks, InBatch
  <2>3. Typed' BY <1>1, <2>1, DelTestEffect DEF Typed, MainAts
  <2>4. Unique' BY <1>1 DEF Unique
  <2>5. Apart' BY <1>1, <1>2, <2>1, <2>2, DelTestEffect DEF Apart, InWork
  <2>6. Owned' BY <1>1, <1>2, <2>1, <2>2, <1>4, DelTestEffect DEF Owned
  <2> QED BY <2>3, <2>4, <2>5, <2>6
<1> QED BY <1>3, <1>4

(* The tick closes the client it took over.                                  *)
LEMMA TickShutKeeps == ASSUME IInv, TickShut PROVE IInv'
<1> USE NamesAssumption DEF IInv, TickShut
<1> DEFINE f == main.fd
<1>1. f \in Fds /\ Shut(f) /\ batch = {} /\ UNCHANGED <<batch, tasks, wk>>
      /\ main' = [at |-> "tick", fd |-> None] /\ timer' \subseteq timer
  BY DEF Typed, pool
<1>2. \A g \in Fds : /\ InBatch(g)' <=> InBatch(g)
                     /\ InTasks(g)' <=> InTasks(g)
                     /\ InWork(g)' <=> InWork(g)
  BY <1>1 DEF InBatch, InTasks, InWork
<1>3. ~InBatch(f) /\ ~InTasks(f) /\ ~InWork(f) BY <1>1 DEF Apart
<1> HIDE DEF f
<1>4. Typed' BY <1>1, ShutEffect DEF Typed, MainAts
<1>5. Unique' BY <1>1 DEF Unique
<1>6. Apart' BY <1>1, <1>2, <1>3, ShutEffect DEF Apart, InWork
<1>7. Owned' BY <1>1, <1>2, <1>3, ShutEffect DEF Owned, f
<1> QED BY <1>4, <1>5, <1>6, <1>7
(* A step that moves no client keeps who owns what.                          *)
LEMMA SameOwners ==
  ASSUME Apart, Owned, armed' = armed, main'.fd = main.fd,
         \A g \in Fds : /\ InBatch(g)' <=> InBatch(g)
                        /\ InTasks(g)' <=> InTasks(g)
                        /\ users'[g].closed <=> users[g].closed
                        /\ sock'[g] = None <=> sock[g] = None,
         \A w \in Workers : /\ wk'[w].fd = wk[w].fd
                            /\ wk'[w].at = "shut" <=> wk[w].at = "shut"
  PROVE  Apart' /\ Owned'
<1>1. \A g \in Fds : InWork(g)' <=> InWork(g) BY DEF InWork
<1>2. Apart' BY <1>1 DEF Apart
<1>3. Owned' BY <1>1 DEF Owned
<1> QED BY <1>2, <1>3

(* After an event the main thread holds nobody, and ticks only when the      *)
(* batch is empty.                                                           *)
LEMMA AfterEffect ==
  ASSUME NEW b
  PROVE  /\ After(b) \in [at : MainAts, fd : Fds \cup {None}] /\ After(b).fd = None
         /\ After(b).at \in {"tick", "events"} /\ (After(b).at = "tick" => b = {})
BY DEF After, MainAts

(* A worker that moves on keeps its client; the others stay.                 *)
LEMMA StepEffect ==
  ASSUME Typed, NEW w \in Workers, NEW at \in WorkerAts, Step(w, at)
  PROVE  /\ wk' \in [Workers -> [at : WorkerAts, fd : Fds \cup {None}]]
         /\ wk'[w].at = at /\ wk'[w].fd = wk[w].fd
         /\ \A v \in Workers \ {w} : wk'[v] = wk[v]
<1>1. wk[w] \in [at : WorkerAts, fd : Fds \cup {None}] BY DEF Typed
<1>2. [wk[w] EXCEPT !.at = at] = [at |-> at, fd |-> wk[w].fd] BY <1>1
<1>3. wk' = [wk EXCEPT ![w] = [wk[w] EXCEPT !.at = at]] BY DEF Step
<1> QED BY <1>1, <1>2, <1>3 DEF Typed

(* A worker that is done gives up its client, and nobody else had it.        *)
LEMMA DoneEffect ==
  ASSUME Typed, Unique, NEW w \in Workers, Done(w), wk[w].fd # None
  PROVE  /\ wk' \in [Workers -> [at : WorkerAts, fd : Fds \cup {None}]]
         /\ wk'[w].at = "ready" /\ wk'[w].fd = None
         /\ \A v \in Workers \ {w} : wk'[v] = wk[v] /\ wk[v].fd # wk[w].fd
         /\ \A g \in Fds : InWork(g)' <=> InWork(g) /\ g # wk[w].fd
<1>1. wk' \in [Workers -> [at : WorkerAts, fd : Fds \cup {None}]]
  BY DEF Done, Typed, WorkerAts
<1>2. wk'[w] = [at |-> "ready", fd |-> None] /\ \A v \in Workers \ {w} : wk'[v] = wk[v]
  BY DEF Done, Typed
<1>3. \A v \in Workers \ {w} : wk[v].fd # wk[w].fd BY DEF Unique
<1> QED BY <1>1, <1>2, <1>3, NamesAssumption DEF InWork

(* A client that left goes from the batch to the main thread.                *)
LEMMA EventHupKeeps == ASSUME IInv, NEW e \in batch, EventHup(e) PROVE IInv'
<1> USE NamesAssumption DEF IInv, EventHup
<1> DEFINE f == e.fd
<1>1. f \in Fds /\ main.fd = None BY DEF Typed
<1>2. InBatch(f) BY DEF InBatch
<1>3. ~users[f].closed /\ armed[f] = "off" /\ ~InTasks(f) /\ ~InWork(f)
  BY <1>1, <1>2 DEF Owned, Apart
<1>4. /\ DelTest(f) /\ batch' = batch \ {e} /\ main' = [at |-> "shut", fd |-> f]
      /\ UNCHANGED <<timer, users, tasks, wk, sock>>
  BY <1>3 DEF http, pool
<1>5. \A g \in Fds : /\ InBatch(g)' <=> InBatch(g) /\ g # f
                     /\ InTasks(g)' <=> InTasks(g)
                     /\ InWork(g)' <=> InWork(g)
  BY <1>4 DEF InBatch, InTasks, InWork, Unique
<1> HIDE DEF f
<1>6. Typed' BY <1>1, <1>4, DelTestEffect DEF Typed, MainAts
<1>7. Unique' BY <1>4 DEF Unique
<1>8. Apart' BY <1>1, <1>3, <1>4, <1>5, DelTestEffect DEF Apart, InWork
<1>9. Owned' BY <1>1, <1>3, <1>4, <1>5, DelTestEffect DEF Owned
<1> QED BY <1>6, <1>7, <1>8, <1>9

(* The main thread closes the client that left.                              *)
LEMMA EventShutKeeps == ASSUME IInv, EventShut PROVE IInv'
<1> USE NamesAssumption DEF IInv, EventShut
<1> DEFINE f == main.fd
<1>1. f \in Fds /\ Shut(f) /\ main' = After(batch) /\ UNCHANGED <<batch, timer, tasks, wk>>
  BY DEF Typed, pool
<1>2. \A g \in Fds : /\ InBatch(g)' <=> InBatch(g)
                     /\ InTasks(g)' <=> InTasks(g)
                     /\ InWork(g)' <=> InWork(g)
  BY <1>1 DEF InBatch, InTasks, InWork
<1>3. ~InBatch(f) /\ ~InTasks(f) /\ ~InWork(f) BY <1>1 DEF Apart
<1>3a. \A g \in Fds : main.fd = g <=> g = f OBVIOUS
<1> HIDE DEF f
<1>4. Typed' BY <1>1, ShutEffect, AfterEffect DEF Typed
<1>5. Unique' BY <1>1 DEF Unique
<1>6. Apart' BY <1>1, <1>2, <1>3, ShutEffect, AfterEffect DEF Apart, InWork
<1>7. Owned' BY <1>1, <1>2, <1>3, <1>3a, ShutEffect, AfterEffect DEF Owned
<1> QED BY <1>4, <1>5, <1>6, <1>7

(* An event of a client becomes a task; a worker woken for it has no client  *)
(* yet.                                                                      *)
LEMMA EventTaskKeeps == ASSUME IInv, NEW e \in batch, EventTask(e) PROVE IInv'
<1> USE NamesAssumption DEF IInv, EventTask
<1> DEFINE f == e.fd
           t == [fd |-> e.fd, op |-> e.ev]
           n == Len(tasks)
<1>1. f \in Fds /\ t \in [fd : Fds, op : {"in", "out"}] /\ main.fd = None BY DEF Typed
<1>2. InBatch(f) BY DEF InBatch
<1>3. armed[f] = "off" /\ ~InTasks(f) /\ ~InWork(f) /\ ~users[f].closed
  BY <1>1, <1>2 DEF Apart, Owned
<1>4. /\ tasks' = Append(tasks, t) /\ batch' = batch \ {e} /\ main' = After(batch')
      /\ UNCHANGED <<armed, timer, users, sock>>
  BY DEF http
<1>5. /\ tasks' \in Seq([fd : Fds, op : {"in", "out"}]) /\ n \in Nat
      /\ DOMAIN tasks = 1..n /\ DOMAIN tasks' = 1..(n + 1)
      /\ tasks'[n + 1] = t /\ \A i \in 1..n : tasks'[i] = tasks[i]
  BY <1>1, <1>4 DEF Typed
<1>6. /\ wk' \in [Workers -> [at : WorkerAts, fd : Fds \cup {None}]]
      /\ \A w \in Workers : /\ wk'[w].fd = wk[w].fd
                            /\ wk'[w].at \in {"ready", "wait"} <=> wk[w].at \in {"ready", "wait"}
                            /\ wk'[w].at = "shut" <=> wk[w].at = "shut"
  <2>1. CASE UNCHANGED wk BY <2>1 DEF Typed
  <2>2. CASE \E w \in Workers : wk[w].at = "wait" /\ Step(w, "ready")
    <3>1. PICK w \in Workers : wk[w].at = "wait" /\ Step(w, "ready") BY <2>2
    <3>2. "ready" \in WorkerAts BY DEF WorkerAts
    <3> QED BY <3>1, <3>2, StepEffect
  <2> QED BY <2>1, <2>2 DEF Step
<1> HIDE DEF t, n
<1>7. \A g \in Fds : /\ InBatch(g)' <=> InBatch(g) /\ g # f
                     /\ InWork(g)' <=> InWork(g)
  BY <1>4, <1>6 DEF InBatch, InWork, Unique
<1>8. \A g \in Fds : InTasks(g)' <=> InTasks(g) \/ g = f
  BY <1>5 DEF InTasks, t
<1>9. Typed'
  <2>1. \A w \in Workers : wk'[w].at \in {"ready", "wait"} <=> wk'[w].fd = None BY <1>6 DEF Typed
  <2>2. /\ main' \in [at : MainAts, fd : Fds \cup {None}] /\ main'.fd = None
        /\ main'.at \in {"tick", "events"} /\ (main'.at = "tick" => batch' = {})
    BY <1>4, AfterEffect
  <2> QED BY <1>4, <1>5, <1>6, <2>1, <2>2 DEF Typed
<1>10. Unique'
  <2>1. \A i \in 1..n : tasks[i].fd # f BY <1>3, <1>5 DEF InTasks
  <2>2. \A i, j \in DOMAIN tasks' : tasks'[i].fd = tasks'[j].fd => i = j
    BY <1>5, <2>1 DEF Unique, t
  <2> QED BY <1>4, <1>6, <2>2 DEF Unique
<1> HIDE DEF f
<1>11. Apart' BY <1>1, <1>3, <1>4, <1>6, <1>7, <1>8, AfterEffect DEF Apart
<1>12. Owned' BY <1>1, <1>2, <1>3, <1>4, <1>7, <1>8, AfterEffect DEF Owned
<1> QED BY <1>9, <1>10, <1>11, <1>12

(* The event of the listening socket is of no client.                        *)
LEMMA EventListenKeeps == ASSUME IInv, EventListen PROVE IInv'
<1> USE NamesAssumption DEF IInv, EventListen
<1>1. /\ batch' = {e \in batch : e.fd # Listen} /\ main.fd = None /\ main' = [at |-> "accept", fd |-> None]
      /\ UNCHANGED <<armed, timer, users, tasks, wk, sock>>
  BY DEF Typed, http, pool
<1>2. \A g \in Fds : (InBatch(g)' <=> InBatch(g)) /\ (InTasks(g)' <=> InTasks(g))
  BY <1>1 DEF InBatch, InTasks
<1>3. Typed' BY <1>1 DEF Typed, MainAts
<1>4. Unique' BY <1>1 DEF Unique
<1>5. Apart' /\ Owned' BY <1>1, <1>2, SameOwners
<1> QED BY <1>3, <1>4, <1>5

(* The end of the accept loop moves no client.                               *)
LEMMA AcceptEndsKeeps == ASSUME IInv, AcceptEnds PROVE IInv'
<1> USE NamesAssumption DEF IInv, AcceptEnds
<1>1. main' = After(batch) /\ main.fd = None /\ UNCHANGED <<batch, armed, timer, users, tasks, wk, sock>>
  BY DEF Typed, http, pool
<1>2. \A g \in Fds : (InBatch(g)' <=> InBatch(g)) /\ (InTasks(g)' <=> InTasks(g))
  BY <1>1 DEF InBatch, InTasks
<1>3. Typed'
  <2>1. /\ main' \in [at : MainAts, fd : Fds \cup {None}] /\ main'.fd = None
        /\ main'.at \in {"tick", "events"} /\ (main'.at = "tick" => batch = {})
    BY <1>1, AfterEffect
  <2> QED BY <1>1, <2>1 DEF Typed
<1>4. Unique' BY <1>1 DEF Unique
<1>5. Apart' /\ Owned' BY <1>1, <1>2, AfterEffect, SameOwners
<1> QED BY <1>3, <1>4, <1>5

(* A new client gets a descriptor nobody has, and is registered.             *)
LEMMA AcceptKeeps == ASSUME IInv, NEW f \in Fds, Accept(f) PROVE IInv'
<1> USE NamesAssumption DEF IInv, Accept
<1> DEFINE s == [req |-> FALSE, fin |-> FALSE, full |-> FALSE]
<1>1. /\ main.fd = None /\ sock[f] = None /\ users[f].closed
      /\ timer' = timer \cup {f} /\ UNCHANGED <<main, batch, tasks, wk>>
  BY DEF Typed, Free, Owned, pool
<1>2. ~InBatch(f) /\ ~InTasks(f) /\ ~InWork(f) BY <1>1 DEF Owned
<1>3. /\ sock' = [sock EXCEPT ![f] = s] /\ s \in Sockets /\ s # None
      /\ armed' = [armed EXCEPT ![f] = "in"]
  <2>1. s \in Sockets BY DEF Sockets
  <2>2. s # None BY <2>1 DEF Sockets
  <2> QED BY <2>1, <2>2
<1> HIDE DEF s
<1>4. /\ users' \in [Fds -> HttpConns] /\ ~users'[f].closed
      /\ \A g \in Fds \ {f} : users'[g] = users[g]
  <2>1. users[f] \in HttpConns BY DEF Typed
  <2>2. [users[f] EXCEPT !.closed = FALSE] \in HttpConns /\ [users[f] EXCEPT !.closed = FALSE].closed = FALSE
    BY <2>1 DEF HttpConns
  <2>3. users' = [users EXCEPT ![f] = [users[f] EXCEPT !.closed = FALSE]] OBVIOUS
  <2> QED BY <2>2, <2>3 DEF Typed
<1>5. \A g \in Fds : /\ InBatch(g)' <=> InBatch(g)
                     /\ InTasks(g)' <=> InTasks(g)
                     /\ InWork(g)' <=> InWork(g)
  BY <1>1 DEF InBatch, InTasks, InWork
<1> HIDE DEF Accept
<1>6. Typed' BY <1>1, <1>3, <1>4 DEF Typed
<1>7. Unique' BY <1>1 DEF Unique
<1>8. Apart' BY <1>1, <1>2, <1>3, <1>5 DEF Apart, Typed, InWork
<1>9. Owned'
  <2>1. armed'[f] = "in" /\ sock'[f] # None
        /\ \A g \in Fds \ {f} : armed'[g] = armed[g] /\ sock'[g] = sock[g]
    BY <1>3 DEF Typed
  <2> QED BY <1>1, <1>4, <1>5, <2>1 DEF Owned
<1> QED BY <1>6, <1>7, <1>8, <1>9

(* Epoll hands the clients that are ready to the batch and switches them     *)
(* off.                                                                      *)
LEMMA WaitKeeps == ASSUME IInv, Wait PROVE IInv'
<1> USE NamesAssumption DEF IInv, Wait
<1> DEFINE ready == {f \in Fds : Ready(f)}
           events == {[fd |-> f, ev |-> IF sock[f].fin THEN "hup" ELSE armed[f]] : f \in ready}
<1>1. /\ batch = {} /\ main.fd = None /\ ready \subseteq Fds
      /\ batch' = events \cup (IF edge THEN {[fd |-> Listen, ev |-> "in"]} ELSE {})
      /\ armed' = [f \in Fds |-> IF f \in ready THEN "off" ELSE armed[f]]
      /\ main' = [at |-> IF batch' = {} THEN "tick" ELSE "events", fd |-> None]
      /\ UNCHANGED <<timer, users, tasks, wk, sock>>
  BY DEF Typed, http, pool
<1>2. \A f \in ready : armed[f] \in {"in", "out"} BY DEF Ready
<1>3. \A f \in ready : armed'[f] = "off" /\ ~InTasks(f) /\ ~InWork(f) /\ ~users[f].closed
  BY <1>1, <1>2 DEF Apart, Owned, InWork
<1>4. \A e \in events : e \in [fd : Fds, ev : {"in", "out", "hup"}] /\ e.fd \in ready BY <1>2
<1>5. \A d, e \in events : d.fd = e.fd => d = e OBVIOUS
<1>6. \A g \in Fds : InBatch(g)' <=> g \in ready
  <2>1. ASSUME NEW g \in ready PROVE \E e \in events : e.fd = g
    <3>1. [fd |-> g, ev |-> IF sock[g].fin THEN "hup" ELSE armed[g]] \in events OBVIOUS
    <3> QED BY <3>1
  <2> QED BY <1>1, <1>4, <2>1 DEF InBatch
<1> HIDE DEF events, ready
<1>7. batch' \subseteq [fd : Fds \cup {Listen}, ev : {"in", "out", "hup"}]
      /\ \A e \in batch' : e.fd = Listen => e.ev = "in"
  BY <1>1, <1>4
<1>8. Typed' BY <1>1, <1>7 DEF Typed, MainAts
<1>9. Unique' BY <1>1, <1>4, <1>5 DEF Unique
<1>10. \A g \in Fds : ~InBatch(g) /\ (InTasks(g)' <=> InTasks(g)) /\ (InWork(g)' <=> InWork(g))
  BY <1>1 DEF InBatch, InTasks, InWork
<1>11. Apart' BY <1>1, <1>3, <1>6, <1>10 DEF Apart, InWork
<1>12. Owned' BY <1>1, <1>2, <1>3, <1>6, <1>10 DEF Owned
<1> QED BY <1>8, <1>9, <1>11, <1>12
(* The head of a sequence.                                                   *)
LEMMA FirstOfSeq ==
  ASSUME NEW S, NEW q \in Seq(S), q # <<>> PROVE Head(q) = q[1] /\ Head(q) \in S
OBVIOUS

(* A worker takes the client at the head of the queue; the other tasks move  *)
(* up.                                                                       *)
LEMMA TakeKeeps == ASSUME IInv, NEW w \in Workers, Take(w) PROVE IInv'
<1> USE NamesAssumption DEF IInv, Take
<1> DEFINE t == Head(tasks)
           n == Len(tasks)
<1>1. /\ tasks \in Seq([fd : Fds, op : {"in", "out"}]) /\ n \in Nat /\ n > 0
      /\ DOMAIN tasks = 1..n /\ t = tasks[1] /\ t \in [fd : Fds, op : {"in", "out"}]
      /\ tasks' \in Seq([fd : Fds, op : {"in", "out"}])
      /\ DOMAIN tasks' = 1..(n - 1) /\ \A i \in 1..(n - 1) : tasks'[i] = tasks[i + 1]
  <2>1. tasks \in Seq([fd : Fds, op : {"in", "out"}]) /\ tasks # <<>> /\ tasks' = Tail(tasks)
    BY DEF Typed
  <2>2. n \in Nat /\ n > 0 /\ DOMAIN tasks = 1..n BY <2>1
  <2>3. t = tasks[1] /\ t \in [fd : Fds, op : {"in", "out"}] BY <2>1, FirstOfSeq
  <2>4. /\ tasks' \in Seq([fd : Fds, op : {"in", "out"}])
        /\ Len(tasks') = n - 1 /\ \A i \in 1..(n - 1) : tasks'[i] = tasks[i + 1]
    BY <2>1, <2>2
  <2> QED BY <2>1, <2>2, <2>3, <2>4
<1>2. /\ wk[w].fd = None
      /\ wk' = [wk EXCEPT ![w] = [at |-> t.op, fd |-> t.fd]]
      /\ UNCHANGED <<main, batch, armed, timer, users, sock>>
  BY DEF Typed, http
<1>3. /\ wk' \in [Workers -> [at : WorkerAts, fd : Fds \cup {None}]]
      /\ wk'[w].fd = t.fd /\ wk'[w].at \in {"in", "out"} /\ \A v \in Workers \ {w} : wk'[v] = wk[v]
  BY <1>1, <1>2 DEF Typed, WorkerAts
<1>4. InTasks(t.fd) BY <1>1 DEF InTasks
<1>5. t.fd \in Fds /\ armed[t.fd] = "off" /\ ~InWork(t.fd) /\ ~InBatch(t.fd) /\ main.fd # t.fd
  BY <1>1, <1>4 DEF Apart
<1> HIDE DEF t, n, Take
<1>6. \A g \in Fds : /\ InBatch(g)' <=> InBatch(g)
                     /\ InWork(g)' <=> InWork(g) \/ g = t.fd
  BY <1>2, <1>3 DEF InBatch, InWork
<1>7. \A g \in Fds : InTasks(g)' <=> InTasks(g) /\ g # t.fd
  <2>1. \A i \in 1..n : tasks[i].fd = t.fd => i = 1 BY <1>1 DEF Unique
  <2>2. ASSUME NEW g \in Fds, InTasks(g)' PROVE InTasks(g) /\ g # t.fd
    <3>1. PICK i \in 1..(n - 1) : tasks'[i].fd = g BY <1>1, <2>2 DEF InTasks
    <3>2. i + 1 \in 1..n /\ i + 1 # 1 /\ tasks[i + 1].fd = g BY <1>1, <3>1
    <3> QED BY <1>1, <2>1, <3>2 DEF InTasks
  <2>3. ASSUME NEW g \in Fds, InTasks(g), g # t.fd PROVE InTasks(g)'
    <3>1. PICK i \in 1..n : tasks[i].fd = g BY <1>1, <2>3 DEF InTasks
    <3>2. i - 1 \in 1..(n - 1) /\ tasks'[i - 1] = tasks[i] BY <1>1, <2>3, <3>1
    <3> QED BY <1>1, <3>1, <3>2 DEF InTasks
  <2> QED BY <2>2, <2>3
<1>8. Typed' BY <1>1, <1>2, <1>3 DEF Typed
<1>9. Unique'
  <2>1. \A i, j \in DOMAIN tasks' : tasks'[i].fd = tasks'[j].fd => i = j
    <3>1. ASSUME NEW i \in 1..(n - 1), NEW j \in 1..(n - 1), tasks'[i].fd = tasks'[j].fd PROVE i = j
      <4>1. i + 1 \in 1..n /\ j + 1 \in 1..n BY <1>1
      <4>2. tasks[i + 1].fd = tasks[j + 1].fd BY <1>1, <3>1
      <4>3. i + 1 = j + 1 BY <1>1, <4>1, <4>2 DEF Unique
      <4> QED BY <4>3
    <3> QED BY <1>1, <3>1
  <2>2. \A v \in Workers : wk[v].fd # t.fd BY <1>5 DEF InWork
  <2> QED BY <1>2, <1>3, <2>1, <2>2 DEF Unique
<1>10. Apart' BY <1>2, <1>3, <1>5, <1>6, <1>7 DEF Apart
<1>11. Owned' BY <1>2, <1>4, <1>6, <1>7 DEF Owned
<1> QED BY <1>8, <1>9, <1>10, <1>11

(* A worker without a task has no client to lose.                            *)
LEMMA SleepKeeps == ASSUME IInv, NEW w \in Workers, Sleep(w) PROVE IInv'
<1> USE NamesAssumption DEF IInv, Sleep
<1>1. "wait" \in WorkerAts /\ Step(w, "wait") /\ wk[w].at = "ready"
      /\ UNCHANGED <<main, batch, armed, timer, users, tasks, sock>>
  BY DEF WorkerAts, http
<1>2. /\ wk' \in [Workers -> [at : WorkerAts, fd : Fds \cup {None}]]
      /\ wk'[w].at = "wait" /\ wk'[w].fd = wk[w].fd
      /\ \A v \in Workers \ {w} : wk'[v] = wk[v]
  BY <1>1, StepEffect
<1>3. \A g \in Fds : (InBatch(g)' <=> InBatch(g)) /\ (InTasks(g)' <=> InTasks(g))
  BY <1>1 DEF InBatch, InTasks
<1>4. Typed' BY <1>1, <1>2 DEF Typed
<1>5. Unique' BY <1>1, <1>2 DEF Unique
<1>6. Apart' /\ Owned' BY <1>1, <1>2, <1>3, SameOwners
<1> QED BY <1>4, <1>5, <1>6

(* A worker that reads or writes keeps its client, open.                     *)
LEMMA ServingKeeps ==
  ASSUME IInv, NEW w \in Workers, NEW at \in WorkerAts \ {"ready", "wait", "shut"},
         wk[w].at \in {"in", "out"}, Step(w, at),
         UNCHANGED <<main, batch, armed, timer, tasks>>,
         users' \in [Fds -> HttpConns], sock' \in [Fds -> Sockets \cup {None}],
         \A g \in Fds : /\ users'[g].closed <=> users[g].closed
                        /\ sock'[g] = None <=> sock[g] = None
  PROVE  IInv'
<1> USE NamesAssumption DEF IInv
<1>1. /\ wk' \in [Workers -> [at : WorkerAts, fd : Fds \cup {None}]]
      /\ wk'[w].at = at /\ wk'[w].fd = wk[w].fd
      /\ \A v \in Workers \ {w} : wk'[v] = wk[v]
  BY StepEffect
<1>2. \A g \in Fds : (InBatch(g)' <=> InBatch(g)) /\ (InTasks(g)' <=> InTasks(g))
  BY DEF InBatch, InTasks
<1>3. Typed'
  <2>1. \A v \in Workers : wk'[v].at \in {"ready", "wait"} <=> wk'[v].fd = None BY <1>1 DEF Typed
  <2> QED BY <1>1, <2>1 DEF Typed
<1>4. Unique' BY <1>1 DEF Unique
<1>5. Apart' /\ Owned' BY <1>1, <1>2, SameOwners
<1> QED BY <1>3, <1>4, <1>5

(* Making a response leaves isClose_ alone.                                  *)
LEMMA ResponseEffect ==
  ASSUME NEW u \in HttpConns, NEW hasFile \in BOOLEAN
  PROVE  Response(u, hasFile) \in HttpConns /\ Response(u, hasFile).closed = u.closed
<1>1. CASE hasFile
  <2>1. Response(u, hasFile) = [closed |-> u.closed, head |-> 1, file |-> 1, cnt |-> 2]
    BY <1>1 DEF Response, HttpConns
  <2> QED BY <2>1 DEF HttpConns
<1>2. CASE ~hasFile
  <2>1. Response(u, hasFile) = [closed |-> u.closed, head |-> 1, file |-> u.file, cnt |-> 1]
    BY <1>2 DEF Response, HttpConns
  <2> QED BY <2>1 DEF HttpConns
<1> QED BY <1>1, <1>2

(* So does sending it.                                                       *)
LEMMA SentEffect ==
  ASSUME NEW u \in HttpConns
  PROVE  Sent(u) \in HttpConns /\ Sent(u).closed = u.closed
<1>1. CASE u.cnt = 2
  <2>1. Sent(u) = [closed |-> u.closed, head |-> 0, file |-> 0, cnt |-> u.cnt]
    BY <1>1 DEF Sent, HttpConns
  <2> QED BY <2>1 DEF HttpConns
<1>2. CASE u.cnt # 2
  <2>1. Sent(u) = [closed |-> u.closed, head |-> 0, file |-> u.file, cnt |-> u.cnt]
    BY <1>2 DEF Sent, HttpConns
  <2> QED BY <2>1 DEF HttpConns
<1> QED BY <1>1, <1>2

(* The read task keeps the invariant.                                        *)
LEMMA OnReadKeeps == ASSUME IInv, NEW w \in Workers, OnRead(w) PROVE IInv'
<1> DEFINE f == wk[w].fd
<1>1. f \in Fds /\ wk[w].at = "in" /\ UNCHANGED <<main, batch, armed, timer, tasks>>
  BY DEF OnRead, IInv, Typed
<1>2. {"close", "armIn", "armOut"} \subseteq WorkerAts \ {"ready", "wait", "shut"} BY DEF WorkerAts
<1>3. users \in [Fds -> HttpConns] /\ sock \in [Fds -> Sockets \cup {None}] BY DEF IInv, Typed
<1>4. CASE UNCHANGED <<users, sock>> /\ (Step(w, "close") \/ Step(w, "armIn"))
  BY <1>1, <1>2, <1>3, <1>4, ServingKeeps
<1>5. ASSUME NEW hasFile \in BOOLEAN, Connected(f), Step(w, "armOut"),
             sock' = [sock EXCEPT ![f] = [sock[f] EXCEPT !.req = FALSE]],
             users' = [users EXCEPT ![f] = Response(users[f], hasFile)]
      PROVE  IInv'
  <2>1. sock[f] # None /\ sock[f] \in Sockets BY <1>1, <1>3, <1>5 DEF Connected
  <2>2. [sock[f] EXCEPT !.req = FALSE] \in Sockets BY <2>1 DEF Sockets
  <2>3. [sock[f] EXCEPT !.req = FALSE] # None BY <2>2, NamesAssumption DEF Sockets
  <2>4. users[f] \in HttpConns BY <1>1, <1>3
  <2>5. /\ Response(users[f], hasFile) \in HttpConns
        /\ Response(users[f], hasFile).closed = users[f].closed
    BY <2>4, ResponseEffect
  <2>6. /\ sock' \in [Fds -> Sockets \cup {None}]
        /\ \A g \in Fds : sock'[g] = None <=> sock[g] = None
    BY <1>1, <1>3, <1>5, <2>1, <2>2, <2>3
  <2>7. /\ users' \in [Fds -> HttpConns]
        /\ \A g \in Fds : users'[g].closed <=> users[g].closed
    BY <1>1, <1>3, <1>5, <2>5
  <2> QED BY <1>1, <1>2, <1>5, <2>6, <2>7, ServingKeeps
<1> QED BY <1>4, <1>5 DEF OnRead

(* The write task keeps the invariant.                                       *)
LEMMA OnWriteKeeps == ASSUME IInv, NEW w \in Workers, OnWrite(w) PROVE IInv'
<1> DEFINE f == wk[w].fd
<1>1. f \in Fds /\ wk[w].at = "out" /\ UNCHANGED <<main, batch, armed, timer, tasks>>
  BY DEF OnWrite, IInv, Typed
<1>2. {"close", "armIn", "armOut"} \subseteq WorkerAts \ {"ready", "wait", "shut"} BY DEF WorkerAts
<1>3. users \in [Fds -> HttpConns] /\ sock \in [Fds -> Sockets \cup {None}] BY DEF IInv, Typed
<1>4. users[f] \in HttpConns BY <1>1, <1>3
<1>5. CASE UNCHANGED <<users, sock>> /\ Step(w, "close")
  BY <1>1, <1>2, <1>3, <1>5, ServingKeeps
<1>6. CASE UNCHANGED sock /\ users' = [users EXCEPT ![f] = Sent(users[f])] /\ (Step(w, "armIn") \/ Step(w, "close"))
  <2>1. Sent(users[f]) \in HttpConns /\ Sent(users[f]).closed = users[f].closed
    BY <1>4, SentEffect
  <2>2. /\ users' \in [Fds -> HttpConns]
        /\ \A g \in Fds : users'[g].closed <=> users[g].closed
    BY <1>1, <1>3, <1>6, <2>1
  <2> QED BY <1>1, <1>2, <1>3, <1>6, <2>2, ServingKeeps
<1>7. CASE /\ sock[f] # None /\ Step(w, "armOut")
           /\ users' = [users EXCEPT ![f] = [users[f] EXCEPT !.head = 0]]
           /\ sock' = [sock EXCEPT ![f] = [sock[f] EXCEPT !.full = TRUE]]
  <2>1. sock[f] # None /\ sock[f] \in Sockets BY <1>1, <1>3, <1>7
  <2>2. [sock[f] EXCEPT !.full = TRUE] \in Sockets BY <2>1 DEF Sockets
  <2>3. [sock[f] EXCEPT !.full = TRUE] # None BY <2>2, NamesAssumption DEF Sockets
  <2>4. /\ [users[f] EXCEPT !.head = 0] \in HttpConns
        /\ [users[f] EXCEPT !.head = 0].closed = users[f].closed
    BY <1>4 DEF HttpConns
  <2>5. /\ sock' \in [Fds -> Sockets \cup {None}]
        /\ \A g \in Fds : sock'[g] = None <=> sock[g] = None
    BY <1>1, <1>3, <1>7, <2>1, <2>2, <2>3
  <2>6. /\ users' \in [Fds -> HttpConns]
        /\ \A g \in Fds : users'[g].closed <=> users[g].closed
    BY <1>1, <1>3, <1>7, <2>4
  <2> QED BY <1>1, <1>2, <1>7, <2>5, <2>6, ServingKeeps
<1> QED BY <1>5, <1>6, <1>7 DEF OnWrite

(* A worker arms its client, which is registered and off: the client goes    *)
(* back to epoll.                                                            *)
LEMMA ArmKeeps == ASSUME IInv, NEW w \in Workers, Arm(w) PROVE IInv'
<1> USE NamesAssumption DEF IInv
<1> DEFINE f == wk[w].fd
           ev == IF wk[w].at = "armIn" THEN "in" ELSE "out"
<1>1. f \in Fds /\ InWork(f) BY DEF Typed, InWork, Arm
<1>2. armed[f] = "off" /\ ~InBatch(f) /\ ~InTasks(f) /\ main.fd # f /\ ~users[f].closed
  BY <1>1 DEF Apart, Owned, Arm
<1>3. /\ armed' = [armed EXCEPT ![f] = ev] /\ ev \in {"in", "out"} /\ Done(w)
      /\ UNCHANGED <<main, batch, timer, users, tasks, sock>>
  BY <1>2 DEF Arm, ModFd, http
<1>4. /\ wk' \in [Workers -> [at : WorkerAts, fd : Fds \cup {None}]]
      /\ wk'[w].at = "ready" /\ wk'[w].fd = None
      /\ \A v \in Workers \ {w} : wk'[v] = wk[v] /\ wk[v].fd # f
      /\ \A g \in Fds : InWork(g)' <=> InWork(g) /\ g # f
  BY <1>1, <1>3, DoneEffect
<1>5. \A g \in Fds : (InBatch(g)' <=> InBatch(g)) /\ (InTasks(g)' <=> InTasks(g))
  BY <1>3 DEF InBatch, InTasks
<1> HIDE DEF f, ev
<1>6. Typed' BY <1>1, <1>3, <1>4 DEF Typed
<1>7. Unique' BY <1>3, <1>4 DEF Unique
<1>8. Apart' BY <1>1, <1>2, <1>3, <1>4, <1>5 DEF Apart, Typed
<1>9. Owned' BY <1>1, <1>2, <1>3, <1>4, <1>5 DEF Owned, Typed
<1> QED BY <1>6, <1>7, <1>8, <1>9

(* A worker that closes its client finds it open, and unregisters it.        *)
LEMMA CloseTestKeeps == ASSUME IInv, NEW w \in Workers, CloseTest(w) PROVE IInv'
<1> USE NamesAssumption DEF IInv
<1> DEFINE f == wk[w].fd
<1>1. f \in Fds /\ InWork(f) BY DEF Typed, InWork, CloseTest
<1>2. armed[f] = "off" /\ ~InBatch(f) /\ ~InTasks(f) /\ main.fd # f /\ ~users[f].closed
  BY <1>1 DEF Apart, Owned, CloseTest
<1>3. /\ DelTest(f) /\ Step(w, "shut") /\ "shut" \in WorkerAts
      /\ UNCHANGED <<main, batch, timer, users, tasks, sock>>
  BY <1>2 DEF CloseTest, http, WorkerAts
<1>4. /\ wk' \in [Workers -> [at : WorkerAts, fd : Fds \cup {None}]]
      /\ wk'[w].at = "shut" /\ wk'[w].fd = f
      /\ \A v \in Workers \ {w} : wk'[v] = wk[v]
  BY <1>3, StepEffect
<1>5. \A v \in Workers \ {w} : wk[v].fd # f BY <1>1 DEF Unique
<1>6. \A g \in Fds : /\ InBatch(g)' <=> InBatch(g)
                     /\ InTasks(g)' <=> InTasks(g)
                     /\ InWork(g)' <=> InWork(g)
  BY <1>3, <1>4 DEF InBatch, InTasks, InWork
<1>6a. wk[w].fd = f OBVIOUS
<1> HIDE DEF f
<1>7. Typed'
  <2>1. \A v \in Workers : wk'[v].at \in {"ready", "wait"} <=> wk'[v].fd = None BY <1>1, <1>4 DEF Typed
  <2>2. armed' \in [Fds -> {"none", "off", "in", "out"}] BY <1>1, <1>3, DelTestEffect
  <2> QED BY <1>3, <1>4, <2>1, <2>2 DEF Typed
<1>8. Unique' BY <1>3, <1>4, <1>6a DEF Unique
<1>9. Apart' BY <1>1, <1>2, <1>3, <1>4, <1>5, <1>6, DelTestEffect DEF Apart
<1>10. Owned' BY <1>1, <1>2, <1>3, <1>6, DelTestEffect DEF Owned
<1> QED BY <1>7, <1>8, <1>9, <1>10

(* ... and closes it.                                                        *)
LEMMA CloseShutKeeps == ASSUME IInv, NEW w \in Workers, CloseShut(w) PROVE IInv'
<1> USE NamesAssumption DEF IInv
<1> DEFINE f == wk[w].fd
<1>1. f \in Fds /\ InWork(f) BY DEF Typed, InWork, CloseShut
<1>2. ~InBatch(f) /\ ~InTasks(f) /\ main.fd # f BY <1>1 DEF Apart
<1>3. Shut(f) /\ Done(w) /\ UNCHANGED <<main, batch, timer, tasks>> BY DEF CloseShut
<1>4. /\ wk' \in [Workers -> [at : WorkerAts, fd : Fds \cup {None}]]
      /\ wk'[w].at = "ready" /\ wk'[w].fd = None
      /\ \A v \in Workers \ {w} : wk'[v] = wk[v] /\ wk[v].fd # f
      /\ \A g \in Fds : InWork(g)' <=> InWork(g) /\ g # f
  BY <1>1, <1>3, DoneEffect
<1>5. \A g \in Fds : (InBatch(g)' <=> InBatch(g)) /\ (InTasks(g)' <=> InTasks(g))
  BY <1>3 DEF InBatch, InTasks
<1> HIDE DEF f
<1>6. Typed' BY <1>1, <1>3, <1>4, ShutEffect DEF Typed
<1>7. Unique' BY <1>3, <1>4 DEF Unique
<1>8. Apart' BY <1>1, <1>2, <1>3, <1>4, <1>5, ShutEffect DEF Apart
<1>9. Owned' BY <1>1, <1>2, <1>3, <1>4, <1>5, ShutEffect DEF Owned
<1> QED BY <1>6, <1>7, <1>8, <1>9

(* What clients do moves no client between owners.                           *)
LEMMA ClientKeeps ==
  ASSUME IInv, NEW f \in Fds, Send(f) \/ Leave(f) \/ Receive(f) PROVE IInv'
<1> USE NamesAssumption DEF IInv
<1>1. UNCHANGED <<main, batch, armed, timer, users, tasks, wk>> BY DEF Send, Leave, Receive, http, pool
<1>2. sock[f] # None /\ sock[f] \in Sockets BY DEF Send, Leave, Receive, Connected, Typed
<1>3. PICK s \in Sockets : sock' = [sock EXCEPT ![f] = s]
  <2>1. /\ [sock[f] EXCEPT !.req = TRUE] \in Sockets
        /\ [sock[f] EXCEPT !.fin = TRUE] \in Sockets
        /\ [sock[f] EXCEPT !.full = FALSE] \in Sockets
    BY <1>2 DEF Sockets
  <2> QED BY <2>1 DEF Send, Leave, Receive
<1>4. s # None BY DEF Sockets
<1>5. sock' \in [Fds -> Sockets \cup {None}] /\ \A g \in Fds : sock'[g] = None <=> sock[g] = None
  BY <1>2, <1>3, <1>4 DEF Typed
<1>6. \A g \in Fds : (InBatch(g)' <=> InBatch(g)) /\ (InTasks(g)' <=> InTasks(g))
  BY <1>1 DEF InBatch, InTasks
<1>7. Typed' BY <1>1, <1>5 DEF Typed
<1>8. Unique' BY <1>1 DEF Unique
<1>9. Apart' /\ Owned' BY <1>1, <1>5, <1>6, SameOwners
<1> QED BY <1>7, <1>8, <1>9

(* A step that changes none of this keeps it.                                *)
LEMMA NothingKeeps ==
  ASSUME IInv, UNCHANGED <<main, batch, armed, timer, users, tasks, wk, sock>> PROVE IInv'
BY DEF IInv, Typed, Unique, Apart, Owned, InBatch, InTasks, InWork
(* Every step keeps the invariant.                                           *)
LEMMA NextKeeps == ASSUME IInv, ~LateTimeouts, [Next]_vars PROVE IInv'
<1>1. ASSUME NEW f \in Fds, TickExpire(f) PROVE IInv' BY <1>1, TickExpireKeeps
<1>2. ASSUME NEW w \in Workers, WorkerStep(w) PROVE IInv'
  BY <1>2, TakeKeeps, SleepKeeps, OnReadKeeps, OnWriteKeeps, ArmKeeps, CloseTestKeeps, CloseShutKeeps
     DEF WorkerStep
<1>3. CASE Connect BY <1>3, NothingKeeps DEF Connect, http, pool
<1>4. CASE UNCHANGED vars BY <1>4, NothingKeeps DEF vars, http, pool
<1>5. CASE MainStep
  BY <1>5, <1>1, TickShutKeeps, WaitKeeps, EventShutKeeps, EventListenKeeps, AcceptEndsKeeps,
     EventHupKeeps, EventTaskKeeps, AcceptKeeps DEF MainStep
<1> QED BY <1>2, <1>3, <1>4, <1>5, ClientKeeps DEF Next

(* A set of at most one element.                                             *)
LEMMA CountOfOne ==
  ASSUME NEW S, \A x, y \in S : x = y
  PROVE  Cardinality(S) = IF S = {} THEN 0 ELSE 1
<1>1. CASE S = {} BY <1>1, FS_EmptySet
<1>2. CASE S # {}
  <2>1. PICK x : x \in S BY <1>2
  <2>2. S = {x} BY <2>1
  <2> QED BY <1>2, <2>2, FS_Singleton
<1> QED BY <1>1, <1>2

(* The invariant gives the property: each kind counts at most one owner, and *)
(* no two kinds count.                                                       *)
LEMMA OwnersCounted == ASSUME IInv PROVE ExactlyOneOwner
<1> SUFFICES ASSUME NEW f \in Fds PROVE Holders(f) = IF users[f].closed THEN 0 ELSE 1
  BY DEF ExactlyOneOwner
<1> DEFINE W == {w \in Workers : wk[w].fd = f}
           T == {i \in DOMAIN tasks : tasks[i].fd = f}
           B == {e \in batch : e.fd = f}
<1>1. Cardinality(W) = IF InWork(f) THEN 1 ELSE 0
  <2>1. \A v, w \in W : v = w BY NamesAssumption DEF IInv, Unique
  <2>2. W = {} <=> ~InWork(f) BY DEF InWork
  <2> HIDE DEF W
  <2> QED BY <2>1, <2>2, CountOfOne
<1>2. Cardinality(T) = IF InTasks(f) THEN 1 ELSE 0
  <2>1. \A i, j \in T : i = j BY DEF IInv, Unique
  <2>2. T = {} <=> ~InTasks(f) BY DEF InTasks
  <2> HIDE DEF T
  <2> QED BY <2>1, <2>2, CountOfOne
<1>3. Cardinality(B) = IF InBatch(f) THEN 1 ELSE 0
  <2>1. \A d, e \in B : d = e BY DEF IInv, Unique
  <2>2. B = {} <=> ~InBatch(f) BY DEF InBatch
  <2> HIDE DEF B
  <2> QED BY <2>1, <2>2, CountOfOne
<1>4. Holders(f) = Cardinality(W) + Cardinality(T) + Cardinality(B)
                     + (IF main.fd = f THEN 1 ELSE 0) + (IF armed[f] \in {"in", "out"} THEN 1 ELSE 0)
  BY DEF Holders
<1> HIDE DEF W, T, B
<1>5. /\ InBatch(f) => armed[f] = "off" /\ ~InTasks(f) /\ ~InWork(f)
      /\ InTasks(f) => armed[f] = "off" /\ ~InWork(f)
      /\ InWork(f) => armed[f] \in {"none", "off"}
      /\ main.fd = f => armed[f] = "none" /\ ~InWork(f)
  BY DEF IInv, Apart, InWork
<1>6. ~users[f].closed <=>
        armed[f] \in {"in", "out"} \/ InBatch(f) \/ InTasks(f) \/ InWork(f) \/ main.fd = f
  BY DEF IInv, Owned
<1> QED BY <1>1, <1>2, <1>3, <1>4, <1>5, <1>6

(* The first part of CountMatchesSockets; IInv has the second.               *)
Counted == userCount = Cardinality(Fds \ Free)

(* Closing an open client takes one from both counts.                        *)
LEMMA ShutCounts ==
  ASSUME IInv, Counted, NEW f \in Fds, ~users[f].closed, Shut(f) PROVE Counted'
<1>1. sock[f] # None BY DEF IInv, Owned
<1>2. sock'[f] = None /\ \A g \in Fds \ {f} : sock'[g] = sock[g]
  BY ShutEffect DEF IInv
<1>3. (Fds \ Free)' = (Fds \ Free) \ {f} BY <1>1, <1>2 DEF Free
<1>4. IsFiniteSet(Fds \ Free) BY FdsAssumption, FS_Subset
<1>5. f \in Fds \ Free BY <1>1 DEF Free
<1>6. Cardinality((Fds \ Free) \ {f}) = Cardinality(Fds \ Free) - 1 BY <1>4, <1>5, FS_RemoveElement
<1>7. userCount' = userCount - 1 BY DEF Shut
<1> QED BY <1>3, <1>6, <1>7 DEF Counted

(* Accepting one adds one to both.                                           *)
LEMMA AcceptCounts ==
  ASSUME IInv, Counted, NEW f \in Fds, Accept(f) PROVE Counted'
<1> DEFINE s == [req |-> FALSE, fin |-> FALSE, full |-> FALSE]
<1>1. sock[f] = None /\ sock' = [sock EXCEPT ![f] = s] /\ userCount' = userCount + 1
  BY DEF Accept, Free
<1>2. s # None
  <2>1. s \in Sockets BY DEF Sockets
  <2> QED BY <2>1, NamesAssumption DEF Sockets
<1> HIDE DEF s
<1>3. (Fds \ Free)' = (Fds \ Free) \cup {f} BY <1>1, <1>2 DEF Free, IInv, Typed
<1>4. IsFiniteSet(Fds \ Free) BY FdsAssumption, FS_Subset
<1>5. f \notin Fds \ Free BY <1>1 DEF Free
<1>6. Cardinality((Fds \ Free) \cup {f}) = Cardinality(Fds \ Free) + 1 BY <1>4, <1>5, FS_AddElement
<1> QED BY <1>1, <1>3, <1>6 DEF Counted

(* A step that opens and closes no descriptor keeps the count.               *)
LEMMA SameCount ==
  ASSUME Counted, UNCHANGED userCount, \A g \in Fds : sock'[g] = None <=> sock[g] = None PROVE Counted'
<1>1. (Fds \ Free)' = Fds \ Free BY DEF Free
<1> QED BY <1>1 DEF Counted

(* Reading, writing and what clients do keep a socket open.                  *)
LEMMA SocketChanges ==
  ASSUME IInv, NEW f \in Fds, Connected(f) \/ sock[f] # None,
         \/ sock' = [sock EXCEPT ![f] = [sock[f] EXCEPT !.req = TRUE]]
         \/ sock' = [sock EXCEPT ![f] = [sock[f] EXCEPT !.req = FALSE]]
         \/ sock' = [sock EXCEPT ![f] = [sock[f] EXCEPT !.fin = TRUE]]
         \/ sock' = [sock EXCEPT ![f] = [sock[f] EXCEPT !.full = TRUE]]
         \/ sock' = [sock EXCEPT ![f] = [sock[f] EXCEPT !.full = FALSE]]
  PROVE  \A g \in Fds : sock'[g] = None <=> sock[g] = None
<1>1. sock[f] # None /\ sock[f] \in Sockets BY DEF IInv, Typed, Connected
<1>2. /\ [sock[f] EXCEPT !.req = TRUE] \in Sockets /\ [sock[f] EXCEPT !.req = FALSE] \in Sockets
      /\ [sock[f] EXCEPT !.fin = TRUE] \in Sockets
      /\ [sock[f] EXCEPT !.full = TRUE] \in Sockets /\ [sock[f] EXCEPT !.full = FALSE] \in Sockets
  BY <1>1 DEF Sockets
<1>3. None \notin Sockets BY NamesAssumption DEF Sockets
<1> QED BY <1>1, <1>2, <1>3 DEF IInv, Typed

(* Every step keeps the count: every closer finds its client open.           *)
LEMMA NextCounts == ASSUME IInv, Counted, [Next]_vars PROVE Counted'
<1>1. ASSUME NEW w \in Workers, WorkerStep(w) PROVE Counted'
  <2>1. CASE OnRead(w)
    <3>1. wk[w].fd \in Fds BY <2>1, NamesAssumption DEF OnRead, IInv, Typed
    <3> QED BY <2>1, <3>1, SocketChanges, SameCount DEF OnRead
  <2>2. CASE OnWrite(w)
    <3>1. wk[w].fd \in Fds BY <2>2, NamesAssumption DEF OnWrite, IInv, Typed
    <3> QED BY <2>2, <3>1, SocketChanges, SameCount DEF OnWrite
  <2>3. CASE CloseShut(w)
    <3>1. wk[w].fd \in Fds /\ ~users[wk[w].fd].closed
      BY <2>3, NamesAssumption DEF CloseShut, IInv, Typed, Owned, InWork
    <3> QED BY <2>3, <3>1, ShutCounts DEF CloseShut
  <2>4. CASE UNCHANGED <<userCount, sock>> BY <2>4, SameCount
  <2> QED BY <1>1, <2>1, <2>2, <2>3, <2>4 DEF WorkerStep, Take, Sleep, Arm, CloseTest, http
<1>2. CASE MainStep
  <2>1. CASE TickShut \/ EventShut
    <3>1. main.fd \in Fds /\ ~users[main.fd].closed
      BY <2>1, NamesAssumption DEF TickShut, EventShut, IInv, Typed, Owned
    <3> QED BY <2>1, <3>1, ShutCounts DEF TickShut, EventShut
  <2>2. CASE UNCHANGED <<userCount, sock>> BY <2>2, SameCount
  <2> QED BY <1>2, <2>1, <2>2, AcceptCounts
          DEF MainStep, TickExpire, Wait, EventListen, AcceptEnds, EventHup, EventTask, http
<1>3. ASSUME NEW f \in Fds, Send(f) \/ Leave(f) \/ Receive(f) PROVE Counted'
  <2>1. UNCHANGED userCount BY <1>3 DEF Send, Leave, Receive, http
  <2> QED BY <1>3, <2>1, SocketChanges, SameCount DEF Send, Leave, Receive
<1>4. CASE Connect \/ UNCHANGED vars
  <2>1. UNCHANGED <<userCount, sock>> BY <1>4 DEF Connect, vars, http
  <2> QED BY <2>1, SameCount
<1> QED BY <1>1, <1>2, <1>3, <1>4 DEF Next

(* Every open client has exactly one owner and a closed one none, for any    *)
(* descriptors and workers, if no timer expires while a task or a worker     *)
(* has its client (webserver.cpp: EPOLLONESHOT, CloseConn_, OnProcess).      *)
THEOREM ClientsHaveOneOwner ==
  ASSUME ~LateTimeouts PROVE Spec => []ExactlyOneOwner
<1>1. Init => IInv BY Initially
<1>2. IInv /\ [Next]_vars => IInv' BY NextKeeps
<1>3. IInv => ExactlyOneOwner BY OwnersCounted
<1> QED BY <1>1, <1>2, <1>3, PTL DEF Spec

(* userCount is the number of open descriptors and isClose_ tells which they *)
(* are, for any descriptors and workers, under the same condition            *)
(* (HttpConn::init and HttpConn::Close).                                     *)
THEOREM ClientsCountedOnce ==
  ASSUME ~LateTimeouts PROVE Spec => []CountMatchesSockets
<1>1. Init => IInv /\ Counted
  <2>1. Init => Fds \ Free = {} /\ userCount = 0 BY DEF Init, Free
  <2> QED BY <2>1, Initially, FS_EmptySet DEF Counted
<1>2. IInv /\ Counted /\ [Next]_vars => IInv' /\ Counted' BY NextKeeps, NextCounts
<1>3. IInv /\ Counted => CountMatchesSockets BY DEF IInv, Owned, Counted, CountMatchesSockets
<1> QED BY <1>1, <1>2, <1>3, PTL DEF Spec
--------------------------------------------------------------------------------
(* Timers are removed by the tick only, when no event is fetched: that is    *)
(* what makes EventHasTimer inductive.                                       *)
TimerInv ==
  /\ armed \in [Fds -> {"none", "off", "in", "out"}]
  /\ main = [at |-> main.at, fd |-> main.fd]
  /\ main.at \in {"tick", "tickShut"} => batch = {}
  /\ EventHasTimer

(* The main thread's steps over a batch end in a tick only when it is empty. *)
LEMMA AfterTicksWhenEmpty ==
  ASSUME NEW b
  PROVE  /\ After(b) = [at |-> After(b).at, fd |-> After(b).fd]
         /\ After(b).at \in {"tick", "tickShut"} => b = {}
BY DEF After

(* A worker moves its registration or drops it, and touches nothing else.    *)
LEMMA WorkerKeepsTimerInv ==
  ASSUME TimerInv, NEW w \in Workers, WorkerStep(w) PROVE TimerInv'
<1> USE DEF TimerInv, EventHasTimer
<1>1. CASE Arm(w)
  <2>1. armed' \in [Fds -> {"none", "off", "in", "out"}]
    BY <1>1 DEF Arm, ModFd
  <2>2. \A f \in Fds : armed'[f] # "none" => armed[f] # "none"
    BY <1>1 DEF Arm, ModFd
  <2> QED BY <1>1, <2>1, <2>2 DEF Arm
<1>2. CASE CloseTest(w) BY <1>2 DEF CloseTest, DelTest
<1>3. CASE CloseShut(w) BY <1>3 DEF CloseShut, Shut
<1>4. CASE Take(w) BY <1>4 DEF Take
<1>5. CASE Sleep(w) BY <1>5 DEF Sleep
<1>6. CASE OnRead(w) BY <1>6 DEF OnRead
<1>7. CASE OnWrite(w) BY <1>7 DEF OnWrite
<1> QED BY <1>1, <1>2, <1>3, <1>4, <1>5, <1>6, <1>7 DEF WorkerStep

(* The tick drops the registration of a client before its timer; the events  *)
(* it fetches are of registered descriptors; a new client gets its timer     *)
(* with its registration.                                                    *)
LEMMA MainKeepsTimerInv ==
  ASSUME TimerInv, MainStep PROVE TimerInv'
<1> USE DEF TimerInv, EventHasTimer
<1>1. ASSUME NEW f \in Fds, TickExpire(f) PROVE TimerInv'
  BY <1>1 DEF TickExpire, DelTest
<1>2. CASE TickShut BY <1>2 DEF TickShut, Shut
<1>3. CASE Wait
  <2>1. \A e \in batch' : e.fd \in Fds => armed[e.fd] # "none"
    BY <1>3, NamesAssumption DEF Wait, Ready
  <2>2. /\ armed' \in [Fds -> {"none", "off", "in", "out"}]
        /\ \A f \in Fds : armed'[f] # "none" => armed[f] # "none"
    BY <1>3 DEF Wait, Ready
  <2>3. main' = [main EXCEPT !.at = IF batch' = {} THEN "tick" ELSE "events"] /\ timer' = timer
    BY <1>3 DEF Wait
  <2>4. /\ main' = [at |-> main'.at, fd |-> main'.fd]
        /\ main'.at \in {"tick", "tickShut"} => batch' = {}
    BY <2>3
  <2> QED BY <2>1, <2>2, <2>3, <2>4
<1>4. CASE EventShut
  <2>1. /\ armed' \in [Fds -> {"none", "off", "in", "out"}]
        /\ \A f \in Fds : armed'[f] # "none" => armed[f] # "none"
    BY <1>4 DEF EventShut, Shut
  <2>2. main' = After(batch) /\ UNCHANGED <<batch, timer>>
    BY <1>4 DEF EventShut
  <2> QED BY <2>1, <2>2, AfterTicksWhenEmpty
<1>5. CASE EventListen BY <1>5 DEF EventListen
<1>6. CASE AcceptEnds BY <1>6, AfterTicksWhenEmpty DEF AcceptEnds
<1>7. ASSUME NEW e \in batch, EventHup(e) PROVE TimerInv'
  <2>1. /\ armed' \in [Fds -> {"none", "off", "in", "out"}]
        /\ \A f \in Fds : armed'[f] # "none" => armed[f] # "none"
    BY <1>7 DEF EventHup, DelTest
  <2>2. batch' \subseteq batch /\ timer' = timer
    BY <1>7 DEF EventHup
  <2>3. main' = After(batch') \/ main' = [at |-> "shut", fd |-> e.fd]
    BY <1>7 DEF EventHup
  <2>4. /\ main' = [at |-> main'.at, fd |-> main'.fd]
        /\ main'.at \in {"tick", "tickShut"} => batch' = {}
    BY <2>3, AfterTicksWhenEmpty
  <2> QED BY <2>1, <2>2, <2>4
<1>8. ASSUME NEW e \in batch, EventTask(e) PROVE TimerInv'
  BY <1>8, AfterTicksWhenEmpty DEF EventTask
<1>9. ASSUME NEW f \in Fds, Accept(f) PROVE TimerInv'
  BY <1>9 DEF Accept
<1> QED BY <1>1, <1>2, <1>3, <1>4, <1>5, <1>6, <1>7, <1>8, <1>9 DEF MainStep

(* No event is ever for a client without a timer, so ExtentTime_'s assert    *)
(* holds, whenever timers expire (webserver.cpp, DealRead_ and DealWrite_).  *)
THEOREM TimersOutliveEvents == Spec => []EventHasTimer
<1>1. Init => TimerInv
  BY DEF Init, TimerInv, EventHasTimer
<1>2. TimerInv /\ [Next]_vars => TimerInv'
  <2> SUFFICES ASSUME TimerInv, [Next]_vars PROVE TimerInv'
    OBVIOUS
  <2>1. CASE MainStep BY <2>1, MainKeepsTimerInv
  <2>2. ASSUME NEW w \in Workers, WorkerStep(w) PROVE TimerInv'
    BY <2>2, WorkerKeepsTimerInv
  <2>3. CASE Connect BY <2>3 DEF Connect, TimerInv, EventHasTimer
  <2>4. ASSUME NEW f \in Fds, Send(f) \/ Leave(f) \/ Receive(f) PROVE TimerInv'
    BY <2>4 DEF Send, Leave, Receive, TimerInv, EventHasTimer
  <2>5. CASE UNCHANGED vars BY <2>5 DEF vars, TimerInv, EventHasTimer
  <2> QED BY <2>1, <2>2, <2>3, <2>4, <2>5 DEF Next
<1>3. TimerInv => EventHasTimer BY DEF TimerInv
<1> QED BY <1>1, <1>2, <1>3, PTL DEF Spec
--------------------------------------------------------------------------------
(* A client whose response waits for room in its socket.                     *)
Blocked(f) == armed[f] = "out" /\ sock[f].full

(* While tasks are queued some worker is awake, and an open client that sent *)
(* a request, or left, is fetched by the next epoll_wait, or a task or a     *)
(* thread has it, or it has to read its response first.                      *)
Taken == tasks # <<>> => \E w \in Workers : wk[w].at # "wait"

Attended ==
  /\ Taken
  /\ \A f \in Fds \ Free :
       Asked(f) \/ ~Connected(f) =>
         \/ Ready(f) \/ (Connected(f) /\ Blocked(f))
         \/ InBatch(f) \/ InTasks(f) \/ InWork(f) \/ main.fd = f

LEMMA HeadOfQueue == ASSUME NEW S, NEW q \in Seq(S), q # <<>> PROVE Head(q) \in S
OBVIOUS

(* A worker waits only on an empty queue, and AddTask wakes one if all wait. *)
LEMMA NextTakes ==
  ASSUME Workers # {}, IInv, Taken, [Next]_vars PROVE Taken'
<1>1. /\ wk \in [Workers -> [at : WorkerAts, fd : Fds \cup {None}]]
      /\ tasks \in Seq([fd : Fds, op : {"in", "out"}])
  BY DEF IInv, Typed
<1>2. ASSUME UNCHANGED <<tasks, wk>> PROVE Taken'
  BY <1>2 DEF Taken
<1>3. ASSUME NEW w \in Workers, WorkerStep(w) PROVE Taken'
  <2>1. CASE Sleep(w) BY <2>1 DEF Sleep, Taken
  <2>2. CASE Take(w)
    <3>1. tasks # <<>> /\ wk' = [wk EXCEPT ![w] = [at |-> Head(tasks).op, fd |-> Head(tasks).fd]]
      BY <2>2 DEF Take
    <3>2. Head(tasks) \in [fd : Fds, op : {"in", "out"}] BY <1>1, <3>1, HeadOfQueue
    <3>3. wk'[w].at = Head(tasks).op BY <1>1, <3>1
    <3>4. wk'[w].at # "wait" BY <3>2, <3>3
    <3> QED BY <3>4 DEF Taken
  <2>3. ASSUME NEW at \in WorkerAts \ {"wait"}, wk' = [wk EXCEPT ![w].at = at] PROVE Taken'
    <3>1. wk'[w].at = at BY <1>1, <2>3
    <3> QED BY <2>3, <3>1 DEF Taken
  <2>4. CASE Done(w)
    <3>1. wk'[w].at = "ready" BY <1>1, <2>4 DEF Done
    <3> QED BY <3>1 DEF Taken
  <2>5. CASE OnRead(w) BY <2>3, <2>5 DEF OnRead, Step, WorkerAts
  <2>6. CASE OnWrite(w) BY <2>3, <2>6 DEF OnWrite, Step, WorkerAts
  <2>7. CASE Arm(w) BY <2>4, <2>7 DEF Arm
  <2>8. CASE CloseTest(w) BY <2>3, <2>4, <2>8 DEF CloseTest, Step, WorkerAts
  <2>9. CASE CloseShut(w) BY <2>4, <2>9 DEF CloseShut
  <2> QED BY <1>3, <2>1, <2>2, <2>5, <2>6, <2>7, <2>8, <2>9 DEF WorkerStep
<1>4. ASSUME NEW e \in batch, EventTask(e) PROVE Taken'
  <2>1. CASE \A w \in Workers : wk[w].at # "wait" /\ UNCHANGED wk
    BY <2>1 DEF Taken
  <2>2. CASE \E w \in Workers : wk[w].at = "wait" /\ wk' = [wk EXCEPT ![w].at = "ready"]
    <3>1. PICK w \in Workers : wk' = [wk EXCEPT ![w].at = "ready"] BY <2>2
    <3>2. wk'[w].at = "ready" BY <1>1, <3>1
    <3> QED BY <3>2 DEF Taken
  <2> QED BY <1>4, <2>1, <2>2 DEF EventTask
<1>5. CASE MainStep
  <2>1. CASE UNCHANGED pool BY <1>2, <2>1 DEF pool
  <2> QED BY <1>4, <1>5, <2>1
          DEF MainStep, TickExpire, TickShut, Wait, EventShut, EventListen, AcceptEnds, EventHup, Accept
<1>6. CASE Connect \/ UNCHANGED vars BY <1>2, <1>6 DEF Connect, vars, pool
<1>7. ASSUME NEW f \in Fds, Send(f) \/ Leave(f) \/ Receive(f) PROVE Taken'
  BY <1>2, <1>7 DEF Send, Leave, Receive, pool
<1> QED BY <1>3, <1>5, <1>6, <1>7 DEF Next

(* An open client has an owner; if it is epoll, a request or a close is an   *)
(* event, unless the client is being written to.                             *)
LEMMA OwnersAttend == ASSUME IInv, Taken PROVE Attended
<1> SUFFICES ASSUME NEW f \in Fds \ Free, Asked(f) \/ ~Connected(f),
                    ~InBatch(f), ~InTasks(f), ~InWork(f), main.fd # f
             PROVE  Ready(f) \/ (Connected(f) /\ Blocked(f))
  BY DEF Attended
<1>1. sock[f] # None /\ sock[f] \in Sockets /\ armed[f] \in {"in", "out"}
  BY DEF Free, IInv, Typed, Owned
<1>2. sock[f].fin \in BOOLEAN /\ sock[f].req \in BOOLEAN /\ sock[f].full \in BOOLEAN
  BY <1>1 DEF Sockets
<1>3. CASE ~Connected(f) BY <1>1, <1>2, <1>3 DEF Connected, Ready
<1>4. CASE Connected(f)
  <2>1. sock[f].req BY <1>4 DEF Asked
  <2> QED BY <1>1, <1>2, <1>4, <2>1 DEF Ready, Blocked
<1> QED BY <1>3, <1>4

(* Nobody is forgotten between epoll, the queue and the workers, for any     *)
(* descriptors and workers (webserver.cpp: ModFd after every task;           *)
(* threadpool.h: AddTask notifies). That is the safety half of               *)
(* RequestAnswered and LeaverReleased.                                       *)
THEOREM NobodyForgotten ==
  ASSUME ~LateTimeouts, Workers # {} PROVE Spec => []Attended
<1>1. Init => IInv /\ Taken
  <2>1. Init => Taken BY DEF Init, Taken
  <2> QED BY <2>1, Initially
<1>2. IInv /\ Taken /\ [Next]_vars => IInv' /\ Taken' BY NextKeeps, NextTakes
<1>3. IInv /\ Taken => Attended BY OwnersAttend
<1> QED BY <1>1, <1>2, <1>3, PTL DEF Spec
===============================================================================
