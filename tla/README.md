# Verification of zzqStudy

`src/` is a study repository of C and C++ programs. Its core logic is in `src/project/`: two
network servers, four thread pools, an IPv4 multicast radio, a chat room and a transcoding
pipeline; the rest is notes, language examples and exercises. This directory holds TLA+ models of
that logic, the TLC runs that check them and the TLAPS proofs about them.

## 1. Inventory

### 1.1 7_myMuduo

| Part | State | Operations | What makes it correct |
|---|---|---|---|
| `EventLoop` | pendingFunctors_, callingPendingFunctors_, looping_, quit_, the eventfd | loop, queueInLoop, runInLoop, quit, wakeup, doPendingFunctors | functors run once and in order; none waits for a wakeup that will not come; quit stops the loop |
| `Channel`, `EpollPoller` | fd_, events_, index_, the map fd → Channel*, epoll's own set | enable/disable Reading/Writing, disableAll, remove, poll, handleEvent | index_, the map and epoll agree; epoll_ctl never fails (it would exit the program); no freed channel is called |
| `TcpConnection` | state_, its channel, the output buffer | send, shutdown, handleRead/Write/Close/Error, connectEstablished/Destroyed | the peer gets whole messages in order; up and down callbacks pair; shutdown and close take effect |
| `TcpServer`, `Acceptor`, `EventLoopThreadPool` | connections_, the round robin, two queues per loop | newConnection, removeConnection(InLoop), ~TcpServer, getNextLoop | a connection lives as long as some poller knows its channel; ended once; everything stops |
| `EventLoopThread`, `Thread` | loop_, mutex and condition, semaphore | startLoop, threadFunc, start, join, the destructors | start hands over a live loop; the destructor joins; no object is used after it is freed |
| `Buffer` | the vector, readerIndex_, writerIndex_ | append, retrieve, makeSpace, readFd, writeFd | a byte stream; indices stay inside the vector; growth is bounded |
| support (`Timestamp`, `Logger`, `InetAddress`, `CurrentThread`, `Socket`) | none that matters | wrappers and formatting | not modelled |

```
other threads --queueInLoop/quit--> EventLoop --poll--> EpollPoller --epoll_ctl/wait--> kernel
                     (mutex + eventfd)  |  ^
                                        v  | enable*/remove
                        functors      Channel --callbacks--> TcpConnection --> Buffer
                                                                 |  ^
   TcpServer (base loop) <-- removeConnection, by the base's queue  |
        |------------------ connectEstablished/Destroyed, by the io loop's queue
   EventLoopThreadPool: one EventLoop on the stack of each EventLoopThread
```

What is hard in it: calls from other threads against a loop that may be blocked; objects shared by
`shared_ptr` between queues of two loops while pollers keep raw pointers; writes the kernel cuts
short; half-closed and reset connections; descriptors that are reused; start and stop handshakes
between threads; quit flags read at one point of the loop only.

### 1.2 5_tinyWebServer

| Part | State | Operations | What makes it correct |
|---|---|---|---|
| `WebServer`, `HttpConn`, `Epoller`, `ThreadPool` | users_ by descriptor, userCount, isClose_, the one-shot registrations, the queue of tasks | Start's loop, DealListen_, DealRead_, DealWrite_, OnRead_, OnWrite_, CloseConn_, AddTask | one owner per client; counted once; requests answered; leavers released |
| `HeapTimer` | the heap, the index id → place | add, adjust, del_, doWork, tick, GetNextTick | the index inverts the heap; earliest deadline first |
| `Log`, `BlockQueue` | the deque, two conditions, isClose_, the file | write, flush, push_back, pop, Close, ~Log | no line lost; no logger waits for the writer; queued lines get written; the file is used open |
| `SqlConnPool` | connQue_, semId_ | GetConn, FreeConn, ClosePool; UserVerify | semaphore and queue agree; a connection has one user |
| `HttpRequest`, `HttpResponse`, `Buffer` | parser state, text | inside a worker | not modelled |

```
                 GetNextTick / adjust / add             AddTask
   HeapTimer <-------------------------- main thread ------------> ThreadPool's queue
       |  callback: CloseConn_            |    ^ Wait                  | Take
       +----------------------------------+    |                       v
                                            epoll <--- ModFd/DelFd --- workers --> HttpConn (users_[fd])
                                                                         |    `--> UserVerify -> SqlConnPool
   every thread --LOG_*--> Log -> BlockQueue -> writing thread           v
                                                                       socket
```

What is hard: a client is passed from epoll to the main thread to a task to a worker and back, and
its descriptor number and its HttpConn are used again by the next one; timers close clients of which
others hold a pointer; isClose_ is tested and set without a lock.

### 1.3 6_IPV4UDP

| Part | State | Operations | What makes it correct |
|---|---|---|---|
| `threadpool.c` | the ring of tasks, numLive, numBusy, numExit, shutstatus | working, manager, threadpool_addtask, threadpool_destroy | the counts are those of the threads; no task or producer is forgotten; it grows; destroy ends |
| `tokenbucket.c` | token_pool, tokens per bucket | woking (timer), fetch, return, init, destroy | a channel keeps to its rate; nobody sleeps beside tokens |
| `medialib.c`, `channel.c`, `server.c` | songs, position and offset per channel | getpathcontent, open_next, mlib_readchn, sendchannel | a bucket per channel; the task comes back to look at shutstatus |
| `list.c`, `client.c` | none that matters | sends the list; pipes a channel to the player | not modelled |

The main thread makes the channels, one task each; a task is run by a worker until the pool shuts
down. Threads meet in the pool's queue, in the buckets and in `shutstatus`. Hard: signals that
several kinds of sleeper share one condition for, numbers read under one mutex after another, tokens
moving in three directions, and a destroy that is called from a signal handler, on the very thread that
adds tasks and perhaps in the middle of that.

### 1.4 The other programs

| Program and part | State and operations | What is hard | What should hold |
|---|---|---|---|
| 2_ThreadPool | task queue, one condition, stop; enqueue, destructor | stop against queued tasks and sleeping workers | every task enqueued is run before the destructor returns |
| 1_ffmpeg | two packet queues, two rings, two queues of encoded packets, six done flags, six threads | flags set without the mutex; a writer that waits for both streams with one mutex held; codecs that keep frames back | every packet written; all threads end, and never all wait |
| 4_chatRoom | a map of clients by descriptor | one thread | not modelled |
| 3_tinyhttpd | nothing shared; a thread per connection | request text, CGI pipes | not modelled |
| 5_TinyWebServer_makefile | the published program 5_tinyWebServer was rewritten from | | not modelled |

`src/kinglyWay`, `src/leetcode`, `src/C++`, `src/DesignPattern` and `src/eight-part` are exercises
and notes: programs of one file with nobody calling them. `webbench-1.5`, the ffmpeg headers and
the build trees are vendored or generated.

## 2. The modules

| Module | Models | How state and actions correspond to the code |
|---|---|---|
| `TaskQueue` | the promise of an `EventLoop` | submit, start, stop over one queue |
| `EventLoop` | EventLoop.cc | `lp` is the program point of loop(); `pending`, `batch`, `calling`, `quit`, `efd` are pendingFunctors_, the swapped vector, callingPendingFunctors_, quit_ and the eventfd. A call of another thread is two steps, the store and the write of the eventfd; in the loop's thread it is one. `queued`, `executed`, `early` are history |
| `Poller` | Channel.cc/.h, EpollPoller.cc | `fd`, `events`, `index`, `map` are the program's view, the registrations of epoll the kernel's; `EpollCtl` has the failures of epoll_ctl; closing a descriptor drops its registration and frees its number |
| `TcpConnection` | TcpConnection.cc with Channel::handleEvent | `st`, `events`, `index`, `out` of the connection; `queue`, `batch` of its loop; `rev` the events of the round still to be dispatched, in the order of handleEvent; the kernel's `room`; the peer's `peer` and `inbox`. User code may send or shut down in every callback |
| `TcpServer` | TcpServer.cc, EventLoopThreadPool.cc | loop 0 is the base loop. Ownership is counted from who holds a TcpConnectionPtr (`Alive`): an entry of connections_ or a queued functor. ~TcpServer is one step per connection, then one per thread quit and joined |
| `EventLoopThread` | EventLoopThread.cc, Thread.cc | `main` is the thread in start() and the destructor, `thr[t]` the program point of a thread; `loop[t]` is loop_ # nullptr, `wake[t]` the eventfd |
| `ByteStream` | the promise of a `Buffer` | put and take |
| `Buffer` | Buffer.h, Buffer.cc | one record for vector, readerIndex_, writerIndex_; a function of the code is an operator from buffer to buffer, a call is a step |
| `Timers` | the promise of a `HeapTimer` | a set of deadlines; what is due fires, earliest first |
| `HeapTimer` | heaptimer.cpp | `T` is heap_ with ref_; siftup_, siftdown_ and del_ are functions of it, a public call is a step; the callbacks are a record of who fired |
| `WebServer` | webserver.cpp, httpconn.cpp, epoller.cpp, threadpool.h | `main` is the program point of Start and the client it holds, `batch` the events fetched; `wk[w]` the same of a worker; `armed`, `timer`, `users`, `tasks` are epoll, HeapTimer's ids, users_ and the queue; `sock` is the kernel's socket: a request unread, a FIN, no room. CloseConn_ is two steps, the test of isClose_ and the rest. A client that closed its side may still be written to until its EPOLLRDHUP is seen |
| `AdaptivePool` | threadpool.c | threads at the same program point are alike, so `th` and `prod` count them; a region under a mutex is one step; `mgr` has the manager's locals. destroy interrupts a producer: outside its call, asleep in it, or with mutexPool locked and part of the call done (`dtor.from`), after which nobody gets that mutex (`Lockable`). pthread_cond_destroy waits for sleepers (`DestroyConds`) |
| `Media` | tokenbucket.c, medialib.c, channel.c | `token_pool` the buckets, `chn` chn_context with the program point of the task and the tokens it holds; `credit` is an ideal bucket beside each, history only. `phase` has the steps of daemon_exit; once mlib_freechncontext has closed the songs a task may read anything |
| `Log` | log.cpp, blockqueue.h | `at[t]` the program point of a thread in LOG_BASE, `writer` that of the writing thread; lines are numbered. flush looks at fp_ and then calls fflush, two steps without the mutex; `stale` is a thread whose file was closed in between |
| `SqlConnPool` | sqlconnpool.cpp, UserVerify | `step[t]` the program point of a worker, `sql[t]` the connection its local pointer names |
| `ThreadPool` | threadPool.h of 2_ThreadPool | `workers`, `caller` program points; tasks are counted |
| `Pipeline` | 1_ffmpeg/src | `queue[s]` the three queues of a stream as counts, `done[s]` the flags behind them; `coder[s][1]` is the decoder, `[2]` the encoder, `inside` what each codec holds: it gives one output per input, when it likes; encoders are drained, decoders not. `mux` begins at the test before the writer's loop, which reads empty() and the flag of each stream in four steps |

`MC*` modules give TLC its small sets and symmetries; `MCStructures`, `MCMediaServer` and `MCPrograms` extend several
components each, and `MCPipeline` has the transcoder alone. `*_proofs` modules hold the theorems, those of the small programs together in
`Programs_proofs`, those of the IPv4 server in `MediaServer_proofs` and those of `Buffer` and
`HeapTimer` in `Structures_proofs`.

**Composition.** `EventLoop` is checked and proved to implement `TaskQueue`; `TcpConnection` and
`TcpServer` build on what that promises: functors of a loop run once, in order, in rounds, and a
loop that quits leaves its last ones unrun. `Poller` justifies the one `index` those two keep of a
channel. `EventLoopThread` justifies the pool of running loops that `TcpServer` starts from, and
`Buffer` the sequence of units `TcpConnection` keeps as `out`. `HeapTimer` implements `Timers`; of
that `WebServer` uses only which descriptors have a timer, and lets any of them expire. `WebServer`
composes the main thread, the detached pool and the connections. `AdaptivePool` and `Media` are
two halves of one server that meet in `shutstatus` alone; `MCMediaServer` puts them side by side,
a behaviour running one of them (`which`). `MCPrograms` does the same with the small programs,
`EventLoopThread`, `Log`, `SqlConnPool`, `ThreadPool`, and `MCStructures` with `Poller`, `Buffer` and `HeapTimer`. `Pipeline` is checked by itself.


## 3. The runs

| Run | Instance | Question and answer |
|---|---|---|
| `eventloop` | 2 threads, 2 functors, 1 channel | Is no wakeup lost, does every queued functor run and every quit of a running loop stop it? Yes; and every step is one of the abstract queue |
| `structures` | 3 channels on 2 descriptors; chunks ≤ 3 over 2 bytes, 4 held at once; 6 timers, timeouts 0 to 3, 2 instants | Do index_ and epoll agree over every order of calls and reuse of descriptors, and is no freed channel handled? Is the buffer a byte stream whose indices stay inside the vector? Do heap and index agree, and does the timer fire what an unordered set of deadlines would, in the same order, with the same sleep? Yes |
| `connection_loop` | 2 messages, room 3, mark 2; user code in the loop only | Is a connection up and down once, removed when its peer goes, and shut when asked? Yes |
| `connection_threads` | room 1, one thread sending, one shutting down | Is the stream whole and in order? Yes |
| `connection_drains` | as connection_loop | Is what waits in outputBuffer_ sent? **No** (finding 1) |
| `server_pool` | 3 connections, 2 pool loops | Does a channel known to a poller always have a live connection, also while the server is destroyed? Yes; closed connections are released, and a quit of the base loop ends every thread |
| `webserver` | 2 descriptors, 2 workers, 2 clients, timers at any moment nobody serves the client | Has every client one owner, is it counted once, has it its timer, is it answered and released? Yes |
| `media_server` | `pool`: 1 to 2 workers, ring of 2, 2 producers. `media`: 3 directories, 2 buckets, burst 3, messages of 2 | Are the pool's counts true, is no task or producer forgotten, does it grow, and end when the signal comes outside addtask; does a channel keep to its rate and come back to look at shutstatus? Yes |
| `programs` | `loops`: 2 loop threads. `log`: 2 callers, queue of 1, 4 lines. `sql`: 2 connections, 3 workers. `pool`: 3 workers, 3 tasks | Are started loops live and joined; is no line lost; do semaphore and queue agree; does every task run before the destructor ends? Yes |
| `programs_sql` | as programs | Has a database connection one user? **No** (finding 2) |
| `transcoder` | 2 packets of video, 1 of audio, rings of 1 frame | Do its threads never all wait, and is the file closed with every packet in it but what the decoders kept? Yes, if no last notification was missed and the writer entered its loop |
| `transcoder_data` | as transcoder | Does the writer end only when all is written? **No** (finding 3) |

In `structures`, `media_server` and `programs` the initial state picks which program the behaviour runs (`which`)
and the others stay as they begin: one run asks the questions of several structures or small programs, whose
states do not multiply. Deadlock is checked where something is always possible (`eventloop`,
`structures`). Elsewhere the system stops for good: a connection destroyed, a
server gone, a pool joined, a web server whose clients all left and which may block in epoll_wait.

### Bounds, and why they are enough

- *EventLoop*: a functor stands for one call of queueInLoop. Two of them put one in the batch and
  one behind it, or two behind one another; two threads give a wakeup still owed by one while the
  other's is consumed. The proofs lift both bounds.
- *Poller*: three channels on two descriptors make a number pass from a dead channel to a new one
  while another is still registered.
- *TcpConnection*: a message is two units, so that Room 1 and 3 give writes that take none, half,
  all of one and half of the second message; HighWater 2 is passed by the second. Two messages let
  one overtake the other if it could. The proof lifts the bounds for the stream.
- *TcpServer*: three connections over two loops make the round robin wrap and give one loop two.
- *EventLoopThread*: two, so that one is running or ended while the next is started or destroyed.
- *Buffer*: kCheapPrepend, kInitialSize and the 64 KiB extrabuf are scaled to 1, 2 and 2, so that
  compaction, growth and both parts of readv occur within chunks of 3 bytes. `MaxReadable` bounds
  the bytes held, in the guards of `AppendData` and `ReadFd`.
- *HeapTimer*: six is the least number of nodes for which a removal from the middle moves the last
  node under a parent it must rise above. `MaxTime` bounds the clock; deadlines are up to 4, beyond it.
  The proof lifts the bounds.
- *WebServer*: two descriptors and two workers let one client be served while the other's
  event waits in the batch; `MaxConns` = 2 clients make a number pass from the first to the second,
  its HttpConn and timer with it, and MAX_FD is reached. A request is unread or not, a response a
  head and perhaps a file, so a write can stop between them.
- *AdaptivePool*: two workers and a ring of two are the least for a worker that retires, a manager
  that grows beside a task that never ends, and two producers of which one sleeps. The proof lifts
  all of it for the safety properties.
- *Media*: three directories over two buckets, one of them without songs, so that a bucket is left
  behind and the third directory finds none; tokens, offsets and lengths are small enough for
  short reads, returned tokens, the end of a song and a full bucket.
- *Log*: `MaxLines` bounds the lines; with a queue of one, two of them meet a full queue.
- *SqlConnPool*, *ThreadPool*: one worker more than connections, tasks more than one worker can take
  before the destructor.
- *Pipeline*: the rings hold one frame and the video has two packets, so that a decoder has to wait for room
  while the writer waits for the other stream; the codecs may hold both packets until the end. The proofs
  lift the bounds.

### Fairness

- `EventLoop!PromptSpec`: the loop's thread is scheduled, callbacks return, and a thread inside
  queueInLoop or quit reaches its write of the eventfd. The 10 s timeout of poll is *not* assumed
  to help: what holds, holds promptly. Nobody is obliged to call anything.
- `TcpConnection!FairSpec`: io loop, base loop and threads inside a call are scheduled; a peer that
  is sent data reads it. The peer is not obliged to send, close or reset.
- `TcpServer!FairSpec`: loops and main thread are scheduled. Connections and quit are free.
- `EventLoopThread`: threads are scheduled. Spurious wake-ups, poll's timeout and the destruction
  of the pool are not assumed to happen.
- `WebServer!FairSpec`: the main thread and each worker run, and a client whose socket is full
  reads. No client is obliged to send or to leave.
- `MCMediaServer!MCSpec`: the manager wakes from its sleep, workers and timer run. No task is obliged to end, no
  producer to call: a pool whose workers all have endless tasks must grow all the same.
- `MCPipeline!MCSpec`: reader, coders and writer run.
- `MCPrograms!MCSpec`: the threads of the program at hand run, once they are started; callers of the log or the
  pool are not obliged to call.

All of it is weak fairness of threads the operating system schedules; the mutexes are held for
bounded sections, inside which no model blocks.

## 4. What is proved

Every theorem holds for all values of the constants, under the named assumptions beside them
(`Threads` not empty, `Wakeup`, `Listen` and `None` outside the sets they are told apart from,
descriptors, workers of a pool, database connections and the threads that ask for one finitely many, loggers
positive numbers, sizes and the packets of a file natural numbers, rates and the log's capacity positive ones, chunks
sequences of bytes). A condition a theorem states beyond those is named in its row. tlapm checks every proof down
to its leaves.

| Module | Theorem | Inductive invariant and why it is needed |
|---|---|---|
| `EventLoop_proofs` | `TypeCorrect`, `FunctorsRunOnceInOrder`, `WakeupsAreNotLost`, `EventLoopIsTaskQueue` | types include that callingPendingFunctors_ is set exactly while the batch runs. Order is inductive beside the types. Lost wakeups need `WakeupInv`, which speaks of the whole round and not of epoll_wait alone: except between the reading of the eventfd and the swap, a functor in pending has an eventfd that is readable or about to be |
| | `QuitsAreHeard` | itself, beside the types: the loop tests quit_ before it blocks, so a quit_ seen set in epoll_wait was stored since, by a thread that writes the eventfd next |
| `Poller_proofs` | `KernelAlwaysMatchesIndex`, `MapAlwaysMatchesIndex`, `EpollCtlAlwaysSucceeds`, `HandledChannelsAreLive` | the conjunction of the four, the types and `DistinctFds` (two live channels have two descriptors): each update succeeds because index_ mirrors epoll, and mirrors it afterwards because it succeeded |
| `TcpConnection_proofs` | `TypeCorrect`, `StreamAlwaysInOrder` | `StreamInv`: the types and sent ∘ out = accepted. `SendKeepsStream` carries the argument: what the kernel takes is a head of the message, and only when `out` is empty |
| | `ClosingIsCarriedOn` (without threads that call shutdown()) | `LifeInv` and `GoingInv`: while the server is up a connection leaves the map only through handleClose, and one that is down has its removal queued, or is out of the map with its connectDestroyed queued, or out of its poller |
| | `ConnectionGoesUpThenDownOnce`, `ChannelNeverIsWriting` (both without threads that call shutdown()) | `LifeInv`: connectEstablished is queued once, before all else (`EstOK`); what state_ says of channel and callbacks (`PhaseOK`); and that the events of a round that handleClose may cut short are of a registered channel and hold one callback that can make it (`RoundOK`). Without the last, EPOLLIN and EPOLLHUP of one round would close the connection twice |
| `TcpServer_proofs` | `TypeCorrect`, `PollersKnowLiveChannels` | `IInv`: where functors are queued (`PlaceOK`), that connectDestroyed is never before connectEstablished in a loop's two queues (`OrderOK`), what state_ and index say of each other (`StateOK`), and who owns a connection (`OwnerOK`): connections_, or the queued connectDestroyed, or nobody once its channel is out of the poller. Without the order a late connectEstablished would register a connection nobody owns |
| | `ConnectionsLiveOnce` | `IInv` and `LInv`: no functor is twice in the two queues of a loop (`OnceOK`), and each functor that waits finds its connection not yet through that step (`Awaited`, `Held`, `Counted`). removeConnectionInLoop and ~TcpServer both destroy a connection: which of them comes second finds it out of connections_ |
| | `ClosedStaysOnItsWay`, `ServerEndsInOrder` | `IInv`, `LInv` and `EndInv`: that threads are told to stop only once ~TcpServer has handed out its map (`StopOK`), and that a connection which is down has its removal queued while it is in the map, and was destroyed once its poller has dropped it (`Closing`). `IInv` has who owns it in between |
| `Programs_proofs` (EventLoopThread) | `TypeCorrect`, `StartedLoopsAreLive`, `ObjectsOutliveThreads` | `IInv`: threads are created in turn (`TurnOK`), a loop handed over is past its publication (`HandedOK`), it ends only at the hands of the destructor unless it quit itself (`QuitOK`). Between the two the destructor must find loop_ set, and joins |
| | `EveryWaitIsAnswered` | `IInv` with `WaitOK`: the main thread waits on cond_ for a thread that has yet to set loop_; and `JoinOK`: what it joins has quit_ set behind its last test, and its eventfd written if it sleeps |
| `Programs_proofs` (Log) | `LogKeepsLines` | `LogInv`: besides the property, that a line is in no two of queue, hand and file (`Apart`), that the mutex is held by the thread which has the file closed or pushes (`MutexOK`), and that ~Log comes when nobody logs (`EndOK`) |
| | `PushNeverWaits` | `LogInv` beside it: a thread tests full() and pushes under one hold of the mutex, so that push_back, which would wait for the writing thread while keeping it out, always finds a place |
| `Programs_proofs` (SqlConnPool) | `SemaphoreCountsPool` | `SqlInv`: the queue is as long as the semaphore and the threads between sem_wait and pop together; each connection is in the queue or with one owner (`Alone`), so that a push never finds it there |
| | `ConnectionsComeBack` | from `SqlInv`: with semId_ at 0 the connections outnumber the threads about to pop, or none is left to count, so some thread pops or holds one |
| `Programs_proofs` (ThreadPool) | `NobodyMissesANotification`, `TasksAllRun` (both for a pool with workers) | `PoolInv`: a task made is queued, with a worker or run (`TasksKept`), a worker ends only when told to stop, on an empty queue (`EndedOK`), and `PoolAwake`: nobody sleeps past notify_all, and beside a queued task a worker is awake unless the caller is about to wake one. One notification per task is enough because a worker tests the queue again before it sleeps |
| `Programs_proofs` (Pipeline) | `FinishedFileIsWhole` | `MediaInv`: the packets left, queued, in a codec and written add up (`Conserved`), a coder has an output only of what its codec holds (`Filled`), a done flag means the side before it is empty and an encoder drained (`Honest`), and what the writer has seen of the two streams when it ends (`Closed`). The flags are set without the mutex; that nothing is queued after one carries the argument |
| | `SleepersAttended`, `TranscoderNeverStuck` (a ring that holds a frame) | `AttendInv` beside `MediaInv`: a sleeper's queue is empty and its filler has a notification to make (`Attended`), a decoder that waits for room finds the ring full or is about to be told (`RoomOK`). From a thread that waits the chain of those it waits for, over nine queues and six threads, ends at one that can go on |
| `Structures_proofs` (Buffer) | `TypeCorrect`, `GrowthIsBounded`, `BufferIsByteStream` | the layout (prependable ≤ reader ≤ writer ≤ size) and the bound; the lemmas follow append, makeSpace and readFd from the inside out, each saying what becomes of layout and content |
| `Structures_proofs` (HeapTimer) | `HeapStaysIndexed`, `HeapTimerIsTimers` | `HeapInv`: ref_ and heap_ name each other's places (`Linked`) and no node is before its parent (`Ordered`). Within an operation the order is broken at one node: while siftup_ runs only that node may be before its parent (`Low`), while siftdown_ runs only the nodes below it may be before it (`Hole`). `LowRises` and `HoleSinks` are one turn of each loop, `siftupOrders` and `siftdownOrders` the whole, `delOrders` the removal from the middle, where the last node rises or sinks. `tickFires` goes through the loop of tick: all it fired is due and none left is earlier |
| `MediaServer_proofs` (AdaptivePool) | `CountsAreExact`, `TasksNotStranded`, `ProducersNotForgotten` | `IInv`: the types, numLive ≤ numMax, queueSize ≤ queueCapacity, the two properties and `PlacesPromised`. That no producer sleeps beside a free place is not inductive: one signal is sent for one place, so each free place beside a sleeper must be promised to a producer already woken |
| | `ManagerJoinedFirst` | `JoinInv`: the manager's and the destructor's program points against shut. The signals are counted from numLive, so nobody may create a thread behind the count |
| | `DestroyWakes` | `SignalsSuffice` beside both: until a woken worker retires, the signals still to send are no fewer than the workers asleep, since numLive counts them (`AllCounted`) |
| `MediaServer_proofs` (Media) | `ChannelsWithinRate` | `ChannelsInv`: a channel's song is one that opens (`Sound`), buckets are not shared and not negative (`Paced`). `NextSongOpens` shows that open_next, which goes round the list, ends on a song, from `PlaceAfterReturns`: it comes back to the first, which getpathcontent opened |
| `WebServer_proofs` | `ClientsHaveOneOwner`, `ClientsCountedOnce` (both without late timeouts), `TimersOutliveEvents` | `IInv`: the types, that no two of task, worker, event and closer have one client (`Unique`, `Apart`), and that a descriptor is open exactly while somebody has it (`Owned`). The one-shot registration carries the argument: it is off while a client is served and gone while it is closed, so nobody else can be given the client. `Counted` stands on it. Timers need `TimerInv`, about the main thread alone: only the tick removes one, and it runs while no event is fetched |
| | `NobodyForgotten` (without late timeouts, with workers) | `IInv` and `Taken`: while tasks are queued not every worker waits. Who owns a client (`Owned`) says where it is; the rest is that an owner which is a registration is one epoll will report |

The cases a theorem covers and no run does: a server without pool loops (`NumLoops` = 0, where the
base loop is the io loop and removal runs inside handleClose), which the proof of
`PollersKnowLiveChannels` treats separately.

Only model-checked: liveness, since fairness and ENABLED are out of the prover's reach, and the three finding
runs, which end in a violation. Of most liveness properties the half that is not about scheduling is proved: that
what somebody waits for, or what was begun, is never dropped, so that it always is some thread's next business.

| Liveness, checked by TLC | What is proved of it |
|---|---|
| `QueuedFunctorRuns`, `QuitStopsLoop` | `WakeupsAreNotLost`, `QuitsAreHeard` |
| `PeerCloseRemoves`, `ShutdownTakesEffect` | `ClosingIsCarriedOn` |
| `ClosedIsReleased`, `ServerStops` | `ClosedStaysOnItsWay`, `ServerEndsInOrder` |
| `StartReturns`, `DestructorReturns` | `EveryWaitIsAnswered` |
| `RequestAnswered`, `LeaverReleased` | `NobodyForgotten` |
| `LineWritten` | `LogKeepsLines`, `PushNeverWaits` |
| `PoolEnds` | `NobodyMissesANotification`, `TasksAllRun` |
| `FileEnds` | `FinishedFileIsWhole`, `SleepersAttended`, `TranscoderNeverStuck` |
| `DestroyReturns` | `ManagerJoinedFirst`, `DestroyWakes` |
| `PoolGrows`, `ReadReturns` | nothing: both follow from what a thread does next, not from a state that must be kept |

Apart from `WakeupsAreNotLost`, `LogKeepsLines` and `TranscoderNeverStuck` these are invariants no run lists; TLC checked each of
them on the instances of section 3 before it was proved. Each theorem's module defines its invariant.

The loops of `HeapTimer` are recursive functions of the turn, and the library's induction theorems
cannot be used here. `Upto` stands in for them: a set of turns with the first and the next of each
has them all, since otherwise there is a least turn it lacks (`LeastOf`, from the well-foundedness
of < on the naturals). `TurnsExist` gives a loop its sequence of states and `TurnsKeep` carries an
invariant along it.

## 5. Findings

Three runs end in a violation of what the code or its comments say:

1. **What did not fit in the socket is never sent** (`connection_drains`). `Channel::isWriting()`
   (7_myMuduo/Channel.h:91) compares events_ with kWriteEvent for equality; a connected channel
   always has kReadEvent too, so it is never true. handleWrite logs and returns at each EPOLLOUT,
   the data stays in outputBuffer_, and the loop spins. shutdownInLoop, which asks the same
   question, shuts the write side over it. It also hides a second slip: handleWrite, once the buffer
   is empty, tests kDisconnected (TcpConnection.cc:198) where shutdown() has left kDisconnecting.
2. **A database connection with two users** (`programs_sql`). The SqlConnRAII of UserVerify
   (httprequest.cpp:213) has no name, so it dies with its statement and the connection is back in
   the pool before the query; the comment at the end of the function takes it to be released there.
3. **An empty file** (`transcoder_data`). The comment at videoOutMP4File.cpp:54 says all data gets written. The first
   evaluation of that test reads empty() before the flag, without the mutexes (lines 55-56): encoders that finish
   in between end the file before its first packet.

Other comments are not true of the code either. Each formula below says what the comment says and stands in the
module with the other properties; no run lists it, and none relies on it. TLC violates it, by the steps described, when
it is put in the cfg named:

| Comment | What the models reach | Formula |
|---|---|---|
| TcpConnection.cc:86 "之前调用过该connection的shutdown，不能再进行发送了", nothing more can be sent after a shutdown | the test below it refuses only kDisconnected, and shutdown() sets kDisconnecting: what another thread queued before the shutdown is written after it | `NoWriteAfterShutdown`, MCTcpConnection_threads.cfg with `Closers = {}` |
| TcpServer.cc:41 "销毁连接", destroy the connection | connectDestroyed may come after the loop's last doPendingFunctors and be freed unrun | `AllDestroyed`, MCTcpServer_pool.cfg |
| EventLoop.cc:97: the woken loop finds quit_ true in its next round and ends | loop() resets quit_ (EventLoop.cc:69) after the loop was handed out: an early quit is lost and ~EventLoopThread never returns from the join | `QuitEndsThread`, MCPrograms.cfg |
| webserver.cpp:57 "EPOLLONESHOT由一个线程处理", one thread handles the connection | a timer that expires while a task or a worker has the client makes the main thread close the HttpConn in use, whose number the next client then gets | `OneThreadPerConn`, MCWebServer.cfg with `LateTimeouts = TRUE` |
| log.cpp:52: the mutex is for fp_ | the flush of LOG_BASE is made without it (log.cpp:34) and meets the fclose and fopen of another thread (log.cpp:141-142) | `FlushMeetsFile`, MCPrograms.cfg |
| log.cpp:16 "处理掉剩下的任务", ~Log has the remaining lines handled | Close clears them | `RestWritten`, MCPrograms.cfg |
| threadpool.c:314 "唤醒所有存活线程", all live threads are woken | a worker that is woken and retires lowers numLive, which the loop over the signals reads anew, and another sleeps on, on a condition that is destroyed next; `DestroyWakes` proves that there is no other cause | `AllWoken`, MCMediaServer.cfg |
| server.c:104 and 112: daemon_exit cleans up and exits, "正常退出" | the signal comes inside threadpool_addtask: the mutex stays locked, the manager blocks on it and the join waits for the manager | `DaemonExits`, MCMediaServer.cfg with `NumProducers = 1` |

Behaviours the models also reach, of which no sentence of the repository was found that says otherwise:

- tinyWebServer: the accept loop of the edge-triggered listening socket ends when the server is full, and connections
  behind that one wait for the next event. iov_[1] keeps the length of an earlier file, and ToWriteBytes counts
  it, after a response without one. UserVerify looks for a name and inserts it in two statements.
- tinyWebServer's Log: ~Log does not return while the queue stays empty (log.cpp:15), and can notify between
  the writing thread's test and its wait, whose join then never ends. A line that finds the queue full is written
  at once, before queued ones. The queue's capacity passed to init is not the one used (log.cpp:67).
- 6_IPV4UDP: the pool is freed without joining its workers (threadpool.c:317), and the songs beside tasks that read
  them (server.c:108). A producer asleep in addtask, the interrupted one or another, keeps pthread_cond_destroy
  waiting (glibc). A worker that retires may take the wake-up meant for a task, which then waits for the next one
  (`spent`). open_next keeps the offset of the song before (medialib.c:144). A directory without songs keeps its
  bucket. A channel none of whose songs can be read never comes back to look at shutstatus. Tasks are as many as
  channels and never end, so channels beyond numMax wait for ever.
- 1_ffmpeg: a done flag is set and announced without the mutex, so a thread between its test and its
  wait misses the last notification (`lost`) and the program hangs. The decoders are not drained: the frames they
  hold at the end of the file are not encoded (videoAnalysis.cpp:152).

## 6. Limits of what holds

- Functors a loop's own thread queues *before* loop() (a ThreadInitCallback may) are not announced
  and wait for poll's timeout; the liveness of `EventLoop` leaves out exactly those (`early`).
- With another thread calling shutdown(), its test of kConnected and its store of kDisconnecting
  may enclose a handleClose. `UpThenDownOnce`, `PeerCloseRemoves` and `ShutdownTakesEffect` then fail
  in the model, so `connection_loop` has no such thread and `connection_threads` checks the stream
  only. Nothing in the code says such calls are ordered.
- Loops that their own callbacks quit (`selfQuit`) may be gone before startLoop looks or the
  destructor runs; `StartedLoopsLive`, `DestroyedAfterExit` and `StartReturns` leave them out, and
  fail for them. `DestructorReturns` leaves out pools that quit a loop too early (`early`), and
  `QuitStopsLoop` quits before loop(): those are lost (section 5, `QuitEndsThread`).
- quit() uses the EventLoop after it has stored quit_ (EventLoop.cc:106-110): a loop that sees the
  flag may be destroyed in between. The model reaches that state; the late write has no effect there.
- A connectDestroyed queued on a loop that then stops is freed unrun, so `KnownChannelsAlive` speaks
  of loops that run.
- `webserver` assumes that no timer expires while a worker or a task has the client; with
  `LateTimeouts` only `EventHasTimer` is left. So do the proofs: `TimersOutliveEvents` has no condition, the other
  three theorems assume `~LateTimeouts`. The race of two closers over isClose_ cannot occur there, so
  `CountMatchesSockets` says nothing of it. Likewise the theorems about a connection's life have the conditions
  of `connection_loop`, as narrow as their proofs allow: other threads may send, and none may call shutdown().
- `LinesKept` and `LineWritten` end where ~Log begins to close the queue, so neither has the missed wake-up of
  its Close; `SomeoneMoves` and `FileEnds` leave out behaviours with a lost notification, and `FileEnds` a writer that
  never enters its loop; `NoStrandedTask` those where a retiring worker took the wake-up, which is all that can
  strand a task; `ReadReturns` channels without a readable song, and what comes after the songs are freed.
- `DestroyReturns` leaves out a handler that came into addtask, a producer asleep on a full queue, and a worker that
  destroy woke and that retired: in each destroy may never return.
- `KnownChannelsAlive`, `ClosedIsReleased`, `LifeCycle` hold of a destroyed server although its last connectDestroyed may
  not run: they do not ask for it.

## 7. What is abstracted, and why it does not matter

- SIGPIPE is taken to be ignored by the application, as sendInLoop's handling of EPIPE expects.
- The eventfd is a flag: its counter is only read for being non-zero.
- Threads outside the library keep a TcpConnectionPtr while they call into a connection; the string
  they pass to send() from another thread is assumed to outlive the functor that holds its address.
- The order in which epoll returns channels or clients is a choice at each step (sets).
- Addresses, names, timestamps, log texts and HTTP texts are left out; LOG_FATAL, which exits, is the
  failure that `EpollCtlNeverFails` excludes.
- Descriptors do not run out: the accept that fails with EMFILE, which leaves 7_myMuduo's listening
  descriptor readable and the base loop turning, is not modelled.
- HeapTimer's clock moves by choice between calls; in `WebServer` any client's timer may be the
  one that is due.
- A request of a web client is one unit that is read whole; what it asks decides only whether a
  file follows the head and whether the connection is kept.
- In `AdaptivePool` threads at one program point are alike: nothing in threadpool.c tells them apart
  but workerIDs, whose free slots are counted.
- The transcoder's codecs give one output for one input, after any delay, without errors. The failures leave a
  mutex locked (videoFrameEncoding.cpp:22, videoOutMP4File.cpp:30 and 39 lock where they should
  unlock), which no model is needed to see. Which stream the writer takes from when both have a packet is left
  open: the time stamps that decide it go back and forth within a stream (max_b_frames, initGlobalVariable.cpp:194).
- To flush a closed file, and to read freed songs or a freed shutstatus, is undefined: in the models the flush does no
  harm, and a read gives any value.
- A signal while 6_IPV4UDP's server starts, before the tasks exist, is left out of `Media`; of `AdaptivePool` it is not.

Not modelled: HttpRequest, HttpResponse and their Buffer, which parse and format text inside a
worker (the byte buffer has the design of the one that is modelled); 3_tinyhttpd and the two
clients, programs of one thread whose state is not shared; 4_chatRoom's server, one thread over a
map, of which no property takes several steps to break; 5_TinyWebServer_makefile, the published
program that 5_tinyWebServer was rewritten from; the course material. Four fifths of the lines of
`src/project` outside documents are vendored ffmpeg headers and CMake's output, so the definitions here
stand for a small share of the repository's lines and for nearly all of its concurrent code.

## 8. What could follow

1. The transcoder's start and the errors of its codecs in `Pipeline`, once they are handled.
2. A `WebServer` whose callbacks check for a task in progress, checked with `LateTimeouts`.

## 9. Running it

`tlc -config MCEventLoop.cfg MCEventLoop` checks a run; `tlapm EventLoop_proofs.tla` a module of
proofs. `PROJECT.json` lists the runs with their properties, the slips in the code each property is
known to catch, the source lines behind each definition, the findings, hazards and theorems.
