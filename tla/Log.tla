---------------------------------- MODULE Log ----------------------------------
(* The asynchronous log of tinyWebServer (log.cpp) over its BlockQueue       *)
(* (blockqueue.h): the threads that log, the thread that writes, and ~Log at *)
(* the end of the program, when no other thread logs any more. A region      *)
(* under a mutex is one action unless it nests another. What a line says and *)
(* which file it goes to are left out: a new file may be due at any line.    *)
EXTENDS Naturals, Sequences, FiniteSets

CONSTANTS Loggers,     \* positive numbers
          capacity_,
          MaxLines     \* bound on the lines logged

ASSUME LoggersAssumption == Loggers \subseteq Nat \ {0}
ASSUME CapacityAssumption == capacity_ \in Nat \ {0}

VARIABLES
  at,          \* [Loggers -> idle, due, reopen, line, push, flush, fflush, or stale:
               \* in fflush too, with a file that was closed]
  mtx_,        \* holder of Log::mtx_, or 0
  fp_,         \* the file is open
  deque_, isClose_,
  writer,      \* writeThread_: pop, wait, woken, put, ended
  hand,        \* the line it holds
  made, out,   \* lines logged so far, numbered, and those written
  dtor         \* ~Log: no, spin, close, notify, join, done

logVars == <<at, mtx_, fp_, deque_, isClose_, writer, hand, made, out, dtor>>

InitLog == /\ at = [t \in Loggers |-> "idle"] /\ mtx_ = 0 /\ fp_ = TRUE
           /\ deque_ = <<>> /\ isClose_ = FALSE /\ writer = "pop" /\ hand = {}
           /\ made = 0 /\ out = {} /\ dtor = "no"

\* A bug: no notification.
Notified_never == writer
\* notify_one or notify_all on condConsumer_.
Notified == IF writer = "wait" THEN "woken" ELSE writer

To(t, from, to) == at[t] = from /\ at' = [at EXCEPT ![t] = to]
(***************************************************************************)
(* LOG_BASE: write, then flush.                                            *)
(***************************************************************************)
\* The test for a new file is made without the mutex.
Write(t) == /\ dtor = "no" /\ made < MaxLines
            /\ To(t, "idle", "due") \/ To(t, "idle", "line")
            /\ UNCHANGED <<mtx_, fp_, deque_, isClose_, writer, hand, made, out, dtor>>

\* flush and fclose, then fopen, under the mutex. Another thread may be about to
\* flush the file.
CloseFile(t) ==
  /\ at[t] = "due" /\ mtx_ = 0 /\ mtx_' = t
  /\ at' = [u \in Loggers |-> IF u = t THEN "reopen"
                             ELSE IF at[u] = "fflush" THEN "stale" ELSE at[u]]
  /\ fp_' = FALSE /\ writer' = Notified
  /\ UNCHANGED <<deque_, isClose_, hand, made, out, dtor>>

OpenFile(t) == /\ To(t, "reopen", "line") /\ mtx_' = 0 /\ fp_' = TRUE
               /\ UNCHANGED <<deque_, isClose_, writer, hand, made, out, dtor>>

\* A bug: a line that finds the queue full is dropped.
Line_dropped(t) ==
  /\ mtx_ = 0 /\ made' = made + 1
  /\ IF Len(deque_) < capacity_ THEN To(t, "line", "push") /\ mtx_' = t
                                ELSE To(t, "line", "flush") /\ UNCHANGED mtx_
  /\ UNCHANGED <<fp_, deque_, isClose_, writer, hand, out, dtor>>

\* A full queue is passed by.
Line(t) ==
  /\ mtx_ = 0 /\ made' = made + 1
  /\ IF Len(deque_) < capacity_
       THEN To(t, "line", "push") /\ mtx_' = t /\ UNCHANGED out
       ELSE To(t, "line", "flush") /\ out' = out \cup {made'} /\ UNCHANGED mtx_
  /\ UNCHANGED <<fp_, deque_, isClose_, writer, hand, dtor>>

\* push_back waits for a place, and the mutex of the log is given up.
push_back(t) ==
  /\ To(t, "push", "flush") /\ mtx_' = 0
  /\ \/ isClose_ /\ UNCHANGED <<deque_, writer>>
     \/ /\ ~isClose_ /\ Len(deque_) < capacity_
        /\ deque_' = Append(deque_, made) /\ writer' = Notified
  /\ UNCHANGED <<fp_, isClose_, hand, made, out, dtor>>

\* flush, without the mutex: notify and look at fp_, then fflush that file. To flush
\* a file that was closed is undefined; here it does no harm.
Flush(t) == /\ \/ fp_ /\ To(t, "flush", "fflush")
               \/ ~fp_ /\ To(t, "flush", "stale")
            /\ writer' = Notified
            /\ UNCHANGED <<mtx_, fp_, deque_, isClose_, hand, made, out, dtor>>

fflush(t) == /\ To(t, "fflush", "idle") \/ To(t, "stale", "idle")
             /\ UNCHANGED <<mtx_, fp_, deque_, isClose_, writer, hand, made, out, dtor>>
(***************************************************************************)
(* The writing thread: AsyncWrite_.                                        *)
(***************************************************************************)
pop ==
  /\ writer \in {"pop", "woken"}
  /\ IF writer = "woken" /\ isClose_ THEN writer' = "ended" /\ UNCHANGED <<deque_, hand>>
     ELSE IF deque_ = <<>> THEN writer' = "wait" /\ UNCHANGED <<deque_, hand>>
     ELSE writer' = "put" /\ hand' = {Head(deque_)} /\ deque_' = Tail(deque_)
  /\ UNCHANGED <<at, mtx_, fp_, isClose_, made, out, dtor>>

Put == /\ writer = "put" /\ mtx_ = 0 /\ writer' = "pop"
       /\ out' = out \cup hand /\ hand' = {}
       /\ UNCHANGED <<at, mtx_, fp_, deque_, isClose_, made, dtor>>
(***************************************************************************)
(* ~Log.                                                                   *)
(***************************************************************************)
Exit == /\ dtor = "no" /\ \A t \in Loggers : at[t] = "idle"
        /\ dtor' = "spin"
        /\ UNCHANGED <<at, mtx_, fp_, deque_, isClose_, writer, hand, made, out>>

\* Wake the writing thread for as long as the queue is empty.
Spin == /\ dtor = "spin"
        /\ IF deque_ = <<>> THEN writer' = Notified /\ UNCHANGED dtor
                            ELSE dtor' = "close" /\ UNCHANGED writer
        /\ UNCHANGED <<at, mtx_, fp_, deque_, isClose_, hand, made, out>>

\* Close: clear under the mutex of the queue; then, without it, the flag and the notify.
Close == /\ \/ dtor = "close" /\ deque_' = <<>> /\ dtor' = "notify" /\ UNCHANGED <<isClose_, writer>>
            \/ dtor = "notify" /\ isClose_' = TRUE /\ writer' = Notified /\ dtor' = "join" /\ UNCHANGED deque_
         /\ UNCHANGED <<at, mtx_, fp_, hand, made, out>>

JoinWriter == /\ dtor = "join" /\ writer = "ended" /\ dtor' = "done" /\ fp_' = FALSE
              /\ UNCHANGED <<at, mtx_, deque_, isClose_, writer, hand, made, out>>
-------------------------------------------------------------------------------
Writer == pop \/ Put
Logger(t) == CloseFile(t) \/ OpenFile(t) \/ Line(t) \/ push_back(t)
                \/ Flush(t) \/ fflush(t)

NextLog == (\E t \in Loggers : Write(t) \/ Logger(t)) \/ Writer \/ Exit \/ Spin \/ Close \/ JoinWriter
SpecLog == InitLog /\ [][NextLog]_logVars
-------------------------------------------------------------------------------
Queued == {deque_[i] : i \in DOMAIN deque_}
Pending == IF \E t \in Loggers : at[t] = "push" THEN {made} ELSE {}

(* Every line is in one place, the queue, the hand of a thread or the file,  *)
(* whether it passed by a full queue or went through it, until ~Log clears;  *)
(* and whoever takes the mutex to write one finds the file open.             *)
LinesKept ==
  dtor \in {"no", "spin"} =>
    /\ mtx_ = 0 => fp_
    /\ 1..made = Queued \cup hand \cup out \cup Pending
    /\ made = Len(deque_) + Cardinality(hand) + Cardinality(out) + Cardinality(Pending)

(* A queued line is written: push_back, called with the mutex held that the  *)
(* writing thread needs to make a place, never has to wait for one.          *)
LineWritten == \A n \in 1..MaxLines : (n \in Queued) ~> (n \in out \/ dtor # "no")

(* The lock "is for fp_" (log.cpp:52): whoever uses the file finds it open,  *)
(* the fflush of LOG_BASE included. The code breaks it (README, 5).          *)
FlushMeetsFile == \A t \in Loggers : at[t] # "stale"

(* "Wake the consumer, handle the remaining tasks" (log.cpp:16): when ~Log   *)
(* is done, every line was written. The code breaks it (README, 5).          *)
RestWritten == dtor = "done" => out = 1..made
===============================================================================
