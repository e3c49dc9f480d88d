------------------------------- MODULE Pipeline -------------------------------
(* The six threads of the transcoder (1_ffmpeg): a reader, a decoder and an  *)
(* encoder for each stream, and the writer of the MP4 file, over queues with *)
(* a mutex, a condition and an atomic "done" flag each. Queue 0 of a stream  *)
(* holds packets, queue 1 is the ring of frames, queue 2 holds encoded       *)
(* packets. A codec gives one output for one input, after any delay, and     *)
(* does not fail; in which order the encoders give their packets is left     *)
(* open. A region under a mutex is one action, with the test of the loop     *)
(* before it, except that a thread whose predicate was false still has to    *)
(* block, and a flag may be set in between.                                  *)
EXTENDS Naturals

CONSTANTS Capacity,        \* of the ring
          NumPackets       \* [video, audio: packets of the stream in the file]

Streams == {"video", "audio"}

ASSUME FileAssumption == NumPackets \in [Streams -> Nat]

VARIABLES
  queue,      \* [Streams -> [0..2 -> items]]
  done,       \* [Streams -> [0..2 -> the producer of the queue said it is done]]
  coder,      \* [Streams -> [1..2 -> take, block, wait, tell, push, full, notify, ended]]
  inside,     \* [Streams -> [1..2 -> inputs of the codec it has not given out]]
  reader,     \* [at: read, videoCV, audio, audioCV, ended; left: packets left]
  mux,        \* [at: empty, flag, skipped, lock, block, wait, woken, ended;
              \*  of: the stream it tests or waits for; wrote: packets written]
  lost        \* a thread missed the notification that its input is done

mediaVars == <<queue, done, coder, inside, reader, mux, lost>>

InitMedia ==
  /\ queue = [s \in Streams |-> [k \in 0..2 |-> 0]] /\ done = [s \in Streams |-> [k \in 0..2 |-> FALSE]]
  /\ coder = [s \in Streams |-> [k \in 1..2 |-> "take"]]
  /\ inside = [s \in Streams |-> [k \in 1..2 |-> 0]]
  /\ reader = [at |-> "read", left |-> NumPackets] /\ lost = FALSE
  /\ mux = [at |-> "empty", of |-> "video", wrote |-> [s \in Streams |-> 0]]

\* notify on the condition of a queue: who waits on it looks again.
Woken(s, k, co) ==
  [co EXCEPT ![s] = [j \in 1..2 |-> CASE co[s][j] = "wait" /\ j = k + 1 -> "take"
                                      [] co[s][j] = "full" /\ j = k -> "push"
                                      [] OTHER -> co[s][j]]]
MuxWoken(s, k) == IF k = 2 /\ mux.at = "wait" /\ mux.of = s THEN [mux EXCEPT !.at = "woken"] ELSE mux

\* Whether the one who takes from a queue holds its mutex.
Held(s, k) == IF k = 2 THEN mux.at = "block" \/ (mux.at \in {"wait", "woken"} /\ mux.of # s)
                       ELSE coder[s][k + 1] = "block"
(***************************************************************************)
(* The reader: productionPackage.                                          *)
(***************************************************************************)
Read(s) ==
  /\ reader.at = "read" /\ reader.left[s] > 0 /\ ~Held(s, 0)
  /\ reader' = [reader EXCEPT !.left[s] = @ - 1]
  /\ queue' = [queue EXCEPT ![s][0] = @ + 1] /\ coder' = Woken(s, 0, coder)
  /\ UNCHANGED <<done, inside, mux, lost>>

\* The flag of a stream, or its notification.
ReadEnds(s, at, next) ==
  /\ reader.at = at /\ \A r \in Streams : reader.left[r] = 0
  /\ reader' = [reader EXCEPT !.at = next]
  /\ \/ ~done[s][0] /\ done' = [done EXCEPT ![s][0] = TRUE] /\ UNCHANGED <<coder, lost>>
     \/ /\ done[s][0] /\ coder' = Woken(s, 0, coder) /\ lost' = (lost \/ coder[s][1] = "block")
        /\ UNCHANGED done
  /\ UNCHANGED <<queue, inside, mux>>

Reader == \/ \E s \in Streams : Read(s)
          \/ ReadEnds("video", "read", "videoCV") \/ ReadEnds("video", "videoCV", "audio")
          \/ ReadEnds("audio", "audio", "audioCV") \/ ReadEnds("audio", "audioCV", "ended")
(***************************************************************************)
(* The decoder (k = 1) and the encoder (k = 2) of a stream.                *)
(***************************************************************************)
At(s, k, from, to) == coder[s][k] = from /\ coder' = [coder EXCEPT ![s][k] = to]

\* Where a coder goes from the loop that receives from its codec, when the
\* codec holds n inputs: there is one more output, or none for now.
Received(n) == IF n > 0 THEN {"push", "take"} ELSE {"take"}

Take(s, k) ==
  /\ \/ /\ queue[s][k - 1] > 0 /\ queue' = [queue EXCEPT ![s][k - 1] = @ - 1]
        /\ inside' = [inside EXCEPT ![s][k] = @ + 1]
        /\ \E to \in IF k = 2 THEN {"tell"} ELSE Received(inside'[s][k]) : At(s, k, "take", to)
     \/ /\ queue[s][k - 1] = 0 /\ ~done[s][k - 1]
        /\ At(s, k, "take", "block") /\ UNCHANGED <<queue, inside>>
  /\ UNCHANGED <<done, reader, mux, lost>>

Block(s, k) == At(s, k, "block", "wait") /\ UNCHANGED <<queue, done, inside, reader, mux, lost>>

\* A bug: the decoder is not told.
Tell_skip(s) == /\ \E to \in Received(inside[s][2]) : At(s, 2, "tell", to)
                /\ UNCHANGED <<queue, done, inside, reader, mux, lost>>
\* The encoder says that the ring has room.
Tell(s) == /\ coder[s][2] = "tell"
           /\ \E to \in Received(inside[s][2]) : coder' = Woken(s, 1, [coder EXCEPT ![s][2] = to])
           /\ UNCHANGED <<queue, done, inside, reader, mux, lost>>

\* A frame waits for room in the ring.
Push(s, k) ==
  /\ coder[s][k] = "push" /\ ~Held(s, k)
  /\ IF k = 1 /\ queue[s][1] = Capacity
       THEN At(s, k, "push", "full") /\ UNCHANGED <<queue, inside, mux>>
       ELSE /\ queue' = [queue EXCEPT ![s][k] = @ + 1] /\ mux' = MuxWoken(s, k)
            /\ inside' = [inside EXCEPT ![s][k] = @ - 1]
            /\ \E to \in Received(inside'[s][k]) :
                 coder' = Woken(s, k, [coder EXCEPT ![s][k] = to])
  /\ UNCHANGED <<done, reader, lost>>

\* No input will come any more.
Fed(s, k) == done[s][k - 1] /\ queue[s][k - 1] = 0

\* After its loop an encoder gives out what it holds; a decoder does not.
Drain(s) == /\ Fed(s, 2) /\ inside[s][2] > 0 /\ At(s, 2, "take", "push")
            /\ UNCHANGED <<queue, done, inside, reader, mux, lost>>

\* A bug: the encoder is not drained.
Flag_undrained(s, k) == /\ Fed(s, k) /\ At(s, k, "take", "notify")
                        /\ done' = [done EXCEPT ![s][k] = TRUE]
                        /\ UNCHANGED <<queue, inside, reader, mux, lost>>
\* The flag, then the notification, without the mutex.
Flag(s, k) == /\ Fed(s, k) /\ (k = 2 => inside[s][2] = 0) /\ At(s, k, "take", "notify")
              /\ done' = [done EXCEPT ![s][k] = TRUE]
              /\ UNCHANGED <<queue, inside, reader, mux, lost>>

Notify(s, k) ==
  /\ coder[s][k] = "notify" /\ coder' = Woken(s, k, [coder EXCEPT ![s][k] = "ended"])
  /\ mux' = MuxWoken(s, k)
  /\ lost' = (lost \/ IF k = 1 THEN coder[s][2] = "block" ELSE mux.at = "block" /\ mux.of = s)
  /\ UNCHANGED <<queue, done, inside, reader>>

Coder(s, k) == \/ Take(s, k) \/ Block(s, k) \/ Push(s, k)
               \/ Flag(s, k) \/ Notify(s, k)
               \/ k = 2 /\ (Tell(s) \/ Drain(s))
(***************************************************************************)
(* The file: videoOutMP4File.                                              *)
(***************************************************************************)
Ready(s) == queue[s][2] > 0 \/ done[s][2]

\* videoDone and audioDone before the loop, without the mutexes: for each
\* stream first empty(), then the flag.
MuxStarts ==
  /\ UNCHANGED <<queue, done, coder, inside, reader, lost>>
  /\ \/ mux.at = "empty" /\ mux' = [mux EXCEPT !.at = IF queue[mux.of][2] = 0 THEN "flag" ELSE "lock"]
     \/ mux.at = "flag" /\ ~done[mux.of][2] /\ mux' = [mux EXCEPT !.at = "lock"]
     \/ /\ mux.at = "flag" /\ done[mux.of][2]
        /\ mux' = IF mux.of = "video" THEN [mux EXCEPT !.at = "empty", !.of = "audio"]
                                      ELSE [mux EXCEPT !.at = "skipped"]

\* Both mutexes are taken, then the video is waited for, then the audio, each
\* with the other's mutex held.
MuxWait == /\ UNCHANGED <<queue, done, coder, inside, reader, lost>>
           /\ \/ mux.at = "block" /\ mux' = [mux EXCEPT !.at = "wait"]
              \/ \E s \in Streams :
                   /\ mux.at \in {"lock", "woken"} /\ ~Ready(s) /\ (s = "audio" => Ready("video"))
                   /\ mux' = [mux EXCEPT !.at = "block", !.of = s]

\* videoDone && audioDone, for the queues q.
Finished(q) == \A s \in Streams : q[s][2] = 0 /\ done[s][2]

\* A packet of a stream that has one; when both have, their time stamps
\* decide. The end of the loop is decided before the mutexes are released.
WritePacket ==
  /\ mux.at \in {"lock", "woken"} /\ \A s \in Streams : Ready(s)
  /\ \/ (\A s \in Streams : queue[s][2] = 0) /\ UNCHANGED queue
        /\ mux' = [mux EXCEPT !.at = IF Finished(queue) THEN "ended" ELSE "lock"]
     \/ \E s \in Streams :
          /\ queue[s][2] > 0 /\ queue' = [queue EXCEPT ![s][2] = @ - 1]
          /\ mux' = [mux EXCEPT !.at = IF Finished(queue') THEN "ended" ELSE "lock",
                                !.wrote[s] = @ + 1]
  /\ UNCHANGED <<done, coder, inside, reader, lost>>

Mux == MuxStarts \/ MuxWait \/ WritePacket
-------------------------------------------------------------------------------
NextMedia == Reader \/ (\E s \in Streams, k \in 1..2 : Coder(s, k)) \/ Mux
SpecMedia == InitMedia /\ [][NextMedia]_mediaVars
-------------------------------------------------------------------------------
\* Who can do a step: the tests that hold a thread back, negated.
ReaderMoves == /\ reader.at # "ended"
               /\ reader.at = "read" /\ (\E s \in Streams : reader.left[s] > 0)
                    => \E s \in Streams : reader.left[s] > 0 /\ ~Held(s, 0)
CoderMoves(s, k) == \/ coder[s][k] \in {"take", "block", "tell", "notify"}
                    \/ coder[s][k] = "push" /\ ~Held(s, k)
MuxMoves == mux.at \in {"empty", "flag", "lock", "woken", "block"}

(* The six threads never all wait on each other, over their queues, the room *)
(* in the rings and the mutex the writer keeps while it waits for the other  *)
(* stream: until the file is closed one of them can go on, unless the last   *)
(* notification of a queue came between the test and the block of the one it *)
(* was for.                                                                  *)
SomeoneMoves ==
  \/ lost \/ mux.at \in {"ended", "skipped"} \/ MuxMoves \/ ReaderMoves
  \/ \E s \in Streams, k \in 1..2 : CoderMoves(s, k)

(* The file gets closed, and holds every packet of the file read but what    *)
(* the decoders never gave: nobody waits for ever for room, for input or for *)
(* the other stream. Left out are a missed last notification, as above, and  *)
(* a writer that never enters its loop.                                      *)
FileEnds ==
  <>(lost \/ mux.at = "skipped"
     \/ (mux.at = "ended" /\ \A s \in Streams : mux.wrote[s] + inside[s][1] = NumPackets[s]))

(* The comment on the loop of videoOutMP4File: it ends only when both queues *)
(* are empty and both encoders are done, so that all the data gets written.  *)
AllDataWritten == mux.at \in {"ended", "skipped"} => Finished(queue)
===============================================================================
