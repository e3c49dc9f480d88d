--------------------------------- MODULE Media ---------------------------------
(* The channels of 6_IPV4UDP: the media library (medialib.c), the token      *)
(* buckets that pace it (tokenbucket.c) and the tasks that send it           *)
(* (channel.c). One thread fills every bucket once a second; the task of a   *)
(* channel takes tokens, reads as many bytes of the current song, gives back *)
(* what it did not use and sends. A region under a mutex is one action. The  *)
(* files do not change while the server runs, and a worker has every signal  *)
(* blocked, so pread is never interrupted.                                   *)
EXTENDS Integers, Sequences

CONSTANTS cps, burst,         \* tokens of a tick, most tokens of a bucket: positive
          size,               \* most bytes of a message
          TOKENBUCKET_MAX,
          Libraries,          \* the songs a directory may hold: sequences of lengths
          NumDirs             \* directories of media_dir

ASSUME RatesAssumption == /\ {cps, burst, size, TOKENBUCKET_MAX} \subseteq Nat \ {0}
                          /\ Libraries \subseteq Seq(Int)

CannotOpen == -2              \* the lengths of a file open refuses,
Unreadable == -1              \* and of one pread refuses (a directory named *.mp3)
NoBucket == -1

VARIABLES
  phase,        \* load, on, shut (shutstatus is -1), closed (pool and songs are
                \* freed), gone (the buckets are)
  dirs,         \* directories still to look at
  token_pool,   \* [1..TOKENBUCKET_MAX -> NoBucket or the tokens of the bucket]
  tick,         \* the bucket the timer thread comes to next, 0 while it sleeps
  chn,          \* chn_context with the task of each channel: <<[songs, pos, offset, tb, at, held]>>
  credit        \* what an ideal bucket of burst + size tokens would hold for each channel

mediaVars == <<phase, dirs, token_pool, tick, chn, credit>>
channels == DOMAIN chn
Lesser(a, b) == IF a < b THEN a ELSE b

InitMedia == /\ phase = "load" /\ dirs = NumDirs
             /\ token_pool = [b \in 1..TOKENBUCKET_MAX |-> NoBucket]
             /\ tick = 0 /\ chn = <<>> /\ credit = <<>>
(***************************************************************************)
(* Start: mlib_getchnlist, one directory at a time.                        *)
(***************************************************************************)
Free == {b \in 1..TOKENBUCKET_MAX : token_pool[b] = NoBucket}
get_free_pos == CHOOSE b \in Free : \A other \in Free : b <= other

\* A directory without desc.txt, or without a place for its bucket, is passed over.
SkipDir == /\ phase = "load" /\ dirs > 0 /\ dirs' = dirs - 1
           /\ UNCHANGED <<phase, token_pool, tick, chn, credit>>

\* tokenbt_init; the channel is made if there is a first song that opens. The
\* bucket is not destroyed if there is none.
getpathcontent(songs) ==
  /\ phase = "load" /\ dirs > 0 /\ Free # {} /\ tick = 0
  /\ dirs' = dirs - 1 /\ token_pool' = [token_pool EXCEPT ![get_free_pos] = 0]
  /\ IF songs # <<>> /\ songs[1] # CannotOpen
       THEN /\ chn' = Append(chn, [songs |-> songs, pos |-> 1, offset |-> 0,
                                   tb |-> get_free_pos, at |-> "loop", held |-> 0])
            /\ credit' = Append(credit, 0)
       ELSE UNCHANGED <<chn, credit>>
  /\ UNCHANGED <<phase, tick>>

\* thr_channel_create for every channel.
StartTasks == /\ phase = "load" /\ dirs = 0 /\ phase' = "on"
              /\ UNCHANGED <<dirs, token_pool, tick, chn, credit>>
(***************************************************************************)
(* The timer thread: woking. A sweep holds mutex_pool.                     *)
(***************************************************************************)
Of(b) == {c \in channels : chn[c].tb = b}

\* A bug: a whole message is given back.
Filled_fromHeld(b, n) == Lesser(burst, token_pool[b] + size)
Filled(b, n) == Lesser(burst, token_pool[b] + n)

\* pthread_cond_broadcast on the bucket: the task that waits looks again.
Broadcast(c) == IF c.at = "wait" THEN "fetch" ELSE c.at

Next1(b) == IF b = TOKENBUCKET_MAX THEN 0 ELSE b + 1

Wake == /\ phase # "gone" /\ tick = 0 /\ tick' = 1
        /\ UNCHANGED <<phase, dirs, token_pool, chn, credit>>

Sweep ==
  /\ tick # 0 /\ tick' = Next1(tick)
  /\ token_pool' = [token_pool EXCEPT ![tick] = IF @ = NoBucket THEN @ ELSE Filled(tick, cps)]
  /\ chn' = [c \in channels |-> IF c \in Of(tick) THEN [chn[c] EXCEPT !.at = Broadcast(chn[c])] ELSE chn[c]]
  /\ credit' = [c \in channels |-> IF c \in Of(tick) THEN Lesser(burst + size, credit[c] + cps) ELSE credit[c]]
  /\ UNCHANGED <<phase, dirs>>
(***************************************************************************)
(* The task of a channel: sendchannel, mlib_readchn.                       *)
(***************************************************************************)
Task(c, at) == phase \in {"on", "shut", "closed"} /\ c \in channels /\ chn[c].at = at

\* shutstatus is in the memory of the pool: once freed, anything may be read there.
Look(c) ==
  /\ Task(c, "loop")
  /\ \E at \in CASE phase = "on" -> {"fetch"} [] phase = "shut" -> {"done"}
                [] phase = "closed" -> {"fetch", "done"} :
       chn' = [chn EXCEPT ![c].at = at]
  /\ UNCHANGED <<phase, dirs, token_pool, tick, credit>>

tokenbt_fetchtoken(c) ==
  /\ Task(c, "fetch")
  /\ LET tb == chn[c].tb
         n == Lesser(token_pool[tb], size)
     IN  IF n <= 0
           THEN chn' = [chn EXCEPT ![c].at = "wait"] /\ UNCHANGED token_pool
           ELSE /\ chn' = [chn EXCEPT ![c].at = "read", ![c].held = n]
                /\ token_pool' = [token_pool EXCEPT ![tb] = @ - n]
  /\ UNCHANGED <<phase, dirs, tick, credit>>

\* A bug: the end of the list is the end.
open_next_last(ch) ==
  [ch EXCEPT !.pos = IF ch.pos < Len(ch.songs) THEN ch.pos + 1 ELSE ch.pos]

\* The next song that opens, round the list; the offset stays.
open_next(ch) ==
  LET N == Len(ch.songs)
      later(j) == ((ch.pos - 1 + j) % N) + 1
      k == CHOOSE k \in 1..N : /\ ch.songs[later(k)] # CannotOpen
                               /\ \A j \in 1..(k - 1) : ch.songs[later(j)] = CannotOpen
  IN  [ch EXCEPT !.pos = later(k)]

Song(ch) == ch.songs[ch.pos]

\* pread: an error (try the next song), the end of the song (the next one, for
\* the next call), or bytes. Held is then what was not used.
pread(c) ==
  /\ Task(c, "read") /\ phase # "closed"
  /\ LET ch == chn[c]
         n == Lesser(ch.held, Song(ch) - ch.offset)
     IN  \/ Song(ch) < 0 /\ chn' = [chn EXCEPT ![c] = open_next(ch)] /\ UNCHANGED credit
         \/ /\ Song(ch) >= 0 /\ n <= 0
            /\ chn' = [chn EXCEPT ![c] = [open_next(ch) EXCEPT !.at = "return"]] /\ UNCHANGED credit
         \/ /\ Song(ch) >= 0 /\ n > 0
            /\ chn' = [chn EXCEPT ![c] = [ch EXCEPT !.offset = @ + n, !.at = "return", !.held = @ - n]]
            /\ credit' = [credit EXCEPT ![c] = @ - n]
  /\ UNCHANGED <<phase, dirs, token_pool, tick>>

\* The descriptor is closed and the names of the songs are freed: any bytes may be
\* read, or the loop over the songs goes on, and which song comes next says nothing.
pread_closed(c) ==
  /\ Task(c, "read") /\ phase = "closed"
  /\ \E n \in 0..chn[c].held :
       /\ chn' = [chn EXCEPT ![c].at = "return", ![c].held = @ - n]
       /\ credit' = [credit EXCEPT ![c] = @ - n]
  /\ UNCHANGED <<phase, dirs, token_pool, tick>>

\* What was not used goes back, and the message is sent.
tokenbt_returntoken(c) ==
  /\ Task(c, "return")
  /\ token_pool' = [token_pool EXCEPT ![chn[c].tb] = Filled(chn[c].tb, chn[c].held)]
  /\ chn' = [chn EXCEPT ![c].at = "loop", ![c].held = 0]
  /\ UNCHANGED <<phase, dirs, tick, credit>>
(***************************************************************************)
(* The end (daemon_exit), beside tasks that were not joined:                *)
(* threadpool_destroy sets the flag, later frees the pool, the songs are    *)
(* closed and freed; then tokenbt_shutdown cancels the timer thread, where  *)
(* it sleeps, and frees the buckets. A signal during the start is left out. *)
(***************************************************************************)
Shut == /\ phase = "on" /\ phase' = "shut"
        /\ UNCHANGED <<dirs, token_pool, tick, chn, credit>>

\* Where the songs are closed, a place in them says nothing any more.
mlib_freechncontext ==
  /\ phase = "shut" /\ phase' = "closed"
  /\ chn' = [c \in channels |-> [chn[c] EXCEPT !.pos = 1, !.offset = 0]]
  /\ UNCHANGED <<dirs, token_pool, tick, credit>>

module_unload == /\ phase = "closed" /\ tick = 0 /\ phase' = "gone"
                 /\ token_pool' = [b \in DOMAIN token_pool |-> NoBucket]
                 /\ UNCHANGED <<dirs, tick, chn, credit>>
-------------------------------------------------------------------------------
Timer == Wake \/ Sweep
Reader(c) == Look(c) \/ tokenbt_fetchtoken(c) \/ pread(c) \/ pread_closed(c) \/ tokenbt_returntoken(c)

NextMedia == \/ SkipDir \/ (\E songs \in Libraries : getpathcontent(songs)) \/ StartTasks
             \/ Timer \/ (\E c \in channels : Reader(c))
             \/ Shut \/ mlib_freechncontext \/ module_unload
SpecMedia == InitMedia /\ [][NextMedia]_mediaVars
-------------------------------------------------------------------------------
(* No channel is sent faster than its rate: whatever the interleaving of     *)
(* ticks, short reads and returned tokens, the tokens out and in the bucket  *)
(* never exceed what an ideal bucket, which never takes tokens back, allows. *)
(* The bucket is the channel's own, also after directories that left theirs  *)
(* behind, so that no channel uses up the rate of another.                   *)
WithinRate ==
  phase # "gone" =>
    \A c \in channels :
      /\ token_pool[chn[c].tb] # NoBucket /\ Of(chn[c].tb) = {c}
      /\ token_pool[chn[c].tb] + chn[c].held <= credit[c]

(* A task that asks for tokens comes back to look at shutstatus, so that the *)
(* pool can stop it: it gets tokens and leaves the loop round the songs that *)
(* cannot be read, if its channel has one that can. From the closing of the  *)
(* songs on nothing is promised.                                             *)
ReadReturns ==
  \A c \in 1..NumDirs :
    (c \in channels /\ chn[c].at = "fetch" /\ \E i \in DOMAIN chn[c].songs : chn[c].songs[i] >= 0)
      ~> (phase \in {"closed", "gone"} \/ (c \in channels /\ chn[c].at \in {"loop", "done"}))
===============================================================================
