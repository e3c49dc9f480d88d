-------------------------------- MODULE Poller --------------------------------
(***************************************************************************)
(* Channel and EpollPoller of 7_myMuduo: what the poller believes (events_ *)
(* and index_ of every channel, the map from descriptors to channels)      *)
(* against what epoll holds.  Everything here runs in the loop's thread.   *)
(*                                                                         *)
(* Descriptors are reused: a channel is opened on any free one, and the    *)
(* kernel drops a registration when its descriptor is closed.              *)
(***************************************************************************)
EXTENDS FiniteSets

CONSTANTS Channels,   \* Channel objects
          Fds,        \* descriptors the kernel hands out
          None        \* no channel, or no descriptor

ASSUME NoneAssumption == None \notin Channels \cup Fds

VARIABLES fd,         \* the descriptor of a live channel, None for a dead one
          events,     \* events_
          index,      \* index_: kNew, kAdded or kDeleted
          map,        \* channels_
          regPtr,     \* epoll: the channel registered for a descriptor
          regEvents,  \* epoll: the events asked for
          ctlErrors,  \* history: the operations of epoll_ctl that failed
          phase,      \* what loop() is doing
          active      \* the rest of activeChannels_

pollerVars == <<events, index, map, regPtr, regEvents, ctlErrors>>
channelVars == <<fd, events, index, map, regPtr, regEvents, ctlErrors, phase, active>>

Events == {"read", "write"}

Live == {c \in Channels : fd[c] # None}

InitPoller ==
  /\ fd = [c \in Channels |-> None]
  /\ events = [c \in Channels |-> {}]
  /\ index = [c \in Channels |-> "kNew"]
  /\ map = [d \in Fds |-> None]
  /\ regPtr = [d \in Fds |-> None]
  /\ regEvents = [d \in Fds |-> {}]
  /\ ctlErrors = {}
  /\ phase = "poll"
  /\ active = {}

------------------------------------------------------------------------------
(* epoll_ctl, as update() calls it for a channel that asks for ev.          *)

Registered(d) == regPtr[d] # None

\* ADD of a registered descriptor and MOD or DEL of another one fail; the
\* first two failures are LOG_FATAL, which exits.
CtlFails(op, d) == IF op = "ADD" THEN Registered(d) ELSE ~Registered(d)

EpollCtl(op, c, ev) ==
  LET d == fd[c]
  IN  IF CtlFails(op, d)
        THEN /\ ctlErrors' = ctlErrors \cup {op}
             /\ UNCHANGED <<regPtr, regEvents>>
        ELSE /\ regPtr' = [regPtr EXCEPT ![d] = IF op = "DEL" THEN None ELSE c]
             /\ regEvents' = [regEvents EXCEPT ![d] = IF op = "DEL" THEN {} ELSE ev]
             /\ UNCHANGED ctlErrors

\* Mutant of UpdateChannel: a channel that asks for nothing leaves epoll and
\* keeps index_ at kAdded.
UpdateChannelKeepsIndex(c, ev) ==
  /\ events' = [events EXCEPT ![c] = ev]
  /\ map' = IF index[c] = "kNew" THEN [map EXCEPT ![fd[c]] = c] ELSE map
  /\ index' = [index EXCEPT ![c] = "kAdded"]
  /\ EpollCtl(IF index[c] # "kAdded" THEN "ADD" ELSE IF ev = {} THEN "DEL" ELSE "MOD",
              c, ev)

\* Channel::update for a channel whose events_ become ev.
UpdateChannel(c, ev) ==
  /\ events' = [events EXCEPT ![c] = ev]
  /\ map' = IF index[c] = "kNew" THEN [map EXCEPT ![fd[c]] = c] ELSE map
  /\ \/ /\ index[c] \in {"kNew", "kDeleted"}
        /\ index' = [index EXCEPT ![c] = "kAdded"]
        /\ EpollCtl("ADD", c, ev)
     \/ /\ index[c] = "kAdded"
        /\ ev = {}
        /\ index' = [index EXCEPT ![c] = "kDeleted"]
        /\ EpollCtl("DEL", c, ev)
     \/ /\ index[c] = "kAdded"
        /\ ev # {}
        /\ EpollCtl("MOD", c, ev)
        /\ UNCHANGED index

------------------------------------------------------------------------------
(* What the callbacks and functors of the loop do with their channels.      *)

InUserCode == phase \in {"handle", "functors"}

\* A channel is constructed on a descriptor the kernel just returned.
Open(c, d) ==
  /\ c \notin Live
  /\ \A b \in Live : fd[b] # d
  /\ fd' = [fd EXCEPT ![c] = d]
  /\ events' = [events EXCEPT ![c] = {}]
  /\ index' = [index EXCEPT ![c] = "kNew"]
  /\ UNCHANGED <<map, regPtr, regEvents, ctlErrors, phase, active>>

Enable(c, e) ==
  /\ InUserCode
  /\ c \in Live
  /\ UpdateChannel(c, events[c] \cup {e})
  /\ UNCHANGED <<fd, phase, active>>

Disable(c, e) ==
  /\ InUserCode
  /\ c \in Live
  /\ UpdateChannel(c, events[c] \ {e})
  /\ UNCHANGED <<fd, phase, active>>

DisableAll(c) ==
  /\ InUserCode
  /\ c \in Live
  /\ UpdateChannel(c, {})
  /\ UNCHANGED <<fd, phase, active>>

\* Channel::remove, called by connectDestroyed from a functor.
RemoveChannel(c) ==
  /\ phase = "functors"
  /\ c \in Live
  /\ map' = [map EXCEPT ![fd[c]] = None]
  /\ IF index[c] = "kAdded" THEN EpollCtl("DEL", c, {})
                            ELSE UNCHANGED <<regPtr, regEvents, ctlErrors>>
  /\ index' = [index EXCEPT ![c] = "kNew"]
  /\ UNCHANGED <<fd, events, phase, active>>

\* Mutant of Destroy: the connection is destroyed by the callback that closed it.
DestroyInCallback(c) ==
  /\ InUserCode
  /\ c \in Live
  /\ index[c] = "kNew" \/ phase = "handle"
  /\ fd' = [fd EXCEPT ![c] = None]
  /\ regPtr' = [regPtr EXCEPT ![fd[c]] = None]
  /\ regEvents' = [regEvents EXCEPT ![fd[c]] = {}]
  /\ UNCHANGED <<events, index, map, ctlErrors, phase, active>>

\* The connection is destroyed once the functor that removed its channel is
\* gone: ~TcpConnection frees the channel and closes the socket.
Destroy(c) ==
  /\ phase = "functors"
  /\ c \in Live
  /\ index[c] = "kNew"
  /\ fd' = [fd EXCEPT ![c] = None]
  /\ regPtr' = [regPtr EXCEPT ![fd[c]] = None]
  /\ regEvents' = [regEvents EXCEPT ![fd[c]] = {}]
  /\ UNCHANGED <<events, index, map, ctlErrors, phase, active>>

------------------------------------------------------------------------------
(* The loop around them.                                                    *)

\* epoll_wait reports some of the registered descriptors, or none on a timeout;
\* fillActiveChannels turns them into the pointers they were registered with.
Poll(ds) ==
  /\ phase = "poll"
  /\ \A d \in ds : Registered(d)
  /\ active' = {regPtr[d] : d \in ds}
  /\ phase' = "handle"
  /\ UNCHANGED <<fd, pollerVars>>

HandleEvent(c) ==
  /\ phase = "handle"
  /\ c \in active
  /\ active' = active \ {c}
  /\ UNCHANGED <<fd, pollerVars, phase>>

StartFunctors ==
  /\ phase = "handle"
  /\ active = {}
  /\ phase' = "functors"
  /\ UNCHANGED <<fd, pollerVars, active>>

EndFunctors ==
  /\ phase = "functors"
  /\ phase' = "poll"
  /\ UNCHANGED <<fd, pollerVars, active>>

NextPoller ==
  \/ \E c \in Channels :
       \/ \E d \in Fds : Open(c, d)
       \/ \E e \in Events : Enable(c, e)
       \/ \E e \in Events : Disable(c, e)
       \/ DisableAll(c)
       \/ RemoveChannel(c)
       \/ Destroy(c)
       \/ HandleEvent(c)
  \/ \E ds \in SUBSET Fds : Poll(ds)
  \/ StartFunctors
  \/ EndFunctors

SpecPoller == InitPoller /\ [][NextPoller]_channelVars

------------------------------------------------------------------------------
PollerTypeOK ==
  /\ fd \in [Channels -> Fds \cup {None}]
  /\ events \in [Channels -> SUBSET Events]
  /\ index \in [Channels -> {"kNew", "kAdded", "kDeleted"}]
  /\ map \in [Fds -> Channels \cup {None}]
  /\ regPtr \in [Fds -> Channels \cup {None}]
  /\ regEvents \in [Fds -> SUBSET Events]
  /\ ctlErrors \subseteq {"ADD", "MOD", "DEL"}
  /\ phase \in {"poll", "handle", "functors"}
  /\ active \subseteq Channels
  /\ phase # "handle" => active = {}

\* Two live channels never share a descriptor.
DistinctFds ==
  \A b, c \in Live : fd[b] = fd[c] => b = c

\* index_ mirrors epoll: a descriptor is registered exactly while its channel's
\* index_ is kAdded, with that channel's pointer and the events it asks for, so
\* the kernel never holds a stale or freed pointer (updateChannel,
\* removeChannel).
KernelMatchesIndex ==
  \A d \in Fds :
    /\ \A c \in Live :
         fd[c] = d => /\ (index[c] = "kAdded") <=> (regPtr[d] = c)
                      /\ index[c] = "kAdded" => regEvents[d] = events[c]
    /\ Registered(d) => regPtr[d] \in Live /\ fd[regPtr[d]] = d

\* channels_ holds a live channel exactly from its first update to its removal,
\* and nothing else: no entry outlives its channel or is claimed by another one
\* on the reused descriptor (hasChannel, removeChannel).
MapMatchesIndex ==
  \A d \in Fds :
    /\ \A c \in Live : fd[c] = d => ((index[c] # "kNew") <=> (map[d] = c))
    /\ map[d] # None => map[d] \in Live /\ fd[map[d]] = d

\* No sequence of enables, disables, removals and reuses of a descriptor makes
\* epoll_ctl fail, which for ADD and MOD would end the program (update).
EpollCtlNeverFails == ctlErrors = {}

\* Every pointer the loop is still going to call handleEvent on is live, though
\* earlier callbacks of the same round may have closed its connection.
ActiveChannelsLive == active \subseteq Live
==============================================================================
