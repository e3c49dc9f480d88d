---------------------------- MODULE Poller_proofs ----------------------------
(***************************************************************************)
(* Proofs about Poller, for any channels and descriptors: index_ mirrors   *)
(* epoll, channels_ mirrors index_, so epoll_ctl never fails and the loop  *)
(* never follows a pointer to a dead channel.                              *)
(***************************************************************************)
EXTENDS Poller, TLAPS

\* The three invariants are inductive together with the types: a failing
\* epoll_ctl is excluded by KernelMatchesIndex, and a channel opened on a reused
\* descriptor finds neither epoll nor channels_ pointing at its predecessor.
IInv ==
  /\ PollerTypeOK
  /\ DistinctFds
  /\ KernelMatchesIndex
  /\ MapMatchesIndex
  /\ EpollCtlNeverFails
  /\ ActiveChannelsLive

LEMMA InitInv == InitPoller => IInv
  BY NoneAssumption
  DEF InitPoller, IInv, PollerTypeOK, Events, DistinctFds, KernelMatchesIndex, MapMatchesIndex,
      EpollCtlNeverFails, ActiveChannelsLive, Live, Registered

\* An update of a live channel, whichever epoll_ctl it comes to.
LEMMA UpdateInv ==
  ASSUME IInv, NEW c \in Live, NEW ev \in SUBSET Events,
         UpdateChannel(c, ev), UNCHANGED <<fd, phase, active>>
  PROVE  IInv'
  <1> USE NoneAssumption DEF Live, Registered
  <1> DEFINE d == fd[c]
  <1>1. /\ c \in Channels
        /\ d \in Fds
        /\ d # None
    BY DEF IInv, PollerTypeOK
  <1>2. /\ ~CtlFails("ADD", d) <=> index[c] # "kAdded"
        /\ ~CtlFails("DEL", d) <=> index[c] = "kAdded"
        /\ ~CtlFails("MOD", d) <=> index[c] = "kAdded"
    BY <1>1 DEF IInv, KernelMatchesIndex, DistinctFds, CtlFails
  <1>3. /\ ctlErrors' = ctlErrors
        /\ events' = [events EXCEPT ![c] = ev]
        /\ map' = IF index[c] = "kNew" THEN [map EXCEPT ![d] = c] ELSE map
        /\ \E op \in {"ADD", "MOD", "DEL"} :
             /\ regPtr' = [regPtr EXCEPT ![d] = IF op = "DEL" THEN None ELSE c]
             /\ regEvents' = [regEvents EXCEPT ![d] = IF op = "DEL" THEN {} ELSE ev]
             /\ index' = [index EXCEPT ![c] = IF op = "DEL" THEN "kDeleted" ELSE "kAdded"]
    <2>1. CASE index[c] # "kAdded"
      BY <1>1, <1>2, <2>1 DEF UpdateChannel, EpollCtl, IInv, PollerTypeOK
    <2>2. CASE index[c] = "kAdded" /\ ev = {}
      BY <1>1, <1>2, <2>2 DEF UpdateChannel, EpollCtl, IInv, PollerTypeOK
    <2>3. CASE index[c] = "kAdded" /\ ev # {}
      <3>1. index' = [index EXCEPT ![c] = "kAdded"]
        BY <1>1, <2>3 DEF UpdateChannel, IInv, PollerTypeOK
      <3>2. QED
        BY <1>1, <1>2, <2>3, <3>1 DEF UpdateChannel, EpollCtl, IInv, PollerTypeOK
    <2>4. QED
      BY <2>1, <2>2, <2>3
  <1>4. PollerTypeOK'
    BY <1>1, <1>3 DEF IInv, PollerTypeOK
  <1>5. DistinctFds'
    BY DEF IInv, DistinctFds
  <1>6. KernelMatchesIndex'
    BY <1>1, <1>3 DEF IInv, PollerTypeOK, KernelMatchesIndex, DistinctFds
  <1>7. MapMatchesIndex'
    BY <1>1, <1>3 DEF IInv, PollerTypeOK, MapMatchesIndex, DistinctFds
  <1>8. QED
    BY <1>3, <1>4, <1>5, <1>6, <1>7
    DEF IInv, EpollCtlNeverFails, ActiveChannelsLive

LEMMA OpenInv ==
  ASSUME IInv, NEW c \in Channels, NEW d \in Fds, Open(c, d)
  PROVE  IInv'
  <1> USE NoneAssumption DEF Live, Registered
  <1>1. regPtr[d] = None /\ map[d] = None
    BY DEF Open, IInv, KernelMatchesIndex, MapMatchesIndex
  <1>2. PollerTypeOK'
    BY DEF Open, IInv, PollerTypeOK
  <1>3. DistinctFds'
    BY DEF Open, IInv, PollerTypeOK, DistinctFds
  <1>4. KernelMatchesIndex'
    BY <1>1 DEF Open, IInv, PollerTypeOK, KernelMatchesIndex
  <1>5. MapMatchesIndex'
    BY <1>1 DEF Open, IInv, PollerTypeOK, MapMatchesIndex
  <1>6. QED
    BY <1>2, <1>3, <1>4, <1>5
    DEF Open, IInv, PollerTypeOK, EpollCtlNeverFails, ActiveChannelsLive

LEMMA RemoveInv ==
  ASSUME IInv, NEW c \in Channels, RemoveChannel(c)
  PROVE  IInv'
  <1> USE NoneAssumption DEF Live, Registered
  <1> DEFINE d == fd[c]
  <1>1. d \in Fds /\ d # None
    BY DEF RemoveChannel, IInv, PollerTypeOK
  <1>2. /\ regPtr' = [regPtr EXCEPT ![d] = None]
        /\ regEvents' = [regEvents EXCEPT ![d] = IF index[c] = "kAdded" THEN {} ELSE @]
        /\ UNCHANGED ctlErrors
    <2>1. CASE index[c] = "kAdded"
      BY <1>1, <2>1 DEF RemoveChannel, EpollCtl, CtlFails, IInv, PollerTypeOK,
                        KernelMatchesIndex
    <2>2. CASE index[c] # "kAdded"
      <3>1. regPtr[d] = None
        BY <1>1, <2>2 DEF RemoveChannel, IInv, KernelMatchesIndex, DistinctFds
      <3>2. QED
        BY <1>1, <2>2, <3>1 DEF RemoveChannel, IInv, PollerTypeOK
    <2>3. QED
      BY <2>1, <2>2
  <1>3. PollerTypeOK'
    BY <1>1, <1>2 DEF RemoveChannel, IInv, PollerTypeOK
  <1>4. DistinctFds'
    BY DEF RemoveChannel, IInv, DistinctFds
  <1>5. KernelMatchesIndex'
    BY <1>1, <1>2 DEF RemoveChannel, IInv, PollerTypeOK, KernelMatchesIndex, DistinctFds
  <1>6. MapMatchesIndex'
    BY <1>1 DEF RemoveChannel, IInv, PollerTypeOK, MapMatchesIndex, DistinctFds
  <1>7. QED
    BY <1>2, <1>3, <1>4, <1>5, <1>6
    DEF RemoveChannel, IInv, EpollCtlNeverFails, ActiveChannelsLive

LEMMA DestroyInv ==
  ASSUME IInv, NEW c \in Channels, Destroy(c)
  PROVE  IInv'
  <1> USE NoneAssumption DEF Live, Registered
  <1>1. fd[c] \in Fds /\ fd[c] # None /\ active = {}
    BY DEF Destroy, IInv, PollerTypeOK
  <1>2. regPtr[fd[c]] = None /\ map[fd[c]] = None
    BY <1>1 DEF Destroy, IInv, KernelMatchesIndex, MapMatchesIndex, DistinctFds
  <1>3. PollerTypeOK'
    BY <1>1 DEF Destroy, IInv, PollerTypeOK
  <1>4. DistinctFds'
    BY DEF Destroy, IInv, PollerTypeOK, DistinctFds
  <1>5. KernelMatchesIndex'
    BY <1>1, <1>2 DEF Destroy, IInv, PollerTypeOK, KernelMatchesIndex
  <1>6. MapMatchesIndex'
    BY <1>1, <1>2 DEF Destroy, IInv, PollerTypeOK, MapMatchesIndex
  <1>7. QED
    BY <1>1, <1>3, <1>4, <1>5, <1>6
    DEF Destroy, IInv, EpollCtlNeverFails, ActiveChannelsLive

\* The steps of the loop leave channels and epoll alone.
LEMMA LoopInv ==
  ASSUME IInv, UNCHANGED <<fd, pollerVars>>,
         active' \subseteq Live, phase' \in {"poll", "handle", "functors"},
         phase' # "handle" => active' = {}
  PROVE  IInv'
  <1>1. PollerTypeOK'
    BY DEF IInv, PollerTypeOK, pollerVars, Live
  <1>2. DistinctFds' /\ KernelMatchesIndex' /\ MapMatchesIndex'
    BY DEF IInv, pollerVars, DistinctFds, KernelMatchesIndex, MapMatchesIndex,
           Live, Registered
  <1>3. EpollCtlNeverFails' /\ ActiveChannelsLive'
    BY DEF IInv, pollerVars, EpollCtlNeverFails, ActiveChannelsLive, Live
  <1>4. QED
    BY <1>1, <1>2, <1>3 DEF IInv

LEMMA NextInv == IInv /\ [NextPoller]_channelVars => IInv'
  <1> SUFFICES ASSUME IInv, [NextPoller]_channelVars
               PROVE  IInv'
    OBVIOUS
  <1>1. ASSUME NEW c \in Channels, NEW d \in Fds, Open(c, d)
        PROVE  IInv'
    BY <1>1, OpenInv
  <1>2. ASSUME NEW c \in Channels, NEW e \in Events, Enable(c, e)
        PROVE  IInv'
    BY <1>2, UpdateInv DEF Enable, IInv, PollerTypeOK, Live
  <1>3. ASSUME NEW c \in Channels, NEW e \in Events, Disable(c, e)
        PROVE  IInv'
    BY <1>3, UpdateInv DEF Disable, IInv, PollerTypeOK, Live
  <1>4. ASSUME NEW c \in Channels, DisableAll(c)
        PROVE  IInv'
    BY <1>4, UpdateInv DEF DisableAll, Live
  <1>5. ASSUME NEW c \in Channels, RemoveChannel(c)
        PROVE  IInv'
    BY <1>5, RemoveInv
  <1>6. ASSUME NEW c \in Channels, Destroy(c)
        PROVE  IInv'
    BY <1>6, DestroyInv
  <1>7. ASSUME NEW c \in Channels, HandleEvent(c)
        PROVE  IInv'
    BY <1>7, LoopInv DEF HandleEvent, IInv, ActiveChannelsLive
  <1>8. ASSUME NEW ds \in SUBSET Fds, Poll(ds)
        PROVE  IInv'
    <2>1. active' \subseteq Live
      BY <1>8 DEF Poll, IInv, KernelMatchesIndex
    <2>2. QED
      BY <1>8, <2>1, LoopInv DEF Poll
  <1>9. CASE StartFunctors
    BY <1>9, LoopInv DEF StartFunctors
  <1>10. CASE EndFunctors
    BY <1>10, LoopInv DEF EndFunctors, IInv, PollerTypeOK
  <1>11. CASE UNCHANGED channelVars
    BY <1>11, LoopInv DEF channelVars, pollerVars, IInv, PollerTypeOK, ActiveChannelsLive
  <1>12. QED
    BY <1>1, <1>2, <1>3, <1>4, <1>5, <1>6, <1>7, <1>8, <1>9, <1>10, <1>11
    DEF NextPoller

LEMMA AlwaysIInv == SpecPoller => []IInv
  BY InitInv, NextInv, PTL DEF SpecPoller

\* index_ and epoll agree on every descriptor, whatever is enabled, disabled,
\* removed and reopened.
THEOREM KernelAlwaysMatchesIndex == SpecPoller => []KernelMatchesIndex
  <1>1. IInv => KernelMatchesIndex
    BY DEF IInv
  <1>2. QED
    BY <1>1, AlwaysIInv, PTL

\* channels_ and index_ agree on every descriptor.
THEOREM MapAlwaysMatchesIndex == SpecPoller => []MapMatchesIndex
  <1>1. IInv => MapMatchesIndex
    BY DEF IInv
  <1>2. QED
    BY <1>1, AlwaysIInv, PTL

\* No call of epoll_ctl fails, so the poller never ends the program.
THEOREM EpollCtlAlwaysSucceeds == SpecPoller => []EpollCtlNeverFails
  <1>1. IInv => EpollCtlNeverFails
    BY DEF IInv
  <1>2. QED
    BY <1>1, AlwaysIInv, PTL

\* The loop calls handleEvent on live channels only.
THEOREM HandledChannelsAreLive == SpecPoller => []ActiveChannelsLive
  <1>1. IInv => ActiveChannelsLive
    BY DEF IInv
  <1>2. QED
    BY <1>1, AlwaysIInv, PTL
==============================================================================
