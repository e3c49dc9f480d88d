----------------------------- MODULE MCMediaServer -----------------------------
(* The server of 6_IPV4UDP for TLC: a behaviour runs either its thread pool  *)
(* or its channels, which meet only where a channel's task looks at          *)
(* shutstatus. Of the songs one cannot be opened and one cannot be read.     *)
EXTENDS AdaptivePool, Media

VARIABLE which    \* the part of this behaviour

Directories == {<<>>, <<2, -2, -1>>}

MCInit == which \in {"pool", "media"} /\ Init /\ InitMedia
MCNext == \/ which = "pool" /\ Next /\ UNCHANGED <<which, mediaVars>>
          \/ which = "media" /\ NextMedia /\ UNCHANGED <<which, vars>>

\* The threads run; nothing says that a task ends, that a producer calls, or
\* that the server is stopped.
MCSpec ==
  /\ MCInit /\ [][MCNext]_<<which, vars, mediaVars>>
  /\ WF_vars(which = "pool" /\ Manager) /\ WF_vars(which = "pool" /\ Destroy)
  /\ WF_vars(which = "pool" /\ Working) /\ WF_vars(which = "pool" /\ Loop("lock"))
  /\ WF_vars(which = "pool" /\ Begin) /\ WF_vars(which = "pool" /\ threadexit_unlock)
  /\ WF_mediaVars(which = "media" /\ Timer)
  /\ \A c \in 1..NumDirs : WF_mediaVars(which = "media" /\ c \in channels /\ Reader(c))
===============================================================================
