----------------------------- MODULE MCStructures -----------------------------
(* The structures that only one thread uses, for TLC: each behaviour works   *)
(* on one of them and leaves the others where they begin. Identifiers of     *)
(* timers are taken up to a renaming.                                        *)
EXTENDS Poller, Buffer, HeapTimer, TLC

\* Every chunk of up to three bytes.
ShortChunks == UNION {[1..n -> Bytes] : n \in 1..3}

Symmetry == Permutations(Ids)

VARIABLE which    \* the structure of this behaviour

mcVars == <<which, channelVars, vars, timerVars>>

MCInit == /\ which \in {"poller", "buffer", "timer"}
          /\ InitPoller /\ Init /\ InitTimer

MCNext ==
  \/ which = "poller" /\ NextPoller /\ UNCHANGED <<which, vars, timerVars>>
  \/ which = "buffer" /\ Next /\ UNCHANGED <<which, channelVars, timerVars>>
  \/ which = "timer" /\ NextTimer /\ UNCHANGED <<which, channelVars, vars>>

MCSpec == MCInit /\ [][MCNext]_mcVars
===============================================================================
