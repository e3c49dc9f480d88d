------------------------------ MODULE MCPipeline ------------------------------
(* The transcoder, for TLC.                                                  *)
EXTENDS Pipeline

\* Packets of the file.
Packets == [video |-> 2, audio |-> 1]

\* Every thread is scheduled.
MCSpec ==
  /\ SpecMedia /\ WF_mediaVars(Reader) /\ WF_mediaVars(Mux)
  /\ \A s \in Streams, k \in 1..2 : WF_mediaVars(Coder(s, k))
===============================================================================
