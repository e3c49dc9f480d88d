----------------------------- MODULE MCEventLoop -----------------------------
(* EventLoop for TLC: two threads, two functors and one channel, with no     *)
(* symmetry, since the runs check liveness.                                  *)
EXTENDS EventLoop
==============================================================================
