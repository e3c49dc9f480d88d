----------------------------- MODULE MCTcpServer -----------------------------
(* TcpServer for TLC, with connections up to a renaming.                     *)
EXTENDS TcpServer, TLC

Symmetry == Permutations(Conns)
==============================================================================
