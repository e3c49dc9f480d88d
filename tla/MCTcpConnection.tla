--------------------------- MODULE MCTcpConnection ---------------------------
(* TcpConnection for TLC, with messages up to a renaming.                    *)
EXTENDS TcpConnection, TLC

Symmetry == Permutations(Messages)
==============================================================================
