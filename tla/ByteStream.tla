------------------------------ MODULE ByteStream ------------------------------
(***************************************************************************)
(* What a Buffer promises to TcpConnection and to the application: bytes   *)
(* come out as they went in, in order, none lost and none made up.         *)
(***************************************************************************)
EXTENDS Sequences, Naturals

CONSTANT Chunks      \* what may be put in at once

VARIABLES stream,    \* the bytes put in and not taken yet
          moved      \* the bytes last put in or taken

vars == <<stream, moved>>

Init == stream = <<>> /\ moved = <<>>

Put(data) ==
  /\ stream' = stream \o data
  /\ moved' = data

Take(n) ==
  /\ moved' = SubSeq(stream, 1, n)
  /\ stream' = SubSeq(stream, n + 1, Len(stream))

Next ==
  \/ \E data \in Chunks : Put(data)
  \/ \E n \in 0..Len(stream) : Take(n)

Spec == Init /\ [][Next]_vars
==============================================================================
