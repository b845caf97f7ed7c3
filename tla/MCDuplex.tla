------------------------------- MODULE MCDuplex -------------------------------
(* Sockets that hold one package, blocks of two, and requests enough for   *)
(* both threads to block with one to spare for each.                       *)
EXTENDS Duplex
=============================================================================
