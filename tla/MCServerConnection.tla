------------------------- MODULE MCServerConnection -------------------------
(* Two pollers, so that every step of one falls between any two of the     *)
(* other, and fewer descriptors and places for clients than connections,   *)
(* so that a descriptor is used again and the limit is met.                *)
EXTENDS ServerConnection

CONSTANTS p1, p2

MCPoller == {p1, p2}
=============================================================================
