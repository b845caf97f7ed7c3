---------------------------- MODULE MCBufferCache ----------------------------
(* A ring of six bytes, headers of two: a package of three bytes and one   *)
(* of four, so that every call meets the ring in every position, a write   *)
(* can fill it exactly and a header can fit where its body does not.       *)
EXTENDS BufferCache, TLC

CONSTANTS ping, add

MCPackage == {ping, add}
MCBodyLength == (ping :> 1) @@ (add :> 2)
=============================================================================
