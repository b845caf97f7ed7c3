---------------------------- MODULE MCClientCall -----------------------------
(* Two calls: enough for one query id to be taken twice, one notification  *)
(* to overwrite another and a handle left behind to disturb a call.        *)
EXTENDS ClientCall, TLC

CONSTANTS c1, c2

MCCall == {c1, c2}
MCSize == (c1 :> {"fits"}) @@ (c2 :> {"full", "over"})
=============================================================================
