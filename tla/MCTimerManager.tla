--------------------------- MODULE MCTimerManager ----------------------------
(* Three timers: a heap with a middle, so that one is stopped before, and  *)
(* one behind, another that runs.                                          *)
EXTENDS TimerManager

CONSTANTS t1, t2, t3

MCTimer == {t1, t2, t3}
MCCircle == {t1, t2}
=============================================================================
