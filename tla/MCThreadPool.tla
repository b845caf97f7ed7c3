---------------------------- MODULE MCThreadPool -----------------------------
(* Two workers, which is what merged notifications need, and two tasks.    *)
EXTENDS ThreadPool

CONSTANTS w1, w2, t1, t2

MCWorker == {w1, w2}
MCTask == {t1, t2}
=============================================================================
