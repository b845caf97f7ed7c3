------------------------------ MODULE TaskPool -------------------------------
(***************************************************************************)
(* What a ThreadPool promises for the tasks given to it, without threads,  *)
(* condition variables or counters: a task waits its turn, starts at most  *)
(* once and in the order it was accepted, in a slot that is free, and      *)
(* finishes.  Tasks that wait when the pool is closed may be discarded, at *)
(* that moment and never again; what is accepted later still runs.         *)
(***************************************************************************)
EXTENDS Sequences

CONSTANTS
  Task,      (* the tasks that may be appended, each once                   *)
  Slot,      (* the pool runs one task in each slot                         *)
  None       (* what a free slot runs                                       *)

VARIABLES
  accepted,  (* every task the queue has ever held                          *)
  waiting,   (* accepted and not started, in order of acceptance            *)
  running,   (* the task in each slot                                       *)
  finished,  (* the tasks that have finished                                *)
  open       (* the pool has not been told to quit                          *)

vars == <<accepted, waiting, running, finished, open>>

Init ==
  /\ accepted = {} /\ waiting = <<>> /\ finished = {}
  /\ running = [s \in Slot |-> None]
  /\ open = TRUE

Accept(t) ==
  /\ t \notin accepted
  /\ accepted' = accepted \union {t}
  /\ waiting' = Append(waiting, t)
  /\ UNCHANGED <<running, finished, open>>

Start(s) ==
  /\ waiting # <<>>
  /\ running[s] = None
  /\ Head(waiting) \notin finished
  /\ \A other \in Slot : running[other] # Head(waiting)
  /\ running' = [running EXCEPT ![s] = Head(waiting)]
  /\ waiting' = Tail(waiting)
  /\ UNCHANGED <<accepted, finished, open>>

Finish(s) ==
  /\ running[s] # None
  /\ running' = [running EXCEPT ![s] = None]
  /\ finished' = finished \union {running[s]}
  /\ UNCHANGED <<accepted, waiting, open>>

Close ==
  /\ open
  /\ open' = FALSE
  /\ waiting' \in {waiting, <<>>}
  /\ UNCHANGED <<accepted, running, finished>>

Next ==
  \/ \E t \in Task : Accept(t)
  \/ \E s \in Slot : Start(s) \/ Finish(s)
  \/ Close

Spec == Init /\ [][Next]_vars
=============================================================================
