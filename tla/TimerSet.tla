------------------------------ MODULE TimerSet -------------------------------
(***************************************************************************)
(* What a TimerManager promises to the owners of timers, without a vector, *)
(* a heap or a lock: a set of timers, some of which run until a time of    *)
(* their own.  A timer that runs is taken when its time has come, the      *)
(* earliest first, and starting one that runs already changes nothing.     *)
(*                                                                         *)
(* The promise ends in two ways, and they are the code's.  The timer       *)
(* thread may take a timer when the last one that ran has just been        *)
(* stopped: from then on no timer can be started ("dead").  And a timer    *)
(* may be destroyed after it was taken out, before it is fired or while it *)
(* starts again: then anything may follow ("undefined").                   *)
(***************************************************************************)
EXTENDS Integers, Sequences

CONSTANTS Timer, Interval

VARIABLES
  clock,
  members,  (* the timers there are                                         *)
  leaving,  (* those of them that are being destroyed                       *)
  running,  (* [the timers that run -> when they are due]                   *)
  due,      (* the timers taken out to be fired, in order                   *)
  status    (* "sound", "dead" or "undefined"                               *)

vars == <<clock, members, leaving, running, due, status>>

Init ==
  /\ clock = 0 /\ members = {} /\ leaving = {} /\ running = <<>> /\ due = <<>>
  /\ status = "sound"

Without(t) == [u \in DOMAIN running \ {t} |-> running[u]]
With(t, expired) ==
  [u \in DOMAIN running \union {t} |-> IF u = t THEN expired ELSE running[u]]

Tick ==
  /\ clock' = clock + 1
  /\ UNCHANGED <<members, leaving, running, due, status>>

Add(t) ==
  /\ t \notin members
  /\ members' = members \union {t}
  /\ UNCHANGED <<clock, leaving, running, due, status>>

Stop(t) ==
  /\ running' = Without(t)
  /\ UNCHANGED <<clock, members, leaving, due, status>>

BeginRemove(t) ==
  /\ t \in members
  /\ leaving' = leaving \union {t}
  /\ running' = Without(t)
  /\ UNCHANGED <<clock, members, due, status>>

EndRemove(t) ==
  /\ t \in leaving \ DOMAIN running
  /\ members' = members \ {t}
  /\ leaving' = leaving \ {t}
  /\ UNCHANGED <<clock, running, due, status>>

(* Starts t unless it runs, or the set is dead.                            *)
Started(t, interval) ==
  running' = IF t \in members \ DOMAIN running /\ status = "sound"
             THEN With(t, clock + interval) ELSE running

Start(t, interval) ==
  /\ Started(t, interval)
  /\ UNCHANGED <<clock, members, leaving, due, status>>

Take(t) ==
  /\ t \in DOMAIN running /\ running[t] <= clock
  /\ \A u \in DOMAIN running : running[t] <= running[u]
  /\ running' = Without(t)
  /\ due' = Append(due, t)
  /\ UNCHANGED <<clock, members, leaving, status>>

TakeStopped(t) ==
  /\ DOMAIN running = {} /\ status = "sound"
  /\ due' = Append(due, t)
  /\ status' = "dead"
  /\ UNCHANGED <<clock, members, leaving, running>>

(* The first timer that was taken has fired, and may start again.          *)
Fire ==
  /\ due # <<>>
  /\ due' = Tail(due)
  /\ running' = running \/ \E interval \in Interval : Started(Head(due), interval)
  /\ UNCHANGED <<clock, members, leaving, status>>

GoWrong ==
  /\ leaving \intersect DOMAIN running # {} \/ \E i \in DOMAIN due : due[i] \notin members
  /\ status' = "undefined"

Next ==
  /\ status # "undefined"
  /\ \/ \E t \in Timer :
          \/ Add(t) \/ Stop(t) \/ BeginRemove(t) \/ EndRemove(t)
          \/ Take(t) \/ TakeStopped(t)
          \/ \E interval \in Interval : Start(t, interval)
     \/ Tick \/ Fire \/ GoWrong

Spec == Init /\ [][Next]_vars
=============================================================================
