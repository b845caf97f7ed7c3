---------------------------- MODULE TimerManager -----------------------------
(***************************************************************************)
(* TimerManager and Timer (RPC_util/TimerManager.cc).  All timers are in   *)
(* one vector; the first m_actived_timers of it are a heap of those that   *)
(* run, the earliest in front.  Owners create, start, stop and destroy     *)
(* their timers; a thread takes those that are due out of the heap, one    *)
(* critical section for each, and then fires them without the lock.        *)
(*                                                                         *)
(* Each step is one critical section, or one access to what is shared.     *)
(* push_heap and pop_heap are known by what they promise: some order of    *)
(* the entries that is a heap.                                             *)
(***************************************************************************)
EXTENDS Integers, SequencesExt

CONSTANTS
  Timer,
  Circle,    (* the timers of m_type CIRCLE; the others are ONCE            *)
  Interval,  (* what timers are started with                                *)
  MaxTime    (* bound: the clock stops there                                *)

ASSUME TimerAssumption ==
  /\ Circle \subseteq Timer
  /\ Interval \subseteq Nat \ {0}
  /\ MaxTime \in Nat

VARIABLES
  clock,            (* now_steady                                           *)
  m_timers,         (* the entries: a timer and when it is due              *)
  m_actived_timers,
  m_interals,       (* [Timer -> the interval it was started with]          *)
  owner,            (* [Timer -> what its owner has done with it]           *)
  run,              (* the thread: where it is, the time it read, the       *)
                    (* timers it has taken out                              *)
  faults            (* what has gone wrong: "stale" m_actived_timers had    *)
                    (* changed since run() saw that it was positive;        *)
                    (* "dangling" a timer was fired that had been           *)
                    (* destroyed; "miscounted" a running timer was erased   *)

timers == <<m_timers, m_actived_timers>>
vars == <<clock, timers, m_interals, owner, run, faults>>

Init ==
  /\ clock = 0
  /\ m_timers = <<>> /\ m_actived_timers = 0
  /\ m_interals = [t \in Timer |-> -1]
  /\ owner = [t \in Timer |-> "none"]
  /\ run = [at |-> "sleep", now |-> 0, timers |-> <<>>]
  /\ faults = {}

(* A destroyed timer is fired; or an erased entry of the heap is counted   *)
(* still, and the code goes beyond the end of its vector.  What follows is *)
(* undefined, and not followed here.                                       *)
Defined == faults \subseteq {"stale"}

Tick ==
  /\ Defined /\ clock < MaxTime
  /\ clock' = clock + 1
  /\ UNCHANGED <<timers, m_interals, owner, run, faults>>

-----------------------------------------------------------------------------
(* The heap.                                                               *)

Heap(s) == \A i \in 2..Len(s) : s[i \div 2].expired <= s[i].expired

(* What push_heap and pop_heap may make of these entries.                  *)
Arranged(entries) == {s \in SetToSeqs(entries) : Heap(s)}

At(position) == m_timers[position].timer

Active == 1..m_actived_timers
Inactive == (m_actived_timers + 1)..Len(m_timers)

(* enable_timer: only an inactive timer is found; m_actived_timers is      *)
(* compared unsigned, so that none is when it is negative.                 *)
Enable(t, expired) ==
  IF m_actived_timers < 0 \/ \A i \in Inactive : At(i) # t
  THEN UNCHANGED timers
  ELSE LET n == m_actived_timers + 1
           pos == CHOOSE i \in Inactive : At(i) = t
           entry == [timer |-> t, expired |-> expired]
           moved == [m_timers EXCEPT ![pos] = m_timers[n]]
       IN  /\ \E s \in Arranged(Range(SubSeq(m_timers, 1, n - 1)) \union {entry}) :
                m_timers' = s \o SubSeq(moved, n + 1, Len(moved))
           /\ m_actived_timers' = n

\* Mutant: the first of the heap is popped, whichever timer is stopped.
PopFirst(pos) ==
  LET n == m_actived_timers
  IN  /\ \E s \in Arranged(Range(SubSeq(m_timers, 2, n))) :
           m_timers' = s \o <<m_timers[1]>> \o SubSeq(m_timers, n + 1, Len(m_timers))
      /\ m_actived_timers' = n - 1

(* pop_heap on the part of the heap from pos on, taken for a heap of its   *)
(* own: the entry at pos goes behind the others.  (That part need not be a *)
(* heap, and then their order is undefined.  Up to four active timers any  *)
(* order leaves a heap.)                                                   *)
Pop(pos) ==
  LET n == m_actived_timers
      part == SubSeq(m_timers, pos, n)
      others == Range(Tail(part))
  IN  /\ \E s \in IF Heap(part) THEN Arranged(others) ELSE SetToSeqs(others) :
           m_timers' = SubSeq(m_timers, 1, pos - 1) \o s \o <<m_timers[pos]>>
                         \o SubSeq(m_timers, n + 1, Len(m_timers))
      /\ m_actived_timers' = n - 1

\* Mutant: stopping a timer that does not run counts one down.
DisableUnasked(t) ==
  IF \A i \in Active : At(i) # t
  THEN m_actived_timers' = m_actived_timers - 1 /\ UNCHANGED m_timers
  ELSE \E pos \in Active : At(pos) = t /\ Pop(pos)

(* disable_timer                                                           *)
Disable(t) ==
  IF \A i \in Active : At(i) # t
  THEN UNCHANGED timers
  ELSE \E pos \in Active : At(pos) = t /\ Pop(pos)

-----------------------------------------------------------------------------
(* The owners.                                                             *)

Owner(t, from, to) ==
  /\ Defined
  /\ owner[t] = from /\ owner' = [owner EXCEPT ![t] = to]
  /\ UNCHANGED <<clock, run>>

(* The constructor: add_timer.                                             *)
Construct(t) ==
  /\ Owner(t, "none", "has")
  /\ m_timers' = Append(m_timers, [timer |-> t, expired |-> 0])
  /\ UNCHANGED <<m_actived_timers, m_interals, faults>>

Start(t, interval) ==
  /\ Owner(t, "has", "has")
  /\ m_interals' = [m_interals EXCEPT ![t] = interval]
  /\ Enable(t, clock + interval)
  /\ UNCHANGED faults

Stop(t) ==
  /\ Owner(t, "has", "has")
  /\ Disable(t)
  /\ UNCHANGED <<m_interals, faults>>

(* The destructor: remove_timer disables, and then, under a second lock,   *)
(* erases.                                                                 *)
BeginDestroy(t) ==
  /\ Owner(t, "has", "removes")
  /\ Disable(t)
  /\ UNCHANGED <<m_interals, faults>>

EndDestroy(t) ==
  /\ Owner(t, "removes", "gone")
  /\ \E pos \in DOMAIN m_timers :
       /\ At(pos) = t
       /\ m_timers' = RemoveAt(m_timers, pos)
       /\ faults' = IF pos \in Active THEN faults \union {"miscounted"} ELSE faults
  /\ UNCHANGED <<m_actived_timers, m_interals>>

-----------------------------------------------------------------------------
(* TimerManager::run                                                       *)

Runs(from, to) ==
  /\ Defined
  /\ run.at = from
  /\ run' = [run EXCEPT !.at = to]
  /\ UNCHANGED <<clock, m_interals, owner>>

WakeUp ==
  /\ Defined /\ run.at = "sleep"
  /\ run' = [at |-> "count", now |-> clock, timers |-> <<>>]
  /\ UNCHANGED <<clock, timers, m_interals, owner, faults>>

\* Mutant: a timer that is alone is not looked at.
CountSeveral ==
  /\ IF m_actived_timers > 1 /\ m_timers # <<>>
     THEN Runs("count", "lock") ELSE Runs("count", "fire")
  /\ UNCHANGED <<timers, faults>>

(* m_actived_timers > 0 && m_timers.size(), before the lock.               *)
CountActive ==
  /\ IF m_actived_timers > 0 /\ m_timers # <<>>
     THEN Runs("count", "lock") ELSE Runs("count", "fire")
  /\ UNCHANGED <<timers, faults>>

\* Mutant: a timer is taken out only when its time has passed.
IsLate == m_timers # <<>> /\ m_timers[1].expired < run.now

IsDue == m_timers # <<>> /\ m_timers[1].expired <= run.now

Nothing == Runs("lock", "fire") /\ UNCHANGED <<timers, faults>>

(* The first timer is due: take it out.                                    *)
TakeOut ==
  /\ Defined /\ run.at = "lock"
  /\ m_actived_timers > 0 /\ IsDue
  /\ Pop(1)
  /\ run' = [run EXCEPT !.at = "count", !.timers = Append(@, At(1))]
  /\ UNCHANGED <<clock, m_interals, owner, faults>>

(* The first timer is not due.                                             *)
LeaveIn == m_actived_timers > 0 /\ ~IsDue /\ Nothing

(* No timer is active any more: the first of the vector was stopped.  It   *)
(* is taken out all the same if the time left in its entry has come, and   *)
(* m_actived_timers becomes -1.  Of an empty vector the entry is read that *)
(* was erased last, whichever that was.                                    *)
TakeStopped ==
  /\ Defined /\ run.at = "lock" /\ m_actived_timers = 0
  /\ m_timers = <<>> \/ IsDue
  /\ \E t \in IF m_timers = <<>> THEN {u \in Timer : owner[u] = "gone"}
                                  ELSE {At(1)} :
       run' = [run EXCEPT !.at = "count", !.timers = Append(@, t)]
  /\ m_actived_timers' = -1
  /\ faults' = faults \union {"stale"}
  /\ UNCHANGED <<clock, m_timers, m_interals, owner>>

LeaveStopped == m_actived_timers = 0 /\ ~IsDue /\ Nothing

(* The callbacks, in the order the timers were taken out, whatever their   *)
(* owners have done meanwhile.                                             *)
Fire ==
  /\ run.timers # <<>>
  /\ Runs("fire", "again")
  /\ faults' = IF owner[Head(run.timers)] = "gone"
               THEN faults \union {"dangling"} ELSE faults
  /\ UNCHANGED timers

(* A CIRCLE timer starts again.                                            *)
StartAgain ==
  LET t == Head(run.timers)
  IN  /\ Defined /\ run.at = "again"
      /\ IF t \in Circle THEN Enable(t, clock + m_interals[t])
                                 ELSE UNCHANGED timers
      /\ faults' = IF owner[t] = "gone" THEN faults \union {"dangling"} ELSE faults
      /\ run' = [run EXCEPT !.at = "fire", !.timers = Tail(@)]
      /\ UNCHANGED <<clock, m_interals, owner>>

Sleep ==
  /\ run.timers = <<>>
  /\ Runs("fire", "sleep")
  /\ UNCHANGED <<timers, faults>>

RunStep ==
  \/ WakeUp \/ CountActive \/ TakeOut \/ LeaveIn \/ TakeStopped \/ LeaveStopped
  \/ Fire \/ StartAgain \/ Sleep

-----------------------------------------------------------------------------
Next ==
  \/ \E t \in Timer :
       \/ Construct(t) \/ Stop(t) \/ BeginDestroy(t) \/ EndDestroy(t)
       \/ \E interval \in Interval : Start(t, interval)
  \/ Tick \/ RunStep

(* Time passes and the thread runs; owners do as they like.                *)
Fairness == WF_vars(Tick) /\ WF_vars(RunStep)

Spec == Init /\ [][Next]_vars /\ Fairness

-----------------------------------------------------------------------------
(* No timer is in the vector twice, and m_actived_timers counts entries of *)
(* it, until it is one too few.                                            *)
TypeOK ==
  /\ clock \in 0..MaxTime
  /\ m_timers \in Seq([timer : Timer, expired : Nat])
  /\ IsInjective([i \in DOMAIN m_timers |-> At(i)])
  /\ m_actived_timers \in Int
  /\ Defined => m_actived_timers \in
                  (IF "stale" \in faults THEN {-1} ELSE 0..Len(m_timers))
  /\ m_interals \in [Timer -> Interval \union {-1}]
  /\ owner \in [Timer -> {"none", "has", "removes", "gone"}]
  /\ run \in [at : {"sleep", "count", "lock", "fire", "again"},
              now : 0..MaxTime, timers : Seq(Timer)]
  /\ faults \subseteq {"stale", "dangling", "miscounted"}

(* What the vector is to the owners of timers: the timers there are, and   *)
(* when those that run are due.                                            *)
Members == {At(i) : i \in DOMAIN m_timers}

Expiries ==
  [t \in {At(i) : i \in Active \intersect DOMAIN m_timers} |->
     m_timers[CHOOSE i \in Active : At(i) = t].expired]

Removing == {t \in Timer : owner[t] = "removes"}

Status ==
  IF ~Defined THEN "undefined" ELSE IF "stale" \in faults THEN "dead" ELSE "sound"

(* Until the count goes wrong the heap is the set of running timers its    *)
(* users take it for: starting, stopping or destroying one timer changes   *)
(* no other, wherever in the heap it is, and timers are taken out when     *)
(* they are due, the earliest first.                                       *)
Set == INSTANCE TimerSet WITH
  members <- Members, running <- Expiries, leaving <- Removing,
  due <- run.timers, status <- Status

ImplementsTimerSet == Set!Spec

(* When the thread goes on to the callbacks it has left no timer in the    *)
(* heap that was due when it woke up.                                      *)
NothingDueIsLeft ==
  run.at \in {"fire", "again"} /\ faults = {} =>
    \A i \in Active : m_timers[i].expired > run.now

(* A timer that is due is taken out or stopped, unless the count goes      *)
(* wrong.                                                                  *)
Due(t) == Defined /\ \E i \in Active : At(i) = t /\ m_timers[i].expired <= clock

DueTimerIsTaken == \A t \in Timer : Due(t) ~> ~Due(t) \/ faults # {}
=============================================================================
