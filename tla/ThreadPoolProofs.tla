-------------------------- MODULE ThreadPoolProofs ---------------------------
(***************************************************************************)
(* Proofs about ThreadPool for every finite set of workers and every set   *)
(* of tasks.                                                               *)
(***************************************************************************)
EXTENDS ThreadPool, SequenceTheorems, FiniteSetTheorems, TLAPS

Pushed == {"set", "wake", "done"}

(* A worker holds a task from the moment it takes it until it returns.     *)
HoldsTask == \A w \in Worker : pc[w] \in {"begin", "run"} <=> task[w] # None

(* quit has notifications left while it is notifying.                      *)
NotificationsLeft == closer.at \in {"set", "wake"} => closer.left > 0

(* Someone is on the way to a queue that is not empty.                     *)
QueueIsWatched ==
  m_tasks # <<>> /\ ~m_exit =>
    \/ \E w \in Worker : pc[w] \in Working
    \/ m_ready
    \/ \E t \in Task : call[t] = "set"

(* Whoever sleeps while the flag is set is about to be woken.              *)
SleepersAreWoken ==
  m_ready /\ (\E w \in Worker : pc[w] = "parked") =>
    closer.at = "wake" \/ \E t \in Task : call[t] = "wake"

(* A task is in one place: in the queue once, with one worker, or finished.*)
QueuedOnce ==
  \A i \in 1..Len(m_tasks) :
    /\ call[m_tasks[i]] \in Pushed
    /\ m_tasks[i] \notin finished
    /\ \A w \in Worker : task[w] # m_tasks[i]
    /\ \A j \in 1..Len(m_tasks) : j # i => m_tasks[j] # m_tasks[i]

HeldOnce ==
  \A w \in Worker : task[w] # None =>
    /\ call[task[w]] \in Pushed
    /\ task[w] \notin finished
    /\ \A v \in Worker : v # w => task[v] # task[w]

FinishedWasPushed == \A t \in finished : call[t] \in Pushed

Inv ==
  /\ TypeOK /\ HoldsTask /\ NotificationsLeft
  /\ QueueIsWatched /\ SleepersAreWoken
  /\ QueuedOnce /\ HeldOnce /\ FinishedWasPushed

(* A pool has a worker.                                                    *)
LEMMA WorkersCounted == Cardinality(Worker) \in Nat \ {0}
BY PoolAssumption, FS_CardinalityType, FS_EmptySet

(* A queue that is not empty is a first task and the rest.                 *)
LEMMA FrontOfQueue ==
  ASSUME m_tasks \in Seq(Task), m_tasks # <<>>
  PROVE  /\ Len(m_tasks) \in Nat \ {0}
         /\ Head(m_tasks) = m_tasks[1]
         /\ Head(m_tasks) \in Task
         /\ Tail(m_tasks) \in Seq(Task)
         /\ Len(Tail(m_tasks)) = Len(m_tasks) - 1
         /\ \A i \in 1..(Len(m_tasks) - 1) : Tail(m_tasks)[i] = m_tasks[i + 1]
<1>1. Len(m_tasks) \in Nat \ {0}
  BY EmptySeq
<1>2. /\ Tail(m_tasks) \in Seq(Task)
      /\ Len(Tail(m_tasks)) = Len(m_tasks) - 1
      /\ \A i \in 1..Len(Tail(m_tasks)) : Tail(m_tasks)[i] = m_tasks[i + 1]
      /\ Head(m_tasks) \in Task
  BY HeadTailProperties
<1>3. Head(m_tasks) = m_tasks[1]
  OBVIOUS
<1> QED
  BY <1>1, <1>2, <1>3

-----------------------------------------------------------------------------
(* Types.                                                                  *)
LEMMA TypeStep == Inv /\ [Next]_vars => TypeOK' /\ HoldsTask' /\ NotificationsLeft'
<1> SUFFICES ASSUME Inv, [Next]_vars
             PROVE  TypeOK' /\ HoldsTask' /\ NotificationsLeft'
  OBVIOUS
<1> USE PoolAssumption DEF Location
<1>1. ASSUME NEW w \in Worker, Enter(w)
      PROVE  TypeOK' /\ HoldsTask' /\ NotificationsLeft'
  BY <1>1 DEF Enter, Go, Inv, TypeOK, HoldsTask, NotificationsLeft
<1>2. ASSUME NEW w \in Worker, Take(w)
      PROVE  TypeOK' /\ HoldsTask' /\ NotificationsLeft'
  <2>1. CASE m_tasks = <<>>
    BY <1>2, <2>1 DEF Take, Go, Inv, TypeOK, HoldsTask, NotificationsLeft
  <2>2. CASE m_tasks # <<>>
    <3>1. Head(m_tasks) \in Task /\ Tail(m_tasks) \in Seq(Task)
      BY <2>2, FrontOfQueue DEF Inv, TypeOK
    <3>2. Head(m_tasks) # None
      BY <3>1
    <3> QED
      BY <1>2, <2>2, <3>1, <3>2
      DEF Take, Go, Inv, TypeOK, HoldsTask, NotificationsLeft
  <2> QED
    BY <2>1, <2>2
<1>3. ASSUME NEW w \in Worker, Check(w)
      PROVE  TypeOK' /\ HoldsTask' /\ NotificationsLeft'
  BY <1>3 DEF Check, Go, Inv, TypeOK, HoldsTask, NotificationsLeft
<1>4. ASSUME NEW w \in Worker, Retire(w)
      PROVE  TypeOK' /\ HoldsTask' /\ NotificationsLeft'
  <2>1. CASE Go(w, "retire", "wait")
    BY <1>4, <2>1 DEF Retire, Go, Inv, TypeOK, HoldsTask, NotificationsLeft
  <2>2. CASE Go(w, "leave", "gone")
    BY <1>4, <2>2 DEF Retire, Go, Inv, TypeOK, HoldsTask, NotificationsLeft
  <2> QED
    BY <1>4, <2>1, <2>2 DEF Retire
<1>5. ASSUME NEW w \in Worker, Wait(w)
      PROVE  TypeOK' /\ HoldsTask' /\ NotificationsLeft'
  BY <1>5 DEF Wait, Go, Inv, TypeOK, HoldsTask, NotificationsLeft
<1>6. ASSUME NEW w \in Worker, Begin(w)
      PROVE  TypeOK' /\ HoldsTask' /\ NotificationsLeft'
  BY <1>6 DEF Begin, Go, Inv, TypeOK, HoldsTask, NotificationsLeft
<1>7. ASSUME NEW w \in Worker, Run(w)
      PROVE  TypeOK' /\ HoldsTask' /\ NotificationsLeft'
  BY <1>7 DEF Run, Go, Inv, TypeOK, HoldsTask, NotificationsLeft
<1>8. ASSUME NEW w \in Worker, End(w)
      PROVE  TypeOK' /\ HoldsTask' /\ NotificationsLeft'
  BY <1>8 DEF End, Go, Inv, TypeOK, HoldsTask, NotificationsLeft
<1>9. ASSUME NEW w \in Worker, WakeSpuriously(w)
      PROVE  TypeOK' /\ HoldsTask' /\ NotificationsLeft'
  BY <1>9 DEF WakeSpuriously, Go, Inv, TypeOK, HoldsTask, NotificationsLeft
<1>10. ASSUME NEW t \in Task, CheckOpen(t)
      PROVE  TypeOK' /\ HoldsTask' /\ NotificationsLeft'
  BY <1>10 DEF CheckOpen, At, Inv, TypeOK, HoldsTask, NotificationsLeft
<1>11. ASSUME NEW t \in Task, Push(t)
      PROVE  TypeOK' /\ HoldsTask' /\ NotificationsLeft'
  BY <1>11 DEF Push, At, Inv, TypeOK, HoldsTask, NotificationsLeft
<1>12. ASSUME NEW t \in Task, Notify(t)
      PROVE  TypeOK' /\ HoldsTask' /\ NotificationsLeft'
  <2>1. CASE /\ At(t, "set", "wake")
             /\ SetReady
             /\ UNCHANGED <<m_tasks, m_exit, m_running, pc, task, closer, finished>>
    BY <2>1 DEF SetReady, At, Inv, TypeOK, HoldsTask, NotificationsLeft
  <2>2. CASE /\ At(t, "wake", "done")
             /\ WakeAll
             /\ UNCHANGED <<m_tasks, m_ready, m_exit, m_running, task, closer, finished>>
    BY <2>2 DEF WakeAll, At, Inv, TypeOK, HoldsTask, NotificationsLeft
  <2> QED
    BY <1>12, <2>1, <2>2 DEF Notify
<1>13. CASE Quit
  BY <1>13 DEF Quit, CloserAt, Inv, TypeOK, HoldsTask, NotificationsLeft
<1>14. CASE WaitForJobFinish
  BY <1>14
  DEF WaitForJobFinish, CloserAt, Inv, TypeOK, HoldsTask, NotificationsLeft
<1>15. CASE SetExit
  BY <1>15 DEF SetExit, CloserAt, Inv, TypeOK, HoldsTask, NotificationsLeft
<1>16. CASE SeeIdle
  BY <1>16, WorkersCounted
  DEF SeeIdle, CloserAt, Inv, TypeOK, HoldsTask, NotificationsLeft
<1>17. CASE NotifyWorkers
  <2>1. CASE /\ CloserAt("set", "wake", closer.left)
             /\ SetReady
             /\ UNCHANGED <<m_tasks, m_exit, m_running, pc, task, call, finished>>
    BY <2>1 DEF SetReady, CloserAt, Inv, TypeOK, HoldsTask, NotificationsLeft
  <2>2. CASE /\ CloserAt("wake", IF closer.left = 1 THEN "join" ELSE "set", closer.left - 1)
             /\ WakeAll
             /\ UNCHANGED <<m_tasks, m_ready, m_exit, m_running, task, call, finished>>
    <3>1. closer.left \in Nat \ {0}
      BY <2>2 DEF CloserAt, Inv, TypeOK, NotificationsLeft
    <3>2. /\ closer.left - 1 \in Nat
          /\ closer.left # 1 => closer.left - 1 > 0
      BY <3>1
    <3>3. TypeOK' /\ NotificationsLeft'
      BY <2>2, <3>2 DEF WakeAll, CloserAt, Inv, TypeOK, NotificationsLeft
    <3>4. HoldsTask'
      BY <2>2 DEF WakeAll, CloserAt, Inv, TypeOK, HoldsTask
    <3> QED
      BY <3>3, <3>4
  <2> QED
    BY <1>17, <2>1, <2>2 DEF NotifyWorkers
<1>18. CASE Join
  BY <1>18 DEF Join, CloserAt, Inv, TypeOK, HoldsTask, NotificationsLeft
<1>19. CASE UNCHANGED vars
  BY <1>19 DEF vars, Inv, TypeOK, HoldsTask, NotificationsLeft
<1> QED
  BY <1>1, <1>2, <1>3, <1>4, <1>5, <1>6, <1>7, <1>8, <1>9, <1>10,
     <1>11, <1>12, <1>13, <1>14, <1>15, <1>16, <1>17, <1>18, <1>19
  DEF Next, WorkerStep, AppendStep, CloserStep

-----------------------------------------------------------------------------
(* Wakeups.                                                                *)
LEMMA WakeupStep == Inv /\ [Next]_vars => QueueIsWatched' /\ SleepersAreWoken'
<1> SUFFICES ASSUME Inv, [Next]_vars
             PROVE  QueueIsWatched' /\ SleepersAreWoken'
  OBVIOUS
<1> USE PoolAssumption DEF Working
<1>1. ASSUME NEW w \in Worker, Enter(w)
      PROVE  QueueIsWatched' /\ SleepersAreWoken'
  BY <1>1 DEF Enter, Go, Inv, TypeOK, QueueIsWatched, SleepersAreWoken
<1>2. ASSUME NEW w \in Worker, Take(w)
      PROVE  QueueIsWatched' /\ SleepersAreWoken'
  BY <1>2 DEF Take, Go, Inv, TypeOK, QueueIsWatched, SleepersAreWoken
<1>3. ASSUME NEW w \in Worker, Check(w)
      PROVE  QueueIsWatched' /\ SleepersAreWoken'
  BY <1>3 DEF Check, Go, Inv, TypeOK, QueueIsWatched, SleepersAreWoken
<1>4. ASSUME NEW w \in Worker, Retire(w)
      PROVE  QueueIsWatched' /\ SleepersAreWoken'
  BY <1>4 DEF Retire, Go, Inv, TypeOK, QueueIsWatched, SleepersAreWoken
<1>5. ASSUME NEW w \in Worker, Wait(w)
      PROVE  QueueIsWatched' /\ SleepersAreWoken'
  BY <1>5 DEF Wait, Go, Inv, TypeOK, QueueIsWatched, SleepersAreWoken
<1>6. ASSUME NEW w \in Worker, Begin(w)
      PROVE  QueueIsWatched' /\ SleepersAreWoken'
  BY <1>6 DEF Begin, Go, Inv, TypeOK, QueueIsWatched, SleepersAreWoken
<1>7. ASSUME NEW w \in Worker, Run(w)
      PROVE  QueueIsWatched' /\ SleepersAreWoken'
  BY <1>7 DEF Run, Go, Inv, TypeOK, QueueIsWatched, SleepersAreWoken
<1>8. ASSUME NEW w \in Worker, End(w)
      PROVE  QueueIsWatched' /\ SleepersAreWoken'
  BY <1>8 DEF End, Go, Inv, TypeOK, QueueIsWatched, SleepersAreWoken
<1>9. ASSUME NEW w \in Worker, WakeSpuriously(w)
      PROVE  QueueIsWatched' /\ SleepersAreWoken'
  BY <1>9 DEF WakeSpuriously, Go, Inv, TypeOK, QueueIsWatched, SleepersAreWoken
<1>10. ASSUME NEW t \in Task, CheckOpen(t)
      PROVE  QueueIsWatched' /\ SleepersAreWoken'
  BY <1>10 DEF CheckOpen, At, Inv, TypeOK, QueueIsWatched, SleepersAreWoken
<1>11. ASSUME NEW t \in Task, Push(t)
      PROVE  QueueIsWatched' /\ SleepersAreWoken'
  BY <1>11 DEF Push, At, Inv, TypeOK, QueueIsWatched, SleepersAreWoken
<1>12. ASSUME NEW t \in Task, Notify(t)
      PROVE  QueueIsWatched' /\ SleepersAreWoken'
  BY <1>12
  DEF Notify, At, SetReady, WakeAll, Inv, TypeOK, QueueIsWatched,
      SleepersAreWoken
<1>13. CASE Quit
  BY <1>13 DEF Quit, CloserAt, Inv, TypeOK, QueueIsWatched, SleepersAreWoken
<1>14. CASE WaitForJobFinish
  BY <1>14
  DEF WaitForJobFinish, CloserAt, Inv, TypeOK, QueueIsWatched,
      SleepersAreWoken
<1>15. CASE SetExit
  BY <1>15 DEF SetExit, CloserAt, Inv, TypeOK, QueueIsWatched, SleepersAreWoken
<1>16. CASE SeeIdle
  BY <1>16 DEF SeeIdle, CloserAt, Inv, TypeOK, QueueIsWatched, SleepersAreWoken
<1>17. CASE NotifyWorkers
  BY <1>17
  DEF NotifyWorkers, CloserAt, SetReady, WakeAll, Inv, TypeOK, QueueIsWatched,
      SleepersAreWoken
<1>18. CASE Join
  BY <1>18 DEF Join, CloserAt, Inv, TypeOK, QueueIsWatched, SleepersAreWoken
<1>19. CASE UNCHANGED vars
  BY <1>19 DEF vars, Inv, TypeOK, QueueIsWatched, SleepersAreWoken
<1> QED
  BY <1>1, <1>2, <1>3, <1>4, <1>5, <1>6, <1>7, <1>8, <1>9, <1>10,
     <1>11, <1>12, <1>13, <1>14, <1>15, <1>16, <1>17, <1>18, <1>19
  DEF Next, WorkerStep, AppendStep, CloserStep

-----------------------------------------------------------------------------
(* Each task is in one place.                                              *)
LEMMA OnceStep ==
  Inv /\ [Next]_vars => QueuedOnce' /\ HeldOnce' /\ FinishedWasPushed'
<1> SUFFICES ASSUME Inv, [Next]_vars
             PROVE  QueuedOnce' /\ HeldOnce' /\ FinishedWasPushed'
  OBVIOUS
<1> USE PoolAssumption DEF Pushed
<1>1. ASSUME NEW w \in Worker, Enter(w)
      PROVE  QueuedOnce' /\ HeldOnce' /\ FinishedWasPushed'
  <2>1. QueuedOnce'
    BY <1>1 DEF Enter, Go, Inv, TypeOK, HoldsTask, QueuedOnce
  <2>2. HeldOnce'
    BY <1>1 DEF Enter, Go, Inv, TypeOK, HoldsTask, HeldOnce
  <2>3. FinishedWasPushed'
    BY <1>1 DEF Enter, Go, Inv, TypeOK, HoldsTask, FinishedWasPushed
  <2> QED
    BY <2>1, <2>2, <2>3
<1>2. ASSUME NEW w \in Worker, Take(w)
      PROVE  QueuedOnce' /\ HeldOnce' /\ FinishedWasPushed'
  <2>1. CASE m_tasks = <<>>
    BY <1>2, <2>1
    DEF Take, Go, Inv, TypeOK, QueuedOnce, HeldOnce, FinishedWasPushed
  <2>2. CASE m_tasks # <<>>
    <3> DEFINE n == Len(m_tasks)
               first == Head(m_tasks)
    <3>1. /\ task' = [task EXCEPT ![w] = first]
          /\ m_tasks' = Tail(m_tasks)
          /\ UNCHANGED <<call, finished>>
          /\ pc[w] = "take"
      BY <1>2, <2>2 DEF Take, Go
    <3>2. /\ n \in Nat \ {0}
          /\ first = m_tasks[1]
          /\ first \in Task
          /\ Len(m_tasks') = n - 1
          /\ \A i \in 1..(n - 1) : m_tasks'[i] = m_tasks[i + 1]
      BY <2>2, <3>1, FrontOfQueue DEF Inv, TypeOK
    <3>3. /\ call[first] \in Pushed
          /\ first \notin finished
          /\ \A v \in Worker : task[v] # first
          /\ \A j \in 2..n : m_tasks[j] # first
      <4>1. 1 \in 1..n
        BY <3>2
      <4> QED
        BY <3>2, <4>1 DEF Inv, QueuedOnce
    <3>4. task \in [Worker -> Task \union {None}]
      BY DEF Inv, TypeOK
    <3> HIDE DEF first
    <3>5. /\ task'[w] = first
          /\ \A v \in Worker : v # w => task'[v] = task[v]
      BY <3>1, <3>4
    <3>6. HeldOnce'
      BY <3>1, <3>3, <3>5 DEF Inv, HeldOnce
    <3>7. FinishedWasPushed'
      BY <3>1 DEF Inv, FinishedWasPushed
    <3>8. QueuedOnce'
      <4> HIDE DEF n
      <4> SUFFICES ASSUME NEW i \in 1..(n - 1)
                   PROVE  /\ call[m_tasks[i + 1]] \in Pushed
                          /\ m_tasks[i + 1] \notin finished
                          /\ \A v \in Worker : task'[v] # m_tasks[i + 1]
                          /\ \A j \in 1..(n - 1) : j # i => m_tasks[j + 1] # m_tasks[i + 1]
        BY <3>1, <3>2 DEF QueuedOnce
      <4>1. i + 1 \in 1..n /\ i + 1 \in 2..n
        BY <3>2
      <4>2. /\ call[m_tasks[i + 1]] \in Pushed
            /\ m_tasks[i + 1] \notin finished
            /\ \A v \in Worker : task[v] # m_tasks[i + 1]
            /\ \A j \in 1..n : j # i + 1 => m_tasks[j] # m_tasks[i + 1]
        BY <4>1 DEF Inv, QueuedOnce, n
      <4>3. \A v \in Worker : task'[v] # m_tasks[i + 1]
        BY <3>3, <3>5, <4>1, <4>2
      <4>4. ASSUME NEW j \in 1..(n - 1), j # i
            PROVE  m_tasks[j + 1] # m_tasks[i + 1]
        <5>1. j + 1 \in 1..n /\ j + 1 # i + 1
          BY <3>2, <4>4
        <5> QED
          BY <4>2, <5>1
      <4> QED
        BY <4>2, <4>3, <4>4
    <3> QED
      BY <3>6, <3>7, <3>8
  <2> QED
    BY <2>1, <2>2
<1>3. ASSUME NEW w \in Worker, Check(w)
      PROVE  QueuedOnce' /\ HeldOnce' /\ FinishedWasPushed'
  BY <1>3
  DEF Check, Go, Inv, TypeOK, HoldsTask, QueuedOnce, HeldOnce,
      FinishedWasPushed
<1>4. ASSUME NEW w \in Worker, Retire(w)
      PROVE  QueuedOnce' /\ HeldOnce' /\ FinishedWasPushed'
  BY <1>4
  DEF Retire, Go, Inv, TypeOK, HoldsTask, QueuedOnce, HeldOnce,
      FinishedWasPushed
<1>5. ASSUME NEW w \in Worker, Wait(w)
      PROVE  QueuedOnce' /\ HeldOnce' /\ FinishedWasPushed'
  BY <1>5
  DEF Wait, Go, Inv, TypeOK, HoldsTask, QueuedOnce, HeldOnce,
      FinishedWasPushed
<1>6. ASSUME NEW w \in Worker, Begin(w)
      PROVE  QueuedOnce' /\ HeldOnce' /\ FinishedWasPushed'
  BY <1>6
  DEF Begin, Go, Inv, TypeOK, HoldsTask, QueuedOnce, HeldOnce,
      FinishedWasPushed
<1>7. ASSUME NEW w \in Worker, Run(w)
      PROVE  QueuedOnce' /\ HeldOnce' /\ FinishedWasPushed'
  BY <1>7
  DEF Run, Go, Inv, TypeOK, HoldsTask, QueuedOnce, HeldOnce, FinishedWasPushed
<1>8. ASSUME NEW w \in Worker, End(w)
      PROVE  QueuedOnce' /\ HeldOnce' /\ FinishedWasPushed'
  BY <1>8
  DEF End, Go, Inv, TypeOK, HoldsTask, QueuedOnce, HeldOnce, FinishedWasPushed
<1>9. ASSUME NEW w \in Worker, WakeSpuriously(w)
      PROVE  QueuedOnce' /\ HeldOnce' /\ FinishedWasPushed'
  BY <1>9
  DEF WakeSpuriously, Go, Inv, TypeOK, HoldsTask, QueuedOnce, HeldOnce,
      FinishedWasPushed
<1>10. ASSUME NEW t \in Task, CheckOpen(t)
      PROVE  QueuedOnce' /\ HeldOnce' /\ FinishedWasPushed'
  BY <1>10
  DEF CheckOpen, At, Inv, TypeOK, HoldsTask, QueuedOnce, HeldOnce,
      FinishedWasPushed
<1>11. ASSUME NEW t \in Task, Push(t)
      PROVE  QueuedOnce' /\ HeldOnce' /\ FinishedWasPushed'
  BY <1>11
  DEF Push, At, Inv, TypeOK, HoldsTask, QueuedOnce, HeldOnce,
      FinishedWasPushed
<1>12. ASSUME NEW t \in Task, Notify(t)
      PROVE  QueuedOnce' /\ HeldOnce' /\ FinishedWasPushed'
  BY <1>12
  DEF Notify, At, SetReady, WakeAll, Inv, TypeOK, HoldsTask, QueuedOnce,
      HeldOnce, FinishedWasPushed
<1>13. CASE Quit
  BY <1>13
  DEF Quit, CloserAt, Inv, TypeOK, HoldsTask, QueuedOnce, HeldOnce,
      FinishedWasPushed
<1>14. CASE WaitForJobFinish
  BY <1>14
  DEF WaitForJobFinish, CloserAt, Inv, TypeOK, HoldsTask, QueuedOnce,
      HeldOnce, FinishedWasPushed
<1>15. CASE SetExit
  BY <1>15
  DEF SetExit, CloserAt, Inv, TypeOK, HoldsTask, QueuedOnce, HeldOnce,
      FinishedWasPushed
<1>16. CASE SeeIdle
  BY <1>16
  DEF SeeIdle, CloserAt, Inv, TypeOK, HoldsTask, QueuedOnce, HeldOnce,
      FinishedWasPushed
<1>17. CASE NotifyWorkers
  BY <1>17
  DEF NotifyWorkers, CloserAt, SetReady, WakeAll, Inv, TypeOK, HoldsTask,
      QueuedOnce, HeldOnce, FinishedWasPushed
<1>18. CASE Join
  BY <1>18
  DEF Join, CloserAt, Inv, TypeOK, HoldsTask, QueuedOnce, HeldOnce,
      FinishedWasPushed
<1>19. CASE UNCHANGED vars
  BY <1>19
  DEF vars, Inv, TypeOK, HoldsTask, QueuedOnce, HeldOnce, FinishedWasPushed
<1> QED
  BY <1>1, <1>2, <1>3, <1>4, <1>5, <1>6, <1>7, <1>8, <1>9, <1>10,
     <1>11, <1>12, <1>13, <1>14, <1>15, <1>16, <1>17, <1>18, <1>19
  DEF Next, WorkerStep, AppendStep, CloserStep

-----------------------------------------------------------------------------
(* The invariant.                                                          *)

LEMMA InitInv == Init => Inv
<1> SUFFICES ASSUME Init PROVE Inv
  OBVIOUS
<1>1. TypeOK
  <2>1. m_tasks \in Seq(Task)
    BY EmptySeq DEF Init
  <2> QED
    <3>1. closer \in [at : {"open", "exit", "drain", "set", "wake", "join", "closed"},
                      left : Nat]
      BY DEF Init
    <3>2. /\ pc \in [Worker -> Location]
          /\ task \in [Worker -> Task \union {None}]
          /\ call \in [Task -> {"new", "refused", "push", "set", "wake", "done"}]
      BY DEF Init, Location
    <3>3. m_running \in Int /\ finished \subseteq Task
      BY DEF Init
    <3>4. m_ready \in BOOLEAN /\ m_exit \in BOOLEAN
      BY Zenon DEF Init
    <3> QED
      BY <2>1, <3>1, <3>2, <3>3, <3>4 DEF TypeOK
<1>2. HoldsTask /\ NotificationsLeft
  BY DEF Init, HoldsTask, NotificationsLeft
<1>3. QueueIsWatched /\ SleepersAreWoken
  BY DEF Init, QueueIsWatched, SleepersAreWoken
<1>4. QueuedOnce /\ HeldOnce /\ FinishedWasPushed
  <2>1. Len(m_tasks) = 0
    BY DEF Init
  <2> QED
    BY <2>1 DEF Init, QueuedOnce, HeldOnce, FinishedWasPushed
<1> QED
  BY <1>1, <1>2, <1>3, <1>4 DEF Inv

(* Every step keeps the invariant.                                         *)
LEMMA StepInv == Inv /\ [Next]_vars => Inv'
BY TypeStep, WakeupStep, OnceStep DEF Inv

(* Types, for every finite set of workers and every set of tasks.          *)
THEOREM TypeCorrect == Spec => []TypeOK
<1>1. Inv => TypeOK
  BY DEF Inv
<1> QED
  BY <1>1, InitInv, StepInv, PTL DEF Spec

(* No order of the steps of append_task, quit and any number of workers    *)
(* leaves a task in the queue of an open pool with nobody on the way to it.*)
THEOREM NoWakeupIsLost == Spec => []NoLostWakeup
<1>1. Inv => NoLostWakeup
  <2> SUFFICES ASSUME Inv PROVE NoLostWakeup
    OBVIOUS
  <2>1. pc \in [Worker -> Location]
    BY DEF Inv, TypeOK
  <2> QED
    BY <2>1 DEF Inv, QueueIsWatched, SleepersAreWoken, NoLostWakeup, Sleeping
<1> QED
  BY <1>1, InitInv, StepInv, PTL DEF Spec

-----------------------------------------------------------------------------
(* The count of workers.  m_running counts a worker from Enter to Retire,  *)
(* and a second time from Begin to End.  IdleMeansIdle alone is not        *)
(* inductive: End must be known to leave the worker's first count behind.  *)

CountedAt == {"take", "check", "retire", "leave", "begin", "run", "end"}
CountedTwiceAt == {"run", "end"}

Counted == {w \in Worker : pc[w] \in CountedAt}
CountedTwice == {w \in Worker : pc[w] \in CountedTwiceAt}

RunningIsCounted ==
  m_running = Cardinality(Counted) + Cardinality(CountedTwice)

(* The workers at one of some labels, when one worker moves.               *)
LEMMA CountMoves ==
  ASSUME TypeOK, NEW w \in Worker, NEW from \in Location, NEW to \in Location,
         Go(w, from, to), NEW L \in SUBSET Location
  PROVE  LET before == {v \in Worker : pc[v] \in L}
             after == {v \in Worker : pc'[v] \in L}
         IN  /\ Cardinality(before) \in Nat
             /\ Cardinality(after) = Cardinality(before)
                                       + (IF to \in L THEN 1 ELSE 0)
                                       - (IF from \in L THEN 1 ELSE 0)
<1> DEFINE before == {v \in Worker : pc[v] \in L}
           after == {v \in Worker : pc'[v] \in L}
<1>1. /\ pc[w] = from /\ pc'[w] = to
      /\ \A v \in Worker \ {w} : pc'[v] = pc[v]
  BY DEF Go, TypeOK
<1>2. IsFiniteSet(before) /\ Cardinality(before) \in Nat
  BY PoolAssumption, FS_Subset, FS_CardinalityType
<1>3. after = IF to \in L THEN before \union {w} ELSE before \ {w}
  BY <1>1
<1>4. w \in before <=> from \in L
  BY <1>1
<1> HIDE DEF before, after
<1>5. /\ Cardinality(before \union {w}) =
           IF w \in before THEN Cardinality(before) ELSE Cardinality(before) + 1
      /\ Cardinality(before \ {w}) =
           IF w \in before THEN Cardinality(before) - 1 ELSE Cardinality(before)
  BY <1>2, FS_AddElement, FS_RemoveElement
<1>6. Cardinality(after) = Cardinality(before) + (IF to \in L THEN 1 ELSE 0)
                                               - (IF from \in L THEN 1 ELSE 0)
  BY <1>2, <1>3, <1>4, <1>5
<1> QED
  BY <1>2, <1>6 DEF before, after

(* A worker that moves is counted or no longer counted.                    *)
LEMMA CountedMoves ==
  ASSUME TypeOK, NEW w \in Worker, NEW from \in Location, NEW to \in Location,
         Go(w, from, to)
  PROVE  /\ Cardinality(Counted) \in Nat /\ Cardinality(CountedTwice) \in Nat
         /\ Cardinality(Counted') = Cardinality(Counted)
                                      + (IF to \in CountedAt THEN 1 ELSE 0)
                                      - (IF from \in CountedAt THEN 1 ELSE 0)
         /\ Cardinality(CountedTwice') = Cardinality(CountedTwice)
                                      + (IF to \in CountedTwiceAt THEN 1 ELSE 0)
                                      - (IF from \in CountedTwiceAt THEN 1 ELSE 0)
<1>1. CountedAt \in SUBSET Location /\ CountedTwiceAt \in SUBSET Location
  BY DEF CountedAt, CountedTwiceAt, Location
<1>2. /\ Counted = {v \in Worker : pc[v] \in CountedAt}
      /\ Counted' = {v \in Worker : pc'[v] \in CountedAt}
      /\ CountedTwice = {v \in Worker : pc[v] \in CountedTwiceAt}
      /\ CountedTwice' = {v \in Worker : pc'[v] \in CountedTwiceAt}
  BY DEF Counted, CountedTwice
<1>3. \A L \in SUBSET Location :
        /\ Cardinality({v \in Worker : pc[v] \in L}) \in Nat
        /\ Cardinality({v \in Worker : pc'[v] \in L})
              = Cardinality({v \in Worker : pc[v] \in L})
                  + (IF to \in L THEN 1 ELSE 0) - (IF from \in L THEN 1 ELSE 0)
  BY CountMoves
<1>4. /\ Cardinality(Counted) \in Nat
      /\ Cardinality(Counted') = Cardinality(Counted)
                                   + (IF to \in CountedAt THEN 1 ELSE 0)
                                   - (IF from \in CountedAt THEN 1 ELSE 0)
  BY <1>1, <1>2, <1>3
<1>5. /\ Cardinality(CountedTwice) \in Nat
      /\ Cardinality(CountedTwice') = Cardinality(CountedTwice)
                                   + (IF to \in CountedTwiceAt THEN 1 ELSE 0)
                                   - (IF from \in CountedTwiceAt THEN 1 ELSE 0)
  BY <1>1, <1>2, <1>3
<1> QED
  BY <1>4, <1>5

(* A notification moves no worker that is counted.                         *)
LEMMA CountedStay ==
  ASSUME TypeOK, WakeAll \/ UNCHANGED pc
  PROVE  Counted' = Counted /\ CountedTwice' = CountedTwice
BY DEF WakeAll, TypeOK, Counted, CountedTwice, CountedAt, CountedTwiceAt

(* Every step changes m_running as it changes the workers counted.         *)
LEMMA RunningStep ==
  TypeOK /\ RunningIsCounted /\ [Next]_vars => RunningIsCounted'
<1> SUFFICES ASSUME TypeOK, RunningIsCounted, [Next]_vars
             PROVE  RunningIsCounted'
  OBVIOUS
<1> USE DEF Location, CountedAt, CountedTwiceAt, RunningIsCounted
<1>1. ASSUME NEW w \in Worker, Enter(w) PROVE RunningIsCounted'
  BY <1>1, CountedMoves DEF Enter
<1>2. ASSUME NEW w \in Worker, Take(w) PROVE RunningIsCounted'
  BY <1>2, CountedMoves DEF Take
<1>3. ASSUME NEW w \in Worker, Check(w) PROVE RunningIsCounted'
  BY <1>3, CountedMoves DEF Check
<1>4. ASSUME NEW w \in Worker, Retire(w) PROVE RunningIsCounted'
  BY <1>4, CountedMoves DEF Retire
<1>5. ASSUME NEW w \in Worker, Wait(w) PROVE RunningIsCounted'
  BY <1>5, CountedMoves DEF Wait
<1>6. ASSUME NEW w \in Worker, Begin(w) PROVE RunningIsCounted'
  BY <1>6, CountedMoves DEF Begin
<1>7. ASSUME NEW w \in Worker, Run(w) PROVE RunningIsCounted'
  BY <1>7, CountedMoves DEF Run
<1>8. ASSUME NEW w \in Worker, End(w) PROVE RunningIsCounted'
  BY <1>8, CountedMoves DEF End
<1>9. ASSUME NEW w \in Worker, WakeSpuriously(w) PROVE RunningIsCounted'
  BY <1>9, CountedMoves DEF WakeSpuriously
<1>10. ASSUME NEW t \in Task, CheckOpen(t) \/ Push(t) \/ Notify(t)
       PROVE  RunningIsCounted'
  BY <1>10, CountedStay DEF CheckOpen, Push, Notify
<1>11. CASE Quit \/ WaitForJobFinish \/ CloserStep
  BY <1>11, CountedStay
  DEF Quit, WaitForJobFinish, CloserStep, SetExit, SeeIdle, NotifyWorkers, Join
<1>12. CASE UNCHANGED vars
  BY <1>12, CountedStay DEF vars
<1> QED
  BY <1>1, <1>2, <1>3, <1>4, <1>5, <1>6, <1>7, <1>8, <1>9, <1>10, <1>11, <1>12
  DEF Next, WorkerStep, AppendStep

(* At first nobody is counted.                                             *)
LEMMA RunningInit == Init => RunningIsCounted
<1> SUFFICES ASSUME Init PROVE RunningIsCounted
  OBVIOUS
<1>1. Counted = {} /\ CountedTwice = {}
  BY DEF Init, Counted, CountedTwice, CountedAt, CountedTwiceAt
<1> QED
  BY <1>1, FS_EmptySet DEF Init, RunningIsCounted

(* If the count is 0, no worker has a task.                                *)
LEMMA IdleFromCount == TypeOK /\ RunningIsCounted => IdleMeansIdle
<1> SUFFICES ASSUME RunningIsCounted, m_running = 0
             PROVE  \A w \in Worker : pc[w] \notin {"begin", "run", "end"}
  BY DEF IdleMeansIdle
<1>1. /\ IsFiniteSet(Counted)
      /\ Cardinality(Counted) \in Nat /\ Cardinality(CountedTwice) \in Nat
  BY PoolAssumption, FS_Subset, FS_CardinalityType DEF Counted, CountedTwice
<1>2. m_running = Cardinality(Counted) + Cardinality(CountedTwice) /\ m_running = 0
  BY DEF RunningIsCounted
<1>3. Counted = {}
  <2> DEFINE n == Cardinality(Counted)
             k == Cardinality(CountedTwice)
  <2> HIDE DEF n, k
  <2>1. n \in Nat /\ k \in Nat /\ m_running = n + k
    BY <1>1, <1>2 DEF n, k
  <2>2. n = 0
    BY <1>2, <2>1
  <2> QED
    BY <1>1, <2>2, FS_EmptySet DEF n
<1> QED
  BY <1>3 DEF Counted, CountedAt

(* quit and wait_for_job_finish, which poll m_running without a lock, see  *)
(* zero only when no worker of the pool, however many there are, has taken *)
(* a task it has not returned from.                                        *)
THEOREM QuitSeesIdlePool == Spec => []IdleMeansIdle
<1>1. Inv => TypeOK
  BY DEF Inv
<1>2. Inv /\ RunningIsCounted /\ [Next]_vars => (Inv /\ RunningIsCounted)'
  BY <1>1, StepInv, RunningStep
<1>3. Inv /\ RunningIsCounted => IdleMeansIdle
  BY <1>1, IdleFromCount
<1> QED
  BY <1>2, <1>3, InitInv, RunningInit, PTL DEF Spec

-----------------------------------------------------------------------------
(* The pool of threads implements the pool of tasks.                       *)

LEMMA PoolStep == Inv /\ [Next]_vars => [Pool!Next]_(Pool!vars)
<1> SUFFICES ASSUME Inv, [Next]_vars
             PROVE  [Pool!Next]_(Pool!vars)
  OBVIOUS
<1> USE PoolAssumption
<1>1. ASSUME NEW w \in Worker, Enter(w)
      PROVE  [Pool!Next]_(Pool!vars)
  BY <1>1 DEF Enter, Go, Pool!vars
<1>2. ASSUME NEW w \in Worker, Take(w)
      PROVE  [Pool!Next]_(Pool!vars)
  <2>1. CASE m_tasks = <<>>
    BY <1>2, <2>1 DEF Take, Pool!vars
  <2>2. CASE m_tasks # <<>>
    <3> DEFINE first == Head(m_tasks)
    <3>1. /\ task' = [task EXCEPT ![w] = first]
          /\ m_tasks' = Tail(m_tasks)
          /\ UNCHANGED <<call, finished, closer>>
          /\ pc[w] = "take"
      BY <1>2, <2>2 DEF Take, Go
    <3>2. first = m_tasks[1] /\ 1 \in 1..Len(m_tasks) /\ first \in Task
      BY <2>2, FrontOfQueue DEF Inv, TypeOK
    <3>3. /\ first \notin finished
          /\ \A v \in Worker : task[v] # first
      BY <3>2 DEF Inv, QueuedOnce
    <3>4. task[w] = None
      BY <3>1 DEF Inv, TypeOK, HoldsTask
    <3>5. UNCHANGED <<{t \in Task : call[t] \in {"set", "wake", "done"}},
                      finished, closer.at = "open">>
      BY <3>1
    <3>6. Pool!Start(w)
      BY <2>2, <3>1, <3>3, <3>4, <3>5 DEF Pool!Start
    <3> QED
      BY <3>6 DEF Pool!Next
  <2> QED
    BY <2>1, <2>2
<1>3. ASSUME NEW w \in Worker, Check(w)
      PROVE  [Pool!Next]_(Pool!vars)
  BY <1>3 DEF Check, Go, Pool!vars
<1>4. ASSUME NEW w \in Worker, Retire(w)
      PROVE  [Pool!Next]_(Pool!vars)
  BY <1>4 DEF Retire, Go, Pool!vars
<1>5. ASSUME NEW w \in Worker, Wait(w)
      PROVE  [Pool!Next]_(Pool!vars)
  BY <1>5 DEF Wait, Go, Pool!vars
<1>6. ASSUME NEW w \in Worker, Begin(w)
      PROVE  [Pool!Next]_(Pool!vars)
  BY <1>6 DEF Begin, Go, Pool!vars
<1>7. ASSUME NEW w \in Worker, Run(w)
      PROVE  [Pool!Next]_(Pool!vars)
  <2>1. /\ pc[w] = "run"
        /\ finished' = finished \union {task[w]}
        /\ task' = [task EXCEPT ![w] = None]
        /\ UNCHANGED <<m_tasks, call, closer>>
    BY <1>7 DEF Run, Go
  <2>2. task[w] # None
    BY <2>1 DEF Inv, HoldsTask
  <2>3. Pool!Finish(w)
    BY <2>1, <2>2 DEF Pool!Finish
  <2> QED
    BY <2>3 DEF Pool!Next
<1>8. ASSUME NEW w \in Worker, End(w)
      PROVE  [Pool!Next]_(Pool!vars)
  BY <1>8 DEF End, Go, Pool!vars
<1>9. ASSUME NEW w \in Worker, WakeSpuriously(w)
      PROVE  [Pool!Next]_(Pool!vars)
  BY <1>9 DEF WakeSpuriously, Go, Pool!vars
<1>10. ASSUME NEW t \in Task, CheckOpen(t)
      PROVE  [Pool!Next]_(Pool!vars)
  BY <1>10 DEF CheckOpen, At, Inv, TypeOK, Pool!vars
<1>11. ASSUME NEW t \in Task, Push(t)
      PROVE  [Pool!Next]_(Pool!vars)
  <2>1. /\ call[t] = "push"
        /\ call' = [call EXCEPT ![t] = "set"]
        /\ m_tasks' = Append(m_tasks, t)
        /\ UNCHANGED <<task, finished, closer>>
    BY <1>11 DEF Push, At
  <2>2. {u \in Task : call'[u] \in {"set", "wake", "done"}}
          = {u \in Task : call[u] \in {"set", "wake", "done"}} \union {t}
    BY <2>1 DEF Inv, TypeOK
  <2>3. Pool!Accept(t)
    BY <2>1, <2>2 DEF Pool!Accept
  <2> QED
    BY <2>3 DEF Pool!Next
<1>12. ASSUME NEW t \in Task, Notify(t)
      PROVE  [Pool!Next]_(Pool!vars)
  BY <1>12 DEF Notify, At, Inv, TypeOK, Pool!vars
<1>13. CASE Quit
  <2>1. Pool!Close
    BY <1>13 DEF Quit, CloserAt, Pool!Close
  <2> QED
    BY <2>1 DEF Pool!Next
<1>14. CASE WaitForJobFinish
  <2>1. Pool!Close
    BY <1>14 DEF WaitForJobFinish, CloserAt, Pool!Close
  <2> QED
    BY <2>1 DEF Pool!Next
<1>15. CASE SetExit
  BY <1>15 DEF SetExit, CloserAt, Pool!vars
<1>16. CASE SeeIdle
  BY <1>16 DEF SeeIdle, CloserAt, Pool!vars
<1>17. CASE NotifyWorkers
  <2>1. UNCHANGED <<m_tasks, task, call, finished>>
    BY <1>17 DEF NotifyWorkers
  <2>2. closer.at # "open" /\ closer'.at # "open"
    BY <1>17 DEF NotifyWorkers, CloserAt
  <2> QED
    BY <2>1, <2>2 DEF Pool!vars
<1>18. CASE Join
  BY <1>18 DEF Join, CloserAt, Pool!vars
<1>19. CASE UNCHANGED vars
  BY <1>19 DEF vars, Pool!vars
<1> QED
  BY <1>1, <1>2, <1>3, <1>4, <1>5, <1>6, <1>7, <1>8, <1>9, <1>10,
     <1>11, <1>12, <1>13, <1>14, <1>15, <1>16, <1>17, <1>18, <1>19
  DEF Next, WorkerStep, AppendStep, CloserStep

(* Whatever the workers, the appenders and quit do in whatever order, a    *)
(* task starts at most once, in the order of the queue, on a worker that   *)
(* is free, and none is discarded but by quit.                             *)
THEOREM Refines == Spec => ImplementsTaskPool
<1>1. Init => Pool!Init
  BY DEF Init, Pool!Init
<1> QED
  BY <1>1, InitInv, StepInv, PoolStep, PTL
  DEF Spec, Pool!Spec, ImplementsTaskPool
=============================================================================
