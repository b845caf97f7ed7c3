----------------------------- MODULE ThreadPool ------------------------------
(***************************************************************************)
(* TaskQueue, Condition and ThreadPool (RPC_util/ThreadPool.hpp).  Workers *)
(* take tasks from a queue; one that finds none waits on a Condition whose *)
(* whole state is one flag, m_ready, that the first waiter to see it takes *)
(* back.  append_task pushes a task and notifies; quit clears the queue,   *)
(* sets m_exit, waits for m_running to reach zero and notifies once for    *)
(* every worker before it joins them.                                      *)
(*                                                                         *)
(* Each step below is what a thread does between two points where another  *)
(* thread can come in: one critical section, or one access to an atomic.   *)
(* Each task is appended by a thread of its own, which allows every        *)
(* interleaving of the poll threads that append.                           *)
(***************************************************************************)
EXTENDS Integers, Sequences, FiniteSets

CONSTANTS
  Worker,     (* the threads of m_workers                                   *)
  Task,       (* the tasks appended, each once                              *)
  None        (* no task: an empty Task_type                                *)

ASSUME PoolAssumption ==
  /\ IsFiniteSet(Worker) /\ Worker # {}
  /\ None \notin Task

VARIABLES
  m_tasks,    (* TaskQueue::m_tasks                                         *)
  m_ready,    (* Condition::m_ready: TRUE is the target, FALSE is -1        *)
  m_exit,
  m_running,
  pc,         (* where each worker is in do_work                            *)
  task,       (* the task each worker has taken                             *)
  call,       (* where the append_task of each task is                      *)
  closer,     (* where the thread is that calls quit, and how many of its   *)
              (* notifications are left                                     *)
  finished    (* the tasks that have returned                               *)

vars == <<m_tasks, m_ready, m_exit, m_running, pc, task, call, closer, finished>>

Location ==
  {"enter", "take", "check", "retire", "wait", "parked", "begin", "run",
   "end", "leave", "gone"}

Init ==
  /\ m_tasks = <<>>
  /\ m_ready = FALSE
  /\ m_exit = FALSE
  /\ m_running = 0
  /\ pc = [w \in Worker |-> "enter"]
  /\ task = [w \in Worker |-> None]
  /\ call = [t \in Task |-> "new"]
  /\ closer = [at |-> "open", left |-> 0]
  /\ finished = {}

Go(w, from, to) == pc[w] = from /\ pc' = [pc EXCEPT ![w] = to]

-----------------------------------------------------------------------------
(* Condition: wait and the two halves of notify_all.                       *)

(* A waiter that holds the mutex takes the flag or goes to sleep.          *)
Wait(w) ==
  /\ IF m_ready
     THEN Go(w, "wait", "enter") /\ m_ready' = FALSE
     ELSE Go(w, "wait", "parked") /\ UNCHANGED m_ready
  /\ UNCHANGED <<m_tasks, m_exit, m_running, task, call, closer, finished>>

(* A condition variable may wake a waiter for no reason.                   *)
WakeSpuriously(w) ==
  /\ Go(w, "parked", "wait")
  /\ UNCHANGED <<m_tasks, m_ready, m_exit, m_running, task, call, closer, finished>>

\* Mutant: the condition variable is notified without setting the flag.
SetNothing == UNCHANGED m_ready

SetReady == m_ready' = TRUE

\* Mutant: the flag is set and the condition variable is not notified.
WakeNone == UNCHANGED pc

WakeAll == pc' = [w \in Worker |-> IF pc[w] = "parked" THEN "wait" ELSE pc[w]]

-----------------------------------------------------------------------------
(* do_work.                                                                *)

(* ++m_running, on entry and after every wait.                             *)
Enter(w) ==
  /\ Go(w, "enter", "take")
  /\ m_running' = m_running + 1
  /\ UNCHANGED <<m_tasks, m_ready, m_exit, task, call, closer, finished>>

(* take_task.                                                              *)
Take(w) ==
  /\ IF m_tasks = <<>>
     THEN Go(w, "take", "check") /\ UNCHANGED <<m_tasks, task>>
     ELSE /\ Go(w, "take", "begin")
          /\ task' = [task EXCEPT ![w] = Head(m_tasks)]
          /\ m_tasks' = Tail(m_tasks)
  /\ UNCHANGED <<m_ready, m_exit, m_running, call, closer, finished>>

\* Mutant: the empty task take_task returned is not noticed.
CheckNothing(w) ==
  /\ Go(w, "check", "begin")
  /\ UNCHANGED <<m_tasks, m_ready, m_exit, m_running, task, call, closer, finished>>

(* No task: wait for one, or leave when the pool is closing.               *)
Check(w) ==
  /\ IF m_exit THEN Go(w, "check", "leave") ELSE Go(w, "check", "retire")
  /\ UNCHANGED <<m_tasks, m_ready, m_exit, m_running, task, call, closer, finished>>

Retire(w) ==
  /\ \/ Go(w, "retire", "wait")
     \/ Go(w, "leave", "gone")
  /\ m_running' = m_running - 1
  /\ UNCHANGED <<m_tasks, m_ready, m_exit, task, call, closer, finished>>

\* Mutant: the task is not counted, though its return is.
BeginUncounted(w) ==
  /\ Go(w, "begin", "run")
  /\ UNCHANGED <<m_tasks, m_ready, m_exit, m_running, task, call, closer, finished>>

(* ++m_running a second time, for the task.                                *)
Begin(w) ==
  /\ Go(w, "begin", "run")
  /\ m_running' = m_running + 1
  /\ UNCHANGED <<m_tasks, m_ready, m_exit, task, call, closer, finished>>

(* The task returns.                                                       *)
Run(w) ==
  /\ Go(w, "run", "end")
  /\ finished' = finished \union {task[w]}
  /\ task' = [task EXCEPT ![w] = None]
  /\ UNCHANGED <<m_tasks, m_ready, m_exit, m_running, call, closer>>

End(w) ==
  /\ Go(w, "end", "take")
  /\ m_running' = m_running - 1
  /\ UNCHANGED <<m_tasks, m_ready, m_exit, task, call, closer, finished>>

WorkerStep(w) ==
  \/ Enter(w) \/ Take(w) \/ Check(w) \/ Retire(w) \/ Wait(w)
  \/ Begin(w) \/ Run(w) \/ End(w)

-----------------------------------------------------------------------------
(* append_task.                                                            *)

At(t, from, to) == call[t] = from /\ call' = [call EXCEPT ![t] = to]

(* if (!m_exit), read before anything is locked.                           *)
CheckOpen(t) ==
  /\ IF m_exit THEN At(t, "new", "refused") ELSE At(t, "new", "push")
  /\ UNCHANGED <<m_tasks, m_ready, m_exit, m_running, pc, task, closer, finished>>

\* Mutant: the queue is a stack.
PushInFront(t) ==
  /\ At(t, "push", "set")
  /\ m_tasks' = <<t>> \o m_tasks
  /\ UNCHANGED <<m_ready, m_exit, m_running, pc, task, closer, finished>>

Push(t) ==
  /\ At(t, "push", "set")
  /\ m_tasks' = Append(m_tasks, t)
  /\ UNCHANGED <<m_ready, m_exit, m_running, pc, task, closer, finished>>

Notify(t) ==
  \/ /\ At(t, "set", "wake")
     /\ SetReady
     /\ UNCHANGED <<m_tasks, m_exit, m_running, pc, task, closer, finished>>
  \/ /\ At(t, "wake", "done")
     /\ WakeAll
     /\ UNCHANGED <<m_tasks, m_ready, m_exit, m_running, task, closer, finished>>

AppendStep(t) == Push(t) \/ Notify(t)

-----------------------------------------------------------------------------
(* quit and wait_for_job_finish.                                           *)

CloserAt(from, to, left) ==
  closer.at = from /\ closer' = [at |-> to, left |-> left]

(* quit clears the queue; wait_for_job_finish leaves it, and sets m_exit.  *)
Quit ==
  /\ CloserAt("open", "exit", 0)
  /\ m_tasks' = <<>>
  /\ UNCHANGED <<m_ready, m_exit, m_running, pc, task, call, finished>>

WaitForJobFinish ==
  /\ CloserAt("open", "drain", 0)
  /\ m_exit' = TRUE
  /\ UNCHANGED <<m_tasks, m_ready, m_running, pc, task, call, finished>>

\* Mutant: the workers are notified but not told to leave.
SetNoExit ==
  /\ CloserAt("exit", "drain", 0)
  /\ UNCHANGED <<m_tasks, m_ready, m_exit, m_running, pc, task, call, finished>>

SetExit ==
  /\ CloserAt("exit", "drain", 0)
  /\ m_exit' = TRUE
  /\ UNCHANGED <<m_tasks, m_ready, m_running, pc, task, call, finished>>

(* m_running.load() is zero.                                               *)
SeeIdle ==
  /\ m_running = 0
  /\ CloserAt("drain", "set", Cardinality(Worker))
  /\ UNCHANGED <<m_tasks, m_ready, m_exit, m_running, pc, task, call, finished>>

(* One notify_all for each worker.                                         *)
NotifyWorkers ==
  \/ /\ CloserAt("set", "wake", closer.left)
     /\ SetReady
     /\ UNCHANGED <<m_tasks, m_exit, m_running, pc, task, call, finished>>
  \/ /\ CloserAt("wake", IF closer.left = 1 THEN "join" ELSE "set", closer.left - 1)
     /\ WakeAll
     /\ UNCHANGED <<m_tasks, m_ready, m_exit, m_running, task, call, finished>>

Join ==
  /\ \A w \in Worker : pc[w] = "gone"
  /\ CloserAt("join", "closed", 0)
  /\ UNCHANGED <<m_tasks, m_ready, m_exit, m_running, pc, task, call, finished>>

CloserStep == SetExit \/ SeeIdle \/ NotifyWorkers \/ Join

Next ==
  \/ \E w \in Worker : WorkerStep(w) \/ WakeSpuriously(w)
  \/ \E t \in Task : CheckOpen(t) \/ AppendStep(t)
  \/ Quit \/ WaitForJobFinish \/ CloserStep

(* Every thread that can go on does.  A task may run for ever, as those of *)
(* IoService's pool do: each is a poll loop.                               *)
Fairness ==
  /\ \A w \in Worker : WF_vars(pc[w] # "run" /\ WorkerStep(w))
  /\ \A t \in Task : WF_vars(AppendStep(t))
  /\ WF_vars(CloserStep)

Spec == Init /\ [][Next]_vars /\ Fairness

-----------------------------------------------------------------------------
TypeOK ==
  /\ m_tasks \in Seq(Task)
  /\ m_ready \in BOOLEAN
  /\ m_exit \in BOOLEAN
  /\ m_running \in Int
  /\ pc \in [Worker -> Location]
  /\ task \in [Worker -> Task \union {None}]
  /\ call \in [Task -> {"new", "refused", "push", "set", "wake", "done"}]
  /\ closer \in [at : {"open", "exit", "drain", "set", "wake", "join", "closed"},
                 left : Nat]
  /\ finished \subseteq Task

Sleeping == {"parked", "gone"}
Working == {"enter", "take", "begin", "run", "end"}

(* While the pool is open no task is left in the queue with nobody on the  *)
(* way to it: a worker will look at the queue again, or m_ready is set and *)
(* some thread is awake, or is about to be woken, to see it, or the thread *)
(* that pushed has yet to set it.  This is what notifying after pushing,   *)
(* and the flag that outlives the notification, are for.                   *)
NoLostWakeup ==
  /\ m_tasks # <<>> /\ ~m_exit =>
       \/ \E w \in Worker : pc[w] \in Working
       \/ m_ready
       \/ \E t \in Task : call[t] = "set"
  /\ m_ready =>
       \/ \E w \in Worker : pc[w] \notin Sleeping
       \/ \A w \in Worker : pc[w] = "gone"
       \/ \E t \in Task : call[t] = "wake"
       \/ closer.at = "wake"

(* m_running is zero only when no worker holds a task: quit, which polls   *)
(* it from another thread, never takes a pool with a task in flight for an *)
(* idle one.                                                               *)
IdleMeansIdle ==
  m_running = 0 => \A w \in Worker : pc[w] \notin {"begin", "run", "end"}

(* The pool is the TaskPool its users take it for: a task starts at most   *)
(* once, tasks start in the order they were pushed, and only closing the   *)
(* pool discards one.                                                      *)
Pool == INSTANCE TaskPool WITH
  Slot <- Worker,
  accepted <- {t \in Task : call[t] \in {"set", "wake", "done"}},
  waiting <- m_tasks,
  running <- task,
  open <- closer.at = "open"

ImplementsTaskPool == Pool!Spec

(* A task in the queue of an open pool is taken and returns, if every task *)
(* returns, as the service functions in the pool of ServerService do.      *)
Queued(t) == \E i \in DOMAIN m_tasks : m_tasks[i] = t
TasksReturn == \A w \in Worker : WF_vars(Run(w))

EveryTaskRuns ==
  TasksReturn =>
    \A t \in Task : Queued(t) ~> (t \in finished \/ closer.at # "open")

(* If tasks run for ever, as IoService's do, a task may be left in the     *)
(* queue though workers are parked: the notifications of two tasks merged. *)
(* That needs a worker that runs one: never do all of them sleep.          *)
Stranded ==
  /\ \E w \in Worker : pc[w] = "run"
  /\ \A w \in Worker : pc[w] = "run" \/ (pc[w] = "parked" /\ ~m_ready)

EveryTaskStarts ==
  \A t \in Task : Queued(t) ~> (~Queued(t) \/ Stranded \/ closer.at # "open")

(* What keeps quit from returning is only that its notifications merged:   *)
(* it sets one flag several times, the flag wakes one worker each time it  *)
(* is seen, and a worker that slept through them sleeps for ever.  The     *)
(* worker that saw the flag last has left, so a pool of one always closes. *)
(* (The destructor of IoService tells its poll loops to return first.)     *)
WorkerSleptThrough ==
  /\ closer.at = "join"
  /\ ~m_ready
  /\ \E w \in Worker : pc[w] = "parked"
  /\ \E w \in Worker : pc[w] = "gone"

QuitReturns ==
  TasksReturn =>
    (closer.at # "open" ~> (closer.at = "closed" \/ WorkerSleptThrough))
=============================================================================
