----------------------------- MODULE ClientCall ------------------------------
(***************************************************************************)
(* A call of the client, from its stub to its end: the query id the stub   *)
(* takes, ClientService::send_request, the map of waiting calls, and the   *)
(* ResponseHandle on which the caller waits while the poll thread brings a *)
(* response and the timer thread a time-out.                               *)
(*                                                                         *)
(* All callers wait on one Condition, which holds the one tag it was last  *)
(* notified of: a notification for one call overwrites that for another.   *)
(* A caller that missed its own is woken again by its timer, which is      *)
(* CIRCLE: it goes off, and notifies, as long as the handle exists.        *)
(*                                                                         *)
(* At this commit a loop without exit stands between the registration of a *)
(* call and the rest of send_request.  looping says whether it is there:   *)
(* TRUE is the program as it is; FALSE leaves out the three lines of the   *)
(* loop and is what the handle and the code behind the loop are for.       *)
(*                                                                         *)
(* The calls are of one method, so that a tag, the hash of the method xor  *)
(* the query id, is its query id.  A handle lives as long as somebody      *)
(* holds it: its caller, the map or the poll thread.  Packages arrive or   *)
(* do not (PackageStream); a timer that is active goes off (TimerManager). *)
(***************************************************************************)
EXTENDS Integers, FiniteSets

CONSTANTS
  Call,      (* the calls made, each by a thread of its own                 *)
  Size,      (* [Call -> what its response may be to the 2048 bytes of a    *)
             (* handle]: it "fits", is "full" (as long) or "over" (longer)  *)
  Programs,  (* with the loop of send_request (TRUE), without it, or both   *)
  None

(* How a call ends that returns no response.                               *)
Failure == {"no connection", "cache full", "time out", "unwritten"}

ASSUME CallAssumption ==
  /\ IsFiniteSet(Call) /\ None \notin Call
  /\ Call \intersect Failure = {}
  /\ Size \in [Call -> SUBSET {"fits", "full", "over"}]
  /\ Programs \subseteq BOOLEAN

Tag == 1..(Cardinality(Call) + 1)
Empty == -1   \* Condition's m_ready when it holds no tag

VARIABLES
  looping,            (* the loop while(1) of send_request is there         *)
  query_id,           (* the static counter of the stub                     *)
  id,                 (* [Call -> the query id it took, and so its tag]     *)
  pc,                 (* [Call -> where its thread is]                      *)
  outcome,            (* [Call -> how it ended]                             *)
  connected,          (* m_fd is open                                       *)
  m_response_handles, (* [Tag -> the call whose handle is stored there]     *)
  m_state,            (* [Call -> ResponseHandle::m_state]                  *)
  m_buffer,           (* [Call -> the response its handle has copied]       *)
  m_ready,            (* Condition::m_ready                                 *)
  requests,           (* calls whose request is on its way to the server    *)
  responses,          (* responses on their way back                        *)
  poll,               (* the poll thread: where it is, its local handle and *)
                      (* the response it has for it                         *)
  active,             (* the calls whose timer runs                         *)
  due,                (* the timers run() took out to fire                  *)
  timer,              (* the timer thread: where it is, and with which      *)
  faults              (* what has gone wrong: "torn" two calls took one     *)
                      (* query id; "dangling" a timer fired whose handle    *)
                      (* was deleted after it was taken out                 *)

stub == <<looping, query_id, id>>
service == <<connected, m_response_handles>>
handles == <<m_state, m_buffer>>
network == <<requests, responses>>
timers == <<active, due, timer>>
vars == <<stub, pc, outcome, service, handles, m_ready, network, poll, timers,
          faults>>

Answer(c, size) == [call |-> c, tag |-> id[c], size |-> size]
Response == [call : Call, tag : Tag, size : {"fits", "full", "over"}]

Idle == [at |-> "idle", this |-> None, holds |-> None]

Init ==
  /\ looping \in Programs
  /\ query_id = 1
  /\ id = [c \in Call |-> 1]
  /\ pc = [c \in Call |-> "new"]
  /\ outcome = [c \in Call |-> None]
  /\ connected = TRUE
  /\ m_response_handles = [t \in Tag |-> None]
  /\ m_state = [c \in Call |-> "WAITING"]
  /\ m_buffer = [c \in Call |-> None]
  /\ m_ready = Empty
  /\ requests = {} /\ responses = {}
  /\ poll = Idle
  /\ active = {} /\ due = {}
  /\ timer = [at |-> "sleep", this |-> None]
  /\ faults = {}

Go(c, from, to) == pc[c] = from /\ pc' = [pc EXCEPT ![c] = to]

Ends(c, from, how) ==
  /\ Go(c, from, "returned")
  /\ outcome' = [outcome EXCEPT ![c] = how]

(* m_mutex of a handle is held while its waiter is notified.               *)
Locked(c) ==
  \/ poll.at = "wake" /\ poll.this = c
  \/ timer.at = "wake" /\ timer.this = c

Registered == {"loop", "write", "start", "wait", "parked", "check"}

(* The shared pointers to a handle: its caller's, the map's, the poll      *)
(* thread's.  The handle's timer is removed when the last one goes.        *)
Exists(c) ==
  \/ pc[c] \in Registered
  \/ m_response_handles[id[c]] = c
  \/ poll.this = c

-----------------------------------------------------------------------------
(* The stub: request.set_query_id(query_id++), without a lock.             *)

LoadId(c) ==
  /\ Go(c, "new", "store")
  /\ id' = [id EXCEPT ![c] = query_id]
  /\ UNCHANGED <<looping, query_id, outcome, service, handles, m_ready>>
  /\ UNCHANGED <<network, poll, timers, faults>>

\* Mutant: every call has the same query id.
StoreSameId(c) ==
  /\ Go(c, "store", "call")
  /\ UNCHANGED <<stub, outcome, service, handles, m_ready, network, poll>>
  /\ UNCHANGED <<timers, faults>>

StoreId(c) ==
  /\ Go(c, "store", "call")
  /\ query_id' = id[c] + 1
  /\ faults' = IF query_id = id[c] THEN faults ELSE faults \union {"torn"}
  /\ UNCHANGED <<looping, id, outcome, service, handles, m_ready>>
  /\ UNCHANGED <<network, poll, timers>>

-----------------------------------------------------------------------------
(* ClientService::send_request                                             *)

Sends == UNCHANGED <<stub, handles, poll, faults>>

CheckConnection(c) ==
  /\ \/ connected /\ Go(c, "call", "register") /\ UNCHANGED outcome
     \/ ~connected /\ Ends(c, "call", "no connection")
  /\ UNCHANGED <<service, m_ready, network, timers>> /\ Sends

(* The handle takes the place of whatever has the same tag.                *)
Register(c) ==
  /\ Go(c, "register", IF looping THEN "loop" ELSE "write")
  /\ m_response_handles' = [m_response_handles EXCEPT ![id[c]] = c]
  /\ UNCHANGED <<connected, outcome, m_ready, network, timers>> /\ Sends

(* while(1): the request is written, or refused, again and again.          *)
Loop(c) ==
  /\ Go(c, "loop", "loop")
  /\ requests' = requests \union {c}
  /\ UNCHANGED <<outcome, service, m_ready, responses, timers>> /\ Sends

(* write_package: the request is on its way, or there was no room for it;  *)
(* then the handle stays in the map.                                       *)
Write(c) ==
  /\ \/ /\ Go(c, "write", "start")
        /\ requests' = requests \union {c}
        /\ UNCHANGED outcome
     \/ Ends(c, "write", "cache full") /\ UNCHANGED requests
  /\ UNCHANGED <<service, m_ready, responses, timers>> /\ Sends

(* ResponseHandle::read                                                    *)
StartTimer(c) ==
  /\ Go(c, "start", "wait")
  /\ active' = active \union {c}
  /\ UNCHANGED <<outcome, service, m_ready, network, due, timer>> /\ Sends

\* Mutant: wait does not look at the target.
WaitForAnybody(c) ==
  /\ IF m_ready # Empty
     THEN Go(c, "wait", "check") /\ m_ready' = Empty
     ELSE Go(c, "wait", "parked") /\ UNCHANGED m_ready
  /\ UNCHANGED <<outcome, service, network, timers>> /\ Sends

(* Condition::wait(m_tag)                                                  *)
Wait(c) ==
  /\ IF m_ready = id[c]
     THEN Go(c, "wait", "check") /\ m_ready' = Empty
     ELSE Go(c, "wait", "parked") /\ UNCHANGED m_ready
  /\ UNCHANGED <<outcome, service, network, timers>> /\ Sends

WakeSpuriously(c) ==
  /\ Go(c, "parked", "wait")
  /\ UNCHANGED <<outcome, service, m_ready, network, timers>> /\ Sends

(* What read copies to its caller: nothing, and the length zero that       *)
(* send_request takes for a time-out, if the response did not come or did  *)
(* not fit the handle; the length without the bytes if it is just as long. *)
Result(c) ==
  IF m_state[c] = "TIME_OUT" \/ m_buffer[c] = None THEN "time out"
  ELSE IF m_buffer[c].size = "full" THEN "unwritten"
  ELSE m_buffer[c].call

Return(c) ==
  /\ ~Locked(c)
  /\ Ends(c, "check", Result(c))
  /\ UNCHANGED <<service, m_ready, network, timers>> /\ Sends

CallerStep(c) ==
  \/ StoreId(c) \/ CheckConnection(c) \/ Register(c) \/ Loop(c) \/ Write(c)
  \/ StartTimer(c) \/ Wait(c) \/ Return(c)

-----------------------------------------------------------------------------
(* The server: a worker calls the function and writes the response; or     *)
(* request or response is lost on the way.                                 *)
Respond(c) ==
  /\ c \in requests
  /\ requests' = requests \ {c}
  /\ \/ \E size \in Size[c] : responses' = responses \union {Answer(c, size)}
     \/ UNCHANGED responses
  /\ UNCHANGED <<stub, pc, outcome, service, handles, m_ready, poll, timers, faults>>

-----------------------------------------------------------------------------
(* The poll thread.  read_socket: one package, and the handle for its tag. *)

Polls == UNCHANGED <<stub, outcome, network, timers, faults>>

(* condition.notify_all, its second half, before the handle is unlocked.   *)
WakeAll == pc' = [c \in Call |-> IF pc[c] = "parked" THEN "wait" ELSE pc[c]]

\* Mutant: a call that is answered stays in the map.
ReceiveAndKeep(r) ==
  LET c == m_response_handles[r.tag]
  IN  /\ poll.at = "idle" /\ connected /\ r \in responses
      /\ poll' = IF c = None THEN Idle ELSE [at |-> "write", this |-> c, holds |-> r]
      /\ responses' = responses \ {r}
      /\ UNCHANGED <<stub, pc, outcome, service, handles, m_ready, requests>>
      /\ UNCHANGED <<timers, faults>>

(* A response nobody is registered for is dropped.                         *)
Receive(r) ==
  LET c == m_response_handles[r.tag]
  IN  /\ poll.at = "idle" /\ connected /\ r \in responses
      /\ poll' = IF c = None THEN Idle ELSE [at |-> "write", this |-> c, holds |-> r]
      /\ m_response_handles' = [m_response_handles EXCEPT ![r.tag] = None]
      /\ responses' = responses \ {r}
      /\ UNCHANGED <<stub, pc, outcome, connected, handles, m_ready, requests>>
      /\ UNCHANGED <<timers, faults>>

(* ResponseHandle::write: too late, ...                                    *)
WriteTooLate ==
  /\ poll.at = "write" /\ ~Locked(poll.this)
  /\ m_state[poll.this] = "TIME_OUT"
  /\ poll' = Idle
  /\ UNCHANGED <<pc, service, handles, m_ready>> /\ Polls

(* ... or the response is copied, if it fits, and the call is done.        *)
WriteResponse ==
  LET c == poll.this
  IN  /\ poll.at = "write" /\ ~Locked(c)
      /\ m_state[c] # "TIME_OUT"
      /\ m_buffer' = IF poll.holds.size = "over" THEN m_buffer
                     ELSE [m_buffer EXCEPT ![c] = poll.holds]
      /\ m_state' = [m_state EXCEPT ![c] = "DONE"]
      /\ m_ready' = id[c]
      /\ poll' = [poll EXCEPT !.at = "wake"]
      /\ UNCHANGED <<pc, service>> /\ Polls

WakeByPoll ==
  /\ poll.at = "wake"
  /\ WakeAll
  /\ poll' = Idle
  /\ UNCHANGED <<service, handles, m_ready>> /\ Polls

(* read returned 0: m_fd = -1.  The calls that wait are not told.          *)
Disconnect ==
  /\ poll.at = "idle" /\ connected
  /\ connected' = FALSE
  /\ UNCHANGED <<pc, m_response_handles, handles, m_ready, poll>> /\ Polls

PollStep ==
  (\E r \in responses : Receive(r)) \/ WriteTooLate \/ WriteResponse \/ WakeByPoll

-----------------------------------------------------------------------------
(* The timer thread.                                                       *)

Times == UNCHANGED <<stub, outcome, service, network, poll>>

(* TimerManager::run takes out timers that are due.                        *)
Collect ==
  /\ timer.at = "sleep"
  /\ \E s \in SUBSET {c \in active : Exists(c)} :
       s # {} /\ due' = s /\ active' = active \ s
  /\ timer' = [timer EXCEPT !.at = "fire"]
  /\ UNCHANGED <<pc, handles, m_ready, faults>> /\ Times

(* time_out of a handle.  A handle deleted since its timer was taken out   *)
(* is used all the same: the process dies, or finds the bytes as they were.*)
Notify(c) ==
  /\ timer.at = "fire" /\ c \in due /\ ~Locked(c)
  /\ m_ready' = id[c]
  /\ due' = due \ {c}
  /\ timer' = [at |-> "wake", this |-> c]
  /\ faults' = IF Exists(c) THEN faults ELSE faults \union {"dangling"}
  /\ UNCHANGED <<pc, active, m_buffer>> /\ Times

\* Mutant: the time-out does not ask whether the call is done.
TimeOutRegardless(c) ==
  /\ Notify(c)
  /\ m_state' = [m_state EXCEPT ![c] = "TIME_OUT"]

TimeOut(c) ==
  /\ Notify(c)
  /\ m_state' = [m_state EXCEPT ![c] = IF @ = "WAITING" THEN "TIME_OUT" ELSE @]

WakeByTimer ==
  /\ timer.at = "wake"
  /\ WakeAll
  /\ timer' = [timer EXCEPT !.at = "again"]
  /\ UNCHANGED <<handles, m_ready, active, due, faults>> /\ Times

NextTimer == [at |-> IF due = {} THEN "sleep" ELSE "fire", this |-> None]

\* Mutant: the timer goes off once.
StartNoMore ==
  /\ timer.at = "again"
  /\ timer' = NextTimer
  /\ UNCHANGED <<pc, handles, m_ready, active, due, faults>> /\ Times

(* The timer is CIRCLE: it starts again, unless its handle was deleted.    *)
StartAgain ==
  /\ timer.at = "again"
  /\ active' = IF Exists(timer.this) THEN active \union {timer.this} ELSE active
  /\ faults' = IF Exists(timer.this) THEN faults ELSE faults \union {"dangling"}
  /\ timer' = NextTimer
  /\ UNCHANGED <<pc, handles, m_ready, due>> /\ Times

TimerStep ==
  Collect \/ (\E c \in Call : TimeOut(c)) \/ WakeByTimer \/ StartAgain

-----------------------------------------------------------------------------
Next ==
  \/ \E c \in Call :
       LoadId(c) \/ CallerStep(c) \/ WakeSpuriously(c) \/ Respond(c)
  \/ PollStep \/ Disconnect
  \/ TimerStep

(* Every thread runs.  A caller gets the mutex of its handle, which the    *)
(* timer thread holds for a moment in each pass and leaves free while it   *)
(* sleeps; and the clock reaches the time a timer was set to, after which  *)
(* the next pass takes it out.  Neither server nor network owes an answer. *)
Fairness ==
  /\ \A c \in Call : WF_vars(CallerStep(c)) /\ SF_vars(Return(c))
  /\ WF_vars(PollStep)
  /\ WF_vars(TimerStep)
  /\ \A c \in Call : SF_vars(Collect /\ c \in due')

Spec == Init /\ [][Next]_vars /\ Fairness

-----------------------------------------------------------------------------
(* The state has its types; and the map holds calls under their own tags   *)
(* only, none of which was answered: whatever is answered has left it.     *)
TypeOK ==
  /\ looping \in BOOLEAN
  /\ query_id \in Tag
  /\ id \in [Call -> Tag]
  /\ pc \in [Call -> {"new", "store", "call", "register", "returned"}
                       \union Registered]
  /\ outcome \in [Call -> Call \union Failure \union {None}]
  /\ connected \in BOOLEAN
  /\ m_response_handles \in [Tag -> Call \union {None}]
  /\ \A t \in Tag : m_response_handles[t] # None =>
       id[m_response_handles[t]] = t /\ m_state[m_response_handles[t]] # "DONE"
  /\ m_state \in [Call -> {"WAITING", "DONE", "TIME_OUT"}]
  /\ m_buffer \in [Call -> Response \union {None}]
  /\ m_ready \in Tag \union {Empty}
  /\ requests \subseteq Call /\ responses \subseteq Response
  /\ poll \in [at : {"idle", "write", "wake"}, this : Call \union {None},
               holds : Response \union {None}]
  /\ active \subseteq Call /\ due \subseteq Call
  /\ timer \in [at : {"sleep", "fire", "wake", "again"}, this : Call \union {None}]
  /\ faults \subseteq {"torn", "dangling"}

(* A call that returns a response returns its own, unless two calls took   *)
(* one query id: however many call at once, time out, leave their handles  *)
(* in the map and are answered late.                                       *)
OwnResponse ==
  "torn" \notin faults => \A c \in Call : outcome[c] \notin Call \ {c}

(* A caller that wait lets go has a response or a time-out, though it was  *)
(* woken for every other call as well and the flag it was woken by has     *)
(* been overwritten and taken back in between.                             *)
WokenWhenSettled ==
  "torn" \notin faults =>
    \A c \in Call : pc[c] = "check" => m_state[c] # "WAITING"

(* A caller that waits will be woken: its timer runs, or is being fired    *)
(* and will be started again, whatever became of its notifications.  And   *)
(* until its call is settled a response still finds it.                    *)
NobodyIsForgotten ==
  \A c \in Call : pc[c] \in {"wait", "parked"} =>
    /\ c \in active \union due \union {timer.this}
    /\ \/ m_state[c] # "WAITING" \/ "torn" \in faults
       \/ m_response_handles[id[c]] = c \/ poll.this = c

(* Response or time-out: which of the two came first is decided once, and  *)
(* what comes later changes neither the state nor the response.            *)
DecidedOnce ==
  [][\A c \in Call : m_state[c] # "WAITING" =>
       m_state'[c] = m_state[c] /\ m_buffer'[c] = m_buffer[c]]_vars

(* A call that has started its timer returns, unless notifications for     *)
(* other calls overwrite its own for ever.  Handles of calls that timed    *)
(* out do notify for ever: the map keeps them.                             *)
Overwritten(c) == \E d \in Call \ {c} : m_ready = id[d]

WaitingCallReturns ==
  \A c \in Call :
    []<>Overwritten(c) \/ (pc[c] = "wait" ~> pc[c] = "returned")

(* A call comes to its end: the example client calls add two thousand      *)
(* times in a loop and joins the thread that does.                         *)
CallsEnd == \A c \in Call : pc[c] = "register" ~> pc[c] = "returned"
=============================================================================
