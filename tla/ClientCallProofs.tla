-------------------------- MODULE ClientCallProofs ---------------------------
(***************************************************************************)
(* Proofs about ClientCall, for every finite set of calls, whatever the    *)
(* sizes of their responses, with the loop of send_request and without it. *)
(***************************************************************************)
EXTENDS ClientCall, FiniteSetTheorems, TLAPS

Unregistered == {"new", "store", "call", "register"}
Waiters == {"wait", "parked", "check", "returned"}

Stored == {c \in Call : pc[c] \notin {"new", "store"}}

(* The counter is never more than one ahead of the calls that stored it,   *)
(* and neither is a value that a call has loaded and not stored yet.       *)
CounterBound ==
  /\ query_id <= Cardinality(Stored) + 1
  /\ \A c \in Call : pc[c] = "store" => id[c] <= Cardinality(Stored) + 1

(* Query ids differ, and are below the counter, unless an update was lost. *)
IdsDiffer ==
  "torn" \notin faults =>
    \A c \in Stored : id[c] < query_id /\ \A d \in Stored \ {c} : id[d] # id[c]

(* Before it is registered nobody knows of a call.                         *)
NotYetKnown ==
  \A c \in Call : pc[c] \in Unregistered =>
    /\ m_state[c] = "WAITING" /\ m_buffer[c] = None /\ c \notin requests
    /\ \A t \in Tag : m_response_handles[t] # c

(* A response bears the tag of a call that was registered.                 *)
Genuine == {r \in Response : pc[r.call] \notin Unregistered /\ r.tag = id[r.call]}

ResponsesAreGenuine ==
  /\ responses \subseteq Genuine
  /\ \A c \in Call : m_buffer[c] # None =>
       m_buffer[c] \in Genuine /\ m_buffer[c].tag = id[c]

(* The poll thread holds a handle that has left the map, and a response of *)
(* the handle's tag; the handle is DONE when it has been written to.       *)
PollThread ==
  /\ poll.at = "idle" => poll.this = None
  /\ poll.at # "idle" =>
       /\ poll.this \in Call /\ pc[poll.this] \notin Unregistered
       /\ poll.holds \in Genuine /\ poll.holds.tag = id[poll.this]
       /\ \A t \in Tag : m_response_handles[t] # poll.this
       /\ m_state[poll.this] = "DONE" <=> poll.at = "wake"

(* The timer thread fires what it has taken out before it sleeps, and only *)
(* the timers of calls that have started them.                             *)
TimerThread ==
  /\ timer.this = None <=> timer.at \in {"sleep", "fire"}
  /\ timer.at = "sleep" => due = {}
  /\ \A c \in Call : c \in active \union due \union {timer.this} => pc[c] \in Waiters

(* The Condition holds the tag of a call that is settled.                  *)
ReadyMeansSettled ==
  m_ready # Empty => \E c \in Stored : id[c] = m_ready /\ m_state[c] # "WAITING"

(* Until a call is settled a response still finds it: NobodyIsForgotten,   *)
(* from the call's registration on.                                        *)
StillFound ==
  \A c \in Call : pc[c] \in Registered \ {"check"} =>
    \/ m_state[c] # "WAITING" \/ "torn" \in faults
    \/ m_response_handles[id[c]] = c \/ poll.this = c

Waited ==
  \A c \in Call : pc[c] \in {"wait", "parked"} =>
    c \in active \union due \union {timer.this}

Inv ==
  /\ TypeOK /\ CounterBound /\ IdsDiffer /\ NotYetKnown /\ ResponsesAreGenuine
  /\ PollThread /\ TimerThread /\ ReadyMeansSettled /\ StillFound /\ Waited
  /\ OwnResponse /\ WokenWhenSettled

(* None is the name of no call.                                            *)
LEMMA NoCallIsNone == None \notin Call
BY CallAssumption

-----------------------------------------------------------------------------
(* Three actions of a caller, without how its call ends.                   *)

LEMMA CheckMoves ==
  ASSUME NEW c \in Call, CheckConnection(c)
  PROVE  /\ Go(c, "call", "register") \/ Go(c, "call", "returned")
         /\ UNCHANGED <<stub, service, handles, m_ready, network, poll, timers, faults>>
BY Zenon DEF CheckConnection, Ends, Sends, Go

(* What a write to the cache changes.                                      *)
LEMMA WriteMoves ==
  ASSUME NEW c \in Call, Write(c)
  PROVE  /\ \/ Go(c, "write", "start") /\ requests' = requests \union {c}
            \/ Go(c, "write", "returned") /\ UNCHANGED requests
         /\ UNCHANGED <<stub, service, handles, m_ready, responses, poll, timers, faults>>
BY Zenon DEF Write, Ends, Sends, Go

(* What returning from send_request changes.                               *)
LEMMA ReturnMoves ==
  ASSUME NEW c \in Call, Return(c)
  PROVE  /\ Go(c, "check", "returned")
         /\ UNCHANGED <<stub, service, handles, m_ready, network, poll, timers, faults>>
BY DEF Return, Ends, Sends

-----------------------------------------------------------------------------
(* What a step that is no part of query_id++ leaves alone.                 *)
NoIdTaken ==
  /\ UNCHANGED stub
  /\ Stored' = Stored
  /\ \A c \in Call : pc'[c] = "store" <=> pc[c] = "store"
  /\ "torn" \in faults' <=> "torn" \in faults

IdTaken == \E c \in Call : LoadId(c) \/ StoreId(c)

(* Only the two halves of query_id++ touch the counter and the ids.        *)
LEMMA StubOrNot ==
  ASSUME TypeOK, [Next]_vars
  PROVE  IdTaken \/ NoIdTaken
<1> USE NoCallIsNone DEF stub, service, handles, network, timers, TypeOK,
      Stored, NoIdTaken
<1>1. ASSUME NEW c \in Call, LoadId(c) PROVE IdTaken \/ NoIdTaken
  BY <1>1 DEF IdTaken
<1>2. ASSUME NEW c \in Call, StoreId(c) PROVE IdTaken \/ NoIdTaken
  BY <1>2 DEF IdTaken
<1>3. ASSUME NEW c \in Call, CheckConnection(c) PROVE IdTaken \/ NoIdTaken
  BY <1>3, CheckMoves DEF Go
<1>4. ASSUME NEW c \in Call, Register(c) PROVE IdTaken \/ NoIdTaken
  BY <1>4 DEF Register, Go, Sends
<1>5. ASSUME NEW c \in Call, Loop(c) PROVE IdTaken \/ NoIdTaken
  BY <1>5 DEF Loop, Go, Sends
<1>6. ASSUME NEW c \in Call, Write(c) PROVE IdTaken \/ NoIdTaken
  BY <1>6, WriteMoves DEF Go
<1>7. ASSUME NEW c \in Call, StartTimer(c) PROVE IdTaken \/ NoIdTaken
  BY <1>7 DEF StartTimer, Go, Sends
<1>8. ASSUME NEW c \in Call, Wait(c) PROVE IdTaken \/ NoIdTaken
  BY <1>8 DEF Wait, Go, Sends
<1>9. ASSUME NEW c \in Call, Return(c) PROVE IdTaken \/ NoIdTaken
  BY <1>9, ReturnMoves DEF Go
<1>10. ASSUME NEW c \in Call, WakeSpuriously(c) PROVE IdTaken \/ NoIdTaken
  BY <1>10 DEF WakeSpuriously, Go, Sends
<1>11. ASSUME NEW c \in Call, Respond(c) PROVE IdTaken \/ NoIdTaken
  BY <1>11 DEF Respond, Answer
<1>12. ASSUME NEW r \in responses, Receive(r) PROVE IdTaken \/ NoIdTaken
  BY <1>12 DEF Receive, Idle
<1>13. CASE WriteTooLate
  BY <1>13 DEF WriteTooLate, Polls, Idle
<1>14. CASE WriteResponse
  BY <1>14 DEF WriteResponse, Polls
<1>15. CASE WakeByPoll
  BY <1>15 DEF WakeByPoll, Polls, WakeAll, Idle
<1>16. CASE Disconnect
  BY <1>16 DEF Disconnect, Polls
<1>17. CASE Collect
  BY <1>17 DEF Collect, Times
<1>18. ASSUME NEW c \in Call, TimeOut(c) PROVE IdTaken \/ NoIdTaken
  BY <1>18 DEF TimeOut, Notify, Times
<1>19. CASE WakeByTimer
  BY <1>19 DEF WakeByTimer, Times, WakeAll
<1>20. CASE StartAgain
  BY <1>20 DEF StartAgain, Times, NextTimer
<1>21. CASE UNCHANGED vars
  BY <1>21 DEF vars
<1> QED
  BY <1>1, <1>2, <1>3, <1>4, <1>5, <1>6, <1>7, <1>8, <1>9, <1>10, <1>11,
     <1>12, <1>13, <1>14, <1>15, <1>16, <1>17, <1>18, <1>19, <1>20, <1>21
  DEF Next, CallerStep, PollStep, TimerStep

(* A call that is registered stays so, and so does its tag.                *)
LEMMA RegisteredStays ==
  ASSUME TypeOK, [Next]_vars
  PROVE  \A d \in Call : pc[d] \notin Unregistered => pc'[d] \notin Unregistered /\ id'[d] = id[d]
<1> USE NoCallIsNone DEF stub, service, handles, network, timers, TypeOK,
      Unregistered, Registered
<1> DEFINE Kept == \A d \in Call : pc[d] \notin Unregistered => pc'[d] \notin Unregistered /\ id'[d] = id[d]
<1>1. ASSUME NEW c \in Call, LoadId(c) PROVE Kept
  BY <1>1 DEF LoadId, Go
<1>2. ASSUME NEW c \in Call, StoreId(c) PROVE Kept
  BY <1>2 DEF StoreId, Go
<1>3. ASSUME NEW c \in Call, CheckConnection(c) PROVE Kept
  BY <1>3, CheckMoves DEF Go
<1>4. ASSUME NEW c \in Call, Register(c) PROVE Kept
  BY <1>4 DEF Register, Go, Sends
<1>5. ASSUME NEW c \in Call, Loop(c) PROVE Kept
  BY <1>5 DEF Loop, Go, Sends
<1>6. ASSUME NEW c \in Call, Write(c) PROVE Kept
  BY <1>6, WriteMoves DEF Go
<1>7. ASSUME NEW c \in Call, StartTimer(c) PROVE Kept
  BY <1>7 DEF StartTimer, Go, Sends
<1>8. ASSUME NEW c \in Call, Wait(c) PROVE Kept
  BY <1>8 DEF Wait, Go, Sends
<1>9. ASSUME NEW c \in Call, Return(c) PROVE Kept
  BY <1>9, ReturnMoves DEF Go
<1>10. ASSUME NEW c \in Call, WakeSpuriously(c) PROVE Kept
  BY <1>10 DEF WakeSpuriously, Go, Sends
<1>11. ASSUME NEW c \in Call, Respond(c) PROVE Kept
  BY <1>11 DEF Respond, Answer
<1>12. ASSUME NEW r \in responses, Receive(r) PROVE Kept
  BY <1>12 DEF Receive, Idle
<1>13. CASE WriteTooLate
  BY <1>13 DEF WriteTooLate, Polls, Idle
<1>14. CASE WriteResponse
  BY <1>14 DEF WriteResponse, Polls
<1>15. CASE WakeByPoll
  BY <1>15 DEF WakeByPoll, Polls, WakeAll, Idle
<1>16. CASE Disconnect
  BY <1>16 DEF Disconnect, Polls
<1>17. CASE Collect
  BY <1>17 DEF Collect, Times
<1>18. ASSUME NEW c \in Call, TimeOut(c) PROVE Kept
  BY <1>18 DEF TimeOut, Notify, Times
<1>19. CASE WakeByTimer
  BY <1>19 DEF WakeByTimer, Times, WakeAll
<1>20. CASE StartAgain
  BY <1>20 DEF StartAgain, Times, NextTimer
<1>21. CASE UNCHANGED vars
  BY <1>21 DEF vars
<1> QED
  BY <1>1, <1>2, <1>3, <1>4, <1>5, <1>6, <1>7, <1>8, <1>9, <1>10, <1>11,
     <1>12, <1>13, <1>14, <1>15, <1>16, <1>17, <1>18, <1>19, <1>20, <1>21
  DEF Next, CallerStep, PollStep, TimerStep

(* A response that is genuine stays so.                                    *)
LEMMA GenuineStays ==
  ASSUME TypeOK, [Next]_vars
  PROVE  Genuine \subseteq Genuine'
<1>1. \A r \in Response : r.call \in Call
  BY DEF Response
<1>2. Response' = Response
  BY DEF Response, Tag
<1> QED
  BY <1>1, <1>2, RegisteredStays DEF Genuine

(* Who knows of a call.                                                    *)
LEMMA NotYetKnownStep ==
  ASSUME TypeOK, NotYetKnown, PollThread, TimerThread, [Next]_vars
  PROVE  NotYetKnown'
<1> USE NoCallIsNone DEF stub, service, handles, network, timers, TypeOK,
      NotYetKnown, PollThread, TimerThread, Unregistered, Waiters
<1>1. ASSUME NEW c \in Call, LoadId(c) PROVE NotYetKnown'
  BY <1>1 DEF LoadId, Go
<1>2. ASSUME NEW c \in Call, StoreId(c) PROVE NotYetKnown'
  BY <1>2 DEF StoreId, Go
<1>3. ASSUME NEW c \in Call, CheckConnection(c) PROVE NotYetKnown'
  BY <1>3, CheckMoves DEF Go
<1>4. ASSUME NEW c \in Call, Register(c) PROVE NotYetKnown'
  BY <1>4 DEF Register, Go, Sends
<1>5. ASSUME NEW c \in Call, Loop(c) PROVE NotYetKnown'
  BY <1>5 DEF Loop, Go, Sends
<1>6. ASSUME NEW c \in Call, Write(c) PROVE NotYetKnown'
  BY <1>6, WriteMoves DEF Go
<1>7. ASSUME NEW c \in Call, StartTimer(c) PROVE NotYetKnown'
  BY <1>7 DEF StartTimer, Go, Sends
<1>8. ASSUME NEW c \in Call, Wait(c) PROVE NotYetKnown'
  BY <1>8 DEF Wait, Go, Sends
<1>9. ASSUME NEW c \in Call, Return(c) PROVE NotYetKnown'
  BY <1>9, ReturnMoves DEF Go
<1>10. ASSUME NEW c \in Call, WakeSpuriously(c) PROVE NotYetKnown'
  BY <1>10 DEF WakeSpuriously, Go, Sends
<1>11. ASSUME NEW c \in Call, Respond(c) PROVE NotYetKnown'
  BY <1>11 DEF Respond, Answer
<1>12. ASSUME NEW r \in responses, Receive(r) PROVE NotYetKnown'
  BY <1>12 DEF Receive, Idle
<1>13. CASE WriteTooLate
  BY <1>13 DEF WriteTooLate, Polls, Idle
<1>14. CASE WriteResponse
  BY <1>14 DEF WriteResponse, Polls
<1>15. CASE WakeByPoll
  BY <1>15 DEF WakeByPoll, Polls, WakeAll, Idle
<1>16. CASE Disconnect
  BY <1>16 DEF Disconnect, Polls
<1>17. CASE Collect
  BY <1>17 DEF Collect, Times
<1>18. ASSUME NEW c \in Call, TimeOut(c) PROVE NotYetKnown'
  BY <1>18 DEF TimeOut, Notify, Times
<1>19. CASE WakeByTimer
  BY <1>19 DEF WakeByTimer, Times, WakeAll
<1>20. CASE StartAgain
  BY <1>20 DEF StartAgain, Times, NextTimer
<1>21. CASE UNCHANGED vars
  BY <1>21 DEF vars
<1> QED
  BY <1>1, <1>2, <1>3, <1>4, <1>5, <1>6, <1>7, <1>8, <1>9, <1>10, <1>11,
     <1>12, <1>13, <1>14, <1>15, <1>16, <1>17, <1>18, <1>19, <1>20, <1>21
  DEF Next, CallerStep, PollStep, TimerStep

(* The server answers with the tag of the request.                         *)
LEMMA AnswerIsGenuine ==
  ASSUME TypeOK, NotYetKnown, NEW c \in requests, NEW size \in Size[c]
  PROVE  Answer(c, size) \in Genuine
<1>1. c \in Call /\ id[c] \in Tag /\ pc[c] \notin Unregistered
  BY DEF TypeOK, NotYetKnown
<1>2. size \in {"fits", "full", "over"}
  BY <1>1, CallAssumption
<1> QED
  BY <1>1, <1>2 DEF Answer, Genuine, Response

(* Which responses there are.                                              *)
LEMMA GenuineStep ==
  ASSUME TypeOK, NotYetKnown, ResponsesAreGenuine, PollThread, [Next]_vars
  PROVE  ResponsesAreGenuine'
<1> USE NoCallIsNone, GenuineStays, RegisteredStays DEF stub, service,
      handles, network, timers, TypeOK, NotYetKnown, ResponsesAreGenuine,
      PollThread
<1>1. ASSUME NEW c \in Call, LoadId(c) PROVE ResponsesAreGenuine'
  BY <1>1 DEF LoadId, Go
<1>2. ASSUME NEW c \in Call, StoreId(c) PROVE ResponsesAreGenuine'
  BY <1>2 DEF StoreId, Go
<1>3. ASSUME NEW c \in Call, CheckConnection(c) PROVE ResponsesAreGenuine'
  BY <1>3, CheckMoves DEF Go
<1>4. ASSUME NEW c \in Call, Register(c) PROVE ResponsesAreGenuine'
  BY <1>4 DEF Register, Go, Sends
<1>5. ASSUME NEW c \in Call, Loop(c) PROVE ResponsesAreGenuine'
  BY <1>5 DEF Loop, Go, Sends
<1>6. ASSUME NEW c \in Call, Write(c) PROVE ResponsesAreGenuine'
  BY <1>6, WriteMoves DEF Go
<1>7. ASSUME NEW c \in Call, StartTimer(c) PROVE ResponsesAreGenuine'
  BY <1>7 DEF StartTimer, Go, Sends
<1>8. ASSUME NEW c \in Call, Wait(c) PROVE ResponsesAreGenuine'
  BY <1>8 DEF Wait, Go, Sends
<1>9. ASSUME NEW c \in Call, Return(c) PROVE ResponsesAreGenuine'
  BY <1>9, ReturnMoves DEF Go
<1>10. ASSUME NEW c \in Call, WakeSpuriously(c) PROVE ResponsesAreGenuine'
  BY <1>10 DEF WakeSpuriously, Go, Sends
<1>11. ASSUME NEW c \in Call, Respond(c) PROVE ResponsesAreGenuine'
  BY <1>11, AnswerIsGenuine DEF Respond
<1>12. ASSUME NEW r \in responses, Receive(r) PROVE ResponsesAreGenuine'
  BY <1>12 DEF Receive, Idle
<1>13. CASE WriteTooLate
  BY <1>13 DEF WriteTooLate, Polls, Idle
<1>14. CASE WriteResponse
  BY <1>14 DEF WriteResponse, Polls
<1>15. CASE WakeByPoll
  BY <1>15 DEF WakeByPoll, Polls, WakeAll, Idle
<1>16. CASE Disconnect
  BY <1>16 DEF Disconnect, Polls
<1>17. CASE Collect
  BY <1>17 DEF Collect, Times
<1>18. ASSUME NEW c \in Call, TimeOut(c) PROVE ResponsesAreGenuine'
  BY <1>18 DEF TimeOut, Notify, Times
<1>19. CASE WakeByTimer
  BY <1>19 DEF WakeByTimer, Times, WakeAll
<1>20. CASE StartAgain
  BY <1>20 DEF StartAgain, Times, NextTimer
<1>21. CASE UNCHANGED vars
  BY <1>21 DEF vars
<1> QED
  BY <1>1, <1>2, <1>3, <1>4, <1>5, <1>6, <1>7, <1>8, <1>9, <1>10, <1>11,
     <1>12, <1>13, <1>14, <1>15, <1>16, <1>17, <1>18, <1>19, <1>20, <1>21
  DEF Next, CallerStep, PollStep, TimerStep

(* The poll thread.                                                        *)
LEMMA PollStepKeeps ==
  ASSUME TypeOK, NotYetKnown, ResponsesAreGenuine, PollThread, TimerThread,
         [Next]_vars
  PROVE  PollThread'
<1> USE NoCallIsNone, GenuineStays, RegisteredStays DEF stub, service,
      handles, network, timers, TypeOK, NotYetKnown, ResponsesAreGenuine,
      PollThread, TimerThread
<1>1. ASSUME NEW c \in Call, LoadId(c) PROVE PollThread'
  BY <1>1 DEF LoadId, Go
<1>2. ASSUME NEW c \in Call, StoreId(c) PROVE PollThread'
  BY <1>2 DEF StoreId, Go
<1>3. ASSUME NEW c \in Call, CheckConnection(c) PROVE PollThread'
  BY <1>3, CheckMoves DEF Go
<1>4. ASSUME NEW c \in Call, Register(c) PROVE PollThread'
  BY <1>4 DEF Register, Go, Sends, Unregistered
<1>5. ASSUME NEW c \in Call, Loop(c) PROVE PollThread'
  BY <1>5 DEF Loop, Go, Sends
<1>6. ASSUME NEW c \in Call, Write(c) PROVE PollThread'
  BY <1>6, WriteMoves DEF Go
<1>7. ASSUME NEW c \in Call, StartTimer(c) PROVE PollThread'
  BY <1>7 DEF StartTimer, Go, Sends
<1>8. ASSUME NEW c \in Call, Wait(c) PROVE PollThread'
  BY <1>8 DEF Wait, Go, Sends
<1>9. ASSUME NEW c \in Call, Return(c) PROVE PollThread'
  BY <1>9, ReturnMoves DEF Go
<1>10. ASSUME NEW c \in Call, WakeSpuriously(c) PROVE PollThread'
  BY <1>10 DEF WakeSpuriously, Go, Sends
<1>11. ASSUME NEW c \in Call, Respond(c) PROVE PollThread'
  BY <1>11 DEF Respond, Answer
<1>12. ASSUME NEW r \in responses, Receive(r) PROVE PollThread'
  <2> DEFINE c == m_response_handles[r.tag]
  <2>1. r \in Genuine /\ r \in Response /\ r.tag \in Tag
    BY DEF Genuine, Response
  <2>2. CASE c = None
    BY <1>12, <2>2 DEF Receive, Idle
  <2>3. CASE c # None
    <3>1. c \in Call /\ id[c] = r.tag /\ m_state[c] # "DONE" /\ pc[c] \notin Unregistered
      BY <2>1, <2>3
    <3>2. \A t \in Tag : m_response_handles[t] = c => t = r.tag
      BY <3>1
    <3>3. /\ poll' = [at |-> "write", this |-> c, holds |-> r]
          /\ m_response_handles' = [m_response_handles EXCEPT ![r.tag] = None]
          /\ UNCHANGED <<pc, m_state, id>>
      BY <1>12, <2>3 DEF Receive
    <3>4. \A t \in Tag : m_response_handles'[t] # c
      BY <2>1, <3>1, <3>2, <3>3
    <3>5. poll'.at = "write" /\ poll'.this = c /\ poll'.holds = r
      BY <3>3
    <3>6. r \in Genuine'
      BY <2>1
    <3> QED
      BY <3>1, <3>3, <3>4, <3>5, <3>6
  <2> QED
    BY <2>2, <2>3
<1>13. CASE WriteTooLate
  BY <1>13 DEF WriteTooLate, Polls, Idle
<1>14. CASE WriteResponse
  BY <1>14 DEF WriteResponse, Polls
<1>15. CASE WakeByPoll
  BY <1>15 DEF WakeByPoll, Polls, WakeAll, Idle
<1>16. CASE Disconnect
  BY <1>16 DEF Disconnect, Polls
<1>17. CASE Collect
  BY <1>17 DEF Collect, Times
<1>18. ASSUME NEW c \in Call, TimeOut(c) PROVE PollThread'
  BY <1>18 DEF TimeOut, Notify, Times
<1>19. CASE WakeByTimer
  BY <1>19 DEF WakeByTimer, Times, WakeAll
<1>20. CASE StartAgain
  BY <1>20 DEF StartAgain, Times, NextTimer
<1>21. CASE UNCHANGED vars
  BY <1>21 DEF vars
<1> QED
  BY <1>1, <1>2, <1>3, <1>4, <1>5, <1>6, <1>7, <1>8, <1>9, <1>10, <1>11,
     <1>12, <1>13, <1>14, <1>15, <1>16, <1>17, <1>18, <1>19, <1>20, <1>21
  DEF Next, CallerStep, PollStep, TimerStep

(* The timers and those that wait for them.                                *)
LEMMA TimersStep ==
  ASSUME TypeOK, TimerThread, Waited, [Next]_vars
  PROVE  TimerThread' /\ Waited'
<1> USE NoCallIsNone DEF stub, service, handles, network, timers, TypeOK,
      TimerThread, Waited, Waiters, Registered, Exists
<1>1. ASSUME NEW c \in Call, LoadId(c) PROVE TimerThread' /\ Waited'
  BY <1>1 DEF LoadId, Go
<1>2. ASSUME NEW c \in Call, StoreId(c) PROVE TimerThread' /\ Waited'
  BY <1>2 DEF StoreId, Go
<1>3. ASSUME NEW c \in Call, CheckConnection(c) PROVE TimerThread' /\ Waited'
  BY <1>3, CheckMoves DEF Go
<1>4. ASSUME NEW c \in Call, Register(c) PROVE TimerThread' /\ Waited'
  BY <1>4 DEF Register, Go, Sends
<1>5. ASSUME NEW c \in Call, Loop(c) PROVE TimerThread' /\ Waited'
  BY <1>5 DEF Loop, Go, Sends
<1>6. ASSUME NEW c \in Call, Write(c) PROVE TimerThread' /\ Waited'
  BY <1>6, WriteMoves DEF Go
<1>7. ASSUME NEW c \in Call, StartTimer(c) PROVE TimerThread' /\ Waited'
  BY <1>7 DEF StartTimer, Go, Sends
<1>8. ASSUME NEW c \in Call, Wait(c) PROVE TimerThread' /\ Waited'
  BY <1>8 DEF Wait, Go, Sends
<1>9. ASSUME NEW c \in Call, Return(c) PROVE TimerThread' /\ Waited'
  BY <1>9, ReturnMoves DEF Go
<1>10. ASSUME NEW c \in Call, WakeSpuriously(c) PROVE TimerThread' /\ Waited'
  BY <1>10 DEF WakeSpuriously, Go, Sends
<1>11. ASSUME NEW c \in Call, Respond(c) PROVE TimerThread' /\ Waited'
  BY <1>11 DEF Respond, Answer
<1>12. ASSUME NEW r \in responses, Receive(r) PROVE TimerThread' /\ Waited'
  BY <1>12 DEF Receive, Idle
<1>13. CASE WriteTooLate
  BY <1>13 DEF WriteTooLate, Polls, Idle
<1>14. CASE WriteResponse
  BY <1>14 DEF WriteResponse, Polls
<1>15. CASE WakeByPoll
  BY <1>15 DEF WakeByPoll, Polls, WakeAll, Idle
<1>16. CASE Disconnect
  BY <1>16 DEF Disconnect, Polls
<1>17. CASE Collect
  BY <1>17 DEF Collect, Times
<1>18. ASSUME NEW c \in Call, TimeOut(c) PROVE TimerThread' /\ Waited'
  BY <1>18 DEF TimeOut, Notify, Times
<1>19. CASE WakeByTimer
  BY <1>19 DEF WakeByTimer, Times, WakeAll
<1>20. CASE StartAgain
  BY <1>20 DEF StartAgain, Times, NextTimer
<1>21. CASE UNCHANGED vars
  BY <1>21 DEF vars
<1> QED
  BY <1>1, <1>2, <1>3, <1>4, <1>5, <1>6, <1>7, <1>8, <1>9, <1>10, <1>11,
     <1>12, <1>13, <1>14, <1>15, <1>16, <1>17, <1>18, <1>19, <1>20, <1>21
  DEF Next, CallerStep, PollStep, TimerStep

(* A call that is not settled is in the map, or in the poll thread's hands.*)
LEMMA FoundStep ==
  ASSUME TypeOK, IdsDiffer, PollThread, StillFound, [Next]_vars
  PROVE  StillFound'
<1> USE NoCallIsNone DEF stub, service, handles, network, timers, TypeOK,
      IdsDiffer, Stored, PollThread, StillFound, Unregistered, Registered
<1>1. ASSUME NEW c \in Call, LoadId(c) PROVE StillFound'
  BY <1>1 DEF LoadId, Go
<1>2. ASSUME NEW c \in Call, StoreId(c) PROVE StillFound'
  BY <1>2 DEF StoreId, Go
<1>3. ASSUME NEW c \in Call, CheckConnection(c) PROVE StillFound'
  BY <1>3, CheckMoves DEF Go
<1>4. ASSUME NEW c \in Call, Register(c) PROVE StillFound'
  BY <1>4 DEF Register, Go, Sends
<1>5. ASSUME NEW c \in Call, Loop(c) PROVE StillFound'
  BY <1>5 DEF Loop, Go, Sends
<1>6. ASSUME NEW c \in Call, Write(c) PROVE StillFound'
  BY <1>6, WriteMoves DEF Go
<1>7. ASSUME NEW c \in Call, StartTimer(c) PROVE StillFound'
  BY <1>7 DEF StartTimer, Go, Sends
<1>8. ASSUME NEW c \in Call, Wait(c) PROVE StillFound'
  BY <1>8 DEF Wait, Go, Sends
<1>9. ASSUME NEW c \in Call, Return(c) PROVE StillFound'
  BY <1>9, ReturnMoves DEF Go
<1>10. ASSUME NEW c \in Call, WakeSpuriously(c) PROVE StillFound'
  BY <1>10 DEF WakeSpuriously, Go, Sends
<1>11. ASSUME NEW c \in Call, Respond(c) PROVE StillFound'
  BY <1>11 DEF Respond, Answer
<1>12. ASSUME NEW r \in responses, Receive(r) PROVE StillFound'
  BY <1>12 DEF Receive, Idle
<1>13. CASE WriteTooLate
  BY <1>13 DEF WriteTooLate, Polls, Idle
<1>14. CASE WriteResponse
  BY <1>14 DEF WriteResponse, Polls
<1>15. CASE WakeByPoll
  BY <1>15 DEF WakeByPoll, Polls, WakeAll, Idle
<1>16. CASE Disconnect
  BY <1>16 DEF Disconnect, Polls
<1>17. CASE Collect
  BY <1>17 DEF Collect, Times
<1>18. ASSUME NEW c \in Call, TimeOut(c) PROVE StillFound'
  BY <1>18 DEF TimeOut, Notify, Times
<1>19. CASE WakeByTimer
  BY <1>19 DEF WakeByTimer, Times, WakeAll
<1>20. CASE StartAgain
  BY <1>20 DEF StartAgain, Times, NextTimer
<1>21. CASE UNCHANGED vars
  BY <1>21 DEF vars
<1> QED
  BY <1>1, <1>2, <1>3, <1>4, <1>5, <1>6, <1>7, <1>8, <1>9, <1>10, <1>11,
     <1>12, <1>13, <1>14, <1>15, <1>16, <1>17, <1>18, <1>19, <1>20, <1>21
  DEF Next, CallerStep, PollStep, TimerStep

(* The tag in the Condition, and those it lets go.                         *)
LEMMA SettledStep ==
  ASSUME TypeOK, IdsDiffer, PollThread, TimerThread, ReadyMeansSettled,
         WokenWhenSettled, [Next]_vars
  PROVE  ReadyMeansSettled' /\ WokenWhenSettled'
<1> USE NoCallIsNone DEF stub, service, handles, network, timers, TypeOK,
      IdsDiffer, Stored, PollThread, TimerThread, ReadyMeansSettled,
      WokenWhenSettled, Unregistered, Waiters
<1> DEFINE Kept == ReadyMeansSettled' /\ WokenWhenSettled'
<1>1. ASSUME NEW c \in Call, LoadId(c) PROVE Kept
  BY <1>1 DEF LoadId, Go
<1>2. ASSUME NEW c \in Call, StoreId(c) PROVE Kept
  BY <1>2 DEF StoreId, Go
<1>3. ASSUME NEW c \in Call, CheckConnection(c) PROVE Kept
  BY <1>3, CheckMoves DEF Go
<1>4. ASSUME NEW c \in Call, Register(c) PROVE Kept
  BY <1>4 DEF Register, Go, Sends
<1>5. ASSUME NEW c \in Call, Loop(c) PROVE Kept
  BY <1>5 DEF Loop, Go, Sends
<1>6. ASSUME NEW c \in Call, Write(c) PROVE Kept
  BY <1>6, WriteMoves DEF Go
<1>7. ASSUME NEW c \in Call, StartTimer(c) PROVE Kept
  BY <1>7 DEF StartTimer, Go, Sends
<1>8. ASSUME NEW c \in Call, Wait(c) PROVE Kept
  <2>1. CASE m_ready = id[c]
    <3>1. m_ready # Empty /\ c \in Stored
      BY <1>8, <2>1 DEF Wait, Go, Empty, Tag
    <3>2. PICK d \in Stored : id[d] = m_ready /\ m_state[d] # "WAITING"
      BY <3>1
    <3>3. "torn" \in faults \/ c = d
      BY <2>1, <3>1, <3>2
    <3> QED
      BY <1>8, <2>1, <3>2, <3>3 DEF Wait, Go, Sends
  <2>2. CASE m_ready # id[c]
    BY <1>8, <2>2 DEF Wait, Go, Sends
  <2> QED
    BY <2>1, <2>2
<1>9. ASSUME NEW c \in Call, Return(c) PROVE Kept
  BY <1>9, ReturnMoves DEF Go
<1>10. ASSUME NEW c \in Call, WakeSpuriously(c) PROVE Kept
  BY <1>10 DEF WakeSpuriously, Go, Sends
<1>11. ASSUME NEW c \in Call, Respond(c) PROVE Kept
  BY <1>11 DEF Respond, Answer
<1>12. ASSUME NEW r \in responses, Receive(r) PROVE Kept
  BY <1>12 DEF Receive, Idle
<1>13. CASE WriteTooLate
  BY <1>13 DEF WriteTooLate, Polls, Idle
<1>14. CASE WriteResponse
  BY <1>14 DEF WriteResponse, Polls
<1>15. CASE WakeByPoll
  BY <1>15 DEF WakeByPoll, Polls, WakeAll, Idle
<1>16. CASE Disconnect
  BY <1>16 DEF Disconnect, Polls
<1>17. CASE Collect
  BY <1>17 DEF Collect, Times
<1>18. ASSUME NEW c \in Call, TimeOut(c) PROVE Kept
  BY <1>18 DEF TimeOut, Notify, Times
<1>19. CASE WakeByTimer
  BY <1>19 DEF WakeByTimer, Times, WakeAll
<1>20. CASE StartAgain
  BY <1>20 DEF StartAgain, Times, NextTimer
<1>21. CASE UNCHANGED vars
  BY <1>21 DEF vars
<1> QED
  BY <1>1, <1>2, <1>3, <1>4, <1>5, <1>6, <1>7, <1>8, <1>9, <1>10, <1>11,
     <1>12, <1>13, <1>14, <1>15, <1>16, <1>17, <1>18, <1>19, <1>20, <1>21
  DEF Next, CallerStep, PollStep, TimerStep

-----------------------------------------------------------------------------
(* The counter.                                                            *)

LEMMA StoredCounted ==
  /\ IsFiniteSet(Stored) /\ Cardinality(Stored) \in Nat
  /\ \A c \in Call \ Stored :
       /\ Cardinality(Stored \union {c}) = Cardinality(Stored) + 1
       /\ Cardinality(Stored) + 1 <= Cardinality(Call)
<1>1. Stored \subseteq Call /\ IsFiniteSet(Call)
  BY CallAssumption DEF Stored
<1>2. IsFiniteSet(Stored) /\ Cardinality(Stored) \in Nat
  BY <1>1, FS_Subset, FS_CardinalityType
<1>3. ASSUME NEW c \in Call \ Stored
      PROVE  /\ Cardinality(Stored \union {c}) = Cardinality(Stored) + 1
             /\ Cardinality(Stored) + 1 <= Cardinality(Call)
  <2>1. Cardinality(Stored \union {c}) = Cardinality(Stored) + 1
    BY <1>2, FS_AddElement
  <2>2. Cardinality(Stored \union {c}) <= Cardinality(Call)
    BY <1>1, FS_Subset
  <2> QED
    BY <2>1, <2>2
<1> QED
  BY <1>2, <1>3

(* The counter stays within the tags: a stored id is one a call loaded.    *)
LEMMA NextIdIsTag ==
  ASSUME TypeOK, CounterBound, NEW c \in Call, pc[c] = "store"
  PROVE  id[c] + 1 \in Tag
<1> DEFINE n == Cardinality(Stored)
           k == Cardinality(Call)
<1>1. c \in Call \ Stored
  BY DEF Stored
<1>2. n \in Nat /\ k \in Nat /\ n + 1 <= k
  BY <1>1, StoredCounted, CallAssumption, FS_CardinalityType
<1>3. id[c] \in 1..(k + 1) /\ id[c] <= n + 1
  BY DEF TypeOK, Tag, CounterBound
<1> HIDE DEF n, k
<1>4. id[c] + 1 \in 1..(k + 1)
  BY <1>2, <1>3
<1> QED
  BY <1>4 DEF Tag, k

(* Every step keeps the counter in its bound and the ids apart.            *)
LEMMA CounterStep ==
  ASSUME TypeOK, CounterBound, IdsDiffer, [Next]_vars
  PROVE  CounterBound' /\ IdsDiffer'
<1>1. CASE NoIdTaken
  BY <1>1 DEF NoIdTaken, stub, CounterBound, IdsDiffer, Stored
<1>2. ASSUME NEW c \in Call, LoadId(c) PROVE CounterBound' /\ IdsDiffer'
  <2>1. /\ pc[c] = "new" /\ pc' = [pc EXCEPT ![c] = "store"]
        /\ id' = [id EXCEPT ![c] = query_id]
        /\ UNCHANGED <<query_id, faults>>
    BY <1>2 DEF LoadId, Go
  <2>2. Stored' = Stored /\ c \notin Stored
    BY <2>1 DEF Stored, TypeOK
  <2>3. \A d \in Call \ {c} : pc'[d] = pc[d] /\ id'[d] = id[d]
    BY <2>1 DEF TypeOK
  <2>4. id'[c] = query_id
    BY <2>1 DEF TypeOK
  <2>5. Stored \subseteq Call
    BY DEF Stored
  <2> QED
    BY <2>1, <2>2, <2>3, <2>4, <2>5 DEF CounterBound, IdsDiffer
<1>3. ASSUME NEW c \in Call, StoreId(c) PROVE CounterBound' /\ IdsDiffer'
  <2> DEFINE n == Cardinality(Stored)
  <2>1. /\ pc[c] = "store" /\ pc' = [pc EXCEPT ![c] = "call"]
        /\ query_id' = id[c] + 1 /\ UNCHANGED id
        /\ "torn" \notin faults' => "torn" \notin faults /\ query_id = id[c]
    BY <1>3 DEF StoreId, Go
  <2>2. Stored' = Stored \union {c} /\ c \in Call \ Stored /\ Stored \subseteq Call
    BY <2>1 DEF Stored, TypeOK
  <2>3. n \in Nat /\ Cardinality(Stored') = n + 1
    BY <2>2, StoredCounted
  <2>4. /\ id \in [Call -> Nat] /\ query_id \in Nat
        /\ \A d \in Call \ {c} : pc'[d] = pc[d]
        /\ pc'[c] = "call"
    <3>1. Tag \subseteq Nat
      BY DEF Tag
    <3> QED
      BY ZenonT(60), <2>1, <3>1 DEF TypeOK
  <2>5. id[c] <= n + 1 /\ \A d \in Call : pc[d] = "store" => id[d] <= n + 1
    BY <2>1 DEF CounterBound
  <2> HIDE DEF n
  <2>6. CounterBound'
    BY <2>1, <2>3, <2>4, <2>5 DEF CounterBound
  <2>7. IdsDiffer'
    BY <2>1, <2>2, <2>4 DEF IdsDiffer
  <2> QED
    BY <2>6, <2>7
<1> QED
  BY <1>1, <1>2, <1>3, StubOrNot DEF IdTaken

-----------------------------------------------------------------------------
(* Types and results.                                                      *)

(* How a call may end.                                                     *)
LEMMA HowItEnds ==
  ASSUME NEW c \in Call, CheckConnection(c) \/ Write(c) \/ Return(c)
  PROVE  \/ outcome' = outcome
         \/ \E how \in Failure : outcome' = [outcome EXCEPT ![c] = how]
         \/ m_buffer[c] # None /\ outcome' = [outcome EXCEPT ![c] = m_buffer[c].call]
<1>1. CASE CheckConnection(c)
  BY <1>1, Zenon DEF CheckConnection, Ends, Failure
<1>2. CASE Write(c)
  BY <1>2, Zenon DEF Write, Ends, Failure
<1>3. CASE Return(c)
  <2>1. Result(c) \in Failure \/ (m_buffer[c] # None /\ Result(c) = m_buffer[c].call)
    BY Zenon DEF Result, Failure
  <2>2. outcome' = [outcome EXCEPT ![c] = Result(c)]
    BY <1>3 DEF Return, Ends
  <2> QED
    BY <2>1, <2>2
<1> QED
  BY <1>1, <1>2, <1>3

(* An outcome is a response, a failure, or not known yet.                  *)
LEMMA OutcomeTyped ==
  ASSUME TypeOK, NEW c \in Call, CheckConnection(c) \/ Write(c) \/ Return(c)
  PROVE  outcome' \in [Call -> Call \union Failure \union {None}]
<1>1. outcome \in [Call -> Call \union Failure \union {None}]
  BY DEF TypeOK
<1>2. m_buffer[c] # None => m_buffer[c].call \in Call
  BY DEF TypeOK, Response
<1> QED
  BY <1>1, <1>2, HowItEnds

(* A step that ends a call, typed but for its result.                      *)
LEMMA EndTyped ==
  ASSUME TypeOK,
         outcome' \in [Call -> Call \union Failure \union {None}],
         pc' \in [Call -> {"new", "store", "call", "register", "returned"}
                            \union Registered],
         requests' \subseteq Call,
         UNCHANGED <<stub, service, handles, m_ready, responses, poll, timers, faults>>
  PROVE  TypeOK'
<1> Response' = Response /\ Tag' = Tag
  BY Zenon DEF Response, Tag
<1> QED
  BY ZenonT(60) DEF TypeOK, stub, service, handles, timers, Registered

(* A step keeps the types.                                                 *)
LEMMA TypeStep ==
  ASSUME TypeOK, CounterBound, NotYetKnown, ResponsesAreGenuine, PollThread,
         TimerThread, [Next]_vars
  PROVE  TypeOK'
<1> USE NoCallIsNone DEF stub, service, handles, network, timers, TypeOK,
      NotYetKnown, PollThread, TimerThread, Unregistered, Registered
<1>1. ASSUME NEW c \in Call, LoadId(c) PROVE TypeOK'
  BY <1>1 DEF LoadId, Go
<1>2. ASSUME NEW c \in Call, StoreId(c) PROVE TypeOK'
  BY <1>2, NextIdIsTag DEF StoreId, Go
<1>3. ASSUME NEW c \in Call, CheckConnection(c) PROVE TypeOK'
  <2>1. outcome' \in [Call -> Call \union Failure \union {None}]
    <3>1. CheckConnection(c) \/ Write(c) \/ Return(c)
      BY <1>3
    <3> HIDE DEF TypeOK
    <3> QED
      BY <3>1, OutcomeTyped
  <2>2. pc' \in [Call -> {"new", "store", "call", "register", "returned"}
                             \union Registered]
    BY <1>3, CheckMoves DEF Go
  <2>3. /\ requests' \subseteq Call
        /\ UNCHANGED <<stub, service, handles, m_ready, responses, poll, timers, faults>>
    BY <1>3, CheckMoves
  <2> HIDE DEF TypeOK, Registered, stub, service, handles, timers
  <2> QED
    BY <2>1, <2>2, <2>3, EndTyped
<1>4. ASSUME NEW c \in Call, Register(c) PROVE TypeOK'
  BY <1>4 DEF Register, Go, Sends
<1>5. ASSUME NEW c \in Call, Loop(c) PROVE TypeOK'
  BY <1>5 DEF Loop, Go, Sends
<1>6. ASSUME NEW c \in Call, Write(c) PROVE TypeOK'
  <2>1. outcome' \in [Call -> Call \union Failure \union {None}]
    <3>1. CheckConnection(c) \/ Write(c) \/ Return(c)
      BY <1>6
    <3> HIDE DEF TypeOK
    <3> QED
      BY <3>1, OutcomeTyped
  <2>2. pc' \in [Call -> {"new", "store", "call", "register", "returned"}
                             \union Registered]
    BY <1>6, WriteMoves DEF Go
  <2>3. /\ requests' \subseteq Call
        /\ UNCHANGED <<stub, service, handles, m_ready, responses, poll, timers, faults>>
    BY <1>6, WriteMoves
  <2> HIDE DEF TypeOK, Registered, stub, service, handles, timers
  <2> QED
    BY <2>1, <2>2, <2>3, EndTyped
<1>7. ASSUME NEW c \in Call, StartTimer(c) PROVE TypeOK'
  BY <1>7 DEF StartTimer, Go, Sends
<1>8. ASSUME NEW c \in Call, Wait(c) PROVE TypeOK'
  BY <1>8 DEF Wait, Go, Sends
<1>9. ASSUME NEW c \in Call, Return(c) PROVE TypeOK'
  <2>1. outcome' \in [Call -> Call \union Failure \union {None}]
    <3>1. CheckConnection(c) \/ Write(c) \/ Return(c)
      BY <1>9
    <3> HIDE DEF TypeOK
    <3> QED
      BY <3>1, OutcomeTyped
  <2>2. pc' \in [Call -> {"new", "store", "call", "register", "returned"}
                             \union Registered]
    BY <1>9, ReturnMoves DEF Go
  <2>3. /\ requests' \subseteq Call
        /\ UNCHANGED <<stub, service, handles, m_ready, responses, poll, timers, faults>>
    BY <1>9, ReturnMoves
  <2> HIDE DEF TypeOK, Registered, stub, service, handles, timers
  <2> QED
    BY <2>1, <2>2, <2>3, EndTyped
<1>10. ASSUME NEW c \in Call, WakeSpuriously(c) PROVE TypeOK'
  BY <1>10 DEF WakeSpuriously, Go, Sends
<1>11. ASSUME NEW c \in Call, Respond(c) PROVE TypeOK'
  <2>1. Genuine \subseteq Response
    BY DEF Genuine
  <2>2. responses' \subseteq Response /\ requests' \subseteq Call
    BY <1>11, <2>1, AnswerIsGenuine DEF Respond
  <2> QED
    BY <1>11, <2>2 DEF Respond
<1>12. ASSUME NEW r \in responses, Receive(r) PROVE TypeOK'
  <2> DEFINE c == m_response_handles[r.tag]
  <2>1. r \in Response /\ r.tag \in Tag /\ c \in Call \union {None}
    BY DEF Response
  <2>2. poll' \in [at : {"idle", "write", "wake"}, this : Call \union {None},
                   holds : Response \union {None}]
    BY <1>12, <2>1 DEF Receive, Idle
  <2>3. m_response_handles' = [m_response_handles EXCEPT ![r.tag] = None]
    BY <1>12 DEF Receive
  <2> QED
    BY <1>12, <2>1, <2>2, <2>3 DEF Receive
<1>13. CASE WriteTooLate
  BY <1>13 DEF WriteTooLate, Polls, Idle
<1>14. CASE WriteResponse
  BY <1>14 DEF WriteResponse, Polls
<1>15. CASE WakeByPoll
  BY <1>15 DEF WakeByPoll, Polls, WakeAll, Idle
<1>16. CASE Disconnect
  BY <1>16 DEF Disconnect, Polls
<1>17. CASE Collect
  BY <1>17 DEF Collect, Times
<1>18. ASSUME NEW c \in Call, TimeOut(c) PROVE TypeOK'
  BY <1>18 DEF TimeOut, Notify, Times
<1>19. CASE WakeByTimer
  BY <1>19 DEF WakeByTimer, Times, WakeAll
<1>20. CASE StartAgain
  BY <1>20 DEF StartAgain, Times, NextTimer
<1>21. CASE UNCHANGED vars
  BY <1>21 DEF vars
<1> QED
  BY <1>1, <1>2, <1>3, <1>4, <1>5, <1>6, <1>7, <1>8, <1>9, <1>10, <1>11,
     <1>12, <1>13, <1>14, <1>15, <1>16, <1>17, <1>18, <1>19, <1>20, <1>21
  DEF Next, CallerStep, PollStep, TimerStep

(* A fault is never forgotten.                                             *)
LEMMA FaultsStay ==
  ASSUME TypeOK, [Next]_vars
  PROVE  "torn" \in faults => "torn" \in faults'
<1>1. CASE NoIdTaken
  BY <1>1 DEF NoIdTaken
<1>2. CASE IdTaken
  BY <1>2 DEF IdTaken, LoadId, StoreId
<1> QED
  BY <1>1, <1>2, StubOrNot

(* Three actions end a call.                                               *)
LEMMA OnlyThreeEnd ==
  ASSUME [Next]_vars
  PROVE  \/ UNCHANGED outcome
         \/ \E c \in Call : CheckConnection(c) \/ Write(c) \/ Return(c)
BY Zenon DEF Next, vars, CallerStep, PollStep, TimerStep, LoadId, StoreId,
  Register, Loop, StartTimer, Wait, WakeSpuriously, Respond, Receive,
  WriteTooLate, WriteResponse, WakeByPoll, Disconnect, Collect, TimeOut, Notify,
  WakeByTimer, StartAgain, Times, Polls

(* Who returned what: only three actions end a call.                       *)
LEMMA OwnStep ==
  ASSUME TypeOK, IdsDiffer, NotYetKnown, ResponsesAreGenuine, OwnResponse,
         [Next]_vars
  PROVE  OwnResponse'
<1>1. "torn" \notin faults' => "torn" \notin faults
  BY FaultsStay
<1>2. CASE UNCHANGED outcome
  BY <1>1, <1>2 DEF OwnResponse
<1>3. ASSUME NEW c \in Call, CheckConnection(c) \/ Write(c) \/ Return(c)
      PROVE  OwnResponse'
  <2>1. ASSUME NEW how, outcome' = [outcome EXCEPT ![c] = how],
               "torn" \notin faults => how \notin Call \ {c}
        PROVE  OwnResponse'
    BY <1>1, <2>1 DEF OwnResponse, TypeOK
  <2>2. ASSUME NEW how \in Failure PROVE how \notin Call
    BY CallAssumption
  <2>3. ASSUME m_buffer[c] # None, "torn" \notin faults
        PROVE  m_buffer[c].call = c
    <3>1. /\ m_buffer[c] \in Response /\ m_buffer[c].tag = id[c]
          /\ pc[m_buffer[c].call] \notin Unregistered
          /\ m_buffer[c].tag = id[m_buffer[c].call]
      BY <2>3 DEF ResponsesAreGenuine, Genuine
    <3>2. m_buffer[c].call \in Call
      BY <3>1 DEF Response
    <3>3. pc[c] \notin Unregistered
      BY <2>3 DEF NotYetKnown
    <3>4. c \in Stored /\ m_buffer[c].call \in Stored
      BY <3>1, <3>2, <3>3 DEF Stored, Unregistered
    <3> QED
      BY <2>3, <3>1, <3>4 DEF IdsDiffer
  <2> QED
    BY <1>2, <1>3, <2>1, <2>2, <2>3, HowItEnds
<1> QED
  BY <1>2, <1>3, OnlyThreeEnd

-----------------------------------------------------------------------------
(* The invariant.                                                          *)

LEMMA InitInv ==
  ASSUME Init
  PROVE  Inv
<1>1. Stored = {} /\ Cardinality(Stored) = 0
  <2>1. Stored = {}
    BY DEF Init, Stored
  <2> QED
    BY <2>1, FS_EmptySet
<1>2. 1 \in Tag
  BY CallAssumption, FS_CardinalityType DEF Tag
<1>3. TypeOK
  <2>1. looping \in BOOLEAN /\ connected \in BOOLEAN
    BY CallAssumption, Zenon DEF Init
  <2>2. outcome \in [Call -> Call \union Failure \union {None}]
    BY DEF Init
  <2> QED
    BY <1>2, <2>1, <2>2 DEF Init, TypeOK, Idle, Registered
<1>4. CounterBound /\ IdsDiffer
  BY <1>1 DEF Init, CounterBound, IdsDiffer
<1>5. NotYetKnown /\ ResponsesAreGenuine /\ PollThread /\ TimerThread
  BY NoCallIsNone DEF Init, NotYetKnown, ResponsesAreGenuine, PollThread,
       TimerThread, Idle
<1>6. ReadyMeansSettled /\ StillFound /\ Waited /\ WokenWhenSettled
  BY DEF Init, ReadyMeansSettled, StillFound, Waited, WokenWhenSettled, Registered
<1>7. OwnResponse
  BY NoCallIsNone DEF Init, OwnResponse
<1> QED
  BY <1>3, <1>4, <1>5, <1>6, <1>7 DEF Inv

(* Every step keeps the invariant.                                         *)
LEMMA StepInv ==
  ASSUME Inv, [Next]_vars
  PROVE  Inv'
<1> USE DEF Inv
<1>1. TypeOK'
  BY TypeStep
<1>2. CounterBound' /\ IdsDiffer'
  BY CounterStep
<1>3. NotYetKnown' /\ ResponsesAreGenuine'
  BY NotYetKnownStep, GenuineStep
<1>4. PollThread' /\ TimerThread' /\ Waited'
  BY PollStepKeeps, TimersStep
<1>5. StillFound' /\ ReadyMeansSettled' /\ WokenWhenSettled'
  BY FoundStep, SettledStep
<1>6. OwnResponse'
  BY OwnStep
<1> QED
  BY <1>1, <1>2, <1>3, <1>4, <1>5, <1>6

(* The invariant holds in every state.                                     *)
LEMMA Invariance == Spec => []Inv
<1>1. Init => Inv
  BY InitInv
<1>2. Inv /\ [Next]_vars => Inv'
  BY StepInv
<1> QED
  BY <1>1, <1>2, PTL DEF Spec

(* The state of a call has its types, and the map holds calls under their  *)
(* own tags, none of which was answered.                                   *)
THEOREM TypeCorrect == Spec => []TypeOK
<1>1. Inv => TypeOK
  BY DEF Inv
<1> QED
  BY <1>1, Invariance, PTL

(* Unless two stubs took one query id, a caller of send_request gets the   *)
(* response to its own request or none, however late the others come.      *)
THEOREM ResponseIsOwn == Spec => []OwnResponse
<1>1. Inv => OwnResponse
  BY DEF Inv
<1> QED
  BY <1>1, Invariance, PTL

(* A caller that Condition::wait lets go has a response or a time-out.     *)
THEOREM LetGoWhenSettled == Spec => []WokenWhenSettled
<1>1. Inv => WokenWhenSettled
  BY DEF Inv
<1> QED
  BY <1>1, Invariance, PTL

(* A caller that waits has a timer that will wake it, and a response finds *)
(* its handle until the call is settled.                                   *)
THEOREM WaitersAreReached == Spec => []NobodyIsForgotten
<1>1. Inv => NobodyIsForgotten
  BY DEF Inv, NobodyIsForgotten, StillFound, Waited, Registered
<1> QED
  BY <1>1, Invariance, PTL

(* A step leaves a call that is settled as it is: the handle's state and   *)
(* the response it has copied.                                             *)
LEMMA SettledStays ==
  ASSUME TypeOK, NotYetKnown, PollThread, [Next]_vars
  PROVE  \A d \in Call : m_state[d] # "WAITING" =>
           m_state'[d] = m_state[d] /\ m_buffer'[d] = m_buffer[d]
<1> USE NoCallIsNone DEF stub, service, handles, network, timers, TypeOK
<1> DEFINE Kept == \A d \in Call : m_state[d] # "WAITING" =>
                     m_state'[d] = m_state[d] /\ m_buffer'[d] = m_buffer[d]
<1>1. ASSUME NEW c \in Call, LoadId(c) PROVE Kept
  BY <1>1 DEF LoadId, Go
<1>2. ASSUME NEW c \in Call, StoreId(c) PROVE Kept
  BY <1>2 DEF StoreId, Go
<1>3. ASSUME NEW c \in Call, CheckConnection(c) PROVE Kept
  BY <1>3, CheckMoves DEF Go
<1>4. ASSUME NEW c \in Call, Register(c) PROVE Kept
  BY <1>4 DEF Register, Go, Sends
<1>5. ASSUME NEW c \in Call, Loop(c) PROVE Kept
  BY <1>5 DEF Loop, Go, Sends
<1>6. ASSUME NEW c \in Call, Write(c) PROVE Kept
  BY <1>6, WriteMoves DEF Go
<1>7. ASSUME NEW c \in Call, StartTimer(c) PROVE Kept
  BY <1>7 DEF StartTimer, Go, Sends
<1>8. ASSUME NEW c \in Call, Wait(c) PROVE Kept
  BY <1>8 DEF Wait, Go, Sends
<1>9. ASSUME NEW c \in Call, Return(c) PROVE Kept
  BY <1>9, ReturnMoves DEF Go
<1>10. ASSUME NEW c \in Call, WakeSpuriously(c) PROVE Kept
  BY <1>10 DEF WakeSpuriously, Go, Sends
<1>11. ASSUME NEW c \in Call, Respond(c) PROVE Kept
  BY <1>11 DEF Respond, Answer
<1>12. ASSUME NEW r \in responses, Receive(r) PROVE Kept
  BY <1>12 DEF Receive, Idle
<1>13. CASE WriteTooLate
  BY <1>13 DEF WriteTooLate, Polls, Idle
<1>14. CASE WriteResponse
  BY <1>14 DEF WriteResponse, Polls, PollThread
<1>15. CASE WakeByPoll
  BY <1>15 DEF WakeByPoll, Polls, WakeAll, Idle
<1>16. CASE Disconnect
  BY <1>16 DEF Disconnect, Polls
<1>17. CASE Collect
  BY <1>17 DEF Collect, Times
<1>18. ASSUME NEW c \in Call, TimeOut(c) PROVE Kept
  BY <1>18 DEF TimeOut, Notify, Times
<1>19. CASE WakeByTimer
  BY <1>19 DEF WakeByTimer, Times, WakeAll
<1>20. CASE StartAgain
  BY <1>20 DEF StartAgain, Times, NextTimer
<1>21. CASE UNCHANGED vars
  BY <1>21 DEF vars
<1> QED
  BY <1>1, <1>2, <1>3, <1>4, <1>5, <1>6, <1>7, <1>8, <1>9, <1>10, <1>11,
     <1>12, <1>13, <1>14, <1>15, <1>16, <1>17, <1>18, <1>19, <1>20, <1>21
  DEF Next, CallerStep, PollStep, TimerStep

(* Response or time-out: which of the two came first is decided once.      *)
THEOREM FirstDecides == Spec => DecidedOnce
<1>1. Inv /\ [Next]_vars =>
        [\A c \in Call : m_state[c] # "WAITING" =>
           m_state'[c] = m_state[c] /\ m_buffer'[c] = m_buffer[c]]_vars
  BY SettledStays DEF Inv
<1> QED
  BY <1>1, Invariance, PTL DEF Spec, DecidedOnce
=============================================================================
