----------------------------- MODULE DuplexProofs -----------------------------
(***************************************************************************)
(* Proofs about Duplex, for every size of block and socket and any number  *)
(* of requests.  TypeOK and Conserved are inductive together: Conserved    *)
(* needs of TypeOK only that the numbers are numbers, and TypeOK nothing   *)
(* of Conserved.                                                           *)
(***************************************************************************)
EXTENDS Duplex, TLAPS

(* There are two ends.                                                     *)
LEMMA Others == Other("client") = "server" /\ Other("server") = "client"
BY DEF Other, End

-----------------------------------------------------------------------------
(* Type correctness.                                                       *)

LEMMA TypeInit == Init => TypeOK
<1> SUFFICES ASSUME Init PROVE TypeOK
  OBVIOUS
<1>1. Block \in Nat /\ SocketSize \in Nat BY DuplexAssumption
<1>2. poller \in [End -> Poller] BY <1>1 DEF Init, Poller
<1>3. cache \in [End -> Nat] /\ socket \in [End -> 0..SocketSize] BY <1>1 DEF Init
<1>4. \A e \in End : poller[e].left = 0 /\ poller[e].looked = 0 /\ cache[e] = 0
  BY DEF Init
<1>5. /\ asked \in Nat /\ tasks \in Nat /\ ignored \in Nat /\ answered \in Nat
      /\ armed \in BOOLEAN
  BY DEF Init
<1>6. \A e \in End : /\ poller[e].left <= poller[e].looked
                     /\ poller[e].looked <= cache[e]
  BY <1>4
<1> QED BY <1>2, <1>3, <1>4, <1>5, <1>6 DEF TypeOK

(* The callers and workers keep the types.                                 *)
LEMMA TypeOfCallers ==
  ASSUME TypeOK, Ask \/ Arm \/ Answer
  PROVE  TypeOK'
<1>1. CASE Ask BY <1>1 DEF Ask, TypeOK, Poller, End, At
<1>2. CASE Arm BY <1>2 DEF Arm, TypeOK, End, At
<1>3. CASE Answer BY <1>3 DEF Answer, TypeOK, Poller, End, At
<1> QED BY <1>1, <1>2, <1>3

(* The poll threads keep the types.                                        *)
LEMMA TypeOfPoll ==
  ASSUME TypeOK, NEW e \in End, Poll(e)
  PROVE  TypeOK'
<1> USE DuplexAssumption
<1>1. CASE Wake(e)
  BY <1>1 DEF Wake, Ready, Local, TypeOK, Poller, At
<1>2. CASE StartWrite(e)
  BY <1>2 DEF StartWrite, Due, Local, TypeOK, Poller, At
<1>3. CASE Look(e)
  <2> DEFINE n == IF cache[e] < Block THEN cache[e] ELSE Block
  <2>1. n \in 0..Block /\ n <= cache[e] BY DEF TypeOK
  <2>2. poller' = [poller EXCEPT ![e].at = "write", ![e].looked = n, ![e].left = n]
    BY <1>3 DEF Look
  <2>3. poller[e] \in Poller BY DEF TypeOK
  <2> HIDE DEF n
  <2>4. /\ poller'[e].at = "write" /\ poller'[e].looked = n /\ poller'[e].left = n
        /\ \A f \in End : f # e => poller'[f] = poller[f]
    BY <2>2, <2>3 DEF TypeOK, Poller
  <2>5. poller' \in [End -> Poller]
    <3>1. [poller[e] EXCEPT !.at = "write", !.looked = n, !.left = n] \in Poller
      BY <2>1, <2>3 DEF Poller
    <3>2. poller' = [poller EXCEPT ![e] =
                       [poller[e] EXCEPT !.at = "write", !.looked = n, !.left = n]]
      BY <2>2
    <3> QED BY <3>1, <3>2 DEF TypeOK
  <2>6. cache' = cache BY <1>3 DEF Look, Local
  <2>7. n <= n BY <2>1
  <2>8. \A f \in End : /\ poller'[f].left <= poller'[f].looked
                       /\ poller'[f].looked <= cache'[f]
                       /\ ~(poller'[f].at = "write") => poller'[f].looked = 0
    BY <2>1, <2>4, <2>6, <2>7 DEF TypeOK, At
  <2> QED BY <1>3, <2>5, <2>8 DEF Look, Local, TypeOK, At
<1>4. CASE Send(e)
  <2>1. poller[e] \in Poller /\ poller[e].left <= poller[e].looked BY DEF TypeOK
  <2>2. poller[e].left - 1 \in 0..Block /\ poller[e].left - 1 <= poller[e].looked
    BY <1>4, <2>1 DEF Send, Poller
  <2>3. socket[e] + 1 \in 0..SocketSize BY <1>4 DEF Send, TypeOK
  <2> QED BY <1>4, <2>1, <2>2, <2>3 DEF Send, TypeOK, Poller, At
<1>5. CASE Discard(e)
  BY <1>5 DEF Discard, WriteReturns, TypeOK, Poller, At
<1>6. CASE Written(e)
  BY <1>6 DEF Written, Goto, Local, TypeOK, Poller, At
<1>7. CASE \E n \in 1..Block : Read(e, n)
  BY <1>7, Others DEF Read, Due, TypeOK, Poller, At, End
<1>8. CASE Return(e)
  BY <1>8 DEF Return, Goto, Local, TypeOK, Poller, At
<1> QED BY <1>1, <1>2, <1>3, <1>4, <1>5, <1>6, <1>7, <1>8 DEF Poll

(* Every step keeps the types.                                             *)
LEMMA TypeStep == TypeOK /\ [Next]_vars => TypeOK'
<1> SUFFICES ASSUME TypeOK, [Next]_vars PROVE TypeOK'
  OBVIOUS
<1>1. CASE UNCHANGED vars BY <1>1 DEF vars, TypeOK, At
<1>2. CASE Next BY <1>2, TypeOfCallers, TypeOfPoll DEF Next
<1> QED BY <1>1, <1>2

(* Every number is one, no socket holds more than it can, and what a       *)
(* thread looked at stays in its cache until it removes it.                *)
THEOREM TypeCorrect == Spec => []TypeOK
BY TypeInit, TypeStep, PTL DEF Spec

-----------------------------------------------------------------------------
(* No request is lost and none is repeated.                                *)

LEMMA ConservedInit == Init => Conserved
BY DEF Init, Conserved, Outstanding, Unsent, End

(* The callers and workers lose no package.                                *)
LEMMA ConservedByCallers ==
  ASSUME TypeOK, Conserved, Ask \/ Arm \/ Answer
  PROVE  Conserved'
<1> USE DEF Conserved, Outstanding, Unsent, TypeOK, Poller, End
<1>1. CASE Ask BY <1>1 DEF Ask
<1>2. CASE Arm BY <1>2 DEF Arm
<1>3. CASE Answer BY <1>3 DEF Answer
<1> QED BY <1>1, <1>2, <1>3

(* The poll threads lose no package.                                       *)
LEMMA ConservedByPoll ==
  ASSUME TypeOK, Conserved, NEW e \in End, Poll(e)
  PROVE  Conserved'
<1> USE DuplexAssumption DEF Conserved, Outstanding, Unsent, TypeOK, Poller, End, At
<1>1. CASE Wake(e) BY <1>1 DEF Wake, Local
<1>2. CASE StartWrite(e) BY <1>2 DEF StartWrite, Due, Local
<1>3. CASE Look(e)
  <2>0. poller[e].looked = 0 /\ poller[e] \in Poller
    BY <1>3 DEF Look
  <2>1. poller[e].looked = 0 /\ poller[e].left = 0 BY <2>0
  <2>2. \E n \in Nat : poller' =
          [poller EXCEPT ![e].at = "write", ![e].looked = n, ![e].left = n]
    BY <1>3 DEF Look
  <2>3. poller'[e].looked - poller'[e].left = 0 BY <2>2
  <2>4. \A f \in End : f # e => poller'[f] = poller[f] BY <2>2
  <2>5. \A f \in End : Unsent(f)' = Unsent(f)
    BY <1>3, <2>1, <2>3, <2>4 DEF Look, Local
  <2> QED BY <1>3, <2>5 DEF Look, Local
<1>4. CASE Send(e)
  <2>1. poller'[e].looked = poller[e].looked /\ poller'[e].left = poller[e].left - 1
    BY <1>4 DEF Send
  <2>2. \A f \in End : f # e => poller'[f] = poller[f] /\ socket'[f] = socket[f]
    BY <1>4 DEF Send
  <2>3. socket'[e] = socket[e] + 1 BY <1>4 DEF Send
  <2>4. Unsent(e)' = Unsent(e) - 1 BY <1>4, <2>1 DEF Send
  <2>5. \A f \in End : f # e => Unsent(f)' = Unsent(f) BY <1>4, <2>2 DEF Send
  <2>6. \A f \in End : Unsent(f) \in Int /\ socket[f] \in Int BY DEF TypeOK
  <2>7. Outstanding' = Outstanding /\ tasks' = tasks BY <1>4 DEF Send
  <2> QED BY <2>2, <2>3, <2>4, <2>5, <2>6, <2>7 DEF Conserved, End
<1>5. CASE Discard(e) BY <1>5 DEF Discard, WriteReturns
<1>6. CASE Written(e) BY <1>6 DEF Written, Goto, Local
<1>7. CASE \E n \in 1..Block : Read(e, n) BY <1>7, Others DEF Read, Due
<1>8. CASE Return(e) BY <1>8 DEF Return, Goto, Local
<1> QED BY <1>1, <1>2, <1>3, <1>4, <1>5, <1>6, <1>7, <1>8 DEF Poll

(* No step loses a package.                                                *)
LEMMA ConservedStep == TypeOK /\ Conserved /\ [Next]_vars => Conserved'
<1> SUFFICES ASSUME TypeOK, Conserved, [Next]_vars PROVE Conserved'
  OBVIOUS
<1>1. CASE UNCHANGED vars BY <1>1 DEF vars, Conserved, Outstanding, Unsent
<1>2. CASE Next BY <1>2, ConservedByCallers, ConservedByPoll DEF Next
<1> QED BY <1>1, <1>2

(* However the look, the writes and the removal of one end interleave with *)
(* the other end's, the workers' and the callers' steps, a request that    *)
(* was written is on its way, answered or ignored, and counted once.       *)
THEOREM NothingIsLost == Spec => []Conserved
<1>1. TypeOK /\ Conserved /\ [Next]_vars => TypeOK' /\ Conserved'
  BY TypeStep, ConservedStep
<1> QED BY <1>1, TypeInit, ConservedInit, PTL DEF Spec

-----------------------------------------------------------------------------
(* The jam.                                                                *)

LEMMA BacklogOfJam ==
  ASSUME TypeOK, Conserved
  PROVE  JamNeedsBacklog
BY DuplexAssumption
DEF JamNeedsBacklog, Jammed, Blocked, Conserved, Outstanding, Unsent,
    TypeOK, Poller, End, At

(* The two threads block each other only if both sockets are full and both *)
(* ends have more to send: with sockets of SocketSize packages that takes  *)
(* 2 * SocketSize + 2 requests that are written and not answered.          *)
THEOREM JamTakesBacklog == Spec => []JamNeedsBacklog
<1>1. TypeOK /\ Conserved => JamNeedsBacklog BY BacklogOfJam
<1> QED BY <1>1, TypeCorrect, NothingIsLost, PTL

(* No step ends the jam.                                                   *)
LEMMA JamStep == Jammed /\ [Next]_vars => Jammed'
<1> SUFFICES ASSUME Jammed, [Next]_vars PROVE Jammed'
  OBVIOUS
<1> USE DEF Jammed, Blocked, At, End
<1>1. CASE UNCHANGED vars BY <1>1 DEF vars
<1>2. CASE Ask BY <1>2 DEF Ask
<1>3. CASE Arm BY <1>3 DEF Arm
<1>4. CASE Answer BY <1>4 DEF Answer
<1>5. ASSUME NEW e \in End, Poll(e) PROVE FALSE
  <2>1. poller[e].at = "write" OBVIOUS
  <2>2. ~(poller[e].left = 0) /\ ~(socket[e] < SocketSize) BY DuplexAssumption
  <2>3. ~Send(e) BY <2>2 DEF Send
  <2>4. ~Discard(e) BY <2>2 DEF Discard, WriteReturns
  <2>5. ~Wake(e) /\ ~Look(e) /\ ~Written(e) /\ ~Return(e)
    BY <2>1 DEF Wake, Look, Written, Return
  <2>6. ~StartWrite(e) /\ \A n \in 1..Block : ~Read(e, n)
    BY <2>1 DEF StartWrite, Read, Due
  <2> QED BY <1>5, <2>3, <2>4, <2>5, <2>6 DEF Poll
<1> QED BY <1>1, <1>2, <1>3, <1>4, <1>5 DEF Next

(* Once the two threads block each other, nothing that callers or workers  *)
(* do lets either of them go on.                                           *)
THEOREM JamNeverEnds == Spec => JamIsForEver
<1>1. [Next]_vars => [Jammed => Jammed']_vars BY JamStep
<1> QED BY <1>1, PTL DEF Spec, JamIsForEver
=============================================================================
