-------------------------------- MODULE Duplex --------------------------------
(***************************************************************************)
(* Both directions of a connection at once: the requests that callers      *)
(* write at the client and the responses that the workers write at the     *)
(* server.  Each end has one thread that sends and receives: the client    *)
(* its poll thread, the server the poller that took the connection's event *)
(* (EPOLLONESHOT keeps the others away).  The sockets are blocking: a      *)
(* thread that cannot send does not receive either.                        *)
(*                                                                         *)
(* Only the number of packages matters here, and a package is the unit of  *)
(* every size.  How packages are cut into bytes, and what a full cache     *)
(* does to them, is PackageStream's: no cache is ever full here.           *)
(***************************************************************************)
EXTENDS Integers

CONSTANTS
  Block,        (* BLOCK_SIZE, at either end                                *)
  SocketSize,   (* packages TCP holds in one direction                      *)
  MaxRequests   (* bound: the callers write no more requests than this; the *)
                (* loop of send_request writes the same one again and again *)

ASSUME DuplexAssumption == {Block, SocketSize, MaxRequests} \subseteq Nat \ {0}

End == {"client", "server"}
Other(e) == CHOOSE f \in End : f # e

VARIABLES
  asked,      (* requests accepted by write_package at the client           *)
  tasks,      (* requests handed to the workers and not yet answered        *)
  ignored,    (* requests for which the server has no function              *)
  answered,   (* responses taken out at the client                          *)
  cache,      (* [End -> packages in its m_write_cache]                     *)
  socket,     (* [End -> packages it sent that the other end has not read]  *)
  armed,      (* EPOLLOUT is armed on the client's socket                   *)
  poller      (* [End -> where its thread is; the events it has yet to      *)
              (* handle; the packages have_a_look showed it, and those of   *)
              (* them that write has not taken yet]                         *)

vars == <<asked, tasks, ignored, answered, cache, socket, armed, poller>>

Init ==
  /\ asked = 0 /\ tasks = 0 /\ ignored = 0 /\ answered = 0
  /\ cache = [e \in End |-> 0]
  /\ socket = [e \in End |-> 0]
  /\ armed = FALSE
  /\ poller = [e \in End |-> [at |-> "poll", events |-> {}, looked |-> 0, left |-> 0]]

At(e, label) == poller[e].at = label
Goto(e, label) == poller' = [poller EXCEPT ![e].at = label]

-----------------------------------------------------------------------------
(* The callers and the workers.                                            *)

(* write_package in the loop of send_request.                              *)
Ask ==
  /\ asked < MaxRequests
  /\ asked' = asked + 1
  /\ cache' = [cache EXCEPT !["client"] = @ + 1]
  /\ UNCHANGED <<tasks, ignored, answered, socket, armed, poller>>

\* Mutant: the loop of send_request does not ask for EPOLLOUT.
ArmNothing ==
  /\ asked > 0
  /\ UNCHANGED vars

(* modify_io_event(E_RW), later in the loop, which no caller leaves.       *)
Arm ==
  /\ asked > 0
  /\ armed' = TRUE
  /\ UNCHANGED <<asked, tasks, ignored, answered, cache, socket, poller>>

\* Mutant: a response is written twice.
AnswerTwice ==
  /\ tasks > 0
  /\ tasks' = tasks - 1
  /\ cache' = [cache EXCEPT !["server"] = @ + 2]
  /\ UNCHANGED <<asked, ignored, answered, socket, armed, poller>>

(* worker_caller writes the response.  It wakes nobody: the server's       *)
(* EPOLLOUT is armed all along.                                            *)
Answer ==
  /\ tasks > 0
  /\ tasks' = tasks - 1
  /\ cache' = [cache EXCEPT !["server"] = @ + 1]
  /\ UNCHANGED <<asked, ignored, answered, socket, armed, poller>>

-----------------------------------------------------------------------------
(* The thread of end e: IoService::poll, write_socket and read_socket.     *)

Local == UNCHANGED <<asked, tasks, ignored, answered, cache, socket>>

Ready(e) ==
  {event \in {"in", "out"} :
     IF event = "in" THEN socket[Other(e)] > 0
     ELSE socket[e] < SocketSize /\ (e = "server" \/ armed)}

(* epoll_wait reports what is ready now.                                   *)
Wake(e) ==
  /\ At(e, "poll") /\ Ready(e) # {}
  /\ poller' = [poller EXCEPT ![e].at = "dispatch", ![e].events = Ready(e)]
  /\ UNCHANGED armed /\ Local

(* The client handles EPOLLOUT before EPOLLIN, the server the other way.   *)
Due(e, event) ==
  /\ At(e, "dispatch") /\ event \in poller[e].events
  /\ event # (IF e = "client" THEN "out" ELSE "in") => poller[e].events = {event}

StartWrite(e) ==
  /\ Due(e, "out")
  /\ poller' = [poller EXCEPT ![e].at = "look", ![e].events = @ \ {"out"}]
  /\ UNCHANGED armed /\ Local

Look(e) ==
  LET n == IF cache[e] < Block THEN cache[e] ELSE Block
  IN  /\ At(e, "look")
      /\ poller' = [poller EXCEPT ![e].at = "write", ![e].looked = n, ![e].left = n]
      /\ UNCHANGED armed /\ Local

(* write blocks until the socket has taken everything.                     *)
Send(e) ==
  /\ At(e, "write") /\ poller[e].left > 0 /\ socket[e] < SocketSize
  /\ socket' = [socket EXCEPT ![e] = @ + 1]
  /\ poller' = [poller EXCEPT ![e].left = @ - 1]
  /\ UNCHANGED <<asked, tasks, ignored, answered, cache, armed>>

WriteReturns(e) ==
  /\ At(e, "write") /\ poller[e].left = 0
  /\ poller' = [poller EXCEPT ![e].looked = 0,
       ![e].at = IF poller[e].looked = Block THEN "look" ELSE "written"]
  /\ UNCHANGED <<asked, tasks, ignored, answered, socket, armed>>

\* Mutant: a whole block is removed, whatever write took.
DiscardBlock(e) ==
  WriteReturns(e) /\ cache' = [cache EXCEPT ![e] = @ - Block]

\* Mutant: the cache is emptied, of what was written meanwhile too.
DiscardAll(e) == WriteReturns(e) /\ cache' = [cache EXCEPT ![e] = 0]

\* Mutant: the sockets are non-blocking, and write returns what it could.
DiscardTaken(e) ==
  /\ At(e, "write") /\ (poller[e].left = 0 \/ socket[e] = SocketSize)
  /\ cache' = [cache EXCEPT ![e] = @ - (poller[e].looked - poller[e].left)]
  /\ poller' = [poller EXCEPT ![e].looked = 0, ![e].left = 0, ![e].at = "written"]
  /\ UNCHANGED <<asked, tasks, ignored, answered, socket, armed>>

(* read takes what was sent out of the cache; after a whole block the loop *)
(* looks for another.                                                      *)
Discard(e) ==
  WriteReturns(e) /\ cache' = [cache EXCEPT ![e] = @ - poller[e].looked]

(* The client asks for E_READ only; the server's poll arms E_RW at its end.*)
Written(e) ==
  /\ At(e, "written")
  /\ armed' = (e = "server" /\ armed)
  /\ Goto(e, "dispatch")
  /\ Local

(* One read of up to a block, and read_package until none is left: the     *)
(* server makes tasks of the requests whose function it knows, the client  *)
(* takes the responses.                                                    *)
Read(e, n) ==
  /\ Due(e, "in") /\ n <= socket[Other(e)]
  /\ socket' = [socket EXCEPT ![Other(e)] = @ - n]
  /\ poller' = [poller EXCEPT ![e].events = @ \ {"in"}]
  /\ \/ /\ e = "client"
        /\ answered' = answered + n
        /\ UNCHANGED <<tasks, ignored>>
     \/ /\ e = "server"
        /\ \E known \in 0..n : /\ tasks' = tasks + known
                               /\ ignored' = ignored + n - known
        /\ UNCHANGED answered
  /\ UNCHANGED <<asked, cache, armed>>

Return(e) ==
  /\ At(e, "dispatch") /\ poller[e].events = {}
  /\ Goto(e, "poll")
  /\ UNCHANGED armed /\ Local

Poll(e) ==
  \/ Wake(e) \/ StartWrite(e) \/ Look(e) \/ Send(e) \/ Discard(e)
  \/ Written(e) \/ (\E n \in 1..Block : Read(e, n)) \/ Return(e)

-----------------------------------------------------------------------------
Next == Ask \/ Arm \/ Answer \/ \E e \in End : Poll(e)

(* The poll threads, the workers and the callers' loops run; whether a     *)
(* further request is written is the callers' affair.                      *)
Fairness == (\A e \in End : WF_vars(Poll(e))) /\ WF_vars(Answer) /\ WF_vars(Arm)

Spec == Init /\ [][Next]_vars /\ Fairness

-----------------------------------------------------------------------------
Poller ==
  [at : {"poll", "dispatch", "look", "write", "written"},
   events : SUBSET {"in", "out"}, looked : 0..Block, left : 0..Block]

TypeOK ==
  /\ asked \in Nat /\ tasks \in Nat /\ ignored \in Nat /\ answered \in Nat
  /\ cache \in [End -> Nat]
  /\ socket \in [End -> 0..SocketSize]
  /\ armed \in BOOLEAN
  /\ poller \in [End -> Poller]
  /\ \A e \in End : /\ poller[e].left <= poller[e].looked
                    /\ poller[e].looked <= cache[e]
                    /\ ~At(e, "write") => poller[e].looked = 0

(* What end e has still to send: what write has taken stays in the cache   *)
(* until read removes it.                                                  *)
Unsent(e) == cache[e] - (poller[e].looked - poller[e].left)

Outstanding == asked - answered - ignored

(* Whatever the two ends do, a request is on its way, in the hands of a    *)
(* worker, on its way back, answered or ignored: neither end drops or      *)
(* repeats one between its look, its writes and its removal.               *)
Conserved ==
  Outstanding =
    Unsent("client") + socket["client"] + tasks + Unsent("server") + socket["server"]

(* Both threads are blocked in write, each on a socket that only the other *)
(* would empty.                                                            *)
Blocked(e) == At(e, "write") /\ poller[e].left > 0 /\ socket[e] = SocketSize
Jammed == \A e \in End : Blocked(e)

(* It takes both sockets full, and more on both sides: a client with fewer *)
(* requests outstanding is safe.  (The loop of send_request repeats its    *)
(* request for ever, so the client of a single call may have that many.)   *)
JamNeedsBacklog == Jammed => Outstanding >= 2 * SocketSize + 2

(* Nothing the callers and the workers do resolves it.                     *)
JamIsForEver == [][Jammed => Jammed']_vars

(* Short of it, every request that was written is answered, or the server  *)
(* does not know its function.                                             *)
EveryRequestIsAnswered ==
  \A n \in 1..MaxRequests : asked >= n ~> (answered + ignored >= n \/ Jammed)
=============================================================================
