---------------------------- MODULE PackageStream ----------------------------
(***************************************************************************)
(* One direction of a connection, from the threads that write packages to  *)
(* the thread that takes them out again at the other end:                  *)
(*                                                                         *)
(*   write_package -> write cache -> write_socket -> TCP -> read_socket    *)
(*                                     -> read cache -> read_package       *)
(*                                                                         *)
(* It is the client's requests (side = "client": ClientService writes,     *)
(* RequestHandle reads) or the server's responses (side = "server", the    *)
(* other way round).  The two ends run the same code but for two things:   *)
(* a worker of the server writes its response once, while a caller of the  *)
(* client writes its request in an endless loop; and the server leaves     *)
(* EPOLLOUT armed, while the client disarms it at the end of write_socket  *)
(* and its callers arm it again.                                           *)
(*                                                                         *)
(* The caches are the queues ByteQueue specifies, which BufferCache is     *)
(* shown to implement.  The socket is blocking: write returns when it has  *)
(* taken every byte.  TCP neither loses nor reorders bytes and cuts the    *)
(* stream anywhere.  The connection is never closed here.                  *)
(***************************************************************************)
EXTENDS Integers, SequencesExt

CONSTANTS
  Message,        (* a writing thread and the one package it writes         *)
  BodyLength,     (* [Message -> bytes of its body]                         *)
  HeaderSize,     (* sizeof(Header)                                         *)
  Block,          (* BLOCK_SIZE                                             *)
  WriteCapacity,  (* the sender's cache_size                                *)
  ReadCapacity,   (* the receiver's cache_size                              *)
  SocketSize,     (* bytes TCP holds between the two ends                   *)
  MaxWrites       (* bound: a client caller's loop writes no more than this *)

ASSUME StreamAssumption ==
  /\ BodyLength \in [Message -> Nat \ {0}]
  /\ {HeaderSize, Block, WriteCapacity, ReadCapacity} \subseteq Nat \ {0}
  /\ {SocketSize, MaxWrites} \subseteq Nat \ {0}

VARIABLES
  side,     (* which end sends                                              *)
  pc,       (* [Message -> where its thread is]                             *)
  writes,   (* [Message -> calls of write_package it has made]              *)
  accepted, (* the messages whose write_package returned true, in order     *)
  wcache,   (* m_write_cache                                                *)
  armed,    (* EPOLLOUT is armed on the sender's socket                     *)
  out,      (* the sender's poll thread: where it is, how many bytes it     *)
            (* looked at, and those of them write has not taken yet         *)
  socket,   (* the bytes in TCP                                             *)
  rcache,   (* m_read_cache                                                 *)
  unpacking,(* the receiver's poll thread is in its read_package loop       *)
  handled,  (* the bodies read_package handed out, in order                 *)
  faults    (* what has gone wrong so far: "orphan" a header was written    *)
            (* without its body, "wiped" an accepted write emptied the      *)
            (* cache, "overrun" have_a_look copied past its block,          *)
            (* "dropped" bytes read from the socket or the read cache's     *)
            (* own were lost                                                *)

senderVars == <<pc, writes, accepted, wcache>>
receiverVars == <<rcache, unpacking, handled>>
vars == <<side, senderVars, armed, out, socket, receiverVars, faults>>

-----------------------------------------------------------------------------
(* Bytes: a header is told from a body, and both from nothing else.        *)

Header(len) == [i \in 1..HeaderSize |-> <<"header", len, i>>]
Body(m) == [i \in 1..BodyLength[m] |-> <<"body", m, i>>]
Bytes(m) == Header(BodyLength[m]) \o Body(m)

Byte == UNION {Range(Bytes(m)) : m \in Message}

First(s, n) == SubSeq(s, 1, n)
Rest(s, n) == SubSeq(s, n + 1, Len(s))
AtMost(n, limit) == IF n <= limit THEN n ELSE limit

WriteCache == INSTANCE ByteQueue
  WITH Capacity <- WriteCapacity, Inputs <- {}, q <- wcache, ret <- wcache
ReadCache == INSTANCE ByteQueue
  WITH Capacity <- ReadCapacity, Inputs <- {}, q <- rcache, ret <- rcache

-----------------------------------------------------------------------------
(* The writing threads.                                                    *)

Init ==
  /\ side \in {"client", "server"}
  /\ pc = [m \in Message |-> "write"]
  /\ writes = [m \in Message |-> 0]
  /\ accepted = <<>>
  /\ wcache = <<>>
  /\ armed = (side = "server")
  /\ out = [at |-> "poll", looked |-> 0, rest |-> <<>>]
  /\ socket = <<>>
  /\ rcache = <<>>
  /\ unpacking = FALSE
  /\ handled = <<>>
  /\ faults = {}

(* The two writes of write_package: what the cache may hold after the      *)
(* header is accepted.                                                     *)
AfterHeader(m) ==
  {middle \in {wcache \o Header(BodyLength[m]), <<>>} :
     WriteCache!Accepted(wcache, Header(BodyLength[m]), middle)}

(* What the cache should hold after a write, and does not.                 *)
Wiped(full) == IF wcache' = full THEN {} ELSE {"wiped"}

(* No room for the header: nothing is written.                             *)
Reject(m) ==
  /\ WriteCache!Refused(wcache, Header(BodyLength[m]), wcache')
  /\ UNCHANGED <<accepted, faults>>

(* The header went in and the body did not: the header stays.              *)
Orphan(m) ==
  /\ \E middle \in AfterHeader(m) : WriteCache!Refused(middle, Body(m), wcache')
  /\ faults' = faults \union {"orphan"}
                   \union Wiped(wcache \o Header(BodyLength[m]))
  /\ UNCHANGED accepted

(* Both went in; a write that filled the cache may have emptied it.        *)
Accept(m) ==
  /\ \E middle \in AfterHeader(m) : WriteCache!Accepted(middle, Body(m), wcache')
  /\ accepted' = Append(accepted, m)
  /\ faults' = faults \union Wiped(wcache \o Bytes(m))

(* A thread's call of write_package.  The loop of send_request goes on to  *)
(* modify_io_event whatever it returns; worker_caller only logs a refusal. *)
CallWritePackage(m) ==
  /\ pc[m] = "write" /\ writes[m] < MaxWrites /\ out.at # "aborted"
  /\ pc' = [pc EXCEPT ![m] = IF side = "client" THEN "arm" ELSE "done"]
  /\ writes' = [writes EXCEPT ![m] = @ + 1]
  /\ UNCHANGED <<side, armed, out, socket, receiverVars>>

\* Mutant: a package is written whether or not there is room for it.
WriteRegardless(m) ==
  /\ CallWritePackage(m)
  /\ wcache' = wcache \o Bytes(m)
  /\ accepted' = Append(accepted, m)
  /\ UNCHANGED faults

WritePackage(m) ==
  /\ CallWritePackage(m)
  /\ Reject(m) \/ Orphan(m) \/ Accept(m)

(* The bound is reached: the caller's loop goes round without the write.   *)
GoRound(m) ==
  /\ pc[m] = "write" /\ writes[m] = MaxWrites /\ out.at # "aborted"
  /\ pc' = [pc EXCEPT ![m] = "arm"]
  /\ UNCHANGED <<side, writes, accepted, wcache, armed, out, socket>>
  /\ UNCHANGED <<receiverVars, faults>>

\* Mutant: the loop does not ask for EPOLLOUT.
ArmNothing(m) ==
  /\ pc[m] = "arm" /\ out.at # "aborted"
  /\ pc' = [pc EXCEPT ![m] = "write"]
  /\ UNCHANGED <<side, writes, accepted, wcache, armed, out, socket>>
  /\ UNCHANGED <<receiverVars, faults>>

(* After a sleep, modify_io_event(E_RW); and the loop begins again.        *)
Arm(m) ==
  /\ pc[m] = "arm" /\ out.at # "aborted"
  /\ pc' = [pc EXCEPT ![m] = "write"]
  /\ armed' = TRUE
  /\ UNCHANGED <<side, writes, accepted, wcache, out, socket>>
  /\ UNCHANGED <<receiverVars, faults>>

-----------------------------------------------------------------------------
(* write_socket, in the sender's poll thread.                              *)

Sending == UNCHANGED <<side, pc, writes, accepted, receiverVars>>

(* epoll_wait reports that the socket has room.                            *)
Writable ==
  /\ out.at = "poll" /\ armed /\ Len(socket) < SocketSize
  /\ out' = [out EXCEPT !.at = "look"]
  /\ UNCHANGED <<wcache, armed, socket, faults>> /\ Sending

Looked(n) == out' = [at |-> "write", looked |-> n, rest |-> First(wcache, n)]

(* have_a_look takes no lock and asks for the size twice: whether it is    *)
(* less than a block, and then what it is.                                 *)
LookForBlock ==
  /\ out.at = "look"
  /\ IF Block > Len(wcache) THEN out' = [out EXCEPT !.at = "size"]
                            ELSE Looked(Block)
  /\ UNCHANGED <<wcache, armed, socket, faults>> /\ Sending

(* A package written in between may make it copy past the end of tmp.      *)
(* What follows is undefined: the bytes survive, or the process does not.  *)
LookAtAll ==
  /\ out.at = "size"
  /\ \/ Looked(Len(wcache))
     \/ Len(wcache) > Block /\ out' = [out EXCEPT !.at = "aborted"]
  /\ faults' = IF Len(wcache) > Block THEN faults \union {"overrun"} ELSE faults
  /\ UNCHANGED <<wcache, armed, socket>> /\ Sending

(* write blocks until the last of the bytes is taken.                      *)
Send ==
  LET n == AtMost(Len(out.rest), SocketSize - Len(socket))
  IN  /\ out.at = "write" /\ n > 0
      /\ socket' = socket \o First(out.rest, n)
      /\ out' = [out EXCEPT !.rest = Rest(out.rest, n)]
      /\ UNCHANGED <<wcache, armed, faults>> /\ Sending

WriteReturns ==
  /\ out.at = "write" /\ out.rest = <<>>
  /\ out' = [at |-> IF out.looked = Block THEN "look" ELSE "rearm",
             looked |-> 0, rest |-> <<>>]
  /\ UNCHANGED <<armed, socket, faults>> /\ Sending

\* Mutant: what the socket took stays in the cache.
DiscardNothing == WriteReturns /\ UNCHANGED wcache

(* read removes what was sent, or what there is; after a whole block the   *)
(* loop looks for another.                                                 *)
Discard ==
  /\ WriteReturns
  /\ wcache' = Rest(wcache, AtMost(out.looked, Len(wcache)))

(* The client asks for E_READ only; the server's poll re-arms E_RW.        *)
Rearm ==
  /\ out.at = "rearm"
  /\ armed' = (side = "server")
  /\ out' = [out EXCEPT !.at = "poll"]
  /\ UNCHANGED <<wcache, socket, faults>> /\ Sending

WriteSocket ==
  Writable \/ LookForBlock \/ LookAtAll \/ Send \/ Discard \/ Rearm

-----------------------------------------------------------------------------
(* read_socket, in the receiver's poll thread.                             *)

Receiving == UNCHANGED <<side, senderVars, armed, out>>

(* read delivers the next n bytes and they are written to the read cache,  *)
(* whose answer is not looked at.                                          *)
Read(n) ==
  LET chunk == First(socket, n)
  IN  /\ ~unpacking /\ n <= Len(socket)
      /\ socket' = Rest(socket, n)
      /\ \/ ReadCache!Refused(rcache, chunk, rcache')
         \/ ReadCache!Accepted(rcache, chunk, rcache')
      /\ faults' = IF rcache' = rcache \o chunk THEN faults
                                                ELSE faults \union {"dropped"}
      /\ unpacking' = TRUE
      /\ UNCHANGED handled /\ Receiving

\* Mutant: a package waits for one more byte than its own.
CompletePackageAndMore ==
  {len \in {BodyLength[m] : m \in Message} :
     /\ Len(rcache) > HeaderSize + len
     /\ First(rcache, HeaderSize) = Header(len)}

(* The length read_package finds in the header at the front of the cache,  *)
(* if there is one and the whole package has arrived.                      *)
CompletePackage ==
  {len \in {BodyLength[m] : m \in Message} :
     /\ Len(rcache) >= HeaderSize + len
     /\ First(rcache, HeaderSize) = Header(len)}

HandOut(len) ==
  /\ handled' = Append(handled, First(Rest(rcache, HeaderSize), len))
  /\ rcache' = Rest(rcache, HeaderSize + len)

\* Mutant: a byte that begins no header is skipped.
ReadPackageSkipping ==
  /\ unpacking
  /\ \/ /\ CompletePackage = {}
        /\ unpacking' = FALSE
        /\ rcache' = IF rcache # <<>> /\ Head(rcache)[1] = "body"
                       THEN Tail(rcache) ELSE rcache
        /\ UNCHANGED handled
     \/ /\ \E len \in CompletePackage : HandOut(len)
        /\ UNCHANGED unpacking
  /\ UNCHANGED <<socket, faults>> /\ Receiving

(* The loop takes packages out until there is no complete one.             *)
ReadPackage ==
  /\ unpacking
  /\ \/ /\ CompletePackage = {}
        /\ unpacking' = FALSE
        /\ UNCHANGED <<rcache, handled>>
     \/ /\ \E len \in CompletePackage : HandOut(len)
        /\ UNCHANGED unpacking
  /\ UNCHANGED <<socket, faults>> /\ Receiving

ReadSocket == (\E n \in 1..Block : Read(n)) \/ ReadPackage

-----------------------------------------------------------------------------
Thread(m) == WritePackage(m) \/ GoRound(m) \/ Arm(m)

Next == (\E m \in Message : Thread(m)) \/ WriteSocket \/ ReadSocket

(* Every thread runs, and the kernel moves bytes when there is room.       *)
Fairness ==
  /\ \A m \in Message : WF_vars(Thread(m))
  /\ WF_vars(WriteSocket)
  /\ WF_vars(ReadSocket)

Spec == Init /\ [][Next]_vars /\ Fairness

-----------------------------------------------------------------------------
(* No cache and no socket ever holds more than it can, and write has been  *)
(* given no more bytes than have_a_look showed.                            *)
TypeOK ==
  /\ side \in {"client", "server"}
  /\ pc \in [Message -> {"write", "arm", "done"}]
  /\ writes \in [Message -> 0..MaxWrites]
  /\ accepted \in Seq(Message)
  /\ wcache \in Seq(Byte) /\ Len(wcache) <= WriteCapacity
  /\ armed \in BOOLEAN
  /\ out \in [at : {"poll", "look", "size", "write", "rearm", "aborted"},
              looked : 0..WriteCapacity, rest : Seq(Byte)]
  /\ Len(out.rest) <= out.looked
  /\ socket \in Seq(Byte) /\ Len(socket) <= SocketSize
  /\ rcache \in Seq(Byte) /\ Len(rcache) <= ReadCapacity
  /\ unpacking \in BOOLEAN
  /\ handled \in Seq(Seq(Byte))
  /\ faults \subseteq {"orphan", "wiped", "overrun", "dropped"}

(* The bytes between the two ends, oldest first.  What the socket has      *)
(* taken is still in the write cache until read removes it.                *)
InFlight ==
  rcache \o socket \o Rest(wcache, out.looked - Len(out.rest))

(* As long as nothing has gone wrong, the packages handled are the first   *)
(* of those accepted, in that order and each once, and the bytes on their  *)
(* way are exactly the others: nothing is sent twice by the loop of        *)
(* write_socket, whatever is written while it looks, sends and removes.    *)
StreamIntact ==
  faults = {} =>
    LET done == Len(handled)
    IN  /\ done <= Len(accepted)
        /\ handled = [i \in 1..done |-> Body(accepted[i])]
        /\ InFlight = FlattenSeq([i \in 1..(Len(accepted) - done) |->
                                    Bytes(accepted[done + i])])

(* A read cache with room for a block behind an incomplete package never   *)
(* refuses or loses what it is given while the sender is sound: its loop   *)
(* leaves no complete package behind.                                      *)
ReadCacheFits ==
  \A m \in Message : HeaderSize + BodyLength[m] - 1 + Block < ReadCapacity

ReceiverKeepsUp ==
  ReadCacheFits /\ "dropped" \in faults => faults # {"dropped"}

(* Bytes at the front of the read cache that are no header are never       *)
(* skipped: no package is handled again before a write that fills the      *)
(* cache loses everything in it.                                           *)
Deaf ==
  /\ Len(rcache) >= HeaderSize
  /\ \A m \in Message : First(rcache, HeaderSize) # Header(BodyLength[m])

NothingIsSkipped ==
  [][Deaf => handled' = handled /\ (Deaf' \/ rcache' = <<>>)]_vars

(* A package that was accepted is handled in the end, if nothing goes      *)
(* wrong: the client disarms EPOLLOUT behind a package written since its   *)
(* last look, and the loop of send_request is what arms it again.          *)
AcceptedIsHandled ==
  \A n \in 1..(MaxWrites * Cardinality(Message)) :
    Len(accepted) >= n ~> faults # {} \/ Len(handled) >= n

(* A refused package costs nothing but itself: whatever is handled was     *)
(* written by someone.  The program says so of both directions: it drops   *)
(* the one response, it rejects the one request.                           *)
OnlyTheRefusedIsLost ==
  faults \subseteq {"orphan"} =>
    \A i \in 1..Len(handled) : \E m \in Message : handled[i] = Body(m)
=============================================================================
