----------------------- MODULE ServerConnectionProofs -----------------------
(***************************************************************************)
(* Proofs about ServerConnection, for every finite set of pollers and of   *)
(* descriptors, every set of connections and every limit of clients,       *)
(* whether or not the kernel fails.                                        *)
(***************************************************************************)
EXTENDS ServerConnection, FiniteSetTheorems, TLAPS

Accepts(p) == poller[p].at \in {"accept", "check", "listen"} \/ Creates(p)

(* A connection is being made that epoll does not know.                    *)
Unarmed(p) ==
  poller[p].at \in {"check", "add"} \/ (Inside(p) /\ poller[p].about = None)

(* Whose event the listening descriptor's is: it is disarmed while a       *)
(* poller accepts, and armed when none does.                               *)
OneAccepts ==
  /\ listening <=> \A p \in Poller : ~Accepts(p)
  /\ \A p, q \in Poller : Accepts(p) /\ Accepts(q) => p = q

(* What a poller knows, by where it is.                                    *)
Locals ==
  \A p \in Poller :
    /\ poller[p].at \in {"check"} \union Creating \union Serving =>
         poller[p].fd # None
    /\ poller[p].at \in {"check"} \union Creating \union InHandle =>
         poller[p].this # None
    /\ poller[p].at \in {"in", "out", "rearm", "read", "write"} =>
         poller[p].about # None
    /\ poller[p].at \notin Serving => poller[p].about = None

(* What epoll knows is open; and it does not know of a connection that is  *)
(* still to be registered, or that it refused.                             *)
Kernel ==
  /\ \A f \in Registered : file[f] # None
  /\ \A p \in Poller : Unarmed(p) => armed[poller[p].fd] = "off"

(* A place is kept for the client that is being accepted: whoever stores   *)
(* the count stores less than the limit, but for the one who accepts.      *)
PlaceKept ==
  \A p \in Poller :
    /\ Creates(p) => m_clients < MaxClients
    /\ At(p, "discounted") => poller[p].count < MaxClients
    /\ At(p, "counted") => poller[p].count <= MaxClients

Shape == TypeOK /\ OneAccepts /\ Locals /\ Kernel /\ PlaceKept /\ NobodyIsDeaf

(* A connection that has not called has no descriptor and no handle, and   *)
(* none has two descriptors.                                               *)
Connected ==
  /\ \A f \in Fd : file[f] # None => peer[file[f]] # "calling"
  /\ \A f, g \in Fd : file[f] # None /\ file[f] = file[g] => f = g
  /\ \A p \in Poller :
       /\ poller[p].about # None => peer[poller[p].about] # "calling"
       /\ poller[p].this # None => peer[poller[p].this] # "calling"

(* The map holds the handle of the connection its descriptor is open on.   *)
Mapped ==
  \A f \in Fd : callback[f] # None =>
    /\ callback[f] = file[f] /\ armed[f] # "off"
    /\ handle[file[f]].object = "live" /\ handle[file[f]].m_fd = f

(* A connection belongs to the poller that took its event, and to no other *)
(* until that one arms its descriptor; one that is made, to its maker.     *)
Owned ==
  /\ \A p, q \in Poller :
       p # q /\ poller[p].about # None => poller[p].about # poller[q].about
  /\ \A p \in Poller, f \in Fd :
       poller[p].about # None /\ file[f] = poller[p].about => armed[f] # "armed"
  /\ \A p, q \in Poller : Unarmed(p) => poller[q].about # poller[p].this

(* A handle whose code runs is the event's and alive, on the descriptor    *)
(* the event was for until it has closed that; and nothing but a hang-up   *)
(* makes it close.                                                         *)
Served ==
  \A p \in Poller :
    LET fd == poller[p].fd
        h == poller[p].this
    IN  Inside(p) /\ poller[p].about # None =>
          /\ h = poller[p].about
          /\ handle[h].object = "live"
          /\ ~At(p, "end") =>
               /\ file[fd] = h /\ handle[h].m_fd = fd
               /\ IF poller[p].at \in {"read", "write", "unregister"}
                  THEN callback[fd] = h
                  ELSE armed[fd] = "off"
          /\ poller[p].at \notin {"read", "write"} => peer[h] = "gone"

(* A handle that is made is alive, and knows neither itself nor anybody    *)
(* else until it is in the map.                                            *)
Made ==
  \A p \in Poller :
    LET fd == poller[p].fd
        h == poller[p].this
    IN  /\ Unarmed(p) => ~poller[p].copy /\ (~At(p, "end") => file[fd] = h)
        /\ Unarmed(p) /\ ~At(p, "check") =>
             /\ handle[h].object = "live"
             /\ ~handle[h].m_self
             /\ ~At(p, "end") => handle[h].m_fd = fd
        /\ At(p, "map") =>
             /\ file[fd] = h /\ armed[fd] # "off" /\ callback[fd] = None
             /\ handle[h].object = "live" /\ handle[h].m_fd = fd

(* What is closed is not open anywhere.                                    *)
Closed ==
  \A p \in Poller, f \in Fd : At(p, "end") => file[f] # poller[p].this

Ownership ==
  "stranger" \notin faults =>
    /\ Connected /\ Mapped /\ Owned /\ Served /\ Made /\ Closed
    /\ TaskFindsHandle

(* The clients that are not counted out yet although epoll has forgotten   *)
(* them, and those not counted in although it knows them, or was to.       *)
Leaving ==
  {p \in Poller : poller[p].at \in {"less", "discounted"} /\ poller[p].about # None}
Coming ==
  {p \in Poller : \/ poller[p].at \in {"map", "self", "more", "counted"}
                  \/ poller[p].at \in {"close", "end"} /\ poller[p].about = None}

Counted ==
  faults = {} =>
    m_clients + Cardinality(Coming) = Cardinality(Registered) + Cardinality(Leaving)

Inv == Shape /\ Ownership /\ Counted

(* None is neither a descriptor nor a connection.                          *)
LEMMA NoneIsNoMember == None \notin Fd /\ None \notin Connection
BY ConnectionAssumption

PollerState ==
  [at : {"wait", "accept", "check", "listen"} \union Creating \union Serving,
   fd : Fd \union {None}, about : Connection \union {None},
   this : Connection \union {None}, count : Int, copy : BOOLEAN]

(* The types of the pollers.                                               *)
LEMMA Typed == TypeOK => poller \in [Poller -> PollerState]
BY DEF TypeOK, PollerState

Label == {"wait", "accept", "check", "listen"} \union Creating \union Serving

(* A poller that goes elsewhere keeps its type; ...                        *)
LEMMA GotoTyped ==
  ASSUME poller \in [Poller -> PollerState], NEW p \in Poller,
         NEW label \in Label,
         Goto(p, label)
  PROVE  poller' \in [Poller -> PollerState]
BY DEF Goto, PollerState, Label

(* ... so does one that starts afresh, ...                                 *)
LEMMA PollerAtTyped ==
  ASSUME NEW label \in Label, NEW fd \in Fd \union {None},
         NEW about \in Connection \union {None},
         NEW this \in Connection \union {None}
  PROVE  PollerAt(label, fd, about, this) \in PollerState
BY DEF PollerAt, PollerState, Label

(* ... that loads the count, ...                                           *)
LEMMA CountTyped ==
  ASSUME poller \in [Poller -> PollerState], NEW p \in Poller,
         NEW label \in Label,
         NEW n \in Int
  PROVE  [poller EXCEPT ![p].at = label, ![p].count = n] \in [Poller -> PollerState]
BY ZenonT(60) DEF PollerState, Label

(* ... and that takes the last reference to a handle.                      *)
LEMMA CopyTyped ==
  ASSUME poller \in [Poller -> PollerState], NEW p \in Poller,
         NEW label \in Label,
         NEW b \in BOOLEAN
  PROVE  [poller EXCEPT ![p].at = label, ![p].copy = b] \in [Poller -> PollerState]
BY ZenonT(60) DEF PollerState, Label

HandleState ==
  [object : {"none", "live", "deleted"}, m_fd : Fd \union {None}, m_self : BOOLEAN]

(* A handle that gets or loses its reference to itself keeps its type.     *)
LEMMA SelfTyped ==
  ASSUME handle \in [Connection -> HandleState], NEW h \in Connection, NEW b \in BOOLEAN
  PROVE  [handle EXCEPT ![h].m_self = b] \in [Connection -> HandleState]
BY DEF HandleState

-----------------------------------------------------------------------------
(* Where the longer steps of a poller lead, and what else they change.     *)
MovesTo(p, labels) ==
  /\ poller'[p].at \in labels
  /\ poller'[p].fd = poller[p].fd /\ poller'[p].about = poller[p].about
  /\ poller'[p].this = poller[p].this
  /\ \A q \in Poller \ {p} : poller'[q] = poller[q]

MovesWith(p, label, h) ==
  /\ poller'[p].at = label /\ poller'[p].this = h
  /\ poller'[p].fd = poller[p].fd /\ poller'[p].about = poller[p].about
  /\ \A q \in Poller \ {p} : poller'[q] = poller[q]

(* epoll_wait: to an event of a client.                                    *)
LEMMA WakeMoves ==
  ASSUME poller \in [Poller -> PollerState], NEW p \in Poller, NEW f \in Fd,
         WakeToServe(p, f)
  PROVE  /\ At(p, "wait") /\ armed[f] = "armed"
         /\ armed' = [armed EXCEPT ![f] = "disarmed"]
         /\ poller'[p].at \in {"in", "out"} /\ poller'[p].this = None
         /\ poller'[p].fd = f /\ poller'[p].about = file[f]
         /\ \A q \in Poller \ {p} : poller'[q] = poller[q]
         /\ UNCHANGED <<peer, file, listening, callback, handle, m_clients, tasks>>
BY DEF WakeToServe, At, Polls, PollerAt, PollerState

(* response_event: to the callback, or past it.                            *)
LEMMA DispatchMoves ==
  ASSUME poller \in [Poller -> PollerState], NEW p \in Poller, NEW event,
         NEW label, NEW otherwise, Dispatch(p, event, label, otherwise)
  PROVE  LET h == callback[poller[p].fd]
         IN  /\ At(p, event) /\ MovesWith(p, IF h = None THEN otherwise ELSE label, h)
             /\ UNCHANGED <<peer, kernel, callback, handle, m_clients, tasks>>
BY DEF Dispatch, At, Polls, kernel, MovesWith, PollerState

(* read_socket: to the end of the event, or to close_connection.           *)
LEMMA ReadSocketMoves ==
  ASSUME poller \in [Poller -> PollerState], NEW p \in Poller, ReadSocket(p)
  PROVE  /\ At(p, "read") /\ MovesTo(p, {"out", "unregister"})
         /\ poller'[p].count = poller[p].count
         /\ UNCHANGED <<kernel, callback, handle, m_clients, faults>>
<1>1. PICK l \in {"out", "unregister"} : Goto(p, l)
  BY DEF ReadSocket
<1>2. MovesTo(p, {"out", "unregister"}) /\ poller'[p].count = poller[p].count
  BY <1>1 DEF Goto, MovesTo, PollerState
<1> QED
  BY <1>2 DEF ReadSocket

(* The load of ++m_clients and of --m_clients.                             *)
LEMMA LoadMoves ==
  ASSUME poller \in [Poller -> PollerState], NEW p \in Poller, Load(p)
  PROVE  /\ \/ /\ At(p, "more") /\ MovesTo(p, {"counted"})
               /\ poller'[p].count = m_clients + 1
            \/ /\ At(p, "less") /\ MovesTo(p, {"discounted"})
               /\ poller'[p].count = m_clients - 1
         /\ poller'[p].copy = poller[p].copy
         /\ UNCHANGED <<peer, kernel, callback, handle, m_clients, tasks, faults>>
<1>1. UNCHANGED <<peer, kernel, callback, handle, m_clients, tasks, faults>>
  BY DEF Load, Polls, kernel
<1>2. CASE At(p, "more")
  BY <1>1, <1>2 DEF Load, At, MovesTo, PollerState
<1>3. CASE At(p, "less")
  BY <1>1, <1>3 DEF Load, At, MovesTo, PollerState
<1> QED
  BY <1>2, <1>3 DEF Load

(* The store.                                                              *)
LEMMA StoreMoves ==
  ASSUME poller \in [Poller -> PollerState], NEW p \in Poller, Store(p)
  PROVE  /\ \/ At(p, "counted") /\ MovesTo(p, {"listen"})
            \/ At(p, "discounted") /\ MovesTo(p, {"close"})
         /\ poller'[p].count = poller[p].count /\ m_clients' = poller[p].count
         /\ UNCHANGED <<peer, kernel, callback, handle, tasks>>
<1>1. CASE At(p, "counted")
  BY <1>1 DEF Store, Goto, At, MovesTo, PollerState
<1>2. CASE At(p, "discounted")
  BY <1>2 DEF Store, Goto, At, MovesTo, PollerState
<1> QED
  BY <1>1, <1>2 DEF Store

(* unregister_io.                                                          *)
LEMMA UnregisterMoves ==
  ASSUME poller \in [Poller -> PollerState], NEW p \in Poller, Unregister(p)
  PROVE  /\ At(p, "unregister") /\ MovesTo(p, {"less"})
         /\ poller'[p].count = poller[p].count
         /\ UNCHANGED <<peer, file, listening, handle, m_clients, tasks, faults>>
BY DEF Unregister, Goto, At, MovesTo, PollerState

(* close: where it leads, ...                                              *)
LEMMA CloseMoves ==
  ASSUME poller \in [Poller -> PollerState], NEW p \in Poller, Close(p)
  PROVE  /\ At(p, "close") /\ MovesTo(p, {"end"})
         /\ poller'[p].count = poller[p].count
         /\ UNCHANGED <<peer, listening, callback, m_clients, tasks, faults>>
BY DEF Close, At, MovesTo, PollerState

(* ... and the descriptor it is of.                                        *)
LEMMA CloseCloses ==
  ASSUME TypeOK, NEW p \in Poller, Close(p)
  PROVE  \A f \in Fd :
           IF f = handle[poller[p].this].m_fd
           THEN armed'[f] = "off" /\ file'[f] = None
           ELSE armed'[f] = armed[f] /\ file'[f] = file[f]
<1> DEFINE g == handle[poller[p].this].m_fd
<1>1. g # None => /\ file' = [file EXCEPT ![g] = None]
                  /\ armed' = [armed EXCEPT ![g] = "off"]
  BY DEF Close
<1>2. g = None => file' = file /\ armed' = armed
  BY DEF Close
<1>3. /\ file \in [Fd -> Connection \union {None}]
      /\ armed \in [Fd -> {"off", "armed", "disarmed"}]
  BY SMTT(60) DEF TypeOK
<1> HIDE DEF g
<1> QED
  BY <1>1, <1>2, <1>3, NoneIsNoMember DEF g

-----------------------------------------------------------------------------
(* Of any history.                                                         *)

(* The listening descriptor and the one poller that accepts.               *)
LEMMA AcceptsStep ==
  ASSUME TypeOK, OneAccepts, Locals, Kernel, [Next]_vars
  PROVE  OneAccepts' /\ Locals'
<1> USE NoneIsNoMember DEF kernel, TypeOK, At, Kernel, Registered,
      OneAccepts, Locals, Accepts, Creates, Inside,
      Creating, Serving, InHandle
<1>1. ASSUME NEW c \in Connection, Peer(c) PROVE OneAccepts' /\ Locals'
  BY <1>1 DEF Peer
<1>2. ASSUME NEW c \in Connection, Worker(c) PROVE OneAccepts' /\ Locals'
  BY <1>2 DEF Worker
<1>3. ASSUME NEW p \in Poller, WakeToAccept(p) PROVE OneAccepts' /\ Locals'
  BY <1>3 DEF WakeToAccept, Polls, Goto
<1>4. ASSUME NEW p \in Poller, NEW f \in Fd, WakeToServe(p, f)
      PROVE  OneAccepts' /\ Locals'
  <2>1. /\ At(p, "wait") /\ armed[f] = "armed"
        /\ armed' = [armed EXCEPT ![f] = "disarmed"]
        /\ poller'[p].at \in {"in", "out"} /\ poller'[p].this = None
        /\ poller'[p].fd = f /\ poller'[p].about = file[f]
        /\ \A q \in Poller \ {p} : poller'[q] = poller[q]
        /\ UNCHANGED <<peer, file, listening, callback, handle, m_clients, tasks>>
    BY <1>4, Typed, WakeMoves
  <2>2. Locals'
    BY <2>1
  <2>3. \A q \in Poller : Accepts(q)' <=> Accepts(q)
    BY <2>1
  <2> HIDE DEF Accepts, Creates, Inside, Locals
  <2> QED
    BY <2>1, <2>2, <2>3
<1>5. ASSUME NEW p \in Poller, Dispatch(p, "in", "read", "out")
      PROVE  OneAccepts' /\ Locals'
  <2> DEFINE h == callback[poller[p].fd]
  <2>1. /\ At(p, "in") /\ MovesWith(p, IF h = None THEN "out" ELSE "read", h)
        /\ UNCHANGED <<peer, kernel, callback, handle, m_clients, tasks>>
    BY <1>5, Typed, DispatchMoves
  <2>2. UNCHANGED listening /\ Locals'
    BY <2>1 DEF MovesWith
  <2>3. \A q \in Poller : Accepts(q)' <=> Accepts(q)
    BY <2>1 DEF MovesWith
  <2> HIDE DEF Accepts, Creates, Inside, Locals
  <2> QED
    BY <2>2, <2>3
<1>6. ASSUME NEW p \in Poller, Dispatch(p, "out", "write", "rearm")
      PROVE  OneAccepts' /\ Locals'
  <2> DEFINE h == callback[poller[p].fd]
  <2>1. /\ At(p, "out") /\ MovesWith(p, IF h = None THEN "rearm" ELSE "write", h)
        /\ UNCHANGED <<peer, kernel, callback, handle, m_clients, tasks>>
    BY <1>6, Typed, DispatchMoves
  <2>2. UNCHANGED listening /\ Locals'
    BY <2>1 DEF MovesWith
  <2>3. \A q \in Poller : Accepts(q)' <=> Accepts(q)
    BY <2>1 DEF MovesWith
  <2> HIDE DEF Accepts, Creates, Inside, Locals
  <2> QED
    BY <2>2, <2>3
<1>7. ASSUME NEW p \in Poller, Rearm(p) PROVE OneAccepts' /\ Locals'
  BY <1>7 DEF Rearm, Polls, Waiting, PollerAt
<1>8. ASSUME NEW p \in Poller, RearmListening(p) PROVE OneAccepts' /\ Locals'
  BY <1>8 DEF RearmListening, Polls, Waiting, PollerAt
<1>9. ASSUME NEW p \in Poller, NEW c \in Connection, Accept(p, c)
      PROVE  OneAccepts' /\ Locals'
  BY <1>9 DEF Accept, Free, PollerAt
<1>10. ASSUME NEW p \in Poller, AcceptFails(p) PROVE OneAccepts' /\ Locals'
  BY <1>10 DEF AcceptFails, Polls, Goto
<1>11. ASSUME NEW p \in Poller, Reject(p) PROVE OneAccepts' /\ Locals'
  BY <1>11 DEF Reject, Goto
<1>12. ASSUME NEW p \in Poller, Construct(p) PROVE OneAccepts' /\ Locals'
  BY <1>12 DEF Construct, IsRoom, Goto
<1>13. ASSUME NEW p \in Poller, AddEvent(p) PROVE OneAccepts' /\ Locals'
  BY <1>13 DEF AddEvent, Polls, Goto
<1>14. ASSUME NEW p \in Poller, AddEventFails(p) PROVE OneAccepts' /\ Locals'
  BY <1>14 DEF AddEventFails, Polls, Goto
<1>15. ASSUME NEW p \in Poller, MapCallback(p) PROVE OneAccepts' /\ Locals'
  BY <1>15 DEF MapCallback, Goto
<1>16. ASSUME NEW p \in Poller, SetDeleteHandle(p) PROVE OneAccepts' /\ Locals'
  BY <1>16 DEF SetDeleteHandle, Goto
<1>17. ASSUME NEW p \in Poller, ReadSocket(p) PROVE OneAccepts' /\ Locals'
  <2>1. /\ At(p, "read") /\ MovesTo(p, {"out", "unregister"})
        /\ UNCHANGED <<kernel, callback, handle, m_clients, faults>>
    BY <1>17, Typed, ReadSocketMoves
  <2>2. UNCHANGED listening /\ Locals'
    BY <2>1 DEF MovesTo
  <2>3. \A q \in Poller : Accepts(q)' <=> Accepts(q)
    BY <2>1 DEF MovesTo
  <2> HIDE DEF Accepts, Creates, Inside, Locals
  <2> QED
    BY <2>2, <2>3
<1>18. ASSUME NEW p \in Poller, WriteSocket(p) PROVE OneAccepts' /\ Locals'
  BY <1>18 DEF WriteSocket, Polls, Goto
<1>19. ASSUME NEW p \in Poller, Unregister(p) PROVE OneAccepts' /\ Locals'
  BY <1>19, Typed, UnregisterMoves DEF MovesTo
<1>20. ASSUME NEW p \in Poller, Load(p) PROVE OneAccepts' /\ Locals'
  <2>1. /\ \/ At(p, "more") /\ MovesTo(p, {"counted"})
           \/ At(p, "less") /\ MovesTo(p, {"discounted"})
        /\ UNCHANGED <<peer, kernel, callback, handle, m_clients, tasks, faults>>
    BY <1>20, Typed, LoadMoves
  <2>2. UNCHANGED listening /\ Locals'
    BY <2>1 DEF MovesTo
  <2>3. \A q \in Poller : Accepts(q)' <=> Accepts(q)
    BY <2>1 DEF MovesTo
  <2> HIDE DEF Accepts, Creates, Inside, Locals
  <2> QED
    BY <2>2, <2>3
<1>21. ASSUME NEW p \in Poller, Store(p) PROVE OneAccepts' /\ Locals'
  <2>1. /\ \/ At(p, "counted") /\ MovesTo(p, {"listen"})
           \/ At(p, "discounted") /\ MovesTo(p, {"close"})
        /\ UNCHANGED <<peer, kernel, callback, handle, tasks>>
    BY <1>21, Typed, StoreMoves
  <2>2. UNCHANGED listening /\ Locals'
    BY <2>1 DEF MovesTo
  <2>3. \A q \in Poller : Accepts(q)' <=> Accepts(q)
    BY <2>1 DEF MovesTo
  <2> HIDE DEF Accepts, Creates, Inside, Locals
  <2> QED
    BY <2>2, <2>3
<1>22. ASSUME NEW p \in Poller, Close(p) PROVE OneAccepts' /\ Locals'
  <2>1. /\ At(p, "close") /\ MovesTo(p, {"end"})
        /\ UNCHANGED <<peer, listening, callback, m_clients, tasks, faults>>
    BY <1>22, Typed, CloseMoves
  <2>2. UNCHANGED listening /\ Locals'
    BY <2>1 DEF MovesTo
  <2>3. \A q \in Poller : Accepts(q)' <=> Accepts(q)
    BY <2>1 DEF MovesTo
  <2> HIDE DEF Accepts, Creates, Inside, Locals
  <2> QED
    BY <2>2, <2>3
<1>23. ASSUME NEW p \in Poller, EndClose(p) PROVE OneAccepts' /\ Locals'
  BY <1>23 DEF EndClose, Goto
<1>24. CASE UNCHANGED vars
  BY <1>24 DEF vars
<1> QED
  BY ZenonT(60), <1>1, <1>2, <1>3, <1>4, <1>5, <1>6, <1>7, <1>8, <1>9, <1>10, <1>11,
     <1>12, <1>13, <1>14, <1>15, <1>16, <1>17, <1>18, <1>19, <1>20, <1>21,
     <1>22, <1>23, <1>24
  DEF Next, Step

(* The place kept.                                                         *)
LEMMA PlaceStep ==
  ASSUME TypeOK, OneAccepts, Locals, PlaceKept, [Next]_vars
  PROVE  PlaceKept'
<1> USE NoneIsNoMember, ConnectionAssumption DEF kernel, TypeOK, At,
      PlaceKept, OneAccepts, Locals, Accepts, Creates, Inside,
      Creating, Serving, InHandle
<1>1. ASSUME NEW c \in Connection, Peer(c) PROVE PlaceKept'
  BY <1>1 DEF Peer
<1>2. ASSUME NEW c \in Connection, Worker(c) PROVE PlaceKept'
  BY <1>2 DEF Worker
<1>3. ASSUME NEW p \in Poller, WakeToAccept(p) PROVE PlaceKept'
  BY <1>3 DEF WakeToAccept, Polls, Goto
<1>4. ASSUME NEW p \in Poller, NEW f \in Fd, WakeToServe(p, f) PROVE PlaceKept'
  BY <1>4 DEF WakeToServe, Polls, PollerAt
<1>5. ASSUME NEW p \in Poller, Dispatch(p, "in", "read", "out")
      PROVE  PlaceKept'
  BY <1>5 DEF Dispatch, Polls
<1>6. ASSUME NEW p \in Poller, Dispatch(p, "out", "write", "rearm")
      PROVE  PlaceKept'
  BY <1>6 DEF Dispatch, Polls
<1>7. ASSUME NEW p \in Poller, Rearm(p) PROVE PlaceKept'
  BY <1>7 DEF Rearm, Polls, Waiting, PollerAt
<1>8. ASSUME NEW p \in Poller, RearmListening(p) PROVE PlaceKept'
  BY <1>8 DEF RearmListening, Polls, Waiting, PollerAt
<1>9. ASSUME NEW p \in Poller, NEW c \in Connection, Accept(p, c)
      PROVE  PlaceKept'
  BY <1>9 DEF Accept, Free, PollerAt
<1>10. ASSUME NEW p \in Poller, AcceptFails(p) PROVE PlaceKept'
  BY <1>10 DEF AcceptFails, Polls, Goto
<1>11. ASSUME NEW p \in Poller, Reject(p) PROVE PlaceKept'
  BY <1>11 DEF Reject, Goto
<1>12. ASSUME NEW p \in Poller, Construct(p) PROVE PlaceKept'
  BY <1>12 DEF Construct, IsRoom, Goto
<1>13. ASSUME NEW p \in Poller, AddEvent(p) PROVE PlaceKept'
  BY <1>13 DEF AddEvent, Polls, Goto
<1>14. ASSUME NEW p \in Poller, AddEventFails(p) PROVE PlaceKept'
  BY <1>14 DEF AddEventFails, Polls, Goto
<1>15. ASSUME NEW p \in Poller, MapCallback(p) PROVE PlaceKept'
  BY <1>15 DEF MapCallback, Goto
<1>16. ASSUME NEW p \in Poller, SetDeleteHandle(p) PROVE PlaceKept'
  BY <1>16 DEF SetDeleteHandle, Goto
<1>17. ASSUME NEW p \in Poller, ReadSocket(p) PROVE PlaceKept'
  BY <1>17 DEF ReadSocket, Goto
<1>18. ASSUME NEW p \in Poller, WriteSocket(p) PROVE PlaceKept'
  BY <1>18 DEF WriteSocket, Polls, Goto
<1>19. ASSUME NEW p \in Poller, Unregister(p) PROVE PlaceKept'
  BY <1>19 DEF Unregister, Goto
<1>20. ASSUME NEW p \in Poller, Load(p) PROVE PlaceKept'
  BY <1>20 DEF Load, Polls
<1>21. ASSUME NEW p \in Poller, Store(p) PROVE PlaceKept'
  BY <1>21 DEF Store, Goto
<1>22. ASSUME NEW p \in Poller, Close(p) PROVE PlaceKept'
  BY <1>22 DEF Close
<1>23. ASSUME NEW p \in Poller, EndClose(p) PROVE PlaceKept'
  BY <1>23 DEF EndClose, Goto
<1>24. CASE UNCHANGED vars
  BY <1>24 DEF vars
<1> QED
  BY <1>1, <1>2, <1>3, <1>4, <1>5, <1>6, <1>7, <1>8, <1>9, <1>10, <1>11,
     <1>12, <1>13, <1>14, <1>15, <1>16, <1>17, <1>18, <1>19, <1>20, <1>21,
     <1>22, <1>23, <1>24
  DEF Next, Step

(* The pollers keep their types.                                           *)
LEMMA PollerStep ==
  ASSUME TypeOK, Locals, [Next]_vars
  PROVE  poller' \in [Poller -> PollerState]
<1> USE NoneIsNoMember, Typed DEF kernel, TypeOK, At, PollerState,
      Locals, Creating, Serving, InHandle
<1> DEFINE Kept == poller' \in [Poller -> PollerState]
<1>1. ASSUME NEW c \in Connection, Peer(c) PROVE Kept
  BY <1>1 DEF Peer
<1>2. ASSUME NEW c \in Connection, Worker(c) PROVE Kept
  BY <1>2 DEF Worker
<1>3. ASSUME NEW p \in Poller, WakeToAccept(p) PROVE Kept
  <2>1. Goto(p, "accept") /\ "accept" \in Label
    BY <1>3 DEF WakeToAccept, Label
  <2> QED
    BY <2>1, Typed, GotoTyped
<1>4. ASSUME NEW p \in Poller, NEW f \in Fd, WakeToServe(p, f) PROVE Kept
  <2> DEFINE label == IF peer[file[f]] \in {"sent", "gone"} THEN "in" ELSE "out"
  <2>1. label \in Label /\ file[f] \in Connection \union {None}
    BY DEF Label
  <2> HIDE DEF label
  <2>2. PollerAt(label, f, file[f], None) \in PollerState
    BY <2>1, PollerAtTyped
  <2> QED
    BY <1>4, <2>2, Typed DEF WakeToServe, label
<1>5. ASSUME NEW p \in Poller, Dispatch(p, "in", "read", "out") PROVE Kept
  BY <1>5 DEF Dispatch, Polls
<1>6. ASSUME NEW p \in Poller, Dispatch(p, "out", "write", "rearm") PROVE Kept
  BY <1>6 DEF Dispatch, Polls
<1>7. ASSUME NEW p \in Poller, Rearm(p) PROVE Kept
  BY <1>7 DEF Rearm, Polls, Waiting, PollerAt
<1>8. ASSUME NEW p \in Poller, RearmListening(p) PROVE Kept
  BY <1>8 DEF RearmListening, Polls, Waiting, PollerAt
<1>9. ASSUME NEW p \in Poller, NEW c \in Connection, Accept(p, c) PROVE Kept
  <2>1. PICK f \in Fd : poller' = [poller EXCEPT ![p] = PollerAt("check", f, None, c)]
    BY <1>9 DEF Accept, Free
  <2>2. PollerAt("check", f, None, c) \in PollerState
    BY PollerAtTyped DEF Label
  <2> HIDE DEF PollerState
  <2> QED
    BY <2>1, <2>2, Typed
<1>10. ASSUME NEW p \in Poller, AcceptFails(p) PROVE Kept
  <2>1. Goto(p, "listen") /\ "listen" \in Label
    BY <1>10 DEF AcceptFails, Label
  <2> QED
    BY <2>1, Typed, GotoTyped
<1>11. ASSUME NEW p \in Poller, Reject(p) PROVE Kept
  BY <1>11 DEF Reject, Goto
<1>12. ASSUME NEW p \in Poller, Construct(p) PROVE Kept
  <2>1. Goto(p, "add") /\ "add" \in Label
    BY <1>12 DEF Construct, Label
  <2> QED
    BY <2>1, Typed, GotoTyped
<1>13. ASSUME NEW p \in Poller, AddEvent(p) PROVE Kept
  BY <1>13 DEF AddEvent, Polls, Goto
<1>14. ASSUME NEW p \in Poller, AddEventFails(p) PROVE Kept
  BY <1>14 DEF AddEventFails, Polls, Goto
<1>15. ASSUME NEW p \in Poller, MapCallback(p) PROVE Kept
  BY <1>15 DEF MapCallback, Goto
<1>16. ASSUME NEW p \in Poller, SetDeleteHandle(p) PROVE Kept
  BY <1>16 DEF SetDeleteHandle, Goto
<1>17. ASSUME NEW p \in Poller, ReadSocket(p) PROVE Kept
  <2>1. PICK label \in {"out", "unregister"} : Goto(p, label)
    BY <1>17 DEF ReadSocket
  <2>2. label \in Label
    BY DEF Label
  <2> QED
    BY <2>1, <2>2, Typed, GotoTyped
<1>18. ASSUME NEW p \in Poller, WriteSocket(p) PROVE Kept
  BY <1>18 DEF WriteSocket, Polls, Goto
<1>19. ASSUME NEW p \in Poller, Unregister(p) PROVE Kept
  <2>1. Goto(p, "less") /\ "less" \in Label
    BY <1>19 DEF Unregister, Label
  <2> QED
    BY <2>1, Typed, GotoTyped
<1>20. ASSUME NEW p \in Poller, Load(p) PROVE Kept
  <2>1. PICK label \in {"counted", "discounted"}, n \in Int :
          poller' = [poller EXCEPT ![p].at = label, ![p].count = n]
    <3>1. m_clients + 1 \in Int /\ m_clients - 1 \in Int
      OBVIOUS
    <3> QED
      BY <1>20, <3>1 DEF Load
  <2>2. label \in Label
    BY DEF Label
  <2> HIDE DEF PollerState
  <2> QED
    BY <2>1, <2>2, Typed, CountTyped
<1>21. ASSUME NEW p \in Poller, Store(p) PROVE Kept
  <2>1. PICK label \in {"listen", "close"} : Goto(p, label)
    BY <1>21 DEF Store
  <2>2. label \in Label
    BY DEF Label
  <2> QED
    BY <2>1, <2>2, Typed, GotoTyped
<1>22. ASSUME NEW p \in Poller, Close(p) PROVE Kept
  <2>1. handle[poller[p].this].m_self \in BOOLEAN
    BY <1>22 DEF Close
  <2>2. poller' = [poller EXCEPT ![p].at = "end", ![p].copy = handle[poller[p].this].m_self]
    BY <1>22 DEF Close
  <2>3. "end" \in Label
    BY DEF Label
  <2> HIDE DEF TypeOK, PollerState
  <2> QED
    BY <2>1, <2>2, <2>3, Typed, CopyTyped
<1>23. ASSUME NEW p \in Poller, EndClose(p) PROVE Kept
  <2>1. PICK label \in {"self", "out"} : Goto(p, label)
    BY <1>23 DEF EndClose
  <2>2. label \in Label
    BY DEF Label
  <2> QED
    BY <2>1, <2>2, Typed, GotoTyped
<1>24. CASE UNCHANGED vars
  BY <1>24 DEF vars
<1> QED
  BY <1>1, <1>2, <1>3, <1>4, <1>5, <1>6, <1>7, <1>8, <1>9, <1>10, <1>11,
     <1>12, <1>13, <1>14, <1>15, <1>16, <1>17, <1>18, <1>19, <1>20, <1>21,
     <1>22, <1>23, <1>24
  DEF Next, Step

(* So does the rest.                                                       *)
LEMMA RestStep ==
  ASSUME TypeOK, Locals, PlaceKept, [Next]_vars
  PROVE  TypeOK' \/ poller' \notin [Poller -> PollerState]
<1> USE NoneIsNoMember, ConnectionAssumption DEF kernel, TypeOK, At,
      Locals, PlaceKept, Creates, Inside, Creating, Serving, InHandle, PollerState
<1> DEFINE Kept == TypeOK' \/ poller' \notin [Poller -> PollerState]
<1>1. ASSUME NEW c \in Connection, Peer(c) PROVE Kept
  BY <1>1 DEF Peer
<1>2. ASSUME NEW c \in Connection, Worker(c) PROVE Kept
  BY <1>2 DEF Worker
<1>3. ASSUME NEW p \in Poller, WakeToAccept(p) PROVE Kept
  BY <1>3 DEF WakeToAccept, Polls, Goto
<1>4. ASSUME NEW p \in Poller, NEW f \in Fd, WakeToServe(p, f) PROVE Kept
  BY <1>4 DEF WakeToServe, Polls, PollerAt
<1>5. ASSUME NEW p \in Poller, Dispatch(p, "in", "read", "out") PROVE Kept
  BY <1>5 DEF Dispatch, Polls
<1>6. ASSUME NEW p \in Poller, Dispatch(p, "out", "write", "rearm") PROVE Kept
  BY <1>6 DEF Dispatch, Polls
<1>7. ASSUME NEW p \in Poller, Rearm(p) PROVE Kept
  BY <1>7 DEF Rearm, Polls, Waiting, PollerAt
<1>8. ASSUME NEW p \in Poller, RearmListening(p) PROVE Kept
  BY <1>8 DEF RearmListening, Polls, Waiting, PollerAt
<1>9. ASSUME NEW p \in Poller, NEW c \in Connection, Accept(p, c) PROVE Kept
  BY <1>9 DEF Accept, Free, PollerAt
<1>10. ASSUME NEW p \in Poller, AcceptFails(p) PROVE Kept
  BY <1>10 DEF AcceptFails, Polls, Goto
<1>11. ASSUME NEW p \in Poller, Reject(p) PROVE Kept
  BY <1>11 DEF Reject, Goto
<1>12. ASSUME NEW p \in Poller, Construct(p) PROVE Kept
  BY <1>12 DEF Construct, IsRoom, Goto
<1>13. ASSUME NEW p \in Poller, AddEvent(p) PROVE Kept
  BY <1>13 DEF AddEvent, Polls, Goto
<1>14. ASSUME NEW p \in Poller, AddEventFails(p) PROVE Kept
  BY <1>14 DEF AddEventFails, Polls, Goto
<1>15. ASSUME NEW p \in Poller, MapCallback(p) PROVE Kept
  BY <1>15 DEF MapCallback, Goto
<1>16. ASSUME NEW p \in Poller, SetDeleteHandle(p) PROVE Kept
  <2> DEFINE h == poller[p].this
  <2>1. h \in Connection /\ handle' = [handle EXCEPT ![h].m_self = TRUE]
    BY <1>16 DEF SetDeleteHandle
  <2>2. handle' \in [Connection -> HandleState]
    <3>1. handle \in [Connection -> HandleState]
      BY DEF HandleState
    <3> HIDE DEF TypeOK
    <3> QED
      BY <2>1, <3>1, SelfTyped
  <2>3. UNCHANGED <<peer, kernel, callback, m_clients, tasks, faults>>
    BY <1>16 DEF SetDeleteHandle
  <2> QED
    BY <2>2, <2>3 DEF HandleState
<1>17. ASSUME NEW p \in Poller, ReadSocket(p) PROVE Kept
  <2>1. file[poller[p].fd] \in Connection \/ UNCHANGED <<peer, tasks>>
    BY ZenonT(60), <1>17 DEF ReadSocket
  <2>2. peer' \in [Connection -> {"calling", "quiet", "sent", "gone"}]
    BY <1>17, <2>1 DEF ReadSocket
  <2>3. tasks' \subseteq Connection
    <3>1. poller[p].this \in Connection
      BY <1>17 DEF ReadSocket
    <3>2. tasks' = tasks \/ tasks' = tasks \union {poller[p].this}
      BY <1>17 DEF ReadSocket
    <3>3. tasks \subseteq Connection
      OBVIOUS
    <3> HIDE DEF TypeOK, Locals, PlaceKept
    <3> QED
      BY <3>1, <3>2, <3>3
  <2>4. UNCHANGED <<kernel, callback, handle, m_clients, faults>>
    BY <1>17 DEF ReadSocket
  <2> QED
    BY <2>2, <2>3, <2>4
<1>18. ASSUME NEW p \in Poller, WriteSocket(p) PROVE Kept
  BY <1>18 DEF WriteSocket, Polls, Goto
<1>19. ASSUME NEW p \in Poller, Unregister(p) PROVE Kept
  <2>1. armed' \in [Fd -> {"off", "armed", "disarmed"}]
    BY <1>19 DEF Unregister
  <2>2. callback' \in [Fd -> Connection \union {None}]
    BY <1>19 DEF Unregister
  <2>3. UNCHANGED <<peer, file, listening, handle, m_clients, tasks, faults>>
    BY <1>19 DEF Unregister
  <2> QED
    BY <2>1, <2>2, <2>3
<1>20. ASSUME NEW p \in Poller, Load(p) PROVE Kept
  BY <1>20 DEF Load, Polls
<1>21. ASSUME NEW p \in Poller, Store(p) PROVE Kept
  BY <1>21 DEF Store, Goto
<1>22. ASSUME NEW p \in Poller, Close(p) PROVE Kept
  <2> DEFINE h == poller[p].this
             f == handle[h].m_fd
  <2>1. h \in Connection /\ handle' = [handle EXCEPT ![h].m_self = FALSE]
    BY <1>22 DEF Close
  <2>2. handle' \in [Connection -> HandleState]
    <3>1. handle \in [Connection -> HandleState]
      BY DEF HandleState
    <3> HIDE DEF TypeOK
    <3> QED
      BY <2>1, <3>1, SelfTyped
  <2>3. f \in Fd \union {None}
    BY <2>1
  <2>4. file' \in [Fd -> Connection \union {None}]
    BY <1>22, <2>3 DEF Close
  <2>5. armed' \in [Fd -> {"off", "armed", "disarmed"}]
    BY <1>22, <2>3 DEF Close
  <2>6. UNCHANGED <<peer, listening, callback, m_clients, tasks, faults>>
    BY <1>22 DEF Close
  <2> QED
    BY <2>2, <2>4, <2>5, <2>6 DEF HandleState
<1>23. ASSUME NEW p \in Poller, EndClose(p) PROVE Kept
  BY <1>23 DEF EndClose, Goto
<1>24. CASE UNCHANGED vars
  BY <1>24 DEF vars
<1> QED
  BY <1>1, <1>2, <1>3, <1>4, <1>5, <1>6, <1>7, <1>8, <1>9, <1>10, <1>11,
     <1>12, <1>13, <1>14, <1>15, <1>16, <1>17, <1>18, <1>19, <1>20, <1>21,
     <1>22, <1>23, <1>24
  DEF Next, Step

(* What epoll knows.                                                       *)
LEMMA KernelStep ==
  ASSUME TypeOK, OneAccepts, Locals, Kernel, [Next]_vars
  PROVE  Kernel'
<1> USE NoneIsNoMember DEF kernel, TypeOK, At, Kernel, Registered,
      Unarmed, OneAccepts, Locals, Accepts, Creates, Inside,
      Creating, Serving, InHandle
<1>1. ASSUME NEW c \in Connection, Peer(c) PROVE Kernel'
  BY <1>1 DEF Peer
<1>2. ASSUME NEW c \in Connection, Worker(c) PROVE Kernel'
  BY <1>2 DEF Worker
<1>3. ASSUME NEW p \in Poller, WakeToAccept(p) PROVE Kernel'
  BY <1>3 DEF WakeToAccept, Polls, Goto
<1>4. ASSUME NEW p \in Poller, NEW f \in Fd, WakeToServe(p, f) PROVE Kernel'
  BY <1>4 DEF WakeToServe, Polls, PollerAt
<1>5. ASSUME NEW p \in Poller, Dispatch(p, "in", "read", "out") PROVE Kernel'
  BY <1>5 DEF Dispatch, Polls
<1>6. ASSUME NEW p \in Poller, Dispatch(p, "out", "write", "rearm")
      PROVE  Kernel'
  BY <1>6 DEF Dispatch, Polls
<1>7. ASSUME NEW p \in Poller, Rearm(p) PROVE Kernel'
  BY <1>7 DEF Rearm, Polls, Waiting, PollerAt
<1>8. ASSUME NEW p \in Poller, RearmListening(p) PROVE Kernel'
  BY <1>8 DEF RearmListening, Polls, Waiting, PollerAt
<1>9. ASSUME NEW p \in Poller, NEW c \in Connection, Accept(p, c) PROVE Kernel'
  BY <1>9 DEF Accept, Free, PollerAt
<1>10. ASSUME NEW p \in Poller, AcceptFails(p) PROVE Kernel'
  BY <1>10 DEF AcceptFails, Polls, Goto
<1>11. ASSUME NEW p \in Poller, Reject(p) PROVE Kernel'
  BY <1>11 DEF Reject, Goto
<1>12. ASSUME NEW p \in Poller, Construct(p) PROVE Kernel'
  BY <1>12 DEF Construct, IsRoom, Goto
<1>13. ASSUME NEW p \in Poller, AddEvent(p) PROVE Kernel'
  BY <1>13 DEF AddEvent, Polls, Goto
<1>14. ASSUME NEW p \in Poller, AddEventFails(p) PROVE Kernel'
  BY <1>14 DEF AddEventFails, Polls, Goto
<1>15. ASSUME NEW p \in Poller, MapCallback(p) PROVE Kernel'
  BY <1>15 DEF MapCallback, Goto
<1>16. ASSUME NEW p \in Poller, SetDeleteHandle(p) PROVE Kernel'
  BY <1>16 DEF SetDeleteHandle, Goto
<1>17. ASSUME NEW p \in Poller, ReadSocket(p) PROVE Kernel'
  BY <1>17, Typed, ReadSocketMoves DEF MovesTo
<1>18. ASSUME NEW p \in Poller, WriteSocket(p) PROVE Kernel'
  BY <1>18 DEF WriteSocket, Polls, Goto
<1>19. ASSUME NEW p \in Poller, Unregister(p) PROVE Kernel'
  <2>1. /\ At(p, "unregister") /\ MovesTo(p, {"less"})
        /\ UNCHANGED <<peer, file, listening, handle, m_clients, tasks, faults>>
    BY <1>19, Typed, UnregisterMoves
  <2>2. \A f \in Fd : armed'[f] = armed[f] \/ armed'[f] = "off"
    BY <1>19 DEF Unregister
  <2> QED
    BY <2>1, <2>2 DEF MovesTo
<1>20. ASSUME NEW p \in Poller, Load(p) PROVE Kernel'
  <2>1. /\ \/ At(p, "more") /\ MovesTo(p, {"counted"})
           \/ At(p, "less") /\ MovesTo(p, {"discounted"})
        /\ UNCHANGED <<peer, kernel, callback, handle, m_clients, tasks, faults>>
    BY <1>20, Typed, LoadMoves
  <2>2. UNCHANGED <<armed, file, listening>>
    BY <2>1
  <2>3. MovesTo(p, {"counted"}) \/ MovesTo(p, {"discounted"})
    BY <2>1
  <2> QED
    BY <2>1, <2>2, <2>3 DEF MovesTo
<1>21. ASSUME NEW p \in Poller, Store(p) PROVE Kernel'
  BY <1>21, Typed, StoreMoves DEF MovesTo
<1>22. ASSUME NEW p \in Poller, Close(p) PROVE Kernel'
  <2>1. /\ At(p, "close") /\ MovesTo(p, {"end"})
        /\ UNCHANGED <<peer, listening, callback, m_clients, tasks, faults>>
    BY <1>22, Typed, CloseMoves
  <2>2. \A f \in Fd : \/ armed'[f] = "off"
                      \/ armed'[f] = armed[f] /\ file'[f] = file[f]
    <3> HIDE DEF TypeOK, OneAccepts, Locals, Kernel
    <3> QED
      BY <1>22, CloseCloses
  <2> QED
    BY <2>1, <2>2 DEF MovesTo
<1>23. ASSUME NEW p \in Poller, EndClose(p) PROVE Kernel'
  BY <1>23 DEF EndClose, Goto
<1>24. CASE UNCHANGED vars
  BY Zenon, <1>24 DEF vars
<1> QED
  BY <1>1, <1>2, <1>3, <1>4, <1>5, <1>6, <1>7, <1>8, <1>9, <1>10, <1>11,
     <1>12, <1>13, <1>14, <1>15, <1>16, <1>17, <1>18, <1>19, <1>20, <1>21,
     <1>22, <1>23, <1>24
  DEF Next, Step

(* Nobody is deaf.                                                         *)
LEMMA DeafStep ==
  ASSUME TypeOK, OneAccepts, Locals, Kernel, NobodyIsDeaf, OneAccepts', [Next]_vars
  PROVE  NobodyIsDeaf'
<1> USE NoneIsNoMember DEF kernel, TypeOK, At, Kernel, Registered,
      Unarmed, NobodyIsDeaf, OneAccepts, Locals, Accepts, Creates, Inside,
      Creating, Serving, InHandle
<1>1. ASSUME NEW c \in Connection, Peer(c) PROVE NobodyIsDeaf'
  BY <1>1 DEF Peer
<1>2. ASSUME NEW c \in Connection, Worker(c) PROVE NobodyIsDeaf'
  BY <1>2 DEF Worker
<1>3. ASSUME NEW p \in Poller, WakeToAccept(p) PROVE NobodyIsDeaf'
  BY <1>3 DEF WakeToAccept, Polls, Goto
<1>4. ASSUME NEW p \in Poller, NEW f \in Fd, WakeToServe(p, f)
      PROVE  NobodyIsDeaf'
  <2>1. /\ At(p, "wait") /\ armed[f] = "armed"
        /\ armed' = [armed EXCEPT ![f] = "disarmed"]
        /\ poller'[p].at \in {"in", "out"} /\ poller'[p].this = None
        /\ poller'[p].fd = f /\ poller'[p].about = file[f]
        /\ \A q \in Poller \ {p} : poller'[q] = poller[q]
        /\ UNCHANGED <<peer, file, listening, callback, handle, m_clients, tasks>>
    BY <1>4, Typed, WakeMoves
  <2>2. \A g \in Fd : armed'[g] = armed[g] \/ g = f
    BY <2>1
  <2>3. \A q \in Poller : /\ poller[q].at \in Serving => poller'[q] = poller[q]
                          /\ q = p => poller'[q].at \in Serving
    BY <2>1
  <2>4. listening' \/ \E q \in Poller : Accepts(q)'
    OBVIOUS
  <2> HIDE DEF TypeOK, Locals, Kernel, OneAccepts, Creates, Serving
  <2> QED
    BY <2>1, <2>2, <2>3, <2>4
<1>5. ASSUME NEW p \in Poller, Dispatch(p, "in", "read", "out")
      PROVE  NobodyIsDeaf'
  <2> DEFINE h == callback[poller[p].fd]
  <2>1. /\ At(p, "in") /\ MovesWith(p, IF h = None THEN "out" ELSE "read", h)
        /\ UNCHANGED <<peer, kernel, callback, handle, m_clients, tasks>>
    BY <1>5, Typed, DispatchMoves
  <2>2. UNCHANGED armed
    BY <2>1
  <2>3. \A q \in Poller : /\ poller'[q].fd = poller[q].fd
                          /\ poller[q].at \in Serving => poller'[q].at \in Serving
    BY <2>1 DEF MovesWith
  <2>4. listening' \/ \E q \in Poller : Accepts(q)'
    OBVIOUS
  <2> HIDE DEF TypeOK, Locals, Kernel, OneAccepts, Creates, Serving
  <2> QED
    BY <2>2, <2>3, <2>4
<1>6. ASSUME NEW p \in Poller, Dispatch(p, "out", "write", "rearm")
      PROVE  NobodyIsDeaf'
  <2> DEFINE h == callback[poller[p].fd]
  <2>1. /\ At(p, "out") /\ MovesWith(p, IF h = None THEN "rearm" ELSE "write", h)
        /\ UNCHANGED <<peer, kernel, callback, handle, m_clients, tasks>>
    BY <1>6, Typed, DispatchMoves
  <2>2. UNCHANGED armed
    BY <2>1
  <2>3. \A q \in Poller : /\ poller'[q].fd = poller[q].fd
                          /\ poller[q].at \in Serving => poller'[q].at \in Serving
    BY <2>1 DEF MovesWith
  <2>4. listening' \/ \E q \in Poller : Accepts(q)'
    OBVIOUS
  <2> HIDE DEF TypeOK, Locals, Kernel, OneAccepts, Creates, Serving
  <2> QED
    BY <2>2, <2>3, <2>4
<1>7. ASSUME NEW p \in Poller, Rearm(p) PROVE NobodyIsDeaf'
  BY <1>7 DEF Rearm, Polls, Waiting, PollerAt
<1>8. ASSUME NEW p \in Poller, RearmListening(p) PROVE NobodyIsDeaf'
  BY <1>8 DEF RearmListening, Polls, Waiting, PollerAt
<1>9. ASSUME NEW p \in Poller, NEW c \in Connection, Accept(p, c)
      PROVE  NobodyIsDeaf'
  BY <1>9 DEF Accept, Free, PollerAt
<1>10. ASSUME NEW p \in Poller, AcceptFails(p) PROVE NobodyIsDeaf'
  BY <1>10 DEF AcceptFails, Polls, Goto
<1>11. ASSUME NEW p \in Poller, Reject(p) PROVE NobodyIsDeaf'
  BY <1>11 DEF Reject, Goto
<1>12. ASSUME NEW p \in Poller, Construct(p) PROVE NobodyIsDeaf'
  BY <1>12 DEF Construct, IsRoom, Goto
<1>13. ASSUME NEW p \in Poller, AddEvent(p) PROVE NobodyIsDeaf'
  BY <1>13 DEF AddEvent, Polls, Goto
<1>14. ASSUME NEW p \in Poller, AddEventFails(p) PROVE NobodyIsDeaf'
  BY <1>14 DEF AddEventFails, Polls, Goto
<1>15. ASSUME NEW p \in Poller, MapCallback(p) PROVE NobodyIsDeaf'
  BY <1>15 DEF MapCallback, Goto
<1>16. ASSUME NEW p \in Poller, SetDeleteHandle(p) PROVE NobodyIsDeaf'
  BY <1>16 DEF SetDeleteHandle, Goto
<1>17. ASSUME NEW p \in Poller, ReadSocket(p) PROVE NobodyIsDeaf'
  BY <1>17, Typed, ReadSocketMoves DEF MovesTo
<1>18. ASSUME NEW p \in Poller, WriteSocket(p) PROVE NobodyIsDeaf'
  BY <1>18 DEF WriteSocket, Polls, Goto
<1>19. ASSUME NEW p \in Poller, Unregister(p) PROVE NobodyIsDeaf'
  <2>1. /\ At(p, "unregister") /\ MovesTo(p, {"less"})
        /\ UNCHANGED <<peer, file, listening, handle, m_clients, tasks, faults>>
    BY <1>19, Typed, UnregisterMoves
  <2>2. \A f \in Fd : armed'[f] = armed[f] \/ armed'[f] = "off"
    BY <1>19 DEF Unregister
  <2> QED
    BY <2>1, <2>2 DEF MovesTo
<1>20. ASSUME NEW p \in Poller, Load(p) PROVE NobodyIsDeaf'
  <2>1. /\ \/ At(p, "more") /\ MovesTo(p, {"counted"})
           \/ At(p, "less") /\ MovesTo(p, {"discounted"})
        /\ UNCHANGED <<peer, kernel, callback, handle, m_clients, tasks, faults>>
    BY <1>20, Typed, LoadMoves
  <2>2. UNCHANGED <<armed, file, listening>>
    BY <2>1
  <2>3. MovesTo(p, {"counted"}) \/ MovesTo(p, {"discounted"})
    BY <2>1
  <2> QED
    BY <2>1, <2>2, <2>3 DEF MovesTo
<1>21. ASSUME NEW p \in Poller, Store(p) PROVE NobodyIsDeaf'
  BY <1>21, Typed, StoreMoves DEF MovesTo
<1>22. ASSUME NEW p \in Poller, Close(p) PROVE NobodyIsDeaf'
  <2>1. /\ At(p, "close") /\ MovesTo(p, {"end"})
        /\ UNCHANGED <<peer, listening, callback, m_clients, tasks, faults>>
    BY <1>22, Typed, CloseMoves
  <2>2. \A f \in Fd : \/ armed'[f] = "off"
                      \/ armed'[f] = armed[f] /\ file'[f] = file[f]
    <3> HIDE DEF TypeOK, OneAccepts, Locals, Kernel
    <3> QED
      BY <1>22, CloseCloses
  <2>3. \A f \in Registered' : f \in Registered /\ armed'[f] = armed[f]
    BY <2>2
  <2>4. \A q \in Poller : /\ poller'[q].fd = poller[q].fd
                          /\ poller[q].at \in Serving => poller'[q].at \in Serving
    BY <2>1 DEF MovesTo
  <2>5. listening' \/ \E q \in Poller : Accepts(q)'
    OBVIOUS
  <2> HIDE DEF TypeOK, Locals, Kernel, OneAccepts, Creates, Serving, Registered
  <2> QED
    BY <2>3, <2>4, <2>5
<1>23. ASSUME NEW p \in Poller, EndClose(p) PROVE NobodyIsDeaf'
  BY <1>23 DEF EndClose, Goto
<1>24. CASE UNCHANGED vars
  BY <1>24 DEF vars
<1> QED
  BY <1>1, <1>2, <1>3, <1>4, <1>5, <1>6, <1>7, <1>8, <1>9, <1>10, <1>11,
     <1>12, <1>13, <1>14, <1>15, <1>16, <1>17, <1>18, <1>19, <1>20, <1>21,
     <1>22, <1>23, <1>24
  DEF Next, Step

-----------------------------------------------------------------------------
(* Until a descriptor was armed for a stranger.                            *)

(* A fault is never forgotten.                                             *)
LEMMA FaultsStay ==
  ASSUME [Next]_vars
  PROVE  faults \subseteq faults'
BY ZenonT(60) DEF Next, vars, Step, Peer, Worker, WakeToAccept, WakeToServe, Dispatch, Rearm,
  RearmListening, Accept, AcceptFails, Reject, Construct, AddEvent, AddEventFails,
  MapCallback, SetDeleteHandle, ReadSocket, WriteSocket, Unregister, Load, Store, Close,
  EndClose, Polls

(* Who has called.                                                         *)
LEMMA ConnectedStep ==
  ASSUME TypeOK, Locals, Connected, [Next]_vars
  PROVE  Connected'
<1> USE NoneIsNoMember DEF kernel, TypeOK, At, Unarmed, Inside,
      InHandle, Connected, Locals, Creating, Serving
<1>1. ASSUME NEW c \in Connection, Peer(c) PROVE Connected'
  BY <1>1 DEF Peer
<1>2. ASSUME NEW c \in Connection, Worker(c) PROVE Connected'
  BY <1>2 DEF Worker
<1>3. ASSUME NEW p \in Poller, WakeToAccept(p) PROVE Connected'
  BY <1>3 DEF WakeToAccept, Polls, Goto
<1>4. ASSUME NEW p \in Poller, NEW f \in Fd, WakeToServe(p, f) PROVE Connected'
  BY <1>4 DEF WakeToServe, Polls, PollerAt
<1>5. ASSUME NEW p \in Poller, Dispatch(p, "in", "read", "out")
      PROVE  Connected'
  BY <1>5 DEF Dispatch, Polls
<1>6. ASSUME NEW p \in Poller, Dispatch(p, "out", "write", "rearm")
      PROVE  Connected'
  BY <1>6 DEF Dispatch, Polls
<1>7. ASSUME NEW p \in Poller, Rearm(p) PROVE Connected'
  BY <1>7 DEF Rearm, Polls, Waiting, PollerAt
<1>8. ASSUME NEW p \in Poller, RearmListening(p) PROVE Connected'
  BY <1>8 DEF RearmListening, Polls, Waiting, PollerAt
<1>9. ASSUME NEW p \in Poller, NEW c \in Connection, Accept(p, c)
      PROVE  Connected'
  BY <1>9 DEF Accept, Free, PollerAt
<1>10. ASSUME NEW p \in Poller, AcceptFails(p) PROVE Connected'
  BY <1>10 DEF AcceptFails, Polls, Goto
<1>11. ASSUME NEW p \in Poller, Reject(p) PROVE Connected'
  BY <1>11 DEF Reject, Goto
<1>12. ASSUME NEW p \in Poller, Construct(p) PROVE Connected'
  BY <1>12 DEF Construct, IsRoom, Goto
<1>13. ASSUME NEW p \in Poller, AddEvent(p) PROVE Connected'
  BY <1>13 DEF AddEvent, Polls, Goto
<1>14. ASSUME NEW p \in Poller, AddEventFails(p) PROVE Connected'
  BY <1>14 DEF AddEventFails, Polls, Goto
<1>15. ASSUME NEW p \in Poller, MapCallback(p) PROVE Connected'
  BY <1>15 DEF MapCallback, Goto
<1>16. ASSUME NEW p \in Poller, SetDeleteHandle(p) PROVE Connected'
  BY <1>16 DEF SetDeleteHandle, Goto
<1>17. ASSUME NEW p \in Poller, ReadSocket(p) PROVE Connected'
  <2>1. /\ At(p, "read") /\ MovesTo(p, {"out", "unregister"})
        /\ UNCHANGED <<kernel, callback, handle, m_clients, faults>>
    BY <1>17, Typed, ReadSocketMoves
  <2>2. \A c \in Connection : peer[c] # "calling" => peer'[c] # "calling"
    BY <1>17 DEF ReadSocket
  <2> QED
    BY <2>1, <2>2 DEF MovesTo
<1>18. ASSUME NEW p \in Poller, WriteSocket(p) PROVE Connected'
  BY <1>18 DEF WriteSocket, Polls, Goto
<1>19. ASSUME NEW p \in Poller, Unregister(p) PROVE Connected'
  BY <1>19 DEF Unregister, Goto
<1>20. ASSUME NEW p \in Poller, Load(p) PROVE Connected'
  <2>1. /\ poller'[p].copy = poller[p].copy
        /\ UNCHANGED <<peer, kernel, callback, handle, m_clients, tasks, faults>>
    BY <1>20, Typed, LoadMoves
  <2>2. CASE At(p, "more") /\ MovesTo(p, {"counted"})
    BY <2>1, <2>2 DEF MovesTo
  <2>3. CASE At(p, "less") /\ MovesTo(p, {"discounted"})
    BY <2>1, <2>3 DEF MovesTo
  <2> QED
    BY <1>20, <2>2, <2>3, Typed, LoadMoves
<1>21. ASSUME NEW p \in Poller, Store(p) PROVE Connected'
  <2>1. /\ \/ At(p, "counted") /\ MovesTo(p, {"listen"})
           \/ At(p, "discounted") /\ MovesTo(p, {"close"})
        /\ UNCHANGED <<peer, kernel, callback, handle, tasks>>
    BY <1>21, Typed, StoreMoves
  <2>2. \A q \in Poller : UNCHANGED <<poller[q].about, poller[q].this>>
    BY <2>1 DEF MovesTo
  <2>3. UNCHANGED <<peer, file>>
    BY <2>1
  <2> HIDE DEF TypeOK, Locals
  <2> QED
    BY <2>2, <2>3
<1>22. ASSUME NEW p \in Poller, Close(p) PROVE Connected'
  BY <1>22 DEF Close
<1>23. ASSUME NEW p \in Poller, EndClose(p) PROVE Connected'
  BY <1>23 DEF EndClose, Goto
<1>24. CASE UNCHANGED vars
  BY <1>24 DEF vars
<1> QED
  BY <1>1, <1>2, <1>3, <1>4, <1>5, <1>6, <1>7, <1>8, <1>9, <1>10, <1>11,
     <1>12, <1>13, <1>14, <1>15, <1>16, <1>17, <1>18, <1>19, <1>20, <1>21,
     <1>22, <1>23, <1>24
  DEF Next, Step

(* The map.                                                                *)
LEMMA MappedStep ==
  ASSUME TypeOK, Locals, Kernel, Connected, Mapped, Served, Made, Closed,
         "stranger" \notin faults, "stranger" \notin faults', [Next]_vars
  PROVE  Mapped'
<1> USE NoneIsNoMember DEF kernel, TypeOK, At, Unarmed, Inside,
      InHandle, Connected, Mapped, Served, Made, Closed, Locals, Kernel,
      Creating, Serving, Registered
<1>1. ASSUME NEW c \in Connection, Peer(c) PROVE Mapped'
  BY <1>1 DEF Peer
<1>2. ASSUME NEW c \in Connection, Worker(c) PROVE Mapped'
  BY <1>2 DEF Worker
<1>3. ASSUME NEW p \in Poller, WakeToAccept(p) PROVE Mapped'
  BY <1>3 DEF WakeToAccept, Polls, Goto
<1>4. ASSUME NEW p \in Poller, NEW f \in Fd, WakeToServe(p, f) PROVE Mapped'
  BY <1>4 DEF WakeToServe, Polls, PollerAt
<1>5. ASSUME NEW p \in Poller, Dispatch(p, "in", "read", "out") PROVE Mapped'
  BY <1>5 DEF Dispatch, Polls
<1>6. ASSUME NEW p \in Poller, Dispatch(p, "out", "write", "rearm")
      PROVE  Mapped'
  BY <1>6 DEF Dispatch, Polls
<1>7. ASSUME NEW p \in Poller, Rearm(p) PROVE Mapped'
  BY <1>7 DEF Rearm, Polls, Waiting, PollerAt
<1>8. ASSUME NEW p \in Poller, RearmListening(p) PROVE Mapped'
  BY <1>8 DEF RearmListening, Polls, Waiting, PollerAt
<1>9. ASSUME NEW p \in Poller, NEW c \in Connection, Accept(p, c) PROVE Mapped'
  BY <1>9 DEF Accept, Free, PollerAt
<1>10. ASSUME NEW p \in Poller, AcceptFails(p) PROVE Mapped'
  BY <1>10 DEF AcceptFails, Polls, Goto
<1>11. ASSUME NEW p \in Poller, Reject(p) PROVE Mapped'
  BY <1>11 DEF Reject, Goto
<1>12. ASSUME NEW p \in Poller, Construct(p) PROVE Mapped'
  BY <1>12 DEF Construct, IsRoom, Goto
<1>13. ASSUME NEW p \in Poller, AddEvent(p) PROVE Mapped'
  BY <1>13 DEF AddEvent, Polls, Goto
<1>14. ASSUME NEW p \in Poller, AddEventFails(p) PROVE Mapped'
  BY <1>14 DEF AddEventFails, Polls, Goto
<1>15. ASSUME NEW p \in Poller, MapCallback(p) PROVE Mapped'
  BY <1>15 DEF MapCallback, Goto
<1>16. ASSUME NEW p \in Poller, SetDeleteHandle(p) PROVE Mapped'
  BY <1>16 DEF SetDeleteHandle, Goto
<1>17. ASSUME NEW p \in Poller, ReadSocket(p) PROVE Mapped'
  BY <1>17 DEF ReadSocket, Goto
<1>18. ASSUME NEW p \in Poller, WriteSocket(p) PROVE Mapped'
  BY <1>18 DEF WriteSocket, Polls, Goto
<1>19. ASSUME NEW p \in Poller, Unregister(p) PROVE Mapped'
  BY <1>19 DEF Unregister, Goto
<1>20. ASSUME NEW p \in Poller, Load(p) PROVE Mapped'
  BY <1>20 DEF Load, Polls
<1>21. ASSUME NEW p \in Poller, Store(p) PROVE Mapped'
  BY <1>21 DEF Store, Goto
<1>22. ASSUME NEW p \in Poller, Close(p) PROVE Mapped'
  BY <1>22 DEF Close
<1>23. ASSUME NEW p \in Poller, EndClose(p) PROVE Mapped'
  BY <1>23 DEF EndClose, Goto
<1>24. CASE UNCHANGED vars
  <2> HIDE DEF TypeOK, Locals, Kernel, Connected, Served, Made, Closed
  <2>1. UNCHANGED <<file, armed, callback, handle>>
    BY <1>24 DEF vars
  <2> QED
    BY <2>1
<1> QED
  BY <1>1, <1>2, <1>3, <1>4, <1>5, <1>6, <1>7, <1>8, <1>9, <1>10, <1>11,
     <1>12, <1>13, <1>14, <1>15, <1>16, <1>17, <1>18, <1>19, <1>20, <1>21,
     <1>22, <1>23, <1>24
  DEF Next, Step

(* Who is at work for whom.                                                *)
LEMMA OwnedStep ==
  ASSUME TypeOK, OneAccepts, Locals, Kernel, Connected, Owned, Made, Closed,
         "stranger" \notin faults, "stranger" \notin faults', [Next]_vars
  PROVE  Owned'
<1> USE NoneIsNoMember DEF kernel, TypeOK, At, Unarmed, Inside,
      InHandle, Connected, Owned, Made, Closed, Locals, Kernel,
      Creating, Serving, Registered
<1>1. ASSUME NEW c \in Connection, Peer(c) PROVE Owned'
  BY <1>1 DEF Peer
<1>2. ASSUME NEW c \in Connection, Worker(c) PROVE Owned'
  BY <1>2 DEF Worker
<1>3. ASSUME NEW p \in Poller, WakeToAccept(p) PROVE Owned'
  BY <1>3 DEF WakeToAccept, Polls, Goto
<1>4. ASSUME NEW p \in Poller, NEW f \in Fd, WakeToServe(p, f) PROVE Owned'
  BY <1>4 DEF WakeToServe, Polls, PollerAt
<1>5. ASSUME NEW p \in Poller, Dispatch(p, "in", "read", "out") PROVE Owned'
  BY <1>5 DEF Dispatch, Polls
<1>6. ASSUME NEW p \in Poller, Dispatch(p, "out", "write", "rearm")
      PROVE  Owned'
  BY <1>6 DEF Dispatch, Polls
<1>7. ASSUME NEW p \in Poller, Rearm(p) PROVE Owned'
  BY <1>7 DEF Rearm, Polls, Waiting, PollerAt
<1>8. ASSUME NEW p \in Poller, RearmListening(p) PROVE Owned'
  BY <1>8 DEF RearmListening, Polls, Waiting, PollerAt
<1>9. ASSUME NEW p \in Poller, NEW c \in Connection, Accept(p, c) PROVE Owned'
  BY <1>9 DEF Accept, Free, PollerAt
<1>10. ASSUME NEW p \in Poller, AcceptFails(p) PROVE Owned'
  BY <1>10 DEF AcceptFails, Polls, Goto
<1>11. ASSUME NEW p \in Poller, Reject(p) PROVE Owned'
  BY <1>11 DEF Reject, Goto
<1>12. ASSUME NEW p \in Poller, Construct(p) PROVE Owned'
  BY <1>12 DEF Construct, IsRoom, Goto
<1>13. ASSUME NEW p \in Poller, AddEvent(p) PROVE Owned'
  BY <1>13 DEF AddEvent, Polls, Goto
<1>14. ASSUME NEW p \in Poller, AddEventFails(p) PROVE Owned'
  BY <1>14 DEF AddEventFails, Polls, Goto
<1>15. ASSUME NEW p \in Poller, MapCallback(p) PROVE Owned'
  BY <1>15 DEF MapCallback, Goto
<1>16. ASSUME NEW p \in Poller, SetDeleteHandle(p) PROVE Owned'
  BY <1>16 DEF SetDeleteHandle, Goto
<1>17. ASSUME NEW p \in Poller, ReadSocket(p) PROVE Owned'
  <2>1. /\ At(p, "read") /\ MovesTo(p, {"out", "unregister"})
        /\ UNCHANGED <<kernel, callback, handle, m_clients, faults>>
    BY <1>17, Typed, ReadSocketMoves
  <2>2. \A q \in Poller : Unarmed(q)' => Unarmed(q)
    BY <2>1 DEF MovesTo
  <2>3. \A q \in Poller : UNCHANGED <<poller[q].about, poller[q].this>>
    BY <2>1 DEF MovesTo
  <2>4. UNCHANGED <<file, armed>>
    BY <2>1
  <2> HIDE DEF Unarmed, TypeOK
  <2> QED
    BY <2>2, <2>3, <2>4
<1>18. ASSUME NEW p \in Poller, WriteSocket(p) PROVE Owned'
  BY <1>18 DEF WriteSocket, Polls, Goto
<1>19. ASSUME NEW p \in Poller, Unregister(p) PROVE Owned'
  BY <1>19 DEF Unregister, Goto
<1>20. ASSUME NEW p \in Poller, Load(p) PROVE Owned'
  <2>1. /\ \/ At(p, "more") /\ MovesTo(p, {"counted"})
           \/ At(p, "less") /\ MovesTo(p, {"discounted"})
        /\ UNCHANGED <<peer, kernel, callback, handle, m_clients, tasks, faults>>
    BY <1>20, Typed, LoadMoves
  <2>2. \A q \in Poller : Unarmed(q)' => Unarmed(q)
    BY <2>1 DEF MovesTo
  <2>3. \A q \in Poller : UNCHANGED <<poller[q].about, poller[q].this>>
    BY <2>1 DEF MovesTo
  <2>4. UNCHANGED <<file, armed>>
    BY <2>1
  <2> HIDE DEF Unarmed, TypeOK
  <2> QED
    BY <2>2, <2>3, <2>4
<1>21. ASSUME NEW p \in Poller, Store(p) PROVE Owned'
  <2>1. /\ \/ At(p, "counted") /\ MovesTo(p, {"listen"})
           \/ At(p, "discounted") /\ MovesTo(p, {"close"})
        /\ UNCHANGED <<peer, kernel, callback, handle, tasks>>
    BY <1>21, Typed, StoreMoves
  <2>2. \A q \in Poller : Unarmed(q)' => Unarmed(q)
    BY <2>1 DEF MovesTo
  <2>3. \A q \in Poller : UNCHANGED <<poller[q].about, poller[q].this>>
    BY <2>1 DEF MovesTo
  <2>4. UNCHANGED <<file, armed>>
    BY <2>1
  <2> HIDE DEF Unarmed, TypeOK
  <2> QED
    BY <2>2, <2>3, <2>4
<1>22. ASSUME NEW p \in Poller, Close(p) PROVE Owned'
  BY <1>22 DEF Close
<1>23. ASSUME NEW p \in Poller, EndClose(p) PROVE Owned'
  BY <1>23 DEF EndClose, Goto
<1>24. CASE UNCHANGED vars
  <2> HIDE DEF TypeOK, OneAccepts, Locals, Kernel, Connected, Owned, Made, Closed
  <2>1. UNCHANGED <<poller, file, armed>>
    BY <1>24 DEF vars
  <2> QED
    BY <2>1 DEF Owned
<1> QED
  BY <1>1, <1>2, <1>3, <1>4, <1>5, <1>6, <1>7, <1>8, <1>9, <1>10, <1>11,
     <1>12, <1>13, <1>14, <1>15, <1>16, <1>17, <1>18, <1>19, <1>20, <1>21,
     <1>22, <1>23, <1>24
  DEF Next, Step

(* The handle at work.                                                     *)
LEMMA ServedStep ==
  ASSUME TypeOK, OneAccepts, Locals, Kernel, Connected, Mapped, Owned, Served, Made,
         Closed, "stranger" \notin faults, "stranger" \notin faults', [Next]_vars
  PROVE  Served'
<1> USE NoneIsNoMember DEF kernel, TypeOK, At, Unarmed, Inside,
      InHandle, Connected, Mapped, Owned, Served, Made, Closed, Locals, Kernel,
      Creating, Serving, Registered
<1>1. ASSUME NEW c \in Connection, Peer(c) PROVE Served'
  BY <1>1 DEF Peer
<1>2. ASSUME NEW c \in Connection, Worker(c) PROVE Served'
  BY <1>2 DEF Worker
<1>3. ASSUME NEW p \in Poller, WakeToAccept(p) PROVE Served'
  BY <1>3 DEF WakeToAccept, Polls, Goto
<1>4. ASSUME NEW p \in Poller, NEW f \in Fd, WakeToServe(p, f)
      PROVE  Served'
  <2>1. /\ At(p, "wait") /\ armed[f] = "armed"
        /\ armed' = [armed EXCEPT ![f] = "disarmed"]
        /\ poller'[p].at \in {"in", "out"} /\ poller'[p].this = None
        /\ poller'[p].fd = f /\ poller'[p].about = file[f]
        /\ \A q \in Poller \ {p} : poller'[q] = poller[q]
        /\ UNCHANGED <<peer, file, listening, callback, handle, m_clients, tasks>>
    BY <1>4, Typed, WakeMoves
  <2> QED
    BY <2>1
<1>5. ASSUME NEW p \in Poller, Dispatch(p, "in", "read", "out")
      PROVE  Served'
  <2> DEFINE h == callback[poller[p].fd]
  <2>1. /\ At(p, "in") /\ MovesWith(p, IF h = None THEN "out" ELSE "read", h)
        /\ UNCHANGED <<peer, kernel, callback, handle, m_clients, tasks>>
    BY <1>5, Typed, DispatchMoves
  <2>2. h # None => h = poller[p].about
    BY <1>5 DEF Dispatch
  <2>3. h # None => /\ file[poller[p].fd] = h
                    /\ handle[h].object = "live" /\ handle[h].m_fd = poller[p].fd
    <3>1. poller[p].fd \in Fd
      BY <1>5 DEF Dispatch
    <3> QED
      BY <3>1 DEF Mapped
  <2> QED
    BY <2>1, <2>2, <2>3 DEF MovesWith
<1>6. ASSUME NEW p \in Poller, Dispatch(p, "out", "write", "rearm")
      PROVE  Served'
  <2> DEFINE h == callback[poller[p].fd]
  <2>1. /\ At(p, "out") /\ MovesWith(p, IF h = None THEN "rearm" ELSE "write", h)
        /\ UNCHANGED <<peer, kernel, callback, handle, m_clients, tasks>>
    BY <1>6, Typed, DispatchMoves
  <2>2. h # None => h = poller[p].about
    BY <1>6 DEF Dispatch
  <2>3. h # None => /\ file[poller[p].fd] = h
                    /\ handle[h].object = "live" /\ handle[h].m_fd = poller[p].fd
    <3>1. poller[p].fd \in Fd
      BY <1>6 DEF Dispatch
    <3> QED
      BY <3>1 DEF Mapped
  <2> QED
    BY <2>1, <2>2, <2>3 DEF MovesWith
<1>7. ASSUME NEW p \in Poller, Rearm(p) PROVE Served'
  BY <1>7 DEF Rearm, Polls, Waiting, PollerAt
<1>8. ASSUME NEW p \in Poller, RearmListening(p) PROVE Served'
  BY <1>8 DEF RearmListening, Polls, Waiting, PollerAt
<1>9. ASSUME NEW p \in Poller, NEW c \in Connection, Accept(p, c) PROVE Served'
  BY <1>9 DEF Accept, Free, PollerAt
<1>10. ASSUME NEW p \in Poller, AcceptFails(p) PROVE Served'
  BY <1>10 DEF AcceptFails, Polls, Goto
<1>11. ASSUME NEW p \in Poller, Reject(p) PROVE Served'
  BY <1>11 DEF Reject, Goto
<1>12. ASSUME NEW p \in Poller, Construct(p) PROVE Served'
  BY <1>12 DEF Construct, IsRoom, Goto
<1>13. ASSUME NEW p \in Poller, AddEvent(p) PROVE Served'
  BY <1>13 DEF AddEvent, Polls, Goto
<1>14. ASSUME NEW p \in Poller, AddEventFails(p) PROVE Served'
  BY <1>14 DEF AddEventFails, Polls, Goto
<1>15. ASSUME NEW p \in Poller, MapCallback(p) PROVE Served'
  BY <1>15 DEF MapCallback, Goto
<1>16. ASSUME NEW p \in Poller, SetDeleteHandle(p) PROVE Served'
  BY <1>16 DEF SetDeleteHandle, Goto
<1>17. ASSUME NEW p \in Poller, ReadSocket(p) PROVE Served'
  <2>1. /\ At(p, "read") /\ MovesTo(p, {"out", "unregister"})
        /\ UNCHANGED <<kernel, callback, handle, m_clients, faults>>
    BY <1>17, Typed, ReadSocketMoves
  <2>2. At(p, "unregister")' => peer[file[poller[p].fd]] = "gone"
    BY <1>17 DEF ReadSocket, Goto
  <2>3. \A c \in Connection : peer[c] = "gone" => peer'[c] = "gone"
    BY <1>17 DEF ReadSocket
  <2> QED
    BY <2>1, <2>2, <2>3 DEF MovesTo
<1>18. ASSUME NEW p \in Poller, WriteSocket(p) PROVE Served'
  BY <1>18 DEF WriteSocket, Polls, Goto
<1>19. ASSUME NEW p \in Poller, Unregister(p) PROVE Served'
  BY <1>19 DEF Unregister, Goto
<1>20. ASSUME NEW p \in Poller, Load(p) PROVE Served'
  BY <1>20, Typed, LoadMoves DEF MovesTo
<1>21. ASSUME NEW p \in Poller, Store(p) PROVE Served'
  BY <1>21, Typed, StoreMoves DEF MovesTo
<1>22. ASSUME NEW p \in Poller, Close(p) PROVE Served'
  BY <1>22 DEF Close
<1>23. ASSUME NEW p \in Poller, EndClose(p) PROVE Served'
  BY <1>23 DEF EndClose, Goto
<1>24. CASE UNCHANGED vars
  BY Zenon, <1>24 DEF vars
<1> QED
  BY <1>1, <1>2, <1>3, <1>4, <1>5, <1>6, <1>7, <1>8, <1>9, <1>10, <1>11,
     <1>12, <1>13, <1>14, <1>15, <1>16, <1>17, <1>18, <1>19, <1>20, <1>21,
     <1>22, <1>23, <1>24
  DEF Next, Step

(* The handle that is made.                                                *)
LEMMA MadeStep ==
  ASSUME TypeOK, OneAccepts, Locals, Kernel, Connected, Mapped, Owned, Served, Made,
         Closed, "stranger" \notin faults, "stranger" \notin faults', [Next]_vars
  PROVE  Made'
<1> USE NoneIsNoMember DEF kernel, TypeOK, At, Unarmed, Inside,
      InHandle, Connected, Mapped, Owned, Served, Made, Closed, Locals, Kernel,
      Creating, Serving, Registered, OneAccepts, Accepts, Creates
<1>1. ASSUME NEW c \in Connection, Peer(c) PROVE Made'
  BY <1>1 DEF Peer
<1>2. ASSUME NEW c \in Connection, Worker(c) PROVE Made'
  BY <1>2 DEF Worker
<1>3. ASSUME NEW p \in Poller, WakeToAccept(p) PROVE Made'
  BY <1>3 DEF WakeToAccept, Polls, Goto
<1>4. ASSUME NEW p \in Poller, NEW f \in Fd, WakeToServe(p, f)
      PROVE  Made'
  <2>1. /\ At(p, "wait") /\ armed[f] = "armed"
        /\ armed' = [armed EXCEPT ![f] = "disarmed"]
        /\ poller'[p].at \in {"in", "out"} /\ poller'[p].this = None
        /\ poller'[p].fd = f /\ poller'[p].about = file[f]
        /\ \A q \in Poller \ {p} : poller'[q] = poller[q]
        /\ UNCHANGED <<peer, file, listening, callback, handle, m_clients, tasks>>
    BY <1>4, Typed, WakeMoves
  <2>2. \A q \in Poller : (Unarmed(q) \/ At(q, "map"))' =>
                            q # p /\ UNCHANGED poller[q]
    BY <2>1
  <2>3. UNCHANGED <<file, callback, handle>>
    BY <2>1
  <2>4. \A g \in Fd : armed[g] # "off" => armed'[g] # "off"
    BY <2>1
  <2> QED
    BY <2>2, <2>3, <2>4
<1>5. ASSUME NEW p \in Poller, Dispatch(p, "in", "read", "out") PROVE Made'
  <2> DEFINE h == callback[poller[p].fd]
  <2>1. /\ At(p, "in") /\ MovesWith(p, IF h = None THEN "out" ELSE "read", h)
        /\ UNCHANGED <<peer, kernel, callback, handle, m_clients, tasks>>
    BY <1>5, Typed, DispatchMoves
  <2>2. \A q \in Poller : (Unarmed(q) \/ At(q, "map"))' =>
                            q # p /\ UNCHANGED poller[q]
    BY <2>1 DEF MovesWith
  <2>3. UNCHANGED <<file, callback, armed, handle>>
    BY <2>1
  <2> QED
    BY <2>2, <2>3
<1>6. ASSUME NEW p \in Poller, Dispatch(p, "out", "write", "rearm") PROVE Made'
  <2> DEFINE h == callback[poller[p].fd]
  <2>1. /\ At(p, "out") /\ MovesWith(p, IF h = None THEN "rearm" ELSE "write", h)
        /\ UNCHANGED <<peer, kernel, callback, handle, m_clients, tasks>>
    BY <1>6, Typed, DispatchMoves
  <2>2. \A q \in Poller : (Unarmed(q) \/ At(q, "map"))' =>
                            q # p /\ UNCHANGED poller[q]
    BY <2>1 DEF MovesWith
  <2>3. UNCHANGED <<file, callback, armed, handle>>
    BY <2>1
  <2> QED
    BY <2>2, <2>3
<1>7. ASSUME NEW p \in Poller, Rearm(p) PROVE Made'
  BY <1>7 DEF Rearm, Polls, Waiting, PollerAt
<1>8. ASSUME NEW p \in Poller, RearmListening(p) PROVE Made'
  BY <1>8 DEF RearmListening, Polls, Waiting, PollerAt
<1>9. ASSUME NEW p \in Poller, NEW c \in Connection, Accept(p, c) PROVE Made'
  BY <1>9 DEF Accept, Free, PollerAt
<1>10. ASSUME NEW p \in Poller, AcceptFails(p) PROVE Made'
  BY <1>10 DEF AcceptFails, Polls, Goto
<1>11. ASSUME NEW p \in Poller, Reject(p) PROVE Made'
  BY <1>11 DEF Reject, Goto
<1>12. ASSUME NEW p \in Poller, Construct(p) PROVE Made'
  <2> DEFINE h == poller[p].this
  <2>1. /\ At(p, "check") /\ h \in Connection
        /\ handle' = [handle EXCEPT ![h] =
             [object |-> "live", m_fd |-> poller[p].fd, m_self |-> FALSE]]
        /\ poller' = [poller EXCEPT ![p].at = "add"]
        /\ UNCHANGED <<peer, kernel, callback, m_clients, tasks, faults>>
    BY <1>12 DEF Construct, Goto
  <2>2. \A q \in Poller \ {p} : poller'[q] = poller[q] /\ ~Unarmed(q) /\ ~At(q, "map")
    BY <2>1
  <2>3. /\ At(p, "add")' /\ poller'[p].this = h /\ poller'[p].fd = poller[p].fd
        /\ poller'[p].copy = poller[p].copy
    BY <2>1
  <2>4. /\ handle'[h].object = "live" /\ handle'[h].m_fd = poller[p].fd
        /\ ~handle'[h].m_self
    BY <2>1
  <2> QED
    BY <2>1, <2>2, <2>3, <2>4
<1>13. ASSUME NEW p \in Poller, AddEvent(p) PROVE Made'
  BY <1>13 DEF AddEvent, Polls, Goto
<1>14. ASSUME NEW p \in Poller, AddEventFails(p) PROVE Made'
  BY <1>14 DEF AddEventFails, Polls, Goto
<1>15. ASSUME NEW p \in Poller, MapCallback(p) PROVE Made'
  BY <1>15 DEF MapCallback, Goto
<1>16. ASSUME NEW p \in Poller, SetDeleteHandle(p) PROVE Made'
  BY <1>16 DEF SetDeleteHandle, Goto
<1>17. ASSUME NEW p \in Poller, ReadSocket(p) PROVE Made'
  BY <1>17 DEF ReadSocket, Goto
<1>18. ASSUME NEW p \in Poller, WriteSocket(p) PROVE Made'
  BY <1>18 DEF WriteSocket, Polls, Goto
<1>19. ASSUME NEW p \in Poller, Unregister(p) PROVE Made'
  BY <1>19 DEF Unregister, Goto
<1>20. ASSUME NEW p \in Poller, Load(p) PROVE Made'
  <2>1. /\ poller'[p].copy = poller[p].copy
        /\ UNCHANGED <<peer, kernel, callback, handle, m_clients, tasks, faults>>
    BY <1>20, Typed, LoadMoves
  <2>2. CASE At(p, "more") /\ MovesTo(p, {"counted"})
    BY <2>1, <2>2 DEF MovesTo
  <2>3. CASE At(p, "less") /\ MovesTo(p, {"discounted"})
    BY <2>1, <2>3 DEF MovesTo
  <2> QED
    BY <1>20, <2>2, <2>3, Typed, LoadMoves
<1>21. ASSUME NEW p \in Poller, Store(p) PROVE Made'
  <2>1. /\ \/ At(p, "counted") /\ MovesTo(p, {"listen"})
           \/ At(p, "discounted") /\ MovesTo(p, {"close"})
        /\ UNCHANGED <<peer, kernel, callback, handle, tasks>>
    BY <1>21, Typed, StoreMoves
  <2>2. \A q \in Poller : UNCHANGED <<poller[q].copy, poller[q].fd, poller[q].this>>
    BY <1>21 DEF Store, Goto
  <2>3. \A q \in Poller : At(q, "map")' => At(q, "map")
    BY <2>1 DEF MovesTo
  <2>4. \A q \in Poller : /\ At(q, "end")' <=> At(q, "end")
                          /\ At(q, "check")' <=> At(q, "check")
    <3>1. poller[p].at \in {"counted", "discounted"} /\ poller'[p].at \in {"listen", "close"}
      BY <2>1 DEF MovesTo
    <3>2. \A q \in Poller \ {p} : poller'[q].at = poller[q].at
      BY <2>1 DEF MovesTo
    <3> HIDE DEF TypeOK, OneAccepts, Locals, Kernel, Connected, Mapped, Owned, Served,
          Made, Closed
    <3> QED
      BY <3>1, <3>2
  <2>5. \A q \in Poller : Unarmed(q)' => Unarmed(q)
    BY <2>1 DEF MovesTo
  <2>6. UNCHANGED <<file, armed, callback, handle>>
    BY <2>1
  <2> HIDE DEF TypeOK, OneAccepts, Locals, Kernel, Connected, Mapped, Owned, Served, Closed,
        Unarmed, At
  <2> QED
    BY <2>2, <2>3, <2>4, <2>5, <2>6
<1>22. ASSUME NEW p \in Poller, Close(p) PROVE Made'
  BY <1>22 DEF Close
<1>23. ASSUME NEW p \in Poller, EndClose(p) PROVE Made'
  BY <1>23 DEF EndClose, Goto
<1>24. CASE UNCHANGED vars
  BY <1>24 DEF vars
<1> QED
  BY ZenonT(60), <1>1, <1>2, <1>3, <1>4, <1>5, <1>6, <1>7, <1>8, <1>9, <1>10, <1>11,
     <1>12, <1>13, <1>14, <1>15, <1>16, <1>17, <1>18, <1>19, <1>20, <1>21,
     <1>22, <1>23, <1>24
  DEF Next, Step

(* What was closed.                                                        *)
LEMMA ClosedStep ==
  ASSUME TypeOK, Locals, Connected, Served, Made, Closed,
         "stranger" \notin faults, "stranger" \notin faults', [Next]_vars
  PROVE  Closed'
<1> USE NoneIsNoMember DEF kernel, TypeOK, At, Unarmed, Inside,
      InHandle, Connected, Served, Made, Closed, Locals,
      Creating, Serving
<1>1. ASSUME NEW c \in Connection, Peer(c) PROVE Closed'
  BY <1>1 DEF Peer
<1>2. ASSUME NEW c \in Connection, Worker(c) PROVE Closed'
  BY <1>2 DEF Worker
<1>3. ASSUME NEW p \in Poller, WakeToAccept(p) PROVE Closed'
  BY <1>3 DEF WakeToAccept, Polls, Goto
<1>4. ASSUME NEW p \in Poller, NEW f \in Fd, WakeToServe(p, f) PROVE Closed'
  BY <1>4 DEF WakeToServe, Polls, PollerAt
<1>5. ASSUME NEW p \in Poller, Dispatch(p, "in", "read", "out") PROVE Closed'
  BY <1>5 DEF Dispatch, Polls
<1>6. ASSUME NEW p \in Poller, Dispatch(p, "out", "write", "rearm")
      PROVE  Closed'
  BY <1>6 DEF Dispatch, Polls
<1>7. ASSUME NEW p \in Poller, Rearm(p) PROVE Closed'
  BY <1>7 DEF Rearm, Polls, Waiting, PollerAt
<1>8. ASSUME NEW p \in Poller, RearmListening(p) PROVE Closed'
  BY <1>8 DEF RearmListening, Polls, Waiting, PollerAt
<1>9. ASSUME NEW p \in Poller, NEW c \in Connection, Accept(p, c) PROVE Closed'
  BY <1>9 DEF Accept, Free, PollerAt
<1>10. ASSUME NEW p \in Poller, AcceptFails(p) PROVE Closed'
  BY <1>10 DEF AcceptFails, Polls, Goto
<1>11. ASSUME NEW p \in Poller, Reject(p) PROVE Closed'
  BY <1>11 DEF Reject, Goto
<1>12. ASSUME NEW p \in Poller, Construct(p) PROVE Closed'
  BY <1>12 DEF Construct, IsRoom, Goto
<1>13. ASSUME NEW p \in Poller, AddEvent(p) PROVE Closed'
  BY <1>13 DEF AddEvent, Polls, Goto
<1>14. ASSUME NEW p \in Poller, AddEventFails(p) PROVE Closed'
  BY <1>14 DEF AddEventFails, Polls, Goto
<1>15. ASSUME NEW p \in Poller, MapCallback(p) PROVE Closed'
  BY <1>15 DEF MapCallback, Goto
<1>16. ASSUME NEW p \in Poller, SetDeleteHandle(p) PROVE Closed'
  BY <1>16 DEF SetDeleteHandle, Goto
<1>17. ASSUME NEW p \in Poller, ReadSocket(p) PROVE Closed'
  BY <1>17, Typed, ReadSocketMoves DEF MovesTo
<1>18. ASSUME NEW p \in Poller, WriteSocket(p) PROVE Closed'
  BY <1>18 DEF WriteSocket, Polls, Goto
<1>19. ASSUME NEW p \in Poller, Unregister(p) PROVE Closed'
  BY <1>19 DEF Unregister, Goto
<1>20. ASSUME NEW p \in Poller, Load(p) PROVE Closed'
  <2>1. /\ \/ At(p, "more") /\ MovesTo(p, {"counted"})
           \/ At(p, "less") /\ MovesTo(p, {"discounted"})
        /\ UNCHANGED <<peer, kernel, callback, handle, m_clients, tasks, faults>>
    BY <1>20, Typed, LoadMoves
  <2>2. \A q \in Poller : At(q, "end")' => At(q, "end")
    BY <2>1 DEF MovesTo
  <2>3. \A q \in Poller : UNCHANGED poller[q].this
    BY <2>1 DEF MovesTo
  <2>4. UNCHANGED file
    BY <2>1
  <2> HIDE DEF At, TypeOK
  <2> QED
    BY <2>2, <2>3, <2>4
<1>21. ASSUME NEW p \in Poller, Store(p) PROVE Closed'
  <2>1. /\ \/ At(p, "counted") /\ MovesTo(p, {"listen"})
           \/ At(p, "discounted") /\ MovesTo(p, {"close"})
        /\ UNCHANGED <<peer, kernel, callback, handle, tasks>>
    BY <1>21, Typed, StoreMoves
  <2>2. \A q \in Poller : At(q, "end")' => At(q, "end")
    BY <2>1 DEF MovesTo
  <2>3. \A q \in Poller : UNCHANGED poller[q].this
    BY <2>1 DEF MovesTo
  <2>4. UNCHANGED file
    BY <2>1
  <2> HIDE DEF At, TypeOK
  <2> QED
    BY <2>2, <2>3, <2>4
<1>22. ASSUME NEW p \in Poller, Close(p) PROVE Closed'
  BY <1>22 DEF Close
<1>23. ASSUME NEW p \in Poller, EndClose(p) PROVE Closed'
  BY <1>23 DEF EndClose, Goto
<1>24. CASE UNCHANGED vars
  BY <1>24 DEF vars
<1> QED
  BY <1>1, <1>2, <1>3, <1>4, <1>5, <1>6, <1>7, <1>8, <1>9, <1>10, <1>11,
     <1>12, <1>13, <1>14, <1>15, <1>16, <1>17, <1>18, <1>19, <1>20, <1>21,
     <1>22, <1>23, <1>24
  DEF Next, Step

(* The handles that tasks point to.                                        *)
LEMMA TasksStep ==
  ASSUME TypeOK, Locals, Served, Made, "stranger" \notin faults, TaskFindsHandle, [Next]_vars
  PROVE  TaskFindsHandle'
<1> USE NoneIsNoMember DEF kernel, TypeOK, At, Unarmed, Inside,
      InHandle, Served, Made, TaskFindsHandle, Locals,
      Creating, Serving
<1>1. ASSUME NEW c \in Connection, Peer(c) PROVE TaskFindsHandle'
  BY <1>1 DEF Peer
<1>2. ASSUME NEW c \in Connection, Worker(c) PROVE TaskFindsHandle'
  BY <1>2 DEF Worker
<1>3. ASSUME NEW p \in Poller, WakeToAccept(p) PROVE TaskFindsHandle'
  BY <1>3 DEF WakeToAccept, Polls, Goto
<1>4. ASSUME NEW p \in Poller, NEW f \in Fd, WakeToServe(p, f)
      PROVE  TaskFindsHandle'
  BY <1>4 DEF WakeToServe, Polls, PollerAt
<1>5. ASSUME NEW p \in Poller, Dispatch(p, "in", "read", "out")
      PROVE  TaskFindsHandle'
  BY <1>5 DEF Dispatch, Polls
<1>6. ASSUME NEW p \in Poller, Dispatch(p, "out", "write", "rearm")
      PROVE  TaskFindsHandle'
  BY <1>6 DEF Dispatch, Polls
<1>7. ASSUME NEW p \in Poller, Rearm(p) PROVE TaskFindsHandle'
  BY <1>7 DEF Rearm, Polls, Waiting, PollerAt
<1>8. ASSUME NEW p \in Poller, RearmListening(p) PROVE TaskFindsHandle'
  BY <1>8 DEF RearmListening, Polls, Waiting, PollerAt
<1>9. ASSUME NEW p \in Poller, NEW c \in Connection, Accept(p, c)
      PROVE  TaskFindsHandle'
  BY <1>9 DEF Accept, Free, PollerAt
<1>10. ASSUME NEW p \in Poller, AcceptFails(p) PROVE TaskFindsHandle'
  BY <1>10 DEF AcceptFails, Polls, Goto
<1>11. ASSUME NEW p \in Poller, Reject(p) PROVE TaskFindsHandle'
  BY <1>11 DEF Reject, Goto
<1>12. ASSUME NEW p \in Poller, Construct(p) PROVE TaskFindsHandle'
  BY <1>12 DEF Construct, IsRoom, Goto
<1>13. ASSUME NEW p \in Poller, AddEvent(p) PROVE TaskFindsHandle'
  BY <1>13 DEF AddEvent, Polls, Goto
<1>14. ASSUME NEW p \in Poller, AddEventFails(p) PROVE TaskFindsHandle'
  BY <1>14 DEF AddEventFails, Polls, Goto
<1>15. ASSUME NEW p \in Poller, MapCallback(p) PROVE TaskFindsHandle'
  BY <1>15 DEF MapCallback, Goto
<1>16. ASSUME NEW p \in Poller, SetDeleteHandle(p) PROVE TaskFindsHandle'
  BY <1>16 DEF SetDeleteHandle, Goto
<1>17. ASSUME NEW p \in Poller, ReadSocket(p) PROVE TaskFindsHandle'
  BY <1>17 DEF ReadSocket, Goto
<1>18. ASSUME NEW p \in Poller, WriteSocket(p) PROVE TaskFindsHandle'
  BY <1>18 DEF WriteSocket, Polls, Goto
<1>19. ASSUME NEW p \in Poller, Unregister(p) PROVE TaskFindsHandle'
  BY <1>19 DEF Unregister, Goto
<1>20. ASSUME NEW p \in Poller, Load(p) PROVE TaskFindsHandle'
  BY <1>20 DEF Load, Polls
<1>21. ASSUME NEW p \in Poller, Store(p) PROVE TaskFindsHandle'
  BY <1>21 DEF Store, Goto
<1>22. ASSUME NEW p \in Poller, Close(p) PROVE TaskFindsHandle'
  BY <1>22 DEF Close
<1>23. ASSUME NEW p \in Poller, EndClose(p) PROVE TaskFindsHandle'
  BY <1>23 DEF EndClose, Goto
<1>24. CASE UNCHANGED vars
  BY <1>24 DEF vars
<1> QED
  BY <1>1, <1>2, <1>3, <1>4, <1>5, <1>6, <1>7, <1>8, <1>9, <1>10, <1>11,
     <1>12, <1>13, <1>14, <1>15, <1>16, <1>17, <1>18, <1>19, <1>20, <1>21,
     <1>22, <1>23, <1>24
  DEF Next, Step

-----------------------------------------------------------------------------
(* The count of clients, until a fault.                                    *)

(* Counting pollers and descriptors.                                       *)
LEMMA Finite ==
  /\ \A S \in SUBSET Poller :
       /\ Cardinality(S) \in Nat
       /\ \A p \in Poller \ S : Cardinality(S \union {p}) = Cardinality(S) + 1
       /\ \A p \in S : Cardinality(S \ {p}) = Cardinality(S) - 1
  /\ \A S \in SUBSET Fd :
       /\ Cardinality(S) \in Nat
       /\ \A f \in Fd \ S : Cardinality(S \union {f}) = Cardinality(S) + 1
       /\ \A f \in S : Cardinality(S \ {f}) = Cardinality(S) - 1
<1>1. ASSUME NEW S, IsFiniteSet(S)
      PROVE  /\ Cardinality(S) \in Nat
             /\ \A x : x \notin S => Cardinality(S \union {x}) = Cardinality(S) + 1
             /\ \A x \in S : Cardinality(S \ {x}) = Cardinality(S) - 1
  BY <1>1, FS_CardinalityType, FS_AddElement, FS_RemoveElement
<1>2. ASSUME NEW T, IsFiniteSet(T), NEW S \in SUBSET T
      PROVE  IsFiniteSet(S)
  BY <1>2, FS_Subset
<1>3. IsFiniteSet(Poller) /\ IsFiniteSet(Fd)
  BY ConnectionAssumption
<1> QED
  BY <1>1, <1>2, <1>3

(* What a step may do to the count and to those it counts.                 *)
NotCounted == UNCHANGED <<Coming, Registered, Leaving, m_clients>>
Arrives ==
  \E p \in Poller \ Coming, f \in Fd \ Registered :
    /\ Coming' = Coming \union {p} /\ Registered' = Registered \union {f}
    /\ UNCHANGED <<Leaving, m_clients>>
Leaves ==
  \E p \in Poller \ Leaving, f \in Registered :
    /\ Leaving' = Leaving \union {p} /\ Registered' = Registered \ {f}
    /\ UNCHANGED <<Coming, m_clients>>
CountsIn ==
  \E p \in Coming :
    /\ Coming' = Coming \ {p} /\ m_clients' = m_clients + 1
    /\ UNCHANGED <<Leaving, Registered>>
CountsOut ==
  /\ m_clients' = m_clients - 1 /\ UNCHANGED Registered
  /\ \/ \E p \in Leaving : Leaving' = Leaving \ {p} /\ UNCHANGED Coming
     \/ \E p \in Poller \ Coming : Coming' = Coming \union {p} /\ UNCHANGED Leaving
Tallied == NotCounted \/ Arrives \/ Leaves \/ CountsIn \/ CountsOut

(* Which it does.                                                          *)
LEMMA TallyStep ==
  ASSUME TypeOK, Locals, Kernel, Connected, Mapped, Served, Made, faults' = {}, [Next]_vars
  PROVE  Tallied
<1> USE NoneIsNoMember DEF kernel, TypeOK, At, Unarmed, Inside,
      InHandle, Creating, Serving, Locals, Coming, Leaving, Registered, NotCounted,
      Tallied
<1>1. ASSUME NEW c \in Connection, Peer(c) PROVE Tallied
  BY <1>1 DEF Peer
<1>2. ASSUME NEW c \in Connection, Worker(c) PROVE Tallied
  BY <1>2 DEF Worker
<1>3. ASSUME NEW p \in Poller, WakeToAccept(p) PROVE Tallied
  BY <1>3 DEF WakeToAccept, Polls, Goto
<1>4. ASSUME NEW p \in Poller, NEW f \in Fd, WakeToServe(p, f) PROVE Tallied
  BY <1>4 DEF WakeToServe, Polls, PollerAt
<1>5. ASSUME NEW p \in Poller, Dispatch(p, "in", "read", "out") PROVE Tallied
  BY <1>5 DEF Dispatch, Polls
<1>6. ASSUME NEW p \in Poller, Dispatch(p, "out", "write", "rearm")
      PROVE  Tallied
  BY <1>6 DEF Dispatch, Polls
<1>7. ASSUME NEW p \in Poller, Rearm(p) PROVE Tallied
  BY <1>7 DEF Rearm, Polls, Waiting, PollerAt
<1>8. ASSUME NEW p \in Poller, RearmListening(p) PROVE Tallied
  BY <1>8 DEF RearmListening, Polls, Waiting, PollerAt
<1>9. ASSUME NEW p \in Poller, NEW c \in Connection, Accept(p, c) PROVE Tallied
  BY <1>9 DEF Accept, Free, PollerAt
<1>10. ASSUME NEW p \in Poller, AcceptFails(p) PROVE Tallied
  BY <1>10 DEF AcceptFails, Polls, Goto
<1>11. ASSUME NEW p \in Poller, Reject(p) PROVE Tallied
  BY <1>11 DEF Reject, Goto
<1>12. ASSUME NEW p \in Poller, Construct(p) PROVE Tallied
  BY <1>12 DEF Construct, IsRoom, Goto
<1>13. ASSUME NEW p \in Poller, AddEvent(p) PROVE Tallied
  <2> DEFINE f == poller[p].fd
  <2>1. p \in Poller \ Coming /\ f \in Fd \ Registered
    BY <1>13 DEF AddEvent, Kernel
  <2>2. Coming' = Coming \union {p} /\ UNCHANGED Leaving
    BY <1>13 DEF AddEvent, Polls, Goto
  <2>3. Registered' = Registered \union {f} /\ UNCHANGED m_clients
    BY <1>13, <2>1 DEF AddEvent, Polls
  <2> HIDE DEF f, Coming, Leaving, Registered
  <2> QED
    BY <2>1, <2>2, <2>3 DEF Arrives
<1>14. ASSUME NEW p \in Poller, AddEventFails(p) PROVE Tallied
  BY <1>14 DEF AddEventFails, Polls, Goto
<1>15. ASSUME NEW p \in Poller, MapCallback(p) PROVE Tallied
  BY <1>15 DEF MapCallback, Goto
<1>16. ASSUME NEW p \in Poller, SetDeleteHandle(p) PROVE Tallied
  BY <1>16 DEF SetDeleteHandle, Goto
<1>17. ASSUME NEW p \in Poller, ReadSocket(p) PROVE Tallied
  <2>1. /\ At(p, "read") /\ MovesTo(p, {"out", "unregister"})
        /\ UNCHANGED <<armed, m_clients>>
    BY <1>17, Typed, ReadSocketMoves
  <2>2. \A q \in Poller : (q \in Coming)' <=> q \in Coming
    BY <2>1 DEF MovesTo
  <2>3. \A q \in Poller : (q \in Leaving)' <=> q \in Leaving
    BY <2>1 DEF MovesTo
  <2>4. Coming \in SUBSET Poller /\ Leaving \in SUBSET Poller
    OBVIOUS
  <2>5. Coming' \in SUBSET Poller /\ Leaving' \in SUBSET Poller
    OBVIOUS
  <2>6. UNCHANGED <<Registered, m_clients>>
    BY <2>1
  <2> HIDE DEF Coming, Leaving, Registered
  <2> QED
    BY <2>2, <2>3, <2>4, <2>5, <2>6
<1>18. ASSUME NEW p \in Poller, WriteSocket(p) PROVE Tallied
  BY <1>18 DEF WriteSocket, Polls, Goto
<1>19. ASSUME NEW p \in Poller, Unregister(p) PROVE Tallied
  <2>1. /\ At(p, "unregister") /\ MovesTo(p, {"less"})
        /\ UNCHANGED <<peer, file, listening, handle, m_clients, tasks, faults>>
    BY <1>19, Typed, UnregisterMoves
  <2> DEFINE f == poller[p].fd
  <2>2. f \in Fd /\ handle[poller[p].this].m_fd = f
    BY <2>1 DEF Served, Made
  <2>3. CASE poller[p].about = None
    <3>1. armed[f] = "off"
      BY <2>1, <2>3 DEF Kernel
    <3>2. UNCHANGED armed
      BY <1>19, <2>2, <3>1 DEF Unregister
    <3>3. \A q \in Poller : (q \in Coming)' <=> q \in Coming
      BY <2>1, <2>3 DEF MovesTo
    <3>4. \A q \in Poller : (q \in Leaving)' <=> q \in Leaving
      BY <2>1, <2>3 DEF MovesTo
    <3>5. Coming \in SUBSET Poller /\ Leaving \in SUBSET Poller
      OBVIOUS
    <3>6. Coming' \in SUBSET Poller /\ Leaving' \in SUBSET Poller
      OBVIOUS
    <3>7. UNCHANGED <<Registered, m_clients>>
      BY <2>1, <3>2
    <3> HIDE DEF Coming, Leaving, Registered
    <3> QED
      BY <3>3, <3>4, <3>5, <3>6, <3>7
  <2>4. CASE poller[p].about # None
    <3>1. armed[f] # "off"
      BY <2>1, <2>2, <2>4 DEF Served, Mapped
    <3>2. armed' = [armed EXCEPT ![f] = "off"]
      BY <1>19, <2>2, <3>1 DEF Unregister
    <3>3. p \in Poller \ Leaving /\ f \in Registered
      BY <2>1, <2>2, <3>1
    <3>4. Leaving' = Leaving \union {p} /\ UNCHANGED Coming
      BY <2>1, <2>4 DEF MovesTo
    <3>5. Registered' = Registered \ {f} /\ UNCHANGED m_clients
      BY <2>1, <2>2, <3>2
    <3> HIDE DEF f, Coming, Leaving, Registered
    <3> QED
      BY <3>3, <3>4, <3>5 DEF Leaves
  <2> QED
    BY <2>3, <2>4
<1>20. ASSUME NEW p \in Poller, Load(p) PROVE Tallied
  <2>1. /\ \/ At(p, "more") /\ MovesTo(p, {"counted"})
           \/ At(p, "less") /\ MovesTo(p, {"discounted"})
        /\ UNCHANGED <<armed, m_clients>>
    BY <1>20, Typed, LoadMoves
  <2>2. \A q \in Poller : (q \in Coming)' <=> q \in Coming
    BY <2>1 DEF MovesTo
  <2>3. \A q \in Poller : (q \in Leaving)' <=> q \in Leaving
    BY <2>1 DEF MovesTo
  <2>4. Coming \in SUBSET Poller /\ Leaving \in SUBSET Poller
    OBVIOUS
  <2>5. Coming' \in SUBSET Poller /\ Leaving' \in SUBSET Poller
    OBVIOUS
  <2>6. UNCHANGED Registered
    BY <2>1
  <2> HIDE DEF Coming, Leaving, Registered
  <2> QED
    BY <2>1, <2>2, <2>3, <2>4, <2>5, <2>6
<1>21. ASSUME NEW p \in Poller, Store(p) PROVE Tallied
  <2>1. /\ \/ At(p, "counted") /\ MovesTo(p, {"listen"})
           \/ At(p, "discounted") /\ MovesTo(p, {"close"})
        /\ m_clients' = poller[p].count
        /\ UNCHANGED <<peer, kernel, callback, handle, tasks>>
    BY <1>21, Typed, StoreMoves
  <2>2. "torn" \notin faults'
    OBVIOUS
  <2>3. m_clients = poller[p].count + (IF At(p, "counted") THEN -1 ELSE 1)
    BY <1>21, <2>2 DEF Store
  <2>4. poller[p].count \in Int /\ UNCHANGED Registered
    BY <2>1
  <2>5. CASE At(p, "counted")
    <3>1. p \in Coming /\ Coming' = Coming \ {p} /\ UNCHANGED Leaving
      BY <2>1, <2>5 DEF MovesTo
    <3>2. m_clients' = m_clients + 1
      BY <2>1, <2>3, <2>4, <2>5
    <3> HIDE DEF Coming, Leaving, Registered
    <3> QED
      BY <2>4, <3>1, <3>2 DEF CountsIn
  <2>6. CASE At(p, "discounted")
    <3>1. m_clients' = m_clients - 1
      BY <2>1, <2>3, <2>4, <2>6
    <3>2. poller[p].about # None =>
            p \in Leaving /\ Leaving' = Leaving \ {p} /\ UNCHANGED Coming
      BY <2>1, <2>6 DEF MovesTo
    <3>3. poller[p].about = None =>
            p \notin Coming /\ Coming' = Coming \union {p} /\ UNCHANGED Leaving
      BY <2>1, <2>6 DEF MovesTo
    <3> HIDE DEF Coming, Leaving, Registered
    <3> QED
      BY <2>4, <3>1, <3>2, <3>3 DEF CountsOut
  <2> QED
    BY <2>1, <2>5, <2>6
<1>22. ASSUME NEW p \in Poller, Close(p) PROVE Tallied
  <2>1. /\ At(p, "close") /\ MovesTo(p, {"end"})
        /\ UNCHANGED <<peer, listening, callback, m_clients, tasks, faults>>
    BY <1>22, Typed, CloseMoves
  <2> DEFINE f == poller[p].fd
  <2>2. f \in Fd /\ handle[poller[p].this].m_fd = f /\ armed[f] = "off"
    BY <2>1 DEF Served, Made, Kernel
  <2>3. UNCHANGED Registered
    BY <1>22, <2>2 DEF Close
  <2>4. \A q \in Poller : (q \in Coming)' <=> q \in Coming
    BY <2>1 DEF MovesTo
  <2>5. \A q \in Poller : (q \in Leaving)' <=> q \in Leaving
    BY <2>1 DEF MovesTo
  <2>6. Coming \in SUBSET Poller /\ Leaving \in SUBSET Poller
    OBVIOUS
  <2>7. Coming' \in SUBSET Poller /\ Leaving' \in SUBSET Poller
    OBVIOUS
  <2> HIDE DEF Coming, Leaving, Registered
  <2> QED
    BY <2>1, <2>3, <2>4, <2>5, <2>6, <2>7
<1>23. ASSUME NEW p \in Poller, EndClose(p) PROVE Tallied
  BY <1>23 DEF EndClose, Goto
<1>24. CASE UNCHANGED vars
  BY <1>24 DEF vars
<1> QED
  BY <1>1, <1>2, <1>3, <1>4, <1>5, <1>6, <1>7, <1>8, <1>9, <1>10, <1>11,
     <1>12, <1>13, <1>14, <1>15, <1>16, <1>17, <1>18, <1>19, <1>20, <1>21,
     <1>22, <1>23, <1>24
  DEF Next, Step

(* A step keeps the sum.                                                   *)
LEMMA CountedStep ==
  ASSUME Shape, Ownership, Counted, [Next]_vars
  PROVE  Counted'
<1> SUFFICES ASSUME faults' = {}
             PROVE  (m_clients + Cardinality(Coming) = Cardinality(Registered) + Cardinality(Leaving))'
  BY DEF Counted
<1>1. faults = {}
  BY FaultsStay
<1>2. Tallied
  BY <1>1, TallyStep DEF Shape, Ownership
<1>3. m_clients \in Int /\ m_clients + Cardinality(Coming) = Cardinality(Registered) + Cardinality(Leaving)
  BY <1>1 DEF Counted, Shape, TypeOK
<1>4. Coming \in SUBSET Poller /\ Leaving \in SUBSET Poller /\ Registered \in SUBSET Fd
  BY DEF Coming, Leaving, Registered
<1>5. /\ Cardinality(Coming) \in Nat /\ Cardinality(Leaving) \in Nat
      /\ Cardinality(Registered) \in Nat
  BY <1>4, Finite
<1>6. CASE NotCounted
  BY <1>3, <1>6 DEF NotCounted
<1>7. CASE Arrives
  <2>1. /\ Cardinality(Coming') = Cardinality(Coming) + 1
        /\ Cardinality(Registered') = Cardinality(Registered) + 1
        /\ UNCHANGED <<Leaving, m_clients>>
    BY <1>4, <1>7, Finite DEF Arrives
  <2> QED
    BY <1>3, <1>5, <2>1
<1>8. CASE Leaves
  <2>1. /\ Cardinality(Leaving') = Cardinality(Leaving) + 1
        /\ Cardinality(Registered') = Cardinality(Registered) - 1
        /\ UNCHANGED <<Coming, m_clients>>
    BY <1>4, <1>8, Finite DEF Leaves
  <2> QED
    BY <1>3, <1>5, <2>1
<1>9. CASE CountsIn
  <2>1. /\ Cardinality(Coming') = Cardinality(Coming) - 1 /\ m_clients' = m_clients + 1
        /\ UNCHANGED <<Leaving, Registered>>
    BY <1>4, <1>9, Finite DEF CountsIn
  <2> QED
    BY <1>3, <1>5, <2>1
<1>10. CASE CountsOut
  <2>1. /\ m_clients' = m_clients - 1 /\ UNCHANGED Registered
        /\ \/ Cardinality(Leaving') = Cardinality(Leaving) - 1 /\ UNCHANGED Coming
           \/ Cardinality(Coming') = Cardinality(Coming) + 1 /\ UNCHANGED Leaving
    BY <1>4, <1>10, Finite DEF CountsOut
  <2> QED
    BY <1>3, <1>5, <2>1
<1> QED
  BY <1>2, <1>6, <1>7, <1>8, <1>9, <1>10 DEF Tallied

-----------------------------------------------------------------------------
(* The invariant.                                                          *)

(* A step keeps what holds of any history, ...                             *)
LEMMA ShapeStep ==
  ASSUME Shape, [Next]_vars
  PROVE  Shape'
<1> USE DEF Shape
<1>1. OneAccepts' /\ Locals'
  BY AcceptsStep
<1>2. TypeOK'
  BY PollerStep, RestStep
<1>3. Kernel' /\ PlaceKept'
  BY KernelStep, PlaceStep
<1>4. NobodyIsDeaf'
  BY <1>1, DeafStep
<1> QED
  BY <1>1, <1>2, <1>3, <1>4

(* ... and, until a descriptor is armed for a stranger, who owns what.     *)
LEMMA OwnershipStep ==
  ASSUME Shape, Ownership, [Next]_vars
  PROVE  Ownership'
<1> USE DEF Shape
<1> SUFFICES ASSUME "stranger" \notin faults'
             PROVE  (/\ Connected /\ Mapped /\ Owned /\ Served /\ Made /\ Closed
                     /\ TaskFindsHandle)'
  BY DEF Ownership
<1>1. "stranger" \notin faults
  BY FaultsStay
<1>2. Connected /\ Mapped /\ Owned /\ Served /\ Made /\ Closed /\ TaskFindsHandle
  BY <1>1 DEF Ownership
<1>3. Connected' /\ Mapped' /\ Owned'
  BY <1>1, <1>2, ConnectedStep, MappedStep, OwnedStep
<1>4. Served' /\ Made' /\ Closed'
  BY <1>1, <1>2, ServedStep, MadeStep, ClosedStep
<1>5. TaskFindsHandle'
  BY <1>1, <1>2, TasksStep
<1> QED
  BY <1>3, <1>4, <1>5

(* All of it holds at first, ...                                           *)
LEMMA InitInv ==
  ASSUME Init
  PROVE  Inv
<1>1. TypeOK
  <2>1. listening \in BOOLEAN
    BY Zenon DEF Init
  <2>2. MaxClients \in Nat
    BY ConnectionAssumption
  <2>3. poller \in [Poller -> PollerState]
    <3>1. Waiting \in PollerState
      BY PollerAtTyped DEF Waiting, Label
    <3> HIDE DEF PollerState
    <3> QED
      BY <3>1 DEF Init
  <2>4. handle \in [Connection -> HandleState]
    BY DEF Init, HandleState
  <2> QED
    BY <2>1, <2>2, <2>3, <2>4 DEF Init, TypeOK, PollerState, HandleState
<1>2. \A p \in Poller :
        /\ poller[p].at = "wait" /\ poller[p].about = None /\ poller[p].this = None
        /\ ~Inside(p) /\ ~Creates(p)
  BY DEF Init, Waiting, PollerAt, Inside, Creates, InHandle, Creating
<1>3. Registered = {}
  BY DEF Init, Registered
<1>4. OneAccepts /\ NobodyIsDeaf
  BY <1>2, <1>3 DEF Init, OneAccepts, Accepts, NobodyIsDeaf
<1>5. Locals /\ Kernel /\ PlaceKept
  BY <1>2, <1>3 DEF Locals, Kernel, PlaceKept, Unarmed, At, Creating, Serving, InHandle
<1>6. Ownership
  <2>1. Connected /\ Mapped
    BY <1>2 DEF Init, Connected, Mapped
  <2>2. Owned /\ Served /\ Made /\ Closed
    BY <1>2 DEF Owned, Served, Made, Closed, Unarmed, At
  <2>3. TaskFindsHandle
    BY DEF Init, TaskFindsHandle
  <2> QED
    BY <2>1, <2>2, <2>3 DEF Ownership
<1>7. Counted
  <2>1. Coming = {} /\ Leaving = {}
    BY <1>2 DEF Coming, Leaving
  <2>2. Cardinality({}) = 0
    BY FS_EmptySet
  <2> QED
    BY <1>3, <2>1, <2>2 DEF Init, Counted
<1> QED
  BY <1>1, <1>4, <1>5, <1>6, <1>7 DEF Inv, Shape

(* ... and always.                                                         *)
LEMMA Invariance == Spec => []Inv
<1>1. Init => Inv
  BY InitInv
<1>2. Inv /\ [Next]_vars => Inv'
  <2>1. ASSUME Inv, UNCHANGED vars \/ [Next]_vars
        PROVE  Inv'
    BY <2>1, ShapeStep, OwnershipStep, CountedStep DEF Inv
  <2> QED
    BY <2>1
<1> QED
  BY <1>1, <1>2, PTL DEF Spec

(* Descriptors, registrations, handles and pollers have their types, and   *)
(* no race drives the count of clients above max_client_count.             *)
THEOREM TypeCorrect == Spec => []TypeOK
<1>1. Inv => TypeOK
  BY DEF Inv, Shape
<1> QED
  BY <1>1, Invariance, PTL

(* What is registered with epoll is armed, or a poller is at work on it    *)
(* that will arm it: whatever has gone wrong before.                       *)
THEOREM NobodyStaysDeaf == Spec => []NobodyIsDeaf
<1>1. Inv => NobodyIsDeaf
  BY DEF Inv, Shape
<1> QED
  BY <1>1, Invariance, PTL

(* EPOLLONESHOT keeps two pollers out of one RequestHandle, and all out of *)
(* one that was deleted, until a descriptor is armed for a stranger.       *)
THEOREM OnePollerAtATime == Spec => []OneAtATime
<1>1. Inv => OneAtATime
  <2> SUFFICES ASSUME Inv, "stranger" \notin faults, NEW p \in Poller, Inside(p)
               PROVE  /\ handle[poller[p].this].object = "live"
                      /\ \A q \in Poller \ {p} : Inside(q) => poller[q].this # poller[p].this
    BY DEF OneAtATime
  <2>1. Locals /\ OneAccepts /\ Owned /\ Served /\ Made
    BY DEF Inv, Shape, Ownership
  <2>2. handle[poller[p].this].object = "live"
    BY <2>1 DEF Served, Made, Unarmed, Inside, InHandle, At
  <2>3. ASSUME NEW q \in Poller \ {p}, Inside(q)
        PROVE  poller[q].this # poller[p].this
    <3>1. CASE poller[p].about # None /\ poller[q].about # None
      BY <2>1, <2>3, <3>1 DEF Served, Owned
    <3>2. CASE poller[p].about = None /\ poller[q].about # None
      BY <2>1, <2>3, <3>2 DEF Served, Owned, Unarmed
    <3>3. CASE poller[p].about # None /\ poller[q].about = None
      BY <2>1, <2>3, <3>3 DEF Served, Owned, Unarmed
    <3>4. CASE poller[p].about = None /\ poller[q].about = None
      BY <2>1, <2>3, <3>4 DEF OneAccepts, Accepts, Creates
    <3> QED
      BY <3>1, <3>2, <3>3, <3>4
  <2> QED
    BY <2>2, <2>3
<1> QED
  BY <1>1, Invariance, PTL

(* A task of the worker pool finds its handle alive as long as the peer    *)
(* has not hung up.                                                        *)
THEOREM TasksFindHandles == Spec => []TaskFindsHandle
<1>1. Inv => TaskFindsHandle
  BY DEF Inv, Ownership, TaskFindsHandle
<1> QED
  BY <1>1, Invariance, PTL

(* The count of clients is that of the registered connections whenever no  *)
(* poller is changing it, unless an update was lost.                       *)
THEOREM CountIsRight == Spec => []ClientsCounted
<1>1. Inv => ClientsCounted
  <2> SUFFICES ASSUME Inv, faults = {}, \A p \in Poller : ~Counting(p)
               PROVE  m_clients = Cardinality(Registered)
    BY DEF ClientsCounted
  <2>1. Coming = {} /\ Leaving = {}
    BY DEF Coming, Leaving, Counting, Creates, Creating, Inside, InHandle
  <2>2. Cardinality({}) = 0
    BY FS_EmptySet
  <2>3. m_clients \in Int /\ Cardinality(Registered) \in Nat
    BY Finite DEF Inv, Shape, TypeOK, Registered
  <2> QED
    BY <2>1, <2>2, <2>3 DEF Inv, Counted
<1> QED
  BY <1>1, Invariance, PTL

(* Never more than max_client_count connections are registered, unless an  *)
(* update of the count was lost.                                           *)
THEOREM LimitIsKept == Spec => []ClientLimit
<1>1. Inv => ClientLimit
  <2> SUFFICES ASSUME Inv, faults = {}
               PROVE  Cardinality(Registered) <= MaxClients
    BY DEF ClientLimit
  <2>1. /\ m_clients \in Int /\ m_clients <= MaxClients /\ MaxClients \in Nat
        /\ m_clients + Cardinality(Coming) = Cardinality(Registered) + Cardinality(Leaving)
    BY ConnectionAssumption DEF Inv, Shape, TypeOK, Counted
  <2>2. Coming \in SUBSET Poller /\ Leaving \in SUBSET Poller /\ Registered \in SUBSET Fd
    BY DEF Coming, Leaving, Registered
  <2>3. /\ Cardinality(Coming) \in Nat /\ Cardinality(Leaving) \in Nat
        /\ Cardinality(Registered) \in Nat
    BY <2>2, Finite
  <2>4. CASE Coming = {}
    BY <2>1, <2>3, <2>4, FS_EmptySet
  <2>5. CASE Coming # {}
    <3>1. PICK p \in Poller : p \in Coming
      BY <2>2, <2>5
    <3>2. Creates(p)
      BY <3>1 DEF Coming, Creates, Creating, Inside, InHandle
    <3>3. Coming = {} \union {p}
      <4>1. \A q \in Coming : q \in Poller /\ Creates(q)
        BY DEF Coming, Creates, Creating, Inside, InHandle
      <4> QED
        BY <3>1, <3>2, <4>1 DEF Inv, Shape, OneAccepts, Accepts
    <3>4. Cardinality(Coming) = 1
      BY <3>3, FS_Singleton
    <3>5. m_clients < MaxClients
      BY <3>2 DEF Inv, Shape, PlaceKept
    <3> QED
      BY <2>1, <2>3, <3>4, <3>5
  <2> QED
    BY <2>4, <2>5
<1> QED
  BY <1>1, Invariance, PTL
=============================================================================
