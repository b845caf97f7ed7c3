--------------------------- MODULE ServerConnection ---------------------------
(***************************************************************************)
(* The life of the server's connections: IoService's epoll loop, run by    *)
(* epoll_workers threads at once; ServerService, which accepts and counts  *)
(* the clients; and RequestHandle, which registers a connection, reads     *)
(* until the peer hangs up, and holds the only reference to itself.        *)
(*                                                                         *)
(* Every descriptor is registered EPOLLONESHOT: an event disarms it until  *)
(* the poller that took the event arms it again.  That, and no lock, is    *)
(* what keeps two pollers out of one handle.                               *)
(*                                                                         *)
(* A step is one access to what threads share.  epoll_wait reports one     *)
(* event at a time here: those of a longer batch stay disarmed until their *)
(* turn, as they stay armed here while no poller takes them.  The bytes on *)
(* the connection are PackageStream's; a read here finds a request or the  *)
(* end of the stream.                                                      *)
(***************************************************************************)
EXTENDS Integers, FiniteSets

CONSTANTS
  Poller,          (* the threads that run IoService::poll                  *)
  Fd,              (* the descriptors accept may return                     *)
  Connection,      (* the connections peers make, numbered in the order in  *)
                   (* which they reach the queue that accept takes them     *)
                   (* from, and the handles they get                        *)
  MaxClients,      (* max_client_count                                      *)
  KernelMayFail,   (* epoll_ctl may refuse to add a descriptor, and accept  *)
                   (* to open one, with one free                            *)
  None

ASSUME ConnectionAssumption ==
  /\ IsFiniteSet(Poller)
  /\ Fd \subseteq Nat \ {0} /\ IsFiniteSet(Fd)
  /\ Connection \subseteq Nat
  /\ MaxClients \in Nat
  /\ KernelMayFail \in BOOLEAN
  /\ None \notin Fd \union Connection

VARIABLES
  peer,       (* [Connection -> what its peer has done]                     *)
  listening,  (* the listening descriptor is armed                          *)
  file,       (* [Fd -> the connection it is open on]                       *)
  armed,      (* [Fd -> its registration with epoll]                        *)
  callback,   (* m_callback_map: [Fd -> the handle whose callback it holds] *)
  handle,     (* [Connection -> the RequestHandle: object, m_fd, m_self]    *)
  m_clients,  (* the clients ServerService counts                           *)
  poller,     (* [Poller -> where it is, and its locals]                    *)
  tasks,      (* the handles that a queued task of the worker pool calls    *)
  faults      (* what has gone wrong so far: "torn" an update of m_clients  *)
              (* was lost; "stranger" a poller called the handle of, or     *)
              (* armed the descriptor for, a connection that is not the     *)
              (* one its event was about                                    *)

kernel == <<file, armed, listening>>
vars == <<peer, kernel, callback, handle, m_clients, poller, tasks, faults>>

-----------------------------------------------------------------------------
(* A poller: its label, the descriptor of its event and the connection it  *)
(* was open on then, the handle whose code it runs, the value of m_clients *)
(* it holds in a register, and whether its copy in close_connection is the *)
(* handle's last reference.                                                *)
PollerAt(label, fd, about, this) ==
  [at |-> label, fd |-> fd, about |-> about, this |-> this, count |-> 0,
   copy |-> FALSE]
Waiting == PollerAt("wait", None, None, None)

Init ==
  /\ peer = [c \in Connection |-> "calling"]
  /\ listening = TRUE
  /\ file = [f \in Fd |-> None]
  /\ armed = [f \in Fd |-> "off"]
  /\ callback = [f \in Fd |-> None]
  /\ handle = [c \in Connection |-> [object |-> "none", m_fd |-> None, m_self |-> FALSE]]
  /\ m_clients = 0
  /\ poller = [p \in Poller |-> Waiting]
  /\ tasks = {}
  /\ faults = {}

At(p, label) == poller[p].at = label
Goto(p, label) == poller' = [poller EXCEPT ![p].at = label]

(* m_mutex of IoService is held from epoll_ctl to the insertion in the map.*)
Unlocked == \A p \in Poller : ~At(p, "map")

(* The peers send requests and hang up.  All of them call from the start:  *)
(* one that calls later is one that no poller has been woken for yet.      *)
Peer(c) ==
  /\ \/ peer[c] = "quiet" /\ peer' = [peer EXCEPT ![c] = "sent"]
     \/ peer[c] \in {"quiet", "sent"} /\ peer' = [peer EXCEPT ![c] = "gone"]
  /\ UNCHANGED <<kernel, callback, handle, m_clients, poller, tasks, faults>>

(* A worker runs worker_caller, whatever has become of the handle.         *)
Worker(c) ==
  /\ c \in tasks
  /\ tasks' = tasks \ {c}
  /\ UNCHANGED <<peer, kernel, callback, handle, m_clients, poller, faults>>

-----------------------------------------------------------------------------
(* IoService::poll                                                         *)

Polls == UNCHANGED <<peer, file, callback, handle, m_clients, tasks>>

(* epoll_wait reports the listening descriptor.                            *)
WakeToAccept(p) ==
  /\ At(p, "wait") /\ listening
  /\ \E c \in Connection : peer[c] = "calling"
  /\ listening' = FALSE
  /\ Goto(p, "accept")
  /\ UNCHANGED <<armed, faults>> /\ Polls

\* Mutant: events are not EPOLLONESHOT.
WakeWithoutDisarming(p, f) ==
  /\ At(p, "wait") /\ armed[f] = "armed"
  /\ poller' = [poller EXCEPT ![p] =
       PollerAt(IF peer[file[f]] \in {"sent", "gone"} THEN "in" ELSE "out",
                f, file[f], None)]
  /\ UNCHANGED <<armed, listening, faults>> /\ Polls

(* epoll_wait reports a client's descriptor.  It is always writable; it is *)
(* readable when the peer has sent something or is gone.                   *)
WakeToServe(p, f) ==
  /\ At(p, "wait") /\ armed[f] = "armed"
  /\ armed' = [armed EXCEPT ![f] = "disarmed"]
  /\ poller' = [poller EXCEPT ![p] =
       PollerAt(IF peer[file[f]] \in {"sent", "gone"} THEN "in" ELSE "out",
                f, file[f], None)]
  /\ UNCHANGED <<listening, faults>> /\ Polls

(* response_event looks the callback up, and calls it if there is one:     *)
(* that of whatever connection the descriptor now is open on.              *)
Dispatch(p, event, label, otherwise) ==
  LET h == callback[poller[p].fd]
  IN  /\ At(p, event)
      /\ poller' = [poller EXCEPT ![p].this = h,
                                  ![p].at = IF h = None THEN otherwise ELSE label]
      /\ faults' = IF h \in {None, poller[p].about}
                   THEN faults ELSE faults \union {"stranger"}
      /\ UNCHANGED <<armed, listening>> /\ Polls

\* Mutant: a descriptor that was handled stays disarmed.
RearmNothing(p) ==
  /\ At(p, "rearm") /\ Unlocked
  /\ poller' = [poller EXCEPT ![p] = Waiting]
  /\ UNCHANGED <<armed, listening, faults>> /\ Polls

(* modify_event arms the descriptor again, if it is registered: on         *)
(* whatever connection it now is.                                          *)
Rearm(p) ==
  LET f == poller[p].fd
      registered == armed[f] # "off"
  IN  /\ At(p, "rearm") /\ Unlocked
      /\ armed' = IF registered THEN [armed EXCEPT ![f] = "armed"] ELSE armed
      /\ faults' = IF registered /\ file[f] # poller[p].about
                   THEN faults \union {"stranger"} ELSE faults
      /\ poller' = [poller EXCEPT ![p] = Waiting]
      /\ UNCHANGED listening /\ Polls

RearmListening(p) ==
  /\ At(p, "listen") /\ Unlocked
  /\ listening' = TRUE
  /\ poller' = [poller EXCEPT ![p] = Waiting]
  /\ UNCHANGED <<armed, faults>> /\ Polls

-----------------------------------------------------------------------------
(* ServerService::new_connection                                           *)

Free == {f \in Fd : file[f] = None}

(* accept takes the connection that has waited longest, and returns the    *)
(* lowest free descriptor; it fails if there is none, or for want of       *)
(* memory, and then the connection waits on.                               *)
Accept(p, c) ==
  /\ At(p, "accept") /\ peer[c] = "calling"
  /\ \A d \in Connection : peer[d] = "calling" => c <= d
  /\ \E f \in Free :
       /\ \A g \in Free : f <= g
       /\ file' = [file EXCEPT ![f] = c]
       /\ poller' = [poller EXCEPT ![p] = PollerAt("check", f, None, c)]
  /\ peer' = [peer EXCEPT ![c] = "quiet"]
  /\ UNCHANGED <<armed, listening, callback, handle, m_clients, tasks, faults>>

AcceptFails(p) ==
  /\ At(p, "accept") /\ (Free = {} \/ KernelMayFail)
  /\ Goto(p, "listen")
  /\ UNCHANGED <<armed, listening, faults>> /\ Polls

\* Mutant: one client more than the limit.
IsRoomForOneMore == m_clients <= MaxClients

IsRoom == m_clients < MaxClients

(* Too many clients: close it.                                             *)
Reject(p) ==
  /\ At(p, "check") /\ ~IsRoom
  /\ file' = [file EXCEPT ![poller[p].fd] = None]
  /\ Goto(p, "listen")
  /\ UNCHANGED <<peer, armed, listening, callback, handle, m_clients, tasks, faults>>

(* Room for one more: construct a RequestHandle.                           *)
Construct(p) ==
  /\ At(p, "check") /\ IsRoom
  /\ handle' = [handle EXCEPT ![poller[p].this] =
       [object |-> "live", m_fd |-> poller[p].fd, m_self |-> FALSE]]
  /\ Goto(p, "add")
  /\ UNCHANGED <<peer, kernel, callback, m_clients, tasks, faults>>

(* register_io: epoll_ctl, after which events arrive; then the map.        *)
AddEvent(p) ==
  /\ At(p, "add") /\ Unlocked /\ file[poller[p].fd] # None
  /\ armed' = [armed EXCEPT ![poller[p].fd] = "armed"]
  /\ Goto(p, "map")
  /\ UNCHANGED <<listening, faults>> /\ Polls

(* epoll_ctl fails for want of memory, or of the descriptor, if a handle   *)
(* that two pollers closed has closed it meanwhile.  The constructor       *)
(* closes the connection, before the handle is counted or knows itself.    *)
AddEventFails(p) ==
  /\ At(p, "add") /\ Unlocked
  /\ KernelMayFail \/ file[poller[p].fd] = None
  /\ Goto(p, "unregister")
  /\ UNCHANGED <<armed, listening, faults>> /\ Polls

MapCallback(p) ==
  /\ At(p, "map")
  /\ callback' = [callback EXCEPT ![poller[p].fd] = poller[p].this]
  /\ Goto(p, "self")
  /\ UNCHANGED <<peer, kernel, handle, m_clients, tasks, faults>>

SetDeleteHandle(p) ==
  /\ At(p, "self")
  /\ handle' = [handle EXCEPT ![poller[p].this].m_self = TRUE]
  /\ Goto(p, "more")
  /\ UNCHANGED <<peer, kernel, callback, m_clients, tasks, faults>>

-----------------------------------------------------------------------------
(* RequestHandle: read_socket, write_socket and close_connection           *)

\* Mutant: a read of less than a block is taken for a disconnection.
ReadSocketOnce(p) ==
  LET c == file[poller[p].fd]
  IN  /\ At(p, "read") /\ c # None /\ peer[c] \in {"sent", "gone"}
      /\ tasks' = IF peer[c] = "sent" THEN tasks \union {poller[p].this} ELSE tasks
      /\ peer' = [peer EXCEPT ![c] = IF @ = "sent" THEN "quiet" ELSE @]
      /\ Goto(p, "unregister")
      /\ UNCHANGED <<kernel, callback, handle, m_clients, faults>>

(* read blocks while there is nothing to read; on a closed descriptor it   *)
(* fails, which read_socket does not take for a disconnection.             *)
ReadSocket(p) ==
  LET c == file[poller[p].fd]
      found == IF c = None THEN "error" ELSE peer[c]
  IN  /\ At(p, "read")
      /\ \/ found = "error" /\ Goto(p, "out") /\ UNCHANGED <<peer, tasks>>
         \/ /\ found = "sent"
            /\ peer' = [peer EXCEPT ![c] = "quiet"]
            /\ tasks' = tasks \union {poller[p].this}
            /\ Goto(p, "out")
         \/ found = "gone" /\ Goto(p, "unregister") /\ UNCHANGED <<peer, tasks>>
      /\ UNCHANGED <<kernel, callback, handle, m_clients, faults>>

WriteSocket(p) ==
  /\ At(p, "write")
  /\ Goto(p, "rearm")
  /\ UNCHANGED <<armed, listening, faults>> /\ Polls

(* unregister_io: the map keeps its entry if epoll_ctl fails.              *)
Unregister(p) ==
  LET f == handle[poller[p].this].m_fd
      registered == f # None /\ armed[f] # "off"
  IN  /\ At(p, "unregister") /\ Unlocked
      /\ IF registered
         THEN /\ armed' = [armed EXCEPT ![f] = "off"]
              /\ callback' = [callback EXCEPT ![f] = None]
         ELSE UNCHANGED <<armed, callback>>
      /\ Goto(p, "less")
      /\ UNCHANGED <<peer, file, listening, handle, m_clients, tasks, faults>>

\* Mutant: a client that leaves is counted in again.
LoadMoreOnly(p) ==
  /\ \/ At(p, "more") /\ poller' = [poller EXCEPT ![p].at = "counted",
                                                  ![p].count = m_clients + 1]
     \/ At(p, "less") /\ poller' = [poller EXCEPT ![p].at = "discounted",
                                                  ![p].count = m_clients + 1]
  /\ UNCHANGED <<armed, listening, faults>> /\ Polls

(* ++m_clients and --m_clients: a load and a store, and no lock.           *)
Load(p) ==
  /\ \/ At(p, "more") /\ poller' = [poller EXCEPT ![p].at = "counted",
                                                  ![p].count = m_clients + 1]
     \/ At(p, "less") /\ poller' = [poller EXCEPT ![p].at = "discounted",
                                                  ![p].count = m_clients - 1]
  /\ UNCHANGED <<armed, listening, faults>> /\ Polls

\* Mutant: a client that leaves is not taken off the count.
StoreMoreOnly(p) ==
  /\ \/ At(p, "counted") /\ Goto(p, "listen") /\ m_clients' = poller[p].count
     \/ At(p, "discounted") /\ Goto(p, "close") /\ UNCHANGED m_clients
  /\ UNCHANGED <<peer, kernel, callback, handle, tasks, faults>>

Store(p) ==
  LET before == poller[p].count + (IF At(p, "counted") THEN -1 ELSE 1)
  IN  /\ \/ At(p, "counted") /\ Goto(p, "listen")
         \/ At(p, "discounted") /\ Goto(p, "close")
      /\ m_clients' = poller[p].count
      /\ faults' = IF m_clients = before THEN faults ELSE faults \union {"torn"}
      /\ UNCHANGED <<peer, kernel, callback, handle, tasks>>

(* The last reference moves to a local, and the descriptor is closed.      *)
Close(p) ==
  LET h == poller[p].this
      f == handle[h].m_fd
  IN  /\ At(p, "close")
      /\ handle' = [handle EXCEPT ![h].m_self = FALSE]
      /\ poller' = [poller EXCEPT ![p].at = "end", ![p].copy = handle[h].m_self]
      /\ file' = IF f = None THEN file ELSE [file EXCEPT ![f] = None]
      /\ armed' = IF f = None THEN armed ELSE [armed EXCEPT ![f] = "off"]
      /\ UNCHANGED <<peer, listening, callback, m_clients, tasks, faults>>

(* m_fd is -1, and the handle goes with the local; then back to poll, or   *)
(* to new_connection from the constructor.                                 *)
EndClose(p) ==
  LET h == poller[p].this IN
  /\ At(p, "end")
  /\ handle' = [handle EXCEPT ![h].m_fd = None,
                              ![h].object = IF poller[p].copy THEN "deleted" ELSE @]
  /\ Goto(p, IF poller[p].about = None THEN "self" ELSE "out")
  /\ UNCHANGED <<peer, kernel, callback, m_clients, tasks, faults>>

-----------------------------------------------------------------------------
Step(p) ==
  \/ WakeToAccept(p) \/ (\E f \in Fd : WakeToServe(p, f))
  \/ Dispatch(p, "in", "read", "out") \/ Dispatch(p, "out", "write", "rearm")
  \/ Rearm(p) \/ RearmListening(p)
  \/ (\E c \in Connection : Accept(p, c)) \/ AcceptFails(p) \/ Reject(p)
  \/ Construct(p) \/ AddEvent(p) \/ AddEventFails(p) \/ MapCallback(p)
  \/ SetDeleteHandle(p)
  \/ ReadSocket(p) \/ WriteSocket(p)
  \/ Unregister(p) \/ Load(p) \/ Store(p) \/ Close(p) \/ EndClose(p)

Next ==
  \/ \E c \in Connection : Peer(c) \/ Worker(c)
  \/ \E p \in Poller : Step(p)

(* Every poller runs, and epoll's list of ready descriptors is a queue: one *)
(* that stays armed is reported however busy the others are.  The peers do *)
(* as they like.                                                           *)
Fairness ==
  /\ \A p \in Poller : WF_vars(Step(p))
  /\ \A f \in Fd : SF_vars(\E p \in Poller : WakeToServe(p, f))

Spec == Init /\ [][Next]_vars /\ Fairness

-----------------------------------------------------------------------------
InHandle ==
  {"read", "write", "unregister", "less", "discounted", "close", "end"}
Creating == {"add", "map", "self", "more", "counted"}
Serving == {"in", "out", "rearm"} \union InHandle

(* Descriptors, registrations, handles and pollers are what they are, and  *)
(* no race drives the count above the limit (below zero it may: a handle   *)
(* that two pollers close is taken off twice).                             *)
TypeOK ==
  /\ peer \in [Connection -> {"calling", "quiet", "sent", "gone"}]
  /\ listening \in BOOLEAN
  /\ file \in [Fd -> Connection \union {None}]
  /\ armed \in [Fd -> {"off", "armed", "disarmed"}]
  /\ callback \in [Fd -> Connection \union {None}]
  /\ handle \in [Connection -> [object : {"none", "live", "deleted"},
                                m_fd : Fd \union {None}, m_self : BOOLEAN]]
  /\ m_clients \in Int /\ m_clients <= MaxClients
  /\ poller \in [Poller -> [at : {"wait", "accept", "check", "listen"}
                                   \union Creating \union Serving,
                            fd : Fd \union {None},
                            about : Connection \union {None},
                            this : Connection \union {None},
                            count : Int, copy : BOOLEAN]]
  /\ tasks \subseteq Connection
  /\ faults \subseteq {"torn", "stranger"}

Registered == {f \in Fd : armed[f] # "off"}

(* The count of clients is right whenever nobody is changing it, unless an *)
(* update was lost: a connection is counted out as often as it was counted *)
(* in, the ones that failed to register and the ones that are closed       *)
(* before they are counted in included.                                    *)
Inside(p) == poller[p].at \in InHandle
Creates(p) ==
  poller[p].at \in Creating \/ (Inside(p) /\ poller[p].about = None)
Counting(p) == Creates(p) \/ poller[p].at \in {"unregister", "less", "discounted"}

ClientsCounted ==
  faults = {} /\ (\A p \in Poller : ~Counting(p)) =>
    m_clients = Cardinality(Registered)

(* Never more clients are served than max_client_count allows, unless an   *)
(* update of the count was lost.                                           *)
ClientLimit == faults = {} => Cardinality(Registered) <= MaxClients

(* EPOLLONESHOT never leaves a connection deaf: what is registered is      *)
(* armed, or a poller is at work on it and will arm it.                    *)
NobodyIsDeaf ==
  /\ listening \/ \E p \in Poller :
       poller[p].at \in {"accept", "check", "listen"} \/ Creates(p)
  /\ \A f \in Registered :
       armed[f] = "armed" \/ \E p \in Poller : poller[p].fd = f /\ poller[p].at \in Serving

(* EPOLLONESHOT keeps two pollers out of one handle, and no poller runs    *)
(* the code of a handle that was deleted, until a descriptor was armed on  *)
(* behalf of a connection that was closed and replaced meanwhile.          *)
OneAtATime ==
  "stranger" \notin faults =>
    \A p \in Poller : Inside(p) =>
      /\ handle[poller[p].this].object = "live"
      /\ \A q \in Poller \ {p} : Inside(q) => poller[q].this # poller[p].this

(* A task of the worker pool holds a bare pointer to its handle.  It finds *)
(* the handle alive as long as the peer has not hung up: nothing but a     *)
(* hang-up ends a connection.                                              *)
TaskFindsHandle ==
  "stranger" \notin faults =>
    \A c \in tasks : peer[c] # "gone" => handle[c].object = "live"

(* A connection whose peer hangs up is closed and its descriptor freed.    *)
Open(c) == \E f \in Fd : file[f] = c

HangUpIsNoticed ==
  \A c \in Connection :
    Open(c) /\ peer[c] = "gone" ~> ~Open(c) \/ "stranger" \in faults

(* A handle deletes itself when it has no connection ("delete self when no *)
(* connection").                                                           *)
DeletesItself ==
  \A c \in Connection :
    /\ handle[c].object # "none" /\ handle[c].m_fd = None
    /\ \A p \in Poller : poller[p].this # c
    => handle[c].object = "deleted"
=============================================================================
