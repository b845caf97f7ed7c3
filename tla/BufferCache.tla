----------------------------- MODULE BufferCache -----------------------------
(***************************************************************************)
(* BufferCacheBase and BufferCache (RPC_util/buffer.cc): the ring of bytes *)
(* between the threads that build messages and the thread that polls a     *)
(* socket.  Client and server each own two per connection:                 *)
(*   a write cache: worker or caller threads write_package, and the poll   *)
(*     thread drains it with read as the socket takes bytes;               *)
(*   a read cache: the poll thread writes what the socket delivers and     *)
(*     takes out whole packages with read_package.                         *)
(* Every call but have_a_look holds m_mutex from start to end, so each is  *)
(* one action here.                                                        *)
(*                                                                         *)
(* A package is a header (magic and body length) and a body.  A byte is    *)
(* named by where it comes from; the two header fields are one run of      *)
(* HeaderSize bytes that nothing but a header contains.                    *)
(***************************************************************************)
EXTENDS Integers, Sequences

CONSTANTS
  Capacity,    (* cache_size: bytes of the ring                             *)
  HeaderSize,  (* sizeof(Header)                                            *)
  BlockSize,   (* BLOCK_SIZE: the most a socket read or write moves at once *)
  Package,     (* the messages that may be sent                             *)
  BodyLength   (* [Package -> bytes of its body]                            *)

ASSUME CacheAssumption ==
  /\ Capacity \in Nat \ {0}
  /\ HeaderSize \in Nat \ {0}
  /\ BlockSize \in Nat \ {0}
  /\ BodyLength \in [Package -> Nat \ {0}]

VARIABLES
  cache,  (* the ring: m_head, m_tail and the bytes of m_buffer             *)
  ret,    (* what the last call returned                                    *)
  role,   (* "write" or "read": which of the two uses this cache has        *)
  wire    (* read role: the bytes of a package still to come off the socket *)

vars == <<cache, ret, role, wire>>

-----------------------------------------------------------------------------
(* The bytes of a package.                                                 *)

Zero == <<"zero", 0, 0>>   \* buffer_calloc fills the ring with it

HeaderByte(len, i) == <<"header", len, i>>
BodyByte(p, i) == <<"body", p, i>>

Byte ==
  {Zero} \union ({"header"} \X Nat \X Nat) \union ({"body"} \X Package \X Nat)

Header(len) == [i \in 1..HeaderSize |-> HeaderByte(len, i)]
Body(p) == [i \in 1..BodyLength[p] |-> BodyByte(p, i)]
Lengths == {BodyLength[p] : p \in Package}

Bytes(p) == Header(BodyLength[p]) \o Body(p)

-----------------------------------------------------------------------------
(* The ring as a value.  m_head and m_tail run over 0..Capacity: a copy    *)
(* that ends at the last slot leaves its index at Capacity, and the next   *)
(* one wraps.                                                              *)

Slots == 0..(Capacity - 1)

Ring == [head : 0..Capacity, tail : 0..Capacity, data : [Slots -> Byte]]

EmptyRing == [head |-> 0, tail |-> 0, data |-> [j \in Slots |-> Zero]]

size(r) ==
  IF r.head <= r.tail THEN r.tail - r.head ELSE r.tail + Capacity - r.head

\* The remainder by the capacity is computed only after the first return.
is_full(r) == r.tail + 1 = r.head

(* The slot i bytes on from an index, and how many bytes on a slot is.     *)
Slot(pos, i) == IF pos + i < Capacity THEN pos + i ELSE pos + i - Capacity
Ahead(pos, j) == IF pos <= j THEN j - pos ELSE j + Capacity - pos

\* Mutant: the index is not wrapped at the end of the ring.
AdvanceUnwrapped(pos, n) == pos + n

(* The index after n bytes are copied in or out.                           *)
Advance(pos, n) == IF n <= Capacity - pos THEN pos + n ELSE n - (Capacity - pos)

AtMost(n, limit) == IF n <= limit THEN n ELSE limit

\* Mutant: the free space is one byte off.
acceptsOneTooMany(r, n) == ~is_full(r) /\ n <= Capacity - size(r) + 1 /\ n > 0

accepts(r, n) == ~is_full(r) /\ n <= Capacity - size(r) /\ n > 0

(* The ring after n accepted bytes s are copied in at the tail.            *)
CopyIn(r, s) ==
  [head |-> r.head,
   tail |-> Advance(r.tail, Len(s)),
   data |-> [j \in Slots |-> IF Ahead(r.tail, j) < Len(s)
                               THEN s[Ahead(r.tail, j) + 1]
                               ELSE r.data[j]]]

write(r, s) == IF accepts(r, Len(s)) THEN CopyIn(r, s) ELSE r

have_a_look(r, n) ==
  [i \in 1..AtMost(n, size(r)) |-> r.data[Slot(r.head, i - 1)]]

read(r, n) == [r EXCEPT !.head = Advance(r.head, AtMost(n, size(r)))]

(* The body length read_package finds in the first header of the cache, if *)
(* the bytes there are a header and the whole package has arrived.         *)
CompletePackage(r) ==
  {len \in Lengths : /\ have_a_look(r, HeaderSize) = Header(len)
                     /\ size(r) >= HeaderSize + len}

Contents(r) == have_a_look(r, size(r))

-----------------------------------------------------------------------------
(* The calls.                                                              *)

Returns(ok, bytes) == ret' = [ok |-> ok, bytes |-> bytes]

Init ==
  /\ cache = EmptyRing
  /\ ret = [ok |-> FALSE, bytes |-> <<>>]
  /\ role \in {"write", "read"}
  /\ wire = <<>>

(* write_package: the header, then the body; the first refusal ends it.    *)
WritePackage(p) ==
  LET header == Header(BodyLength[p])
      middle == write(cache, header)
  IN  /\ role = "write"
      /\ UNCHANGED <<role, wire>>
      /\ IF accepts(cache, Len(header))
         THEN /\ cache' = write(middle, Body(p))
              /\ Returns(accepts(middle, Len(Body(p))), <<>>)
         ELSE /\ UNCHANGED cache
              /\ Returns(FALSE, <<>>)

(* write_socket: the socket took n bytes of what have_a_look showed, and   *)
(* read removes them.                                                      *)
Drain(n) ==
  /\ role = "write"
  /\ UNCHANGED <<role, wire>>
  /\ n <= size(cache)
  /\ cache' = read(cache, n)
  /\ Returns(n > 0, have_a_look(cache, n))

(* read_socket: the socket delivers the next n bytes of its stream, cut    *)
(* anywhere, and they are written to the read cache.  A refused chunk is   *)
(* gone: the return value of write is not looked at.                       *)
Receive(p, n) ==
  LET stream == IF wire = <<>> THEN Bytes(p) ELSE wire
      chunk == SubSeq(stream, 1, AtMost(n, Len(stream)))
  IN  /\ role = "read"
      /\ UNCHANGED role
      /\ wire' = SubSeq(stream, Len(chunk) + 1, Len(stream))
      /\ cache' = write(cache, chunk)
      /\ Returns(accepts(cache, Len(chunk)), <<>>)

(* read_package: skip the header and hand out the body, or do nothing.     *)
ReadPackage ==
  /\ role = "read"
  /\ UNCHANGED <<role, wire>>
  /\ \/ /\ CompletePackage(cache) = {}
        /\ UNCHANGED cache
        /\ Returns(FALSE, <<>>)
     \/ \E len \in CompletePackage(cache) :
          LET body == read(cache, HeaderSize)
          IN  /\ cache' = read(body, len)
              /\ Returns(TRUE, have_a_look(body, len))

Next ==
  \/ \E p \in Package : WritePackage(p)
  \/ \E n \in 0..BlockSize : Drain(n)
  \/ \E p \in Package, n \in 1..BlockSize : Receive(p, n)
  \/ ReadPackage

Spec == Init /\ [][Next]_vars

-----------------------------------------------------------------------------
(* The ring's indices stay within the buffer (one past the last slot       *)
(* included) and every slot holds a byte, whatever calls are made.         *)
TypeOK ==
  /\ cache \in Ring
  /\ ret \in [ok : BOOLEAN, bytes : Seq(Byte)]
  /\ role \in {"write", "read"}
  /\ wire \in Seq(Byte)

(* The ring behaves as the queue of bytes its callers take it for: bytes   *)
(* come out in the order they went in, none twice and none invented, a     *)
(* write that leaves a byte free succeeds, and the only way to lose bytes  *)
(* is an accepted write that fills the ring to the last byte.              *)
Chunks ==
  UNION { {SubSeq(Bytes(p), a, b) : a, b \in 1..(HeaderSize + BodyLength[p])} :
          p \in Package }

Queue == INSTANCE ByteQueue WITH
  q <- Contents(cache),
  Inputs <- Chunks

ImplementsByteQueue == Queue!Spec

(* No accepted call loses bytes: what was waiting before a write is still  *)
(* waiting after it.  The program says so of a cache without room: the     *)
(* request is rejected ("local cache full,reject request"), not taken and  *)
(* dropped with everything queued before it.                               *)
NothingWaitingIsLost ==
  [][role = "write" /\ size(cache') < size(cache) => ret'.bytes # <<>>]_vars
=============================================================================
