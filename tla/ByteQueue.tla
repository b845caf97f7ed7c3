------------------------------ MODULE ByteQueue ------------------------------
(***************************************************************************)
(* What a BufferCache promises to its callers, without the ring that keeps *)
(* the promise: a queue of bytes that is written at one end and read at    *)
(* the other.  Three points of the contract are not those of a textbook    *)
(* bounded queue, and they are the code's:                                 *)
(*   - a write that leaves at least one byte free is always accepted and   *)
(*     appended; one that would fill the cache to the last byte may be     *)
(*     refused;                                                            *)
(*   - when it is accepted it may also leave the queue empty, so that the  *)
(*     bytes written and every byte waiting before them are lost;          *)
(*   - a package is written as a header and then a body, and a refused     *)
(*     body leaves its header in the queue.                                *)
(***************************************************************************)
EXTENDS Integers, Sequences

CONSTANTS
  Capacity, (* bytes the cache holds                                        *)
  Inputs    (* the byte sequences its callers write                         *)

VARIABLES
  q,        (* the bytes waiting to be read, oldest first                   *)
  ret       (* what the last call returned: success, and the bytes read     *)

vars == <<q, ret>>

Returns(ok, bytes) == ret' = [ok |-> ok, bytes |-> bytes]

(* Writing s to a queue a is refused and leaves it as b.                   *)
Refused(a, s, b) ==
  /\ s = <<>> \/ Len(a) + Len(s) >= Capacity
  /\ b = a

(* Writing s to a queue a is accepted and leaves it as b.                  *)
Accepted(a, s, b) ==
  /\ s # <<>>
  /\ \/ Len(a) + Len(s) <= Capacity /\ b = a \o s
     \/ Len(a) + Len(s) = Capacity /\ b = <<>>

Init ==
  /\ q = <<>>
  /\ ret = [ok |-> FALSE, bytes |-> <<>>]

Put(s) ==
  \/ Refused(q, s, q') /\ Returns(FALSE, <<>>)
  \/ Accepted(q, s, q') /\ Returns(TRUE, <<>>)

(* A header and its body in one call; the middle queue is never seen.      *)
PutPackage(header, body) ==
  \/ Refused(q, header, q') /\ Returns(FALSE, <<>>)
  \/ \E middle \in {q \o header, <<>>} :
       /\ Accepted(q, header, middle)
       /\ \/ Refused(middle, body, q') /\ Returns(FALSE, <<>>)
          \/ Accepted(middle, body, q') /\ Returns(TRUE, <<>>)

(* Drop skip bytes, then hand the next n to the caller.                    *)
Take(skip, n) ==
  /\ skip + n <= Len(q)
  /\ q' = SubSeq(q, skip + n + 1, Len(q))
  /\ Returns(skip + n > 0, SubSeq(q, skip + 1, skip + n))

(* read_package finds no complete package.                                 *)
TakeNothing == q' = q /\ Returns(FALSE, <<>>)

Next ==
  \/ \E s \in Inputs : Put(s)
  \/ \E header, body \in Inputs : PutPackage(header, body)
  \/ \E skip, n \in 0..Capacity : Take(skip, n)
  \/ TakeNothing

Spec == Init /\ [][Next]_vars
=============================================================================
