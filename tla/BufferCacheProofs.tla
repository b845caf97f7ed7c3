-------------------------- MODULE BufferCacheProofs --------------------------
(***************************************************************************)
(* Proofs about BufferCache for every capacity, header size, block size    *)
(* and set of packages.                                                    *)
(***************************************************************************)
EXTENDS BufferCache, SequenceTheorems, TLAPS

-----------------------------------------------------------------------------
(* The indices of a ring.                                                  *)

(* A ring never holds more than its capacity.                              *)
LEMMA SizeBounds ==
  ASSUME NEW r \in Ring
  PROVE  size(r) \in 0..Capacity
BY CacheAssumption DEF Ring, size

(* An index stays in 0..Capacity when at most Capacity bytes are copied.   *)
LEMMA AdvanceBounds ==
  ASSUME NEW pos \in 0..Capacity, NEW n \in 0..Capacity
  PROVE  Advance(pos, n) \in 0..Capacity
BY CacheAssumption DEF Advance

(* The bytes from the head on are in slots of the buffer.                  *)
LEMMA SlotBounds ==
  ASSUME NEW pos \in 0..Capacity, NEW i \in 0..(Capacity - 1)
  PROVE  Slot(pos, i) \in Slots
BY CacheAssumption DEF Slot, Slots

(* What have_a_look shows: as many of the n bytes as there are, the first  *)
(* at the head.                                                            *)
LEMMA Look ==
  ASSUME NEW r \in Ring, NEW n \in Nat
  PROVE  /\ have_a_look(r, n) \in Seq(Byte)
         /\ Len(have_a_look(r, n)) = AtMost(n, size(r))
         /\ \A i \in 1..AtMost(n, size(r)) :
              have_a_look(r, n)[i] = r.data[Slot(r.head, i - 1)]
<1> DEFINE m == AtMost(n, size(r))
<1>1. m \in 0..Capacity
  BY SizeBounds, CacheAssumption DEF AtMost
<1>2. ASSUME NEW i \in 1..m
      PROVE  r.data[Slot(r.head, i - 1)] \in Byte
  <2>1. i - 1 \in 0..(Capacity - 1)
    BY <1>1, CacheAssumption
  <2>2. r.head \in 0..Capacity /\ r.data \in [Slots -> Byte]
    BY DEF Ring
  <2> QED
    BY <2>1, <2>2, SlotBounds
<1>3. have_a_look(r, n) = [i \in 1..m |-> r.data[Slot(r.head, i - 1)]]
  BY DEF have_a_look
<1>4. have_a_look(r, n) \in [1..m -> Byte]
  BY <1>2, <1>3
<1>5. m \in Nat
  BY <1>1, CacheAssumption
<1>6. have_a_look(r, n) \in Seq(Byte) /\ Len(have_a_look(r, n)) = m
  <2> HIDE DEF m
  <2> QED
    BY <1>3, <1>4, <1>5
<1> QED
  BY <1>3, <1>6

(* What a cache holds: size(r) bytes, the first at the head.               *)
LEMMA WholeLook ==
  ASSUME NEW r \in Ring
  PROVE  /\ Contents(r) \in Seq(Byte)
         /\ Len(Contents(r)) = size(r)
         /\ \A i \in 1..size(r) : Contents(r)[i] = r.data[Slot(r.head, i - 1)]
<1>1. size(r) \in Nat /\ AtMost(size(r), size(r)) = size(r)
  BY SizeBounds, CacheAssumption DEF AtMost
<1> QED
  BY <1>1, Look DEF Contents

(* have_a_look shows the front of what the cache holds.                    *)
LEMMA LookIsPrefix ==
  ASSUME NEW r \in Ring, NEW n \in Nat, n <= size(r)
  PROVE  have_a_look(r, n) = SubSeq(Contents(r), 1, n)
<1>1. size(r) \in Nat /\ AtMost(n, size(r)) = n
  BY SizeBounds, CacheAssumption DEF AtMost
<1>2. /\ have_a_look(r, n) \in Seq(Byte)
      /\ Len(have_a_look(r, n)) = n
      /\ \A i \in 1..n : have_a_look(r, n)[i] = r.data[Slot(r.head, i - 1)]
  BY <1>1, Look
<1>3. /\ Contents(r) \in Seq(Byte)
      /\ Len(Contents(r)) = size(r)
      /\ \A i \in 1..size(r) : Contents(r)[i] = r.data[Slot(r.head, i - 1)]
  BY WholeLook
<1>4. /\ SubSeq(Contents(r), 1, n) \in Seq(Byte)
      /\ Len(SubSeq(Contents(r), 1, n)) = n
      /\ \A i \in 1..n : SubSeq(Contents(r), 1, n)[i] = Contents(r)[i]
  BY <1>1, <1>3
<1>5. \A i \in 1..n : have_a_look(r, n)[i] = SubSeq(Contents(r), 1, n)[i]
  BY <1>1, <1>2, <1>3, <1>4
<1> QED
  BY <1>2, <1>4, <1>5, SeqEqual

-----------------------------------------------------------------------------
(* Reading and writing.                                                    *)

(* read keeps a ring a ring, removes the bytes asked for and leaves the    *)
(* rest as it was.                                                         *)
LEMMA ReadRing ==
  ASSUME NEW r \in Ring, NEW n \in Nat
  PROVE  /\ read(r, n) \in Ring
         /\ size(read(r, n)) = size(r) - AtMost(n, size(r))
<1> DEFINE m == AtMost(n, size(r))
<1>1. m \in 0..size(r) /\ size(r) \in 0..Capacity
  BY SizeBounds, CacheAssumption DEF AtMost
<1>2. /\ r.head \in 0..Capacity
      /\ r.tail \in 0..Capacity
      /\ r = [head |-> r.head, tail |-> r.tail, data |-> r.data]
      /\ r.data \in [Slots -> Byte]
  BY DEF Ring
<1>3. read(r, n) = [head |-> Advance(r.head, m), tail |-> r.tail, data |-> r.data]
  BY <1>2 DEF read
<1>4. Advance(r.head, m) \in 0..Capacity
  BY <1>1, <1>2, AdvanceBounds, CacheAssumption
<1>5. read(r, n) \in Ring
  BY <1>2, <1>3, <1>4 DEF Ring
<1>6. size(read(r, n)) = size(r) - m
  <2> HIDE DEF m
  <2> QED
    BY <1>1, <1>2, <1>3, CacheAssumption DEF size, Advance
<1> QED
  BY <1>5, <1>6

(* What waits after a read is what waited behind the bytes read.           *)
LEMMA ReadContents ==
  ASSUME NEW r \in Ring, NEW n \in Nat
  PROVE  Contents(read(r, n))
           = SubSeq(Contents(r), AtMost(n, size(r)) + 1, Len(Contents(r)))
<1> DEFINE m == AtMost(n, size(r))
           after == SubSeq(Contents(r), m + 1, Len(Contents(r)))
<1>1. m \in 0..size(r) /\ size(r) \in 0..Capacity
  BY SizeBounds, CacheAssumption DEF AtMost
<1>2. /\ Contents(read(r, n)) \in Seq(Byte)
      /\ Len(Contents(read(r, n))) = size(r) - m
  BY ReadRing, WholeLook
<1>3. /\ Contents(r) \in Seq(Byte)
      /\ Len(Contents(r)) = size(r)
  BY WholeLook
<1>4. /\ after \in Seq(Byte)
      /\ Len(after) = size(r) - m
      /\ \A i \in 1..(size(r) - m) : after[i] = Contents(r)[m + i]
  <2> HIDE DEF m
  <2> QED
    BY <1>1, <1>3, SubSeqProperties, CacheAssumption
<1>5. ASSUME NEW i \in 1..(size(r) - m)
      PROVE  Contents(read(r, n))[i] = Contents(r)[m + i]
  <2>1. r.head \in 0..Capacity
    BY DEF Ring
  <2>2. /\ read(r, n).head = Advance(r.head, m)
        /\ read(r, n).data = r.data
    BY DEF read, Ring
  <2>3. Slot(Advance(r.head, m), i - 1) = Slot(r.head, (m + i) - 1)
    <3> HIDE DEF m
    <3> QED
      BY <1>1, <2>1, CacheAssumption DEF Slot, Advance
  <2>4. Contents(read(r, n))[i] = r.data[Slot(Advance(r.head, m), i - 1)]
    <3>1. read(r, n) \in Ring /\ size(read(r, n)) = size(r) - m
      BY ReadRing
    <3>2. \A k \in 1..size(read(r, n)) :
            Contents(read(r, n))[k] = read(r, n).data[Slot(read(r, n).head, k - 1)]
      BY <3>1, WholeLook
    <3> HIDE DEF m
    <3> QED
      BY <2>2, <3>1, <3>2
  <2>5. Contents(r)[m + i] = r.data[Slot(r.head, (m + i) - 1)]
    <3> HIDE DEF m
    <3>1. m + i \in 1..size(r)
      BY <1>1, CacheAssumption
    <3>2. \A k \in 1..size(r) : Contents(r)[k] = r.data[Slot(r.head, k - 1)]
      BY WholeLook
    <3> QED
      BY <3>1, <3>2
  <2> QED
    BY <2>3, <2>4, <2>5
<1>6. Contents(read(r, n)) = after
  <2> HIDE DEF m, after
  <2> QED
    BY <1>1, <1>2, <1>4, <1>5, SeqEqual, CacheAssumption
<1> QED
  BY <1>6

(* Where the indices of a ring stand after n bytes are written to it: it    *)
(* holds n bytes more or, when n is all the space left and the indices     *)
(* meet, none at all.                                                      *)
LEMMA TailAfterWrite ==
  ASSUME NEW r \in Ring, NEW n \in Nat, n <= Capacity - size(r), n > 0,
         NEW w, w.head = r.head, w.tail = Advance(r.tail, n)
  PROVE  /\ w.tail \in 0..Capacity
         /\ \/ /\ size(w) = size(r) + n
               /\ size(r) + n <= Capacity
            \/ /\ size(w) = 0
               /\ size(r) + n = Capacity
BY CacheAssumption DEF Ring, size, Advance

(* Which byte a slot holds after n bytes are written, by its place in the  *)
(* queue: the bytes that were waiting are left alone and the i-th after    *)
(* them is the i-th written.                                               *)
LEMMA SlotAfterWrite ==
  ASSUME NEW r \in Ring, NEW n \in Nat, n <= Capacity - size(r),
         NEW i \in 1..(size(r) + n)
  PROVE  /\ Slot(r.head, i - 1) \in Slots
         /\ i <= size(r) => ~(Ahead(r.tail, Slot(r.head, i - 1)) < n)
         /\ i > size(r) => Ahead(r.tail, Slot(r.head, i - 1)) = i - size(r) - 1
<1>1. /\ r.head \in Int /\ 0 <= r.head /\ r.head <= Capacity
      /\ r.tail \in Int /\ 0 <= r.tail /\ r.tail <= Capacity
      /\ Capacity \in Int /\ Capacity > 0
  BY CacheAssumption DEF Ring
<1>2. size(r) \in Int /\ n \in Int /\ i \in Int /\ 1 <= i /\ i <= size(r) + n
  BY SizeBounds, CacheAssumption
<1>3. i <= Capacity
  BY <1>1, <1>2
<1>4. Slot(r.head, i - 1) \in Slots
  BY <1>1, <1>2, <1>3 DEF Slot, Slots
<1>5. CASE r.head <= r.tail
  <2>1. size(r) = r.tail - r.head
    BY <1>5 DEF size
  <2> QED
    BY <1>1, <1>2, <1>3, <1>4, <1>5, <2>1 DEF Slot, Ahead
<1>6. CASE ~(r.head <= r.tail)
  <2>1. size(r) = r.tail + Capacity - r.head
    BY <1>6 DEF size
  <2> QED
    BY <1>1, <1>2, <1>3, <1>4, <1>6, <2>1 DEF Slot, Ahead
<1> QED
  BY <1>5, <1>6

(* What accepts lets through.                                              *)
LEMMA AcceptBounds ==
  ASSUME NEW r \in Ring, NEW s \in Seq(Byte), accepts(r, Len(s))
  PROVE  Len(s) \in Nat /\ Len(s) <= Capacity - size(r) /\ Len(s) > 0
<1>1. Len(s) \in Nat
  BY LenProperties
<1> QED
  BY <1>1 DEF accepts

(* What accepts refuses: nothing, or what would leave no byte free.        *)
LEMMA RefuseBounds ==
  ASSUME NEW r \in Ring, NEW s \in Seq(Byte), ~accepts(r, Len(s))
  PROVE  s = <<>> \/ size(r) + Len(s) >= Capacity
<1>1. Len(s) \in Nat /\ (s # <<>> => Len(s) > 0)
  BY LenProperties, EmptySeq
<1>2. is_full(r) => size(r) = Capacity - 1
  BY CacheAssumption DEF Ring, is_full, size
<1>3. size(r) \in Nat
  BY SizeBounds, CacheAssumption
<1> QED
  BY <1>1, <1>2, <1>3, CacheAssumption DEF accepts

(* An accepted write keeps a ring a ring and adds the bytes or empties it. *)
LEMMA CopyInRing ==
  ASSUME NEW r \in Ring, NEW s \in Seq(Byte), accepts(r, Len(s))
  PROVE  /\ CopyIn(r, s) \in Ring
         /\ \/ /\ size(CopyIn(r, s)) = size(r) + Len(s)
               /\ size(r) + Len(s) <= Capacity
            \/ /\ size(CopyIn(r, s)) = 0
               /\ size(r) + Len(s) = Capacity
<1>1. Len(s) \in Nat /\ Len(s) <= Capacity - size(r) /\ Len(s) > 0
  BY AcceptBounds
<1>2. /\ r.head \in 0..Capacity
      /\ r.tail \in 0..Capacity
      /\ r.data \in [Slots -> Byte]
  BY DEF Ring
<1>3. \A j \in Slots : Ahead(r.tail, j) \in Nat
  BY <1>2, CacheAssumption DEF Slots, Ahead
<1>4. CopyIn(r, s).data \in [Slots -> Byte]
  <2>1. ASSUME NEW j \in Slots, Ahead(r.tail, j) < Len(s)
        PROVE  s[Ahead(r.tail, j) + 1] \in Byte
    <3>1. Ahead(r.tail, j) + 1 \in 1..Len(s)
      BY <1>1, <1>3, <2>1
    <3> QED
      BY <3>1, ElementOfSeq
  <2> QED
    BY <1>2, <2>1 DEF CopyIn
<1>5. /\ CopyIn(r, s).head = r.head
      /\ CopyIn(r, s).tail = Advance(r.tail, Len(s))
  BY DEF CopyIn
<1>6. /\ CopyIn(r, s).tail \in 0..Capacity
      /\ \/ /\ size(CopyIn(r, s)) = size(r) + Len(s)
            /\ size(r) + Len(s) <= Capacity
         \/ /\ size(CopyIn(r, s)) = 0
            /\ size(r) + Len(s) = Capacity
  BY <1>1, <1>5, TailAfterWrite
<1>7. CopyIn(r, s) \in Ring
  BY <1>2, <1>4, <1>5, <1>6 DEF CopyIn, Ring
<1> QED
  BY <1>6, <1>7

(* The bytes written come after the bytes that were waiting.               *)
LEMMA CopyInContents ==
  ASSUME NEW r \in Ring, NEW s \in Seq(Byte), accepts(r, Len(s)),
         size(CopyIn(r, s)) = size(r) + Len(s)
  PROVE  Contents(CopyIn(r, s)) = Contents(r) \o s
<1> DEFINE w == CopyIn(r, s)
           c == Contents(r)
           d == Contents(w)
<1>1. /\ Len(s) \in Nat /\ Len(s) <= Capacity - size(r)
      /\ size(r) \in Nat
  BY AcceptBounds, SizeBounds, CacheAssumption
<1>2. /\ w \in Ring
      /\ w.head = r.head
      /\ w.data = [j \in Slots |-> IF Ahead(r.tail, j) < Len(s)
                                     THEN s[Ahead(r.tail, j) + 1]
                                     ELSE r.data[j]]
  BY CopyInRing DEF CopyIn
<1>3. /\ d \in Seq(Byte)
      /\ Len(d) = size(r) + Len(s)
      /\ \A i \in 1..(size(r) + Len(s)) : d[i] = w.data[Slot(r.head, i - 1)]
  BY <1>2, WholeLook
<1>4. /\ c \in Seq(Byte)
      /\ Len(c) = size(r)
      /\ \A i \in 1..size(r) : c[i] = r.data[Slot(r.head, i - 1)]
  BY WholeLook
<1>5. /\ c \o s \in Seq(Byte)
      /\ Len(c \o s) = Len(c) + Len(s)
      /\ \A i \in 1..(Len(c) + Len(s)) :
           (c \o s)[i] = IF i <= Len(c) THEN c[i] ELSE s[i - Len(c)]
  <2> HIDE DEF c
  <2> QED
    BY <1>4, ConcatProperties
<1>6. ASSUME NEW i \in 1..(size(r) + Len(s))
      PROVE  d[i] = (c \o s)[i]
  <2> DEFINE j == Slot(r.head, i - 1)
  <2>1. /\ j \in Slots
        /\ i <= size(r) => ~(Ahead(r.tail, j) < Len(s))
        /\ i > size(r) => Ahead(r.tail, j) = i - size(r) - 1
    BY <1>1, SlotAfterWrite
  <2>2. d[i] = w.data[j]
    BY <1>3
  <2> HIDE DEF c, d, w, j
  <2>3. CASE i <= size(r)
    <3>1. w.data[j] = r.data[j]
      BY <1>2, <2>1, <2>3
    <3>2. i \in 1..size(r)
      BY <1>1, <2>3
    <3>3. c[i] = r.data[j]
      BY <1>4, <3>2 DEF j
    <3>4. (c \o s)[i] = c[i]
      BY <1>4, <1>5, <2>3
    <3> QED
      BY <2>2, <3>1, <3>3, <3>4
  <2>4. CASE i > size(r)
    <3>1. Ahead(r.tail, j) = i - size(r) - 1 /\ i - size(r) - 1 < Len(s)
      BY <1>1, <2>1, <2>4
    <3>2. w.data[j] = s[(i - size(r) - 1) + 1]
      BY <1>2, <2>1, <3>1
    <3>3. (i - size(r) - 1) + 1 = i - size(r)
      BY <1>1
    <3>4. (c \o s)[i] = s[i - size(r)]
      BY <1>1, <1>4, <1>5, <2>4
    <3> QED
      BY <2>2, <3>2, <3>3, <3>4
  <2>5. i \in Int /\ size(r) \in Int
    BY <1>1
  <2>6. i <= size(r) \/ i > size(r)
    BY <2>5
  <2> QED
    BY <2>3, <2>4, <2>6
<1>7. d = c \o s
  <2> HIDE DEF c, d, w
  <2> QED
    BY <1>1, <1>3, <1>4, <1>5, <1>6, SeqEqual
<1> QED
  BY <1>7

(* write and what the queue of bytes allows.                               *)
LEMMA WriteQueue ==
  ASSUME NEW r \in Ring, NEW s \in Seq(Byte)
  PROVE  /\ write(r, s) \in Ring
         /\ accepts(r, Len(s)) =>
              Queue!Accepted(Contents(r), s, Contents(write(r, s)))
         /\ ~accepts(r, Len(s)) =>
              Queue!Refused(Contents(r), s, Contents(write(r, s)))
<1>1. Len(Contents(r)) = size(r)
  BY WholeLook
<1>2. CASE accepts(r, Len(s))
  <2>1. write(r, s) = CopyIn(r, s) /\ CopyIn(r, s) \in Ring
    BY <1>2, CopyInRing DEF write
  <2>2. s # <<>>
    BY <1>2, AcceptBounds, EmptySeq
  <2>3. CASE size(CopyIn(r, s)) = size(r) + Len(s) /\ size(r) + Len(s) <= Capacity
    <3>1. Contents(CopyIn(r, s)) = Contents(r) \o s
      BY <1>2, <2>3, CopyInContents
    <3> QED
      BY <1>1, <1>2, <2>1, <2>2, <2>3, <3>1 DEF Queue!Accepted
  <2>4. CASE size(CopyIn(r, s)) = 0 /\ size(r) + Len(s) = Capacity
    <3>1. Contents(CopyIn(r, s)) = <<>>
      BY <2>1, <2>4, WholeLook, EmptySeq
    <3> QED
      BY <1>1, <1>2, <2>1, <2>2, <2>4, <3>1 DEF Queue!Accepted
  <2> QED
    BY <1>2, <2>3, <2>4, CopyInRing
<1>3. CASE ~accepts(r, Len(s))
  <2>1. write(r, s) = r
    BY <1>3 DEF write
  <2> QED
    BY <1>1, <1>3, <2>1, RefuseBounds DEF Queue!Refused
<1> QED
  BY <1>2, <1>3

-----------------------------------------------------------------------------
(* Parts of sequences of bytes.                                            *)

(* A part of a sequence of bytes is one, as long as its ends are apart.    *)
LEMMA Part ==
  ASSUME NEW s \in Seq(Byte), NEW a \in Int, NEW b \in Int,
         1 <= a, a <= b, b <= Len(s)
  PROVE  SubSeq(s, a, b) \in Seq(Byte) /\ Len(SubSeq(s, a, b)) = b - a + 1
<1>1. ASSUME NEW i \in a..b
      PROVE  s[i] \in Byte
  <2>1. Len(s) \in Nat
    BY LenProperties
  <2>2. i \in 1..Len(s)
    BY <2>1
  <2> QED
    BY <2>2, ElementOfSeq
<1>2. /\ SubSeq(s, a, b) \in Seq(Byte)
      /\ Len(SubSeq(s, a, b)) = IF a <= b THEN b - a + 1 ELSE 0
  BY <1>1, SubSeqProperties
<1> QED
  BY <1>2

(* A part of a part is a part.                                             *)
LEMMA PartOfPart ==
  ASSUME NEW s \in Seq(Byte), NEW a \in Int, NEW b \in Int,
         1 <= a, a <= b, b <= Len(s),
         NEW k \in Int, NEW l \in Int,
         1 <= k, k <= l, l <= b - a + 1
  PROVE  SubSeq(SubSeq(s, a, b), k, l) = SubSeq(s, a + (k - 1), a + (l - 1))
<1>1. Len(s) \in Nat
  BY LenProperties
<1>2. /\ a \in 1..Len(s) /\ b \in 1..Len(s)
      /\ k \in 1..(b - a + 1) /\ l \in 1..(b - a + 1)
  BY <1>1
<1> QED
  BY <1>2, SubSeqOfSubSeq

(* Dropping h bytes and taking k, and dropping both.                       *)
LEMMA SkipAndTake ==
  ASSUME NEW s \in Seq(Byte), NEW h \in Int, NEW k \in Int,
         1 <= h, 1 <= k, h + k <= Len(s)
  PROVE  /\ SubSeq(SubSeq(s, h + 1, Len(s)), 1, k) = SubSeq(s, h + 1, h + k)
         /\ SubSeq(SubSeq(s, h + 1, Len(s)), k + 1, Len(s) - h)
              = SubSeq(s, h + k + 1, Len(s))
<1> DEFINE l == Len(s)
<1>1. l \in Int /\ h + k <= l /\ h + 1 \in Int
  BY LenProperties
<1>2. l <= Len(s)
  BY <1>1
<1> HIDE DEF l
<1>3. SubSeq(SubSeq(s, h + 1, l), 1, k) = SubSeq(s, h + 1, h + k)
  <2>1. SubSeq(SubSeq(s, h + 1, l), 1, k)
          = SubSeq(s, (h + 1) + (1 - 1), (h + 1) + (k - 1))
    BY <1>1, <1>2, PartOfPart
  <2>2. (h + 1) + (1 - 1) = h + 1 /\ (h + 1) + (k - 1) = h + k
    OBVIOUS
  <2> QED
    BY <2>1, <2>2
<1>4. SubSeq(SubSeq(s, h + 1, l), k + 1, l - h) = SubSeq(s, h + k + 1, l)
  <2>1. CASE h + k = l
    <3>1. l - h < k + 1 /\ l < h + k + 1
      BY <1>1, <2>1
    <3>2. SubSeq(SubSeq(s, h + 1, l), k + 1, l - h) = <<>>
      BY <1>1, <3>1, SubSeqEmpty
    <3>3. SubSeq(s, h + k + 1, l) = <<>>
      BY <1>1, <3>1, SubSeqEmpty
    <3> QED
      BY <3>2, <3>3
  <2>2. CASE h + k < l
    <3>1. SubSeq(SubSeq(s, h + 1, l), k + 1, l - h)
            = SubSeq(s, (h + 1) + ((k + 1) - 1), (h + 1) + ((l - h) - 1))
      BY <1>1, <1>2, <2>2, PartOfPart
    <3>2. /\ (h + 1) + ((k + 1) - 1) = h + k + 1
          /\ (h + 1) + ((l - h) - 1) = l
      BY <1>1
    <3> QED
      BY <3>1, <3>2
  <2> QED
    BY <1>1, <2>1, <2>2
<1> QED
  BY <1>3, <1>4 DEF l

-----------------------------------------------------------------------------
(* The bytes of packages.                                                  *)

(* A package is a sequence of bytes, its header first.                     *)
LEMMA PackageBytes ==
  ASSUME NEW p \in Package
  PROVE  /\ Header(BodyLength[p]) \in Seq(Byte)
         /\ Len(Header(BodyLength[p])) = HeaderSize
         /\ Body(p) \in Seq(Byte)
         /\ Len(Body(p)) = BodyLength[p]
         /\ Bytes(p) \in Seq(Byte)
         /\ Len(Bytes(p)) = HeaderSize + BodyLength[p]
<1>1. BodyLength[p] \in Nat /\ HeaderSize \in Nat
  BY CacheAssumption
<1>2. /\ Header(BodyLength[p]) \in Seq(Byte)
      /\ Len(Header(BodyLength[p])) = HeaderSize
  <2>1. \A i \in 1..HeaderSize : HeaderByte(BodyLength[p], i) \in Byte
    BY <1>1 DEF HeaderByte, Byte
  <2>2. Header(BodyLength[p]) \in [1..HeaderSize -> Byte]
    BY <2>1 DEF Header
  <2> QED
    BY <1>1, <2>2
<1>3. /\ Body(p) \in Seq(Byte)
      /\ Len(Body(p)) = BodyLength[p]
  <2>1. \A i \in 1..BodyLength[p] : BodyByte(p, i) \in Byte
    BY <1>1 DEF BodyByte, Byte
  <2>2. Body(p) \in [1..BodyLength[p] -> Byte]
    BY <2>1 DEF Body
  <2> QED
    BY <1>1, <2>2
<1>4. /\ Bytes(p) \in Seq(Byte)
      /\ Len(Bytes(p)) = HeaderSize + BodyLength[p]
  <2>1. /\ Header(BodyLength[p]) \o Body(p) \in Seq(Byte)
        /\ Len(Header(BodyLength[p]) \o Body(p))
             = Len(Header(BodyLength[p])) + Len(Body(p))
    BY <1>2, <1>3, ConcatProperties
  <2> QED
    BY <1>2, <1>3, <2>1 DEF Bytes
<1> QED
  BY <1>2, <1>3, <1>4

(* A package's bytes from a to b are one of the inputs of the queue.       *)
LEMMA PartsAreChunks ==
  ASSUME NEW p \in Package,
         NEW a \in 1..(HeaderSize + BodyLength[p]),
         NEW b \in 1..(HeaderSize + BodyLength[p])
  PROVE  SubSeq(Bytes(p), a, b) \in Chunks
BY DEF Chunks

(* So are its header and its body.                                         *)
LEMMA HeaderAndBodyAreChunks ==
  ASSUME NEW p \in Package
  PROVE  Header(BodyLength[p]) \in Chunks /\ Body(p) \in Chunks
<1> DEFINE h == HeaderSize
           len == BodyLength[p]
<1>1. h \in Nat \ {0} /\ len \in Nat \ {0}
  BY CacheAssumption
<1>2. Header(len) \in Seq(Byte) /\ Len(Header(len)) = h
  BY PackageBytes
<1>3. Body(p) \in Seq(Byte) /\ Len(Body(p)) = len
  BY PackageBytes
<1>4. /\ Bytes(p) \in Seq(Byte)
      /\ Len(Bytes(p)) = h + len
      /\ \A i \in 1..(h + len) :
           Bytes(p)[i] = IF i <= h THEN Header(len)[i] ELSE Body(p)[i - h]
  <2>1. \A i \in 1..(Len(Header(len)) + Len(Body(p))) :
          (Header(len) \o Body(p))[i]
            = IF i <= Len(Header(len)) THEN Header(len)[i] ELSE Body(p)[i - Len(Header(len))]
    BY <1>2, <1>3, ConcatProperties
  <2> QED
    BY <1>2, <1>3, <2>1, PackageBytes DEF Bytes
<1> HIDE DEF h, len
<1>5. Header(len) = SubSeq(Bytes(p), 1, h)
  <2>1. /\ SubSeq(Bytes(p), 1, h) \in Seq(Byte)
        /\ Len(SubSeq(Bytes(p), 1, h)) = h
        /\ \A i \in 1..h : SubSeq(Bytes(p), 1, h)[i] = Bytes(p)[i]
    BY <1>1, <1>4
  <2> QED
    BY <1>1, <1>2, <1>4, <2>1, SeqEqual
<1>6. Body(p) = SubSeq(Bytes(p), h + 1, h + len)
  <2>1. /\ SubSeq(Bytes(p), h + 1, h + len) \in Seq(Byte)
        /\ Len(SubSeq(Bytes(p), h + 1, h + len)) = len
        /\ \A i \in 1..len : SubSeq(Bytes(p), h + 1, h + len)[i] = Bytes(p)[h + i]
    BY <1>1, <1>4
  <2>2. \A i \in 1..len : Bytes(p)[h + i] = Body(p)[i]
    BY <1>1, <1>4
  <2> QED
    BY <1>1, <1>3, <2>1, <2>2, SeqEqual
<1>7. 1 \in 1..(h + len) /\ h \in 1..(h + len) /\ h + 1 \in 1..(h + len)
      /\ h + len \in 1..(h + len)
  BY <1>1
<1> QED
  BY <1>5, <1>6, <1>7, PartsAreChunks DEF h, len

-----------------------------------------------------------------------------
(* Type correctness.                                                       *)

(* The bytes of a package from one of them to its end.                     *)
PackageTail(s) ==
  \E p \in Package : \E a \in 1..(HeaderSize + BodyLength[p]) :
    s = SubSeq(Bytes(p), a, HeaderSize + BodyLength[p])

(* What is still to come off the socket is the tail of one package: this   *)
(* is what makes every chunk the read cache is given part of a package.    *)
WireIsPackageTail == wire = <<>> \/ PackageTail(wire)

Inv == TypeOK /\ WireIsPackageTail

(* A tail is bytes, and at least one.                                      *)
LEMMA TailIsBytes ==
  ASSUME NEW s, PackageTail(s)
  PROVE  s \in Seq(Byte) /\ Len(s) \in Nat \ {0}
<1>1. PICK p \in Package : \E a \in 1..(HeaderSize + BodyLength[p]) :
        s = SubSeq(Bytes(p), a, HeaderSize + BodyLength[p])
  BY DEF PackageTail
<1>2. PICK a \in 1..(HeaderSize + BodyLength[p]) :
        s = SubSeq(Bytes(p), a, HeaderSize + BodyLength[p])
  BY <1>1
<1> DEFINE last == HeaderSize + BodyLength[p]
<1>3. last \in Int /\ a \in Int /\ 1 <= a /\ a <= last
  BY CacheAssumption
<1>4. Bytes(p) \in Seq(Byte) /\ Len(Bytes(p)) = last
  BY PackageBytes
<1> HIDE DEF last
<1>5. SubSeq(Bytes(p), a, last) \in Seq(Byte)
      /\ Len(SubSeq(Bytes(p), a, last)) = last - a + 1
  BY <1>3, <1>4, Part
<1> QED
  BY <1>2, <1>3, <1>5 DEF last

(* The tail of a package cut in two: a chunk of it and a shorter tail.     *)
LEMMA CutTail ==
  ASSUME NEW s, PackageTail(s), NEW k \in Int, 1 <= k, k <= Len(s)
  PROVE  /\ SubSeq(s, 1, k) \in Chunks
         /\ k < Len(s) => PackageTail(SubSeq(s, k + 1, Len(s)))
<1>1. PICK p \in Package : \E a \in 1..(HeaderSize + BodyLength[p]) :
        s = SubSeq(Bytes(p), a, HeaderSize + BodyLength[p])
  BY DEF PackageTail
<1>2. PICK a \in 1..(HeaderSize + BodyLength[p]) :
        s = SubSeq(Bytes(p), a, HeaderSize + BodyLength[p])
  BY <1>1
<1> DEFINE b == Bytes(p)
           last == HeaderSize + BodyLength[p]
<1>3. last \in Int /\ a \in Int /\ 1 <= a /\ a <= last
  BY CacheAssumption
<1>4. b \in Seq(Byte) /\ Len(b) = last
  BY PackageBytes
<1>5. s = SubSeq(b, a, last)
  BY <1>2
<1> HIDE DEF b, last
<1>6. Len(s) = last - a + 1
  <2>1. Len(SubSeq(b, a, last)) = last - a + 1
    BY <1>3, <1>4, Part
  <2> QED
    BY <1>5, <2>1
<1>7. SubSeq(s, 1, k) \in Chunks
  <2>1. SubSeq(SubSeq(b, a, last), 1, k) = SubSeq(b, a + (1 - 1), a + (k - 1))
    BY <1>3, <1>4, <1>6, PartOfPart
  <2>2. a + (1 - 1) \in 1..last /\ a + (k - 1) \in 1..last
    BY <1>3, <1>6
  <2> QED
    BY <1>5, <2>1, <2>2, PartsAreChunks DEF b, last
<1>8. ASSUME k < Len(s)
      PROVE  PackageTail(SubSeq(s, k + 1, Len(s)))
  <2> DEFINE l == Len(s)
  <2>1. l \in Int /\ k < l /\ l = last - a + 1 /\ a + (l - 1) = last
    BY <1>3, <1>6, <1>8
  <2> HIDE DEF l
  <2>2. SubSeq(SubSeq(b, a, last), k + 1, l)
          = SubSeq(b, a + ((k + 1) - 1), a + (l - 1))
    BY <1>3, <1>4, <2>1, PartOfPart
  <2>3. a + ((k + 1) - 1) \in 1..last
    BY <1>3, <2>1
  <2>4. SubSeq(SubSeq(b, a, last), k + 1, l) = SubSeq(b, a + ((k + 1) - 1), last)
    BY <2>1, <2>2
  <2> QED
    BY <1>5, <2>3, <2>4 DEF b, last, l, PackageTail
<1> QED
  BY <1>7, <1>8

(* A whole package is a tail of itself.                                    *)
LEMMA WholePackageIsTail ==
  ASSUME NEW p \in Package
  PROVE  PackageTail(Bytes(p))
<1>1. 1 \in 1..(HeaderSize + BodyLength[p])
  BY CacheAssumption
<1>2. Bytes(p) = SubSeq(Bytes(p), 1, HeaderSize + BodyLength[p])
  BY PackageBytes, SubSeqFull
<1> QED
  BY <1>1, <1>2 DEF PackageTail

-----------------------------------------------------------------------------
(* The steps: each keeps Inv and is a step of the queue of bytes.          *)

(* A header and its body are two writes, the second only after the first.  *)
LEMMA WritePackageStep ==
  ASSUME Inv, NEW p \in Package, WritePackage(p)
  PROVE  Inv' /\ Queue!Next
<1> DEFINE h == Header(BodyLength[p])
           b == Body(p)
           middle == write(cache, h)
<1>1. /\ h \in Seq(Byte) /\ b \in Seq(Byte)
      /\ h \in Chunks /\ b \in Chunks
  BY PackageBytes, HeaderAndBodyAreChunks
<1>2. cache \in Ring /\ role' = role /\ wire' = wire
  BY DEF Inv, TypeOK, WritePackage
<1>3. middle \in Ring
  BY <1>1, <1>2, WriteQueue
<1> HIDE DEF h, b
<1>4. CASE accepts(cache, Len(h))
  <2>1. /\ cache' = write(middle, b)
        /\ ret' = [ok |-> accepts(middle, Len(b)), bytes |-> <<>>]
    BY <1>4 DEF WritePackage, Returns, h, b
  <2>2. Queue!Accepted(Contents(cache), h, Contents(middle))
    BY <1>1, <1>2, <1>4, WriteQueue
  <2>3. /\ cache' \in Ring
        /\ accepts(middle, Len(b)) =>
             Queue!Accepted(Contents(middle), b, Contents(cache'))
        /\ ~accepts(middle, Len(b)) =>
             Queue!Refused(Contents(middle), b, Contents(cache'))
    <3> HIDE DEF middle
    <3> QED
      BY <1>1, <1>3, <2>1, WriteQueue
  <2>4. Contents(middle) \in {Contents(cache) \o h, <<>>}
    BY <2>2 DEF Queue!Accepted
  <2>5. Queue!PutPackage(h, b)
    <3> HIDE DEF middle
    <3>1. \/ /\ Queue!Refused(Contents(middle), b, Contents(cache'))
             /\ ret' = [ok |-> FALSE, bytes |-> <<>>]
          \/ /\ Queue!Accepted(Contents(middle), b, Contents(cache'))
             /\ ret' = [ok |-> TRUE, bytes |-> <<>>]
      <4>1. CASE accepts(middle, Len(b))
        <5>1. accepts(middle, Len(b)) = TRUE
          BY <4>1 DEF accepts
        <5> QED
          BY <2>1, <2>3, <5>1
      <4>2. CASE ~accepts(middle, Len(b))
        <5>1. accepts(middle, Len(b)) = FALSE
          BY <4>2 DEF accepts
        <5> QED
          BY <2>1, <2>3, <5>1
      <4> QED
        BY <4>1, <4>2
    <3> QED
      BY <2>2, <2>4, <3>1 DEF Queue!PutPackage, Queue!Returns
  <2>6. ret' \in [ok : BOOLEAN, bytes : Seq(Byte)]
    <3>1. accepts(middle, Len(b)) \in BOOLEAN
      BY DEF accepts
    <3>2. <<>> \in Seq(Byte)
      BY EmptySeq
    <3> QED
      BY <2>1, <3>1, <3>2
  <2>7. Inv'
    BY <1>2, <2>3, <2>6 DEF Inv, TypeOK, WireIsPackageTail, PackageTail
  <2> QED
    BY <1>1, <2>5, <2>7 DEF Queue!Next
<1>5. CASE ~accepts(cache, Len(h))
  <2>1. cache' = cache /\ ret' = [ok |-> FALSE, bytes |-> <<>>]
    BY <1>5 DEF WritePackage, Returns, h
  <2>2. write(cache, h) = cache
    BY <1>5 DEF write
  <2>3. Queue!Refused(Contents(cache), h, Contents(cache'))
    BY <1>1, <1>2, <1>5, <2>1, <2>2, WriteQueue
  <2>4. Queue!PutPackage(h, b)
    BY <2>1, <2>3 DEF Queue!PutPackage, Queue!Returns
  <2>5. Inv'
    BY <1>2, <2>1, EmptySeq DEF Inv, TypeOK, WireIsPackageTail, PackageTail
  <2> QED
    BY <1>1, <2>4, <2>5 DEF Queue!Next
<1> QED
  BY <1>4, <1>5

(* Draining takes what have_a_look shows from the front of the queue.      *)
LEMMA DrainStep ==
  ASSUME Inv, NEW n \in 0..BlockSize, Drain(n)
  PROVE  Inv' /\ Queue!Next
<1>1. /\ cache \in Ring /\ role' = role /\ wire' = wire
      /\ n <= size(cache)
      /\ cache' = read(cache, n)
      /\ ret' = [ok |-> n > 0, bytes |-> have_a_look(cache, n)]
  BY DEF Inv, TypeOK, Drain, Returns
<1>2. /\ n \in 0..Capacity /\ n \in Nat
      /\ AtMost(n, size(cache)) = n
  BY <1>1, SizeBounds, CacheAssumption DEF AtMost
<1>3. /\ cache' \in Ring
      /\ Contents(cache') = SubSeq(Contents(cache), n + 1, Len(Contents(cache)))
      /\ Len(Contents(cache)) = size(cache)
  BY <1>1, <1>2, ReadRing, ReadContents, WholeLook
<1>4. /\ have_a_look(cache, n) \in Seq(Byte)
      /\ have_a_look(cache, n) = SubSeq(Contents(cache), 1, n)
  BY <1>1, <1>2, LookIsPrefix, Look
<1>5. Inv'
  BY <1>1, <1>3, <1>4 DEF Inv, TypeOK, WireIsPackageTail, PackageTail
<1>6. Queue!Take(0, n)
  <2>1. 0 + n = n /\ 0 + n + 1 = n + 1 /\ 0 + 1 = 1
    BY <1>2
  <2> QED
    BY <1>1, <1>3, <1>4, <2>1 DEF Queue!Take, Queue!Returns
<1>7. 0 \in 0..Capacity
  BY CacheAssumption
<1> QED
  BY <1>2, <1>5, <1>6, <1>7 DEF Queue!Next

(* What the socket delivers is part of a package, and is one write.        *)
LEMMA ReceiveStep ==
  ASSUME Inv, NEW p \in Package, NEW n \in 1..BlockSize, Receive(p, n)
  PROVE  Inv' /\ Queue!Next
<1> DEFINE stream == IF wire = <<>> THEN Bytes(p) ELSE wire
           k == AtMost(n, Len(stream))
           chunk == SubSeq(stream, 1, k)
<1>1. PackageTail(stream)
  BY WholePackageIsTail DEF Inv, WireIsPackageTail
<1>2. /\ cache \in Ring /\ role' = role
      /\ wire' = SubSeq(stream, Len(chunk) + 1, Len(stream))
      /\ cache' = write(cache, chunk)
      /\ ret' = [ok |-> accepts(cache, Len(chunk)), bytes |-> <<>>]
  BY DEF Inv, TypeOK, Receive, Returns
<1> HIDE DEF stream
<1>3. stream \in Seq(Byte) /\ Len(stream) \in Nat \ {0}
  BY <1>1, TailIsBytes
<1>4. k \in Int /\ 1 <= k /\ k <= Len(stream)
  BY <1>3, CacheAssumption DEF AtMost
<1> HIDE DEF k
<1>5. /\ chunk \in Seq(Byte) /\ Len(chunk) = k
      /\ chunk \in Chunks
  BY <1>1, <1>3, <1>4, Part, CutTail
<1> HIDE DEF chunk
<1>6. wire' = SubSeq(stream, k + 1, Len(stream))
  BY <1>2, <1>5
<1>7. wire' \in Seq(Byte) /\ (wire' = <<>> \/ PackageTail(wire'))
  <2>1. CASE k = Len(stream)
    <3>1. k + 1 \in Int /\ Len(stream) \in Int /\ Len(stream) < k + 1
      BY <1>3, <1>4, <2>1
    <3>2. wire' = <<>>
      BY <1>6, <3>1, SubSeqEmpty
    <3> QED
      BY <3>2, EmptySeq
  <2>2. CASE k < Len(stream)
    <3>1. PackageTail(wire')
      BY <1>1, <1>4, <1>6, <2>2, CutTail
    <3> QED
      BY <3>1, TailIsBytes
  <2> QED
    BY <1>3, <1>4, <2>1, <2>2
<1>8. ret' \in [ok : BOOLEAN, bytes : Seq(Byte)]
  <2>1. accepts(cache, Len(chunk)) \in BOOLEAN
    BY DEF accepts
  <2> QED
    BY <1>2, <2>1, EmptySeq
<1>9. cache' \in Ring
  BY <1>2, <1>5, WriteQueue
<1>10. Inv'
  <2>1. TypeOK'
    BY <1>2, <1>7, <1>8, <1>9 DEF Inv, TypeOK
  <2>2. WireIsPackageTail'
    BY <1>7 DEF WireIsPackageTail, PackageTail
  <2> QED
    BY <2>1, <2>2 DEF Inv
<1>11. Queue!Put(chunk)
  <2>1. CASE accepts(cache, Len(chunk))
    <3>1. accepts(cache, Len(chunk)) = TRUE
      BY <2>1 DEF accepts
    <3>2. Queue!Accepted(Contents(cache), chunk, Contents(cache'))
      BY <1>2, <1>5, <2>1, WriteQueue
    <3> QED
      BY <1>2, <3>1, <3>2 DEF Queue!Put, Queue!Returns
  <2>2. CASE ~accepts(cache, Len(chunk))
    <3>1. accepts(cache, Len(chunk)) = FALSE
      BY <2>2 DEF accepts
    <3>2. Queue!Refused(Contents(cache), chunk, Contents(cache'))
      BY <1>2, <1>5, <2>2, WriteQueue
    <3> QED
      BY <1>2, <3>1, <3>2 DEF Queue!Put, Queue!Returns
  <2> QED
    BY <2>1, <2>2
<1> QED
  BY <1>5, <1>10, <1>11 DEF Queue!Next

(* A complete package leaves the queue whole, header first, body handed    *)
(* to the caller.                                                          *)
LEMMA ReadPackageStep ==
  ASSUME Inv, ReadPackage
  PROVE  Inv' /\ Queue!Next
<1>1. cache \in Ring /\ role' = role /\ wire' = wire
  BY DEF Inv, TypeOK, ReadPackage
<1>2. CASE cache' = cache /\ ret' = [ok |-> FALSE, bytes |-> <<>>]
  <2>1. Inv'
    BY <1>1, <1>2, EmptySeq DEF Inv, TypeOK, WireIsPackageTail, PackageTail
  <2>2. Queue!TakeNothing
    BY <1>2 DEF Queue!TakeNothing, Queue!Returns
  <2> QED
    BY <2>1, <2>2 DEF Queue!Next
<1>3. ASSUME NEW len \in CompletePackage(cache),
             cache' = read(read(cache, HeaderSize), len),
             ret' = [ok |-> TRUE, bytes |-> have_a_look(read(cache, HeaderSize), len)]
      PROVE  Inv' /\ Queue!Next
  <2> DEFINE h == HeaderSize
             c == Contents(cache)
             rest == read(cache, h)
  <2>1. /\ len \in Nat \ {0} /\ h \in Nat \ {0}
        /\ size(cache) \in 0..Capacity /\ size(cache) >= h + len
    BY <1>1, SizeBounds, CacheAssumption DEF CompletePackage, Lengths
  <2>2. AtMost(h, size(cache)) = h
    BY <2>1, CacheAssumption DEF AtMost
  <2>3. c \in Seq(Byte) /\ Len(c) = size(cache)
    BY <1>1, WholeLook
  <2>4. /\ rest \in Ring
        /\ size(rest) = size(cache) - h
        /\ Contents(rest) = SubSeq(c, h + 1, Len(c))
    BY <1>1, <2>1, <2>2, ReadRing, ReadContents
  <2>5. AtMost(len, size(rest)) = len
    <3> HIDE DEF rest, h
    <3> QED
      BY <2>1, <2>4, CacheAssumption DEF AtMost
  <2>6. /\ cache' \in Ring
        /\ Contents(cache') = SubSeq(Contents(rest), len + 1, Len(Contents(rest)))
        /\ Len(Contents(rest)) = size(cache) - h
    <3> HIDE DEF rest
    <3>1. cache' = read(rest, len)
      BY <1>3 DEF rest
    <3> QED
      BY <2>1, <2>4, <2>5, <3>1, ReadRing, ReadContents, WholeLook
  <2>7. /\ have_a_look(rest, len) \in Seq(Byte)
        /\ have_a_look(rest, len) = SubSeq(Contents(rest), 1, len)
    <3>1. len <= size(rest)
      <4> HIDE DEF rest, h
      <4> QED
        BY <2>1, <2>4, CacheAssumption
    <3> HIDE DEF rest
    <3> QED
      BY <2>1, <2>4, <3>1, Look, LookIsPrefix
  <2>8. /\ SubSeq(Contents(rest), 1, len) = SubSeq(c, h + 1, h + len)
        /\ SubSeq(Contents(rest), len + 1, Len(Contents(rest)))
             = SubSeq(c, h + len + 1, Len(c))
    <3> HIDE DEF rest, c, h
    <3>1. Len(Contents(rest)) = Len(c) - h /\ h + len <= Len(c)
      BY <2>1, <2>3, <2>6, CacheAssumption
    <3>2. /\ SubSeq(SubSeq(c, h + 1, Len(c)), 1, len) = SubSeq(c, h + 1, h + len)
          /\ SubSeq(SubSeq(c, h + 1, Len(c)), len + 1, Len(c) - h)
               = SubSeq(c, h + len + 1, Len(c))
      BY <2>1, <2>3, <3>1, SkipAndTake
    <3> QED
      BY <2>4, <3>1, <3>2
  <2>9. /\ h + len <= Len(c) /\ (h + len > 0) = TRUE
        /\ Contents(cache') = SubSeq(c, h + len + 1, Len(c))
        /\ ret' = [ok |-> TRUE, bytes |-> SubSeq(c, h + 1, h + len)]
    <3>1. h + len <= Len(c) /\ (h + len > 0) = TRUE
      <4> HIDE DEF c, h
      <4> QED
        BY <2>1, <2>3, CacheAssumption
    <3> HIDE DEF c
    <3> QED
      BY <1>3, <2>6, <2>7, <2>8, <3>1
  <2>10. Queue!Take(h, len)
    BY <2>9 DEF Queue!Take, Queue!Returns
  <2>11. Inv'
    BY <1>1, <1>3, <2>6, <2>7 DEF Inv, TypeOK, WireIsPackageTail, PackageTail
  <2>12. h \in 0..Capacity /\ len \in 0..Capacity
    BY <2>1, CacheAssumption
  <2> QED
    BY <2>10, <2>11, <2>12 DEF Queue!Next
<1> QED
  BY <1>2, <1>3 DEF ReadPackage, Returns

-----------------------------------------------------------------------------
(* The theorems.                                                           *)

LEMMA InitInv == Init => Inv
<1> SUFFICES ASSUME Init PROVE Inv
  OBVIOUS
<1>1. Capacity \in Nat /\ 0 \in 0..Capacity
  BY CacheAssumption
<1>2. cache \in Ring
  BY <1>1 DEF Init, EmptyRing, Ring, Byte
<1> QED
  BY <1>2, EmptySeq DEF Init, Inv, TypeOK, WireIsPackageTail

(* An initial cache is an empty queue.                                     *)
LEMMA InitRefines == Init => Queue!Init
<1> SUFFICES ASSUME Init PROVE Queue!Init
  OBVIOUS
<1>1. cache \in Ring
  BY InitInv DEF Inv, TypeOK
<1>2. size(cache) = 0
  BY DEF Init, EmptyRing, size
<1>3. Contents(cache) = <<>>
  BY <1>1, <1>2, WholeLook, EmptySeq
<1> QED
  BY <1>3 DEF Init, Queue!Init

(* Every step keeps Inv and is a step of the queue or changes nothing.     *)
LEMMA Step == Inv /\ [Next]_vars => Inv' /\ [Queue!Next]_(Queue!vars)
<1> SUFFICES ASSUME Inv, [Next]_vars
             PROVE  Inv' /\ [Queue!Next]_(Queue!vars)
  OBVIOUS
<1>1. ASSUME NEW p \in Package, WritePackage(p)
      PROVE  Inv' /\ Queue!Next
  BY <1>1, WritePackageStep
<1>2. ASSUME NEW n \in 0..BlockSize, Drain(n)
      PROVE  Inv' /\ Queue!Next
  BY <1>2, DrainStep
<1>3. ASSUME NEW p \in Package, NEW n \in 1..BlockSize, Receive(p, n)
      PROVE  Inv' /\ Queue!Next
  BY <1>3, ReceiveStep
<1>4. CASE ReadPackage
  BY <1>4, ReadPackageStep
<1>5. CASE UNCHANGED vars
  <2>1. Inv'
    BY <1>5 DEF vars, Inv, TypeOK, WireIsPackageTail, PackageTail
  <2>2. UNCHANGED Queue!vars
    BY <1>5 DEF vars, Queue!vars
  <2> QED
    BY <2>1, <2>2
<1> QED
  BY <1>1, <1>2, <1>3, <1>4, <1>5 DEF Next

(* The ring's indices stay inside the buffer and every slot holds a byte,  *)
(* for every capacity and whatever calls write, read_package and the       *)
(* socket make.                                                            *)
THEOREM TypeCorrect == Spec => []TypeOK
<1>1. Inv => TypeOK
  BY DEF Inv
<1> QED
  BY <1>1, InitInv, Step, PTL DEF Spec

(* The ring of buffer.cc implements the queue of bytes its callers take it *)
(* for, for every capacity, header size, block size and set of packages.   *)
THEOREM Refines == Spec => ImplementsByteQueue
BY InitInv, InitRefines, Step, PTL DEF Spec, Queue!Spec, ImplementsByteQueue
=============================================================================
