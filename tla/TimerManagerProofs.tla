-------------------------- MODULE TimerManagerProofs --------------------------
(***************************************************************************)
(* Proofs about TimerManager: that its types are right, whatever timers    *)
(* there are, and, for at most four of them, that no due timer is left in  *)
(* the heap and that the vector implements the set of TimerSet.            *)
(***************************************************************************)
EXTENDS TimerManager, FiniteSetTheorems, SequenceTheorems, TLAPS

-----------------------------------------------------------------------------
(* Sequences without repetition, and their orders.                         *)

Distinct(s) == \A i, j \in 1..Len(s) : s[i] = s[j] => i = j

(* The numbers up to n are n.                                              *)
LEMMA UpTo ==
  ASSUME NEW n \in Nat
  PROVE  IsFiniteSet(1..n) /\ Cardinality(1..n) = n
<1>1. 1 \in Int /\ n \in Int
  OBVIOUS
<1>2. IsFiniteSet(1..n) /\ Cardinality(1..n) = IF 1 > n THEN 0 ELSE n - 1 + 1
  BY <1>1, FS_Interval
<1> QED
  BY <1>2

(* A sequence without repetition is as long as its range has members.      *)
LEMMA RangeCounts ==
  ASSUME NEW E, NEW q \in Seq(E), Distinct(q)
  PROVE  /\ Range(q) \subseteq E
         /\ IsFiniteSet(Range(q)) /\ Cardinality(Range(q)) = Len(q)
<1>1. q \in [1..Len(q) -> Range(q)] /\ Range(q) \subseteq E /\ Len(q) \in Nat
  BY DEF Range
<1>2. q \in Surjection(1..Len(q), Range(q))
  BY <1>1 DEF Surjection, Range
<1>3. q \in Injection(1..Len(q), Range(q))
  BY <1>1 DEF Injection, IsInjective, Distinct
<1>4. IsFiniteSet(1..Len(q)) /\ Cardinality(1..Len(q)) = Len(q)
  BY <1>1, UpTo
<1> QED
  BY <1>1, <1>2, <1>3, <1>4, FS_Surjection

(* SetToSeqs of such a range reorders the sequence.                        *)
Reorders(s, q) ==
  /\ Len(s) = Len(q) /\ Distinct(s)
  /\ \A i \in 1..Len(q) : \E j \in 1..Len(q) : s[i] = q[j]
  /\ \A j \in 1..Len(q) : \E i \in 1..Len(q) : s[i] = q[j]

(* Every order of what is in q reorders q.                                 *)
LEMMA ReordersRange ==
  ASSUME NEW E, NEW q \in Seq(E), Distinct(q), NEW s \in SetToSeqs(Range(q))
  PROVE  s \in Seq(E) /\ Reorders(s, q)
<1> DEFINE n == Len(q)
<1>1. n \in Nat /\ IsFiniteSet(Range(q)) /\ Cardinality(Range(q)) = n /\ Range(q) \subseteq E
  BY RangeCounts
<1>2. s \in [1..n -> Range(q)] /\ \A i, j \in 1..n : i # j => s[i] # s[j]
  BY <1>1 DEF SetToSeqs
<1>3. s \in Injection(1..n, Range(q))
  BY <1>2 DEF Injection, IsInjective
<1>4. Cardinality(1..n) = n
  BY <1>1, UpTo
<1>5. s \in Surjection(1..n, Range(q))
  BY <1>1, <1>3, <1>4, FS_Injection
<1>6. s \in Seq(E) /\ Len(s) = n
  BY <1>1, <1>2
<1>7. \A j \in 1..n : \E i \in 1..n : s[i] = q[j]
  <2>1. \A t \in Range(q) : \E i \in 1..n : s[i] = t
    BY <1>5 DEF Surjection
  <2>2. \A j \in 1..n : q[j] \in Range(q)
    BY <1>1 DEF Range
  <2> QED
    BY <2>1, <2>2
<1>8. \A i \in 1..n : \E j \in 1..n : s[i] = q[j]
  BY <1>2 DEF Range
<1> QED
  BY <1>2, <1>6, <1>7, <1>8 DEF Reorders, Distinct

Joined(a, b, x, c) == a \o b \o <<x>> \o c

HasParts(r, a, b, x, c) ==
  /\ Len(r) = Len(a) + Len(b) + 1 + Len(c)
  /\ \A i \in 1..Len(a) : r[i] = a[i]
  /\ \A i \in 1..Len(b) : r[Len(a) + i] = b[i]
  /\ r[Len(a) + Len(b) + 1] = x
  /\ \A i \in 1..Len(c) : r[Len(a) + Len(b) + 1 + i] = c[i]

(* The positions of three sequences joined to one entry.                   *)
LEMMA JoinAt ==
  ASSUME NEW E, NEW a \in Seq(E), NEW b \in Seq(E), NEW c \in Seq(E), NEW x \in E
  PROVE  /\ Joined(a, b, x, c) \in Seq(E)
         /\ HasParts(Joined(a, b, x, c), a, b, x, c)
BY DEF Joined, HasParts

Popped(m, n, pos, s) ==
  SubSeq(m, 1, pos - 1) \o s \o <<m[pos]>> \o SubSeq(m, n + 1, Len(m))

(* What pop_heap leaves where: s stands where the popped entry and those   *)
(* behind it stood.                                                        *)
LEMMA PoppedAt ==
  ASSUME NEW E, NEW m \in Seq(E), NEW n \in 1..Len(m), NEW pos \in 1..n,
         NEW s \in Seq(E), Len(s) = n - pos, NEW r, r = Popped(m, n, pos, s)
  PROVE  /\ r \in Seq(E) /\ Len(r) = Len(m)
         /\ \A i \in 1..Len(m) : i < pos \/ i > n => r[i] = m[i]
         /\ \A i \in pos..(n - 1) : r[i] = s[i - pos + 1]
         /\ r[n] = m[pos]
<1> DEFINE a == SubSeq(m, 1, pos - 1)
           c == SubSeq(m, n + 1, Len(m))
<1>0. r = Joined(a, s, m[pos], c)
  BY DEF Popped, Joined
<1>1. a \in Seq(E) /\ Len(a) = pos - 1 /\ \A i \in 1..(pos - 1) : a[i] = m[i]
  OBVIOUS
<1>2. c \in Seq(E) /\ Len(c) = Len(m) - n /\ \A i \in 1..(Len(m) - n) : c[i] = m[n + i]
  OBVIOUS
<1>3. a \in Seq(E) /\ c \in Seq(E) /\ m[pos] \in E
  BY <1>1, <1>2
<1> HIDE DEF a, c
<1>4. /\ r \in Seq(E) /\ Len(r) = Len(a) + Len(s) + 1 + Len(c)
      /\ \A i \in 1..Len(a) : r[i] = a[i]
      /\ \A i \in 1..Len(s) : r[Len(a) + i] = s[i]
      /\ r[Len(a) + Len(s) + 1] = m[pos]
      /\ \A i \in 1..Len(c) : r[Len(a) + Len(s) + 1 + i] = c[i]
  <2>1. r \in Seq(E) /\ HasParts(r, a, s, m[pos], c)
    BY ONLY <1>0, <1>3, JoinAt, s \in Seq(E)
  <2> QED
    BY <2>1 DEF HasParts
<1>5. Len(r) = Len(m)
  BY <1>1, <1>2, <1>4
<1>6. \A i \in 1..Len(m) : i < pos => r[i] = m[i]
  BY <1>1, <1>4
<1>7. ASSUME NEW i \in 1..Len(m), i > n PROVE r[i] = m[i]
  <2> DEFINE k == i - n
  <2>1. k \in 1..Len(c) /\ k \in 1..(Len(m) - n) /\ Len(a) + Len(s) + 1 + k = i /\ n + k = i
    BY <1>1, <1>2, <1>7
  <2> HIDE DEF k
  <2>2. r[Len(a) + Len(s) + 1 + k] = c[k]
    BY ONLY <1>4, <2>1
  <2>3. c[k] = m[n + k]
    BY ONLY <1>2, <2>1
  <2> QED
    BY ONLY <2>1, <2>2, <2>3
<1>8. ASSUME NEW i \in pos..(n - 1) PROVE r[i] = s[i - pos + 1]
  <2> DEFINE k == i - pos + 1
  <2>1. k \in 1..Len(s) /\ Len(a) + k = i
    BY <1>1
  <2> HIDE DEF k
  <2>2. r[i] = s[k]
    BY <1>4, <2>1
  <2> QED
    BY <2>2 DEF k
<1>9. Len(a) + Len(s) + 1 = n
  BY <1>1
<1>10. r[n] = m[pos]
  BY <1>4, <1>9
<1> QED
  BY <1>4, <1>5, <1>6, <1>7, <1>8, <1>10

-----------------------------------------------------------------------------
(* The vector as sets: the entries that run, and the timers there are.     *)

Entry == [timer : Timer, expired : Nat]
Entries == {m_timers[i] : i \in Active}

Vector ==
  /\ m_timers \in Seq(Entry)
  /\ \A i, j \in 1..Len(m_timers) : At(i) = At(j) => i = j

(* The entries that run are in the order of a heap.                        *)
InOrder == \A i \in 2..m_actived_timers : m_timers[i \div 2].expired <= m_timers[i].expired

(* The types of the vector are part of TypeOK.                             *)
LEMMA Typed == TypeOK => Vector
BY DEF TypeOK, Vector, Entry, IsInjective, At

(* What Pop makes of the vector.                                           *)
LEMMA PopMoves ==
  ASSUME Vector, m_actived_timers \in 1..Len(m_timers), NEW pos \in Active, Pop(pos)
  PROVE  /\ m_actived_timers' = m_actived_timers - 1
         /\ \E s \in Seq(Entry) :
              /\ Reorders(s, SubSeq(m_timers, pos + 1, m_actived_timers))
              /\ Heap(SubSeq(m_timers, pos, m_actived_timers)) => Heap(s)
              /\ m_timers' = Popped(m_timers, m_actived_timers, pos, s)
<1> DEFINE n == m_actived_timers
           part == SubSeq(m_timers, pos, n)
           others == SubSeq(m_timers, pos + 1, n)
<1>1. n \in 1..Len(m_timers) /\ pos \in 1..n /\ m_timers \in Seq(Entry)
  BY DEF Active, Vector
<1>2. Tail(part) = others
  <2>1. part \in Seq(Entry) /\ Len(part) = n - pos + 1 /\ part # <<>>
        /\ \A i \in 1..(n - pos + 1) : part[i] = m_timers[pos - 1 + i]
    BY ONLY <1>1
  <2>2. others \in Seq(Entry) /\ Len(others) = n - pos
        /\ \A i \in 1..(n - pos) : others[i] = m_timers[pos + i]
    BY <1>1
  <2> HIDE DEF part, others
  <2>3. Tail(part) \in Seq(Entry) /\ Len(Tail(part)) = n - pos
        /\ \A i \in 1..(n - pos) : Tail(part)[i] = part[i + 1]
    BY <1>1, <2>1
  <2>4. ASSUME NEW i \in 1..(n - pos) PROVE Tail(part)[i] = others[i]
    <3> DEFINE k == i + 1
    <3>1. k \in 1..(n - pos + 1) /\ pos - 1 + k = pos + i
      BY <1>1
    <3>2. Tail(part)[i] = part[k]
      BY <2>3
    <3> HIDE DEF k
    <3>3. part[k] = m_timers[pos + i]
      BY <2>1, <3>1
    <3> QED
      BY <2>2, <3>2, <3>3
  <2> QED
    BY ONLY <2>2, <2>3, <2>4, SeqEqual
<1>3. others \in Seq(Entry) /\ Distinct(others)
  <2>1. others \in Seq(Entry) /\ Len(others) = n - pos
        /\ \A i \in 1..(n - pos) : others[i] = m_timers[pos + i]
    BY <1>1
  <2> HIDE DEF others
  <2>2. ASSUME NEW i \in 1..(n - pos), NEW j \in 1..(n - pos), others[i] = others[j]
        PROVE  i = j
    <3>1. pos + i \in 1..Len(m_timers) /\ pos + j \in 1..Len(m_timers)
      BY <1>1
    <3>2. At(pos + i) = At(pos + j)
      BY <2>1, <2>2 DEF At
    <3>3. pos + i = pos + j
      BY <3>1, <3>2 DEF Vector
    <3> QED
      BY <1>1, <3>3
  <2> QED
    BY <2>1, <2>2 DEF Distinct
<1>4. n' = n - 1
  BY DEF Pop
<1>5. PICK s \in IF Heap(part) THEN Arranged(Range(others)) ELSE SetToSeqs(Range(others)) :
        m_timers' = Popped(m_timers, n, pos, s)
  BY <1>2 DEF Pop, Popped
<1>6. s \in SetToSeqs(Range(others)) /\ (Heap(part) => Heap(s))
  BY <1>5 DEF Arranged
<1>7. s \in Seq(Entry) /\ Reorders(s, others)
  BY <1>3, <1>6, ReordersRange
<1> QED
  BY <1>4, <1>5, <1>6, <1>7

(* A timer that is popped is the only one that runs no more, and the       *)
(* vector has the timers it had.                                           *)
LEMMA PopResult ==
  ASSUME Vector, m_actived_timers \in 1..Len(m_timers), NEW pos \in Active, Pop(pos)
  PROVE  /\ Vector' /\ Len(m_timers') = Len(m_timers)
         /\ m_actived_timers' = m_actived_timers - 1
         /\ Entries' = Entries \ {m_timers[pos]}
         /\ Members' = Members
         /\ pos # 1 => m_timers'[1] = m_timers[1]
         /\ pos = 1 /\ InOrder => InOrder'
<1> DEFINE n == m_actived_timers
           part == SubSeq(m_timers, pos, n)
           others == SubSeq(m_timers, pos + 1, n)
<1>1. n \in 1..Len(m_timers) /\ pos \in 1..n /\ m_timers \in Seq(Entry) /\ n' = n - 1
  BY PopMoves DEF Active, Vector
<1>2. PICK s \in Seq(Entry) :
        /\ Reorders(s, others)
        /\ Heap(part) => Heap(s)
        /\ m_timers' = Popped(m_timers, n, pos, s)
  BY PopMoves
<1>3. Len(others) = n - pos /\ \A i \in 1..(n - pos) : others[i] = m_timers[pos + i]
  BY <1>1
<1> HIDE DEF others, part
<1>4. /\ Len(s) = n - pos /\ Distinct(s)
      /\ \A i \in 1..(n - pos) : \E j \in 1..(n - pos) : s[i] = others[j]
      /\ \A j \in 1..(n - pos) : \E i \in 1..(n - pos) : s[i] = others[j]
  <2>1. Reorders(s, others) /\ Len(others) = n - pos
    BY <1>2, <1>3
  <2> QED
    BY ONLY <2>1 DEF Reorders
<1>5. /\ m_timers' \in Seq(Entry) /\ Len(m_timers') = Len(m_timers)
      /\ \A i \in 1..Len(m_timers) : i < pos \/ i > n => m_timers'[i] = m_timers[i]
      /\ \A i \in pos..(n - 1) : m_timers'[i] = s[i - pos + 1]
      /\ m_timers'[n] = m_timers[pos]
  <2>1. Len(s) = n - pos /\ m_timers' = Popped(m_timers, n, pos, s)
    BY <1>2, <1>4
  <2> QED
    BY ONLY <1>1, <2>1, s \in Seq(Entry), PoppedAt
<1>6. ASSUME NEW i \in pos..(n - 1) PROVE \E j \in (pos + 1)..n : m_timers'[i] = m_timers[j]
  <2>1. PICK k \in 1..(n - pos) : s[i - pos + 1] = others[k]
    <3>1. i - pos + 1 \in 1..(n - pos)
      BY <1>1
    <3> QED
      BY <1>4, <3>1
  <2>2. m_timers'[i] = m_timers[pos + k] /\ pos + k \in (pos + 1)..n
    BY <1>1, <1>3, <1>5, <2>1
  <2> QED
    BY <2>2
<1>7. ASSUME NEW j \in (pos + 1)..n PROVE \E i \in pos..(n - 1) : m_timers'[i] = m_timers[j]
  <2> DEFINE k == j - pos
  <2>1. k \in 1..(n - pos) /\ pos + k = j
    BY <1>1
  <2> HIDE DEF k
  <2>2. PICK i \in 1..(n - pos) : s[i] = others[k]
    BY <1>4, <2>1
  <2> DEFINE l == pos - 1 + i
  <2>3. l \in pos..(n - 1) /\ l - pos + 1 = i
    BY <1>1
  <2> HIDE DEF l
  <2>4. m_timers'[l] = m_timers[j]
    BY <1>3, <1>5, <2>1, <2>2, <2>3
  <2> QED
    BY <2>3, <2>4
<1>8. ASSUME NEW i \in pos..(n - 1), NEW j \in pos..(n - 1), m_timers'[i] = m_timers'[j]
      PROVE  i = j
  <2>1. i - pos + 1 \in 1..(n - pos) /\ j - pos + 1 \in 1..(n - pos)
    BY <1>1
  <2>2. s[i - pos + 1] = s[j - pos + 1]
    BY <1>5, <1>8
  <2>3. i - pos + 1 = j - pos + 1
    BY <1>4, <2>1, <2>2 DEF Distinct
  <2> QED
    BY <1>1, <2>3
<1> DEFINE Place(i) == IF i < pos \/ i > n THEN {i} ELSE IF i = n THEN {pos} ELSE (pos + 1)..n
<1>9. ASSUME NEW i \in 1..Len(m_timers)
      PROVE  \E k \in 1..Len(m_timers) : k \in Place(i) /\ m_timers'[i] = m_timers[k]
  <2>1. CASE i < pos \/ i > n
    BY <1>5, <2>1
  <2>2. CASE i = n
    BY <1>1, <1>5, <2>2
  <2>3. CASE i \in pos..(n - 1)
    <3>1. \E k \in (pos + 1)..n : m_timers'[i] = m_timers[k]
      BY <1>6, <2>3
    <3>2. ~(i < pos \/ i > n) /\ i # n /\ (pos + 1)..n \subseteq 1..Len(m_timers)
      BY <1>1, <2>3
    <3> QED
      BY <3>1, <3>2
  <2> QED
    BY <1>1, <2>1, <2>2, <2>3
<1>10. ASSUME NEW i \in 1..Len(m_timers), NEW j \in 1..Len(m_timers),
              m_timers'[i].timer = m_timers'[j].timer
       PROVE  i = j
  <2>1. PICK k \in 1..Len(m_timers) : k \in Place(i) /\ m_timers'[i] = m_timers[k]
    BY <1>9
  <2>2. PICK l \in 1..Len(m_timers) : l \in Place(j) /\ m_timers'[j] = m_timers[l]
    BY <1>9
  <2>3. k = l
    BY <1>10, <2>1, <2>2 DEF Vector, At
  <2>4. CASE i \in pos..(n - 1) /\ j \in pos..(n - 1)
    BY <1>8, <2>1, <2>2, <2>3, <2>4
  <2>5. CASE ~(i \in pos..(n - 1) /\ j \in pos..(n - 1))
    BY <1>1, <2>1, <2>2, <2>3, <2>5
  <2> QED
    BY <2>4, <2>5
<1>11. Vector'
  BY <1>5, <1>10 DEF Vector, At
<1>12. Entries' = Entries \ {m_timers[pos]}
  <2>1. ASSUME NEW i \in 1..(n - 1) PROVE m_timers'[i] \in Entries \ {m_timers[pos]}
    <3>1. PICK k \in 1..Len(m_timers) : k \in Place(i) /\ m_timers'[i] = m_timers[k]
      <4>1. i \in 1..Len(m_timers)
        BY <1>1
      <4> QED
        BY <1>9, <4>1
    <3>2. k \in 1..n /\ k # pos
      BY <1>1, <3>1
    <3>3. m_timers[k] # m_timers[pos]
      BY <1>1, <3>2 DEF Vector, At
    <3> QED
      BY <3>1, <3>2, <3>3 DEF Entries, Active
  <2>2. ASSUME NEW k \in 1..n, k # pos PROVE \E i \in 1..(n - 1) : m_timers'[i] = m_timers[k]
    <3>1. CASE k < pos
      BY <1>1, <1>5, <3>1
    <3>2. CASE k > pos
      BY <1>1, <1>7, <3>2
    <3> QED
      BY <1>1, <2>2, <3>1, <3>2
  <2>3. Active' = 1..(n - 1) /\ Active = 1..n
    BY <1>1 DEF Active
  <2>4. Entries' = {m_timers'[i] : i \in 1..(n - 1)}
    BY <2>3 DEF Entries
  <2>5. Entries = {m_timers[i] : i \in 1..n}
    BY <2>3 DEF Entries
  <2>6. Entries \ {m_timers[pos]} \subseteq Entries'
    BY <1>1, <2>2, <2>4, <2>5
  <2>7. Entries' \subseteq Entries \ {m_timers[pos]}
    BY <2>1, <2>4
  <2> QED
    BY <2>6, <2>7
<1>13. Members' = Members
  <2>1. \A i \in 1..Len(m_timers) :
          \E k \in 1..Len(m_timers) : m_timers'[i] = m_timers[k]
    BY <1>9
  <2>2. ASSUME NEW k \in 1..Len(m_timers)
        PROVE  \E i \in 1..Len(m_timers) : m_timers'[i] = m_timers[k]
    <3>1. CASE k < pos \/ k > n
      BY <1>5, <3>1
    <3>2. CASE k = pos
      BY <1>1, <1>5, <3>2
    <3>3. CASE k \in (pos + 1)..n
      <4>1. pos..(n - 1) \subseteq 1..Len(m_timers)
        BY <1>1
      <4> QED
        BY <1>7, <3>3, <4>1
    <3> QED
      BY <1>1, <3>1, <3>2, <3>3
  <2>3. DOMAIN m_timers = 1..Len(m_timers) /\ DOMAIN m_timers' = 1..Len(m_timers)
    BY <1>1, <1>5
  <2>4. Members' = {m_timers'[i].timer : i \in 1..Len(m_timers)}
    BY <2>3 DEF Members, At
  <2>5. Members = {m_timers[i].timer : i \in 1..Len(m_timers)}
    BY <2>3 DEF Members, At
  <2>6. ASSUME NEW t, t \in Members' PROVE t \in Members
    <3>1. PICK i \in 1..Len(m_timers) : t = m_timers'[i].timer
      BY <2>4, <2>6
    <3> QED
      BY <2>1, <2>5, <3>1
  <2>7. ASSUME NEW t, t \in Members PROVE t \in Members'
    <3>1. PICK k \in 1..Len(m_timers) : t = m_timers[k].timer
      BY <2>5, <2>7
    <3> QED
      BY <2>2, <2>4, <3>1
  <2> QED
    BY <2>6, <2>7
<1>14. pos # 1 => m_timers'[1] = m_timers[1]
  BY <1>1, <1>5
<1>15. ASSUME pos = 1, InOrder PROVE InOrder'
  <2>1. part \in Seq(Entry) /\ Len(part) = n /\ \A i \in 1..n : part[i] = m_timers[i]
    BY <1>1, <1>15 DEF part
  <2>2. ASSUME NEW i \in 2..n PROVE part[i \div 2].expired <= part[i].expired
    <3>1. i \div 2 \in 1..n
      BY <1>1
    <3> QED
      BY <1>1, <1>15, <2>1, <3>1 DEF InOrder
  <2>3. Heap(s)
    <3>1. Heap(part)
      BY <2>1, <2>2 DEF Heap
    <3> QED
      BY <1>2, <3>1
  <2>4. ASSUME NEW i \in 2..(n - 1)
        PROVE  m_timers'[i \div 2].expired <= m_timers'[i].expired
    <3>1. i \div 2 \in 1..(n - 1) /\ i \in 1..(n - 1)
      BY <1>1
    <3>2. \A k \in 1..(n - 1) : k - 1 + 1 = k
      BY <1>1
    <3>3. \A k \in 1..(n - 1) : m_timers'[k] = s[k]
      BY <1>5, <1>15, <3>2
    <3>4. s[i \div 2].expired <= s[i].expired
      BY <1>1, <1>4, <1>15, <2>3 DEF Heap
    <3> QED
      BY <3>1, <3>3, <3>4
  <2> QED
    BY <1>1, <2>4 DEF InOrder
<1> QED
  BY <1>1, <1>5, <1>11, <1>12, <1>13, <1>14, <1>15

-----------------------------------------------------------------------------
(* Starting a timer.                                                       *)

LEMMA EnableMoves ==
  ASSUME Vector, m_actived_timers \in 0..Len(m_timers), NEW t \in Timer,
         NEW expired \in Nat, Enable(t, expired), NEW found \in Inactive, At(found) = t
  PROVE  LET n == m_actived_timers + 1
             q == Append(SubSeq(m_timers, 1, n - 1), [timer |-> t, expired |-> expired])
         IN  /\ m_actived_timers' = n
             /\ \E s \in Seq(Entry) :
                  /\ Reorders(s, q) /\ Heap(s)
                  /\ m_timers' =
                       s \o SubSeq([m_timers EXCEPT ![found] = m_timers[n]], n + 1, Len(m_timers))
<1> DEFINE n == m_actived_timers + 1
           entry == [timer |-> t, expired |-> expired]
           first == SubSeq(m_timers, 1, n - 1)
           q == Append(first, entry)
           pos == CHOOSE i \in Inactive : At(i) = t
           moved == [m_timers EXCEPT ![pos] = m_timers[n]]
<1>1. found \in n..Len(m_timers) /\ n \in 1..Len(m_timers) /\ m_timers \in Seq(Entry)
  BY DEF Inactive, Vector
<1>2. pos = found
  <2>1. pos \in Inactive /\ At(pos) = t
    BY Zenon
  <2>2. Inactive \subseteq 1..Len(m_timers)
    BY <1>1 DEF Inactive
  <2> HIDE DEF pos
  <2> QED
    BY <2>1, <2>2 DEF Vector
<1>3. entry \in Entry
  BY DEF Entry
<1>4. first \in Seq(Entry) /\ Len(first) = n - 1 /\ \A i \in 1..(n - 1) : first[i] = m_timers[i]
  BY <1>1
<1> HIDE DEF first
<1>5. /\ q \in Seq(Entry) /\ Len(q) = n /\ q[n] = entry
      /\ \A i \in 1..(n - 1) : q[i] = m_timers[i]
  BY <1>1, <1>3, <1>4
<1>6. Distinct(q)
  <2>1. \A i \in 1..(n - 1) : q[i].timer # t
    BY <1>1, <1>5 DEF Vector, At, Inactive
  <2>2. ASSUME NEW i \in 1..n, NEW j \in 1..n, q[i] = q[j] PROVE i = j
    <3>1. CASE i = n
      BY <1>1, <1>5, <2>1, <2>2, <3>1
    <3>2. CASE j = n
      BY <1>1, <1>5, <2>1, <2>2, <3>2
    <3>3. CASE i # n /\ j # n
      <4>1. i \in 1..(n - 1) /\ j \in 1..(n - 1) /\ i \in 1..Len(m_timers) /\ j \in 1..Len(m_timers)
        BY <1>1, <3>3
      <4>2. m_timers[i] = m_timers[j]
        BY <1>5, <2>2, <4>1
      <4> QED
        BY <4>1, <4>2 DEF Vector, At
    <3> QED
      BY <3>1, <3>2, <3>3
  <2> QED
    BY <1>5, <2>2 DEF Distinct
<1>7. Range(q) = Range(first) \union {entry}
  <2>1. DOMAIN q = 1..n /\ DOMAIN first = 1..(n - 1)
    BY <1>4, <1>5
  <2>2. \A i \in 1..(n - 1) : q[i] = first[i]
    BY <1>4, <1>5
  <2>3. 1..n = 1..(n - 1) \union {n}
    BY <1>1
  <2> HIDE DEF q, entry
  <2> QED
    BY <1>5, <2>1, <2>2, <2>3 DEF Range
<1>8. /\ n = m_actived_timers'
      /\ \E s \in Arranged(Range(first) \union {entry}) :
           m_timers' = s \o SubSeq(moved, n + 1, Len(moved))
  <2>1. ~(m_actived_timers < 0 \/ \A i \in Inactive : At(i) # t)
    BY <1>1
  <2> QED
    BY <2>1, Zenon DEF Enable, first
<1>9. PICK s \in Arranged(Range(q)) : m_timers' = s \o SubSeq(moved, n + 1, Len(moved))
  BY <1>7, <1>8
<1>10. s \in SetToSeqs(Range(q)) /\ Heap(s)
  BY <1>9 DEF Arranged
<1>11. s \in Seq(Entry) /\ Reorders(s, q)
  BY <1>5, <1>6, <1>10, ReordersRange
<1>12. Len(moved) = Len(m_timers)
  BY <1>1
<1> QED
  BY <1>2, <1>8, <1>9, <1>10, <1>11, <1>12 DEF first

Enabled(m, n, found, s) == s \o SubSeq([m EXCEPT ![found] = m[n]], n + 1, Len(m))

(* Where the entries are afterwards: s in front, and where t was found     *)
(* the entry that stood behind those that run.                             *)
LEMMA EnabledAt ==
  ASSUME NEW E, NEW m \in Seq(E), NEW n \in 1..Len(m), NEW found \in n..Len(m),
         NEW s \in Seq(E), Len(s) = n, NEW r, r = Enabled(m, n, found, s)
  PROVE  /\ r \in Seq(E) /\ Len(r) = Len(m)
         /\ \A i \in 1..n : r[i] = s[i]
         /\ \A i \in (n + 1)..Len(m) : i # found => r[i] = m[i]
         /\ found # n => r[found] = m[n]
<1> DEFINE moved == [m EXCEPT ![found] = m[n]]
           last == SubSeq(moved, n + 1, Len(m))
<1>1. /\ moved \in Seq(E) /\ Len(moved) = Len(m)
      /\ \A i \in 1..Len(m) : moved[i] = IF i = found THEN m[n] ELSE m[i]
  OBVIOUS
<1> HIDE DEF moved
<1>2. /\ last \in Seq(E) /\ Len(last) = Len(m) - n
      /\ \A i \in 1..(Len(m) - n) : last[i] = moved[n + i]
  BY <1>1
<1>3. r = s \o last
  BY DEF moved, Enabled
<1> HIDE DEF last
<1>4. /\ r \in Seq(E) /\ Len(r) = Len(m)
      /\ \A i \in 1..n : r[i] = s[i]
      /\ \A i \in 1..(Len(m) - n) : r[n + i] = last[i]
  BY ONLY <1>2, <1>3, s \in Seq(E), Len(s) = n, m \in Seq(E), n \in 1..Len(m)
<1>5. ASSUME NEW i \in (n + 1)..Len(m) PROVE r[i] = IF i = found THEN m[n] ELSE m[i]
  <2> DEFINE k == i - n
  <2>1. k \in 1..(Len(m) - n) /\ n + k = i /\ i \in 1..Len(m)
    OBVIOUS
  <2> HIDE DEF k
  <2>2. r[i] = last[k] /\ last[k] = moved[i]
    BY <1>2, <1>4, <2>1
  <2> QED
    BY <1>1, <2>1, <2>2
<1>6. found # n => found \in (n + 1)..Len(m)
  OBVIOUS
<1> QED
  BY <1>4, <1>5, <1>6

(* A timer that is started is the only one that runs anew, and the vector  *)
(* has the timers it had.                                                  *)
LEMMA EnableResult ==
  ASSUME Vector, m_actived_timers \in 0..Len(m_timers), NEW t \in Timer,
         NEW expired \in Nat, Enable(t, expired), NEW found \in Inactive, At(found) = t
  PROVE  /\ Vector' /\ Len(m_timers') = Len(m_timers)
         /\ m_actived_timers' = m_actived_timers + 1 /\ m_actived_timers < Len(m_timers)
         /\ Entries' = Entries \union {[timer |-> t, expired |-> expired]}
         /\ Members' = Members
         /\ InOrder'
<1> DEFINE n == m_actived_timers + 1
           entry == [timer |-> t, expired |-> expired]
           q == Append(SubSeq(m_timers, 1, n - 1), entry)
<1>1. found \in n..Len(m_timers) /\ n \in 1..Len(m_timers) /\ m_timers \in Seq(Entry)
  BY DEF Inactive, Vector
<1>2. m_actived_timers' = n
  BY EnableMoves
<1>3. PICK s \in Seq(Entry) :
        /\ Reorders(s, q) /\ Heap(s)
        /\ m_timers' =
             s \o SubSeq([m_timers EXCEPT ![found] = m_timers[n]], n + 1, Len(m_timers))
  BY EnableMoves
<1>4. Len(q) = n /\ q[n] = entry /\ \A i \in 1..(n - 1) : q[i] = m_timers[i]
  BY <1>1
<1> HIDE DEF q
<1>5. /\ Len(s) = n /\ Distinct(s)
      /\ \A i \in 1..n : \E j \in 1..n : s[i] = q[j]
      /\ \A j \in 1..n : \E i \in 1..n : s[i] = q[j]
  <2>1. Reorders(s, q) /\ Len(q) = n
    BY <1>3, <1>4
  <2> QED
    BY ONLY <2>1 DEF Reorders
<1>6. /\ m_timers' \in Seq(Entry) /\ Len(m_timers') = Len(m_timers)
      /\ \A i \in 1..n : m_timers'[i] = s[i]
      /\ \A i \in (n + 1)..Len(m_timers) : i # found => m_timers'[i] = m_timers[i]
      /\ found # n => m_timers'[found] = m_timers[n]
  <2>1. Len(s) = n
    BY <1>5
  <2>2. m_timers' = Enabled(m_timers, n, found, s)
    BY <1>3 DEF Enabled
  <2> QED
    BY ONLY <1>1, <2>1, <2>2, s \in Seq(Entry), EnabledAt
<1>7. ASSUME NEW i \in 1..n PROVE \E j \in 1..n : m_timers'[i] = q[j]
  <2>1. m_timers'[i] = s[i]
    BY <1>6
  <2> QED
    BY <1>5, <2>1
<1>8. ASSUME NEW j \in 1..n PROVE \E i \in 1..n : m_timers'[i] = q[j]
  <2>1. PICK i \in 1..n : s[i] = q[j]
    BY <1>5
  <2> QED
    BY <1>6, <2>1
<1>18. ASSUME NEW i \in 1..n, NEW j \in 1..n, m_timers'[i] = m_timers'[j] PROVE i = j
  <2>1. s[i] = s[j]
    BY <1>6, <1>18
  <2> QED
    BY <1>5, <2>1 DEF Distinct
<1>9. m_timers[found].timer = t /\ entry.timer = t /\ \A i \in 1..(n - 1) : m_timers[i].timer # t
  BY <1>1 DEF Vector, At
<1> HIDE DEF entry
<1> DEFINE Place(i) == IF i <= n THEN 1..(n - 1) \union {found} ELSE IF i = found THEN {n} ELSE {i}
(* The timer of a position stood elsewhere, or is t.                       *)
<1>10. ASSUME NEW i \in 1..Len(m_timers)
       PROVE  \E k \in 1..Len(m_timers) : k \in Place(i) /\ m_timers'[i].timer = m_timers[k].timer
  <2>1. CASE i <= n
    <3>1. PICK j \in 1..n : m_timers'[i] = q[j]
      BY <1>7, <2>1
    <3>2. CASE j = n
      BY <1>1, <1>4, <1>9, <2>1, <3>1, <3>2
    <3>3. CASE j # n
      <4>1. j \in 1..(n - 1) /\ j \in 1..Len(m_timers)
        BY <1>1, <3>3
      <4> QED
        BY <1>4, <2>1, <3>1, <4>1
    <3> QED
      BY <3>2, <3>3
  <2>2. CASE i > n
    BY <1>1, <1>6, <2>2
  <2> QED
    BY <1>1, <2>1, <2>2
<1>11. ASSUME NEW i \in 1..Len(m_timers), NEW j \in 1..Len(m_timers),
              m_timers'[i].timer = m_timers'[j].timer
       PROVE  i = j
  <2>1. PICK k \in 1..Len(m_timers) : k \in Place(i) /\ m_timers'[i].timer = m_timers[k].timer
    BY <1>10
  <2>2. PICK l \in 1..Len(m_timers) : l \in Place(j) /\ m_timers'[j].timer = m_timers[l].timer
    BY <1>10
  <2>3. k = l
    BY <1>11, <2>1, <2>2 DEF Vector, At
  <2>4. CASE i <= n /\ j <= n
    <3>1. i \in 1..n /\ j \in 1..n
      BY <2>4
    <3>2. PICK a \in 1..n : m_timers'[i] = q[a]
      BY <1>7, <3>1
    <3>3. PICK b \in 1..n : m_timers'[j] = q[b]
      BY <1>7, <3>1
    <3>4. q[a].timer = q[b].timer
      BY <1>11, <3>2, <3>3
    <3>5. CASE a = n /\ b = n
      BY <1>18, <3>1, <3>2, <3>3, <3>5
    <3>6. CASE a # n /\ b # n
      <4>1. a \in 1..(n - 1) /\ b \in 1..(n - 1) /\ a \in 1..Len(m_timers) /\ b \in 1..Len(m_timers)
        BY <1>1, <3>6
      <4>2. a = b
        BY <1>4, <3>4, <4>1 DEF Vector, At
      <4> QED
        BY <1>18, <3>1, <3>2, <3>3, <4>2
    <3>7. CASE a = n /\ b # n
      BY <1>1, <1>4, <1>9, <3>4, <3>7
    <3>8. CASE a # n /\ b = n
      BY <1>1, <1>4, <1>9, <3>4, <3>8
    <3> QED
      BY <3>5, <3>6, <3>7, <3>8
  <2>5. CASE ~(i <= n /\ j <= n)
    BY <1>1, <2>1, <2>2, <2>3, <2>5
  <2> QED
    BY <2>4, <2>5
<1>12. Vector'
  BY <1>6, <1>11 DEF Vector, At
<1>13. Entries' = Entries \union {entry}
  <2>1. Active' = 1..n /\ Active = 1..(n - 1)
    BY <1>1, <1>2 DEF Active
  <2>2. Entries' = {m_timers'[i] : i \in 1..n} /\ Entries = {m_timers[i] : i \in 1..(n - 1)}
    BY <2>1 DEF Entries
  <2>3. \A j \in 1..n : j # n => j \in 1..(n - 1)
    BY <1>1
  <2>4. ASSUME NEW e, e \in Entries' PROVE e \in Entries \union {entry}
    <3>1. PICK i \in 1..n : e = m_timers'[i]
      BY <2>2, <2>4
    <3>2. PICK j \in 1..n : e = q[j]
      BY <1>7, <3>1
    <3>3. CASE j = n
      BY <1>4, <3>2, <3>3
    <3>4. CASE j # n
      BY <1>4, <2>2, <2>3, <3>2, <3>4
    <3> QED
      BY <3>3, <3>4
  <2>5. ASSUME NEW e, e \in Entries PROVE e \in Entries'
    <3>1. PICK j \in 1..(n - 1) : e = m_timers[j]
      BY <2>2, <2>5
    <3>2. j \in 1..n /\ e = q[j]
      BY <1>1, <1>4, <3>1
    <3> QED
      BY <1>8, <2>2, <3>2
  <2>6. entry \in Entries'
    <3>1. n \in 1..n
      BY <1>1
    <3> QED
      BY <1>4, <1>8, <2>2, <3>1
  <2> QED
    BY <2>4, <2>5, <2>6
<1>14. Members' = Members
  <2>1. DOMAIN m_timers = 1..Len(m_timers) /\ DOMAIN m_timers' = 1..Len(m_timers)
    BY <1>1, <1>6
  <2>2. /\ Members' = {m_timers'[i].timer : i \in 1..Len(m_timers)}
        /\ Members = {m_timers[i].timer : i \in 1..Len(m_timers)}
    BY <2>1 DEF Members, At
  <2>3. ASSUME NEW u, u \in Members' PROVE u \in Members
    BY <1>10, <2>2, <2>3
  <2>4. ASSUME NEW k \in 1..Len(m_timers)
        PROVE  \E i \in 1..Len(m_timers) : m_timers'[i].timer = m_timers[k].timer
    <3>1. CASE k < n
      <4>1. PICK i \in 1..n : m_timers'[i] = q[k]
        BY <1>1, <1>8, <3>1
      <4>2. i \in 1..Len(m_timers) /\ q[k] = m_timers[k]
        BY <1>1, <1>4, <3>1
      <4> QED
        BY <4>1, <4>2
    <3>2. CASE k = found
      <4>1. PICK i \in 1..n : m_timers'[i] = q[n]
        <5>1. n \in 1..n
          BY <1>1
        <5> QED
          BY <1>8, <5>1
      <4>2. i \in 1..Len(m_timers)
        BY <1>1
      <4> QED
        BY <1>4, <1>9, <3>2, <4>1, <4>2
    <3>3. CASE k = n /\ k # found
      <4>1. found \in (n + 1)..Len(m_timers) /\ found \in 1..Len(m_timers)
        BY <1>1, <3>3
      <4> QED
        BY <1>6, <3>3, <4>1
    <3>4. CASE k > n /\ k # found
      BY <1>1, <1>6, <3>4
    <3> QED
      BY <1>1, <3>1, <3>2, <3>3, <3>4
  <2>5. ASSUME NEW u, u \in Members PROVE u \in Members'
    <3>1. PICK k \in 1..Len(m_timers) : u = m_timers[k].timer
      BY <2>2, <2>5
    <3> QED
      BY <2>2, <2>4, <3>1
  <2> QED
    BY <2>3, <2>5
<1>15. InOrder'
  <2>1. ASSUME NEW i \in 2..n PROVE m_timers'[i \div 2].expired <= m_timers'[i].expired
    <3>1. i \div 2 \in 1..n /\ i \in 1..n
      BY <1>1
    <3>2. s[i \div 2].expired <= s[i].expired
      BY <1>3, <1>5 DEF Heap
    <3> QED
      BY <1>6, <3>1, <3>2
  <2> QED
    BY <1>2, <2>1 DEF InOrder
<1>16. m_actived_timers < Len(m_timers)
  BY <1>1
<1> QED
  BY <1>2, <1>6, <1>12, <1>13, <1>14, <1>15, <1>16 DEF entry

-----------------------------------------------------------------------------
(* What starting and stopping mean for the sets.                           *)

Running == {e.timer : e \in Entries}

Stops(e) ==
  /\ Vector' /\ Len(m_timers') = Len(m_timers)
  /\ m_actived_timers \in 1..Len(m_timers) /\ m_actived_timers' = m_actived_timers - 1
  /\ e \in Entries /\ Entries' = Entries \ {e}
  /\ Members' = Members
  /\ m_timers'[1] = m_timers[1] \/ (InOrder => InOrder')

Starts(t, expired) ==
  /\ Vector' /\ Len(m_timers') = Len(m_timers)
  /\ m_actived_timers' = m_actived_timers + 1 /\ m_actived_timers' \in 1..Len(m_timers)
  /\ t \in Members \ Running
  /\ Entries' = Entries \union {[timer |-> t, expired |-> expired]}
  /\ Members' = Members
  /\ InOrder'

(* Running is the timers at the active positions.                          *)
LEMMA RunningAt == \A t : t \in Running <=> \E i \in Active : At(i) = t
BY DEF Running, Entries, At

(* pop_heap with the erasure behind it ends one running timer.             *)
LEMMA PopStops ==
  ASSUME Vector, m_actived_timers \in 1..Len(m_timers), NEW pos \in Active, Pop(pos)
  PROVE  Stops(m_timers[pos])
<1>1. m_timers[pos] \in Entries
  BY DEF Entries
<1> QED
  BY <1>1, PopResult DEF Stops

(* disable_timer ends the timer it is given, if that one runs.             *)
LEMMA DisableStops ==
  ASSUME Vector, m_actived_timers \in Int, m_actived_timers <= Len(m_timers),
         NEW t, Disable(t)
  PROVE  \/ UNCHANGED timers /\ t \notin Running
         \/ \E e \in Entries : e.timer = t /\ Stops(e)
<1>1. CASE \A i \in Active : At(i) # t
  BY <1>1, RunningAt DEF Disable
<1>2. CASE ~\A i \in Active : At(i) # t
  <2>1. PICK pos \in Active : At(pos) = t /\ Pop(pos)
    BY <1>2 DEF Disable
  <2>2. m_actived_timers \in 1..Len(m_timers)
    BY DEF Active, Vector
  <2>3. Stops(m_timers[pos]) /\ m_timers[pos] \in Entries
    BY <2>1, <2>2, PopStops DEF Entries
  <2> QED
    BY <2>1, <2>3 DEF At
<1> QED
  BY <1>1, <1>2

(* enable_timer adds an entry, if the timer is there and does not run.     *)
LEMMA EnableStarts ==
  ASSUME Vector, m_actived_timers \in 0..Len(m_timers), NEW t \in Timer,
         NEW expired \in Nat, Enable(t, expired)
  PROVE  \/ UNCHANGED timers /\ t \notin Members \ Running
         \/ Starts(t, expired)
<1>1. DOMAIN m_timers = 1..Len(m_timers) /\ Len(m_timers) \in Nat
  BY DEF Vector
<1>2. 1..Len(m_timers) = Active \union Inactive
  BY <1>1 DEF Active, Inactive
<1>3. CASE \A i \in Inactive : At(i) # t
  <2>1. UNCHANGED timers
    BY <1>3 DEF Enable
  <2>2. t \in Members => t \in Running
    BY <1>1, <1>2, <1>3, RunningAt DEF Members
  <2> QED
    BY <2>1, <2>2
<1>4. ASSUME NEW found \in Inactive, At(found) = t PROVE Starts(t, expired)
  <2>1. t \in Members
    BY <1>1, <1>2, <1>4 DEF Members
  <2>2. \A i \in Active : i # found /\ i \in 1..Len(m_timers) /\ found \in 1..Len(m_timers)
    BY <1>1 DEF Active, Inactive
  <2>3. t \notin Running
    BY <1>4, <2>2, RunningAt DEF Vector
  <2>4. m_actived_timers < Len(m_timers) /\ m_actived_timers' = m_actived_timers + 1
    BY <1>4, EnableResult
  <2>5. m_actived_timers' \in 1..Len(m_timers)
    BY <1>1, <2>4
  <2> QED
    BY <1>4, <2>1, <2>3, <2>4, <2>5, EnableResult DEF Starts
<1> QED
  BY <1>3, <1>4

-----------------------------------------------------------------------------
(* The type invariant.                                                     *)

(* The vector holds the timers that were created and not destroyed.        *)
MembersAreOwned ==
  Defined => Members = {t \in Timer : owner[t] \in {"has", "removes"}}

(* A timer that runs, or was taken out, has been started.                  *)
StartedBefore ==
  faults = {} =>
    /\ \A e \in Entries : m_interals[e.timer] \in Interval
    /\ \A i \in 1..Len(run.timers) : m_interals[run.timers[i]] \in Interval

AgainHasTimer == run.at = "again" => run.timers # <<>>

Count ==
  Defined => m_actived_timers \in
               (IF "stale" \in faults THEN {-1} ELSE 0..Len(m_timers))

(* The thread's state, by its fields.                                      *)
RunState ==
  [at : {"sleep", "count", "lock", "fire", "again"}, now : 0..MaxTime, timers : Seq(Timer)]

(* A state is defined if nothing but the count has gone wrong.             *)
LEMMA DefinedIsNone ==
  ASSUME TypeOK, Defined
  PROVE  faults = {} \/ faults = {"stale"}
BY DEF Defined

(* Before the count goes wrong; and after, when nothing is active.         *)
LEMMA CountSound ==
  ASSUME TypeOK, Defined
  PROVE  /\ "stale" \notin faults => faults = {} /\ m_actived_timers \in 0..Len(m_timers)
         /\ "stale" \in faults => m_actived_timers = -1 /\ Entries = {}
         /\ m_actived_timers \in Int /\ m_actived_timers <= Len(m_timers)
         /\ Len(m_timers) \in Nat
<1>1. Len(m_timers) \in Nat
  BY DEF TypeOK
<1>2. m_actived_timers = -1 => Active = {}
  BY DEF Active
<1> QED
  BY <1>1, <1>2, DefinedIsNone DEF TypeOK, Entries

(* Enable in any defined state: once the count is stale it does nothing.   *)
LEMMA Restarts ==
  ASSUME TypeOK, Defined, NEW t \in Timer, NEW expired, "stale" \notin faults => expired \in Nat,
         Enable(t, expired)
  PROVE  \/ UNCHANGED timers /\ ("stale" \in faults \/ t \notin Members \ Running)
         \/ "stale" \notin faults /\ expired \in Nat /\ Starts(t, expired)
<1>1. CASE "stale" \in faults
  <2>1. m_actived_timers < 0
    BY <1>1, CountSound
  <2> QED
    BY <1>1, <2>1 DEF Enable
<1>2. CASE "stale" \notin faults
  BY <1>2, CountSound, EnableStarts, Typed
<1> QED
  BY <1>1, <1>2

(* Disable in any defined state, likewise.                                 *)
LEMMA Halts ==
  ASSUME TypeOK, Defined, NEW t, Disable(t)
  PROVE  \/ UNCHANGED timers /\ t \notin Running
         \/ "stale" \notin faults /\ \E e \in Entries : e.timer = t /\ Stops(e)
<1>1. \/ UNCHANGED timers /\ t \notin Running
      \/ \E e \in Entries : e.timer = t /\ Stops(e)
  BY CountSound, DisableStops, Typed
<1> QED
  BY <1>1, CountSound

(* The thread takes out the first entry, which is due.                     *)
LEMMA TakesOut ==
  ASSUME TypeOK, TakeOut
  PROVE  /\ faults = {} /\ m_timers[1] \in Entries /\ At(1) \in Timer
         /\ m_timers[1].expired <= run.now
         /\ Stops(m_timers[1])
<1>1. Defined /\ m_actived_timers > 0 /\ Pop(1) /\ IsDue
  BY DEF TakeOut
<1>2. faults = {} /\ m_actived_timers \in 1..Len(m_timers)
  BY <1>1, CountSound
<1>3. 1 \in Active /\ 1 \in 1..Len(m_timers)
  BY <1>2 DEF Active
<1>4. At(1) \in Timer
  <2>1. m_timers[1] \in Entry
    BY <1>3, Typed DEF Vector
  <2> QED
    BY <2>1 DEF Entry, At
<1>5. Stops(m_timers[1])
  BY <1>1, <1>2, <1>3, PopStops, Typed
<1>6. m_timers[1] \in Entries
  BY <1>3 DEF Entries
<1> QED
  BY <1>1, <1>2, <1>4, <1>5, <1>6 DEF IsDue

(* A timer is created.                                                     *)
LEMMA Appends ==
  ASSUME TypeOK, MembersAreOwned, NEW t \in Timer, Construct(t)
  PROVE  /\ Vector' /\ Len(m_timers') = Len(m_timers) + 1
         /\ Entries' = Entries /\ Members' = Members \union {t} /\ t \notin Members
         /\ \A i \in 1..Len(m_timers) : m_timers'[i] = m_timers[i]
<1> DEFINE entry == [timer |-> t, expired |-> 0]
<1>1. /\ m_timers \in Seq(Entry) /\ entry \in Entry /\ m_timers' = Append(m_timers, entry)
      /\ UNCHANGED m_actived_timers
  BY Typed DEF Construct, Vector, Entry
<1>2. /\ m_timers' \in Seq(Entry) /\ Len(m_timers') = Len(m_timers) + 1 /\ Len(m_timers) \in Nat
      /\ \A i \in 1..Len(m_timers) : m_timers'[i] = m_timers[i]
      /\ m_timers'[Len(m_timers) + 1] = entry
  BY <1>1
<1>3. t \notin Members
  BY DEF Construct, Owner, MembersAreOwned
<1>4. DOMAIN m_timers = 1..Len(m_timers) /\ DOMAIN m_timers' = 1..(Len(m_timers) + 1)
  BY <1>1, <1>2
<1>5. /\ Members = {m_timers[i].timer : i \in 1..Len(m_timers)}
      /\ Members' = {m_timers'[i].timer : i \in 1..(Len(m_timers) + 1)}
  BY <1>4 DEF Members, At
<1>6. entry.timer = t
  OBVIOUS
<1> HIDE DEF entry
<1>7. 1..(Len(m_timers) + 1) = 1..Len(m_timers) \union {Len(m_timers) + 1}
  BY <1>2
<1>8. Members' = Members \union {t}
  BY <1>2, <1>5, <1>6, <1>7
<1>9. \A i \in 1..Len(m_timers) : m_timers[i].timer # t
  BY <1>3, <1>5
<1>10. \A i, j \in 1..Len(m_timers') : m_timers'[i].timer = m_timers'[j].timer => i = j
  BY <1>2, <1>6, <1>7, <1>9, Typed DEF Vector, At
<1>11. Vector'
  BY <1>2, <1>10 DEF Vector, At
<1>12. Entries' = Entries
  <2>1. Defined
    BY DEF Construct, Owner
  <2>2. Active' = Active /\ Active \subseteq 1..Len(m_timers)
    BY <1>1, <2>1, CountSound DEF Active
  <2> QED
    BY <1>2, <2>2 DEF Entries
<1> QED
  BY <1>2, <1>3, <1>8, <1>11, <1>12

(* The positions of what is left when one is removed.                      *)
LacksOne(r, m, pos) ==
  /\ Len(r) = Len(m) - 1
  /\ \A i \in 1..(pos - 1) : r[i] = m[i]
  /\ \A i \in pos..(Len(m) - 1) : r[i] = m[i + 1]

(* What RemoveAt leaves.                                                   *)
LEMMA RemovedAt ==
  ASSUME NEW E, NEW m \in Seq(E), NEW pos \in 1..Len(m), NEW r, r = RemoveAt(m, pos)
  PROVE  r \in Seq(E) /\ LacksOne(r, m, pos)
<1> DEFINE a == SubSeq(m, 1, pos - 1)
           b == SubSeq(m, pos + 1, Len(m))
<1>1. a \in Seq(E) /\ Len(a) = pos - 1 /\ \A i \in 1..(pos - 1) : a[i] = m[i]
  OBVIOUS
<1>2. b \in Seq(E) /\ Len(b) = Len(m) - pos /\ \A i \in 1..(Len(m) - pos) : b[i] = m[pos + i]
  OBVIOUS
<1>3. r = a \o b
  BY DEF RemoveAt
<1> HIDE DEF a, b
<1>4. /\ r \in Seq(E) /\ Len(r) = Len(a) + Len(b)
      /\ \A i \in 1..Len(a) : r[i] = a[i]
      /\ \A i \in 1..Len(b) : r[Len(a) + i] = b[i]
  <2>1. a \in Seq(E) /\ b \in Seq(E)
    BY <1>1, <1>2
  <2> QED
    BY ONLY <1>3, <2>1
<1>5. ASSUME NEW i \in pos..(Len(m) - 1) PROVE r[i] = m[i + 1]
  <2> DEFINE k == i - pos + 1
  <2>1. k \in 1..(Len(m) - pos) /\ Len(a) + k = i /\ pos + k = i + 1
    BY <1>1
  <2> HIDE DEF k
  <2> QED
    BY <1>2, <1>4, <2>1
<1>6. Len(r) = Len(m) - 1
  BY <1>1, <1>2, <1>4
<1> QED
  BY <1>1, <1>4, <1>5, <1>6 DEF LacksOne

(* A timer that does not run is destroyed; or undefined behaviour begins.  *)
LEMMA Erases ==
  ASSUME TypeOK, NEW t \in Timer, EndDestroy(t)
  PROVE  /\ Vector' /\ t \in Members
         /\ \/ faults' = faults \union {"miscounted"} /\ t \in Running
            \/ /\ faults' = faults /\ t \notin Running
               /\ Members' = Members \ {t} /\ Entries' = Entries
               /\ Len(m_timers') = Len(m_timers) - 1
               /\ m_actived_timers < Len(m_timers)
               /\ \A i \in Active : m_timers'[i] = m_timers[i]
<1>1. PICK pos \in DOMAIN m_timers :
        /\ At(pos) = t
        /\ m_timers' = RemoveAt(m_timers, pos)
        /\ faults' = IF pos \in Active THEN faults \union {"miscounted"} ELSE faults
  BY DEF EndDestroy
<1>2. Vector /\ m_timers \in Seq(Entry) /\ pos \in 1..Len(m_timers) /\ Len(m_timers) \in Nat
  BY Typed DEF Vector
<1>3. m_actived_timers' = m_actived_timers
  BY DEF EndDestroy
<1>4. /\ m_timers' \in Seq(Entry) /\ Len(m_timers') = Len(m_timers) - 1
      /\ \A i \in 1..(pos - 1) : m_timers'[i] = m_timers[i]
      /\ \A i \in pos..(Len(m_timers) - 1) : m_timers'[i] = m_timers[i + 1]
  <2>1. m_timers' = RemoveAt(m_timers, pos) /\ m_timers \in Seq(Entry) /\ pos \in 1..Len(m_timers)
    BY <1>1, <1>2
  <2>2. m_timers' \in Seq(Entry) /\ LacksOne(m_timers', m_timers, pos)
    BY ONLY <2>1, RemovedAt
  <2> QED
    BY <2>2 DEF LacksOne
<1> DEFINE From(i) == IF i < pos THEN i ELSE i + 1
<1>5. ASSUME NEW i \in 1..(Len(m_timers) - 1)
      PROVE  From(i) \in 1..Len(m_timers) /\ From(i) # pos /\ m_timers'[i] = m_timers[From(i)]
  <2>1. CASE i < pos
    BY <1>2, <1>4, <2>1
  <2>2. CASE i >= pos
    BY <1>2, <1>4, <2>2
  <2> QED
    BY <1>2, <2>1, <2>2
<1>6. ASSUME NEW k \in 1..Len(m_timers), k # pos
      PROVE  \E i \in 1..(Len(m_timers) - 1) : m_timers'[i] = m_timers[k]
  <2>1. CASE k < pos
    BY <1>2, <1>4, <2>1
  <2>2. CASE k > pos
    <3>1. k - 1 \in pos..(Len(m_timers) - 1) /\ k - 1 + 1 = k /\ k - 1 \in 1..(Len(m_timers) - 1)
      BY <1>2, <2>2
    <3> QED
      BY <1>4, <3>1
  <2> QED
    BY <1>2, <1>6, <2>1, <2>2
<1>7. ASSUME NEW i \in 1..(Len(m_timers) - 1), NEW j \in 1..(Len(m_timers) - 1),
             m_timers'[i].timer = m_timers'[j].timer
      PROVE  i = j
  <2>1. From(i) = From(j)
    <3>1. /\ From(i) \in 1..Len(m_timers) /\ m_timers'[i] = m_timers[From(i)]
          /\ From(j) \in 1..Len(m_timers) /\ m_timers'[j] = m_timers[From(j)]
      BY <1>5
    <3> HIDE DEF From
    <3> QED
      BY <1>2, <1>7, <3>1 DEF Vector, At
  <2> QED
    BY <1>2, <2>1
<1>8. Vector'
  BY <1>4, <1>7 DEF Vector, At
<1>9. t \in Members
  BY <1>1 DEF Members
<1>10. Members' = Members \ {t}
  <2>1. DOMAIN m_timers = 1..Len(m_timers) /\ DOMAIN m_timers' = 1..(Len(m_timers) - 1)
    BY <1>2, <1>4
  <2>2. /\ Members = {m_timers[i].timer : i \in 1..Len(m_timers)}
        /\ Members' = {m_timers'[i].timer : i \in 1..(Len(m_timers) - 1)}
    BY <2>1 DEF Members, At
  <2>3. ASSUME NEW u, u \in Members' PROVE u \in Members \ {t}
    <3>1. PICK i \in 1..(Len(m_timers) - 1) : u = m_timers'[i].timer
      BY <2>2, <2>3
    <3>2. From(i) \in 1..Len(m_timers) /\ From(i) # pos /\ u = m_timers[From(i)].timer
      BY <1>5, <3>1
    <3> HIDE DEF From
    <3> QED
      BY <1>1, <1>2, <2>2, <3>2 DEF Vector, At
  <2>4. ASSUME NEW u, u \in Members \ {t} PROVE u \in Members'
    <3>1. PICK k \in 1..Len(m_timers) : u = m_timers[k].timer
      BY <2>2, <2>4
    <3>2. k # pos
      BY <1>1, <2>4, <3>1 DEF At
    <3> QED
      BY <1>6, <2>2, <3>1, <3>2
  <2> QED
    BY <2>3, <2>4
<1>11. CASE pos \in Active
  BY <1>1, <1>8, <1>9, <1>11, RunningAt
<1>12. CASE pos \notin Active
  <2>1. Defined /\ faults' = faults
    BY <1>1, <1>12 DEF EndDestroy, Owner
  <2>2. m_actived_timers \in Int /\ m_actived_timers < pos
    BY <1>2, <1>12, <2>1, CountSound DEF Active
  <2>3. Active' = Active /\ \A i \in Active : i \in 1..(pos - 1) /\ i \in 1..Len(m_timers)
    BY <1>2, <1>3, <2>2 DEF Active
  <2>4. \A i \in Active : m_timers'[i] = m_timers[i]
    BY <1>4, <2>3
  <2>5. Entries' = Entries
    BY <2>3, <2>4 DEF Entries
  <2>6. t \notin Running
    BY <1>1, <1>2, <1>12, <2>3, RunningAt DEF Vector
  <2>7. m_actived_timers < Len(m_timers)
    BY <1>2, <2>2
  <2> QED
    BY <1>4, <1>8, <1>9, <1>10, <2>1, <2>4, <2>5, <2>6, <2>7
<1> QED
  BY <1>11, <1>12

Known == TypeOK /\ MembersAreOwned /\ StartedBefore /\ AgainHasTimer

(* The interval of a timer that starts again.                              *)
LEMMA AgainIsStarted ==
  ASSUME Known, StartAgain
  PROVE  /\ Defined /\ Head(run.timers) \in Timer
         /\ run.timers # <<>> /\ Tail(run.timers) \in Seq(Timer)
         /\ Len(Tail(run.timers)) = Len(run.timers) - 1 /\ Len(run.timers) \in Nat
         /\ \A i \in 1..Len(Tail(run.timers)) : Tail(run.timers)[i] = run.timers[i + 1]
         /\ "stale" \notin faults => m_interals[Head(run.timers)] \in Interval
                                   /\ clock + m_interals[Head(run.timers)] \in Nat
<1>1. Defined /\ run.at = "again" /\ run.timers \in Seq(Timer) /\ run.timers # <<>>
  BY DEF StartAgain, Known, TypeOK, AgainHasTimer
<1>2. /\ Head(run.timers) = run.timers[1] /\ run.timers[1] \in Timer /\ 1 \in 1..Len(run.timers)
      /\ Tail(run.timers) \in Seq(Timer)
      /\ Len(Tail(run.timers)) = Len(run.timers) - 1 /\ Len(run.timers) \in Nat
      /\ \A i \in 1..Len(Tail(run.timers)) : Tail(run.timers)[i] = run.timers[i + 1]
  BY <1>1
<1>3. "stale" \notin faults => m_interals[run.timers[1]] \in Interval
  BY <1>1, <1>2, CountSound DEF Known, StartedBefore
<1>4. \A x \in Interval : clock + x \in Nat
  BY TimerAssumption DEF Known, TypeOK
<1> QED
  BY <1>1, <1>2, <1>3, <1>4, Zenon

(* What a step may do to the vector.                                       *)
Fires == faults' \in {faults, faults \union {"dangling"}}
Leaves == UNCHANGED timers /\ Fires

Stopping(t, e) ==
  /\ e.timer = t /\ Stops(e)
  /\ faults' = faults /\ "stale" \notin faults

(* What each step does to the vector, if anything.                         *)
LEMMA VectorMoves ==
  ASSUME Known, Next
  PROVE  /\ Defined
         /\ \/ Leaves
            \/ \E e \in Entries : Stopping(e.timer, e)
            \/ \E t \in Timer, expired \in Nat :
                 "stale" \notin faults /\ Fires /\ Starts(t, expired)
            \/ \E t \in Timer : Construct(t) \/ EndDestroy(t)
            \/ TakeStopped
<1> DEFINE Moved ==
      \/ Leaves
      \/ \E e \in Entries : Stopping(e.timer, e)
      \/ \E t \in Timer, expired \in Nat :
            "stale" \notin faults /\ Fires /\ Starts(t, expired)
      \/ \E t \in Timer : Construct(t) \/ EndDestroy(t)
      \/ TakeStopped
<1> USE DEF Known
<1>1. ASSUME NEW t \in Timer, Construct(t) PROVE Defined /\ Moved
  BY <1>1 DEF Construct, Owner
<1>2. ASSUME NEW t \in Timer, NEW interval \in Interval, Start(t, interval)
      PROVE  Defined /\ Moved
  <2>1. Defined /\ Enable(t, clock + interval) /\ faults' = faults
    BY <1>2 DEF Start, Owner
  <2>2. clock + interval \in Nat
    BY TimerAssumption DEF TypeOK
  <2> QED
    BY <2>1, <2>2, Restarts DEF Leaves, Fires
<1>3. ASSUME NEW t \in Timer, Stop(t) \/ BeginDestroy(t) PROVE Defined /\ Moved
  <2>1. Defined /\ Disable(t) /\ faults' = faults
    BY <1>3 DEF Stop, BeginDestroy, Owner
  <2> QED
    BY <2>1, Halts DEF Leaves, Fires, Stopping
<1>4. ASSUME NEW t \in Timer, EndDestroy(t) PROVE Defined /\ Moved
  BY <1>4 DEF EndDestroy, Owner
<1>5. CASE Tick \/ WakeUp \/ CountActive \/ LeaveIn \/ LeaveStopped \/ Fire \/ Sleep
  BY <1>5 DEF Tick, WakeUp, CountActive, LeaveIn, LeaveStopped, Nothing, Runs, Fire, Sleep,
      Leaves, Fires
<1>6. CASE TakeOut
  <2>1. /\ faults' = faults /\ "stale" \notin faults /\ Defined
        /\ m_timers[1] \in Entries /\ Stops(m_timers[1])
    BY <1>6, TakesOut DEF TakeOut
  <2> QED
    BY <2>1 DEF Stopping
<1>7. CASE TakeStopped
  BY <1>7 DEF TakeStopped
<1>8. CASE StartAgain
  <2> DEFINE t == Head(run.timers)
  <2>1. /\ Defined /\ t \in Timer /\ Fires
        /\ "stale" \notin faults => clock + m_interals[t] \in Nat
    BY <1>8, AgainIsStarted DEF StartAgain, Fires
  <2>2. CASE t \in Circle
    <3>1. Enable(t, clock + m_interals[t])
      BY <1>8, <2>2 DEF StartAgain
    <3> HIDE DEF t
    <3> QED
      BY <2>1, <3>1, Restarts DEF Leaves
  <2>3. CASE t \notin Circle
    BY <1>8, <2>1, <2>3 DEF StartAgain, Leaves
  <2> QED
    BY <2>2, <2>3
<1> QED
  BY <1>1, <1>2, <1>3, <1>4, <1>5, <1>6, <1>7, <1>8 DEF Next, RunStep

(* Firing changes a fault only by making the state undefined.              *)
LEMMA FiresKeeps ==
  ASSUME Fires
  PROVE  /\ "stale" \in faults' <=> "stale" \in faults
         /\ Defined' => faults' = faults
<1> QED
  BY DEF Fires, Defined

(* So every step keeps the vector's types.                                 *)
LEMMA VectorStep ==
  ASSUME Known, [Next]_vars
  PROVE  Vector' /\ Count'
<1>1. CASE UNCHANGED vars
  BY <1>1, Typed DEF Known, TypeOK, vars, timers, Vector, At, Count, Defined
<1>2. CASE Next
  <2>1. CASE Leaves
    <3>1. m_timers' = m_timers /\ m_actived_timers' = m_actived_timers /\ Fires
      BY <2>1 DEF Leaves, timers
    <3>2. Vector'
      BY <3>1, Typed DEF Known, Vector, At
    <3> QED
      BY <3>1, <3>2, FiresKeeps DEF Known, TypeOK, Count, Defined
  <2>2. ASSUME NEW e \in Entries, Stopping(e.timer, e) PROVE Vector' /\ Count'
    BY <2>2 DEF Stopping, Stops, Count
  <2>3. ASSUME NEW t \in Timer, NEW expired \in Nat, "stale" \notin faults, Fires,
               Starts(t, expired)
        PROVE  Vector' /\ Count'
    BY <2>3, FiresKeeps DEF Starts, Count
  <2>4. ASSUME NEW t \in Timer, Construct(t) PROVE Vector' /\ Count'
    <3>1. Vector' /\ Len(m_timers') = Len(m_timers) + 1
      BY <2>4, Appends DEF Known
    <3>2. UNCHANGED <<m_actived_timers, faults>> /\ Defined /\ Len(m_timers) \in Nat
      BY <2>4 DEF Construct, Owner, Known, TypeOK
    <3> QED
      BY <3>1, <3>2 DEF Known, TypeOK, Count
  <2>5. ASSUME NEW t \in Timer, EndDestroy(t) PROVE Vector' /\ Count'
    <3>1. Vector'
      BY <2>5, Erases DEF Known
    <3>2. CASE faults' = faults \union {"miscounted"}
      BY <3>1, <3>2 DEF Count, Defined
    <3>3. CASE faults' = faults /\ Len(m_timers') = Len(m_timers) - 1
               /\ m_actived_timers < Len(m_timers)
      <4>1. UNCHANGED m_actived_timers /\ Defined /\ Len(m_timers) \in Nat
        BY <2>5 DEF EndDestroy, Owner, Known, TypeOK
      <4> QED
        BY <3>1, <3>3, <4>1 DEF Known, TypeOK, Count
    <3> QED
      BY <2>5, <3>2, <3>3, Erases DEF Known
  <2>6. CASE TakeStopped
    <3>1. m_timers' = m_timers /\ m_actived_timers' = -1 /\ "stale" \in faults'
      BY <2>6 DEF TakeStopped
    <3> QED
      BY <3>1, Typed DEF Known, Vector, At, Count
  <2> QED
    BY <1>2, <2>1, <2>2, <2>3, <2>4, <2>5, <2>6, VectorMoves
<1> QED
  BY <1>1, <1>2

(* The types of all but the vector.                                        *)
Others ==
  /\ clock \in 0..MaxTime
  /\ m_actived_timers \in Int
  /\ m_interals \in [Timer -> Interval \union {-1}]
  /\ owner \in [Timer -> {"none", "has", "removes", "gone"}]
  /\ run \in RunState
  /\ faults \subseteq {"stale", "dangling", "miscounted"}

(* The types of all else are part of TypeOK.                               *)
LEMMA OthersTyped == TypeOK => Others
BY DEF TypeOK, Others, RunState

(* The first entry belongs to a timer.                                     *)
LEMMA FirstIsTimer ==
  ASSUME TypeOK, m_timers # <<>>
  PROVE  At(1) \in Timer
<1>1. m_timers \in Seq(Entry)
  BY Typed DEF Vector
<1>2. m_timers[1] \in Entry
  BY <1>1
<1> QED
  BY <1>2 DEF Entry, At

(* Every step keeps the types of all else.                                 *)
LEMMA OthersStep ==
  ASSUME Known, [Next]_vars
  PROVE  Others'
<1>0. TypeOK /\ Others
  BY OthersTyped DEF Known
<1> USE <1>0 DEF Others, RunState, timers
<1>1. ASSUME NEW t \in Timer, Construct(t) PROVE Others'
  BY <1>1 DEF Construct, Owner
<1>2. ASSUME NEW t \in Timer, NEW interval \in Interval, Start(t, interval) PROVE Others'
  BY <1>2 DEF Start, Owner, Enable
<1>3. ASSUME NEW t \in Timer, Stop(t) \/ BeginDestroy(t) PROVE Others'
  <2>1. m_actived_timers' \in Int
    <3>1. Defined /\ Disable(t)
      BY <1>3 DEF Stop, BeginDestroy, Owner
    <3>2. m_actived_timers' = m_actived_timers \/ m_actived_timers' = m_actived_timers - 1
      BY <3>1, Halts, Zenon DEF Stops
    <3> QED
      BY <3>2
  <2> QED
    BY <1>3, <2>1 DEF Stop, BeginDestroy, Owner
<1>4. ASSUME NEW t \in Timer, EndDestroy(t) PROVE Others'
  BY <1>4 DEF EndDestroy, Owner
<1>5. CASE Tick
  BY <1>5, TimerAssumption DEF Tick
<1>6. CASE WakeUp
  BY <1>6 DEF WakeUp
<1>7. CASE CountActive
  BY <1>7 DEF CountActive, Runs
<1>8. CASE TakeOut
  <2>1. At(1) \in Timer
    BY <1>8, TakesOut
  <2>2. m_actived_timers' \in Int
    BY <1>8 DEF TakeOut, Pop
  <2>3. Append(run.timers, At(1)) \in Seq(Timer)
    BY <2>1
  <2> QED
    BY <1>8, <2>2, <2>3 DEF TakeOut
<1>9. CASE LeaveIn
  BY <1>9 DEF LeaveIn, Nothing, Runs
<1>10. CASE TakeStopped
  <2>1. PICK t \in Timer : run' = [run EXCEPT !.at = "count", !.timers = Append(@, t)]
    BY <1>10, FirstIsTimer DEF TakeStopped
  <2>2. Append(run.timers, t) \in Seq(Timer)
    OBVIOUS
  <2>3. run' \in RunState
    BY <2>1, <2>2
  <2> QED
    BY <1>10, <2>3 DEF TakeStopped
<1>11. CASE LeaveStopped
  BY <1>11 DEF LeaveStopped, Nothing, Runs
<1>12. CASE Fire
  BY <1>12 DEF Fire, Runs
<1>13. CASE StartAgain
  <2>1. m_actived_timers' \in Int
    BY <1>13 DEF StartAgain, Enable
  <2>2. Tail(run.timers) \in Seq(Timer)
    BY <1>13, AgainIsStarted
  <2> QED
    BY <1>13, <2>1, <2>2 DEF StartAgain
<1>14. CASE Sleep
  BY <1>14 DEF Sleep, Runs
<1>15. CASE UNCHANGED vars
  BY <1>15 DEF vars
<1> QED
  BY <1>1, <1>2, <1>3, <1>4, <1>5, <1>6, <1>7, <1>8, <1>9, <1>10, <1>11, <1>12,
     <1>13, <1>14, <1>15
  DEF Next, RunStep

(* Every step keeps the types.                                             *)
LEMMA TypeStep ==
  ASSUME Known, [Next]_vars
  PROVE  TypeOK'
<1>1. IsInjective([i \in DOMAIN m_timers' |-> At(i)'])
  <2>1. /\ DOMAIN m_timers' = 1..Len(m_timers')
        /\ \A i, j \in 1..Len(m_timers') : At(i)' = At(j)' => i = j
    BY VectorStep DEF Vector
  <2> QED
    BY <2>1, Zenon DEF IsInjective
<1>2. m_timers' \in Seq([timer : Timer, expired : Nat])
  BY VectorStep DEF Vector, Entry
<1> QED
  BY <1>1, <1>2, VectorStep, OthersStep DEF Count, Others, RunState, TypeOK

-----------------------------------------------------------------------------
(* The other parts of Known.                                               *)

LEMMA AgainStep ==
  ASSUME Known, [Next]_vars
  PROVE  AgainHasTimer'
<1>1. run \in RunState
  BY DEF Known, TypeOK, RunState
<1> USE <1>1 DEF AgainHasTimer, RunState
<1>2. CASE UNCHANGED run
  BY <1>2 DEF Known
<1>3. CASE WakeUp
  BY <1>3 DEF WakeUp
<1>4. CASE CountActive \/ LeaveIn \/ LeaveStopped \/ Sleep
  BY <1>4 DEF CountActive, LeaveIn, LeaveStopped, Sleep, Nothing, Runs
<1>5. CASE TakeOut \/ TakeStopped
  BY <1>5 DEF TakeOut, TakeStopped
<1>6. CASE Fire
  BY <1>6 DEF Fire, Runs
<1>7. CASE StartAgain
  BY <1>7 DEF StartAgain
<1> QED
  BY <1>2, <1>3, <1>4, <1>5, <1>6, <1>7
  DEF Next, RunStep, vars, Construct, Start, Stop, BeginDestroy, EndDestroy, Owner, Tick

(* Every step keeps the vector to timers that were created.                *)
LEMMA OwnedStep ==
  ASSUME Known, [Next]_vars
  PROVE  MembersAreOwned'
<1> DEFINE Owned == {t \in Timer : owner[t] \in {"has", "removes"}}
<1>1. owner \in [Timer -> {"none", "has", "removes", "gone"}]
  BY DEF Known, TypeOK
<1>2. CASE UNCHANGED owner /\ Members' = Members /\ (Defined' => Defined)
  BY <1>2 DEF Known, MembersAreOwned
<1>3. CASE UNCHANGED vars
  <2>1. UNCHANGED <<owner, m_timers, faults>>
    BY <1>3 DEF vars, timers
  <2> QED
    BY <1>2, <2>1 DEF Members, At, Defined
<1>4. ASSUME NEW t \in Timer, Construct(t) PROVE MembersAreOwned'
  <2>1. Members' = Members \union {t} /\ Members = Owned
    BY <1>4, Appends DEF Known, MembersAreOwned, Construct, Owner
  <2>2. owner' = [owner EXCEPT ![t] = "has"]
    BY <1>4 DEF Construct, Owner
  <2> QED
    BY <1>1, <2>1, <2>2 DEF MembersAreOwned
<1>5. ASSUME NEW t \in Timer, EndDestroy(t) PROVE MembersAreOwned'
  <2>1. owner' = [owner EXCEPT ![t] = "gone"] /\ Members = Owned
    BY <1>5 DEF EndDestroy, Owner, Known, MembersAreOwned
  <2>2. CASE faults' = faults \union {"miscounted"}
    BY <2>2 DEF MembersAreOwned, Defined
  <2>3. CASE Members' = Members \ {t}
    BY <1>1, <2>1, <2>3 DEF MembersAreOwned
  <2> QED
    BY <1>5, <2>2, <2>3, Erases DEF Known
<1>6. CASE Next /\ Members' = Members /\ ~\E t \in Timer : Construct(t) \/ EndDestroy(t)
  <2>1. Defined
    BY <1>6, VectorMoves
  <2>2. owner' = owner \/ \E t \in Timer :
          owner[t] = "has" /\ owner' \in {[owner EXCEPT ![t] = "has"], [owner EXCEPT ![t] = "removes"]}
    BY <1>6
    DEF Next, RunStep, Start, Stop, BeginDestroy, Owner, Tick, WakeUp, CountActive, TakeOut,
        LeaveIn, TakeStopped, LeaveStopped, Nothing, Runs, Fire, StartAgain, Sleep
  <2>3. Owned' = Owned
    BY <1>1, <2>2
  <2> QED
    BY <1>6, <2>1, <2>3 DEF Known, MembersAreOwned
<1>7. CASE Next /\ ~\E t \in Timer : Construct(t) \/ EndDestroy(t)
  <2>1. CASE Leaves \/ TakeStopped
    <3>1. m_timers' = m_timers
      BY <2>1 DEF Leaves, TakeStopped, timers
    <3> QED
      BY <1>6, <1>7, <3>1 DEF Members, At
  <2>2. ASSUME NEW e \in Entries, Stopping(e.timer, e) PROVE MembersAreOwned'
    BY <1>6, <1>7, <2>2 DEF Stopping, Stops
  <2>3. ASSUME NEW t \in Timer, NEW expired \in Nat, Starts(t, expired) PROVE MembersAreOwned'
    BY <1>6, <1>7, <2>3 DEF Starts
  <2> QED
    BY <1>7, <2>1, <2>2, <2>3, VectorMoves
<1> QED
  BY <1>3, <1>4, <1>5, <1>7

(* Once started, always started.                                           *)
LEMMA IntervalsStay ==
  ASSUME Known, [Next]_vars
  PROVE  \A t \in Timer : m_interals[t] \in Interval => m_interals'[t] \in Interval
<1>1. m_interals \in [Timer -> Interval \union {-1}]
  BY DEF Known, TypeOK
<1>2. m_interals' = m_interals \/ \E t \in Timer, interval \in Interval :
        m_interals' = [m_interals EXCEPT ![t] = interval]
  BY DEF Next, RunStep, Construct, Start, Stop, BeginDestroy, EndDestroy, Owner, Tick, WakeUp,
      CountActive, TakeOut, LeaveIn, TakeStopped, LeaveStopped, Nothing, Runs, Fire,
      StartAgain, Sleep, vars
<1> QED
  BY <1>1, <1>2

(* A fault is never forgotten.                                             *)
LEMMA FaultsStay ==
  ASSUME [Next]_vars
  PROVE  faults \subseteq faults'
BY DEF Next, RunStep, Construct, Start, Stop, BeginDestroy, EndDestroy, Owner, Tick, WakeUp,
   CountActive, TakeOut, LeaveIn, TakeStopped, LeaveStopped, Nothing, Runs, Fire,
   StartAgain, Sleep, vars

(* The running entries are entries.                                        *)
LEMMA EntriesTyped ==
  ASSUME TypeOK, m_actived_timers <= Len(m_timers)
  PROVE  Entries \subseteq Entry
<1>1. m_timers \in Seq(Entry) /\ Active \subseteq 1..Len(m_timers)
  BY Typed DEF Vector, Active, TypeOK
<1>2. \A i \in Active : m_timers[i] \in Entry
  BY <1>1
<1> QED
  BY <1>2 DEF Entries

(* The timers that are taken out.                                          *)
LEMMA TakenStarted ==
  ASSUME Known, [Next]_vars, faults' = {}
  PROVE  \A i \in 1..Len(run'.timers) : m_interals'[run'.timers[i]] \in Interval
<1>1. /\ faults = {} /\ run \in RunState /\ run.timers \in Seq(Timer)
      /\ \A i \in 1..Len(run.timers) : m_interals[run.timers[i]] \in Interval
  BY FaultsStay DEF Known, TypeOK, RunState, StartedBefore
<1>2. \A i \in 1..Len(run.timers) : m_interals'[run.timers[i]] \in Interval
  BY <1>1, IntervalsStay
<1>3. CASE run'.timers = run.timers
  BY <1>2, <1>3
<1>4. CASE WakeUp
  BY <1>4 DEF WakeUp
<1>5. CASE TakeOut
  <2>1. run'.timers = Append(run.timers, At(1)) /\ At(1) \in Timer /\ m_timers[1] \in Entries
    BY <1>1, <1>5, TakesOut DEF TakeOut, Known, RunState
  <2>2. m_interals[At(1)] \in Interval
    BY <1>1, <2>1 DEF Known, StartedBefore, At
  <2>3. m_interals'[At(1)] \in Interval
    BY <2>1, <2>2, IntervalsStay
  <2> DEFINE l == Len(run.timers)
  <2>4. /\ Len(run'.timers) = l + 1 /\ run'.timers[l + 1] = At(1) /\ l \in Nat
        /\ \A i \in 1..l : run'.timers[i] = run.timers[i]
    BY <1>1, <2>1
  <2> HIDE DEF l
  <2>5. 1..(l + 1) = 1..l \union {l + 1}
    BY <2>4
  <2> QED
    BY <1>2, <2>3, <2>4, <2>5 DEF l
<1>6. CASE TakeStopped
  BY <1>6 DEF TakeStopped
<1>7. CASE StartAgain
  <2>1. run'.timers = Tail(run.timers) /\ m_interals' = m_interals
    BY <1>1, <1>7 DEF StartAgain, RunState
  <2>2. \A i \in 1..Len(Tail(run.timers)) :
          Tail(run.timers)[i] = run.timers[i + 1] /\ i + 1 \in 1..Len(run.timers)
    BY <1>7, AgainIsStarted
  <2> QED
    BY <1>2, <2>1, <2>2
<1>8. [Next]_vars => \/ run'.timers = run.timers \/ WakeUp \/ TakeOut \/ TakeStopped \/ StartAgain
  BY <1>1
  DEF Next, RunStep, Construct, Start, Stop, BeginDestroy, EndDestroy, Owner, Tick,
      CountActive, LeaveIn, LeaveStopped, Nothing, Runs, Fire, Sleep, vars, RunState
<1> QED
  BY <1>3, <1>4, <1>5, <1>6, <1>7, <1>8

(* The timers that run.                                                    *)
LEMMA RunningStarted ==
  ASSUME Known, [Next]_vars, faults' = {}
  PROVE  \A e \in Entries' : m_interals'[e.timer] \in Interval
<1>1. faults = {} /\ Entries \subseteq Entry
  BY FaultsStay, CountSound, EntriesTyped DEF Known, Defined
<1>2. \A e \in Entries : m_interals[e.timer] \in Interval /\ e.timer \in Timer
  BY <1>1 DEF Known, StartedBefore, Entry
<1>3. \A e \in Entries : m_interals'[e.timer] \in Interval
  BY <1>2, IntervalsStay
<1>4. CASE UNCHANGED timers
  BY <1>3, <1>4 DEF Entries, Active, timers
<1>5. ASSUME NEW e \in Entries, Stopping(e.timer, e)
      PROVE  \A d \in Entries' : m_interals'[d.timer] \in Interval
  BY <1>3, <1>5 DEF Stopping, Stops
<1>6. ASSUME NEW t \in Timer, NEW expired \in Nat, Starts(t, expired),
             m_interals'[t] \in Interval
      PROVE  \A d \in Entries' : m_interals'[d.timer] \in Interval
  BY <1>3, <1>6 DEF Starts
<1>7. ASSUME NEW t \in Timer, Construct(t)
      PROVE  \A d \in Entries' : m_interals'[d.timer] \in Interval
  BY <1>3, <1>7, Appends DEF Known
<1>8. ASSUME NEW t \in Timer, EndDestroy(t)
      PROVE  \A d \in Entries' : m_interals'[d.timer] \in Interval
  <2>1. Entries' = Entries
    BY <1>1, <1>8, Erases DEF Known
  <2> QED
    BY <1>3, <2>1
<1>9. ASSUME NEW t \in Timer, NEW interval \in Interval, Start(t, interval)
      PROVE  \A d \in Entries' : m_interals'[d.timer] \in Interval
  <2>1. Defined /\ Enable(t, clock + interval) /\ clock + interval \in Nat
    BY <1>9, TimerAssumption DEF Start, Owner, Known, TypeOK
  <2>2. m_interals'[t] \in Interval
    BY <1>9 DEF Start, Known, TypeOK
  <2> QED
    BY <1>4, <1>6, <2>1, <2>2, Restarts DEF Known
<1>10. CASE StartAgain
  <2> DEFINE t == Head(run.timers)
  <2>1. Defined /\ t \in Timer /\ m_interals[t] \in Interval /\ clock + m_interals[t] \in Nat
    BY <1>1, <1>10, AgainIsStarted
  <2>2. UNCHANGED timers \/ Enable(t, clock + m_interals[t])
    BY <1>10 DEF StartAgain
  <2> HIDE DEF t
  <2>3. m_interals'[t] \in Interval
    BY <2>1, IntervalsStay
  <2> QED
    BY <1>4, <1>6, <2>1, <2>2, <2>3, Restarts DEF Known
<1>11. CASE TakeOut
  BY <1>5, <1>11, TakesOut DEF Stopping, Known, TakeOut
<1>12. ASSUME NEW t \in Timer, Stop(t) \/ BeginDestroy(t)
       PROVE  \A d \in Entries' : m_interals'[d.timer] \in Interval
  <2>1. Defined /\ Disable(t) /\ faults' = faults
    BY <1>12 DEF Stop, BeginDestroy, Owner
  <2> QED
    BY <1>1, <1>4, <1>5, <2>1, Halts DEF Known, Stopping
<1>13. CASE TakeStopped
  BY <1>13 DEF TakeStopped
<1>14. CASE UNCHANGED vars \/ Tick \/ WakeUp \/ CountActive \/ LeaveIn \/ LeaveStopped \/ Fire \/ Sleep
  BY <1>4, <1>14
  DEF Tick, WakeUp, CountActive, LeaveIn, LeaveStopped, Nothing, Runs, Fire, Sleep, vars
<1> QED
  BY <1>7, <1>8, <1>9, <1>10, <1>11, <1>12, <1>13, <1>14 DEF Next, RunStep

(* Every step keeps what is known of any number of timers.                 *)
LEMMA KnownStep ==
  ASSUME Known, [Next]_vars
  PROVE  Known'
BY TypeStep, OwnedStep, AgainStep, TakenStarted, RunningStarted DEF Known, StartedBefore

(* It holds at first.                                                      *)
LEMMA InitKnown == Init => Known
<1> SUFFICES ASSUME Init PROVE Known
  OBVIOUS
<1>1. m_timers = <<>> /\ m_timers \in Seq(Entry) /\ Len(m_timers) = 0 /\ DOMAIN m_timers = {}
  BY DEF Init
<1>2. Active = {} /\ Entries = {} /\ Members = {}
  BY <1>1 DEF Init, Active, Entries, Members
<1>3. TypeOK
  <2>1. IsInjective([i \in DOMAIN m_timers |-> At(i)])
    BY <1>1 DEF IsInjective
  <2>2. run \in [at : {"sleep", "count", "lock", "fire", "again"},
                 now : 0..MaxTime, timers : Seq(Timer)]
    BY TimerAssumption DEF Init
  <2> QED
    BY <1>1, <2>1, <2>2, TimerAssumption DEF Init, TypeOK, Entry
<1> QED
  BY <1>2, <1>3 DEF Init, Known, MembersAreOwned, StartedBefore, AgainHasTimer

(* It holds in every state.                                                *)
LEMMA KnownAlways == Spec => []Known
<1>1. Known /\ [Next]_vars => Known'
  BY KnownStep
<1> QED
  BY <1>1, InitKnown, PTL DEF Spec

(* Until undefined behaviour begins the vector holds no timer twice, and   *)
(* m_actived_timers counts entries of it or is -1, however many timers     *)
(* there are.                                                              *)
THEOREM TypeCorrect == Spec => []TypeOK
<1>1. Known => TypeOK
  BY DEF Known
<1> QED
  BY <1>1, KnownAlways, PTL

-----------------------------------------------------------------------------
(* At most four timers.                                                    *)
(* disable_timer takes a part of the heap for a heap of its own; with five *)
(* timers what it leaves need not be one.                                  *)

AtMostFour == IsFiniteSet(Timer) /\ Cardinality(Timer) <= 4

(* With at most four timers the vector has at most four entries.           *)
LEMMA VectorIsShort ==
  ASSUME Vector, AtMostFour
  PROVE  Len(m_timers) \in 0..4
<1> DEFINE f == [i \in 1..Len(m_timers) |-> At(i)]
<1>1. m_timers \in Seq(Entry) /\ Len(m_timers) \in Nat
  BY DEF Vector
<1>2. \A i \in 1..Len(m_timers) : At(i) \in Timer
  <2>1. \A i \in 1..Len(m_timers) : m_timers[i] \in Entry
    BY <1>1
  <2> QED
    BY <2>1 DEF At, Entry
<1>3. f \in Injection(1..Len(m_timers), Timer)
  BY <1>2 DEF Injection, IsInjective, Vector
<1>4. Cardinality(1..Len(m_timers)) <= Cardinality(Timer)
  BY <1>3, FS_Injection DEF AtMostFour
<1>5. Cardinality(1..Len(m_timers)) = Len(m_timers)
  BY <1>1, UpTo
<1>6. Cardinality(Timer) \in Nat
  BY FS_CardinalityType DEF AtMostFour
<1> QED
  BY <1>1, <1>4, <1>5, <1>6 DEF AtMostFour

(* And no more than four run.                                              *)
LEMMA FewRun ==
  ASSUME Vector, AtMostFour, m_actived_timers \in 0..Len(m_timers)
  PROVE  m_actived_timers <= 4
<1> DEFINE l == Len(m_timers)
<1>1. l \in 0..4 /\ m_actived_timers \in 0..l
  BY VectorIsShort
<1> HIDE DEF l
<1> QED
  BY ONLY <1>1

(* The first of a heap of at most four is due first.                       *)
LEMMA FirstIsLeast ==
  ASSUME Vector, m_actived_timers \in 0..Len(m_timers), m_actived_timers <= 4, InOrder
  PROVE  \A e \in Entries : m_timers[1].expired <= e.expired
<1> DEFINE n == m_actived_timers
<1>1. n \in 0..4 /\ m_timers \in Seq(Entry) /\ Len(m_timers) \in Nat /\ n <= Len(m_timers)
  BY DEF Vector
<1>2. \A i \in 1..n : m_timers[i].expired \in Nat
  <2>1. \A i \in 1..n : m_timers[i] \in Entry
    BY <1>1
  <2> QED
    BY <2>1 DEF Entry
<1>3. 2 \div 2 = 1 /\ 3 \div 2 = 1 /\ 4 \div 2 = 2
  OBVIOUS
<1>4. /\ n >= 2 => m_timers[1].expired <= m_timers[2].expired
      /\ n >= 3 => m_timers[1].expired <= m_timers[3].expired
      /\ n >= 4 => m_timers[2].expired <= m_timers[4].expired
  BY <1>1, <1>3 DEF InOrder
<1>5. ASSUME NEW i \in 1..n PROVE m_timers[1].expired <= m_timers[i].expired
  <2>1. i = 1 \/ i = 2 \/ i = 3 \/ i = 4
    BY <1>1
  <2>2. 1 \in 1..n /\ (n >= 2 => 2 \in 1..n) /\ (n >= 4 => 4 \in 1..n)
    BY <1>1
  <2> QED
    BY <1>1, <1>2, <1>4, <2>1, <2>2
<1> QED
  BY <1>5 DEF Entries, Active

HeapKept == faults = {} => InOrder

(* With at most four timers every step keeps the heap.                     *)
LEMMA HeapStep ==
  ASSUME AtMostFour, Known, HeapKept, [Next]_vars
  PROVE  HeapKept'
<1> SUFFICES ASSUME faults' = {} PROVE InOrder'
  BY DEF HeapKept
<1>1. /\ faults = {} /\ InOrder /\ Vector /\ Len(m_timers) \in 0..4
      /\ m_actived_timers \in 0..Len(m_timers)
  BY FaultsStay, CountSound, Typed, VectorIsShort DEF Known, Defined, HeapKept
<1>2. CASE UNCHANGED timers
  BY <1>1, <1>2 DEF timers, InOrder
<1>3. ASSUME NEW e \in Entries, Stopping(e.timer, e) PROVE InOrder'
  <2>1. CASE m_timers'[1] = m_timers[1]
    <3>1. \A d \in Entries : m_timers[1].expired <= d.expired
      <4>1. m_actived_timers <= 4
        BY <1>1, FewRun
      <4> QED
        BY <1>1, <4>1, FirstIsLeast
    <3>2. \A d \in Entries' : m_timers'[1].expired <= d.expired
      BY <1>3, <2>1, <3>1 DEF Stopping, Stops
    <3>3. m_actived_timers' \in Int /\ m_actived_timers' <= 3
      BY <1>1, <1>3 DEF Stopping, Stops
    <3>4. ASSUME NEW i \in 2..m_actived_timers'
          PROVE  m_timers'[i \div 2].expired <= m_timers'[i].expired
      <4>1. i \div 2 = 1 /\ i \in Active'
        BY <3>3 DEF Active
      <4>2. m_timers'[i] \in Entries'
        BY <4>1 DEF Entries
      <4> QED
        BY <3>2, <4>1, <4>2
    <3> QED
      BY <3>4 DEF InOrder
  <2> QED
    BY <1>1, <1>3, <2>1 DEF Stopping, Stops
<1>4. ASSUME NEW t \in Timer, NEW expired \in Nat, Starts(t, expired) PROVE InOrder'
  BY <1>4 DEF Starts
<1>5. ASSUME NEW t \in Timer, Construct(t) PROVE InOrder'
  <2>1. /\ m_actived_timers' = m_actived_timers
        /\ \A i \in 1..Len(m_timers) : m_timers'[i] = m_timers[i]
    BY <1>5, Appends DEF Known, Construct
  <2>2. ASSUME NEW i \in 2..m_actived_timers
        PROVE  m_timers'[i \div 2].expired <= m_timers'[i].expired
    <3>1. i \in 1..Len(m_timers) /\ i \div 2 \in 1..Len(m_timers)
      BY <1>1
    <3> QED
      BY <1>1, <2>1, <3>1 DEF InOrder
  <2> QED
    BY <2>1, <2>2 DEF InOrder
<1>6. ASSUME NEW t \in Timer, EndDestroy(t) PROVE InOrder'
  <2>1. /\ m_actived_timers' = m_actived_timers
        /\ \A i \in Active : m_timers'[i] = m_timers[i]
    <3>1. faults' # faults \union {"miscounted"}
      OBVIOUS
    <3> QED
      BY <1>6, <3>1, Erases DEF Known, EndDestroy
  <2>2. ASSUME NEW i \in 2..m_actived_timers
        PROVE  m_timers'[i \div 2].expired <= m_timers'[i].expired
    <3>1. i \in Active /\ i \div 2 \in Active
      BY <1>1 DEF Active
    <3> QED
      BY <1>1, <2>1, <3>1 DEF InOrder
  <2> QED
    BY <2>1, <2>2 DEF InOrder
<1>7. CASE TakeStopped
  BY <1>7 DEF TakeStopped
<1>8. CASE UNCHANGED vars
  BY <1>2, <1>8 DEF vars
<1> QED
  BY <1>2, <1>3, <1>4, <1>5, <1>6, <1>7, <1>8, VectorMoves DEF Leaves

(* The thread's time is past.                                              *)
NowIsPast == run.now <= clock

(* The time the thread read is not in the future.                          *)
LEMMA NowStep ==
  ASSUME TypeOK, NowIsPast, [Next]_vars
  PROVE  NowIsPast'
<1>1. run \in RunState /\ clock \in Nat /\ run.now \in Nat
  BY TimerAssumption DEF TypeOK, RunState
<1>2. CASE run'.now = run.now /\ (clock' = clock \/ clock' = clock + 1)
  BY <1>1, <1>2 DEF NowIsPast
<1>3. CASE WakeUp
  BY <1>1, <1>3 DEF WakeUp, NowIsPast
<1>4. WakeUp \/ (run'.now = run.now /\ (clock' = clock \/ clock' = clock + 1))
  BY <1>1
  DEF Next, RunStep, Construct, Start, Stop, BeginDestroy, EndDestroy, Owner, Tick,
      CountActive, TakeOut, LeaveIn, TakeStopped, LeaveStopped, Nothing, Runs, Fire,
      StartAgain, Sleep, vars, RunState
<1> QED
  BY <1>2, <1>3, <1>4

(* NothingDueIsLeft, said of the entries.                                  *)
LaterThan(now) == \A e \in Entries : e.expired > now

(* NothingDueIsLeft, as the steps use it.                                  *)
LEMMA NothingDue ==
  NothingDueIsLeft <=> (run.at \in {"fire", "again"} /\ faults = {} => LaterThan(run.now))
BY DEF NothingDueIsLeft, LaterThan, Entries

(* A thread that leaves its loop leaves nothing due.                       *)
LEMMA DueStep ==
  ASSUME AtMostFour, Known, HeapKept, NowIsPast, NothingDueIsLeft, [Next]_vars
  PROVE  run'.at \in {"fire", "again"} /\ faults' = {} => LaterThan(run.now)'
<1> DEFINE Later == \A e \in Entries' : e.expired > run'.now
<1> SUFFICES ASSUME run'.at \in {"fire", "again"}, faults' = {} PROVE Later
  BY DEF LaterThan
<1>1. /\ faults = {} /\ InOrder /\ Vector /\ Len(m_timers) \in 0..4 /\ Defined
      /\ m_actived_timers \in 0..Len(m_timers)
  BY FaultsStay, CountSound, Typed, VectorIsShort DEF Known, Defined, HeapKept
<1>2. run \in RunState /\ clock \in Nat /\ run.now \in Nat /\ run.now <= clock
  BY TimerAssumption DEF Known, TypeOK, RunState, NowIsPast
<1> DEFINE Goes == run.at \in {"fire", "again"} /\ run'.now = run.now
<1>3. Goes => LaterThan(run.now)
  BY <1>1, NothingDue
<1>4. CASE Goes /\ UNCHANGED timers
  BY <1>3, <1>4 DEF LaterThan, Entries, Active, timers
<1>5. ASSUME Goes, NEW e \in Entries, Stopping(e.timer, e) PROVE Later
  BY <1>3, <1>5 DEF Stopping, Stops, LaterThan
<1>6. ASSUME Goes, NEW t \in Timer, NEW expired \in Nat, expired > run.now, Starts(t, expired)
      PROVE  Later
  <2>1. Entries' = Entries \union {[timer |-> t, expired |-> expired]}
    BY <1>6 DEF Starts
  <2> QED
    BY <1>3, <1>6, <2>1 DEF LaterThan
<1>7. ASSUME NEW t \in Timer, Construct(t) PROVE Later
  BY <1>3, <1>7, Appends DEF Known, Construct, Owner, LaterThan
<1>8. ASSUME NEW t \in Timer, EndDestroy(t) PROVE Later
  <2>1. Entries' = Entries /\ run' = run
    BY <1>1, <1>8, Erases DEF Known, EndDestroy, Owner
  <2> QED
    BY <1>3, <2>1 DEF LaterThan
<1>9. ASSUME NEW t \in Timer, NEW interval \in Interval, Start(t, interval) PROVE Later
  <2>1. Enable(t, clock + interval) /\ clock + interval \in Nat /\ run' = run
    BY <1>2, <1>9, TimerAssumption DEF Start, Owner
  <2>2. clock + interval > run.now
    BY <1>2, TimerAssumption
  <2> QED
    BY <1>1, <1>4, <1>6, <2>1, <2>2, Restarts DEF Known
<1>10. CASE StartAgain
  <2> DEFINE t == Head(run.timers)
  <2>1. t \in Timer /\ m_interals[t] \in Interval /\ clock + m_interals[t] \in Nat
    BY <1>1, <1>10, AgainIsStarted
  <2>2. UNCHANGED timers \/ Enable(t, clock + m_interals[t])
    BY <1>10 DEF StartAgain
  <2>3. Goes
    BY <1>2, <1>10 DEF StartAgain, RunState
  <2> HIDE DEF t
  <2>4. clock + m_interals[t] > run.now
    <3>1. \A x \in Interval : clock + x > run.now
      BY <1>2, TimerAssumption
    <3> QED
      BY <2>1, <3>1
  <2> QED
    BY <1>1, <1>4, <1>6, <2>1, <2>2, <2>3, <2>4, Restarts DEF Known
<1>11. ASSUME NEW t \in Timer, Stop(t) \/ BeginDestroy(t) PROVE Later
  <2>1. Disable(t) /\ faults' = faults /\ run' = run
    BY <1>11 DEF Stop, BeginDestroy, Owner
  <2> QED
    BY <1>1, <1>4, <1>5, <2>1, Halts DEF Known, Stopping
<1>12. CASE TakeOut \/ TakeStopped \/ WakeUp \/ Sleep
  <2>1. run'.at \in {"count", "sleep"}
    <3>1. CASE TakeOut
      BY <1>2, <3>1 DEF TakeOut, RunState
    <3>2. CASE TakeStopped
      BY <1>2, <3>2 DEF TakeStopped, RunState
    <3>3. CASE WakeUp \/ Sleep
      BY <1>2, <3>3 DEF WakeUp, Sleep, Runs, RunState
    <3> QED
      BY <1>12, <3>1, <3>2, <3>3
  <2> QED
    BY <2>1
(* No timer runs when the thread saw the count at zero.                    *)
<1>13. CASE CountActive
  <2>1. UNCHANGED timers /\ run'.at \in {"lock", "fire"}
          /\ (run'.at = "fire" => ~(m_actived_timers > 0 /\ m_timers # <<>>))
    BY <1>2, <1>13 DEF CountActive, Runs, RunState
  <2>2. m_actived_timers = 0
    <3>1. m_timers = <<>> => Len(m_timers) = 0
      OBVIOUS
    <3> QED
      BY <1>1, <2>1, <3>1
  <2>3. Active' = {}
    BY <2>1, <2>2 DEF Active, timers
  <2> QED
    BY <2>3 DEF Entries
<1>14. CASE LeaveStopped
  <2>1. Active' = {}
    BY <1>14 DEF LeaveStopped, Nothing, timers, Active
  <2> QED
    BY <2>1 DEF Entries
(* The first timer is not due, and no other is due earlier.                *)
<1>15. CASE LeaveIn
  <2>1. /\ UNCHANGED timers /\ run'.now = run.now /\ m_actived_timers > 0 /\ ~IsDue
    BY <1>2, <1>15 DEF LeaveIn, Nothing, Runs, RunState
  <2>2. /\ m_timers # <<>> /\ m_timers[1] \in Entry
        /\ m_actived_timers <= 4 /\ m_actived_timers <= Len(m_timers)
    <3>1. m_timers \in Seq(Entry) /\ 1 \in 1..Len(m_timers) /\ m_actived_timers <= Len(m_timers)
      BY <1>1, <2>1 DEF Vector
    <3> QED
      BY <1>1, <3>1, FewRun
  <2>3. m_timers[1].expired > run.now /\ m_timers[1].expired \in Nat
    BY <1>2, <2>1, <2>2 DEF IsDue, Entry
  <2>4. \A e \in Entries : m_timers[1].expired <= e.expired /\ e.expired \in Nat
    <3>1. \A e \in Entries : m_timers[1].expired <= e.expired
      BY <1>1, <2>2, FirstIsLeast
    <3>2. Entries \subseteq Entry
      BY <2>2, EntriesTyped DEF Known
    <3> QED
      BY <3>1, <3>2 DEF Entry
  <2>5. \A e \in Entries : e.expired > run.now
    BY <1>2, <2>3, <2>4
  <2>6. Entries' = Entries
    BY <2>1 DEF timers, Entries, Active
  <2> QED
    BY <2>1, <2>5, <2>6
<1>16. CASE UNCHANGED vars \/ Tick \/ Fire
  BY <1>2, <1>4, <1>16 DEF vars, Tick, Fire, Runs, RunState
<1> QED
  BY <1>7, <1>8, <1>9, <1>10, <1>11, <1>12, <1>13, <1>14, <1>15, <1>16 DEF Next, RunStep

(* The invariant.                                                          *)
SleepsWithNothing == run.at = "sleep" => run.timers = <<>>

Inv == Known /\ NowIsPast /\ HeapKept /\ NothingDueIsLeft /\ SleepsWithNothing

(* A thread asleep saw no timer run.                                       *)
LEMMA SleepStep ==
  ASSUME TypeOK, SleepsWithNothing, [Next]_vars
  PROVE  SleepsWithNothing'
<1>1. run \in RunState
  BY DEF TypeOK, RunState
<1>2. CASE run'.at # "sleep" \/ run' = run
  BY <1>2 DEF SleepsWithNothing
<1>3. CASE Sleep
  BY <1>1, <1>3 DEF Sleep, Runs, RunState, SleepsWithNothing
<1>4. Sleep \/ run'.at # "sleep" \/ run' = run
  <2>1. CASE TakeOut
    BY <1>1, <2>1 DEF TakeOut, RunState
  <2>2. CASE TakeStopped
    BY <1>1, <2>2 DEF TakeStopped, RunState
  <2>3. CASE WakeUp \/ CountActive \/ LeaveIn \/ LeaveStopped \/ Fire
    BY <1>1, <2>3 DEF WakeUp, CountActive, LeaveIn, LeaveStopped, Nothing, Fire, Runs, RunState
  <2>4. CASE StartAgain
    BY <1>1, <2>4 DEF StartAgain, RunState
  <2> QED
    BY <2>1, <2>2, <2>3, <2>4
    DEF Next, RunStep, Construct, Start, Stop, BeginDestroy, EndDestroy, Owner, Tick, vars
<1> QED
  BY <1>2, <1>3, <1>4

(* The invariant holds in every state.                                     *)
LEMMA InvAlways ==
  ASSUME AtMostFour
  PROVE  Spec => []Inv
<1>1. Init => Inv
  <2> SUFFICES ASSUME Init PROVE Inv
    OBVIOUS
  <2>1. run = [at |-> "sleep", now |-> 0, timers |-> <<>>] /\ clock = 0 /\ m_actived_timers = 0
    BY DEF Init
  <2>2. Known
    BY InitKnown
  <2>3. NowIsPast /\ HeapKept /\ NothingDueIsLeft /\ SleepsWithNothing
    BY <2>1 DEF NowIsPast, HeapKept, InOrder, NothingDueIsLeft, SleepsWithNothing
  <2> QED
    BY <2>2, <2>3 DEF Inv
<1>2. Inv /\ [Next]_vars => Inv'
  <2> SUFFICES ASSUME Inv, [Next]_vars PROVE Inv'
    OBVIOUS
  <2>1. NothingDueIsLeft'
    <3>1. run'.at \in {"fire", "again"} /\ faults' = {} => LaterThan(run.now)'
      BY DueStep DEF Inv
    <3> QED
      BY <3>1 DEF NothingDueIsLeft, LaterThan, Entries
  <2> QED
    BY <2>1, KnownStep, NowStep, HeapStep, SleepStep DEF Inv, Known
<1> QED
  BY <1>1, <1>2, PTL DEF Spec

(* When the thread goes on to the callbacks it has left no timer in the    *)
(* heap that was due when it woke up: with at most four timers.            *)
THEOREM DueTimersAreTaken ==
  ASSUME IsFiniteSet(Timer), Cardinality(Timer) <= 4
  PROVE  Spec => []NothingDueIsLeft
<1>1. AtMostFour
  BY DEF AtMostFour
<1>2. Inv => NothingDueIsLeft
  BY DEF Inv
<1> QED
  BY <1>1, <1>2, InvAlways, PTL

-----------------------------------------------------------------------------
(* The vector implements the set of timers.                                *)

Without(f, u) == [t \in DOMAIN f \ {u} |-> f[t]]
With(f, u, x) == [t \in DOMAIN f \union {u} |-> IF t = u THEN x ELSE f[t]]

(* f tells when the timers of the entries are due.                         *)
Tells(f, entries) ==
  /\ f = [t \in {e.timer : e \in entries} |-> f[t]]
  /\ \A e \in entries : f[e.timer] = e.expired

ExpiriesOf(m, n) ==
  [t \in {m[i].timer : i \in (1..n) \intersect DOMAIN m} |->
     m[CHOOSE i \in 1..n : m[i].timer = t].expired]

(* The function that TimerSet has says the same as the entries.            *)
LEMMA ExpiriesTell ==
  ASSUME NEW m \in Seq(Entry), NEW n \in Int, n <= Len(m),
         \A i, j \in 1..Len(m) : m[i].timer = m[j].timer => i = j
  PROVE  Tells(ExpiriesOf(m, n), {m[i] : i \in 1..n})
<1> DEFINE f == ExpiriesOf(m, n)
           T == {m[i].timer : i \in 1..n}
<1>1. DOMAIN m = 1..Len(m) /\ Len(m) \in Nat /\ 1..n \subseteq 1..Len(m)
  OBVIOUS
<1>2. f = [t \in T |-> m[CHOOSE i \in 1..n : m[i].timer = t].expired]
  BY <1>1 DEF ExpiriesOf
<1> HIDE DEF f
<1>3. ASSUME NEW i \in 1..n PROVE f[m[i].timer] = m[i].expired
  <2> DEFINE t == m[i].timer
             k == CHOOSE j \in 1..n : m[j].timer = t
  <2>1. k \in 1..n /\ m[k].timer = t
    BY Zenon
  <2>2. t \in T /\ f[t] = m[k].expired
    BY <1>2
  <2> HIDE DEF k
  <2>3. k = i
    BY <1>1, <2>1
  <2> QED
    BY <2>2, <2>3
<1>4. {e.timer : e \in {m[i] : i \in 1..n}} = T
  OBVIOUS
<1>5. f = [t \in T |-> f[t]]
  BY <1>2
<1> QED
  BY <1>3, <1>4, <1>5 DEF Tells, f

(* It does so before a step.                                               *)
LEMMA ExpiriesTellNow ==
  ASSUME Vector, m_actived_timers \in Int, m_actived_timers <= Len(m_timers)
  PROVE  Tells(Expiries, Entries)
<1>1. Expiries = ExpiriesOf(m_timers, m_actived_timers)
  BY DEF Expiries, ExpiriesOf, Active, At
<1>2. Entries = {m_timers[i] : i \in 1..m_actived_timers}
  BY DEF Entries, Active
<1>3. m_timers \in Seq(Entry) /\ \A i, j \in 1..Len(m_timers) : m_timers[i].timer = m_timers[j].timer => i = j
  BY DEF Vector, At
<1>4. Tells(ExpiriesOf(m_timers, m_actived_timers), {m_timers[i] : i \in 1..m_actived_timers})
  BY <1>3, ExpiriesTell
<1> QED
  BY <1>1, <1>2, <1>4

(* It does so after a step.                                                *)
LEMMA ExpiriesTellThen ==
  ASSUME Vector', m_actived_timers' \in Int, m_actived_timers' <= Len(m_timers')
  PROVE  Tells(Expiries', Entries')
<1>1. Expiries' = ExpiriesOf(m_timers', m_actived_timers')
  BY DEF Expiries, ExpiriesOf, Active, At
<1>2. Entries' = {m_timers'[i] : i \in 1..m_actived_timers'}
  BY DEF Entries, Active
<1>3. m_timers' \in Seq(Entry) /\ \A i, j \in 1..Len(m_timers') : m_timers'[i].timer = m_timers'[j].timer => i = j
  BY DEF Vector, At
<1>4. Tells(ExpiriesOf(m_timers', m_actived_timers'), {m_timers'[i] : i \in 1..m_actived_timers'})
  BY <1>3, ExpiriesTell
<1> QED
  BY <1>1, <1>2, <1>4

(* The entries say it all, ...                                             *)
LEMMA TellsOnce ==
  ASSUME NEW S, NEW f, NEW g, Tells(f, S), Tells(g, S)
  PROVE  f = g
<1> DEFINE D == {e.timer : e \in S}
<1>1. f = [t \in D |-> f[t]] /\ g = [t \in D |-> g[t]]
  BY DEF Tells
<1>2. \A t \in D : f[t] = g[t]
  BY DEF Tells
<1> HIDE DEF D
<1>3. [t \in D |-> f[t]] = [t \in D |-> g[t]]
  BY <1>2
<1> QED
  BY <1>1, <1>3

(* ... one less ...                                                        *)
LEMMA TellsLess ==
  ASSUME NEW S, NEW f, NEW g, NEW e \in S, Tells(f, S), Tells(g, S \ {e}),
         \A d \in S : d.timer = e.timer => d = e
  PROVE  g = [t \in DOMAIN f \ {e.timer} |-> f[t]]
<1> DEFINE D == {d.timer : d \in S}
           C == {d.timer : d \in S \ {e}}
<1>1. DOMAIN f = D /\ C = D \ {e.timer}
  BY DEF Tells
<1>2. \A t \in C : f[t] = g[t]
  BY DEF Tells
<1>3. g = [t \in C |-> g[t]]
  BY DEF Tells
<1> HIDE DEF C, D
<1>4. [t \in C |-> g[t]] = [t \in C |-> f[t]]
  BY <1>2
<1> QED
  BY <1>1, <1>3, <1>4

(* ... and one more.                                                       *)
LEMMA TellsMore ==
  ASSUME NEW S, NEW f, NEW g, NEW e, Tells(f, S), Tells(g, S \union {e}),
         \A d \in S : d.timer # e.timer
  PROVE  g = With(f, e.timer, e.expired)
<1> DEFINE D == {d.timer : d \in S}
           C == {d.timer : d \in S \union {e}}
<1>1. DOMAIN f = D
  BY DEF Tells
<1>2. C = D \union {e.timer} /\ e.timer \notin D
  OBVIOUS
<1>3. (\A t \in D : g[t] = f[t]) /\ g[e.timer] = e.expired
  BY DEF Tells
<1>4. g = [t \in C |-> g[t]]
  BY DEF Tells
<1> HIDE DEF C, D
<1>5. [t \in C |-> g[t]] = [t \in D \union {e.timer} |-> IF t = e.timer THEN e.expired ELSE f[t]]
  BY <1>2, <1>3
<1> QED
  BY <1>1, <1>4, <1>5 DEF With

(* Its domain is the running timers.                                       *)
LEMMA ExpiriesRun ==
  ASSUME TypeOK, Defined
  PROVE  /\ Tells(Expiries, Entries) /\ DOMAIN Expiries = Running
         /\ Expiries = [t \in Running |-> Expiries[t]]
<1>1. Tells(Expiries, Entries)
  BY ExpiriesTellNow, CountSound, Typed
<1>2. Expiries = [t \in Running |-> Expiries[t]]
  BY <1>1 DEF Tells, Running
<1> QED
  BY <1>1, <1>2

(* It depends on the vector and the count alone.                           *)
LEMMA ExpiriesStay ==
  ASSUME UNCHANGED timers
  PROVE  Expiries' = Expiries /\ Members' = Members /\ Entries' = Entries
BY DEF timers, Expiries, Members, Entries, Active, At

(* To take away a timer that does not run changes nothing.                 *)
LEMMA ExpiriesWithout ==
  ASSUME TypeOK, Defined, NEW t, t \notin Running
  PROVE  Without(Expiries, t) = Expiries
<1>1. Running \ {t} = Running
  OBVIOUS
<1> QED
  BY <1>1, ExpiriesRun, Zenon DEF Without

(* An entry less in the heap is a timer less in the set.                   *)
LEMMA StopsWithout ==
  ASSUME TypeOK, Defined, NEW e, Stops(e)
  PROVE  /\ Expiries' = Without(Expiries, e.timer)
         /\ e.timer \in Running /\ Expiries[e.timer] = e.expired
<1>1. /\ Tells(Expiries, Entries) /\ e \in Entries /\ Entries' = Entries \ {e}
  BY ExpiriesRun DEF Stops
<1>2. Tells(Expiries', Entries')
  <2>1. /\ Vector' /\ m_actived_timers' = m_actived_timers - 1
        /\ m_actived_timers \in Int /\ m_actived_timers <= Len(m_timers)
        /\ Len(m_timers') = Len(m_timers) /\ Len(m_timers) \in Nat
    BY CountSound DEF Stops
  <2>2. m_actived_timers' \in Int /\ m_actived_timers' <= Len(m_timers')
    BY <2>1
  <2> QED
    BY <2>1, <2>2, ExpiriesTellThen
<1>3. \A d \in Entries : d.timer = e.timer => d = e
  <2>1. Active \subseteq 1..Len(m_timers)
    BY CountSound DEF Active
  <2> QED
    BY <1>1, <2>1, Typed DEF Entries, Vector, At
<1>4. Expiries' = [t \in DOMAIN Expiries \ {e.timer} |-> Expiries[t]]
  <2>1. Tells(Expiries', Entries \ {e})
    BY <1>1, <1>2
  <2> QED
    BY ONLY <1>1, <1>3, <2>1, TellsLess
<1> QED
  BY <1>1, <1>4 DEF Without, Running, Tells

(* An entry more is a timer more.                                          *)
LEMMA StartsWith ==
  ASSUME TypeOK, Defined, NEW t, NEW expired, Starts(t, expired)
  PROVE  /\ Expiries' = With(Expiries, t, expired)
         /\ t \in Members \ Running
<1>1. /\ Tells(Expiries, Entries) /\ t \in Members \ Running
      /\ Entries' = Entries \union {[timer |-> t, expired |-> expired]}
  BY ExpiriesRun DEF Starts
<1>2. Tells(Expiries', Entries')
  <2>1. /\ Vector' /\ m_actived_timers' \in 1..Len(m_timers)
        /\ Len(m_timers') = Len(m_timers) /\ Len(m_timers) \in Nat
    BY CountSound DEF Starts
  <2>2. m_actived_timers' \in Int /\ m_actived_timers' <= Len(m_timers')
    BY <2>1
  <2> QED
    BY <2>1, <2>2, ExpiriesTellThen
<1> DEFINE new == [timer |-> t, expired |-> expired]
<1>3. new.timer = t /\ new.expired = expired /\ \A d \in Entries : d.timer # new.timer
  BY <1>1 DEF Running
<1>4. Tells(Expiries', Entries \union {new})
  BY <1>1, <1>2
<1> HIDE DEF new
<1>5. Expiries' = With(Expiries, new.timer, new.expired)
  BY ONLY <1>1, <1>3, <1>4, TellsMore
<1> QED
  BY <1>1, <1>3, <1>5

(* The same entries in another order are the same function.                *)
LEMMA SameEntries ==
  ASSUME TypeOK, Defined, TypeOK', Defined', Entries' = Entries
  PROVE  Expiries' = Expiries
<1>1. Tells(Expiries, Entries)
  BY ExpiriesRun
<1>2. Tells(Expiries', Entries')
  <2>1. Vector'
    <3>1. m_timers' \in Seq(Entry) /\ DOMAIN m_timers' = 1..Len(m_timers')
      BY DEF TypeOK, Entry
    <3>2. IsInjective([i \in 1..Len(m_timers') |-> m_timers'[i].timer])
      BY <3>1 DEF TypeOK, At
    <3> QED
      BY <3>1, <3>2 DEF Vector, IsInjective, At
  <2>2. /\ m_actived_timers' \in Int /\ Len(m_timers') \in Nat
        /\ m_actived_timers' \in (IF "stale" \in faults' THEN {-1} ELSE 0..Len(m_timers'))
    BY DEF TypeOK
  <2>3. m_actived_timers' <= Len(m_timers')
    BY <2>2
  <2> QED
    BY <2>1, <2>2, <2>3, ExpiriesTellThen
<1> QED
  BY <1>1, <1>2, TellsOnce

(* Each step of the vector is a step of the set, or none.                  *)
LEMMA StatusIs ==
  /\ Defined => Status = (IF "stale" \in faults THEN "dead" ELSE "sound")
  /\ Defined' => Status' = (IF "stale" \in faults' THEN "dead" ELSE "sound")
  /\ ~Defined' => Status' = "undefined"
BY DEF Status

(* Without a new fault the status is the same.                             *)
LEMMA StatusStays ==
  ASSUME UNCHANGED faults
  PROVE  Status' = Status /\ Defined' = Defined
BY DEF Status, Defined

(* A timer is being removed as long as its owner says so.                  *)
LEMMA RemovingStays ==
  ASSUME UNCHANGED owner
  PROVE  Removing' = Removing
BY DEF Removing

(* The constructor is the set's Add.                                       *)
LEMMA ConstructAdds ==
  ASSUME Inv, NEW t \in Timer, Construct(t)
  PROVE  Set!Add(t)
<1>1. /\ TypeOK /\ Defined /\ UNCHANGED <<clock, run, faults>>
      /\ owner[t] = "none" /\ owner' = [owner EXCEPT ![t] = "has"]
  BY DEF Inv, Known, Construct, Owner
<1>2. Entries' = Entries /\ Members' = Members \union {t} /\ t \notin Members
  BY Appends DEF Inv, Known
<1>3. Expiries' = Expiries
  <2>1. TypeOK'
    BY KnownStep DEF Inv, Known, Next
  <2> QED
    BY <1>1, <1>2, <2>1, SameEntries, StatusStays
<1>4. Removing' = Removing
  BY <1>1 DEF Removing, TypeOK
<1> QED
  BY <1>1, <1>2, <1>3, <1>4, StatusStays DEF Set!Add

(* Starting a timer, as the set sees it.                                   *)
LEMMA EnableIsStarted ==
  ASSUME TypeOK, Defined, NEW t \in Timer, NEW interval,
         "stale" \notin faults => clock + interval \in Nat, Enable(t, clock + interval)
  PROVE  Members' = Members /\ Set!Started(t, interval)
<1>1. CASE UNCHANGED timers /\ ("stale" \in faults \/ t \notin Members \ Running)
  <2>1. "stale" \in faults => Status # "sound"
    BY StatusIs
  <2>2. t \in Members \ DOMAIN Expiries => Status # "sound"
    BY <1>1, <2>1, ExpiriesRun
  <2> QED
    BY <1>1, <2>2, ExpiriesStay DEF Set!Started
<1>2. CASE "stale" \notin faults /\ Starts(t, clock + interval)
  <2>1. Status = "sound" /\ DOMAIN Expiries = Running
    BY <1>2, StatusIs, ExpiriesRun
  <2>2. t \in Members \ Running /\ Expiries' = With(Expiries, t, clock + interval)
    BY <1>2, StartsWith
  <2>3. Members' = Members
    BY <1>2 DEF Starts
  <2> QED
    BY <2>1, <2>2, <2>3 DEF Set!Started, Set!With, With
<1> QED
  BY <1>1, <1>2, Restarts

(* start is the set's Start.                                               *)
LEMMA StartStarts ==
  ASSUME Inv, NEW t \in Timer, NEW interval \in Interval, Start(t, interval)
  PROVE  Set!Start(t, interval)
<1>1. /\ TypeOK /\ Defined /\ UNCHANGED <<clock, run, faults>> /\ Enable(t, clock + interval)
      /\ owner[t] = "has" /\ owner' = [owner EXCEPT ![t] = "has"]
  BY DEF Inv, Known, Start, Owner
<1>2. clock + interval \in Nat
  BY <1>1, TimerAssumption DEF TypeOK
<1>3. Members' = Members /\ Set!Started(t, interval)
  BY <1>1, <1>2, EnableIsStarted
<1>4. Removing' = Removing
  BY <1>1 DEF Removing, TypeOK
<1> QED
  BY <1>1, <1>3, <1>4, StatusStays DEF Set!Start

(* Stopping a timer, as the set sees it.                                   *)
LEMMA DisableIsWithout ==
  ASSUME TypeOK, Defined, NEW t, Disable(t)
  PROVE  Members' = Members /\ Expiries' = Without(Expiries, t)
<1>1. CASE UNCHANGED timers /\ t \notin Running
  BY <1>1, ExpiriesStay, ExpiriesWithout
<1>2. ASSUME NEW e \in Entries, e.timer = t, Stops(e)
      PROVE  Members' = Members /\ Expiries' = Without(Expiries, t)
  BY <1>2, StopsWithout DEF Stops
<1> QED
  BY <1>1, <1>2, Halts

(* stop is the set's Stop.                                                 *)
LEMMA StopStops ==
  ASSUME Inv, NEW t \in Timer, Stop(t)
  PROVE  Set!Stop(t)
<1>1. /\ TypeOK /\ Defined /\ UNCHANGED <<clock, run, faults>> /\ Disable(t)
      /\ owner[t] = "has" /\ owner' = [owner EXCEPT ![t] = "has"]
  BY DEF Inv, Known, Stop, Owner
<1>2. Removing' = Removing
  BY <1>1 DEF Removing, TypeOK
<1> QED
  BY <1>1, <1>2, DisableIsWithout, StatusStays DEF Set!Stop, Set!Without, Without

(* The destructor begins with the set's BeginRemove.                       *)
LEMMA BeginDestroyRemoves ==
  ASSUME Inv, NEW t \in Timer, BeginDestroy(t)
  PROVE  Set!BeginRemove(t)
<1>1. /\ TypeOK /\ Defined /\ UNCHANGED <<clock, run, faults>> /\ Disable(t)
      /\ owner[t] = "has" /\ owner' = [owner EXCEPT ![t] = "removes"]
  BY DEF Inv, Known, BeginDestroy, Owner
<1>2. Removing' = Removing \union {t}
  BY <1>1 DEF Removing, TypeOK
<1>3. t \in Members
  BY <1>1 DEF Inv, Known, MembersAreOwned
<1> QED
  BY <1>1, <1>2, <1>3, DisableIsWithout, StatusStays DEF Set!BeginRemove, Set!Without, Without

(* It ends with EndRemove, or with the count gone wrong.                   *)
LEMMA EndDestroyRemoves ==
  ASSUME Inv, NEW t \in Timer, EndDestroy(t)
  PROVE  Set!EndRemove(t) \/ Set!GoWrong
<1>1. /\ TypeOK /\ Defined /\ UNCHANGED <<clock, run>>
      /\ owner[t] = "removes" /\ owner' = [owner EXCEPT ![t] = "gone"]
  BY DEF Inv, Known, EndDestroy, Owner
<1>2. t \in Removing /\ Removing' = Removing \ {t} /\ DOMAIN Expiries = Running
  BY <1>1, ExpiriesRun DEF Removing, TypeOK
<1>3. CASE faults' = faults \union {"miscounted"} /\ t \in Running
  <2>1. Status' = "undefined"
    BY <1>3, StatusIs DEF Defined
  <2> QED
    BY <1>2, <1>3, <2>1 DEF Set!GoWrong
<1>4. CASE faults' = faults /\ t \notin Running /\ Members' = Members \ {t} /\ Entries' = Entries
  <2>1. TypeOK'
    BY KnownStep DEF Inv, Known, Next
  <2>2. Expiries' = Expiries
    BY <1>1, <1>4, <2>1, SameEntries, StatusStays
  <2> QED
    BY <1>1, <1>2, <1>4, <2>2, StatusStays DEF Set!EndRemove
<1> QED
  BY <1>1, <1>3, <1>4, Erases

(* The timer taken out is the one that is due first.                       *)
LEMMA TakeOutTakes ==
  ASSUME AtMostFour, Inv, TakeOut
  PROVE  Set!Take(At(1)) /\ At(1) \in Timer
<1> DEFINE e == m_timers[1]
<1>1. /\ TypeOK /\ Defined /\ UNCHANGED <<clock, owner, faults>> /\ run \in RunState
      /\ run' = [run EXCEPT !.at = "count", !.timers = Append(@, At(1))]
      /\ run.now <= clock /\ clock \in Nat /\ run.now \in Nat
  BY TimerAssumption DEF Inv, Known, TakeOut, NowIsPast, TypeOK, RunState
<1>2. /\ faults = {} /\ e \in Entries /\ At(1) \in Timer /\ e.expired <= run.now /\ Stops(e)
      /\ e.timer = At(1)
  BY <1>1, TakesOut DEF At
<1>3. Entries \subseteq Entry
  BY <1>1, CountSound, EntriesTyped
<1> HIDE DEF e
<1>4. /\ Expiries' = Without(Expiries, At(1)) /\ At(1) \in Running
      /\ Expiries[At(1)] = e.expired /\ Members' = Members
  BY <1>1, <1>2, StopsWithout DEF Stops
<1>5. e.expired <= clock
  <2>1. e.expired \in Nat
    BY <1>2, <1>3 DEF Entry
  <2> QED
    BY <1>1, <1>2, <2>1
<1>6. \A u \in Running : e.expired <= Expiries[u]
  <2>1. \A d \in Entries : e.expired <= d.expired
    <3>1. Vector /\ m_actived_timers \in 0..Len(m_timers) /\ InOrder
      BY <1>1, <1>2, CountSound, Typed DEF Inv, HeapKept
    <3> QED
      BY <3>1, FewRun, FirstIsLeast DEF e
  <2>2. \A d \in Entries : Expiries[d.timer] = d.expired
    BY <1>1, ExpiriesRun DEF Tells
  <2> QED
    BY <2>1, <2>2 DEF Running
<1>7. DOMAIN Expiries = Running
  BY <1>1, ExpiriesRun
<1>8. run'.timers = Append(run.timers, At(1))
  BY <1>1 DEF RunState
<1>9. Removing' = Removing /\ Status' = Status
  BY <1>1, RemovingStays, StatusStays
<1> QED
  BY <1>1, <1>2, <1>4, <1>5, <1>6, <1>7, <1>8, <1>9 DEF Set!Take, Set!Without, Without

(* Taking a stopped timer out is the set's TakeStopped.                    *)
LEMMA TakeStoppedTakes ==
  ASSUME Inv, TakeStopped
  PROVE  \E t \in Timer : Set!TakeStopped(t)
<1>1. /\ TypeOK /\ Defined /\ m_actived_timers = 0 /\ m_actived_timers' = -1
      /\ faults' = faults \union {"stale"} /\ UNCHANGED <<clock, m_timers, owner>>
      /\ run \in RunState
  BY DEF Inv, Known, TypeOK, RunState, TakeStopped
<1>2. faults = {}
  BY <1>1, CountSound
<1>3. Entries = {} /\ Entries' = {} /\ Members' = Members
  BY <1>1 DEF Entries, Active, Members, At
<1>4. DOMAIN Expiries = {} /\ Expiries' = Expiries
  <2>1. DOMAIN Expiries = {}
    BY <1>1, <1>3, ExpiriesRun DEF Running
  <2>2. TypeOK' /\ Defined'
    BY <1>1, <1>2, KnownStep DEF Inv, Known, Next, RunStep, Defined
  <2> QED
    BY <1>1, <1>3, <2>1, <2>2, SameEntries
<1>5. Status = "sound" /\ Status' = "dead"
  BY <1>1, <1>2, StatusIs DEF Defined
<1>6. PICK t \in IF m_timers = <<>> THEN {u \in Timer : owner[u] = "gone"} ELSE {At(1)} :
        run' = [run EXCEPT !.at = "count", !.timers = Append(@, t)]
  BY DEF TakeStopped
<1>7. t \in Timer
  BY <1>1, <1>6, FirstIsTimer
<1>8. run'.timers = Append(run.timers, t)
  BY <1>1, <1>6 DEF RunState
<1> QED
  BY <1>1, <1>3, <1>4, <1>5, <1>7, <1>8, RemovingStays DEF Set!TakeStopped

(* A timer that is gone while it was taken out lets anything follow.       *)
LEMMA GoneIsWrong ==
  ASSUME Inv, Defined, run.timers # <<>>, owner[Head(run.timers)] = "gone",
         faults' = faults \union {"dangling"}
  PROVE  Set!GoWrong
<1>1. run.timers \in Seq(Timer)
  BY DEF Inv, Known, TypeOK
<1>2. Head(run.timers) = run.timers[1] /\ 1 \in DOMAIN run.timers
  BY <1>1
<1>3. run.timers[1] \notin Members
  BY <1>2 DEF Inv, Known, MembersAreOwned
<1>4. Status' = "undefined"
  BY StatusIs DEF Defined
<1> QED
  BY <1>2, <1>3, <1>4 DEF Set!GoWrong

(* Firing is no step of the set, or its GoWrong.                           *)
LEMMA FireFires ==
  ASSUME Inv, Fire
  PROVE  Set!GoWrong \/ UNCHANGED Set!vars
<1>1. /\ Defined /\ UNCHANGED <<clock, timers, owner>> /\ run.timers # <<>>
      /\ run' = [run EXCEPT !.at = "again"] /\ run \in RunState
  BY DEF Inv, Known, TypeOK, RunState, Fire, Runs
<1>2. CASE owner[Head(run.timers)] = "gone"
  BY <1>1, <1>2, GoneIsWrong DEF Fire
<1>3. CASE owner[Head(run.timers)] # "gone"
  <2>1. faults' = faults /\ run'.timers = run.timers
    BY <1>1, <1>3 DEF Fire, RunState
  <2> QED
    BY <1>1, <2>1, ExpiriesStay, RemovingStays, StatusStays DEF Set!vars
<1> QED
  BY <1>2, <1>3

(* What follows the call, starting a CIRCLE timer again, is its Fire.      *)
LEMMA StartAgainFires ==
  ASSUME Inv, StartAgain
  PROVE  Set!GoWrong \/ Set!Fire
<1> DEFINE t == Head(run.timers)
<1>1. /\ Defined /\ t \in Timer /\ run.timers # <<>> /\ TypeOK
      /\ "stale" \notin faults => m_interals[t] \in Interval
                                 /\ clock + m_interals[t] \in Nat
  BY AgainIsStarted DEF Inv, Known
<1>2. CASE owner[t] = "gone"
  BY <1>1, <1>2, GoneIsWrong DEF StartAgain
<1>3. CASE owner[t] # "gone"
  <2>1. /\ UNCHANGED <<clock, owner, faults>> /\ run \in RunState
        /\ run' = [run EXCEPT !.at = "fire", !.timers = Tail(@)]
    BY <1>1, <1>3 DEF StartAgain, TypeOK, RunState
  <2>2. run'.timers = Tail(run.timers)
    BY <2>1 DEF RunState
  <2>3. /\ Members' = Members
        /\ Expiries' = Expiries \/ \E interval \in Interval : Set!Started(t, interval)
    <3>1. CASE UNCHANGED timers
      BY <3>1, ExpiriesStay
    <3>2. CASE t \in Circle /\ "stale" \notin faults
      <4>1. Enable(t, clock + m_interals[t])
        BY <3>2 DEF StartAgain
      <4> HIDE DEF t
      <4>2. Members' = Members /\ Set!Started(t, m_interals[t])
        BY <1>1, <4>1, EnableIsStarted
      <4> QED
        BY <1>1, <3>2, <4>2
    <3>3. CASE t \in Circle /\ "stale" \in faults
      <4>1. Enable(t, clock + m_interals[t])
        BY <3>3 DEF StartAgain
      <4>2. m_actived_timers < 0
        BY <1>1, <3>3, CountSound
      <4> QED
        BY <3>1, <4>1, <4>2 DEF Enable
    <3> QED
      BY <3>1, <3>2, <3>3 DEF StartAgain
  <2> QED
    BY <1>1, <2>1, <2>2, <2>3, RemovingStays, StatusStays DEF Set!Fire
<1> QED
  BY <1>2, <1>3

(* The other steps of the thread are none of the set's.                    *)
LEMMA RestStutters ==
  ASSUME Inv, WakeUp \/ CountActive \/ LeaveIn \/ LeaveStopped \/ Sleep \/ UNCHANGED vars
  PROVE  UNCHANGED Set!vars
<1>1. run \in RunState
  BY DEF Inv, Known, TypeOK, RunState
<1>2. UNCHANGED <<clock, timers, owner, faults>>
  BY DEF WakeUp, CountActive, LeaveIn, LeaveStopped, Sleep, Nothing, Runs, vars
<1>3. run'.timers = run.timers
  <2>1. CASE WakeUp
    BY <2>1 DEF WakeUp, Inv, SleepsWithNothing
  <2>2. CASE CountActive \/ LeaveIn \/ LeaveStopped \/ Sleep
    BY <1>1, <2>2 DEF CountActive, LeaveIn, LeaveStopped, Sleep, Nothing, Runs, RunState
  <2> QED
    BY <2>1, <2>2 DEF vars
<1> QED
  BY <1>2, <1>3, ExpiriesStay, RemovingStays, StatusStays DEF Set!vars

(* Time passes in both.                                                    *)
LEMMA TickTicks ==
  ASSUME Tick
  PROVE  Set!Tick
<1>1. clock' = clock + 1 /\ UNCHANGED <<timers, owner, run, faults>>
  BY DEF Tick
<1> QED
  BY <1>1, ExpiriesStay, RemovingStays, StatusStays DEF Set!Tick

(* Every step is one of the set's, or none.                                *)
LEMMA SetStep ==
  ASSUME AtMostFour, Inv, [Next]_vars
  PROVE  [Set!Next]_Set!vars
<1>1. CASE UNCHANGED Set!vars
  BY <1>1
<1>2. ASSUME Next,
             \/ \E t \in Timer :
                  \/ Set!Add(t) \/ Set!Stop(t) \/ Set!BeginRemove(t) \/ Set!EndRemove(t)
                  \/ Set!Take(t) \/ Set!TakeStopped(t)
                  \/ \E interval \in Interval : Set!Start(t, interval)
             \/ Set!Tick \/ Set!Fire \/ Set!GoWrong
      PROVE  Set!Next
  <2>1. Defined
    BY <1>2, VectorMoves DEF Inv
  <2>2. Status # "undefined"
    BY <2>1, StatusIs
  <2> QED
    BY <1>2, <2>2 DEF Set!Next
<1>3. CASE \E t \in Timer :
             \/ Construct(t) \/ Stop(t) \/ BeginDestroy(t) \/ EndDestroy(t)
             \/ \E interval \in Interval : Start(t, interval)
  <2>1. Next
    BY <1>3 DEF Next
  <2> QED
    BY <1>2, <1>3, <2>1, ConstructAdds, StopStops, BeginDestroyRemoves, EndDestroyRemoves,
       StartStarts
<1>4. CASE Tick \/ TakeOut \/ TakeStopped \/ Fire \/ StartAgain
  <2>1. Next
    BY <1>4 DEF Next, RunStep
  <2> QED
    BY <1>1, <1>2, <1>4, <2>1, TickTicks, TakeOutTakes, TakeStoppedTakes, FireFires,
       StartAgainFires
<1>5. CASE WakeUp \/ CountActive \/ LeaveIn \/ LeaveStopped \/ Sleep \/ UNCHANGED vars
  BY <1>1, <1>5, RestStutters
<1> QED
  BY <1>3, <1>4, <1>5 DEF Next, RunStep

(* The initial states are the set's.                                       *)
LEMMA SetInit == Init => Set!Init
<1> SUFFICES ASSUME Init PROVE Set!Init
  OBVIOUS
<1>1. TypeOK /\ Defined /\ m_timers = <<>> /\ m_actived_timers = 0
  BY InitKnown DEF Init, Known, Defined
<1>2. Members = {} /\ Running = {}
  BY <1>1 DEF Members, Running, Entries, Active
<1>3. Expiries = <<>>
  BY <1>1, <1>2, ExpiriesRun
<1> QED
  BY <1>2, <1>3, StatusIs, <1>1 DEF Init, Set!Init, Removing

(* Until the count goes wrong the heap is the set of running timers its    *)
(* users take it for: with at most four timers.                            *)
THEOREM Refines ==
  ASSUME IsFiniteSet(Timer), Cardinality(Timer) <= 4
  PROVE  Spec => ImplementsTimerSet
<1>1. AtMostFour
  BY DEF AtMostFour
<1>2. Inv /\ [Next]_vars => [Set!Next]_Set!vars
  BY <1>1, SetStep
<1>3. Spec => []Inv
  BY <1>1, InvAlways
<1> QED
  BY <1>2, <1>3, SetInit, PTL DEF Spec, ImplementsTimerSet, Set!Spec
=============================================================================
