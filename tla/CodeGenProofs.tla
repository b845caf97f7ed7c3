---------------------------- MODULE CodeGenProofs -----------------------------
(***************************************************************************)
(* Proofs about CodeGen: what is read of a line, for every file.           *)
(***************************************************************************)
EXTENDS CodeGen, FiniteSetTheorems, NaturalsInduction, WellFoundedInduction, TLAPS

-----------------------------------------------------------------------------
(* A finite set of numbers in its order.                                   *)

(* A set of natural numbers has a least member.                            *)
LEMMA Least ==
  ASSUME NEW T \in SUBSET Nat, T # {}
  PROVE  \E n \in T : \A m \in T : n <= m
<1>1. \E n \in T : \A m \in T : ~(<<m, n>> \in OpToRel(<, Nat))
  BY WFMin, NatLessThanWellFounded
<1>2. PICK n \in T : \A m \in T : ~(<<m, n>> \in OpToRel(<, Nat))
  BY <1>1
<1>3. \A m \in T : m < n => <<m, n>> \in OpToRel(<, Nat)
  BY ZenonT(30) DEF OpToRel
<1>4. \A m \in T : ~(m < n)
  BY <1>2, <1>3, Zenon
<1> QED
  BY <1>4

(* The numbers up to n are n.                                              *)
LEMMA UpTo ==
  ASSUME NEW n \in Nat
  PROVE  IsFiniteSet(1..n) /\ Cardinality(1..n) = n
<1>1. 1 \in Int /\ n \in Int
  OBVIOUS
<1>2. IsFiniteSet(1..n) /\ Cardinality(1..n) = IF 1 > n THEN 0 ELSE n - 1 + 1
  BY <1>1, FS_Interval
<1> QED
  BY <1>2

(* Numbers is what the lemmas are about.                                   *)
Numbers(S) == S \subseteq Nat /\ IsFiniteSet(S)

(* Ranks are between 1 and the size of the set, and grow.                  *)
LEMMA RankBounds ==
  ASSUME NEW S, Numbers(S)
  PROVE  /\ Cardinality(S) \in Nat
         /\ \A i \in S : Rank(S, i) \in 1..Cardinality(S)
         /\ \A i, j \in S : i < j => Rank(S, i) < Rank(S, j)
<1>0. IsFiniteSet(S) /\ S \subseteq Nat /\ Cardinality(S) \in Nat
  BY FS_CardinalityType DEF Numbers
<1> DEFINE To(i) == {j \in S : j <= i}
<1>1. ASSUME NEW i \in S
      PROVE  IsFiniteSet(To(i)) /\ Cardinality(To(i)) \in 1..Cardinality(S)
  <2>1. IsFiniteSet(To(i)) /\ Cardinality(To(i)) <= Cardinality(S)
    <3>1. To(i) \in SUBSET S
      OBVIOUS
    <3> HIDE DEF To
    <3> QED
      BY <1>0, <3>1, FS_Subset
  <2>2. i \in To(i)
    BY <1>0
  <2> HIDE DEF To
  <2>3. Cardinality(To(i)) # 0 /\ Cardinality(To(i)) \in Nat
    BY <2>1, <2>2, FS_EmptySet, FS_CardinalityType
  <2> QED
    BY <1>0, <2>1, <2>3
<1>2. ASSUME NEW i \in S, NEW j \in S, i < j
      PROVE  Cardinality(To(i)) < Cardinality(To(j))
  <2>1. j \in To(j) /\ j \notin To(i) /\ To(i) \union {j} \in SUBSET To(j)
    <3>1. j <= j /\ ~(j <= i) /\ \A k \in S : k <= i => k <= j
      BY <1>0, <1>2
    <3> QED
      BY <3>1
  <2> HIDE DEF To
  <2>2. Cardinality(To(i) \union {j}) = Cardinality(To(i)) + 1
    BY <1>1, <2>1, FS_AddElement
  <2>3. Cardinality(To(i) \union {j}) <= Cardinality(To(j))
    BY <1>1, <2>1, FS_Subset
  <2> QED
    BY <1>1, <2>2, <2>3
<1> QED
  BY <1>0, <1>1, <1>2 DEF Rank

(* Each rank is that of one member.                                        *)
LEMMA NthHasRank ==
  ASSUME NEW S, Numbers(S)
  PROVE  /\ \A k \in 1..Cardinality(S) : Nth(S, k) \in S /\ Rank(S, Nth(S, k)) = k
         /\ \A i \in S : Nth(S, Rank(S, i)) = i
<1> DEFINE f == [i \in S |-> Rank(S, i)]
           n == Cardinality(S)
<1>0. IsFiniteSet(S) /\ S \subseteq Nat /\ n \in Nat
  BY RankBounds DEF Numbers
<1>1. \A i, j \in S : Rank(S, i) = Rank(S, j) => i = j
  <2> SUFFICES ASSUME NEW i \in S, NEW j \in S, Rank(S, i) = Rank(S, j), i # j PROVE FALSE
    OBVIOUS
  <2>1. i < j \/ j < i
    BY <1>0
  <2>2. Rank(S, i) \in Int
    BY RankBounds
  <2> QED
    BY <2>1, <2>2, RankBounds
<1>2. f \in Injection(S, 1..n)
  BY <1>1, RankBounds DEF Injection, IsInjective
<1>3. IsFiniteSet(1..n) /\ Cardinality(1..n) = n
  BY <1>0, UpTo
<1>4. f \in Surjection(S, 1..n)
  BY <1>0, <1>2, <1>3, FS_Injection
<1>5. \A k \in 1..n : \E i \in S : Rank(S, i) = k
  <2>1. \A k \in 1..n : \E i \in S : f[i] = k
    BY <1>4 DEF Surjection
  <2> QED
    BY <2>1
<1>6. ASSUME NEW k \in 1..n PROVE Nth(S, k) \in S /\ Rank(S, Nth(S, k)) = k
  BY <1>5 DEF Nth
<1>7. ASSUME NEW i \in S PROVE Nth(S, Rank(S, i)) = i
  <2>1. Nth(S, Rank(S, i)) \in S /\ Rank(S, Nth(S, Rank(S, i))) = Rank(S, i)
    BY DEF Nth
  <2> QED
    BY <1>1, <2>1
<1> QED
  BY <1>6, <1>7

(* The member of rank k is the k-th.                                       *)
LEMMA NthOfRank ==
  ASSUME NEW S, Numbers(S), NEW i \in S, NEW k, Rank(S, i) = k
  PROVE  Nth(S, k) = i
BY NthHasRank

(* One more member, greater than the others.                               *)
ThenLast(T, S, m) ==
  /\ Cardinality(T) = Cardinality(S) + 1
  /\ \A k \in 1..Cardinality(S) : Nth(T, k) = Nth(S, k)
  /\ Nth(T, Cardinality(S) + 1) = m

(* The new member is the last one, and the others stay where they were.    *)
LEMMA NthWithLast ==
  ASSUME NEW S, Numbers(S), NEW m \in Nat, \A i \in S : i < m
  PROVE  ThenLast(S \union {m}, S, m)
<1> DEFINE T == S \union {m}
<1>0. S \subseteq Nat /\ m \notin S /\ Cardinality(S) \in Nat
  <2>1. S \subseteq Nat /\ Cardinality(S) \in Nat
    BY RankBounds DEF Numbers
  <2>2. ~(m < m)
    OBVIOUS
  <2> QED
    BY <2>1, <2>2
<1>1. Numbers(T) /\ Cardinality(T) = Cardinality(S) + 1
  BY <1>0, FS_AddElement DEF Numbers
<1>2. ASSUME NEW i \in S PROVE Rank(T, i) = Rank(S, i)
  <2>1. {j \in T : j <= i} = {j \in S : j <= i}
    BY <1>0
  <2> QED
    BY <2>1 DEF Rank
<1>3. Rank(T, m) = Cardinality(S) + 1
  <2>1. {j \in T : j <= m} = T
    <3>1. m <= m /\ \A i \in S : i <= m
      BY <1>0
    <3> QED
      BY <3>1
  <2> QED
    BY <1>1, <2>1 DEF Rank
<1>4. ASSUME NEW k \in 1..Cardinality(S) PROVE Nth(T, k) = Nth(S, k)
  <2>1. Nth(S, k) \in S /\ Rank(S, Nth(S, k)) = k
    BY NthHasRank
  <2>2. Nth(S, k) \in T /\ Rank(T, Nth(S, k)) = k
    BY <1>2, <2>1
  <2> QED
    BY <1>1, <2>2, NthOfRank
<1>5. Nth(T, Cardinality(S) + 1) = m
  <2>1. m \in T
    OBVIOUS
  <2> QED
    BY <1>1, <1>3, <2>1, NthOfRank
<1> QED
  BY <1>1, <1>4, <1>5 DEF ThenLast

Shift(S, d) == {i + d : i \in S}

(* A set that is moved keeps its size.                                     *)
LEMMA ShiftCounts ==
  ASSUME NEW S, Numbers(S), NEW d \in Nat
  PROVE  Numbers(Shift(S, d)) /\ Cardinality(Shift(S, d)) = Cardinality(S)
<1> DEFINE f == [i \in S |-> i + d]
<1>0. S \subseteq Nat /\ IsFiniteSet(S)
  BY DEF Numbers
<1>1. f \in [S -> Shift(S, d)] /\ Shift(S, d) \subseteq Nat
  BY <1>0 DEF Shift
<1>2. \A i, j \in S : f[i] = f[j] => i = j
  BY <1>0
<1>3. \A k \in Shift(S, d) : \E i \in S : f[i] = k
  BY DEF Shift
<1> HIDE DEF f
<1>4. f \in Injection(S, Shift(S, d)) /\ f \in Surjection(S, Shift(S, d))
  BY <1>1, <1>2, <1>3 DEF Injection, IsInjective, Surjection
<1> QED
  BY <1>0, <1>1, <1>4, FS_Surjection DEF Numbers

(* One more member, less than the others, and those moved up.              *)
FirstThenMoved(T, m, S, d) ==
  /\ Cardinality(T) = Cardinality(S) + 1
  /\ Nth(T, 1) = m
  /\ \A k \in 1..Cardinality(S) : Nth(T, k + 1) = Nth(S, k) + d

(* The new member is the first one, and the others come behind it, moved.  *)
LEMMA NthWithFirst ==
  ASSUME NEW S, Numbers(S), NEW m \in Nat, NEW d \in Nat, \A i \in S : m < i + d
  PROVE  FirstThenMoved({m} \union Shift(S, d), m, S, d)
<1> DEFINE U == Shift(S, d)
           T == {m} \union U
<1>0. S \subseteq Nat /\ Cardinality(S) \in Nat /\ IsFiniteSet(S)
  BY RankBounds DEF Numbers
<1>1. U \subseteq Nat /\ IsFiniteSet(U) /\ Cardinality(U) = Cardinality(S)
  BY ShiftCounts DEF Numbers
<1>2. m \notin U /\ T = U \union {m}
  BY <1>0 DEF Shift
<1>3. Numbers(T) /\ Cardinality(T) = Cardinality(S) + 1
  <2>1. IsFiniteSet(U \union {m}) /\ Cardinality(U \union {m}) = Cardinality(U) + 1
    BY <1>1, <1>2, FS_AddElement
  <2> QED
    BY <1>1, <1>2, <2>1 DEF Numbers
<1>4. Rank(T, m) = 1
  <2>1. {j \in T : j <= m} = {m}
    BY <1>0, <1>1 DEF Shift
  <2> QED
    BY <2>1, FS_Singleton DEF Rank
<1>5. ASSUME NEW i \in S PROVE Rank(T, i + d) = Rank(S, i) + 1
  <2> DEFINE V == {j \in S : j <= i}
  <2>1. {j \in T : j <= i + d} = Shift(V, d) \union {m}
    BY <1>0 DEF Shift
  <2>2. Numbers(V)
    BY <1>0, FS_Subset DEF Numbers
  <2>3. m \notin Shift(V, d)
    BY <1>0 DEF Shift
  <2> HIDE DEF V
  <2>4. IsFiniteSet(Shift(V, d)) /\ Cardinality(Shift(V, d)) = Cardinality(V)
    BY <2>2, ShiftCounts DEF Numbers
  <2>5. Cardinality(Shift(V, d) \union {m}) = Cardinality(V) + 1
    BY <2>3, <2>4, FS_AddElement
  <2> QED
    BY <2>1, <2>5 DEF Rank, V
<1>6. Nth(T, 1) = m
  <2>1. m \in T
    OBVIOUS
  <2> HIDE DEF T
  <2> QED
    BY <1>3, <1>4, <2>1, NthOfRank
<1>7. ASSUME NEW k \in 1..Cardinality(S) PROVE Nth(T, k + 1) = Nth(S, k) + d
  <2>1. Nth(S, k) \in S /\ Rank(S, Nth(S, k)) = k
    BY NthHasRank
  <2>2. Nth(S, k) + d \in T
    BY <2>1 DEF Shift
  <2>3. Rank(T, Nth(S, k) + d) = k + 1
    BY <1>5, <2>1
  <2> HIDE DEF T
  <2> QED
    BY <1>3, <2>2, <2>3, NthOfRank
<1> QED
  BY <1>3, <1>6, <1>7 DEF FirstThenMoved

-----------------------------------------------------------------------------
(* The words in twos.                                                      *)

Tokens == Seq(STRING)

(* The words right before position k begin at j.                           *)
Run(s, k, j) ==
  /\ j \in 1..k
  /\ \A m \in j..(k - 1) : s[m] \in Word
  /\ j = 1 \/ s[j - 1] \notin Word

(* There is a first word of the run before k, or k itself.                 *)
LEMMA RunExists ==
  ASSUME NEW s, NEW k \in Nat \ {0}
  PROVE  \E j \in 1..k : Run(s, k, j)
<1> DEFINE T == {j \in 1..k : \A m \in j..(k - 1) : s[m] \in Word}
<1>1. T \in SUBSET Nat /\ k \in T
  OBVIOUS
<1>2. PICK j \in T : \A m \in T : j <= m
  <2> HIDE DEF T
  <2> QED
    BY <1>1, Least
<1>3. j \in 1..k /\ \A m \in j..(k - 1) : s[m] \in Word
  OBVIOUS
<1>4. j # 1 => s[j - 1] \notin Word
  <2> SUFFICES ASSUME j # 1, s[j - 1] \in Word PROVE FALSE
    OBVIOUS
  <2>1. \A m \in (j - 1)..(k - 1) : m = j - 1 \/ m \in j..(k - 1)
    BY <1>3
  <2>2. j - 1 \in 1..k
    BY <1>3
  <2>3. j - 1 \in T
    BY <1>3, <2>1, <2>2
  <2> QED
    BY <1>2, <1>3, <2>3
<1> QED
  BY <1>3, <1>4 DEF Run

(* WordsBefore counts the words of the run.                                *)
LEMMA RunCounts ==
  ASSUME NEW s, NEW k \in Nat \ {0}, NEW j, Run(s, k, j)
  PROVE  Cardinality(WordsBefore(s, k)) = k - j
<1>1. j \in 1..k /\ (\A m \in j..(k - 1) : s[m] \in Word) /\ (j = 1 \/ s[j - 1] \notin Word)
  BY DEF Run
<1>2. ASSUME NEW m \in j..(k - 1) PROVE m \in WordsBefore(s, k)
  BY <1>1 DEF WordsBefore
<1>3. ASSUME NEW m \in WordsBefore(s, k) PROVE m \in j..(k - 1)
  <2>1. m \in 1..(k - 1) /\ \A l \in m..(k - 1) : s[l] \in Word
    BY DEF WordsBefore
  <2>2. CASE m < j
    <3>1. j - 1 \in m..(k - 1) /\ j # 1
      BY <1>1, <2>1, <2>2
    <3> QED
      BY <1>1, <2>1, <3>1
  <2> QED
    BY <1>1, <2>1, <2>2
<1>4. WordsBefore(s, k) = j..(k - 1)
  BY <1>2, <1>3, Zenon
<1>5. Cardinality(j..(k - 1)) = IF j > k - 1 THEN 0 ELSE k - 1 - j + 1
  BY <1>1, FS_Interval
<1> QED
  BY <1>1, <1>4, <1>5

(* A pair starts an even number of words behind the start of its run.      *)
LEMMA StartsAt ==
  ASSUME NEW s, NEW k \in Nat \ {0}, NEW j, Run(s, k, j)
  PROVE  k \in Starts(s) <=> k \in DOMAIN s /\ PairAt(s, k) /\ (k - j) % 2 = 0
BY RunCounts DEF Starts

(* The starts are finitely many.                                           *)
LEMMA StartsAreNumbers ==
  ASSUME NEW s \in Tokens
  PROVE  Numbers(Starts(s))
<1>1. Starts(s) \in SUBSET (1..Len(s)) /\ Len(s) \in Nat
  BY DEF Starts, Tokens
<1>2. IsFiniteSet(1..Len(s))
  BY <1>1, UpTo
<1> QED
  BY <1>1, <1>2, FS_Subset DEF Numbers

(* The first pair of a sequence, and what is behind it.                    *)
FirstPair(s, i) ==
  /\ i \in DOMAIN s /\ PairAt(s, i)
  /\ \A m \in DOMAIN s : PairAt(s, m) => i <= m

Behind(s, i) == SubSeq(s, i + 2, Len(s))

IsRest(t, s, d) ==
  /\ Len(t) = Len(s) - d /\ DOMAIN t = 1..(Len(s) - d)
  /\ \A m \in 1..(Len(s) - d) : t[m] = s[m + d]

(* Where the tokens behind a pair were before.                             *)
LEMMA BehindAt ==
  ASSUME NEW s \in Tokens, NEW i \in 1..Len(s), i + 1 <= Len(s)
  PROVE  Behind(s, i) \in Tokens /\ IsRest(Behind(s, i), s, i + 1)
<1> DEFINE t == Behind(s, i)
<1>1. t \in Tokens /\ Len(t) = Len(s) - (i + 1)
  BY DEF Behind, Tokens
<1>2. \A m \in 1..(Len(s) - (i + 1)) : t[m] = s[m + (i + 1)]
  BY DEF Behind, Tokens
<1>3. DOMAIN t = 1..Len(t)
  BY <1>1 DEF Tokens
<1> QED
  BY <1>1, <1>2, <1>3 DEF IsRest

(* The starts are the first pair, and those of what is behind it, moved.   *)
LEMMA StartsBehind ==
  ASSUME NEW s \in Tokens, NEW i, FirstPair(s, i)
  PROVE  Starts(s) = {i} \union Shift(Starts(Behind(s, i)), i + 1)
<1> DEFINE t == Behind(s, i)
           d == i + 1
<1>1. /\ DOMAIN s = 1..Len(s) /\ Len(s) \in Nat /\ i \in 1..Len(s) /\ d \in 1..Len(s) /\ d = i + 1
      /\ s[i] \in Word /\ s[d] \in Word
  BY DEF FirstPair, PairAt, Tokens
<1>2. /\ t \in Tokens /\ Len(t) = Len(s) - d /\ DOMAIN t = 1..(Len(s) - d)
      /\ \A m \in 1..(Len(s) - d) : t[m] = s[m + d]
  <2>1. i + 1 <= Len(s)
    BY <1>1
  <2> QED
    BY <1>1, <2>1, BehindAt, Zenon DEF IsRest
<1>3. i = 1 \/ s[i - 1] \notin Word
  <2> SUFFICES ASSUME i # 1, s[i - 1] \in Word PROVE FALSE
    OBVIOUS
  <2>1. i - 1 \in DOMAIN s /\ i - 1 + 1 = i /\ ~(i <= i - 1)
    BY <1>1
  <2>2. PairAt(s, i - 1)
    BY <1>1, <2>1 DEF PairAt
  <2> QED
    BY <2>1, <2>2 DEF FirstPair
<1>4. i \in Starts(s)
  <2>1. Run(s, i, i)
    BY <1>1, <1>3 DEF Run
  <2>2. (i - i) % 2 = 0
    BY <1>1
  <2> QED
    BY <1>1, <2>1, <2>2, StartsAt DEF FirstPair
<1>5. d \notin Starts(s)
  <2>1. Run(s, d, i)
    <3>1. \A m \in i..(d - 1) : m = i
      BY <1>1
    <3> QED
      BY <1>1, <1>3, <3>1 DEF Run
  <2>2. (d - i) % 2 = 1
    BY <1>1
  <2> QED
    BY <1>1, <2>1, <2>2, StartsAt
<1> HIDE DEF t, d
<1>6. ASSUME NEW k \in 1..(Len(s) - d) PROVE k + d \in Starts(s) <=> k \in Starts(t)
  <2>1. PICK j \in 1..k : Run(t, k, j)
    BY RunExists
  <2>2. PairAt(t, k) <=> PairAt(s, k + d)
    <3>1. k + 1 \in DOMAIN t <=> k + d + 1 \in DOMAIN s
      BY <1>1, <1>2
    <3>2. k \in DOMAIN t /\ k + d \in DOMAIN s /\ t[k] = s[k + d]
      BY <1>1, <1>2
    <3>3. k + 1 \in DOMAIN t => t[k + 1] = s[k + d + 1]
      BY <1>1, <1>2
    <3> QED
      BY <3>1, <3>2, <3>3 DEF PairAt
  <2> DEFINE q == k + d
  <2>3. k \in DOMAIN t /\ q \in DOMAIN s /\ q \in Nat \ {0} /\ q = k + d
    BY <1>1, <1>2
  <2>4. k \in Starts(t) <=> PairAt(t, k) /\ (k - j) % 2 = 0
    BY <2>1, <2>3, StartsAt
  <2>5. \A m \in j..(k - 1) : t[m] \in Word /\ t[m] = s[m + d]
    BY <1>1, <1>2, <2>1 DEF Run
  <2>6. CASE j # 1
    <3> DEFINE r == j + d
    <3>1. \A m \in r..(q - 1) : m - d \in j..(k - 1) /\ m - d + d = m
      BY <1>1
    <3>2. \A m \in r..(q - 1) : s[m] \in Word
      BY <2>5, <3>1
    <3>3. j - 1 \in 1..(Len(s) - d) /\ j - 1 + d = r - 1 /\ r \in 1..q /\ q - r = k - j
      BY <1>1, <2>6
    <3> HIDE DEF q, r
    <3>4. s[r - 1] \notin Word
      <4>1. t[j - 1] \notin Word
        BY <2>1, <2>6 DEF Run
      <4> QED
        BY <1>2, <3>3, <4>1
    <3>5. Run(s, q, r)
      BY <3>2, <3>3, <3>4 DEF Run
    <3>6. q \in Starts(s) <=> PairAt(s, q) /\ (q - r) % 2 = 0
      BY <2>3, <3>5, StartsAt, Zenon
    <3> QED
      BY <2>2, <2>3, <2>4, <3>3, <3>6
  <2>7. CASE j = 1
    <3>1. \A m \in i..(q - 1) : m = i \/ m = d \/ (m - d \in j..(k - 1) /\ m - d + d = m)
      BY <1>1, <2>7
    <3>2. \A m \in i..(q - 1) : s[m] \in Word
      BY <1>1, <2>5, <3>1
    <3>3. i \in 1..q /\ q - i = k - j + 2 /\ k - j \in Nat
      BY <1>1, <2>7
    <3> HIDE DEF q
    <3>4. Run(s, q, i)
      BY <1>3, <3>2, <3>3 DEF Run
    <3>5. q \in Starts(s) <=> PairAt(s, q) /\ (q - i) % 2 = 0
      BY <2>3, <3>4, StartsAt, Zenon
    <3>6. \A n \in Nat : (n + 2) % 2 = 0 <=> n % 2 = 0
      OBVIOUS
    <3> QED
      BY <2>2, <2>3, <2>4, <3>3, <3>5, <3>6
  <2> QED
    BY <2>6, <2>7
<1>7. ASSUME NEW m \in Starts(s), m # i PROVE m \in Shift(Starts(t), d)
  <2>1. m \in 1..Len(s) /\ i <= m /\ m # d
    BY <1>1, <1>5 DEF Starts, FirstPair
  <2>2. m - d \in 1..(Len(s) - d) /\ m - d + d = m
    BY <1>1, <1>7, <2>1
  <2>3. m - d \in Starts(t)
    BY <1>6, <2>2
  <2> QED
    BY <2>2, <2>3 DEF Shift
<1>8. ASSUME NEW k \in Starts(t) PROVE k + d \in Starts(s)
  <2>1. k \in 1..(Len(s) - d)
    BY <1>2 DEF Starts
  <2> QED
    BY <1>6, <2>1
<1>9. Shift(Starts(t), d) \subseteq Starts(s)
  BY <1>8 DEF Shift
<1>10. Starts(s) = {i} \union Shift(Starts(t), d)
  BY <1>4, <1>7, <1>9
<1> QED
  BY <1>10 DEF t, d

(* What is read of the first pair, and of those behind it.                 *)
LEMMA PairsBehind ==
  ASSUME NEW s \in Tokens, NEW i, FirstPair(s, i)
  PROVE  /\ Behind(s, i) \in Tokens
         /\ Len(PairsIn(s)) = Len(PairsIn(Behind(s, i))) + 1
         /\ PairsIn(s)[1] = <<s[i], s[i + 1]>>
         /\ \A k \in 1..Len(PairsIn(Behind(s, i))) : PairsIn(s)[k + 1] = PairsIn(Behind(s, i))[k]
<1> DEFINE t == Behind(s, i)
           d == i + 1
           n == Cardinality(Starts(t))
<1>1. /\ DOMAIN s = 1..Len(s) /\ Len(s) \in Nat /\ i \in 1..Len(s) /\ d \in 1..Len(s) /\ d = i + 1
  BY DEF FirstPair, PairAt, Tokens
<1>2. /\ t \in Tokens /\ Len(t) = Len(s) - d /\ DOMAIN t = 1..(Len(s) - d)
      /\ \A m \in 1..(Len(s) - d) : t[m] = s[m + d]
  <2>1. i + 1 <= Len(s)
    BY <1>1
  <2> QED
    BY <1>1, <2>1, BehindAt, Zenon DEF IsRest
<1>3. Starts(s) = {i} \union Shift(Starts(t), d)
  BY StartsBehind
<1> HIDE DEF t, d
<1>4. Numbers(Starts(t)) /\ Numbers(Starts(s)) /\ n \in Nat
  BY <1>2, StartsAreNumbers, RankBounds
<1>5. \A k \in Starts(t) : k \in 1..(Len(s) - d) /\ k + 1 \in 1..(Len(s) - d) /\ i < k + d
  BY <1>1, <1>2 DEF Starts, PairAt
<1>6. /\ Cardinality(Starts(s)) = n + 1 /\ Nth(Starts(s), 1) = i
      /\ \A k \in 1..n : Nth(Starts(s), k + 1) = Nth(Starts(t), k) + d
  <2>1. i \in Nat /\ d \in Nat
    BY <1>1
  <2>2. \A k \in Starts(t) : i < k + d
    BY <1>5
  <2>3. FirstThenMoved({i} \union Shift(Starts(t), d), i, Starts(t), d)
    BY ONLY <1>4, <2>1, <2>2, NthWithFirst
  <2> QED
    BY <1>3, <2>3 DEF FirstThenMoved
<1>7. Len(PairsIn(s)) = n + 1 /\ Len(PairsIn(t)) = n
  BY <1>4, <1>6 DEF PairsIn
<1>8. PairsIn(s)[1] = <<s[i], s[i + 1]>>
  <2>1. 1 \in 1..(n + 1)
    BY <1>4
  <2> QED
    BY <1>6, <2>1 DEF PairsIn
<1>9. ASSUME NEW k \in 1..n PROVE PairsIn(s)[k + 1] = PairsIn(t)[k]
  <2> DEFINE p == Nth(Starts(t), k)
  <2>1. p \in Starts(t)
    BY <1>4, NthHasRank
  <2>2. t[p] = s[p + d] /\ t[p + 1] = s[p + d + 1]
    <3>1. p \in 1..(Len(s) - d) /\ p + 1 \in 1..(Len(s) - d) /\ p + 1 + d = p + d + 1
      BY <1>1, <1>5, <2>1
    <3> HIDE DEF p
    <3> QED
      BY <1>2, <3>1
  <2>3. k + 1 \in 1..(n + 1) /\ Nth(Starts(s), k + 1) = p + d
    BY <1>4, <1>6
  <2>4. PairsIn(s)[k + 1] = <<s[p + d], s[p + d + 1]>>
    BY <1>6, <2>3 DEF PairsIn
  <2>5. PairsIn(t)[k] = <<t[p], t[p + 1]>>
    BY DEF PairsIn
  <2> QED
    BY <2>2, <2>4, <2>5
<1>10. /\ t \in Tokens /\ Len(PairsIn(s)) = Len(PairsIn(t)) + 1
       /\ \A k \in 1..Len(PairsIn(t)) : PairsIn(s)[k + 1] = PairsIn(t)[k]
  BY <1>2, <1>7, <1>9
<1> QED
  BY <1>8, <1>10 DEF t

(* Without two words that follow each other there is no pair.              *)
LEMMA NoPairs ==
  ASSUME NEW s \in Tokens, \A i \in DOMAIN s : ~PairAt(s, i)
  PROVE  PairsIn(s) = <<>>
<1>1. Starts(s) = {}
  BY DEF Starts
<1>2. Cardinality(Starts(s)) = 0
  BY <1>1, FS_EmptySet
<1> QED
  BY <1>2 DEF PairsIn

(* The pairs are pairs of words.                                           *)
LEMMA PairsAreWords ==
  ASSUME NEW s \in Tokens
  PROVE  PairsIn(s) \in Seq(Word \X Word)
<1>1. Numbers(Starts(s)) /\ Cardinality(Starts(s)) \in Nat
  BY StartsAreNumbers, RankBounds
<1>2. \A i \in Starts(s) : <<s[i], s[i + 1]>> \in Word \X Word
  BY DEF Starts, PairAt
<1>3. \A k \in 1..Cardinality(Starts(s)) : Nth(Starts(s), k) \in Starts(s)
  BY <1>1, NthHasRank
<1> QED
  BY <1>1, <1>2, <1>3 DEF PairsIn
-----------------------------------------------------------------------------
(* Where a declaration begins and ends.                                    *)

LEMMA LeftmostIs ==
  ASSUME NEW S \in SUBSET Nat, S # {}
  PROVE  Leftmost(S) \in S /\ \A j \in S : Leftmost(S) <= j
<1>1. \E i \in S : \A j \in S : i <= j
  BY Least
<1> QED
  BY <1>1 DEF Leftmost

(* A set of numbers up to n has a greatest member.                         *)
LEMMA Greatest ==
  ASSUME NEW n \in Nat, NEW T \in SUBSET (1..n), T # {}
  PROVE  \E i \in T : \A j \in T : j <= i
<1> DEFINE U == {n - j : j \in T}
<1>1. U \in SUBSET Nat /\ U # {}
  <2>1. \A j \in T : n - j \in Nat
    OBVIOUS
  <2> QED
    BY <2>1
<1>2. PICK u \in U : \A v \in U : u <= v
  <2> HIDE DEF U
  <2> QED
    BY <1>1, Least
<1>3. PICK i \in T : u = n - i
  OBVIOUS
<1>4. ASSUME NEW j \in T PROVE j <= i
  <2>1. n - j \in U
    OBVIOUS
  <2>2. n - i <= n - j
    BY <1>2, <1>3, <2>1
  <2> QED
    BY <2>2
<1> QED
  BY <1>4

(* The first match is the leftmost head.                                   *)
LEMMA HeadIs ==
  ASSUME NEW line \in Tokens, Heads(line) # {}
  PROVE  /\ Leftmost(Heads(line)) \in Heads(line)
         /\ \A i \in Heads(line) : Leftmost(Heads(line)) <= i
<1>1. Heads(line) \in SUBSET Nat
  BY DEF Heads, Tokens
<1> QED
  BY <1>1, LeftmostIs

(* It goes up to the last closing parenthesis.                             *)
LEMMA LastClosingIs ==
  ASSUME NEW line \in Tokens, NEW i, Closing(line, i) # {}
  PROVE  /\ LastClosing(line, i) \in Closing(line, i)
         /\ \A k \in Closing(line, i) : k <= LastClosing(line, i)
<1>1. Len(line) \in Nat /\ Closing(line, i) \in SUBSET (1..Len(line))
  BY DEF Closing, Tokens
<1>2. \E j \in Closing(line, i) : \A k \in Closing(line, i) : k <= j
  BY <1>1, Greatest
<1> QED
  BY <1>2 DEF LastClosing

(* What is between the parentheses is tokens.                              *)
LEMMA BetweenIsTokens ==
  ASSUME NEW line \in Tokens, Heads(line) # {}
  PROVE  Between(line) \in Tokens
<1> DEFINE i == Leftmost(Heads(line))
           j == LastClosing(line, i)
<1>1. i \in DOMAIN line /\ Closing(line, i) # {}
  BY HeadIs DEF Heads
<1>2. j \in DOMAIN line
  BY <1>1, LastClosingIs DEF Closing
<1>3. i \in 1..Len(line) /\ j \in 1..Len(line) /\ Len(line) \in Nat
  BY <1>1, <1>2 DEF Tokens
<1> HIDE DEF i, j
<1>4. SubSeq(line, i + 3, j - 1) \in Tokens
  BY <1>3 DEF Tokens
<1> QED
  BY <1>4 DEF Between, i, j

(* Every third number.                                                     *)
Thirds(n) == {3 * m - 2 : m \in 1..n}

(* Every third number, n of them.                                          *)
LEMMA ThirdsCount ==
  ASSUME NEW n \in Nat
  PROVE  Numbers(Thirds(n)) /\ Cardinality(Thirds(n)) = n
<1> DEFINE f == [m \in 1..n |-> 3 * m - 2]
<1>1. f \in [1..n -> Thirds(n)] /\ Thirds(n) \subseteq Nat
  BY DEF Thirds
<1>2. \A i, j \in 1..n : f[i] = f[j] => i = j
  OBVIOUS
<1>3. \A k \in Thirds(n) : \E m \in 1..n : f[m] = k
  BY DEF Thirds
<1> HIDE DEF f
<1>4. f \in Injection(1..n, Thirds(n)) /\ f \in Surjection(1..n, Thirds(n))
  BY <1>1, <1>2, <1>3 DEF Injection, IsInjective, Surjection
<1>5. IsFiniteSet(1..n) /\ Cardinality(1..n) = n
  BY UpTo
<1> QED
  BY <1>1, <1>4, <1>5, FS_Surjection DEF Numbers

(* The m-th of every third number.                                         *)
LEMMA NthThird ==
  ASSUME NEW n \in Nat, NEW m \in 1..n
  PROVE  Nth(Thirds(n), m) = 3 * m - 2
<1> DEFINE p == 3 * m - 2
<1>1. {j \in Thirds(n) : j <= p} = Thirds(m)
  <2>1. ASSUME NEW l \in 1..n PROVE 3 * l - 2 <= p <=> l \in 1..m
    OBVIOUS
  <2>2. 1..m \subseteq 1..n
    OBVIOUS
  <2> HIDE DEF p
  <2> QED
    BY <2>1, <2>2 DEF Thirds
<1>2. p \in Thirds(n)
  BY DEF Thirds
<1>3. m \in Nat
  OBVIOUS
<1> HIDE DEF p
<1>4. Rank(Thirds(n), p) = m
  BY <1>1, <1>3, ThirdsCount DEF Rank
<1>5. Nth(Thirds(n), m) = p
  BY <1>2, <1>4, ThirdsCount, NthOfRank
<1> QED
  BY <1>5 DEF p

(* What Declares says of the tokens.                                       *)
EndOf(a, n) == IF n = 0 THEN a + 3 ELSE a + 3 * n + 2

Parameters(line, a, n) ==
  \A m \in 1..n : /\ line[a + 3 * m] \in Word /\ line[a + 3 * m + 1] \in Word
                  /\ m # n => line[a + 3 * m + 2] \notin Word

(* What Declares says of each token.                                       *)
LEMMA DeclaresTokens ==
  ASSUME NEW line \in Tokens, NEW a \in Nat \ {0}, NEW n \in Nat, Declares(line, a, n)
  PROVE  /\ \A k \in 1..(a + 1) : line[k] \in Word
         /\ a \in DOMAIN line /\ a + 1 \in DOMAIN line /\ a + 2 \in DOMAIN line
         /\ line[a + 2] = "("
         /\ EndOf(a, n) \in DOMAIN line /\ line[EndOf(a, n)] = ")"
         /\ \A k \in DOMAIN line : line[k] = ")" => k <= EndOf(a, n)
         /\ Parameters(line, a, n)
<1>1. DOMAIN line = 1..Len(line) /\ Len(line) \in Nat
  BY DEF Tokens
<1>2. /\ line[a] \in Word /\ line[a + 1] \in Word /\ a \in DOMAIN line /\ a + 1 \in DOMAIN line
      /\ \A k \in 1..(a - 1) : line[k] \in Word
      /\ line[a + 2] = "(" /\ a + 3 * n + 2 <= Len(line)
  BY DEF Declares, PairAt
<1>3. \A k \in 1..(a + 1) : k \in 1..(a - 1) \/ k = a \/ k = a + 1
  OBVIOUS
<1>4. a + 2 \in DOMAIN line
  BY <1>1, <1>2
<1>5. /\ EndOf(a, n) \in DOMAIN line /\ line[EndOf(a, n)] = ")"
      /\ \A k \in DOMAIN line : line[k] = ")" => k <= EndOf(a, n)
  BY DEF Declares, EndOf
<1>6. ASSUME NEW m \in 1..n
      PROVE  /\ line[a + 3 * m] \in Word /\ line[a + 3 * m + 1] \in Word
             /\ m # n => line[a + 3 * m + 2] \notin Word
  <2>1. PairAt(line, a + 3 * m) /\ line[a + 3 * m + 2] = IF m < n THEN "," ELSE ")"
    BY DEF Declares
  <2>2. "," \notin Word
    BY GeneratorAssumption
  <2>3. m # n => m < n
    OBVIOUS
  <2> QED
    BY <2>1, <2>2, <2>3 DEF PairAt
<1> QED
  BY <1>2, <1>3, <1>4, <1>5, <1>6 DEF Parameters

(* A declaration is found where it begins, and ends where it ends.         *)
LEMMA DeclarationIsFound ==
  ASSUME NEW line \in Tokens, NEW a \in Nat \ {0}, NEW n \in Nat, Declares(line, a, n)
  PROVE  /\ Heads(line) # {} /\ Leftmost(Heads(line)) = a
         /\ LastClosing(line, a) = EndOf(a, n)
<1> DEFINE last == EndOf(a, n)
<1>1. /\ \A k \in 1..(a + 1) : line[k] \in Word
      /\ a \in DOMAIN line /\ a + 1 \in DOMAIN line /\ a + 2 \in DOMAIN line
      /\ line[a + 2] = "(" /\ last \in DOMAIN line /\ line[last] = ")"
      /\ \A k \in DOMAIN line : line[k] = ")" => k <= last
  BY DeclaresTokens
<1>2. last > a + 2 /\ last \in Nat
  BY DEF EndOf
<1>3. "(" \notin Word
  BY GeneratorAssumption
<1> HIDE DEF last
<1>4. last \in Closing(line, a)
  BY <1>1, <1>2 DEF Closing
<1>5. PairAt(line, a)
  BY <1>1 DEF PairAt
<1>6. a \in Heads(line)
  BY <1>1, <1>4, <1>5 DEF Heads
<1>7. ASSUME NEW i \in Heads(line) PROVE a <= i
  <2>1. i \in DOMAIN line /\ line[i + 2] = "("
    BY DEF Heads
  <2>2. i \in Nat \ {0}
    BY <2>1 DEF Tokens
  <2>3. i < a => i + 2 \in 1..(a + 1)
    BY <2>2
  <2>4. ~(i < a)
    BY <1>1, <1>3, <2>1, <2>3
  <2> QED
    BY <2>2, <2>4
<1>8. Leftmost(Heads(line)) = a
  <2>1. Leftmost(Heads(line)) \in Heads(line) /\ Leftmost(Heads(line)) <= a
    BY <1>6, HeadIs
  <2>2. Leftmost(Heads(line)) \in Nat
    BY <2>1 DEF Heads, Tokens
  <2> QED
    BY <1>7, <2>1, <2>2
<1>9. LastClosing(line, a) = last
  <2>1. LastClosing(line, a) \in Closing(line, a) /\ last <= LastClosing(line, a)
    BY <1>4, LastClosingIs
  <2>2. LastClosing(line, a) <= last /\ LastClosing(line, a) \in Nat
    BY <1>1, <2>1 DEF Closing, Tokens
  <2> QED
    BY <1>2, <2>1, <2>2
<1> QED
  BY <1>6, <1>8, <1>9 DEF last

(* Each parameter starts a pair, and nothing else does.                    *)
LEMMA DeclarationStarts ==
  ASSUME NEW line \in Tokens, NEW a \in Nat \ {0}, NEW n \in Nat, Declares(line, a, n)
  PROVE  /\ Starts(Between(line)) = Thirds(n)
         /\ \A m \in 1..n : /\ Between(line)[3 * m - 2] = line[a + 3 * m]
                            /\ Between(line)[3 * m - 1] = line[a + 3 * m + 1]
<1> DEFINE s == Between(line)
           l == IF n = 0 THEN 0 ELSE 3 * n - 1
<1>1. s = SubSeq(line, a + 3, EndOf(a, n) - 1)
  BY DeclarationIsFound DEF Between
<1>2. /\ s \in Tokens /\ Len(s) = l /\ DOMAIN s = 1..l
      /\ \A p \in 1..l : s[p] = line[p + a + 2]
  <2>1. EndOf(a, n) \in 1..Len(line) /\ Len(line) \in Nat /\ EndOf(a, n) - 1 = a + 2 + l /\ l \in Nat
    BY DeclaresTokens DEF EndOf, Tokens
  <2>2. s = SubSeq(line, a + 3, a + 2 + l) /\ a + 2 + l <= Len(line)
    BY <1>1, <2>1
  <2> HIDE DEF l, s
  <2>3. s \in Tokens /\ Len(s) = l
    BY <2>1, <2>2 DEF Tokens
  <2>4. \A p \in 1..l : s[p] = line[p + a + 2]
    BY <2>1, <2>2 DEF Tokens
  <2>5. DOMAIN s = 1..Len(s)
    BY <2>3 DEF Tokens
  <2> QED
    BY <2>3, <2>4, <2>5
<1> HIDE DEF s
<1>3. ASSUME NEW m \in 1..n
      PROVE  /\ 3 * m - 2 \in 1..l /\ 3 * m - 1 \in 1..l
             /\ s[3 * m - 2] = line[a + 3 * m] /\ s[3 * m - 2] \in Word
             /\ s[3 * m - 1] = line[a + 3 * m + 1] /\ s[3 * m - 1] \in Word
             /\ m # n => 3 * m \in 1..l /\ s[3 * m] \notin Word
             /\ m = n => 3 * m \notin 1..l
  <2>1. /\ 3 * m - 2 \in 1..l /\ 3 * m - 2 + a + 2 = a + 3 * m
        /\ 3 * m - 1 \in 1..l /\ 3 * m - 1 + a + 2 = a + 3 * m + 1
        /\ m # n => 3 * m \in 1..l /\ 3 * m + a + 2 = a + 3 * m + 2
        /\ m = n => 3 * m \notin 1..l
    OBVIOUS
  <2>2. /\ line[a + 3 * m] \in Word /\ line[a + 3 * m + 1] \in Word
        /\ m # n => line[a + 3 * m + 2] \notin Word
    <3>1. Parameters(line, a, n)
      BY DeclaresTokens, Zenon
    <3> QED
      BY <3>1, Zenon DEF Parameters
  <2> HIDE DEF l
  <2>3. s[3 * m - 2] = line[a + 3 * m] /\ s[3 * m - 1] = line[a + 3 * m + 1]
    BY <1>2, <2>1
  <2>4. m # n => s[3 * m] = line[a + 3 * m + 2]
    BY <1>2, <2>1
  <2> QED
    BY <2>1, <2>2, <2>3, <2>4
<1>4. ASSUME NEW m \in 1..n PROVE 3 * m - 2 \in Starts(s)
  <2> DEFINE p == 3 * m - 2
  <2>1. p \in Nat \ {0} /\ p + 1 = 3 * m - 1 /\ (p - p) % 2 = 0
    OBVIOUS
  <2>2. PairAt(s, p) /\ p \in DOMAIN s
    BY <1>2, <1>3, <2>1 DEF PairAt
  <2>3. p = 1 \/ s[p - 1] \notin Word
    <3>1. CASE m = 1
      BY <3>1
    <3>2. CASE m # 1
      <4>1. m - 1 \in 1..n /\ m - 1 # n /\ p - 1 = 3 * (m - 1)
        BY <3>2
      <4> HIDE DEF p
      <4> QED
        BY <1>3, <4>1
    <3> QED
      BY <3>1, <3>2
  <2> HIDE DEF p
  <2>4. Run(s, p, p)
    BY <2>1, <2>3 DEF Run
  <2>5. p \in Starts(s)
    BY <2>1, <2>2, <2>4, StartsAt
  <2> QED
    BY <2>5 DEF p
<1>5. ASSUME NEW p \in Starts(s) PROVE p \in Thirds(n)
  <2>1. p \in 1..l /\ p + 1 \in 1..l /\ s[p] \in Word /\ s[p + 1] \in Word
    BY <1>2 DEF Starts, PairAt
  <2>2. PICK m \in 1..n : p = 3 * m - 2 \/ p = 3 * m - 1 \/ p = 3 * m
    <3> DEFINE m == (p + 2) \div 3
    <3>1. m \in 1..n /\ (p = 3 * m - 2 \/ p = 3 * m - 1 \/ p = 3 * m)
      BY <2>1
    <3> QED
      BY <3>1
  <2>3. CASE p = 3 * m - 1
    <3>1. p + 1 = 3 * m
      BY <2>3
    <3> QED
      BY <1>3, <2>1, <3>1
  <2>4. CASE p = 3 * m
    BY <1>3, <2>1, <2>4
  <2> QED
    BY <2>2, <2>3, <2>4 DEF Thirds
<1>6. Starts(s) = Thirds(n)
  BY <1>4, <1>5 DEF Thirds
<1> QED
  BY <1>3, <1>6 DEF s

(* What the generator makes of a line.                                     *)
EntryOf(line) ==
  [type |-> line[Leftmost(Heads(line))], name |-> line[Leftmost(Heads(line)) + 1],
   args |-> PairsOf(line)]

(* What the generator makes of a declaration is what was declared.         *)
LEMMA DeclarationIsRead ==
  ASSUME NEW line \in Tokens, NEW a \in Nat \ {0}, NEW n \in Nat, Declares(line, a, n)
  PROVE  EntryOf(line) = DeclaredBy(line, a, n)
<1> DEFINE s == Between(line)
<1>1. /\ Starts(s) = Thirds(n)
      /\ \A m \in 1..n : /\ s[3 * m - 2] = line[a + 3 * m]
                         /\ s[3 * m - 1] = line[a + 3 * m + 1]
  BY DeclarationStarts
<1> HIDE DEF s
<1>2. Cardinality(Starts(s)) = n /\ \A m \in 1..n : Nth(Starts(s), m) = 3 * m - 2
  BY <1>1, ThirdsCount, NthThird
<1>3. PairsIn(s) = [m \in 1..n |-> <<s[3 * m - 2], s[3 * m - 2 + 1]>>]
  BY <1>2 DEF PairsIn
<1>4. \A m \in 1..n : 3 * m - 2 + 1 = 3 * m - 1
  OBVIOUS
<1>5. PairsIn(s) = [m \in 1..n |-> <<line[a + 3 * m], line[a + 3 * m + 1]>>]
  BY <1>1, <1>3, <1>4
<1>6. Leftmost(Heads(line)) = a
  BY DeclarationIsFound
<1> QED
  BY <1>5, <1>6 DEF EntryOf, DeclaredBy, PairsOf, s
-----------------------------------------------------------------------------
(* The invariant.                                                          *)

Busy == at \in {"function", "args", "error"}

Types ==
  /\ TypeOK
  /\ input \in Input /\ params \in Tokens
  /\ at = "args" => found \in Function

(* Each line that was read and is not empty has become a function, but for *)
(* the one being read.                                                     *)
Handled ==
  /\ Busy => read > 0 /\ Line # <<>>
  /\ Len(functions) + (IF Busy THEN 1 ELSE 0) = Len(Lines)
  /\ \A k \in DOMAIN functions : Heads(Lines[k]) # {} /\ functions[k] = EntryOf(Lines[k])

(* What was read of the parameters, and what will be, are the pairs.       *)
InHand ==
  at = "args" =>
    /\ Heads(Line) # {}
    /\ found.type = EntryOf(Line).type /\ found.name = EntryOf(Line).name
    /\ found.args \o PairsIn(params) = PairsOf(Line)

Writing == at \in {"proto", "server", "client", "done"}

WholeFiles ==
  /\ Writing => read = Len(input)
  /\ files # {} => Writing
  /\ files \subseteq {Written(file) : file \in {"proto", "server", "client"}}

Inv == Types /\ Handled /\ InHand /\ WholeFiles

(* The types of the file and of its lines.                                 *)
LEMMA InputTyped ==
  ASSUME input \in Input, read \in 0..Len(input)
  PROVE  /\ input \in Seq(Tokens) /\ Len(input) \in Nat /\ read \in Nat
         /\ \A k \in 1..Len(input) : input[k] \in Tokens
         /\ read > 0 => Line \in Tokens
<1>1. input \in Seq(Tokens)
  BY GeneratorAssumption DEF Tokens
<1> QED
  BY <1>1 DEF Line

(* The lines.                                                              *)
LEMMA KeptIsNumbers ==
  ASSUME read \in Nat
  PROVE  Numbers(Kept) /\ Cardinality(Kept) \in Nat /\ Len(Lines) = Cardinality(Kept)
<1>1. IsFiniteSet(1..read)
  BY UpTo
<1>2. Kept \in SUBSET (1..read)
  BY DEF Kept
<1>3. Numbers(Kept)
  <2>1. IsFiniteSet(Kept)
    BY <1>1, <1>2, FS_Subset
  <2> QED
    BY <1>2, <2>1 DEF Numbers
<1> QED
  BY <1>3, RankBounds DEF Lines

(* The lines that were kept are lines of tokens.                           *)
LEMMA LinesTyped ==
  ASSUME input \in Input, read \in 0..Len(input)
  PROVE  Lines \in Seq(Tokens) /\ DOMAIN Lines = 1..Len(Lines)
<1>1. read \in Nat /\ \A k \in 1..Len(input) : input[k] \in Tokens
  BY InputTyped
<1>2. Numbers(Kept) /\ Cardinality(Kept) \in Nat
  BY <1>1, KeptIsNumbers
<1>3. \A k \in 1..Cardinality(Kept) : input[Nth(Kept, k)] \in Tokens
  <2>1. \A k \in 1..Cardinality(Kept) : Nth(Kept, k) \in Kept
    BY <1>2, NthHasRank
  <2>2. Len(input) \in Nat
    BY InputTyped
  <2>3. Kept \subseteq 1..Len(input)
    BY <1>1, <2>2 DEF Kept
  <2> QED
    BY <1>1, <2>1, <2>3
<1> QED
  BY <1>2, <1>3 DEF Lines

(* The line in hand is the last one that was kept.                         *)
LEMMA LastLine ==
  ASSUME read \in Nat, read > 0, Line # <<>>
  PROVE  Len(Lines) \in Nat \ {0} /\ Lines[Len(Lines)] = Line
<1> DEFINE S == {i \in 1..(read - 1) : input[i] # <<>>}
<1>1. Kept = S \union {read} /\ read \in Nat
  <2>1. 1..read = 1..(read - 1) \union {read}
    OBVIOUS
  <2> QED
    BY <2>1 DEF Kept, Line
<1>2. Numbers(S) /\ Cardinality(S) \in Nat /\ \A i \in S : i < read
  <2>1. IsFiniteSet(1..(read - 1)) /\ S \in SUBSET (1..(read - 1)) /\ 1..(read - 1) \subseteq Nat
    BY UpTo
  <2>2. IsFiniteSet(S)
    BY <2>1, FS_Subset
  <2> QED
    BY <2>1, <2>2, RankBounds DEF Numbers
<1> HIDE DEF S
<1>3. Cardinality(Kept) = Cardinality(S) + 1 /\ Nth(Kept, Cardinality(S) + 1) = read
  <2>1. ThenLast(S \union {read}, S, read)
    BY ONLY <1>1, <1>2, NthWithLast
  <2> QED
    BY <1>1, <2>1 DEF ThenLast
<1> QED
  BY <1>2, <1>3 DEF Lines, Line

(* One more line is read.                                                  *)
LEMMA LinesGrow ==
  ASSUME read \in Nat, read' = read + 1, UNCHANGED input
  PROVE  /\ Line' = <<>> => Lines' = Lines
         /\ Line' # <<>> => /\ Len(Lines') = Len(Lines) + 1
                            /\ \A k \in 1..Len(Lines) : Lines'[k] = Lines[k]
<1>1. 1..read' = 1..read \union {read'} /\ read' \in Nat
  OBVIOUS
<1>2. Numbers(Kept) /\ Cardinality(Kept) \in Nat /\ Len(Lines) = Cardinality(Kept)
  BY KeptIsNumbers
<1>3. CASE Line' = <<>>
  <2>1. Kept' = Kept
    BY <1>1, <1>3 DEF Kept, Line
  <2> QED
    BY <1>3, <2>1 DEF Lines
<1>4. CASE Line' # <<>>
  <2>1. Kept' = Kept \union {read'}
    BY <1>1, <1>4 DEF Kept, Line
  <2>2. \A i \in Kept : i < read'
    BY DEF Kept
  <2>3. /\ Cardinality(Kept') = Cardinality(Kept) + 1
        /\ \A k \in 1..Cardinality(Kept) : Nth(Kept', k) = Nth(Kept, k)
    <3>1. read' \in Nat /\ Numbers(Kept)
      BY <1>1, <1>2
    <3> HIDE DEF Kept
    <3>2. ThenLast(Kept \union {read'}, Kept, read')
      BY ONLY <2>2, <3>1, NthWithLast
    <3> QED
      BY <2>1, <3>2 DEF ThenLast
  <2>4. Len(Lines') = Cardinality(Kept')
    BY <1>2, <2>3 DEF Lines
  <2>5. \A k \in 1..Cardinality(Kept) : Lines'[k] = Lines[k]
    BY <1>2, <2>3 DEF Lines
  <2> QED
    BY <1>2, <1>4, <2>3, <2>4, <2>5
<1> QED
  BY <1>3, <1>4

(* The lines depend on the file and how far it was read.                   *)
LEMMA LinesStay ==
  ASSUME UNCHANGED <<input, read>>
  PROVE  Lines' = Lines /\ Line' = Line
BY DEF Lines, Line, Kept

-----------------------------------------------------------------------------
(* The steps.                                                              *)

LEMMA ReadLineStep ==
  ASSUME Inv, ReadLine
  PROVE  Inv'
<1>1. /\ input \in Input /\ read \in 0..Len(input) /\ Len(input) \in Nat /\ read \in Nat
      /\ functions \in Seq(Function)
  BY InputTyped DEF Inv, Types, TypeOK
<1>2. /\ at = "line" /\ read < Len(input) /\ read' = read + 1
      /\ at' = (IF Line' = <<>> THEN "line" ELSE "function")
      /\ UNCHANGED <<input, found, params, functions, files>>
  BY DEF ReadLine, Line
<1>3. Types'
  BY <1>1, <1>2 DEF Inv, Types, TypeOK
<1>4. Len(functions) = Len(Lines) /\ Len(functions) \in Nat /\ DOMAIN functions = 1..Len(functions)
  BY <1>1, <1>2 DEF Inv, Handled, Busy
<1>5. ASSUME Line' = <<>> PROVE Handled'
  <2>1. Lines' = Lines /\ at' = "line"
    BY <1>1, <1>2, <1>5, LinesGrow
  <2> QED
    BY <1>2, <1>4, <2>1 DEF Inv, Handled, Busy
<1>6. ASSUME Line' # <<>> PROVE Handled'
  <2>1. Len(Lines') = Len(Lines) + 1 /\ \A k \in 1..Len(Lines) : Lines'[k] = Lines[k]
    BY <1>1, <1>2, <1>6, LinesGrow
  <2>2. at' = "function" /\ read' > 0
    BY <1>1, <1>2, <1>6
  <2> QED
    BY <1>2, <1>4, <1>6, <2>1, <2>2 DEF Inv, Handled, Busy
<1>7. Handled'
  BY <1>5, <1>6
<1>8. InHand'
  BY <1>2 DEF InHand
<1>9. WholeFiles'
  BY <1>2 DEF Inv, WholeFiles, Writing
<1> QED
  BY <1>3, <1>7, <1>8, <1>9 DEF Inv

(* A function is begun: all the pairs are still to be read.                *)
LEMMA MatchFunctionStep ==
  ASSUME Inv, MatchFunction
  PROVE  Inv'
<1>1. /\ input \in Input /\ read \in 0..Len(input) /\ at = "function"
      /\ Heads(Line) # {} /\ read \in Nat /\ read > 0 /\ Line # <<>>
  BY InputTyped DEF Inv, Types, TypeOK, Handled, Busy, MatchFunction
<1>2. Line \in Tokens
  BY <1>1, InputTyped
<1>3. Lines' = Lines /\ Line' = Line
  BY LinesStay DEF MatchFunction
<1>4. /\ found' = [type |-> Line[Leftmost(Heads(Line))],
                   name |-> Line[Leftmost(Heads(Line)) + 1], args |-> <<>>]
      /\ params' = Between(Line) /\ at' = "args"
      /\ UNCHANGED <<input, read, functions, files>>
  BY DEF MatchFunction, Between
<1>5. Line[Leftmost(Heads(Line))] \in Word /\ Line[Leftmost(Heads(Line)) + 1] \in Word
  BY <1>1, <1>2, HeadIs DEF Heads, PairAt
<1>6. found' \in Function
  BY <1>4, <1>5 DEF Function
<1>7. Between(Line) \in Tokens
  BY <1>1, <1>2, BetweenIsTokens
<1>8. Types'
  BY <1>4, <1>6, <1>7 DEF Inv, Types, TypeOK
<1>9. Handled'
  BY <1>1, <1>3, <1>4 DEF Inv, Handled, Busy
<1>10. InHand'
  <2>1. found'.args \o PairsIn(params') = PairsOf(Line)
    <3>1. PairsIn(Between(Line)) \in Seq(Word \X Word)
      BY <1>7, PairsAreWords
    <3>2. <<>> \o PairsIn(Between(Line)) = PairsIn(Between(Line))
      BY <3>1
    <3> QED
      BY <1>4, <3>2 DEF PairsOf
  <2> QED
    BY <1>1, <1>3, <1>4, <2>1 DEF InHand, EntryOf
<1>11. WholeFiles'
  <2>1. files = {}
    BY <1>1 DEF Inv, WholeFiles, Writing
  <2> QED
    BY <1>4, <2>1 DEF WholeFiles, Writing
<1> QED
  BY <1>8, <1>9, <1>10, <1>11 DEF Inv

(* An error: the line stays in hand.                                       *)
LEMMA FindErrorStep ==
  ASSUME Inv, FindError
  PROVE  Inv'
<1>1. Lines' = Lines /\ Line' = Line
  BY LinesStay DEF FindError
<1>2. /\ at = "function" /\ at' = "error"
      /\ UNCHANGED <<input, read, found, params, functions, files>>
  BY DEF FindError
<1>3. Types'
  BY <1>2 DEF Inv, Types, TypeOK
<1>4. Handled'
  BY <1>1, <1>2 DEF Inv, Handled, Busy
<1>5. InHand' /\ WholeFiles'
  BY <1>2 DEF Inv, InHand, WholeFiles, Writing, Written
<1> QED
  BY <1>3, <1>4, <1>5 DEF Inv

(* What is behind the first pair, appended to what was before.             *)
LEMMA PairMoves ==
  ASSUME NEW args \in Seq(Word \X Word), NEW s \in Tokens, NEW i, FirstPair(s, i)
  PROVE  Append(args, <<s[i], s[i + 1]>>) \o PairsIn(Behind(s, i)) = args \o PairsIn(s)
<1> DEFINE e == <<s[i], s[i + 1]>>
           p == PairsIn(s)
           q == PairsIn(Behind(s, i))
<1>1. p \in Seq(Word \X Word) /\ q \in Seq(Word \X Word)
  BY PairsAreWords, PairsBehind
<1>2. e \in Word \X Word
  BY DEF FirstPair, PairAt
<1>3. Len(p) = Len(q) + 1 /\ p[1] = e /\ \A k \in 1..Len(q) : p[k + 1] = q[k]
  BY PairsBehind
<1> HIDE DEF e, p, q
<1>4. p = <<e>> \o q
  <2> DEFINE r == <<e>> \o q
  <2>1. r \in Seq(Word \X Word) /\ Len(r) = Len(q) + 1 /\ Len(q) \in Nat
    BY <1>1, <1>2
  <2>2. r[1] = e
    BY <1>1, <1>2
  <2>3. \A k \in 1..Len(q) : r[k + 1] = q[k]
    BY <1>1, <1>2
  <2> HIDE DEF r
  <2>4. ASSUME NEW k \in 1..Len(r) PROVE p[k] = r[k]
    <3>1. CASE k = 1
      BY <1>3, <2>2, <3>1
    <3>2. CASE k # 1
      <4>1. k - 1 \in 1..Len(q) /\ (k - 1) + 1 = k
        BY <2>1, <3>2
      <4> QED
        BY <1>3, <2>3, <4>1
    <3> QED
      BY <3>1, <3>2
  <2>5. p = r
    BY <1>1, <1>3, <2>1, <2>4
  <2> QED
    BY <2>5 DEF r
<1>5. Append(args, e) \o q = args \o (<<e>> \o q)
  BY <1>1, <1>2
<1> QED
  BY <1>4, <1>5 DEF e, p, q

(* A pair moves from what is to be read to what was.                       *)
LEMMA MatchArgumentStep ==
  ASSUME Inv, MatchArgument
  PROVE  Inv'
<1> DEFINE i == Leftmost(Pairs)
<1>1. /\ input \in Input /\ read \in 0..Len(input) /\ at = "args"
      /\ params \in Tokens /\ found \in Function /\ Pairs # {}
  BY DEF Inv, Types, TypeOK, MatchArgument
<1>2. Lines' = Lines /\ Line' = Line
  BY LinesStay DEF MatchArgument
<1>3. FirstPair(params, i)
  <2>1. Pairs \in SUBSET Nat
    BY <1>1 DEF Pairs, Tokens
  <2>2. i \in Pairs /\ \A j \in Pairs : i <= j
    BY <1>1, <2>1, LeftmostIs
  <2> QED
    BY <2>2 DEF FirstPair, Pairs
<1>4. /\ found' = [found EXCEPT !.args = Append(@, <<params[i], params[i + 1]>>)]
      /\ params' = Behind(params, i) /\ at' = at
      /\ UNCHANGED <<input, read, functions, files>>
  BY DEF MatchArgument, Suffix, Behind
<1> HIDE DEF i
<1>5. <<params[i], params[i + 1]>> \in Word \X Word
  BY <1>3 DEF FirstPair, PairAt
<1>6. /\ found'.type = found.type /\ found'.name = found.name
      /\ found'.args = Append(found.args, <<params[i], params[i + 1]>>)
      /\ found' \in Function /\ found.args \in Seq(Word \X Word)
  <2> DEFINE e == <<params[i], params[i + 1]>>
  <2>1. found.type \in Word /\ found.name \in Word /\ found.args \in Seq(Word \X Word)
    BY <1>1 DEF Function
  <2>2. found' = [type |-> found.type, name |-> found.name, args |-> Append(found.args, e)]
    BY <1>1, <1>4 DEF Function
  <2>3. e \in Word \X Word
    BY <1>5
  <2> HIDE DEF e
  <2>4. Append(found.args, e) \in Seq(Word \X Word)
    BY <2>1, <2>3
  <2>5. found' \in Function
    BY <2>1, <2>2, <2>4 DEF Function
  <2> QED
    BY <2>1, <2>2, <2>5 DEF e
<1>7. params' \in Tokens
  BY <1>1, <1>3, <1>4, PairsBehind
<1>8. Types'
  BY <1>1, <1>4, <1>6, <1>7 DEF Inv, Types, TypeOK
<1>9. Handled'
  BY <1>2, <1>4 DEF Inv, Handled, Busy
<1>10. InHand'
  <2>1. found'.args \o PairsIn(params') = found.args \o PairsIn(params)
    <3>1. Append(found.args, <<params[i], params[i + 1]>>) \o PairsIn(Behind(params, i))
            = found.args \o PairsIn(params)
      BY <1>1, <1>3, <1>6, PairMoves, Zenon
    <3> QED
      BY <1>4, <1>6, <3>1, Zenon
  <2> QED
    BY <1>1, <1>2, <1>4, <1>6, <2>1 DEF Inv, InHand
<1>11. WholeFiles'
  <2>1. files = {}
    BY <1>1 DEF Inv, WholeFiles, Writing
  <2> QED
    BY <1>1, <1>4, <2>1 DEF WholeFiles, Writing
<1> QED
  BY <1>8, <1>9, <1>10, <1>11 DEF Inv

(* Nothing is left to be read: the function is what the line makes.        *)
LEMMA EndOfArgumentsStep ==
  ASSUME Inv, EndOfArguments
  PROVE  Inv'
<1>1. /\ input \in Input /\ read \in 0..Len(input) /\ at = "args" /\ read \in Nat
      /\ read > 0 /\ Line # <<>> /\ Heads(Line) # {}
      /\ params \in Tokens /\ found \in Function /\ functions \in Seq(Function)
  BY InputTyped DEF Inv, Types, TypeOK, Handled, Busy, InHand, EndOfArguments
<1>2. Lines' = Lines /\ Line' = Line
  BY LinesStay DEF EndOfArguments
<1>3. /\ functions' = Append(functions, found) /\ at' = "line"
      /\ UNCHANGED <<input, read, found, params, files>>
  BY DEF EndOfArguments
<1>4. found = EntryOf(Line)
  <2>1. PairsIn(params) = <<>>
    BY <1>1, NoPairs DEF EndOfArguments, Pairs
  <2>2. found.args = PairsOf(Line)
    BY <1>1, <2>1 DEF Inv, InHand, Function
  <2> QED
    BY <1>1, <2>2 DEF Inv, InHand, EntryOf, Function
<1>5. functions' \in Seq(Function)
  BY <1>1, <1>3
<1>6. Types'
  BY <1>3, <1>5 DEF Inv, Types, TypeOK
<1>7. Handled'
  <2>1. Len(functions) + 1 = Len(Lines) /\ Lines[Len(Lines)] = Line
    BY <1>1, LastLine DEF Inv, Handled, Busy
  <2>2. Len(functions') = Len(Lines) /\ DOMAIN functions' = DOMAIN functions \union {Len(Lines)}
    BY <1>1, <1>3, <2>1
  <2>3. /\ \A k \in DOMAIN functions : functions'[k] = functions[k]
        /\ functions'[Len(Lines)] = found
    BY <1>1, <1>3, <2>1
  <2>4. \A k \in DOMAIN functions' : Heads(Lines[k]) # {} /\ functions'[k] = EntryOf(Lines[k])
    BY <1>1, <1>4, <2>1, <2>2, <2>3 DEF Inv, Handled
  <2>5. Len(Lines) \in Nat
    BY <1>1, LastLine
  <2> QED
    BY <1>2, <1>3, <2>2, <2>4, <2>5 DEF Handled, Busy
<1>8. InHand'
  BY <1>3 DEF InHand
<1>9. WholeFiles'
  <2>1. files = {}
    BY <1>1 DEF Inv, WholeFiles, Writing
  <2> QED
    BY <1>3, <2>1 DEF WholeFiles, Writing
<1> QED
  BY <1>6, <1>7, <1>8, <1>9 DEF Inv

(* The last line was read: writing begins.                                 *)
LEMMA EndOfFileStep ==
  ASSUME Inv, EndOfFile
  PROVE  Inv'
<1>1. Lines' = Lines /\ Line' = Line
  BY LinesStay DEF EndOfFile
<1>2. /\ at = "line" /\ read = Len(input) /\ at' = "proto"
      /\ UNCHANGED <<input, read, found, params, functions, files>>
  BY DEF EndOfFile
<1>3. Types'
  BY <1>2 DEF Inv, Types, TypeOK
<1>4. Handled'
  BY <1>1, <1>2 DEF Inv, Handled, Busy
<1>5. InHand' /\ WholeFiles'
  BY <1>2 DEF Inv, InHand, WholeFiles, Writing, Written
<1> QED
  BY <1>3, <1>4, <1>5 DEF Inv

(* A file is written, or is not.                                           *)
LEMMA WriteStep ==
  ASSUME Inv, NEW from \in {"proto", "server", "client"},
         NEW file \in {"proto", "server", "client"}, NEW to \in {"server", "client", "done"},
         Write(from, file, to)
  PROVE  Inv'
<1>1. Lines' = Lines /\ Line' = Line
  BY LinesStay DEF Write
<1>2. /\ at = from /\ at' = to
      /\ files' = files \/ files' = files \union {Written(file)}
      /\ UNCHANGED <<input, read, found, params, functions>>
  BY DEF Write
<1>3. Written(file)[1] = file /\ \A f \in {"proto", "server", "client"} : Written(f)' = Written(f)
  BY <1>2 DEF Written
<1>4. Types'
  <2>1. {w[1] : w \in files'} \subseteq {"proto", "server", "client"}
    BY <1>2, <1>3 DEF Inv, Types, TypeOK
  <2> QED
    BY <1>2, <2>1 DEF Inv, Types, TypeOK
<1>5. Handled'
  BY <1>1, <1>2 DEF Inv, Handled, Busy
<1>6. InHand'
  BY <1>2 DEF InHand
<1>7. WholeFiles'
  BY <1>2, <1>3 DEF Inv, WholeFiles, Writing
<1> QED
  BY <1>4, <1>5, <1>6, <1>7 DEF Inv

(* At first no line was read.                                              *)
LEMMA InitInv ==
  ASSUME Init
  PROVE  Inv
<1>1. Len(input) \in Nat /\ read = 0
  <2>1. input \in Seq(Tokens)
    BY GeneratorAssumption DEF Init, Tokens
  <2> QED
    BY <2>1 DEF Init
<1>2. Len(Lines) = 0
  <2>1. Kept = {}
    BY <1>1 DEF Kept
  <2>2. Cardinality(Kept) = 0
    BY <2>1, FS_EmptySet
  <2> QED
    BY <2>2 DEF Lines
<1>3. Types
  BY <1>1 DEF Init, Types, TypeOK, Tokens
<1> QED
  BY <1>2, <1>3 DEF Init, Inv, Handled, Busy, InHand, WholeFiles, Writing

(* The invariant holds in every state.                                     *)
LEMMA InvAlways == Spec => []Inv
<1>1. Init => Inv
  BY InitInv
<1>2. Inv /\ [Next]_vars => Inv'
  <2> SUFFICES ASSUME Inv, [Next]_vars PROVE Inv'
    OBVIOUS
  <2>1. CASE UNCHANGED vars
    <3>1. Lines' = Lines /\ Line' = Line
      BY <2>1, LinesStay DEF vars
    <3> QED
      BY <2>1, <3>1 DEF vars, Inv, Types, TypeOK, Handled, Busy, InHand, WholeFiles, Writing,
                        Written
  <2>2. CASE ReadLine
    BY <2>2, ReadLineStep
  <2>3. CASE MatchFunction
    BY <2>3, MatchFunctionStep
  <2>4. CASE FindError
    BY <2>4, FindErrorStep
  <2>5. CASE MatchArgument
    BY <2>5, MatchArgumentStep
  <2>6. CASE EndOfArguments
    BY <2>6, EndOfArgumentsStep
  <2>7. CASE EndOfFile
    BY <2>7, EndOfFileStep
  <2>8. CASE Write("proto", "proto", "server")
    BY <2>8, WriteStep
  <2>9. CASE Write("server", "server", "client")
    BY <2>9, WriteStep
  <2>10. CASE Write("client", "client", "done")
    BY <2>10, WriteStep
  <2> QED
    BY <2>1, <2>2, <2>3, <2>4, <2>5, <2>6, <2>7, <2>8, <2>9, <2>10 DEF Next
<1> QED
  BY <1>1, <1>2, PTL DEF Spec

-----------------------------------------------------------------------------
(* The theorems.                                                           *)

(* What the generator keeps of the lines it read is functions of words.    *)
THEOREM TypeCorrect == Spec => []TypeOK
<1>1. Inv => TypeOK
  BY DEF Inv, Types
<1> QED
  BY <1>1, InvAlways, PTL

(* Between two lines, there is one function for each line that was kept,   *)
(* and it is what the line makes.                                          *)
LEMMA OnePerLine ==
  ASSUME Inv, ~Busy
  PROVE  /\ Lines \in Seq(Tokens) /\ Len(functions) = Len(Lines)
         /\ DOMAIN functions = DOMAIN Lines /\ DOMAIN Lines = 1..Len(Lines)
         /\ \A k \in DOMAIN Lines : Heads(Lines[k]) # {} /\ functions[k] = EntryOf(Lines[k])
<1>1. Lines \in Seq(Tokens) /\ DOMAIN Lines = 1..Len(Lines)
  BY LinesTyped DEF Inv, Types, TypeOK
<1>2. functions \in Seq(Function) /\ Len(functions) = Len(Lines)
  <2>1. functions \in Seq(Function) /\ Len(functions) + 0 = Len(Lines)
    BY DEF Inv, Types, TypeOK, Handled
  <2> QED
    BY <2>1
<1>3. DOMAIN functions = DOMAIN Lines
  BY <1>1, <1>2
<1> QED
  BY <1>1, <1>2, <1>3 DEF Inv, Handled

(* Of each line that is a declaration the generator reads, whatever other  *)
(* lines there are, the return type, the name and every parameter.         *)
THEOREM DeclarationsAreRead == Spec => []ReadAsDeclared
<1>1. ASSUME Inv PROVE ReadAsDeclared
  <2> SUFFICES ASSUME Read, NEW k \in DOMAIN Lines, NEW a \in 0..Len(Lines[k]),
                      NEW n \in 0..Len(Lines[k]), a > 0, Declares(Lines[k], a, n)
               PROVE  functions[k] = DeclaredBy(Lines[k], a, n)
    BY DEF ReadAsDeclared
  <2>1. Lines[k] \in Tokens /\ functions[k] = EntryOf(Lines[k])
    BY <1>1, OnePerLine DEF Read, Busy
  <2>2. a \in Nat \ {0} /\ n \in Nat
    BY <2>1 DEF Tokens
  <2> QED
    BY <2>1, <2>2, DeclarationIsRead
<1> QED
  BY <1>1, InvAlways, PTL

(* Of every other line that it accepts, it takes the words between the     *)
(* parentheses in twos, from the left of each run of words.                *)
THEOREM WordsInTwos == Spec => []ArgumentsArePairs
<1>1. ASSUME Inv PROVE ArgumentsArePairs
  <2> SUFFICES ASSUME Read, NEW k \in DOMAIN Lines
               PROVE  functions[k].args = PairsOf(Lines[k])
    BY DEF ArgumentsArePairs
  <2> QED
    BY <1>1, OnePerLine DEF Read, Busy, EntryOf
<1> QED
  BY <1>1, InvAlways, PTL

(* A line that is no declaration leaves nothing written, and what is       *)
(* written speaks, in every file, of one function for each line, in order, *)
(* with as many arguments as the line has pairs.                           *)
THEOREM AllOrNothing == Spec => []OneFunctionALine
<1>1. ASSUME Inv PROVE OneFunctionALine
  <2> SUFFICES ASSUME files # {}
               PROVE  /\ read = Len(input)
                      /\ \A w \in files :
                           /\ Len(w[2]) = Len(Lines)
                           /\ \A k \in DOMAIN Lines :
                                /\ Heads(Lines[k]) # {} /\ w[2][k].name = functions[k].name
                                /\ Len(IF w[1] = "proto" THEN w[2][k].request ELSE w[2][k].args)
                                     = Len(PairsOf(Lines[k]))
    BY DEF OneFunctionALine
  <2>1. Writing /\ ~Busy /\ read = Len(input)
    BY <1>1 DEF Inv, WholeFiles, Writing, Busy
  <2>2. /\ Lines \in Seq(Tokens) /\ Len(functions) = Len(Lines)
        /\ DOMAIN functions = DOMAIN Lines /\ DOMAIN Lines = 1..Len(Lines)
        /\ \A k \in DOMAIN Lines : Heads(Lines[k]) # {} /\ functions[k] = EntryOf(Lines[k])
    BY <1>1, <2>1, OnePerLine
  <2>3. ASSUME NEW w \in files
        PROVE  /\ Len(w[2]) = Len(Lines)
               /\ \A k \in DOMAIN Lines :
                    /\ w[2][k].name = functions[k].name
                    /\ Len(IF w[1] = "proto" THEN w[2][k].request ELSE w[2][k].args)
                         = Len(PairsOf(Lines[k]))
    <3>1. PICK file \in {"proto", "server", "client"} : w = Written(file)
      BY <1>1 DEF Inv, WholeFiles
    <3>2. w[1] = file /\ w[2] = [k \in 1..Len(Lines) |-> Content(file, functions[k])]
      BY <2>2, <3>1 DEF Written
    <3>3. Len(w[2]) = Len(Lines)
      <4>1. Len(Lines) \in Nat
        BY <2>2
      <4> QED
        BY <3>2, <4>1
    <3>4. ASSUME NEW k \in DOMAIN Lines
          PROVE  /\ w[2][k].name = functions[k].name
                 /\ Len(IF w[1] = "proto" THEN w[2][k].request ELSE w[2][k].args)
                      = Len(PairsOf(Lines[k]))
      <4>1. w[2][k] = Content(file, functions[k])
        BY <2>2, <3>2
      <4>2. functions[k].args = PairsOf(Lines[k]) /\ Lines[k] \in Tokens /\ Heads(Lines[k]) # {}
        BY <2>2 DEF EntryOf
      <4>3. PairsOf(Lines[k]) \in Seq(Word \X Word)
        BY <4>2, BetweenIsTokens, PairsAreWords DEF PairsOf
      <4> DEFINE f == functions[k]
      <4>4. f.args \in Seq(Word \X Word) /\ Len(f.args) \in Nat
        BY <4>2, <4>3
      <4> HIDE DEF f
      <4>5. Len(Request(f)) = Len(f.args)
        BY <4>4 DEF Request
      <4>6. Len(ArgNames(f)) = Len(f.args)
        BY <4>4 DEF ArgNames
      <4>7. /\ Content(file, f).name = f.name
            /\ file = "proto" => Content(file, f).request = Request(f)
            /\ file # "proto" => Content(file, f).args = ArgNames(f)
        BY DEF Content
      <4> QED
        BY <3>2, <4>1, <4>2, <4>5, <4>6, <4>7 DEF f
    <3> QED
      BY <3>3, <3>4
  <2> QED
    BY <2>1, <2>2, <2>3
<1> QED
  BY <1>1, InvAlways, PTL
=============================================================================
