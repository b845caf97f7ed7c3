------------------------- MODULE PackageStreamProofs -------------------------
(***************************************************************************)
(* Proofs about PackageStream for every set of packages with bodies of     *)
(* every length, and every size of header, block, caches and socket.       *)
(***************************************************************************)
EXTENDS PackageStream, SequenceTheorems, WellFoundedInduction, TLAPS

-----------------------------------------------------------------------------
(* Induction over the natural numbers, from the well-foundedness of <: a    *)
(* set of naturals that is not empty has a least member.                   *)
LEMMA Least ==
  ASSUME NEW T \in SUBSET Nat, T # {}
  PROVE  \E n \in T : \A m \in T : n <= m
<1>1. \E n \in T : \A m \in T : ~(<<m, n>> \in OpToRel(<, Nat))
  BY WFMin, NatLessThanWellFounded
<1>2. PICK n \in T : \A m \in T : ~(<<m, n>> \in OpToRel(<, Nat))
  BY <1>1
<1>3. \A m \in T : m < n => <<m, n>> \in OpToRel(<, Nat)
  BY ZenonT(30) DEF OpToRel
<1>4. \A m \in T : ~(m < n)
  BY <1>2, <1>3, Zenon
<1> QED
  BY <1>4

(* The members of a set are all there is, if 0 and every successor is one. *)
LEMMA Induction ==
  ASSUME NEW S, 0 \in S, \A n \in Nat : n \in S => n + 1 \in S
  PROVE  Nat \subseteq S
<1> DEFINE T == Nat \ S
<1> SUFFICES ASSUME T # {} PROVE FALSE
  OBVIOUS
<1>1. PICK n \in T : \A m \in T : n <= m
  BY Least
<1>2. n - 1 \in Nat /\ n - 1 \notin T
  BY <1>1
<1> QED
  BY <1>2

-----------------------------------------------------------------------------
(* It does not matter which of two joins comes first.                      *)

Associate(a, b, c) == (a \o b) \o c = a \o (b \o c)

(* Joining sequences is associative.                                       *)
LEMMA JoinAssociates ==
  ASSUME NEW B, NEW a \in Seq(B), NEW b \in Seq(B), NEW c \in Seq(B)
  PROVE  Associate(a, b, c)
BY ConcatAssociative DEF Associate

-----------------------------------------------------------------------------
(* FlattenSeq.  f[i] is what the first i of the sequences join to.          *)

Flattens(s, f) == f = [i \in 1..Len(s) |-> IF i = 1 THEN s[i] ELSE f[i - 1] \o s[i]]

(* One more sequence is joined at the end.                                 *)
LEMMA FlattensAt ==
  ASSUME NEW s, Len(s) \in Nat, NEW f, Flattens(s, f), NEW i \in Nat \ {0}, i + 1 <= Len(s)
  PROVE  f[i + 1] = f[i] \o s[i + 1]
<1>1. i + 1 \in 1..Len(s) /\ i + 1 # 1 /\ i + 1 - 1 = i
  OBVIOUS
<1>2. \A j \in 1..Len(s) : f[j] = IF j = 1 THEN s[j] ELSE f[j - 1] \o s[j]
  BY DEF Flattens
<1> DEFINE j == i + 1
<1>3. j \in 1..Len(s) /\ j # 1 /\ j - 1 = i
  BY <1>1
<1> HIDE DEF j
<1>4. f[j] = IF j = 1 THEN s[j] ELSE f[j - 1] \o s[j]
  BY <1>2, <1>3, Zenon
<1>5. f[j] = f[i] \o s[j]
  BY <1>3, <1>4, Zenon
<1> QED
  BY <1>5 DEF j

(* There is such a function.                                               *)
LEMMA FlattensExists ==
  ASSUME NEW B
  PROVE  \A s \in Seq(Seq(B)) : \E f \in [1..Len(s) -> Seq(B)] : Flattens(s, f)
<1> DEFINE Good(n) == \A s \in Seq(Seq(B)) : n = Len(s) =>
               \E f \in [1..Len(s) -> Seq(B)] : Flattens(s, f)
<1> DEFINE S == {n \in Nat : Good(n)}
<1>1. 0 \in S
  <2> SUFFICES ASSUME NEW s \in Seq(Seq(B)), Len(s) = 0
               PROVE  \E f \in [1..Len(s) -> Seq(B)] : Flattens(s, f)
    BY Zenon
  <2> DEFINE f == [i \in 1..0 |-> <<>>]
  <2>1. f \in [1..Len(s) -> Seq(B)] /\ Flattens(s, f)
    BY DEF Flattens
  <2> QED
    BY <2>1
<1>2. ASSUME NEW n \in Nat, n \in S PROVE n + 1 \in S
  <2> SUFFICES ASSUME NEW s \in Seq(Seq(B)), n + 1 = Len(s)
               PROVE  \E f \in [1..Len(s) -> Seq(B)] : Flattens(s, f)
    <3>1. n + 1 \in Nat
      OBVIOUS
    <3> QED
      BY Zenon, <3>1
  <2> DEFINE t == SubSeq(s, 1, n)
  <2>1. t \in Seq(Seq(B)) /\ Len(t) = n /\ \A i \in 1..n : t[i] = s[i]
    OBVIOUS
  <2>2. PICK g \in [1..Len(t) -> Seq(B)] : Flattens(t, g)
    BY <1>2, <2>1
  <2> DEFINE last == IF n = 0 THEN s[n + 1] ELSE g[n] \o s[n + 1]
             f == [i \in 1..Len(s) |-> IF i = n + 1 THEN last ELSE g[i]]
  <2>3. last \in Seq(B)
    BY <2>1
  <2>4. \A i \in 1..n : g[i] \in Seq(B) /\ g[i] = IF i = 1 THEN s[i] ELSE g[i - 1] \o s[i]
    BY <2>1, <2>2 DEF Flattens
  <2> HIDE DEF t
  <2>5. \A i \in 1..Len(s) : f[i] = IF i = 1 THEN s[i] ELSE f[i - 1] \o s[i]
    BY <2>4
  <2>6. f \in [1..Len(s) -> Seq(B)]
    BY <2>3, <2>4
  <2> HIDE DEF f
  <2> QED
    BY <2>5, <2>6 DEF Flattens
<1> HIDE DEF S
<1>3. Nat \subseteq S
  BY <1>1, <1>2, Induction
<1> QED
  BY <1>3 DEF S

Agree(s, t, k) == \A i \in 1..k : s[i] = t[i]

(* There is one only, and it depends on the sequences joined so far.       *)
LEMMA FlattensUnique ==
  ASSUME NEW s, NEW f, Flattens(s, f), Len(s) \in Nat,
         NEW t, NEW g, Flattens(t, g), Len(t) \in Nat,
         NEW k \in Nat, k <= Len(s), k <= Len(t), Agree(s, t, k)
  PROVE  Agree(f, g, k)
<1> DEFINE S == {n \in Nat : n \in 1..k => f[n] = g[n]}
<1>1. 0 \in S
  OBVIOUS
<1>2. ASSUME NEW n \in Nat, n \in S PROVE n + 1 \in S
  <2> SUFFICES ASSUME n + 1 <= k PROVE f[n + 1] = g[n + 1]
    OBVIOUS
  <2>1. CASE n = 0
    BY <2>1 DEF Flattens, Agree
  <2>2. CASE n # 0
    <3>1. /\ Len(s) \in Nat /\ Len(t) \in Nat /\ n \in Nat \ {0}
          /\ n + 1 <= Len(s) /\ n + 1 <= Len(t)
      BY <2>2
    <3>2. f[n + 1] = f[n] \o s[n + 1]
      BY <3>1, FlattensAt
    <3>4. g[n + 1] = g[n] \o t[n + 1]
      BY <3>1, FlattensAt
    <3>3. f[n] = g[n] /\ s[n + 1] = t[n + 1]
      BY <1>2, <2>2 DEF Agree
    <3> QED
      BY <3>2, <3>3, <3>4
  <2> QED
    BY <2>1, <2>2
<1> HIDE DEF S
<1>3. Nat \subseteq S
  BY <1>1, <1>2, Induction
<1> QED
  BY <1>3 DEF S, Agree

(* FlattenSeq is what all of them join to.                                 *)
LEMMA FlattenIs ==
  ASSUME NEW B, NEW s \in Seq(Seq(B)), Len(s) # 0
  PROVE  \E f \in [1..Len(s) -> Seq(B)] : Flattens(s, f) /\ FlattenSeq(s) = f[Len(s)]
<1> DEFINE F == CHOOSE f : f = [i \in 1..Len(s) |-> IF i = 1 THEN s[i] ELSE f[i - 1] \o s[i]]
<1>1. FlattenSeq(s) = F[Len(s)]
  BY Zenon DEF FlattenSeq
<1>2. PICK g \in [1..Len(s) -> Seq(B)] : Flattens(s, g)
  BY FlattensExists
<1>3. Flattens(s, F)
  BY Zenon, <1>2 DEF Flattens
<1> HIDE DEF F
<1>4. Agree(F, g, Len(s))
  <2>1. Len(s) \in Nat /\ Len(s) <= Len(s) /\ Agree(s, s, Len(s))
    BY DEF Agree
  <2> QED
    BY <1>2, <1>3, <2>1, FlattensUnique
<1>5. F \in [1..Len(s) -> Seq(B)]
  BY <1>2, <1>3, <1>4 DEF Flattens, Agree
<1> QED
  BY <1>1, <1>3, <1>5

(* Nothing joins to nothing.                                               *)
LEMMA FlattenEmpty == FlattenSeq(<<>>) = <<>>
BY DEF FlattenSeq

(* A sequence added behind the others comes last.                          *)
LEMMA FlattenAppend ==
  ASSUME NEW B, NEW s \in Seq(Seq(B)), NEW x \in Seq(B)
  PROVE  FlattenSeq(Append(s, x)) = FlattenSeq(s) \o x /\ FlattenSeq(s) \in Seq(B)
<1> DEFINE t == Append(s, x)
<1>1. /\ t \in Seq(Seq(B)) /\ Len(t) = Len(s) + 1 /\ t[Len(s) + 1] = x
      /\ \A i \in 1..Len(s) : t[i] = s[i]
  OBVIOUS
<1> HIDE DEF t
<1>2. PICK g \in [1..Len(t) -> Seq(B)] : Flattens(t, g) /\ FlattenSeq(t) = g[Len(t)]
  <2>1. t \in Seq(Seq(B)) /\ Len(t) # 0
    BY <1>1
  <2> QED
    BY <2>1, FlattenIs, Zenon
<1>3. CASE Len(s) = 0
  <2>1. s = <<>>
    BY <1>3
  <2>2. FlattenSeq(t) = x
    BY <1>1, <1>2, <1>3 DEF Flattens
  <2>3. FlattenSeq(s) = <<>> /\ <<>> \o x = x /\ <<>> \in Seq(B)
    BY <2>1, FlattenEmpty
  <2> QED
    BY <2>2, <2>3 DEF t
<1>4. CASE Len(s) # 0
  <2>1. PICK f \in [1..Len(s) -> Seq(B)] : Flattens(s, f) /\ FlattenSeq(s) = f[Len(s)]
    BY <1>4, FlattenIs
  <2>2. \A i \in 1..Len(s) : f[i] = g[i]
    <3>1. /\ Len(s) \in Nat /\ Len(s) <= Len(s) /\ Len(s) <= Len(t)
          /\ \A i \in 1..Len(s) : s[i] = t[i]
      BY <1>1
    <3> DEFINE k == Len(s)
    <3>2. t \in Seq(Seq(B)) /\ Flattens(t, g) /\ Flattens(s, f)
      BY <1>1, <1>2, <2>1
    <3> HIDE DEF k
    <3>3. /\ Len(s) \in Nat /\ Len(t) \in Nat
          /\ k \in Nat /\ k <= Len(s) /\ k <= Len(t) /\ Agree(s, t, k)
      BY <3>1 DEF k, Agree
    <3>4. Agree(f, g, k)
      BY <3>2, <3>3, FlattensUnique
    <3> QED
      BY <3>4 DEF k, Agree
  <2>3. g[Len(s) + 1] = g[Len(s)] \o x
    <3> DEFINE k == Len(s)
    <3>1. Len(t) \in Nat /\ k \in Nat \ {0} /\ k + 1 <= Len(t) /\ t[k + 1] = x
      BY <1>1, <1>4
    <3> HIDE DEF k
    <3>2. Flattens(t, g)
      BY <1>2
    <3>3. g[k + 1] = g[k] \o t[k + 1]
      BY <3>1, <3>2, FlattensAt
    <3>4. g[k + 1] = g[k] \o x
      BY <3>1, <3>3
    <3> QED
      BY <3>4 DEF k
  <2>4. f[Len(s)] = g[Len(s)] /\ f[Len(s)] \in Seq(B)
    <3>1. Len(s) \in 1..Len(s)
      BY <1>4
    <3> QED
      BY <2>1, <2>2, <3>1
  <2> QED
    BY <1>1, <1>2, <2>1, <2>3, <2>4 DEF t
<1> QED
  BY <1>3, <1>4

(* A sequence put before the others comes first.                           *)
LEMMA FlattenCons ==
  ASSUME NEW B, NEW x \in Seq(B)
  PROVE  \A s \in Seq(Seq(B)) : FlattenSeq(<<x>> \o s) = x \o FlattenSeq(s)
<1> DEFINE Good(n) == \A s \in Seq(Seq(B)) : n = Len(s) =>
                         FlattenSeq(<<x>> \o s) = x \o FlattenSeq(s)
           S == {n \in Nat : Good(n)}
<1>1. 0 \in S
  <2> SUFFICES ASSUME NEW s \in Seq(Seq(B)), 0 = Len(s)
               PROVE  FlattenSeq(<<x>> \o s) = x \o FlattenSeq(s)
    BY Zenon
  <2>1. s = <<>> /\ <<x>> \o s = Append(<<>>, x) /\ <<>> \in Seq(Seq(B))
    OBVIOUS
  <2>2. FlattenSeq(Append(<<>>, x)) = <<>> \o x
    BY <2>1, FlattenAppend, FlattenEmpty
  <2> QED
    BY <2>1, <2>2, FlattenEmpty
<1>2. ASSUME NEW n \in Nat, n \in S PROVE n + 1 \in S
  <2> SUFFICES ASSUME NEW s \in Seq(Seq(B)), n + 1 = Len(s)
               PROVE  FlattenSeq(<<x>> \o s) = x \o FlattenSeq(s)
    <3>1. n + 1 \in Nat
      OBVIOUS
    <3> QED
      BY Zenon, <3>1
  <2> DEFINE t == SubSeq(s, 1, n)
             y == s[n + 1]
  <2>1. t \in Seq(Seq(B)) /\ Len(t) = n /\ y \in Seq(B) /\ s = Append(t, y)
    OBVIOUS
  <2> HIDE DEF t, y
  <2>2. <<x>> \o s = Append(<<x>> \o t, y) /\ <<x>> \o t \in Seq(Seq(B))
    BY <2>1
  <2>3. FlattenSeq(<<x>> \o t) = x \o FlattenSeq(t)
    BY <1>2, <2>1
  <2>4. /\ FlattenSeq(<<x>> \o s) = FlattenSeq(<<x>> \o t) \o y
        /\ FlattenSeq(s) = FlattenSeq(t) \o y /\ FlattenSeq(t) \in Seq(B)
    BY <2>1, <2>2, FlattenAppend
  <2> DEFINE z == FlattenSeq(t)
  <2> HIDE DEF z
  <2>5. z \in Seq(B) /\ y \in Seq(B)
    BY <2>1, <2>4 DEF z
  <2>6. Associate(x, z, y)
    BY <2>5, JoinAssociates
  <2>7. FlattenSeq(<<x>> \o s) = (x \o z) \o y
    BY <2>3, <2>4, Zenon DEF z
  <2>8. FlattenSeq(s) = z \o y
    BY <2>4 DEF z
  <2> QED
    BY <2>6, <2>7, <2>8, Zenon DEF Associate
<1> HIDE DEF S
<1>3. Nat \subseteq S
  BY <1>1, <1>2, Induction
<1> QED
  <2> SUFFICES ASSUME NEW s \in Seq(Seq(B))
               PROVE  FlattenSeq(<<x>> \o s) = x \o FlattenSeq(s)
    OBVIOUS
  <2>1. Len(s) \in Nat
    OBVIOUS
  <2>2. Good(Len(s))
    BY Zenon, <1>3, <2>1 DEF S
  <2> QED
    BY Zenon, <2>2
-----------------------------------------------------------------------------
(* Cutting sequences.                                                      *)

(* A sequence cut after its first n elements.                              *)
LEMMA Cut ==
  ASSUME NEW B, NEW s \in Seq(B), NEW n \in 0..Len(s)
  PROVE  /\ First(s, n) \in Seq(B) /\ Len(First(s, n)) = n
         /\ \A i \in 1..n : First(s, n)[i] = s[i]
         /\ Rest(s, n) \in Seq(B) /\ Len(Rest(s, n)) = Len(s) - n
         /\ \A i \in 1..(Len(s) - n) : Rest(s, n)[i] = s[n + i]
BY DEF First, Rest

(* The two parts are the whole.                                            *)
LEMMA CutAndJoin ==
  ASSUME NEW B, NEW s \in Seq(B), NEW n \in 0..Len(s)
  PROVE  First(s, n) \o Rest(s, n) = s
<1> DEFINE a == First(s, n)
           b == Rest(s, n)
<1>1. /\ a \in Seq(B) /\ Len(a) = n /\ \A i \in 1..n : a[i] = s[i]
      /\ b \in Seq(B) /\ Len(b) = Len(s) - n
      /\ \A i \in 1..(Len(s) - n) : b[i] = s[n + i]
  BY Cut
<1> HIDE DEF a, b
<1>2. a \o b \in Seq(B) /\ Len(a \o b) = Len(s)
  BY <1>1
<1>3. ASSUME NEW i \in 1..Len(s) PROVE (a \o b)[i] = s[i]
  <2>1. CASE i <= n
    <3>1. i \in 1..n /\ i \in 1..(Len(a) + Len(b)) /\ i <= Len(a)
      BY <1>1, <2>1
    <3>2. (a \o b)[i] = a[i]
      BY <1>1, <3>1, ConcatProperties
    <3> QED
      BY <1>1, <3>1, <3>2, Zenon
  <2>2. CASE i > n
    <3> DEFINE j == i - n
    <3>1. /\ j \in 1..(Len(s) - n) /\ i \in 1..(Len(a) + Len(b)) /\ ~(i <= Len(a))
          /\ i - Len(a) = j /\ n + j = i
      BY <1>1, <2>2
    <3> HIDE DEF j
    <3>2. (a \o b)[i] = b[j]
      BY <1>1, <3>1, ConcatProperties
    <3> QED
      BY <1>1, <3>1, <3>2, Zenon
  <2>3. i <= n \/ i > n
    OBVIOUS
  <2> QED
    BY <2>1, <2>2, <2>3, Zenon
<1>4. a \o b = s
  BY <1>2, <1>3, SeqEqual
<1> QED
  BY <1>4 DEF a, b

(* Cutting a concatenation within its first part.                          *)
LEMMA CutOfJoin ==
  ASSUME NEW B, NEW s \in Seq(B), NEW t \in Seq(B), NEW n \in 0..Len(s)
  PROVE  First(s \o t, n) = First(s, n) /\ Rest(s \o t, n) = Rest(s, n) \o t
<1> DEFINE u == s \o t
           a == First(s, n)
           b == Rest(s, n)
           c == First(u, n)
           d == Rest(u, n)
<1>1. /\ u \in Seq(B) /\ Len(u) = Len(s) + Len(t) /\ n \in 0..Len(u)
      /\ \A i \in 1..Len(s) : u[i] = s[i]
      /\ \A i \in 1..Len(t) : u[Len(s) + i] = t[i]
  OBVIOUS
<1>2. /\ a \in Seq(B) /\ Len(a) = n /\ \A i \in 1..n : a[i] = s[i]
      /\ b \in Seq(B) /\ Len(b) = Len(s) - n
      /\ \A i \in 1..(Len(s) - n) : b[i] = s[n + i]
  BY Cut
<1> HIDE DEF u, a, b
<1>3. /\ c \in Seq(B) /\ Len(c) = n /\ \A i \in 1..n : c[i] = u[i]
      /\ d \in Seq(B) /\ Len(d) = Len(u) - n
      /\ \A i \in 1..(Len(u) - n) : d[i] = u[n + i]
  BY <1>1, Cut
<1> HIDE DEF c, d
<1>4. c = a
  <2>1. \A i \in 1..n : i \in 1..Len(s)
    OBVIOUS
  <2>2. \A i \in 1..n : c[i] = a[i]
    BY <1>1, <1>2, <1>3, <2>1, Zenon
  <2> QED
    BY <1>2, <1>3, <2>2, SeqEqual
<1>5. d = b \o t
  <2>1. b \o t \in Seq(B) /\ Len(b \o t) = Len(b) + Len(t)
    BY <1>2, ConcatProperties
  <2>2. Len(b) + Len(t) = Len(d)
    <3>1. Len(s) \in Nat /\ Len(t) \in Nat
      OBVIOUS
    <3> QED
      BY <1>1, <1>2, <1>3, <3>1
  <2>3. ASSUME NEW i \in 1..Len(d) PROVE d[i] = (b \o t)[i]
    <3>1. CASE i <= Len(b)
      <4>1. /\ i \in 1..(Len(s) - n) /\ i \in 1..(Len(u) - n) /\ n + i \in 1..Len(s)
            /\ i \in 1..(Len(b) + Len(t))
        BY <1>1, <1>2, <1>3, <2>2, <3>1
      <4>2. d[i] = u[n + i] /\ u[n + i] = s[n + i] /\ b[i] = s[n + i]
        BY <1>1, <1>2, <1>3, <4>1, Zenon
      <4>3. (b \o t)[i] = b[i]
        BY <1>2, <3>1, <4>1, ConcatProperties
      <4> QED
        BY <4>2, <4>3, Zenon
    <3>2. CASE i > Len(b)
      <4> DEFINE j == i - Len(b)
      <4>1. /\ j \in 1..Len(t) /\ n + i = Len(s) + j /\ i \in 1..(Len(u) - n)
            /\ i \in 1..(Len(b) + Len(t)) /\ i - Len(b) = j /\ ~(i <= Len(b))
        BY <1>1, <1>2, <1>3, <2>2, <3>2
      <4> HIDE DEF j
      <4>2. d[i] = u[n + i] /\ u[Len(s) + j] = t[j]
        BY <1>1, <1>3, <4>1, Zenon
      <4>3. b \in Seq(B) /\ i \in 1..(Len(b) + Len(t)) /\ ~(i <= Len(b)) /\ i - Len(b) = j
        BY <1>2, <4>1
      <4>4. (b \o t)[i] = t[j]
        BY <4>3, ConcatProperties
      <4> QED
        BY <4>1, <4>2, <4>4, Zenon
    <3>3. i <= Len(b) \/ i > Len(b)
      BY <1>2, <1>3
    <3> QED
      BY <3>1, <3>2, <3>3, Zenon
  <2> QED
    BY <1>3, <2>1, <2>2, <2>3, SeqEqual
<1> QED
  BY <1>4, <1>5 DEF u, a, b, c, d

(* Cutting between the parts of a concatenation.                           *)
LEMMA CutBetween ==
  ASSUME NEW B, NEW s \in Seq(B), NEW t \in Seq(B)
  PROVE  First(s \o t, Len(s)) = s /\ Rest(s \o t, Len(s)) = t
<1>1. Len(s) \in 0..Len(s) /\ Len(s) \in Nat
  OBVIOUS
<1>2. First(s, Len(s)) = s /\ Rest(s, Len(s)) = <<>> /\ <<>> \o t = t
  BY DEF First, Rest
<1>3. /\ First(s \o t, Len(s)) = First(s, Len(s))
      /\ Rest(s \o t, Len(s)) = Rest(s, Len(s)) \o t
  BY <1>1, CutOfJoin
<1> QED
  BY <1>2, <1>3, Zenon

(* Cutting twice.                                                          *)
LEMMA CutTwice ==
  ASSUME NEW B, NEW s \in Seq(B), NEW n \in Nat, NEW k \in Nat, n + k <= Len(s)
  PROVE  /\ First(Rest(s, n), k) = Rest(First(s, n + k), n)
         /\ Rest(Rest(s, n), k) = Rest(s, n + k)
<1>1. n \in 0..Len(s) /\ n + k \in 0..Len(s) /\ Len(s) \in Nat
  OBVIOUS
<1> DEFINE a == Rest(s, n)
           b == First(s, n + k)
           c == Rest(s, n + k)
<1>2. /\ a \in Seq(B) /\ Len(a) = Len(s) - n
      /\ \A i \in 1..(Len(s) - n) : a[i] = s[n + i]
  BY <1>1, Cut
<1>3. /\ b \in Seq(B) /\ Len(b) = n + k /\ \A i \in 1..(n + k) : b[i] = s[i]
      /\ c \in Seq(B) /\ Len(c) = Len(s) - (n + k)
      /\ \A i \in 1..(Len(s) - (n + k)) : c[i] = s[n + k + i]
  BY <1>1, Cut
<1> HIDE DEF a, b, c
<1> DEFINE d == First(a, k)
           e == Rest(a, k)
           f == Rest(b, n)
<1>4. k \in 0..Len(a) /\ n \in 0..Len(b)
  BY <1>1, <1>2, <1>3
<1>5. /\ d \in Seq(B) /\ Len(d) = k /\ \A i \in 1..k : d[i] = a[i]
      /\ e \in Seq(B) /\ Len(e) = Len(a) - k
      /\ \A i \in 1..(Len(a) - k) : e[i] = a[k + i]
  BY <1>2, <1>4, Cut
<1>6. /\ f \in Seq(B) /\ Len(f) = Len(b) - n
      /\ \A i \in 1..(Len(b) - n) : f[i] = b[n + i]
  BY <1>3, <1>4, Cut
<1> HIDE DEF d, e, f
<1>7. d = f
  <2>1. Len(d) = Len(f)
    BY <1>3, <1>5, <1>6
  <2>2. ASSUME NEW i \in 1..Len(d) PROVE d[i] = f[i]
    <3>1. /\ i \in 1..k /\ i \in 1..(Len(s) - n) /\ i \in 1..(Len(b) - n)
          /\ n + i \in 1..(n + k)
      BY <1>1, <1>3, <1>5
    <3>2. d[i] = a[i] /\ a[i] = s[n + i]
      BY <1>2, <1>5, <3>1, Zenon
    <3>3. f[i] = b[n + i] /\ b[n + i] = s[n + i]
      BY <1>3, <1>6, <3>1, Zenon
    <3> QED
      BY <3>2, <3>3, Zenon
  <2> QED
    BY <1>5, <1>6, <2>1, <2>2, SeqEqual
<1>8. e = c
  <2>1. Len(e) = Len(c)
    BY <1>1, <1>2, <1>3, <1>5
  <2>2. ASSUME NEW i \in 1..Len(e) PROVE e[i] = c[i]
    <3>1. /\ i \in 1..(Len(a) - k) /\ k + i \in 1..(Len(s) - n)
          /\ n + (k + i) = n + k + i /\ i \in 1..(Len(s) - (n + k))
      BY <1>1, <1>2, <1>3, <1>5
    <3>2. e[i] = a[k + i] /\ a[k + i] = s[n + (k + i)]
      BY <1>2, <1>5, <3>1, Zenon
    <3>3. c[i] = s[n + k + i]
      BY <1>3, <3>1, Zenon
    <3> QED
      BY <3>1, <3>2, <3>3, Zenon
  <2> QED
    BY <1>3, <1>5, <2>1, <2>2, SeqEqual
<1> QED
  BY <1>7, <1>8 DEF a, b, c, d, e, f

-----------------------------------------------------------------------------
(* Packages.                                                               *)

(* The bytes of a package.                                                 *)
LEMMA PackageBytes ==
  ASSUME NEW m \in Message
  PROVE  /\ BodyLength[m] \in Nat \ {0} /\ HeaderSize \in Nat \ {0}
         /\ Header(BodyLength[m]) \in Seq(Byte) /\ Len(Header(BodyLength[m])) = HeaderSize
         /\ Body(m) \in Seq(Byte) /\ Len(Body(m)) = BodyLength[m]
         /\ Bytes(m) \in Seq(Byte) /\ Len(Bytes(m)) = HeaderSize + BodyLength[m]
<1>1. BodyLength[m] \in Nat \ {0} /\ HeaderSize \in Nat \ {0}
  BY StreamAssumption
<1> DEFINE h == Header(BodyLength[m])
           b == Body(m)
           U == {h[i] : i \in 1..HeaderSize} \union {b[i] : i \in 1..BodyLength[m]}
<1>2. h \in [1..HeaderSize -> U] /\ b \in [1..BodyLength[m] -> U]
  BY DEF Header, Body
<1>3. h \in Seq(U) /\ Len(h) = HeaderSize /\ b \in Seq(U) /\ Len(b) = BodyLength[m]
  <2> HIDE DEF U, h, b
  <2> QED
    BY <1>1, <1>2
<1> HIDE DEF h, b
<1>4. /\ h \o b \in Seq(U) /\ Len(h \o b) = HeaderSize + BodyLength[m]
      /\ \A i \in 1..HeaderSize : (h \o b)[i] = h[i]
      /\ \A i \in 1..BodyLength[m] : (h \o b)[HeaderSize + i] = b[i]
  <2> HIDE DEF U
  <2> QED
    BY <1>1, <1>3
<1>5. Bytes(m) = h \o b
  BY DEF Bytes, h, b
<1>6. DOMAIN (h \o b) = 1..(HeaderSize + BodyLength[m])
  <2> HIDE DEF U
  <2> QED
    BY <1>4
<1>7. \A i \in 1..(HeaderSize + BodyLength[m]) : (h \o b)[i] \in Byte
  <2> DEFINE hb == h \o b
  <2>1. \A i \in DOMAIN hb : hb[i] \in Range(hb)
    BY DEF Range
  <2>2. Range(hb) \in {Range(Bytes(n)) : n \in Message}
    BY <1>5
  <2>3. Range(hb) \subseteq Byte
    BY <2>2 DEF Byte
  <2> QED
    BY <1>6, <2>1, <2>3
<1>8. /\ \A i \in 1..HeaderSize : h[i] \in Byte
      /\ \A i \in 1..BodyLength[m] : b[i] \in Byte
  <2>1. /\ \A i \in 1..HeaderSize : i \in 1..(HeaderSize + BodyLength[m])
        /\ \A i \in 1..BodyLength[m] : HeaderSize + i \in 1..(HeaderSize + BodyLength[m])
    BY <1>1
  <2> QED
    BY <1>4, <1>7, <2>1, Zenon
<1>9. U \subseteq Byte
  BY <1>8
<1> HIDE DEF U
<1>10. h \in Seq(Byte) /\ b \in Seq(Byte) /\ h \o b \in Seq(Byte)
  BY <1>3, <1>4, <1>9, SeqMonotonic
<1> QED
  BY <1>1, <1>3, <1>4, <1>5, <1>10 DEF h, b

(* A header tells the length it was made for.                              *)
LEMMA HeaderTellsLength ==
  ASSUME NEW len, NEW other, Header(len) = Header(other)
  PROVE  len = other
<1>1. 1 \in 1..HeaderSize
  BY StreamAssumption
<1>2. Header(len)[1] = <<"header", len, 1>> /\ Header(other)[1] = <<"header", other, 1>>
  BY <1>1 DEF Header
<1>3. <<"header", len, 1>> = <<"header", other, 1>>
  BY <1>2
<1> QED
  BY <1>3

(* Cutting nothing off.                                                    *)
LEMMA CutNothing ==
  ASSUME NEW B, NEW s \in Seq(B)
  PROVE  First(s, 0) = <<>> /\ Rest(s, 0) = s
BY DEF First, Rest

(* Cutting within a cut.                                                   *)
LEMMA CutInside ==
  ASSUME NEW B, NEW s \in Seq(B), NEW k \in 0..Len(s), NEW n \in 0..k
  PROVE  First(First(s, k), n) = First(s, n)
<1>1. /\ First(s, k) \in Seq(B) /\ Rest(s, k) \in Seq(B)
      /\ Len(First(s, k)) = k /\ First(s, k) \o Rest(s, k) = s
  BY Cut, CutAndJoin
<1>2. n \in 0..Len(First(s, k))
  BY <1>1
<1>3. First(First(s, k) \o Rest(s, k), n) = First(First(s, k), n)
  BY <1>1, <1>2, CutOfJoin
<1> QED
  BY <1>1, <1>3

-----------------------------------------------------------------------------
(* The packages accepted and not yet handled.                              *)

Pending(acc, n) == [i \in 1..(Len(acc) - n) |-> Bytes(acc[n + i])]
OnTheWay(acc, n) == FlattenSeq(Pending(acc, n))

(* There is one package's bytes for each of them.                          *)
LEMMA PendingSeq ==
  ASSUME NEW acc \in Seq(Message), NEW n \in 0..Len(acc)
  PROVE  Pending(acc, n) \in Seq(Seq(Byte)) /\ Len(Pending(acc, n)) = Len(acc) - n
<1>1. \A i \in 1..(Len(acc) - n) : acc[n + i] \in Message
  OBVIOUS
<1>2. \A i \in 1..(Len(acc) - n) : Bytes(acc[n + i]) \in Seq(Byte)
  BY <1>1, PackageBytes
<1>3. Len(acc) - n \in Nat
  OBVIOUS
<1> QED
  BY <1>2, <1>3 DEF Pending

(* An accepted package is the last of those on their way.                  *)
LEMMA OnTheWayAccept ==
  ASSUME NEW acc \in Seq(Message), NEW n \in 0..Len(acc), NEW m \in Message
  PROVE  OnTheWay(Append(acc, m), n) = OnTheWay(acc, n) \o Bytes(m)
<1> DEFINE new == Append(acc, m)
           p == Pending(acc, n)
           q == Pending(new, n)
           r == Append(p, Bytes(m))
<1>1. /\ new \in Seq(Message) /\ Len(new) = Len(acc) + 1 /\ n \in 0..Len(new)
      /\ new[Len(acc) + 1] = m /\ \A i \in 1..Len(acc) : new[i] = acc[i]
  OBVIOUS
<1> HIDE DEF new
<1>2. p \in Seq(Seq(Byte)) /\ Len(p) = Len(acc) - n
  BY PendingSeq
<1>3. q \in Seq(Seq(Byte)) /\ Len(q) = Len(acc) - n + 1
  <2>1. q \in Seq(Seq(Byte)) /\ Len(q) = Len(new) - n
    BY <1>1, PendingSeq
  <2> QED
    BY <1>1, <2>1
<1>4. Bytes(m) \in Seq(Byte)
  BY PackageBytes
<1>5. /\ \A i \in 1..(Len(acc) - n) : p[i] = Bytes(acc[n + i])
      /\ \A i \in 1..(Len(new) - n) : q[i] = Bytes(new[n + i])
  BY DEF Pending
<1> HIDE DEF p, q
<1>6. /\ r \in Seq(Seq(Byte)) /\ Len(r) = Len(p) + 1 /\ r[Len(p) + 1] = Bytes(m)
      /\ \A i \in 1..Len(p) : r[i] = p[i]
  BY <1>2, <1>4
<1> HIDE DEF r
<1>7. ASSUME NEW i \in 1..Len(q) PROVE q[i] = r[i]
  <2>1. i \in 1..(Len(new) - n)
    BY <1>1, <1>3
  <2>2. CASE i = Len(p) + 1
    <3>1. n + i = Len(acc) + 1
      BY <1>2, <2>2
    <3> QED
      BY <1>1, <1>5, <1>6, <2>1, <2>2, <3>1, Zenon
  <2>3. CASE i # Len(p) + 1
    <3>1. i \in 1..Len(p) /\ i \in 1..(Len(acc) - n) /\ n + i \in 1..Len(acc)
      BY <1>2, <1>3, <2>3
    <3> QED
      BY <1>1, <1>5, <1>6, <2>1, <3>1, Zenon
  <2> QED
    BY <2>2, <2>3
<1>8. q = r
  <2>1. Len(q) = Len(r)
    BY <1>2, <1>3, <1>6
  <2> QED
    BY <1>3, <1>6, <1>7, <2>1, SeqEqual, Zenon
<1>9. FlattenSeq(r) = FlattenSeq(p) \o Bytes(m)
  BY <1>2, <1>4, FlattenAppend DEF r
<1> QED
  BY <1>8, <1>9 DEF OnTheWay, new, p, q

(* The first of them is the one to be handled next.                        *)
LEMMA OnTheWayFirst ==
  ASSUME NEW acc \in Seq(Message), NEW n \in Nat, n < Len(acc)
  PROVE  OnTheWay(acc, n) = Bytes(acc[n + 1]) \o OnTheWay(acc, n + 1)
<1> DEFINE p == Pending(acc, n)
           q == Pending(acc, n + 1)
           x == Bytes(acc[n + 1])
           r == <<x>> \o q
<1>1. Len(acc) \in Nat /\ n \in 0..Len(acc) /\ n + 1 \in 0..Len(acc)
  OBVIOUS
<1>2. p \in Seq(Seq(Byte)) /\ Len(p) = Len(acc) - n
  BY <1>1, PendingSeq
<1>3. q \in Seq(Seq(Byte)) /\ Len(q) = Len(acc) - (n + 1)
  BY <1>1, PendingSeq
<1>4. x \in Seq(Byte)
  <2>1. acc[n + 1] \in Message
    BY <1>1
  <2> QED
    BY <2>1, PackageBytes
<1>5. /\ \A i \in 1..(Len(acc) - n) : p[i] = Bytes(acc[n + i])
      /\ \A i \in 1..(Len(acc) - (n + 1)) : q[i] = Bytes(acc[n + 1 + i])
  BY DEF Pending
<1> HIDE DEF p, q
<1>6. /\ r \in Seq(Seq(Byte)) /\ Len(r) = 1 + Len(q) /\ r[1] = x
      /\ \A i \in 1..Len(q) : r[1 + i] = q[i]
  <2> HIDE DEF x
  <2> QED
    BY <1>3, <1>4
<1> HIDE DEF r
<1>7. ASSUME NEW i \in 1..Len(p) PROVE p[i] = r[i]
  <2>1. i \in 1..(Len(acc) - n)
    BY <1>2
  <2>2. CASE i = 1
    BY <1>5, <1>6, <2>1, <2>2, Zenon
  <2>3. CASE i # 1
    <3> DEFINE j == i - 1
    <3>1. /\ j \in 1..Len(q) /\ j \in 1..(Len(acc) - (n + 1))
          /\ 1 + j = i /\ n + 1 + j = n + i
      BY <1>1, <1>2, <1>3, <2>3
    <3> HIDE DEF j
    <3>2. p[i] = Bytes(acc[n + i]) /\ q[j] = Bytes(acc[n + 1 + j]) /\ r[1 + j] = q[j]
      BY <1>5, <1>6, <2>1, <3>1, Zenon
    <3> QED
      BY <3>1, <3>2, Zenon
  <2> QED
    BY <2>2, <2>3
<1>8. p = r
  <2>1. Len(p) = Len(r)
    BY <1>1, <1>2, <1>3, <1>6
  <2> QED
    BY <1>2, <1>6, <1>7, <2>1, SeqEqual
<1>9. FlattenSeq(r) = x \o FlattenSeq(q)
  <2> HIDE DEF x
  <2> QED
    BY <1>3, <1>4, FlattenCons DEF r
<1> QED
  BY <1>8, <1>9 DEF OnTheWay, p, q

(* When all are handled there are none.                                    *)
LEMMA OnTheWayBytes ==
  ASSUME NEW acc \in Seq(Message), NEW n \in 0..Len(acc)
  PROVE  /\ OnTheWay(acc, n) \in Seq(Byte)
         /\ n = Len(acc) => OnTheWay(acc, n) = <<>>
<1>1. Pending(acc, n) \in Seq(Seq(Byte)) /\ Len(Pending(acc, n)) = Len(acc) - n
  BY PendingSeq
<1>2. <<>> \in Seq(Byte)
  OBVIOUS
<1>3. OnTheWay(acc, n) \in Seq(Byte)
  BY <1>1, <1>2, FlattenAppend DEF OnTheWay
<1>4. n = Len(acc) => Pending(acc, n) = <<>>
  BY <1>1
<1> QED
  BY <1>3, <1>4, FlattenEmpty DEF OnTheWay

-----------------------------------------------------------------------------
(* The line from the receiver's cache to the part of the sender's cache    *)
(* that the socket has not taken.                                          *)

Line(r, s, w, k) == r \o s \o Rest(w, k)

(* The line is at least as long as the part that has arrived.              *)
LEMMA LineBytes ==
  ASSUME NEW r \in Seq(Byte), NEW s \in Seq(Byte), NEW w \in Seq(Byte), NEW k \in 0..Len(w)
  PROVE  Line(r, s, w, k) \in Seq(Byte) /\ Len(Line(r, s, w, k)) >= Len(r)
<1>1. Rest(w, k) \in Seq(Byte)
  BY Cut
<1> QED
  BY <1>1 DEF Line

(* Bytes joined are bytes.                                                 *)
LEMMA JoinBytes ==
  ASSUME NEW a \in Seq(Byte), NEW b \in Seq(Byte)
  PROVE  a \o b \in Seq(Byte)
OBVIOUS

(* What is written to the sender's cache is written to the line's end.     *)
LongerLine(r, s, w, k, b) == Line(r, s, w \o b, k) = Line(r, s, w, k) \o b

(* What is written to the sender's cache is added at the line's end.       *)
LEMMA LineWrite ==
  ASSUME NEW r \in Seq(Byte), NEW s \in Seq(Byte), NEW w \in Seq(Byte),
         NEW k \in 0..Len(w), NEW b \in Seq(Byte)
  PROVE  LongerLine(r, s, w, k, b)
<1> DEFINE z == Rest(w, k)
<1>1. Rest(w \o b, k) = z \o b /\ z \in Seq(Byte)
  BY Cut, CutOfJoin
<1> HIDE DEF z
<1>2. r \o s \in Seq(Byte)
  BY JoinBytes
<1>3. Associate(r \o s, z, b)
  BY <1>1, <1>2, JoinAssociates
<1> QED
  BY <1>1, <1>3 DEF LongerLine, Associate, Line, z

(* What the socket takes stays on the line.                                *)
LEMMA LineSend ==
  ASSUME NEW r \in Seq(Byte), NEW s \in Seq(Byte), NEW w \in Seq(Byte),
         NEW k \in Nat, NEW n \in Nat, k + n <= Len(w)
  PROVE  Line(r, s \o First(Rest(w, k), n), w, k + n) = Line(r, s, w, k)
<1>1. k \in 0..Len(w) /\ n \in 0..(Len(w) - k)
  OBVIOUS
<1> DEFINE u == Rest(w, k)
<1>2. u \in Seq(Byte) /\ Len(u) = Len(w) - k /\ Rest(w, k + n) = Rest(u, n)
  BY <1>1, Cut, CutTwice
<1> HIDE DEF u
<1> DEFINE a == First(u, n)
           b == Rest(u, n)
<1>3. a \in Seq(Byte) /\ b \in Seq(Byte) /\ a \o b = u
  BY <1>1, <1>2, Cut, CutAndJoin
<1> HIDE DEF a, b
<1>4. r \o s \in Seq(Byte)
  BY JoinBytes
<1>5. Associate(r, s, a) /\ Associate(r \o s, a, b)
  BY <1>3, <1>4, JoinAssociates
<1> QED
  BY <1>2, <1>3, <1>5 DEF Associate, Line, a, b, u

(* Removing what the socket has taken leaves the line alone.               *)
LEMMA LineDiscard ==
  ASSUME NEW r, NEW s, NEW w \in Seq(Byte), NEW k \in 0..Len(w)
  PROVE  Line(r, s, Rest(w, k), 0) = Line(r, s, w, k)
BY Cut, CutNothing DEF Line

(* What is read from the socket stays on the line.                         *)
LEMMA LineRead ==
  ASSUME NEW r \in Seq(Byte), NEW s \in Seq(Byte), NEW w, NEW k, NEW n \in 0..Len(s)
  PROVE  Line(r \o First(s, n), Rest(s, n), w, k) = Line(r, s, w, k)
<1> DEFINE a == First(s, n)
           b == Rest(s, n)
<1>1. a \in Seq(Byte) /\ b \in Seq(Byte) /\ a \o b = s
  BY Cut, CutAndJoin
<1> HIDE DEF a, b
<1>2. Associate(r, a, b)
  BY <1>1, JoinAssociates
<1> QED
  BY <1>1, <1>2 DEF Associate, Line, a, b

(* The front of the line is the front of what has arrived.                 *)
LEMMA LineFront ==
  ASSUME NEW r \in Seq(Byte), NEW s \in Seq(Byte), NEW w \in Seq(Byte), NEW k \in 0..Len(w),
         NEW n \in 0..Len(r)
  PROVE  /\ First(Line(r, s, w, k), n) = First(r, n)
         /\ Rest(Line(r, s, w, k), n) = Line(Rest(r, n), s, w, k)
<1> DEFINE z == Rest(w, k)
           b == Rest(r, n)
<1>1. z \in Seq(Byte) /\ b \in Seq(Byte)
  BY Cut
<1> HIDE DEF z
<1>2. s \o z \in Seq(Byte)
  BY <1>1, JoinBytes
<1>3. /\ First(r \o (s \o z), n) = First(r, n)
      /\ Rest(r \o (s \o z), n) = b \o (s \o z)
  BY <1>2, CutOfJoin
<1> HIDE DEF b
<1>4. Associate(r, s, z) /\ Associate(b, s, z)
  BY <1>1, JoinAssociates
<1> QED
  BY <1>3, <1>4, Zenon DEF Associate, Line, z, b

-----------------------------------------------------------------------------
(* The invariant.                                                          *)

(* What the socket has taken of the bytes looked at.                       *)
Sent == out.looked - Len(out.rest)

BetweenWrites == out.at # "write" => out.looked = 0

(* The bytes write was given and has not taken are still in the cache,     *)
(* behind those it has taken.                                              *)
Outgoing ==
  /\ out.looked <= Len(wcache)
  /\ out.rest = First(Rest(wcache, Sent), Len(out.rest))

(* Between two reads the receiver keeps less than a package.               *)
NothingLeftOver ==
  ~unpacking /\ rcache # <<>> =>
    \E m \in Message : Len(rcache) < HeaderSize + BodyLength[m]

HandledFirst ==
  /\ Len(handled) <= Len(accepted)
  /\ handled = [i \in 1..Len(handled) |-> Body(accepted[i])]

OthersOnTheWay ==
  Line(rcache, socket, wcache, Sent) = OnTheWay(accepted, Len(handled))

Sound == Outgoing /\ NothingLeftOver /\ HandledFirst /\ OthersOnTheWay

Inv == TypeOK /\ BetweenWrites /\ (faults = {} => Sound)

-----------------------------------------------------------------------------
(* Types.                                                                  *)

(* The initial state.                                                      *)
LEMMA InitTypes == Init => TypeOK
<1> SUFFICES ASSUME Init PROVE TypeOK
  OBVIOUS
<1>1. 0 \in 0..WriteCapacity /\ 0 <= WriteCapacity /\ 0 <= SocketSize /\ 0 <= ReadCapacity
      /\ 0 \in 0..MaxWrites
  BY StreamAssumption
<1>2. <<>> \in Seq(Byte) /\ <<>> \in Seq(Message) /\ <<>> \in Seq(Seq(Byte)) /\ Len(<<>>) = 0
  OBVIOUS
<1>3. pc \in [Message -> {"write", "arm", "done"}] /\ writes \in [Message -> 0..MaxWrites]
  BY <1>1 DEF Init
<1>4. out \in [at : {"poll", "look", "size", "write", "rearm", "aborted"},
              looked : 0..WriteCapacity, rest : Seq(Byte)]
  BY <1>1, <1>2 DEF Init
<1>5. Len(out.rest) <= out.looked
  BY <1>2 DEF Init
<1> QED
  BY <1>1, <1>2, <1>3, <1>4, <1>5 DEF Init, TypeOK

(* The constants as numbers.                                               *)
LEMMA Sizes ==
  /\ HeaderSize \in Nat \ {0} /\ Block \in Nat \ {0}
  /\ WriteCapacity \in Nat \ {0} /\ ReadCapacity \in Nat \ {0}
  /\ SocketSize \in Nat \ {0} /\ MaxWrites \in Nat \ {0}
BY StreamAssumption

(* A write that is accepted leaves no more in a cache than it can hold.    *)
LEMMA AcceptedFits ==
  ASSUME NEW a \in Seq(Byte), NEW b \in Seq(Byte), NEW c, NEW capacity \in Nat,
         \/ Len(a) + Len(b) <= capacity /\ c = a \o b
         \/ c = <<>>
  PROVE  c \in Seq(Byte) /\ Len(c) <= capacity
<1>1. CASE c = <<>>
  BY <1>1
<1>2. CASE Len(a) + Len(b) <= capacity /\ c = a \o b
  <2>1. a \o b \in Seq(Byte) /\ Len(a \o b) = Len(a) + Len(b)
    BY ConcatProperties
  <2> QED
    BY <1>2, <2>1
<1> QED
  BY <1>1, <1>2

(* What a call of write_package leaves in the cache.                       *)
LEMMA WrittenCache ==
  ASSUME TypeOK, NEW m \in Message, Reject(m) \/ Orphan(m) \/ Accept(m)
  PROVE  /\ wcache' \in Seq(Byte) /\ Len(wcache') <= WriteCapacity
         /\ accepted' \in Seq(Message)
         /\ faults' \subseteq {"orphan", "wiped", "overrun", "dropped"}
         /\ faults \subseteq faults'
<1> DEFINE h == Header(BodyLength[m])
           b == Body(m)
<1>1. h \in Seq(Byte) /\ b \in Seq(Byte)
  BY PackageBytes
<1>2. /\ wcache \in Seq(Byte) /\ Len(wcache) <= WriteCapacity /\ accepted \in Seq(Message)
      /\ faults \subseteq {"orphan", "wiped", "overrun", "dropped"}
      /\ WriteCapacity \in Nat
  BY Sizes DEF TypeOK
<1>3. \A full : Wiped(full) \subseteq {"wiped"}
  BY DEF Wiped
<1>4. ASSUME NEW middle \in AfterHeader(m)
      PROVE  middle \in Seq(Byte) /\ Len(middle) <= WriteCapacity
  <2>1. \/ Len(wcache) + Len(h) <= WriteCapacity /\ middle = wcache \o h
        \/ middle = <<>>
    BY <1>4 DEF AfterHeader, WriteCache!Accepted
  <2> HIDE DEF h
  <2> QED
    BY <1>1, <1>2, <2>1, AcceptedFits
<1>5. CASE Reject(m)
  BY <1>2, <1>5 DEF Reject, WriteCache!Refused
<1>6. CASE Orphan(m)
  <2>1. PICK middle \in AfterHeader(m) : wcache' = middle
    BY <1>6 DEF Orphan, WriteCache!Refused
  <2>2. /\ accepted' = accepted
        /\ faults' = faults \union {"orphan"} \union Wiped(wcache \o Header(BodyLength[m]))
    BY <1>6 DEF Orphan
  <2> QED
    BY <1>2, <1>3, <1>4, <2>1, <2>2
<1>7. CASE Accept(m)
  <2>1. PICK middle \in AfterHeader(m) :
          \/ Len(middle) + Len(b) <= WriteCapacity /\ wcache' = middle \o b
          \/ wcache' = <<>>
    BY <1>7 DEF Accept, WriteCache!Accepted
  <2>2. /\ accepted' = Append(accepted, m)
        /\ faults' = faults \union Wiped(wcache \o Bytes(m))
    BY <1>7 DEF Accept
  <2> HIDE DEF b
  <2>3. middle \in Seq(Byte)
    BY <1>4
  <2>4. wcache' \in Seq(Byte) /\ Len(wcache') <= WriteCapacity
    BY <1>1, <1>2, <2>1, <2>3, AcceptedFits
  <2>5. accepted' \in Seq(Message)
    BY <1>2, <2>2
  <2>6. /\ faults' \subseteq {"orphan", "wiped", "overrun", "dropped"}
        /\ faults \subseteq faults'
    BY <1>2, <1>3, <2>2
  <2> QED
    BY <2>4, <2>5, <2>6
<1> QED
  BY <1>5, <1>6, <1>7

(* A step of a writing thread.                                             *)
LEMMA ThreadTypes ==
  ASSUME TypeOK, NEW m \in Message, Thread(m)
  PROVE  TypeOK' /\ faults \subseteq faults'
<1>1. CASE WritePackage(m)
  <2>1. /\ wcache' \in Seq(Byte) /\ Len(wcache') <= WriteCapacity
        /\ accepted' \in Seq(Message)
        /\ faults' \subseteq {"orphan", "wiped", "overrun", "dropped"}
        /\ faults \subseteq faults'
    BY <1>1, WrittenCache DEF WritePackage
  <2>2. /\ pc' = [pc EXCEPT ![m] = IF side = "client" THEN "arm" ELSE "done"]
        /\ writes' = [writes EXCEPT ![m] = @ + 1]
        /\ writes[m] < MaxWrites
        /\ UNCHANGED <<side, armed, out, socket, rcache, unpacking, handled>>
    BY <1>1 DEF WritePackage, CallWritePackage, receiverVars
  <2>3. pc' \in [Message -> {"write", "arm", "done"}]
    BY <2>2 DEF TypeOK
  <2>4. writes' \in [Message -> 0..MaxWrites]
    BY <2>2, Sizes DEF TypeOK
  <2> QED
    BY <2>1, <2>2, <2>3, <2>4 DEF TypeOK
<1>2. CASE GoRound(m) \/ Arm(m)
  <2>1. /\ pc' \in [Message -> {"write", "arm", "done"}]
        /\ armed' \in BOOLEAN
        /\ UNCHANGED <<side, writes, accepted, wcache, out, socket>>
        /\ UNCHANGED <<rcache, unpacking, handled, faults>>
    BY <1>2 DEF GoRound, Arm, TypeOK, receiverVars
  <2> QED
    BY <2>1 DEF TypeOK
<1> QED
  BY <1>1, <1>2 DEF Thread

(* What have_a_look shows.                                                 *)
LEMMA LookedTypes ==
  ASSUME TypeOK, NEW n \in 0..Len(wcache), Looked(n)
  PROVE  /\ out' \in [at : {"poll", "look", "size", "write", "rearm", "aborted"},
                      looked : 0..WriteCapacity, rest : Seq(Byte)]
         /\ out'.looked = n /\ out'.rest = First(wcache, n) /\ Len(out'.rest) = n
         /\ out'.at = "write"
<1>1. wcache \in Seq(Byte) /\ Len(wcache) <= WriteCapacity /\ WriteCapacity \in Nat
  BY Sizes DEF TypeOK
<1>2. First(wcache, n) \in Seq(Byte) /\ Len(First(wcache, n)) = n
  BY <1>1, Cut
<1>3. n \in 0..WriteCapacity
  BY <1>1
<1>4. out' = [at |-> "write", looked |-> n, rest |-> First(wcache, n)]
  BY DEF Looked
<1> QED
  BY <1>2, <1>3, <1>4

(* A step of write_socket.                                                 *)
LEMMA WriteSocketTypes ==
  ASSUME TypeOK, WriteSocket
  PROVE  TypeOK' /\ faults \subseteq faults'
<1> USE DEF Sending, receiverVars
<1>1. /\ wcache \in Seq(Byte) /\ Len(wcache) <= WriteCapacity
      /\ socket \in Seq(Byte) /\ Len(socket) <= SocketSize
      /\ out.rest \in Seq(Byte) /\ Len(out.rest) <= out.looked
      /\ out.looked \in 0..WriteCapacity
      /\ WriteCapacity \in Nat /\ SocketSize \in Nat /\ Block \in Nat \ {0}
  BY Sizes DEF TypeOK
<1>2. CASE Writable
  <2>1. /\ UNCHANGED <<wcache, armed, socket, faults, side, pc, writes, accepted>>
        /\ UNCHANGED <<rcache, unpacking, handled>>
        /\ out' = [out EXCEPT !.at = "look"]
    BY <1>2 DEF Writable
  <2> QED
    BY <2>1 DEF TypeOK
<1>3. CASE LookForBlock
  <2>1. /\ UNCHANGED <<wcache, armed, socket, faults, side, pc, writes, accepted>>
        /\ UNCHANGED <<rcache, unpacking, handled>>
    BY <1>3 DEF LookForBlock
  <2>2. CASE Block > Len(wcache)
    <3>1. out' = [out EXCEPT !.at = "size"]
      BY <1>3, <2>2 DEF LookForBlock
    <3> QED
      BY <2>1, <3>1 DEF TypeOK
  <2>3. CASE ~(Block > Len(wcache))
    <3>1. Looked(Block) /\ Block \in 0..Len(wcache)
      BY <1>1, <1>3, <2>3 DEF LookForBlock
    <3>2. /\ out' \in [at : {"poll", "look", "size", "write", "rearm", "aborted"},
                      looked : 0..WriteCapacity, rest : Seq(Byte)]
          /\ Len(out'.rest) <= out'.looked
      BY <1>1, <3>1, LookedTypes
    <3> QED
      BY <2>1, <3>2 DEF TypeOK
  <2> QED
    BY <2>2, <2>3
<1>4. CASE LookAtAll
  <2>1. /\ UNCHANGED <<wcache, armed, socket, side, pc, writes, accepted>>
        /\ UNCHANGED <<rcache, unpacking, handled>>
        /\ faults' \subseteq {"orphan", "wiped", "overrun", "dropped"}
        /\ faults \subseteq faults'
    BY <1>4 DEF LookAtAll, TypeOK
  <2>2. CASE Looked(Len(wcache))
    <3>1. Len(wcache) \in 0..Len(wcache) /\ Len(wcache) \in Nat
      BY <1>1
    <3>2. /\ out' \in [at : {"poll", "look", "size", "write", "rearm", "aborted"},
                      looked : 0..WriteCapacity, rest : Seq(Byte)]
          /\ Len(out'.rest) <= out'.looked
      BY <3>1, <2>2, LookedTypes
    <3> QED
      BY <2>1, <3>2 DEF TypeOK
  <2>3. CASE out' = [out EXCEPT !.at = "aborted"]
    BY <2>1, <2>3 DEF TypeOK
  <2> QED
    BY <1>4, <2>2, <2>3 DEF LookAtAll
<1>5. CASE Send
  <2> DEFINE n == AtMost(Len(out.rest), SocketSize - Len(socket))
  <2>1. /\ UNCHANGED <<wcache, armed, faults, side, pc, writes, accepted>>
        /\ UNCHANGED <<rcache, unpacking, handled>>
        /\ socket' = socket \o First(out.rest, n)
        /\ out' = [out EXCEPT !.rest = Rest(out.rest, n)]
        /\ n > 0
    BY <1>5 DEF Send
  <2>2. n \in 0..Len(out.rest) /\ n <= SocketSize - Len(socket)
    BY <1>1, <2>1 DEF AtMost
  <2> HIDE DEF n
  <2>3. /\ First(out.rest, n) \in Seq(Byte) /\ Len(First(out.rest, n)) = n
        /\ Rest(out.rest, n) \in Seq(Byte) /\ Len(Rest(out.rest, n)) = Len(out.rest) - n
    <3>1. out.rest \in Seq(Byte)
      BY <1>1
    <3> QED
      BY <2>2, <3>1, Cut
  <2>4. socket' \in Seq(Byte) /\ Len(socket') <= SocketSize
    <3>1. /\ socket \o First(out.rest, n) \in Seq(Byte)
          /\ Len(socket \o First(out.rest, n)) = Len(socket) + n
      BY <1>1, <2>3, ConcatProperties
    <3> QED
      BY <1>1, <2>1, <2>2, <3>1
  <2>5. /\ out' \in [at : {"poll", "look", "size", "write", "rearm", "aborted"},
                      looked : 0..WriteCapacity, rest : Seq(Byte)]
        /\ out'.rest = Rest(out.rest, n) /\ out'.looked = out.looked
    BY <2>1, <2>3 DEF TypeOK
  <2>6. Len(out'.rest) <= out'.looked
    BY <1>1, <2>2, <2>3, <2>5
  <2> QED
    BY <2>1, <2>4, <2>5, <2>6 DEF TypeOK
<1>6. CASE Discard
  <2> DEFINE n == AtMost(out.looked, Len(wcache))
  <2>1. /\ UNCHANGED <<armed, socket, faults, side, pc, writes, accepted>>
        /\ UNCHANGED <<rcache, unpacking, handled>>
        /\ wcache' = Rest(wcache, n)
        /\ out' = [at |-> IF out.looked = Block THEN "look" ELSE "rearm",
                   looked |-> 0, rest |-> <<>>]
    BY <1>6 DEF Discard, WriteReturns
  <2>2. n \in 0..Len(wcache)
    BY <1>1 DEF AtMost
  <2> HIDE DEF n
  <2>3. wcache' \in Seq(Byte) /\ Len(wcache') <= WriteCapacity
    <3>1. Rest(wcache, n) \in Seq(Byte) /\ Len(Rest(wcache, n)) = Len(wcache) - n
      BY <1>1, <2>2, Cut
    <3> QED
      BY <1>1, <2>1, <2>2, <3>1
  <2>4. <<>> \in Seq(Byte) /\ Len(<<>>) = 0 /\ 0 \in 0..WriteCapacity
    BY <1>1
  <2>5. /\ out' \in [at : {"poll", "look", "size", "write", "rearm", "aborted"},
                      looked : 0..WriteCapacity, rest : Seq(Byte)]
        /\ Len(out'.rest) <= out'.looked
    BY <2>1, <2>4
  <2> QED
    BY <2>1, <2>3, <2>5 DEF TypeOK
<1>7. CASE Rearm
  <2>1. /\ UNCHANGED <<wcache, socket, faults, side, pc, writes, accepted>>
        /\ UNCHANGED <<rcache, unpacking, handled>>
        /\ armed' \in BOOLEAN
        /\ out' = [out EXCEPT !.at = "poll"]
    BY <1>7 DEF Rearm
  <2> QED
    BY <2>1 DEF TypeOK
<1> QED
  BY <1>2, <1>3, <1>4, <1>5, <1>6, <1>7 DEF WriteSocket

(* What a read leaves in the cache.                                        *)
LEMMA ReadTypes ==
  ASSUME TypeOK, NEW n \in 1..Block, Read(n)
  PROVE  TypeOK' /\ faults \subseteq faults'
<1> DEFINE chunk == First(socket, n)
<1>1. /\ socket \in Seq(Byte) /\ Len(socket) <= SocketSize /\ SocketSize \in Nat
      /\ rcache \in Seq(Byte) /\ Len(rcache) <= ReadCapacity /\ ReadCapacity \in Nat
      /\ n \in 0..Len(socket)
  <2>1. n <= Len(socket) /\ n \in Nat
    BY Sizes DEF Read
  <2> QED
    BY <2>1, Sizes DEF TypeOK
<1>2. /\ chunk \in Seq(Byte)
      /\ Rest(socket, n) \in Seq(Byte) /\ Len(Rest(socket, n)) = Len(socket) - n
  BY <1>1, Cut
<1>3. /\ UNCHANGED <<side, pc, writes, accepted, wcache, armed, out, handled>>
      /\ socket' = Rest(socket, n) /\ unpacking' = TRUE
      /\ \/ rcache' = rcache
         \/ /\ Len(rcache) + Len(chunk) <= ReadCapacity
            /\ rcache' = rcache \o chunk
         \/ rcache' = <<>>
      /\ faults' \subseteq faults \union {"dropped"} /\ faults \subseteq faults'
  BY DEF Read, Receiving, senderVars, ReadCache!Refused, ReadCache!Accepted
<1> HIDE DEF chunk
<1>4. rcache' \in Seq(Byte) /\ Len(rcache') <= ReadCapacity
  <2>1. CASE rcache' = rcache
    BY <1>1, <2>1
  <2>2. CASE \/ Len(rcache) + Len(chunk) <= ReadCapacity /\ rcache' = rcache \o chunk
             \/ rcache' = <<>>
    BY <1>1, <1>2, <2>2, AcceptedFits
  <2> QED
    BY <1>3, <2>1, <2>2
<1>5. socket' \in Seq(Byte) /\ Len(socket') <= SocketSize
  BY <1>1, <1>2, <1>3
<1>6. faults' \subseteq {"orphan", "wiped", "overrun", "dropped"}
  BY <1>3 DEF TypeOK
<1> QED
  BY <1>3, <1>4, <1>5, <1>6 DEF TypeOK

(* A step of the read_package loop.                                        *)
LEMMA ReadPackageTypes ==
  ASSUME TypeOK, ReadPackage
  PROVE  TypeOK' /\ faults \subseteq faults'
<1>1. UNCHANGED <<side, pc, writes, accepted, wcache, armed, out, socket, faults>>
  BY DEF ReadPackage, Receiving, senderVars
<1>2. CASE unpacking' = FALSE /\ UNCHANGED <<rcache, handled>>
  BY <1>1, <1>2 DEF TypeOK
<1>3. ASSUME NEW len \in CompletePackage, HandOut(len), UNCHANGED unpacking
      PROVE  TypeOK'
  <2>1. /\ len \in Nat \ {0} /\ HeaderSize \in Nat \ {0}
        /\ rcache \in Seq(Byte) /\ Len(rcache) >= HeaderSize + len
        /\ Len(rcache) <= ReadCapacity /\ ReadCapacity \in Nat
    BY StreamAssumption, Sizes DEF CompletePackage, TypeOK
  <2>2. HeaderSize \in 0..Len(rcache) /\ HeaderSize + len \in 0..Len(rcache)
    BY <2>1
  <2> DEFINE a == Rest(rcache, HeaderSize)
             b == Rest(rcache, HeaderSize + len)
  <2>3. /\ a \in Seq(Byte) /\ Len(a) = Len(rcache) - HeaderSize
        /\ b \in Seq(Byte) /\ Len(b) = Len(rcache) - (HeaderSize + len)
    BY <2>1, <2>2, Cut
  <2>4. handled' = Append(handled, First(a, len)) /\ rcache' = b
    BY <1>3 DEF HandOut
  <2> HIDE DEF a, b
  <2>5. len \in 0..Len(a)
    BY <2>1, <2>3
  <2>6. First(a, len) \in Seq(Byte)
    BY <2>3, <2>5, Cut
  <2>7. handled' \in Seq(Seq(Byte))
    BY <2>4, <2>6 DEF TypeOK
  <2>8. rcache' \in Seq(Byte) /\ Len(rcache') <= ReadCapacity
    BY <2>1, <2>3, <2>4
  <2> QED
    BY <1>1, <1>3, <2>7, <2>8 DEF TypeOK
<1> QED
  BY <1>1, <1>2, <1>3 DEF ReadPackage

(* A step keeps the types, and a fault is never forgotten.                 *)
LEMMA StepTypes ==
  ASSUME TypeOK, [Next]_vars
  PROVE  TypeOK' /\ faults \subseteq faults'
<1>1. CASE UNCHANGED vars
  BY <1>1 DEF vars, senderVars, receiverVars, TypeOK
<1>2. CASE \E m \in Message : Thread(m)
  BY <1>2, ThreadTypes
<1>3. CASE WriteSocket
  BY <1>3, WriteSocketTypes
<1>4. CASE \E n \in 1..Block : Read(n)
  BY <1>4, ReadTypes
<1>5. CASE ReadPackage
  BY <1>5, ReadPackageTypes
<1> QED
  BY <1>1, <1>2, <1>3, <1>4, <1>5 DEF Next, ReadSocket

-----------------------------------------------------------------------------
(* What the invariant says of the bytes that have arrived.                 *)

(* Where the cuts are, as numbers and sequences.                           *)
LEMMA Places ==
  ASSUME TypeOK, Outgoing
  PROVE  /\ rcache \in Seq(Byte) /\ socket \in Seq(Byte) /\ wcache \in Seq(Byte)
         /\ out.rest \in Seq(Byte) /\ Len(out.rest) \in Nat /\ out.looked \in Nat
         /\ out.looked <= Len(wcache) /\ Len(out.rest) <= out.looked
         /\ Len(wcache) \in Nat /\ Len(rcache) \in Nat
         /\ Sent \in 0..Len(wcache) /\ Sent + Len(out.rest) <= Len(wcache)
<1>1. /\ rcache \in Seq(Byte) /\ socket \in Seq(Byte) /\ wcache \in Seq(Byte)
      /\ out.rest \in Seq(Byte) /\ out.looked \in Nat
      /\ out.looked <= Len(wcache) /\ Len(out.rest) <= out.looked
  BY Sizes DEF TypeOK, Outgoing
<1>2. Len(wcache) \in Nat /\ Len(rcache) \in Nat /\ Len(out.rest) \in Nat
  BY <1>1
<1> QED
  BY <1>1, <1>2 DEF Sent

(* Whatever has arrived begins with the package that is handled next.      *)
LEMMA NextPackage ==
  ASSUME TypeOK, Sound, rcache # <<>>
  PROVE  /\ Len(handled) \in Nat /\ Len(accepted) \in Nat /\ Len(handled) < Len(accepted)
         /\ accepted[Len(handled) + 1] \in Message
         /\ Line(rcache, socket, wcache, Sent)
              = Bytes(accepted[Len(handled) + 1]) \o OnTheWay(accepted, Len(handled) + 1)
         /\ OnTheWay(accepted, Len(handled) + 1) \in Seq(Byte)
<1>1. accepted \in Seq(Message) /\ handled \in Seq(Seq(Byte)) /\ Len(handled) <= Len(accepted)
  BY DEF TypeOK, Sound, HandledFirst
<1> DEFINE n == Len(handled)
           k == Len(accepted)
<1>2. n \in Nat /\ k \in Nat /\ n <= k
  BY <1>1
<1>3. n # k
  <2> SUFFICES ASSUME n = k PROVE FALSE
    OBVIOUS
  <2>1. n \in 0..k
    BY <1>2
  <2>2. Line(rcache, socket, wcache, Sent) = <<>>
    BY <1>1, <2>1, OnTheWayBytes DEF Sound, OthersOnTheWay
  <2>3. Len(Line(rcache, socket, wcache, Sent)) >= Len(rcache)
    BY Places, LineBytes DEF Sound
  <2>4. Len(rcache) \in Nat /\ Len(rcache) # 0 /\ Len(<<>>) = 0
    BY Places DEF Sound
  <2> QED
    BY <2>2, <2>3, <2>4
<1>4. n < k /\ n + 1 \in 0..k /\ n + 1 \in 1..k
  BY <1>2, <1>3
<1>5. accepted[n + 1] \in Message
  BY <1>1, <1>4
<1>6. OnTheWay(accepted, n) = Bytes(accepted[n + 1]) \o OnTheWay(accepted, n + 1)
  BY <1>1, <1>2, <1>4, OnTheWayFirst
<1>7. OnTheWay(accepted, n + 1) \in Seq(Byte)
  BY <1>1, <1>4, OnTheWayBytes
<1> QED
  BY <1>2, <1>4, <1>5, <1>6, <1>7 DEF Sound, OthersOnTheWay

(* The front of what has arrived is the front of that package.             *)
LEMMA NextBytes ==
  ASSUME TypeOK, Sound, rcache # <<>>,
         NEW n \in Nat, n <= Len(rcache), n <= Len(Bytes(accepted[Len(handled) + 1]))
  PROVE  First(rcache, n) = First(Bytes(accepted[Len(handled) + 1]), n)
<1> DEFINE b == Bytes(accepted[Len(handled) + 1])
           z == OnTheWay(accepted, Len(handled) + 1)
<1>1. Line(rcache, socket, wcache, Sent) = b \o z /\ z \in Seq(Byte)
  BY NextPackage
<1>2. b \in Seq(Byte)
  BY NextPackage, PackageBytes
<1> HIDE DEF b, z
<1>3. n \in 0..Len(b) /\ n \in 0..Len(rcache)
  BY <1>2, Places DEF Sound, b
<1>4. First(b \o z, n) = First(b, n)
  BY <1>1, <1>2, <1>3, CutOfJoin
<1>5. First(Line(rcache, socket, wcache, Sent), n) = First(rcache, n)
  BY <1>3, Places, LineFront DEF Sound
<1> QED
  BY <1>1, <1>4, <1>5 DEF b

(* A header's worth of bytes is that package's header.                     *)
LEMMA NextHeader ==
  ASSUME TypeOK, Sound, Len(rcache) >= HeaderSize
  PROVE  /\ rcache # <<>>
         /\ First(rcache, HeaderSize) = Header(BodyLength[accepted[Len(handled) + 1]])
<1>1. rcache # <<>>
  <2>1. Len(<<>>) = 0 /\ HeaderSize > 0
    BY Sizes
  <2> QED
    BY <2>1, Sizes
<1> DEFINE m == accepted[Len(handled) + 1]
           h == Header(BodyLength[m])
           b == Body(m)
<1>2. m \in Message
  BY <1>1, NextPackage
<1>3. /\ h \in Seq(Byte) /\ Len(h) = HeaderSize /\ b \in Seq(Byte)
      /\ Len(Bytes(m)) = HeaderSize + BodyLength[m] /\ BodyLength[m] \in Nat
  BY <1>2, PackageBytes
<1>4. HeaderSize <= Len(Bytes(m))
  BY <1>3, Sizes
<1>5. First(rcache, HeaderSize) = First(Bytes(m), HeaderSize)
  BY <1>1, <1>4, NextBytes, Sizes
<1>6. Bytes(m) = h \o b
  BY DEF Bytes
<1> HIDE DEF h, b, m
<1>7. First(h \o b, Len(h)) = h
  BY <1>3, CutBetween
<1> QED
  BY <1>1, <1>3, <1>5, <1>6, <1>7 DEF h, m

(* The only package that may be taken out is that one.                     *)
LEMMA CompleteIsNext ==
  ASSUME TypeOK, Sound, NEW len \in CompletePackage
  PROVE  /\ rcache # <<>>
         /\ len = BodyLength[accepted[Len(handled) + 1]]
         /\ accepted[Len(handled) + 1] \in Message
<1>1. /\ len \in Nat \ {0} /\ Len(rcache) >= HeaderSize + len
      /\ First(rcache, HeaderSize) = Header(len)
  BY StreamAssumption DEF CompletePackage
<1>2. Len(rcache) >= HeaderSize
  BY <1>1, Sizes, Places DEF Sound
<1>3. /\ rcache # <<>>
      /\ First(rcache, HeaderSize) = Header(BodyLength[accepted[Len(handled) + 1]])
  BY <1>2, NextHeader
<1>4. len = BodyLength[accepted[Len(handled) + 1]]
  BY <1>1, <1>3, HeaderTellsLength
<1> QED
  BY <1>3, <1>4, NextPackage

(* Where there is none, there is less than a package.                      *)
LEMMA IncompleteIsShort ==
  ASSUME TypeOK, Sound, CompletePackage = {}, rcache # <<>>
  PROVE  \E m \in Message : Len(rcache) < HeaderSize + BodyLength[m]
<1> DEFINE m == accepted[Len(handled) + 1]
<1>1. m \in Message
  BY NextPackage
<1>2. BodyLength[m] \in Nat \ {0}
  BY <1>1, StreamAssumption
<1> SUFFICES ASSUME ~(Len(rcache) < HeaderSize + BodyLength[m]) PROVE FALSE
  BY <1>1
<1>3. Len(rcache) \in Nat
  BY Places DEF Sound
<1>4. Len(rcache) >= HeaderSize + BodyLength[m] /\ Len(rcache) >= HeaderSize
  BY <1>2, <1>3, Sizes
<1>5. First(rcache, HeaderSize) = Header(BodyLength[m])
  BY <1>4, NextHeader
<1> HIDE DEF m
<1>6. BodyLength[m] \in CompletePackage
  BY <1>1, <1>4, <1>5 DEF CompletePackage
<1> QED
  BY <1>6

-----------------------------------------------------------------------------
(* What has not gone wrong stays right: one lemma for each kind of step.   *)

(* A step that touches none of it.                                         *)
LEMMA SoundUnchanged ==
  ASSUME Sound, UNCHANGED <<accepted, wcache, socket, rcache, handled>>,
         out'.looked = out.looked, out'.rest = out.rest,
         ~unpacking' => ~unpacking
  PROVE  Sound'
<1>1. Sent' = Sent
  BY DEF Sent
<1>2. Outgoing'
  BY <1>1 DEF Sound, Outgoing
<1>3. NothingLeftOver'
  BY DEF Sound, NothingLeftOver
<1>4. HandledFirst' /\ OthersOnTheWay'
  BY <1>1 DEF Sound, HandledFirst, OthersOnTheWay
<1> QED
  BY <1>2, <1>3, <1>4 DEF Sound

(* A package that is accepted whole.                                       *)
LEMMA AcceptSound ==
  ASSUME TypeOK, Sound, NEW m \in Message, Accept(m), faults' = {},
         UNCHANGED <<out, socket, rcache, unpacking, handled>>
  PROVE  Sound'
<1> DEFINE b == Bytes(m)
<1>1. wcache' = wcache \o b /\ accepted' = Append(accepted, m)
  BY DEF Accept, Wiped
<1>2. b \in Seq(Byte)
  BY PackageBytes
<1> HIDE DEF b
<1>3. /\ wcache \in Seq(Byte) /\ rcache \in Seq(Byte) /\ socket \in Seq(Byte)
      /\ Sent \in 0..Len(wcache) /\ Len(wcache) \in Nat
      /\ Len(out.rest) \in Nat /\ Sent + Len(out.rest) <= Len(wcache)
      /\ out.looked <= Len(wcache) /\ out.looked \in Nat
  BY Places DEF Sound
<1>4. Sent' = Sent
  BY DEF Sent
<1>5. Outgoing'
  <2> DEFINE u == Rest(wcache, Sent)
             n == Len(out.rest)
  <2>1. u \in Seq(Byte) /\ Len(u) = Len(wcache) - Sent /\ Rest(wcache \o b, Sent) = u \o b
    BY <1>2, <1>3, Cut, CutOfJoin
  <2>2. n \in 0..Len(u)
    BY <1>3, <2>1
  <2> HIDE DEF u, n
  <2>3. First(u \o b, n) = First(u, n)
    BY <1>2, <2>1, <2>2, CutOfJoin
  <2>4. out.rest = First(u, n)
    BY DEF Sound, Outgoing, u, n
  <2>5. out'.rest = First(Rest(wcache', Sent'), Len(out'.rest))
    BY <1>1, <1>4, <2>1, <2>3, <2>4 DEF n
  <2>6. out'.looked <= Len(wcache')
    <3>1. Len(wcache \o b) = Len(wcache) + Len(b) /\ Len(b) \in Nat
      BY <1>2, <1>3
    <3> QED
      BY <1>1, <1>3, <3>1
  <2> QED
    BY <2>5, <2>6 DEF Outgoing
<1>6. NothingLeftOver'
  BY DEF Sound, NothingLeftOver
<1>7. /\ accepted \in Seq(Message) /\ Len(accepted) \in Nat /\ Len(handled) \in Nat
      /\ Len(handled) <= Len(accepted)
  BY DEF TypeOK, Sound, HandledFirst
<1>8. HandledFirst'
  <2>1. /\ Len(accepted') = Len(accepted) + 1
        /\ \A i \in 1..Len(handled) : accepted'[i] = accepted[i]
    BY <1>1, <1>7
  <2> QED
    BY <1>7, <2>1 DEF Sound, HandledFirst
<1>9. OthersOnTheWay'
  <2>1. Len(handled) \in 0..Len(accepted)
    BY <1>7
  <2>2. OnTheWay(accepted', Len(handled)) = OnTheWay(accepted, Len(handled)) \o b
    BY <1>1, <1>7, <2>1, OnTheWayAccept DEF b
  <2>3. Line(rcache, socket, wcache \o b, Sent) = Line(rcache, socket, wcache, Sent) \o b
    <3>1. /\ rcache \in Seq(Byte) /\ socket \in Seq(Byte) /\ wcache \in Seq(Byte)
          /\ Sent \in 0..Len(wcache) /\ b \in Seq(Byte)
      BY <1>2, <1>3
    <3>2. LongerLine(rcache, socket, wcache, Sent, b)
      BY <3>1, LineWrite
    <3> QED
      BY <3>2 DEF LongerLine
  <2> QED
    BY <1>1, <1>4, <2>2, <2>3 DEF Sound, OthersOnTheWay
<1> QED
  BY <1>5, <1>6, <1>8, <1>9 DEF Sound

(* Any step of a writing thread.                                           *)
LEMMA ThreadSound ==
  ASSUME TypeOK, Sound, NEW m \in Message, Thread(m), faults' = {}
  PROVE  Sound'
<1>1. UNCHANGED <<out, socket, rcache, unpacking, handled>>
  BY DEF Thread, WritePackage, CallWritePackage, GoRound, Arm, receiverVars
<1>2. CASE Accept(m)
  BY <1>1, <1>2, AcceptSound
<1>3. CASE UNCHANGED <<accepted, wcache>>
  BY <1>1, <1>3, SoundUnchanged
<1>4. ~Orphan(m)
  BY DEF Orphan
<1>5. Accept(m) \/ UNCHANGED <<accepted, wcache>>
  BY <1>4 DEF Thread, WritePackage, GoRound, Arm, Reject, WriteCache!Refused
<1> QED
  BY <1>2, <1>3, <1>5

(* have_a_look hands write the front of the cache.                         *)
LEMMA LookedSound ==
  ASSUME TypeOK, BetweenWrites, Sound, out.at # "write",
         NEW n \in 0..Len(wcache), Looked(n),
         UNCHANGED <<accepted, wcache, socket, rcache, unpacking, handled>>
  PROVE  Sound'
<1>1. /\ wcache \in Seq(Byte) /\ Len(out.rest) \in Nat /\ Len(out.rest) <= out.looked
      /\ out.looked = 0 /\ Len(wcache) \in Nat
  BY Places DEF Sound, BetweenWrites
<1>2. out'.looked = n /\ out'.rest = First(wcache, n) /\ Len(out'.rest) = n
  BY LookedTypes
<1>3. Sent = 0 /\ Sent' = 0
  BY <1>1, <1>2 DEF Sent
<1>4. Outgoing'
  <2>1. Rest(wcache, 0) = wcache
    BY <1>1, CutNothing
  <2> QED
    BY <1>1, <1>2, <1>3, <2>1 DEF Outgoing
<1>5. NothingLeftOver' /\ HandledFirst'
  BY DEF Sound, NothingLeftOver, HandledFirst
<1>6. OthersOnTheWay'
  BY <1>3 DEF Sound, OthersOnTheWay
<1> QED
  BY <1>4, <1>5, <1>6 DEF Sound

(* The socket takes the next bytes of it.                                  *)
LEMMA SendSound ==
  ASSUME TypeOK, Sound, Send
  PROVE  Sound'
<1> DEFINE m == Len(out.rest)
           n == AtMost(m, SocketSize - Len(socket))
           k == Sent
<1>1. /\ UNCHANGED <<wcache, accepted, rcache, unpacking, handled>>
      /\ socket' = socket \o First(out.rest, n)
      /\ out' = [out EXCEPT !.rest = Rest(out.rest, n)] /\ n > 0
  BY DEF Send, Sending, receiverVars
<1>2. /\ wcache \in Seq(Byte) /\ rcache \in Seq(Byte) /\ socket \in Seq(Byte)
      /\ out.rest \in Seq(Byte) /\ k \in 0..Len(wcache) /\ Len(wcache) \in Nat
      /\ m \in Nat /\ k + m <= Len(wcache) /\ out.looked <= Len(wcache)
      /\ out.looked \in Nat /\ k = out.looked - m
  BY Places DEF Sound, Sent
<1>3. n \in 0..m
  <2>1. SocketSize - Len(socket) \in Nat
    BY <1>2, Sizes DEF TypeOK
  <2> QED
    BY <1>2, <2>1 DEF AtMost
<1>4. out'.looked = out.looked /\ out'.rest = Rest(out.rest, n)
  BY <1>1 DEF TypeOK
<1> HIDE DEF n
<1>5. Len(out'.rest) = m - n
  <2>1. out.rest \in Seq(Byte) /\ n \in 0..Len(out.rest)
    BY <1>2, <1>3
  <2>2. Len(Rest(out.rest, n)) = Len(out.rest) - n
    BY <2>1, Cut
  <2> QED
    BY <1>4, <2>2
<1>6. Sent' = k + n
  <2>1. n \in Nat /\ m - (m - n) = n /\ out.looked - (m - n) = (out.looked - m) + n
    BY <1>2, <1>3
  <2> QED
    BY <1>2, <1>4, <1>5, <2>1 DEF Sent
<1> DEFINE u == Rest(wcache, k)
<1>7. out.rest = First(u, m)
  BY DEF Sound, Outgoing
<1> HIDE DEF m, k
<1>8. u \in Seq(Byte) /\ Len(u) = Len(wcache) - k /\ Rest(wcache, k + n) = Rest(u, n)
  <2>1. k \in Nat /\ n \in Nat /\ k + n <= Len(wcache)
    BY <1>2, <1>3
  <2>2. Rest(wcache, k + n) = Rest(u, n)
    BY <1>2, <2>1, CutTwice
  <2>3. u \in Seq(Byte) /\ Len(u) = Len(wcache) - k
    BY <1>2, Cut
  <2> QED
    BY <2>2, <2>3
<1> HIDE DEF u
<1>9. m \in 0..Len(u) /\ n \in Nat /\ m - n \in Nat /\ n + (m - n) = m /\ n + (m - n) <= Len(u)
  <2>1. k \in Nat /\ m \in Nat /\ Len(wcache) \in Nat /\ k + m <= Len(wcache)
    BY <1>2
  <2>2. Len(u) = Len(wcache) - k
    BY <1>8
  <2>3. Len(u) \in Nat /\ m <= Len(u)
    BY <2>1, <2>2
  <2> QED
    BY <1>3, <2>1, <2>3
<1>10. First(out.rest, n) = First(u, n)
  BY <1>3, <1>7, <1>8, <1>9, CutInside
<1>11. Rest(out.rest, n) = First(Rest(u, n), m - n)
  BY <1>7, <1>8, <1>9, CutTwice
<1>12. Outgoing'
  BY <1>1, <1>2, <1>4, <1>5, <1>6, <1>8, <1>11 DEF Outgoing
<1>13. OthersOnTheWay'
  <2>1. k \in Nat /\ n \in Nat /\ k + n <= Len(wcache)
    BY <1>2, <1>3
  <2>2. Line(rcache, socket \o First(u, n), wcache, k + n) = Line(rcache, socket, wcache, k)
    BY <1>2, <2>1, LineSend DEF u
  <2> QED
    BY <1>1, <1>6, <1>10, <2>2 DEF Sound, OthersOnTheWay, k
<1>14. NothingLeftOver' /\ HandledFirst'
  BY <1>1 DEF Sound, NothingLeftOver, HandledFirst
<1> QED
  BY <1>12, <1>13, <1>14 DEF Sound

(* read removes exactly what was taken, whatever was written since.        *)
LEMMA DiscardSound ==
  ASSUME TypeOK, Sound, Discard
  PROVE  Sound'
<1>1. /\ UNCHANGED <<accepted, socket, rcache, unpacking, handled>>
      /\ wcache' = Rest(wcache, AtMost(out.looked, Len(wcache)))
      /\ out.rest = <<>> /\ out'.looked = 0 /\ out'.rest = <<>>
  BY DEF Discard, WriteReturns, Sending, receiverVars
<1>2. /\ wcache \in Seq(Byte) /\ out.looked \in 0..Len(wcache) /\ Len(wcache) \in Nat
      /\ out.looked \in Nat
  BY Places DEF Sound
<1>3. wcache' = Rest(wcache, out.looked)
  BY <1>1, <1>2 DEF AtMost
<1>4. Sent = out.looked /\ Sent' = 0
  <2>1. Len(out.rest) = 0 /\ Len(out'.rest) = 0
    BY <1>1
  <2>2. Sent = out.looked
    BY <1>2, <2>1 DEF Sent
  <2>3. out'.looked = 0
    BY <1>1
  <2> QED
    BY <2>1, <2>2, <2>3 DEF Sent
<1>5. wcache' \in Seq(Byte) /\ Len(wcache') \in Nat
  BY <1>2, <1>3, Cut
<1>6. Outgoing'
  <2>1. Rest(wcache', 0) = wcache' /\ First(wcache', 0) = <<>> /\ Len(<<>>) = 0
    BY <1>5, CutNothing
  <2> QED
    BY <1>1, <1>4, <1>5, <2>1 DEF Outgoing
<1>7. OthersOnTheWay'
  <2>1. Line(rcache, socket, Rest(wcache, out.looked), 0) = Line(rcache, socket, wcache, out.looked)
    BY <1>2, LineDiscard
  <2> QED
    BY <1>1, <1>3, <1>4, <2>1 DEF Sound, OthersOnTheWay
<1>8. NothingLeftOver' /\ HandledFirst'
  BY <1>1 DEF Sound, NothingLeftOver, HandledFirst
<1> QED
  BY <1>6, <1>7, <1>8 DEF Sound

(* Any step of write_socket.                                               *)
LEMMA WriteSocketSound ==
  ASSUME TypeOK, BetweenWrites, Sound, WriteSocket, faults' = {}
  PROVE  Sound'
<1> USE DEF Sending, receiverVars
<1>1. CASE Send
  BY <1>1, SendSound
<1>2. CASE Discard
  BY <1>2, DiscardSound
<1>3. CASE Writable \/ Rearm
  <2>1. /\ UNCHANGED <<accepted, wcache, socket, rcache, unpacking, handled>>
        /\ out'.looked = out.looked /\ out'.rest = out.rest
    BY <1>3 DEF Writable, Rearm, TypeOK
  <2> QED
    BY <2>1, SoundUnchanged
<1>4. CASE LookForBlock
  <2>1. UNCHANGED <<accepted, wcache, socket, rcache, unpacking, handled>> /\ out.at # "write"
    BY <1>4 DEF LookForBlock
  <2>2. CASE Block > Len(wcache)
    <3>1. out'.looked = out.looked /\ out'.rest = out.rest
      BY <1>4, <2>2 DEF LookForBlock, TypeOK
    <3> QED
      BY <2>1, <3>1, SoundUnchanged
  <2>3. CASE ~(Block > Len(wcache))
    <3>1. Looked(Block) /\ Block \in 0..Len(wcache)
      BY <1>4, <2>3, Sizes, Places DEF LookForBlock, Sound
    <3> QED
      BY <2>1, <3>1, LookedSound
  <2> QED
    BY <2>2, <2>3
<1>5. CASE LookAtAll
  <2>1. UNCHANGED <<accepted, wcache, socket, rcache, unpacking, handled>> /\ out.at # "write"
    BY <1>5 DEF LookAtAll
  <2>2. Looked(Len(wcache))
    BY <1>5 DEF LookAtAll
  <2>3. Len(wcache) \in 0..Len(wcache)
    BY Places DEF Sound
  <2> QED
    BY <2>1, <2>2, <2>3, LookedSound
<1> QED
  BY <1>1, <1>2, <1>3, <1>4, <1>5 DEF WriteSocket

(* A read that drops nothing.                                              *)
LEMMA ReadSound ==
  ASSUME TypeOK, Sound, NEW n \in 1..Block, Read(n), faults' = {}
  PROVE  Sound'
<1>1. /\ UNCHANGED <<accepted, wcache, out, handled>> /\ unpacking' = TRUE
      /\ socket' = Rest(socket, n) /\ n <= Len(socket)
      /\ faults' = IF rcache' = rcache \o First(socket, n) THEN faults
                                                         ELSE faults \union {"dropped"}
  BY Zenon DEF Read, Receiving, senderVars
<1>2. /\ socket \in Seq(Byte) /\ rcache \in Seq(Byte)
  BY Places DEF Sound
<1>3. n \in 0..Len(socket)
  BY <1>1, <1>2, Sizes
<1> DEFINE full == rcache \o First(socket, n)
<1>8. rcache' = full
  <2>1. faults' = IF rcache' = full THEN faults ELSE faults \union {"dropped"}
    BY <1>1
  <2> HIDE DEF full
  <2> QED
    BY <2>1
<1>4. Sent' = Sent
  BY <1>1 DEF Sent
<1>5. Line(rcache \o First(socket, n), Rest(socket, n), wcache, Sent)
        = Line(rcache, socket, wcache, Sent)
  BY <1>2, <1>3, LineRead
<1>6. OthersOnTheWay'
  BY <1>1, <1>4, <1>5, <1>8 DEF Sound, OthersOnTheWay
<1>7. Outgoing' /\ NothingLeftOver' /\ HandledFirst'
  BY <1>1, <1>4 DEF Sound, Outgoing, NothingLeftOver, HandledFirst
<1> QED
  BY <1>6, <1>7 DEF Sound

(* read_package hands out the next package.                                *)
LEMMA HandOutSound ==
  ASSUME TypeOK, Sound, NEW len \in CompletePackage, HandOut(len),
         UNCHANGED <<accepted, wcache, out, socket>>, unpacking'
  PROVE  Sound'
<1> DEFINE k == Len(handled)
           m == accepted[k + 1]
           n == HeaderSize + len
           z == OnTheWay(accepted, k + 1)
<1>1. /\ rcache # <<>> /\ len = BodyLength[m] /\ m \in Message
  BY CompleteIsNext
<1>2. /\ k \in Nat /\ Len(accepted) \in Nat /\ k < Len(accepted)
      /\ Line(rcache, socket, wcache, Sent) = Bytes(m) \o z /\ z \in Seq(Byte)
  BY <1>1, NextPackage
<1>3. /\ len \in Nat \ {0} /\ HeaderSize \in Nat \ {0}
      /\ Header(len) \in Seq(Byte) /\ Len(Header(len)) = HeaderSize /\ Body(m) \in Seq(Byte)
      /\ Bytes(m) \in Seq(Byte) /\ Len(Bytes(m)) = n /\ Bytes(m) = Header(len) \o Body(m)
  BY <1>1, PackageBytes DEF Bytes
<1>4. /\ rcache \in Seq(Byte) /\ socket \in Seq(Byte) /\ wcache \in Seq(Byte)
      /\ Sent \in 0..Len(wcache) /\ Len(rcache) >= n /\ Len(rcache) \in Nat
  BY Places DEF Sound, CompletePackage
<1>5. n \in Nat /\ n \in 0..Len(rcache)
  BY <1>3, <1>4
<1>6. First(rcache, n) = Bytes(m)
  <2> DEFINE b == Bytes(m)
  <2>1. First(rcache, n) = First(b, n)
    BY <1>1, <1>3, <1>4, <1>5, NextBytes
  <2>2. First(b, Len(b)) = b
    BY <1>3 DEF First
  <2> QED
    BY <1>3, <2>1, <2>2
<1>7. First(Rest(rcache, HeaderSize), len) = Body(m)
  <2>1. First(Rest(rcache, HeaderSize), len) = Rest(First(rcache, n), HeaderSize)
    BY <1>3, <1>4, CutTwice
  <2>2. Rest(Header(len) \o Body(m), Len(Header(len))) = Body(m)
    BY <1>3, CutBetween
  <2> QED
    BY <1>3, <1>6, <2>1, <2>2
<1>8. handled' = Append(handled, Body(m)) /\ rcache' = Rest(rcache, n)
  BY <1>7 DEF HandOut
<1>9. Sent' = Sent
  BY DEF Sent
<1>10. handled \in Seq(Seq(Byte)) /\ handled = [i \in 1..k |-> Body(accepted[i])]
  BY DEF TypeOK, Sound, HandledFirst
<1>11. Len(handled') = k + 1
  BY <1>2, <1>3, <1>8, <1>10
<1>12. HandledFirst'
  <2>1. /\ handled' \in Seq(Seq(Byte)) /\ handled'[k + 1] = Body(m)
        /\ \A i \in 1..k : handled'[i] = handled[i]
    BY <1>2, <1>3, <1>8, <1>10
  <2>2. ASSUME NEW i \in 1..(k + 1) PROVE handled'[i] = Body(accepted[i])
    <3>1. CASE i = k + 1
      BY <2>1, <3>1, Zenon
    <3>2. CASE i # k + 1
      <4>1. i \in 1..k
        BY <1>2, <3>2
      <4>2. handled[i] = Body(accepted[i])
        BY <1>10, <4>1
      <4> QED
        BY <2>1, <4>1, <4>2, Zenon
    <3> QED
      BY <3>1, <3>2
  <2>3. handled' = [i \in 1..(k + 1) |-> handled'[i]]
    BY <1>11, <2>1
  <2>4. handled' = [i \in 1..(k + 1) |-> Body(accepted[i])]
    BY <2>2, <2>3
  <2> QED
    BY <1>2, <1>11, <2>4 DEF HandledFirst
<1>13. OthersOnTheWay'
  <2>1. Rest(Line(rcache, socket, wcache, Sent), n) = Line(Rest(rcache, n), socket, wcache, Sent)
    BY <1>4, <1>5, LineFront
  <2>2. Rest(Bytes(m) \o z, Len(Bytes(m))) = z
    BY <1>2, <1>3, CutBetween
  <2>3. Line(rcache', socket, wcache, Sent) = z
    BY <1>2, <1>3, <1>8, <2>1, <2>2
  <2> QED
    BY <1>9, <1>11, <2>3 DEF OthersOnTheWay
<1>14. Outgoing' /\ NothingLeftOver'
  BY <1>9 DEF Sound, Outgoing, NothingLeftOver
<1> QED
  BY <1>12, <1>13, <1>14 DEF Sound

(* Any step of the read_package loop.                                      *)
LEMMA ReadPackageSound ==
  ASSUME TypeOK, Sound, ReadPackage
  PROVE  Sound'
<1>1. UNCHANGED <<accepted, wcache, out, socket>> /\ unpacking
  BY DEF ReadPackage, Receiving, senderVars
<1>2. ASSUME CompletePackage = {}, UNCHANGED <<rcache, handled>> PROVE Sound'
  <2>1. Sent' = Sent
    BY <1>1 DEF Sent
  <2>2. NothingLeftOver'
    <3> SUFFICES ASSUME rcache' # <<>>
                 PROVE  \E m \in Message : Len(rcache') < HeaderSize + BodyLength[m]
      BY DEF NothingLeftOver
    <3>1. \E m \in Message : Len(rcache) < HeaderSize + BodyLength[m]
      BY <1>2, IncompleteIsShort
    <3> QED
      BY <1>2, <3>1
  <2>3. Outgoing' /\ HandledFirst' /\ OthersOnTheWay'
    BY <1>1, <1>2, <2>1 DEF Sound, Outgoing, HandledFirst, OthersOnTheWay
  <2> QED
    BY <2>2, <2>3 DEF Sound
<1>3. ASSUME NEW len \in CompletePackage, HandOut(len), UNCHANGED unpacking PROVE Sound'
  BY <1>1, <1>3, HandOutSound
<1> QED
  BY <1>2, <1>3 DEF ReadPackage

(* have_a_look's count is kept during a write only.                        *)
LEMMA BetweenWritesStep ==
  ASSUME TypeOK, BetweenWrites, [Next]_vars
  PROVE  BetweenWrites'
<1>1. CASE UNCHANGED out
  BY <1>1 DEF BetweenWrites
<1>2. CASE Writable \/ LookForBlock \/ LookAtAll \/ Rearm
  <2>1. out.at # "write"
    BY <1>2 DEF Writable, LookForBlock, LookAtAll, Rearm
  <2>2. \/ out'.at = "write"
        \/ out'.looked = out.looked
    BY <1>2 DEF Writable, LookForBlock, LookAtAll, Rearm, Looked, TypeOK
  <2> QED
    BY <2>1, <2>2 DEF BetweenWrites
<1>3. CASE Send
  <2>1. out'.at = "write"
    BY <1>3 DEF Send, TypeOK
  <2> QED
    BY <2>1 DEF BetweenWrites
<1>4. CASE Discard
  <2>1. out'.looked = 0
    BY <1>4 DEF Discard, WriteReturns
  <2> QED
    BY <2>1 DEF BetweenWrites
<1>5. \/ WriteSocket
      \/ UNCHANGED out
  BY Zenon DEF Next, ReadSocket, Thread, WritePackage, CallWritePackage, GoRound, Arm, Read,
     ReadPackage, Receiving, vars
<1> QED
  BY <1>1, <1>2, <1>3, <1>4, <1>5 DEF WriteSocket

(* The invariant holds at first.                                           *)
LEMMA InitInv == Init => Inv
<1> SUFFICES ASSUME Init PROVE Inv
  OBVIOUS
<1>1. TypeOK
  BY InitTypes
<1>2. /\ accepted = <<>> /\ handled = <<>> /\ wcache = <<>> /\ socket = <<>> /\ rcache = <<>>
      /\ out.at = "poll" /\ out.looked = 0 /\ out.rest = <<>>
  BY DEF Init
<1>3. BetweenWrites
  BY <1>2 DEF BetweenWrites
<1>4. Len(<<>>) = 0 /\ <<>> \in Seq(Byte) /\ <<>> \in Seq(Message)
  OBVIOUS
<1>5. Sent = 0
  <2>1. out.looked = 0 /\ Len(out.rest) = 0
    BY <1>2, <1>4
  <2> QED
    BY <2>1 DEF Sent
<1>6. Rest(<<>>, 0) = <<>> /\ First(<<>>, 0) = <<>>
  BY <1>4, CutNothing
<1>7. Outgoing
  BY <1>2, <1>4, <1>5, <1>6 DEF Outgoing
<1>8. NothingLeftOver
  BY <1>2 DEF NothingLeftOver
<1>9. HandledFirst
  <2>1. <<>> = [i \in 1..0 |-> Body(accepted[i])]
    OBVIOUS
  <2> QED
    BY <1>2, <1>4, <2>1 DEF HandledFirst
<1>10. OthersOnTheWay
  <2>1. 0 \in 0..Len(accepted) /\ 0 = Len(accepted) /\ accepted \in Seq(Message)
    BY <1>2, <1>4
  <2>2. OnTheWay(accepted, 0) = <<>>
    BY <2>1, OnTheWayBytes
  <2>3. Line(<<>>, <<>>, <<>>, 0) = <<>>
    <3>1. <<>> \o <<>> = <<>>
      BY <1>4, ConcatEmptySeq
    <3> QED
      BY <1>6, <3>1 DEF Line
  <2> QED
    BY <1>2, <1>4, <1>5, <2>2, <2>3 DEF OthersOnTheWay
<1> QED
  BY <1>1, <1>3, <1>7, <1>8, <1>9, <1>10 DEF Inv, Sound

(* Every step keeps it.                                                    *)
LEMMA StepInv == Inv /\ [Next]_vars => Inv'
<1> SUFFICES ASSUME Inv, [Next]_vars PROVE Inv'
  OBVIOUS
<1>1. TypeOK /\ BetweenWrites
  BY DEF Inv
<1>2. TypeOK' /\ faults \subseteq faults'
  BY <1>1, StepTypes
<1>3. BetweenWrites'
  BY <1>1, BetweenWritesStep
<1>4. ASSUME faults' = {} PROVE Sound'
  <2>1. Sound
    BY <1>2, <1>4 DEF Inv
  <2>2. CASE UNCHANGED vars
    <3>1. /\ UNCHANGED <<accepted, wcache, socket, rcache, handled>>
          /\ out'.looked = out.looked /\ out'.rest = out.rest /\ (~unpacking' => ~unpacking)
      BY <2>2 DEF vars, senderVars, receiverVars
    <3> QED
      BY <2>1, <3>1, SoundUnchanged
  <2>3. CASE \E m \in Message : Thread(m)
    BY <1>1, <1>4, <2>1, <2>3, ThreadSound
  <2>4. CASE WriteSocket
    BY <1>1, <1>4, <2>1, <2>4, WriteSocketSound
  <2>5. CASE \E n \in 1..Block : Read(n)
    BY <1>1, <1>4, <2>1, <2>5, ReadSound
  <2>6. CASE ReadPackage
    BY <1>1, <2>1, <2>6, ReadPackageSound
  <2> QED
    BY <2>2, <2>3, <2>4, <2>5, <2>6 DEF Next, ReadSocket
<1> QED
  BY <1>2, <1>3, <1>4 DEF Inv

(* In every state of the program the invariant holds.                      *)
LEMMA AlwaysInv == Spec => []Inv
BY InitInv, StepInv, PTL DEF Spec

-----------------------------------------------------------------------------
(* The receiver.                                                           *)

(* A read cache with room for a block behind a package takes the whole read. *)
LEMMA ReadFits ==
  ASSUME TypeOK, Sound, ReadCacheFits, NEW n \in 1..Block, Read(n)
  PROVE  rcache' = rcache \o First(socket, n)
<1> DEFINE chunk == First(socket, n)
<1>1. /\ ~unpacking /\ n <= Len(socket)
      /\ \/ ReadCache!Refused(rcache, chunk, rcache')
         \/ ReadCache!Accepted(rcache, chunk, rcache')
  BY Zenon DEF Read
<1>2. /\ socket \in Seq(Byte) /\ rcache \in Seq(Byte) /\ Len(rcache) \in Nat
      /\ n \in Nat /\ n >= 1 /\ n <= Block
  BY Places, Sizes DEF Sound
<1>3. Len(chunk) = n
  <2>1. n \in 0..Len(socket)
    BY <1>1, <1>2
  <2> QED
    BY <1>2, <2>1, Cut
<1>4. \E m \in Message : Len(rcache) < HeaderSize + BodyLength[m]
  <2>1. CASE rcache # <<>>
    BY <1>1, <2>1 DEF Sound, NothingLeftOver
  <2>2. CASE rcache = <<>>
    <3>1. socket[1] \in Byte
      BY <1>1, <1>2
    <3>2. PICK m \in Message : socket[1] \in Range(Bytes(m))
      BY <3>1 DEF Byte
    <3>3. BodyLength[m] \in Nat \ {0} /\ HeaderSize \in Nat \ {0}
      BY StreamAssumption
    <3>4. Len(rcache) = 0
      BY <2>2
    <3> QED
      BY <3>3, <3>4
  <2> QED
    BY <2>1, <2>2
<1>5. PICK m \in Message : Len(rcache) < HeaderSize + BodyLength[m]
  BY <1>4
<1>6. /\ HeaderSize + BodyLength[m] - 1 + Block < ReadCapacity
      /\ BodyLength[m] \in Nat /\ HeaderSize \in Nat /\ ReadCapacity \in Nat /\ Block \in Nat
  BY StreamAssumption, Sizes DEF ReadCacheFits
<1>7. Len(rcache) + Len(chunk) < ReadCapacity
  BY <1>2, <1>3, <1>5, <1>6
<1>8. chunk # <<>>
  <2>1. Len(<<>>) = 0
    OBVIOUS
  <2> HIDE DEF chunk
  <2> QED
    BY <1>2, <1>3, <2>1
<1>9. ~(Len(rcache) + Len(chunk) >= ReadCapacity) /\ Len(rcache) + Len(chunk) # ReadCapacity
  BY <1>2, <1>3, <1>6, <1>7
<1> HIDE DEF chunk
<1>10. rcache' = rcache \o chunk
  BY <1>1, <1>8, <1>9, Zenon DEF ReadCache!Refused, ReadCache!Accepted
<1> QED
  BY <1>10 DEF chunk

(* Only a read drops bytes.                                                *)
LEMMA OnlyReadDrops ==
  ASSUME [Next]_vars, "dropped" \in faults', "dropped" \notin faults
  PROVE  \E n \in 1..Block : Read(n)
<1>1. ASSUME NEW m \in Message, Thread(m) PROVE FALSE
  <2>1. faults' \subseteq faults \union {"orphan", "wiped"}
    BY <1>1 DEF Thread, WritePackage, Reject, Orphan, Accept, GoRound, Arm, Wiped
  <2> QED
    BY <2>1
<1>2. ASSUME WriteSocket PROVE FALSE
  <2>1. faults' \subseteq faults \union {"overrun"}
    BY <1>2 DEF WriteSocket, Writable, LookForBlock, LookAtAll, Send, Discard, WriteReturns, Rearm
  <2> QED
    BY <2>1
<1>3. ASSUME ReadPackage PROVE FALSE
  BY <1>3 DEF ReadPackage
<1>4. ~UNCHANGED vars
  BY DEF vars
<1> QED
  BY <1>1, <1>2, <1>3, <1>4 DEF Next, ReadSocket

(* So dropping is never the first thing that goes wrong.                   *)
LEMMA KeepsUpStep == Inv /\ ReceiverKeepsUp /\ [Next]_vars => ReceiverKeepsUp'
<1> SUFFICES ASSUME Inv, ReceiverKeepsUp, [Next]_vars,
                    ReadCacheFits, faults' = {"dropped"}
             PROVE  FALSE
  BY DEF ReceiverKeepsUp, ReadCacheFits
<1>1. faults \subseteq faults' /\ faults # {"dropped"}
  BY StepTypes DEF Inv, ReceiverKeepsUp
<1>2. faults = {}
  BY <1>1
<1>3. TypeOK /\ Sound
  BY <1>2 DEF Inv
<1>4. PICK n \in 1..Block : Read(n)
  BY <1>2, OnlyReadDrops
<1>5. rcache' = rcache \o First(socket, n)
  BY <1>3, <1>4, ReadFits
<1>6. faults' = faults
  BY <1>4, <1>5 DEF Read
<1> QED
  BY <1>2, <1>6

(* A deaf receiver stays deaf.                                             *)
LEMMA DeafStep ==
  ASSUME TypeOK, [Next]_vars, Deaf
  PROVE  handled' = handled /\ (Deaf' \/ rcache' = <<>>)
<1>1. CASE UNCHANGED <<rcache, handled>>
  BY <1>1 DEF Deaf
<1>2. ASSUME NEW n \in 1..Block, Read(n)
      PROVE  handled' = handled /\ (Deaf' \/ rcache' = <<>>)
  <2> DEFINE chunk == First(socket, n)
             long == rcache \o chunk
  <2>1. handled' = handled /\ (rcache' = rcache \/ rcache' = long \/ rcache' = <<>>)
    BY <1>2, Zenon DEF Read, ReadCache!Refused, ReadCache!Accepted
  <2>2. CASE rcache' = long
    <3>1. /\ rcache \in Seq(Byte) /\ Len(rcache) \in Nat /\ socket \in Seq(Byte)
          /\ n \in 0..Len(socket) /\ Len(rcache) >= HeaderSize
      <4>1. socket \in Seq(Byte) /\ n <= Len(socket) /\ n \in Nat
        BY <1>2, Sizes DEF Read, TypeOK
      <4>2. rcache \in Seq(Byte) /\ Len(rcache) >= HeaderSize
        BY DEF TypeOK, Deaf
      <4> QED
        BY <4>1, <4>2
    <3>2. chunk \in Seq(Byte)
      BY <3>1, Cut
    <3> HIDE DEF chunk
    <3>3. Len(long) = Len(rcache) + Len(chunk) /\ Len(chunk) \in Nat
      BY <3>1, <3>2
    <3>4. HeaderSize \in 0..Len(rcache) /\ Len(long) >= HeaderSize
      BY <3>1, <3>3, Sizes
    <3>5. First(long, HeaderSize) = First(rcache, HeaderSize)
      BY <3>1, <3>2, <3>4, CutOfJoin
    <3> HIDE DEF long
    <3> QED
      BY <2>1, <2>2, <3>4, <3>5 DEF Deaf
  <2> QED
    BY <2>1, <2>2 DEF Deaf
<1>3. ASSUME ReadPackage PROVE UNCHANGED <<rcache, handled>>
  <2>1. CompletePackage = {}
    BY DEF Deaf, CompletePackage
  <2> QED
    BY <1>3, <2>1 DEF ReadPackage
<1>4. \/ UNCHANGED <<rcache, handled>>
      \/ \E n \in 1..Block : Read(n)
      \/ ReadPackage
  BY Zenon DEF Next, ReadSocket, Thread, WritePackage, CallWritePackage, GoRound, Arm,
     WriteSocket, Writable, LookForBlock, LookAtAll, Send, Discard, WriteReturns, Rearm,
     Sending, receiverVars, vars
<1> QED
  BY <1>1, <1>2, <1>3, <1>4

-----------------------------------------------------------------------------
(* The theorems.                                                           *)

(* No cache, no socket and no call of write ever holds more than it can.   *)
THEOREM TypeCorrect == Spec => []TypeOK
<1>1. Inv => TypeOK
  BY DEF Inv
<1> QED
  BY <1>1, AlwaysInv, PTL

(* While nothing has gone wrong, what write_package accepted is handed out *)
(* in order and once, and the rest is on its way byte by byte.             *)
THEOREM PackagesArriveIntact == Spec => []StreamIntact
<1>1. Inv => StreamIntact
  <2> SUFFICES ASSUME Inv, faults = {} PROVE StreamIntact
    BY DEF StreamIntact
  <2>1. Sound
    BY DEF Inv
  <2>2. InFlight = Line(rcache, socket, wcache, Sent)
    BY DEF InFlight, Line, Sent
  <2> QED
    BY <2>1, <2>2 DEF Sound, HandledFirst, OthersOnTheWay, OnTheWay, Pending, StreamIntact
<1> QED
  BY <1>1, AlwaysInv, PTL

(* A read cache with room for a block behind an incomplete package is not  *)
(* the first to lose bytes.                                                *)
THEOREM ReceiverIsNotFirstToFail == Spec => []ReceiverKeepsUp
<1>1. Init => ReceiverKeepsUp
  BY DEF Init, ReceiverKeepsUp
<1> QED
  BY <1>1, KeepsUpStep, AlwaysInv, PTL DEF Spec

(* read_package never gets past bytes that begin no header.                *)
THEOREM ReceiverStaysDeaf == Spec => NothingIsSkipped
<1>1. TypeOK /\ [Next]_vars =>
        [Deaf => handled' = handled /\ (Deaf' \/ rcache' = <<>>)]_vars
  BY DeafStep
<1> QED
  BY <1>1, TypeCorrect, PTL DEF Spec, NothingIsSkipped
=============================================================================
