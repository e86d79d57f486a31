---------------------------- MODULE InboxProofs ----------------------------
(***************************************************************************)
(* Any searches, requests, dice, cap and page size: what the inbox and the *)
(* overview show of the leads that the providers find and settle.          *)
(***************************************************************************)
EXTENDS Inbox, FiniteSetTheorems, SequenceTheorems, WellFoundedInduction, TLAPS

-----------------------------------------------------------------------------
(* Induction over the natural numbers, with the property given as a set.   *)

LEMMA Smallest ==
    ASSUME NEW T \in SUBSET Nat, T # {}
    PROVE  \E m \in T : \A k \in T : m <= k
<1> DEFINE R == OpToRel(<, Nat)
<1>1. IsWellFoundedOn(R, Nat)
  BY NatLessThanWellFounded
<1>2. \A k, m \in Nat : k < m => <<k, m>> \in R
  BY DEF OpToRel
<1> HIDE DEF R
<1>3. PICK m \in T : \A k \in T : <<k, m>> \notin R
  BY <1>1, WFMin
<1>4. \A k \in T : ~(k < m)
  BY <1>2, <1>3
<1> QED
  BY <1>3, <1>4

LEMMA Induction ==
    ASSUME NEW S, NEW a \in Nat, NEW b \in Nat, a \in S,
           \A n \in a..b : n \in S /\ n < b => n + 1 \in S
    PROVE  a..b \subseteq S
<1> DEFINE T == {n \in a..b : n \notin S}
<1> SUFFICES ASSUME T # {} PROVE FALSE
  OBVIOUS
<1>1. PICK m \in T : \A k \in T : m <= k
  <2>1. T \in SUBSET Nat
    OBVIOUS
  <2> HIDE DEF T
  <2> QED
    BY <2>1, Smallest
<1>2. m # a /\ m - 1 \in a..b /\ m - 1 < b
  BY <1>1
<1>3. m - 1 \in S
  BY <1>1, <1>2
<1> QED
  BY <1>1, <1>2, <1>3

-----------------------------------------------------------------------------
(* Picked: the elements of a sequence at some of its indices.              *)

Below(I, i) == {k \in I : k < i}
Place(I, i) == Cardinality(Below(I, i)) + 1
Nth(I, n) == CHOOSE i \in I : Cardinality(Below(I, i)) = n - 1

\* The indices of a finite set have the places 1 to its size, in their order.
LEMMA Places ==
    ASSUME NEW I \in SUBSET Nat, IsFiniteSet(I)
    PROVE  /\ Cardinality(I) \in Nat
           /\ \A i \in I : Place(I, i) \in 1..Cardinality(I)
           /\ \A i, k \in I : k < i => Place(I, k) < Place(I, i)
           /\ \A n \in 1..Cardinality(I) : \E i \in I : Place(I, i) = n
<1>1. Cardinality(I) \in Nat
  BY FS_CardinalityType
<1>2. ASSUME NEW i \in I
      PROVE  IsFiniteSet(Below(I, i)) /\ Place(I, i) \in 1..Cardinality(I)
  <2>1. Below(I, i) \in SUBSET I /\ i \notin Below(I, i)
    BY DEF Below
  <2>2. /\ IsFiniteSet(Below(I, i)) /\ Cardinality(Below(I, i)) <= Cardinality(I)
        /\ Cardinality(I) = Cardinality(Below(I, i)) => I = Below(I, i)
    BY <2>1, FS_Subset
  <2>3. Cardinality(Below(I, i)) \in Nat
    BY <2>2, FS_CardinalityType
  <2> QED
    BY <1>1, <2>1, <2>2, <2>3 DEF Place
<1>3. ASSUME NEW i \in I, NEW k \in I, k < i
      PROVE  Place(I, k) < Place(I, i)
  <2>1. Below(I, k) \in SUBSET Below(I, i)
    <3>1. \A x \in I : x < k => x < i
      BY <1>3
    <3> QED
      BY <3>1 DEF Below
  <2>2. k \in Below(I, i) /\ k \notin Below(I, k)
    BY <1>3 DEF Below
  <2>3. /\ Cardinality(Below(I, k)) <= Cardinality(Below(I, i))
        /\ Cardinality(Below(I, i)) = Cardinality(Below(I, k)) => Below(I, i) = Below(I, k)
    BY <1>2, <2>1, FS_Subset
  <2>4. Cardinality(Below(I, k)) \in Nat /\ Cardinality(Below(I, i)) \in Nat
    BY <1>2, FS_CardinalityType
  <2> QED
    BY <2>2, <2>3, <2>4 DEF Place
<1>4. ASSUME NEW n \in 1..Cardinality(I)
      PROVE  \E i \in I : Place(I, i) = n
  <2> DEFINE f == [i \in I |-> Place(I, i)]
             N == 1..Cardinality(I)
  <2>1. f \in [I -> N]
    BY <1>2
  <2>2. \A i, k \in I : f[i] = f[k] => i = k
    <3>1. \A i, k \in I : i < k \/ k < i \/ i = k
      OBVIOUS
    <3>2. \A i \in I : Place(I, i) \in Nat
      BY <1>1, <1>2
    <3> QED
      BY <1>3, <3>1, <3>2
  <2>3. f \in Injection(I, N)
    BY <2>1, <2>2 DEF Injection, IsInjective
  <2>4. IsFiniteSet(N) /\ Cardinality(N) = Cardinality(I)
    BY <1>1, FS_Interval
  <2>5. f \in Surjection(I, N)
    <3> HIDE DEF f, N
    <3> QED
      BY <2>3, <2>4, FS_Injection
  <2>6. PICK i \in I : f[i] = n
    BY <2>5 DEF Surjection
  <2> QED
    BY <2>6
<1> QED
  BY <1>1, <1>2, <1>3, <1>4

\* Picking keeps the chosen elements, each once, and adds nothing.
LEMMA PickedElements ==
    ASSUME NEW X, NEW s \in Seq(X), NEW I \in SUBSET DOMAIN s
    PROVE  /\ IsFiniteSet(I) /\ Cardinality(I) \in Nat
           /\ Picked(s, I) \in Seq(X)
           /\ Len(Picked(s, I)) = Cardinality(I)
           /\ DOMAIN Picked(s, I) = 1..Cardinality(I)
           /\ \A n \in 1..Cardinality(I) : \E i \in I : Picked(s, I)[n] = s[i] /\ Place(I, i) = n
           /\ \A i \in I : Picked(s, I)[Place(I, i)] = s[i] /\ Place(I, i) \in 1..Cardinality(I)
<1>1. DOMAIN s = 1..Len(s) /\ Len(s) \in Nat /\ s \in [1..Len(s) -> X]
  BY LenProperties
<1>2. IsFiniteSet(I)
  <2>1. IsFiniteSet(1..Len(s))
    BY <1>1, FS_Interval
  <2> QED
    BY <1>1, <2>1, FS_Subset
<1>3. I \in SUBSET Nat
  BY <1>1
<1> DEFINE N == Cardinality(I)
<1>4. /\ N \in Nat
      /\ \A i \in I : Place(I, i) \in 1..N
      /\ \A i, k \in I : k < i => Place(I, k) < Place(I, i)
      /\ \A n \in 1..N : \E i \in I : Place(I, i) = n
  BY <1>2, <1>3, Places
<1>5. ASSUME NEW n \in 1..N
      PROVE  Nth(I, n) \in I /\ Place(I, Nth(I, n)) = n
  <2>1. PICK i \in I : Place(I, i) = n
    BY <1>4
  <2>2. \A k \in I : Cardinality(Below(I, k)) \in Nat
    <3>1. \A k \in I : Below(I, k) \in SUBSET I
      BY DEF Below
    <3> QED
      BY <1>2, <3>1, FS_Subset, FS_CardinalityType
  <2>3. Cardinality(Below(I, i)) = n - 1
    BY <2>1, <2>2 DEF Place
  <2>4. Nth(I, n) \in I /\ Cardinality(Below(I, Nth(I, n))) = n - 1
    BY <2>3 DEF Nth
  <2> QED
    BY <2>4 DEF Place
<1>6. Picked(s, I) = [n \in 1..N |-> s[Nth(I, n)]]
  BY DEF Picked, Nth, Below
<1>7. \A n \in 1..N : s[Nth(I, n)] \in X
  BY <1>1, <1>5
<1>8. Picked(s, I) \in [1..N -> X]
  BY <1>6, <1>7
<1>9. Picked(s, I) \in Seq(X) /\ Len(Picked(s, I)) = N
  <2> HIDE DEF N
  <2> QED
    BY <1>4, <1>8
<1>10. \A i \in I : Nth(I, Place(I, i)) = i
  <2> SUFFICES ASSUME NEW i \in I PROVE Nth(I, Place(I, i)) = i
    OBVIOUS
  <2> DEFINE k == Nth(I, Place(I, i))
  <2>1. k \in I /\ Place(I, k) = Place(I, i)
    BY <1>4, <1>5
  <2> HIDE DEF k
  <2>2. ~(k < i) /\ ~(i < k)
    BY <1>4, <2>1
  <2>3. k = i
    BY <1>3, <2>1, <2>2
  <2> QED
    BY <2>3 DEF k
<1> HIDE DEF N
<1>11. \A n \in 1..N : Picked(s, I)[n] = s[Nth(I, n)]
  BY <1>6
<1>12. \A i \in I : Picked(s, I)[Place(I, i)] = s[i] /\ Place(I, i) \in 1..N
  BY <1>4, <1>10, <1>11
<1>13. \A n \in 1..N : \E i \in I : Picked(s, I)[n] = s[i] /\ Place(I, i) = n
  BY <1>5, <1>11
<1> QED
  BY <1>2, <1>4, <1>6, <1>9, <1>12, <1>13 DEF N

\* What a set of indices picks, as a set.
LEMMA PickedSet ==
    ASSUME NEW X, NEW s \in Seq(X), NEW I \in SUBSET DOMAIN s
    PROVE  ToSet(Picked(s, I)) = {s[i] : i \in I}
<1>1. \A x \in ToSet(Picked(s, I)) : \E i \in I : x = s[i]
  BY PickedElements DEF ToSet
<1>2. ASSUME NEW i \in I
      PROVE  \E n \in DOMAIN Picked(s, I) : Picked(s, I)[n] = s[i]
  <2>1. Picked(s, I)[Place(I, i)] = s[i] /\ Place(I, i) \in DOMAIN Picked(s, I)
    BY PickedElements
  <2> QED
    BY <2>1
<1> QED
  BY <1>1, <1>2 DEF ToSet

-----------------------------------------------------------------------------
(* FlattenSeq: the sequences of a sequence, one behind the other.          *)

\* g tells what the first sequences give, up to each of them.
Joins(seqs, g) ==
    /\ g[1] = seqs[1]
    /\ \A i \in 2..Len(seqs) : g[i] = g[i - 1] \o seqs[i]

Up(X, n) == [1..n -> Seq(X)]

\* The prefixes exist, the definition of FlattenSeq is about them, and there is one way
\* only to have them.
LEMMA Flattened ==
    ASSUME NEW X, NEW seqs \in Seq(Seq(X)), seqs # <<>>
    PROVE  \E g \in Up(X, Len(seqs)) : Joins(seqs, g) /\ FlattenSeq(seqs) = g[Len(seqs)]
<1> DEFINE n == Len(seqs)
<1>1. n \in Nat /\ n >= 1 /\ seqs \in [1..n -> Seq(X)]
  BY LenProperties, EmptySeq
<1> HIDE DEF n
<1> DEFINE Good(g, k) == /\ g \in Up(X, k)
                         /\ g[1] = seqs[1]
                         /\ \A i \in 2..k : g[i] = g[i - 1] \o seqs[i]
           S == {k \in 1..n : \E g : Good(g, k)}
<1>2. 1 \in S
  <2> DEFINE g == [i \in 1..1 |-> seqs[1]]
  <2>1. g \in Up(X, 1)
    BY <1>1 DEF Up
  <2>2. g[1] = seqs[1] /\ 2..1 = {}
    OBVIOUS
  <2> HIDE DEF g
  <2>3. Good(g, 1)
    BY <2>1, <2>2
  <2>4. \E h : Good(h, 1)
    BY <2>3
  <2> HIDE DEF Good
  <2> QED
    BY <1>1, <2>4
<1>3. ASSUME NEW k \in 1..n, k \in S, k < n
      PROVE  k + 1 \in S
  <2>1. PICK g : Good(g, k)
    BY <1>3
  <2> DEFINE h == [i \in 1..(k + 1) |-> IF i = k + 1 THEN g[k] \o seqs[k + 1] ELSE g[i]]
  <2>2. k + 1 \in 1..n
    BY <1>1, <1>3
  <2>3. g[k] \o seqs[k + 1] \in Seq(X)
    <3>1. g[k] \in Seq(X) /\ seqs[k + 1] \in Seq(X)
      BY <1>1, <2>1, <2>2 DEF Up
    <3> QED
      BY <3>1, ConcatProperties
  <2>4. \A i \in 1..(k + 1) : i # k + 1 => i \in 1..k
    BY <1>1
  <2>5. h \in Up(X, k + 1)
    BY <2>1, <2>3, <2>4 DEF Up
  <2>6. \A i \in 1..k : h[i] = g[i]
    BY <1>1
  <2>7. h[k + 1] = g[k] \o seqs[k + 1]
    <3>1. k + 1 \in 1..(k + 1)
      BY <1>1
    <3> QED
      BY <3>1, Zenon
  <2> HIDE DEF h
  <2>8. \A i \in 2..(k + 1) : h[i] = h[i - 1] \o seqs[i]
    <3> SUFFICES ASSUME NEW i \in 2..(k + 1) PROVE h[i] = h[i - 1] \o seqs[i]
      OBVIOUS
    <3>1. CASE i = k + 1
      <4>1. h[k] = g[k] /\ i - 1 = k
        BY <2>6, <3>1
      <4> QED
        BY <2>7, <3>1, <4>1
    <3>2. CASE i # k + 1
      <4>1. i \in 2..k /\ i - 1 \in 1..k /\ i \in 1..k
        BY <3>2
      <4> QED
        BY <2>1, <2>6, <4>1
    <3> QED
      BY <3>1, <3>2
  <2>9. h[1] = seqs[1]
    BY <2>1, <2>6
  <2> QED
    BY <2>2, <2>5, <2>8, <2>9
<1>4. n \in S
  <2> HIDE DEF S
  <2>1. 1..n \subseteq S
    BY <1>1, <1>2, <1>3, Induction
  <2> QED
    BY <1>1, <2>1
<1>5. PICK g : Good(g, n)
  BY <1>4
<1>6. g = [i \in 1..n |-> IF i = 1 THEN seqs[i] ELSE g[i - 1] \o seqs[i]]
  <2>1. \A i \in 1..n : g[i] = IF i = 1 THEN seqs[i] ELSE g[i - 1] \o seqs[i]
    <3>1. \A i \in 1..n : i # 1 => i \in 2..n
      BY <1>1
    <3> QED
      BY <1>5, <3>1
  <2> QED
    BY <1>5, <2>1 DEF Up
<1> DEFINE f == CHOOSE f : f = [i \in 1..n |-> IF i = 1 THEN seqs[i] ELSE f[i - 1] \o seqs[i]]
<1>7. FlattenSeq(seqs) = f[n]
  BY <1>1 DEF FlattenSeq, n
<1>8. f = [i \in 1..n |-> IF i = 1 THEN seqs[i] ELSE f[i - 1] \o seqs[i]]
  <2> HIDE DEF Good
  <2> QED
    BY <1>6
<1> HIDE DEF f
<1> DEFINE E == {k \in 1..n : f[k] = g[k]}
<1>9. 1 \in E
  BY <1>1, <1>5, <1>8
<1>10. ASSUME NEW k \in 1..n, k \in E, k < n
       PROVE  k + 1 \in E
  <2>1. k + 1 \in 1..n /\ k + 1 \in 2..n /\ (k + 1) - 1 = k /\ k + 1 # 1
    BY <1>1, <1>10
  <2>2. f[k + 1] = f[k] \o seqs[k + 1]
    BY <1>8, <2>1
  <2>3. g[k + 1] = g[k] \o seqs[k + 1]
    BY <1>5, <2>1
  <2> QED
    BY <1>10, <2>1, <2>2, <2>3
<1>11. n \in E
  <2> HIDE DEF E
  <2>1. 1..n \subseteq E
    BY <1>1, <1>9, <1>10, Induction
  <2> QED
    BY <1>1, <2>1
<1>12. FlattenSeq(seqs) = g[n]
  BY <1>7, <1>11
<1> QED
  BY <1>5, <1>12 DEF Joins, n

-----------------------------------------------------------------------------
(* Where FlattenSeq puts the elements.                                     *)

LEMMA Joined ==
    ASSUME NEW X, NEW s \in Seq(X), NEW t \in Seq(X)
    PROVE  /\ Len(s) \in Nat /\ Len(t) \in Nat /\ Len(s \o t) = Len(s) + Len(t)
           /\ \A p \in 1..Len(s) : (s \o t)[p] = s[p]
           /\ \A m \in 1..Len(t) : (s \o t)[Len(s) + m] = t[m]
<1> DEFINE a == Len(s)
           b == Len(t)
<1>1. a \in Nat /\ b \in Nat
  BY LenProperties
<1>2. /\ Len(s \o t) = a + b
      /\ \A p \in 1..(a + b) : (s \o t)[p] = IF p <= a THEN s[p] ELSE t[p - a]
  BY ConcatProperties
<1> HIDE DEF a, b
<1>3. ASSUME NEW p \in 1..a
      PROVE  (s \o t)[p] = s[p]
  <2>1. p \in 1..(a + b) /\ p <= a
    BY <1>1
  <2> QED
    BY <1>2, <2>1
<1>4. ASSUME NEW m \in 1..b
      PROVE  (s \o t)[a + m] = t[m]
  <2> DEFINE q == a + m
  <2>1. q \in 1..(a + b) /\ ~(q <= a) /\ q - a = m
    BY <1>1
  <2> HIDE DEF q
  <2>2. (s \o t)[q] = t[q - a]
    BY <1>2, <2>1
  <2>3. (s \o t)[q] = t[m]
    BY <2>1, <2>2, Zenon
  <2> QED
    BY <2>3 DEF q
<1> QED
  BY <1>1, <1>2, <1>3, <1>4 DEF a, b

Start(seqs, g, i) == Len(g[i]) - Len(seqs[i])

\* The whole keeps the order of the parts, and each element at its distance from the start
\* of its part.
InPlace(seqs, g, whole) ==
    /\ \A i \in 1..Len(seqs) : Start(seqs, g, i) \in Nat /\ Len(g[i]) <= Len(whole)
    /\ \A i, k \in 1..Len(seqs) : i < k => Len(g[i]) <= Start(seqs, g, k)
    /\ \A i \in 1..Len(seqs) : \A m \in 1..Len(seqs[i]) :
            whole[Start(seqs, g, i) + m] = seqs[i][m]
    /\ \A p \in 1..Len(whole) : \E i \in 1..Len(seqs) : \E m \in 1..Len(seqs[i]) :
            p = Start(seqs, g, i) + m

LEMMA Positions ==
    ASSUME NEW X, NEW seqs \in Seq(Seq(X)), seqs # <<>>,
           NEW g \in Up(X, Len(seqs)), Joins(seqs, g)
    PROVE  g[Len(seqs)] \in Seq(X) /\ InPlace(seqs, g, g[Len(seqs)])
<1> DEFINE n == Len(seqs)
           St(i) == Start(seqs, g, i)
<1>1. n \in Nat /\ n >= 1 /\ \A i \in 1..n : seqs[i] \in Seq(X) /\ Len(seqs[i]) \in Nat
  BY LenProperties, EmptySeq
<1>2. \A i \in 1..n : g[i] \in Seq(X) /\ Len(g[i]) \in Nat
  BY LenProperties DEF Up
<1>3. g[1] = seqs[1] /\ St(1) = 0
  BY <1>1 DEF Joins, Start
<1> HIDE DEF n
<1>4. ASSUME NEW k \in 1..n, k < n
      PROVE  /\ k + 1 \in 1..n /\ St(k + 1) = Len(g[k])
             /\ Len(g[k + 1]) = Len(g[k]) + Len(seqs[k + 1])
             /\ \A p \in 1..Len(g[k]) : g[k + 1][p] = g[k][p]
             /\ \A m \in 1..Len(seqs[k + 1]) : g[k + 1][Len(g[k]) + m] = seqs[k + 1][m]
  <2>1. k + 1 \in 2..n /\ k + 1 \in 1..n /\ (k + 1) - 1 = k
    BY <1>1, <1>4
  <2>2. g[k + 1] = g[k] \o seqs[k + 1]
    BY <2>1 DEF Joins, n
  <2>3. g[k] \in Seq(X) /\ seqs[k + 1] \in Seq(X) /\ Len(g[k]) \in Nat /\ Len(seqs[k + 1]) \in Nat
    BY <1>1, <1>2, <2>1
  <2>4. /\ Len(g[k + 1]) = Len(g[k]) + Len(seqs[k + 1])
        /\ \A p \in 1..Len(g[k]) : g[k + 1][p] = g[k][p]
        /\ \A m \in 1..Len(seqs[k + 1]) : g[k + 1][Len(g[k]) + m] = seqs[k + 1][m]
    <3> DEFINE u == g[k]
               w == seqs[k + 1]
    <3>1. /\ Len(u \o w) = Len(u) + Len(w)
          /\ \A p \in 1..Len(u) : (u \o w)[p] = u[p]
          /\ \A m \in 1..Len(w) : (u \o w)[Len(u) + m] = w[m]
      <4>1. u \in Seq(X) /\ w \in Seq(X)
        BY <2>3
      <4> HIDE DEF u, w
      <4> QED
        BY <4>1, Joined
    <3> QED
      BY <2>2, <3>1, Zenon
  <2>5. St(k + 1) = Len(g[k])
    BY <2>3, <2>4 DEF Start
  <2> HIDE DEF St
  <2> QED
    BY <2>1, <2>4, <2>5
<1> DEFINE P(k) ==
      /\ \A i \in 1..k : St(i) \in Nat /\ Len(g[i]) <= Len(g[k])
      /\ \A i, j \in 1..k : i < j => Len(g[i]) <= St(j)
      /\ \A i \in 1..k : \A m \in 1..Len(seqs[i]) : g[k][St(i) + m] = seqs[i][m]
      /\ \A p \in 1..Len(g[k]) : \E i \in 1..k : \E m \in 1..Len(seqs[i]) : p = St(i) + m
           S == {k \in 1..n : P(k)}
<1>5. P(1)
  <2>1. \A i \in 1..1 : i = 1
    OBVIOUS
  <2>2. 1 \in 1..n
    BY <1>1
  <2> HIDE DEF St
  <2> QED
    BY <1>1, <1>2, <1>3, <2>1, <2>2
<1>6. ASSUME NEW k \in 1..n, P(k), k < n
      PROVE  P(k + 1)
  <2>1. /\ k + 1 \in 1..n /\ St(k + 1) = Len(g[k])
        /\ Len(g[k + 1]) = Len(g[k]) + Len(seqs[k + 1])
        /\ \A p \in 1..Len(g[k]) : g[k + 1][p] = g[k][p]
        /\ \A m \in 1..Len(seqs[k + 1]) : g[k + 1][Len(g[k]) + m] = seqs[k + 1][m]
    <3> HIDE DEF St
    <3> QED
      BY <1>4, <1>6
  <2>2. \A i \in 1..n : /\ Len(g[i]) \in Nat /\ Len(seqs[i]) \in Nat
                       /\ Len(g[i]) = St(i) + Len(seqs[i])
    BY <1>1, <1>2 DEF Start
  <2> DEFINE a == Len(g[k])
             b == Len(seqs[k + 1])
  <2>3. a \in Nat /\ b \in Nat /\ Len(g[k + 1]) = a + b /\ a <= a + b
    <3>1. a \in Nat /\ b \in Nat
      BY <2>1, <2>2, Zenon
    <3>2. Len(g[k + 1]) = a + b
      BY <2>1, Zenon
    <3> HIDE DEF a, b
    <3> QED
      BY <3>1, <3>2
  <2>4. /\ \A i \in 1..(k + 1) : i = k + 1 \/ i \in 1..k
        /\ \A i \in 1..k : i \in 1..(k + 1) /\ i \in 1..n /\ i # k + 1
        /\ k + 1 \in 1..(k + 1)
    BY <1>1
  <2> HIDE DEF St, a, b
  <2>5. ASSUME NEW i \in 1..(k + 1)
        PROVE  St(i) \in Nat /\ Len(g[i]) <= Len(g[k + 1])
    <3>1. CASE i = k + 1
      <4>1. St(i) = a /\ Len(g[i]) = a + b
        BY <2>1, <2>3, <3>1, Zenon DEF a
      <4> QED
        BY <2>3, <3>1, <4>1
    <3>2. CASE i \in 1..k
      <4>1. St(i) \in Nat /\ Len(g[i]) <= a /\ Len(g[i]) \in Nat
        BY <1>6, <2>2, <2>4, <3>2 DEF a
      <4> QED
        BY <2>3, <4>1
    <3> QED
      BY <2>4, <3>1, <3>2
  <2>6. ASSUME NEW i \in 1..(k + 1), NEW j \in 1..(k + 1), i < j
        PROVE  Len(g[i]) <= St(j)
    <3>1. i \in 1..k
      BY <2>6
    <3>2. CASE j = k + 1
      <4>1. Len(g[i]) <= Len(g[k])
        BY <1>6, <3>1
      <4> QED
        BY <2>1, <3>2, <4>1, Zenon
    <3>3. CASE j \in 1..k
      BY <1>6, <2>6, <3>1, <3>3
    <3> QED
      BY <2>4, <3>2, <3>3
  <2>7. ASSUME NEW i \in 1..(k + 1), NEW m \in 1..Len(seqs[i])
        PROVE  g[k + 1][St(i) + m] = seqs[i][m]
    <3>1. CASE i = k + 1
      BY <2>1, <3>1, Zenon
    <3>2. CASE i \in 1..k
      <4>1. g[k][St(i) + m] = seqs[i][m]
        BY <1>6, <3>2
      <4> DEFINE x == St(i)
                 y == Len(seqs[i])
      <4>2. x \in Nat /\ y \in Nat /\ x + y <= a
        BY <1>6, <2>2, <2>4, <3>2 DEF a
      <4>3. m \in 1..y
        OBVIOUS
      <4> HIDE DEF x, y
      <4>4. x + m \in 1..a
        BY <2>3, <4>2, <4>3
      <4>5. g[k + 1][St(i) + m] = g[k][St(i) + m]
        BY <2>1, <4>4 DEF a, x
      <4> QED
        BY <4>1, <4>5
    <3> QED
      BY <2>4, <3>1, <3>2
  <2>8. ASSUME NEW p \in 1..Len(g[k + 1])
        PROVE  \E i \in 1..(k + 1) : \E m \in 1..Len(seqs[i]) : p = St(i) + m
    <3>1. p \in 1..(a + b)
      BY <2>3
    <3>2. CASE p <= a
      <4>1. p \in 1..Len(g[k])
        BY <2>3, <3>1, <3>2 DEF a
      <4>2. PICK i \in 1..k : \E m \in 1..Len(seqs[i]) : p = St(i) + m
        BY <1>6, <4>1
      <4> QED
        BY <2>4, <4>2
    <3>3. CASE p > a
      <4> DEFINE m == p - a
      <4>1. m \in 1..b /\ p = a + m
        BY <2>3, <3>1, <3>3
      <4> HIDE DEF m
      <4>2. m \in 1..Len(seqs[k + 1]) /\ p = St(k + 1) + m
        BY <2>1, <4>1 DEF a, b
      <4> QED
        BY <2>4, <4>2
    <3> QED
      BY <2>3, <3>1, <3>2, <3>3
  <2> QED
    BY <2>5, <2>6, <2>7, <2>8
<1>7. P(n)
  <2> HIDE DEF P
  <2>1. 1 \in S /\ \A k \in 1..n : k \in S /\ k < n => k + 1 \in S
    BY <1>1, <1>4, <1>5, <1>6
  <2> HIDE DEF S
  <2>2. 1..n \subseteq S
    BY <1>1, <2>1, Induction
  <2>3. n \in S
    BY <1>1, <2>2
  <2> QED
    BY <2>3 DEF S
<1> QED
  BY <1>1, <1>2, <1>7 DEF n, InPlace

-----------------------------------------------------------------------------
(* The providers.                                                          *)

\* A sequence without repetitions has as many elements as places.
LEMMA OnceEach ==
    ASSUME NEW X, NEW s \in Seq(X), \A m, n \in 1..Len(s) : m < n => s[m] # s[n]
    PROVE  IsFiniteSet(ToSet(s)) /\ Cardinality(ToSet(s)) = Len(s)
<1> DEFINE N == 1..Len(s)
           T == ToSet(s)
<1>1. Len(s) \in Nat /\ DOMAIN s = N /\ s \in [N -> X]
  BY LenProperties
<1>2. T = {s[i] : i \in N}
  BY <1>1 DEF ToSet
<1>3. IsFiniteSet(N) /\ Cardinality(N) = Len(s)
  BY <1>1, FS_Interval
<1>4. \A m, n \in N : s[m] = s[n] => m = n
  BY <1>1
<1> HIDE DEF N, T
<1>5. s \in [N -> T] /\ \A t \in T : \E n \in N : s[n] = t
  BY <1>1, <1>2
<1>6. s \in Surjection(N, T)
  BY <1>5 DEF Surjection
<1>7. s \in Injection(N, T)
  BY <1>4, <1>5 DEF Injection, IsInjective
<1> QED
  BY <1>3, <1>6, <1>7, FS_Surjection DEF T

\* The elements of a sequence are finitely many, and not more than its places.
LEMMA ManyAtMost ==
    ASSUME NEW X, NEW s \in Seq(X)
    PROVE  /\ Len(s) \in Nat /\ ToSet(s) \in SUBSET X
           /\ IsFiniteSet(ToSet(s)) /\ Cardinality(ToSet(s)) <= Len(s)
<1> DEFINE N == 1..Len(s)
           T == ToSet(s)
<1>1. Len(s) \in Nat /\ DOMAIN s = N /\ s \in [N -> X]
  BY LenProperties
<1>2. T = {s[i] : i \in N}
  BY <1>1 DEF ToSet
<1>3. IsFiniteSet(N) /\ Cardinality(N) = Len(s)
  BY <1>1, FS_Interval
<1>4. T \in SUBSET X
  BY <1>1, <1>2
<1> HIDE DEF N, T
<1>5. s \in [N -> T] /\ \A t \in T : \E n \in N : s[n] = t
  BY <1>1, <1>2
<1>6. s \in Surjection(N, T)
  BY <1>5 DEF Surjection
<1> QED
  BY <1>1, <1>3, <1>4, <1>6, FS_Surjection DEF T

Drawn(r, dice) ==
    [ci \in 1..Len(Named(r.companies)) |->
        ContactsOf(Named(r.companies)[ci], ci, dice[ci], r.roles)]

Request(r) == r.companies \in Seq(Companies) /\ r.roles \in Seq(Titles)

LEMMA NamedCompanies ==
    ASSUME NEW companies \in Seq(Companies)
    PROVE  /\ Named(companies) \in Seq(Companies)
           /\ \A ci \in 1..Len(Named(companies)) :
                Named(companies)[ci] # "blank" /\ Named(companies)[ci] \in ToSet(companies)
<1> DEFINE I == {n \in DOMAIN companies : companies[n] # "blank"}
<1>1. I \in SUBSET DOMAIN companies
  OBVIOUS
<1>2. Named(companies) = Picked(companies, I)
  BY DEF Named
<1>3. \A i \in I : companies[i] # "blank" /\ companies[i] \in ToSet(companies)
  BY DEF ToSet
<1> HIDE DEF I
<1>4. /\ Picked(companies, I) \in Seq(Companies)
      /\ Len(Picked(companies, I)) = Cardinality(I)
      /\ \A n \in 1..Cardinality(I) : \E i \in I : Picked(companies, I)[n] = companies[i]
  BY <1>1, PickedElements
<1> QED
  BY <1>2, <1>3, <1>4

\* A list of the contacts of company ci, the last of them junk.
CompanyList(s, ci) ==
    /\ s \in Seq(CandidateLeads) /\ Len(s) \in Nat \ {0}
    /\ \A i \in 1..Len(s) : s[i].ci = ci /\ s[i].i = i
    /\ s[Len(s)].mailbox = "junk"

LEMMA CompanyContacts ==
    ASSUME NEW company \in Domains, NEW ci \in Nat, NEW roles \in Seq(Titles),
           NEW count \in Fanout, NEW roll \in Rolls(count)
    PROVE  CompanyList(ContactsOf(company, ci, roll, roles), ci)
<1> DEFINE s == ContactsOf(company, ci, roll, roles)
<1>1. count \in Nat \ {0}
  BY FanoutAssumption
<1>2. roll \in [1..count -> {"junk", "named"}] /\ roll[count] = "junk"
  BY DEF Rolls
<1>3. Len(roll) = count
  BY <1>1, <1>2
<1>4. s = [i \in 1..count |-> Contact(company, ci, i, roll[i], roles)]
  BY <1>3 DEF ContactsOf
<1>5. ASSUME NEW i \in 1..count
      PROVE  Contact(company, ci, i, roll[i], roles) \in CandidateLeads
  <2>1. (IF roles = <<>> THEN {4} ELSE roles[((i - 1) % Len(roles)) + 1]) \in Titles
    <3>1. CASE roles = <<>>
      BY <3>1 DEF Titles, Tiers
    <3>2. CASE roles # <<>>
      <4>1. Len(roles) \in Nat \ {0} /\ roles \in [1..Len(roles) -> Titles]
        BY <3>2, EmptySeq, LenProperties
      <4>2. ((i - 1) % Len(roles)) + 1 \in 1..Len(roles)
        <5> DEFINE L == Len(roles)
        <5>1. L \in Nat \ {0} /\ i - 1 \in Nat
          BY <1>1, <4>1
        <5> HIDE DEF L
        <5>2. (i - 1) % L \in 0..(L - 1)
          BY <5>1
        <5>3. ((i - 1) % L) + 1 \in 1..L
          BY <5>1, <5>2
        <5> QED
          BY <5>3 DEF L
      <4> QED
        BY <3>2, <4>1, <4>2
    <3> QED
      BY <3>1, <3>2
  <2>2. i \in Nat /\ roll[i] \in Mailboxes
    BY <1>1, <1>2 DEF Mailboxes
  <2> QED
    BY <2>1, <2>2 DEF Contact, CandidateLeads
<1>6. \A i \in 1..count : /\ s[i] = Contact(company, ci, i, roll[i], roles)
                          /\ s[i].ci = ci /\ s[i].i = i /\ s[i].mailbox = roll[i]
  BY <1>4 DEF Contact
<1> HIDE DEF s
<1>7. s \in [1..count -> CandidateLeads]
  BY <1>4, <1>5
<1>8. s \in Seq(CandidateLeads) /\ Len(s) = count
  BY <1>1, <1>7
<1>9. count \in 1..count
  BY <1>1
<1> QED
  BY <1>1, <1>2, <1>6, <1>8, <1>9 DEF s, CompanyList

\* The contacts of the companies of a request that does not fail.
LEMMA DrawnContacts ==
    ASSUME NEW r, Request(r), ~Fails(r.companies), "empty" \notin ToSet(Named(r.companies)),
           NEW dice \in DiceOf(r.companies)
    PROVE  /\ Drawn(r, dice) \in Seq(Seq(CandidateLeads))
           /\ Len(Drawn(r, dice)) = Len(Named(r.companies))
           /\ \A ci \in 1..Len(Named(r.companies)) : CompanyList(Drawn(r, dice)[ci], ci)
<1> DEFINE named == Named(r.companies)
           n == Len(named)
           seqs == Drawn(r, dice)
<1>1. /\ named \in Seq(Companies) /\ n \in Nat
      /\ \A ci \in 1..n : named[ci] # "blank" /\ named[ci] \in ToSet(r.companies)
  BY NamedCompanies, LenProperties DEF Request
<1>2. ASSUME NEW ci \in 1..n
      PROVE  named[ci] \in Domains
  <2>1. named[ci] \in Companies /\ named[ci] # "blank"
    BY <1>1, ElementOfSeq
  <2>2. named[ci] # "fail"
    BY <1>1 DEF Fails
  <2>3. named[ci] # "empty"
    <3>1. DOMAIN named = 1..n
      BY <1>1, LenProperties
    <3> QED
      BY <3>1 DEF ToSet
  <2> QED
    BY <2>1, <2>2, <2>3 DEF Companies, Domains
<1>3. \A ci \in 1..n : \E count \in Fanout : dice[ci] \in Rolls(count)
  BY DEF DiceOf
<1>4. seqs = [ci \in 1..n |-> ContactsOf(named[ci], ci, dice[ci], r.roles)]
  BY DEF Drawn
<1>5. ASSUME NEW ci \in 1..n
      PROVE  CompanyList(seqs[ci], ci)
  <2>1. PICK count \in Fanout : dice[ci] \in Rolls(count)
    BY <1>3
  <2>2. seqs[ci] = ContactsOf(named[ci], ci, dice[ci], r.roles) /\ ci \in Nat
    BY <1>1, <1>4
  <2>3. named[ci] \in Domains /\ r.roles \in Seq(Titles)
    BY <1>2 DEF Request
  <2> HIDE DEF seqs, named, n
  <2> QED
    BY <2>1, <2>2, <2>3, CompanyContacts
<1> HIDE DEF seqs, named, n
<1>6. seqs \in [1..n -> Seq(CandidateLeads)]
  BY <1>4, <1>5 DEF CompanyList
<1>7. seqs \in Seq(Seq(CandidateLeads)) /\ Len(seqs) = n
  BY <1>1, <1>6
<1> QED
  BY <1>5, <1>7 DEF seqs, named, n

\* Mailboxes of the first candidates: a company whose contacts are not all beyond the cap
\* has its junk contact among them.
JunkKept(r, of) ==
    "empty" \in ToSet(Named(r.companies)) \/
    \A ci \in 1..Len(Named(r.companies)) :
        Cardinality(of) < MaxCandidates \/ (\E c \in of : c.ci > ci) =>
            \E c \in of : c.ci = ci /\ c.mailbox = "junk"

\* What discover returns: candidates, at most as many as the cap, and junk of each company
\* that the cap does not cut.
LEMMA Discovered ==
    ASSUME NEW r, Request(r), ~Fails(r.companies), NEW dice \in DiceOf(r.companies)
    PROVE  /\ Discover(r, dice) \in Seq(CandidateLeads)
           /\ Len(Discover(r, dice)) <= MaxCandidates
           /\ JunkKept(r, ToSet(Discover(r, dice)))
<1> DEFINE named == Named(r.companies)
           n == Len(named)
<1> USE CapAssumption
<1>1. CASE "empty" \in ToSet(named)
  <2>1. Discover(r, dice) = <<>>
    BY <1>1 DEF Discover
  <2>2. <<>> \in Seq(CandidateLeads) /\ Len(<<>>) <= MaxCandidates
    OBVIOUS
  <2>3. JunkKept(r, ToSet(Discover(r, dice)))
    BY <1>1 DEF JunkKept
  <2> DEFINE d == Discover(r, dice)
  <2>4. d = <<>>
    BY <2>1
  <2> HIDE DEF d
  <2>5. d \in Seq(CandidateLeads) /\ Len(d) <= MaxCandidates
    BY <2>2, <2>4
  <2> QED
    BY <2>3, <2>5 DEF d
<1>2. CASE "empty" \notin ToSet(named) /\ n = 0
  <2>1. Drawn(r, dice) = <<>>
    BY <1>2 DEF Drawn
  <2>2. FlattenSeq(Drawn(r, dice)) = <<>>
    BY <2>1 DEF FlattenSeq
  <2>3. Discover(r, dice) = Cut(<<>>)
    BY <1>2, <2>2 DEF Discover, Drawn
  <2>4. Cut(<<>>) = <<>>
    BY SubSeqEmpty DEF Cut
  <2> DEFINE d == Discover(r, dice)
  <2>5. d = <<>>
    BY <2>3, <2>4
  <2> HIDE DEF d
  <2>6. d \in Seq(CandidateLeads) /\ Len(d) <= MaxCandidates
    BY <2>5
  <2>7. 1..n = {}
    BY <1>2
  <2> HIDE DEF n
  <2>8. JunkKept(r, ToSet(d))
    BY <2>7 DEF JunkKept, n
  <2> QED
    BY <2>6, <2>8 DEF d
<1>3. CASE "empty" \notin ToSet(named) /\ n # 0
  <2> DEFINE seqs == Drawn(r, dice)
             out == FlattenSeq(seqs)
             d == Discover(r, dice)
             top == IF Len(out) < MaxCandidates THEN Len(out) ELSE MaxCandidates
  <2>1. /\ seqs \in Seq(Seq(CandidateLeads)) /\ Len(seqs) = n
        /\ \A ci \in 1..n : CompanyList(seqs[ci], ci)
    BY <1>3, DrawnContacts
  <2>2. d = SubSeq(out, 1, top)
    BY <1>3 DEF Discover, Drawn, Cut
  <2>3. n \in Nat
    BY <2>1, LenProperties
  <2> HIDE DEF seqs
  <2>4. seqs # <<>>
    BY <1>3, <2>1
  <2> HIDE DEF n
  <2>5. PICK g \in Up(CandidateLeads, n) : Joins(seqs, g) /\ out = g[n]
    BY <2>1, <2>4, Flattened
  <2> DEFINE St(i) == Start(seqs, g, i)
  <2>6. /\ out \in Seq(CandidateLeads)
        /\ \A i \in 1..n : St(i) \in Nat /\ Len(g[i]) <= Len(out)
        /\ \A i, k \in 1..n : i < k => Len(g[i]) <= St(k)
        /\ \A i \in 1..n : \A m \in 1..Len(seqs[i]) : out[St(i) + m] = seqs[i][m]
        /\ \A p \in 1..Len(out) : \E i \in 1..n : \E m \in 1..Len(seqs[i]) : p = St(i) + m
    <3> HIDE DEF out
    <3>1. g \in Up(CandidateLeads, Len(seqs)) /\ Joins(seqs, g)
      BY <2>1, <2>5
    <3>2. g[Len(seqs)] \in Seq(CandidateLeads) /\ InPlace(seqs, g, g[Len(seqs)])
      BY <2>1, <2>4, <3>1, Positions
    <3>3. out \in Seq(CandidateLeads) /\ InPlace(seqs, g, out)
      BY <2>1, <2>5, <3>2
    <3> QED
      BY <2>1, <3>3, Zenon DEF InPlace
  <2>7. \A i \in 1..n : Len(g[i]) \in Nat /\ Len(g[i]) = St(i) + Len(seqs[i])
    <3>1. \A i \in 1..n : Len(g[i]) \in Nat
      BY <2>5, LenProperties DEF Up
    <3> QED
      BY <2>1, <3>1 DEF Start, CompanyList
  <2> HIDE DEF St, out, d
  <2>8. Len(out) \in Nat
    BY <2>6, LenProperties
  <2>9. top \in Nat /\ top <= MaxCandidates /\ top <= Len(out)
    BY <2>8
  <2>10. /\ d \in Seq(CandidateLeads) /\ Len(d) = top
         /\ \A p \in 1..top : d[p] = out[p]
    <3>1. \A p \in 1..top : out[p] \in CandidateLeads
      BY <2>6, <2>8, <2>9, ElementOfSeq
    <3> HIDE DEF top
    <3>2. /\ SubSeq(out, 1, top) \in Seq(CandidateLeads)
          /\ Len(SubSeq(out, 1, top)) = IF 1 <= top THEN top - 1 + 1 ELSE 0
          /\ \A p \in 1..(top - 1 + 1) : SubSeq(out, 1, top)[p] = out[1 + p - 1]
      BY <2>9, <3>1, SubSeqProperties
    <3> QED
      BY <2>2, <2>9, <3>2
  <2> HIDE DEF top
  \* The place of a candidate follows from its key.
  <2>11. ASSUME NEW p \in 1..top
         PROVE  \E i \in 1..n : \E m \in 1..Len(seqs[i]) :
                    p = St(i) + m /\ d[p].ci = i /\ d[p].i = m
    <3>1. p \in 1..Len(out)
      BY <2>8, <2>9
    <3>2. PICK i \in 1..n : \E m \in 1..Len(seqs[i]) : p = St(i) + m
      BY <2>6, <3>1
    <3>3. PICK m \in 1..Len(seqs[i]) : p = St(i) + m
      BY <3>2
    <3>4. d[p] = seqs[i][m]
      BY <2>6, <2>10, <3>3
    <3>5. d[p].ci = i /\ d[p].i = m
      BY <2>1, <3>4 DEF CompanyList
    <3> QED
      BY <3>3, <3>5
  <2>12. IsFiniteSet(ToSet(d)) /\ Cardinality(ToSet(d)) = top
    <3>1. ASSUME NEW p \in 1..top, NEW q \in 1..top, p < q
          PROVE  d[p] # d[q]
      <4>1. \A x \in 1..top : x = St(d[x].ci) + d[x].i
        BY <2>11
      <4>2. p = St(d[p].ci) + d[p].i /\ q = St(d[q].ci) + d[q].i
        BY <4>1
      <4>3. p # q
        BY <2>9, <3>1
      <4> QED
        BY <4>2, <4>3
    <3> QED
      BY <2>10, <3>1, OnceEach
  <2>13. ASSUME NEW ci \in 1..n,
                Cardinality(ToSet(d)) < MaxCandidates \/ (\E c \in ToSet(d) : c.ci > ci)
         PROVE  \E c \in ToSet(d) : c.ci = ci /\ c.mailbox = "junk"
    <3> DEFINE L == Len(seqs[ci])
               P == Len(g[ci])
    <3>1. L \in Nat \ {0} /\ P \in Nat /\ P = St(ci) + L /\ P <= Len(out) /\ St(ci) \in Nat
      BY <2>1, <2>6, <2>7 DEF CompanyList
    <3>2. out[P] = seqs[ci][L] /\ L \in 1..L
      <4>1. L \in 1..L
        BY <3>1
      <4>2. out[St(ci) + L] = seqs[ci][L]
        BY <2>6, <4>1
      <4> QED
        BY <3>1, <4>1, <4>2, Zenon
    <3>3. seqs[ci][L].ci = ci /\ seqs[ci][L].mailbox = "junk"
      BY <2>1, <3>2 DEF CompanyList
    <3>4. P \in 1..top
      <4>1. CASE Cardinality(ToSet(d)) < MaxCandidates
        <5> HIDE DEF L, P
        <5>1. top = Len(out)
          BY <2>8, <2>12, <4>1 DEF top
        <5> QED
          BY <3>1, <5>1
      <4>2. CASE \E c \in ToSet(d) : c.ci > ci
        <5>1. PICK p \in 1..top : d[p].ci > ci
          <6>1. DOMAIN d = 1..top
            BY <2>10, LenProperties
          <6> QED
            BY <4>2, <6>1 DEF ToSet
        <5>2. PICK i \in 1..n : \E m \in 1..Len(seqs[i]) : p = St(i) + m /\ d[p].ci = i
          BY <2>11
        <5>3. PICK m \in 1..Len(seqs[i]) : p = St(i) + m /\ d[p].ci = i
          BY <5>2
        <5>4. P <= St(i) /\ St(i) \in Nat
          BY <2>6, <5>1, <5>3
        <5>5. m \in Nat /\ m >= 1
          BY <2>1 DEF CompanyList
        <5> DEFINE x == St(i)
        <5>6. p = x + m /\ P <= x /\ x \in Nat
          BY <5>3, <5>4
        <5> HIDE DEF L, P, x
        <5> QED
          BY <2>9, <3>1, <5>5, <5>6
      <4> QED
        BY <2>13, <4>1, <4>2
    <3>5. d[P] = seqs[ci][L]
      BY <2>10, <3>2, <3>4
    <3>6. d[P] \in ToSet(d)
      <4>1. DOMAIN d = 1..top
        BY <2>10, LenProperties
      <4> QED
        BY <3>4, <4>1 DEF ToSet
    <3> QED
      BY <3>3, <3>5, <3>6
  <2>14. JunkKept(r, ToSet(d))
    BY <2>13 DEF JunkKept, n
  <2> QED
    BY <2>9, <2>10, <2>14 DEF d
<1>4. n = 0 \/ n # 0
  OBVIOUS
<1> QED
  BY <1>1, <1>2, <1>3, <1>4

-----------------------------------------------------------------------------
(* The scorer.                                                             *)

LEMMA TitleTier ==
    ASSUME NEW title \in Titles
    PROVE  TitlePoints(title) \in {35, 28, 22, 12, 4}
<1>1. CASE title = {}
  BY <1>1 DEF TitlePoints
<1>2. CASE title # {}
  <2> DEFINE Top == CHOOSE t \in title : \A u \in title : t <= u
  <2>1. \A u \in title : u \in 1..4
    BY DEF Titles, Tiers
  <2>2. \E t \in title : \A u \in title : t <= u
    <3>1. CASE 1 \in title
      BY <3>1, <2>1
    <3>2. CASE 1 \notin title /\ 2 \in title
      BY <3>2, <2>1
    <3>3. CASE 1 \notin title /\ 2 \notin title /\ 3 \in title
      BY <3>3, <2>1
    <3>4. CASE 1 \notin title /\ 2 \notin title /\ 3 \notin title
      <4>1. \A u \in title : u = 4
        BY <3>4, <2>1
      <4> QED
        BY <4>1, <1>2
    <3> QED
      BY <3>1, <3>2, <3>3, <3>4
  <2>3. Top \in 1..4
    BY <2>1, <2>2
  <2>4. TitlePoints(title) = Seniority[Top]
    BY <1>2 DEF TitlePoints
  <2> HIDE DEF Top
  <2>5. Top = 1 \/ Top = 2 \/ Top = 3 \/ Top = 4
    BY <2>3
  <2> QED
    BY <2>4, <2>5 DEF Seniority
<1> QED
  BY <1>1, <1>2

\* "the factors that sum to it" (mock-verify.ts:31-32): whatever the candidate, its points
\* lie between 4 and 100, so that what the inbox lists under a score adds up to it.
THEOREM ScoreIsSum ==
    ASSUME NEW c \in CandidateLeads
    PROVE  /\ Points(Factors(c)) \in 4..100
           /\ ~Undeliverable(c) => Verify(c).score = Points(Verify(c).factors)
<1>1. c.title \in Titles
  BY DEF CandidateLeads
<1>2. TitlePoints(c.title) \in {35, 28, 22, 12, 4}
  BY <1>1, TitleTier
<1>3. DomainPoints(c.domain) \in {-25, 8}
  BY DEF DomainPoints
<1>4. MailboxPoints(c.mailbox) \in {-15, 10, 0}
  BY DEF MailboxPoints
<1>5. Points(Factors(c)) \in 4..100
  BY <1>2, <1>3, <1>4 DEF Points, Factors, BasePoints
<1>6. Clamped(Points(Factors(c))) = Points(Factors(c))
  BY <1>5 DEF Clamped
<1> QED
  BY <1>5, <1>6 DEF Verify
-----------------------------------------------------------------------------
(* The inductive invariant.                                                *)

\* Every score a factor list can have; a lead is as it was inserted, or as the verdict on
\* its candidate left it.
FactorRecords == [base : Int, title : Int, domain : Int, mailbox : Int, name : Int, source : Int]

AnyRow ==
    [job : Jobs, candidate : CandidateLeads, state : LeadStates, score : 0..100 \cup {Null},
     factors : FactorRecords \cup {Null}, reason : {"undeliverable", Null}]

Truthful(l) ==
    \/ l = NewLead(l.job, l.candidate)
    \/ l = Settled(NewLead(l.job, l.candidate), Verify(l.candidate))

TrueRows == {l \in AnyRow : Truthful(l)}

\* A row that was read has its candidate here, whatever became of its lead since.
Candidates == {l.candidate : l \in leads}

Once(s) == \A m, n \in 1..Len(s) : m < n => s[m] # s[n]

\* What a page has read, or is about to show.
Copy(s, known) ==
    /\ s \in Seq(TrueRows)
    /\ Once(s)
    /\ \A n \in 1..Len(s) : s[n].candidate \in known

OfJob(j) == {l \in leads : l.job = j}
CandidatesOf(j) == {l.candidate : l \in OfJob(j)}

ServerInv ==
    /\ request \in [Jobs -> (UNION {Requests[j] : j \in Jobs}) \cup {Null}]
    /\ \A j \in Jobs : request[j] \in Requests[j] \cup {Null}
    /\ found \in Seq(Jobs)
    /\ ToSet(found) \subseteq Made
    /\ leads \subseteq TrueRows /\ IsFiniteSet(leads)
    /\ \A l \in leads : l.job \in ToSet(found)
    /\ \A j \in ToSet(found) : JunkKept(request[j], CandidatesOf(j))
    /\ \A j \in Jobs : Cardinality(OfJob(j)) <= MaxCandidates

ScreenInv ==
    /\ screen = [page |-> screen.page, phase |-> screen.phase, jobs |-> screen.jobs,
                 leads |-> screen.leads, gotJobs |-> screen.gotJobs,
                 gotLeads |-> screen.gotLeads]
    /\ screen.page \in {"overview", "inbox"}
    /\ screen.phase \in {"loading", "ready", "error"}
    /\ screen.jobs \subseteq Made /\ Copy(screen.leads, Candidates)
    /\ screen.gotJobs # Null => screen.gotJobs \subseteq Made
    /\ screen.gotLeads # Null => Copy(screen.gotLeads, Candidates)
    /\ screen.phase # "loading" => screen.gotJobs = Null /\ screen.gotLeads = Null
    /\ screen.phase # "ready" => screen.jobs = {} /\ screen.leads = <<>>

ViewInv ==
    /\ view = [status |-> view.status, job |-> view.job, sort |-> view.sort,
               page |-> view.page, open |-> view.open]
    /\ view.status \in StateFilters /\ view.job \in JobFilters
    /\ view.sort \in DOMAIN NextSort /\ view.page \in Nat \ {0}
    /\ view.page <= PageCount(view)
    /\ view.open \subseteq Rows(view)
    /\ \A l \in view.open : HasEvidence(l) \/ IsRejected(l)
    /\ screen.phase # "ready" => view.page = 1 /\ view.open = {}

\* A job in the URL was made before the page began to read, so that the jobs it reads
\* have it.
LinkInv ==
    view.job \in Jobs \ {"all"} =>
        /\ view.job \in Made
        /\ screen.gotJobs # Null => view.job \in screen.gotJobs
        /\ screen.phase = "ready" => view.job \in screen.jobs

InboxInv == ServerInv /\ ScreenInv /\ ViewInv /\ LinkInv

-----------------------------------------------------------------------------
(* Rows.                                                                   *)

\* What a row says is what the providers said of its candidate.
LEMMA RowFacts ==
    ASSUME NEW l \in TrueRows
    PROVE  /\ l.job \in Jobs /\ l.candidate \in CandidateLeads /\ l.state \in LeadStates
           /\ l.state = "unverified_raw" => l = NewLead(l.job, l.candidate)
           /\ l.state = "verified" => /\ ~Undeliverable(l.candidate)
                                      /\ Points(l.factors) = l.score
           /\ l.candidate \in Candidates => l \in LeadRows
<1>1. l \in AnyRow /\ Truthful(l)
  BY DEF TrueRows
<1>2. l.job \in Jobs /\ l.candidate \in CandidateLeads /\ l.state \in LeadStates
  BY <1>1 DEF AnyRow
<1> DEFINE c == l.candidate
           v == Verify(c)
           new == NewLead(l.job, c)
           old == Settled(new, v)
<1>3. new.state = "unverified_raw" /\ new.factors = Null /\ new.score = Null
  BY DEF NewLead
<1>4. CASE l = new
  <2>1. l.state = "unverified_raw" /\ l.factors = Null
    BY <1>3, <1>4
  <2>2. l \in LeadRows
    BY <1>1, <2>1 DEF AnyRow, LeadRows
  <2> QED
    BY <1>2, <1>4, <2>1, <2>2
<1>5. CASE l = old /\ v.ok
  <2>1. old = [new EXCEPT !.state = "verified", !.score = v.score, !.factors = v.factors]
    BY <1>5 DEF Settled
  <2>2. old.state = "verified" /\ old.score = v.score /\ old.factors = v.factors
    <3> HIDE DEF v
    <3> QED
      BY <2>1 DEF NewLead
  <2>3. ~Undeliverable(c)
    BY <1>5 DEF Verify
  <2>4. v.score = Points(v.factors) /\ v.factors = Factors(c)
    BY <1>2, <2>3, ScoreIsSum DEF Verify
  <2>5. l.state = "verified" /\ Points(l.factors) = l.score /\ l.factors = Factors(c)
    <3> HIDE DEF old, v, c
    <3> QED
      BY <1>5, <2>2, <2>4
  <2>6. c \in Candidates => l.factors \in {Factors(k.candidate) : k \in leads}
    BY <2>5 DEF Candidates
  <2>7. c \in Candidates => l \in LeadRows
    BY <1>1, <2>6 DEF AnyRow, LeadRows
  <2> QED
    BY <1>2, <2>3, <2>5, <2>7
<1>6. CASE l = old /\ ~v.ok
  <2>1. old = [new EXCEPT !.state = "rejected", !.reason = "undeliverable"]
    BY <1>6 DEF Settled
  <2>2. old.state = "rejected" /\ old.factors = Null
    BY <2>1 DEF NewLead
  <2>3. l.state = "rejected" /\ l.factors = Null
    BY <1>6, <2>2
  <2>4. l \in LeadRows
    BY <1>1, <2>3 DEF AnyRow, LeadRows
  <2> QED
    BY <1>2, <2>3, <2>4
<1> QED
  BY <1>1, <1>4, <1>5, <1>6 DEF Truthful

\* The first row of a candidate, and its row once it is settled.
LEMMA NewRow ==
    ASSUME NEW j \in Jobs, NEW c \in CandidateLeads
    PROVE  /\ NewLead(j, c) \in TrueRows
           /\ NewLead(j, c).job = j /\ NewLead(j, c).candidate = c
<1> DEFINE l == NewLead(j, c)
<1>1. l \in AnyRow /\ l.job = j /\ l.candidate = c
  BY DEF NewLead, AnyRow, LeadStates
<1> HIDE DEF l
<1>2. Truthful(l)
  BY <1>1 DEF Truthful, l
<1> QED
  BY <1>1, <1>2 DEF TrueRows, l

LEMMA SettledRow ==
    ASSUME NEW l \in TrueRows, l.state = "unverified_raw"
    PROVE  LET new == Settled(l, Verify(l.candidate))
           IN  new \in TrueRows /\ new.job = l.job /\ new.candidate = l.candidate
<1> DEFINE c == l.candidate
           v == Verify(c)
           new == Settled(l, v)
<1>1. l = NewLead(l.job, c) /\ l.job \in Jobs /\ c \in CandidateLeads /\ l \in AnyRow
  BY RowFacts DEF TrueRows
<1>2. v.ok => /\ Factors(c) \in FactorRecords /\ v.factors = Factors(c)
              /\ v.score \in 0..100
  <2>1. Points(Factors(c)) \in 4..100
    BY <1>1, ScoreIsSum
  <2>2. Clamped(Points(Factors(c))) \in 0..100
    BY <2>1 DEF Clamped
  <2>3. Factors(c) \in FactorRecords
    <3>1. TitlePoints(c.title) \in Int
      BY <1>1, TitleTier DEF CandidateLeads
    <3> QED
      BY <3>1 DEF Factors, FactorRecords, BasePoints, DomainPoints, MailboxPoints
  <2> QED
    BY <2>2, <2>3 DEF Verify
<1>3. new \in AnyRow /\ new.job = l.job /\ new.candidate = c
  <2>1. CASE v.ok
    <3>1. new = [l EXCEPT !.state = "verified", !.score = v.score, !.factors = v.factors]
      BY <2>1 DEF Settled
    <3>2. v.factors \in FactorRecords /\ v.score \in 0..100
      BY <1>2, <2>1
    <3> HIDE DEF new, v, c
    <3> QED
      BY <1>1, <3>1, <3>2 DEF AnyRow, LeadStates, c
  <2>2. CASE ~v.ok
    <3>1. new = [l EXCEPT !.state = "rejected", !.reason = "undeliverable"]
      BY <2>2 DEF Settled
    <3> HIDE DEF new, v, c
    <3> QED
      BY <1>1, <3>1 DEF AnyRow, LeadStates, c
  <2> QED
    BY <2>1, <2>2
<1>4. new = Settled(NewLead(new.job, new.candidate), Verify(new.candidate))
  <2> HIDE DEF new
  <2>1. new = Settled(NewLead(l.job, c), Verify(c))
    BY <1>1 DEF new
  <2> QED
    BY <1>3, <2>1
<1> HIDE DEF new
<1> QED
  BY <1>3, <1>4 DEF TrueRows, Truthful, new

-----------------------------------------------------------------------------
(* The server keeps its part of the invariant, and a page that reads it later finds   *)
(* every job and every candidate it could have found before.                         *)

LEMMA SearchKeeps ==
    ASSUME ServerInv, NEW j \in Jobs, Search(j)
    PROVE  ServerInv' /\ Made \subseteq Made' /\ Candidates \subseteq Candidates'
<1>1. PICK r \in Requests[j] : request' = [request EXCEPT ![j] = r]
  BY DEF Search
<1>2. request[j] = Null /\ found' = found /\ leads' = leads
  BY DEF Search
<1>3. request' \in [Jobs -> (UNION {Requests[k] : k \in Jobs}) \cup {Null}]
  BY <1>1 DEF ServerInv
<1>4. \A k \in Jobs : request'[k] \in Requests[k] \cup {Null}
  BY <1>1 DEF ServerInv
<1>5. Made \subseteq Made' /\ \A k \in Made : request'[k] = request[k]
  BY <1>1, <1>2 DEF Made, ServerInv
<1>6. ToSet(found') \subseteq Made'
  BY <1>2, <1>5 DEF ServerInv
<1>7. \A k : OfJob(k)' = OfJob(k) /\ CandidatesOf(k)' = CandidatesOf(k)
  BY <1>2 DEF OfJob, CandidatesOf
<1>8. \A k \in ToSet(found') : JunkKept(request'[k], CandidatesOf(k)')
  <2> SUFFICES ASSUME NEW k \in ToSet(found) PROVE JunkKept(request'[k], CandidatesOf(k)')
    BY <1>2
  <2>1. k \in Made
    BY DEF ServerInv
  <2>2. JunkKept(request[k], CandidatesOf(k))
    BY DEF ServerInv
  <2> QED
    BY <1>5, <1>7, <2>1, <2>2
<1>9. \A k \in Jobs : Cardinality(OfJob(k)') <= MaxCandidates
  BY <1>7 DEF ServerInv
<1>10. Candidates \subseteq Candidates'
  BY <1>2 DEF Candidates
<1>11. /\ found' \in Seq(Jobs) /\ leads' \subseteq TrueRows /\ IsFiniteSet(leads')
       /\ \A l \in leads' : l.job \in ToSet(found')
  BY <1>2 DEF ServerInv
<1> QED
  BY <1>3, <1>4, <1>5, <1>6, <1>8, <1>9, <1>10, <1>11 DEF ServerInv

\* A request is discovered once, and its rows are as many as the candidates.
LEMMA FindKeeps ==
    ASSUME ServerInv, NEW j \in Jobs, Find(j)
    PROVE  ServerInv' /\ Made \subseteq Made' /\ Candidates \subseteq Candidates'
<1> DEFINE r == request[j]
<1>1. j \in Made /\ j \notin ToSet(found) /\ ~Fails(r.companies) /\ request' = request
  BY DEF Find
<1>2. PICK dice \in DiceOf(r.companies) :
        leads' = leads \cup {NewLead(j, c) : c \in ToSet(Discover(r, dice))}
  BY DEF Find
<1>3. found' = <<j>> \o found
  BY DEF Find
<1>4. Request(r)
  <2>1. r \in Requests[j]
    BY <1>1 DEF Made, ServerInv
  <2> QED
    BY <2>1, RequestAssumption DEF Request
<1> DEFINE d == Discover(r, dice)
           D == ToSet(d)
           N == {NewLead(j, c) : c \in D}
<1>5. d \in Seq(CandidateLeads) /\ Len(d) <= MaxCandidates /\ JunkKept(r, D)
  BY <1>1, <1>4, Discovered
<1> HIDE DEF r, d
<1>6. Len(d) \in Nat /\ D \in SUBSET CandidateLeads /\ IsFiniteSet(D) /\ Cardinality(D) <= Len(d)
  BY <1>5, ManyAtMost
<1> HIDE DEF D
<1>7. /\ N \subseteq TrueRows
      /\ \A c \in D : NewLead(j, c).job = j /\ NewLead(j, c).candidate = c
  BY <1>6, NewRow
<1>8. IsFiniteSet(N) /\ Cardinality(N) <= MaxCandidates
  <2> DEFINE f == [c \in D |-> NewLead(j, c)]
  <2>1. f \in Surjection(D, N)
    BY DEF Surjection
  <2>2. IsFiniteSet(N) /\ Cardinality(N) <= Cardinality(D)
    <3> HIDE DEF f, N
    <3> QED
      BY <1>6, <2>1, FS_Surjection
  <2>3. Cardinality(N) \in Nat /\ Cardinality(D) \in Nat
    <3> HIDE DEF N
    <3> QED
      BY <1>6, <2>2, FS_CardinalityType
  <2> HIDE DEF N
  <2> QED
    BY <1>5, <1>6, <2>2, <2>3, CapAssumption
<1>9. leads' = leads \cup N
  BY <1>2 DEF D, d
<1>10. \A l \in N : l.job = j
  BY <1>7
<1>11. {l.candidate : l \in N} = D
  <2>1. \A c \in D : NewLead(j, c) \in N /\ NewLead(j, c).candidate = c
    BY <1>7
  <2>2. \A l \in N : l.candidate \in D
    BY <1>7
  <2> HIDE DEF N
  <2> QED
    BY <2>1, <2>2
<1> HIDE DEF N
<1>12. found' \in Seq(Jobs) /\ ToSet(found') = ToSet(found) \cup {j}
  <2>1. found \in Seq(Jobs) /\ <<j>> \in Seq(Jobs) /\ Len(<<j>>) = 1 /\ <<j>>[1] = j
    BY DEF ServerInv
  <2>2. /\ found' \in Seq(Jobs) /\ Len(found') = Len(<<j>>) + Len(found)
        /\ \A i \in 1..(Len(<<j>>) + Len(found)) :
             found'[i] = IF i <= Len(<<j>>) THEN <<j>>[i] ELSE found[i - Len(<<j>>)]
    BY <1>3, <2>1, ConcatProperties
  <2> DEFINE a == Len(found)
  <2>3. a \in Nat /\ DOMAIN found = 1..a /\ DOMAIN found' = 1..(a + 1)
    BY <2>1, <2>2, LenProperties
  <2> HIDE DEF a
  <2>4. \A i \in 1..(a + 1) : found'[i] = IF i = 1 THEN j ELSE found[i - 1]
    BY <2>1, <2>2, <2>3 DEF a
  <2>5. ToSet(found') \subseteq ToSet(found) \cup {j}
    <3> SUFFICES ASSUME NEW i \in 1..(a + 1) PROVE found'[i] \in ToSet(found) \cup {j}
      BY <2>3 DEF ToSet
    <3>1. i = 1 \/ i - 1 \in 1..a
      BY <2>3
    <3>2. i # 1 => found[i - 1] \in ToSet(found)
      BY <2>3, <3>1 DEF ToSet
    <3> QED
      BY <2>4, <3>2
  <2>6. ASSUME NEW i \in 1..a
        PROVE  found[i] \in ToSet(found')
    <3>1. i + 1 \in 1..(a + 1) /\ i + 1 # 1 /\ (i + 1) - 1 = i
      BY <2>3
    <3>2. found'[i + 1] = found[i]
      BY <2>4, <3>1
    <3> QED
      BY <2>3, <3>1, <3>2 DEF ToSet
  <2>7. j \in ToSet(found')
    <3>1. 1 \in 1..(a + 1)
      BY <2>3
    <3>2. found'[1] = j
      BY <2>4, <3>1
    <3> QED
      BY <2>3, <3>1, <3>2 DEF ToSet
  <2>8. ToSet(found) \subseteq ToSet(found')
    BY <2>3, <2>6 DEF ToSet
  <2> QED
    BY <2>2, <2>5, <2>7, <2>8
<1>13. Made' = Made
  BY <1>1 DEF Made
<1>14. ToSet(found') \subseteq Made'
  BY <1>1, <1>12, <1>13 DEF ServerInv
<1>15. leads' \subseteq TrueRows /\ IsFiniteSet(leads')
  BY <1>7, <1>8, <1>9, FS_Union DEF ServerInv, N
<1>16. \A l \in leads' : l.job \in ToSet(found')
  BY <1>9, <1>10, <1>12 DEF ServerInv
<1>17. OfJob(j)' = N
  BY <1>1, <1>9, <1>10 DEF OfJob, ServerInv
<1>18. \A k \in Jobs : k # j => OfJob(k)' = OfJob(k)
  BY <1>9, <1>10 DEF OfJob
<1>19. \A k \in ToSet(found') : JunkKept(request'[k], CandidatesOf(k)')
  <2> SUFFICES ASSUME NEW k \in ToSet(found') PROVE JunkKept(request[k], CandidatesOf(k)')
    BY <1>1
  <2>1. CASE k = j
    <3>1. CandidatesOf(j)' = D
      BY <1>11, <1>17 DEF CandidatesOf
    <3> QED
      BY <1>5, <2>1, <3>1 DEF r
  <2>2. CASE k # j
    <3>1. k \in ToSet(found) /\ k \in Jobs
      BY <1>12, <2>2 DEF ServerInv, Made
    <3>2. CandidatesOf(k)' = CandidatesOf(k)
      BY <1>18, <2>2, <3>1 DEF CandidatesOf
    <3> QED
      BY <3>1, <3>2 DEF ServerInv
  <2> QED
    BY <2>1, <2>2
<1>20. \A k \in Jobs : Cardinality(OfJob(k)') <= MaxCandidates
  <2> SUFFICES ASSUME NEW k \in Jobs PROVE Cardinality(OfJob(k)') <= MaxCandidates
    OBVIOUS
  <2>1. CASE k = j
    BY <1>8, <1>17, <2>1
  <2>2. CASE k # j
    <3>1. OfJob(k)' = OfJob(k)
      BY <1>18, <2>2
    <3>2. Cardinality(OfJob(k)) <= MaxCandidates
      BY DEF ServerInv
    <3> QED
      BY <3>1, <3>2
  <2> QED
    BY <2>1, <2>2
<1>21. Candidates \subseteq Candidates'
  BY <1>9 DEF Candidates
<1> QED
  BY <1>1, <1>12, <1>13, <1>14, <1>15, <1>16, <1>19, <1>20, <1>21 DEF ServerInv

\* A verdict changes a row and keeps its job and its candidate.
LEMMA SettleKeeps ==
    ASSUME ServerInv, NEW l \in leads, Settle(l)
    PROVE  ServerInv' /\ Made \subseteq Made' /\ Candidates \subseteq Candidates'
<1> DEFINE new == Settled(l, Verify(l.candidate))
<1>1. /\ l.state = "unverified_raw" /\ leads' = (leads \ {l}) \cup {new}
      /\ request' = request /\ found' = found
  BY DEF Settle
<1>2. l \in TrueRows /\ new \in TrueRows /\ new.job = l.job /\ new.candidate = l.candidate
  BY <1>1, SettledRow DEF ServerInv
<1> HIDE DEF new
<1>3. IsFiniteSet(leads \ {l}) /\ IsFiniteSet(leads')
  BY <1>1, FS_RemoveElement, FS_AddElement DEF ServerInv
<1>4. leads' \subseteq TrueRows /\ \A k \in leads' : k.job \in ToSet(found')
  BY <1>1, <1>2 DEF ServerInv
<1>5. \A k : CandidatesOf(k)' = CandidatesOf(k)
  <2> SUFFICES ASSUME NEW k PROVE CandidatesOf(k)' = CandidatesOf(k)
    OBVIOUS
  <2>1. \A m \in OfJob(k)' : \E x \in OfJob(k) : x.candidate = m.candidate
    BY <1>1, <1>2 DEF OfJob
  <2>2. \A m \in OfJob(k) : \E x \in OfJob(k)' : x.candidate = m.candidate
    BY <1>1, <1>2 DEF OfJob
  <2>3. /\ CandidatesOf(k) = {m.candidate : m \in OfJob(k)}
        /\ CandidatesOf(k)' = {m.candidate : m \in OfJob(k)'}
    BY DEF CandidatesOf
  <2> QED
    BY <2>1, <2>2, <2>3
<1>6. ASSUME NEW k \in Jobs
      PROVE  Cardinality(OfJob(k)') <= MaxCandidates
  <2>1. IsFiniteSet(OfJob(k)) /\ Cardinality(OfJob(k)) \in Nat
    BY FS_Subset, FS_CardinalityType DEF OfJob, ServerInv
  <2>2. Cardinality(OfJob(k)) <= MaxCandidates
    BY DEF ServerInv
  <2>3. CASE l.job # k
    <3>1. OfJob(k)' = OfJob(k)
      BY <1>1, <1>2, <2>3 DEF OfJob
    <3> QED
      BY <2>2, <3>1
  <2>4. CASE l.job = k
    <3> DEFINE less == OfJob(k) \ {l}
    <3>1. OfJob(k)' = less \cup {new} /\ l \in OfJob(k)
      BY <1>1, <1>2, <2>4 DEF OfJob
    <3>2. IsFiniteSet(less) /\ Cardinality(less) = Cardinality(OfJob(k)) - 1
      BY <2>1, <3>1, FS_RemoveElement
    <3> HIDE DEF less
    <3>3. /\ Cardinality(less) \in Nat
          /\ \/ Cardinality(OfJob(k)') = Cardinality(less)
             \/ Cardinality(OfJob(k)') = Cardinality(less) + 1
      BY <3>1, <3>2, FS_AddElement, FS_CardinalityType
    <3> QED
      BY <2>1, <2>2, <3>2, <3>3, CapAssumption
  <2> QED
    BY <2>3, <2>4
<1>7. Candidates \subseteq Candidates'
  <2>1. \A k \in leads : \E m \in leads' : m.candidate = k.candidate
    BY <1>1, <1>2
  <2> QED
    BY <2>1 DEF Candidates
<1>8. Made' = Made
  BY <1>1 DEF Made
<1>9. \A k \in ToSet(found') : JunkKept(request'[k], CandidatesOf(k)')
  BY <1>1, <1>5 DEF ServerInv
<1>10. /\ request' \in [Jobs -> (UNION {Requests[k] : k \in Jobs}) \cup {Null}]
       /\ \A k \in Jobs : request'[k] \in Requests[k] \cup {Null}
       /\ found' \in Seq(Jobs) /\ ToSet(found') \subseteq Made'
  BY <1>1, <1>8 DEF ServerInv
<1> QED
  BY <1>3, <1>4, <1>6, <1>7, <1>8, <1>9, <1>10 DEF ServerInv

-----------------------------------------------------------------------------
(* Filters, sort and pages of any sequence of rows.                        *)

FilteredOf(s, status, job) ==
    Picked(s, {n \in DOMAIN s :
        /\ status = "all" \/ s[n].state = status
        /\ job = "all" \/ s[n].job = job})

SortedOf(s, status, job, sort) ==
    CASE sort = "off"  -> FilteredOf(s, status, job)
      [] sort = "asc"  -> Ranked(FilteredOf(s, status, job))
      [] sort = "desc" -> Reverse(Ranked(FilteredOf(s, status, job)))

PagesOf(t) == AtLeast((Len(t) + PageSize - 1) \div PageSize, 1)
PageOf(t, p) == SubSeq(t, (p - 1) * PageSize + 1, AtMost(p * PageSize, Len(t)))

LEMMA Appended ==
    ASSUME NEW X, NEW s \in Seq(X), NEW t \in Seq(X)
    PROVE  s \o t \in Seq(X) /\ ToSet(s \o t) = ToSet(s) \cup ToSet(t)
<1> DEFINE a == Len(s)
           b == Len(t)
           w == s \o t
<1>1. /\ w \in Seq(X) /\ a \in Nat /\ b \in Nat /\ Len(w) = a + b
      /\ \A p \in 1..a : w[p] = s[p]
      /\ \A m \in 1..b : w[a + m] = t[m]
  BY Joined, ConcatProperties
<1>2. DOMAIN s = 1..a /\ DOMAIN t = 1..b /\ DOMAIN w = 1..(a + b)
  BY <1>1, LenProperties
<1> HIDE DEF a, b, w
<1>3. ASSUME NEW p \in 1..(a + b)
      PROVE  w[p] \in ToSet(s) \cup ToSet(t)
  <2>1. CASE p \in 1..a
    BY <1>1, <1>2, <2>1 DEF ToSet
  <2>2. CASE p \notin 1..a
    <3> DEFINE m == p - a
    <3>1. m \in 1..b /\ a + m = p
      BY <1>1, <2>2
    <3> HIDE DEF m
    <3> QED
      BY <1>1, <1>2, <3>1 DEF ToSet
  <2> QED
    BY <2>1, <2>2
<1>4. \A p \in 1..a : s[p] \in ToSet(w)
  <2>1. \A p \in 1..a : p \in 1..(a + b)
    BY <1>1
  <2> QED
    BY <1>1, <1>2, <2>1 DEF ToSet
<1>5. \A m \in 1..b : t[m] \in ToSet(w)
  <2>1. \A m \in 1..b : a + m \in 1..(a + b)
    BY <1>1
  <2> QED
    BY <1>1, <1>2, <2>1 DEF ToSet
<1>6. ToSet(w) \subseteq ToSet(s) \cup ToSet(t)
  BY <1>2, <1>3 DEF ToSet
<1>7. ToSet(s) \subseteq ToSet(w) /\ ToSet(t) \subseteq ToSet(w)
  BY <1>2, <1>4, <1>5 DEF ToSet
<1> QED
  BY <1>1, <1>6, <1>7 DEF w

LEMMA Reversed ==
    ASSUME NEW X, NEW s \in Seq(X)
    PROVE  /\ Reverse(s) \in Seq(X) /\ Len(Reverse(s)) = Len(s)
           /\ ToSet(Reverse(s)) = ToSet(s)
<1> DEFINE n == Len(s)
           w == Reverse(s)
<1>1. n \in Nat /\ DOMAIN s = 1..n /\ s \in [1..n -> X]
  BY LenProperties
<1>2. w = [i \in 1..n |-> s[(n - i) + 1]]
  BY DEF Reverse
<1> HIDE DEF n, w
<1>3. \A i \in 1..n : (n - i) + 1 \in 1..n /\ (n - ((n - i) + 1)) + 1 = i
  BY <1>1
<1>4. w \in [1..n -> X]
  BY <1>1, <1>2, <1>3
<1>5. w \in Seq(X) /\ Len(w) = n /\ DOMAIN w = 1..n
  BY <1>1, <1>4
<1>6. \A i \in 1..n : w[i] = s[(n - i) + 1] /\ s[i] = w[(n - i) + 1]
  BY <1>2, <1>3
<1>7. ToSet(w) \subseteq ToSet(s)
  BY <1>1, <1>3, <1>5, <1>6 DEF ToSet
<1>8. ToSet(s) \subseteq ToSet(w)
  BY <1>1, <1>3, <1>5, <1>6 DEF ToSet
<1> QED
  BY <1>5, <1>7, <1>8 DEF n, w

\* The sort by rank moves rows and loses none.
LEMMA RankedRows ==
    ASSUME NEW X, NEW s \in Seq(X), \A n \in 1..Len(s) : s[n].state \in LeadStates
    PROVE  /\ Ranked(s) \in Seq(X) /\ Len(Ranked(s)) = Len(s)
           /\ ToSet(Ranked(s)) = ToSet(s)
<1> DEFINE I(st) == {n \in DOMAIN s : s[n].state = st}
           a == Picked(s, I("verified"))
           b == Picked(s, I("unverified_raw"))
           c == Picked(s, I("rejected"))
<1>1. Len(s) \in Nat /\ DOMAIN s = 1..Len(s)
  BY LenProperties
<1>2. Ranked(s) = a \o b \o c
  BY DEF Ranked
<1>3. /\ DOMAIN s = I("verified") \cup I("unverified_raw") \cup I("rejected")
      /\ I("verified") \cap I("unverified_raw") = {}
      /\ (I("verified") \cup I("unverified_raw")) \cap I("rejected") = {}
  BY <1>1 DEF LeadStates
<1>4. \A st : I(st) \in SUBSET DOMAIN s
  OBVIOUS
<1> HIDE DEF I
<1>5. \A st : /\ IsFiniteSet(I(st)) /\ Cardinality(I(st)) \in Nat
              /\ Picked(s, I(st)) \in Seq(X) /\ Len(Picked(s, I(st))) = Cardinality(I(st))
              /\ ToSet(Picked(s, I(st))) = {s[i] : i \in I(st)}
  BY <1>4, PickedElements, PickedSet
<1>6. /\ a \in Seq(X) /\ Len(a) = Cardinality(I("verified"))
      /\ b \in Seq(X) /\ Len(b) = Cardinality(I("unverified_raw"))
      /\ c \in Seq(X) /\ Len(c) = Cardinality(I("rejected"))
      /\ ToSet(a) = {s[i] : i \in I("verified")}
      /\ ToSet(b) = {s[i] : i \in I("unverified_raw")}
      /\ ToSet(c) = {s[i] : i \in I("rejected")}
  BY <1>5
<1> HIDE DEF a, b, c
<1>7. /\ a \o b \in Seq(X) /\ ToSet(a \o b) = ToSet(a) \cup ToSet(b)
      /\ Len(a \o b) = Len(a) + Len(b)
  <2>1. a \in Seq(X) /\ b \in Seq(X)
    BY <1>6
  <2>2. a \o b \in Seq(X) /\ ToSet(a \o b) = ToSet(a) \cup ToSet(b)
    BY <2>1, Appended
  <2> QED
    BY <2>1, <2>2, ConcatProperties
<1>8. /\ a \o b \o c \in Seq(X) /\ ToSet(a \o b \o c) = ToSet(a \o b) \cup ToSet(c)
      /\ Len(a \o b \o c) = Len(a \o b) + Len(c)
  <2> DEFINE ab == a \o b
  <2>1. ab \in Seq(X) /\ c \in Seq(X)
    BY <1>6, <1>7
  <2> HIDE DEF ab
  <2>2. ab \o c \in Seq(X) /\ ToSet(ab \o c) = ToSet(ab) \cup ToSet(c)
    BY <2>1, Appended
  <2>3. Len(ab \o c) = Len(ab) + Len(c)
    BY <2>1, ConcatProperties
  <2> QED
    BY <2>2, <2>3 DEF ab
<1>9. Cardinality(DOMAIN s) = Len(s)
  BY <1>1, FS_Interval
<1>10. Len(a) + Len(b) + Len(c) = Len(s)
  <2> DEFINE V == I("verified")
             U == I("unverified_raw")
             R == I("rejected")
  <2>1. /\ IsFiniteSet(V) /\ IsFiniteSet(U) /\ IsFiniteSet(R)
        /\ Cardinality(V) \in Nat /\ Cardinality(U) \in Nat /\ Cardinality(R) \in Nat
    BY <1>5
  <2>2. V \cap U = {} /\ (V \cup U) \cap R = {} /\ DOMAIN s = (V \cup U) \cup R
    BY <1>3
  <2> HIDE DEF V, U, R
  <2>3. IsFiniteSet(V \cup U) /\ Cardinality(V \cup U) = Cardinality(V) + Cardinality(U) - 0
    BY <2>1, <2>2, FS_Union, FS_EmptySet
  <2>4. Cardinality((V \cup U) \cup R) = Cardinality(V \cup U) + Cardinality(R) - 0
    BY <2>1, <2>2, <2>3, FS_Union, FS_EmptySet
  <2>5. Len(a) = Cardinality(V) /\ Len(b) = Cardinality(U) /\ Len(c) = Cardinality(R)
    BY <1>6 DEF V, U, R
  <2> QED
    BY <1>9, <2>1, <2>2, <2>3, <2>4, <2>5
<1>11. ToSet(a) \cup ToSet(b) \cup ToSet(c) = ToSet(s)
  <2>1. ToSet(s) = {s[i] : i \in DOMAIN s}
    BY DEF ToSet
  <2> QED
    BY <1>3, <1>6, <2>1
<1> QED
  BY <1>2, <1>7, <1>8, <1>10, <1>11

\* Every row of the sorted list is a row of the filters, and the other way round.
LEMMA SortedRows ==
    ASSUME NEW s \in Seq(TrueRows), NEW status, NEW job, NEW sort \in DOMAIN NextSort
    PROVE  LET f == FilteredOf(s, status, job)
               t == SortedOf(s, status, job, sort)
           IN  /\ f \in Seq(TrueRows) /\ t \in Seq(TrueRows)
               /\ Len(t) = Len(f) /\ Len(t) \in Nat
               /\ ToSet(t) = ToSet(f) /\ ToSet(f) \subseteq ToSet(s)
               /\ \A l \in ToSet(f) : job = "all" \/ l.job = job
<1> DEFINE f == FilteredOf(s, status, job)
           t == SortedOf(s, status, job, sort)
           I == {n \in DOMAIN s : /\ status = "all" \/ s[n].state = status
                                  /\ job = "all" \/ s[n].job = job}
<1>1. f = Picked(s, I) /\ I \in SUBSET DOMAIN s /\ \A i \in I : job = "all" \/ s[i].job = job
  BY DEF FilteredOf
<1> HIDE DEF I
<1>2. f \in Seq(TrueRows) /\ ToSet(f) = {s[i] : i \in I}
  <2>1. Picked(s, I) \in Seq(TrueRows) /\ ToSet(Picked(s, I)) = {s[i] : i \in I}
    BY <1>1, PickedElements, PickedSet
  <2> QED
    BY <1>1, <2>1
<1>3. ToSet(f) \subseteq ToSet(s) /\ \A l \in ToSet(f) : job = "all" \/ l.job = job
  BY <1>1, <1>2 DEF ToSet
<1>4. t = CASE sort = "off"  -> f
            [] sort = "asc"  -> Ranked(f)
            [] sort = "desc" -> Reverse(Ranked(f))
  BY DEF SortedOf
<1> HIDE DEF f, t
<1>5. \A n \in 1..Len(f) : f[n].state \in LeadStates
  <2>1. \A n \in 1..Len(f) : f[n] \in TrueRows
    BY <1>2, ElementOfSeq
  <2> QED
    BY <2>1, RowFacts
<1>6. /\ Ranked(f) \in Seq(TrueRows) /\ Len(Ranked(f)) = Len(f) /\ ToSet(Ranked(f)) = ToSet(f)
  BY <1>2, <1>5, RankedRows
<1>7. /\ Reverse(Ranked(f)) \in Seq(TrueRows) /\ Len(Reverse(Ranked(f))) = Len(f)
      /\ ToSet(Reverse(Ranked(f))) = ToSet(f)
  BY <1>6, Reversed
<1>8. sort \in {"off", "asc", "desc"}
  BY DEF NextSort
<1>9. t \in Seq(TrueRows) /\ Len(t) = Len(f) /\ ToSet(t) = ToSet(f)
  BY <1>2, <1>4, <1>6, <1>7, <1>8
<1>10. Len(f) \in Nat
  BY <1>2, LenProperties
<1> QED
  BY <1>2, <1>3, <1>9, <1>10 DEF f, t

LEMMA Quotient ==
    ASSUME NEW x \in Nat, NEW P \in Nat \ {0}
    PROVE  x \div P \in Nat /\ (x \div P) * P <= x /\ x < (x \div P) * P + P
<1>1. x \div P \in Int /\ x % P \in 0..(P - 1) /\ x = P * (x \div P) + (x % P)
  OBVIOUS
<1> DEFINE d == x \div P
<1>2. d \in Int /\ P * d <= x /\ x < P * d + P /\ d * P = P * d
  BY <1>1
<1> HIDE DEF d
<1>3. d >= 0
  <2> SUFFICES ASSUME d <= -1 PROVE FALSE
    BY <1>2
  <2>1. P * d <= P * (-1)
    BY <1>2
  <2> QED
    BY <1>2, <2>1
<1> QED
  BY <1>2, <1>3 DEF d

\* The pages reach the last row, and no page but the last one does.
LEMMA PageArithmetic ==
    ASSUME NEW L \in Nat
    PROVE  LET n == AtLeast((L + PageSize - 1) \div PageSize, 1)
           IN  /\ n \in Nat \ {0}
               /\ L <= n * PageSize
               /\ \A k \in 1..n : k * PageSize \in Nat /\ (k < n => k * PageSize < L)
               /\ L = 0 => n = 1
<1> DEFINE P == PageSize
           q == (L + P - 1) \div P
           n == AtLeast(q, 1)
<1>1. P \in Nat /\ P >= 1
  BY PageSizeAssumption
<1> HIDE DEF P
<1>2. q \in Nat /\ q * P <= L + P - 1 /\ L + P - 1 < q * P + P
  <2> DEFINE x == L + P - 1
  <2>1. x \in Nat
    BY <1>1
  <2> HIDE DEF x
  <2>2. x \div P \in Nat /\ (x \div P) * P <= x /\ x < (x \div P) * P + P
    BY <1>1, <2>1, Quotient
  <2> QED
    BY <2>2 DEF x
<1> HIDE DEF q
<1>3. n \in Nat /\ n >= 1 /\ n >= q /\ (n > 1 => n = q)
  BY <1>2 DEF AtLeast
<1> HIDE DEF n
<1>4. \A k, m \in Nat : k <= m => k * P <= m * P /\ k * P \in Nat
  BY <1>1
<1>5. L <= n * P
  <2>1. q * P <= n * P /\ q * P \in Nat /\ n * P \in Nat
    BY <1>2, <1>3, <1>4
  <2> QED
    BY <1>1, <1>2, <2>1
<1>6. ASSUME NEW k \in 1..n, k < n
      PROVE  k * P < L
  <2>1. n = q /\ k + 1 \in Nat /\ k + 1 <= n
    BY <1>3, <1>6
  <2>2. (k + 1) * P <= q * P /\ (k + 1) * P = k * P + P
    BY <1>1, <1>3, <1>4, <2>1
  <2>3. k * P \in Nat /\ q * P \in Nat
    BY <1>2, <1>4, <2>1
  <2> QED
    BY <1>1, <1>2, <2>2, <2>3
<1>7. \A k \in 1..n : k * P \in Nat
  BY <1>3, <1>4
<1>8. L = 0 => n = 1
  <2> SUFFICES ASSUME L = 0, n # 1 PROVE FALSE
    OBVIOUS
  <2>1. 1 \in 1..n /\ 1 < n
    BY <1>3
  <2> QED
    BY <1>6, <1>7, <2>1
<1> QED
  BY <1>3, <1>5, <1>6, <1>7, <1>8 DEF n, q, P

\* Where page p begins and ends.
LEMMA PageBounds ==
    ASSUME NEW X, NEW t \in Seq(X), NEW p \in 1..PagesOf(t)
    PROVE  LET low == (p - 1) * PageSize
               high == AtMost(p * PageSize, Len(t))
           IN  /\ PagesOf(t) \in Nat \ {0}
               /\ low \in Nat /\ high \in Nat /\ low <= high /\ high <= Len(t)
               /\ Len(t) # 0 => low < high
               /\ PageOf(t, p) \in Seq(X) /\ Len(PageOf(t, p)) = high - low
               /\ \A i \in 1..(high - low) : PageOf(t, p)[i] = t[low + i]
               /\ p > 1 => low = AtMost((p - 1) * PageSize, Len(t))
               /\ p = PagesOf(t) => high = Len(t)
<1> DEFINE L == Len(t)
           n == PagesOf(t)
           low == (p - 1) * PageSize
           high == AtMost(p * PageSize, L)
<1>1. L \in Nat
  BY LenProperties
<1>2. /\ n \in Nat \ {0} /\ L <= n * PageSize
      /\ \A k \in 1..n : k * PageSize \in Nat /\ (k < n => k * PageSize < L)
      /\ L = 0 => n = 1
  BY <1>1, PageArithmetic DEF PagesOf
<1> HIDE DEF n
<1>3. p \in 1..n
  BY DEF n
<1>4. low \in Nat /\ p * PageSize \in Nat /\ p * PageSize = low + PageSize
  BY <1>2, <1>3, PageSizeAssumption
<1>5. p = 1 => low = 0
  BY PageSizeAssumption
<1>6. p > 1 => low < L
  <2> SUFFICES ASSUME p > 1 PROVE low < L
    OBVIOUS
  <2>1. p - 1 \in 1..n /\ p - 1 < n
    BY <1>2, <1>3
  <2> QED
    BY <1>2, <2>1
<1>7. p = n => L <= p * PageSize
  BY <1>2
<1> HIDE DEF low
<1>8. high = IF low + PageSize < L THEN low + PageSize ELSE L
  BY <1>4 DEF AtMost
<1> HIDE DEF high
<1>9. p = 1 \/ p > 1
  BY <1>3
<1>10. high \in Nat /\ low <= high /\ high <= L /\ (L # 0 => low < high)
  <2>1. PageSize \in Nat /\ PageSize >= 1
    BY PageSizeAssumption
  <2>2. low = 0 \/ low < L
    BY <1>5, <1>6, <1>9
  <2> HIDE DEF L
  <2> QED
    BY <1>1, <1>4, <1>8, <2>1, <2>2
<1>11. p = n => high = L
  BY <1>1, <1>4, <1>7, <1>8
<1>12. p > 1 => low = AtMost((p - 1) * PageSize, L)
  BY <1>6 DEF low, AtMost
<1>13. /\ PageOf(t, p) \in Seq(X) /\ Len(PageOf(t, p)) = high - low
       /\ \A i \in 1..(high - low) : PageOf(t, p)[i] = t[low + i]
  <2> DEFINE m == low + 1
  <2>1. PageOf(t, p) = SubSeq(t, m, high)
    BY DEF PageOf, high, low
  <2>2. m \in Int /\ high \in Int /\ high - m + 1 = high - low
    BY <1>4, <1>10
  <2>3. \A i \in m..high : t[i] \in X
    <3>1. \A i \in m..high : i \in 1..L
      BY <1>1, <1>4, <1>10
    <3> QED
      BY <3>1, ElementOfSeq
  <2>4. m <= high \/ (high = low /\ ~(m <= high))
    BY <1>4, <1>10
  <2>5. \A i \in 1..(high - low) : m + i - 1 = low + i
    BY <1>4, <1>10
  <2> HIDE DEF m
  <2>6. /\ SubSeq(t, m, high) \in Seq(X)
        /\ Len(SubSeq(t, m, high)) = IF m <= high THEN high - m + 1 ELSE 0
        /\ \A i \in 1..(high - m + 1) : SubSeq(t, m, high)[i] = t[m + i - 1]
    BY <2>2, <2>3, SubSeqProperties
  <2>7. Len(SubSeq(t, m, high)) = high - low
    BY <1>4, <1>10, <2>2, <2>4, <2>6
  <2> QED
    BY <2>1, <2>2, <2>5, <2>6, <2>7
<1> QED
  BY <1>2, <1>4, <1>10, <1>11, <1>12, <1>13 DEF n, L, low, high

\* Leafing through the pages shows the sorted list.
LEMMA Leafed ==
    ASSUME NEW X, NEW t \in Seq(X)
    PROVE  FlattenSeq([p \in 1..PagesOf(t) |-> PageOf(t, p)]) = t
<1> DEFINE n == PagesOf(t)
           pages == [p \in 1..n |-> PageOf(t, p)]
           High(p) == AtMost(p * PageSize, Len(t))
<1>1. n \in Nat /\ n >= 1
  <2>1. Len(t) \in Nat
    BY LenProperties
  <2> QED
    BY <2>1, PageArithmetic DEF PagesOf
<1>2. \A p \in 1..n : PageOf(t, p) \in Seq(X)
  BY PageBounds
<1>3. pages \in [1..n -> Seq(X)]
  BY <1>2
<1>4. pages \in Seq(Seq(X)) /\ Len(pages) = n /\ pages # <<>>
  <2> HIDE DEF n
  <2>1. pages \in Seq(Seq(X)) /\ Len(pages) = n
    BY <1>1, <1>3
  <2> HIDE DEF pages
  <2> QED
    BY <1>1, <2>1, EmptySeq
<1>5. \A p \in 1..n : pages[p] = PageOf(t, p)
  OBVIOUS
<1> HIDE DEF pages
<1>6. PICK g \in Up(X, n) : Joins(pages, g) /\ FlattenSeq(pages) = g[n]
  BY <1>4, Flattened
<1> HIDE DEF n
<1> DEFINE S == {p \in 1..n : g[p] = SubSeq(t, 1, High(p))}
<1>7. 1 \in S
  <2>1. 1 \in 1..n
    BY <1>1
  <2>2. (1 - 1) * PageSize + 1 = 1
    BY PageSizeAssumption
  <2>3. PageOf(t, 1) = SubSeq(t, 1, High(1))
    BY <2>2 DEF PageOf
  <2> HIDE DEF High
  <2> QED
    BY <1>5, <1>6, <2>1, <2>3 DEF Joins
<1>8. ASSUME NEW p \in 1..n, p \in S, p < n
      PROVE  p + 1 \in S
  <2> DEFINE k == p + 1
             low == (k - 1) * PageSize
             high == High(k)
  <2>1. k \in 1..n /\ k > 1 /\ k - 1 = p /\ k \in 2..n
    BY <1>1, <1>8
  <2>2. g[k] = g[p] \o pages[k]
    BY <1>4, <1>6, <2>1 DEF Joins
  <2>3. /\ low \in Nat /\ high \in Nat /\ low <= high /\ high <= Len(t)
        /\ low = AtMost((k - 1) * PageSize, Len(t))
    BY <2>1, PageBounds DEF n
  <2>4. g[p] = SubSeq(t, 1, low)
    BY <1>8, <2>1, <2>3
  <2>5. pages[k] = SubSeq(t, low + 1, high)
    BY <1>5, <2>1 DEF PageOf
  <2> HIDE DEF low, high, k
  <2>6. Len(t) \in Nat
    BY LenProperties
  <2>7. SubSeq(t, 1, low) \o SubSeq(t, low + 1, high) = SubSeq(t, 1, high)
    <3>1. 1 \in 1..(Len(t) + 1) /\ low \in (1 - 1)..Len(t) /\ high \in low..Len(t)
      BY <2>3, <2>6
    <3> QED
      BY <3>1, ConcatAdjacentSubSeq
  <2>8. g[k] = SubSeq(t, 1, high)
    BY <2>2, <2>4, <2>5, <2>7
  <2> QED
    BY <2>1, <2>8 DEF high, k
<1>9. n \in S
  <2> HIDE DEF S
  <2>1. 1..n \subseteq S
    BY <1>1, <1>7, <1>8, Induction
  <2> QED
    BY <1>1, <2>1
<1>10. High(n) = Len(t)
  <2>1. n \in 1..n
    BY <1>1
  <2> QED
    BY <2>1, PageBounds DEF n
<1>11. g[n] = t
  BY <1>9, <1>10, SubSeqFull
<1> QED
  BY <1>6, <1>11 DEF pages, n

-----------------------------------------------------------------------------
(* What the page shows, as a function of what it read and of the controls.  *)

CountOf(s, status, job, sort) == PagesOf(SortedOf(s, status, job, sort))

ShownOf(phase, s, status, job, sort, page) ==
    LET t == SortedOf(s, status, job, sort)
    IN  IF phase = "ready" THEN ToSet(PageOf(t, AtMost(page, PagesOf(t)))) ELSE {}

LEMMA Derived ==
    ASSUME NEW v
    PROVE  /\ Filtered(v) = FilteredOf(screen.leads, v.status, v.job)
           /\ Sorted(v) = SortedOf(screen.leads, v.status, v.job, v.sort)
           /\ PageCount(v) = CountOf(screen.leads, v.status, v.job, v.sort)
           /\ Rows(v) = ShownOf(screen.phase, screen.leads, v.status, v.job, v.sort, v.page)
<1>1. Filtered(v) = FilteredOf(screen.leads, v.status, v.job)
  BY DEF Filtered, FilteredOf
<1>2. Sorted(v) = SortedOf(screen.leads, v.status, v.job, v.sort)
  BY <1>1 DEF Sorted, SortedOf
<1>3. PageCount(v) = CountOf(screen.leads, v.status, v.job, v.sort)
  BY <1>2 DEF PageCount, CountOf, PagesOf
<1>4. Rows(v) = ShownOf(screen.phase, screen.leads, v.status, v.job, v.sort, v.page)
  BY <1>2, <1>3 DEF Rows, ShownOf, CountOf, PageLeads, PageOf, Current
<1> QED
  BY <1>1, <1>2, <1>3, <1>4

LEMMA DerivedNext ==
    /\ PageCount(view)' = CountOf(screen'.leads, view'.status, view'.job, view'.sort)
    /\ Rows(view)' = ShownOf(screen'.phase, screen'.leads, view'.status, view'.job,
                             view'.sort, view'.page)
<1>1. Filtered(view)' = FilteredOf(screen'.leads, view'.status, view'.job)
  BY DEF Filtered, FilteredOf
<1>2. Sorted(view)' = SortedOf(screen'.leads, view'.status, view'.job, view'.sort)
  BY <1>1 DEF Sorted, SortedOf
<1>3. PageCount(view)' = CountOf(screen'.leads, view'.status, view'.job, view'.sort)
  BY <1>2 DEF PageCount, CountOf, PagesOf
<1>4. Rows(view)' = ShownOf(screen'.phase, screen'.leads, view'.status, view'.job,
                            view'.sort, view'.page)
  BY <1>2, <1>3 DEF Rows, ShownOf, CountOf, PageLeads, PageOf, Current
<1> QED
  BY <1>3, <1>4

LEMMA CountPositive ==
    ASSUME NEW s \in Seq(TrueRows), NEW status, NEW job, NEW sort \in DOMAIN NextSort
    PROVE  CountOf(s, status, job, sort) \in Nat \ {0}
<1> DEFINE t == SortedOf(s, status, job, sort)
<1>1. Len(t) \in Nat
  BY SortedRows
<1> HIDE DEF t
<1>2. PagesOf(t) \in Nat \ {0}
  BY <1>1, PageArithmetic DEF PagesOf
<1> QED
  BY <1>2 DEF CountOf, t

-----------------------------------------------------------------------------
(* The pages keep their part of the invariant.                             *)

\* While nobody touches the page, the server may only learn more.
LEMMA PageStays ==
    ASSUME ScreenInv, ViewInv, LinkInv, Made \subseteq Made',
           Candidates \subseteq Candidates', screen' = screen, view' = view
    PROVE  ScreenInv' /\ ViewInv' /\ LinkInv'
<1>1. ScreenInv'
  BY DEF ScreenInv, Copy
<1>2. PageCount(view)' = PageCount(view) /\ Rows(view)' = Rows(view)
  BY Derived, DerivedNext
<1>3. ViewInv'
  BY <1>2 DEF ViewInv, HasEvidence, IsRejected
<1>4. LinkInv'
  BY DEF LinkInv
<1> QED
  BY <1>1, <1>3, <1>4

\* On its first page, with nothing open, the inbox can show whatever it reads.
LEMMA FirstPage ==
    ASSUME ScreenInv',
           view' = [status |-> view'.status, job |-> view'.job, sort |-> view'.sort,
                    page |-> 1, open |-> {}],
           view'.status \in StateFilters, view'.job \in JobFilters,
           view'.sort \in DOMAIN NextSort
    PROVE  ViewInv'
<1>1. view'.page = 1 /\ view'.open = {}
  OBVIOUS
<1>2. screen'.leads \in Seq(TrueRows)
  BY DEF ScreenInv, Copy
<1>3. PageCount(view)' \in Nat \ {0}
  BY <1>2, CountPositive, DerivedNext
<1> QED
  BY <1>1, <1>3 DEF ViewInv

LEMMA NothingRead ==
    Copy(<<>>, Candidates') /\ Copy(<<>>, Candidates)
<1>1. <<>> \in Seq(TrueRows) /\ Len(<<>>) = 0
  BY EmptySeq
<1> QED
  BY <1>1 DEF Copy, Once

LEMMA LoadKeeps ==
    ASSUME InboxInv, Load
    PROVE  ScreenInv' /\ ViewInv' /\ LinkInv'
<1> USE DEF InboxInv
<1>1. UNCHANGED <<server, view>>
  BY DEF Load, ReadJobs, ReadLeads, LoadDone, LoadFailed, Retry
<1>2. request' = request /\ found' = found /\ leads' = leads /\ view' = view
  BY <1>1 DEF server
<1>3. Made' = Made /\ Candidates' = Candidates
  BY <1>2 DEF Made, Candidates
<1>4. screen.phase # "ready"
  BY DEF Load, ReadJobs, ReadLeads, LoadDone, LoadFailed, Retry, ScreenInv
<1>5. ASSUME ScreenInv'
      PROVE  ViewInv'
  <2>1. /\ view = [status |-> view.status, job |-> view.job, sort |-> view.sort,
                   page |-> 1, open |-> {}]
        /\ view.status \in StateFilters /\ view.job \in JobFilters
        /\ view.sort \in DOMAIN NextSort
    BY <1>4 DEF ViewInv
  <2> QED
    BY <1>2, <1>5, <2>1, FirstPage
<1>6. CASE ReadJobs
  <2>1. /\ screen' = [screen EXCEPT !.gotJobs = Made]
        /\ screen.phase = "loading" /\ screen.gotJobs = Null
    BY <1>6 DEF ReadJobs, ListedJobs
  <2>2. ScreenInv'
    BY <1>3, <2>1 DEF ScreenInv
  <2>3. LinkInv'
    BY <1>2, <1>3, <1>4, <2>1 DEF LinkInv, ScreenInv
  <2> QED
    BY <1>5, <2>2, <2>3
<1>7. CASE ReadLeads
  <2>1. PICK rows \in Listings : screen' = [screen EXCEPT !.gotLeads = rows]
    BY <1>7 DEF ReadLeads
  <2>2. screen.phase = "loading"
    BY <1>7 DEF ReadLeads
  <2>3. Copy(rows, Candidates)
    <3>1. rows \in [1..Cardinality(leads) -> leads]
          /\ \A m, n \in 1..Cardinality(leads) : m # n => rows[m] # rows[n]
      BY DEF Listings, SetToSeqs
    <3>2. Cardinality(leads) \in Nat /\ leads \subseteq TrueRows
      BY FS_CardinalityType DEF ServerInv
    <3>3. rows \in Seq(TrueRows) /\ Len(rows) = Cardinality(leads)
      BY <3>1, <3>2
    <3>4. \A n \in 1..Len(rows) : rows[n].candidate \in Candidates
      BY <3>1, <3>3 DEF Candidates
    <3>5. Once(rows)
      BY <3>1, <3>2, <3>3 DEF Once
    <3> QED
      BY <3>3, <3>4, <3>5 DEF Copy
  <2>4. ScreenInv'
    BY <1>3, <2>1, <2>2, <2>3 DEF ScreenInv
  <2>5. LinkInv'
    BY <1>2, <1>3, <2>1, <2>2 DEF LinkInv, ScreenInv
  <2> QED
    BY <1>5, <2>4, <2>5
<1>8. CASE LoadDone
  <2>1. /\ screen.gotJobs # Null /\ screen.gotLeads # Null
        /\ screen' = [screen EXCEPT !.phase = "ready", !.jobs = screen.gotJobs,
                                    !.leads = screen.gotLeads, !.gotJobs = Null,
                                    !.gotLeads = Null]
    BY <1>8 DEF LoadDone
  <2>2. ScreenInv'
    BY <1>3, <2>1 DEF ScreenInv
  <2>3. LinkInv'
    BY <1>2, <1>3, <2>1 DEF LinkInv, ScreenInv
  <2> QED
    BY <1>5, <2>2, <2>3
<1>9. CASE LoadFailed
  <2>1. /\ screen.phase = "loading"
        /\ screen' = [screen EXCEPT !.phase = "error", !.gotJobs = Null, !.gotLeads = Null]
    BY <1>9 DEF LoadFailed
  <2>2. ScreenInv'
    BY <1>3, <2>1 DEF ScreenInv
  <2>3. LinkInv'
    BY <1>2, <1>3, <2>1 DEF LinkInv, ScreenInv
  <2> QED
    BY <1>5, <2>2, <2>3
<1>10. CASE Retry
  <2>1. screen.phase = "error" /\ screen' = [screen EXCEPT !.phase = "loading"]
    BY <1>10 DEF Retry
  <2>2. ScreenInv'
    BY <1>3, <2>1 DEF ScreenInv
  <2>3. LinkInv'
    BY <1>2, <1>3, <2>1 DEF LinkInv, ScreenInv
  <2> QED
    BY <1>5, <2>2, <2>3
<1> QED
  BY <1>6, <1>7, <1>8, <1>9, <1>10 DEF Load

LEMMA NavigateKeeps ==
    ASSUME InboxInv, Navigate
    PROVE  ScreenInv' /\ ViewInv' /\ LinkInv'
<1> USE DEF InboxInv
<1>1. ASSUME NEW page \in {"overview", "inbox"}, NEW job \in Made \cup {Foreign, "all"},
             screen' = Loading(page), view' = Fresh(job), UNCHANGED server
      PROVE  ScreenInv' /\ ViewInv' /\ LinkInv'
  <2>1. Made' = Made
    BY <1>1 DEF server, Made
  <2>2. ScreenInv'
    BY <1>1, NothingRead DEF Loading, ScreenInv
  <2>3. job \in JobFilters
    BY DEF Made, JobFilters
  <2>4. ViewInv'
    BY <1>1, <2>2, <2>3, FirstPage DEF Fresh, StateFilters, NextSort
  <2>5. LinkInv'
    <3>1. view'.job = job /\ screen'.gotJobs = Null /\ screen'.phase = "loading"
      BY <1>1 DEF Fresh, Loading
    <3>2. job \in Jobs \ {"all"} => job \in Made
      BY ForeignAssumption
    <3> QED
      BY <2>1, <3>1, <3>2 DEF LinkInv
  <2> QED
    BY <2>2, <2>4, <2>5
<1>2. CASE ViewFromOverview
  <2>1. PICK job \in screen.jobs \cup {"all"} : OpenInbox(job)
    BY <1>2 DEF ViewFromOverview
  <2>2. job \in Made \cup {Foreign, "all"}
    BY DEF ScreenInv
  <2> QED
    BY <1>1, <2>1, <2>2 DEF OpenInbox
<1>3. CASE ViewByLink
  BY <1>1, <1>3 DEF ViewByLink, OpenInbox
<1>4. CASE ToOverview
  BY <1>1, <1>4 DEF ToOverview
<1> QED
  BY <1>2, <1>3, <1>4 DEF Navigate

\* The filters and the sort lead to the first page, Prev and Next to a page that exists;
\* what was open and stays on the screen is open.
LEMMA ShowKeeps ==
    ASSUME InboxInv, UNCHANGED <<server, screen>>,
           NEW status \in StateFilters, NEW job \in JobFilters,
           NEW sort \in DOMAIN NextSort, NEW page \in Nat \ {0}, NEW open,
           page = 1 \/ /\ page <= CountOf(screen.leads, status, job, sort)
                       /\ screen.phase = "ready",
           open \subseteq view.open,
           open \subseteq ShownOf(screen.phase, screen.leads, status, job, sort, page),
           job \in Jobs \ {"all"} => job = view.job \/ job \in screen.jobs,
           view' = [status |-> status, job |-> job, sort |-> sort, page |-> page,
                    open |-> open]
    PROVE  ScreenInv' /\ ViewInv' /\ LinkInv'
<1> USE DEF InboxInv
<1>1. Made' = Made /\ Candidates' = Candidates /\ screen' = screen
  BY DEF server, Made, Candidates
<1>2. ScreenInv'
  BY <1>1 DEF ScreenInv
<1>3. view'.status = status /\ view'.job = job /\ view'.sort = sort /\ view'.page = page
      /\ view'.open = open
  OBVIOUS
<1>4. /\ PageCount(view)' = CountOf(screen.leads, status, job, sort)
      /\ Rows(view)' = ShownOf(screen.phase, screen.leads, status, job, sort, page)
  BY <1>1, <1>3, DerivedNext
<1>5. page <= PageCount(view)'
  <2>1. CountOf(screen.leads, status, job, sort) \in Nat \ {0}
    BY CountPositive DEF ScreenInv, Copy
  <2> QED
    BY <1>4, <2>1
<1>6. \A l \in open : HasEvidence(l) \/ IsRejected(l)
  BY DEF ViewInv
<1>7. screen.phase # "ready" => page = 1 /\ open = {}
  BY DEF ViewInv
<1>8. ViewInv'
  BY <1>1, <1>3, <1>4, <1>5, <1>6, <1>7 DEF ViewInv, HasEvidence, IsRejected
<1>9. LinkInv'
  BY <1>1, <1>3 DEF LinkInv, ScreenInv
<1> QED
  BY <1>2, <1>8, <1>9

LEMMA ClickKeeps ==
    ASSUME InboxInv, Click
    PROVE  ScreenInv' /\ ViewInv' /\ LinkInv'
<1> USE DEF InboxInv
<1>1. UNCHANGED <<server, screen>>
  BY DEF Click, FilterStatus, FilterJob, SortByState, Prev, Forward, Show, Toggle, Control
<1>2. /\ view = [status |-> view.status, job |-> view.job, sort |-> view.sort,
                 page |-> view.page, open |-> view.open]
      /\ view.status \in StateFilters /\ view.job \in JobFilters
      /\ view.sort \in DOMAIN NextSort /\ view.page \in Nat \ {0}
      /\ view.page <= PageCount(view) /\ view.open \subseteq Rows(view)
  BY DEF ViewInv
<1>3. PageCount(view) = CountOf(screen.leads, view.status, view.job, view.sort)
  BY Derived
\* What the effect leaves of the view v.
<1>4. ASSUME NEW status \in StateFilters, NEW job \in JobFilters, NEW sort \in DOMAIN NextSort,
             job \in Jobs \ {"all"} => job = view.job \/ job \in screen.jobs,
             NEW v, v = [status |-> status, job |-> job, sort |-> sort, page |-> view.page,
                         open |-> view.open],
             Show(v, TRUE)
      PROVE  ScreenInv' /\ ViewInv' /\ LinkInv'
  <2> DEFINE w == [v EXCEPT !.page = 1]
             open == view.open \cap StillMounted(v, w)
  <2>1. w = [status |-> status, job |-> job, sort |-> sort, page |-> 1, open |-> view.open]
    BY <1>4
  <2>2. view' = [w EXCEPT !.open = view.open \cap StillMounted(v, w)]
    BY <1>4 DEF Show, PageAfterFilter
  <2>3. Rows(w) = ShownOf(screen.phase, screen.leads, status, job, sort, 1)
    <3> HIDE DEF w
    <3>1. Rows(w) = ShownOf(screen.phase, screen.leads, w.status, w.job, w.sort, w.page)
      BY Derived
    <3> QED
      BY <2>1, <3>1
  <2>4. open \subseteq view.open /\ open \subseteq Rows(w)
    BY DEF StillMounted
  <2> HIDE DEF open
  <2>5. view' = [status |-> status, job |-> job, sort |-> sort, page |-> 1, open |-> open]
    <3> HIDE DEF w
    <3> QED
      BY <2>1, <2>2 DEF open
  <2> HIDE DEF w
  <2> QED
    BY <1>1, <1>4, <2>3, <2>4, <2>5, ShowKeeps
\* A page that Prev or Next lead to.
<1>5. ASSUME NEW page \in 1..PageCount(view), screen.phase = "ready",
             Show([view EXCEPT !.page = page], FALSE)
      PROVE  ScreenInv' /\ ViewInv' /\ LinkInv'
  <2> DEFINE v == [view EXCEPT !.page = page]
             open == view.open \cap StillMounted(v, v)
  <2>1. v = [status |-> view.status, job |-> view.job, sort |-> view.sort, page |-> page,
             open |-> view.open]
    BY <1>2
  <2>2. view' = [v EXCEPT !.open = view.open \cap StillMounted(v, v)]
    <3> HIDE DEF v
    <3>1. view' = [v EXCEPT !.open = v.open \cap StillMounted(v, v)]
      BY <1>5 DEF Show, v
    <3> QED
      BY <2>1, <3>1
  <2>3. Rows(v) = ShownOf(screen.phase, screen.leads, view.status, view.job, view.sort, page)
    <3> HIDE DEF v
    <3>1. Rows(v) = ShownOf(screen.phase, screen.leads, v.status, v.job, v.sort, v.page)
      BY Derived
    <3> QED
      BY <2>1, <3>1
  <2>4. open \subseteq view.open /\ open \subseteq Rows(v)
    BY DEF StillMounted
  <2> HIDE DEF open
  <2>5. view' = [status |-> view.status, job |-> view.job, sort |-> view.sort,
                 page |-> page, open |-> open]
    <3> HIDE DEF v
    <3> QED
      BY <2>1, <2>2 DEF open
  <2> HIDE DEF v
  <2>6. PageCount(view) \in Nat \ {0}
    BY <1>2, <1>3, CountPositive DEF ScreenInv, Copy
  <2>7. page \in Nat \ {0} /\ page <= CountOf(screen.leads, view.status, view.job, view.sort)
    BY <1>3, <2>6
  <2> QED
    BY <1>1, <1>2, <1>5, <2>3, <2>4, <2>5, <2>7, ShowKeeps
<1>6. CASE FilterStatus
  <2>1. PICK st \in StateFilters : Show([view EXCEPT !.status = st], TRUE)
    BY <1>6 DEF FilterStatus
  <2> DEFINE v == [view EXCEPT !.status = st]
  <2>2. v = [status |-> st, job |-> view.job, sort |-> view.sort, page |-> view.page,
             open |-> view.open]
    BY <1>2
  <2>3. Show(v, TRUE)
    BY <2>1
  <2> HIDE DEF v
  <2> QED
    BY <1>2, <1>4, <2>2, <2>3
<1>7. CASE FilterJob
  <2>1. PICK j \in screen.jobs \cup {"all"} : Show([view EXCEPT !.job = j], TRUE)
    BY <1>7 DEF FilterJob
  <2> DEFINE v == [view EXCEPT !.job = j]
  <2>2. v = [status |-> view.status, job |-> j, sort |-> view.sort, page |-> view.page,
             open |-> view.open]
    BY <1>2
  <2>3. Show(v, TRUE)
    BY <2>1
  <2>4. j \in JobFilters /\ (j \in Jobs \ {"all"} => j \in screen.jobs)
    BY DEF ScreenInv, Made, JobFilters
  <2> HIDE DEF v
  <2> QED
    BY <1>2, <1>4, <2>2, <2>3, <2>4
<1>8. CASE SortByState
  <2> DEFINE v == [view EXCEPT !.sort = NextSort[view.sort]]
  <2>1. Show(v, TRUE)
    BY <1>8 DEF SortByState
  <2>2. v = [status |-> view.status, job |-> view.job, sort |-> NextSort[view.sort],
             page |-> view.page, open |-> view.open]
    BY <1>2
  <2>3. NextSort[view.sort] \in DOMAIN NextSort
    BY <1>2 DEF NextSort
  <2> HIDE DEF v
  <2> QED
    BY <1>2, <1>4, <2>1, <2>2, <2>3
<1>9. CASE Prev
  <2>1. screen.phase = "ready" /\ Show([view EXCEPT !.page = AtLeast(view.page - 1, 1)], FALSE)
    BY <1>9 DEF Prev
  <2>2. PageCount(view) \in Nat \ {0}
    BY <1>2, <1>3, CountPositive DEF ScreenInv, Copy
  <2>3. AtLeast(view.page - 1, 1) \in 1..PageCount(view)
    BY <1>2, <2>2 DEF AtLeast
  <2> QED
    BY <1>5, <2>1, <2>3
<1>10. CASE Forward
  <2>1. /\ screen.phase = "ready"
        /\ Show([view EXCEPT !.page = AtMost(view.page + 1, PageCount(view))], FALSE)
    BY <1>10 DEF Forward
  <2>2. PageCount(view) \in Nat \ {0}
    BY <1>2, <1>3, CountPositive DEF ScreenInv, Copy
  <2>3. AtMost(view.page + 1, PageCount(view)) \in 1..PageCount(view)
    BY <1>2, <2>2 DEF AtMost
  <2> QED
    BY <1>5, <2>1, <2>3
<1>11. CASE \E l \in Rows(view) : Toggle(l)
  <2>1. PICK l \in Rows(view) : Toggle(l)
    BY <1>11
  <2> DEFINE open == IF l \in view.open THEN view.open \ {l} ELSE view.open \cup {l}
  <2>2. view' = [view EXCEPT !.open = open]
    BY <2>1 DEF Toggle
  <2>3. HasEvidence(l) \/ IsRejected(l)
    BY <2>1 DEF Toggle
  <2>4. open \subseteq Rows(view) /\ \A k \in open : HasEvidence(k) \/ IsRejected(k)
    BY <1>2, <2>3 DEF ViewInv
  <2> HIDE DEF open
  <2>5. Rows(view) # {}
    BY <2>1
  <2>6. screen.phase = "ready"
    BY <2>5 DEF Rows
  <2>7. /\ view' = [status |-> view.status, job |-> view.job, sort |-> view.sort,
                    page |-> view.page, open |-> open]
        /\ view'.status = view.status /\ view'.job = view.job /\ view'.sort = view.sort
        /\ view'.page = view.page /\ view'.open = open
    BY <1>2, <2>2
  <2>8. Made' = Made /\ Candidates' = Candidates /\ screen' = screen
    BY <1>1 DEF server, Made, Candidates
  <2>9. PageCount(view)' = PageCount(view) /\ Rows(view)' = Rows(view)
    BY <2>7, <2>8, Derived, DerivedNext
  <2>10. ScreenInv'
    BY <2>8 DEF ScreenInv
  <2>11. ViewInv'
    BY <1>2, <2>4, <2>6, <2>7, <2>8, <2>9 DEF ViewInv, HasEvidence, IsRejected
  <2>12. LinkInv'
    BY <2>7, <2>8 DEF LinkInv
  <2> QED
    BY <2>10, <2>11, <2>12
<1> QED
  BY <1>6, <1>7, <1>8, <1>9, <1>10, <1>11 DEF Click

-----------------------------------------------------------------------------
(* The theorems.                                                           *)

LEMMA InboxStart ==
    Init => InboxInv
<1> SUFFICES ASSUME Init PROVE InboxInv
  OBVIOUS
<1> USE DEF Init
<1>1. found \in Seq(Jobs) /\ ToSet(found) = {}
  BY EmptySeq DEF ToSet
<1>2. IsFiniteSet(leads) /\ \A j \in Jobs : OfJob(j) = {}
  BY FS_EmptySet DEF OfJob
<1>3. ServerInv
  <2>1. /\ request \in [Jobs -> (UNION {Requests[j] : j \in Jobs}) \cup {Null}]
        /\ \A j \in Jobs : request[j] = Null
    OBVIOUS
  <2>2. \A j \in Jobs : Cardinality(OfJob(j)) <= MaxCandidates
    BY <1>2, FS_EmptySet, CapAssumption
  <2>3. leads = {}
    OBVIOUS
  <2> QED
    BY <1>1, <1>2, <2>1, <2>2, <2>3, Zenon DEF ServerInv
<1>4. ScreenInv
  BY NothingRead DEF ScreenInv, Loading
<1>5. view.status = "all" /\ view.job = "all" /\ view.sort = "off" /\ view.page = 1
      /\ view.open = {} /\ screen.phase = "loading" /\ screen.leads = <<>>
  BY DEF Fresh, Loading
<1>6. PageCount(view) \in Nat \ {0}
  <2>1. screen.leads \in Seq(TrueRows) /\ view.sort \in DOMAIN NextSort
    BY <1>5, EmptySeq DEF NextSort
  <2> QED
    BY <2>1, CountPositive, Derived
<1>7. ViewInv
  BY <1>5, <1>6 DEF ViewInv, Fresh, StateFilters, JobFilters, NextSort
<1>8. LinkInv
  BY <1>5 DEF LinkInv
<1> QED
  BY <1>3, <1>4, <1>7, <1>8 DEF InboxInv

LEMMA InboxStep ==
    InboxInv /\ [Next]_vars => InboxInv'
<1> SUFFICES ASSUME InboxInv, [Next]_vars PROVE InboxInv'
  OBVIOUS
<1>1. CASE Server
  <2>1. ServerInv' /\ Made \subseteq Made' /\ Candidates \subseteq Candidates'
    BY <1>1, SearchKeeps, FindKeeps, SettleKeeps DEF Server, InboxInv
  <2>2. screen' = screen /\ view' = view
    BY <1>1 DEF Server, Search, Find, Settle
  <2> QED
    BY <2>1, <2>2, PageStays DEF InboxInv
<1>2. ASSUME UNCHANGED server
      PROVE  ServerInv'
  BY <1>2 DEF server, ServerInv, InboxInv, Made, CandidatesOf, OfJob
<1>3. CASE Load
  BY <1>2, <1>3, LoadKeeps DEF InboxInv, Load, ReadJobs, ReadLeads, LoadDone, LoadFailed, Retry
<1>4. CASE Navigate
  BY <1>2, <1>4, NavigateKeeps
     DEF InboxInv, Navigate, ViewFromOverview, ViewByLink, ToOverview, OpenInbox
<1>5. CASE Click
  BY <1>2, <1>5, ClickKeeps
     DEF InboxInv, Click, FilterStatus, FilterJob, SortByState, Prev, Forward, Show, Toggle,
         Control
<1>6. CASE UNCHANGED vars
  <2>1. UNCHANGED server /\ screen' = screen /\ view' = view
    BY <1>6 DEF vars, server
  <2>2. Made \subseteq Made' /\ Candidates \subseteq Candidates'
    BY <2>1 DEF server, Made, Candidates
  <2> QED
    BY <1>2, <2>1, <2>2, PageStays DEF InboxInv
<1> QED
  BY <1>1, <1>3, <1>4, <1>5, <1>6 DEF Next

\* The server, the two reads of a page and the controls keep the inductive invariant.
THEOREM InboxInductive ==
    Spec => []InboxInv
  BY InboxStart, InboxStep, PTL DEF Spec

LEMMA CopyRows ==
    ASSUME NEW s, NEW known, Copy(s, known)
    PROVE  /\ s \in Seq(TrueRows) /\ Len(s) \in Nat /\ DOMAIN s = 1..Len(s)
           /\ ToSet(s) \subseteq TrueRows
           /\ \A l \in ToSet(s) : l.candidate \in known
           /\ Cardinality(ToSet(s)) = Len(s)
<1>1. s \in Seq(TrueRows) /\ Once(s) /\ \A n \in 1..Len(s) : s[n].candidate \in known
  BY DEF Copy
<1>2. Len(s) \in Nat /\ DOMAIN s = 1..Len(s)
  BY <1>1, LenProperties
<1>3. ToSet(s) \subseteq TrueRows
  BY <1>1, ManyAtMost
<1>4. Cardinality(ToSet(s)) = Len(s)
  BY <1>1, OnceEach DEF Once
<1> QED
  BY <1>1, <1>2, <1>3, <1>4 DEF ToSet

LEMMA TypeHolds ==
    InboxInv => TypeOK
<1> SUFFICES ASSUME InboxInv PROVE TypeOK
  OBVIOUS
<1> USE DEF InboxInv
<1>1. leads \subseteq LeadRows
  <2> SUFFICES ASSUME NEW l \in leads PROVE l \in LeadRows
    OBVIOUS
  <2>1. l \in TrueRows /\ l.candidate \in Candidates
    BY DEF ServerInv, Candidates
  <2> QED
    BY <2>1, RowFacts
<1>2. ToSet(screen.leads) \subseteq LeadRows
  <2> SUFFICES ASSUME NEW l \in ToSet(screen.leads) PROVE l \in LeadRows
    OBVIOUS
  <2>1. l \in TrueRows /\ l.candidate \in Candidates
    BY CopyRows DEF ScreenInv
  <2> QED
    BY <2>1, RowFacts
<1>3. /\ \A j \in Jobs : request[j] \in Requests[j] \cup {Null}
      /\ ToSet(found) \subseteq Made
  BY DEF ServerInv
<1>4. screen.phase \in {"loading", "ready", "error"} /\ screen.page \in {"overview", "inbox"}
  BY DEF ScreenInv
<1>5. /\ view.status \in StateFilters /\ view.job \in JobFilters
      /\ view.sort \in DOMAIN NextSort /\ view.page \in Nat \ {0}
      /\ view.open \subseteq Rows(view)
  BY DEF ViewInv
<1> QED
  BY <1>1, <1>2, <1>3, <1>4, <1>5 DEF TypeOK

\* Whatever the requests, the dice and the page size, the tables and the controls have
\* their types and an open row is on the screen.
THEOREM InboxTyped ==
    Spec => []TypeOK
  BY InboxInductive, TypeHolds, PTL

LEMMA ScoreHolds ==
    InboxInv => ScoreExplained
<1> SUFFICES ASSUME InboxInv PROVE ScoreExplained
  OBVIOUS
<1>1. \A l \in view.open : l \in TrueRows
  <2>1. ToSet(screen.leads) \subseteq TrueRows /\ screen.leads \in Seq(TrueRows)
    BY CopyRows DEF InboxInv, ScreenInv
  <2>2. Rows(view) \subseteq TrueRows
    <3> DEFINE t == SortedOf(screen.leads, view.status, view.job, view.sort)
               p == AtMost(view.page, PagesOf(t))
    <3>1. CASE screen.phase = "ready"
      <4>1. Rows(view) = ToSet(PageOf(t, p))
        BY <3>1, Derived DEF ShownOf
      <4>2. t \in Seq(TrueRows) /\ Len(t) \in Nat
        BY <2>1, SortedRows DEF InboxInv, ViewInv
      <4> HIDE DEF t
      <4>3. PagesOf(t) \in Nat \ {0}
        BY <4>2, PageArithmetic DEF PagesOf
      <4>4. p \in 1..PagesOf(t)
        BY <4>3 DEF InboxInv, ViewInv, AtMost
      <4> HIDE DEF p
      <4>5. PageOf(t, p) \in Seq(TrueRows)
        BY <4>2, <4>4, PageBounds
      <4> QED
        BY <4>1, <4>5, ManyAtMost
    <3>2. CASE screen.phase # "ready"
      BY <3>2 DEF Rows
    <3> QED
      BY <3>1, <3>2
  <2> QED
    BY <2>2 DEF InboxInv, ViewInv
<1>2. \A l \in view.open : HasEvidence(l) \/ IsRejected(l)
  BY DEF InboxInv, ViewInv
<1>3. \A l \in view.open : l.state = "verified" => Points(l.factors) = l.score
  BY <1>1, RowFacts
<1> QED
  BY <1>2, <1>3 DEF ScoreExplained, Details

\* Whatever the candidates, an open row has something to show, and the factors of a
\* verified one add up to its score (mock-verify.ts:31-32, 69, inbox/page.tsx:356-384).
THEOREM ScoreAlwaysExplained ==
    Spec => []ScoreExplained
  BY InboxInductive, ScoreHolds, PTL

LEMMA JunkHolds ==
    InboxInv => JunkUnlessCut
<1> SUFFICES ASSUME InboxInv PROVE JunkUnlessCut
  OBVIOUS
<1>1. \A j \in ToSet(found) : JunkKept(request[j], CandidatesOf(j))
  BY DEF InboxInv, ServerInv
<1>2. \A j \in Jobs : Cardinality({l \in leads : l.job = j}) <= MaxCandidates
  BY DEF InboxInv, ServerInv, OfJob
<1>3. \A l \in leads : l.candidate.mailbox = "junk" => l.state # "verified"
  <2>1. \A l \in leads : l.state = "verified" => ~Undeliverable(l.candidate)
    BY RowFacts DEF InboxInv, ServerInv
  <2> QED
    BY <2>1 DEF Undeliverable
<1> QED
  BY <1>1, <1>2, <1>3 DEF JunkUnlessCut, JunkKept, CandidatesOf, OfJob

\* Whatever the companies, the dice and the cap: a company has its junk contact unless the
\* cap may have cut it, no job has more leads than the cap, and no junk is verified
\* (mock-discover.ts:64-65, 86).
THEOREM JunkAlwaysKept ==
    Spec => []JunkUnlessCut
  BY InboxInductive, JunkHolds, PTL

LEMMA HiddenHolds ==
    InboxInv => HiddenFilterIsEmpty
<1> SUFFICES ASSUME InboxInv, screen.phase = "ready", view.job # Selected(view)
             PROVE  Filtered(view) = <<>>
  BY DEF HiddenFilterIsEmpty
<1> DEFINE f == Filtered(view)
<1>1. view.job \notin screen.jobs /\ view.job # "all"
  BY DEF Selected
<1>2. view.job \notin Jobs
  BY <1>1 DEF InboxInv, LinkInv
<1>3. screen.leads \in Seq(TrueRows)
  BY DEF InboxInv, ScreenInv, Copy
<1>4. f \in Seq(TrueRows) /\ \A l \in ToSet(f) : l.job = view.job
  <2>1. f = FilteredOf(screen.leads, view.status, view.job)
    BY Derived
  <2>2. view.sort \in DOMAIN NextSort
    BY DEF InboxInv, ViewInv
  <2> HIDE DEF f
  <2>3. /\ FilteredOf(screen.leads, view.status, view.job) \in Seq(TrueRows)
        /\ \A l \in ToSet(FilteredOf(screen.leads, view.status, view.job)) :
              view.job = "all" \/ l.job = view.job
    <3> DEFINE rows == screen.leads
               sort == view.sort
               job == view.job
               status == view.status
    <3>1. rows \in Seq(TrueRows) /\ sort \in DOMAIN NextSort
      BY <1>3, <2>2
    <3> HIDE DEF rows, sort, job, status
    <3>2. /\ FilteredOf(rows, status, job) \in Seq(TrueRows)
          /\ \A l \in ToSet(FilteredOf(rows, status, job)) : job = "all" \/ l.job = job
      BY <3>1, SortedRows
    <3> QED
      BY <3>2 DEF rows, job, status
  <2> QED
    BY <1>1, <2>1, <2>3
<1> HIDE DEF f
<1>5. f = <<>>
  <2> SUFFICES ASSUME f # <<>> PROVE FALSE
    OBVIOUS
  <2>1. Len(f) \in Nat \ {0}
    BY <1>4, EmptySeq
  <2>2. 1 \in 1..Len(f) /\ DOMAIN f = 1..Len(f)
    BY <1>4, <2>1, LenProperties
  <2>3. f[1] \in TrueRows /\ f[1] \in ToSet(f)
    BY <1>4, <2>2, ElementOfSeq DEF ToSet
  <2>4. f[1].job \in Jobs
    BY <2>3, RowFacts
  <2> QED
    BY <1>2, <1>4, <2>3, <2>4
<1> QED
  BY <1>5 DEF f

\* Whenever a link, a row or the select names a job, the page reads its jobs after it was
\* made: a filter that the select cannot show is another organization's, and hides no row
\* behind "All jobs" (inbox/page.tsx:35, 61, 133-141).
THEOREM HiddenFilterAlwaysEmpty ==
    Spec => []HiddenFilterIsEmpty
  BY InboxInductive, HiddenHolds, PTL

LEMMA PagesHold ==
    InboxInv => PagesAddUp
<1> SUFFICES ASSUME InboxInv PROVE PagesAddUp
  OBVIOUS
<1> DEFINE t == Sorted(view)
           f == Filtered(view)
           c == Current(view)
           n == PageCount(view)
           shown == PageLeads(view, c)
<1>1. screen.leads \in Seq(TrueRows) /\ view.sort \in DOMAIN NextSort
  BY DEF InboxInv, ScreenInv, Copy, ViewInv
<1>2. /\ t = SortedOf(screen.leads, view.status, view.job, view.sort)
      /\ f = FilteredOf(screen.leads, view.status, view.job)
      /\ n = CountOf(screen.leads, view.status, view.job, view.sort)
  BY Derived
<1>3. n = PagesOf(t) /\ \A p : PageLeads(view, p) = PageOf(t, p)
  BY <1>2 DEF CountOf, PageLeads, PageOf
<1>4. c = view.page /\ view.page \in 1..n /\ n \in Nat \ {0}
  <2>1. n \in Nat \ {0}
    BY <1>1, <1>2, CountPositive
  <2>2. view.page \in Nat \ {0} /\ view.page <= n
    BY DEF InboxInv, ViewInv
  <2> QED
    BY <2>1, <2>2 DEF Current, AtMost
<1>5. /\ t \in Seq(TrueRows) /\ f \in Seq(TrueRows) /\ Len(t) = Len(f) /\ Len(t) \in Nat
      /\ ToSet(t) = ToSet(f)
  <2> HIDE DEF t, f
  <2> QED
    BY <1>1, <1>2, SortedRows
<1>6. FlattenSeq([p \in 1..n |-> PageLeads(view, p)]) = t
  <2> HIDE DEF t, n
  <2>1. FlattenSeq([p \in 1..PagesOf(t) |-> PageOf(t, p)]) = t
    BY <1>5, Leafed
  <2> QED
    BY <1>3, <2>1
<1>7. /\ RangeEnd(view) = AtMost(c * PageSize, Len(f))
      /\ RangeStart(view) = IF f = <<>> THEN 0 ELSE (c - 1) * PageSize + 1
  BY DEF RangeEnd, RangeStart
<1> DEFINE low == (c - 1) * PageSize
           high == AtMost(c * PageSize, Len(t))
<1>8. /\ low \in Nat /\ high \in Nat /\ low <= high /\ high <= Len(t)
      /\ Len(t) # 0 => low < high
      /\ shown \in Seq(TrueRows) /\ Len(shown) = high - low
  <2> HIDE DEF t, n, c
  <2>1. c \in 1..PagesOf(t)
    BY <1>3, <1>4
  <2> QED
    BY <1>3, <1>5, <2>1, PageBounds
<1>9. RangeEnd(view) = high /\ RangeStart(view) = IF f = <<>> THEN 0 ELSE low + 1
  BY <1>5, <1>7
<1>10. (f = <<>> <=> Len(f) = 0) /\ (shown = <<>> <=> Len(shown) = 0)
  <2> HIDE DEF f, shown
  <2> QED
    BY <1>5, <1>8, EmptySeq
<1>11. /\ Len(shown) = IF shown = <<>> THEN RangeEnd(view)
                                     ELSE RangeEnd(view) - RangeStart(view) + 1
       /\ shown = <<>> => f = <<>>
  <2>1. high \in Nat /\ low \in Nat /\ Len(f) \in Nat /\ Len(t) = Len(f)
    BY <1>5, <1>8
  <2> HIDE DEF low, high, shown, f, t
  <2> QED
    BY <1>8, <1>9, <1>10, <2>1
<1>12. Len(screen.leads) = Cardinality(UNION {Having(st) : st \in LeadStates})
  <2>1. /\ ToSet(screen.leads) \subseteq TrueRows
        /\ Cardinality(ToSet(screen.leads)) = Len(screen.leads)
    BY CopyRows DEF InboxInv, ScreenInv
  <2>2. \A l \in ToSet(screen.leads) : l.state \in LeadStates
    BY <2>1, RowFacts
  <2>3. UNION {Having(st) : st \in LeadStates} = ToSet(screen.leads)
    BY <2>2 DEF Having
  <2> QED
    BY <2>1, <2>3
<1>13. VerifiedRate = Null <=> Having("verified") \cup Having("rejected") = {}
  <2> DEFINE V == Having("verified")
             R == Having("rejected")
             v == Cardinality(V)
             d == v + Cardinality(R)
  <2>1. IsFiniteSet(ToSet(screen.leads))
    BY <1>1, ManyAtMost
  <2>2. IsFiniteSet(V) /\ IsFiniteSet(R)
    BY <2>1, FS_Subset DEF Having
  <2> HIDE DEF V, R
  <2>3. /\ v \in Nat /\ Cardinality(R) \in Nat
        /\ v = 0 <=> V = {}
        /\ Cardinality(R) = 0 <=> R = {}
    BY <2>2, FS_CardinalityType, FS_EmptySet
  <2>4. VerifiedRate = Percent(v, d)
    BY DEF VerifiedRate, V, R
  <2> HIDE DEF v
  <2>5. d \in Nat /\ (d = 0 <=> V \cup R = {})
    BY <2>3
  <2>6. d # 0 => Percent(v, d) \in Nat
    <3> HIDE DEF d
    <3>1. d # 0 => (200 * v + d) \div (2 * d) \in Nat
      <4> SUFFICES ASSUME d # 0 PROVE (200 * v + d) \div (2 * d) \in Nat
        OBVIOUS
      <4> DEFINE a == 200 * v + d
                 b == 2 * d
      <4>1. a \in Nat /\ b \in Nat /\ b # 0
        BY <2>3, <2>5
      <4> HIDE DEF a, b
      <4>2. a \div b \in Nat
        BY <4>1, Quotient
      <4> QED
        BY <4>2 DEF a, b
    <3> QED
      BY <2>5, <3>1 DEF Percent
  <2>7. d = 0 => Percent(v, d) = Null
    BY DEF Percent
  <2> HIDE DEF d
  <2> QED
    BY <2>4, <2>5, <2>6, <2>7, NullAssumption DEF V, R
<1>14. view.page = c
  BY <1>4
<1> HIDE DEF n, c
<1> QED
  BY <1>5, <1>6, <1>11, <1>12, <1>13, <1>14, Zenon DEF PagesAddUp, n, c

\* Whatever the page size: leafing shows every lead of the filters once, the counters say
\* what is on the screen, and the overview counts every lead once
\* (inbox/page.tsx:84-97, 255, 263, page.tsx:42-46).
THEOREM PagesAlwaysAddUp ==
    Spec => []PagesAddUp
  BY InboxInductive, PagesHold, PTL

=============================================================================
