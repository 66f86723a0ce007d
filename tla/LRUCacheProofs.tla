--------------------------- MODULE LRUCacheProofs ---------------------------
(***************************************************************************)
(* Proofs about LRUCache, for any finite set of keys, any contents, sizes, *)
(* lifetimes and capacity.                                                 *)
(*                                                                         *)
(* The loops of the code and its sums are recursive functions on 0..N.     *)
(* What they compute is proved by induction, in the form SetInduction: the *)
(* numbers that have a property form a set, which contains 0 and with each *)
(* number the next.                                                        *)
(***************************************************************************)
EXTENDS LRUCache, FiniteSetTheorems, WellFoundedInduction, TLAPS

(* Every nonempty set of naturals has a smallest element. *)
LEMMA SmallestNat ==
    ASSUME NEW T \in SUBSET Nat, T # {}
    PROVE  \E x \in T : \A y \in T : x <= y
<1> DEFINE R == OpToRel(<, Nat)
<1>1. IsWellFoundedOn(R, Nat)
  BY NatLessThanWellFounded, Zenon
<1>2. \A y, x \in Nat : y < x => <<y, x>> \in R
  BY DEF OpToRel
<1> HIDE DEF R
<1>3. PICK x \in T : \A y \in T : ~(<<y, x>> \in R)
  BY <1>1, WFMin
<1>4. \A y \in T : y \in Nat /\ x \in Nat /\ ~(y < x)
  BY <1>2, <1>3
<1> QED
  BY <1>4

(* Induction up to N. *)
LEMMA SetInduction ==
    ASSUME NEW N \in Nat, NEW S, 0 \in S, \A n \in 0..N - 1 : n \in S => n + 1 \in S
    PROVE  0..N \subseteq S
<1> SUFFICES ASSUME (0..N) \ S # {} PROVE FALSE
  OBVIOUS
<1> DEFINE T == (0..N) \ S
<1>0. T \in SUBSET Nat /\ T # {}
  OBVIOUS
<1>1. PICK x \in T : \A y \in T : x <= y
  <2> HIDE DEF T
  <2> QED
    BY <1>0, SmallestNat
<1>2. x # 0 /\ x - 1 \in 0..N - 1
  BY <1>1
<1>3. x - 1 \in S
  BY <1>1, <1>2
<1> QED
  BY <1>1, <1>2, <1>3

(* Recursion up to N: what starts at x and goes on by the steps exists. *)
Steps(N, S) == [1..N -> [S -> S]]
Iterates(g, N, S, x, step) ==
    g \in [0..N -> S] /\ g[0] = x /\ \A n \in 1..N : g[n] = step[n][g[n - 1]]

LEMMA Iteration ==
    ASSUME NEW N \in Nat, NEW S, NEW x \in S, NEW step \in Steps(N, S)
    PROVE  \E g : Iterates(g, N, S, x, step)
<1>0. step \in [1..N -> [S -> S]]
  BY DEF Steps
<1> DEFINE Done(m, g) == g[0] = x /\ \A n \in 1..m : g[n] = step[n][g[n - 1]]
           T == {m \in 0..N : \E g \in [0..m -> S] : Done(m, g)}
<1>1. 0 \in T
  <2> DEFINE g == [n \in 0..0 |-> x]
  <2>1. g \in [0..0 -> S] /\ g[0] = x /\ 0 \in 0..N
    OBVIOUS
  <2>2. Done(0, g)
    BY <2>1
  <2> HIDE DEF g, Done
  <2> QED
    BY <2>1, <2>2
<1>2. ASSUME NEW m \in 0..N - 1, m \in T PROVE m + 1 \in T
  <2>1. PICK g \in [0..m -> S] : Done(m, g)
    BY <1>2
  <2> DEFINE h == [n \in 0..m + 1 |-> IF n <= m THEN g[n] ELSE step[m + 1][g[m]]]
  <2>2. m \in 0..m /\ m + 1 \in 1..N
    OBVIOUS
  <2>3. step[m + 1][g[m]] \in S
    BY <1>0, <2>2
  <2>4. h \in [0..m + 1 -> S]
    BY <2>3
  <2>5. h[0] = x
    BY <2>1
  <2>6. ASSUME NEW n \in 1..m + 1 PROVE h[n] = step[n][h[n - 1]]
    <3>1. CASE n <= m
      <4>1. n \in 0..m + 1 /\ n - 1 \in 0..m + 1 /\ n \in 1..m /\ n - 1 <= m
        BY <3>1
      <4>2. h[n] = g[n] /\ h[n - 1] = g[n - 1]
        BY <3>1, <4>1
      <4> QED
        BY <2>1, <4>1, <4>2
    <3>2. CASE n = m + 1
      <4>1. h[n] = step[m + 1][g[m]] /\ h[m] = g[m]
        BY <3>2
      <4> QED
        BY <3>2, <4>1
    <3> QED
      BY <3>1, <3>2
  <2>7. Done(m + 1, h)
    BY <2>5, <2>6
  <2> HIDE DEF h, Done
  <2> QED
    BY <2>4, <2>7
<1>3. 0..N \subseteq T
  <2> HIDE DEF T
  <2> QED
    BY <1>1, <1>2, SetInduction
<1>4. N \in T
  BY <1>3
<1> QED
  BY <1>4 DEF Iterates

-----------------------------------------------------------------------------
(* Sums over sequences of numbers. *)
LEMMA SumsDef ==
    ASSUME NEW s \in Seq(Nat)
    PROVE  /\ Sums(s) \in [0..Len(s) -> Nat]
           /\ Sums(s)[0] = 0
           /\ \A n \in 1..Len(s) : Sums(s)[n] = Sums(s)[n - 1] + s[n]
<1> DEFINE N == Len(s)
           step == [n \in 1..N |-> [v \in Nat |-> v + s[n]]]
           Eq(g) == g = [n \in 0..N |-> IF n = 0 THEN 0 ELSE g[n - 1] + s[n]]
<1>1. N \in Nat /\ \A n \in 1..N : s[n] \in Nat
  OBVIOUS
<1>2. step \in Steps(N, Nat)
  BY <1>1 DEF Steps
<1>3. PICK g : Iterates(g, N, Nat, 0, step)
  <2>1. N \in Nat /\ 0 \in Nat
    BY <1>1
  <2> HIDE DEF N, step
  <2> QED
    BY <1>2, <2>1, Iteration
<1>4. ASSUME NEW n \in 1..N PROVE g[n] = g[n - 1] + s[n]
  <2>1. n - 1 \in 0..N
    BY <1>1
  <2>2. g[n - 1] \in Nat /\ g[n] = step[n][g[n - 1]]
    BY <1>3, <2>1 DEF Iterates
  <2> QED
    BY <2>2
<1>5. Eq(g)
  BY <1>1, <1>3, <1>4 DEF Iterates
<1>6. Sums(s) = CHOOSE h : Eq(h)
  BY DEF Sums
<1>7. Eq(Sums(s))
  <2> HIDE DEF Eq
  <2> QED
    BY <1>5, <1>6
<1>8. ASSUME NEW n \in 0..N PROVE Sums(s)[n] = IF n = 0 THEN 0 ELSE Sums(s)[n - 1] + s[n]
  BY <1>7
<1>9. DOMAIN Sums(s) = 0..N
  BY <1>7
<1> DEFINE T == {n \in 0..N : Sums(s)[n] \in Nat}
<1>10. 0..N \subseteq T
  <2>1. 0 \in T
    BY <1>1, <1>8
  <2>2. ASSUME NEW n \in 0..N - 1, n \in T PROVE n + 1 \in T
    <3>1. n + 1 \in 1..N /\ n + 1 \in 0..N /\ (n + 1) - 1 = n
      BY <1>1
    <3>2. Sums(s)[n + 1] = Sums(s)[n] + s[n + 1]
      BY <1>8, <3>1
    <3> QED
      BY <1>1, <2>2, <3>1, <3>2
  <2> HIDE DEF T
  <2> QED
    BY <1>1, <2>1, <2>2, SetInduction
<1>11. Sums(s) = [n \in 0..N |-> Sums(s)[n]]
  BY <1>7
<1>12. Sums(s) \in [0..N -> Nat]
  BY <1>10, <1>11
<1> QED
  BY <1>1, <1>8, <1>12

LEMMA SumsNat ==
    ASSUME NEW s \in Seq(Nat), NEW n \in 0..Len(s)
    PROVE  Sums(s)[n] \in Nat
BY SumsDef

LEMMA SumStep ==
    ASSUME NEW s \in Seq(Nat), NEW n \in 0..Len(s) - 1
    PROVE  /\ n + 1 \in 1..Len(s) /\ s[n + 1] \in Nat
           /\ Sums(s)[n] \in Nat /\ Sums(s)[n + 1] \in Nat
           /\ Sums(s)[n + 1] = Sums(s)[n] + s[n + 1]
<1>1. n + 1 \in 1..Len(s) /\ n \in 0..Len(s) /\ n + 1 \in 0..Len(s) /\ (n + 1) - 1 = n
  OBVIOUS
<1>2. Sums(s)[n] \in Nat /\ Sums(s)[n + 1] \in Nat
  BY <1>1, SumsNat
<1>3. Sums(s)[n + 1] = Sums(s)[(n + 1) - 1] + s[n + 1]
  BY <1>1, SumsDef
<1> QED
  BY <1>1, <1>2, <1>3

LEMMA SumNat ==
    ASSUME NEW s \in Seq(Nat)
    PROVE  SumOf(s) \in Nat
BY SumsNat DEF SumOf

(* An element taken out, an element more in front and one more at the end. *)
LEMMA RemoveAtSeq ==
    ASSUME NEW S, NEW s \in Seq(S), NEW i \in 1..Len(s)
    PROVE  /\ RemoveAt(s, i) \in Seq(S) /\ Len(RemoveAt(s, i)) = Len(s) - 1
           /\ \A j \in 1..Len(s) - 1 : RemoveAt(s, i)[j] = IF j < i THEN s[j] ELSE s[j + 1]
<1> DEFINE a == SubSeq(s, 1, i - 1)
           b == SubSeq(s, i + 1, Len(s))
<1>1. /\ a \in Seq(S) /\ Len(a) = i - 1 /\ \A j \in 1..i - 1 : a[j] = s[j]
  OBVIOUS
<1>2. /\ b \in Seq(S) /\ Len(b) = Len(s) - i /\ \A j \in 1..Len(s) - i : b[j] = s[i + j]
  OBVIOUS
<1>3. RemoveAt(s, i) = a \o b
  BY DEF RemoveAt
<1> HIDE DEF a, b
<1>4. a \o b \in Seq(S) /\ Len(a \o b) = Len(s) - 1
  <2>0. a \in Seq(S) /\ b \in Seq(S)
    BY <1>1, <1>2
  <2>1. a \o b \in Seq(S) /\ Len(a \o b) = Len(a) + Len(b)
    BY <2>0
  <2> QED
    BY <1>1, <1>2, <2>1
<1>5. ASSUME NEW j \in 1..Len(s) - 1 PROVE (a \o b)[j] = IF j < i THEN s[j] ELSE s[j + 1]
  <2>1. CASE j < i
    BY <1>1, <1>2, <2>1
  <2>2. CASE ~(j < i)
    <3>1. (a \o b)[j] = b[j - (i - 1)] /\ j - (i - 1) \in 1..Len(s) - i
      BY <1>1, <1>2, <2>2
    <3>2. b[j - (i - 1)] = s[i + (j - (i - 1))] /\ i + (j - (i - 1)) = j + 1
      BY <1>2, <3>1
    <3> QED
      BY <2>2, <3>1, <3>2
  <2> QED
    BY <2>1, <2>2
<1> QED
  BY <1>3, <1>4, <1>5

LEMMA SumRemoveAt ==
    ASSUME NEW s \in Seq(Nat), NEW i \in 1..Len(s)
    PROVE  SumOf(RemoveAt(s, i)) = SumOf(s) - s[i]
<1> DEFINE r == RemoveAt(s, i)
           T == {n \in 0..Len(s) - 1 : Sums(r)[n] = IF n < i THEN Sums(s)[n] ELSE Sums(s)[n + 1] - s[i]}
<1>1. /\ r \in Seq(Nat) /\ Len(r) = Len(s) - 1
      /\ \A j \in 1..Len(s) - 1 : r[j] = IF j < i THEN s[j] ELSE s[j + 1]
  BY RemoveAtSeq
<1>2. \A n \in 1..Len(s) : s[n] \in Nat
  OBVIOUS
<1> HIDE DEF r
<1>3. Len(s) \in Nat /\ Len(s) - 1 \in Nat /\ i - 1 \in Nat
  OBVIOUS
<1>4. 0 \in T
  BY <1>1, <1>3, SumsDef
<1>5. ASSUME NEW n \in 0..(Len(s) - 1) - 1, n \in T PROVE n + 1 \in T
  <2>1. Sums(r)[n + 1] = Sums(r)[n] + r[n + 1]
    BY <1>1, <1>3, SumStep
  <2>2. /\ Sums(s)[n + 1] = Sums(s)[n] + s[n + 1]
        /\ Sums(s)[n + 2] = Sums(s)[n + 1] + s[n + 2]
        /\ Sums(s)[n] \in Nat /\ Sums(s)[n + 1] \in Nat /\ Sums(s)[n + 2] \in Nat
    <3>1. n \in 0..Len(s) - 1 /\ n + 1 \in 0..Len(s) - 1 /\ (n + 1) + 1 = n + 2
      BY <1>3
    <3> QED
      BY <3>1, SumStep
  <2>3. s[n + 1] \in Nat /\ s[n + 2] \in Nat /\ s[i] \in Nat
    BY <1>2, <1>3
  <2>4. CASE n + 1 < i
    BY <1>1, <1>3, <1>5, <2>1, <2>2, <2>4
  <2>5. CASE ~(n + 1 < i)
    <3>1. r[n + 1] = s[n + 2]
      <4>1. n + 1 \in 1..Len(s) - 1 /\ (n + 1) + 1 = n + 2
        BY <1>3
      <4> QED
        BY <1>1, <2>5, <4>1
    <3>2. Sums(r)[n] = Sums(s)[n + 1] - s[i]
      <4>1. CASE n < i
        <5>1. i = n + 1
          BY <2>5, <4>1
        <5>2. Sums(r)[n] = Sums(s)[n]
          BY <1>5, <4>1
        <5> QED
          BY <2>2, <2>3, <5>1, <5>2
      <4>2. CASE ~(n < i)
        BY <1>5, <4>2
      <4> QED
        BY <4>1, <4>2
    <3>3. Sums(r)[n + 1] = Sums(s)[n + 2] - s[i]
      <4>1. Sums(r)[n + 1] = (Sums(s)[n + 1] - s[i]) + s[n + 2]
        BY <2>1, <3>1, <3>2
      <4>2. Sums(s)[n + 1] \in Nat /\ s[i] \in Nat /\ s[n + 2] \in Nat
        BY <2>2, <2>3
      <4>3. (Sums(s)[n + 1] - s[i]) + s[n + 2] = (Sums(s)[n + 1] + s[n + 2]) - s[i]
        BY <4>2
      <4> QED
        BY <2>2, <4>1, <4>3
    <3>4. n + 1 \in 0..Len(s) - 1 /\ (n + 1) + 1 = n + 2
      BY <1>3
    <3> QED
      BY <2>5, <3>3, <3>4
  <2> QED
    BY <2>4, <2>5
<1>6. 0..Len(s) - 1 \subseteq T
  <2> HIDE DEF T
  <2> QED
    BY <1>3, <1>4, <1>5, SetInduction
<1>7. Len(s) - 1 \in T
  BY <1>3, <1>6
<1>8. Sums(r)[Len(s) - 1] = Sums(s)[Len(s)] - s[i]
  <2>1. CASE Len(s) - 1 < i
    <3>1. i = Len(s)
      BY <1>3, <2>1
    <3>2. Sums(s)[i] = Sums(s)[i - 1] + s[i] /\ Sums(s)[i - 1] \in Nat /\ s[i] \in Nat
      BY <1>2, <1>3, SumsDef
    <3> QED
      BY <1>3, <1>7, <2>1, <3>1, <3>2
  <2>2. CASE ~(Len(s) - 1 < i)
    BY <1>3, <1>7, <2>2
  <2> QED
    BY <2>1, <2>2
<1> QED
  BY <1>1, <1>8 DEF SumOf, r

LEMMA SumCons ==
    ASSUME NEW s \in Seq(Nat), NEW x \in Nat
    PROVE  SumOf(<<x>> \o s) = x + SumOf(s)
<1> DEFINE r == <<x>> \o s
           T == {n \in 0..Len(s) : Sums(r)[n + 1] = x + Sums(s)[n]}
<1>1. /\ r \in Seq(Nat) /\ Len(r) = Len(s) + 1 /\ r[1] = x
      /\ \A j \in 1..Len(s) : r[j + 1] = s[j]
  OBVIOUS
<1> HIDE DEF r
<1>2. Len(s) \in Nat
  OBVIOUS
<1>3. 0 \in T
  <2>1. Sums(r)[0] = 0 /\ Sums(s)[0] = 0
    BY <1>1, SumsDef
  <2>2. Sums(r)[0 + 1] = Sums(r)[0] + r[0 + 1]
    BY <1>1, <1>2, SumStep
  <2> QED
    BY <1>1, <1>2, <2>1, <2>2
<1>4. ASSUME NEW n \in 0..Len(s) - 1, n \in T PROVE n + 1 \in T
  <2>1. Sums(r)[(n + 1) + 1] = Sums(r)[n + 1] + r[(n + 1) + 1]
    <3>1. n + 1 \in 0..Len(r) - 1
      BY <1>1, <1>2
    <3> QED
      BY <1>1, <3>1, SumStep
  <2>2. Sums(s)[n + 1] = Sums(s)[n] + s[n + 1] /\ Sums(s)[n] \in Nat /\ s[n + 1] \in Nat
    BY <1>2, SumStep
  <2>3. r[(n + 1) + 1] = s[n + 1]
    BY <1>1, <1>2
  <2> QED
    BY <1>2, <1>4, <2>1, <2>2, <2>3
<1>5. 0..Len(s) \subseteq T
  <2> HIDE DEF T
  <2> QED
    BY <1>2, <1>3, <1>4, SetInduction
<1> QED
  BY <1>1, <1>2, <1>5 DEF SumOf, r

(* Of sequences of one length, the one with the smaller elements. *)
LEMMA SumBelow ==
    ASSUME NEW s \in Seq(Nat), NEW t \in Seq(Nat), Len(s) = Len(t),
           \A i \in 1..Len(s) : s[i] <= t[i]
    PROVE  SumOf(s) <= SumOf(t)
<1> DEFINE T == {n \in 0..Len(s) : Sums(s)[n] <= Sums(t)[n]}
<1>1. Len(s) \in Nat
  OBVIOUS
<1>2. 0 \in T
  BY <1>1, SumsDef
<1>3. ASSUME NEW n \in 0..Len(s) - 1, n \in T PROVE n + 1 \in T
  <2>1. Sums(s)[n + 1] = Sums(s)[n] + s[n + 1] /\ Sums(t)[n + 1] = Sums(t)[n] + t[n + 1]
    BY <1>1, SumStep
  <2>2. /\ s[n + 1] \in Nat /\ t[n + 1] \in Nat /\ s[n + 1] <= t[n + 1]
        /\ Sums(s)[n] \in Nat /\ Sums(t)[n] \in Nat
    BY <1>1, SumStep
  <2> QED
    BY <1>1, <1>3, <2>1, <2>2
<1>4. 0..Len(s) \subseteq T
  <2> HIDE DEF T
  <2> QED
    BY <1>1, <1>2, <1>3, SetInduction
<1> QED
  BY <1>1, <1>4 DEF SumOf
-----------------------------------------------------------------------------
(* The bytes of a list. *)
Sizes(list) == [i \in DOMAIN list |-> Size(list[i])]

LEMMA ItemFacts ==
    ASSUME NEW e \in CacheItem
    PROVE  e.key \in Keys /\ e.data \in Data /\ Size(e) \in Nat /\ e # NoItem
<1>1. e.key \in Keys /\ e.data \in Data /\ Size(e) \in Nat
  BY CacheAssumption DEF CacheItem, Size
<1>2. "data" \in DOMAIN e /\ "data" \notin DOMAIN NoItem
  BY DEF CacheItem, NoItem
<1> QED
  BY <1>1, <1>2

LEMMA SizesSeq ==
    ASSUME NEW list \in Seq(CacheItem)
    PROVE  /\ Sizes(list) \in Seq(Nat) /\ Len(Sizes(list)) = Len(list)
           /\ \A i \in 1..Len(list) : Sizes(list)[i] = Size(list[i])
           /\ Total(list) = SumOf(Sizes(list)) /\ Total(list) \in Nat
<1>1. DOMAIN list = 1..Len(list) /\ Len(list) \in Nat
  OBVIOUS
<1>2. \A i \in 1..Len(list) : Size(list[i]) \in Nat
  BY ItemFacts
<1>3. Sizes(list) \in [1..Len(list) -> Nat]
  BY <1>1, <1>2 DEF Sizes
<1>4. Sizes(list) \in Seq(Nat) /\ Len(Sizes(list)) = Len(list)
  BY <1>1, <1>3
<1>5. Total(list) = SumOf(Sizes(list))
  BY DEF Total, Sizes
<1>6. \A i \in 1..Len(list) : Sizes(list)[i] = Size(list[i])
  BY <1>1 DEF Sizes
<1> QED
  BY <1>4, <1>5, <1>6, SumNat

LEMMA SameSeq ==
    ASSUME NEW S, NEW s \in Seq(S), NEW t \in Seq(S), Len(s) = Len(t),
           \A i \in 1..Len(s) : s[i] = t[i]
    PROVE  s = t
OBVIOUS

LEMMA TotalEmpty == Total(<<>>) = 0
<1>1. <<>> \in Seq(CacheItem) /\ Len(<<>>) = 0
  OBVIOUS
<1>2. Sizes(<<>>) \in Seq(Nat) /\ Len(Sizes(<<>>)) = 0 /\ Total(<<>>) = SumOf(Sizes(<<>>))
  BY <1>1, SizesSeq
<1> QED
  BY <1>2, SumsDef DEF SumOf

LEMMA TotalRemove ==
    ASSUME NEW list \in Seq(CacheItem), NEW i \in 1..Len(list)
    PROVE  Total(RemoveAt(list, i)) = Total(list) - Size(list[i])
<1> DEFINE r == RemoveAt(list, i)
           q == RemoveAt(Sizes(list), i)
<1>1. /\ Sizes(list) \in Seq(Nat) /\ Len(Sizes(list)) = Len(list)
      /\ \A j \in 1..Len(list) : Sizes(list)[j] = Size(list[j])
  BY SizesSeq
<1>2. /\ r \in Seq(CacheItem) /\ Len(r) = Len(list) - 1
      /\ \A j \in 1..Len(list) - 1 : r[j] = IF j < i THEN list[j] ELSE list[j + 1]
  BY RemoveAtSeq
<1>3. /\ q \in Seq(Nat) /\ Len(q) = Len(list) - 1
      /\ \A j \in 1..Len(list) - 1 : q[j] = IF j < i THEN Sizes(list)[j] ELSE Sizes(list)[j + 1]
  <2> DEFINE z == Sizes(list)
  <2>1. z \in Seq(Nat) /\ i \in 1..Len(z) /\ Len(z) = Len(list)
    BY <1>1
  <2> HIDE DEF z
  <2>2. /\ RemoveAt(z, i) \in Seq(Nat) /\ Len(RemoveAt(z, i)) = Len(z) - 1
        /\ \A j \in 1..Len(z) - 1 : RemoveAt(z, i)[j] = IF j < i THEN z[j] ELSE z[j + 1]
    BY <2>1, RemoveAtSeq
  <2> QED
    BY <2>1, <2>2 DEF z
<1> HIDE DEF r, q
<1>4. /\ Sizes(r) \in Seq(Nat) /\ Len(Sizes(r)) = Len(r)
      /\ \A j \in 1..Len(r) : Sizes(r)[j] = Size(r[j])
      /\ Total(r) = SumOf(Sizes(r)) /\ Total(list) = SumOf(Sizes(list))
  BY <1>2, SizesSeq
<1>5. ASSUME NEW j \in 1..Len(list) - 1 PROVE Sizes(r)[j] = q[j]
  <2>1. j \in 1..Len(list) /\ j + 1 \in 1..Len(list)
    OBVIOUS
  <2>2. CASE j < i
    BY <1>1, <1>2, <1>3, <1>4, <2>1, <2>2
  <2>3. CASE ~(j < i)
    BY <1>1, <1>2, <1>3, <1>4, <2>1, <2>3
  <2> QED
    BY <2>2, <2>3
<1>6. Sizes(r) = q
  BY <1>2, <1>3, <1>4, <1>5, SameSeq
<1>7. SumOf(q) = SumOf(Sizes(list)) - Sizes(list)[i]
  BY <1>1, SumRemoveAt DEF q
<1> QED
  BY <1>1, <1>4, <1>6, <1>7 DEF r

LEMMA TotalCons ==
    ASSUME NEW list \in Seq(CacheItem), NEW e \in CacheItem
    PROVE  /\ <<e>> \o list \in Seq(CacheItem)
           /\ Total(<<e>> \o list) = Size(e) + Total(list)
<1> DEFINE r == <<e>> \o list
           q == <<Size(e)>> \o Sizes(list)
<1>1. /\ Sizes(list) \in Seq(Nat) /\ Len(Sizes(list)) = Len(list)
      /\ \A j \in 1..Len(list) : Sizes(list)[j] = Size(list[j])
  BY SizesSeq
<1>2. /\ r \in Seq(CacheItem) /\ Len(r) = Len(list) + 1 /\ r[1] = e
      /\ \A j \in 1..Len(list) : r[j + 1] = list[j]
  OBVIOUS
<1>3. /\ q \in Seq(Nat) /\ Len(q) = Len(list) + 1 /\ q[1] = Size(e)
      /\ \A j \in 1..Len(list) : q[j + 1] = Sizes(list)[j]
  BY <1>1, ItemFacts
<1> HIDE DEF r, q
<1>4. /\ Sizes(r) \in Seq(Nat) /\ Len(Sizes(r)) = Len(r)
      /\ \A j \in 1..Len(r) : Sizes(r)[j] = Size(r[j])
      /\ Total(r) = SumOf(Sizes(r)) /\ Total(list) = SumOf(Sizes(list))
  BY <1>2, SizesSeq
<1>5. ASSUME NEW j \in 1..Len(r) PROVE Sizes(r)[j] = q[j]
  <2>1. CASE j = 1
    BY <1>2, <1>3, <1>4, <2>1
  <2>2. CASE j # 1
    <3>1. j - 1 \in 1..Len(list) /\ (j - 1) + 1 = j
      BY <1>2, <2>2
    <3>2. r[j] = list[j - 1] /\ q[j] = Sizes(list)[j - 1]
      BY <1>2, <1>3, <3>1
    <3> QED
      BY <1>1, <1>4, <3>1, <3>2
  <2> QED
    BY <2>1, <2>2
<1>6. Sizes(r) = q
  BY <1>2, <1>3, <1>4, <1>5, SameSeq
<1>7. SumOf(q) = Size(e) + SumOf(Sizes(list))
  BY <1>1, ItemFacts, SumCons DEF q
<1> QED
  BY <1>2, <1>4, <1>6, <1>7 DEF r
-----------------------------------------------------------------------------
(* Values of the three fields, and InStep for them element by element. *)
Value == [items: Seq(CacheItem), lookup: [Keys -> CacheItem \cup {NoItem}], size: Int]

Linked(c) ==
    /\ c.size = Total(c.items)
    /\ \A i \in 1..Len(c.items) : c.lookup[c.items[i].key] = c.items[i]
    /\ \A k \in Keys : c.lookup[k] # NoItem =>
          c.lookup[k].key = k /\ \E i \in 1..Len(c.items) : c.items[i] = c.lookup[k]
    /\ \A i, j \in 1..Len(c.items) : c.items[i].key = c.items[j].key => i = j

Good(c) == c \in Value /\ Linked(c)

LEMMA ValueFacts ==
    ASSUME NEW c \in Value
    PROVE  /\ c.items \in Seq(CacheItem) /\ Len(c.items) \in Nat /\ DOMAIN c.items = 1..Len(c.items)
           /\ c.lookup \in [Keys -> CacheItem \cup {NoItem}] /\ c.size \in Int
           /\ \A i \in 1..Len(c.items) : c.items[i] \in CacheItem /\ c.items[i].key \in Keys
           /\ \A i \in 1..Len(c.items) : c.items[i] # NoItem /\ Size(c.items[i]) \in Nat
<1>1. /\ c.items \in Seq(CacheItem) /\ c.lookup \in [Keys -> CacheItem \cup {NoItem}]
      /\ c.size \in Int
  BY DEF Value
<1>2. /\ Len(c.items) \in Nat /\ DOMAIN c.items = 1..Len(c.items)
      /\ \A i \in 1..Len(c.items) : c.items[i] \in CacheItem
  BY <1>1
<1> QED
  BY <1>1, <1>2, ItemFacts

LEMMA AgreeIsLinked ==
    ASSUME NEW c \in Value
    PROVE  Agree(c) <=> Linked(c)
<1>1. /\ DOMAIN c.items = 1..Len(c.items)
      /\ \A i \in 1..Len(c.items) : c.items[i].key \in Keys /\ c.items[i] # NoItem
  BY ValueFacts
<1>2. ASSUME Agree(c) PROVE Linked(c)
  <2>1. ASSUME NEW i \in 1..Len(c.items) PROVE c.lookup[c.items[i].key] = c.items[i]
    <3>1. c.items[i] \in {c.lookup[k] : k \in Keys}
      BY <1>1, <1>2 DEF Agree, ToSet
    <3>2. PICK k \in Keys : c.items[i] = c.lookup[k]
      BY <3>1
    <3> QED
      BY <1>1, <1>2, <3>2 DEF Agree
  <2>2. ASSUME NEW k \in Keys, c.lookup[k] # NoItem
        PROVE  \E i \in 1..Len(c.items) : c.items[i] = c.lookup[k]
    <3>1. c.lookup[k] \in ToSet(c.items)
      BY <1>2, <2>2 DEF Agree
    <3> QED
      BY <1>1, <3>1 DEF ToSet
  <2> QED
    BY <1>1, <1>2, <2>1, <2>2 DEF Agree, Linked
<1>3. ASSUME Linked(c) PROVE Agree(c)
  <2>1. ASSUME NEW e \in ToSet(c.items) PROVE e \in {c.lookup[k] : k \in Keys} \ {NoItem}
    <3>1. PICK i \in 1..Len(c.items) : e = c.items[i]
      BY <1>1, <2>1 DEF ToSet
    <3> QED
      BY <1>1, <1>3, <3>1 DEF Linked
  <2>2. ASSUME NEW e \in {c.lookup[k] : k \in Keys} \ {NoItem} PROVE e \in ToSet(c.items)
    BY <1>1, <1>3 DEF Linked, ToSet
  <2> QED
    BY <1>1, <1>3, <2>1, <2>2 DEF Agree, Linked
<1> QED
  BY <1>2, <1>3

(* removeElement keeps the three in step. *)
Removed(c, i, d) ==
    /\ Good(d)
    /\ d.items = RemoveAt(c.items, i) /\ Len(d.items) = Len(c.items) - 1
    /\ \A j \in 1..Len(d.items) : d.items[j] = IF j < i THEN c.items[j] ELSE c.items[j + 1]
    /\ d.lookup = [c.lookup EXCEPT ![c.items[i].key] = NoItem]
    /\ d.size = c.size - Size(c.items[i]) /\ d.size <= c.size

LEMMA RemoveGood ==
    ASSUME NEW c, Good(c), NEW i \in 1..Len(c.items)
    PROVE  Removed(c, i, RemoveElement(c, i))
<1> SUFFICES ASSUME NEW d, d = RemoveElement(c, i) PROVE Removed(c, i, d)
  OBVIOUS
<1> DEFINE key == c.items[i].key
<1>1. /\ c \in Value /\ c.items \in Seq(CacheItem) /\ Len(c.items) \in Nat
      /\ c.lookup \in [Keys -> CacheItem \cup {NoItem}] /\ c.size \in Int
      /\ \A j \in 1..Len(c.items) : c.items[j].key \in Keys /\ Size(c.items[j]) \in Nat
      /\ \A j \in 1..Len(c.items) : c.items[j] # NoItem
  BY ValueFacts DEF Good
<1>2. /\ RemoveAt(c.items, i) \in Seq(CacheItem) /\ Len(RemoveAt(c.items, i)) = Len(c.items) - 1
      /\ \A j \in 1..Len(c.items) - 1 :
            RemoveAt(c.items, i)[j] = IF j < i THEN c.items[j] ELSE c.items[j + 1]
  BY <1>1, RemoveAtSeq
<1>3. /\ d.items = RemoveAt(c.items, i) /\ d.size = c.size - Size(c.items[i])
      /\ d.lookup = [c.lookup EXCEPT ![key] = NoItem]
  BY DEF RemoveElement
<1>4. key \in Keys /\ Size(c.items[i]) \in Nat
  BY <1>1
<1>5. d \in Value
  <2>1. d.lookup \in [Keys -> CacheItem \cup {NoItem}] /\ d.size \in Int
    BY <1>1, <1>3, <1>4
  <2>2. d = [items |-> d.items, lookup |-> d.lookup, size |-> d.size]
    BY <1>3 DEF RemoveElement
  <2> QED
    BY <1>2, <1>3, <2>1, <2>2 DEF Value
<1>6. /\ Len(d.items) = Len(c.items) - 1
      /\ \A j \in 1..Len(d.items) : d.items[j] = IF j < i THEN c.items[j] ELSE c.items[j + 1]
  BY <1>2, <1>3
<1>7. /\ d.lookup[key] = NoItem
      /\ \A k \in Keys : k # key => d.lookup[k] = c.lookup[k]
  BY <1>1, <1>3, <1>4
<1> HIDE DEF key
<1>8. \A j, l \in 1..Len(c.items) : c.items[j].key = c.items[l].key => j = l
  BY DEF Good, Linked
<1>9. ASSUME NEW j \in 1..Len(d.items)
      PROVE  \E l \in 1..Len(c.items) : l # i /\ d.items[j] = c.items[l] /\ l = IF j < i THEN j ELSE j + 1
  BY <1>1, <1>6
<1>10. ASSUME NEW l \in 1..Len(c.items), l # i
       PROVE  \E j \in 1..Len(d.items) : d.items[j] = c.items[l]
  <2>1. CASE l < i
    <3>1. l \in 1..Len(d.items) /\ d.items[l] = c.items[l]
      BY <1>1, <1>6, <2>1
    <3> QED
      BY <3>1
  <2>2. CASE l > i
    <3>1. l - 1 \in 1..Len(d.items) /\ (l - 1) + 1 = l /\ ~(l - 1 < i)
      BY <1>1, <1>6, <2>2
    <3>2. d.items[l - 1] = c.items[l]
      BY <1>6, <3>1
    <3> QED
      BY <3>1, <3>2
  <2> QED
    BY <1>1, <1>10, <2>1, <2>2
<1>11. d.size = Total(d.items)
  BY <1>1, <1>3, TotalRemove DEF Good, Linked
<1>12. ASSUME NEW j \in 1..Len(d.items) PROVE d.lookup[d.items[j].key] = d.items[j]
  <2>1. PICK l \in 1..Len(c.items) : l # i /\ d.items[j] = c.items[l]
    BY <1>9
  <2>2. c.items[l].key # key /\ c.items[l].key \in Keys /\ c.lookup[c.items[l].key] = c.items[l]
    BY <1>1, <1>8, <2>1 DEF key, Good, Linked
  <2> QED
    BY <1>7, <2>1, <2>2
<1>13. ASSUME NEW k \in Keys, d.lookup[k] # NoItem
       PROVE  d.lookup[k].key = k /\ \E j \in 1..Len(d.items) : d.items[j] = d.lookup[k]
  <2>1. k # key /\ d.lookup[k] = c.lookup[k]
    BY <1>7, <1>13
  <2>2. PICK l \in 1..Len(c.items) : c.items[l] = c.lookup[k] /\ c.lookup[k].key = k
    BY <1>13, <2>1 DEF Good, Linked
  <2>3. l # i
    BY <2>1, <2>2 DEF key
  <2> QED
    BY <1>10, <2>1, <2>2, <2>3
<1>14. ASSUME NEW j \in 1..Len(d.items), NEW m \in 1..Len(d.items), d.items[j].key = d.items[m].key
       PROVE  j = m
  <2>1. PICK l \in 1..Len(c.items) : d.items[j] = c.items[l] /\ l = IF j < i THEN j ELSE j + 1
    BY <1>9
  <2>2. PICK n \in 1..Len(c.items) : d.items[m] = c.items[n] /\ n = IF m < i THEN m ELSE m + 1
    BY <1>9
  <2>3. l = n
    BY <1>8, <1>14, <2>1, <2>2
  <2> QED
    BY <2>1, <2>2, <2>3
<1>15. Linked(d)
  BY <1>11, <1>12, <1>13, <1>14 DEF Linked
<1>16. d.size <= c.size
  BY <1>1, <1>3, <1>4
<1> QED
  BY <1>3, <1>5, <1>6, <1>15, <1>16 DEF Good, key, Removed
-----------------------------------------------------------------------------
(* An item was used after all that follow it: what is used after p, of     *)
(* size at least that of i, counts in t for p, if i is in front of p.      *)
Ordered(list, t) ==
    \A i, p \in 1..Len(list) : i < p => Size(list[i]) <= t[list[p].key][list[i].key]

LEMMA RemoveOrdered ==
    ASSUME NEW list \in Seq(CacheItem), NEW t, Ordered(list, t), NEW i \in 1..Len(list)
    PROVE  Ordered(RemoveAt(list, i), t)
<1> DEFINE r == RemoveAt(list, i)
           from(j) == IF j < i THEN j ELSE j + 1
<1>1. Len(r) = Len(list) - 1 /\ \A j \in 1..Len(list) - 1 : r[j] = list[from(j)]
  BY RemoveAtSeq
<1>2. ASSUME NEW j \in 1..Len(r), NEW p \in 1..Len(r), j < p
      PROVE  from(j) \in 1..Len(list) /\ from(p) \in 1..Len(list) /\ from(j) < from(p)
  BY <1>1, <1>2
<1> HIDE DEF r, from
<1>3. ASSUME NEW j \in 1..Len(r), NEW p \in 1..Len(r), j < p
      PROVE  Size(r[j]) <= t[r[p].key][r[j].key]
  BY <1>1, <1>2, <1>3 DEF Ordered
<1> QED
  BY <1>3 DEF Ordered, r

(* Removing what the map has for a key, if anything. *)
Cleared(c, k, t, d) ==
    /\ Good(d) /\ Ordered(d.items, t)
    /\ d.lookup = [c.lookup EXCEPT ![k] = NoItem]
    /\ d.size <= c.size

LEMMA WithoutGood ==
    ASSUME NEW c, Good(c), NEW k \in Keys, NEW t, Ordered(c.items, t)
    PROVE  Cleared(c, k, t, Without(c, k))
<1> SUFFICES ASSUME NEW d, d = Without(c, k) PROVE Cleared(c, k, t, d)
  OBVIOUS
<1>1. /\ c.lookup \in [Keys -> CacheItem \cup {NoItem}] /\ c.items \in Seq(CacheItem)
      /\ DOMAIN c.items = 1..Len(c.items)
  BY ValueFacts DEF Good
<1>2. CASE c.lookup[k] = NoItem
  <2>1. d = c
    BY <1>2 DEF Without
  <2>2. [c.lookup EXCEPT ![k] = NoItem] = c.lookup
    BY <1>1, <1>2
  <2>3. c.size <= c.size
    BY ValueFacts DEF Good
  <2> QED
    BY <2>1, <2>2, <2>3 DEF Cleared
<1>3. CASE c.lookup[k] # NoItem
  <2> DEFINE i == Place(c, k)
  <2>1. \E j \in DOMAIN c.items : c.items[j] = c.lookup[k]
    BY <1>1, <1>3 DEF Good, Linked
  <2>2. i \in 1..Len(c.items) /\ c.items[i] = c.lookup[k]
    BY <1>1, <2>1 DEF Place
  <2>3. d = RemoveElement(c, i)
    BY <1>3 DEF Without
  <2>4. c.items[i].key = k
    BY <1>3, <2>2 DEF Good, Linked
  <2> HIDE DEF i
  <2>5. /\ Good(d) /\ d.items = RemoveAt(c.items, i) /\ d.size <= c.size
        /\ d.lookup = [c.lookup EXCEPT ![c.items[i].key] = NoItem]
    BY <2>2, <2>3, RemoveGood DEF Removed
  <2> QED
    BY <1>1, <2>2, <2>4, <2>5, RemoveOrdered DEF Cleared
<1> QED
  BY <1>2, <1>3

(* What n evictions have made of c. *)
EvictedBy(c, n, d) ==
    /\ Good(d)
    /\ d.items = SubSeq(c.items, 1, Len(c.items) - n)
    /\ \A k \in Keys : d.lookup[k] \in {c.lookup[k], NoItem}

LEMMA EvictOneMore ==
    ASSUME NEW c, Good(c), NEW n \in 0..Len(c.items) - 1, NEW d, EvictedBy(c, n, d)
    PROVE  EvictedBy(c, n + 1, RemoveElement(d, Len(d.items)))
<1> DEFINE e == RemoveElement(d, Len(d.items))
<1>1. c.items \in Seq(CacheItem) /\ Len(c.items) \in Nat
  BY ValueFacts DEF Good
<1>2. /\ Len(d.items) = Len(c.items) - n
      /\ \A j \in 1..Len(d.items) : d.items[j] = c.items[j]
  BY <1>1 DEF EvictedBy
<1>3. Len(d.items) \in 1..Len(d.items)
  BY <1>1, <1>2
<1>4. /\ Good(e) /\ Len(e.items) = Len(d.items) - 1
      /\ \A j \in 1..Len(e.items) : e.items[j] = IF j < Len(d.items) THEN d.items[j] ELSE d.items[j + 1]
      /\ e.lookup = [d.lookup EXCEPT ![d.items[Len(d.items)].key] = NoItem]
  <2>1. Removed(d, Len(d.items), e)
    BY <1>3, RemoveGood DEF EvictedBy
  <2> HIDE DEF e
  <2> QED
    BY <2>1 DEF Removed
<1> HIDE DEF e
<1>5. e.items \in Seq(CacheItem) /\ d.lookup \in [Keys -> CacheItem \cup {NoItem}]
  BY <1>4, ValueFacts DEF Good, EvictedBy
<1>6. Len(e.items) = Len(c.items) - (n + 1) /\ \A j \in 1..Len(e.items) : e.items[j] = c.items[j]
  BY <1>1, <1>2, <1>4
<1>7. e.items = SubSeq(c.items, 1, Len(c.items) - (n + 1))
  <2> DEFINE s == SubSeq(c.items, 1, Len(c.items) - (n + 1))
  <2>1. s \in Seq(CacheItem) /\ Len(s) = Len(c.items) - (n + 1) /\ \A j \in 1..Len(s) : s[j] = c.items[j]
    BY <1>1
  <2> HIDE DEF s
  <2>2. e.items = s
    BY <1>5, <1>6, <2>1, SameSeq
  <2> QED
    BY <2>2 DEF s
<1>8. \A k \in Keys : e.lookup[k] \in {c.lookup[k], NoItem}
  BY <1>4, <1>5 DEF EvictedBy
<1> QED
  BY <1>4, <1>7, <1>8 DEF EvictedBy, e

LEMMA EvictNone ==
    ASSUME NEW c, Good(c)
    PROVE  EvictedBy(c, 0, c)
<1>1. c.items \in Seq(CacheItem) /\ Len(c.items) \in Nat
  BY ValueFacts DEF Good
<1>2. c.items = SubSeq(c.items, 1, Len(c.items) - 0)
  BY <1>1
<1> QED
  BY <1>2 DEF EvictedBy

LEMMA EvictionsDef ==
    ASSUME NEW c, Good(c), NEW N, N = Len(c.items)
    PROVE  /\ Evictions(c)[0] = c
           /\ \A n \in 1..N : Evictions(c)[n] =
                 RemoveElement(Evictions(c)[n - 1], Len(Evictions(c)[n - 1].items))
<1> DEFINE S == {d \in Value : Linked(d)}
           next(d) == RemoveElement(d, Len(d.items))
           step == [n \in 1..N |-> [d \in S |-> IF next(d) \in S THEN next(d) ELSE c]]
           Eq(g) == g = [n \in 0..N |-> IF n = 0 THEN c ELSE next(g[n - 1])]
<1>1. c \in S /\ N \in Nat
  BY ValueFacts DEF Good
<1>2. step \in Steps(N, S)
  BY <1>1 DEF Steps
<1>3. PICK g : Iterates(g, N, S, c, step)
  <2> HIDE DEF S, step
  <2> QED
    BY <1>1, <1>2, Iteration
<1>4. g \in [0..N -> S] /\ g[0] = c /\ \A n \in 1..N : g[n] = step[n][g[n - 1]]
  BY <1>3 DEF Iterates
<1>5. ASSUME NEW n \in 0..N - 1, EvictedBy(c, n, g[n])
      PROVE  g[n + 1] = next(g[n]) /\ EvictedBy(c, n + 1, g[n + 1])
  <2>1. EvictedBy(c, n + 1, next(g[n]))
    BY <1>5, EvictOneMore
  <2>2. next(g[n]) \in S
    BY <2>1 DEF EvictedBy, Good
  <2>3. n + 1 \in 1..N /\ (n + 1) - 1 = n /\ n \in 0..N
    BY <1>1
  <2>4. g[n] \in S /\ g[n + 1] = step[n + 1][g[n]]
    BY <1>4, <2>3
  <2> HIDE DEF next, S
  <2>5. g[n + 1] = next(g[n])
    BY <2>2, <2>3, <2>4
  <2> QED
    BY <2>1, <2>5
<1> HIDE DEF S, step, next
<1> DEFINE T == {n \in 0..N : EvictedBy(c, n, g[n])}
<1>6. 0..N \subseteq T
  <2>1. 0 \in T
    BY <1>1, <1>4, EvictNone
  <2>2. ASSUME NEW n \in 0..N - 1, n \in T PROVE n + 1 \in T
    BY <1>1, <1>5, <2>2
  <2> HIDE DEF T
  <2> QED
    BY <1>1, <2>1, <2>2, SetInduction
<1>7. ASSUME NEW n \in 1..N PROVE g[n] = next(g[n - 1])
  <2>1. n - 1 \in 0..N - 1 /\ n - 1 \in T /\ (n - 1) + 1 = n
    BY <1>1, <1>6
  <2> QED
    BY <1>5, <2>1
<1>8. Eq(g)
  BY <1>1, <1>4, <1>7
<1>9. Evictions(c) = CHOOSE h : Eq(h)
  BY DEF Evictions, next
<1>10. Eq(Evictions(c))
  <2> HIDE DEF Eq
  <2> QED
    BY <1>8, <1>9
<1>11. \A n \in 0..N : Evictions(c)[n] = IF n = 0 THEN c ELSE next(Evictions(c)[n - 1])
  BY <1>10
<1>12. ASSUME NEW n \in 1..N PROVE Evictions(c)[n] = next(Evictions(c)[n - 1])
  <2>1. n \in 0..N /\ n # 0
    BY <1>1
  <2> QED
    BY <1>11, <2>1
<1> QED
  BY <1>1, <1>11, <1>12 DEF next

(* After n evictions c has lost its last n items. *)
LEMMA EvictionsGood ==
    ASSUME NEW c, Good(c), NEW n \in 0..Len(c.items)
    PROVE  EvictedBy(c, n, Evictions(c)[n])
<1> DEFINE T == {m \in 0..Len(c.items) : EvictedBy(c, m, Evictions(c)[m])}
<1>1. Len(c.items) \in Nat
  BY ValueFacts DEF Good
<1>2. 0 \in T
  BY <1>1, EvictionsDef, EvictNone
<1>3. ASSUME NEW m \in 0..Len(c.items) - 1, m \in T PROVE m + 1 \in T
  <2>1. m + 1 \in 1..Len(c.items) /\ (m + 1) - 1 = m /\ m + 1 \in 0..Len(c.items)
    BY <1>1
  <2>2. Evictions(c)[m + 1] = RemoveElement(Evictions(c)[m], Len(Evictions(c)[m].items))
    BY <2>1, EvictionsDef
  <2>3. EvictedBy(c, m + 1, Evictions(c)[m + 1])
    BY <1>3, <2>2, EvictOneMore
  <2> QED
    BY <2>1, <2>3
<1>4. 0..Len(c.items) \subseteq T
  <2> HIDE DEF T
  <2> QED
    BY <1>1, <1>2, <1>3, SetInduction
<1> QED
  BY <1>4

(* The eviction loop stops as soon as the new content fits. *)
MadeRoom(c, size, n, d) ==
    /\ d.items = SubSeq(c.items, 1, Len(c.items) - n)
    /\ d.size + size <= Capacity \/ d.items = <<>>
    /\ \A k \in Keys : d.lookup[k] \in {c.lookup[k], NoItem}
    /\ \A m \in 0..n - 1 : Total(SubSeq(c.items, 1, Len(c.items) - m)) + size > Capacity

LEMMA EvictedGood ==
    ASSUME NEW c, Good(c), NEW size \in Nat
    PROVE  /\ Good(Evicted(c, size))
           /\ \E n \in 0..Len(c.items) : MadeRoom(c, size, n, Evicted(c, size))
<1> DEFINE N == Len(c.items)
           enough == {n \in 0..N : Evictions(c)[n].size + size <= Capacity \/ Evictions(c)[n].items = <<>>}
           n == Min(enough)
<1>1. N \in Nat /\ c.items \in Seq(CacheItem) /\ Capacity \in Nat
  BY ValueFacts, CacheAssumption DEF Good
<1>2. \A m \in 0..N : EvictedBy(c, m, Evictions(c)[m])
  BY EvictionsGood
<1>3. N \in enough
  <2>1. N \in 0..N /\ N - N = 0
    BY <1>1
  <2>2. Evictions(c)[N].items = SubSeq(c.items, 1, N - N)
    BY <1>2, <2>1 DEF EvictedBy
  <2>3. SubSeq(c.items, 1, 0) = <<>>
    BY <1>1
  <2> QED
    BY <2>1, <2>2, <2>3
<1>4. n \in enough /\ \A m \in enough : n <= m
  <2>1. enough \in SUBSET Nat /\ enough # {}
    BY <1>1, <1>3
  <2> HIDE DEF enough
  <2>2. \E x \in enough : \A y \in enough : x <= y
    BY <2>1, SmallestNat
  <2> QED
    BY <2>2 DEF Min
<1>5. Evicted(c, size) = Evictions(c)[n]
  BY DEF Evicted
<1> HIDE DEF n
<1>6. n \in 0..N /\ EvictedBy(c, n, Evictions(c)[n])
  BY <1>2, <1>4
<1>7. ASSUME NEW m \in 0..n - 1 PROVE Total(SubSeq(c.items, 1, Len(c.items) - m)) + size > Capacity
  <2>1. m \in 0..N /\ m \notin enough
    BY <1>1, <1>4, <1>6
  <2>2. EvictedBy(c, m, Evictions(c)[m])
    BY <1>2, <2>1
  <2>3. /\ Evictions(c)[m].size = Total(Evictions(c)[m].items) /\ Evictions(c)[m].size \in Int
        /\ Evictions(c)[m].items = SubSeq(c.items, 1, Len(c.items) - m)
    BY <2>2, ValueFacts DEF EvictedBy, Good, Linked
  <2>4. ~(Evictions(c)[m].size + size <= Capacity)
    BY <2>1
  <2> HIDE DEF enough
  <2> QED
    BY <1>1, <2>3, <2>4
<1>8. Evictions(c)[n].size + size <= Capacity \/ Evictions(c)[n].items = <<>>
  BY <1>4
<1>9. MadeRoom(c, size, n, Evictions(c)[n])
  BY <1>6, <1>7, <1>8 DEF MadeRoom, EvictedBy
<1> HIDE DEF enough
<1>10. Good(Evictions(c)[n])
  BY <1>6 DEF EvictedBy
<1> QED
  BY <1>5, <1>6, <1>9, <1>10

LEMMA PrefixFacts ==
    ASSUME NEW list \in Seq(CacheItem), NEW n \in 0..Len(list), NEW r, r = SubSeq(list, 1, n)
    PROVE  r \in Seq(CacheItem) /\ Len(r) = n /\ \A i \in 1..n : r[i] = list[i]
OBVIOUS

LEMMA PrefixOrdered ==
    ASSUME NEW list \in Seq(CacheItem), NEW t, Ordered(list, t), NEW n \in 0..Len(list)
    PROVE  Ordered(SubSeq(list, 1, n), t)
<1> DEFINE r == SubSeq(list, 1, n)
<1>1. Len(r) = n /\ \A i \in 1..n : r[i] = list[i]
  BY PrefixFacts
<1>2. \A i \in 1..n : i \in 1..Len(list)
  OBVIOUS
<1> HIDE DEF r
<1>3. Ordered(r, t)
  BY <1>1, <1>2 DEF Ordered
<1> QED
  BY <1>3 DEF r

(* What CleanupExpired has made of c after n elements. *)
GoneBy(c, n, k) ==
    \E i \in (Len(c.items) - n) + 1..Len(c.items) : Expired(c.items[i]) /\ c.items[i].key = k

SweptBy(c, t, n, d) ==
    /\ Good(d) /\ Ordered(d.items, t) /\ d.size <= c.size
    /\ Len(c.items) - n <= Len(d.items)
    /\ \A i \in 1..Len(c.items) - n : d.items[i] = c.items[i]
    /\ \A k \in Keys : d.lookup[k] = IF GoneBy(c, n, k) THEN NoItem ELSE c.lookup[k]

SweepStep(c, n, d) ==
    IF Expired(c.items[Len(c.items) - n + 1]) THEN RemoveElement(d, Len(c.items) - n + 1) ELSE d

LEMMA SweepNone ==
    ASSUME NEW c, Good(c), NEW t, Ordered(c.items, t)
    PROVE  SweptBy(c, t, 0, c)
<1>1. Len(c.items) \in Nat
  BY ValueFacts DEF Good
<1>2. \A k \in Keys : ~GoneBy(c, 0, k)
  BY <1>1 DEF GoneBy
<1>3. c.size <= c.size
  BY ValueFacts DEF Good
<1> QED
  BY <1>1, <1>2, <1>3 DEF SweptBy

LEMMA SweepOneMore ==
    ASSUME NEW c, Good(c), NEW t, NEW n \in 0..Len(c.items) - 1, NEW d, SweptBy(c, t, n, d)
    PROVE  SweptBy(c, t, n + 1, SweepStep(c, n + 1, d))
<1> DEFINE i == Len(c.items) - n
           e == SweepStep(c, n + 1, d)
<1>1. Len(c.items) \in Nat /\ Len(d.items) \in Nat /\ d.items \in Seq(CacheItem)
  BY ValueFacts DEF Good, SweptBy
<1>2. /\ Len(c.items) - (n + 1) + 1 = i /\ Len(c.items) - (n + 1) = i - 1
      /\ i \in 1..Len(c.items) /\ i \in 1..Len(d.items) /\ i - 1 \in Nat
  BY <1>1 DEF SweptBy
<1>3. d.items[i] = c.items[i] /\ \A j \in 1..i : d.items[j] = c.items[j]
  BY <1>2 DEF SweptBy
<1>4. ASSUME NEW k \in Keys
      PROVE  GoneBy(c, n + 1, k) <=> GoneBy(c, n, k) \/ (Expired(c.items[i]) /\ c.items[i].key = k)
  <2>1. \A j \in (i - 1) + 1..Len(c.items) : j = i \/ j \in i + 1..Len(c.items)
    BY <1>1, <1>2
  <2>2. \A j \in i + 1..Len(c.items) : j \in (i - 1) + 1..Len(c.items)
    BY <1>1, <1>2
  <2>3. i \in (i - 1) + 1..Len(c.items)
    BY <1>1, <1>2
  <2> QED
    BY <1>2, <2>1, <2>2, <2>3 DEF GoneBy
<1> HIDE DEF i
<1>5. CASE Expired(c.items[i])
  <2>1. e = RemoveElement(d, i)
    BY <1>2, <1>5 DEF SweepStep
  <2> HIDE DEF e
  <2>2. Removed(d, i, e)
    BY <1>2, <2>1, RemoveGood DEF SweptBy
  <2>3. /\ Good(e) /\ e.items = RemoveAt(d.items, i) /\ Len(e.items) = Len(d.items) - 1
        /\ \A j \in 1..Len(e.items) : j < i => e.items[j] = d.items[j]
        /\ e.lookup = [d.lookup EXCEPT ![d.items[i].key] = NoItem]
        /\ e.size <= d.size
    BY <2>2 DEF Removed
  <2>4. Ordered(e.items, t)
    BY <1>1, <1>2, <2>3, RemoveOrdered DEF SweptBy
  <2>5. i - 1 <= Len(e.items) /\ \A j \in 1..i - 1 : e.items[j] = c.items[j]
    <3>1. \A j \in 1..i - 1 : j \in 1..Len(e.items) /\ j \in 1..i /\ j < i
      BY <1>1, <1>2, <2>3
    <3>2. i - 1 <= Len(e.items)
      BY <1>1, <1>2, <2>3
    <3> QED
      BY <1>3, <2>3, <3>1, <3>2
  <2>6. d.lookup \in [Keys -> CacheItem \cup {NoItem}]
    BY ValueFacts DEF Good, SweptBy
  <2>7. ASSUME NEW k \in Keys PROVE e.lookup[k] = IF GoneBy(c, n + 1, k) THEN NoItem ELSE c.lookup[k]
    <3>1. d.lookup[k] = IF GoneBy(c, n, k) THEN NoItem ELSE c.lookup[k]
      BY DEF SweptBy
    <3>2. e.lookup[k] = IF c.items[i].key = k THEN NoItem ELSE d.lookup[k]
      BY <1>3, <2>3, <2>6
    <3> QED
      BY <1>4, <1>5, <3>1, <3>2
  <2>8. e.size <= c.size
    <3>1. c.size \in Int /\ d.size \in Int /\ e.size \in Int
      BY <2>3, ValueFacts DEF Good, SweptBy
    <3> QED
      BY <2>3, <3>1 DEF SweptBy
  <2>9. SweptBy(c, t, n + 1, e)
    BY <1>2, <2>3, <2>4, <2>5, <2>7, <2>8 DEF SweptBy
  <2> QED
    BY <2>9 DEF e
<1>6. CASE ~Expired(c.items[i])
  <2>1. e = d
    BY <1>2, <1>6 DEF SweepStep
  <2>2. i - 1 <= Len(d.items) /\ \A j \in 1..i - 1 : d.items[j] = c.items[j]
    BY <1>1, <1>2, <1>3
  <2>3. \A k \in Keys : d.lookup[k] = IF GoneBy(c, n + 1, k) THEN NoItem ELSE c.lookup[k]
    BY <1>4, <1>6 DEF SweptBy
  <2> QED
    BY <1>2, <2>1, <2>2, <2>3 DEF SweptBy
<1> QED
  BY <1>5, <1>6

LEMMA SweepsDef ==
    ASSUME NEW c, Good(c), NEW N, N = Len(c.items), NEW t, Ordered(c.items, t)
    PROVE  /\ Sweeps(c)[0] = c
           /\ \A n \in 1..N : Sweeps(c)[n] = SweepStep(c, n, Sweeps(c)[n - 1])
<1> DEFINE S == {d \in Value : Linked(d)}
           step == [n \in 1..N |-> [d \in S |-> IF SweepStep(c, n, d) \in S THEN SweepStep(c, n, d) ELSE c]]
           Eq(g) == g = [n \in 0..N |-> IF n = 0 THEN c ELSE SweepStep(c, n, g[n - 1])]
<1>1. c \in S /\ N \in Nat
  BY ValueFacts DEF Good
<1>2. step \in Steps(N, S)
  BY <1>1 DEF Steps
<1>3. PICK g : Iterates(g, N, S, c, step)
  <2> HIDE DEF S, step
  <2> QED
    BY <1>1, <1>2, Iteration
<1>4. g \in [0..N -> S] /\ g[0] = c /\ \A n \in 1..N : g[n] = step[n][g[n - 1]]
  BY <1>3 DEF Iterates
<1>5. ASSUME NEW n \in 0..N - 1, SweptBy(c, t, n, g[n])
      PROVE  g[n + 1] = SweepStep(c, n + 1, g[n]) /\ SweptBy(c, t, n + 1, g[n + 1])
  <2>1. SweptBy(c, t, n + 1, SweepStep(c, n + 1, g[n]))
    BY <1>5, SweepOneMore
  <2>2. SweepStep(c, n + 1, g[n]) \in S
    BY <2>1 DEF SweptBy, Good
  <2>3. n + 1 \in 1..N /\ (n + 1) - 1 = n /\ n \in 0..N
    BY <1>1
  <2>4. g[n] \in S /\ g[n + 1] = step[n + 1][g[n]]
    BY <1>4, <2>3
  <2> HIDE DEF S
  <2>5. g[n + 1] = SweepStep(c, n + 1, g[n])
    BY <2>2, <2>3, <2>4
  <2> QED
    BY <2>1, <2>5
<1> HIDE DEF S, step
<1> DEFINE T == {n \in 0..N : SweptBy(c, t, n, g[n])}
<1>6. 0..N \subseteq T
  <2>1. 0 \in T
    BY <1>1, <1>4, SweepNone
  <2>2. ASSUME NEW n \in 0..N - 1, n \in T PROVE n + 1 \in T
    BY <1>1, <1>5, <2>2
  <2> HIDE DEF T
  <2> QED
    BY <1>1, <2>1, <2>2, SetInduction
<1>7. ASSUME NEW n \in 1..N PROVE g[n] = SweepStep(c, n, g[n - 1])
  <2>1. n - 1 \in 0..N - 1 /\ n - 1 \in T /\ (n - 1) + 1 = n
    BY <1>1, <1>6
  <2> QED
    BY <1>5, <2>1
<1>8. Eq(g)
  BY <1>1, <1>4, <1>7
<1>9. Sweeps(c) = CHOOSE h : Eq(h)
  BY DEF Sweeps, SweepStep
<1>10. Eq(Sweeps(c))
  <2> HIDE DEF Eq
  <2> QED
    BY <1>8, <1>9
<1>11. \A n \in 0..N : Sweeps(c)[n] = IF n = 0 THEN c ELSE SweepStep(c, n, Sweeps(c)[n - 1])
  BY <1>10
<1>12. ASSUME NEW n \in 1..N PROVE Sweeps(c)[n] = SweepStep(c, n, Sweeps(c)[n - 1])
  <2>1. n \in 0..N /\ n # 0
    BY <1>1
  <2> QED
    BY <1>11, <2>1
<1> QED
  BY <1>1, <1>11, <1>12

(* The whole sweep takes away exactly the expired items. *)
LEMMA SweepsGood ==
    ASSUME NEW c, Good(c), NEW t, Ordered(c.items, t)
    PROVE  SweptBy(c, t, Len(c.items), Sweeps(c)[Len(c.items)])
<1> DEFINE T == {m \in 0..Len(c.items) : SweptBy(c, t, m, Sweeps(c)[m])}
<1>1. Len(c.items) \in Nat
  BY ValueFacts DEF Good
<1>0. /\ Sweeps(c)[0] = c
      /\ \A n \in 1..Len(c.items) : Sweeps(c)[n] = SweepStep(c, n, Sweeps(c)[n - 1])
  BY SweepsDef, Zenon
<1>2. 0 \in T
  BY <1>0, <1>1, SweepNone
<1>3. ASSUME NEW m \in 0..Len(c.items) - 1, m \in T PROVE m + 1 \in T
  <2>1. m + 1 \in 1..Len(c.items) /\ (m + 1) - 1 = m /\ m + 1 \in 0..Len(c.items)
    BY <1>1
  <2>2. Sweeps(c)[m + 1] = SweepStep(c, m + 1, Sweeps(c)[m])
    BY <1>0, <2>1
  <2>3. SweptBy(c, t, m + 1, Sweeps(c)[m + 1])
    BY <1>3, <2>2, SweepOneMore
  <2> QED
    BY <2>1, <2>3
<1>4. 0..Len(c.items) \subseteq T
  <2> HIDE DEF T
  <2> QED
    BY <1>1, <1>2, <1>3, SetInduction
<1> QED
  BY <1>1, <1>4
-----------------------------------------------------------------------------
(* The inductive invariant: the properties that are checked, and that the  *)
(* list is in the order of use.                                            *)
UseOrder == Ordered(items, touched)
Inv == TypeOK /\ InStep /\ NeverOutdated /\ UseOrder /\ WorkingSetKept

LEMMA FieldsGood ==
    ASSUME TypeOK, InStep
    PROVE  Good(Fields) /\ Fields.items = items /\ Fields.lookup = lookup /\ Fields.size = currentSize
<1>1. Fields.items = items /\ Fields.lookup = lookup /\ Fields.size = currentSize
  BY DEF Fields
<1>2. Capacity \in Nat
  BY CacheAssumption
<1>3. Fields \in Value
  BY <1>2 DEF Fields, Value, TypeOK
<1> QED
  BY <1>1, <1>3, AgreeIsLinked DEF Good, InStep

LEMMA BecomeGood ==
    ASSUME NEW d, Good(d), Become(d)
    PROVE  /\ items' = d.items /\ lookup' = d.lookup /\ currentSize' = d.size
           /\ items' \in Seq(CacheItem) /\ lookup' \in [Keys -> CacheItem \cup {NoItem}]
           /\ currentSize' = Total(items') /\ currentSize' \in Nat
           /\ InStep'
<1>1. items' = d.items /\ lookup' = d.lookup /\ currentSize' = d.size
  BY DEF Become
<1>2. d.items \in Seq(CacheItem) /\ d.lookup \in [Keys -> CacheItem \cup {NoItem}]
  BY ValueFacts DEF Good
<1>3. d.size = Total(d.items) /\ Total(d.items) \in Nat
  BY <1>2, SizesSeq DEF Good, Linked
<1>4. d = [items |-> items', lookup |-> lookup', size |-> currentSize']
  BY <1>1 DEF Good, Value
<1>5. Agree(d)
  BY AgreeIsLinked DEF Good
<1>6. Agree([items |-> items', lookup |-> lookup', size |-> currentSize'])
  BY <1>4, <1>5
<1>7. InStep'
  BY <1>6 DEF InStep, Fields
<1> QED
  BY <1>1, <1>2, <1>3, <1>7

LEMMA MaxOfTwo ==
    ASSUME NEW a \in Nat, NEW b \in Nat
    PROVE  Max({a, b}) \in Nat /\ Max({a, b}) >= a /\ Max({a, b}) >= b
<1>1. \E x \in {a, b} : \A y \in {a, b} : x >= y
  <2>1. CASE a >= b
    BY <2>1
  <2>2. CASE b >= a
    BY <2>2
  <2> QED
    BY <2>1, <2>2
<1>2. Max({a, b}) \in {a, b} /\ \A y \in {a, b} : Max({a, b}) >= y
  BY <1>1 DEF Max
<1> QED
  BY <1>2

LEMMA TouchFacts ==
    ASSUME touched \in [Keys -> [Keys -> Nat]], NEW k \in Keys, NEW s \in Nat, Touch(k, s)
    PROVE  /\ touched' \in [Keys -> [Keys -> Nat]]
           /\ \A i \in Keys \ {k} : touched'[i][k] >= s
           /\ \A i \in Keys \ {k}, j \in Keys : touched'[i][j] >= touched[i][j]
<1>1. \A i, j \in Keys : touched[i][j] \in Nat
  OBVIOUS
<1>2. \A i, j \in Keys : touched'[i][j] =
         IF i = k THEN 0 ELSE IF j = k THEN Max({s, touched[i][j]}) ELSE touched[i][j]
  BY DEF Touch
<1>3. \A i, j \in Keys : /\ Max({s, touched[i][j]}) \in Nat
                         /\ Max({s, touched[i][j]}) >= s
                         /\ Max({s, touched[i][j]}) >= touched[i][j]
  BY <1>1, MaxOfTwo
<1>4. touched' \in [Keys -> [Keys -> Nat]]
  BY <1>1, <1>3 DEF Touch
<1>5. ASSUME NEW i \in Keys \ {k} PROVE touched'[i][k] >= s
  <2>1. touched'[i][k] = Max({s, touched[i][k]})
    BY <1>2
  <2> QED
    BY <1>3, <2>1
<1>6. ASSUME NEW i \in Keys \ {k}, NEW j \in Keys PROVE touched'[i][j] >= touched[i][j]
  <2>1. CASE j = k
    <3>1. touched'[i][j] = Max({s, touched[i][j]})
      BY <1>2, <2>1
    <3> QED
      BY <1>3, <3>1
  <2>2. CASE j # k
    <3>1. touched'[i][j] = touched[i][j] /\ touched[i][j] \in Nat
      BY <1>1, <1>2, <2>2
    <3> QED
      BY <3>1
  <2> QED
    BY <2>1, <2>2
<1> QED
  BY <1>4, <1>5, <1>6

(* Using k adds nothing to what other items count in front of them, and an *)
(* item put in front counts for all others.                                *)
LEMMA GrowOrdered ==
    ASSUME NEW list \in Seq(CacheItem), NEW t \in [Keys -> [Keys -> Nat]], Ordered(list, t),
           NEW u \in [Keys -> [Keys -> Nat]], NEW k \in Keys,
           \A i \in Keys \ {k}, j \in Keys : u[i][j] >= t[i][j],
           \A i \in 1..Len(list) : list[i].key # k
    PROVE  Ordered(list, u)
<1> SUFFICES ASSUME NEW i \in 1..Len(list), NEW p \in 1..Len(list), i < p
             PROVE  Size(list[i]) <= u[list[p].key][list[i].key]
  BY DEF Ordered
<1>1. list[i] \in CacheItem /\ list[p] \in CacheItem
  OBVIOUS
<1>2. list[i].key \in Keys /\ list[p].key \in Keys \ {k} /\ Size(list[i]) \in Nat
  BY <1>1, ItemFacts
<1>3. Size(list[i]) <= t[list[p].key][list[i].key]
  BY DEF Ordered
<1>4. t[list[p].key][list[i].key] \in Nat /\ u[list[p].key][list[i].key] \in Nat
  BY <1>2
<1>5. u[list[p].key][list[i].key] >= t[list[p].key][list[i].key]
  BY <1>2
<1>6. \A a, b, c \in Nat : a <= b /\ c >= b => a <= c
  OBVIOUS
<1> QED
  BY <1>2, <1>3, <1>4, <1>5, <1>6

LEMMA FrontOrdered ==
    ASSUME NEW list \in Seq(CacheItem), NEW u \in [Keys -> [Keys -> Nat]], Ordered(list, u),
           NEW e \in CacheItem,
           \A i \in Keys \ {e.key} : u[i][e.key] >= Size(e),
           \A i \in 1..Len(list) : list[i].key # e.key
    PROVE  Ordered(<<e>> \o list, u)
<1> DEFINE r == <<e>> \o list
<1>1. Len(r) = Len(list) + 1 /\ r[1] = e /\ \A j \in 2..Len(list) + 1 : r[j] = list[j - 1]
  OBVIOUS
<1> HIDE DEF r
<1>2. ASSUME NEW i \in 1..Len(r), NEW p \in 1..Len(r), i < p
      PROVE  Size(r[i]) <= u[r[p].key][r[i].key]
  <2>1. p \in 2..Len(list) + 1 /\ r[p] = list[p - 1] /\ p - 1 \in 1..Len(list)
    BY <1>1, <1>2
  <2>2. CASE i = 1
    <3>1. list[p - 1] \in CacheItem
      BY <2>1
    <3>2. list[p - 1].key \in Keys \ {e.key} /\ e.key \in Keys /\ Size(e) \in Nat
      BY <2>1, <3>1, ItemFacts
    <3>3. u[list[p - 1].key][e.key] \in Nat
      BY <3>2
    <3> QED
      BY <1>1, <2>1, <2>2, <3>2, <3>3
  <2>3. CASE i # 1
    <3>1. i \in 2..Len(list) + 1 /\ r[i] = list[i - 1] /\ i - 1 \in 1..Len(list) /\ i - 1 < p - 1
      BY <1>1, <1>2, <2>3
    <3> QED
      BY <2>1, <3>1 DEF Ordered
  <2> QED
    BY <2>2, <2>3
<1>3. Ordered(r, u)
  BY <1>2 DEF Ordered
<1> QED
  BY <1>3 DEF r
-----------------------------------------------------------------------------
(* A content and all that t counts fit the cache together. *)
Uses(t, s) == [i \in DOMAIN s |-> t[s[i]]]
AddUp(t, s) == SumOf(Uses(t, s))
Fits(d, t) == \A s \in Orders : SizeOf[d] + AddUp(t, s) <= Capacity

LEMMA PromisedFits == \A k \in Keys : Promised(k) <=> latest[k] # NoData /\ Fits(latest[k], touched[k])
BY DEF Promised, Fits, UsedSince, AddUp, Uses

LEMMA OrderIsSeq ==
    ASSUME NEW s \in Orders
    PROVE  s \in Seq(Keys)
<1>1. PICK m \in 0..Cardinality(Keys) : s \in [1..m -> Keys]
  BY DEF Orders, SeqOf
<1>2. m \in Nat
  BY <1>1, CacheAssumption, FS_CardinalityType
<1> QED
  BY <1>1, <1>2

LEMMA SeqIsOrder ==
    ASSUME NEW s \in Seq(Keys), \A i, j \in 1..Len(s) : s[i] = s[j] => i = j
    PROVE  s \in Orders
<1> DEFINE m == Len(s)
<1>1. m \in Nat /\ s \in [1..m -> Keys]
  OBVIOUS
<1>2. s \in Injection(1..m, Keys) /\ IsInjective(s)
  BY <1>1 DEF Injection, IsInjective
<1>3. Cardinality(1..m) <= Cardinality(Keys)
  BY <1>2, CacheAssumption, FS_Injection
<1>4. Cardinality(1..m) = m
  BY <1>1, FS_Interval
<1>5. Cardinality(Keys) \in Nat
  BY CacheAssumption, FS_CardinalityType
<1> HIDE DEF m
<1>6. m \in 0..Cardinality(Keys)
  BY <1>1, <1>3, <1>4, <1>5
<1>7. s \in SeqOf(Keys, Cardinality(Keys))
  BY <1>1, <1>6 DEF SeqOf
<1> QED
  BY <1>2, <1>7 DEF Orders

LEMMA AddUpSeq ==
    ASSUME NEW t \in [Keys -> Nat], NEW s \in Seq(Keys)
    PROVE  /\ Uses(t, s) \in Seq(Nat) /\ Len(Uses(t, s)) = Len(s) /\ AddUp(t, s) \in Nat
           /\ \A i \in 1..Len(s) : Uses(t, s)[i] = t[s[i]]
<1>1. DOMAIN s = 1..Len(s) /\ Len(s) \in Nat /\ \A i \in 1..Len(s) : s[i] \in Keys
  OBVIOUS
<1>2. Uses(t, s) \in [1..Len(s) -> Nat]
  BY <1>1 DEF Uses
<1>3. Uses(t, s) \in Seq(Nat) /\ Len(Uses(t, s)) = Len(s)
  BY <1>1, <1>2
<1>4. \A i \in 1..Len(s) : Uses(t, s)[i] = t[s[i]]
  BY <1>1 DEF Uses
<1> QED
  BY <1>3, <1>4, SumNat DEF AddUp

(* What is used more fits less. *)
LEMMA FitsLess ==
    ASSUME NEW d \in Data, NEW t \in [Keys -> Nat], NEW u \in [Keys -> Nat],
           \A j \in Keys : u[j] >= t[j], Fits(d, u)
    PROVE  Fits(d, t)
<1> SUFFICES ASSUME NEW s \in Orders PROVE SizeOf[d] + AddUp(t, s) <= Capacity
  BY DEF Fits
<1> DEFINE a == Uses(t, s)
           b == Uses(u, s)
<1>1. s \in Seq(Keys) /\ SizeOf[d] \in Nat /\ Capacity \in Nat
  BY OrderIsSeq, CacheAssumption
<1>2. /\ a \in Seq(Nat) /\ Len(a) = Len(s) /\ AddUp(t, s) = SumOf(a) /\ AddUp(t, s) \in Nat
      /\ \A i \in 1..Len(s) : a[i] = t[s[i]]
  BY <1>1, AddUpSeq DEF AddUp
<1>3. /\ b \in Seq(Nat) /\ Len(b) = Len(s) /\ AddUp(u, s) = SumOf(b) /\ AddUp(u, s) \in Nat
      /\ \A i \in 1..Len(s) : b[i] = u[s[i]]
  BY <1>1, AddUpSeq DEF AddUp
<1> HIDE DEF a, b
<1>4. \A i \in 1..Len(a) : a[i] <= b[i]
  <2> SUFFICES ASSUME NEW i \in 1..Len(s) PROVE a[i] <= b[i]
    BY <1>2
  <2>1. s[i] \in Keys
    BY <1>1
  <2>2. t[s[i]] \in Nat /\ u[s[i]] \in Nat /\ u[s[i]] >= t[s[i]]
    BY <2>1
  <2> QED
    BY <1>2, <1>3, <2>2
<1>5. SumOf(a) <= SumOf(b)
  BY <1>2, <1>3, <1>4, SumBelow
<1>6. SizeOf[d] + AddUp(u, s) <= Capacity
  BY DEF Fits
<1> QED
  BY <1>1, <1>2, <1>3, <1>5, <1>6

(* An item that had to go for a content of k did not fit together with it  *)
(* and all items in front of it, which were used since.                    *)
LEMMA EvictedOverfull ==
    ASSUME NEW list \in Seq(CacheItem), NEW p \in 1..Len(list),
           \A i, j \in 1..Len(list) : list[i].key = list[j].key => i = j,
           NEW k \in Keys, \A i \in 1..Len(list) : list[i].key # k,
           NEW size \in Nat, Total(SubSeq(list, 1, p)) + size > Capacity,
           NEW t \in [Keys -> Nat], t[k] >= size,
           \A i \in 1..p - 1 : Size(list[i]) <= t[list[i].key]
    PROVE  ~Fits(list[p].data, t)
<1> DEFINE pre == SubSeq(list, 1, p - 1)
           upto == SubSeq(list, 1, p)
           s == <<k>> \o [i \in 1..p - 1 |-> list[i].key]
           a == Uses(t, s)
           b == <<size>> \o Sizes(pre)
<1>1. /\ Len(list) \in Nat /\ p - 1 \in 0..Len(list) /\ p \in 0..Len(list) /\ Capacity \in Nat
      /\ p - 1 \in Nat /\ \A i \in 1..p - 1 : i \in 1..Len(list)
  BY CacheAssumption
<1>2. \A i \in 1..Len(list) : list[i] \in CacheItem /\ list[i].key \in Keys /\ Size(list[i]) \in Nat
  BY ItemFacts
<1>3. /\ pre \in Seq(CacheItem) /\ Len(pre) = p - 1 /\ \A i \in 1..p - 1 : pre[i] = list[i]
      /\ upto \in Seq(CacheItem) /\ Len(upto) = p /\ \A i \in 1..p : upto[i] = list[i]
  BY <1>1, PrefixFacts
<1>4. Total(upto) = Total(pre) + Size(list[p]) /\ Total(pre) \in Nat /\ Size(list[p]) \in Nat
  <2> HIDE DEF pre, upto
  <2>1. p \in 1..Len(upto) /\ upto[p] = list[p]
    BY <1>1, <1>3
  <2>2. /\ RemoveAt(upto, p) \in Seq(CacheItem) /\ Len(RemoveAt(upto, p)) = p - 1
        /\ \A j \in 1..p - 1 : RemoveAt(upto, p)[j] = upto[j]
    <3>1. /\ RemoveAt(upto, p) \in Seq(CacheItem) /\ Len(RemoveAt(upto, p)) = Len(upto) - 1
          /\ \A j \in 1..Len(upto) - 1 : RemoveAt(upto, p)[j] = IF j < p THEN upto[j] ELSE upto[j + 1]
      BY <1>3, <2>1, RemoveAtSeq
    <3>2. \A j \in 1..p - 1 : j < p
      OBVIOUS
    <3> QED
      BY <1>3, <3>1, <3>2
  <2>3. \A j \in 1..p - 1 : pre[j] = upto[j]
    BY <1>1, <1>3
  <2>4. RemoveAt(upto, p) = pre
    <3>1. Len(RemoveAt(upto, p)) = Len(pre) /\ \A j \in 1..Len(RemoveAt(upto, p)) : RemoveAt(upto, p)[j] = pre[j]
      BY <1>3, <2>2, <2>3
    <3> QED
      BY <1>3, <2>2, <3>1, SameSeq
  <2>5. Total(pre) = Total(upto) - Size(upto[p])
    BY <1>3, <2>1, <2>4, TotalRemove
  <2>6. Total(pre) \in Nat /\ Total(upto) \in Nat /\ Size(list[p]) \in Nat
    BY <1>2, <1>3, SizesSeq
  <2> QED
    BY <2>1, <2>5, <2>6
<1>5. /\ s \in Seq(Keys) /\ Len(s) = p /\ s[1] = k
      /\ \A i \in 2..p : s[i] = list[i - 1].key
  <2> DEFINE q == [i \in 1..p - 1 |-> list[i].key]
  <2>1. q \in Seq(Keys) /\ Len(q) = p - 1 /\ \A i \in 1..p - 1 : q[i] = list[i].key
    BY <1>1, <1>2
  <2> HIDE DEF q
  <2>2. /\ <<k>> \o q \in Seq(Keys) /\ Len(<<k>> \o q) = Len(q) + 1 /\ (<<k>> \o q)[1] = k
        /\ \A i \in 2..Len(q) + 1 : (<<k>> \o q)[i] = q[i - 1]
    BY <2>1
  <2>3. \A i \in 2..p : i - 1 \in 1..p - 1
    OBVIOUS
  <2>4. \A i \in 2..p : (<<k>> \o q)[i] = list[i - 1].key
    BY <1>1, <2>1, <2>2, <2>3
  <2> QED
    BY <1>1, <2>1, <2>2, <2>4 DEF q
<1> HIDE DEF s, pre, upto
<1>6. s \in Orders
  <2> SUFFICES ASSUME NEW i \in 1..Len(s), NEW j \in 1..Len(s), s[i] = s[j] PROVE i = j
    BY <1>5, SeqIsOrder
  <2>1. \A l \in 2..p : l - 1 \in 1..Len(list) /\ s[l] = list[l - 1].key
    BY <1>1, <1>5
  <2>2. CASE i = 1 \/ j = 1
    <3>1. i = 1 \/ i \in 2..p
      BY <1>1, <1>5
    <3>2. j = 1 \/ j \in 2..p
      BY <1>1, <1>5
    <3>3. \A l \in 2..p : s[l] # k
      BY <2>1
    <3> QED
      BY <1>5, <2>2, <3>1, <3>2, <3>3
  <2>3. CASE i # 1 /\ j # 1
    <3>1. i \in 2..p /\ j \in 2..p
      BY <1>1, <1>5, <2>3
    <3>2. i - 1 = j - 1
      BY <2>1, <3>1
    <3> QED
      BY <3>1, <3>2
  <2> QED
    BY <2>2, <2>3
<1>7. /\ a \in Seq(Nat) /\ Len(a) = p /\ AddUp(t, s) = SumOf(a) /\ AddUp(t, s) \in Nat
      /\ \A i \in 1..p : a[i] = t[s[i]]
  <2>1. /\ a \in Seq(Nat) /\ Len(a) = Len(s) /\ AddUp(t, s) \in Nat
        /\ \A i \in 1..Len(s) : a[i] = t[s[i]]
    BY <1>5, AddUpSeq
  <2> QED
    BY <1>5, <2>1 DEF AddUp
<1>8. /\ Sizes(pre) \in Seq(Nat) /\ Len(Sizes(pre)) = p - 1 /\ Total(pre) = SumOf(Sizes(pre))
      /\ \A i \in 1..p - 1 : Sizes(pre)[i] = Size(list[i])
  <2>1. /\ Sizes(pre) \in Seq(Nat) /\ Len(Sizes(pre)) = Len(pre) /\ Total(pre) = SumOf(Sizes(pre))
        /\ \A i \in 1..Len(pre) : Sizes(pre)[i] = Size(pre[i])
    BY <1>3, SizesSeq
  <2>2. \A i \in 1..p - 1 : Size(pre[i]) = Size(list[i])
    BY <1>3
  <2> QED
    BY <1>3, <2>1, <2>2
<1>9. /\ b \in Seq(Nat) /\ Len(b) = p /\ b[1] = size
      /\ \A i \in 2..p : b[i] = Size(list[i - 1])
  <2> DEFINE q == Sizes(pre)
  <2>1. q \in Seq(Nat) /\ Len(q) = p - 1 /\ \A i \in 1..p - 1 : q[i] = Size(list[i])
    BY <1>8
  <2> HIDE DEF q
  <2>2. /\ <<size>> \o q \in Seq(Nat) /\ Len(<<size>> \o q) = Len(q) + 1 /\ (<<size>> \o q)[1] = size
        /\ \A i \in 2..Len(q) + 1 : (<<size>> \o q)[i] = q[i - 1]
    BY <2>1
  <2>3. \A i \in 2..p : i - 1 \in 1..p - 1
    OBVIOUS
  <2>4. \A i \in 2..p : (<<size>> \o q)[i] = Size(list[i - 1])
    BY <1>1, <2>1, <2>2, <2>3
  <2> QED
    BY <1>1, <2>1, <2>2, <2>4 DEF q
<1>10. SumOf(b) = size + Total(pre)
  BY <1>8, SumCons
<1> HIDE DEF a, b
<1>11. \A i \in 1..Len(b) : b[i] <= a[i]
  <2> SUFFICES ASSUME NEW i \in 1..p PROVE b[i] <= a[i]
    BY <1>9
  <2>1. CASE i = 1
    <3>1. t[k] \in Nat
      OBVIOUS
    <3> QED
      BY <1>5, <1>7, <1>9, <2>1, <3>1
  <2>2. CASE i # 1
    <3>1. i \in 2..p /\ i - 1 \in 1..p - 1
      BY <2>2
    <3>2. a[i] = t[list[i - 1].key] /\ b[i] = Size(list[i - 1])
      BY <1>5, <1>7, <1>9, <3>1
    <3> QED
      BY <3>1, <3>2
  <2> QED
    BY <2>1, <2>2
<1>12. SumOf(b) <= SumOf(a)
  BY <1>7, <1>9, <1>11, SumBelow
<1>13. SizeOf[list[p].data] = Size(list[p])
  BY DEF Size
<1>14. Total(upto) + size > Capacity
  BY DEF upto
<1>15. ~(SizeOf[list[p].data] + AddUp(t, s) <= Capacity)
  BY <1>1, <1>4, <1>7, <1>10, <1>12, <1>13, <1>14
<1> QED
  BY <1>6, <1>15 DEF Fits
-----------------------------------------------------------------------------
(* An item more, in front. *)
AddFront(c, e) ==
    [items |-> <<e>> \o c.items, lookup |-> [c.lookup EXCEPT ![e.key] = e], size |-> c.size + Size(e)]

LEMMA AddGood ==
    ASSUME NEW c, Good(c), NEW e \in CacheItem, c.lookup[e.key] = NoItem
    PROVE  /\ Good(AddFront(c, e))
           /\ \A i \in 1..Len(c.items) : c.items[i].key # e.key
<1> SUFFICES ASSUME NEW d, d = AddFront(c, e)
             PROVE  Good(d) /\ \A i \in 1..Len(c.items) : c.items[i].key # e.key
  OBVIOUS
<1>1. /\ c.items \in Seq(CacheItem) /\ Len(c.items) \in Nat
      /\ c.lookup \in [Keys -> CacheItem \cup {NoItem}] /\ c.size \in Int
      /\ \A i \in 1..Len(c.items) : c.items[i].key \in Keys /\ c.items[i] # NoItem
  BY ValueFacts DEF Good
<1>2. e.key \in Keys /\ Size(e) \in Nat /\ e # NoItem
  BY ItemFacts
<1>3. /\ d.items = <<e>> \o c.items /\ d.lookup = [c.lookup EXCEPT ![e.key] = e]
      /\ d.size = c.size + Size(e)
  BY DEF AddFront
<1>4. d.items \in Seq(CacheItem) /\ Total(d.items) = Size(e) + Total(c.items)
  BY <1>1, <1>3, TotalCons
<1>5. /\ Len(d.items) = Len(c.items) + 1 /\ d.items[1] = e
      /\ \A i \in 1..Len(c.items) : i + 1 \in 1..Len(d.items) /\ d.items[i + 1] = c.items[i]
      /\ \A i \in 1..Len(d.items) : i # 1 => i - 1 \in 1..Len(c.items) /\ d.items[i] = c.items[i - 1]
  BY <1>1, <1>3
<1>6. d.lookup[e.key] = e /\ \A k \in Keys : k # e.key => d.lookup[k] = c.lookup[k]
  BY <1>1, <1>2, <1>3
<1>7. \A i \in 1..Len(c.items) : c.items[i].key # e.key
  BY <1>1 DEF Good, Linked
<1>8. d \in Value
  <2>1. d.lookup \in [Keys -> CacheItem \cup {NoItem}] /\ d.size \in Int
    BY <1>1, <1>2, <1>3
  <2>2. d = [items |-> d.items, lookup |-> d.lookup, size |-> d.size]
    BY <1>3 DEF AddFront
  <2> QED
    BY <1>4, <2>1, <2>2 DEF Value
<1>9. d.size = Total(d.items)
  <2>1. c.size = Total(c.items)
    BY DEF Good, Linked
  <2> QED
    BY <1>1, <1>2, <1>3, <1>4, <2>1
<1>10. ASSUME NEW i \in 1..Len(d.items) PROVE d.lookup[d.items[i].key] = d.items[i]
  <2>1. CASE i = 1
    BY <1>5, <1>6, <2>1
  <2>2. CASE i # 1
    <3>1. i - 1 \in 1..Len(c.items) /\ d.items[i] = c.items[i - 1]
      BY <1>5, <2>2
    <3>2. c.lookup[c.items[i - 1].key] = c.items[i - 1]
      BY <3>1 DEF Good, Linked
    <3> QED
      BY <1>1, <1>6, <1>7, <3>1, <3>2
  <2> QED
    BY <2>1, <2>2
<1>11. ASSUME NEW k \in Keys, d.lookup[k] # NoItem
       PROVE  d.lookup[k].key = k /\ \E i \in 1..Len(d.items) : d.items[i] = d.lookup[k]
  <2>1. CASE k = e.key
    <3>1. 1 \in 1..Len(d.items)
      BY <1>1, <1>5
    <3> QED
      BY <1>5, <1>6, <2>1, <3>1
  <2>2. CASE k # e.key
    <3>1. d.lookup[k] = c.lookup[k]
      BY <1>6, <2>2
    <3>2. PICK i \in 1..Len(c.items) : c.items[i] = c.lookup[k] /\ c.lookup[k].key = k
      BY <1>11, <3>1 DEF Good, Linked
    <3> QED
      BY <1>5, <3>1, <3>2
  <2> QED
    BY <2>1, <2>2
<1>12. ASSUME NEW i \in 1..Len(d.items), NEW j \in 1..Len(d.items), d.items[i].key = d.items[j].key
       PROVE  i = j
  <2>1. CASE i = 1 \/ j = 1
    <3>1. ASSUME NEW l \in 1..Len(d.items), l # 1 PROVE d.items[l].key # e.key
      <4>1. l - 1 \in 1..Len(c.items) /\ d.items[l] = c.items[l - 1]
        BY <1>5, <3>1
      <4> QED
        BY <1>7, <4>1
    <3> QED
      BY <1>5, <1>12, <2>1, <3>1
  <2>2. CASE i # 1 /\ j # 1
    <3>1. /\ i - 1 \in 1..Len(c.items) /\ d.items[i] = c.items[i - 1]
          /\ j - 1 \in 1..Len(c.items) /\ d.items[j] = c.items[j - 1]
      BY <1>5, <2>2
    <3>2. \A l, m \in 1..Len(c.items) : c.items[l].key = c.items[m].key => l = m
      BY DEF Good, Linked
    <3>3. i - 1 = j - 1
      BY <1>12, <3>1, <3>2
    <3> QED
      BY <3>3
  <2> QED
    BY <2>1, <2>2
<1>13. Linked(d)
  BY <1>9, <1>10, <1>11, <1>12 DEF Linked
<1> QED
  BY <1>7, <1>8, <1>13 DEF Good

(* A key whose item is gone was not promised to stay, and still is not. *)
LEMMA StillGone ==
    ASSUME TypeOK, WorkingSetKept, NEW k \in Keys, lookup[k] = NoItem,
           latest'[k] \in {latest[k], NoData}, touched' \in [Keys -> [Keys -> Nat]],
           \A j \in Keys : touched'[k][j] >= touched[k][j]
    PROVE  ~Promised(k)'
<1> SUFFICES ASSUME latest'[k] # NoData, Fits(latest'[k], touched'[k]) PROVE FALSE
  BY DEF Promised, Fits, UsedSince, AddUp, Uses
<1>1. latest[k] \in Data /\ latest'[k] = latest[k]
  BY DEF TypeOK
<1>2. touched[k] \in [Keys -> Nat] /\ touched'[k] \in [Keys -> Nat]
  BY DEF TypeOK
<1>3. Fits(latest[k], touched[k])
  BY <1>1, <1>2, FitsLess
<1>4. Promised(k)
  BY <1>1, <1>3, PromisedFits
<1> QED
  BY <1>4 DEF WorkingSetKept

(* The invariant after a step, from what the step made of the three fields *)
(* and, key by key, from what became of lookup and latest.                 *)
LEMMA InvAfter ==
    ASSUME NEW d, Good(d), Become(d), d.size <= Capacity, now' \in Nat,
           latest' \in [Keys -> Data \cup {NoData}], touched' \in [Keys -> [Keys -> Nat]],
           Ordered(d.items, touched'),
           \A k \in Keys : d.lookup[k] # NoItem => d.lookup[k].data = latest'[k],
           \A k \in Keys : d.lookup[k] = NoItem => ~Promised(k)'
    PROVE  Inv'
<1>1. /\ items' = d.items /\ lookup' = d.lookup /\ currentSize' = d.size
      /\ items' \in Seq(CacheItem) /\ lookup' \in [Keys -> CacheItem \cup {NoItem}]
      /\ currentSize' \in Nat /\ InStep'
  BY BecomeGood
<1>2. Capacity \in Nat
  BY CacheAssumption
<1>3. TypeOK'
  BY <1>1, <1>2 DEF TypeOK
<1>4. NeverOutdated'
  BY <1>1 DEF NeverOutdated
<1>5. UseOrder'
  BY <1>1 DEF UseOrder
<1>6. WorkingSetKept'
  BY <1>1 DEF WorkingSetKept
<1> QED
  BY <1>1, <1>3, <1>4, <1>5, <1>6 DEF Inv

(* What an operation finds. *)
LEMMA InvFacts ==
    ASSUME Inv
    PROVE  /\ Good(Fields) /\ Ordered(Fields.items, touched)
           /\ Fields.items = items /\ Fields.lookup = lookup /\ Fields.size = currentSize
           /\ lookup \in [Keys -> CacheItem \cup {NoItem}] /\ currentSize <= Capacity
           /\ touched \in [Keys -> [Keys -> Nat]] /\ latest \in [Keys -> Data \cup {NoData}]
           /\ now \in Nat /\ Capacity \in Nat /\ currentSize \in Nat
           /\ \A k \in Keys : lookup[k] # NoItem => lookup[k] \in CacheItem /\ lookup[k].key = k
           /\ \A k \in Keys : lookup[k] # NoItem => lookup[k].data = latest[k]
<1>1. /\ Good(Fields) /\ Fields.items = items /\ Fields.lookup = lookup /\ Fields.size = currentSize
  BY FieldsGood DEF Inv
<1>2. Capacity \in Nat
  BY CacheAssumption
<1>3. /\ lookup \in [Keys -> CacheItem \cup {NoItem}] /\ currentSize <= Capacity /\ currentSize \in Nat
      /\ touched \in [Keys -> [Keys -> Nat]] /\ latest \in [Keys -> Data \cup {NoData}] /\ now \in Nat
  BY <1>2 DEF Inv, TypeOK
<1>4. \A k \in Keys : lookup[k] # NoItem => lookup[k] \in CacheItem /\ lookup[k].key = k
  BY <1>1, <1>3 DEF Good, Linked
<1>5. Ordered(Fields.items, touched)
  BY <1>1 DEF Inv, UseOrder
<1> QED
  BY <1>1, <1>2, <1>3, <1>4, <1>5 DEF Inv, NeverOutdated

LEMMA ForgetFacts ==
    ASSUME latest \in [Keys -> Data \cup {NoData}], NEW K, Forget(K)
    PROVE  /\ latest' \in [Keys -> Data \cup {NoData}]
           /\ \A k \in Keys : latest'[k] = IF k \in K THEN NoData ELSE latest[k]
BY DEF Forget

(* The item of a key goes: an expired one that was asked for, or Delete. *)
LEMMA RemovalKeeps ==
    ASSUME Inv, NEW k \in Keys, Become(Without(Fields, k)), Forget({k}), UNCHANGED <<now, touched>>
    PROVE  Inv'
<1> SUFFICES ASSUME NEW d, d = Without(Fields, k), Become(d) PROVE Inv'
  OBVIOUS
<1>1. Good(d) /\ Ordered(d.items, touched) /\ d.lookup = [lookup EXCEPT ![k] = NoItem] /\ d.size <= currentSize
  <2>1. Cleared(Fields, k, touched, d)
    BY InvFacts, WithoutGood
  <2> QED
    BY <2>1, InvFacts DEF Cleared
<1>2. d.lookup[k] = NoItem /\ \A j \in Keys : j # k => d.lookup[j] = lookup[j]
  BY <1>1, InvFacts
<1>3. /\ latest' \in [Keys -> Data \cup {NoData}]
      /\ latest'[k] = NoData /\ \A j \in Keys : j # k => latest'[j] = latest[j]
  BY InvFacts, ForgetFacts
<1>4. d.size <= Capacity
  <2>1. d.size \in Int
    BY <1>1, ValueFacts DEF Good
  <2> QED
    BY <1>1, <2>1, InvFacts
<1>5. \A j \in Keys : d.lookup[j] # NoItem => d.lookup[j].data = latest'[j]
  BY <1>2, <1>3, InvFacts
<1>6. ASSUME NEW j \in Keys, d.lookup[j] = NoItem PROVE ~Promised(j)'
  <2>1. CASE j = k
    BY <1>3, <2>1 DEF Promised
  <2>2. CASE j # k
    <3>1. lookup[j] = NoItem /\ latest'[j] = latest[j]
      BY <1>2, <1>3, <1>6, <2>2
    <3>2. \A i \in Keys : touched'[j][i] >= touched[j][i]
      <4>1. \A i \in Keys : touched'[j][i] = touched[j][i] /\ touched[j][i] \in Nat
        BY InvFacts
      <4> QED
        BY <4>1
    <3> QED
      BY <3>1, <3>2, InvFacts, StillGone DEF Inv
  <2> QED
    BY <2>1, <2>2
<1> QED
  BY <1>1, <1>3, <1>4, <1>5, <1>6, InvFacts, InvAfter

(* What PutWithTTL finds after making room for s bytes under k. *)
Room(k, s, c) ==
    /\ Good(c) /\ c.lookup[k] = NoItem /\ Ordered(c.items, touched')
    /\ c.size + s <= Capacity \/ (c.items = <<>> /\ c.size = 0)
    /\ \A i \in 1..Len(c.items) : c.items[i].key # k
    /\ \A j \in Keys : c.lookup[j] # NoItem => c.lookup[j] = lookup[j]
    /\ \A j \in Keys : j # k /\ c.lookup[j] = NoItem /\ latest'[j] = latest[j] => ~Promised(j)'

LEMMA MakesRoom ==
    ASSUME Inv, NEW k \in Keys, NEW s \in Nat, Touch(k, s)
    PROVE  Room(k, s, Evicted(Without(Fields, k), s))
<1> SUFFICES ASSUME NEW b, b = Without(Fields, k), NEW c, c = Evicted(b, s)
             PROVE  Room(k, s, c)
  OBVIOUS
<1>1. Cleared(Fields, k, touched, b)
  BY InvFacts, WithoutGood
<1>2. Good(b) /\ Ordered(b.items, touched) /\ b.lookup = [lookup EXCEPT ![k] = NoItem]
  BY <1>1, InvFacts DEF Cleared
<1>3. b.lookup[k] = NoItem /\ \A j \in Keys : j # k => b.lookup[j] = lookup[j]
  BY <1>2, InvFacts
<1>4. /\ b.items \in Seq(CacheItem) /\ Len(b.items) \in Nat
      /\ \A i \in 1..Len(b.items) : b.items[i] \in CacheItem /\ b.items[i].key \in Keys
      /\ \A i \in 1..Len(b.items) : b.items[i] # NoItem /\ Size(b.items[i]) \in Nat
  BY <1>2, ValueFacts DEF Good
<1>5. \A i \in 1..Len(b.items) : b.items[i].key # k
  BY <1>2, <1>3, <1>4 DEF Good, Linked
<1>6. Good(c) /\ \E n \in 0..Len(b.items) : MadeRoom(b, s, n, c)
  BY <1>2, EvictedGood
<1>7. PICK n \in 0..Len(b.items) : MadeRoom(b, s, n, c)
  BY <1>6
<1>8. /\ c.items = SubSeq(b.items, 1, Len(b.items) - n)
      /\ c.size + s <= Capacity \/ c.items = <<>>
      /\ \A j \in Keys : c.lookup[j] \in {b.lookup[j], NoItem}
      /\ \A m \in 0..n - 1 : Total(SubSeq(b.items, 1, Len(b.items) - m)) + s > Capacity
  BY <1>7 DEF MadeRoom
<1>9. Len(b.items) - n \in 0..Len(b.items)
  BY <1>4
<1>10. Len(c.items) = Len(b.items) - n /\ \A i \in 1..Len(c.items) : c.items[i] = b.items[i]
  BY <1>4, <1>8, <1>9, PrefixFacts
<1>11. /\ touched' \in [Keys -> [Keys -> Nat]]
       /\ \A i \in Keys \ {k} : touched'[i][k] >= s
       /\ \A i \in Keys \ {k}, j \in Keys : touched'[i][j] >= touched[i][j]
  BY InvFacts, TouchFacts
<1>12. \A i \in 1..Len(c.items) : c.items[i].key # k
  <2>1. \A i \in 1..Len(c.items) : i \in 1..Len(b.items)
    BY <1>4, <1>10
  <2> QED
    BY <1>5, <1>10, <2>1
<1>13. Ordered(c.items, touched')
  <2>1. Ordered(c.items, touched)
    BY <1>2, <1>4, <1>8, <1>9, PrefixOrdered
  <2>2. c.items \in Seq(CacheItem)
    BY <1>6, ValueFacts DEF Good
  <2> QED
    BY <1>11, <1>12, <2>1, <2>2, InvFacts, GrowOrdered
<1>14. c.items = <<>> => c.size = 0
  BY <1>6, TotalEmpty DEF Good, Linked
<1>15. \A j \in Keys : c.lookup[j] # NoItem => c.lookup[j] = lookup[j]
  BY <1>3, <1>8
<1>16. ASSUME NEW j \in Keys, j # k, c.lookup[j] = NoItem, latest'[j] = latest[j]
       PROVE  ~Promised(j)'
  <2>1. CASE lookup[j] = NoItem
    BY <1>11, <1>16, <2>1, StillGone DEF Inv
  <2>2. CASE lookup[j] # NoItem
    <3>1. b.lookup[j] = lookup[j] /\ lookup[j].key = j /\ lookup[j].data = latest[j]
      BY <1>3, <1>16, <2>2, InvFacts
    <3>2. PICK p \in 1..Len(b.items) : b.items[p] = b.lookup[j]
      BY <1>2, <2>2, <3>1 DEF Good, Linked
    <3>3. b.items[p].key = j /\ b.items[p].data = latest[j]
      BY <3>1, <3>2
    <3>4. ~(p <= Len(b.items) - n)
      <4> SUFFICES ASSUME p <= Len(b.items) - n PROVE FALSE
        OBVIOUS
      <4>1. p \in 1..Len(c.items) /\ c.items[p] = b.items[p]
        BY <1>4, <1>10
      <4>2. c.lookup[c.items[p].key] = c.items[p]
        BY <1>6, <4>1 DEF Good, Linked
      <4> QED
        BY <1>4, <1>16, <3>3, <4>1, <4>2
    <3>5. Len(b.items) - p \in 0..n - 1 /\ Len(b.items) - (Len(b.items) - p) = p
      BY <1>4, <3>4
    <3>6. Total(SubSeq(b.items, 1, p)) + s > Capacity
      BY <1>8, <3>5
    <3>7. touched'[j] \in [Keys -> Nat] /\ touched'[j][k] >= s
      BY <1>11, <1>16
    <3>8. ASSUME NEW i \in 1..p - 1 PROVE Size(b.items[i]) <= touched'[j][b.items[i].key]
      <4>1. i \in 1..Len(b.items) /\ i < p
        BY <1>4
      <4>2. Size(b.items[i]) <= touched[j][b.items[i].key]
        BY <1>2, <3>3, <4>1 DEF Ordered
      <4>3. b.items[i].key \in Keys /\ Size(b.items[i]) \in Nat
        BY <1>4, <4>1
      <4>4. touched'[j][b.items[i].key] >= touched[j][b.items[i].key]
        BY <1>11, <1>16, <4>3
      <4>5. touched[j][b.items[i].key] \in Nat /\ touched'[j][b.items[i].key] \in Nat
        BY <3>7, <4>3, InvFacts
      <4>6. \A x, y, z \in Nat : x <= y /\ z >= y => x <= z
        OBVIOUS
      <4> QED
        BY <4>2, <4>3, <4>4, <4>5, <4>6
    <3>9. \A i, l \in 1..Len(b.items) : b.items[i].key = b.items[l].key => i = l
      BY <1>2 DEF Good, Linked
    <3>10. ~Fits(b.items[p].data, touched'[j])
      BY <1>4, <1>5, <3>6, <3>7, <3>8, <3>9, EvictedOverfull
    <3>11. ~Fits(latest'[j], touched'[j])
      BY <1>16, <3>3, <3>10
    <3> QED
      BY <3>11 DEF Promised, Fits, UsedSince, AddUp, Uses
  <2> QED
    BY <2>1, <2>2
<1>17. c.lookup[k] = NoItem
  BY <1>3, <1>8
<1> QED
  BY <1>6, <1>8, <1>12, <1>13, <1>14, <1>15, <1>16, <1>17 DEF Room

(* An item goes to the front: what is needed of it and of the rest c. *)
Fronted(c, e) ==
    /\ Good(c) /\ e \in CacheItem /\ c.lookup[e.key] = NoItem
    /\ Become(AddFront(c, e)) /\ c.size + Size(e) <= Capacity /\ now' \in Nat
    /\ Touch(e.key, Size(e)) /\ Ordered(c.items, touched')
    /\ latest' \in [Keys -> Data \cup {NoData}] /\ latest'[e.key] = e.data
    /\ \A j \in Keys : j # e.key => latest'[j] = latest[j]
    /\ \A j \in Keys : c.lookup[j] # NoItem => c.lookup[j] = lookup[j]
    /\ \A j \in Keys : j # e.key /\ c.lookup[j] = NoItem => ~Promised(j)'

LEMMA FrontKeeps ==
    ASSUME Inv, NEW c, NEW e, Fronted(c, e)
    PROVE  Inv'
<1>0. /\ Good(c) /\ e \in CacheItem /\ c.lookup[e.key] = NoItem
      /\ Become(AddFront(c, e)) /\ c.size + Size(e) <= Capacity /\ now' \in Nat
      /\ Touch(e.key, Size(e)) /\ Ordered(c.items, touched')
      /\ latest' \in [Keys -> Data \cup {NoData}] /\ latest'[e.key] = e.data
      /\ \A j \in Keys : j # e.key => latest'[j] = latest[j]
      /\ \A j \in Keys : c.lookup[j] # NoItem => c.lookup[j] = lookup[j]
      /\ \A j \in Keys : j # e.key /\ c.lookup[j] = NoItem => ~Promised(j)'
  BY DEF Fronted
<1> USE <1>0
<1> SUFFICES ASSUME NEW d, d = AddFront(c, e), Become(d) PROVE Inv'
  OBVIOUS
<1>1. Good(d) /\ \A i \in 1..Len(c.items) : c.items[i].key # e.key
  BY AddGood
<1>2. /\ d.items = <<e>> \o c.items /\ d.lookup = [c.lookup EXCEPT ![e.key] = e]
      /\ d.size = c.size + Size(e)
  BY DEF AddFront
<1>3. /\ c.items \in Seq(CacheItem) /\ c.lookup \in [Keys -> CacheItem \cup {NoItem}]
      /\ e.key \in Keys /\ Size(e) \in Nat /\ e # NoItem
  BY ValueFacts, ItemFacts DEF Good
<1>4. d.lookup[e.key] = e /\ \A j \in Keys : j # e.key => d.lookup[j] = c.lookup[j]
  BY <1>2, <1>3
<1>5. touched' \in [Keys -> [Keys -> Nat]] /\ \A i \in Keys \ {e.key} : touched'[i][e.key] >= Size(e)
  BY <1>3, InvFacts, TouchFacts
<1>6. Ordered(d.items, touched')
  <2> SUFFICES ASSUME NEW u, u = touched' PROVE Ordered(<<e>> \o c.items, u)
    BY <1>2
  <2>1. u \in [Keys -> [Keys -> Nat]] /\ \A i \in Keys \ {e.key} : u[i][e.key] >= Size(e)
    BY <1>5
  <2>2. Ordered(c.items, u) /\ \A i \in 1..Len(c.items) : c.items[i].key # e.key
    BY <1>1
  <2> QED
    BY <1>3, <2>1, <2>2, FrontOrdered
<1>7. ASSUME NEW j \in Keys, d.lookup[j] # NoItem PROVE d.lookup[j].data = latest'[j]
  <2>1. CASE j = e.key
    BY <1>4, <2>1
  <2>2. CASE j # e.key
    <3>1. d.lookup[j] = lookup[j] /\ lookup[j] # NoItem /\ latest'[j] = latest[j]
      BY <1>4, <1>7, <2>2
    <3> QED
      BY <3>1, InvFacts
  <2> QED
    BY <2>1, <2>2
<1>8. \A j \in Keys : d.lookup[j] = NoItem => ~Promised(j)'
  BY <1>3, <1>4
<1>9. d.size <= Capacity
  BY <1>2
<1> QED
  BY <1>1, <1>5, <1>6, <1>7, <1>8, <1>9, InvAfter

LEMMA PutStoredKeeps ==
    ASSUME Inv, NEW k \in Keys, NEW d \in Data, NEW ttl \in TTLs, PutStored(k, d, ttl)
    PROVE  Inv'
<1> SUFFICES ASSUME NEW e, e = [key |-> k, data |-> d, created |-> now, ttl |-> ttl],
                    NEW c, c = Evicted(Without(Fields, k), SizeOf[d])
             PROVE  Inv'
  OBVIOUS
<1>1. SizeOf[d] \in Nat /\ ttl \in Nat
  BY CacheAssumption
<1>2. e \in CacheItem /\ e.key = k /\ e.data = d /\ Size(e) = SizeOf[d]
  BY <1>1, InvFacts DEF CacheItem, Size
<1>3. /\ SizeOf[d] <= Capacity /\ Touch(k, SizeOf[d]) /\ latest' = [latest EXCEPT ![k] = d] /\ now' = now
      /\ Become([items |-> <<e>> \o c.items, lookup |-> [c.lookup EXCEPT ![k] = e], size |-> c.size + SizeOf[d]])
  BY DEF PutStored
<1>4. Become(AddFront(c, e))
  BY <1>2, <1>3 DEF AddFront
<1>5. Room(k, SizeOf[d], c)
  BY <1>1, <1>3, MakesRoom
<1>6. /\ latest' \in [Keys -> Data \cup {NoData}] /\ latest'[k] = d
      /\ \A j \in Keys : j # k => latest'[j] = latest[j]
  BY <1>3, InvFacts
<1>7. c.size + Size(e) <= Capacity
  <2>1. CASE c.size + SizeOf[d] <= Capacity
    BY <1>2, <2>1
  <2>2. CASE c.size = 0
    BY <1>1, <1>2, <1>3, <2>2
  <2> QED
    BY <1>5, <2>1, <2>2 DEF Room
<1>8. \A j \in Keys : j # e.key /\ c.lookup[j] = NoItem => ~Promised(j)'
  BY <1>2, <1>5, <1>6 DEF Room
<1>9. /\ Good(c) /\ c.lookup[e.key] = NoItem /\ Ordered(c.items, touched')
      /\ \A j \in Keys : c.lookup[j] # NoItem => c.lookup[j] = lookup[j]
  BY <1>2, <1>5 DEF Room
<1>10. now' \in Nat /\ Touch(e.key, Size(e)) /\ latest'[e.key] = e.data /\ \A j \in Keys : j # e.key => latest'[j] = latest[j]
  BY <1>2, <1>3, <1>6, InvFacts
<1>11. Fronted(c, e)
  BY <1>2, <1>4, <1>6, <1>7, <1>8, <1>9, <1>10 DEF Fronted
<1> QED
  BY <1>11, FrontKeeps

LEMMA PutRefusedKeeps ==
    ASSUME Inv, NEW k \in Keys, NEW d \in Data, PutRefused(k, d)
    PROVE  Inv'
<1> SUFFICES ASSUME NEW c, c = Evicted(Without(Fields, k), SizeOf[d]) PROVE Inv'
  OBVIOUS
<1>1. SizeOf[d] \in Nat
  BY CacheAssumption
<1>2. SizeOf[d] > Capacity /\ Touch(k, SizeOf[d]) /\ Become(c) /\ Forget({k}) /\ now' = now
  BY DEF PutRefused
<1>3. Room(k, SizeOf[d], c)
  BY <1>1, <1>2, MakesRoom
<1>4. /\ latest' \in [Keys -> Data \cup {NoData}]
      /\ latest'[k] = NoData /\ \A j \in Keys : j # k => latest'[j] = latest[j]
  BY <1>2, InvFacts, ForgetFacts
<1>5. touched' \in [Keys -> [Keys -> Nat]]
  BY <1>1, <1>2, InvFacts, TouchFacts
<1>6. c.size <= Capacity
  <2>1. c.size \in Int
    BY <1>3, ValueFacts DEF Room, Good
  <2>2. CASE c.size + SizeOf[d] <= Capacity
    BY <1>1, <2>1, <2>2, InvFacts
  <2>3. CASE c.size = 0
    BY <2>3, InvFacts
  <2> QED
    BY <1>3, <2>2, <2>3 DEF Room
<1>7. \A j \in Keys : c.lookup[j] # NoItem => c.lookup[j].data = latest'[j]
  <2>1. \A j \in Keys : c.lookup[j] # NoItem => c.lookup[j] = lookup[j] /\ j # k
    BY <1>3 DEF Room
  <2> QED
    BY <1>4, <2>1, InvFacts
<1>8. ~Promised(k)'
  BY <1>4 DEF Promised
<1>9. \A j \in Keys : c.lookup[j] = NoItem => ~Promised(j)'
  BY <1>3, <1>4, <1>8 DEF Room
<1>10. Good(c) /\ Ordered(c.items, touched') /\ now' \in Nat
  BY <1>2, <1>3, InvFacts DEF Room
<1> QED
  BY <1>2, <1>4, <1>5, <1>6, <1>7, <1>9, <1>10, InvAfter

LEMMA GetHitKeeps ==
    ASSUME Inv, NEW k \in Keys, GetHit(k)
    PROVE  Inv'
<1> SUFFICES ASSUME NEW e, e = lookup[k], NEW c, c = Without(Fields, k) PROVE Inv'
  OBVIOUS
<1>1. /\ e # NoItem /\ e \in CacheItem /\ e.key = k /\ e.data = latest[k]
      /\ Size(e) \in Nat
  BY InvFacts, ItemFacts DEF GetHit
<1>2. /\ items' = <<e>> \o RemoveAt(items, Place(Fields, k)) /\ Touch(k, Size(e))
      /\ lookup' = lookup /\ currentSize' = currentSize /\ now' = now /\ latest' = latest
  BY DEF GetHit
<1>3. Cleared(Fields, k, touched, c)
  BY InvFacts, WithoutGood
<1>4. Good(c) /\ Ordered(c.items, touched) /\ c.lookup = [lookup EXCEPT ![k] = NoItem]
  BY <1>3, InvFacts DEF Cleared
<1>5. c.lookup[k] = NoItem /\ \A j \in Keys : j # k => c.lookup[j] = lookup[j]
  BY <1>4, InvFacts
<1>6. c = RemoveElement(Fields, Place(Fields, k))
  BY <1>1, InvFacts DEF Without
<1>7. Place(Fields, k) \in 1..Len(items) /\ items[Place(Fields, k)] = e
  <2>1. DOMAIN items = 1..Len(items)
    BY DEF Inv, TypeOK
  <2>2. \E i \in DOMAIN items : items[i] = e
    BY <1>1, <2>1, InvFacts DEF Good, Linked
  <2> QED
    BY <2>1, <2>2, InvFacts DEF Place
<1>8. c.items = RemoveAt(items, Place(Fields, k)) /\ c.size = currentSize - Size(e)
  BY <1>6, <1>7, InvFacts DEF RemoveElement
<1>9. Become(AddFront(c, e))
  <2>1. [c.lookup EXCEPT ![k] = e] = lookup
    BY <1>4, InvFacts
  <2>2. c.size + Size(e) = currentSize
    BY <1>1, <1>8, InvFacts
  <2> QED
    BY <1>1, <1>2, <1>8, <2>1, <2>2 DEF Become, AddFront
<1>10. /\ touched' \in [Keys -> [Keys -> Nat]]
       /\ \A i \in Keys \ {k}, j \in Keys : touched'[i][j] >= touched[i][j]
  BY <1>1, <1>2, InvFacts, TouchFacts
<1>11. Ordered(c.items, touched')
  <2>1. \A i \in 1..Len(c.items) : c.items[i].key # k
    BY <1>1, <1>4, <1>5, AddGood
  <2>2. c.items \in Seq(CacheItem)
    BY <1>4, ValueFacts DEF Good
  <2>3. touched \in [Keys -> [Keys -> Nat]] /\ Ordered(c.items, touched)
    BY <1>4, InvFacts
  <2> QED
    BY <1>10, <2>1, <2>2, <2>3, GrowOrdered
<1>12. ASSUME NEW j \in Keys, j # k, c.lookup[j] = NoItem PROVE ~Promised(j)'
  <2>1. lookup[j] = NoItem /\ latest'[j] = latest[j]
    BY <1>2, <1>5, <1>12
  <2> QED
    BY <1>10, <1>12, <2>1, StillGone DEF Inv
<1>13. c.size + Size(e) <= Capacity
  BY <1>1, <1>8, InvFacts
<1>14. /\ c.lookup[e.key] = NoItem /\ now' \in Nat /\ Touch(e.key, Size(e))
       /\ latest' \in [Keys -> Data \cup {NoData}] /\ latest'[e.key] = e.data
       /\ \A j \in Keys : j # e.key => latest'[j] = latest[j]
       /\ \A j \in Keys : c.lookup[j] # NoItem => c.lookup[j] = lookup[j]
       /\ \A j \in Keys : j # e.key /\ c.lookup[j] = NoItem => ~Promised(j)'
  BY <1>1, <1>2, <1>5, <1>12, InvFacts
<1>15. Fronted(c, e)
  BY <1>1, <1>4, <1>9, <1>11, <1>13, <1>14 DEF Fronted
<1> QED
  BY <1>15, FrontKeeps

LEMMA EmptyGood ==
    ASSUME NEW d, d = [items |-> <<>>, lookup |-> [k \in Keys |-> NoItem], size |-> 0]
    PROVE  Good(d) /\ \A t : Ordered(d.items, t)
<1>1. d.items = <<>> /\ Len(d.items) = 0 /\ d.size = 0 /\ \A k \in Keys : d.lookup[k] = NoItem
  OBVIOUS
<1>2. d \in Value
  BY DEF Value
<1>3. Linked(d)
  BY <1>1, TotalEmpty DEF Linked
<1> QED
  BY <1>1, <1>2, <1>3 DEF Good, Ordered

LEMMA ClearKeeps ==
    ASSUME Inv, Clear
    PROVE  Inv'
<1> SUFFICES ASSUME NEW d, d = [items |-> <<>>, lookup |-> [k \in Keys |-> NoItem], size |-> 0]
             PROVE  Inv'
  OBVIOUS
<1>1. Become(d) /\ Forget(Keys) /\ now' = now /\ touched' = touched
  BY DEF Clear, Become
<1>2. Good(d) /\ Ordered(d.items, touched')
  BY EmptyGood
<1>3. latest' \in [Keys -> Data \cup {NoData}] /\ \A k \in Keys : latest'[k] = NoData
  BY <1>1, InvFacts, ForgetFacts
<1>4. \A k \in Keys : ~Promised(k)'
  BY <1>3 DEF Promised
<1>5. d.size <= Capacity /\ \A k \in Keys : d.lookup[k] = NoItem
  BY InvFacts
<1>6. now' \in Nat /\ touched' \in [Keys -> [Keys -> Nat]]
  BY <1>1, InvFacts
<1> QED
  BY <1>1, <1>2, <1>3, <1>4, <1>5, <1>6, InvAfter

LEMMA CleanupKeeps ==
    ASSUME Inv, CleanupExpired
    PROVE  Inv'
<1> SUFFICES ASSUME NEW d, d = Sweeps(Fields)[Len(items)],
                    NEW K, K = {e.key : e \in {x \in ToSet(items) : Expired(x)}}
             PROVE  Inv'
  OBVIOUS
<1>1. Become(d) /\ Forget(K) /\ now' = now /\ touched' = touched
  BY DEF CleanupExpired
<1>2. SweptBy(Fields, touched, Len(items), d)
  BY InvFacts, SweepsGood
<1>3. Len(items) \in Nat /\ DOMAIN items = 1..Len(items)
  BY DEF Inv, TypeOK
<1>4. \A k : GoneBy(Fields, Len(items), k) <=> k \in K
  <2>1. (Len(items) - Len(items)) + 1 = 1
    BY <1>3
  <2>2. ToSet(items) = {items[i] : i \in 1..Len(items)}
    BY <1>3 DEF ToSet
  <2>3. \A k : GoneBy(Fields, Len(items), k) <=> \E i \in 1..Len(items) : Expired(items[i]) /\ items[i].key = k
    BY <2>1, InvFacts DEF GoneBy
  <2>4. \A k : k \in K <=> \E i \in 1..Len(items) : Expired(items[i]) /\ items[i].key = k
    BY <2>2
  <2> QED
    BY <2>3, <2>4
<1>5. /\ Good(d) /\ Ordered(d.items, touched') /\ d.size <= currentSize
      /\ \A k \in Keys : d.lookup[k] = IF k \in K THEN NoItem ELSE lookup[k]
  BY <1>1, <1>2, <1>4, InvFacts DEF SweptBy
<1>6. /\ latest' \in [Keys -> Data \cup {NoData}]
      /\ \A k \in Keys : latest'[k] = IF k \in K THEN NoData ELSE latest[k]
  BY <1>1, InvFacts, ForgetFacts
<1>7. d.size <= Capacity
  <2>1. d.size \in Int
    BY <1>5, ValueFacts DEF Good
  <2> QED
    BY <1>5, <2>1, InvFacts
<1>8. \A j \in Keys : d.lookup[j] # NoItem => d.lookup[j].data = latest'[j]
  BY <1>5, <1>6, InvFacts
<1>9. ASSUME NEW j \in Keys, d.lookup[j] = NoItem PROVE ~Promised(j)'
  <2>1. CASE j \in K
    <3>1. latest'[j] = NoData
      BY <1>6, <2>1
    <3> QED
      BY <3>1 DEF Promised
  <2>2. CASE j \notin K
    <3>1. lookup[j] = NoItem /\ latest'[j] = latest[j]
      BY <1>5, <1>6, <1>9, <2>2
    <3>2. \A i \in Keys : touched'[j][i] >= touched[j][i]
      <4>1. \A i \in Keys : touched'[j][i] = touched[j][i] /\ touched[j][i] \in Nat
        BY <1>1, InvFacts
      <4> QED
        BY <4>1
    <3>3. touched' \in [Keys -> [Keys -> Nat]] /\ TypeOK /\ WorkingSetKept
      BY <1>1, InvFacts DEF Inv
    <3> QED
      BY <3>1, <3>2, <3>3, StillGone
  <2> QED
    BY <2>1, <2>2
<1>10. now' \in Nat /\ touched' \in [Keys -> [Keys -> Nat]]
  BY <1>1, InvFacts
<1> QED
  BY <1>1, <1>5, <1>6, <1>7, <1>8, <1>9, <1>10, InvAfter

(* A step that changes at most the clock. *)
LEMMA ClockKeeps ==
    ASSUME Inv, now' \in Nat, UNCHANGED <<items, lookup, currentSize, latest, touched>>
    PROVE  Inv'
<1>1. TypeOK' /\ InStep' /\ NeverOutdated' /\ UseOrder'
  BY DEF Inv, TypeOK, InStep, Agree, Fields, NeverOutdated, UseOrder, Ordered, Size, Total
<1>2. WorkingSetKept'
  BY DEF Inv, WorkingSetKept, Promised, UsedSince
<1> QED
  BY <1>1, <1>2 DEF Inv

LEMMA InvInit == Init => Inv
<1> SUFFICES ASSUME Init PROVE Inv
  OBVIOUS
<1>1. Fields = [items |-> <<>>, lookup |-> [k \in Keys |-> NoItem], size |-> 0]
  BY DEF Init, Fields
<1>2. Good(Fields) /\ Ordered(Fields.items, touched)
  BY <1>1, EmptyGood
<1>3. TypeOK
  BY CacheAssumption DEF Init, TypeOK
<1>4. InStep
  BY <1>2, AgreeIsLinked DEF Good, InStep
<1>5. NeverOutdated /\ WorkingSetKept
  BY DEF Init, NeverOutdated, WorkingSetKept, Promised
<1>6. UseOrder
  BY <1>2 DEF UseOrder, Fields
<1> QED
  BY <1>3, <1>4, <1>5, <1>6 DEF Inv

LEMMA InvNext == Inv /\ [Next]_vars => Inv'
<1> SUFFICES ASSUME Inv, [Next]_vars PROVE Inv'
  OBVIOUS
<1>1. ASSUME NEW k \in Keys, GetExpired(k) PROVE Inv'
  BY <1>1, RemovalKeeps DEF GetExpired
<1>2. ASSUME NEW k \in Keys, GetHit(k) PROVE Inv'
  BY <1>2, GetHitKeeps
<1>3. ASSUME NEW k \in Keys, Delete(k) PROVE Inv'
  BY <1>3, RemovalKeeps DEF Delete
<1>4. ASSUME NEW k \in Keys, NEW d \in Data, PutRefused(k, d) PROVE Inv'
  BY <1>4, PutRefusedKeeps
<1>5. ASSUME NEW k \in Keys, NEW d \in Data, NEW ttl \in TTLs, PutStored(k, d, ttl) PROVE Inv'
  BY <1>5, PutStoredKeeps
<1>6. CASE Clear
  BY <1>6, ClearKeeps
<1>7. CASE CleanupExpired
  BY <1>7, CleanupKeeps
<1>8. CASE Tick
  <2>1. now' \in Nat
    BY <1>8, InvFacts DEF Tick
  <2> QED
    BY <1>8, <2>1, ClockKeeps DEF Tick
<1>9. CASE UNCHANGED vars
  <2>1. now' \in Nat
    BY <1>9, InvFacts DEF vars
  <2> QED
    BY <1>9, <2>1, ClockKeeps DEF vars
<1> QED
  BY <1>1, <1>2, <1>3, <1>4, <1>5, <1>6, <1>7, <1>8, <1>9 DEF Next
-----------------------------------------------------------------------------
(* The cache never exceeds its capacity, and its fields have their types,  *)
(* for every capacity, set of keys and sizes of contents: the eviction     *)
(* loop of PutWithTTL makes enough room, and refuses what cannot fit.      *)
THEOREM TypeCorrect == Spec => []TypeOK
<1>1. Inv => TypeOK
  BY DEF Inv
<1> QED
  BY <1>1, InvInit, InvNext, PTL DEF Spec

(* The list, the map and currentSize never drift apart, whatever Put, Get, *)
(* Delete, Clear and CleanupExpired remove, replace or evict.              *)
THEOREM ThreeInStep == Spec => []InStep
<1>1. Inv => InStep
  BY DEF Inv
<1> QED
  BY <1>1, InvInit, InvNext, PTL DEF Spec

(* Get never answers with a content that a later Put, refused or not, was  *)
(* to replace.                                                             *)
THEOREM NothingOutdated == Spec => []NeverOutdated
<1>1. Inv => NeverOutdated
  BY DEF Inv
<1> QED
  BY <1>1, InvInit, InvNext, PTL DEF Spec

(* The promise of evictOldest: an item whose content fits, together with   *)
(* all that was used since its own last use, has not been evicted.         *)
THEOREM WorkingSetStays == Spec => []WorkingSetKept
<1>1. Inv => WorkingSetKept
  BY DEF Inv
<1> QED
  BY <1>1, InvInit, InvNext, PTL DEF Spec
=============================================================================
