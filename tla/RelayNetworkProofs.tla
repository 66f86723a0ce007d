------------------------- MODULE RelayNetworkProofs -------------------------
(***************************************************************************)
(* Proofs about RelayNetwork, for any finite set of relays, any order of   *)
(* them in the ring and any number of changes of the ring.                 *)
(***************************************************************************)
EXTENDS RelayNetwork, FiniteSetTheorems, WellFoundedInduction, TLAPS

(* Every nonempty set of naturals has a smallest element, and so every     *)
(* nonempty set of relays a first one in the ring.                         *)
LEMMA SmallestNat ==
    ASSUME NEW T \in SUBSET Nat, T # {}
    PROVE  \E x \in T : \A y \in T : x <= y
<1> DEFINE R == OpToRel(<, Nat)
<1>1. IsWellFoundedOn(R, Nat)
  BY NatLessThanWellFounded, Zenon
<1>2. \A y, x \in Nat : y < x => <<y, x>> \in R
  BY DEF OpToRel
<1> HIDE DEF R
<1>3. PICK x \in T : \A y \in T : ~(<<y, x>> \in R)
  BY <1>1, WFMin
<1>4. \A y \in T : y \in Nat /\ x \in Nat /\ ~(y < x)
  BY <1>2, <1>3
<1> QED
  BY <1>4

LEMMA FirstRelay ==
    ASSUME NEW S \in SUBSET Relays, S # {}
    PROVE  \E r \in S : \A s \in S : s = r \/ Rank[r] < Rank[s]
<1>1. \A r \in Relays : Rank[r] \in Nat
  BY NetworkAssumption
<1>2. {Rank[r] : r \in S} \in SUBSET Nat /\ {Rank[r] : r \in S} # {}
  BY <1>1
<1>3. PICK x \in {Rank[r] : r \in S} : \A y \in {Rank[r] : r \in S} : x <= y
  BY <1>2, SmallestNat
<1>4. PICK r \in S : x = Rank[r]
  BY <1>3
<1>5. \A s \in S : Rank[r] <= Rank[s]
  BY <1>3, <1>4
<1>6. \A s \in S : Rank[s] = Rank[r] => s = r
  BY NetworkAssumption
<1> QED
  BY <1>1, <1>5, <1>6
-----------------------------------------------------------------------------
(* The relays of R in front of r, and those with fewer than three in front *)
(* of them: the ones that are asked, if the ring R has three at all.       *)
Before(R, r) == {s \in R : Rank[s] < Rank[r]}
Responsible(R) == {r \in R : Cardinality(Before(R, r)) < 3}

LEMMA BeforeFinite ==
    ASSUME NEW R \in SUBSET Relays, NEW r
    PROVE  IsFiniteSet(Before(R, r)) /\ Cardinality(Before(R, r)) \in Nat
<1>1. IsFiniteSet(R)
  BY NetworkAssumption, FS_Subset
<1>2. Before(R, r) \in SUBSET R
  BY DEF Before
<1> QED
  BY <1>1, <1>2, FS_Subset, FS_CardinalityType

LEMMA CardMonotone ==
    ASSUME NEW S, IsFiniteSet(S), NEW T, T \subseteq S
    PROVE  IsFiniteSet(T) /\ Cardinality(T) <= Cardinality(S)
           /\ Cardinality(T) \in Nat /\ Cardinality(S) \in Nat
BY FS_Subset, FS_CardinalityType

(* A relay more in the ring displaces at most one. *)
LEMMA OneMore ==
    ASSUME NEW R \in SUBSET Relays, NEW x \in Relays
    PROVE  \E y \in Relays : Responsible(R) \subseteq Responsible(R \cup {x}) \cup {y}
<1> DEFINE Q == R \cup {x}
<1>0. Q \in SUBSET Relays
  OBVIOUS
<1>1. ASSUME NEW r \in Responsible(R), r \notin Responsible(Q)
      PROVE  Cardinality(Before(R, r)) = 2
  <2>1. r \in R /\ r \in Q /\ Cardinality(Before(R, r)) < 3 /\ ~(Cardinality(Before(Q, r)) < 3)
    BY <1>1 DEF Responsible
  <2>2. Before(Q, r) \subseteq Before(R, r) \cup {x}
    BY DEF Before
  <2>3. Cardinality(Before(R, r) \cup {x}) <= Cardinality(Before(R, r)) + 1
        /\ IsFiniteSet(Before(R, r) \cup {x})
    <3>1. IsFiniteSet(Before(R, r)) /\ Cardinality(Before(R, r)) \in Nat
      BY BeforeFinite
    <3>2. /\ IsFiniteSet(Before(R, r) \cup {x})
          /\ Cardinality(Before(R, r) \cup {x}) =
                IF x \in Before(R, r) THEN Cardinality(Before(R, r)) ELSE Cardinality(Before(R, r)) + 1
      BY <3>1, FS_AddElement
    <3> QED
      BY <3>1, <3>2
  <2>4. Cardinality(Before(Q, r)) <= Cardinality(Before(R, r) \cup {x})
        /\ Cardinality(Before(R, r) \cup {x}) \in Nat
    BY <2>2, <2>3, CardMonotone
  <2>5. Cardinality(Before(R, r)) \in Nat /\ Cardinality(Before(Q, r)) \in Nat
    BY <1>0, BeforeFinite
  <2> QED
    BY <2>1, <2>3, <2>4, <2>5
<1>2. ASSUME NEW r \in R, NEW s \in R, Rank[r] < Rank[s], Cardinality(Before(R, r)) = 2
      PROVE  Cardinality(Before(R, s)) # 2
  <2>1. Before(R, r) \cup {r} \subseteq Before(R, s)
    BY <1>2, NetworkAssumption DEF Before
  <2>2. r \notin Before(R, r)
    BY NetworkAssumption DEF Before
  <2>3. Cardinality(Before(R, r) \cup {r}) = 3
    <3>1. IsFiniteSet(Before(R, r))
      BY BeforeFinite
    <3>2. Cardinality(Before(R, r) \cup {r}) = Cardinality(Before(R, r)) + 1
      BY <2>2, <3>1, FS_AddElement
    <3> QED
      BY <1>2, <3>2
  <2>4. 3 <= Cardinality(Before(R, s))
    BY <2>1, <2>3, BeforeFinite, CardMonotone
  <2> QED
    BY <2>4
<1>3. ASSUME NEW r \in Responsible(R), r \notin Responsible(Q),
             NEW s \in Responsible(R), s \notin Responsible(Q)
      PROVE  r = s
  <2>1. Cardinality(Before(R, r)) = 2 /\ Cardinality(Before(R, s)) = 2 /\ r \in R /\ s \in R
    BY <1>1, <1>3 DEF Responsible
  <2>2. ~(Rank[r] < Rank[s]) /\ ~(Rank[s] < Rank[r])
    BY <1>2, <2>1
  <2> QED
    BY <2>1, <2>2, NetworkAssumption
<1> HIDE DEF Q
<1>4. CASE Responsible(R) \subseteq Responsible(Q)
  BY <1>4 DEF Q
<1>5. CASE ~(Responsible(R) \subseteq Responsible(Q))
  <2>1. PICK y \in Responsible(R) : y \notin Responsible(Q)
    BY <1>5
  <2>2. Responsible(R) \subseteq Responsible(Q) \cup {y}
    BY <1>3, <2>1
  <2>3. y \in Relays
    BY DEF Responsible
  <2> QED
    BY <2>2, <2>3 DEF Q
<1> QED
  BY <1>4, <1>5

(* A relay less displaces none but itself. *)
LEMMA OneLess ==
    ASSUME NEW R \in SUBSET Relays, NEW x \in Relays
    PROVE  Responsible(R) \subseteq Responsible(R \ {x}) \cup {x}
<1> SUFFICES ASSUME NEW r \in Responsible(R), r # x PROVE r \in Responsible(R \ {x})
  OBVIOUS
<1>1. Before(R \ {x}, r) \subseteq Before(R, r)
  BY DEF Before
<1>2. Cardinality(Before(R \ {x}, r)) <= Cardinality(Before(R, r))
  BY <1>1, BeforeFinite, CardMonotone
<1>3. Cardinality(Before(R \ {x}, r)) \in Nat /\ Cardinality(Before(R, r)) \in Nat
  BY BeforeFinite
<1>4. r \in R /\ Cardinality(Before(R, r)) < 3
  BY DEF Responsible
<1>5. Cardinality(Before(R \ {x}, r)) < 3
  BY <1>2, <1>3, <1>4
<1> QED
  BY <1>4, <1>5 DEF Responsible
-----------------------------------------------------------------------------
(* GetNodes: three relays, the responsible ones, in the order of the ring. *)
LEMMA ThreeFirst ==
    ASSUME ring \subseteq Relays, ~(Cardinality(ring) < 3)
    PROVE  \E s \in [1..3 -> ring] : IsFirst(s, 3)
<1>0. IsFiniteSet(ring)
  BY NetworkAssumption, FS_Subset
<1>1. \A r \in Relays : Rank[r] \in Nat
  BY NetworkAssumption
<1>2. Cardinality(ring) \in Nat /\ ring # {}
  BY <1>0, FS_EmptySet, FS_CardinalityType
<1>3. PICK a \in ring : \A s \in ring : s = a \/ Rank[a] < Rank[s]
  BY <1>2, FirstRelay
<1>4. IsFiniteSet(ring \ {a}) /\ Cardinality(ring \ {a}) = Cardinality(ring) - 1
  BY <1>0, FS_RemoveElement
<1>5. ring \ {a} # {} /\ ring \ {a} \in SUBSET Relays
  BY <1>2, <1>4, FS_EmptySet
<1>6. PICK b \in ring \ {a} : \A s \in ring \ {a} : s = b \/ Rank[b] < Rank[s]
  BY <1>5, FirstRelay
<1>7. IsFiniteSet((ring \ {a}) \ {b}) /\ Cardinality((ring \ {a}) \ {b}) = Cardinality(ring \ {a}) - 1
  BY <1>4, FS_RemoveElement
<1>8. (ring \ {a}) \ {b} # {} /\ (ring \ {a}) \ {b} \in SUBSET Relays
  <2>1. Cardinality((ring \ {a}) \ {b}) # 0
    BY <1>2, <1>4, <1>7
  <2> QED
    BY <2>1, FS_EmptySet
<1>9. PICK c \in (ring \ {a}) \ {b} : \A s \in (ring \ {a}) \ {b} : s = c \/ Rank[c] < Rank[s]
  BY <1>8, FirstRelay
<1> DEFINE t == [i \in 1..3 |-> IF i = 1 THEN a ELSE IF i = 2 THEN b ELSE c]
<1>10. t \in [1..3 -> ring] /\ t[1] = a /\ t[2] = b /\ t[3] = c
  OBVIOUS
<1> HIDE DEF t
<1>11. 1..3 = {1, 2, 3}
  OBVIOUS
<1>12. Rank[a] < Rank[b] /\ Rank[b] < Rank[c] /\ Rank[a] < Rank[c]
  BY <1>3, <1>6, <1>9
<1>13. \A i, j \in 1..3 : i < j => Rank[t[i]] < Rank[t[j]]
  BY <1>10, <1>11, <1>12
<1>14. \A r \in ring : r \in {t[i] : i \in 1..3} \/ Rank[t[3]] < Rank[r]
  BY <1>9, <1>10, <1>11
<1> QED
  BY <1>10, <1>13, <1>14 DEF IsFirst

LEMMA GetNodesFirst ==
    ASSUME ring \subseteq Relays, ~(Cardinality(ring) < 3)
    PROVE  GetNodes(Replicas) \in [1..3 -> ring] /\ IsFirst(GetNodes(Replicas), 3)
<1>1. GetNodes(Replicas) = CHOOSE s \in [1..3 -> ring] : IsFirst(s, 3)
  BY DEF GetNodes, Replicas
<1> QED
  BY <1>1, ThreeFirst

(* What Cache and Fetch get from the router. *)
LEMMA GetNodesFacts ==
    ASSUME ring \subseteq Relays
    PROVE  /\ GetNodes(Replicas) \in Seq(Relays) /\ Len(GetNodes(Replicas)) <= 3
           /\ \A i, j \in 1..Len(GetNodes(Replicas)) :
                 i < j => Rank[GetNodes(Replicas)[i]] < Rank[GetNodes(Replicas)[j]]
           /\ ToSet(GetNodes(Replicas)) \subseteq Relays
           /\ ToSet(GetNodes(Replicas)) \subseteq Responsible(ring)
           /\ ~(Cardinality(ring) < 3) => Responsible(ring) \subseteq ToSet(GetNodes(Replicas))
<1> SUFFICES ASSUME NEW g, g = GetNodes(Replicas)
             PROVE  /\ g \in Seq(Relays) /\ Len(g) <= 3
                    /\ \A i, j \in 1..Len(g) : i < j => Rank[g[i]] < Rank[g[j]]
                    /\ ToSet(g) \subseteq Relays
                    /\ ToSet(g) \subseteq Responsible(ring)
                    /\ ~(Cardinality(ring) < 3) => Responsible(ring) \subseteq ToSet(g)
  OBVIOUS
<1>1. CASE Cardinality(ring) < 3
  <2>1. g = <<>>
    BY <1>1 DEF GetNodes, Replicas
  <2>2. ToSet(g) = {} /\ Len(g) = 0
    BY <2>1 DEF ToSet
  <2> QED
    BY <1>1, <2>1, <2>2
<1>2. CASE ~(Cardinality(ring) < 3)
  <2>1. g \in [1..3 -> ring] /\ IsFirst(g, 3)
    BY <1>2, GetNodesFirst
  <2>2. g \in Seq(Relays) /\ Len(g) = 3 /\ DOMAIN g = 1..3
    <3>1. g \in [1..3 -> Relays] /\ DOMAIN g = 1..3
      BY <2>1
    <3>2. \A n \in Nat : [1..n -> Relays] \subseteq Seq(Relays)
      OBVIOUS
    <3>3. g \in Seq(Relays)
      BY <3>1, <3>2
    <3>4. PICK n \in Nat : n = Len(g) /\ DOMAIN g = 1..n
      BY <3>3
    <3>5. n = 3
      <4>1. 3 \in 1..n
        BY <3>1, <3>4
      <4>2. n \in 1..n
        BY <4>1
      <4>3. n \in 1..3
        BY <3>1, <3>4, <4>2
      <4> QED
        BY <4>1, <4>3
    <3> QED
      BY <3>1, <3>3, <3>4, <3>5
  <2>3. \A i, j \in 1..3 : i < j => Rank[g[i]] < Rank[g[j]]
    BY <2>1 DEF IsFirst
  <2>4. 1..3 = {1, 2, 3}
    OBVIOUS
  <2>5. g[1] \in ring /\ g[2] \in ring /\ g[3] \in ring
    BY <2>1, <2>4
  <2>6. ToSet(g) = {g[1], g[2], g[3]}
    BY <2>2, <2>4 DEF ToSet
  <2>7. Rank[g[1]] < Rank[g[2]] /\ Rank[g[2]] < Rank[g[3]] /\ Rank[g[1]] < Rank[g[3]]
    BY <2>3, <2>4
  <2>8. Rank[g[1]] \in Nat /\ Rank[g[2]] \in Nat /\ Rank[g[3]] \in Nat
    BY <2>5, NetworkAssumption
  <2>9. \A r \in ring : r \in ToSet(g) \/ Rank[g[3]] < Rank[r]
    BY <2>1, <2>4, <2>6 DEF IsFirst
  <2>10. Cardinality(ToSet(g)) = 3 /\ IsFiniteSet(ToSet(g)) /\ Cardinality({g[1], g[2]}) = 2
         /\ IsFiniteSet({g[1], g[2]})
    <3>1. g[1] # g[2] /\ g[2] # g[3] /\ g[1] # g[3]
      BY <2>7, <2>8
    <3>2. IsFiniteSet({g[1]}) /\ Cardinality({g[1]}) = 1
      BY FS_Singleton
    <3>3. {g[1], g[2]} = {g[1]} \cup {g[2]} /\ ToSet(g) = {g[1], g[2]} \cup {g[3]}
      BY <2>6
    <3>4. IsFiniteSet({g[1], g[2]}) /\ Cardinality({g[1], g[2]}) = 2
      BY <3>1, <3>2, <3>3, FS_AddElement
    <3> QED
      BY <3>1, <3>3, <3>4, FS_AddElement
  <2>11. ASSUME NEW r \in ToSet(g) PROVE r \in Responsible(ring)
    <3>1. r \in ring /\ Rank[r] <= Rank[g[3]]
      BY <2>5, <2>6, <2>7, <2>8
    <3>2. Before(ring, r) \subseteq {g[1], g[2]}
      <4> SUFFICES ASSUME NEW s \in ring, Rank[s] < Rank[r] PROVE s \in {g[1], g[2]}
        BY DEF Before
      <4>1. Rank[s] \in Nat /\ Rank[r] \in Nat
        BY <3>1, NetworkAssumption
      <4>2. s \in ToSet(g) /\ s # g[3]
        BY <2>8, <2>9, <3>1, <4>1
      <4> QED
        BY <2>6, <4>2
    <3>3. Cardinality(Before(ring, r)) <= 2 /\ Cardinality(Before(ring, r)) \in Nat
      BY <2>10, <3>2, CardMonotone
    <3> QED
      BY <3>1, <3>3 DEF Responsible
  <2>12. ASSUME NEW r \in Responsible(ring) PROVE r \in ToSet(g)
    <3>1. r \in ring /\ Cardinality(Before(ring, r)) < 3
      BY DEF Responsible
    <3> SUFFICES ASSUME Rank[g[3]] < Rank[r] PROVE FALSE
      BY <2>9, <3>1
    <3>2. Rank[r] \in Nat
      BY <3>1, NetworkAssumption
    <3>3. ToSet(g) \subseteq Before(ring, r)
      BY <2>5, <2>6, <2>7, <2>8, <3>2 DEF Before
    <3>4. Cardinality(ToSet(g)) <= Cardinality(Before(ring, r)) /\ Cardinality(Before(ring, r)) \in Nat
      BY <3>3, BeforeFinite, CardMonotone
    <3> QED
      BY <2>10, <3>1, <3>4
  <2>13. ToSet(g) \subseteq Relays
    BY <2>5, <2>6
  <2> QED
    BY <1>2, <2>2, <2>3, <2>11, <2>12, <2>13
<1> QED
  BY <1>1, <1>2
-----------------------------------------------------------------------------
(* The inductive invariant.  Of the relays that Cache chose, those that    *)
(* are no longer among the ones asked are paid for by changes of the ring. *)
Gone == home \ Responsible(ring)

Covered == home # {} => Cardinality(Gone) <= changes

Inv == TypeOK /\ Covered

(* A set of relays that grows by at most one, against a change more. *)
LEMMA PaidFor ==
    ASSUME NEW S \in SUBSET Relays, NEW T, NEW y, T \subseteq S \cup {y},
           NEW n \in Nat, Cardinality(S) <= n
    PROVE  Cardinality(T) <= n + 1
<1>1. IsFiniteSet(S) /\ Cardinality(S) \in Nat
  BY NetworkAssumption, CardMonotone
<1>2. /\ IsFiniteSet(S \cup {y})
      /\ Cardinality(S \cup {y}) = IF y \in S THEN Cardinality(S) ELSE Cardinality(S) + 1
  BY <1>1, FS_AddElement
<1>3. Cardinality(T) <= Cardinality(S \cup {y}) /\ Cardinality(T) \in Nat
  BY <1>2, CardMonotone
<1> QED
  BY <1>1, <1>2, <1>3

LEMMA NoMore ==
    ASSUME NEW S \in SUBSET Relays, NEW T, T \subseteq S,
           NEW n \in Nat, Cardinality(S) <= n, NEW m \in Nat, n <= m
    PROVE  Cardinality(T) <= m
<1>1. Cardinality(T) <= Cardinality(S) /\ Cardinality(T) \in Nat /\ Cardinality(S) \in Nat
  BY NetworkAssumption, CardMonotone
<1> QED
  BY <1>1

LEMMA TypeFacts ==
    ASSUME TypeOK
    PROVE  /\ ring \subseteq Relays /\ Gone \in SUBSET Relays
           /\ changes \in Nat /\ MaxChanges \in Nat /\ Self \in Relays
BY NetworkAssumption DEF TypeOK, Healthy, Gone

LEMMA EmptyList ==
    /\ <<>> \in Seq(Relays) /\ Len(<<>>) <= Replicas
    /\ \A i, j \in 1..Len(<<>>) : i < j => Rank[<<>>[i]] < Rank[<<>>[j]]
BY DEF Replicas

LEMMA TailFacts ==
    ASSUME TypeOK, todo # <<>>
    PROVE  /\ Tail(todo) \in Seq(Relays) /\ Len(Tail(todo)) <= Replicas
           /\ \A i, j \in 1..Len(Tail(todo)) : i < j => Rank[Tail(todo)[i]] < Rank[Tail(todo)[j]]
           /\ ToSet(todo) = ToSet(Tail(todo)) \cup {Head(todo)}
<1>1. todo \in Seq(Relays) /\ Len(todo) <= 3
  BY DEF TypeOK, Replicas
<1>2. /\ Tail(todo) \in Seq(Relays) /\ Len(Tail(todo)) = Len(todo) - 1 /\ Len(todo) \in Nat
      /\ Len(todo) >= 1 /\ Head(todo) = todo[1]
      /\ \A i \in 1..Len(todo) - 1 : Tail(todo)[i] = todo[i + 1]
  BY <1>1
<1>3. \A i, j \in 1..Len(Tail(todo)) : i < j => Rank[Tail(todo)[i]] < Rank[Tail(todo)[j]]
  <2> SUFFICES ASSUME NEW i \in 1..Len(Tail(todo)), NEW j \in 1..Len(Tail(todo)), i < j
               PROVE  Rank[Tail(todo)[i]] < Rank[Tail(todo)[j]]
    OBVIOUS
  <2>1. i + 1 \in 1..Len(todo) /\ j + 1 \in 1..Len(todo) /\ i + 1 < j + 1
    BY <1>2
  <2>2. Rank[todo[i + 1]] < Rank[todo[j + 1]]
    BY <2>1 DEF TypeOK
  <2> QED
    BY <1>2, <2>2
<1>4. ToSet(todo) = {todo[i] : i \in 1..Len(todo)} /\ ToSet(Tail(todo)) = {Tail(todo)[i] : i \in 1..Len(todo) - 1}
  <2>1. DOMAIN todo = 1..Len(todo) /\ DOMAIN Tail(todo) = 1..Len(Tail(todo))
    BY <1>1, <1>2
  <2>2. DOMAIN Tail(todo) = 1..Len(todo) - 1
    BY <1>2, <2>1
  <2> QED
    BY <2>1, <2>2 DEF ToSet
<1>5. ASSUME NEW i \in 1..Len(todo) PROVE todo[i] \in ToSet(Tail(todo)) \cup {Head(todo)}
  <2>1. CASE i = 1
    BY <1>2, <2>1
  <2>2. CASE i # 1
    <3>1. i - 1 \in 1..Len(todo) - 1 /\ (i - 1) + 1 = i
      BY <1>2, <2>2
    <3> QED
      BY <1>2, <1>4, <3>1
  <2> QED
    BY <2>1, <2>2
<1>6. \A i \in 1..Len(todo) - 1 : i + 1 \in 1..Len(todo)
  BY <1>2
<1>7. 1 \in 1..Len(todo)
  BY <1>2
<1>8. ToSet(Tail(todo)) \cup {Head(todo)} \subseteq ToSet(todo)
  BY <1>2, <1>4, <1>6, <1>7
<1>9. ToSet(todo) = ToSet(Tail(todo)) \cup {Head(todo)}
  BY <1>4, <1>5, <1>8
<1>10. Len(Tail(todo)) <= Replicas
  BY <1>1, <1>2 DEF Replicas
<1> QED
  BY <1>2, <1>3, <1>9, <1>10

(* A router operation: what becomes of the ring. *)
LEMMA RebuiltFacts ==
    ASSUME TypeOK, NEW r \in Relays, NEW h \in {"absent", "healthy", "unhealthy"},
           Rebuilt([nodes EXCEPT ![r] = h])
    PROVE  /\ nodes' \in [Relays -> {"absent", "healthy", "unhealthy"}] /\ ring' = Healthy(nodes')
           /\ ring' \subseteq Relays
           /\ ring' = ring \cup {r} \/ ring' = ring \ {r}
           /\ changes' \in 0..MaxChanges
           /\ changes' = IF home # {} /\ ring' # ring THEN changes + 1 ELSE changes
           /\ UNCHANGED <<held, sending, fetch, home, faulty>>
<1>1. nodes \in [Relays -> {"absent", "healthy", "unhealthy"}] /\ ring = Healthy(nodes)
  BY DEF TypeOK
<1>2. nodes' = [nodes EXCEPT ![r] = h] /\ ring' = Healthy([nodes EXCEPT ![r] = h])
  BY DEF Rebuilt
<1>3. UNCHANGED <<held, sending, fetch, home, faulty>>
  BY DEF Rebuilt
<1>4. changes' = (IF home # {} /\ ring' # ring THEN changes + 1 ELSE changes)
      /\ (home # {} /\ ring' # ring => changes < MaxChanges)
  BY <1>2 DEF Rebuilt
<1>5. changes' \in 0..MaxChanges
  BY <1>4, NetworkAssumption DEF TypeOK
<1>6. ring' = {s \in Relays : IF s = r THEN h = "healthy" ELSE s \in ring}
  BY <1>1, <1>2 DEF Healthy
<1>7. ring \subseteq Relays /\ ring' \subseteq Relays
  BY <1>1, <1>6 DEF Healthy
<1>8. ring' = ring \cup {r} \/ ring' = ring \ {r}
  <2>1. CASE h = "healthy"
    BY <1>6, <1>7, <2>1
  <2>2. CASE h # "healthy"
    BY <1>6, <1>7, <2>2
  <2> QED
    BY <2>1, <2>2
<1> QED
  BY <1>1, <1>2, <1>3, <1>4, <1>5, <1>7, <1>8

(* The invariant is kept by a change of the router, *)
LEMMA RouterKeeps ==
    ASSUME Inv, NEW r \in Relays, NEW h \in {"absent", "healthy", "unhealthy"},
           Rebuilt([nodes EXCEPT ![r] = h])
    PROVE  Inv'
<1>1. TypeOK /\ Covered
  BY DEF Inv
<1>2. /\ nodes' \in [Relays -> {"absent", "healthy", "unhealthy"}] /\ ring' = Healthy(nodes')
      /\ ring' \subseteq Relays
      /\ ring' = ring \cup {r} \/ ring' = ring \ {r}
      /\ changes' \in 0..MaxChanges
      /\ changes' = IF home # {} /\ ring' # ring THEN changes + 1 ELSE changes
      /\ UNCHANGED <<held, sending, fetch, home, faulty>>
  BY <1>1, RebuiltFacts
<1>3. TypeOK'
  BY <1>1, <1>2 DEF TypeOK, Healthy, fetch
<1>4. Covered'
  <2>1. CASE home = {}
    BY <1>2, <2>1 DEF Covered
  <2>2. CASE ring' = ring
    <3>1. Gone' = Gone /\ changes' = changes /\ home' = home
      BY <1>2, <2>2 DEF Gone
    <3> QED
      BY <1>1, <3>1 DEF Covered
  <2>3. CASE home # {} /\ ring' # ring
    <3>1. \E y \in Relays : Responsible(ring) \subseteq Responsible(ring') \cup {y}
      <4>1. CASE ring' = ring \cup {r}
        BY <1>1, <4>1, TypeFacts, OneMore
      <4>2. CASE ring' = ring \ {r}
        BY <1>1, <4>2, TypeFacts, OneLess
      <4> QED
        BY <1>2, <4>1, <4>2
    <3>2. PICK y \in Relays : Responsible(ring) \subseteq Responsible(ring') \cup {y}
      BY <3>1
    <3>3. Gone' \subseteq Gone \cup {y}
      BY <1>2, <3>2 DEF Gone
    <3>4. Cardinality(Gone') <= changes + 1
      BY <1>1, <2>3, <3>3, TypeFacts, PaidFor DEF Covered
    <3> QED
      BY <1>2, <2>3, <3>4 DEF Covered
  <2> QED
    BY <2>1, <2>2, <2>3
<1> QED
  BY <1>3, <1>4 DEF Inv

(* by Cache, *)
LEMMA CacheKeeps ==
    ASSUME Inv, Cache
    PROVE  Inv'
<1>1. TypeOK
  BY DEF Inv
<1> SUFFICES ASSUME NEW H, H = ToSet(GetNodes(Replicas)) PROVE Inv'
  OBVIOUS
<1>2. /\ held' = held \cup {Self} /\ home' = H /\ sending' = H \ {Self}
      /\ UNCHANGED <<router, fetch, changes, faulty>>
  BY DEF Cache
<1>3. H \subseteq Relays /\ H \subseteq Responsible(ring)
  BY <1>1, TypeFacts, GetNodesFacts
<1>4. TypeOK'
  BY <1>1, <1>2, <1>3, TypeFacts DEF TypeOK, Healthy, router, fetch
<1>5. Gone' = {}
  BY <1>2, <1>3 DEF Gone, router
<1>6. Cardinality(Gone') <= changes'
  BY <1>1, <1>2, <1>5, FS_EmptySet, TypeFacts
<1> QED
  BY <1>4, <1>6 DEF Inv, Covered

(* and by the steps that leave the ring and the choice of Cache alone: the *)
(* sends, the losses *)
LEMMA CopiesKeep ==
    ASSUME Inv, NEW r \in Relays, Lose(r) \/ Send(r) \/ SendLost(r)
    PROVE  Inv'
<1>1. TypeOK /\ Covered
  BY DEF Inv
<1>2. /\ held' \subseteq Relays /\ sending' \subseteq sending /\ faulty' \in BOOLEAN
      /\ UNCHANGED <<router, fetch, home, changes>>
  <2>1. CASE Lose(r)
    BY <1>1, <2>1 DEF Lose, TypeOK
  <2>2. CASE Send(r)
    BY <1>1, <2>2 DEF Send, HoldersAfter, TypeOK
  <2>3. CASE SendLost(r)
    BY <1>1, <2>3 DEF SendLost, TypeOK
  <2> QED
    BY <2>1, <2>2, <2>3
<1>3. TypeOK'
  BY <1>1, <1>2 DEF TypeOK, Healthy, router, fetch
<1> QED
  BY <1>1, <1>2, <1>3 DEF Inv, Covered, Gone, router

(* and the steps of Fetch. *)
LEMMA FetchKeeps ==
    ASSUME Inv, FetchLocal \/ FetchLookup \/ Ask \/ AskLost \/ NotFound
    PROVE  Inv'
<1>1. TypeOK /\ Covered
  BY DEF Inv
<1> DEFINE Listed(s) == /\ s \in Seq(Relays) /\ Len(s) <= Replicas
                        /\ \A i, j \in 1..Len(s) : i < j => Rank[s[i]] < Rank[s[j]]
<1>2. Listed(todo) /\ Listed(<<>>) /\ (todo # <<>> => Listed(Tail(todo)))
  BY <1>1, EmptyList, TailFacts DEF TypeOK
<1>3. Listed(GetNodes(Replicas))
  <2>1. Replicas = 3
    BY DEF Replicas
  <2> QED
    BY <1>1, <2>1, TypeFacts, GetNodesFacts
<1> SUFFICES ASSUME NEW g, g = GetNodes(Replicas), Listed(g) PROVE Inv'
  BY <1>3
<1> HIDE DEF Listed
<1>4. /\ UNCHANGED <<router, sending, home, changes>>
      /\ held' \subseteq Relays /\ faulty' \in BOOLEAN /\ Listed(todo')
      /\ pc' \in {"idle", "lookup", "ask"} /\ settled' \in BOOLEAN
      /\ verdict' \in {"none", "found", "missing"}
  <2>0. /\ held \subseteq Relays /\ faulty \in BOOLEAN /\ settled \in BOOLEAN
        /\ pc \in {"idle", "lookup", "ask"} /\ verdict \in {"none", "found", "missing"}
        /\ Self \in Relays
    BY <1>1, NetworkAssumption DEF TypeOK
  <2>1. CASE FetchLocal
    BY <1>2, <2>0, <2>1 DEF FetchLocal
  <2>2. CASE FetchLookup
    BY <2>0, <2>2 DEF FetchLookup
  <2>3. CASE Ask
    <3>1. CASE Answers(Head(todo), FetchRequest) # {}
      BY <1>2, <2>0, <2>3, <3>1 DEF Ask
    <3>2. CASE Answers(Head(todo), FetchRequest) = {}
      BY <1>2, <2>0, <2>3, <3>2 DEF Ask
    <3> QED
      BY <3>1, <3>2
  <2>4. CASE AskLost
    BY <1>2, <2>0, <2>4 DEF AskLost
  <2>5. CASE NotFound
    BY <1>2, <2>0, <2>5 DEF NotFound
  <2> QED
    BY <2>1, <2>2, <2>3, <2>4, <2>5
<1>5. TypeOK'
  BY <1>1, <1>4 DEF TypeOK, Healthy, router, Listed
<1> QED
  BY <1>1, <1>4, <1>5 DEF Inv, Covered, Gone, router

LEMMA InvInit == Init => Inv
<1> SUFFICES ASSUME Init PROVE Inv
  OBVIOUS
<1>1. nodes \in [Relays -> {"absent", "healthy", "unhealthy"}] /\ ring = Healthy(nodes)
  BY DEF Init
<1>2. /\ held = {} /\ sending = {} /\ home = {} /\ changes = 0 /\ faulty = FALSE
      /\ pc = "idle" /\ todo = <<>> /\ settled = FALSE /\ verdict = "none"
  BY DEF Init
<1>3. /\ todo \in Seq(Relays) /\ Len(todo) <= Replicas
      /\ \A i, j \in 1..Len(todo) : i < j => Rank[todo[i]] < Rank[todo[j]]
  BY <1>2, EmptyList
<1>4. changes \in 0..MaxChanges
  BY <1>2, NetworkAssumption
<1> QED
  BY <1>1, <1>2, <1>3, <1>4 DEF Inv, TypeOK, Covered

LEMMA InvNext == Inv /\ [Next]_vars => Inv'
<1> SUFFICES ASSUME Inv, [Next]_vars PROVE Inv'
  OBVIOUS
<1>1. ASSUME NEW r \in Relays, RemoveNode(r) PROVE Inv'
  BY <1>1, RouterKeeps DEF RemoveNode
<1>2. ASSUME NEW r \in Relays, NEW h \in {"healthy", "unhealthy"}, AddNode(r, h) \/ SetHealthy(r, h)
      PROVE  Inv'
  BY <1>2, RouterKeeps DEF AddNode, SetHealthy
<1>3. ASSUME NEW r \in Relays, Lose(r) \/ Send(r) \/ SendLost(r) PROVE Inv'
  BY <1>3, CopiesKeep
<1>4. CASE Cache
  BY <1>4, CacheKeeps
<1>5. CASE FetchLocal \/ FetchLookup \/ Ask \/ AskLost \/ NotFound
  BY <1>5, FetchKeeps
<1>6. CASE UNCHANGED vars
  BY <1>6 DEF Inv, TypeOK, Healthy, Covered, Gone, vars, router, fetch
<1> QED
  BY <1>1, <1>2, <1>3, <1>4, <1>5, <1>6 DEF Next
-----------------------------------------------------------------------------
(* The router's ring is always the one of its healthy nodes, and Fetch     *)
(* asks at most three different relays, in the order of the ring.          *)
THEOREM TypeCorrect == Spec => []TypeOK
<1>1. Inv => TypeOK
  BY DEF Inv
<1> QED
  BY <1>1, InvInit, InvNext, PTL DEF Spec

(* For any number of relays and any order of them in the ring: however the *)
(* router's nodes come, go and change their health, k changes of the ring  *)
(* take at most k of the three relays that Cache chose out of those that a *)
(* Fetch would ask.                                                        *)
THEOREM FewRelaysMove == Spec => []RingMovesFew
<1>1. Inv => RingMovesFew
  <2> SUFFICES ASSUME Inv, home # {}, Cardinality(ring) >= Replicas
               PROVE  Cardinality(home \ ToSet(GetNodes(Replicas))) <= changes
    BY DEF RingMovesFew
  <2>1. TypeOK /\ Cardinality(Gone) <= changes
    BY DEF Inv, Covered
  <2>2. Cardinality(ring) \in Nat
    BY <2>1, TypeFacts, NetworkAssumption, CardMonotone
  <2>3. Responsible(ring) \subseteq ToSet(GetNodes(Replicas))
    BY <2>1, <2>2, TypeFacts, GetNodesFacts DEF Replicas
  <2>4. home \ ToSet(GetNodes(Replicas)) \subseteq Gone
    BY <2>3 DEF Gone
  <2> QED
    BY <2>1, <2>4, TypeFacts, NoMore
<1> QED
  BY <1>1, InvInit, InvNext, PTL DEF Spec
=============================================================================
