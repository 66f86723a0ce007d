------------------------ MODULE RelayDeliveryProofs -------------------------
(***************************************************************************)
(* Proofs about RelayDelivery, for every set of peers, messages and        *)
(* goroutines: the relay uses its queue as the queue's specification       *)
(* allows, and loses no message that has an ID of its own.                 *)
(***************************************************************************)
EXTENDS RelayDelivery, MessageQueueProofs

(* Every sender gives its messages IDs that no other message carries. *)
OwnIds == \A b, c \in Bodies : IdOf[b] # NoId /\ (IdOf[b] = IdOf[c] => b = c)

(* A message as one of the senders in S gave it to the queue. *)
OfSender(e, S) == e.body \in S /\ (OwnIds => e.id = IdOf[e.body])

(* The garbage collector is up to date: EndRound may run it without having *)
(* changed anything.                                                       *)
Collected == \A a \in Arrays \ (Arrs(pending) \cup Arrs(held)) : heap[a] = <<>>

(* Whatever an array or a file holds, reachable through pending or not,    *)
(* was accepted, and is filed under its sender's ID: copies are taken from *)
(* arrays that pending may have left long ago.                             *)
HeapGenuine ==
    \A a \in Arrays \cup {NilArray} : \A i \in 1..Len(heap[a]) :
        heap[a][i] \in Entry => OfSender(heap[a][i], accepted)
DiskGenuine ==
    \A p \in Peers : \A i \in 1..Len(Loaded(p)) : OfSender(Loaded(p)[i], accepted)

QInv == Inv /\ Collected /\ HeapGenuine /\ DiskGenuine

(* Where a goroutine is, and what it has got by then.  A copy that mixed   *)
(* nothing is a message under its own ID, so that what RemoveMessage takes *)
(* out is the message that was delivered.                                  *)
Rounds(h) ==
    /\ pc[h] \in {"check", "direct", "enqueue"} => msg[h] \in Bodies
    /\ pc[h] \notin {"idle", "check", "direct", "enqueue"} => peer[h] \in Peers
    /\ pc[h] \in {"range", "copyBody", "copyId"} => idx[h] >= 1
    /\ pc[h] \in {"deliver", "remove", "mark", "return"} => idx[h] >= 1
    /\ pc[h] \in {"copyBody", "copyId"} => idx[h] <= held[h].len
    /\ pc[h] = "copyBody" => copy[h].id \in Ids
    /\ pc[h] = "copyId" => copy[h].body \in Bodies
    /\ pc[h] \in {"deliver", "remove", "mark"} =>
          /\ copy[h].id \in Ids /\ copy[h].body \in Bodies
          /\ OwnIds /\ ~mixed => copy[h].id = IdOf[copy[h].body]
    /\ pc[h] = "remove" => copy[h].body \in sent
RoundsOK == \A h \in Readers : Rounds(h)

(* The inductive invariant of the relay. *)
RInv == QInv /\ RelayTypeOK /\ RoundsOK /\ (OwnIds => NoMessageLost)
-----------------------------------------------------------------------------
LEMMA OfSenderMono ==
    ASSUME NEW e, NEW S, NEW T, S \subseteq T, OfSender(e, S)
    PROVE  OfSender(e, T)
  BY DEF OfSender

(* What the arrays and the lists hold, in the form the steps need. *)
LEMMA GenuineFacts ==
    ASSUME QInv
    PROVE  /\ Inv
           /\ heap \in [Arrays \cup {NilArray} -> Seq(Slot)]
           /\ pending \in [Peers -> Slice] /\ held \in [Readers -> Slice]
           /\ NilArray \notin Arrays /\ NilSlice \in Slice
           /\ \A a \in Arrays \cup {NilArray} : \A i \in 1..Len(heap[a]) :
                 heap[a][i] \in Entry => OfSender(heap[a][i], accepted)
           /\ \A p \in Peers : \A i \in 1..pending[p].len : OfSender(View(p)[i], accepted)
           /\ \A p \in Peers : \A i \in 1..Len(Loaded(p)) : OfSender(Loaded(p)[i], accepted)
  <1>1. /\ Inv
        /\ heap \in [Arrays \cup {NilArray} -> Seq(Slot)]
        /\ pending \in [Peers -> Slice] /\ held \in [Readers -> Slice]
        /\ NilArray \notin Arrays /\ NilSlice \in Slice
    BY ConstantsAssumption DEF QInv, Inv, TypeOK, NilSlice, Slice
  <1>2. \A a \in Arrays \cup {NilArray} : \A i \in 1..Len(heap[a]) :
           heap[a][i] \in Entry => OfSender(heap[a][i], accepted)
    BY DEF QInv, HeapGenuine
  <1>3. \A p \in Peers : \A i \in 1..pending[p].len : OfSender(View(p)[i], accepted)
    <2> SUFFICES ASSUME NEW p \in Peers, NEW i \in 1..pending[p].len
                 PROVE  OfSender(View(p)[i], accepted)
      OBVIOUS
    <2>1. /\ pending[p].arr \in Arrays \cup {NilArray} /\ pending[p].len \in Nat
          /\ pending[p].len <= Len(heap[pending[p].arr]) /\ heap[pending[p].arr] \in Seq(Slot)
          /\ heap[pending[p].arr][i] \in Entry /\ View(p)[i] = heap[pending[p].arr][i]
      BY <1>1, ListFacts
    <2>2. i \in 1..Len(heap[pending[p].arr])
      BY <2>1
    <2> QED
      BY <1>2, <2>1, <2>2
  <1> QED
    BY <1>1, <1>2, <1>3 DEF QInv, DiskGenuine

(* A new array holds no message but those of the list it was made for. *)
LEMMA ArrayOfGenuine ==
    ASSUME NEW s \in Seq(Entry), NEW c \in Nat, Len(s) <= c, NEW S,
           \A i \in 1..Len(s) : OfSender(s[i], S)
    PROVE  \A i \in 1..Len(ArrayOf(s, c)) :
              ArrayOf(s, c)[i] \in Entry => OfSender(ArrayOf(s, c)[i], S)
  <1> SUFFICES ASSUME NEW i \in 1..Len(ArrayOf(s, c)), ArrayOf(s, c)[i] \in Entry
               PROVE  OfSender(ArrayOf(s, c)[i], S)
    OBVIOUS
  <1>1. i \in 1..c
    BY ArrayOfType
  <1>2. NoEntry \notin Entry
    BY ConstantsAssumption DEF Entry, NoEntry
  <1>3. ArrayOf(s, c)[i] = IF i \in 1..Len(s) THEN s[i] ELSE NoEntry
    BY <1>1 DEF ArrayOf
  <1> QED
    BY <1>2, <1>3

(* The garbage collector keeps an array or empties it. *)
LEMMA CollectSlots ==
    ASSUME NEW h \in [Arrays \cup {NilArray} -> Seq(Slot)], NEW pd, NEW hd
    PROVE  \A a \in Arrays \cup {NilArray} :
              Collect(h, pd, hd)[a] = IF a \in Arrs(pd) \cup Arrs(hd) THEN h[a] ELSE <<>>
  BY DEF Collect

(* After the collector has run over arrays of genuine messages. *)
LEMMA CollectGenuine ==
    ASSUME NEW h \in [Arrays \cup {NilArray} -> Seq(Slot)],
           heap' = Collect(h, pending', held'),
           \A a \in Arrays \cup {NilArray} : \A i \in 1..Len(h[a]) :
              h[a][i] \in Entry => OfSender(h[a][i], accepted')
    PROVE  Collected' /\ HeapGenuine'
  <1>1. \A a \in Arrays \cup {NilArray} :
           heap'[a] = IF a \in Arrs(pending') \cup Arrs(held') THEN h[a] ELSE <<>>
    BY CollectSlots
  <1>2. Collected'
    BY <1>1 DEF Collected, Arrs
  <1>3. \A a \in Arrays \cup {NilArray} : \A i \in 1..Len(heap'[a]) :
           heap'[a][i] \in Entry => OfSender(heap'[a][i], accepted')
    BY <1>1
  <1>4. HeapGenuine'
    BY <1>3 DEF HeapGenuine, OfSender
  <1> QED
    BY <1>2, <1>4

(* After a change of the array of p in place. *)
LEMMA InPlaceGenuine ==
    ASSUME QInv, NEW p \in Peers,
           \A a \in Arrays \cup {NilArray} : a # pending[p].arr => heap'[a] = heap[a],
           \A i \in 1..Len(heap'[pending[p].arr]) : heap'[pending[p].arr][i] \in Entry =>
              OfSender(heap'[pending[p].arr][i], accepted'),
           DOMAIN pending' = DOMAIN pending,
           \A q \in Peers : pending'[q].arr = pending[q].arr,
           held' = held, accepted \subseteq accepted'
    PROVE  Collected' /\ HeapGenuine'
  <1>1. \A a \in Arrays \cup {NilArray} : \A i \in 1..Len(heap[a]) :
           heap[a][i] \in Entry => OfSender(heap[a][i], accepted')
    BY GenuineFacts, OfSenderMono
  <1>2. pending[p].arr \in Arrs(pending) /\ DOMAIN pending = Peers
    BY GenuineFacts DEF Arrs
  <1>3. Arrs(pending') = Arrs(pending)
    BY <1>2 DEF Arrs
  <1>4. \A a \in Arrays \ (Arrs(pending') \cup Arrs(held')) : heap'[a] = <<>>
    BY <1>2, <1>3 DEF QInv, Collected
  <1>5. Collected'
    BY <1>4 DEF Collected, Arrs
  <1>6. \A a \in Arrays \cup {NilArray} : \A i \in 1..Len(heap'[a]) :
           heap'[a][i] \in Entry => OfSender(heap'[a][i], accepted')
    BY <1>1
  <1>7. HeapGenuine'
    BY <1>6 DEF HeapGenuine, OfSender
  <1> QED
    BY <1>5, <1>7

LEMMA AppendGenuine ==
    ASSUME QInv, NEW p \in Peers, NEW e \in Entry, AppendEntry(p, e), held' = held,
           accepted \subseteq accepted', OfSender(e, accepted')
    PROVE  Collected' /\ HeapGenuine'
  <1> DEFINE s == pending[p]
             c == IF s.len = 0 THEN 1 ELSE 2 * s.len
             x == NewArrays({p}, FreeArrays)[p]
             v == Append(View(p), e)
             new == ArrayOf(v, c)
             grown == [heap EXCEPT ![x] = new]
  <1>0. /\ heap \in [Arrays \cup {NilArray} -> Seq(Slot)]
        /\ pending \in [Peers -> Slice]
        /\ s.arr \in Arrays \cup {NilArray} /\ s.len \in Nat
        /\ s.len <= Len(heap[s.arr]) /\ heap[s.arr] \in Seq(Slot)
        /\ View(p) \in Seq(Entry) /\ Len(View(p)) = s.len
    BY ListFacts DEF QInv
  <1>1. \A a \in Arrays \cup {NilArray} : \A i \in 1..Len(heap[a]) :
           heap[a][i] \in Entry => OfSender(heap[a][i], accepted')
    BY GenuineFacts, OfSenderMono
  <1>2. CASE /\ s.len < Cap(s)
             /\ heap' = [heap EXCEPT ![s.arr][s.len + 1] = e]
             /\ pending' = [pending EXCEPT ![p].len = @ + 1]
    <2>1. /\ heap'[s.arr] = [heap[s.arr] EXCEPT ![s.len + 1] = e]
          /\ \A a \in Arrays \cup {NilArray} : a # s.arr => heap'[a] = heap[a]
      BY <1>0, <1>2
    <2>2. /\ DOMAIN pending' = DOMAIN pending
          /\ \A q \in Peers : pending'[q].arr = pending[q].arr
      BY <1>0, <1>2 DEF Slice
    <2>3. /\ Len(heap'[s.arr]) = Len(heap[s.arr])
          /\ \A i \in 1..Len(heap[s.arr]) :
                heap'[s.arr][i] = IF i = s.len + 1 THEN e ELSE heap[s.arr][i]
      <3>1. heap[s.arr] \in Seq(Slot) /\ e \in Slot
        BY <1>0 DEF Slot
      <3> QED
        BY ONLY <2>1, <3>1
    <2>4. \A i \in 1..Len(heap'[s.arr]) : heap'[s.arr][i] \in Entry =>
              OfSender(heap'[s.arr][i], accepted')
      BY <1>0, <1>1, <2>3
    <2> QED
      BY <2>1, <2>2, <2>4, InPlaceGenuine
  <1>3. CASE /\ s.len = Cap(s)
             /\ ExistsInjection({p}, FreeArrays)
             /\ pending' = [pending EXCEPT ![p] = [arr |-> x, len |-> s.len + 1]]
             /\ heap' = Collect(grown, pending', held)
    <2>1. x \in Arrays
      BY <1>3, NewArraysType DEF FreeArrays
    <2>2. c \in Nat /\ s.len + 1 <= c
      BY <1>0
    <2>3. /\ v \in Seq(Entry) /\ Len(v) = s.len + 1 /\ v[s.len + 1] = e
          /\ \A i \in 1..s.len : v[i] = View(p)[i]
      BY <1>0
    <2>4. \A i \in 1..s.len : OfSender(View(p)[i], accepted')
      BY GenuineFacts, OfSenderMono
    <2> HIDE DEF v, c, x
    <2>5. \A i \in 1..Len(v) : OfSender(v[i], accepted')
      <3> SUFFICES ASSUME NEW i \in 1..Len(v) PROVE OfSender(v[i], accepted')
        OBVIOUS
      <3>1. CASE i = s.len + 1
        BY <2>3, <3>1
      <3>2. CASE i \in 1..s.len
        BY <2>3, <2>4, <3>2
      <3> QED
        BY <1>0, <2>3, <3>1, <3>2
    <2>6. /\ new \in Seq(Slot)
          /\ \A i \in 1..Len(new) : new[i] \in Entry => OfSender(new[i], accepted')
      <3>1. Len(v) <= c
        BY <2>2, <2>3
      <3> QED
        BY <2>2, <2>3, <2>5, <3>1, ArrayOfType, ArrayOfGenuine
    <2> HIDE DEF new
    <2>7. /\ grown \in [Arrays \cup {NilArray} -> Seq(Slot)] /\ grown[x] = new
          /\ \A a \in Arrays \cup {NilArray} : a # x => grown[a] = heap[a]
      BY <1>0, <2>1, <2>6
    <2> HIDE DEF grown
    <2>8. \A a \in Arrays \cup {NilArray} : \A i \in 1..Len(grown[a]) :
             grown[a][i] \in Entry => OfSender(grown[a][i], accepted')
      BY <1>1, <2>6, <2>7
    <2>9. heap' = Collect(grown, pending', held')
      BY <1>3
    <2> QED
      BY ONLY <2>7, <2>8, <2>9, CollectGenuine
  <1> QED
    BY <1>2, <1>3 DEF AppendEntry

LEMMA EnqueueGenuine ==
    ASSUME QInv, NEW p \in Peers, NEW b \in Bodies, Enqueue(p, b)
    PROVE  Collected' /\ HeapGenuine'
  <1>1. PICK id \in IdsFor(b) :
           AppendEntry(p, [id |-> id, body |-> b, expires |-> now + TTL, attempts |-> 0])
    BY DEF Enqueue
  <1> DEFINE e == [id |-> id, body |-> b, expires |-> now + TTL, attempts |-> 0]
  <1>2. id \in Ids /\ (OwnIds => id = IdOf[b])
    BY ConstantsAssumption DEF IdsFor, OwnIds
  <1>3. e \in Entry
    BY <1>2, ConstantsAssumption DEF Entry, QInv, Inv, TypeOK
  <1>4. AppendEntry(p, e) /\ held' = held /\ accepted' = accepted \cup {b}
    BY <1>1 DEF Enqueue
  <1>5. OfSender(e, accepted')
    BY <1>2, <1>4 DEF OfSender
  <1> HIDE DEF e
  <1> QED
    BY <1>3, <1>4, <1>5, AppendGenuine

LEMMA RemoveGenuine ==
    ASSUME QInv, NEW p \in Peers, NEW id, RemoveMessage(p, id)
    PROVE  Collected' /\ HeapGenuine'
  <1>0. held' = held /\ accepted' = accepted
    BY DEF RemoveMessage
  <1>1. CASE UNCHANGED <<heap, pending, dirty>>
    BY <1>0, <1>1 DEF QInv, Collected, HeapGenuine, Arrs, OfSender
  <1>2. ASSUME NEW i \in FirstWith(p, id),
               heap' = [heap EXCEPT ![pending[p].arr] =
                  [j \in 1..Len(@) |-> IF i <= j /\ j < pending[p].len THEN @[j + 1] ELSE @[j]]],
               pending' = [pending EXCEPT ![p].len = @ - 1]
        PROVE  Collected' /\ HeapGenuine'
    <2> DEFINE a == pending[p].arr
               n == pending[p].len
               b == [j \in 1..Len(heap[a]) |->
                        IF i <= j /\ j < n THEN heap[a][j + 1] ELSE heap[a][j]]
    <2>0. /\ heap \in [Arrays \cup {NilArray} -> Seq(Slot)] /\ pending \in [Peers -> Slice]
          /\ a \in Arrays \cup {NilArray} /\ n \in Nat /\ n <= Len(heap[a])
          /\ heap[a] \in Seq(Slot)
      BY ListFacts DEF QInv
    <2>1. /\ heap'[a] = b
          /\ \A x \in Arrays \cup {NilArray} : x # a => heap'[x] = heap[x]
      BY <1>2, <2>0
    <2>2. /\ DOMAIN pending' = DOMAIN pending
          /\ \A q \in Peers : pending'[q].arr = pending[q].arr
      BY <1>2, <2>0 DEF Slice
    <2>3. Len(heap[a]) \in Nat /\ i \in Nat
      BY <2>0 DEF FirstWith
    <2>4. Len(b) = Len(heap[a])
      BY <2>3
    <2>5. \A j \in 1..Len(b) : \E k \in 1..Len(heap[a]) : b[j] = heap[a][k]
      <3> SUFFICES ASSUME NEW j \in 1..Len(b)
                   PROVE  \E k \in 1..Len(heap[a]) : b[j] = heap[a][k]
        OBVIOUS
      <3>1. j \in 1..Len(heap[a])
        BY <2>4
      <3>2. b[j] = IF i <= j /\ j < n THEN heap[a][j + 1] ELSE heap[a][j]
        BY <3>1
      <3> HIDE DEF b
      <3>3. CASE i <= j /\ j < n
        <4>1. j + 1 \in 1..Len(heap[a])
          BY <2>0, <2>3, <3>1, <3>3
        <4> QED
          BY <3>2, <3>3, <4>1
      <3>4. CASE ~(i <= j /\ j < n)
        BY <3>1, <3>2, <3>4
      <3> QED
        BY <3>3, <3>4
    <2> HIDE DEF b
    <2>6. \A k \in 1..Len(heap[a]) : heap[a][k] \in Entry => OfSender(heap[a][k], accepted')
      BY <1>0, <2>0, GenuineFacts
    <2>7. \A j \in 1..Len(heap'[a]) : heap'[a][j] \in Entry => OfSender(heap'[a][j], accepted')
      BY <2>1, <2>5, <2>6
    <2> QED
      BY <1>0, <2>1, <2>2, <2>7, InPlaceGenuine
  <1> QED
    BY <1>1, <1>2 DEF RemoveMessage

(* Counting an attempt changes neither the message nor its ID. *)
LEMMA MarkedEntry ==
    ASSUME NEW m \in Entry
    PROVE  LET e == [m EXCEPT !.attempts = IF @ < MaxRetry THEN @ + 1 ELSE @]
           IN  e \in Entry /\ e.id = m.id /\ e.body = m.body
  BY ConstantsAssumption DEF Entry

LEMMA MarkGenuine ==
    ASSUME QInv, NEW p \in Peers, NEW id, MarkAttempt(p, id)
    PROVE  Collected' /\ HeapGenuine'
  <1>0. held' = held /\ accepted' = accepted /\ pending' = pending
    BY DEF MarkAttempt
  <1>1. CASE UNCHANGED heap
    BY <1>0, <1>1 DEF QInv, Collected, HeapGenuine, Arrs, OfSender
  <1>2. ASSUME NEW i \in FirstWith(p, id),
               heap' = [heap EXCEPT ![pending[p].arr][i].attempts =
                           IF @ < MaxRetry THEN @ + 1 ELSE @]
        PROVE  Collected' /\ HeapGenuine'
    <2> DEFINE a == pending[p].arr
               n == pending[p].len
               e == [heap[a][i] EXCEPT !.attempts = IF @ < MaxRetry THEN @ + 1 ELSE @]
    <2>0. /\ heap \in [Arrays \cup {NilArray} -> Seq(Slot)] /\ pending \in [Peers -> Slice]
          /\ a \in Arrays \cup {NilArray} /\ n \in Nat /\ n <= Len(heap[a])
          /\ heap[a] \in Seq(Slot) /\ \A j \in 1..n : heap[a][j] \in Entry
      BY ListFacts DEF QInv
    <2>1. i \in 1..n
      BY DEF FirstWith
    <2>2. heap[a][i] \in Entry /\ i \in 1..Len(heap[a])
      BY <2>0, <2>1
    <2>3. e \in Entry /\ e.id = heap[a][i].id /\ e.body = heap[a][i].body
      BY <2>2, MarkedEntry
    <2>4. /\ heap'[a] = [heap[a] EXCEPT ![i] = e]
          /\ \A x \in Arrays \cup {NilArray} : x # a => heap'[x] = heap[x]
      BY <1>2, <2>0
    <2> HIDE DEF e
    <2>5. OfSender(e, accepted')
      <3>1. OfSender(heap[a][i], accepted)
        BY <2>0, <2>2, GenuineFacts
      <3> QED
        BY <1>0, <2>3, <3>1 DEF OfSender
    <2>6. /\ Len(heap'[a]) = Len(heap[a])
          /\ \A j \in 1..Len(heap[a]) : heap'[a][j] = IF j = i THEN e ELSE heap[a][j]
      <3>1. heap[a] \in Seq(Slot) /\ e \in Slot
        BY <2>0, <2>3 DEF Slot
      <3> QED
        BY ONLY <2>2, <2>4, <3>1
    <2>7. \A k \in 1..Len(heap[a]) : heap[a][k] \in Entry => OfSender(heap[a][k], accepted')
      BY <1>0, <2>0, GenuineFacts
    <2>8. \A j \in 1..Len(heap'[a]) : heap'[a][j] \in Entry => OfSender(heap'[a][j], accepted')
      BY <2>5, <2>6, <2>7
    <2> QED
      BY <1>0, <2>4, <2>8, InPlaceGenuine
  <1> QED
    BY <1>1, <1>2 DEF MarkAttempt

LEMMA PeekGenuine ==
    ASSUME QInv,
           \/ \E r \in Readers, p \in Peers : Dequeue(r, p) \/ Peek(r, p)
           \/ \E r \in Readers : Drop(r)
    PROVE  Collected' /\ HeapGenuine'
  <1>1. heap' = Collect(heap, pending', held') /\ accepted' = accepted
    BY DEF Dequeue, Peek, Drop
  <1>2. /\ heap \in [Arrays \cup {NilArray} -> Seq(Slot)]
        /\ \A a \in Arrays \cup {NilArray} : \A i \in 1..Len(heap[a]) :
              heap[a][i] \in Entry => OfSender(heap[a][i], accepted')
    BY <1>1, GenuineFacts
  <1> QED
    BY ONLY <1>1, <1>2, CollectGenuine

(* The listing of the survivors in ascending order leaves none of them     *)
(* out: an increasing function between sets of the same size reaches all.  *)
LEMMA ValidElements ==
    ASSUME Inv, NEW p \in Peers, InOrder(Survivors(p)) # {}
    PROVE  /\ \A i \in 1..Len(Valid(p)) : \E k \in Survivors(p) : Valid(p)[i] = View(p)[k]
           /\ \A k \in Survivors(p) : \E i \in 1..Len(Valid(p)) : Valid(p)[i] = View(p)[k]
  <1> DEFINE S == Survivors(p)
             c == Cardinality(S)
             f == CHOOSE g \in InOrder(S) : TRUE
  <1>1. S \subseteq 1..pending[p].len /\ pending[p].len \in Nat
    BY ListFacts DEF Survivors
  <1>2. IsFiniteSet(S) /\ c \in Nat
    <2>1. IsFiniteSet(1..pending[p].len)
      BY <1>1, FS_Interval
    <2> QED
      BY <1>1, <2>1, FS_Subset, FS_CardinalityType
  <1>3. f \in [1..c -> S] /\ \A i, j \in 1..c : i < j => f[i] < f[j]
    <2>1. f \in InOrder(S)
      OBVIOUS
    <2> HIDE DEF f
    <2> QED
      BY <2>1 DEF InOrder
  <1>4. Len(Valid(p)) = c /\ Valid(p) = [i \in 1..c |-> View(p)[f[i]]]
    BY ValidType DEF Inv, Valid, Sublist
  <1> HIDE DEF f, c, S
  <1>5. f \in Surjection(1..c, S)
    <2>1. \A i \in 1..c : f[i] \in Nat
      <3>1. \A k \in S : k \in Nat
        BY <1>1
      <3> QED
        BY <1>3, <3>1
    <2>2. \A i, j \in 1..c : f[i] = f[j] => i = j
      <3> SUFFICES ASSUME NEW i \in 1..c, NEW j \in 1..c, f[i] = f[j] PROVE i = j
        OBVIOUS
      <3>1. ~(i < j) /\ ~(j < i)
        BY <1>3, <2>1
      <3> QED
        BY <1>2, <3>1
    <2>3. f \in Injection(1..c, S)
      BY <1>3, <2>2 DEF Injection, IsInjective
    <2>4. Cardinality(1..c) = c
      BY <1>2, FS_Interval
    <2>5. Cardinality(1..c) = Cardinality(S)
      BY <2>4 DEF c
    <2> QED
      BY <1>2, <2>3, <2>5, FS_Injection
  <1>6. \A k \in S : \E i \in 1..c : f[i] = k
    BY <1>5 DEF Surjection
  <1> QED
    BY <1>3, <1>4, <1>6 DEF S

LEMMA CleanupGenuine ==
    ASSUME QInv, Cleanup
    PROVE  Collected' /\ HeapGenuine'
  <1> DEFINE kept == {p \in Peers : Survivors(p) # {}}
             fresh == NewArrays(kept, FreeArrays)
             made == [p \in Peers |-> ArrayOf(Valid(p), CapFor(Len(Valid(p))))]
             base == [a \in DOMAIN heap |->
                        IF \E p \in kept : fresh[p] = a
                        THEN LET p == CHOOSE p \in kept : fresh[p] = a
                             IN ArrayOf(Valid(p), CapFor(Len(Valid(p))))
                        ELSE heap[a]]
  <1>0. heap \in [Arrays \cup {NilArray} -> Seq(Slot)]
    BY GenuineFacts
  <1>1. heap' = Collect(base, pending', held') /\ accepted' = accepted
    BY DEF Cleanup
  <1>2. \A p \in Peers : /\ made[p] \in Seq(Slot)
                         /\ \A i \in 1..Len(made[p]) :
                               made[p][i] \in Entry => OfSender(made[p][i], accepted)
    <2> SUFFICES ASSUME NEW p \in Peers
                 PROVE  LET m == ArrayOf(Valid(p), CapFor(Len(Valid(p)))) IN
                           /\ m \in Seq(Slot)
                           /\ \A i \in 1..Len(m) : m[i] \in Entry => OfSender(m[i], accepted)
      OBVIOUS
    <2>1. Valid(p) \in Seq(Entry) /\ Len(Valid(p)) \in Nat
      BY ValidType DEF Cleanup, QInv, Inv
    <2>2. CapFor(Len(Valid(p))) \in Nat /\ Len(Valid(p)) <= CapFor(Len(Valid(p)))
      BY <2>1, CapForType
    <2>3. \A i \in 1..Len(Valid(p)) : \E k \in Survivors(p) : Valid(p)[i] = View(p)[k]
      BY ValidElements DEF Cleanup, QInv
    <2>4. \A k \in Survivors(p) : OfSender(View(p)[k], accepted)
      BY GenuineFacts DEF Survivors
    <2>5. \A i \in 1..Len(Valid(p)) : OfSender(Valid(p)[i], accepted)
      BY <2>3, <2>4
    <2> QED
      BY <2>1, <2>2, <2>5, ArrayOfType, ArrayOfGenuine
  <1>3. \A a \in Arrays \cup {NilArray} :
           base[a] = heap[a] \/ \E p \in Peers : base[a] = made[p]
    <2> SUFFICES ASSUME NEW a \in Arrays \cup {NilArray}
                 PROVE  base[a] = heap[a] \/ \E p \in Peers : base[a] = made[p]
      OBVIOUS
    <2> HIDE DEF fresh
    <2>1. CASE \E p \in kept : fresh[p] = a
      <3> DEFINE q == CHOOSE p \in kept : fresh[p] = a
      <3>1. q \in Peers
        BY <2>1
      <3>2. base[a] = made[q]
        BY <1>0, <2>1, <3>1
      <3> QED
        BY <3>1, <3>2
    <2>2. CASE ~\E p \in kept : fresh[p] = a
      BY <1>0, <2>2
    <2> QED
      BY <2>1, <2>2
  <1>4. base = [a \in Arrays \cup {NilArray} |-> base[a]]
    BY <1>0
  <1> HIDE DEF base, made
  <1>5. base \in [Arrays \cup {NilArray} -> Seq(Slot)]
    <2>1. \A a \in Arrays \cup {NilArray} : base[a] \in Seq(Slot)
      BY <1>0, <1>2, <1>3
    <2> QED
      BY <1>4, <2>1
  <1>6. \A a \in Arrays \cup {NilArray} : \A i \in 1..Len(base[a]) :
           base[a][i] \in Entry => OfSender(base[a][i], accepted')
    <2>1. \A a \in Arrays \cup {NilArray} : \A i \in 1..Len(heap[a]) :
             heap[a][i] \in Entry => OfSender(heap[a][i], accepted)
      BY GenuineFacts
    <2> QED
      BY <1>1, <1>2, <1>3, <2>1
  <1> QED
    BY ONLY <1>1, <1>5, <1>6, CollectGenuine

LEMMA RestartGenuine ==
    ASSUME QInv, Restart
    PROVE  Collected' /\ HeapGenuine'
  <1> DEFINE home == NewArrays(Peers, Arrays)
             made == [p \in Peers |-> ArrayOf(Loaded(p), CapFor(Len(Loaded(p))))]
  <1>0. DOMAIN heap = Arrays \cup {NilArray}
    BY GenuineFacts
  <1>1. home \in [Peers -> Arrays] /\ \A x, y \in Peers : home[x] = home[y] => x = y
    BY ArraysAssumption, NewArraysType
  <1>2. /\ accepted' = accepted
        /\ heap' = [a \in DOMAIN heap |->
              IF \E p \in Peers : home[p] = a /\ Loaded(p) # <<>>
              THEN LET p == CHOOSE p \in Peers : home[p] = a
                   IN ArrayOf(Loaded(p), CapFor(Len(Loaded(p))))
              ELSE <<>>]
        /\ pending' = [p \in Peers |->
              IF Loaded(p) # <<>> THEN [arr |-> home[p], len |-> Len(Loaded(p))] ELSE NilSlice]
    BY DEF Restart
  <1>3. \A p \in Peers : \A i \in 1..Len(made[p]) :
           made[p][i] \in Entry => OfSender(made[p][i], accepted)
    <2> SUFFICES ASSUME NEW p \in Peers
                 PROVE  LET m == ArrayOf(Loaded(p), CapFor(Len(Loaded(p)))) IN
                           \A i \in 1..Len(m) : m[i] \in Entry => OfSender(m[i], accepted)
      OBVIOUS
    <2>1. Loaded(p) \in Seq(Entry) /\ Len(Loaded(p)) \in Nat
      BY LoadedType DEF QInv, Inv
    <2>2. CapFor(Len(Loaded(p))) \in Nat /\ Len(Loaded(p)) <= CapFor(Len(Loaded(p)))
      BY <2>1, CapForType
    <2>3. \A i \in 1..Len(Loaded(p)) : OfSender(Loaded(p)[i], accepted)
      BY GenuineFacts
    <2> QED
      BY <2>1, <2>2, <2>3, ArrayOfGenuine
  <1> HIDE DEF home
  <1>4. \A p \in Peers : Loaded(p) # <<>> => home[p] \in Arrs(pending')
    <2> SUFFICES ASSUME NEW p \in Peers, Loaded(p) # <<>> PROVE home[p] \in Arrs(pending')
      OBVIOUS
    <2>1. p \in DOMAIN pending' /\ pending'[p].arr = home[p]
      BY <1>2
    <2> QED
      BY <2>1 DEF Arrs
  <1>5. \A a \in Arrays \cup {NilArray} :
           \/ heap'[a] = <<>>
           \/ a \in Arrs(pending') /\ \E p \in Peers : heap'[a] = made[p]
    <2> SUFFICES ASSUME NEW a \in Arrays \cup {NilArray}
                 PROVE  \/ heap'[a] = <<>>
                        \/ a \in Arrs(pending') /\ \E p \in Peers : heap'[a] = made[p]
      OBVIOUS
    <2>1. CASE \E p \in Peers : home[p] = a /\ Loaded(p) # <<>>
      <3> DEFINE q == CHOOSE p \in Peers : home[p] = a
      <3>1. q \in Peers
        BY <2>1
      <3>2. heap'[a] = made[q]
        BY <1>0, <1>2, <2>1, <3>1
      <3>3. a \in Arrs(pending')
        BY <1>4, <2>1
      <3> QED
        BY <3>1, <3>2, <3>3
    <2>2. CASE ~\E p \in Peers : home[p] = a /\ Loaded(p) # <<>>
      BY <1>0, <1>2, <2>2
    <2> QED
      BY <2>1, <2>2
  <1> HIDE DEF made
  <1>6. Collected'
    <2>1. \A a \in Arrays \ (Arrs(pending') \cup Arrs(held')) : heap'[a] = <<>>
      BY <1>5
    <2> QED
      BY <2>1 DEF Collected, Arrs
  <1>7. \A a \in Arrays \cup {NilArray} : \A i \in 1..Len(heap'[a]) :
           heap'[a][i] \in Entry => OfSender(heap'[a][i], accepted')
    <2> SUFFICES ASSUME NEW a \in Arrays \cup {NilArray}
                 PROVE  \A i \in 1..Len(heap'[a]) :
                           heap'[a][i] \in Entry => OfSender(heap'[a][i], accepted')
      OBVIOUS
    <2>1. CASE heap'[a] = <<>>
      BY <2>1
    <2>2. ASSUME NEW p \in Peers, heap'[a] = made[p]
          PROVE  \A i \in 1..Len(heap'[a]) :
                    heap'[a][i] \in Entry => OfSender(heap'[a][i], accepted')
      BY <1>2, <1>3, <2>2
    <2> QED
      BY <1>5, <2>1, <2>2
  <1> QED
    BY <1>6, <1>7 DEF HeapGenuine, OfSender

(* The files hold what the lists held. *)
LEMMA DiskGenuineStep ==
    ASSUME QInv, [Next]_qvars
    PROVE  DiskGenuine'
  <1>0. /\ disk \in [Peers -> File]
        /\ \A p \in Peers : \A i \in 1..Len(Loaded(p)) : OfSender(Loaded(p)[i], accepted)
    BY GenuineFacts DEF QInv, Inv, TypeOK
  <1>1. CASE disk' = disk /\ accepted \subseteq accepted'
    <2>1. \A p \in Peers : Loaded(p)' = Loaded(p)
      BY <1>1 DEF Loaded
    <2>2. \A p \in Peers : \A i \in 1..Len(Loaded(p)') : OfSender(Loaded(p)'[i], accepted')
      BY <1>0, <1>1, <2>1, OfSenderMono
    <2> QED
      BY <2>2 DEF DiskGenuine, OfSender
  <1>2. ASSUME NEW p \in Peers, SaveRemove(p) \/ SaveTruncate(p) \/ SaveWrite(p)
        PROVE  DiskGenuine'
    <2>1. accepted' = accepted
      BY <1>2 DEF SaveRemove, SaveTruncate, SaveWrite
    <2>2. /\ Loaded(p)' = <<>> \/ Loaded(p)' = View(p)
          /\ \A q \in Peers \ {p} : Loaded(q)' = Loaded(q)
      BY <1>0, <1>2 DEF SaveRemove, SaveTruncate, SaveWrite, Loaded, NoFile, TornFile
    <2>3. \A i \in 1..Len(View(p)) : OfSender(View(p)[i], accepted')
      BY <2>1, GenuineFacts, ListFacts
    <2>4. \A i \in 1..Len(Loaded(p)') : OfSender(Loaded(p)'[i], accepted')
      <3>1. CASE Loaded(p)' = <<>>
        BY <3>1
      <3> QED
        BY <2>2, <2>3, <3>1
    <2>5. \A q \in Peers : \A i \in 1..Len(Loaded(q)') : OfSender(Loaded(q)'[i], accepted')
      BY <1>0, <2>1, <2>2, <2>4
    <2> QED
      BY <2>5 DEF DiskGenuine, OfSender
  <1>3. CASE SaveStep
    <2>1. PICK p \in Peers : SaveRemove(p) \/ SaveTruncate(p) \/ SaveWrite(p) \/ SaveFail(p)
      BY <1>3 DEF SaveStep
    <2>2. CASE SaveFail(p)
      BY <1>1, <2>2 DEF SaveFail
    <2> QED
      BY <1>2, <2>1, <2>2
  <1>4. CASE ~SaveStep
    <2>1. disk' = disk /\ accepted \subseteq accepted'
      BY <1>4 DEF Next, qvars, Enqueue, Dequeue, Peek, MarkAttempt, RemoveMessage, Drop, Cleanup,
                  Restart, Tick, files
    <2> QED
      BY <1>1, <2>1
  <1> QED
    BY <1>3, <1>4

LEMMA QInvInit == Init => QInv
  <1> SUFFICES ASSUME Init PROVE QInv
    OBVIOUS
  <1>1. Inv
    BY InvInit
  <1>2. Collected /\ HeapGenuine
    BY DEF Init, Collected, HeapGenuine
  <1>3. DiskGenuine
    BY DEF Init, DiskGenuine, Loaded, NoFile
  <1> QED
    BY <1>1, <1>2, <1>3 DEF QInv

(* The queue keeps its arrays collected and genuine. *)
LEMMA HeapGenuineStep ==
    ASSUME QInv, [Next]_qvars
    PROVE  Collected' /\ HeapGenuine'
  <1>1. ASSUME NEW p \in Peers, NEW b \in Bodies, Enqueue(p, b) PROVE Collected' /\ HeapGenuine'
    BY <1>1, EnqueueGenuine
  <1>2. ASSUME NEW p \in Peers, NEW r \in Readers, Dequeue(r, p) \/ Peek(r, p)
        PROVE  Collected' /\ HeapGenuine'
    BY <1>2, PeekGenuine
  <1>3. ASSUME NEW p \in Peers, NEW id \in Ids, MarkAttempt(p, id)
        PROVE  Collected' /\ HeapGenuine'
    BY <1>3, MarkGenuine
  <1>4. ASSUME NEW p \in Peers, NEW id \in Ids, RemoveMessage(p, id)
        PROVE  Collected' /\ HeapGenuine'
    BY <1>4, RemoveGenuine
  <1>5. ASSUME NEW r \in Readers, Drop(r) PROVE Collected' /\ HeapGenuine'
    BY <1>5, PeekGenuine
  <1>6. CASE Cleanup
    BY <1>6, CleanupGenuine
  <1>7. CASE Restart
    BY <1>7, RestartGenuine
  <1>8. CASE SaveStep \/ Tick \/ UNCHANGED qvars
    <2>1. UNCHANGED <<heap, pending, held, accepted>>
      BY <1>8 DEF SaveStep, SaveRemove, SaveTruncate, SaveWrite, SaveFail, Tick, memory, qvars
    <2> QED
      BY <2>1 DEF QInv, Collected, HeapGenuine, Arrs, OfSender
  <1> QED
    BY <1>1, <1>2, <1>3, <1>4, <1>5, <1>6, <1>7, <1>8 DEF Next

LEMMA QInvNext == QInv /\ [Next]_qvars => QInv'
  BY InvNext, HeapGenuineStep, DiskGenuineStep DEF QInv
-----------------------------------------------------------------------------
(* An end of a round that holds no array changes nothing of the queue. *)
LEMMA CollectNothing ==
    ASSUME QInv, held' = held, heap' = Collect(heap, pending, held')
    PROVE  heap' = heap
  <1>1. heap \in [Arrays \cup {NilArray} -> Seq(Slot)] /\ heap[NilArray] = <<>>
    BY DEF QInv, Inv, TypeOK, HeapOK
  <1>2. \A a \in Arrays \cup {NilArray} : Collect(heap, pending, held)[a] = heap[a]
    <2> SUFFICES ASSUME NEW a \in Arrays \cup {NilArray}
                 PROVE  Collect(heap, pending, held)[a] = heap[a]
      OBVIOUS
    <2>1. Collect(heap, pending, held)[a] =
             IF a \in Arrs(pending) \cup Arrs(held) THEN heap[a] ELSE <<>>
      BY <1>1, CollectSlots
    <2>2. a \notin Arrs(pending) \cup Arrs(held) => heap[a] = <<>>
      BY <1>1 DEF QInv, Collected
    <2> QED
      BY <2>1, <2>2
  <1>3. Collect(heap, pending, held) = [a \in Arrays \cup {NilArray} |-> Collect(heap, pending, held)[a]]
    BY <1>1 DEF Collect
  <1> HIDE DEF QInv
  <1> QED
    BY <1>1, <1>2, <1>3

(* Every step of the relay is a step of its queue, or none of it. *)
LEMMA QueueStepOfRelay == QInv /\ RoundsOK /\ [RNext]_vars => [Next]_qvars
  <1> SUFFICES ASSUME QInv, RoundsOK, [RNext]_vars PROVE Next \/ UNCHANGED qvars
    OBVIOUS
  <1>0. \A h \in Readers :
           /\ pc[h] = "enqueue" => msg[h] \in Bodies
           /\ pc[h] \in {"peek", "remove", "mark"} => peer[h] \in Peers
           /\ pc[h] \in {"remove", "mark"} => copy[h].id \in Ids
    BY DEF RoundsOK, Rounds
  <1>1. ASSUME NEW h \in Readers,
               \/ \E b \in Bodies, from \in Peers \cup {NoPeer} : ReceiveForward(h, b, from)
               \/ CheckOnline(h) \/ DirectDelivery(h)
               \/ \E p \in Peers : ReceiveAnnounce(h, p)
               \/ CopyFirst(h) \/ CopySecond(h) \/ DeliverOk(h) \/ DeliverError(h) \/ Continue(h)
        PROVE  UNCHANGED qvars
    BY <1>1 DEF ReceiveForward, CheckOnline, DirectDelivery, ReceiveAnnounce, CopyFirst, CopySecond,
                DeliverOk, DeliverError, Continue
  <1>2. ASSUME NEW h \in Readers, EnqueueForward(h) PROVE Next
    <2>1. ToOf[msg[h]] \in Peers /\ msg[h] \in Bodies /\ Enqueue(ToOf[msg[h]], msg[h])
      BY <1>0, <1>2, RelayAssumption DEF EnqueueForward
    <2> QED
      BY <2>1 DEF Next
  <1>3. ASSUME NEW h \in Readers, StartRound(h) PROVE Next
    <2>1. peer[h] \in Peers /\ Peek(h, peer[h])
      BY <1>0, <1>3 DEF StartRound
    <2> QED
      BY <2>1 DEF Next
  <1>4. ASSUME NEW h \in Readers, RemoveDelivered(h) PROVE Next
    <2>1. peer[h] \in Peers /\ copy[h].id \in Ids /\ RemoveMessage(peer[h], copy[h].id)
      BY <1>0, <1>4 DEF RemoveDelivered
    <2> QED
      BY <2>1 DEF Next
  <1>5. ASSUME NEW h \in Readers, MarkFailed(h) PROVE Next
    <2>1. peer[h] \in Peers /\ copy[h].id \in Ids /\ MarkAttempt(peer[h], copy[h].id)
      BY <1>0, <1>5 DEF MarkFailed
    <2> QED
      BY <2>1 DEF Next
  <1>6. ASSUME NEW h \in Readers, EndRound(h) PROVE Next \/ UNCHANGED qvars
    <2>1. /\ held' = [held EXCEPT ![h] = NilSlice]
          /\ heap' = Collect(heap, pending, held')
          /\ UNCHANGED <<pending, disk, dirty, writing, failed, now, accepted, faults>>
      BY <1>6 DEF EndRound, files
    <2>2. CASE held[h] = NilSlice
      <3>1. held' = held
        BY <2>1, <2>2, GenuineFacts
      <3>2. heap' = heap
        BY <2>1, <3>1, CollectNothing
      <3> QED
        BY <2>1, <3>1, <3>2 DEF qvars
    <2>3. CASE held[h] # NilSlice
      BY <2>1, <2>3 DEF Drop, files, Next
    <2> QED
      BY <2>2, <2>3
  <1>7. ASSUME LoopTick \/ \E p \in Peers : LoopPeer(p) \/ GoStale(p) PROVE UNCHANGED qvars
    BY <1>7 DEF LoopTick, LoopPeer, GoStale
  <1>8. ASSUME \/ \E p \in Peers : Save(p)
               \/ CleanQueue \/ RestartNode \/ SaveError \/ PassTime
        PROVE  Next
    BY <1>8 DEF Save, CleanQueue, RestartNode, SaveError, PassTime, Next, SaveStep
  <1>9. CASE UNCHANGED vars
    BY <1>9 DEF vars
  <1> QED
    BY <1>1, <1>2, <1>3, <1>4, <1>5, <1>6, <1>7, <1>8, <1>9 DEF RNext
-----------------------------------------------------------------------------
(* A goroutine whose own state is as it was stays as far as it had got. *)
LEMMA RoundsFrame ==
    ASSUME NEW r \in Readers, Rounds(r),
           pc'[r] = pc[r], msg'[r] = msg[r], peer'[r] = peer[r], idx'[r] = idx[r],
           copy'[r] = copy[r], held'[r] = held[r], sent \subseteq sent', mixed => mixed'
    PROVE  Rounds(r)'
  BY DEF Rounds

(* A step of one goroutine. *)
LEMMA OneMoves ==
    ASSUME RoundsOK, NEW h \in Readers, Rounds(h)',
           \A r \in Readers \ {h} :
              /\ pc'[r] = pc[r] /\ msg'[r] = msg[r] /\ peer'[r] = peer[r]
              /\ idx'[r] = idx[r] /\ copy'[r] = copy[r] /\ held'[r] = held[r],
           sent \subseteq sent', mixed => mixed'
    PROVE  RoundsOK'
  <1>1. \A r \in Readers : Rounds(r)'
    BY RoundsFrame DEF RoundsOK
  <1> QED
    BY <1>1 DEF RoundsOK, Rounds

(* A step of none. *)
LEMMA NoneMoves ==
    ASSUME RoundsOK, UNCHANGED <<pc, msg, peer, idx, copy, held, sent, mixed>>
    PROVE  RoundsOK'
  BY DEF RoundsOK, Rounds

(* What a goroutine copies from the array it ranges over is a message. *)
LEMMA ElementGenuine ==
    ASSUME QInv, RelayTypeOK, NEW h \in Readers, idx[h] >= 1, idx[h] <= held[h].len
    PROVE  /\ Element(h) \in Entry /\ OfSender(Element(h), accepted)
           /\ Element(h).id \in Ids /\ Element(h).body \in Bodies
  <1>1. /\ held[h].len \in Nat /\ held[h].arr \in Arrays \cup {NilArray} /\ idx[h] \in Nat
        /\ heap[held[h].arr] \in Seq(Slot)
    BY GenuineFacts DEF Slice, RelayTypeOK
  <1>2. held[h].len <= Len(heap[held[h].arr])
    BY DEF QInv, Inv, PeekedReadable, Cap
  <1>3. idx[h] \in 1..held[h].len /\ idx[h] \in 1..Len(heap[held[h].arr])
    BY <1>1, <1>2
  <1>4. Element(h) \in Entry
    BY <1>3 DEF QInv, Inv, PeekedReadable, Element
  <1>5. OfSender(Element(h), accepted)
    BY <1>1, <1>3, <1>4, GenuineFacts DEF Element
  <1> QED
    BY <1>4, <1>5 DEF Entry
-----------------------------------------------------------------------------
LEMMA ReceiveForwardOK ==
    ASSUME RelayTypeOK, RoundsOK, NEW h \in Readers, NEW b \in Bodies,
           NEW from \in Peers \cup {NoPeer}, ReceiveForward(h, b, from)
    PROVE  RelayTypeOK' /\ RoundsOK'
  <1>1. RelayTypeOK'
    BY DEF RelayTypeOK, ReceiveForward, Goto, qvars, history
  <1>2. /\ pc' = [pc EXCEPT ![h] = "check"] /\ msg' = [msg EXCEPT ![h] = b]
        /\ UNCHANGED <<held, peer, idx, copy, sent, mixed>>
    BY DEF ReceiveForward, Goto, qvars, history
  <1>3. Rounds(h)'
    BY <1>2 DEF RelayTypeOK, Rounds
  <1>4. RoundsOK'
    BY <1>2, <1>3, OneMoves
  <1> QED
    BY <1>1, <1>4

LEMMA CheckOnlineOK ==
    ASSUME RelayTypeOK, RoundsOK, NEW h \in Readers, CheckOnline(h)
    PROVE  RelayTypeOK' /\ RoundsOK'
  <1>1. RelayTypeOK'
    BY DEF RelayTypeOK, CheckOnline, Goto, qvars, history
  <1>2. /\ pc[h] = "check" /\ pc' \in {[pc EXCEPT ![h] = "direct"], [pc EXCEPT ![h] = "enqueue"]}
        /\ UNCHANGED <<held, msg, peer, idx, copy, sent, mixed>>
    BY DEF CheckOnline, Goto, qvars, history
  <1>3. Rounds(h)'
    BY <1>2 DEF RelayTypeOK, RoundsOK, Rounds
  <1>4. \A r \in Readers \ {h} : pc'[r] = pc[r] /\ msg'[r] = msg[r]
    BY <1>2 DEF RelayTypeOK
  <1>5. RoundsOK'
    BY <1>2, <1>3, <1>4, OneMoves
  <1> QED
    BY <1>1, <1>5

LEMMA DirectDeliveryOK ==
    ASSUME RelayTypeOK, RoundsOK, NEW h \in Readers, DirectDelivery(h)
    PROVE  RelayTypeOK' /\ RoundsOK'
  <1>0. msg[h] \in Bodies
    BY DEF DirectDelivery, RoundsOK, Rounds
  <1>1. /\ \/ /\ sent' = sent \cup {msg[h]} /\ msg' = [msg EXCEPT ![h] = NoBody]
              /\ pc' = [pc EXCEPT ![h] = "idle"]
           \/ pc' = [pc EXCEPT ![h] = "enqueue"] /\ UNCHANGED <<sent, msg>>
        /\ UNCHANGED <<held, online, peer, idx, copy, todo, accepted, purged, mixed, damaged>>
    BY DEF DirectDelivery, Goto, qvars
  <1>2. RelayTypeOK'
    BY <1>0, <1>1 DEF RelayTypeOK
  <1>3. Rounds(h)'
    BY <1>0, <1>1 DEF RelayTypeOK, Rounds
  <1>4. \A r \in Readers \ {h} : pc'[r] = pc[r] /\ msg'[r] = msg[r]
    BY <1>1 DEF RelayTypeOK
  <1>5. RoundsOK'
    BY <1>1, <1>3, <1>4, OneMoves
  <1> QED
    BY <1>2, <1>5

LEMMA EnqueueForwardOK ==
    ASSUME RelayTypeOK, RoundsOK, NEW h \in Readers, EnqueueForward(h)
    PROVE  RelayTypeOK' /\ RoundsOK'
  <1>1. /\ msg' = [msg EXCEPT ![h] = NoBody] /\ pc' = [pc EXCEPT ![h] = "idle"]
        /\ accepted \subseteq accepted'
        /\ UNCHANGED <<held, online, peer, idx, copy, todo, sent, purged, mixed, damaged>>
    BY DEF EnqueueForward, Enqueue, Goto, history
  <1>2. RelayTypeOK'
    BY <1>1 DEF RelayTypeOK
  <1>3. Rounds(h)'
    BY <1>1 DEF RelayTypeOK, Rounds
  <1>4. RoundsOK'
    BY <1>1, <1>3, OneMoves
  <1> QED
    BY <1>2, <1>4

LEMMA ReceiveAnnounceOK ==
    ASSUME RelayTypeOK, RoundsOK, NEW h \in Readers, NEW p \in Peers, ReceiveAnnounce(h, p)
    PROVE  RelayTypeOK' /\ RoundsOK'
  <1>1. /\ online' = online \cup {p} /\ peer' = [peer EXCEPT ![h] = p]
        /\ pc' = [pc EXCEPT ![h] = "peek"]
        /\ UNCHANGED <<held, msg, idx, copy, todo, accepted, sent, purged, mixed, damaged>>
    BY DEF ReceiveAnnounce, Goto, qvars, history
  <1>2. RelayTypeOK'
    BY <1>1 DEF RelayTypeOK
  <1>3. Rounds(h)'
    BY <1>1 DEF RelayTypeOK, Rounds
  <1>4. RoundsOK'
    BY <1>1, <1>3, OneMoves
  <1> QED
    BY <1>2, <1>4

LEMMA LoopOK ==
    ASSUME RelayTypeOK, RoundsOK, QInv, LoopTick \/ \E p \in Peers : LoopPeer(p)
    PROVE  RelayTypeOK' /\ RoundsOK'
  <1>1. CASE LoopTick
    <2>1. /\ todo' \subseteq Peers
          /\ UNCHANGED <<held, online, pc, peer, msg, idx, copy, accepted, sent, purged, mixed,
                         damaged>>
      BY <1>1 DEF LoopTick, PeersWithPending, qvars, history
    <2> QED
      BY <2>1, NoneMoves DEF RelayTypeOK
  <1>2. ASSUME NEW p \in Peers, LoopPeer(p) PROVE RelayTypeOK' /\ RoundsOK'
    <2>1. /\ todo' \subseteq todo
          /\ UNCHANGED <<held, online, msg, idx, copy, accepted, sent, purged, mixed, damaged>>
      BY <1>2 DEF LoopPeer, qvars, history
    <2>2. CASE UNCHANGED <<peer, pc>>
      BY <2>1, <2>2, NoneMoves DEF RelayTypeOK
    <2>3. CASE peer' = [peer EXCEPT ![Loop] = p] /\ pc' = [pc EXCEPT ![Loop] = "peek"]
      <3>1. RelayTypeOK'
        BY <2>1, <2>3, RelayAssumption DEF RelayTypeOK
      <3>2. Rounds(Loop)'
        BY <2>1, <2>3, RelayAssumption DEF RelayTypeOK, Rounds
      <3>3. RoundsOK'
        BY <2>1, <2>3, <3>2, RelayAssumption, OneMoves
      <3> QED
        BY <3>1, <3>3
    <2> QED
      BY <1>2, <2>2, <2>3 DEF LoopPeer, Goto
  <1> QED
    BY <1>1, <1>2

LEMMA StartRoundOK ==
    ASSUME RelayTypeOK, RoundsOK, QInv, NEW h \in Readers, StartRound(h)
    PROVE  RelayTypeOK' /\ RoundsOK'
  <1>0. pc[h] = "peek" /\ peer[h] \in Peers
    BY DEF StartRound, RoundsOK, Rounds
  <1>1. /\ idx' = [idx EXCEPT ![h] = 1] /\ pc' = [pc EXCEPT ![h] = "range"]
        /\ held' = [held EXCEPT ![h] = pending[peer[h]]]
        /\ UNCHANGED <<online, peer, msg, copy, todo, accepted, sent, purged, mixed, damaged>>
    BY DEF StartRound, Peek, Goto, history
  <1>2. RelayTypeOK'
    BY <1>1 DEF RelayTypeOK
  <1>3. Rounds(h)'
    BY <1>0, <1>1 DEF RelayTypeOK, Rounds
  <1>4. \A r \in Readers \ {h} : held'[r] = held[r]
    BY <1>1, GenuineFacts
  <1>5. RoundsOK'
    BY <1>1, <1>3, <1>4, OneMoves
  <1> QED
    BY <1>2, <1>5

(* One half of a copy. *)
LEMMA CopyIdHalf ==
    ASSUME RelayTypeOK, NEW h \in Readers, NEW i \in Ids, copy' = [copy EXCEPT ![h].id = i]
    PROVE  /\ copy' \in [Readers -> [id: Ids \cup {NoId}, body: Bodies \cup {NoBody}]]
           /\ copy'[h].id = i /\ copy'[h].body = copy[h].body
           /\ \A r \in Readers \ {h} : copy'[r] = copy[r]
  <1>1. copy \in [Readers -> [id: Ids \cup {NoId}, body: Bodies \cup {NoBody}]]
    BY DEF RelayTypeOK
  <1>2. copy[h] \in [id: Ids \cup {NoId}, body: Bodies \cup {NoBody}]
    BY <1>1
  <1>3. /\ [copy[h] EXCEPT !.id = i] \in [id: Ids \cup {NoId}, body: Bodies \cup {NoBody}]
        /\ [copy[h] EXCEPT !.id = i].id = i /\ [copy[h] EXCEPT !.id = i].body = copy[h].body
    BY <1>2
  <1> QED
    BY <1>1, <1>3

LEMMA CopyBodyHalf ==
    ASSUME RelayTypeOK, NEW h \in Readers, NEW b \in Bodies, copy' = [copy EXCEPT ![h].body = b]
    PROVE  /\ copy' \in [Readers -> [id: Ids \cup {NoId}, body: Bodies \cup {NoBody}]]
           /\ copy'[h].body = b /\ copy'[h].id = copy[h].id
           /\ \A r \in Readers \ {h} : copy'[r] = copy[r]
  <1>1. copy \in [Readers -> [id: Ids \cup {NoId}, body: Bodies \cup {NoBody}]]
    BY DEF RelayTypeOK
  <1>2. copy[h] \in [id: Ids \cup {NoId}, body: Bodies \cup {NoBody}]
    BY <1>1
  <1>3. /\ [copy[h] EXCEPT !.body = b] \in [id: Ids \cup {NoId}, body: Bodies \cup {NoBody}]
        /\ [copy[h] EXCEPT !.body = b].body = b /\ [copy[h] EXCEPT !.body = b].id = copy[h].id
    BY <1>2
  <1> QED
    BY <1>1, <1>3

LEMMA CopyFirstOK ==
    ASSUME RelayTypeOK, RoundsOK, QInv, NEW h \in Readers, CopyFirst(h)
    PROVE  RelayTypeOK' /\ RoundsOK'
  <1>0. /\ pc[h] = "range" /\ idx[h] <= held[h].len /\ idx[h] >= 1 /\ peer[h] \in Peers
    BY DEF CopyFirst, RoundsOK, Rounds
  <1>1. Element(h).id \in Ids /\ Element(h).body \in Bodies
    BY <1>0, ElementGenuine
  <1> DEFINE C == [id: Ids \cup {NoId}, body: Bodies \cup {NoBody}]
  <1>2. /\ \/ copy' = [copy EXCEPT ![h].id = Element(h).id] /\ pc' = [pc EXCEPT ![h] = "copyBody"]
           \/ copy' = [copy EXCEPT ![h].body = Element(h).body] /\ pc' = [pc EXCEPT ![h] = "copyId"]
        /\ UNCHANGED <<held, online, peer, msg, idx, todo, accepted, sent, purged, mixed, damaged>>
    BY DEF CopyFirst, Goto, qvars, history
  <1> HIDE DEF Element
  <1>3. /\ copy' \in [Readers -> C] /\ \A r \in Readers \ {h} : copy'[r] = copy[r]
        /\ \/ copy'[h].id \in Ids /\ pc' = [pc EXCEPT ![h] = "copyBody"]
           \/ copy'[h].body \in Bodies /\ pc' = [pc EXCEPT ![h] = "copyId"]
    <2>1. CASE copy' = [copy EXCEPT ![h].id = Element(h).id] /\ pc' = [pc EXCEPT ![h] = "copyBody"]
      BY <1>1, <2>1, CopyIdHalf
    <2>2. CASE copy' = [copy EXCEPT ![h].body = Element(h).body] /\ pc' = [pc EXCEPT ![h] = "copyId"]
      BY <1>1, <2>2, CopyBodyHalf
    <2> QED
      BY <1>2, <2>1, <2>2
  <1>4. RelayTypeOK'
    BY <1>2, <1>3 DEF RelayTypeOK
  <1>5. Rounds(h)'
    BY <1>0, <1>2, <1>3 DEF RelayTypeOK, Rounds
  <1>6. \A r \in Readers \ {h} : pc'[r] = pc[r] /\ copy'[r] = copy[r]
    BY <1>3 DEF RelayTypeOK
  <1>7. RoundsOK'
    BY <1>2, <1>5, <1>6, OneMoves
  <1> QED
    BY <1>4, <1>7

LEMMA CopySecondOK ==
    ASSUME RelayTypeOK, RoundsOK, QInv, NEW h \in Readers, CopySecond(h)
    PROVE  RelayTypeOK' /\ RoundsOK'
  <1> DEFINE C == [id: Ids \cup {NoId}, body: Bodies \cup {NoBody}]
  <1>0. /\ pc[h] \in {"copyBody", "copyId"} /\ idx[h] <= held[h].len /\ idx[h] >= 1
        /\ peer[h] \in Peers
        /\ pc[h] = "copyBody" => copy[h].id \in Ids
        /\ pc[h] = "copyId" => copy[h].body \in Bodies
    BY DEF CopySecond, RoundsOK, Rounds
  <1>1. /\ Element(h).id \in Ids /\ Element(h).body \in Bodies
        /\ OwnIds => Element(h).id = IdOf[Element(h).body]
    BY <1>0, ElementGenuine DEF OfSender
  <1>2. /\ \/ /\ pc[h] = "copyBody"
              /\ copy' = [copy EXCEPT ![h].body = Element(h).body]
              /\ mixed' = (mixed \/ Element(h).id # copy[h].id)
           \/ /\ pc[h] = "copyId"
              /\ copy' = [copy EXCEPT ![h].id = Element(h).id]
              /\ mixed' = (mixed \/ Element(h).body # copy[h].body)
        /\ pc' = [pc EXCEPT ![h] = "deliver"]
        /\ UNCHANGED <<held, online, peer, msg, idx, todo, accepted, sent, purged, damaged>>
    BY DEF CopySecond, Goto, qvars
  <1> HIDE DEF Element
  <1>3. /\ copy' \in [Readers -> C] /\ \A r \in Readers \ {h} : copy'[r] = copy[r]
        /\ copy'[h].id \in Ids /\ copy'[h].body \in Bodies
        /\ ~mixed' => copy'[h].id = Element(h).id /\ copy'[h].body = Element(h).body
    <2>1. CASE pc[h] = "copyBody"
      <3>1. /\ copy' = [copy EXCEPT ![h].body = Element(h).body]
            /\ mixed' = (mixed \/ Element(h).id # copy[h].id)
        BY <1>2, <2>1
      <3>2. /\ copy' \in [Readers -> C] /\ copy'[h].body = Element(h).body
            /\ copy'[h].id = copy[h].id /\ \A r \in Readers \ {h} : copy'[r] = copy[r]
        BY <1>1, <3>1, CopyBodyHalf
      <3> QED
        BY <1>0, <1>1, <2>1, <3>1, <3>2
    <2>2. CASE pc[h] = "copyId"
      <3>1. /\ copy' = [copy EXCEPT ![h].id = Element(h).id]
            /\ mixed' = (mixed \/ Element(h).body # copy[h].body)
        BY <1>2, <2>2
      <3>2. /\ copy' \in [Readers -> C] /\ copy'[h].id = Element(h).id
            /\ copy'[h].body = copy[h].body /\ \A r \in Readers \ {h} : copy'[r] = copy[r]
        BY <1>1, <3>1, CopyIdHalf
      <3> QED
        BY <1>0, <1>1, <2>2, <3>1, <3>2
    <2> QED
      BY <1>0, <2>1, <2>2
  <1>4. mixed' \in BOOLEAN /\ (mixed => mixed')
    BY <1>2
  <1>5. RelayTypeOK'
    BY <1>2, <1>3, <1>4 DEF RelayTypeOK
  <1>6. Rounds(h)'
    <2>1. pc'[h] = "deliver"
      BY <1>2 DEF RelayTypeOK
    <2>2. OwnIds /\ ~mixed' => copy'[h].id = IdOf[copy'[h].body]
      BY <1>1, <1>3
    <2> QED
      BY <1>0, <1>2, <1>3, <2>1, <2>2 DEF Rounds
  <1>7. \A r \in Readers \ {h} : pc'[r] = pc[r]
    BY <1>2 DEF RelayTypeOK
  <1>8. RoundsOK'
    BY <1>2, <1>3, <1>4, <1>6, <1>7, OneMoves
  <1> QED
    BY <1>5, <1>8

LEMMA DeliverOkOK ==
    ASSUME RelayTypeOK, RoundsOK, NEW h \in Readers, DeliverOk(h)
    PROVE  RelayTypeOK' /\ RoundsOK'
  <1>0. pc[h] = "deliver" /\ Rounds(h) /\ copy[h].body \in Bodies
    BY DEF DeliverOk, RoundsOK, Rounds
  <1>1. /\ sent' = sent \cup {copy[h].body} /\ pc' = [pc EXCEPT ![h] = "remove"]
        /\ UNCHANGED <<held, online, peer, msg, idx, copy, todo, accepted, purged, mixed, damaged>>
    BY DEF DeliverOk, Goto, qvars
  <1>2. RelayTypeOK'
    BY <1>0, <1>1 DEF RelayTypeOK
  <1>3. Rounds(h)'
    BY <1>0, <1>1 DEF RelayTypeOK, Rounds
  <1>4. RoundsOK'
    BY <1>1, <1>3, OneMoves
  <1> QED
    BY <1>2, <1>4

(* The range statement moves on. *)
LEMMA AdvanceOK ==
    ASSUME RelayTypeOK, RoundsOK, NEW h \in Readers, peer[h] \in Peers, Advance(h),
           UNCHANGED <<held, online, peer, msg, todo, accepted, sent, purged, mixed, damaged>>
    PROVE  RelayTypeOK' /\ RoundsOK'
  <1>1. /\ idx' = [idx EXCEPT ![h] = idx[h] + 1] /\ copy' = [copy EXCEPT ![h] = NoCopy]
        /\ pc' = [pc EXCEPT ![h] = "range"] /\ idx[h] \in Nat
    BY DEF Advance, Goto, RelayTypeOK
  <1>2. NoCopy \in [id: Ids \cup {NoId}, body: Bodies \cup {NoBody}]
    BY DEF NoCopy
  <1>3. RelayTypeOK'
    BY <1>1, <1>2 DEF RelayTypeOK
  <1>4. Rounds(h)'
    BY <1>1 DEF RelayTypeOK, Rounds
  <1>5. RoundsOK'
    BY <1>1, <1>4, OneMoves
  <1> QED
    BY <1>3, <1>5

LEMMA DeliverErrorOK ==
    ASSUME RelayTypeOK, RoundsOK, NEW h \in Readers, DeliverError(h)
    PROVE  RelayTypeOK' /\ RoundsOK'
  <1>0. pc[h] = "deliver" /\ Rounds(h) /\ peer[h] \in Peers
    BY DEF DeliverError, RoundsOK, Rounds
  <1>1. UNCHANGED <<held, online, peer, msg, todo, accepted, sent, purged, mixed, damaged>>
    BY DEF DeliverError, qvars, history
  <1>2. CASE Advance(h)
    BY <1>0, <1>1, <1>2, AdvanceOK
  <1>3. CASE pc' = [pc EXCEPT ![h] = "mark"] /\ UNCHANGED <<idx, copy>>
    <2>1. RelayTypeOK'
      BY <1>1, <1>3 DEF RelayTypeOK
    <2>2. Rounds(h)'
      BY <1>0, <1>1, <1>3 DEF RelayTypeOK, Rounds
    <2>3. RoundsOK'
      BY <1>1, <1>3, <2>2, OneMoves
    <2> QED
      BY <2>1, <2>3
  <1> QED
    BY <1>2, <1>3 DEF DeliverError, Goto

LEMMA ReportOK ==
    ASSUME RelayTypeOK, RoundsOK, NEW h \in Readers, RemoveDelivered(h) \/ MarkFailed(h)
    PROVE  RelayTypeOK' /\ RoundsOK'
  <1>0. pc[h] \in {"remove", "mark"} /\ Rounds(h)
    BY DEF RemoveDelivered, MarkFailed, RoundsOK
  <1>1. /\ pc' = [pc EXCEPT ![h] = "return"]
        /\ UNCHANGED <<held, online, peer, msg, idx, copy, todo, accepted, sent, purged, mixed,
                       damaged>>
    BY DEF RemoveDelivered, MarkFailed, RemoveMessage, MarkAttempt, Goto, history
  <1>2. RelayTypeOK'
    BY <1>1 DEF RelayTypeOK
  <1>3. Rounds(h)'
    BY <1>0, <1>1 DEF RelayTypeOK, Rounds
  <1>4. RoundsOK'
    BY <1>1, <1>3, OneMoves
  <1> QED
    BY <1>2, <1>4

LEMMA ContinueOK ==
    ASSUME RelayTypeOK, RoundsOK, NEW h \in Readers, Continue(h)
    PROVE  RelayTypeOK' /\ RoundsOK'
  <1>1. /\ Advance(h) /\ peer[h] \in Peers
        /\ UNCHANGED <<held, online, peer, msg, todo, accepted, sent, purged, mixed, damaged>>
    BY DEF Continue, RoundsOK, Rounds, qvars, history
  <1> QED
    BY <1>1, AdvanceOK

LEMMA EndRoundOK ==
    ASSUME RelayTypeOK, RoundsOK, QInv, NEW h \in Readers, EndRound(h)
    PROVE  RelayTypeOK' /\ RoundsOK'
  <1>1. /\ held' = [held EXCEPT ![h] = NilSlice] /\ peer' = [peer EXCEPT ![h] = NoPeer]
        /\ idx' = [idx EXCEPT ![h] = 0] /\ pc' = [pc EXCEPT ![h] = "idle"]
        /\ UNCHANGED <<online, msg, copy, todo, accepted, sent, purged, mixed, damaged>>
    BY DEF EndRound, Goto, history
  <1>2. RelayTypeOK'
    BY <1>1 DEF RelayTypeOK
  <1>3. Rounds(h)'
    BY <1>1 DEF RelayTypeOK, Rounds
  <1>4. \A r \in Readers \ {h} : held'[r] = held[r]
    BY <1>1, GenuineFacts
  <1>5. RoundsOK'
    BY <1>1, <1>3, <1>4, OneMoves
  <1> QED
    BY <1>2, <1>5

(* What Cleanup gives up was accepted. *)
LEMMA CleanQueueOK ==
    ASSUME RelayTypeOK, RoundsOK, QInv, CleanQueue
    PROVE  RelayTypeOK' /\ RoundsOK'
  <1>1. /\ purged' = purged \cup
              UNION {{View(p)[i].body : i \in (1..pending[p].len) \ Survivors(p)} : p \in Peers}
        /\ UNCHANGED <<held, online, pc, peer, msg, idx, copy, todo, accepted, sent, mixed, damaged>>
    BY DEF CleanQueue, Cleanup
  <1>2. \A p \in Peers : \A i \in 1..pending[p].len : View(p)[i].body \in accepted
    BY GenuineFacts DEF OfSender
  <1>3. purged' \subseteq accepted
    BY <1>1, <1>2 DEF RelayTypeOK
  <1> QED
    BY <1>1, <1>3, NoneMoves DEF RelayTypeOK

LEMMA RestartNodeOK ==
    ASSUME RelayTypeOK, RoundsOK, RestartNode
    PROVE  RelayTypeOK' /\ RoundsOK'
  <1>1. /\ online' = {} /\ todo' = {} /\ damaged' \in BOOLEAN
        /\ pc' = [h \in Readers |-> "idle"] /\ peer' = [h \in Readers |-> NoPeer]
        /\ msg' = [h \in Readers |-> NoBody] /\ idx' = [h \in Readers |-> 0]
        /\ copy' = [h \in Readers |-> NoCopy]
        /\ UNCHANGED <<accepted, sent, purged, mixed>>
    BY DEF RestartNode, Restart
  <1>2. NoCopy \in [id: Ids \cup {NoId}, body: Bodies \cup {NoBody}]
    BY DEF NoCopy
  <1>3. RelayTypeOK'
    BY <1>1, <1>2 DEF RelayTypeOK
  <1>4. RoundsOK'
    BY <1>1 DEF RoundsOK, Rounds
  <1> QED
    BY <1>3, <1>4

LEMMA OtherStepsOK ==
    ASSUME RelayTypeOK, RoundsOK,
           \/ \E p \in Peers : GoStale(p) \/ Save(p)
           \/ SaveError \/ PassTime \/ UNCHANGED vars
    PROVE  RelayTypeOK' /\ RoundsOK'
  <1>1. /\ online' \subseteq online
        /\ UNCHANGED <<held, pc, peer, msg, idx, copy, todo, accepted, sent, purged, mixed, damaged>>
    BY DEF GoStale, Save, SaveError, PassTime, SaveRemove, SaveTruncate, SaveWrite, SaveFail, Tick,
           vars, qvars, node, history, memory
  <1> QED
    BY <1>1, NoneMoves DEF RelayTypeOK

(* Types and rounds, over every step of the relay. *)
LEMMA RelayStepOK ==
    ASSUME RelayTypeOK, RoundsOK, QInv, [RNext]_vars
    PROVE  RelayTypeOK' /\ RoundsOK'
  <1>1. ASSUME NEW h \in Readers,
               \/ \E b \in Bodies, from \in Peers \cup {NoPeer} : ReceiveForward(h, b, from)
               \/ CheckOnline(h) \/ DirectDelivery(h) \/ EnqueueForward(h)
               \/ \E p \in Peers : ReceiveAnnounce(h, p)
        PROVE  RelayTypeOK' /\ RoundsOK'
    BY <1>1, ReceiveForwardOK, CheckOnlineOK, DirectDeliveryOK, EnqueueForwardOK, ReceiveAnnounceOK
  <1>2. ASSUME NEW h \in Readers,
               \/ StartRound(h) \/ CopyFirst(h) \/ CopySecond(h) \/ DeliverOk(h) \/ DeliverError(h)
               \/ RemoveDelivered(h) \/ MarkFailed(h) \/ Continue(h) \/ EndRound(h)
        PROVE  RelayTypeOK' /\ RoundsOK'
    BY <1>2, StartRoundOK, CopyFirstOK, CopySecondOK, DeliverOkOK, DeliverErrorOK, ReportOK,
       ContinueOK, EndRoundOK
  <1>3. CASE LoopTick \/ \E p \in Peers : LoopPeer(p)
    BY <1>3, LoopOK
  <1>4. CASE CleanQueue
    BY <1>4, CleanQueueOK
  <1>5. CASE RestartNode
    BY <1>5, RestartNodeOK
  <1>6. CASE \/ \E p \in Peers : GoStale(p) \/ Save(p)
             \/ SaveError \/ PassTime \/ UNCHANGED vars
    BY <1>6, OtherStepsOK
  <1> QED
    BY <1>1, <1>2, <1>3, <1>4, <1>5, <1>6 DEF RNext
-----------------------------------------------------------------------------
(* The messages queued for a peer, by its list. *)
LEMMA BodiesNow ==
    ASSUME Inv, NEW p \in Peers
    PROVE  PendingBodies(p) = {View(p)[i].body : i \in 1..Len(View(p))}
  BY ListFacts DEF PendingBodies

LEMMA BodiesAfter ==
    ASSUME Inv', NEW p \in Peers, NEW v, View(p)' = v
    PROVE  PendingBodies(p)' = {v[i].body : i \in 1..Len(v)}
  <1>1. pending'[p].len \in Nat
    BY DEF Inv, TypeOK, Slice
  <1>2. View(p)' = [i \in 1..pending'[p].len |-> heap'[pending'[p].arr][i]]
    BY DEF View, Contents
  <1>3. Len(v) = pending'[p].len
    BY <1>1, <1>2
  <1> QED
    BY <1>3 DEF PendingBodies

(* A list that did not change. *)
LEMMA BodiesFrame ==
    ASSUME Inv, Inv', NEW p \in Peers, View(p)' = View(p)
    PROVE  PendingBodies(p)' = PendingBodies(p)
  BY BodiesNow, BodiesAfter

(* What a step has to show of the messages that it takes out of a list. *)
LEMMA LossStep ==
    ASSUME NoMessageLost, mixed => mixed', damaged => damaged',
           sent \subseteq sent', purged \subseteq purged',
           \A b \in accepted' \ accepted : b \in PendingBodies(ToOf[b])',
           ASSUME ~mixed', ~damaged'
           PROVE  \A b \in accepted : b \in PendingBodies(ToOf[b]) =>
                     b \in sent' \cup purged' \cup PendingBodies(ToOf[b])'
    PROVE  NoMessageLost'
  <1> SUFFICES ASSUME ~mixed', ~damaged', NEW b \in accepted'
               PROVE  b \in sent' \cup purged' \cup PendingBodies(ToOf[b])'
    BY DEF NoMessageLost
  <1>1. CASE b \in accepted
    <2>1. b \in sent \cup purged \cup PendingBodies(ToOf[b])
      BY <1>1 DEF NoMessageLost
    <2> QED
      BY <1>1, <2>1
  <1>2. CASE b \notin accepted
    BY <1>2
  <1> QED
    BY <1>1, <1>2

(* Steps that leave all lists alone. *)
LEMMA LossFrame ==
    ASSUME QInv, QInv', NoMessageLost, \A p \in Peers : View(p)' = View(p),
           accepted' = accepted, mixed => mixed', damaged => damaged',
           sent \subseteq sent', purged \subseteq purged'
    PROVE  NoMessageLost'
  <1>1. \A p \in Peers : PendingBodies(p)' = PendingBodies(p)
    BY BodiesFrame DEF QInv
  <1>2. \A b \in accepted : ToOf[b] \in Peers
    BY RelayAssumption DEF QInv, Inv, TypeOK
  <1>3. \A b \in accepted : PendingBodies(ToOf[b])' = PendingBodies(ToOf[b])
    BY <1>1, <1>2
  <1> QED
    BY <1>3, LossStep

(* EnqueueForward: the message is at the end of its recipient's list. *)
LEMMA LossEnqueue ==
    ASSUME QInv, QInv', RoundsOK, NoMessageLost, NEW h \in Readers, EnqueueForward(h),
           NEW m \in Bodies, m = msg[h], NEW p \in Peers, p = ToOf[m]
    PROVE  NoMessageLost'
  <1>0. Inv /\ Inv'
    BY DEF QInv
  <1>1. /\ Enqueue(p, m) /\ accepted' = accepted \cup {m}
        /\ UNCHANGED <<sent, purged, mixed, damaged>>
    BY DEF EnqueueForward, Enqueue, history
  <1>2. PICK id \in IdsFor(m) :
           AppendEntry(p, [id |-> id, body |-> m, expires |-> now + TTL, attempts |-> 0])
    BY <1>1 DEF Enqueue
  <1> DEFINE e == [id |-> id, body |-> m, expires |-> now + TTL, attempts |-> 0]
  <1>3. e \in Entry /\ e.body = m
    <2>1. id \in Ids
      BY <1>0, ConstantsAssumption DEF IdsFor
    <2> QED
      BY <1>0, <2>1, ConstantsAssumption DEF Entry, Inv, TypeOK
  <1>4. AppendEntry(p, e) /\ held' = held
    BY <1>1, <1>2 DEF Enqueue
  <1> HIDE DEF e
  <1>5. View(p)' = Append(View(p), e) /\ OthersKept(p) /\ View(p) \in Seq(Entry)
    BY <1>0, <1>3, <1>4, ViewAppend, ListFacts
  <1>6. PendingBodies(p) \cup {m} \subseteq PendingBodies(p)'
    <2> DEFINE v == Append(View(p), e)
    <2>1. /\ Len(v) = Len(View(p)) + 1 /\ Len(View(p)) \in Nat /\ v[Len(v)] = e
          /\ \A i \in 1..Len(View(p)) : v[i] = View(p)[i]
      BY <1>3, <1>5
    <2>2. View(p)' = v
      BY <1>5
    <2> HIDE DEF v
    <2>3. PendingBodies(p)' = {v[i].body : i \in 1..Len(v)}
      BY <1>0, <2>2, BodiesAfter
    <2>4. PendingBodies(p) = {View(p)[i].body : i \in 1..Len(View(p))}
      BY <1>0, BodiesNow
    <2>5. m \in PendingBodies(p)'
      BY <1>3, <2>1, <2>3
    <2>6. \A i \in 1..Len(View(p)) : i \in 1..Len(v) /\ v[i] = View(p)[i]
      BY <2>1
    <2>7. PendingBodies(p) \subseteq PendingBodies(p)'
      BY <2>3, <2>4, <2>6
    <2> QED
      BY <2>5, <2>7
  <1>7. \A q \in Peers : PendingBodies(q) \subseteq PendingBodies(q)'
    BY <1>0, <1>5, <1>6, BodiesFrame DEF OthersKept
  <1>8. \A b \in accepted : ToOf[b] \in Peers
    BY <1>0, RelayAssumption DEF Inv, TypeOK
  <1>9. \A b \in accepted' \ accepted : b \in PendingBodies(ToOf[b])'
    BY <1>1, <1>6
  <1> QED
    BY <1>1, <1>7, <1>8, <1>9, LossStep

(* RemoveDelivered: the message it takes out is the one that was delivered, *)
(* unless IDs are shared or a copy mixed two messages.                      *)
LEMMA LossRemove ==
    ASSUME OwnIds, QInv, QInv', RelayTypeOK, RoundsOK, NoMessageLost,
           NEW h \in Readers, RemoveDelivered(h), NEW p \in Peers, p = peer[h],
           NEW id \in Ids, id = copy[h].id
    PROVE  NoMessageLost'
  <1>0. /\ copy[h].body \in sent /\ copy[h].body \in Bodies
        /\ ~mixed => id = IdOf[copy[h].body]
        /\ Inv /\ Inv'
    BY DEF RemoveDelivered, RoundsOK, Rounds, QInv
  <1>1. /\ RemoveMessage(p, id) /\ accepted' = accepted
        /\ UNCHANGED <<sent, purged, mixed, damaged>>
    BY DEF RemoveDelivered, RemoveMessage, history
  <1>2. CASE UNCHANGED <<heap, pending, dirty>>
    <2>1. \A q \in Peers : View(q)' = View(q)
      BY <1>2 DEF View, Contents
    <2> QED
      BY <1>1, <2>1, LossFrame
  <1>3. ASSUME NEW i \in FirstWith(p, id),
               heap' = [heap EXCEPT ![pending[p].arr] =
                  [j \in 1..Len(@) |-> IF i <= j /\ j < pending[p].len THEN @[j + 1] ELSE @[j]]],
               pending' = [pending EXCEPT ![p].len = @ - 1]
        PROVE  NoMessageLost'
    <2> DEFINE n == Len(View(p))
               v == [j \in 1..(n - 1) |-> IF j < i THEN View(p)[j] ELSE View(p)[j + 1]]
    <2>1. /\ i \in 1..pending[p].len /\ View(p)[i].id = id
          /\ n = pending[p].len /\ n \in Nat /\ View(p) \in Seq(Entry)
      BY <1>0, ListFacts DEF FirstWith
    <2>2. View(p)' = v /\ OthersKept(p)
      BY <1>0, <1>3, <2>1, ViewRemove
    <2>3. ~mixed => View(p)[i].body = copy[h].body
      <3>1. OfSender(View(p)[i], accepted)
        BY <1>0, <2>1, GenuineFacts
      <3>2. View(p)[i].body \in Bodies /\ View(p)[i].id = IdOf[View(p)[i].body]
        BY <3>1, <1>0 DEF OfSender, Inv, TypeOK
      <3> QED
        BY <1>0, <2>1, <3>2 DEF OwnIds
    <2>4. \A j \in 1..n : j # i => \E k \in 1..(n - 1) : v[k] = View(p)[j]
      <3> SUFFICES ASSUME NEW j \in 1..n, j # i
                   PROVE  \E k \in 1..(n - 1) : v[k] = View(p)[j]
        OBVIOUS
      <3>1. CASE j < i
        <4>1. j \in 1..(n - 1)
          BY <2>1, <3>1
        <4>2. v[j] = View(p)[j]
          BY <3>1, <4>1
        <4> QED
          BY <4>1, <4>2
      <3>2. CASE j > i
        <4>1. j - 1 \in 1..(n - 1) /\ ~(j - 1 < i) /\ (j - 1) + 1 = j
          BY <2>1, <3>2
        <4>2. v[j - 1] = View(p)[j]
          BY <4>1
        <4>3. j - 1 \in 1..(n - 1)
          BY <4>1
        <4> HIDE DEF v, n
        <4> WITNESS j - 1 \in 1..(n - 1)
        <4> QED
          BY <4>2
      <3>3. j < i \/ j > i
        BY <2>1
      <3> HIDE DEF v, n
      <3> QED
        BY <3>1, <3>2, <3>3
    <2>5. Len(v) = n - 1
      <3>1. n - 1 \in Nat
        BY <2>1
      <3> QED
        BY <3>1
    <2> HIDE DEF v
    <2>6. PendingBodies(p)' = {v[k].body : k \in 1..Len(v)}
      BY <1>0, <2>2, BodiesAfter
    <2>7. PendingBodies(p) = {View(p)[j].body : j \in 1..n}
      BY <1>0, BodiesNow
    <2>8. \A b \in PendingBodies(p) : b = View(p)[i].body \/ b \in PendingBodies(p)'
      <3> HIDE DEF n
      <3> SUFFICES ASSUME NEW j \in 1..n
                   PROVE  View(p)[j].body = View(p)[i].body \/ View(p)[j].body \in PendingBodies(p)'
        BY <2>7
      <3>1. CASE j = i
        BY <3>1
      <3>2. CASE j # i
        BY <2>4, <2>5, <2>6, <3>2
      <3> QED
        BY <3>1, <3>2
    <2>9. ~mixed' => \A q \in Peers : PendingBodies(q) \subseteq sent' \cup PendingBodies(q)'
      <3>1. \A q \in Peers \ {p} : PendingBodies(q)' = PendingBodies(q)
        BY <1>0, <2>2, BodiesFrame DEF OthersKept
      <3> QED
        BY <1>0, <1>1, <2>3, <2>8, <3>1
    <2>10. \A b \in accepted : ToOf[b] \in Peers
      BY <1>0, RelayAssumption DEF Inv, TypeOK
    <2> QED
      BY <1>1, <2>9, <2>10, LossStep
  <1> QED
    BY <1>1, <1>2, <1>3 DEF RemoveMessage

(* MarkFailed: the list holds the same messages. *)
LEMMA LossMark ==
    ASSUME QInv, QInv', NoMessageLost, NEW h \in Readers, MarkFailed(h),
           NEW p \in Peers, p = peer[h], NEW id \in Ids, id = copy[h].id
    PROVE  NoMessageLost'
  <1>0. Inv /\ Inv'
    BY DEF QInv
  <1>1. /\ MarkAttempt(p, id) /\ accepted' = accepted /\ pending' = pending
        /\ UNCHANGED <<sent, purged, mixed, damaged>>
    BY DEF MarkFailed, MarkAttempt, history
  <1>2. CASE UNCHANGED heap
    <2>1. \A q \in Peers : View(q)' = View(q)
      BY <1>1, <1>2 DEF View, Contents
    <2> QED
      BY <1>1, <2>1, LossFrame
  <1>3. ASSUME NEW i \in FirstWith(p, id),
               heap' = [heap EXCEPT ![pending[p].arr][i].attempts =
                           IF @ < MaxRetry THEN @ + 1 ELSE @]
        PROVE  NoMessageLost'
    <2> DEFINE e == [View(p)[i] EXCEPT !.attempts = IF @ < MaxRetry THEN @ + 1 ELSE @]
               v == [View(p) EXCEPT ![i] = e]
    <2>1. /\ i \in 1..pending[p].len /\ Len(View(p)) = pending[p].len /\ View(p) \in Seq(Entry)
      BY <1>0, ListFacts DEF FirstWith
    <2>2. View(p)' = v /\ OthersKept(p)
      BY <1>0, <1>1, <1>3, <2>1, ViewMark
    <2>3. View(p)[i] \in Entry
      BY <2>1
    <2>4. e \in Entry /\ e.body = View(p)[i].body
      BY <2>3, MarkedEntry
    <2> HIDE DEF e
    <2>5. Len(v) = Len(View(p)) /\ \A j \in 1..Len(View(p)) : v[j].body = View(p)[j].body
      BY <2>1, <2>4
    <2> HIDE DEF v
    <2>6. PendingBodies(p)' = {v[j].body : j \in 1..Len(v)}
      BY <1>0, <2>2, BodiesAfter
    <2>7. PendingBodies(p)' = PendingBodies(p)
      BY <1>0, <2>5, <2>6, BodiesNow
    <2>8. \A q \in Peers : PendingBodies(q)' = PendingBodies(q)
      BY <1>0, <2>2, <2>7, BodiesFrame DEF OthersKept
    <2>9. \A b \in accepted : ToOf[b] \in Peers
      BY <1>0, RelayAssumption DEF Inv, TypeOK
    <2> QED
      BY <1>1, <2>8, <2>9, LossStep
  <1> QED
    BY <1>1, <1>2, <1>3 DEF MarkAttempt

(* CleanQueue: a message is among the survivors, or is given up. *)
LEMMA LossCleanup ==
    ASSUME QInv, QInv', NoMessageLost, CleanQueue
    PROVE  NoMessageLost'
  <1>0. Inv /\ Inv' /\ Cleanup /\ \A p \in Peers : InOrder(Survivors(p)) # {}
    BY DEF QInv, CleanQueue, Cleanup
  <1>1. /\ purged' = purged \cup
              UNION {{View(p)[i].body : i \in (1..pending[p].len) \ Survivors(p)} : p \in Peers}
        /\ accepted' = accepted /\ UNCHANGED <<sent, mixed, damaged>>
    BY DEF CleanQueue, Cleanup
  <1>2. \A p \in Peers : PendingBodies(p) \subseteq purged' \cup PendingBodies(p)'
    <2> SUFFICES ASSUME NEW p \in Peers, NEW i \in 1..pending[p].len
                 PROVE  View(p)[i].body \in purged' \cup PendingBodies(p)'
      BY DEF PendingBodies
    <2>1. CASE i \in Survivors(p)
      <3>1. PICK k \in 1..Len(Valid(p)) : Valid(p)[k] = View(p)[i]
        BY <1>0, <2>1, ValidElements
      <3>2. PendingBodies(p)' = {Valid(p)[j].body : j \in 1..Len(Valid(p))}
        BY <1>0, ViewCleanup, BodiesAfter
      <3>3. Valid(p)[k].body \in PendingBodies(p)'
        BY <3>2
      <3> QED
        BY <3>1, <3>3
    <2>2. CASE i \notin Survivors(p)
      BY <1>1, <2>2
    <2> QED
      BY <2>1, <2>2
  <1>3. \A b \in accepted : ToOf[b] \in Peers
    BY <1>0, RelayAssumption DEF Inv, TypeOK
  <1> QED
    BY <1>1, <1>2, <1>3, LossStep

(* RestartNode: unless a save was interrupted or had failed, the files are *)
(* the lists.                                                              *)
LEMMA LossRestart ==
    ASSUME QInv, QInv', NoMessageLost, RestartNode
    PROVE  NoMessageLost'
  <1>0. Inv /\ Inv' /\ Restart
    BY DEF QInv, RestartNode
  <1>1. /\ damaged' = (damaged \/ dirty # {} \/ failed # {}) /\ accepted' = accepted
        /\ UNCHANGED <<sent, purged, mixed>>
    BY DEF RestartNode, Restart
  <1>2. ~damaged' => \A p \in Peers : View(p)' = View(p)
    BY <1>0, <1>1, ViewRestart DEF Inv, SavedWhenUnlocked
  <1>3. ~damaged' => \A p \in Peers : PendingBodies(p)' = PendingBodies(p)
    BY <1>0, <1>2, BodiesFrame
  <1>4. \A b \in accepted : ToOf[b] \in Peers
    BY <1>0, RelayAssumption DEF Inv, TypeOK
  <1> QED
    BY <1>1, <1>3, <1>4, LossStep

(* Steps that do not touch the queue, or only its files, clock or readers. *)
LEMMA LossElse ==
    ASSUME QInv, QInv', RoundsOK, NoMessageLost,
           \/ UNCHANGED qvars
           \/ \E h \in Readers : StartRound(h) \/ EndRound(h)
           \/ SaveStep \/ Tick,
           mixed => mixed', damaged => damaged', sent \subseteq sent', purged \subseteq purged'
    PROVE  NoMessageLost'
  <1>0. Inv
    BY DEF QInv
  <1>1. ASSUME \A p \in Peers : View(p)' = View(p), accepted' = accepted PROVE NoMessageLost'
    BY <1>1, LossFrame
  <1>2. CASE UNCHANGED qvars \/ SaveStep \/ Tick
    <2>1. UNCHANGED <<heap, pending, accepted>>
      BY <1>2 DEF qvars, SaveStep, SaveRemove, SaveTruncate, SaveWrite, SaveFail, Tick, memory
    <2>2. \A p \in Peers : View(p)' = View(p)
      BY <2>1 DEF View, Contents
    <2> QED
      BY <1>1, <2>1, <2>2
  <1>3. ASSUME NEW h \in Readers, StartRound(h) PROVE NoMessageLost'
    <2>1. peer[h] \in Peers /\ Peek(h, peer[h]) /\ accepted' = accepted
      BY <1>3 DEF StartRound, RoundsOK, Rounds, Peek
    <2>2. \A p \in Peers : View(p)' = View(p)
      BY <1>0, <2>1, ViewPeek
    <2> QED
      BY <1>1, <2>1, <2>2
  <1>4. ASSUME NEW h \in Readers, EndRound(h) PROVE NoMessageLost'
    <2>1. /\ held' = [held EXCEPT ![h] = NilSlice] /\ heap' = Collect(heap, pending, held')
          /\ pending' = pending /\ accepted' = accepted
      BY <1>4 DEF EndRound
    <2>2. /\ heap \in [Arrays \cup {NilArray} -> Seq(Slot)] /\ pending \in [Peers -> Slice]
          /\ held \in [Readers -> Slice] /\ NilSlice \in Slice
      BY GenuineFacts
    <2>3. held' \in [Readers -> Slice]
      BY <2>1, <2>2
    <2>4. \A p \in Peers : heap'[pending[p].arr] = heap[pending[p].arr]
      <3>1. heap' = Collect(heap, pending, held')
        BY <2>1
      <3> QED
        BY ONLY <2>2, <2>3, <3>1, CollectType
    <2>5. \A p \in Peers : View(p)' = View(p)
      BY <2>1, <2>4, ViewFrame
    <2> QED
      BY <1>1, <2>1, <2>5
  <1> QED
    BY <1>2, <1>3, <1>4

LEMMA LossNext ==
    ASSUME OwnIds, QInv, QInv', RelayTypeOK, RoundsOK, NoMessageLost, [RNext]_vars
    PROVE  NoMessageLost'
  <1>0. \A h \in Readers :
           /\ pc[h] = "enqueue" => msg[h] \in Bodies
           /\ pc[h] \in {"remove", "mark"} => peer[h] \in Peers /\ copy[h].id \in Ids
    BY DEF RoundsOK, Rounds
  <1>1. ASSUME NEW h \in Readers, EnqueueForward(h) PROVE NoMessageLost'
    <2>1. msg[h] \in Bodies /\ ToOf[msg[h]] \in Peers
      BY <1>0, <1>1, RelayAssumption DEF EnqueueForward
    <2> QED
      BY <1>1, <2>1, LossEnqueue
  <1>2. ASSUME NEW h \in Readers, RemoveDelivered(h) PROVE NoMessageLost'
    <2>1. peer[h] \in Peers /\ copy[h].id \in Ids
      BY <1>0, <1>2 DEF RemoveDelivered
    <2> QED
      BY <1>2, <2>1, LossRemove
  <1>3. ASSUME NEW h \in Readers, MarkFailed(h) PROVE NoMessageLost'
    <2>1. peer[h] \in Peers /\ copy[h].id \in Ids
      BY <1>0, <1>3 DEF MarkFailed
    <2> QED
      BY <1>3, <2>1, LossMark
  <1>4. CASE CleanQueue
    BY <1>4, LossCleanup
  <1>5. CASE RestartNode
    BY <1>5, LossRestart
  <1>6. ASSUME NEW h \in Readers,
               \/ \E b \in Bodies, from \in Peers \cup {NoPeer} : ReceiveForward(h, b, from)
               \/ CheckOnline(h) \/ DirectDelivery(h)
               \/ \E p \in Peers : ReceiveAnnounce(h, p)
               \/ CopyFirst(h) \/ DeliverOk(h) \/ DeliverError(h) \/ Continue(h)
        PROVE  NoMessageLost'
    <2>1. UNCHANGED <<qvars, purged, mixed, damaged>> /\ sent \subseteq sent'
      BY <1>6 DEF ReceiveForward, CheckOnline, DirectDelivery, ReceiveAnnounce, CopyFirst,
                  DeliverOk, DeliverError, Continue, history
    <2> QED
      BY <2>1, LossElse
  <1>10. ASSUME NEW h \in Readers, CopySecond(h) PROVE NoMessageLost'
    <2>1. UNCHANGED <<qvars, sent, purged, damaged>> /\ (mixed => mixed')
      BY <1>10 DEF CopySecond
    <2> QED
      BY <2>1, LossElse
  <1>7. ASSUME NEW h \in Readers, StartRound(h) \/ EndRound(h) PROVE NoMessageLost'
    <2>1. UNCHANGED <<sent, purged, mixed, damaged>>
      BY <1>7 DEF StartRound, EndRound, history
    <2> QED
      BY <1>7, <2>1, LossElse
  <1>8. CASE LoopTick \/ \E p \in Peers : LoopPeer(p) \/ GoStale(p)
    <2>1. UNCHANGED <<qvars, sent, purged, mixed, damaged>>
      BY <1>8 DEF LoopTick, LoopPeer, GoStale, history
    <2> QED
      BY <2>1, LossElse
  <1>9. CASE (\E p \in Peers : Save(p)) \/ SaveError \/ PassTime \/ UNCHANGED vars
    <2>1. /\ UNCHANGED <<sent, purged, mixed, damaged>>
          /\ SaveStep \/ Tick \/ UNCHANGED qvars
      BY <1>9 DEF Save, SaveError, PassTime, SaveStep, vars, node, history
    <2> QED
      BY <2>1, LossElse
  <1> QED
    BY <1>1, <1>2, <1>3, <1>4, <1>5, <1>6, <1>7, <1>8, <1>9, <1>10 DEF RNext
-----------------------------------------------------------------------------
LEMMA RInvInit == RInit => RInv
  <1> SUFFICES ASSUME RInit PROVE RInv
    OBVIOUS
  <1>1. QInv
    BY QInvInit DEF RInit
  <1>2. NoCopy \in [id: Ids \cup {NoId}, body: Bodies \cup {NoBody}]
    BY DEF NoCopy
  <1>3. RelayTypeOK
    BY <1>2 DEF RInit, Init, RelayTypeOK
  <1>4. RoundsOK
    BY DEF RInit, RoundsOK, Rounds
  <1>5. NoMessageLost
    BY DEF RInit, Init, NoMessageLost
  <1> QED
    BY <1>1, <1>3, <1>4, <1>5 DEF RInv

LEMMA RInvNext == RInv /\ [RNext]_vars => RInv'
  <1> SUFFICES ASSUME RInv, [RNext]_vars PROVE RInv'
    OBVIOUS
  <1>1. QInv'
    BY QueueStepOfRelay, QInvNext DEF RInv
  <1>2. RelayTypeOK' /\ RoundsOK'
    BY RelayStepOK DEF RInv
  <1>3. ASSUME OwnIds PROVE NoMessageLost'
    BY <1>1, <1>3, LossNext DEF RInv
  <1>4. OwnIds => NoMessageLost'
    BY <1>3
  <1> QED
    BY <1>1, <1>2, <1>4 DEF RInv, OwnIds

(* Type correctness of the relay node: among other things, Cleanup only    *)
(* ever gives up messages that were accepted.                              *)
THEOREM RelayTypeCorrect == RSpec => []RelayTypeOK
  <1>1. RInv => RelayTypeOK
    BY DEF RInv
  <1> QED
    BY <1>1, RInvInit, RInvNext, PTL DEF RSpec

(* Composition: however the handlers, the delivery loop and the cleanup    *)
(* loop interleave, what they do to the queue is a behaviour of            *)
(* MessageQueue, so its theorems hold in the relay.                        *)
THEOREM RelayUsesMessageQueue == RSpec => UsesMessageQueue
  <1>1. RInit => Init
    BY DEF RInit
  <1>2. RInv /\ [RNext]_vars => [Next]_qvars
    BY QueueStepOfRelay DEF RInv
  <1> QED
    BY <1>1, <1>2, RInvInit, RInvNext, PTL DEF RSpec, UsesMessageQueue, Spec

(* No message is lost between any number of concurrent rounds, provided    *)
(* that no two messages share an ID: each one accepted is still queued for *)
(* its recipient, was written to a stream, or was given up by Cleanup, as  *)
(* long as no copy mixed two messages and no restart met a bad save.       *)
THEOREM RelayLosesNothing ==
    ASSUME OwnIds
    PROVE  RSpec => []NoMessageLost
  <1>1. RInv => NoMessageLost
    BY DEF RInv
  <1> QED
    BY <1>1, RInvInit, RInvNext, PTL DEF RSpec
=============================================================================
