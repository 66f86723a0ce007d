------------------------- MODULE MessageQueueProofs -------------------------
(***************************************************************************)
(* Proofs about MessageQueue, for every set of peers, messages, readers    *)
(* and arrays and every bound.                                             *)
(***************************************************************************)
EXTENDS MessageQueue, FiniteSetTheorems, TLAPS

(* The inductive invariant: the heap discipline is needed to show that an  *)
(* operation for one peer leaves the lists, and so the files, of the       *)
(* others as they are, and that what Peek handed out stays readable.       *)
Inv == TypeOK /\ HeapOK /\ PeekedReadable /\ SavedWhenUnlocked
-----------------------------------------------------------------------------
(* The messages of a list in memory. *)
LEMMA ViewType ==
    ASSUME TypeOK, HeapOK, NEW p \in Peers
    PROVE  /\ View(p) \in Seq(Entry)
           /\ Len(View(p)) = pending[p].len
           /\ \A i \in 1..pending[p].len : View(p)[i] = heap[pending[p].arr][i]
  <1>1. pending[p].len \in Nat
    BY DEF TypeOK, Slice
  <1>2. \A i \in 1..pending[p].len : heap[pending[p].arr][i] \in Entry
    BY DEF HeapOK
  <1>3. View(p) \in [1..pending[p].len -> Entry]
    BY <1>2 DEF View, Contents
  <1> QED
    BY <1>1, <1>3 DEF View, Contents

(* What a restart would read is a list of messages. *)
LEMMA LoadedType ==
    ASSUME TypeOK, NEW p \in Peers
    PROVE  Loaded(p) \in Seq(Entry)
  BY DEF TypeOK, File, Loaded

(* append and make yield distinct arrays. *)
LEMMA NewArraysType ==
    ASSUME NEW S, NEW A, ExistsInjection(S, A)
    PROVE  /\ NewArrays(S, A) \in [S -> A]
           /\ \A x, y \in S : NewArrays(S, A)[x] = NewArrays(S, A)[y] => x = y
  <1>1. NewArrays(S, A) \in Injection(S, A)
    BY DEF ExistsInjection, NewArrays
  <1> QED
    BY <1>1 DEF Injection, IsInjective

(* A new array holds the list it was made for. *)
LEMMA ArrayOfType ==
    ASSUME NEW s \in Seq(Entry), NEW c \in Nat, Len(s) <= c
    PROVE  /\ ArrayOf(s, c) \in Seq(Slot)
           /\ Len(ArrayOf(s, c)) = c
           /\ \A i \in 1..Len(s) : ArrayOf(s, c)[i] = s[i]
  <1>1. \A i \in 1..Len(s) : s[i] \in Entry
    OBVIOUS
  <1>2. ArrayOf(s, c) \in [1..c -> Slot]
    BY <1>1 DEF ArrayOf, Slot
  <1> QED
    BY <1>2 DEF ArrayOf

LEMMA CapForType ==
    ASSUME NEW n \in Nat
    PROVE  CapFor(n) \in Nat /\ n <= CapFor(n)
  BY DEF CapFor

(* The garbage collector leaves alone what is referred to. *)
LEMMA CollectType ==
    ASSUME NEW h \in [Arrays \cup {NilArray} -> Seq(Slot)],
           NEW pd \in [Peers -> Slice], NEW hd \in [Readers -> Slice]
    PROVE  /\ Collect(h, pd, hd) \in [Arrays \cup {NilArray} -> Seq(Slot)]
           /\ \A p \in Peers : Collect(h, pd, hd)[pd[p].arr] = h[pd[p].arr]
           /\ \A r \in Readers : Collect(h, pd, hd)[hd[r].arr] = h[hd[r].arr]
           /\ h[NilArray] = <<>> => Collect(h, pd, hd)[NilArray] = <<>>
  <1>1. <<>> \in Seq(Slot)
    OBVIOUS
  <1>2. \A p \in Peers : pd[p].arr \in Arrays \cup {NilArray} /\ pd[p].arr \in Arrs(pd)
    BY DEF Slice, Arrs
  <1>3. \A r \in Readers : hd[r].arr \in Arrays \cup {NilArray} /\ hd[r].arr \in Arrs(hd)
    BY DEF Slice, Arrs
  <1> QED
    BY <1>1, <1>2, <1>3 DEF Collect

(* An allocated array is referred to by nobody else. *)
LEMMA FreeArraysUnused ==
    ASSUME TypeOK, NEW a \in FreeArrays
    PROVE  /\ a \in Arrays /\ a # NilArray
           /\ \A p \in Peers : pending[p].arr # a
           /\ \A r \in Readers : held[r].arr # a
  BY ConstantsAssumption DEF FreeArrays, Arrs, TypeOK
-----------------------------------------------------------------------------
(* A step that touches neither a list nor its array leaves the list alone. *)
LEMMA ViewFrame ==
    ASSUME NEW p \in Peers, pending'[p] = pending[p],
           heap'[pending[p].arr] = heap[pending[p].arr]
    PROVE  View(p)' = View(p)
  BY DEF View, Contents

LEMMA InvInit == Init => Inv
  <1> SUFFICES ASSUME Init PROVE Inv
    OBVIOUS
  <1> USE ConstantsAssumption
  <1>1. TypeOK
    <2>1. <<>> \in Seq(Slot) /\ <<>> \in Seq(Entry)
      OBVIOUS
    <2> QED
      BY <2>1 DEF Init, TypeOK, NilSlice, Slice, NoFile, File
  <1>2. HeapOK /\ PeekedReadable
    BY DEF Init, HeapOK, PeekedReadable, NilSlice, Cap
  <1>3. SavedWhenUnlocked
    BY DEF Init, SavedWhenUnlocked, Loaded, NoFile, View, Contents, NilSlice
  <1> QED
    BY <1>1, <1>2, <1>3 DEF Inv

(* The save steps change only files and the bookkeeping of saving. *)
LEMMA InvSave ==
    ASSUME Inv, NEW p \in Peers,
           SaveRemove(p) \/ SaveTruncate(p) \/ SaveWrite(p) \/ SaveFail(p)
    PROVE  Inv'
  <1> USE ConstantsAssumption DEF Inv
  <1>1. View(p) \in Seq(Entry)
    BY ViewType
  <1>2. UNCHANGED <<heap, pending, held, now, accepted>>
    BY DEF SaveRemove, SaveTruncate, SaveWrite, SaveFail, memory
  <1>3. HeapOK' /\ PeekedReadable'
    BY <1>2 DEF HeapOK, PeekedReadable, Cap
  <1>4. \A q \in Peers : View(q)' = View(q)
    BY <1>2 DEF View, Contents
  <1>5. CASE SaveRemove(p)
    <2>1. TypeOK'
      BY <1>2, <1>5 DEF SaveRemove, TypeOK, NoFile, File
    <2>2. View(p) = <<>>
      BY <1>5, ViewType DEF SaveRemove
    <2>3. SavedWhenUnlocked'
      BY <1>4, <1>5, <2>2 DEF SaveRemove, SavedWhenUnlocked, Loaded, NoFile, TypeOK
    <2> QED
      BY <1>3, <2>1, <2>3
  <1>6. CASE SaveTruncate(p)
    <2>1. TypeOK'
      BY <1>2, <1>6 DEF SaveTruncate, TypeOK, TornFile, File
    <2>2. SavedWhenUnlocked'
      BY <1>4, <1>6 DEF SaveTruncate, SavedWhenUnlocked, Loaded, TornFile, TypeOK
    <2> QED
      BY <1>3, <2>1, <2>2
  <1>7. CASE SaveWrite(p)
    <2>1. TypeOK'
      BY <1>1, <1>2, <1>7 DEF SaveWrite, TypeOK, File
    <2>2. SavedWhenUnlocked'
      BY <1>4, <1>7 DEF SaveWrite, SavedWhenUnlocked, Loaded, TypeOK
    <2> QED
      BY <1>3, <2>1, <2>2
  <1>8. CASE SaveFail(p)
    <2>1. TypeOK'
      BY <1>2, <1>8 DEF SaveFail, TypeOK
    <2>2. SavedWhenUnlocked'
      BY <1>4, <1>8 DEF SaveFail, SavedWhenUnlocked, Loaded, TypeOK
    <2> QED
      BY <1>3, <2>1, <2>2
  <1> QED
    BY <1>5, <1>6, <1>7, <1>8

(* Peek and Drop only move references. *)
LEMMA InvPeek ==
    ASSUME Inv, NEW r \in Readers, Drop(r) \/ \E p \in Peers : Peek(r, p)
    PROVE  Inv'
  <1> USE ConstantsAssumption DEF Inv
  <1>0. /\ heap \in [Arrays \cup {NilArray} -> Seq(Slot)] /\ pending \in [Peers -> Slice]
        /\ held \in [Readers -> Slice] /\ NilSlice \in Slice /\ heap[NilArray] = <<>>
    BY DEF TypeOK, HeapOK, NilSlice, Slice
  <1>1. held' \in [Readers -> Slice]
    BY <1>0 DEF Peek, Drop
  <1>2. /\ UNCHANGED <<pending, disk, dirty, writing, failed, now, accepted, faults>>
        /\ heap' = Collect(heap, pending, held')
    BY DEF Peek, Drop, files
  <1>3. /\ heap' \in [Arrays \cup {NilArray} -> Seq(Slot)]
        /\ \A q \in Peers : heap'[pending[q].arr] = heap[pending[q].arr]
        /\ \A x \in Readers : heap'[held'[x].arr] = heap[held'[x].arr]
        /\ heap'[NilArray] = <<>>
    <2>1. Collect(heap, pending, held') \in [Arrays \cup {NilArray} -> Seq(Slot)]
      BY ONLY <1>0, <1>1, CollectType
    <2>2. \A q \in Peers : Collect(heap, pending, held')[pending[q].arr] = heap[pending[q].arr]
      BY ONLY <1>0, <1>1, CollectType
    <2>3. \A x \in Readers : Collect(heap, pending, held')[held'[x].arr] = heap[held'[x].arr]
      BY ONLY <1>0, <1>1, CollectType
    <2>4. Collect(heap, pending, held')[NilArray] = <<>>
      BY ONLY <1>0, <1>1, CollectType
    <2> QED
      BY <1>2, <2>1, <2>2, <2>3, <2>4
  <1>4. TypeOK'
    BY <1>1, <1>2, <1>3 DEF TypeOK
  <1>5. HeapOK'
    BY <1>2, <1>3 DEF HeapOK, Cap
  <1>6. PeekedReadable'
    <2>1. \A x \in Readers :
            /\ held'[x].len <= Len(heap[held'[x].arr])
            /\ \A i \in 1..held'[x].len : heap[held'[x].arr][i] \in Entry
      BY DEF Peek, Drop, TypeOK, PeekedReadable, HeapOK, Cap, NilSlice
    <2> QED
      BY <1>3, <2>1 DEF PeekedReadable, Cap
  <1>7. SavedWhenUnlocked'
    BY <1>2, <1>3, ViewFrame DEF SavedWhenUnlocked, Loaded
  <1> QED
    BY <1>4, <1>5, <1>6, <1>7
-----------------------------------------------------------------------------
(* What an operation on the list of one peer has to show: the new slice    *)
(* fits its array and holds messages, nobody else's slice is touched, what *)
(* readers hold stays readable, and the peer is to be saved.               *)
LEMMA InvPeerStep ==
    ASSUME Inv, NEW p \in Peers,
           heap' \in [Arrays \cup {NilArray} -> Seq(Slot)],
           pending' \in [Peers -> Slice],
           heap'[NilArray] = <<>>,
           pending'[p].len <= Len(heap'[pending'[p].arr]),
           \A i \in 1..pending'[p].len : heap'[pending'[p].arr][i] \in Entry,
           \A q \in Peers \ {p} :
              /\ pending'[q] = pending[q]
              /\ heap'[pending[q].arr] = heap[pending[q].arr]
              /\ pending[q].arr = pending'[p].arr => pending[q].arr = NilArray,
           \A r \in Readers :
              /\ held[r].len <= Len(heap'[held[r].arr])
              /\ \A i \in 1..held[r].len : heap'[held[r].arr][i] \in Entry,
           dirty = {}, dirty' = {p}, accepted' \subseteq Bodies,
           UNCHANGED <<held, disk, writing, now, failed, faults>>
    PROVE  Inv'
  <1>1. TypeOK'
    BY DEF Inv, TypeOK
  <1>2. HeapOK'
    <2>1. \A q \in Peers :
            /\ pending'[q].len <= Len(heap'[pending'[q].arr])
            /\ \A i \in 1..pending'[q].len : heap'[pending'[q].arr][i] \in Entry
      BY DEF Inv, HeapOK, Cap
    <2>2. \A x, y \in Peers :
            x # y /\ pending'[x].arr = pending'[y].arr => pending'[x].arr = NilArray
      <3>1. \A x, y \in Peers :
              x # y /\ pending[x].arr = pending[y].arr => pending[x].arr = NilArray
        BY DEF Inv, HeapOK
      <3> QED
        BY <3>1
    <2> QED
      BY <2>1, <2>2 DEF HeapOK, Cap
  <1>3. PeekedReadable'
    BY DEF PeekedReadable, Cap
  <1>4. \A q \in Peers \ {p} : View(q)' = View(q)
    BY DEF View, Contents
  <1>5. SavedWhenUnlocked'
    BY <1>4 DEF Inv, SavedWhenUnlocked, Loaded
  <1> QED
    BY <1>1, <1>2, <1>3, <1>5 DEF Inv

(* In-place updates of the array of a peer that keep messages messages. *)
LEMMA InvInPlace ==
    ASSUME Inv, NEW p \in Peers,
           pending[p].arr # NilArray,
           heap' \in [Arrays \cup {NilArray} -> Seq(Slot)],
           \A a \in Arrays \cup {NilArray} : a # pending[p].arr => heap'[a] = heap[a],
           Len(heap'[pending[p].arr]) = Len(heap[pending[p].arr]),
           \A i \in 1..Len(heap[pending[p].arr]) :
              heap[pending[p].arr][i] \in Entry => heap'[pending[p].arr][i] \in Entry,
           pending' \in [Peers -> Slice],
           pending'[p].arr = pending[p].arr,
           pending'[p].len <= Len(heap[pending[p].arr]),
           \A i \in 1..pending'[p].len : heap'[pending[p].arr][i] \in Entry,
           \A q \in Peers \ {p} : pending'[q] = pending[q],
           dirty = {}, dirty' = {p}, accepted' \subseteq Bodies,
           UNCHANGED <<held, disk, writing, now, failed, faults>>
    PROVE  Inv'
  <1>0. /\ heap \in [Arrays \cup {NilArray} -> Seq(Slot)]
        /\ pending \in [Peers -> [arr: Arrays \cup {NilArray}, len: Nat]]
        /\ held \in [Readers -> [arr: Arrays \cup {NilArray}, len: Nat]]
    BY DEF Inv, TypeOK, Slice
  <1>3. heap'[NilArray] = <<>>
    BY DEF Inv, HeapOK
  <1>4. \A q \in Peers \ {p} : pending[q].arr # pending[p].arr
    BY DEF Inv, HeapOK
  <1>5. \A q \in Peers \ {p} : heap'[pending[q].arr] = heap[pending[q].arr]
    BY <1>0, <1>4
  <1>6. \A r \in Readers :
           /\ held[r].len <= Len(heap'[held[r].arr])
           /\ \A i \in 1..held[r].len : heap'[held[r].arr][i] \in Entry
    <2> SUFFICES ASSUME NEW r \in Readers
                 PROVE  /\ held[r].len <= Len(heap'[held[r].arr])
                        /\ \A i \in 1..held[r].len : heap'[held[r].arr][i] \in Entry
      OBVIOUS
    <2>1. /\ held[r].len <= Len(heap[held[r].arr])
          /\ \A i \in 1..held[r].len : heap[held[r].arr][i] \in Entry
          /\ held[r].arr \in Arrays \cup {NilArray} /\ held[r].len \in Nat
      BY <1>0 DEF Inv, PeekedReadable, Cap
    <2>2. CASE held[r].arr = pending[p].arr
      BY <2>1, <2>2
    <2>3. CASE held[r].arr # pending[p].arr
      BY <2>1, <2>3
    <2> QED
      BY <2>2, <2>3
  <1> QED
    BY <1>3, <1>4, <1>5, <1>6, InvPeerStep

(* MarkAttempt *)
LEMMA InvMarkAttempt ==
    ASSUME Inv, NEW p \in Peers, NEW id, MarkAttempt(p, id)
    PROVE  Inv'
  <1>0. /\ pending[p] \in [arr: Arrays \cup {NilArray}, len: Nat]
        /\ pending[p].len <= Len(heap[pending[p].arr])
        /\ heap[pending[p].arr] \in Seq(Slot)
        /\ \A i \in 1..pending[p].len : heap[pending[p].arr][i] \in Entry
    BY DEF Inv, TypeOK, HeapOK, Slice, Cap
  <1>1. CASE UNCHANGED heap
    BY <1>0, <1>1, InvPeerStep DEF MarkAttempt, Unlocked, Inv, TypeOK, HeapOK, PeekedReadable, Cap
  <1>2. ASSUME NEW i \in FirstWith(p, id),
               heap' = [heap EXCEPT ![pending[p].arr][i].attempts =
                           IF @ < MaxRetry THEN @ + 1 ELSE @]
        PROVE  Inv'
    <2> DEFINE a == pending[p].arr
               e == [heap[a][i] EXCEPT !.attempts = IF @ < MaxRetry THEN @ + 1 ELSE @]
               b == [heap[a] EXCEPT ![i] = e]
    <2>1. i \in 1..pending[p].len
      BY DEF FirstWith
    <2>2. heap[a][i] \in Entry
      BY <1>0, <2>1
    <2>3. e \in Entry
      BY <2>2, ConstantsAssumption DEF Entry
    <2>4. b \in Seq(Slot) /\ Len(b) = Len(heap[a])
      BY <1>0, <2>1, <2>3 DEF Slot
    <2>5. \A j \in 1..Len(b) : heap[a][j] \in Entry => b[j] \in Entry
      BY <1>0, <2>3, <2>4
    <2>6. a # NilArray
      BY <1>0, <2>1 DEF Inv, HeapOK
    <2>7. heap' = [heap EXCEPT ![a] = b]
      BY <1>2
    <2>8. pending' = pending /\ pending \in [Peers -> Slice]
      BY DEF MarkAttempt, Inv, TypeOK
    <2>9. /\ dirty = {} /\ dirty' = {p} /\ accepted' \subseteq Bodies
          /\ UNCHANGED <<held, disk, writing, now, failed, faults>>
      BY DEF MarkAttempt, Unlocked, Inv, TypeOK
    <2> HIDE DEF b, e
    <2>10. /\ heap' \in [Arrays \cup {NilArray} -> Seq(Slot)] /\ heap'[a] = b
           /\ \A x \in Arrays \cup {NilArray} : x # a => heap'[x] = heap[x]
      BY <1>0, <2>4, <2>7 DEF Inv, TypeOK
    <2> QED
      BY <2>10, <1>0, <2>1, <2>4, <2>5, <2>6, <2>7, <2>8, <2>9, InvInPlace
  <1> QED
    BY <1>1, <1>2 DEF MarkAttempt

(* RemoveMessage *)
LEMMA InvRemoveMessage ==
    ASSUME Inv, NEW p \in Peers, NEW id, RemoveMessage(p, id)
    PROVE  Inv'
  <1>0. /\ pending[p] \in [arr: Arrays \cup {NilArray}, len: Nat]
        /\ pending[p].len <= Len(heap[pending[p].arr])
        /\ heap[pending[p].arr] \in Seq(Slot)
        /\ \A i \in 1..pending[p].len : heap[pending[p].arr][i] \in Entry
    BY DEF Inv, TypeOK, HeapOK, Slice, Cap
  <1>1. CASE UNCHANGED <<heap, pending, dirty>>
    BY <1>1 DEF RemoveMessage, Inv, TypeOK, HeapOK, PeekedReadable, Cap, SavedWhenUnlocked,
                Loaded, View, Contents
  <1>2. ASSUME NEW i \in FirstWith(p, id),
               heap' = [heap EXCEPT ![pending[p].arr] =
                  [j \in 1..Len(@) |-> IF i <= j /\ j < pending[p].len THEN @[j + 1] ELSE @[j]]],
               pending' = [pending EXCEPT ![p].len = @ - 1],
               dirty' = {p}
        PROVE  Inv'
    <2> DEFINE a == pending[p].arr
               n == pending[p].len
               b == [j \in 1..Len(heap[a]) |-> IF i <= j /\ j < n THEN heap[a][j + 1] ELSE heap[a][j]]
    <2>1. i \in 1..n /\ n - 1 \in Nat
      BY <1>0 DEF FirstWith
    <2>2. \A j \in 1..Len(heap[a]) : heap[a][j] \in Slot
      BY <1>0
    <2>3. b \in Seq(Slot) /\ Len(b) = Len(heap[a])
      BY <1>0, <2>1, <2>2
    <2>4. \A j \in 1..Len(b) : heap[a][j] \in Entry => b[j] \in Entry
      BY <1>0, <2>1, <2>3
    <2>5. \A j \in 1..(n - 1) : b[j] \in Entry
      BY <1>0, <2>1, <2>3
    <2>6. a # NilArray
      BY <1>0, <2>1 DEF Inv, HeapOK
    <2>7. heap' = [heap EXCEPT ![a] = b]
      BY <1>2
    <2>8. pending' = [pending EXCEPT ![p].len = n - 1]
      BY <1>2
    <2>9. /\ dirty = {} /\ dirty' = {p} /\ accepted' \subseteq Bodies
          /\ UNCHANGED <<held, disk, writing, now, failed, faults>>
      BY <1>2 DEF RemoveMessage, Unlocked, Inv, TypeOK
    <2> HIDE DEF b
    <2>10. /\ heap' \in [Arrays \cup {NilArray} -> Seq(Slot)] /\ heap'[a] = b
           /\ \A x \in Arrays \cup {NilArray} : x # a => heap'[x] = heap[x]
      BY <1>0, <2>3, <2>7 DEF Inv, TypeOK
    <2>11. /\ pending' \in [Peers -> Slice] /\ pending'[p].arr = a /\ pending'[p].len = n - 1
           /\ \A q \in Peers \ {p} : pending'[q] = pending[q]
      BY <2>1, <2>8 DEF Inv, TypeOK, Slice
    <2> QED
      <3>1. n - 1 <= Len(heap[a])
        BY <1>0, <2>1
      <3>2. \A j \in 1..pending'[p].len : heap'[a][j] \in Entry
        BY <2>5, <2>10, <2>11
      <3>3. \A j \in 1..Len(heap[a]) : heap[a][j] \in Entry => heap'[a][j] \in Entry
        BY <2>3, <2>4, <2>10
      <3> QED
        BY <2>3, <2>6, <2>9, <2>10, <2>11, <3>1, <3>2, <3>3, InvInPlace
  <1> QED
    BY <1>1, <1>2 DEF RemoveMessage

(* Enqueue, in the array the peer has or in a new one. *)
LEMMA InvAppend ==
    ASSUME Inv, NEW p \in Peers, NEW e \in Entry, AppendEntry(p, e),
           dirty = {}, dirty' = {p}, accepted' \subseteq Bodies,
           UNCHANGED <<held, disk, writing, now, failed, faults>>
    PROVE  Inv'
  <1>0. /\ pending[p] \in [arr: Arrays \cup {NilArray}, len: Nat]
        /\ pending[p].len <= Len(heap[pending[p].arr])
        /\ heap[pending[p].arr] \in Seq(Slot)
        /\ heap \in [Arrays \cup {NilArray} -> Seq(Slot)]
        /\ pending \in [Peers -> Slice] /\ held \in [Readers -> Slice]
        /\ \A i \in 1..pending[p].len : heap[pending[p].arr][i] \in Entry
    BY DEF Inv, TypeOK, HeapOK, Slice, Cap
  <1> DEFINE s == pending[p]
             c == IF s.len = 0 THEN 1 ELSE 2 * s.len
             x == NewArrays({p}, FreeArrays)[p]
             new == ArrayOf(Append(View(p), e), c)
             grown == [heap EXCEPT ![x] = new]
  <1>1. CASE /\ s.len < Cap(s)
             /\ heap' = [heap EXCEPT ![s.arr][s.len + 1] = e]
             /\ pending' = [pending EXCEPT ![p].len = @ + 1]
    <2>1. s.arr # NilArray
      BY <1>0, <1>1 DEF Inv, HeapOK, Cap
    <2>2. heap' = [heap EXCEPT ![s.arr] = [heap[s.arr] EXCEPT ![s.len + 1] = e]]
      BY <1>1
    <2>3. /\ [heap[s.arr] EXCEPT ![s.len + 1] = e] \in Seq(Slot)
          /\ Len([heap[s.arr] EXCEPT ![s.len + 1] = e]) = Len(heap[s.arr])
      BY <1>0, <1>1 DEF Slot, Cap
    <2>4. /\ heap' \in [Arrays \cup {NilArray} -> Seq(Slot)]
          /\ heap'[s.arr] = [heap[s.arr] EXCEPT ![s.len + 1] = e]
          /\ \A a \in Arrays \cup {NilArray} : a # s.arr => heap'[a] = heap[a]
      BY <1>0, <2>2, <2>3
    <2>5. /\ pending' \in [Peers -> Slice]
          /\ pending'[p].arr = s.arr /\ pending'[p].len = s.len + 1
          /\ \A q \in Peers \ {p} : pending'[q] = pending[q]
      BY <1>0, <1>1 DEF Slice
    <2>6. \A i \in 1..Len(heap[s.arr]) : heap[s.arr][i] \in Entry => heap'[s.arr][i] \in Entry
      BY <1>0, <2>4
    <2>7. s.len + 1 <= Len(heap[s.arr])
      BY <1>0, <1>1 DEF Cap
    <2>8. \A i \in 1..pending'[p].len : heap'[s.arr][i] \in Entry
      BY <1>0, <2>4, <2>5, <2>7
    <2> QED
      BY <2>1, <2>3, <2>4, <2>5, <2>6, <2>7, <2>8, InvInPlace
  <1>2. CASE /\ s.len = Cap(s)
             /\ ExistsInjection({p}, FreeArrays)
             /\ pending' = [pending EXCEPT ![p] = [arr |-> x, len |-> s.len + 1]]
             /\ heap' = Collect(grown, pending', held)
    <2>1. x \in FreeArrays
      BY <1>2, NewArraysType
    <2>2. /\ x \in Arrays /\ x # NilArray
          /\ \A q \in Peers : pending[q].arr # x
          /\ \A r \in Readers : held[r].arr # x
      BY <2>1, FreeArraysUnused DEF Inv
    <2>3. /\ View(p) \in Seq(Entry) /\ Len(View(p)) = s.len
          /\ Append(View(p), e) \in Seq(Entry) /\ Len(Append(View(p), e)) = s.len + 1
      BY ViewType DEF Inv
    <2>4. c \in Nat /\ s.len + 1 <= c
      BY <1>0
    <2>5. /\ new \in Seq(Slot) /\ Len(new) = c
          /\ \A i \in 1..(s.len + 1) : new[i] \in Entry
      <3>1. \A i \in 1..(s.len + 1) : Append(View(p), e)[i] \in Entry
        BY <2>3
      <3> HIDE DEF c
      <3> QED
        BY <2>3, <2>4, <3>1, ArrayOfType
    <2> HIDE DEF new, c, x
    <2>6. /\ grown \in [Arrays \cup {NilArray} -> Seq(Slot)]
          /\ grown[x] = new
          /\ \A a \in Arrays \cup {NilArray} : a # x => grown[a] = heap[a]
      BY <1>0, <2>2, <2>5
    <2> HIDE DEF grown
    <2>7. /\ pending' \in [Peers -> Slice]
          /\ pending'[p] = [arr |-> x, len |-> s.len + 1]
          /\ \A q \in Peers \ {p} : pending'[q] = pending[q]
      BY <1>0, <1>2, <2>2 DEF Slice
    <2>8. /\ heap' \in [Arrays \cup {NilArray} -> Seq(Slot)]
          /\ \A q \in Peers : heap'[pending'[q].arr] = grown[pending'[q].arr]
          /\ \A r \in Readers : heap'[held[r].arr] = grown[held[r].arr]
          /\ grown[NilArray] = <<>> => heap'[NilArray] = <<>>
      <3>1. heap' = Collect(grown, pending', held)
        BY <1>2
      <3>2. held \in [Readers -> Slice]
        BY <1>0
      <3> QED
        BY ONLY <2>6, <2>7, <3>1, <3>2, CollectType
    <2>9. heap'[NilArray] = <<>>
      BY <2>2, <2>6, <2>8 DEF Inv, HeapOK
    <2>10. \A q \in Peers \ {p} : heap'[pending[q].arr] = heap[pending[q].arr]
      BY <1>0, <2>2, <2>6, <2>7, <2>8 DEF Slice
    <2>11. heap'[x] = new
      BY <2>6, <2>7, <2>8
    <2>12. \A r \in Readers : heap'[held[r].arr] = heap[held[r].arr]
      BY <1>0, <2>2, <2>6, <2>8 DEF Slice
    <2>13. \A r \in Readers :
              /\ held[r].len <= Len(heap'[held[r].arr])
              /\ \A i \in 1..held[r].len : heap'[held[r].arr][i] \in Entry
      BY <2>12 DEF Inv, PeekedReadable, Cap
    <2>14. /\ pending'[p].len <= Len(heap'[pending'[p].arr])
           /\ \A i \in 1..pending'[p].len : heap'[pending'[p].arr][i] \in Entry
           /\ pending'[p].arr = x
      BY <2>4, <2>5, <2>7, <2>11
    <2> QED
      BY <2>2, <2>7, <2>8, <2>9, <2>10, <2>13, <2>14, InvPeerStep
  <1> QED
    BY <1>1, <1>2 DEF AppendEntry

LEMMA InvEnqueue ==
    ASSUME Inv, NEW p \in Peers, NEW b \in Bodies, Enqueue(p, b)
    PROVE  Inv'
  <1>1. PICK id \in IdsFor(b) :
          AppendEntry(p, [id |-> id, body |-> b, expires |-> now + TTL, attempts |-> 0])
    BY DEF Enqueue
  <1>2. id \in Ids
    BY <1>1, ConstantsAssumption DEF IdsFor
  <1>3. [id |-> id, body |-> b, expires |-> now + TTL, attempts |-> 0] \in Entry
    BY <1>2, ConstantsAssumption DEF Entry, Inv, TypeOK
  <1>4. /\ dirty = {} /\ dirty' = {p} /\ accepted' \subseteq Bodies
        /\ UNCHANGED <<held, disk, writing, now, failed, faults>>
    BY DEF Enqueue, Unlocked, Inv, TypeOK
  <1> QED
    BY <1>1, <1>3, <1>4, InvAppend
-----------------------------------------------------------------------------
(* Steps that replace the slices of many peers: what they have to show.    *)
LEMMA InvRebuild ==
    ASSUME Inv,
           heap' \in [Arrays \cup {NilArray} -> Seq(Slot)],
           pending' \in [Peers -> Slice], held' \in [Readers -> Slice],
           heap'[NilArray] = <<>>,
           \A p \in Peers : /\ pending'[p].len <= Len(heap'[pending'[p].arr])
                            /\ \A i \in 1..pending'[p].len : heap'[pending'[p].arr][i] \in Entry,
           \A p, q \in Peers :
              p # q /\ pending'[p].arr = pending'[q].arr => pending'[p].arr = NilArray,
           \A r \in Readers :
              /\ held'[r].len <= Len(heap'[held'[r].arr])
              /\ \A i \in 1..held'[r].len : heap'[held'[r].arr][i] \in Entry,
           dirty' \subseteq Peers, failed' \subseteq Peers, writing' = NoPeer, faults' \in Nat,
           \A p \in Peers \ (dirty' \cup failed') : Loaded(p) = View(p)',
           UNCHANGED <<disk, now, accepted>>
    PROVE  Inv'
  <1>1. TypeOK'
    BY DEF Inv, TypeOK
  <1>2. HeapOK' /\ PeekedReadable'
    BY DEF HeapOK, PeekedReadable, Cap
  <1>3. \A p \in Peers : Loaded(p)' = Loaded(p)
    BY DEF Loaded
  <1>4. SavedWhenUnlocked'
    BY <1>3 DEF SavedWhenUnlocked
  <1> QED
    BY <1>1, <1>2, <1>4 DEF Inv

LEMMA InvDequeue ==
    ASSUME Inv, NEW r \in Readers, NEW p \in Peers, Dequeue(r, p)
    PROVE  Inv'
  <1>0. /\ heap \in [Arrays \cup {NilArray} -> Seq(Slot)] /\ pending \in [Peers -> Slice]
        /\ held \in [Readers -> Slice] /\ NilSlice \in Slice /\ heap[NilArray] = <<>>
    BY DEF Inv, TypeOK, HeapOK, NilSlice, Slice
  <1>1. /\ pending' \in [Peers -> Slice] /\ pending'[p] = NilSlice
        /\ \A q \in Peers \ {p} : pending'[q] = pending[q]
    BY <1>0 DEF Dequeue
  <1>2. /\ held' \in [Readers -> Slice] /\ held'[r] = pending[p]
        /\ \A x \in Readers \ {r} : held'[x] = held[x]
    BY <1>0 DEF Dequeue
  <1>3. heap' = Collect(heap, pending', held')
    BY DEF Dequeue
  <1>4. /\ heap' \in [Arrays \cup {NilArray} -> Seq(Slot)]
        /\ \A q \in Peers : heap'[pending'[q].arr] = heap[pending'[q].arr]
        /\ \A x \in Readers : heap'[held'[x].arr] = heap[held'[x].arr]
        /\ heap'[NilArray] = <<>>
    BY ONLY <1>0, <1>1, <1>2, <1>3, CollectType
  <1>5. /\ dirty = {} /\ dirty' = {p} /\ writing' = NoPeer
        /\ failed' = failed /\ faults' = faults /\ failed \subseteq Peers /\ faults \in Nat
        /\ UNCHANGED <<disk, now, accepted>>
    BY DEF Dequeue, Unlocked, Inv, TypeOK
  <1>6. \A q \in Peers : /\ pending[q].len <= Len(heap[pending[q].arr])
                         /\ \A i \in 1..pending[q].len : heap[pending[q].arr][i] \in Entry
    BY DEF Inv, HeapOK, Cap
  <1>7. \A q \in Peers : /\ pending'[q].len <= Len(heap'[pending'[q].arr])
                         /\ \A i \in 1..pending'[q].len : heap'[pending'[q].arr][i] \in Entry
    BY <1>0, <1>1, <1>4, <1>6 DEF NilSlice
  <1>8. \A x \in Readers : /\ held'[x].len <= Len(heap'[held'[x].arr])
                           /\ \A i \in 1..held'[x].len : heap'[held'[x].arr][i] \in Entry
    <2>1. \A x \in Readers : /\ held[x].len <= Len(heap[held[x].arr])
                            /\ \A i \in 1..held[x].len : heap[held[x].arr][i] \in Entry
      BY DEF Inv, PeekedReadable, Cap
    <2> QED
      BY <1>2, <1>4, <1>6, <2>1
  <1>9. \A x, y \in Peers :
          x # y /\ pending'[x].arr = pending'[y].arr => pending'[x].arr = NilArray
    BY <1>1 DEF Inv, HeapOK, NilSlice
  <1>10. \A q \in Peers \ {p} : View(q)' = View(q)
    BY <1>1, <1>4 DEF View, Contents
  <1>11. \A q \in Peers \ (dirty' \cup failed') : Loaded(q) = View(q)'
    BY <1>5, <1>10 DEF Inv, SavedWhenUnlocked
  <1> QED
    BY <1>1, <1>2, <1>4, <1>5, <1>7, <1>8, <1>9, <1>11, InvRebuild

(* What Cleanup keeps of a list. *)
LEMMA ValidType ==
    ASSUME TypeOK, HeapOK, NEW p \in Peers, InOrder(Survivors(p)) # {}
    PROVE  /\ Valid(p) \in Seq(Entry)
           /\ Len(Valid(p)) \in Nat
           /\ Survivors(p) = {} => Valid(p) = <<>>
           /\ Len(Valid(p)) = Cardinality(Survivors(p))
  <1> DEFINE S == Survivors(p)
             f == CHOOSE g \in InOrder(S) : TRUE
  <1>1. pending[p].len \in Nat
    BY DEF TypeOK, Slice
  <1>2. IsFiniteSet(S)
    <2>1. S \in SUBSET (1..pending[p].len)
      BY DEF Survivors
    <2>2. IsFiniteSet(1..pending[p].len)
      BY <1>1, FS_Interval
    <2> QED
      BY ONLY <2>1, <2>2, FS_Subset
  <1>3. Cardinality(S) \in Nat /\ (S = {} => Cardinality(S) = 0)
    BY <1>2, FS_CardinalityType, FS_EmptySet
  <1>4. f \in InOrder(S)
    OBVIOUS
  <1>5. f \in [1..Cardinality(S) -> S]
    BY <1>4 DEF InOrder
  <1>6. \A i \in S : View(p)[i] \in Entry
    BY <1>1, ViewType DEF Survivors
  <1> HIDE DEF S
  <1>7. Valid(p) = [i \in 1..Cardinality(S) |-> View(p)[f[i]]]
    BY DEF Valid, Sublist, S
  <1> HIDE DEF f
  <1>8. Valid(p) \in [1..Cardinality(S) -> Entry]
    BY <1>5, <1>6, <1>7
  <1>9. Valid(p) \in Seq(Entry) /\ Len(Valid(p)) = Cardinality(S)
    BY <1>3, <1>8
  <1> QED
    BY <1>3, <1>9 DEF S

LEMMA InvCleanup ==
    ASSUME Inv, Cleanup
    PROVE  Inv'
  <1> DEFINE mapped == {p \in Peers : pending[p].arr # NilArray}
             kept == {p \in Peers : Survivors(p) # {}}
             fresh == NewArrays(kept, FreeArrays)
             base == [a \in DOMAIN heap |->
                        IF \E p \in kept : fresh[p] = a
                        THEN LET p == CHOOSE p \in kept : fresh[p] = a
                             IN ArrayOf(Valid(p), CapFor(Len(Valid(p))))
                        ELSE heap[a]]
  <1>0. /\ heap \in [Arrays \cup {NilArray} -> Seq(Slot)] /\ pending \in [Peers -> Slice]
        /\ held \in [Readers -> Slice] /\ NilSlice \in Slice /\ heap[NilArray] = <<>>
        /\ NilArray \notin Arrays
    BY ConstantsAssumption DEF Inv, TypeOK, HeapOK, NilSlice, Slice
  <1>1. /\ dirty = {} /\ dirty' = mapped /\ writing' = NoPeer
        /\ held' = held /\ failed' = failed /\ faults' = faults
        /\ failed \subseteq Peers /\ faults \in Nat
        /\ UNCHANGED <<disk, now, accepted>>
    BY DEF Cleanup, Unlocked, Inv, TypeOK
  <1>2. /\ pending' = [p \in Peers |-> IF p \in kept THEN [arr |-> fresh[p], len |-> Len(Valid(p))]
                                      ELSE NilSlice]
        /\ heap' = Collect(base, pending', held)
    BY DEF Cleanup
  <1>3. \A p \in Peers : /\ Valid(p) \in Seq(Entry)
                        /\ Len(Valid(p)) \in Nat
    BY ValidType DEF Cleanup, Inv
  <1>4. /\ fresh \in [kept -> FreeArrays]
        /\ \A x, y \in kept : fresh[x] = fresh[y] => x = y
    BY NewArraysType DEF Cleanup
  <1>5. \A p \in kept : /\ fresh[p] \in Arrays /\ fresh[p] # NilArray
                        /\ \A r \in Readers : held[r].arr # fresh[p]
    BY <1>4, FreeArraysUnused DEF Inv
  <1>6. \A p \in kept : LET new == ArrayOf(Valid(p), CapFor(Len(Valid(p)))) IN
           /\ new \in Seq(Slot)
           /\ Len(Valid(p)) <= Len(new)
           /\ \A i \in 1..Len(Valid(p)) : new[i] \in Entry
    <2> SUFFICES ASSUME NEW p \in kept
                 PROVE  LET new == ArrayOf(Valid(p), CapFor(Len(Valid(p)))) IN
                           /\ new \in Seq(Slot)
                           /\ Len(Valid(p)) <= Len(new)
                           /\ \A i \in 1..Len(Valid(p)) : new[i] \in Entry
      OBVIOUS
    <2>1. Valid(p) \in Seq(Entry) /\ Len(Valid(p)) \in Nat
      BY <1>3
    <2>2. CapFor(Len(Valid(p))) \in Nat /\ Len(Valid(p)) <= CapFor(Len(Valid(p)))
      BY <2>1, CapForType
    <2>3. \A i \in 1..Len(Valid(p)) : Valid(p)[i] \in Entry
      BY <2>1
    <2> QED
      BY <2>1, <2>2, <2>3, ArrayOfType
  <1>7. \A p \in kept : (CHOOSE q \in kept : fresh[q] = fresh[p]) = p
    BY <1>4
  <1> HIDE DEF fresh, kept, mapped
  <1>8. /\ base \in [Arrays \cup {NilArray} -> Seq(Slot)]
        /\ \A p \in kept : base[fresh[p]] = ArrayOf(Valid(p), CapFor(Len(Valid(p))))
        /\ base[NilArray] = <<>>
        /\ \A r \in Readers : base[held[r].arr] = heap[held[r].arr]
    <2>1. DOMAIN heap = Arrays \cup {NilArray}
      BY <1>0
    <2>2. \A p \in kept : base[fresh[p]] = ArrayOf(Valid(p), CapFor(Len(Valid(p))))
      BY <1>5, <1>7, <2>1
    <2>3. \A a \in Arrays \cup {NilArray} : (\A p \in kept : fresh[p] # a) => base[a] = heap[a]
      BY <2>1
    <2> HIDE DEF base
    <2>4. \A a \in Arrays \cup {NilArray} : base[a] \in Seq(Slot)
      BY <1>0, <1>6, <2>2, <2>3
    <2>5. base \in [Arrays \cup {NilArray} -> Seq(Slot)]
      BY <2>1, <2>4 DEF base
    <2>6. base[NilArray] = <<>>
      BY <1>0, <1>5, <2>3
    <2>7. \A r \in Readers : base[held[r].arr] = heap[held[r].arr]
      BY <1>0, <1>5, <2>3 DEF Slice
    <2> QED
      BY <2>2, <2>5, <2>6, <2>7
  <1> HIDE DEF base
  <1>9. /\ pending' \in [Peers -> Slice]
        /\ \A p \in kept : pending'[p].arr = fresh[p] /\ pending'[p].len = Len(Valid(p))
        /\ \A p \in Peers \ kept : pending'[p] = NilSlice
    BY <1>0, <1>2, <1>3, <1>5 DEF Slice, kept
  <1>10. /\ heap' \in [Arrays \cup {NilArray} -> Seq(Slot)]
         /\ \A q \in Peers : heap'[pending'[q].arr] = base[pending'[q].arr]
         /\ \A r \in Readers : heap'[held[r].arr] = base[held[r].arr]
         /\ heap'[NilArray] = <<>>
    <2>1. heap' = Collect(base, pending', held)
      BY <1>2
    <2>2. base \in [Arrays \cup {NilArray} -> Seq(Slot)] /\ base[NilArray] = <<>>
      BY <1>8
    <2>3. pending' \in [Peers -> Slice] /\ held \in [Readers -> Slice]
      BY <1>0, <1>9
    <2> QED
      BY ONLY <2>1, <2>2, <2>3, CollectType
  <1>11. \A p \in Peers : /\ pending'[p].len <= Len(heap'[pending'[p].arr])
                          /\ \A i \in 1..pending'[p].len : heap'[pending'[p].arr][i] \in Entry
    <2> SUFFICES ASSUME NEW p \in Peers
                 PROVE  /\ pending'[p].len <= Len(heap'[pending'[p].arr])
                        /\ \A i \in 1..pending'[p].len : heap'[pending'[p].arr][i] \in Entry
      OBVIOUS
    <2>1. CASE p \in kept
      BY <1>6, <1>8, <1>9, <1>10, <2>1
    <2>2. CASE p \notin kept
      BY <1>9, <1>10, <2>2 DEF NilSlice
    <2> QED
      BY <2>1, <2>2
  <1>12. \A p, q \in Peers :
           p # q /\ pending'[p].arr = pending'[q].arr => pending'[p].arr = NilArray
    BY <1>4, <1>9 DEF NilSlice
  <1>13. \A r \in Readers :
            /\ held'[r].len <= Len(heap'[held'[r].arr])
            /\ \A i \in 1..held'[r].len : heap'[held'[r].arr][i] \in Entry
    BY <1>1, <1>8, <1>10 DEF Inv, PeekedReadable, Cap
  <1>14. \A p \in Peers \ (dirty' \cup failed') : Loaded(p) = View(p)'
    <2> SUFFICES ASSUME NEW p \in Peers \ (dirty' \cup failed')
                 PROVE  Loaded(p) = View(p)'
      OBVIOUS
    <2>1. pending[p].arr = NilArray
      BY <1>1 DEF mapped
    <2>2. pending[p].len = 0
      BY <1>0, <2>1 DEF Inv, HeapOK, Cap, Slice
    <2>3. p \notin kept
      BY <2>2 DEF kept, Survivors
    <2>4. View(p) = View(p)'
      BY <1>9, <2>2, <2>3 DEF View, Contents, NilSlice
    <2> QED
      BY <1>1, <2>4 DEF Inv, SavedWhenUnlocked
  <1>15. dirty' \subseteq Peers /\ failed' \subseteq Peers /\ faults' \in Nat
         /\ held' \in [Readers -> Slice]
    BY <1>0, <1>1 DEF mapped
  <1> QED
    BY <1>1, <1>9, <1>10, <1>11, <1>12, <1>13, <1>14, <1>15, InvRebuild

LEMMA InvRestart ==
    ASSUME Inv, Restart
    PROVE  Inv'
  <1> DEFINE home == NewArrays(Peers, Arrays)
             kept == {p \in Peers : Loaded(p) # <<>>}
  <1>0. /\ DOMAIN heap = Arrays \cup {NilArray}
        /\ NilSlice \in Slice /\ NilArray \notin Arrays
        /\ <<>> \in Seq(Slot)
    BY ConstantsAssumption DEF Inv, TypeOK, NilSlice, Slice
  <1>1. /\ dirty' = {} /\ failed' = {} /\ writing' = NoPeer /\ faults' \in Nat
        /\ held' = [r \in Readers |-> NilSlice]
        /\ UNCHANGED <<disk, now, accepted>>
    BY DEF Restart, Inv, TypeOK
  <1>2. \A p \in Peers : Loaded(p) \in Seq(Entry) /\ Len(Loaded(p)) \in Nat
    BY LoadedType DEF Inv
  <1>3. home \in [Peers -> Arrays] /\ \A x, y \in Peers : home[x] = home[y] => x = y
    BY ArraysAssumption, NewArraysType
  <1>4. \A p \in Peers : LET new == ArrayOf(Loaded(p), CapFor(Len(Loaded(p)))) IN
           /\ new \in Seq(Slot)
           /\ Len(Loaded(p)) <= Len(new)
           /\ \A i \in 1..Len(Loaded(p)) : new[i] = Loaded(p)[i] /\ new[i] \in Entry
    <2> SUFFICES ASSUME NEW p \in Peers
                 PROVE  LET new == ArrayOf(Loaded(p), CapFor(Len(Loaded(p)))) IN
                           /\ new \in Seq(Slot)
                           /\ Len(Loaded(p)) <= Len(new)
                           /\ \A i \in 1..Len(Loaded(p)) : new[i] = Loaded(p)[i] /\ new[i] \in Entry
      OBVIOUS
    <2>1. Loaded(p) \in Seq(Entry) /\ Len(Loaded(p)) \in Nat
      BY <1>2
    <2>2. CapFor(Len(Loaded(p))) \in Nat /\ Len(Loaded(p)) <= CapFor(Len(Loaded(p)))
      BY <2>1, CapForType
    <2>3. \A i \in 1..Len(Loaded(p)) : Loaded(p)[i] \in Entry
      BY <2>1
    <2> QED
      BY <2>1, <2>2, <2>3, ArrayOfType
  <1>5. heap' = [a \in DOMAIN heap |->
          IF \E p \in Peers : home[p] = a /\ Loaded(p) # <<>>
          THEN LET p == CHOOSE p \in Peers : home[p] = a
               IN ArrayOf(Loaded(p), CapFor(Len(Loaded(p))))
          ELSE <<>>]
    BY DEF Restart
  <1>6. pending' = [p \in Peers |->
          IF p \in kept THEN [arr |-> home[p], len |-> Len(Loaded(p))] ELSE NilSlice]
    BY DEF Restart
  <1>7. \A p \in Peers : (CHOOSE q \in Peers : home[q] = home[p]) = p
    BY <1>3
  <1> HIDE DEF home
  <1>8. /\ pending' \in [Peers -> Slice]
        /\ \A p \in kept : pending'[p].arr = home[p] /\ pending'[p].len = Len(Loaded(p))
        /\ \A p \in Peers \ kept : pending'[p] = NilSlice
    BY <1>0, <1>2, <1>3, <1>6 DEF Slice
  <1>9. \A p \in kept : heap'[home[p]] = ArrayOf(Loaded(p), CapFor(Len(Loaded(p))))
    BY <1>0, <1>3, <1>5, <1>7
  <1>10. /\ heap' \in [Arrays \cup {NilArray} -> Seq(Slot)]
         /\ heap'[NilArray] = <<>>
    <2>1. \A a \in Arrays \cup {NilArray} :
             \/ \E p \in kept : a = home[p]
             \/ heap'[a] = <<>>
      BY <1>0, <1>5
    <2>2. heap'[NilArray] = <<>>
      BY <1>0, <1>3, <1>5
    <2>3. \A a \in Arrays \cup {NilArray} : heap'[a] \in Seq(Slot)
      <3>1. \A p \in kept : heap'[home[p]] \in Seq(Slot)
        BY <1>4, <1>9
      <3> QED
        BY ONLY <1>0, <2>1, <3>1
    <2> QED
      BY <1>0, <1>5, <2>2, <2>3
  <1>11. \A p \in Peers : /\ pending'[p].len <= Len(heap'[pending'[p].arr])
                          /\ \A i \in 1..pending'[p].len : heap'[pending'[p].arr][i] \in Entry
    <2> SUFFICES ASSUME NEW p \in Peers
                 PROVE  /\ pending'[p].len <= Len(heap'[pending'[p].arr])
                        /\ \A i \in 1..pending'[p].len : heap'[pending'[p].arr][i] \in Entry
      OBVIOUS
    <2>1. CASE p \in kept
      BY <1>4, <1>8, <1>9, <2>1
    <2>2. CASE p \notin kept
      BY <1>8, <1>10, <2>2 DEF NilSlice
    <2> QED
      BY <2>1, <2>2
  <1>12. \A p, q \in Peers :
           p # q /\ pending'[p].arr = pending'[q].arr => pending'[p].arr = NilArray
    BY <1>3, <1>8 DEF NilSlice
  <1>13. /\ held' \in [Readers -> Slice]
         /\ \A r \in Readers :
              /\ held'[r].len <= Len(heap'[held'[r].arr])
              /\ \A i \in 1..held'[r].len : heap'[held'[r].arr][i] \in Entry
    BY <1>0, <1>1, <1>10 DEF NilSlice
  <1>14. \A p \in Peers : Loaded(p) = View(p)'
    <2> SUFFICES ASSUME NEW p \in Peers
                 PROVE  Loaded(p) = View(p)'
      OBVIOUS
    <2>1. View(p)' = [i \in 1..pending'[p].len |-> heap'[pending'[p].arr][i]]
      BY DEF View, Contents
    <2>2. CASE p \in kept
      <3>1. \A i \in 1..Len(Loaded(p)) : heap'[pending'[p].arr][i] = Loaded(p)[i]
        BY <1>4, <1>8, <1>9, <2>2
      <3>2. View(p)' = [i \in 1..Len(Loaded(p)) |-> Loaded(p)[i]]
        BY <1>8, <2>1, <2>2, <3>1
      <3> QED
        BY <1>2, <3>2
    <2>3. CASE p \notin kept
      BY <1>8, <2>1, <2>3 DEF NilSlice
    <2> QED
      BY <2>2, <2>3
  <1> QED
    BY <1>1, <1>8, <1>10, <1>11, <1>12, <1>13, <1>14, InvRebuild

LEMMA InvTick ==
    ASSUME Inv, Tick \/ UNCHANGED qvars
    PROVE  Inv'
  <1>1. /\ UNCHANGED <<heap, pending, held, disk, dirty, writing, failed, accepted, faults>>
        /\ now' = now \/ now' = now + 1
    BY DEF Tick, qvars, memory, files
  <1>2. TypeOK'
    BY <1>1 DEF Inv, TypeOK
  <1>3. HeapOK' /\ PeekedReadable'
    BY <1>1 DEF Inv, HeapOK, PeekedReadable, Cap
  <1>4. SavedWhenUnlocked'
    BY <1>1 DEF Inv, SavedWhenUnlocked, Loaded, View, Contents
  <1> QED
    BY <1>2, <1>3, <1>4 DEF Inv

LEMMA InvNext == Inv /\ [Next]_qvars => Inv'
  <1> SUFFICES ASSUME Inv, [Next]_qvars PROVE Inv'
    OBVIOUS
  <1>1. ASSUME NEW p \in Peers, NEW b \in Bodies, Enqueue(p, b) PROVE Inv'
    BY <1>1, InvEnqueue
  <1>2. ASSUME NEW p \in Peers, NEW r \in Readers, Dequeue(r, p) PROVE Inv'
    BY <1>2, InvDequeue
  <1>3. ASSUME NEW p \in Peers, NEW r \in Readers, Peek(r, p) PROVE Inv'
    BY <1>3, InvPeek
  <1>4. ASSUME NEW p \in Peers, NEW id \in Ids, MarkAttempt(p, id) PROVE Inv'
    BY <1>4, InvMarkAttempt
  <1>5. ASSUME NEW p \in Peers, NEW id \in Ids, RemoveMessage(p, id) PROVE Inv'
    BY <1>5, InvRemoveMessage
  <1>6. ASSUME NEW r \in Readers, Drop(r) PROVE Inv'
    BY <1>6, InvPeek
  <1>7. CASE Cleanup
    BY <1>7, InvCleanup
  <1>8. CASE SaveStep
    BY <1>8, InvSave DEF SaveStep
  <1>9. CASE Restart
    BY <1>9, InvRestart
  <1>10. CASE Tick \/ UNCHANGED qvars
    BY <1>10, InvTick
  <1> QED
    BY <1>1, <1>2, <1>3, <1>4, <1>5, <1>6, <1>7, <1>8, <1>9, <1>10 DEF Next

(* Type correctness of the queue, at all times. *)
THEOREM TypeCorrect == Spec => []TypeOK
  <1>1. Inv => TypeOK
    BY DEF Inv
  <1> QED
    BY <1>1, InvInit, InvNext, PTL DEF Spec

(* In-place updates are safe: in every reachable state of the queue, of    *)
(* whatever size, no two peers share a backing array and every list fits   *)
(* its array.                                                              *)
THEOREM HeapDiscipline == Spec => []HeapOK
  <1>1. Inv => HeapOK
    BY DEF Inv
  <1> QED
    BY <1>1, InvInit, InvNext, PTL DEF Spec

(* No operation of the queue ever puts a zeroed slot under a caller of     *)
(* Peek.                                                                   *)
THEOREM PeekStaysReadable == Spec => []PeekedReadable
  <1>1. Inv => PeekedReadable
    BY DEF Inv
  <1> QED
    BY <1>1, InvInit, InvNext, PTL DEF Spec

(* Crash consistency: whenever the queue is unlocked, memory and file of   *)
(* every peer whose last save did not fail agree.                          *)
THEOREM CrashConsistent == Spec => []SavedWhenUnlocked
  <1>1. Inv => SavedWhenUnlocked
    BY DEF Inv
  <1> QED
    BY <1>1, InvInit, InvNext, PTL DEF Spec
-----------------------------------------------------------------------------
(***************************************************************************)
(* MessageQueue implements StoreForward: what every operation on backing   *)
(* arrays does to the lists seen through pending, and every save to what a *)
(* restart would read, is a step of the specification with value           *)
(* semantics, or none.                                                     *)
(***************************************************************************)

(* The abstract state. *)
Queue == [p \in Peers |-> View(p)]
Durable == [p \in Peers |-> Loaded(p)]

(* The list of every peer but p is as it was. *)
OthersKept(p) == \A q \in Peers \ {p} : View(q)' = View(q)

(* The state of peer p's list that the operations start from. *)
LEMMA ListFacts ==
    ASSUME Inv, NEW p \in Peers
    PROVE  /\ heap \in [Arrays \cup {NilArray} -> Seq(Slot)]
           /\ pending \in [Peers -> Slice] /\ held \in [Readers -> Slice]
           /\ pending[p].arr \in Arrays \cup {NilArray} /\ pending[p].len \in Nat
           /\ pending[p].len <= Len(heap[pending[p].arr])
           /\ heap[pending[p].arr] \in Seq(Slot)
           /\ \A i \in 1..pending[p].len : heap[pending[p].arr][i] \in Entry
           /\ \A q \in Peers \ {p} : pending[q].arr = pending[p].arr => pending[p].arr = NilArray
           /\ heap[NilArray] = <<>>
           /\ View(p) \in Seq(Entry) /\ Len(View(p)) = pending[p].len
           /\ \A i \in 1..pending[p].len : View(p)[i] = heap[pending[p].arr][i]
  <1>1. /\ heap \in [Arrays \cup {NilArray} -> Seq(Slot)]
        /\ pending \in [Peers -> Slice] /\ held \in [Readers -> Slice]
    BY DEF Inv, TypeOK
  <1>2. pending[p].arr \in Arrays \cup {NilArray} /\ pending[p].len \in Nat
    BY <1>1 DEF Slice
  <1>3. /\ pending[p].len <= Len(heap[pending[p].arr]) /\ heap[NilArray] = <<>>
        /\ \A i \in 1..pending[p].len : heap[pending[p].arr][i] \in Entry
        /\ \A q \in Peers \ {p} : pending[q].arr = pending[p].arr => pending[p].arr = NilArray
    BY DEF Inv, HeapOK, Cap
  <1>4. /\ View(p) \in Seq(Entry) /\ Len(View(p)) = pending[p].len
        /\ \A i \in 1..pending[p].len : View(p)[i] = heap[pending[p].arr][i]
    BY ViewType DEF Inv
  <1>5. heap[pending[p].arr] \in Seq(Slot)
    BY <1>1, <1>2
  <1> QED
    BY <1>1, <1>2, <1>3, <1>4, <1>5

(* The list of a peer after a step, element by element. *)
LEMMA NewView ==
    ASSUME NEW p \in Peers, NEW s \in Seq(Entry), pending'[p].len = Len(s),
           \A i \in 1..Len(s) : heap'[pending'[p].arr][i] = s[i]
    PROVE  View(p)' = s
  <1>1. View(p)' = [i \in 1..Len(s) |-> heap'[pending'[p].arr][i]]
    BY DEF View, Contents
  <1>2. View(p)' = [i \in 1..Len(s) |-> s[i]]
    BY <1>1
  <1> QED
    BY <1>2

(* Updates of the array of p leave the lists of the others alone. *)
LEMMA InPlaceKeepsOthers ==
    ASSUME Inv, NEW p \in Peers, pending[p].arr # NilArray,
           \A a \in Arrays \cup {NilArray} : a # pending[p].arr => heap'[a] = heap[a],
           \A q \in Peers \ {p} : pending'[q] = pending[q]
    PROVE  OthersKept(p)
  <1> SUFFICES ASSUME NEW q \in Peers \ {p} PROVE View(q)' = View(q)
    BY DEF OthersKept
  <1>1. pending[q].arr \in Arrays \cup {NilArray} /\ pending[q].arr # pending[p].arr
    BY ListFacts
  <1>2. pending'[q] = pending[q] /\ heap'[pending[q].arr] = heap[pending[q].arr]
    BY <1>1
  <1> QED
    BY <1>2, ViewFrame

(* append: the message is at the end of the list. *)
LEMMA ViewAppend ==
    ASSUME Inv, NEW p \in Peers, NEW e \in Entry, AppendEntry(p, e), held' = held
    PROVE  View(p)' = Append(View(p), e) /\ OthersKept(p)
  <1> DEFINE s == pending[p]
             c == IF s.len = 0 THEN 1 ELSE 2 * s.len
             x == NewArrays({p}, FreeArrays)[p]
             v == Append(View(p), e)
             new == ArrayOf(v, c)
             grown == [heap EXCEPT ![x] = new]
  <1>0. /\ heap \in [Arrays \cup {NilArray} -> Seq(Slot)]
        /\ pending \in [Peers -> Slice] /\ held \in [Readers -> Slice]
        /\ s.arr \in Arrays \cup {NilArray} /\ s.len \in Nat
        /\ s.len <= Len(heap[s.arr]) /\ heap[s.arr] \in Seq(Slot)
        /\ View(p) \in Seq(Entry) /\ Len(View(p)) = s.len
        /\ \A i \in 1..s.len : View(p)[i] = heap[s.arr][i]
        /\ heap[NilArray] = <<>>
    BY ListFacts
  <1>1. /\ v \in Seq(Entry) /\ Len(v) = s.len + 1
        /\ \A i \in 1..s.len : v[i] = View(p)[i]
        /\ v[s.len + 1] = e
    BY <1>0
  <1> HIDE DEF v
  <1>2. CASE /\ s.len < Cap(s)
             /\ heap' = [heap EXCEPT ![s.arr][s.len + 1] = e]
             /\ pending' = [pending EXCEPT ![p].len = @ + 1]
    <2>1. s.arr # NilArray
      BY <1>0, <1>2 DEF Cap
    <2>2. /\ heap'[s.arr] = [heap[s.arr] EXCEPT ![s.len + 1] = e]
          /\ \A a \in Arrays \cup {NilArray} : a # s.arr => heap'[a] = heap[a]
      BY <1>0, <1>2
    <2>3. /\ pending'[p].arr = s.arr /\ pending'[p].len = s.len + 1
          /\ \A q \in Peers \ {p} : pending'[q] = pending[q]
      BY <1>0, <1>2 DEF Slice
    <2>4. \A i \in 1..(s.len + 1) : heap'[s.arr][i] = v[i]
      <3> SUFFICES ASSUME NEW i \in 1..(s.len + 1)
                   PROVE  heap'[s.arr][i] = v[i]
        OBVIOUS
      <3>1. i \in 1..Len(heap[s.arr])
        BY <1>0, <1>2 DEF Cap
      <3>2. heap'[s.arr][i] = IF i = s.len + 1 THEN e ELSE heap[s.arr][i]
        BY <1>0, <2>2, <3>1
      <3>3. CASE i = s.len + 1
        BY <1>1, <3>2, <3>3
      <3>4. CASE i \in 1..s.len
        BY <1>0, <1>1, <3>2, <3>4
      <3> QED
        BY <1>0, <3>3, <3>4
    <2>5. View(p)' = v
      <3>1. pending'[p].len = Len(v) /\ \A i \in 1..Len(v) : heap'[pending'[p].arr][i] = v[i]
        BY <1>1, <2>3, <2>4
      <3> QED
        BY <1>1, <3>1, NewView
    <2> QED
      BY <2>1, <2>2, <2>3, <2>5, InPlaceKeepsOthers DEF v
  <1>3. CASE /\ s.len = Cap(s)
             /\ ExistsInjection({p}, FreeArrays)
             /\ pending' = [pending EXCEPT ![p] = [arr |-> x, len |-> s.len + 1]]
             /\ heap' = Collect(grown, pending', held)
    <2>1. x \in FreeArrays
      BY <1>3, NewArraysType
    <2>2. x \in Arrays /\ x # NilArray /\ \A q \in Peers : pending[q].arr # x
      BY <2>1, FreeArraysUnused DEF Inv
    <2>3. c \in Nat /\ s.len + 1 <= c
      BY <1>0
    <2>4. /\ new \in Seq(Slot)
          /\ \A i \in 1..(s.len + 1) : new[i] = v[i]
      <3> HIDE DEF c
      <3> QED
        BY <1>1, <2>3, ArrayOfType
    <2> HIDE DEF new, c, x
    <2>5. /\ grown \in [Arrays \cup {NilArray} -> Seq(Slot)] /\ grown[x] = new
          /\ \A a \in Arrays \cup {NilArray} : a # x => grown[a] = heap[a]
      BY <1>0, <2>2, <2>4
    <2> HIDE DEF grown
    <2>6. /\ pending' \in [Peers -> Slice]
          /\ pending'[p] = [arr |-> x, len |-> s.len + 1]
          /\ \A q \in Peers \ {p} : pending'[q] = pending[q]
      BY <1>0, <1>3, <2>2 DEF Slice
    <2>7. \A q \in Peers : heap'[pending'[q].arr] = grown[pending'[q].arr]
      <3>1. heap' = Collect(grown, pending', held) /\ held \in [Readers -> Slice]
        BY <1>0, <1>3
      <3> QED
        BY ONLY <2>5, <2>6, <3>1, CollectType
    <2>8. View(p)' = v
      <3>1. pending'[p].len = Len(v) /\ \A i \in 1..Len(v) : heap'[pending'[p].arr][i] = v[i]
        BY <1>1, <2>4, <2>5, <2>6, <2>7
      <3> QED
        BY <1>1, <3>1, NewView
    <2>9. \A q \in Peers \ {p} : heap'[pending[q].arr] = heap[pending[q].arr]
      BY <1>0, <2>2, <2>5, <2>6, <2>7 DEF Slice
    <2>10. OthersKept(p)
      BY <2>6, <2>9, ViewFrame DEF OthersKept
    <2> QED
      BY <2>8, <2>10 DEF v
  <1> QED
    BY <1>2, <1>3 DEF AppendEntry, v

(* RemoveMessage: the message at position i is gone, the others keep their *)
(* order.                                                                  *)
LEMMA ViewRemove ==
    ASSUME Inv, NEW p \in Peers, NEW i \in 1..pending[p].len,
           heap' = [heap EXCEPT ![pending[p].arr] =
              [j \in 1..Len(@) |-> IF i <= j /\ j < pending[p].len THEN @[j + 1] ELSE @[j]]],
           pending' = [pending EXCEPT ![p].len = @ - 1]
    PROVE  /\ View(p)' = [j \in 1..(Len(View(p)) - 1) |->
                             IF j < i THEN View(p)[j] ELSE View(p)[j + 1]]
           /\ OthersKept(p)
  <1> DEFINE a == pending[p].arr
             n == pending[p].len
             b == [j \in 1..Len(heap[a]) |-> IF i <= j /\ j < n THEN heap[a][j + 1] ELSE heap[a][j]]
             v == [j \in 1..(n - 1) |-> IF j < i THEN View(p)[j] ELSE View(p)[j + 1]]
  <1>0. /\ heap \in [Arrays \cup {NilArray} -> Seq(Slot)] /\ pending \in [Peers -> Slice]
        /\ a \in Arrays \cup {NilArray} /\ n \in Nat /\ n <= Len(heap[a]) /\ heap[a] \in Seq(Slot)
        /\ View(p) \in Seq(Entry) /\ Len(View(p)) = n
        /\ \A j \in 1..n : View(p)[j] = heap[a][j] /\ heap[a][j] \in Entry
        /\ heap[NilArray] = <<>>
    BY ListFacts
  <1>1. a # NilArray /\ n - 1 \in Nat
    BY <1>0
  <1>2. \A j \in 1..(n - 1) : j \in 1..n /\ j + 1 \in 1..n /\ j \in 1..Len(heap[a])
    BY <1>0
  <1>3. \A j \in 1..(n - 1) : v[j] \in Entry /\ v[j] = b[j]
    <2> SUFFICES ASSUME NEW j \in 1..(n - 1)
                 PROVE  v[j] \in Entry /\ v[j] = b[j]
      OBVIOUS
    <2>1. j \in 1..n /\ j + 1 \in 1..n /\ j \in 1..Len(heap[a])
      BY <1>2
    <2>2. /\ View(p)[j] = heap[a][j] /\ heap[a][j] \in Entry
          /\ View(p)[j + 1] = heap[a][j + 1] /\ heap[a][j + 1] \in Entry
      BY <1>0, <2>1
    <2>3. v[j] = IF j < i THEN View(p)[j] ELSE View(p)[j + 1]
      OBVIOUS
    <2>4. b[j] = IF i <= j /\ j < n THEN heap[a][j + 1] ELSE heap[a][j]
      BY <2>1
    <2> HIDE DEF v, b
    <2>5. CASE j < i
      BY <2>2, <2>3, <2>4, <2>5
    <2>6. CASE i <= j
      BY <1>0, <2>2, <2>3, <2>4, <2>6
    <2> QED
      BY <2>5, <2>6
  <1>4. v \in Seq(Entry) /\ Len(v) = n - 1
    <2>1. v \in [1..(n - 1) -> Entry]
      BY <1>3
    <2> HIDE DEF v
    <2> QED
      BY <1>1, <2>1
  <1>5. /\ heap'[a] = b
        /\ \A x \in Arrays \cup {NilArray} : x # a => heap'[x] = heap[x]
    BY <1>0
  <1>6. /\ pending'[p].arr = a /\ pending'[p].len = n - 1
        /\ \A q \in Peers \ {p} : pending'[q] = pending[q]
    BY <1>0 DEF Slice
  <1>7. OthersKept(p)
    BY <1>1, <1>5, <1>6, InPlaceKeepsOthers
  <1>8. View(p)' = v
    <2> HIDE DEF v, b
    <2>1. pending'[p].len = Len(v) /\ \A j \in 1..Len(v) : heap'[pending'[p].arr][j] = v[j]
      BY <1>3, <1>4, <1>5, <1>6
    <2> QED
      BY <1>4, <2>1, NewView
  <1> QED
    BY <1>0, <1>7, <1>8

(* MarkAttempt: one attempt more at position i. *)
LEMMA ViewMark ==
    ASSUME Inv, NEW p \in Peers, NEW i \in 1..pending[p].len,
           heap' = [heap EXCEPT ![pending[p].arr][i].attempts =
                       IF @ < MaxRetry THEN @ + 1 ELSE @],
           pending' = pending
    PROVE  /\ View(p)' = [View(p) EXCEPT ![i].attempts = IF @ < MaxRetry THEN @ + 1 ELSE @]
           /\ OthersKept(p)
  <1> DEFINE a == pending[p].arr
             n == pending[p].len
             e == [heap[a][i] EXCEPT !.attempts = IF @ < MaxRetry THEN @ + 1 ELSE @]
             v == [View(p) EXCEPT ![i] = e]
  <1>0. /\ heap \in [Arrays \cup {NilArray} -> Seq(Slot)] /\ pending \in [Peers -> Slice]
        /\ a \in Arrays \cup {NilArray} /\ n \in Nat /\ n <= Len(heap[a]) /\ heap[a] \in Seq(Slot)
        /\ View(p) \in Seq(Entry) /\ Len(View(p)) = n
        /\ \A j \in 1..n : View(p)[j] = heap[a][j] /\ heap[a][j] \in Entry
        /\ heap[NilArray] = <<>>
    BY ListFacts
  <1>1. a # NilArray /\ i \in 1..Len(heap[a])
    BY <1>0
  <1>2. e \in Entry
    <2>1. heap[a][i] \in Entry
      BY <1>0
    <2> QED
      BY <2>1, ConstantsAssumption DEF Entry
  <1>3. v = [View(p) EXCEPT ![i].attempts = IF @ < MaxRetry THEN @ + 1 ELSE @]
    BY <1>0
  <1> HIDE DEF e
  <1>4. v \in Seq(Entry) /\ Len(v) = n /\ \A j \in 1..n : v[j] = IF j = i THEN e ELSE View(p)[j]
    BY <1>0, <1>2
  <1>5. /\ heap'[a] = [heap[a] EXCEPT ![i] = e]
        /\ \A x \in Arrays \cup {NilArray} : x # a => heap'[x] = heap[x]
    BY <1>0 DEF e
  <1>6. \A j \in 1..n : heap'[a][j] = v[j]
    <2> SUFFICES ASSUME NEW j \in 1..n PROVE heap'[a][j] = v[j]
      OBVIOUS
    <2>1. j \in 1..Len(heap[a]) /\ View(p)[j] = heap[a][j]
      BY <1>0
    <2>2. heap'[a][j] = IF j = i THEN e ELSE heap[a][j]
      <3>1. heap[a] \in Seq(Slot) /\ heap'[a] = [heap[a] EXCEPT ![i] = e]
        BY <1>0, <1>5
      <3> QED
        BY ONLY <2>1, <3>1
    <2>3. v[j] = IF j = i THEN e ELSE View(p)[j]
      BY <1>4
    <2> QED
      BY <2>1, <2>2, <2>3
  <1> HIDE DEF v
  <1>7. View(p)' = v
    <2>1. pending'[p].len = Len(v) /\ \A j \in 1..Len(v) : heap'[pending'[p].arr][j] = v[j]
      BY <1>4, <1>6
    <2> QED
      BY <1>4, <2>1, NewView
  <1>8. OthersKept(p)
    BY <1>1, <1>5, InPlaceKeepsOthers
  <1> QED
    BY <1>3, <1>7, <1>8

(* Peek and Drop: no list changes. *)
LEMMA ViewPeek ==
    ASSUME Inv, NEW r \in Readers, Drop(r) \/ \E p \in Peers : Peek(r, p)
    PROVE  \A q \in Peers : View(q)' = View(q)
  <1>0. /\ heap \in [Arrays \cup {NilArray} -> Seq(Slot)] /\ pending \in [Peers -> Slice]
        /\ held \in [Readers -> Slice] /\ NilSlice \in Slice
    BY ConstantsAssumption DEF Inv, TypeOK, NilSlice, Slice
  <1>1. held' \in [Readers -> Slice] /\ pending' = pending /\ heap' = Collect(heap, pending, held')
    BY <1>0 DEF Peek, Drop
  <1>2. \A q \in Peers : heap'[pending[q].arr] = heap[pending[q].arr]
    BY ONLY <1>0, <1>1, CollectType
  <1> QED
    BY <1>1, <1>2, ViewFrame

(* Dequeue: the list of the peer is empty. *)
LEMMA ViewDequeue ==
    ASSUME Inv, NEW r \in Readers, NEW p \in Peers, Dequeue(r, p)
    PROVE  View(p)' = <<>> /\ OthersKept(p)
  <1>0. /\ heap \in [Arrays \cup {NilArray} -> Seq(Slot)] /\ pending \in [Peers -> Slice]
        /\ held \in [Readers -> Slice] /\ NilSlice \in Slice
    BY ConstantsAssumption DEF Inv, TypeOK, NilSlice, Slice
  <1>1. /\ pending' \in [Peers -> Slice] /\ pending'[p] = NilSlice
        /\ \A q \in Peers \ {p} : pending'[q] = pending[q]
    BY <1>0 DEF Dequeue
  <1>2. held' \in [Readers -> Slice] /\ heap' = Collect(heap, pending', held')
    BY <1>0 DEF Dequeue
  <1>3. \A q \in Peers : heap'[pending'[q].arr] = heap[pending'[q].arr]
    BY ONLY <1>0, <1>1, <1>2, CollectType
  <1>4. OthersKept(p)
    BY <1>1, <1>3, ViewFrame DEF OthersKept
  <1>5. View(p)' = <<>>
    BY <1>1 DEF View, Contents, NilSlice
  <1> QED
    BY <1>4, <1>5

(* Cleanup: what is left of a list are its survivors. *)
LEMMA ViewCleanup ==
    ASSUME Inv, Cleanup
    PROVE  \A p \in Peers : View(p)' = Valid(p)
  <1> DEFINE kept == {p \in Peers : Survivors(p) # {}}
             fresh == NewArrays(kept, FreeArrays)
             made == [p \in Peers |-> ArrayOf(Valid(p), CapFor(Len(Valid(p))))]
             base == [a \in DOMAIN heap |->
                        IF \E p \in kept : fresh[p] = a
                        THEN LET p == CHOOSE p \in kept : fresh[p] = a
                             IN ArrayOf(Valid(p), CapFor(Len(Valid(p))))
                        ELSE heap[a]]
  <1>0. /\ heap \in [Arrays \cup {NilArray} -> Seq(Slot)] /\ held \in [Readers -> Slice]
        /\ NilSlice \in Slice
    BY ConstantsAssumption DEF Inv, TypeOK, NilSlice, Slice
  <1>1. /\ pending' = [p \in Peers |-> IF p \in kept THEN [arr |-> fresh[p], len |-> Len(Valid(p))]
                                      ELSE NilSlice]
        /\ heap' = Collect(base, pending', held)
    BY DEF Cleanup
  <1>2. \A p \in Peers : /\ Valid(p) \in Seq(Entry) /\ Len(Valid(p)) \in Nat
                         /\ Survivors(p) = {} => Valid(p) = <<>>
    BY ValidType DEF Cleanup, Inv
  <1>3. /\ fresh \in [kept -> FreeArrays]
        /\ \A x, y \in kept : fresh[x] = fresh[y] => x = y
    BY NewArraysType DEF Cleanup
  <1>4. \A p \in kept : fresh[p] \in Arrays
    BY <1>3 DEF FreeArrays
  <1>5. \A p \in Peers : /\ made[p] \in Seq(Slot)
                         /\ \A i \in 1..Len(Valid(p)) : made[p][i] = Valid(p)[i]
    <2> SUFFICES ASSUME NEW p \in Peers
                 PROVE  /\ ArrayOf(Valid(p), CapFor(Len(Valid(p)))) \in Seq(Slot)
                        /\ \A i \in 1..Len(Valid(p)) :
                              ArrayOf(Valid(p), CapFor(Len(Valid(p))))[i] = Valid(p)[i]
      OBVIOUS
    <2>1. Valid(p) \in Seq(Entry) /\ Len(Valid(p)) \in Nat
      BY <1>2
    <2>2. CapFor(Len(Valid(p))) \in Nat /\ Len(Valid(p)) <= CapFor(Len(Valid(p)))
      BY <2>1, CapForType
    <2> QED
      BY <2>1, <2>2, ArrayOfType
  <1>6. \A p \in kept : (CHOOSE q \in kept : fresh[q] = fresh[p]) = p
    BY <1>3
  <1> HIDE DEF fresh
  <1>7. \A p \in kept : base[fresh[p]] = made[p]
    BY <1>0, <1>4, <1>6
  <1>8. \A a \in Arrays \cup {NilArray} : base[a] = heap[a] \/ \E p \in kept : fresh[p] = a
    BY <1>0
  <1>9. DOMAIN base = Arrays \cup {NilArray}
    BY <1>0
  <1>10. base = [a \in Arrays \cup {NilArray} |-> base[a]]
    BY <1>0
  <1> HIDE DEF base, made
  <1>11. base \in [Arrays \cup {NilArray} -> Seq(Slot)]
    <2>1. \A a \in Arrays \cup {NilArray} : base[a] \in Seq(Slot)
      BY <1>0, <1>5, <1>7, <1>8
    <2> QED
      BY <1>10, <2>1
  <1>12. /\ pending' \in [Peers -> Slice]
         /\ \A p \in kept : pending'[p].arr = fresh[p] /\ pending'[p].len = Len(Valid(p))
         /\ \A p \in Peers \ kept : pending'[p] = NilSlice
    BY <1>0, <1>1, <1>2, <1>4 DEF Slice
  <1>13. \A p \in Peers : heap'[pending'[p].arr] = base[pending'[p].arr]
    <2>1. heap' = Collect(base, pending', held)
      BY <1>1
    <2>2. pending' \in [Peers -> Slice] /\ held \in [Readers -> Slice]
      BY <1>0, <1>12
    <2> QED
      BY ONLY <1>11, <2>1, <2>2, CollectType
  <1> SUFFICES ASSUME NEW p \in Peers PROVE View(p)' = Valid(p)
    OBVIOUS
  <1> HIDE DEF kept
  <1>14. Valid(p) \in Seq(Entry) /\ (p \notin kept => Valid(p) = <<>>)
    BY <1>2 DEF kept
  <1>15. CASE p \in kept
    <2>1. /\ pending'[p].len = Len(Valid(p))
          /\ \A i \in 1..Len(Valid(p)) : heap'[pending'[p].arr][i] = Valid(p)[i]
      BY <1>5, <1>7, <1>12, <1>13, <1>15
    <2> QED
      BY <1>14, <2>1, NewView
  <1>16. CASE p \notin kept
    <2>1. View(p)' = <<>>
      BY <1>12, <1>16 DEF View, Contents, NilSlice
    <2> QED
      BY <1>16, <1>14, <2>1
  <1> QED
    BY <1>15, <1>16

(* Restart: the lists are those the files held. *)
LEMMA ViewRestart ==
    ASSUME Inv, Restart
    PROVE  \A p \in Peers : View(p)' = Loaded(p)
  <1>1. Inv'
    BY InvRestart
  <1>2. dirty' = {} /\ failed' = {} /\ disk' = disk
    BY DEF Restart
  <1> QED
    BY <1>1, <1>2 DEF Inv, SavedWhenUnlocked, Loaded
-----------------------------------------------------------------------------
(* The abstract state after a step that changes one list, or no file. *)
LEMMA QueueStep ==
    ASSUME NEW p \in Peers, NEW v, View(p)' = v, OthersKept(p)
    PROVE  Queue' = [Queue EXCEPT ![p] = v]
  <1>1. \A q \in Peers : View(q)' = IF q = p THEN v ELSE View(q)
    BY DEF OthersKept
  <1>2. Queue' = [q \in Peers |-> View(q)']
    BY DEF Queue
  <1> QED
    BY <1>1, <1>2 DEF Queue

LEMMA DurableFrame ==
    ASSUME disk' = disk
    PROVE  Durable' = Durable
  BY DEF Durable, Loaded

LEMMA DurableStep ==
    ASSUME NEW p \in Peers, NEW v, Loaded(p)' = v,
           \A q \in Peers \ {p} : Loaded(q)' = Loaded(q)
    PROVE  Durable' = [Durable EXCEPT ![p] = v]
  <1>1. \A q \in Peers : Loaded(q)' = IF q = p THEN v ELSE Loaded(q)
    OBVIOUS
  <1>2. Durable' = [q \in Peers |-> Loaded(q)']
    BY DEF Durable
  <1> QED
    BY <1>1, <1>2 DEF Durable

(* Enqueue implements Accept. *)
LEMMA EnqueueAccepts ==
    ASSUME Inv, NEW p \in Peers, NEW b \in Bodies, Enqueue(p, b)
    PROVE  Abstract!Next
  <1>1. PICK id \in IdsFor(b) :
           AppendEntry(p, [id |-> id, body |-> b, expires |-> now + TTL, attempts |-> 0])
    BY DEF Enqueue
  <1> DEFINE e == [id |-> id, body |-> b, expires |-> now + TTL, attempts |-> 0]
  <1>2. id \in Ids
    BY ConstantsAssumption DEF IdsFor
  <1>3. e \in Entry
    BY <1>2, ConstantsAssumption DEF Entry, Inv, TypeOK
  <1>4. AppendEntry(p, e) /\ held' = held /\ disk' = disk /\ now' = now
    BY <1>1 DEF Enqueue
  <1>5. Queue' = [Queue EXCEPT ![p] = Append(View(p), e)]
    <2> HIDE DEF e
    <2>1. View(p)' = Append(View(p), e) /\ OthersKept(p)
      BY <1>3, <1>4, ViewAppend
    <2> QED
      BY <2>1, QueueStep
  <1>6. Queue[p] = View(p)
    BY DEF Queue
  <1>7. Abstract!Accept(p, id, b)
    BY <1>4, <1>5, <1>6, DurableFrame DEF Abstract!Accept, Queue, Durable
  <1> QED
    BY <1>2, <1>7 DEF Abstract!Next

(* RemoveMessage implements Discard, or changes nothing. *)
LEMMA RemoveDiscards ==
    ASSUME Inv, NEW p \in Peers, NEW id \in Ids, RemoveMessage(p, id)
    PROVE  Abstract!Next \/ (Queue' = Queue /\ Durable' = Durable /\ now' = now)
  <1>1. Durable' = Durable /\ now' = now
    BY DurableFrame DEF RemoveMessage
  <1>2. CASE UNCHANGED <<heap, pending, dirty>>
    BY <1>1, <1>2 DEF Queue, View, Contents
  <1>3. ASSUME NEW i \in FirstWith(p, id),
               heap' = [heap EXCEPT ![pending[p].arr] =
                  [j \in 1..Len(@) |-> IF i <= j /\ j < pending[p].len THEN @[j + 1] ELSE @[j]]],
               pending' = [pending EXCEPT ![p].len = @ - 1]
        PROVE  Abstract!Next
    <2>1. /\ i \in 1..pending[p].len
          /\ \A j \in 1..(i - 1) : View(p)[j].id # View(p)[i].id
      BY DEF FirstWith
    <2>2. /\ View(p)' = [j \in 1..(Len(View(p)) - 1) |->
                             IF j < i THEN View(p)[j] ELSE View(p)[j + 1]]
          /\ OthersKept(p)
      BY <1>3, <2>1, ViewRemove
    <2>3. Queue' = [Queue EXCEPT ![p] = [j \in 1..(Len(View(p)) - 1) |->
                             IF j < i THEN View(p)[j] ELSE View(p)[j + 1]]]
      BY <2>2, QueueStep
    <2>4. Queue[p] = View(p) /\ Len(View(p)) = pending[p].len
      BY ListFacts DEF Queue
    <2>5. Abstract!Discard(p, i)
      BY <1>1, <2>3, <2>4 DEF Abstract!Discard, Queue, Durable
    <2> QED
      BY <2>1, <2>4, <2>5 DEF Abstract!Next, Queue
  <1> QED
    BY <1>2, <1>3 DEF RemoveMessage

(* MarkAttempt implements Attempt, or changes nothing. *)
LEMMA MarkCounts ==
    ASSUME Inv, NEW p \in Peers, NEW id \in Ids, MarkAttempt(p, id)
    PROVE  Abstract!Next \/ (Queue' = Queue /\ Durable' = Durable /\ now' = now)
  <1>1. Durable' = Durable /\ now' = now /\ pending' = pending
    BY DurableFrame DEF MarkAttempt
  <1>2. CASE UNCHANGED heap
    BY <1>1, <1>2 DEF Queue, View, Contents
  <1>3. ASSUME NEW i \in FirstWith(p, id),
               heap' = [heap EXCEPT ![pending[p].arr][i].attempts =
                           IF @ < MaxRetry THEN @ + 1 ELSE @]
        PROVE  Abstract!Next
    <2>1. /\ i \in 1..pending[p].len
          /\ \A j \in 1..(i - 1) : View(p)[j].id # View(p)[i].id
      BY DEF FirstWith
    <2>2. /\ View(p)' = [View(p) EXCEPT ![i].attempts = IF @ < MaxRetry THEN @ + 1 ELSE @]
          /\ OthersKept(p)
      BY <1>1, <1>3, <2>1, ViewMark
    <2>3. Queue' = [Queue EXCEPT ![p] =
                      [View(p) EXCEPT ![i].attempts = IF @ < MaxRetry THEN @ + 1 ELSE @]]
      BY <2>2, QueueStep
    <2>4. Queue[p] = View(p) /\ Len(View(p)) = pending[p].len
      BY ListFacts DEF Queue
    <2>5. Abstract!Attempt(p, i)
      BY <1>1, <2>3, <2>4 DEF Abstract!Attempt, Queue, Durable
    <2> QED
      BY <2>1, <2>4, <2>5 DEF Abstract!Next, Queue
  <1> QED
    BY <1>2, <1>3 DEF MarkAttempt

(* Cleanup implements Purge. *)
LEMMA CleanupPurges ==
    ASSUME Inv, Cleanup
    PROVE  Abstract!Next
  <1>1. Durable' = Durable /\ now' = now
    BY DurableFrame DEF Cleanup
  <1>2. \A p \in Peers : Queue[p] = View(p) /\ Len(View(p)) = pending[p].len
    BY ListFacts DEF Queue
  <1>3. \A p \in Peers : Abstract!Survivors(p) = Survivors(p)
    BY <1>2 DEF Abstract!Survivors, Survivors, Queue
  <1>4. ASSUME NEW s, NEW S PROVE Abstract!Sublist(s, S) = Sublist(s, S)
    <2>1. Abstract!Cardinality(S) = Cardinality(S)
      BY DEF Abstract!Cardinality, Cardinality
    <2>2. Abstract!InOrder(S) = InOrder(S)
      BY <2>1 DEF Abstract!InOrder, InOrder
    <2> QED
      BY <2>1, <2>2 DEF Abstract!Sublist, Sublist
  <1>5. \A p \in Peers : View(p)' = Abstract!Sublist(Queue[p], Abstract!Survivors(p))
    BY <1>2, <1>3, <1>4, ViewCleanup DEF Valid
  <1>6. Abstract!Purge
    BY <1>1, <1>5 DEF Abstract!Purge, Queue, Durable
  <1> QED
    BY <1>6 DEF Abstract!Next

(* The save steps implement Save and Spoil, a failed save nothing. *)
LEMMA SavesImplement ==
    ASSUME Inv, NEW p \in Peers,
           SaveRemove(p) \/ SaveTruncate(p) \/ SaveWrite(p) \/ SaveFail(p)
    PROVE  Abstract!Next \/ (Queue' = Queue /\ Durable' = Durable /\ now' = now)
  <1>1. Queue' = Queue /\ now' = now
    BY DEF SaveRemove, SaveTruncate, SaveWrite, SaveFail, memory, Queue, View, Contents
  <1>2. disk \in [Peers -> File]
    BY DEF Inv, TypeOK
  <1>3. Queue[p] = View(p) /\ Len(View(p)) = pending[p].len /\ View(p) \in Seq(Entry)
    BY ListFacts DEF Queue
  <1>4. CASE SaveRemove(p) \/ SaveWrite(p)
    <2>1. Loaded(p)' = View(p) /\ \A q \in Peers \ {p} : Loaded(q)' = Loaded(q)
      <3>1. CASE SaveRemove(p)
        BY <1>2, <1>3, <3>1 DEF SaveRemove, Loaded, NoFile
      <3>2. CASE SaveWrite(p)
        BY <1>2, <3>2 DEF SaveWrite, Loaded
      <3> QED
        BY <1>4, <3>1, <3>2
    <2>2. Durable' = [Durable EXCEPT ![p] = View(p)]
      BY <2>1, DurableStep
    <2>3. Abstract!Save(p)
      BY <1>1, <1>3, <2>2 DEF Abstract!Save, Queue, Durable
    <2> QED
      BY <2>3 DEF Abstract!Next
  <1>5. CASE SaveTruncate(p)
    <2>1. Loaded(p)' = <<>> /\ \A q \in Peers \ {p} : Loaded(q)' = Loaded(q)
      BY <1>2, <1>5 DEF SaveTruncate, Loaded, TornFile
    <2>2. Durable' = [Durable EXCEPT ![p] = <<>>]
      BY <2>1, DurableStep
    <2>3. Abstract!Spoil(p)
      BY <1>1, <2>2 DEF Abstract!Spoil, Queue, Durable
    <2> QED
      BY <2>3 DEF Abstract!Next
  <1>6. CASE SaveFail(p)
    BY <1>1, <1>6, DurableFrame DEF SaveFail
  <1> QED
    BY <1>4, <1>5, <1>6

(* Every step of the queue is a step of the abstract specification, or     *)
(* leaves the abstract state alone.                                        *)
LEMMA StepSimulation == Inv /\ [Next]_qvars => [Abstract!Next]_(Abstract!vars)
  <1> DEFINE Same == Queue' = Queue /\ Durable' = Durable /\ now' = now
  <1> SUFFICES ASSUME Inv, [Next]_qvars PROVE Abstract!Next \/ Same
    BY DEF Abstract!vars, Queue, Durable
  <1>1. ASSUME NEW p \in Peers, NEW b \in Bodies, Enqueue(p, b) PROVE Abstract!Next
    BY <1>1, EnqueueAccepts
  <1>2. ASSUME NEW p \in Peers, NEW r \in Readers, Dequeue(r, p) PROVE Abstract!Next
    <2>1. Queue' = [Queue EXCEPT ![p] = <<>>]
      BY <1>2, ViewDequeue, QueueStep
    <2>2. Durable' = Durable /\ now' = now
      BY <1>2, DurableFrame DEF Dequeue
    <2>3. Abstract!TakeAll(p)
      BY <2>1, <2>2 DEF Abstract!TakeAll, Queue, Durable
    <2> QED
      BY <2>3 DEF Abstract!Next
  <1>3. ASSUME NEW r \in Readers, Drop(r) \/ \E p \in Peers : Peek(r, p) PROVE Same
    <2>1. Queue' = Queue
      BY <1>3, ViewPeek DEF Queue
    <2> QED
      BY <1>3, <2>1, DurableFrame DEF Drop, Peek, files
  <1>4. ASSUME NEW p \in Peers, NEW id \in Ids, MarkAttempt(p, id) PROVE Abstract!Next \/ Same
    BY <1>4, MarkCounts
  <1>5. ASSUME NEW p \in Peers, NEW id \in Ids, RemoveMessage(p, id) PROVE Abstract!Next \/ Same
    BY <1>5, RemoveDiscards
  <1>6. CASE Cleanup
    BY <1>6, CleanupPurges
  <1>7. CASE SaveStep
    BY <1>7, SavesImplement DEF SaveStep
  <1>8. CASE Restart
    <2>1. Durable' = Durable /\ now' = now
      BY <1>8, DurableFrame DEF Restart
    <2>2. Queue' = Durable
      BY <1>8, ViewRestart DEF Queue, Durable
    <2>3. Abstract!Recover
      BY <2>1, <2>2 DEF Abstract!Recover, Queue, Durable
    <2> QED
      BY <2>3 DEF Abstract!Next
  <1>9. CASE Tick
    <2>1. Queue' = Queue /\ Durable' = Durable /\ now' = now + 1
      BY <1>9 DEF Tick, memory, files, Queue, Durable, View, Contents, Loaded
    <2>2. Abstract!Pass
      BY <2>1 DEF Abstract!Pass, Queue, Durable
    <2> QED
      BY <2>2 DEF Abstract!Next
  <1>10. CASE UNCHANGED qvars
    BY <1>10 DEF qvars, Queue, Durable, View, Contents, Loaded
  <1> QED
    BY <1>1, <1>2, <1>3, <1>4, <1>5, <1>6, <1>7, <1>8, <1>9, <1>10 DEF Next

(* Refinement: for every number of peers, messages, readers and arrays,    *)
(* the slices that share and rewrite backing arrays behave like one list   *)
(* per peer with value semantics, and the files like its durable copy.     *)
THEOREM QueueImplementsStoreForward == Spec => ImplementsStoreForward
  <1>1. Init => Abstract!Init
    BY DEF Init, Abstract!Init, View, Contents, NilSlice, Loaded, NoFile
  <1> QED
    BY <1>1, InvInit, InvNext, StepSimulation, PTL DEF Spec, ImplementsStoreForward, Abstract!Spec
=============================================================================
