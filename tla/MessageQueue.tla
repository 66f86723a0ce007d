---------------------------- MODULE MessageQueue ----------------------------
(***************************************************************************)
(* The store-and-forward queue of a relay node,                            *)
(* src/internal/relay/queue.go.                                            *)
(*                                                                         *)
(* pending is a Go map from peers to slices.  A slice is a length and a    *)
(* reference to a backing array that append, RemoveMessage and MarkAttempt *)
(* write IN PLACE, and that a slice returned by Peek shares: the arrays    *)
(* are therefore modelled (heap), and so are the slices that callers of    *)
(* Peek still hold (held).  Every slice of this file starts at element 0   *)
(* of its array, so an offset is not needed.                               *)
(*                                                                         *)
(* Each operation runs under q.mu and ends by saving the peers it touched: *)
(* the first step of an operation changes the memory and makes these peers *)
(* dirty, the save steps write their files, and q.mu is free again when no *)
(* peer is dirty.  A crash may fall between any two steps.                 *)
(***************************************************************************)
EXTENDS Naturals, Sequences, FiniteSets, Functions

CONSTANTS Peers,      \* peers that messages are queued for
          Bodies,     \* messages as their senders know them (From, To, Content)
          Ids,        \* message IDs
          NoId,       \* the empty ID ""
          IdOf,       \* IdOf[b]: the ID the sender gave to message b
          Readers,    \* goroutines that call Peek
          Arrays,     \* addresses of backing arrays (a bound on the heap)
          NilArray,   \* the backing array of a nil slice
          NoPeer,     \* no file is being written
          TTL,        \* q.ttl, in clock ticks
          MaxRetry,   \* q.maxRetry
          MaxNow,     \* bound on the clock
          MaxFaults   \* bound on crashes and failed saves together

(* The constants describe a queue: IDs are given to all messages, nil is   *)
(* not an array, and there are arrays enough to give one to every peer.    *)
ASSUME ConstantsAssumption ==
    /\ NoId \notin Ids
    /\ IdOf \in [Bodies -> Ids \cup {NoId}]
    /\ NilArray \notin Arrays
    /\ NoPeer \notin Peers
    /\ TTL \in Nat /\ MaxRetry \in Nat \ {0} /\ MaxNow \in Nat /\ MaxFaults \in Nat

ASSUME ArraysAssumption == ExistsInjection(Peers, Arrays)

VARIABLES
    heap,      \* [Arrays \cup {NilArray} -> Seq(Slot)]; Len(heap[a]) is the capacity
    pending,   \* [Peers -> Slice]; a peer absent from the map has NilSlice
    held,      \* [Readers -> Slice]: the slice a reader got from Peek
    disk,      \* [Peers -> File]: <baseDir>/<peer>.json
    dirty,     \* peers the holder of q.mu has still to save
    writing,   \* the peer whose file is truncated and not yet written
    now,       \* time.Now()
    accepted,  \* history: messages ever enqueued
    failed,    \* history: peers whose last save failed
    faults     \* history: crashes and failed saves so far

memory == <<heap, pending, held>>
files  == <<disk, dirty, writing, failed>>
qvars  == <<heap, pending, held, disk, dirty, writing, now, accepted, failed, faults>>
-----------------------------------------------------------------------------
(* QueuedMessage. Only what the code compares is kept: ID, the message     *)
(* itself, ExpiresAt and Attempts.  Attempts is only ever compared with    *)
(* maxRetry, so it saturates there.                                        *)
Entry == [id: Ids, body: Bodies, expires: Nat, attempts: 0..MaxRetry]
NoEntry == [id |-> NoId]                \* a zeroed slot of an array
Slot == Entry \cup {NoEntry}

Slice == [arr: Arrays \cup {NilArray}, len: Nat]
NilSlice == [arr |-> NilArray, len |-> 0]

(* A file is absent, holds a list of messages, or is truncated: json       *)
(* Unmarshal rejects a truncated file.                                     *)
File == [state: {"absent", "ok", "torn"}, msgs: Seq(Entry)]
NoFile == [state |-> "absent", msgs |-> <<>>]
TornFile == [state |-> "torn", msgs |-> <<>>]

Cap(s) == Len(heap[s.arr])

(* The messages of a slice. *)
Contents(s) == [i \in 1..s.len |-> heap[s.arr][i]]
View(p) == Contents(pending[p])

(* Capacity of the array that n appends to a nil slice leave behind: the   *)
(* runtime doubles it (larger slices, which no instance reaches, are taken *)
(* as exact).                                                              *)
CapFor(n) == IF n <= 2 THEN n ELSE IF n <= 4 THEN 4 ELSE IF n <= 8 THEN 8 ELSE n

(* The listing of a set of positions in ascending order (there is one), and *)
(* the messages of a list at these positions.                              *)
InOrder(S) == {f \in [1..Cardinality(S) -> S] : \A i, j \in DOMAIN f : i < j => f[i] < f[j]}
Sublist(s, S) == [i \in 1..Cardinality(S) |-> s[(CHOOSE f \in InOrder(S) : TRUE)[i]]]

(* An array of capacity c that begins with the messages of s. *)
ArrayOf(s, c) == [i \in 1..c |-> IF i \in 1..Len(s) THEN s[i] ELSE NoEntry]

(* The arrays that a map of slices refers to.  The garbage collector takes *)
(* back those that neither pending nor a reader refers to.                 *)
Arrs(m) == {m[x].arr : x \in DOMAIN m}
FreeArrays == Arrays \ (Arrs(pending) \cup Arrs(held))
Collect(h, pd, hd) == [a \in DOMAIN h |-> IF a \in Arrs(pd) \cup Arrs(hd) THEN h[a] ELSE <<>>]

(* make and append: distinct arrays, out of A, for the lists of the peers   *)
(* in S.                                                                   *)
NewArrays(S, A) == CHOOSE f \in Injection(S, A) : TRUE

Unlocked == dirty = {}

(* for i := range messages { if messages[i].ID == msgID ...break }: the    *)
(* first position that carries the id; none if the id does not occur.      *)
FirstWith(p, id) ==
    {i \in 1..pending[p].len : /\ View(p)[i].id = id
                               /\ \A j \in 1..(i - 1) : View(p)[j].id # id}

(* PeersWithPending *)
PeersWithPending == {p \in Peers : pending[p].len > 0}

(* Mutant: Enqueue keeps the ID it is given, also an empty one. *)
IdsForSender(b) == {IdOf[b]}

(* Enqueue makes up an ID from the clock when the sender gave none. *)
IdsFor(b) == IF IdOf[b] = NoId THEN Ids ELSE {IdOf[b]}
-----------------------------------------------------------------------------
Init == /\ heap = [a \in Arrays \cup {NilArray} |-> <<>>]
        /\ pending = [p \in Peers |-> NilSlice]
        /\ held = [r \in Readers |-> NilSlice]
        /\ disk = [p \in Peers |-> NoFile]
        /\ dirty = {}
        /\ writing = NoPeer
        /\ now = 0
        /\ accepted = {}
        /\ failed = {}
        /\ faults = 0

(* append(pending[p], e): in place while the array has room, into an array *)
(* of twice the capacity otherwise.                                        *)
AppendEntry(p, e) ==
    LET s == pending[p]
        a == NewArrays({p}, FreeArrays)[p]
    IN
    \/ /\ s.len < Cap(s)
       /\ heap' = [heap EXCEPT ![s.arr][s.len + 1] = e]
       /\ pending' = [pending EXCEPT ![p].len = @ + 1]
    \/ /\ s.len = Cap(s)
       /\ ExistsInjection({p}, FreeArrays)
       /\ pending' = [pending EXCEPT ![p] = [arr |-> a, len |-> s.len + 1]]
       /\ heap' = Collect([heap EXCEPT ![a] = ArrayOf(Append(View(p), e),
                                                     IF s.len = 0 THEN 1 ELSE 2 * s.len)],
                          pending', held)

(* Enqueue *)
Enqueue(p, b) ==
    /\ Unlocked
    /\ b \notin accepted /\ now + TTL <= MaxNow
    /\ \E id \in IdsFor(b) :
         AppendEntry(p, [id |-> id, body |-> b, expires |-> now + TTL, attempts |-> 0])
    /\ accepted' = accepted \cup {b}
    /\ dirty' = {p}
    /\ UNCHANGED <<held, disk, writing, now, failed, faults>>

(* Dequeue: the caller keeps the slice, the map entry and the file go. *)
Dequeue(r, p) ==
    /\ Unlocked
    /\ held' = [held EXCEPT ![r] = pending[p]]
    /\ pending' = [pending EXCEPT ![p] = NilSlice]
    /\ heap' = Collect(heap, pending', held')
    /\ dirty' = {p}
    /\ UNCHANGED <<disk, writing, failed, now, accepted, faults>>

(* Peek returns the slice itself, not a copy of its messages. *)
Peek(r, p) ==
    /\ Unlocked
    /\ held' = [held EXCEPT ![r] = pending[p]]
    /\ heap' = Collect(heap, pending, held')
    /\ UNCHANGED <<pending, files, now, accepted, faults>>

(* The caller of Peek is done with the slice. *)
Drop(r) ==
    /\ held[r] # NilSlice
    /\ held' = [held EXCEPT ![r] = NilSlice]
    /\ heap' = Collect(heap, pending, held')
    /\ UNCHANGED <<pending, files, now, accepted, faults>>

(* Mutant: MarkAttempt does not save. *)
MarkUnsaved(p, id) ==
    /\ Unlocked
    /\ \E i \in FirstWith(p, id) :
            heap' = [heap EXCEPT ![pending[p].arr][i].attempts =
                        IF @ < MaxRetry THEN @ + 1 ELSE @]
    /\ UNCHANGED <<pending, held, files, now, accepted, faults>>

(* MarkAttempt: the counter is incremented in the shared array; the peer   *)
(* is saved whether or not the message was found.                          *)
MarkAttempt(p, id) ==
    /\ Unlocked
    /\ \/ \E i \in FirstWith(p, id) :
            heap' = [heap EXCEPT ![pending[p].arr][i].attempts =
                        IF @ < MaxRetry THEN @ + 1 ELSE @]
       \/ FirstWith(p, id) = {} /\ UNCHANGED heap
    /\ dirty' = {p}
    /\ UNCHANGED <<pending, held, disk, writing, now, accepted, failed, faults>>

(* Mutants: the freed slot is cleared, as slices.Delete does; the result   *)
(* of append is not stored back in the map.                                *)
RemoveClearing(p, id) ==
    LET s == pending[p] IN
    /\ Unlocked
    /\ \E i \in FirstWith(p, id) :
         heap' = [heap EXCEPT ![s.arr] =
             [j \in 1..Len(@) |-> IF i <= j /\ j < s.len THEN @[j + 1]
                                  ELSE IF j = s.len THEN NoEntry ELSE @[j]]]
    /\ pending' = [pending EXCEPT ![p].len = @ - 1]
    /\ dirty' = {p}
    /\ UNCHANGED <<held, disk, writing, now, accepted, failed, faults>>
RemoveUnassigned(p, id) ==
    LET s == pending[p] IN
    /\ Unlocked
    /\ \E i \in FirstWith(p, id) :
         heap' = [heap EXCEPT ![s.arr] =
             [j \in 1..Len(@) |-> IF i <= j /\ j < s.len THEN @[j + 1] ELSE @[j]]]
    /\ dirty' = {p}
    /\ UNCHANGED <<pending, held, disk, writing, now, accepted, failed, faults>>

(* RemoveMessage: append(messages[:i], messages[i+1:]...) shifts the tail  *)
(* one place down IN the array and leaves the last slot as it was.         *)
RemoveMessage(p, id) ==
    LET s == pending[p] IN
    /\ Unlocked
    /\ \/ \E i \in FirstWith(p, id) :
            /\ heap' = [heap EXCEPT ![s.arr] =
                  [j \in 1..Len(@) |-> IF i <= j /\ j < s.len THEN @[j + 1] ELSE @[j]]]
            /\ pending' = [pending EXCEPT ![p].len = @ - 1]
            /\ dirty' = {p}
       \/ FirstWith(p, id) = {} /\ UNCHANGED <<heap, pending, dirty>>
    /\ UNCHANGED <<held, disk, writing, now, accepted, failed, faults>>

(* Mutants: one condition is enough to survive; expiry is not looked at.   *)
SurvivorsOfEither(p) == {i \in 1..pending[p].len :
                            now < View(p)[i].expires \/ View(p)[i].attempts < MaxRetry}
SurvivorsUnexpiring(p) == {i \in 1..pending[p].len : View(p)[i].attempts < MaxRetry}

(* Cleanup keeps, in fresh slices, the messages that neither expired nor   *)
(* used up their attempts.  Peers are saved one after the other.  (That    *)
(* the survivors have a listing in ascending order is always true.)        *)
Survivors(p) == {i \in 1..pending[p].len :
                    now < View(p)[i].expires /\ View(p)[i].attempts < MaxRetry}
Valid(p) == Sublist(View(p), Survivors(p))

(* Mutant: all peers' survivors are collected in the same array. *)
CleanupShared ==
    LET kept == {p \in Peers : Survivors(p) # {}}
        fresh == NewArrays({NoPeer}, FreeArrays)[NoPeer]
    IN
    /\ Unlocked
    /\ ExistsInjection({NoPeer}, FreeArrays)
    /\ pending' = [p \in Peers |->
          IF p \in kept THEN [arr |-> fresh, len |-> Len(Valid(p))] ELSE NilSlice]
    /\ heap' = Collect([heap EXCEPT ![fresh] =
                          IF kept = {} THEN <<>> ELSE Valid(CHOOSE p \in kept : TRUE)],
                       pending', held)
    /\ dirty' = {p \in Peers : pending[p].arr # NilArray}
    /\ UNCHANGED <<held, disk, writing, now, accepted, failed, faults>>

Cleanup ==
    LET mapped == {p \in Peers : pending[p].arr # NilArray}
        kept == {p \in Peers : Survivors(p) # {}}
        fresh == NewArrays(kept, FreeArrays)
    IN
    /\ Unlocked
    /\ ExistsInjection(kept, FreeArrays)
    /\ \A p \in Peers : InOrder(Survivors(p)) # {}
    /\ pending' = [p \in Peers |->
          IF p \in kept THEN [arr |-> fresh[p], len |-> Len(Valid(p))] ELSE NilSlice]
    /\ heap' = Collect([a \in DOMAIN heap |->
                          IF \E p \in kept : fresh[p] = a
                          THEN LET p == CHOOSE p \in kept : fresh[p] = a
                               IN ArrayOf(Valid(p), CapFor(Len(Valid(p))))
                          ELSE heap[a]],
                       pending', held)
    /\ dirty' = mapped
    /\ UNCHANGED <<held, disk, writing, now, accepted, failed, faults>>
-----------------------------------------------------------------------------
(* Mutant: a list of one message counts as empty. *)
SaveRemoveOne(p) ==
    /\ p \in dirty /\ writing = NoPeer
    /\ pending[p].len <= 1
    /\ disk' = [disk EXCEPT ![p] = NoFile]
    /\ dirty' = dirty \ {p}
    /\ failed' = failed \ {p}
    /\ UNCHANGED <<memory, writing, now, accepted, faults>>

(* savePeer, and the direct os.Remove of Cleanup: an empty list has no     *)
(* file.                                                                   *)
SaveRemove(p) ==
    /\ p \in dirty /\ writing = NoPeer
    /\ pending[p].len = 0
    /\ disk' = [disk EXCEPT ![p] = NoFile]
    /\ dirty' = dirty \ {p}
    /\ failed' = failed \ {p}
    /\ UNCHANGED <<memory, writing, now, accepted, faults>>

(* os.WriteFile truncates the file, then writes it. *)
SaveTruncate(p) ==
    /\ p \in dirty /\ writing = NoPeer
    /\ pending[p].len > 0
    /\ disk' = [disk EXCEPT ![p] = TornFile]
    /\ writing' = p
    /\ UNCHANGED <<memory, dirty, failed, now, accepted, faults>>

SaveWrite(p) ==
    /\ p \in dirty /\ writing = p
    /\ disk' = [disk EXCEPT ![p] = [state |-> "ok", msgs |-> View(p)]]
    /\ writing' = NoPeer
    /\ dirty' = dirty \ {p}
    /\ failed' = failed \ {p}
    /\ UNCHANGED <<memory, now, accepted, faults>>

(* The file cannot be removed or opened (it stays as it was), or not be    *)
(* written (it stays truncated).  Every caller in node.go ignores the      *)
(* error.                                                                  *)
SaveFail(p) ==
    /\ p \in dirty /\ writing \in {NoPeer, p}
    /\ faults < MaxFaults
    /\ writing' = NoPeer
    /\ dirty' = dirty \ {p}
    /\ failed' = failed \cup {p}
    /\ faults' = faults + 1
    /\ UNCHANGED <<memory, disk, now, accepted>>

(* load(): files that do not parse are skipped. *)
Loaded(p) == IF disk[p].state = "ok" THEN disk[p].msgs ELSE <<>>

(* The process dies and a new one builds the queue: NewMessageQueue. *)
Restart ==
    LET home == NewArrays(Peers, Arrays) IN
    /\ faults < MaxFaults
    /\ heap' = [a \in DOMAIN heap |->
          IF \E p \in Peers : home[p] = a /\ Loaded(p) # <<>>
          THEN LET p == CHOOSE p \in Peers : home[p] = a
               IN ArrayOf(Loaded(p), CapFor(Len(Loaded(p))))
          ELSE <<>>]
    /\ pending' = [p \in Peers |->
          IF Loaded(p) # <<>> THEN [arr |-> home[p], len |-> Len(Loaded(p))] ELSE NilSlice]
    /\ held' = [r \in Readers |-> NilSlice]
    /\ dirty' = {}
    /\ writing' = NoPeer
    /\ failed' = {}
    /\ faults' = faults + 1
    /\ UNCHANGED <<disk, now, accepted>>

Tick == /\ now < MaxNow
        /\ now' = now + 1
        /\ UNCHANGED <<memory, files, accepted, faults>>

SaveStep == \E p \in Peers : \/ SaveRemove(p)
                             \/ SaveTruncate(p)
                             \/ SaveWrite(p)
                             \/ SaveFail(p)

Next ==
    \/ \E p \in Peers :
         \/ \E b \in Bodies : Enqueue(p, b)
         \/ \E r \in Readers : Dequeue(r, p) \/ Peek(r, p)
         \/ \E id \in Ids : MarkAttempt(p, id) \/ RemoveMessage(p, id)
    \/ \E r \in Readers : Drop(r)
    \/ Cleanup
    \/ SaveStep
    \/ Restart
    \/ Tick

Spec == Init /\ [][Next]_qvars
-----------------------------------------------------------------------------
(* Type invariant of the queue's memory, files and history variables. *)
TypeOK ==
    /\ heap \in [Arrays \cup {NilArray} -> Seq(Slot)]
    /\ pending \in [Peers -> Slice]
    /\ held \in [Readers -> Slice]
    /\ disk \in [Peers -> File]
    /\ dirty \subseteq Peers
    /\ writing \in dirty \cup {NoPeer}
    /\ now \in Nat
    /\ accepted \subseteq Bodies
    /\ failed \subseteq Peers
    /\ faults \in Nat

(* The heap discipline that makes in-place updates safe: a slice of the    *)
(* map fits its array and holds only real messages, and no two peers share *)
(* an array, so an append or a shift for one peer never touches another's. *)
HeapOK ==
    /\ heap[NilArray] = <<>>
    /\ \A p \in Peers :
         /\ pending[p].len <= Cap(pending[p])
         /\ \A i \in 1..pending[p].len : heap[pending[p].arr][i] \in Entry
    /\ \A p, q \in Peers :
         p # q /\ pending[p].arr = pending[q].arr => pending[p].arr = NilArray

(* A slice returned by Peek never shows its reader a zeroed slot, whatever *)
(* the queue does to the shared array afterwards: append, RemoveMessage    *)
(* and the garbage collector leave real messages in all its elements.      *)
PeekedReadable ==
    \A r \in Readers :
        /\ held[r].len <= Cap(held[r])
        /\ \A i \in 1..held[r].len : heap[held[r].arr][i] \in Entry

(* Crash consistency: whenever q.mu is free, the file of every peer whose  *)
(* last save did not fail is exactly the peer's list in memory, so a crash *)
(* at that point loses nothing and brings nothing back.                    *)
SavedWhenUnlocked ==
    \A p \in Peers \ (dirty \cup failed) : Loaded(p) = View(p)

(* The value-semantics specification this queue implements. *)
Abstract == INSTANCE StoreForward WITH
                queue <- [p \in Peers |-> View(p)],
                durable <- [p \in Peers |-> Loaded(p)]

(* Refinement: seen through pending, the in-place operations on shared     *)
(* backing arrays are those of a list per peer, and the files those of a   *)
(* durable copy.                                                           *)
ImplementsStoreForward == Abstract!Spec
=============================================================================
