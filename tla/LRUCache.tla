------------------------------ MODULE LRUCache ------------------------------
(***************************************************************************)
(* The relay's content cache, src/internal/relay/cache.go: a list ordered  *)
(* by use, a map from keys to its elements, and a running total of bytes.  *)
(* The three are kept in step by hand in every operation, each of which    *)
(* runs under c.mu and is one action.  The counters of hits and misses,    *)
(* which only Stats reads, are left out, and so are lookups that miss.     *)
(***************************************************************************)
EXTENDS Integers, Sequences, SequencesExt, FiniteSetsExt

CONSTANTS Keys,
          Data,      \* the contents that are cached
          SizeOf,    \* SizeOf[d]: len(data)
          NoData,    \* no content
          TTLs,      \* lifetimes given to PutWithTTL; 0 is for ever
          Capacity,  \* capacity in bytes
          MaxNow     \* bound on the clock

ASSUME CacheAssumption ==
    /\ SizeOf \in [Data -> Nat]
    /\ NoData \notin Data
    /\ IsFiniteSet(Keys)
    /\ TTLs \subseteq Nat /\ Capacity \in Nat /\ MaxNow \in Nat

VARIABLES items,        \* the list, most recently used element first
          lookup,       \* the map: the element of each key, or NoItem
          currentSize,
          now,
          latest,       \* history: the content each key should answer with, if any
          touched       \* history: touched[k][j] is the largest content put or
                        \* got under j since k was last put or got

vars == <<items, lookup, currentSize, now, latest, touched>>
-----------------------------------------------------------------------------
(* CacheItem, and the pointer to the list element that holds it. *)
CacheItem == [key: Keys, data: Data, created: Nat, ttl: Nat]
NoItem == [key |-> NoData]
Size(e) == SizeOf[e.data]
Expired(e) == e.ttl > 0 /\ now - e.created > e.ttl

(* The sums of the first 0, 1, 2 ... elements of a sequence of numbers, and of all. *)
Sums(s) == LET sum[n \in 0..Len(s)] == IF n = 0 THEN 0 ELSE sum[n - 1] + s[n] IN sum
SumOf(s) == Sums(s)[Len(s)]
Total(list) == SumOf([i \in DOMAIN list |-> Size(list[i])])

(* The three fields that the operations change, as a value, so that the    *)
(* steps of one operation can follow each other.                           *)
Fields == [items |-> items, lookup |-> lookup, size |-> currentSize]
Become(c) == items' = c.items /\ lookup' = c.lookup /\ currentSize' = c.size

(* Mutant: removeElement forgets the byte count. *)
RemoveUncounted(c, i) ==
    [items |-> RemoveAt(c.items, i),
     lookup |-> [c.lookup EXCEPT ![c.items[i].key] = NoItem],
     size |-> c.size]

(* removeElement, of the i-th element. *)
RemoveElement(c, i) ==
    [items |-> RemoveAt(c.items, i),
     lookup |-> [c.lookup EXCEPT ![c.items[i].key] = NoItem],
     size |-> c.size - Size(c.items[i])]

(* Where the element that the map has for k is, and its removal. *)
Place(c, k) == CHOOSE i \in DOMAIN c.items : c.items[i] = c.lookup[k]
Without(c, k) == IF c.lookup[k] = NoItem THEN c ELSE RemoveElement(c, Place(c, k))

(* History: k is used now, with a content of s bytes. *)
Touch(k, s) ==
    touched' = [i \in Keys |-> [j \in Keys |->
                   IF i = k THEN 0 ELSE IF j = k THEN Max({s, touched[i][j]}) ELSE touched[i][j]]]

Forget(K) == latest' = [k \in Keys |-> IF k \in K THEN NoData ELSE latest[k]]

Init == /\ items = <<>>
        /\ lookup = [k \in Keys |-> NoItem]
        /\ currentSize = 0
        /\ now = 0
        /\ latest = [k \in Keys |-> NoData]
        /\ touched = [i \in Keys |-> [j \in Keys |-> 0]]
-----------------------------------------------------------------------------
(* Get of a key that is there: an expired item is removed and missed, any  *)
(* other moves to the front.                                               *)
GetExpired(k) ==
    /\ lookup[k] # NoItem /\ Expired(lookup[k])
    /\ Become(Without(Fields, k))
    /\ Forget({k})
    /\ UNCHANGED <<now, touched>>

(* Mutant: a hit does not move to the front. *)
GetUnmoved(k) ==
    /\ lookup[k] # NoItem /\ ~Expired(lookup[k])
    /\ Touch(k, Size(lookup[k]))
    /\ UNCHANGED <<items, lookup, currentSize, now, latest>>

GetHit(k) ==
    /\ lookup[k] # NoItem /\ ~Expired(lookup[k])
    /\ items' = <<lookup[k]>> \o RemoveAt(items, Place(Fields, k))
    /\ Touch(k, Size(lookup[k]))
    /\ UNCHANGED <<lookup, currentSize, now, latest>>

(* evictOldest, done 0, 1, 2 ... times, and the loop of PutWithTTL: items  *)
(* are evicted from the back until the new one fits or none is left.       *)
Evictions(c) ==
    LET after[n \in 0..Len(c.items)] ==
            IF n = 0 THEN c ELSE RemoveElement(after[n - 1], Len(after[n - 1].items))
    IN  after

(* Mutant: at most one item is evicted ("if" for "for"). *)
EvictedOnce(c, size) ==
    IF c.size + size > Capacity /\ c.items # <<>> THEN Evictions(c)[1] ELSE c

Evicted(c, size) ==
    LET enough == {n \in 0..Len(c.items) :
                      Evictions(c)[n].size + size <= Capacity \/ Evictions(c)[n].items = <<>>}
    IN  Evictions(c)[Min(enough)]

(* PutWithTTL and Put (ttl 0).  The old item of the key goes; then room is *)
(* made; then an item larger than the whole cache is refused.              *)
PutStored(k, d, ttl) ==
    LET c == Evicted(Without(Fields, k), SizeOf[d])
        item == [key |-> k, data |-> d, created |-> now, ttl |-> ttl]
    IN
    /\ SizeOf[d] <= Capacity
    /\ Become([items |-> <<item>> \o c.items,
               lookup |-> [c.lookup EXCEPT ![k] = item],
               size |-> c.size + SizeOf[d]])
    /\ Touch(k, SizeOf[d])
    /\ latest' = [latest EXCEPT ![k] = d]
    /\ UNCHANGED now

(* Mutant: the size is checked before the old item is taken out. *)
PutRefusedFirst(k, d) ==
    /\ SizeOf[d] > Capacity
    /\ Touch(k, SizeOf[d])
    /\ Forget({k})
    /\ UNCHANGED <<items, lookup, currentSize, now>>

PutRefused(k, d) ==
    /\ SizeOf[d] > Capacity
    /\ Become(Evicted(Without(Fields, k), SizeOf[d]))
    /\ Touch(k, SizeOf[d])
    /\ Forget({k})
    /\ UNCHANGED now

(* Delete *)
Delete(k) ==
    /\ lookup[k] # NoItem
    /\ Become(Without(Fields, k))
    /\ Forget({k})
    /\ UNCHANGED <<now, touched>>

(* Clear *)
Clear ==
    /\ items' = <<>>
    /\ lookup' = [k \in Keys |-> NoItem]
    /\ currentSize' = 0
    /\ Forget(Keys)
    /\ UNCHANGED <<now, touched>>

(* CleanupExpired, when it has visited 0, 1, 2 ... elements from the back. *)
Sweeps(c) ==
    LET swept[n \in 0..Len(c.items)] ==
            IF n = 0 THEN c
            ELSE IF Expired(c.items[Len(c.items) - n + 1])
                 THEN RemoveElement(swept[n - 1], Len(c.items) - n + 1)
                 ELSE swept[n - 1]
    IN  swept

CleanupExpired ==
    LET E == {e \in ToSet(items) : Expired(e)} IN
    /\ E # {}
    /\ Become(Sweeps(Fields)[Len(items)])
    /\ Forget({e.key : e \in E})
    /\ UNCHANGED <<now, touched>>

Tick == /\ now < MaxNow
        /\ now' = now + 1
        /\ UNCHANGED <<items, lookup, currentSize, latest, touched>>

Next == \/ \E k \in Keys :
             \/ GetExpired(k) \/ GetHit(k) \/ Delete(k)
             \/ \E d \in Data : PutRefused(k, d) \/ \E ttl \in TTLs : PutStored(k, d, ttl)
        \/ Clear
        \/ CleanupExpired
        \/ Tick

Spec == Init /\ [][Next]_vars
-----------------------------------------------------------------------------
(* Type invariant; the cache never exceeds its capacity. *)
TypeOK ==
    /\ items \in Seq(CacheItem)
    /\ lookup \in [Keys -> CacheItem \cup {NoItem}]
    /\ currentSize \in 0..Capacity
    /\ now \in Nat
    /\ latest \in [Keys -> Data \cup {NoData}]
    /\ touched \in [Keys -> [Keys -> Nat]]

(* The list, the map and the byte count never drift apart, whatever mix of *)
(* replacements, evictions, refusals and expiries there was: the map holds *)
(* exactly the listed elements, no key is listed twice, and currentSize is *)
(* the sum of the listed sizes.                                            *)
Agree(c) ==
    /\ c.size = Total(c.items)
    /\ ToSet(c.items) = {c.lookup[k] : k \in Keys} \ {NoItem}
    /\ \A i, j \in DOMAIN c.items : c.items[i].key = c.items[j].key => i = j
    /\ \A k \in Keys : c.lookup[k] # NoItem => c.lookup[k].key = k

InStep == Agree(Fields)

(* A key never answers with an outdated content: a put that is refused     *)
(* because the content is too large still takes the old content away.      *)
NeverOutdated == \A k \in Keys : lookup[k] # NoItem => lookup[k].data = latest[k]

(* The promise of least-recently-used eviction: an item stays as long as   *)
(* it and all that was put or got since its own last use, in whatever      *)
(* order they are added up, fit together.  (Deletion and expiry clear      *)
(* latest and end the promise.)                                            *)
Orders == {s \in SeqOf(Keys, Cardinality(Keys)) : IsInjective(s)}
UsedSince(k, s) == SumOf([i \in DOMAIN s |-> touched[k][s[i]]])
Promised(k) ==
    /\ latest[k] # NoData
    /\ \A s \in Orders : SizeOf[latest[k]] + UsedSince(k, s) <= Capacity
WorkingSetKept == \A k \in Keys : Promised(k) => lookup[k] # NoItem
=============================================================================
