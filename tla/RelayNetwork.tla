---------------------------- MODULE RelayNetwork ----------------------------
(***************************************************************************)
(* Content in the relay network: Cache and Fetch of a relay node           *)
(* (src/internal/relay/node.go) over its router                            *)
(* (src/internal/relay/router.go), whose ring decides which three relays   *)
(* a key is stored at and asked for.                                       *)
(*                                                                         *)
(* One node, Self, caches one content under one key and fetches it; other  *)
(* relays come, go and change their health meanwhile.  Self is a relay as  *)
(* well while its router knows it (relay mode).  The hash ring is          *)
(* external: it orders the relays for a key, here by Rank, and returns n   *)
(* of them, or none when it has fewer than n.                              *)
(***************************************************************************)
EXTENDS Naturals, FiniteSets, SequencesExt

CONSTANTS Relays, Self,
          Rank,       \* Rank[r]: the place of r in the ring, from the key on
          NoPeer,     \* the empty peer.ID
          Data,       \* what the content is: "json" or other "bytes"
          MaxChanges  \* bound on the changes of the ring after Cache

ASSUME NetworkAssumption ==
    /\ IsFiniteSet(Relays) /\ Self \in Relays /\ NoPeer \notin Relays
    /\ Rank \in [Relays -> Nat] /\ \A r, s \in Relays : Rank[r] = Rank[s] => r = s
    /\ Data \in {"json", "bytes"} /\ MaxChanges \in Nat

Replicas == 3

VARIABLES
    nodes,     \* r.nodes: what the router knows of each relay
    ring,      \* the relays in the hash ring
    held,      \* the nodes whose cache has the content
    sending,   \* the relays that goroutines of Cache are still sending to
    pc,        \* where Fetch is
    todo,      \* the relays it has still to ask
    home,      \* history: the relays responsible when the content was cached
    changes,   \* history: changes of the ring since then
    faulty,    \* history: since then, a replica, a send or a request was lost
    settled,   \* history: Fetch began after all sends had ended, and its
               \* lookup found three relays
    verdict    \* history: the result of the last Fetch

router == <<nodes, ring>>
fetch == <<pc, todo, settled, verdict>>
vars == <<router, held, sending, fetch, home, changes, faulty>>

Healthy(known) == {r \in Relays : known[r] = "healthy"}

Init ==
    /\ nodes \in {[r \in Relays |-> IF r \in S THEN "healthy" ELSE "absent"] : S \in {{}, {Self}}}
    /\ ring = Healthy(nodes)
    /\ held = {} /\ sending = {} /\ home = {} /\ changes = 0 /\ faulty = FALSE
    /\ pc = "idle" /\ todo = <<>> /\ settled = FALSE /\ verdict = "none"

-----------------------------------------------------------------------------
(* The router.  Each operation ends in rebuildRing, under r.mu. *)

Rebuilt(known) ==
    /\ nodes' = known
    /\ ring' = Healthy(known)
    /\ IF home # {} /\ Healthy(known) # ring
       THEN changes < MaxChanges /\ changes' = changes + 1
       ELSE UNCHANGED changes
    /\ UNCHANGED <<held, sending, fetch, home, faulty>>

(* AddNode and UpdateNode *)
AddNode(r, health) == Rebuilt([nodes EXCEPT ![r] = health])

(* Mutant: the ring keeps a removed node. *)
RemoveNodeOnly(r) ==
    /\ nodes' = [nodes EXCEPT ![r] = "absent"]
    /\ UNCHANGED <<ring, changes, faulty, held, sending, fetch, home>>

RemoveNode(r) == Rebuilt([nodes EXCEPT ![r] = "absent"])

SetHealthy(r, health) ==
    /\ nodes[r] # "absent"
    /\ Rebuilt([nodes EXCEPT ![r] = health])

(* The first n relays of the ring, in its order. *)
IsFirst(s, n) ==
    /\ \A i, j \in 1..n : i < j => Rank[s[i]] < Rank[s[j]]
    /\ \A r \in ring : r \in {s[i] : i \in 1..n} \/ Rank[s[n]] < Rank[r]

GetNodes(n) ==
    IF Cardinality(ring) < n THEN <<>> ELSE CHOOSE s \in [1..n -> ring] : IsFirst(s, n)

-----------------------------------------------------------------------------
(* Messages.  All three leave From empty, which is not omitted from the    *)
(* JSON.                                                                   *)
CacheMessage == [type |-> "cache", from |-> NoPeer, data |-> Data]
FetchRequest == [type |-> "fetch", from |-> NoPeer, data |-> "none"]
Response     == [type |-> "response", from |-> NoPeer, data |-> Data]

(* What Decode yields of an encoded message, if anything: Encode fails     *)
(* when the raw Data is not JSON, and UnmarshalJSON of a peer.ID when the  *)
(* ID is empty.                                                            *)
Decoded(m) == IF m.data = "bytes" \/ m.from = NoPeer THEN {} ELSE {m}

(* handleRelayStream: the relays whose cache has the content once r was    *)
(* sent message m.                                                         *)
HoldersAfter(r, m) == held \cup {s \in {r} : Decoded(m) # {}}

(* handleGetStream of relay r: the responses that Fetch gets, none when    *)
(* the stream ends first.  No stream can be opened to oneself.             *)
Answers(r, m) ==
    IF r \in held \ {Self} /\ Decoded(m) # {} THEN Decoded(Response) ELSE {}

-----------------------------------------------------------------------------
(* The caches. *)

(* A relay restarts, or the content expires or is evicted. *)
Lose(r) ==
    /\ r \in held
    /\ held' = held \ {r}
    /\ faulty' = (faulty \/ r \in home)
    /\ UNCHANGED <<router, sending, fetch, home, changes>>

Cache ==
    /\ home = {}
    /\ held' = held \cup {Self}
    /\ home' = ToSet(GetNodes(Replicas))
    /\ sending' = ToSet(GetNodes(Replicas)) \ {Self}
    /\ UNCHANGED <<router, fetch, changes, faulty>>

(* The goroutine's stream reaches handleRelayStream, whose limiter lets it *)
(* pass.                                                                   *)
Send(r) ==
    /\ r \in sending
    /\ sending' = sending \ {r}
    /\ held' = HoldersAfter(r, CacheMessage)
    /\ UNCHANGED <<router, fetch, home, changes, faulty>>

SendLost(r) ==
    /\ r \in sending
    /\ sending' = sending \ {r}
    /\ faulty' = TRUE
    /\ UNCHANGED <<router, held, fetch, home, changes>>

-----------------------------------------------------------------------------
(* Fetch. *)

FetchLocal ==
    /\ pc = "idle"
    /\ IF Self \in held
       THEN verdict' = "found" /\ UNCHANGED <<pc, settled>>
       ELSE pc' = "lookup" /\ settled' = (home # {} /\ sending = {}) /\ verdict' = "none"
    /\ UNCHANGED <<router, held, sending, todo, home, changes, faulty>>

FetchLookup ==
    /\ pc = "lookup"
    /\ pc' = "ask"
    /\ todo' = GetNodes(Replicas)
    /\ settled' = (settled /\ Cardinality(ring) >= Replicas)
    /\ UNCHANGED <<router, held, sending, home, changes, faulty, verdict>>

(* The relay's limiter lets the request pass.  With an answer, Fetch       *)
(* caches the content locally and ends; without one the next relay is      *)
(* asked.                                                                  *)
Ask ==
    /\ pc = "ask" /\ todo # <<>>
    /\ IF Answers(Head(todo), FetchRequest) # {}
       THEN /\ held' = held \cup {Self}
            /\ pc' = "idle" /\ todo' = <<>> /\ settled' = FALSE /\ verdict' = "found"
       ELSE /\ todo' = Tail(todo)
            /\ UNCHANGED <<held, pc, settled, verdict>>
    /\ UNCHANGED <<router, sending, home, changes, faulty>>

(* The stream to the relay fails, or the relay's limiter refuses it. *)
AskLost ==
    /\ pc = "ask" /\ todo # <<>>
    /\ todo' = Tail(todo)
    /\ faulty' = TRUE
    /\ UNCHANGED <<router, held, sending, home, changes, pc, settled, verdict>>

NotFound ==
    /\ pc = "ask" /\ todo = <<>>
    /\ pc' = "idle" /\ settled' = FALSE
    /\ verdict' = IF settled THEN "missing" ELSE "none"
    /\ UNCHANGED <<router, held, sending, todo, home, changes, faulty>>

-----------------------------------------------------------------------------
Next ==
    \/ \E r \in Relays :
          \/ RemoveNode(r) \/ Lose(r) \/ Send(r) \/ SendLost(r)
          \/ \E health \in {"healthy", "unhealthy"} : AddNode(r, health) \/ SetHealthy(r, health)
    \/ Cache \/ FetchLocal \/ FetchLookup \/ Ask \/ AskLost \/ NotFound

Spec == Init /\ [][Next]_vars

-----------------------------------------------------------------------------
(* The ring is the one of the healthy nodes, and a Fetch asks different    *)
(* relays, in the order of the ring.                                       *)
TypeOK ==
    /\ nodes \in [Relays -> {"absent", "healthy", "unhealthy"}]
    /\ ring = Healthy(nodes)
    /\ held \subseteq Relays /\ home \subseteq Relays /\ sending \subseteq home \ {Self}
    /\ pc \in {"idle", "lookup", "ask"} /\ todo \in Seq(Relays) /\ Len(todo) <= Replicas
    /\ \A i, j \in 1..Len(todo) : i < j => Rank[todo[i]] < Rank[todo[j]]
    /\ settled \in BOOLEAN /\ faulty \in BOOLEAN /\ verdict \in {"none", "found", "missing"}
    /\ changes \in 0..MaxChanges

(* Consistent hashing: every AddNode, RemoveNode, UpdateNode or SetHealthy *)
(* rebuilds the whole ring, and yet k changes of the ring take at most k   *)
(* of the three relays that Cache chose out of those that a Fetch would    *)
(* ask, whichever nodes come and go in whatever order.  After two changes  *)
(* the two still have a relay in common.  Excepted is a ring of fewer than *)
(* three relays, which GetNodes returns nothing of.                        *)
RingMovesFew ==
    home # {} /\ Cardinality(ring) >= Replicas =>
        Cardinality(home \ ToSet(GetNodes(Replicas))) <= changes

(* "Cache stores content in the relay network", with 3 replicas, and       *)
(* "Fetch retrieves content from the relay network": when the sends of     *)
(* Cache have ended, no copy, send or request was lost and the ring has    *)
(* not changed, a Fetch that asks three relays finds the content.  The     *)
(* code does not: its messages do not decode.                              *)
FetchRetrieves == verdict = "missing" => faulty \/ changes > 0
=============================================================================
