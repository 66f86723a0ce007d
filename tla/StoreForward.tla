---------------------------- MODULE StoreForward ----------------------------
(***************************************************************************)
(* What the relay's MessageQueue (src/internal/relay/queue.go) promises to *)
(* its callers: one FIFO list of messages per offline peer, with value     *)
(* semantics, and a durable copy of each list from which the queue is      *)
(* rebuilt after a restart.  MessageQueue.tla, which models the Go slices, *)
(* backing arrays and files, is shown to implement this specification.     *)
(***************************************************************************)
EXTENDS Naturals, Sequences, FiniteSets

CONSTANTS Peers,     \* peers messages are queued for
          Bodies,    \* the messages of the senders
          Ids,       \* the IDs messages are filed under
          TTL,       \* lifetime of a queued message
          MaxRetry   \* MessageQueue.maxRetry

VARIABLES queue,     \* [Peers -> Seq(Entry)], the messages waiting for a peer
          durable,   \* [Peers -> Seq(Entry)], what a restart would bring back
          now        \* the clock

vars == <<queue, durable, now>>

Init == /\ queue = [p \in Peers |-> <<>>]
        /\ durable = [p \in Peers |-> <<>>]
        /\ now = 0
-----------------------------------------------------------------------------
(* A message is accepted at the tail of its peer's list, to be kept for TTL. *)
Accept(p, id, b) ==
    /\ queue' = [queue EXCEPT ![p] =
          Append(@, [id |-> id, body |-> b, expires |-> now + TTL, attempts |-> 0])]
    /\ UNCHANGED <<durable, now>>

(* The first message carrying the given id is taken out; the others keep   *)
(* their order.                                                            *)
Discard(p, i) == /\ queue' = [queue EXCEPT ![p] =
                        [j \in 1..(Len(queue[p]) - 1) |->
                            IF j < i THEN queue[p][j] ELSE queue[p][j + 1]]]
                 /\ UNCHANGED <<durable, now>>

(* A failed delivery is counted on one message, up to MaxRetry. *)
Attempt(p, i) == /\ queue' = [queue EXCEPT ![p][i].attempts =
                                 IF @ < MaxRetry THEN @ + 1 ELSE @]
                 /\ UNCHANGED <<durable, now>>

(* Exactly the messages that have expired or used up their attempts are    *)
(* given up, for every peer; the others keep their order.                  *)
InOrder(S) == {f \in [1..Cardinality(S) -> S] : \A i, j \in DOMAIN f : i < j => f[i] < f[j]}
Sublist(s, S) == [i \in 1..Cardinality(S) |-> s[(CHOOSE f \in InOrder(S) : TRUE)[i]]]
Survivors(p) == {i \in 1..Len(queue[p]) :
                    now < queue[p][i].expires /\ queue[p][i].attempts < MaxRetry}

Purge == /\ queue' = [p \in Peers |-> Sublist(queue[p], Survivors(p))]
         /\ UNCHANGED <<durable, now>>

(* All messages of a peer are handed out and forgotten. *)
TakeAll(p) == /\ queue' = [queue EXCEPT ![p] = <<>>]
              /\ UNCHANGED <<durable, now>>

(* The durable copy catches up, or is spoilt by an interrupted write. *)
Save(p) == /\ durable' = [durable EXCEPT ![p] = queue[p]]
           /\ UNCHANGED <<queue, now>>

Spoil(p) == /\ durable' = [durable EXCEPT ![p] = <<>>]
            /\ UNCHANGED <<queue, now>>

(* After a restart the queue is exactly its durable copy. *)
Recover == queue' = durable /\ UNCHANGED <<durable, now>>

Pass == now' = now + 1 /\ UNCHANGED <<queue, durable>>

Next ==
    \/ \E p \in Peers :
        \/ \E id \in Ids, b \in Bodies : Accept(p, id, b)
        \/ \E i \in 1..Len(queue[p]) :
              \/ /\ \A j \in 1..(i - 1) : queue[p][j].id # queue[p][i].id
                 /\ Discard(p, i) \/ Attempt(p, i)
        \/ TakeAll(p)
        \/ Save(p)
        \/ Spoil(p)
    \/ Purge
    \/ Recover
    \/ Pass

Spec == Init /\ [][Next]_vars
=============================================================================
