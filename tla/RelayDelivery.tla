--------------------------- MODULE RelayDelivery ----------------------------
(***************************************************************************)
(* The store-and-forward service of a relay node with a data directory,    *)
(* src/internal/relay/node.go: stream handlers that forward messages and   *)
(* answer announcements, the delivery loop and the cleanup loop, running   *)
(* concurrently over one MessageQueue.                                     *)
(*                                                                         *)
(* The goroutines are the Readers of the queue: the delivery loop (Loop)   *)
(* and one per stream being handled.  A round of deliveries ranges over    *)
(* the slice that Peek returned, WITHOUT q.mu: copying an element is a     *)
(* data race with the in-place updates of the queue, so a copy is taken in *)
(* two steps, of the ID and of the rest, in either order.                  *)
(*                                                                         *)
(* Close cancels the context and removes the handlers: from then on some   *)
(* of these actions no longer happen, which RSpec allows at any time.      *)
(***************************************************************************)
EXTENDS MessageQueue

CONSTANTS Loop,     \* the goroutine of deliveryLoop
          ToOf,     \* ToOf[b]: the peer that message b is addressed to
          NoBody    \* no message

ASSUME RelayAssumption ==
    /\ Loop \in Readers
    /\ ToOf \in [Bodies -> Peers]
    /\ NoBody \notin Bodies

VARIABLES
    online,   \* onlinePeers, as far as the code tells them apart: the peers
              \* seen in the last five minutes
    pc,       \* where each goroutine is
    peer,     \* the peer its round is for
    msg,      \* the message its stream handler forwards
    idx,      \* the element its range statement is at
    copy,     \* its copy of that element
    todo,     \* peers the delivery loop has still to look at
    sent,     \* history: messages some deliverToPeer succeeded for
    purged,   \* history: messages that Cleanup gave up
    mixed,    \* history: some copy mixed two messages
    damaged   \* history: a restart in the middle of a save, or after a failed one

history == <<sent, purged, mixed, damaged>>
node    == <<online, pc, peer, msg, idx, copy, todo, history>>
vars    == <<qvars, node>>

Handlers == Readers \ {Loop}
NoCopy == [id |-> NoId, body |-> NoBody]

PendingBodies(p) == {View(p)[i].body : i \in 1..pending[p].len}

Goto(h, l) == pc' = [pc EXCEPT ![h] = l]

RInit ==
    /\ Init
    /\ online = {}
    /\ pc = [h \in Readers |-> "idle"]
    /\ peer = [h \in Readers |-> NoPeer]
    /\ msg = [h \in Readers |-> NoBody]
    /\ idx = [h \in Readers |-> 0]
    /\ copy = [h \in Readers |-> NoCopy]
    /\ todo = {}
    /\ sent = {} /\ purged = {}
    /\ mixed = FALSE /\ damaged = FALSE
-----------------------------------------------------------------------------
(* handleRelayStream, for a message that arrives for the first time: the   *)
(* sender is tracked as online (NoPeer: a sender nobody writes to).        *)
(* Streams that the rate limiter refuses or that do not decode change      *)
(* nothing.                                                                *)
ReceiveForward(h, b, from) ==
    /\ h \in Handlers /\ pc[h] = "idle"
    /\ b \notin accepted \cup sent \cup {msg[r] : r \in Readers}
    /\ online' = IF from = NoPeer THEN online ELSE online \cup {from}
    /\ msg' = [msg EXCEPT ![h] = b]
    /\ Goto(h, "check")
    /\ UNCHANGED <<qvars, peer, idx, copy, todo, history>>

(* handleForward: the target was seen in the last five minutes, or not. *)
CheckOnline(h) ==
    /\ pc[h] = "check"
    /\ Goto(h, IF ToOf[msg[h]] \in online THEN "direct" ELSE "enqueue")
    /\ UNCHANGED <<qvars, online, peer, msg, idx, copy, todo, history>>

(* deliverToPeer, directly: no error means the message was written to the  *)
(* stream.                                                                 *)
DirectDelivery(h) ==
    /\ pc[h] = "direct"
    /\ \/ /\ sent' = sent \cup {msg[h]}
          /\ msg' = [msg EXCEPT ![h] = NoBody]
          /\ Goto(h, "idle")
       \/ Goto(h, "enqueue") /\ UNCHANGED <<sent, msg>>
    /\ UNCHANGED <<qvars, online, peer, idx, copy, todo, purged, mixed, damaged>>

EnqueueForward(h) ==
    /\ pc[h] = "enqueue"
    /\ Enqueue(ToOf[msg[h]], msg[h])
    /\ msg' = [msg EXCEPT ![h] = NoBody]
    /\ Goto(h, "idle")
    /\ UNCHANGED <<online, peer, idx, copy, todo, history>>
-----------------------------------------------------------------------------
(* handleRelayStream and the start of handleAnnounce, which both track the *)
(* peer.                                                                   *)
ReceiveAnnounce(h, p) ==
    /\ h \in Handlers /\ pc[h] = "idle"
    /\ online' = online \cup {p}
    /\ peer' = [peer EXCEPT ![h] = p]
    /\ Goto(h, "peek")
    /\ UNCHANGED <<qvars, msg, idx, copy, todo, history>>

(* deliveryLoop: a tick starts a pass over PeersWithPending, in the order  *)
(* of a Go map.  Peers not seen for five minutes are passed over.          *)
LoopTick ==
    /\ pc[Loop] = "idle" /\ todo = {}
    /\ Unlocked
    /\ PeersWithPending # {}
    /\ todo' = PeersWithPending
    /\ UNCHANGED <<qvars, online, pc, peer, msg, idx, copy, history>>

LoopPeer(p) ==
    /\ pc[Loop] = "idle" /\ p \in todo
    /\ todo' = todo \ {p}
    /\ \/ /\ p \in online
          /\ peer' = [peer EXCEPT ![Loop] = p]
          /\ Goto(Loop, "peek")
       \/ p \notin online /\ UNCHANGED <<peer, pc>>
    /\ UNCHANGED <<qvars, online, msg, idx, copy, history>>
-----------------------------------------------------------------------------
(* Mutant: Peek without q.mu. *)
StartRoundUnlocked(h) ==
    /\ pc[h] = "peek"
    /\ held' = [held EXCEPT ![h] = pending[peer[h]]]
    /\ heap' = Collect(heap, pending, held')
    /\ idx' = [idx EXCEPT ![h] = 1]
    /\ Goto(h, "range")
    /\ UNCHANGED <<pending, files, now, accepted, faults, online, peer, msg, copy, todo, history>>

(* messages := r.queue.Peek(peerID); for _, msg := range messages *)
StartRound(h) ==
    /\ pc[h] = "peek"
    /\ Peek(h, peer[h])
    /\ idx' = [idx EXCEPT ![h] = 1]
    /\ Goto(h, "range")
    /\ UNCHANGED <<online, peer, msg, copy, todo, history>>

(* The element is copied without the lock, the ID or the rest first. *)
Element(h) == heap[held[h].arr][idx[h]]

(* Mutant: the message is delivered before all of it is copied. *)
CopyIdOnly(h) ==
    /\ pc[h] = "range" /\ idx[h] <= held[h].len
    /\ copy' = [copy EXCEPT ![h].id = Element(h).id]
    /\ Goto(h, "deliver")
    /\ UNCHANGED <<qvars, online, peer, msg, idx, todo, history>>

CopyFirst(h) ==
    /\ pc[h] = "range" /\ idx[h] <= held[h].len
    /\ \/ /\ copy' = [copy EXCEPT ![h].id = Element(h).id]
          /\ Goto(h, "copyBody")
       \/ /\ copy' = [copy EXCEPT ![h].body = Element(h).body]
          /\ Goto(h, "copyId")
    /\ UNCHANGED <<qvars, online, peer, msg, idx, todo, history>>

CopySecond(h) ==
    /\ \/ /\ pc[h] = "copyBody"
          /\ copy' = [copy EXCEPT ![h].body = Element(h).body]
          /\ mixed' = (mixed \/ Element(h).id # copy[h].id)
       \/ /\ pc[h] = "copyId"
          /\ copy' = [copy EXCEPT ![h].id = Element(h).id]
          /\ mixed' = (mixed \/ Element(h).body # copy[h].body)
    /\ Goto(h, "deliver")
    /\ UNCHANGED <<qvars, online, peer, msg, idx, todo, sent, purged, damaged>>

(* The range statement moves on. *)
Advance(h) == /\ idx' = [idx EXCEPT ![h] = @ + 1]
              /\ copy' = [copy EXCEPT ![h] = NoCopy]
              /\ Goto(h, "range")

(* deliverQueuedMessage: success is followed by RemoveMessage, an error by *)
(* MarkAttempt in the delivery loop and by nothing in handleAnnounce.      *)
DeliverOk(h) ==
    /\ pc[h] = "deliver"
    /\ sent' = sent \cup {copy[h].body}
    /\ Goto(h, "remove")
    /\ UNCHANGED <<qvars, online, peer, msg, idx, copy, todo, purged, mixed, damaged>>

(* Mutant: the error of deliverQueuedMessage is ignored. *)
DeliverErrorIgnored(h) ==
    /\ pc[h] = "deliver"
    /\ Goto(h, "remove")
    /\ UNCHANGED <<qvars, online, peer, msg, idx, copy, todo, history>>

DeliverError(h) ==
    /\ pc[h] = "deliver"
    /\ \/ h = Loop /\ Goto(h, "mark") /\ UNCHANGED <<idx, copy>>
       \/ h \in Handlers /\ Advance(h)
    /\ UNCHANGED <<qvars, online, peer, msg, todo, history>>

RemoveDelivered(h) ==
    /\ pc[h] = "remove"
    /\ RemoveMessage(peer[h], copy[h].id)
    /\ Goto(h, "return")
    /\ UNCHANGED <<online, peer, msg, idx, copy, todo, history>>

MarkFailed(h) ==
    /\ pc[h] = "mark"
    /\ MarkAttempt(peer[h], copy[h].id)
    /\ Goto(h, "return")
    /\ UNCHANGED <<online, peer, msg, idx, copy, todo, history>>

(* RemoveMessage and MarkAttempt return once the peer is saved. *)
Continue(h) ==
    /\ pc[h] = "return" /\ Unlocked
    /\ Advance(h)
    /\ UNCHANGED <<qvars, online, peer, msg, todo, history>>

RoundDone(h) == pc[h] = "range" /\ idx[h] > held[h].len

EndRound(h) ==
    /\ RoundDone(h)
    /\ held' = [held EXCEPT ![h] = NilSlice]
    /\ heap' = Collect(heap, pending, held')
    /\ peer' = [peer EXCEPT ![h] = NoPeer]
    /\ idx' = [idx EXCEPT ![h] = 0]
    /\ Goto(h, "idle")
    /\ UNCHANGED <<pending, files, now, accepted, faults, online, msg, copy, todo, history>>
-----------------------------------------------------------------------------
(* cleanupLoop: the queue is cleaned; then the peers not seen for an hour  *)
(* go, none of which is online.                                            *)
CleanQueue ==
    /\ Cleanup
    /\ purged' = purged \cup UNION {{View(p)[i].body : i \in (1..pending[p].len) \ Survivors(p)} :
                                       p \in Peers}
    /\ UNCHANGED <<online, pc, peer, msg, idx, copy, todo, sent, mixed, damaged>>

(* Five minutes have passed since p was seen. *)
GoStale(p) ==
    /\ p \in online
    /\ online' = online \ {p}
    /\ UNCHANGED <<qvars, pc, peer, msg, idx, copy, todo, history>>

(* The process dies; NewRelayNode and Start run in a new one. *)
RestartNode ==
    /\ Restart
    /\ damaged' = (damaged \/ dirty # {} \/ failed # {})
    /\ online' = {}
    /\ pc' = [h \in Readers |-> "idle"]
    /\ peer' = [h \in Readers |-> NoPeer]
    /\ msg' = [h \in Readers |-> NoBody]
    /\ idx' = [h \in Readers |-> 0]
    /\ copy' = [h \in Readers |-> NoCopy]
    /\ todo' = {}
    /\ UNCHANGED <<sent, purged, mixed>>

Save(p)    == (SaveRemove(p) \/ SaveTruncate(p) \/ SaveWrite(p)) /\ UNCHANGED node
SaveError  == (\E p \in Peers : SaveFail(p)) /\ UNCHANGED node
PassTime   == Tick /\ UNCHANGED node

RNext ==
    \/ \E h \in Readers :
         \/ \E b \in Bodies, from \in Peers \cup {NoPeer} : ReceiveForward(h, b, from)
         \/ CheckOnline(h) \/ DirectDelivery(h) \/ EnqueueForward(h)
         \/ \E p \in Peers : ReceiveAnnounce(h, p)
         \/ StartRound(h) \/ CopyFirst(h) \/ CopySecond(h) \/ DeliverOk(h) \/ DeliverError(h)
         \/ RemoveDelivered(h) \/ MarkFailed(h) \/ Continue(h) \/ EndRound(h)
    \/ LoopTick
    \/ \E p \in Peers : LoopPeer(p) \/ GoStale(p) \/ Save(p)
    \/ CleanQueue
    \/ RestartNode \/ SaveError \/ PassTime

RSpec == RInit /\ [][RNext]_vars

(* Fairness, of a node that is not closed: of the cleanup ticker (strong,  *)
(* because the queue's lock comes and goes; sync.RWMutex starves no        *)
(* waiter), of the file system and of the clock.  NOT of the deliveries,   *)
(* which have no deadline, and not of the delivery loop, which may hang in *)
(* one.                                                                    *)
Fairness == /\ SF_vars(CleanQueue)
            /\ \A p \in Peers : WF_vars(Save(p))
            /\ WF_vars(PassTime)

FairSpec == RSpec /\ Fairness
-----------------------------------------------------------------------------
(* Type invariant of the node. *)
RelayTypeOK ==
    /\ online \subseteq Peers /\ todo \subseteq Peers
    /\ pc \in [Readers -> {"idle", "check", "direct", "enqueue", "peek", "range", "copyBody",
                          "copyId", "deliver", "remove", "mark", "return"}]
    /\ peer \in [Readers -> Peers \cup {NoPeer}]
    /\ msg \in [Readers -> Bodies \cup {NoBody}]
    /\ idx \in [Readers -> Nat]
    /\ copy \in [Readers -> [id: Ids \cup {NoId}, body: Bodies \cup {NoBody}]]
    /\ sent \subseteq Bodies /\ purged \subseteq accepted
    /\ mixed \in BOOLEAN /\ damaged \in BOOLEAN

(* The relay uses its queue only through the queue's operations, and never *)
(* in a way they do not provide for: what holds of MessageQueue holds in   *)
(* the relay.                                                              *)
UsesMessageQueue == Spec

(* No message is lost between concurrent rounds.  handleAnnounce and the   *)
(* delivery loop may range over the same array at the same time, each      *)
(* removing messages in place under the other, while streams append and    *)
(* the cleanup replaces the list: an accepted message is nevertheless      *)
(* still queued, or was written to its recipient's stream, or was given up *)
(* by Cleanup, as long as the messages have IDs of their own, no copy      *)
(* mixed two messages and no restart interrupted or followed a bad save.   *)
NoMessageLost ==
    ~mixed /\ ~damaged =>
        \A b \in accepted : b \in sent \cup purged \cup PendingBodies(ToOf[b])

(* A queue never keeps a message for ever: whatever happens to deliveries  *)
(* (they may hang, and the delivery loop with them), an accepted message   *)
(* leaves the queue of a node that stays open.                             *)
QueueDrains == \A b \in Bodies : b \in accepted ~> b \notin PendingBodies(ToOf[b])
=============================================================================
