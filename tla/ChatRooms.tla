----------------------------- MODULE ChatRooms -----------------------------
(***************************************************************************)
(* The chat service of one node, src/internal/chat: rooms over GossipSub   *)
(* topics (room.go) that share one message channel (service.go).           *)
(*                                                                         *)
(* Every JoinRoom makes a new Room, with a goroutine that reads the        *)
(* subscription (readLoop) and one that follows the peers (peerLoop);      *)
(* Rooms are numbered in the order they are made.  JoinRoom, LeaveRoom and *)
(* Close hold s.mu; the goroutines, the network and a SendMessage that has *)
(* looked up its room take no notice of it.  The set of members that       *)
(* peerLoop keeps has no reader but Members, which nothing calls, and is   *)
(* left out; ListRooms and Subscribe change nothing.                       *)
(***************************************************************************)
EXTENDS Naturals, Sequences, FiniteSets, Functions

CONSTANTS RoomIds, Callers,
          NoCaller,
          Senders,    \* bound: the callers that also send messages
          ChanCap,    \* capacity of msgChan (100 in the code)
          SubBuffer,  \* capacity of a subscription (external)
          MaxRooms,   \* bound on the Rooms made
          MaxSends,   \* bound on calls of SendMessage
          MaxTexts    \* bound on messages of others

ASSUME ChatAssumption ==
    /\ NoCaller \notin Callers /\ Senders \subseteq Callers
    /\ {ChanCap, SubBuffer} \subseteq Nat \ {0}
    /\ {MaxRooms, MaxSends, MaxTexts} \subseteq Nat

VARIABLES rooms,       \* [RoomIds -> 0..MaxRooms]: s.rooms, 0 for none
          room,        \* sequence of the Rooms made
          cancelled,   \* s.cancel has been called
          msgChan,     \* the buffered messages
          closed,      \* msgChan is closed
          lock,        \* the caller that holds s.mu
          call,        \* [Callers -> what the caller is at]
          panicked,    \* the process has ended in a panic
          received,    \* history: per Room, the numbers of the messages the user got
          published,   \* history: per room ID, what this node published
          sends, texts \* counters for the bounds

vars == <<rooms, room, cancelled, msgChan, closed, lock, call, panicked,
          received, published, sends, texts>>
-----------------------------------------------------------------------------
(* A message: 0 if readLoop passes over it, because this node sent it or   *)
(* because it cannot be decoded, and i for the i-th other one in the life  *)
(* of the Room.                                                            *)
Ignored == 0
Messages == 0..MaxTexts

(* Room and its two goroutines.  queue and live are those of the           *)
(* subscription; held is what readLoop is about to send.                   *)
NewRoom(r) == [id |-> r, topic |-> "open", ctx |-> "live", live |-> TRUE, queue |-> <<>>,
               arrived |-> 0, read |-> "next", held |-> Ignored, watch |-> "new"]

RoomNumbers == 1..Len(room)

(* Idle and the stages of a call; by: whose room.Close it is. *)
Idle == [stage |-> "idle", room |-> 0, by |-> "none", todo |-> {}]
Locked == {"joined", "cancel", "topic", "rooms"}

(* r.ctx is derived from s.ctx. *)
Done(o) == cancelled \/ room[o].ctx = "cancelled"

SetRoom(o, x) == room' = [room EXCEPT ![o] = x]
Goto(c, s) == call' = [call EXCEPT ![c] = s]
At(c, stage) == call[c].stage = stage
Unlock == lock' = NoCaller

(* A subscription drops what does not fit its buffer; once its readLoop    *)
(* has ended it does not matter what is in it.                             *)
Buffered(x, m) == IF x.live /\ x.read # "done" /\ Len(x.queue) < SubBuffer
                  THEN [x EXCEPT !.queue = Append(@, m)] ELSE x

(* PubSub.Join refuses a topic that was joined and not closed. *)
TopicJoined(r) == \E o \in RoomNumbers : room[o].id = r /\ room[o].topic = "open"

Init == /\ rooms = [r \in RoomIds |-> 0]
        /\ room = <<>> /\ received = <<>>
        /\ cancelled = FALSE /\ closed = FALSE /\ panicked = FALSE
        /\ msgChan = <<>>
        /\ lock = NoCaller
        /\ call = [c \in Callers |-> Idle]
        /\ published = [r \in RoomIds |-> <<>>]
        /\ sends = 0 /\ texts = 0
-----------------------------------------------------------------------------
(* Publish: an error if the topic is closed; otherwise the message goes to *)
(* the network and to the node's own subscription.                         *)
Publish(o, type) ==
    IF room[o].topic = "open"
    THEN /\ published' = [published EXCEPT ![room[o].id] = Append(@, [room |-> o, type |-> type])]
         /\ SetRoom(o, Buffered(room[o], Ignored))
    ELSE UNCHANGED <<published, room>>

(* JoinRoom up to its message, also after Close.  It fails, and changes    *)
(* nothing, for a room that is listed and for a topic that is joined.      *)
JoinRoom(c, r) ==
    /\ At(c, "idle") /\ lock = NoCaller
    /\ rooms[r] = 0 /\ ~TopicJoined(r)
    /\ Len(room) < MaxRooms
    /\ lock' = c
    /\ room' = Append(room, NewRoom(r))
    /\ received' = Append(received, <<>>)
    /\ rooms' = [rooms EXCEPT ![r] = Len(room) + 1]
    /\ Goto(c, [Idle EXCEPT !.stage = "joined", !.room = Len(room) + 1])
    /\ UNCHANGED <<cancelled, msgChan, closed, panicked, published, sends, texts>>

(* Mutant: the lock is not released. *)
PublishJoinLocked(c) ==
    /\ At(c, "joined")
    /\ Publish(call[c].room, "join")
    /\ Goto(c, Idle)
    /\ UNCHANGED <<rooms, cancelled, msgChan, closed, lock, panicked, received, sends, texts>>

PublishJoin(c) ==
    /\ At(c, "joined")
    /\ Publish(call[c].room, "join")
    /\ Unlock /\ Goto(c, Idle)
    /\ UNCHANGED <<rooms, cancelled, msgChan, closed, panicked, received, sends, texts>>

(* Mutant: the room is looked up without the lock. *)
SendUnlocked(c, r) ==
    /\ At(c, "idle") /\ c \in Senders
    /\ rooms[r] # 0
    /\ sends < MaxSends /\ sends' = sends + 1
    /\ Goto(c, [Idle EXCEPT !.stage = "send", !.room = rooms[r]])
    /\ UNCHANGED <<rooms, room, cancelled, msgChan, closed, lock, panicked,
                   received, published, texts>>

(* SendMessage: the room is looked up under a read lock ... *)
SendMessage(c, r) ==
    /\ At(c, "idle") /\ lock = NoCaller /\ c \in Senders
    /\ rooms[r] # 0
    /\ sends < MaxSends /\ sends' = sends + 1
    /\ Goto(c, [Idle EXCEPT !.stage = "send", !.room = rooms[r]])
    /\ UNCHANGED <<rooms, room, cancelled, msgChan, closed, lock, panicked,
                   received, published, texts>>

(* ... and published to without one. *)
PublishText(c) ==
    /\ At(c, "send")
    /\ Publish(call[c].room, "text")
    /\ Goto(c, Idle)
    /\ UNCHANGED <<rooms, cancelled, msgChan, closed, lock, panicked, received, sends, texts>>

LeaveRoom(c, r) ==
    /\ At(c, "idle") /\ lock = NoCaller
    /\ rooms[r] # 0
    /\ lock' = c
    /\ Publish(rooms[r], "leave")
    /\ Goto(c, [Idle EXCEPT !.stage = "cancel", !.room = rooms[r], !.by = "leave"])
    /\ UNCHANGED <<rooms, cancelled, msgChan, closed, panicked, received, sends, texts>>

(* Close cancels s.ctx before it waits for the lock.  It is called once,   *)
(* as cmd does: closing msgChan a second time would panic.                 *)
Close(c) ==
    /\ At(c, "idle") /\ ~cancelled
    /\ cancelled' = TRUE
    /\ Goto(c, [Idle EXCEPT !.stage = "close"])
    /\ UNCHANGED <<rooms, room, msgChan, closed, lock, panicked, received,
                   published, sends, texts>>

CloseRooms(c) ==
    /\ At(c, "close") /\ lock = NoCaller
    /\ lock' = c
    /\ Goto(c, [Idle EXCEPT !.stage = "rooms", !.todo = Range(rooms) \ {0}])
    /\ UNCHANGED <<rooms, room, cancelled, msgChan, closed, panicked, received,
                   published, sends, texts>>

(* The rooms are closed in any order, and stay listed. *)
CloseNext(c) ==
    /\ At(c, "rooms")
    /\ \/ \E o \in call[c].todo :
             /\ Goto(c, [call[c] EXCEPT !.stage = "cancel", !.room = o, !.by = "close",
                                        !.todo = @ \ {o}])
             /\ UNCHANGED <<closed, lock>>
       \/ /\ call[c].todo = {}
          /\ closed' = TRUE
          /\ Unlock /\ Goto(c, Idle)
    /\ UNCHANGED <<rooms, room, cancelled, msgChan, panicked, received, published, sends, texts>>
-----------------------------------------------------------------------------
(* Mutant: Room.Close without r.cancel(). *)
CancelNothing(c) ==
    /\ At(c, "cancel")
    /\ Goto(c, [call[c] EXCEPT !.stage = "topic"])
    /\ UNCHANGED <<rooms, room, cancelled, msgChan, closed, lock, panicked,
                   received, published, sends, texts>>

(* Room.Close: r.cancel(), ... *)
CancelRoom(c) ==
    /\ At(c, "cancel")
    /\ SetRoom(call[c].room, [room[call[c].room] EXCEPT !.ctx = "cancelled"])
    /\ Goto(c, [call[c] EXCEPT !.stage = "topic"])
    /\ UNCHANGED <<rooms, cancelled, msgChan, closed, lock, panicked, received,
                   published, sends, texts>>

(* ... r.subscription.Cancel(), after which what is buffered can still be  *)
(* read, and r.topic.Close(), refused as long as peerLoop has its event    *)
(* handler; the error is ignored.  LeaveRoom then delists the room.        *)
CloseTopic(c) ==
    LET o == call[c].room IN
    /\ At(c, "topic")
    /\ SetRoom(o, [room[o] EXCEPT !.live = FALSE,
                                  !.topic = IF room[o].watch = "loop" THEN @ ELSE "closed"])
    /\ \/ /\ call[c].by = "leave"
          /\ rooms' = [rooms EXCEPT ![room[o].id] = 0]
          /\ Unlock /\ Goto(c, Idle)
       \/ /\ call[c].by = "close"
          /\ Goto(c, [call[c] EXCEPT !.stage = "rooms"])
          /\ UNCHANGED <<rooms, lock>>
    /\ UNCHANGED <<cancelled, msgChan, closed, panicked, received, published, sends, texts>>
-----------------------------------------------------------------------------
(* readLoop takes a message, and passes over its own and over garbage. *)
ReadNext(o) ==
    LET m == Head(room[o].queue) IN
    /\ room[o].read = "next" /\ room[o].queue # <<>>
    /\ SetRoom(o, [room[o] EXCEPT !.queue = Tail(@),
                                  !.read = IF m # Ignored THEN "send" ELSE "next",
                                  !.held = m])
    /\ UNCHANGED <<rooms, cancelled, msgChan, closed, lock, call, panicked,
                   received, published, sends, texts>>

(* Mutant: a message is dropped if the channel is full. *)
SendOrDrop(o) ==
    /\ room[o].read = "send" /\ ~closed
    /\ msgChan' = IF Len(msgChan) < ChanCap
                  THEN Append(msgChan, [room |-> o, num |-> room[o].held]) ELSE msgChan
    /\ SetRoom(o, [room[o] EXCEPT !.read = "next", !.held = Ignored])
    /\ UNCHANGED <<rooms, cancelled, closed, lock, call, panicked, received,
                   published, sends, texts>>

(* The two cases of its select: the send, which waits for room in the      *)
(* channel ...                                                             *)
SendToChan(o) ==
    /\ room[o].read = "send" /\ ~closed
    /\ Len(msgChan) < ChanCap
    /\ msgChan' = Append(msgChan, [room |-> o, num |-> room[o].held])
    /\ SetRoom(o, [room[o] EXCEPT !.read = "next", !.held = Ignored])
    /\ UNCHANGED <<rooms, cancelled, closed, lock, call, panicked, received,
                   published, sends, texts>>

(* ... and panics on a closed one; ... *)
SendOnClosed(o) ==
    /\ room[o].read = "send" /\ closed
    /\ panicked' = TRUE
    /\ UNCHANGED <<rooms, room, cancelled, msgChan, closed, lock, call, received,
                   published, sends, texts>>

(* ... and the end of r.ctx, which also ends a wait for the next message.  *)
(* (Next fails for another reason only when the subscription is cancelled, *)
(* after r.ctx.)                                                           *)
ReadEnd(o) ==
    /\ room[o].read \in {"next", "send"} /\ Done(o)
    /\ SetRoom(o, [room[o] EXCEPT !.read = "done", !.queue = <<>>, !.held = Ignored])
    /\ UNCHANGED <<rooms, cancelled, msgChan, closed, lock, call, panicked,
                   received, published, sends, texts>>

(* peerLoop gets an event handler, or finds the topic closed. *)
WatchStart(o) ==
    /\ room[o].watch = "new"
    /\ SetRoom(o, [room[o] EXCEPT !.watch = IF room[o].topic = "closed" THEN "done" ELSE "loop"])
    /\ UNCHANGED <<rooms, cancelled, msgChan, closed, lock, call, panicked,
                   received, published, sends, texts>>

(* The deferred handler.Cancel() included. *)
WatchEnd(o) ==
    /\ room[o].watch = "loop" /\ Done(o)
    /\ SetRoom(o, [room[o] EXCEPT !.watch = "done"])
    /\ UNCHANGED <<rooms, cancelled, msgChan, closed, lock, call, panicked,
                   received, published, sends, texts>>
-----------------------------------------------------------------------------
(* A message of another node reaches the subscription. *)
Arrive(o) ==
    /\ room[o].live /\ room[o].read # "done" /\ Len(room[o].queue) < SubBuffer
    /\ texts < MaxTexts /\ texts' = texts + 1
    /\ SetRoom(o, [Buffered(room[o], room[o].arrived + 1) EXCEPT !.arrived = @ + 1])
    /\ UNCHANGED <<rooms, cancelled, msgChan, closed, lock, call, panicked,
                   received, published, sends>>

(* The user takes a message from the channel. *)
Receive ==
    /\ msgChan # <<>>
    /\ msgChan' = Tail(msgChan)
    /\ received' = [received EXCEPT ![Head(msgChan).room] = Append(@, Head(msgChan).num)]
    /\ UNCHANGED <<rooms, room, cancelled, closed, lock, call, panicked,
                   published, sends, texts>>
-----------------------------------------------------------------------------
Called(c) == \/ PublishJoin(c) \/ PublishText(c)
             \/ CloseRooms(c) \/ CloseNext(c)
             \/ CancelRoom(c) \/ CloseTopic(c)

Watch(o) == WatchStart(o) \/ WatchEnd(o)

Next == /\ ~panicked
        /\ \/ \E c \in Callers :
                 \/ \E r \in RoomIds : JoinRoom(c, r) \/ SendMessage(c, r) \/ LeaveRoom(c, r)
                 \/ Close(c)
                 \/ Called(c)
           \/ \E o \in RoomNumbers :
                 \/ ReadNext(o) \/ SendToChan(o) \/ SendOnClosed(o) \/ ReadEnd(o)
                 \/ Watch(o)
                 \/ Arrive(o)
           \/ Receive

Spec == Init /\ [][Next]_vars

(* Goroutines run, and a select that is reached again and again takes each *)
(* of its ready cases; callers go on.  Nothing is assumed of the user who  *)
(* reads the channel, nor of the network.                                  *)
Running(A) == ~panicked /\ A
FairSpec == /\ Spec
            /\ \A c \in Callers : WF_vars(Running(Called(c)))
            /\ \A o \in 1..MaxRooms :
                  /\ WF_vars(Running(o \in RoomNumbers /\ ReadEnd(o)))
                  /\ WF_vars(Running(o \in RoomNumbers /\ Watch(o)))
-----------------------------------------------------------------------------
(* Type invariant; s.mu is held by exactly the call that is at a stage     *)
(* under it.                                                               *)
TypeOK ==
    /\ rooms \in [RoomIds -> 0..Len(room)]
    /\ room \in Seq([id: RoomIds, topic: {"open", "closed"}, ctx: {"live", "cancelled"},
                     live: BOOLEAN, queue: Seq(Messages), arrived: 0..MaxTexts,
                     read: {"next", "send", "done"}, held: Messages,
                     watch: {"new", "loop", "done"}])
    /\ msgChan \in Seq([room: RoomNumbers, num: 1..MaxTexts]) /\ Len(msgChan) <= ChanCap
    /\ call \in [Callers -> [stage: Locked \cup {"idle", "send", "close"}, room: 0..Len(room),
                             by: {"none", "leave", "close"}, todo: SUBSET RoomNumbers]]
    /\ \A c \in Callers : (lock = c) <=> (call[c].stage \in Locked)
    /\ received \in Seq(Seq(1..MaxTexts)) /\ Len(received) = Len(room)
    /\ {cancelled, closed, panicked} \subseteq BOOLEAN

(* The elements of s at the positions P are first, ..., last in this order. *)
CountsUp(s, P, first, last) ==
    /\ {s[i] : i \in P} = first..last
    /\ \A i, j \in P : i < j => s[i] < s[j]

Numbers(s) == [i \in 1..Len(s) |-> s[i].num]

(* What the user got from Room o, followed by what chan holds of it, is    *)
(* 1, ..., n.                                                              *)
SentUpTo(n, o, got, chan) ==
    /\ got = [i \in 1..Len(got) |-> i]
    /\ CountsUp(Numbers(chan), {i \in 1..Len(chan) : chan[i].room = o}, Len(got) + 1, n)

(* What the readLoop of x is about to send, followed by what its           *)
(* subscription holds, is n + 1, ..., x.arrived.                           *)
LeftFrom(n, x) ==
    LET taken == IF x.read = "send" THEN n + 1 ELSE n IN
    /\ x.read = "send" => x.held = taken
    /\ taken <= x.arrived
    /\ CountsUp(x.queue, {i \in 1..Len(x.queue) : x.queue[i] # Ignored}, taken + 1, x.arrived)

(* The user gets the messages of a room one by one in the order in which   *)
(* they arrived, none twice and none left out, over a channel that is      *)
(* shared with other rooms, full most of the time and closed in the end:   *)
(* what was sent on it is a beginning of what arrived, and as long as      *)
(* readLoop runs all the rest is still on its way.                         *)
InOrder ==
    \A o \in RoomNumbers : \E n \in Len(received[o])..room[o].arrived :
        /\ SentUpTo(n, o, received[o], msgChan)
        /\ room[o].read # "done" => LeftFrom(n, room[o])

(* What other members see of this node: a stay in a room begins with its   *)
(* join message, and no message of an earlier stay, by a SendMessage that  *)
(* was overtaken by LeaveRoom, comes after the join message of a later one.*)
SessionOrder ==
    \A r \in RoomIds : \A i \in 1..Len(published[r]) :
        /\ \A j \in 1..i : published[r][j].room <= published[r][i].room
        /\ (published[r][i].type = "join") <=>
             \A j \in 1..i - 1 : published[r][j].room # published[r][i].room

Ended(o) == o \in RoomNumbers /\ room[o].read = "done" /\ room[o].watch = "done"

(* The goroutines of a room end once it was left or the service closed,    *)
(* though nobody reads the channel any more and it is full; also those of  *)
(* a room joined after Close.                                              *)
LoopsEnd ==
    \A o \in 1..MaxRooms :
        (o \in RoomNumbers /\ (cancelled \/ o \notin Range(rooms)))
            ~> (panicked \/ Ended(o))
=============================================================================
