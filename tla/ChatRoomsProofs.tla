-------------------------- MODULE ChatRoomsProofs --------------------------
(***************************************************************************)
(* Proofs about ChatRooms, for any room IDs, callers, capacities and       *)
(* numbers of Rooms and messages: the types and the lock (TypeCorrect),    *)
(* the order in which the user gets messages (MessagesInOrder) and in      *)
(* which other members see this node's (SessionsInOrder).                  *)
(***************************************************************************)
EXTENDS ChatRooms, TLAPS

RoomRecord == [id: RoomIds, topic: {"open", "closed"}, ctx: {"live", "cancelled"},
               live: BOOLEAN, queue: Seq(Messages), arrived: 0..MaxTexts,
               read: {"next", "send", "done"}, held: Messages,
               watch: {"new", "loop", "done"}]

CallRecord == [stage: Locked \cup {"idle", "send", "close"}, room: 0..Len(room),
               by: {"none", "leave", "close"}, todo: SUBSET RoomNumbers]

Post == [room: RoomNumbers, type: {"join", "text", "leave"}]

(* TypeOK with what it takes to be inductive: a readLoop that sends holds  *)
(* a text, no Room got more texts than there were, a call that works on a  *)
(* Room has one, and what was published came from a Room.                  *)
HeldOK(x, n) == x.arrived <= n /\ (x.read = "send" => x.held # Ignored)

ReadersOK == texts \in 0..MaxTexts /\ \A o \in RoomNumbers : HeldOK(room[o], texts)

AtRoom == {"joined", "send", "cancel", "topic"}
CallsOK == \A c \in Callers : call[c].stage \in AtRoom => call[c].room \in RoomNumbers

PostsOK == published \in [RoomIds -> Seq(Post)]

Typed == TypeOK /\ ReadersOK /\ CallsOK /\ PostsOK

From(o, posts) == \E i \in 1..Len(posts) : posts[i].room = o
Posted(o) == From(o, published[room[o].id])

(* What SessionOrder rests on.  Publications are filed under the ID of     *)
(* their Room.  An open topic belongs to the last Room of its ID.  A Room  *)
(* whose topic is open has published something, its join message first,    *)
(* unless its JoinRoom is still under way: then its topic is open, nothing *)
(* was published from it, and no SendMessage has got hold of it.           *)
FiledById == \A r \in RoomIds : \A i \in 1..Len(published[r]) : room[published[r][i].room].id = r
OpenIsLast == \A o, p \in RoomNumbers : room[o].topic = "open" /\ room[p].id = room[o].id => p <= o
JoinFirst ==
    /\ \A c \in Callers : At(c, "joined") =>
          /\ room[call[c].room].topic = "open" /\ ~Posted(call[c].room)
          /\ \A d \in Callers : At(d, "send") => call[d].room # call[c].room
    /\ \A o \in RoomNumbers : room[o].topic = "open" =>
          Posted(o) \/ \E c \in Callers : At(c, "joined") /\ call[c].room = o

Sessions == FiledById /\ OpenIsLast /\ JoinFirst /\ SessionOrder

Inv == Typed /\ Sessions /\ InOrder
-----------------------------------------------------------------------------
(* One Room is replaced, and none is added. *)
LEMMA RoomReplaced ==
    ASSUME Typed, NEW o \in RoomNumbers, NEW x \in RoomRecord, SetRoom(o, x),
           texts' \in 0..MaxTexts, texts <= texts', HeldOK(x, texts')
    PROVE  /\ room' \in Seq(RoomRecord) /\ Len(room') = Len(room)
           /\ room'[o] = x /\ \A p \in RoomNumbers : p # o => room'[p] = room[p]
           /\ \A p \in RoomNumbers : HeldOK(room'[p], texts')
<1>1. room \in Seq(RoomRecord)
  BY DEF Typed, TypeOK, RoomRecord
<1>2. /\ room' \in Seq(RoomRecord) /\ Len(room') = Len(room)
      /\ room'[o] = x /\ \A p \in RoomNumbers : p # o => room'[p] = room[p]
  BY <1>1 DEF SetRoom, RoomNumbers
<1>3. MaxTexts \in Nat
  BY ChatAssumption
<1>4. ASSUME NEW p \in RoomNumbers
      PROVE  HeldOK(room'[p], texts')
  <2>1. CASE p = o
    BY <1>2, <2>1
  <2>2. CASE p # o
    <3>1. room[p] \in RoomRecord
      BY <1>1 DEF RoomNumbers
    <3>2. room[p].arrived \in Nat /\ HeldOK(room[p], texts) /\ texts \in Nat
      BY <1>3, <3>1 DEF Typed, ReadersOK, RoomRecord
    <3> QED
      BY <1>2, <1>3, <2>2, <3>2 DEF HeldOK
  <2> QED
    BY <2>1, <2>2
<1> QED
  BY <1>2, <1>4

(* Typed after a step, in terms of the Rooms before it. *)
LEMMA TypedAfter ==
    ASSUME room' \in Seq(RoomRecord), Len(room') = Len(room),
           texts' \in 0..MaxTexts, \A o \in RoomNumbers : HeldOK(room'[o], texts'),
           rooms' \in [RoomIds -> 0..Len(room)],
           msgChan' \in Seq([room: RoomNumbers, num: 1..MaxTexts]), Len(msgChan') <= ChanCap,
           call' \in [Callers -> CallRecord],
           \A c \in Callers : call'[c].stage \in AtRoom => call'[c].room \in RoomNumbers,
           \A c \in Callers : (lock' = c) <=> (call'[c].stage \in Locked),
           received' \in Seq(Seq(1..MaxTexts)), Len(received') = Len(room),
           cancelled' \in BOOLEAN, closed' \in BOOLEAN, panicked' \in BOOLEAN,
           published' \in [RoomIds -> Seq(Post)]
    PROVE  Typed'
<1>1. RoomNumbers' = RoomNumbers
  BY DEF RoomNumbers
<1>2. CallRecord' = CallRecord /\ Post' = Post
  BY <1>1 DEF CallRecord, Post
<1>3. TypeOK'
  BY <1>1, <1>2 DEF TypeOK, RoomRecord, CallRecord
<1>4. ReadersOK'
  BY <1>1 DEF ReadersOK
<1>5. CallsOK'
  BY <1>1 DEF CallsOK
<1>6. PostsOK'
  BY <1>2 DEF PostsOK
<1> QED
  BY <1>3, <1>4, <1>5, <1>6 DEF Typed

(* A goroutine of a Room, or the network: only its Room changes. *)
LEMMA TypedRoomStep ==
    ASSUME Typed, NEW o \in RoomNumbers, NEW x \in RoomRecord, SetRoom(o, x),
           texts' \in 0..MaxTexts, texts <= texts', HeldOK(x, texts'),
           msgChan' \in Seq([room: RoomNumbers, num: 1..MaxTexts]), Len(msgChan') <= ChanCap,
           UNCHANGED <<rooms, cancelled, closed, lock, call, panicked, received, published>>
    PROVE  Typed'
<1>1. /\ room' \in Seq(RoomRecord) /\ Len(room') = Len(room)
      /\ \A p \in RoomNumbers : HeldOK(room'[p], texts')
  BY RoomReplaced
<1>2. /\ rooms' \in [RoomIds -> 0..Len(room)]
      /\ call' \in [Callers -> CallRecord]
      /\ \A c \in Callers : (lock' = c) <=> (call'[c].stage \in Locked)
      /\ received' \in Seq(Seq(1..MaxTexts)) /\ Len(received') = Len(room)
      /\ cancelled' \in BOOLEAN /\ closed' \in BOOLEAN /\ panicked' \in BOOLEAN
  BY DEF Typed, TypeOK, CallRecord
<1>3. /\ published' \in [RoomIds -> Seq(Post)]
      /\ \A c \in Callers : call'[c].stage \in AtRoom => call'[c].room \in RoomNumbers
  BY DEF Typed, PostsOK, CallsOK
<1> QED
  BY <1>1, <1>2, <1>3, TypedAfter
-----------------------------------------------------------------------------
(* Publish leaves a Room as it was, but for one more message of this node. *)
SameReader(x, y) == /\ y.arrived = x.arrived /\ y.read = x.read /\ y.held = x.held
                    /\ y.queue = x.queue \/ y.queue = Append(x.queue, Ignored)
Echoed(x, y) == y.id = x.id /\ y.topic = x.topic /\ SameReader(x, y)

LEMMA BufferedRecord ==
    ASSUME NEW x \in RoomRecord, NEW m \in Messages
    PROVE  /\ Buffered(x, m) \in RoomRecord
           /\ Buffered(x, m).arrived = x.arrived /\ Buffered(x, m).read = x.read
           /\ Buffered(x, m).held = x.held
           /\ Buffered(x, m).id = x.id /\ Buffered(x, m).topic = x.topic
           /\ Buffered(x, m).queue = x.queue \/ Buffered(x, m).queue = Append(x.queue, m)
           /\ x.live /\ x.read # "done" /\ Len(x.queue) < SubBuffer
                => Buffered(x, m).queue = Append(x.queue, m)
<1>1. x.queue \in Seq(Messages) /\ Append(x.queue, m) \in Seq(Messages)
  BY DEF RoomRecord
<1>2. [x EXCEPT !.queue = Append(@, m)] \in RoomRecord
  BY <1>1 DEF RoomRecord
<1> QED
  BY <1>1, <1>2 DEF Buffered, RoomRecord

LEMMA PublishEffect ==
    ASSUME Typed, NEW o \in RoomNumbers, NEW type \in {"join", "text", "leave"},
           Publish(o, type), texts' = texts
    PROVE  /\ room' \in Seq(RoomRecord) /\ Len(room') = Len(room)
           /\ \A p \in RoomNumbers : Echoed(room[p], room'[p]) /\ HeldOK(room'[p], texts')
           /\ published' \in [RoomIds -> Seq(Post)]
           /\ texts' \in 0..MaxTexts
<1>1. room \in Seq(RoomRecord) /\ texts \in Nat /\ texts' \in 0..MaxTexts /\ texts <= texts'
  BY ChatAssumption DEF Typed, TypeOK, ReadersOK, RoomRecord
<1>2. room[o] \in RoomRecord /\ HeldOK(room[o], texts)
  BY <1>1 DEF RoomNumbers, Typed, ReadersOK
<1>3. Ignored \in Messages
  BY ChatAssumption DEF Ignored, Messages
<1>4. CASE room[o].topic = "open"
  <2>1. SetRoom(o, Buffered(room[o], Ignored))
    BY <1>4 DEF Publish
  <2>2. Buffered(room[o], Ignored) \in RoomRecord /\ HeldOK(Buffered(room[o], Ignored), texts')
    BY <1>2, <1>3, BufferedRecord DEF HeldOK
  <2>3. /\ room' \in Seq(RoomRecord) /\ Len(room') = Len(room)
        /\ room'[o] = Buffered(room[o], Ignored)
        /\ \A p \in RoomNumbers : p # o => room'[p] = room[p]
        /\ \A p \in RoomNumbers : HeldOK(room'[p], texts')
    BY <1>1, <2>1, <2>2, RoomReplaced
  <2>4. \A p \in RoomNumbers : Echoed(room[p], room'[p])
    BY <1>2, <1>3, <2>3, BufferedRecord DEF Echoed, SameReader
  <2>5. room[o].id \in RoomIds /\ [room |-> o, type |-> type] \in Post
    BY <1>2 DEF RoomRecord, Post
  <2>6. published \in [RoomIds -> Seq(Post)]
    BY DEF Typed, PostsOK
  <2>7. published' \in [RoomIds -> Seq(Post)]
    <3>1. published' = [published EXCEPT ![room[o].id] = Append(@, [room |-> o, type |-> type])]
      BY <1>4 DEF Publish
    <3> QED
      BY <2>5, <2>6, <3>1
  <2> QED
    BY <1>1, <2>3, <2>4, <2>7
<1>5. CASE room[o].topic # "open"
  <2>1. room' = room /\ published' = published
    BY <1>5 DEF Publish
  <2> QED
    BY <1>1, <2>1 DEF Echoed, SameReader, Typed, ReadersOK, PostsOK
<1> QED
  BY <1>4, <1>5

(* A call goes on to another stage. *)
LEMMA CallMoves ==
    ASSUME Typed, NEW c \in Callers, NEW s \in CallRecord, Goto(c, s),
           s.stage \in AtRoom => s.room \in RoomNumbers,
           \A d \in Callers : (lock' = d) <=> (IF d = c THEN s.stage \in Locked ELSE lock = d)
    PROVE  /\ call' \in [Callers -> CallRecord]
           /\ call'[c] = s /\ \A d \in Callers : d # c => call'[d] = call[d]
           /\ \A d \in Callers : call'[d].stage \in AtRoom => call'[d].room \in RoomNumbers
           /\ \A d \in Callers : (lock' = d) <=> (call'[d].stage \in Locked)
<1>1. call \in [Callers -> CallRecord] /\ \A d \in Callers : (lock = d) <=> (call[d].stage \in Locked)
  BY DEF Typed, TypeOK, CallRecord
<1>2. /\ call' \in [Callers -> CallRecord]
      /\ call'[c] = s /\ \A d \in Callers : d # c => call'[d] = call[d]
  BY <1>1 DEF Goto
<1>3. \A d \in Callers : call[d].stage \in AtRoom => call[d].room \in RoomNumbers
  BY DEF Typed, CallsOK
<1> QED
  BY <1>1, <1>2, <1>3
(* A step of a call that makes no Room. *)
LEMMA TypedCallStep ==
    ASSUME Typed, NEW c \in Callers, NEW s \in CallRecord, Goto(c, s),
           s.stage \in AtRoom => s.room \in RoomNumbers,
           \A d \in Callers : (lock' = d) <=> (IF d = c THEN s.stage \in Locked ELSE lock = d),
           room' \in Seq(RoomRecord), Len(room') = Len(room),
           \A o \in RoomNumbers : HeldOK(room'[o], texts'),
           rooms' \in [RoomIds -> 0..Len(room)], published' \in [RoomIds -> Seq(Post)],
           cancelled' \in BOOLEAN, closed' \in BOOLEAN,
           UNCHANGED <<msgChan, panicked, received, texts>>
    PROVE  Typed'
<1>1. /\ call' \in [Callers -> CallRecord]
      /\ \A d \in Callers : call'[d].stage \in AtRoom => call'[d].room \in RoomNumbers
      /\ \A d \in Callers : (lock' = d) <=> (call'[d].stage \in Locked)
  BY CallMoves
<1>2. /\ msgChan' \in Seq([room: RoomNumbers, num: 1..MaxTexts]) /\ Len(msgChan') <= ChanCap
      /\ received' \in Seq(Seq(1..MaxTexts)) /\ Len(received') = Len(room)
      /\ panicked' \in BOOLEAN
  BY DEF Typed, TypeOK
<1>3. texts' \in 0..MaxTexts
  BY DEF Typed, ReadersOK
<1> QED
  BY <1>1, <1>2, <1>3, TypedAfter

(* What Typed says, part by part, for the variables that a step leaves alone. *)
LEMMA TypedParts ==
    ASSUME Typed
    PROVE  /\ rooms \in [RoomIds -> 0..Len(room)]
           /\ room \in Seq(RoomRecord)
           /\ \A o \in RoomNumbers : room[o] \in RoomRecord /\ HeldOK(room[o], texts)
           /\ published \in [RoomIds -> Seq(Post)]
           /\ cancelled \in BOOLEAN /\ closed \in BOOLEAN
           /\ call \in [Callers -> CallRecord]
           /\ \A c \in Callers : /\ (lock = c) <=> (call[c].stage \in Locked)
                                 /\ call[c].stage \in AtRoom => call[c].room \in RoomNumbers
           /\ texts \in 0..MaxTexts /\ texts \in Nat
           /\ Len(room) \in Nat
<1>1. /\ rooms \in [RoomIds -> 0..Len(room)] /\ room \in Seq(RoomRecord)
      /\ cancelled \in BOOLEAN /\ closed \in BOOLEAN
      /\ call \in [Callers -> CallRecord]
      /\ \A c \in Callers : (lock = c) <=> (call[c].stage \in Locked)
  BY DEF Typed, TypeOK, RoomRecord, CallRecord
<1>2. \A o \in RoomNumbers : room[o] \in RoomRecord
  BY <1>1 DEF RoomNumbers
<1>3. texts \in 0..MaxTexts /\ \A o \in RoomNumbers : HeldOK(room[o], texts)
  BY DEF Typed, ReadersOK
<1>4. texts \in Nat
  BY <1>3, ChatAssumption
<1> QED
  BY <1>1, <1>2, <1>3, <1>4 DEF Typed, PostsOK, CallsOK

LEMMA CallTyped ==
    ASSUME Typed, NEW c \in Callers
    PROVE  /\ call[c] \in CallRecord
           /\ call[c].stage \in Locked \cup {"idle", "send", "close"}
           /\ call[c].room \in 0..Len(room) /\ call[c].by \in {"none", "leave", "close"}
           /\ call[c].todo \in SUBSET RoomNumbers
           /\ Idle \in CallRecord /\ Idle.stage = "idle" /\ Idle.room = 0
<1>1. Len(room) \in Nat /\ call[c] \in CallRecord
  BY TypedParts
<1>2. Idle \in CallRecord
  BY <1>1 DEF Idle, CallRecord
<1> QED
  BY <1>1, <1>2 DEF CallRecord, Idle

LEMMA PublishJoinTyped ==
    ASSUME Typed, NEW c \in Callers, PublishJoin(c)
    PROVE  Typed'
<1>1. call[c].room \in RoomNumbers /\ call[c].stage = "joined"
  BY TypedParts DEF PublishJoin, At, AtRoom
<1>2. /\ room' \in Seq(RoomRecord) /\ Len(room') = Len(room)
      /\ \A p \in RoomNumbers : HeldOK(room'[p], texts')
      /\ published' \in [RoomIds -> Seq(Post)]
  BY <1>1, PublishEffect DEF PublishJoin
<1>3. \A d \in Callers : (lock' = d) <=> (IF d = c THEN Idle.stage \in Locked ELSE lock = d)
  BY <1>1, TypedParts, ChatAssumption DEF PublishJoin, Unlock, Idle, Locked
<1> QED
  BY <1>2, <1>3, CallTyped, TypedParts, TypedCallStep DEF PublishJoin, AtRoom

LEMMA PublishTextTyped ==
    ASSUME Typed, NEW c \in Callers, PublishText(c)
    PROVE  Typed'
<1>1. call[c].room \in RoomNumbers /\ call[c].stage = "send"
  BY TypedParts DEF PublishText, At, AtRoom
<1>2. /\ room' \in Seq(RoomRecord) /\ Len(room') = Len(room)
      /\ \A p \in RoomNumbers : HeldOK(room'[p], texts')
      /\ published' \in [RoomIds -> Seq(Post)]
  BY <1>1, PublishEffect DEF PublishText
<1>3. \A d \in Callers : (lock' = d) <=> (IF d = c THEN Idle.stage \in Locked ELSE lock = d)
  BY <1>1, TypedParts, ChatAssumption DEF PublishText, Idle, Locked
<1> QED
  BY <1>2, <1>3, CallTyped, TypedParts, TypedCallStep DEF PublishText, AtRoom

LEMMA LeaveRoomTyped ==
    ASSUME Typed, NEW c \in Callers, NEW r \in RoomIds, LeaveRoom(c, r)
    PROVE  Typed'
<1> DEFINE s == [Idle EXCEPT !.stage = "cancel", !.room = rooms[r], !.by = "leave"]
<1>1. rooms[r] \in RoomNumbers
  BY TypedParts DEF LeaveRoom, RoomNumbers
<1>2. /\ room' \in Seq(RoomRecord) /\ Len(room') = Len(room)
      /\ \A p \in RoomNumbers : HeldOK(room'[p], texts')
      /\ published' \in [RoomIds -> Seq(Post)]
  BY <1>1, PublishEffect DEF LeaveRoom
<1>3. s \in CallRecord /\ s.stage = "cancel" /\ s.room = rooms[r]
  <2>1. Idle \in CallRecord
    BY CallTyped
  <2>2. rooms[r] \in 0..Len(room)
    BY TypedParts
  <2> QED
    BY <2>1, <2>2 DEF CallRecord, Locked
<1>4. \A d \in Callers : (lock' = d) <=> (IF d = c THEN s.stage \in Locked ELSE lock = d)
  BY <1>3, ChatAssumption DEF LeaveRoom, Locked
<1>5. Goto(c, s)
  BY DEF LeaveRoom
<1> HIDE DEF s
<1> QED
  BY <1>1, <1>2, <1>3, <1>4, <1>5, TypedParts, TypedCallStep DEF LeaveRoom
LEMMA SendMessageTyped ==
    ASSUME Typed, NEW c \in Callers, NEW r \in RoomIds, SendMessage(c, r)
    PROVE  Typed'
<1> DEFINE s == [Idle EXCEPT !.stage = "send", !.room = rooms[r]]
<1>1. rooms[r] \in RoomNumbers
  BY TypedParts DEF SendMessage, RoomNumbers
<1>2. s \in CallRecord /\ s.stage = "send" /\ s.room = rooms[r]
  <2>1. Idle \in CallRecord
    BY CallTyped
  <2>2. rooms[r] \in 0..Len(room)
    BY TypedParts
  <2> QED
    BY <2>1, <2>2 DEF CallRecord, Locked
<1>3. \A d \in Callers : (lock' = d) <=> (IF d = c THEN s.stage \in Locked ELSE lock = d)
  BY <1>2, ChatAssumption DEF SendMessage, Locked
<1>4. Goto(c, s)
  BY DEF SendMessage
<1> HIDE DEF s
<1> QED
  BY <1>1, <1>2, <1>3, <1>4, TypedParts, TypedCallStep DEF SendMessage

LEMMA CloseTyped ==
    ASSUME Typed, NEW c \in Callers, Close(c)
    PROVE  Typed'
<1> DEFINE s == [Idle EXCEPT !.stage = "close"]
<1>1. s \in CallRecord /\ s.stage = "close"
  <2>1. Idle \in CallRecord
    BY CallTyped
  <2>2. Len(room) \in Nat
    BY TypedParts
  <2> QED
    BY <2>1, <2>2 DEF CallRecord, Locked
<1>2. \A d \in Callers : (lock' = d) <=> (IF d = c THEN s.stage \in Locked ELSE lock = d)
  BY <1>1, TypedParts DEF Close, Locked, At
<1>3. Goto(c, s)
  BY DEF Close
<1> HIDE DEF s
<1> QED
  BY <1>1, <1>2, <1>3, TypedParts, TypedCallStep DEF Close, AtRoom

LEMMA CloseRoomsTyped ==
    ASSUME Typed, NEW c \in Callers, CloseRooms(c)
    PROVE  Typed'
<1> DEFINE s == [Idle EXCEPT !.stage = "rooms", !.todo = Range(rooms) \ {0}]
<1>1. s \in CallRecord /\ s.stage = "rooms"
  <2>1. Idle \in CallRecord
    BY CallTyped
  <2>2. Range(rooms) \ {0} \in SUBSET RoomNumbers /\ Len(room) \in Nat
    BY TypedParts DEF Range, RoomNumbers
  <2> QED
    BY <2>1, <2>2 DEF CallRecord, Locked
<1>2. \A d \in Callers : (lock' = d) <=> (IF d = c THEN s.stage \in Locked ELSE lock = d)
  BY <1>1, ChatAssumption DEF CloseRooms, Locked
<1>3. Goto(c, s)
  BY DEF CloseRooms
<1> HIDE DEF s
<1> QED
  BY <1>1, <1>2, <1>3, TypedParts, TypedCallStep DEF CloseRooms, AtRoom

LEMMA CloseNextTyped ==
    ASSUME Typed, NEW c \in Callers, CloseNext(c)
    PROVE  Typed'
<1>1. call[c].stage = "rooms" /\ lock = c
  BY TypedParts DEF CloseNext, At, Locked
<1>2. ASSUME NEW o \in call[c].todo, UNCHANGED <<closed, lock>>,
             Goto(c, [call[c] EXCEPT !.stage = "cancel", !.room = o, !.by = "close",
                                     !.todo = @ \ {o}])
      PROVE  Typed'
  <2> DEFINE s == [call[c] EXCEPT !.stage = "cancel", !.room = o, !.by = "close",
                                  !.todo = @ \ {o}]
  <2>1. call[c] \in CallRecord /\ call[c].todo \in SUBSET RoomNumbers /\ Len(room) \in Nat
    BY CallTyped, TypedParts
  <2>2. o \in RoomNumbers /\ o \in 0..Len(room) /\ call[c].todo \ {o} \in SUBSET RoomNumbers
    BY <2>1 DEF RoomNumbers
  <2>3. s \in CallRecord /\ s.stage = "cancel" /\ s.room = o
    BY <2>1, <2>2 DEF CallRecord, Locked
  <2>4. \A d \in Callers : (lock' = d) <=> (IF d = c THEN s.stage \in Locked ELSE lock = d)
    BY <1>1, <1>2, <2>3 DEF Locked
  <2>5. Goto(c, s)
    BY <1>2
  <2> HIDE DEF s
  <2> QED
    BY <1>2, <2>2, <2>3, <2>4, <2>5, TypedParts, TypedCallStep DEF CloseNext
<1>3. ASSUME closed' = TRUE, Unlock, Goto(c, Idle)
      PROVE  Typed'
  <2>1. \A d \in Callers : (lock' = d) <=> (IF d = c THEN Idle.stage \in Locked ELSE lock = d)
    BY <1>1, <1>3, CallTyped, ChatAssumption DEF Unlock, Locked
  <2> QED
    BY <1>3, <2>1, CallTyped, TypedParts, TypedCallStep DEF CloseNext, AtRoom
<1> QED
  BY <1>2, <1>3 DEF CloseNext
LEMMA SeqMonotonic ==
    ASSUME NEW S, NEW T, S \subseteq T, NEW q \in Seq(S)
    PROVE  q \in Seq(T)
OBVIOUS

LEMMA JoinRoomTyped ==
    ASSUME Typed, NEW c \in Callers, NEW r \in RoomIds, JoinRoom(c, r)
    PROVE  /\ Typed'
           /\ Len(room') = Len(room) + 1 /\ room'[Len(room) + 1] = NewRoom(r)
           /\ \A o \in RoomNumbers : room'[o] = room[o]
           /\ call'[c].stage = "joined" /\ call'[c].room = Len(room) + 1
           /\ \A d \in Callers : d # c => call'[d] = call[d]
<1> DEFINE n == Len(room) + 1
           s == [Idle EXCEPT !.stage = "joined", !.room = n]
<1>1. Len(room) \in Nat /\ room \in Seq(RoomRecord) /\ rooms \in [RoomIds -> 0..Len(room)]
  BY TypedParts
<1>2. NewRoom(r) \in RoomRecord /\ NewRoom(r).arrived = 0 /\ NewRoom(r).read = "next"
  BY ChatAssumption DEF NewRoom, RoomRecord, Messages, Ignored
<1>3. /\ room' \in Seq(RoomRecord) /\ Len(room') = n /\ room'[n] = NewRoom(r)
      /\ \A o \in RoomNumbers : room'[o] = room[o]
  BY <1>1, <1>2 DEF JoinRoom, RoomNumbers
<1>4. RoomNumbers' = RoomNumbers \cup {n} /\ n \in RoomNumbers'
  BY <1>1, <1>3 DEF RoomNumbers
<1>5. CallRecord \subseteq CallRecord' /\ Post \subseteq Post'
  BY <1>1, <1>3, <1>4 DEF CallRecord, Post
<1>6. s \in CallRecord' /\ s.stage = "joined" /\ s.room = n
  <2>1. Idle \in CallRecord'
    BY <1>5, CallTyped
  <2>2. n \in 0..Len(room')
    BY <1>1, <1>3
  <2> HIDE DEF n
  <2> QED
    BY <2>1, <2>2 DEF CallRecord, Locked
<1>7. /\ call' \in [Callers -> CallRecord']
      /\ call'[c] = s /\ \A d \in Callers : d # c => call'[d] = call[d]
  <2>1. call \in [Callers -> CallRecord'] /\ call' = [call EXCEPT ![c] = s]
    BY <1>5, TypedParts DEF JoinRoom, Goto
  <2> HIDE DEF s
  <2> QED
    BY <1>6, <2>1
<1>8. \A d \in Callers : (lock' = d) <=> (call'[d].stage \in Locked)
  BY <1>6, <1>7, TypedParts, ChatAssumption DEF JoinRoom, Locked
<1>9. rooms' \in [RoomIds -> 0..Len(room')]
  BY <1>1, <1>3 DEF JoinRoom
<1>10. msgChan' \in Seq([room: RoomNumbers', num: 1..MaxTexts]) /\ Len(msgChan') <= ChanCap
  <2>1. msgChan' = msgChan
    BY DEF JoinRoom
  <2>2. msgChan \in Seq([room: RoomNumbers, num: 1..MaxTexts]) /\ Len(msgChan) <= ChanCap
    BY DEF Typed, TypeOK
  <2>3. [room: RoomNumbers, num: 1..MaxTexts] \subseteq [room: RoomNumbers', num: 1..MaxTexts]
    BY <1>4
  <2> QED
    BY <2>1, <2>2, <2>3, SeqMonotonic
<1>11. received' \in Seq(Seq(1..MaxTexts)) /\ Len(received') = Len(room')
  BY <1>1, <1>3 DEF Typed, TypeOK, JoinRoom
<1>12. cancelled' \in BOOLEAN /\ closed' \in BOOLEAN /\ panicked' \in BOOLEAN
  BY DEF Typed, TypeOK, JoinRoom
<1>13. TypeOK'
  BY <1>3, <1>7, <1>8, <1>9, <1>10, <1>11, <1>12 DEF TypeOK, RoomRecord, CallRecord
<1>14. ReadersOK'
  <2>1. texts' \in 0..MaxTexts /\ texts' = texts /\ texts \in Nat
    BY TypedParts DEF JoinRoom
  <2>2. HeldOK(NewRoom(r), texts)
    BY <1>2, <2>1 DEF HeldOK
  <2> QED
    BY <1>3, <1>4, <2>1, <2>2, TypedParts DEF ReadersOK
<1>15. CallsOK'
  BY <1>4, <1>6, <1>7, TypedParts DEF CallsOK
<1>16. PostsOK'
  <2>1. published' = published /\ published \in [RoomIds -> Seq(Post)]
    BY TypedParts DEF JoinRoom
  <2>2. Seq(Post) \subseteq Seq(Post')
    BY <1>5
  <2> QED
    BY <2>1, <2>2 DEF PostsOK
<1> QED
  BY <1>3, <1>6, <1>7, <1>13, <1>14, <1>15, <1>16 DEF Typed

(* CancelRoom and CloseTopic change one Room, of which they keep the       *)
(* readLoop's part.                                                        *)
LEMMA CancelRoomTyped ==
    ASSUME Typed, NEW c \in Callers, CancelRoom(c)
    PROVE  /\ Typed' /\ Len(room') = Len(room)
           /\ \A o \in RoomNumbers : Echoed(room[o], room'[o])
<1> DEFINE o == call[c].room
           x == [room[o] EXCEPT !.ctx = "cancelled"]
           s == [call[c] EXCEPT !.stage = "topic"]
<1>1. o \in RoomNumbers /\ call[c].stage = "cancel" /\ lock = c
  BY TypedParts DEF CancelRoom, At, AtRoom, Locked
<1>2. room[o] \in RoomRecord /\ HeldOK(room[o], texts)
  BY <1>1, TypedParts
<1>3. x \in RoomRecord /\ HeldOK(x, texts') /\ Echoed(room[o], x) /\ x.queue = room[o].queue
  BY <1>2 DEF CancelRoom, RoomRecord, HeldOK, Echoed, SameReader
<1>4. SetRoom(o, x) /\ Goto(c, s)
  BY DEF CancelRoom
<1>5. s \in CallRecord /\ s.stage = "topic" /\ s.room = o
  BY CallTyped DEF CallRecord, Locked
<1>6. texts' \in 0..MaxTexts /\ texts <= texts'
  BY TypedParts DEF CancelRoom
<1>7. \A d \in Callers : (lock' = d) <=> (IF d = c THEN s.stage \in Locked ELSE lock = d)
  BY <1>1, <1>5 DEF CancelRoom, Locked
<1> HIDE DEF x, s, o
<1>8. /\ room' \in Seq(RoomRecord) /\ Len(room') = Len(room)
      /\ room'[o] = x /\ \A p \in RoomNumbers : p # o => room'[p] = room[p]
      /\ \A p \in RoomNumbers : HeldOK(room'[p], texts')
  BY <1>1, <1>3, <1>4, <1>6, RoomReplaced
<1>9. Typed'
  BY <1>1, <1>4, <1>5, <1>7, <1>8, TypedParts, TypedCallStep DEF CancelRoom
<1> QED
  BY <1>3, <1>8, <1>9 DEF Echoed, SameReader

LEMMA CloseTopicTyped ==
    ASSUME Typed, NEW c \in Callers, CloseTopic(c)
    PROVE  /\ Typed' /\ Len(room') = Len(room)
           /\ \A p \in RoomNumbers :
                /\ room'[p].id = room[p].id /\ SameReader(room[p], room'[p])
                /\ room'[p].topic = room[p].topic \/ room'[p].topic = "closed"
<1> DEFINE o == call[c].room
           x == [room[o] EXCEPT !.live = FALSE,
                                !.topic = IF room[o].watch = "loop" THEN @ ELSE "closed"]
           s == [call[c] EXCEPT !.stage = "rooms"]
<1>1. o \in RoomNumbers /\ call[c].stage = "topic" /\ lock = c
  BY TypedParts DEF CloseTopic, At, AtRoom, Locked
<1>2. room[o] \in RoomRecord /\ HeldOK(room[o], texts)
  BY <1>1, TypedParts
<1>3. /\ x \in RoomRecord /\ HeldOK(x, texts')
      /\ x.id = room[o].id /\ x.arrived = room[o].arrived /\ x.read = room[o].read
      /\ x.held = room[o].held /\ x.queue = room[o].queue
      /\ x.topic = room[o].topic \/ x.topic = "closed"
  BY <1>2 DEF CloseTopic, RoomRecord, HeldOK
<1>4. SetRoom(o, x)
  BY DEF CloseTopic
<1>5. s \in CallRecord /\ s.stage = "rooms" /\ room[o].id \in RoomIds
  BY <1>2, CallTyped DEF CallRecord, Locked, RoomRecord
<1>6. texts' \in 0..MaxTexts /\ texts <= texts'
  BY TypedParts DEF CloseTopic
<1>7. \/ Goto(c, Idle) /\ Unlock /\ rooms' = [rooms EXCEPT ![room[o].id] = 0]
      \/ Goto(c, s) /\ UNCHANGED <<rooms, lock>>
  BY DEF CloseTopic
<1> HIDE DEF x, o, s
<1>8. rooms' \in [RoomIds -> 0..Len(room)]
  <2>1. rooms \in [RoomIds -> 0..Len(room)] /\ 0 \in 0..Len(room)
    BY TypedParts
  <2> QED
    BY <1>5, <1>7, <2>1
<1>9. /\ room' \in Seq(RoomRecord) /\ Len(room') = Len(room)
      /\ room'[o] = x /\ \A p \in RoomNumbers : p # o => room'[p] = room[p]
      /\ \A p \in RoomNumbers : HeldOK(room'[p], texts')
  BY <1>1, <1>3, <1>4, <1>6, RoomReplaced
<1>10. Typed'
  <2>1. CASE Goto(c, Idle) /\ Unlock
    <3>1. \A d \in Callers : (lock' = d) <=> (IF d = c THEN Idle.stage \in Locked ELSE lock = d)
      BY <1>1, <2>1, CallTyped, ChatAssumption DEF Unlock, Locked
    <3> QED
      BY <1>8, <1>9, <2>1, <3>1, CallTyped, TypedParts, TypedCallStep DEF CloseTopic, AtRoom
  <2>2. CASE Goto(c, s) /\ UNCHANGED <<rooms, lock>>
    <3>1. \A d \in Callers : (lock' = d) <=> (IF d = c THEN s.stage \in Locked ELSE lock = d)
      BY <1>1, <1>5, <2>2 DEF Locked
    <3> QED
      BY <1>5, <1>8, <1>9, <2>2, <3>1, TypedParts, TypedCallStep DEF CloseTopic, AtRoom
  <2> QED
    BY <1>7, <2>1, <2>2
<1> QED
  BY <1>3, <1>9, <1>10 DEF SameReader
-----------------------------------------------------------------------------
(* The steps of a Room's goroutines and of the network: Typed, and what    *)
(* becomes of the Room; the others and all topics stay as they are.        *)
OnlyRoom(o) == /\ Len(room') = Len(room)
               /\ \A p \in RoomNumbers : p # o => room'[p] = room[p]
               /\ room'[o].id = room[o].id /\ room'[o].topic = room[o].topic

LEMMA HeadOfSeq ==
    ASSUME NEW S, NEW q \in Seq(S), q # <<>>
    PROVE  Head(q) \in S
OBVIOUS

LEMMA IgnoredMessage == Ignored \in Messages
BY ChatAssumption DEF Ignored, Messages

LEMMA ReadNextTyped ==
    ASSUME Typed, NEW o \in RoomNumbers, ReadNext(o)
    PROVE  /\ Typed' /\ OnlyRoom(o)
           /\ room[o].queue \in Seq(Messages) /\ room[o].queue # <<>>
           /\ room'[o].queue = Tail(room[o].queue) /\ room'[o].held = Head(room[o].queue)
           /\ room'[o].read = IF Head(room[o].queue) # Ignored THEN "send" ELSE "next"
           /\ room'[o].arrived = room[o].arrived
<1> DEFINE m == Head(room[o].queue)
           x == [room[o] EXCEPT !.queue = Tail(@),
                                !.read = IF m # Ignored THEN "send" ELSE "next", !.held = m]
<1>1. room[o] \in RoomRecord /\ HeldOK(room[o], texts)
  BY TypedParts
<1>2. room[o].queue \in Seq(Messages) /\ room[o].queue # <<>>
  BY <1>1 DEF RoomRecord, ReadNext
<1>3. m \in Messages /\ Tail(room[o].queue) \in Seq(Messages)
  BY <1>2
<1> HIDE DEF m
<1>4. /\ x \in RoomRecord /\ x.id = room[o].id /\ x.topic = room[o].topic
      /\ x.queue = Tail(room[o].queue) /\ x.held = m /\ x.arrived = room[o].arrived
      /\ x.read = IF m # Ignored THEN "send" ELSE "next"
  BY <1>1, <1>3 DEF RoomRecord
<1>5. SetRoom(o, x)
  BY DEF ReadNext, m
<1> HIDE DEF x
<1>6. texts' \in 0..MaxTexts /\ texts <= texts' /\ HeldOK(x, texts')
  BY <1>1, <1>4, TypedParts DEF ReadNext, HeldOK
<1>7. msgChan' \in Seq([room: RoomNumbers, num: 1..MaxTexts]) /\ Len(msgChan') <= ChanCap
  BY DEF ReadNext, Typed, TypeOK
<1>8. Typed'
  BY <1>4, <1>5, <1>6, <1>7, TypedRoomStep DEF ReadNext
<1> QED
  BY <1>2, <1>4, <1>5, <1>6, <1>8, RoomReplaced DEF OnlyRoom, m

LEMMA SendToChanTyped ==
    ASSUME Typed, NEW o \in RoomNumbers, SendToChan(o)
    PROVE  /\ Typed' /\ OnlyRoom(o)
           /\ room'[o].queue = room[o].queue /\ room'[o].read = "next"
           /\ room'[o].arrived = room[o].arrived
           /\ msgChan \in Seq([room: RoomNumbers, num: 1..MaxTexts])
           /\ [room |-> o, num |-> room[o].held] \in [room: RoomNumbers, num: 1..MaxTexts]
<1> DEFINE x == [room[o] EXCEPT !.read = "next", !.held = Ignored]
           e == [room |-> o, num |-> room[o].held]
<1>1. room[o] \in RoomRecord /\ HeldOK(room[o], texts) /\ room[o].read = "send"
  BY TypedParts DEF SendToChan
<1>2. /\ x \in RoomRecord /\ x.id = room[o].id /\ x.topic = room[o].topic
      /\ x.queue = room[o].queue /\ x.arrived = room[o].arrived /\ x.read = "next"
  BY <1>1, IgnoredMessage DEF RoomRecord
<1>3. SetRoom(o, x)
  BY DEF SendToChan
<1> HIDE DEF x
<1>4. texts' \in 0..MaxTexts /\ texts <= texts' /\ HeldOK(x, texts')
  BY <1>1, <1>2, TypedParts DEF SendToChan, HeldOK
<1>5. e \in [room: RoomNumbers, num: 1..MaxTexts]
  BY <1>1, ChatAssumption DEF RoomRecord, HeldOK, Ignored, Messages
<1>6. msgChan \in Seq([room: RoomNumbers, num: 1..MaxTexts]) /\ ChanCap \in Nat
  BY ChatAssumption DEF Typed, TypeOK
<1>7. msgChan' = Append(msgChan, e) /\ Len(msgChan) < ChanCap
  BY DEF SendToChan
<1> HIDE DEF e
<1>8. msgChan' \in Seq([room: RoomNumbers, num: 1..MaxTexts]) /\ Len(msgChan') <= ChanCap
  BY <1>5, <1>6, <1>7
<1>9. Typed'
  BY <1>2, <1>3, <1>4, <1>8, TypedRoomStep DEF SendToChan
<1> QED
  BY <1>2, <1>3, <1>4, <1>5, <1>6, <1>9, RoomReplaced DEF OnlyRoom, e

LEMMA ReadEndTyped ==
    ASSUME Typed, NEW o \in RoomNumbers, ReadEnd(o)
    PROVE  /\ Typed' /\ OnlyRoom(o)
           /\ room'[o].read = "done" /\ room'[o].arrived = room[o].arrived
<1> DEFINE x == [room[o] EXCEPT !.read = "done", !.queue = <<>>, !.held = Ignored]
<1>1. room[o] \in RoomRecord /\ HeldOK(room[o], texts)
  BY TypedParts
<1>2. /\ x \in RoomRecord /\ x.id = room[o].id /\ x.topic = room[o].topic
      /\ x.arrived = room[o].arrived /\ x.read = "done"
  <2>1. <<>> \in Seq(Messages)
    OBVIOUS
  <2> QED
    BY <1>1, <2>1, IgnoredMessage DEF RoomRecord
<1>3. SetRoom(o, x)
  BY DEF ReadEnd
<1> HIDE DEF x
<1>4. texts' \in 0..MaxTexts /\ texts <= texts' /\ HeldOK(x, texts')
  BY <1>1, <1>2, TypedParts DEF ReadEnd, HeldOK
<1>5. msgChan' \in Seq([room: RoomNumbers, num: 1..MaxTexts]) /\ Len(msgChan') <= ChanCap
  BY DEF ReadEnd, Typed, TypeOK
<1>6. Typed'
  BY <1>2, <1>3, <1>4, <1>5, TypedRoomStep DEF ReadEnd
<1> QED
  BY <1>2, <1>3, <1>4, <1>6, RoomReplaced DEF OnlyRoom

LEMMA WatchTyped ==
    ASSUME Typed, NEW o \in RoomNumbers, Watch(o)
    PROVE  /\ Typed' /\ OnlyRoom(o)
           /\ SameReader(room[o], room'[o])
<1>1. PICK w \in {"loop", "done"} : SetRoom(o, [room[o] EXCEPT !.watch = w])
  BY DEF Watch, WatchStart, WatchEnd
<1> DEFINE x == [room[o] EXCEPT !.watch = w]
<1>2. room[o] \in RoomRecord /\ HeldOK(room[o], texts)
  BY TypedParts
<1>3. /\ x \in RoomRecord /\ x.id = room[o].id /\ x.topic = room[o].topic
      /\ x.queue = room[o].queue /\ x.arrived = room[o].arrived
      /\ x.read = room[o].read /\ x.held = room[o].held
  BY <1>2 DEF RoomRecord
<1>4. SetRoom(o, x)
  BY <1>1
<1> HIDE DEF x
<1>5. /\ UNCHANGED <<rooms, cancelled, closed, lock, call, panicked, received, published>>
      /\ UNCHANGED <<msgChan, texts>>
  BY DEF Watch, WatchStart, WatchEnd
<1>6. texts' \in 0..MaxTexts /\ texts <= texts' /\ HeldOK(x, texts')
  BY <1>2, <1>3, <1>5, TypedParts DEF HeldOK
<1>7. msgChan' \in Seq([room: RoomNumbers, num: 1..MaxTexts]) /\ Len(msgChan') <= ChanCap
  BY <1>5 DEF Typed, TypeOK
<1>8. Typed'
  BY <1>3, <1>4, <1>5, <1>6, <1>7, TypedRoomStep
<1> QED
  BY <1>3, <1>4, <1>6, <1>8, RoomReplaced DEF OnlyRoom, SameReader

LEMMA ArriveTyped ==
    ASSUME Typed, NEW o \in RoomNumbers, Arrive(o)
    PROVE  /\ Typed' /\ OnlyRoom(o)
           /\ room[o].queue \in Seq(Messages) /\ room[o].arrived \in Nat
           /\ room'[o].queue = Append(room[o].queue, room[o].arrived + 1)
           /\ room'[o].arrived = room[o].arrived + 1
           /\ room'[o].read = room[o].read /\ room'[o].held = room[o].held
           /\ room[o].read # "done"
<1> DEFINE b == Buffered(room[o], room[o].arrived + 1)
           x == [b EXCEPT !.arrived = @ + 1]
<1>1. room[o] \in RoomRecord /\ HeldOK(room[o], texts) /\ texts \in Nat /\ MaxTexts \in Nat
  BY TypedParts, ChatAssumption
<1>2. room[o].arrived \in Nat /\ room[o].queue \in Seq(Messages)
  BY <1>1 DEF RoomRecord
<1>3. room[o].arrived + 1 \in Messages /\ room[o].arrived + 1 \in 0..MaxTexts
  BY <1>1, <1>2 DEF Arrive, HeldOK, Messages
<1>4. /\ b \in RoomRecord /\ b.arrived = room[o].arrived /\ b.read = room[o].read
      /\ b.held = room[o].held /\ b.id = room[o].id /\ b.topic = room[o].topic
      /\ b.queue = Append(room[o].queue, room[o].arrived + 1)
  BY <1>1, <1>3, BufferedRecord DEF Arrive
<1>5. SetRoom(o, x)
  BY DEF Arrive
<1> HIDE DEF b
<1>6. /\ x \in RoomRecord /\ x.id = room[o].id /\ x.topic = room[o].topic
      /\ x.queue = Append(room[o].queue, room[o].arrived + 1) /\ x.read = room[o].read
      /\ x.arrived = room[o].arrived + 1 /\ x.held = room[o].held
  BY <1>3, <1>4 DEF RoomRecord
<1> HIDE DEF x
<1>7. texts' \in 0..MaxTexts /\ texts <= texts' /\ HeldOK(x, texts')
  BY <1>1, <1>2, <1>6 DEF Arrive, HeldOK
<1>8. msgChan' \in Seq([room: RoomNumbers, num: 1..MaxTexts]) /\ Len(msgChan') <= ChanCap
  BY DEF Arrive, Typed, TypeOK
<1>9. Typed'
  BY <1>5, <1>6, <1>7, <1>8, TypedRoomStep DEF Arrive
<1> QED
  BY <1>2, <1>5, <1>6, <1>7, <1>9, RoomReplaced DEF OnlyRoom, Arrive

LEMMA ReceiveTyped ==
    ASSUME Typed, Receive
    PROVE  /\ Typed'
           /\ msgChan \in Seq([room: RoomNumbers, num: 1..MaxTexts]) /\ msgChan # <<>>
           /\ Head(msgChan).room \in RoomNumbers
           /\ received'[Head(msgChan).room] = Append(received[Head(msgChan).room], Head(msgChan).num)
           /\ \A o \in RoomNumbers : received[o] \in Seq(1..MaxTexts)
                 /\ (o # Head(msgChan).room => received'[o] = received[o])
<1> DEFINE h == Head(msgChan)
<1>1. /\ msgChan \in Seq([room: RoomNumbers, num: 1..MaxTexts]) /\ msgChan # <<>>
      /\ Len(msgChan) <= ChanCap /\ ChanCap \in Nat
  BY ChatAssumption DEF Typed, TypeOK, Receive
<1>2. h \in [room: RoomNumbers, num: 1..MaxTexts]
  BY <1>1, HeadOfSeq
<1>3. /\ msgChan' \in Seq([room: RoomNumbers, num: 1..MaxTexts]) /\ Len(msgChan') <= ChanCap
  BY <1>1 DEF Receive
<1>4. /\ received \in Seq(Seq(1..MaxTexts)) /\ Len(received) = Len(room)
      /\ received' = [received EXCEPT ![h.room] = Append(@, h.num)]
  BY DEF Typed, TypeOK, Receive
<1>5. h.room \in 1..Len(received) /\ h.num \in 1..MaxTexts
  BY <1>2, <1>4 DEF RoomNumbers
<1> HIDE DEF h
<1>6. received[h.room] \in Seq(1..MaxTexts)
  BY <1>4, <1>5
<1>7. /\ received' \in Seq(Seq(1..MaxTexts)) /\ Len(received') = Len(room)
      /\ received'[h.room] = Append(received[h.room], h.num)
      /\ \A o \in 1..Len(received) : o # h.room => received'[o] = received[o]
  BY <1>4, <1>5, <1>6
<1>8. /\ room' \in Seq(RoomRecord) /\ Len(room') = Len(room)
      /\ texts' \in 0..MaxTexts /\ \A o \in RoomNumbers : HeldOK(room'[o], texts')
      /\ rooms' \in [RoomIds -> 0..Len(room)] /\ call' \in [Callers -> CallRecord]
      /\ \A c \in Callers : call'[c].stage \in AtRoom => call'[c].room \in RoomNumbers
      /\ \A c \in Callers : (lock' = c) <=> (call'[c].stage \in Locked)
      /\ cancelled' \in BOOLEAN /\ closed' \in BOOLEAN
      /\ published' \in [RoomIds -> Seq(Post)]
  BY TypedParts DEF Receive
<1>9. panicked' \in BOOLEAN
  BY DEF Typed, TypeOK, Receive
<1>10. Typed'
  BY <1>3, <1>7, <1>8, <1>9, TypedAfter
<1>11. RoomNumbers = 1..Len(received)
  BY <1>4 DEF RoomNumbers
<1>12. \A o \in RoomNumbers : /\ received[o] \in Seq(1..MaxTexts)
                              /\ (o # h.room => received'[o] = received[o])
  BY <1>4, <1>7, <1>11
<1> QED
  BY <1>1, <1>5, <1>7, <1>10, <1>11, <1>12 DEF h
-----------------------------------------------------------------------------
(* Sessions. *)
LEMMA PostTyped ==
    ASSUME Typed, NEW r \in RoomIds, NEW i \in 1..Len(published[r])
    PROVE  /\ published[r] \in Seq(Post) /\ published[r][i] \in Post
           /\ published[r][i].room \in RoomNumbers
<1>1. published[r] \in Seq(Post)
  BY TypedParts
<1>2. published[r][i] \in Post
  BY <1>1
<1> QED
  BY <1>1, <1>2 DEF Post

(* Nobody is in the middle of a JoinRoom while the lock is free. *)
LEMMA FreeNotJoined ==
    ASSUME Typed, lock = NoCaller, NEW c \in Callers
    PROVE  call[c].stage # "joined"
BY TypedParts, ChatAssumption DEF Locked

(* Nothing is published and no Room is made: topics may be closed, though  *)
(* not that of a Room being joined, and a SendMessage may get hold of a    *)
(* Room while the lock is free.                                            *)
LEMMA SessionsKept ==
    ASSUME Typed, Sessions, Len(room') = Len(room), published' = published,
           \A o \in RoomNumbers : /\ room'[o].id = room[o].id
                                  /\ room'[o].topic = room[o].topic
                                      \/ room'[o].topic = "closed",
           \A c \in Callers : call[c].stage = "joined" =>
                                \A o \in RoomNumbers : room'[o].topic = room[o].topic,
           \A c \in Callers : /\ call'[c].stage = "joined" <=> call[c].stage = "joined"
                              /\ call[c].stage = "joined" => call'[c].room = call[c].room,
           \A c \in Callers : call'[c].stage = "send" =>
                \/ call[c].stage = "send" /\ call'[c].room = call[c].room
                \/ lock = NoCaller
    PROVE  Sessions'
<1>1. RoomNumbers' = RoomNumbers
  BY DEF RoomNumbers
<1>2. FiledById'
  <2>1. \A r \in RoomIds : \A i \in 1..Len(published[r]) : room'[published[r][i].room].id = r
    BY PostTyped DEF Sessions, FiledById
  <2> QED
    BY <2>1 DEF FiledById
<1>3. OpenIsLast'
  <2>1. \A o, p \in RoomNumbers : room'[o].topic = "open" /\ room'[p].id = room'[o].id => p <= o
    BY DEF Sessions, OpenIsLast
  <2> QED
    BY <1>1, <2>1 DEF OpenIsLast
<1>4. \A c \in Callers : call[c].stage = "joined" => call[c].room \in RoomNumbers
  BY TypedParts DEF AtRoom
<1>5. JoinFirst'
  <2>1. ASSUME NEW c \in Callers, call'[c].stage = "joined"
        PROVE  /\ room'[call'[c].room].topic = "open"
               /\ ~From(call'[c].room, published'[room'[call'[c].room].id])
               /\ \A d \in Callers : call'[d].stage = "send" => call'[d].room # call'[c].room
    <3>1. call[c].stage = "joined" /\ call'[c].room = call[c].room /\ call[c].room \in RoomNumbers
      BY <1>4, <2>1
    <3>2. /\ room[call[c].room].topic = "open" /\ ~From(call[c].room, published[room[call[c].room].id])
          /\ \A d \in Callers : call[d].stage = "send" => call[d].room # call[c].room
      BY <3>1 DEF Sessions, JoinFirst, At, Posted
    <3>3. lock # NoCaller
      BY <3>1, FreeNotJoined
    <3>4. room'[call[c].room].topic = "open" /\ room'[call[c].room].id = room[call[c].room].id
      BY <3>1, <3>2
    <3> QED
      BY <3>1, <3>2, <3>3, <3>4
  <2>2. ASSUME NEW o \in RoomNumbers, room'[o].topic = "open"
        PROVE  \/ From(o, published'[room'[o].id])
               \/ \E c \in Callers : call'[c].stage = "joined" /\ call'[c].room = o
    <3>1. room[o].topic = "open"
      BY <2>2
    <3>2. From(o, published[room[o].id]) \/ \E c \in Callers : call[c].stage = "joined" /\ call[c].room = o
      BY <3>1 DEF Sessions, JoinFirst, At, Posted
    <3> QED
      BY <3>2
  <2> QED
    BY <1>1, <2>1, <2>2 DEF JoinFirst, At, Posted
<1>6. SessionOrder'
  BY DEF Sessions, SessionOrder
<1> QED
  BY <1>2, <1>3, <1>5, <1>6 DEF Sessions

(* A new Room is the last of its ID, and nothing was published from it. *)
LEMMA JoinRoomSessions ==
    ASSUME Typed, Sessions, NEW c \in Callers, NEW r \in RoomIds, JoinRoom(c, r)
    PROVE  Sessions'
<1> SUFFICES ASSUME NEW n, n = Len(room) + 1
             PROVE  Sessions'
  OBVIOUS
<1>1. /\ Len(room') = n /\ room'[n] = NewRoom(r)
      /\ \A o \in RoomNumbers : room'[o] = room[o]
      /\ call'[c].stage = "joined" /\ call'[c].room = n
      /\ \A d \in Callers : d # c => call'[d] = call[d]
  BY JoinRoomTyped
<1>2. /\ Len(room) \in Nat /\ RoomNumbers' = RoomNumbers \cup {n} /\ n \notin RoomNumbers
      /\ n \in Nat /\ \A o \in RoomNumbers : o \in Nat /\ o < n
  BY <1>1, TypedParts DEF RoomNumbers
<1>3. /\ NewRoom(r).id = r /\ NewRoom(r).topic = "open" /\ published' = published
      /\ lock = NoCaller /\ ~TopicJoined(r) /\ call[c].stage = "idle"
  BY DEF NewRoom, JoinRoom, At
<1>4. FiledById'
  <2>1. \A q \in RoomIds : \A i \in 1..Len(published[q]) : room'[published[q][i].room].id = q
    BY <1>1, PostTyped DEF Sessions, FiledById
  <2> QED
    BY <1>3, <2>1 DEF FiledById
<1>5. OpenIsLast'
  <2>1. ASSUME NEW o \in RoomNumbers', NEW p \in RoomNumbers',
               room'[o].topic = "open", room'[p].id = room'[o].id
        PROVE  p <= o
    <3>1. CASE o = n
      BY <1>2, <3>1
    <3>2. CASE o # n /\ p = n
      BY <1>1, <1>2, <1>3, <2>1, <3>2 DEF TopicJoined
    <3>3. CASE o # n /\ p # n
      BY <1>1, <1>2, <2>1, <3>3 DEF Sessions, OpenIsLast
    <3> QED
      BY <3>1, <3>2, <3>3
  <2> QED
    BY <2>1 DEF OpenIsLast
<1>6. ~From(n, published[r])
  BY <1>2, PostTyped DEF From
<1>7. \A d \in Callers : /\ call[d].stage # "joined"
                         /\ call[d].stage = "send" => call[d].room \in RoomNumbers
  BY <1>3, FreeNotJoined, TypedParts DEF AtRoom
<1>8. JoinFirst'
  <2>1. ASSUME NEW d \in Callers, call'[d].stage = "joined"
        PROVE  /\ room'[call'[d].room].topic = "open"
               /\ ~From(call'[d].room, published'[room'[call'[d].room].id])
               /\ \A e \in Callers : call'[e].stage = "send" => call'[e].room # call'[d].room
    <3>1. d = c
      BY <1>1, <1>7, <2>1
    <3>2. \A e \in Callers : call'[e].stage = "send" => call'[e].room # n
      BY <1>1, <1>2, <1>7
    <3> QED
      BY <1>1, <1>3, <1>6, <3>1, <3>2
  <2>2. ASSUME NEW o \in RoomNumbers', room'[o].topic = "open"
        PROVE  \/ From(o, published'[room'[o].id])
               \/ \E d \in Callers : call'[d].stage = "joined" /\ call'[d].room = o
    <3>1. CASE o = n
      BY <1>1, <3>1
    <3>2. CASE o # n
      <4>1. o \in RoomNumbers /\ room[o].topic = "open" /\ room'[o] = room[o]
        BY <1>1, <1>2, <2>2, <3>2
      <4>2. From(o, published[room[o].id])
        BY <1>7, <4>1 DEF Sessions, JoinFirst, At, Posted
      <4> QED
        BY <1>3, <4>1, <4>2
    <3> QED
      BY <3>1, <3>2
  <2> QED
    BY <2>1, <2>2 DEF JoinFirst, At, Posted
<1>9. SessionOrder'
  BY <1>3 DEF Sessions, SessionOrder
<1> QED
  BY <1>4, <1>5, <1>8, <1>9 DEF Sessions

(* A message is published: the join message by the JoinRoom of the Room,   *)
(* which ends, and any other while no JoinRoom of it is under way.         *)
LEMMA PublishSessions ==
    ASSUME Typed, Sessions, NEW o \in RoomNumbers, NEW type \in {"join", "text", "leave"},
           Publish(o, type), texts' = texts,
           (type = "join") <=> \E c \in Callers : call[c].stage = "joined" /\ call[c].room = o,
           \A c \in Callers : /\ call'[c].stage = "joined" <=>
                                   (call[c].stage = "joined" /\ call[c].room # o)
                              /\ call'[c].stage = "joined" => call'[c].room = call[c].room,
           \A c \in Callers : call'[c].stage = "send" =>
                                 call[c].stage = "send" /\ call'[c].room = call[c].room
    PROVE  Sessions'
<1>1. /\ Len(room') = Len(room)
      /\ \A p \in RoomNumbers : room'[p].id = room[p].id /\ room'[p].topic = room[p].topic
  BY PublishEffect DEF Echoed, SameReader
<1>2. RoomNumbers' = RoomNumbers /\ Len(room) \in Nat
  BY <1>1, TypedParts DEF RoomNumbers
<1>3. room[o].topic = "open" \/ type # "join"
  BY DEF Sessions, JoinFirst, At
<1>4. CASE room[o].topic # "open"
  <2>1. published' = published
    BY <1>4 DEF Publish
  <2>2. \A c \in Callers : call[c].stage = "joined" => call[c].room # o
    BY <1>3, <1>4
  <2>3. \A c \in Callers : /\ call'[c].stage = "joined" <=> call[c].stage = "joined"
                           /\ call[c].stage = "joined" => call'[c].room = call[c].room
    BY <2>2
  <2>4. \A p \in RoomNumbers : /\ room'[p].id = room[p].id
                               /\ room'[p].topic = room[p].topic
                                    \/ room'[p].topic = "closed"
    BY <1>1
  <2>5. \A c \in Callers : call[c].stage = "joined" =>
                             \A p \in RoomNumbers : room'[p].topic = room[p].topic
    BY <1>1
  <2>6. \A c \in Callers : call'[c].stage = "send" =>
           \/ call[c].stage = "send" /\ call'[c].room = call[c].room
           \/ lock = NoCaller
    OBVIOUS
  <2> QED
    BY <1>1, <2>1, <2>3, <2>4, <2>5, <2>6, SessionsKept
<1>5. CASE room[o].topic = "open"
  <2> SUFFICES ASSUME NEW r \in RoomIds, r = room[o].id,
                      NEW m \in Post, m = [room |-> o, type |-> type],
                      NEW old \in Seq(Post), old = published[r],
                      NEW new \in Seq(Post), new = Append(old, m)
               PROVE  Sessions'
    <3>1. room[o].id \in RoomIds /\ [room |-> o, type |-> type] \in Post
      BY TypedParts DEF RoomRecord, Post
    <3>2. published[room[o].id] \in Seq(Post)
      BY <3>1, TypedParts
    <3>3. Append(published[room[o].id], [room |-> o, type |-> type]) \in Seq(Post)
      BY <3>1, <3>2
    <3> QED
      BY <3>1, <3>2, <3>3
  <2>1. /\ published'[r] = new
        /\ \A q \in RoomIds : q # r => published'[q] = published[q]
    BY <1>5, TypedParts DEF Publish
  <2>2. /\ Len(new) = Len(old) + 1 /\ new[Len(old) + 1] = m /\ Len(old) \in Nat
        /\ \A i \in 1..Len(old) : new[i] = old[i]
        /\ m.room = o /\ m.type = type
    OBVIOUS
  <2>3. \A i \in 1..Len(old) : old[i].room \in RoomNumbers /\ room[old[i].room].id = r
    BY PostTyped DEF Sessions, FiledById
  <2>4. (type = "join") <=> ~From(o, old)
    BY <1>5 DEF Sessions, JoinFirst, At, Posted
  <2>5. FiledById'
    <3>1. \A q \in RoomIds : \A i \in 1..Len(published'[q]) : room'[published'[q][i].room].id = q
      <4> SUFFICES ASSUME NEW q \in RoomIds, NEW i \in 1..Len(published'[q])
                   PROVE  room'[published'[q][i].room].id = q
        OBVIOUS
      <4>1. CASE q # r
        BY <1>1, <2>1, <4>1, PostTyped DEF Sessions, FiledById
      <4>2. CASE q = r /\ i = Len(old) + 1
        BY <1>1, <2>1, <2>2, <4>2
      <4>3. CASE q = r /\ i # Len(old) + 1
        <5>1. i \in 1..Len(old) /\ published'[q][i] = old[i]
          <6>1. published'[q] = new /\ i \in 1..Len(new)
            BY <2>1, <4>3
          <6> QED
            BY <2>2, <4>3, <6>1
        <5> QED
          BY <1>1, <2>3, <4>3, <5>1
      <4> QED
        BY <4>1, <4>2, <4>3
    <3> QED
      BY <3>1 DEF FiledById
  <2>6. OpenIsLast'
    <3>1. \A n, p \in RoomNumbers : room'[n].topic = "open" /\ room'[p].id = room'[n].id => p <= n
      BY <1>1 DEF Sessions, OpenIsLast
    <3> QED
      BY <1>2, <3>1 DEF OpenIsLast
  <2>7. \A p \in RoomNumbers : p # o =>
           (From(p, published'[room'[p].id]) <=> From(p, published[room[p].id]))
    <3> SUFFICES ASSUME NEW p \in RoomNumbers, p # o
                 PROVE  From(p, published'[room'[p].id]) <=> From(p, published[room[p].id])
      OBVIOUS
    <3>1. CASE room[p].id # r
      <4>1. room[p].id \in RoomIds /\ room'[p].id = room[p].id
        BY <1>1, TypedParts DEF RoomRecord
      <4> QED
        BY <2>1, <3>1, <4>1
    <3>2. CASE room[p].id = r
      <4>1. published'[room'[p].id] = new /\ published[room[p].id] = old
        BY <1>1, <2>1, <3>2
      <4>2. From(p, new) <=> From(p, old)
        BY <2>2 DEF From
      <4> QED
        BY <4>1, <4>2
    <3> QED
      BY <3>1, <3>2
  <2>8. From(o, published'[room'[o].id])
    <3>1. From(o, new)
      BY <2>2 DEF From
    <3> QED
      BY <1>1, <2>1, <3>1
  <2>9. JoinFirst'
    <3>1. ASSUME NEW c \in Callers, call'[c].stage = "joined"
          PROVE  /\ room'[call'[c].room].topic = "open"
                 /\ ~From(call'[c].room, published'[room'[call'[c].room].id])
                 /\ \A d \in Callers : call'[d].stage = "send" => call'[d].room # call'[c].room
      <4>1. /\ call[c].stage = "joined" /\ call[c].room # o /\ call'[c].room = call[c].room
            /\ call[c].room \in RoomNumbers
        BY <3>1, TypedParts DEF AtRoom
      <4>2. /\ room[call[c].room].topic = "open" /\ ~From(call[c].room, published[room[call[c].room].id])
            /\ \A d \in Callers : call[d].stage = "send" => call[d].room # call[c].room
        BY <4>1 DEF Sessions, JoinFirst, At, Posted
      <4>3. /\ room'[call[c].room].topic = "open"
            /\ ~From(call[c].room, published'[room'[call[c].room].id])
        BY <1>1, <2>7, <4>1, <4>2
      <4> QED
        BY <4>1, <4>2, <4>3
    <3>2. ASSUME NEW p \in RoomNumbers, room'[p].topic = "open"
          PROVE  \/ From(p, published'[room'[p].id])
                 \/ \E c \in Callers : call'[c].stage = "joined" /\ call'[c].room = p
      <4>1. CASE p = o
        BY <2>8, <4>1
      <4>2. CASE p # o
        <5>1. \/ From(p, published[room[p].id])
              \/ \E c \in Callers : call[c].stage = "joined" /\ call[c].room = p
          BY <1>1, <3>2 DEF Sessions, JoinFirst, At, Posted
        <5> QED
          BY <2>7, <4>2, <5>1
      <4> QED
        BY <4>1, <4>2
    <3> QED
      BY <1>2, <3>1, <3>2 DEF JoinFirst, At, Posted
  <2>10. SessionOrder'
    <3>1. ASSUME NEW i \in 1..Len(new)
          PROVE  /\ \A j \in 1..i : new[j].room <= new[i].room
                 /\ (new[i].type = "join") <=> \A j \in 1..i - 1 : new[j].room # new[i].room
      <4>1. CASE i \in 1..Len(old)
        <5>1. /\ \A j \in 1..i : old[j].room <= old[i].room
              /\ (old[i].type = "join") <=> \A j \in 1..i - 1 : old[j].room # old[i].room
          BY <4>1 DEF Sessions, SessionOrder
        <5>2. \A j \in 1..i : j \in 1..Len(old) /\ new[j] = old[j]
          BY <2>2, <4>1
        <5>3. \A j \in 1..i - 1 : j \in 1..i
          BY <2>2, <4>1
        <5>4. new[i] = old[i]
          BY <2>2, <4>1
        <5> QED
          BY <5>1, <5>2, <5>3, <5>4
      <4>2. CASE i = Len(old) + 1
        <5>1. \A j \in 1..Len(old) : old[j].room <= o
          BY <1>5, <2>3 DEF Sessions, OpenIsLast
        <5>2. \A j \in 1..i : j \in 1..Len(old) \/ j = i
          BY <2>2, <4>2
        <5>3. 1..i - 1 = 1..Len(old)
          BY <2>2, <4>2
        <5>4. o <= o
          BY <1>2 DEF RoomNumbers
        <5>5. new[i].room = o /\ new[i].type = type
          BY <2>2, <4>2
        <5>6. \A j \in 1..i : new[j].room <= new[i].room
          BY <2>2, <5>1, <5>2, <5>4, <5>5
        <5>7. From(o, old) <=> \E j \in 1..i - 1 : new[j].room = o
          BY <2>2, <5>3 DEF From
        <5> QED
          BY <2>4, <5>5, <5>6, <5>7
      <4> QED
        BY <2>2, <4>1, <4>2
    <3>2. ASSUME NEW q \in RoomIds, q # r, NEW i \in 1..Len(published[q])
          PROVE  /\ \A j \in 1..i : published[q][j].room <= published[q][i].room
                 /\ (published[q][i].type = "join") <=>
                      \A j \in 1..i - 1 : published[q][j].room # published[q][i].room
      BY DEF Sessions, SessionOrder
    <3>3. ASSUME NEW q \in RoomIds, NEW i \in 1..Len(published'[q])
          PROVE  /\ \A j \in 1..i : published'[q][j].room <= published'[q][i].room
                 /\ (published'[q][i].type = "join") <=>
                      \A j \in 1..i - 1 : published'[q][j].room # published'[q][i].room
      <4>1. CASE q = r
        <5>1. published'[q] = new /\ i \in 1..Len(new)
          BY <2>1, <4>1
        <5> QED
          BY <3>1, <5>1
      <4>2. CASE q # r
        <5>1. published'[q] = published[q] /\ i \in 1..Len(published[q])
          BY <2>1, <4>2
        <5> QED
          BY <3>2, <4>2, <5>1
      <4> QED
        BY <4>1, <4>2
    <3> QED
      BY <3>3 DEF SessionOrder
  <2> QED
    BY <2>5, <2>6, <2>9, <2>10 DEF Sessions
<1> QED
  BY <1>4, <1>5

(* What Goto does to the calls. *)
LEMMA GotoEffect ==
    ASSUME Typed, NEW c \in Callers, NEW s, Goto(c, s)
    PROVE  call'[c] = s /\ \A d \in Callers : d # c => call'[d] = call[d]
BY TypedParts DEF Goto

(* Only one call is under the lock. *)
LEMMA OneLocked ==
    ASSUME Typed, NEW c \in Callers, call[c].stage \in Locked, NEW d \in Callers, d # c
    PROVE  call[d].stage \notin Locked
BY TypedParts

LEMMA PublishJoinSessions ==
    ASSUME Typed, Sessions, NEW c \in Callers, PublishJoin(c)
    PROVE  Sessions'
<1>1. call[c].room \in RoomNumbers /\ call[c].stage = "joined"
  BY TypedParts DEF PublishJoin, At, AtRoom
<1>2. \A d \in Callers : d # c => call[d].stage # "joined"
  BY <1>1, OneLocked DEF Locked
<1>3. call'[c] = Idle /\ \A d \in Callers : d # c => call'[d] = call[d]
  BY GotoEffect DEF PublishJoin
<1>4. \A d \in Callers : call'[d].stage # "joined"
  BY <1>2, <1>3, CallTyped
<1>5. \A d \in Callers : call'[d].stage = "send" =>
                           call[d].stage = "send" /\ call'[d].room = call[d].room
  BY <1>3, CallTyped
<1>6. Publish(call[c].room, "join") /\ texts' = texts
  BY DEF PublishJoin
<1> QED
  BY <1>1, <1>2, <1>4, <1>5, <1>6, PublishSessions

LEMMA PublishTextSessions ==
    ASSUME Typed, Sessions, NEW c \in Callers, PublishText(c)
    PROVE  Sessions'
<1>1. call[c].room \in RoomNumbers /\ call[c].stage = "send"
  BY TypedParts DEF PublishText, At, AtRoom
<1>2. \A d \in Callers : call[d].stage = "joined" => call[d].room # call[c].room
  BY <1>1 DEF Sessions, JoinFirst, At
<1>3. call'[c] = Idle /\ \A d \in Callers : d # c => call'[d] = call[d]
  BY GotoEffect DEF PublishText
<1>4. \A d \in Callers : /\ call'[d].stage = "joined" <=> call[d].stage = "joined"
                         /\ call'[d].stage = "joined" => call'[d].room = call[d].room
                         /\ call'[d].stage = "send" =>
                              call[d].stage = "send" /\ call'[d].room = call[d].room
  BY <1>1, <1>3, CallTyped
<1>5. Publish(call[c].room, "text") /\ texts' = texts
  BY DEF PublishText
<1> QED
  BY <1>1, <1>2, <1>4, <1>5, PublishSessions

LEMMA LeaveRoomSessions ==
    ASSUME Typed, Sessions, NEW c \in Callers, NEW r \in RoomIds, LeaveRoom(c, r)
    PROVE  Sessions'
<1>1. rooms[r] \in RoomNumbers
  BY TypedParts DEF LeaveRoom, RoomNumbers
<1>2. \A d \in Callers : call[d].stage # "joined"
  BY FreeNotJoined DEF LeaveRoom
<1>3. call'[c].stage = "cancel" /\ \A d \in Callers : d # c => call'[d] = call[d]
  <2>1. /\ call'[c] = [Idle EXCEPT !.stage = "cancel", !.room = rooms[r], !.by = "leave"]
        /\ \A d \in Callers : d # c => call'[d] = call[d]
    BY GotoEffect DEF LeaveRoom
  <2>2. Idle \in CallRecord
    BY CallTyped
  <2> QED
    BY <2>1, <2>2 DEF CallRecord
<1>4. \A d \in Callers : /\ call'[d].stage # "joined"
                         /\ call'[d].stage = "send" =>
                              call[d].stage = "send" /\ call'[d].room = call[d].room
  BY <1>2, <1>3
<1>5. Publish(rooms[r], "leave") /\ texts' = texts
  BY DEF LeaveRoom
<1> QED
  BY <1>1, <1>2, <1>4, <1>5, PublishSessions

(* Steps of a call that neither begin nor end a JoinRoom nor get hold of a Room. *)
LEMMA SessionsCallStep ==
    ASSUME Typed, Sessions, NEW c \in Callers, NEW s, Goto(c, s),
           call[c].stage # "joined", s.stage \notin {"joined", "send"},
           Len(room') = Len(room), published' = published,
           \A o \in RoomNumbers : room'[o].id = room[o].id /\ room'[o].topic = room[o].topic
    PROVE  Sessions'
<1>1. call'[c] = s /\ \A d \in Callers : d # c => call'[d] = call[d]
  BY GotoEffect
<1>2. \A d \in Callers : /\ call'[d].stage = "joined" <=> call[d].stage = "joined"
                         /\ call[d].stage = "joined" => call'[d].room = call[d].room
  BY <1>1
<1>3. \A d \in Callers : call'[d].stage = "send" =>
         \/ call[d].stage = "send" /\ call'[d].room = call[d].room
         \/ lock = NoCaller
  BY <1>1
<1> QED
  BY <1>2, <1>3, SessionsKept

LEMMA SendMessageSessions ==
    ASSUME Typed, Sessions, NEW c \in Callers, NEW r \in RoomIds, SendMessage(c, r)
    PROVE  Sessions'
<1>1. call'[c].stage = "send" /\ \A d \in Callers : d # c => call'[d] = call[d]
  <2>1. /\ call'[c] = [Idle EXCEPT !.stage = "send", !.room = rooms[r]]
        /\ \A d \in Callers : d # c => call'[d] = call[d]
    BY GotoEffect DEF SendMessage
  <2>2. Idle \in CallRecord
    BY CallTyped
  <2> QED
    BY <2>1, <2>2 DEF CallRecord
<1>2. call[c].stage = "idle" /\ lock = NoCaller /\ room' = room /\ published' = published
  BY DEF SendMessage, At
<1>3. \A d \in Callers : /\ call'[d].stage = "joined" <=> call[d].stage = "joined"
                         /\ call[d].stage = "joined" => call'[d].room = call[d].room
  BY <1>1, <1>2
<1> QED
  BY <1>2, <1>3, SessionsKept

LEMMA CloseCallsSessions ==
    ASSUME Typed, Sessions, NEW c \in Callers, Close(c) \/ CloseRooms(c) \/ CloseNext(c) \/ CancelRoom(c)
    PROVE  Sessions'
<1>1. /\ call[c] \in CallRecord /\ Idle \in CallRecord /\ Idle.stage = "idle"
  BY CallTyped
<1>2. published' = published
  BY DEF Close, CloseRooms, CloseNext, CancelRoom
<1>3. Len(room') = Len(room) /\ \A o \in RoomNumbers : room'[o].id = room[o].id /\ room'[o].topic = room[o].topic
  <2>1. CASE CancelRoom(c)
    BY <2>1, CancelRoomTyped DEF Echoed, SameReader
  <2>2. CASE Close(c) \/ CloseRooms(c) \/ CloseNext(c)
    BY <2>2 DEF Close, CloseRooms, CloseNext
  <2> QED
    BY <2>1, <2>2
<1>4. call[c].stage \in {"idle", "close", "rooms", "cancel"}
  BY DEF Close, CloseRooms, CloseNext, CancelRoom, At
<1>5. \E s : Goto(c, s) /\ s.stage \in {"close", "rooms", "cancel", "topic", "idle"}
  <2>1. CASE Close(c)
    <3>1. Goto(c, [Idle EXCEPT !.stage = "close"])
      BY <2>1 DEF Close
    <3>2. [Idle EXCEPT !.stage = "close"].stage = "close"
      BY <1>1 DEF CallRecord
    <3> QED
      BY <3>1, <3>2
  <2>2. CASE CloseRooms(c)
    <3>1. Goto(c, [Idle EXCEPT !.stage = "rooms", !.todo = Range(rooms) \ {0}])
      BY <2>2 DEF CloseRooms
    <3>2. [Idle EXCEPT !.stage = "rooms", !.todo = Range(rooms) \ {0}].stage = "rooms"
      BY <1>1 DEF CallRecord
    <3> QED
      BY <3>1, <3>2
  <2>3. CASE CloseNext(c)
    <3>1. ASSUME NEW o \in call[c].todo,
                 Goto(c, [call[c] EXCEPT !.stage = "cancel", !.room = o, !.by = "close",
                                         !.todo = @ \ {o}])
          PROVE  \E s : Goto(c, s) /\ s.stage \in {"close", "rooms", "cancel", "topic", "idle"}
      <4>1. [call[c] EXCEPT !.stage = "cancel", !.room = o, !.by = "close",
                            !.todo = @ \ {o}].stage = "cancel"
        BY <1>1 DEF CallRecord
      <4> QED
        BY <3>1, <4>1
    <3>2. CASE Goto(c, Idle)
      BY <1>1, <3>2
    <3> QED
      BY <2>3, <3>1, <3>2 DEF CloseNext
  <2>4. CASE CancelRoom(c)
    <3>1. Goto(c, [call[c] EXCEPT !.stage = "topic"])
      BY <2>4 DEF CancelRoom
    <3>2. [call[c] EXCEPT !.stage = "topic"].stage = "topic"
      BY <1>1 DEF CallRecord
    <3> QED
      BY <3>1, <3>2
  <2> QED
    BY <2>1, <2>2, <2>3, <2>4
<1> QED
  BY <1>2, <1>3, <1>4, <1>5, SessionsCallStep

(* The topic is closed under the lock, so no JoinRoom is under way. *)
LEMMA CloseTopicSessions ==
    ASSUME Typed, Sessions, NEW c \in Callers, CloseTopic(c)
    PROVE  Sessions'
<1>1. call[c].stage = "topic"
  BY DEF CloseTopic, At
<1>2. \A d \in Callers : call[d].stage # "joined"
  BY <1>1, OneLocked DEF Locked
<1>3. /\ call'[c].stage \in {"idle", "rooms"}
      /\ \A d \in Callers : d # c => call'[d] = call[d]
  <2>1. call[c] \in CallRecord /\ Idle.stage = "idle"
    BY CallTyped
  <2>2. [call[c] EXCEPT !.stage = "rooms"].stage = "rooms"
    BY <2>1 DEF CallRecord
  <2>3. CASE Goto(c, Idle)
    BY <2>1, <2>3, GotoEffect
  <2>4. CASE Goto(c, [call[c] EXCEPT !.stage = "rooms"])
    BY <2>2, <2>4, GotoEffect
  <2> QED
    BY <2>3, <2>4 DEF CloseTopic
<1>4. published' = published
  BY DEF CloseTopic
<1>5. /\ Len(room') = Len(room)
      /\ \A o \in RoomNumbers : /\ room'[o].id = room[o].id
                                /\ room'[o].topic = room[o].topic \/ room'[o].topic = "closed"
  BY CloseTopicTyped
<1>6. \A d \in Callers : call'[d].stage # "joined"
  BY <1>2, <1>3
<1>7. \A d \in Callers : call'[d].stage = "send" =>
         \/ call[d].stage = "send" /\ call'[d].room = call[d].room
         \/ lock = NoCaller
  BY <1>3
<1> QED
  BY <1>2, <1>4, <1>5, <1>6, <1>7, SessionsKept

LEMMA SessionsRoomStep ==
    ASSUME Typed, Sessions, NEW o \in RoomNumbers, OnlyRoom(o), published' = published, call' = call
    PROVE  Sessions'
<1>1. \A p \in RoomNumbers : room'[p].id = room[p].id /\ room'[p].topic = room[p].topic
  BY DEF OnlyRoom
<1> QED
  BY <1>1, SessionsKept DEF OnlyRoom
-----------------------------------------------------------------------------
(* Numbers in order: what appending and taking the first element do. *)
LEMMA CountsUpOther ==
    ASSUME NEW s \in Seq(Nat), NEW P \in SUBSET (1..Len(s)), NEW a, NEW b, NEW v \in Nat,
           CountsUp(s, P, a, b)
    PROVE  CountsUp(Append(s, v), P, a, b)
<1>1. \A i \in P : Append(s, v)[i] = s[i]
  OBVIOUS
<1>2. {Append(s, v)[i] : i \in P} = {s[i] : i \in P}
  BY <1>1
<1> QED
  BY <1>1, <1>2 DEF CountsUp

LEMMA CountsUpNext ==
    ASSUME NEW s \in Seq(Nat), NEW P \in SUBSET (1..Len(s)),
           NEW a \in Nat, NEW b \in Nat, a <= b + 1,
           CountsUp(s, P, a, b)
    PROVE  CountsUp(Append(s, b + 1), P \cup {Len(s) + 1}, a, b + 1)
<1> DEFINE t == Append(s, b + 1)
           Q == P \cup {Len(s) + 1}
<1>1. /\ \A i \in P : t[i] = s[i] /\ i \in Nat /\ i < Len(s) + 1
      /\ t[Len(s) + 1] = b + 1 /\ Len(s) \in Nat
  OBVIOUS
<1>2. \A i \in P : s[i] \in a..b
  BY DEF CountsUp
<1> HIDE DEF t
<1>3. {t[i] : i \in Q} = a..(b + 1)
  <2>1. \A i \in Q : t[i] \in a..(b + 1)
    BY <1>1, <1>2
  <2>2. ASSUME NEW n \in a..(b + 1)
        PROVE  \E i \in Q : t[i] = n
    <3>1. CASE n = b + 1
      BY <1>1, <3>1
    <3>2. CASE n # b + 1
      <4>1. n \in a..b
        BY <3>2
      <4>2. n \in {s[i] : i \in P}
        BY <4>1 DEF CountsUp
      <4> QED
        BY <1>1, <4>2
    <3> QED
      BY <3>1, <3>2
  <2> QED
    BY <2>1, <2>2
<1>4. ASSUME NEW i \in Q, NEW j \in Q, i < j
      PROVE  t[i] < t[j]
  <2>1. i \in P
    BY <1>1, <1>4
  <2>2. CASE j \in P
    BY <1>1, <1>4, <2>1, <2>2 DEF CountsUp
  <2>3. CASE j = Len(s) + 1
    BY <1>1, <1>2, <2>1, <2>3
  <2> QED
    BY <2>2, <2>3
<1> QED
  BY <1>3, <1>4 DEF CountsUp, t

LEMMA CountsUpTail ==
    ASSUME NEW s \in Seq(Nat), s # <<>>, NEW P \in SUBSET (1..Len(s)),
           NEW Q, \A i \in Nat : i \in Q <=> i >= 1 /\ i + 1 \in P, Q \subseteq Nat,
           NEW a \in Nat, NEW b \in Nat, CountsUp(s, P, a, b)
    PROVE  /\ 1 \notin P => CountsUp(Tail(s), Q, a, b)
           /\ 1 \in P => /\ s[1] = a /\ a <= b
                         /\ CountsUp(Tail(s), Q, a + 1, b)
<1>1. \A i \in P : s[i] \in a..b /\ i \in Nat /\ i >= 1
  BY DEF CountsUp
<1>2. \A n \in a..b : \E i \in P : s[i] = n
  BY DEF CountsUp
<1>3. \A i \in Q : i + 1 \in P /\ Tail(s)[i] = s[i + 1] /\ i \in Nat /\ i >= 1
  OBVIOUS
<1>4. \A i \in P : i # 1 => i - 1 \in Q /\ Tail(s)[i - 1] = s[i]
  BY <1>1, <1>3
<1>5. \A i, j \in Q : i < j => Tail(s)[i] < Tail(s)[j]
  <2> SUFFICES ASSUME NEW i \in Q, NEW j \in Q, i < j
               PROVE  Tail(s)[i] < Tail(s)[j]
    OBVIOUS
  <2>1. i + 1 \in P /\ j + 1 \in P /\ i + 1 < j + 1
    BY <1>3
  <2> QED
    BY <1>3, <2>1 DEF CountsUp
<1>6. ASSUME 1 \notin P
      PROVE  CountsUp(Tail(s), Q, a, b)
  <2>1. \A i \in Q : Tail(s)[i] \in a..b
    BY <1>1, <1>3
  <2>2. \A n \in a..b : \E i \in Q : Tail(s)[i] = n
    BY <1>2, <1>4, <1>6
  <2>3. {Tail(s)[i] : i \in Q} = a..b
    BY <2>1, <2>2
  <2> QED
    BY <1>5, <2>3 DEF CountsUp
<1>7. ASSUME 1 \in P
      PROVE  s[1] = a /\ a <= b /\ CountsUp(Tail(s), Q, a + 1, b)
  <2>1. s[1] \in a..b /\ a <= b /\ a \in a..b
    BY <1>1, <1>7
  <2>2. PICK k \in P : s[k] = a
    BY <1>2, <2>1
  <2>3. s[1] = a
    <3>1. k = 1 \/ 1 < k
      BY <1>1
    <3>2. 1 < k => s[1] < s[k]
      BY <1>7 DEF CountsUp
    <3> QED
      BY <2>1, <2>2, <3>1, <3>2
  <2>4. \A i \in Q : Tail(s)[i] \in (a + 1)..b
    <3> SUFFICES ASSUME NEW i \in Q
                 PROVE  Tail(s)[i] \in (a + 1)..b
      OBVIOUS
    <3>1. i + 1 \in P /\ 1 < i + 1 /\ Tail(s)[i] = s[i + 1]
      BY <1>3
    <3>2. s[1] < s[i + 1]
      BY <1>7, <3>1 DEF CountsUp
    <3>3. s[i + 1] \in a..b
      BY <1>1, <3>1
    <3>4. \A u \in a..b : a < u => u \in (a + 1)..b
      OBVIOUS
    <3> QED
      BY <2>3, <3>1, <3>2, <3>3, <3>4
  <2>5. \A n \in (a + 1)..b : \E i \in Q : Tail(s)[i] = n
    <3> SUFFICES ASSUME NEW n \in (a + 1)..b
                 PROVE  \E i \in Q : Tail(s)[i] = n
      OBVIOUS
    <3>1. n \in a..b /\ n # a
      OBVIOUS
    <3>2. PICK i \in P : s[i] = n
      BY <1>2, <3>1
    <3> QED
      BY <1>4, <2>3, <3>1, <3>2
  <2>6. {Tail(s)[i] : i \in Q} = (a + 1)..b
    BY <2>4, <2>5
  <2> QED
    BY <1>5, <2>1, <2>3, <2>6 DEF CountsUp
<1> QED
  BY <1>6, <1>7

LEMMA AppendElements ==
    ASSUME NEW S, NEW q \in Seq(S), NEW v \in S
    PROVE  /\ Append(q, v) \in Seq(S) /\ Len(Append(q, v)) = Len(q) + 1
           /\ Append(q, v)[Len(q) + 1] = v
           /\ \A i \in 1..Len(q) : Append(q, v)[i] = q[i]
OBVIOUS

LEMMA SameElements ==
    ASSUME NEW S, NEW p \in Seq(S), NEW q \in Seq(S), Len(p) = Len(q),
           \A i \in 1..Len(p) : p[i] = q[i]
    PROVE  p = q
OBVIOUS

(* The channel: a message more, and one less. *)
ChanEntry == [room: RoomNumbers, num: 1..MaxTexts]

LEMMA NumbersTyped ==
    ASSUME NEW chan \in Seq(ChanEntry)
    PROVE  /\ Numbers(chan) \in Seq(Nat) /\ Len(Numbers(chan)) = Len(chan)
           /\ \A i \in 1..Len(chan) : Numbers(chan)[i] = chan[i].num /\ chan[i] \in ChanEntry
<1>1. \A i \in 1..Len(chan) : chan[i] \in ChanEntry
  OBVIOUS
<1>2. \A i \in 1..Len(chan) : chan[i].num \in Nat
  BY <1>1, ChatAssumption DEF ChanEntry
<1> QED
  BY <1>1, <1>2 DEF Numbers

LEMMA NumbersAppend ==
    ASSUME NEW chan \in Seq(ChanEntry), NEW e \in ChanEntry
    PROVE  /\ Numbers(Append(chan, e)) = Append(Numbers(chan), e.num)
           /\ e.num \in Nat
           /\ \A o : {i \in 1..Len(Append(chan, e)) : Append(chan, e)[i].room = o}
                      = IF e.room = o
                        THEN {i \in 1..Len(chan) : chan[i].room = o} \cup {Len(chan) + 1}
                        ELSE {i \in 1..Len(chan) : chan[i].room = o}
<1> DEFINE c == Append(chan, e)
<1>1. /\ c \in Seq(ChanEntry) /\ Len(c) = Len(chan) + 1 /\ c[Len(chan) + 1] = e /\ Len(chan) \in Nat
      /\ \A i \in 1..Len(chan) : c[i] = chan[i]
  OBVIOUS
<1>2. e.num \in Nat
  BY ChatAssumption DEF ChanEntry
<1> HIDE DEF c
<1>3. Numbers(c) = Append(Numbers(chan), e.num)
  <2>1. /\ Numbers(chan) \in Seq(Nat) /\ Len(Numbers(chan)) = Len(chan)
        /\ \A i \in 1..Len(chan) : Numbers(chan)[i] = chan[i].num
    BY NumbersTyped
  <2>2. /\ Numbers(c) \in Seq(Nat) /\ Len(Numbers(c)) = Len(c)
        /\ \A i \in 1..Len(c) : Numbers(c)[i] = c[i].num
    BY <1>1, NumbersTyped
  <2> DEFINE d == Append(Numbers(chan), e.num)
  <2>3. /\ d \in Seq(Nat) /\ Len(d) = Len(chan) + 1 /\ d[Len(chan) + 1] = e.num
        /\ \A i \in 1..Len(chan) : d[i] = chan[i].num
    BY <1>2, <2>1, AppendElements
  <2> HIDE DEF d
  <2>4. \A i \in 1..Len(c) : Numbers(c)[i] = d[i]
    BY <1>1, <2>2, <2>3
  <2>5. Numbers(c) = d
    BY <1>1, <2>2, <2>3, <2>4
  <2> QED
    BY <2>5 DEF d
<1>4. ASSUME NEW o
      PROVE  {i \in 1..Len(c) : c[i].room = o}
                = IF e.room = o THEN {i \in 1..Len(chan) : chan[i].room = o} \cup {Len(chan) + 1}
                  ELSE {i \in 1..Len(chan) : chan[i].room = o}
  <2>1. \A i : i \in 1..Len(c) <=> i \in 1..Len(chan) \/ i = Len(chan) + 1
    BY <1>1
  <2> QED
    BY <1>1, <2>1
<1> QED
  BY <1>2, <1>3, <1>4 DEF c

LEMMA SentOneMore ==
    ASSUME NEW chan \in Seq(ChanEntry), NEW e \in ChanEntry, NEW o, NEW n \in Nat,
           NEW got \in Seq(Nat), Len(got) <= n, SentUpTo(n, o, got, chan)
    PROVE  /\ e.room # o => SentUpTo(n, o, got, Append(chan, e))
           /\ e.room = o /\ e.num = n + 1 => SentUpTo(n + 1, o, got, Append(chan, e))
<1> DEFINE P == {i \in 1..Len(chan) : chan[i].room = o}
           P2 == {i \in 1..Len(Append(chan, e)) : Append(chan, e)[i].room = o}
<1>1. /\ Numbers(chan) \in Seq(Nat) /\ Len(Numbers(chan)) = Len(chan) /\ e.num \in Nat
      /\ Numbers(Append(chan, e)) = Append(Numbers(chan), e.num)
      /\ P2 = IF e.room = o THEN P \cup {Len(chan) + 1} ELSE P
  BY NumbersTyped, NumbersAppend
<1>2. /\ got = [i \in 1..Len(got) |-> i]
      /\ CountsUp(Numbers(chan), P, Len(got) + 1, n)
  BY DEF SentUpTo
<1>3. P \in SUBSET (1..Len(Numbers(chan)))
  BY <1>1
<1>4. Len(got) + 1 \in Nat /\ Len(got) + 1 <= n + 1
  OBVIOUS
<1> HIDE DEF P
<1>5. e.room # o => CountsUp(Append(Numbers(chan), e.num), P, Len(got) + 1, n)
  BY <1>1, <1>2, <1>3, <1>4, CountsUpOther
<1>6. e.num = n + 1 =>
         CountsUp(Append(Numbers(chan), e.num), P \cup {Len(chan) + 1}, Len(got) + 1, n + 1)
  BY <1>1, <1>2, <1>3, <1>4, CountsUpNext
<1>7. e.room # o => CountsUp(Numbers(Append(chan, e)), P2, Len(got) + 1, n)
  BY <1>1, <1>5
<1>8. e.room = o /\ e.num = n + 1 => CountsUp(Numbers(Append(chan, e)), P2, Len(got) + 1, n + 1)
  BY <1>1, <1>6
<1> QED
  BY <1>2, <1>7, <1>8 DEF SentUpTo

LEMMA SentOneTaken ==
    ASSUME NEW chan \in Seq(ChanEntry), chan # <<>>, NEW o, NEW n \in Nat,
           NEW got \in Seq(Nat), Len(got) <= n, SentUpTo(n, o, got, chan)
    PROVE  /\ Head(chan).room # o => SentUpTo(n, o, got, Tail(chan))
           /\ Head(chan).room = o =>
                /\ Len(got) + 1 <= n
                /\ SentUpTo(n, o, Append(got, Head(chan).num), Tail(chan))
<1> DEFINE s == Numbers(chan)
           P == {i \in 1..Len(chan) : chan[i].room = o}
           Q == {i \in 1..Len(Tail(chan)) : Tail(chan)[i].room = o}
           a == Len(got) + 1
<1>1. /\ s \in Seq(Nat) /\ Len(s) = Len(chan) /\ Len(chan) \in Nat /\ Len(chan) >= 1
      /\ \A i \in 1..Len(chan) : s[i] = chan[i].num
  BY NumbersTyped
<1>2. /\ Tail(chan) \in Seq(ChanEntry) /\ Len(Tail(chan)) = Len(chan) - 1
      /\ \A i \in 1..Len(Tail(chan)) : Tail(chan)[i] = chan[i + 1]
      /\ Head(chan) = chan[1]
  OBVIOUS
<1>3. Numbers(Tail(chan)) = Tail(s)
  <2>1. /\ Numbers(Tail(chan)) \in Seq(Nat) /\ Len(Numbers(Tail(chan))) = Len(Tail(chan))
        /\ \A i \in 1..Len(Tail(chan)) : Numbers(Tail(chan))[i] = Tail(chan)[i].num
    BY <1>2, NumbersTyped
  <2> HIDE DEF s
  <2>2. /\ Tail(s) \in Seq(Nat) /\ Len(Tail(s)) = Len(chan) - 1
        /\ \A i \in 1..Len(chan) - 1 : Tail(s)[i] = s[i + 1]
    BY <1>1
  <2>3. \A i \in 1..Len(chan) - 1 : Numbers(Tail(chan))[i] = Tail(s)[i]
    BY <1>1, <1>2, <2>1, <2>2
  <2>4. \A i \in 1..Len(Numbers(Tail(chan))) : Numbers(Tail(chan))[i] = Tail(s)[i]
    BY <1>2, <2>1, <2>3
  <2> QED
    BY <1>2, <2>1, <2>2, <2>4, SameElements
<1>4. /\ got = [i \in 1..Len(got) |-> i] /\ CountsUp(s, P, a, n)
      /\ P \in SUBSET (1..Len(s)) /\ s # <<>> /\ a \in Nat
  BY <1>1 DEF SentUpTo
<1>5. \A i \in Nat : i \in Q <=> i >= 1 /\ i + 1 \in P
  BY <1>1, <1>2
<1>6. Q \subseteq Nat
  OBVIOUS
<1>7. 1 \in P <=> Head(chan).room = o
  BY <1>1, <1>2
<1>8. s[1] = Head(chan).num
  BY <1>1, <1>2
<1> HIDE DEF s, P, Q
<1>9. /\ 1 \notin P => CountsUp(Tail(s), Q, a, n)
      /\ 1 \in P => s[1] = a /\ a <= n /\ CountsUp(Tail(s), Q, a + 1, n)
  BY <1>1, <1>4, <1>5, <1>6, CountsUpTail
<1>10. CASE Head(chan).room # o
  BY <1>3, <1>4, <1>7, <1>9, <1>10 DEF SentUpTo, Q
<1>11. CASE Head(chan).room = o
  <2>1. Head(chan).num = a /\ a <= n /\ CountsUp(Numbers(Tail(chan)), Q, a + 1, n)
    BY <1>3, <1>7, <1>8, <1>9, <1>11
  <2>2. /\ Append(got, a) \in Seq(Nat) /\ Len(Append(got, a)) = a
        /\ Append(got, a)[a] = a /\ \A i \in 1..Len(got) : Append(got, a)[i] = i
    BY <1>4
  <2>3. \A i \in 1..a : Append(got, a)[i] = i
    BY <1>4, <2>2
  <2>4. Append(got, a) = [i \in 1..Len(Append(got, a)) |-> i]
    BY <2>2, <2>3
  <2> QED
    BY <1>11, <2>1, <2>2, <2>4 DEF SentUpTo, Q
<1> QED
  BY <1>10, <1>11

(* The subscription and readLoop. *)
Texts(q) == {i \in 1..Len(q) : q[i] # Ignored}

LEMMA TextsAppend ==
    ASSUME NEW q \in Seq(Nat), NEW m \in Nat
    PROVE  Texts(Append(q, m)) = IF m = Ignored THEN Texts(q) ELSE Texts(q) \cup {Len(q) + 1}
<1> DEFINE t == Append(q, m)
<1>1. /\ Len(t) = Len(q) + 1 /\ t[Len(q) + 1] = m /\ Len(q) \in Nat
      /\ \A i \in 1..Len(q) : t[i] = q[i]
  BY AppendElements
<1> HIDE DEF t
<1>2. \A i : i \in 1..Len(t) <=> i \in 1..Len(q) \/ i = Len(q) + 1
  BY <1>1
<1>3. \A i : i \in Texts(t) <=> i \in IF m = Ignored THEN Texts(q) ELSE Texts(q) \cup {Len(q) + 1}
  BY <1>1, <1>2 DEF Texts
<1> QED
  BY <1>3 DEF t

LEMMA QueueTyped ==
    ASSUME NEW x \in RoomRecord
    PROVE  /\ x.queue \in Seq(Nat) /\ x.arrived \in Nat /\ x.held \in Nat
           /\ Texts(x.queue) \in SUBSET (1..Len(x.queue))
<1>1. x.queue \in Seq(Messages) /\ Messages \subseteq Nat
  BY DEF RoomRecord, Messages
<1>2. x.queue \in Seq(Nat)
  BY <1>1, SeqMonotonic
<1>3. x.arrived \in Nat /\ x.held \in Nat
  <2>1. x.arrived \in 0..MaxTexts /\ x.held \in Messages
    BY DEF RoomRecord
  <2>2. \A k \in 0..MaxTexts : k \in Nat
    BY ChatAssumption
  <2> QED
    BY <2>1, <2>2 DEF Messages
<1> QED
  BY <1>2, <1>3 DEF Texts

LEMMA LeftEchoed ==
    ASSUME NEW x \in RoomRecord, NEW y, SameReader(x, y), NEW n \in Nat, LeftFrom(n, x)
    PROVE  LeftFrom(n, y)
<1> DEFINE taken == IF x.read = "send" THEN n + 1 ELSE n
<1>1. /\ x.read = "send" => x.held = taken
      /\ taken <= x.arrived
      /\ CountsUp(x.queue, Texts(x.queue), taken + 1, x.arrived)
  BY DEF LeftFrom, Texts
<1>2. /\ y.arrived = x.arrived /\ y.read = x.read /\ y.held = x.held
      /\ y.queue = x.queue \/ y.queue = Append(x.queue, Ignored)
  BY DEF SameReader
<1>3. CountsUp(y.queue, Texts(y.queue), taken + 1, x.arrived)
  <2>1. CASE y.queue = x.queue
    BY <1>1, <2>1
  <2>2. CASE y.queue = Append(x.queue, Ignored)
    <3>1. Ignored \in Nat
      BY DEF Ignored
    <3>2. Texts(y.queue) = Texts(x.queue)
      BY <2>2, <3>1, QueueTyped, TextsAppend
    <3>3. CountsUp(Append(x.queue, Ignored), Texts(x.queue), taken + 1, x.arrived)
      BY <1>1, <3>1, QueueTyped, CountsUpOther
    <3> QED
      BY <2>2, <3>2, <3>3
  <2> QED
    BY <1>2, <2>1, <2>2
<1> QED
  BY <1>1, <1>2, <1>3 DEF LeftFrom, Texts

LEMMA LeftArrived ==
    ASSUME NEW x \in RoomRecord, NEW y, NEW n \in Nat, LeftFrom(n, x),
           y.queue = Append(x.queue, x.arrived + 1), y.arrived = x.arrived + 1,
           y.read = x.read, y.held = x.held
    PROVE  LeftFrom(n, y)
<1> SUFFICES ASSUME NEW taken \in Nat, taken = IF x.read = "send" THEN n + 1 ELSE n
             PROVE  LeftFrom(n, y)
  OBVIOUS
<1>1. /\ x.read = "send" => x.held = taken
      /\ taken <= x.arrived
      /\ CountsUp(x.queue, Texts(x.queue), taken + 1, x.arrived)
  BY DEF LeftFrom, Texts
<1>2. x.arrived \in Nat /\ x.arrived + 1 \in Nat /\ x.arrived + 1 # Ignored
  BY QueueTyped DEF Ignored
<1>3. Texts(y.queue) = Texts(x.queue) \cup {Len(x.queue) + 1}
  BY <1>2, QueueTyped, TextsAppend
<1>4. CountsUp(Append(x.queue, x.arrived + 1), Texts(x.queue) \cup {Len(x.queue) + 1},
               taken + 1, x.arrived + 1)
  <2>1. taken + 1 \in Nat /\ taken + 1 <= x.arrived + 1
    BY <1>1, <1>2
  <2> QED
    BY <1>1, <1>2, <2>1, QueueTyped, CountsUpNext
<1>5. CountsUp(y.queue, Texts(y.queue), taken + 1, y.arrived)
  BY <1>3, <1>4
<1>6. taken <= y.arrived
  BY <1>1, <1>2
<1> QED
  BY <1>1, <1>5, <1>6 DEF LeftFrom, Texts

LEMMA LeftSent ==
    ASSUME NEW x \in RoomRecord, NEW y, NEW n \in Nat, LeftFrom(n, x), x.read = "send",
           y.read = "next", y.queue = x.queue, y.arrived = x.arrived
    PROVE  x.held = n + 1 /\ n + 1 <= x.arrived /\ LeftFrom(n + 1, y)
BY DEF LeftFrom

LEMMA LeftRead ==
    ASSUME NEW x \in RoomRecord, NEW y, NEW n \in Nat, LeftFrom(n, x),
           x.read = "next", x.queue # <<>>,
           y.queue = Tail(x.queue), y.held = Head(x.queue), y.arrived = x.arrived,
           y.read = IF Head(x.queue) # Ignored THEN "send" ELSE "next"
    PROVE  LeftFrom(n, y)
<1> DEFINE q == x.queue
           P == Texts(q)
           Q == Texts(Tail(q))
<1>1. /\ n <= x.arrived /\ CountsUp(q, P, n + 1, x.arrived)
  BY DEF LeftFrom, Texts
<1>2. q \in Seq(Nat) /\ x.arrived \in Nat /\ P \in SUBSET (1..Len(q)) /\ q # <<>>
  BY QueueTyped
<1> HIDE DEF q
<1>3. /\ Len(Tail(q)) = Len(q) - 1 /\ Len(q) \in Nat /\ Len(q) >= 1 /\ Head(q) = q[1]
      /\ \A i \in 1..Len(q) - 1 : Tail(q)[i] = q[i + 1]
  BY <1>2
<1>4. \A i \in Nat : i \in Q <=> i >= 1 /\ i + 1 \in P
  BY <1>3 DEF Texts
<1>5. Q \subseteq Nat /\ (1 \in P <=> Head(q) # Ignored)
  BY <1>3 DEF Texts
<1> HIDE DEF P, Q
<1>6. /\ 1 \notin P => CountsUp(Tail(q), Q, n + 1, x.arrived)
      /\ 1 \in P => q[1] = n + 1 /\ n + 1 <= x.arrived /\ CountsUp(Tail(q), Q, n + 2, x.arrived)
  <2>1. n + 1 \in Nat /\ n + 1 + 1 = n + 2
    OBVIOUS
  <2>2. /\ 1 \notin P => CountsUp(Tail(q), Q, n + 1, x.arrived)
        /\ 1 \in P => /\ q[1] = n + 1 /\ n + 1 <= x.arrived
                      /\ CountsUp(Tail(q), Q, n + 1 + 1, x.arrived)
    BY <1>1, <1>2, <1>4, <1>5, <2>1, CountsUpTail
  <2> QED
    BY <2>1, <2>2
<1>7. CASE Head(q) = Ignored
  <2>1. y.read = "next" /\ y.queue = Tail(q)
    BY <1>7 DEF q
  <2> QED
    BY <1>1, <1>5, <1>6, <1>7, <2>1 DEF LeftFrom, Q, Texts
<1>8. CASE Head(q) # Ignored
  <2>1. y.read = "send" /\ y.queue = Tail(q) /\ y.held = n + 1 /\ n + 1 <= y.arrived
    BY <1>3, <1>5, <1>6, <1>8 DEF q
  <2>2. CountsUp(y.queue, Q, n + 1 + 1, y.arrived)
    <3>1. n + 1 + 1 = n + 2
      OBVIOUS
    <3> QED
      BY <1>5, <1>6, <1>8, <2>1, <3>1
  <2> QED
    BY <2>1, <2>2 DEF LeftFrom, Q, Texts
<1> QED
  BY <1>7, <1>8

(* InOrder, Room by Room. *)
OrderOf(o, got, chan, x) ==
    \E n \in Len(got)..x.arrived : /\ SentUpTo(n, o, got, chan)
                                   /\ x.read # "done" => LeftFrom(n, x)

LEMMA OrderBefore ==
    ASSUME Typed, InOrder, NEW o \in RoomNumbers
    PROVE  /\ OrderOf(o, received[o], msgChan, room[o])
           /\ room[o] \in RoomRecord /\ room[o].arrived \in Nat
           /\ received[o] \in Seq(Nat) /\ Len(received[o]) \in Nat
           /\ msgChan \in Seq(ChanEntry)
<1>1. room[o] \in RoomRecord /\ room[o].arrived \in Nat
  BY TypedParts, QueueTyped
<1>2. received \in Seq(Seq(1..MaxTexts)) /\ o \in 1..Len(received)
  BY DEF Typed, TypeOK, RoomNumbers
<1>3. received[o] \in Seq(1..MaxTexts) /\ 1..MaxTexts \subseteq Nat
  BY <1>2, ChatAssumption
<1>4. received[o] \in Seq(Nat) /\ Len(received[o]) \in Nat
  <2>1. received[o] \in Seq(Nat)
    BY <1>3, SeqMonotonic
  <2> QED
    BY <2>1
<1>5. msgChan \in Seq(ChanEntry)
  BY DEF Typed, TypeOK, ChanEntry
<1> QED
  BY <1>1, <1>4, <1>5 DEF InOrder, OrderOf

LEMMA OrderAfter ==
    ASSUME Len(room') = Len(room),
           \A o \in RoomNumbers : OrderOf(o, received'[o], msgChan', room'[o])
    PROVE  InOrder'
BY DEF InOrder, OrderOf, RoomNumbers

LEMMA OrderKept ==
    ASSUME NEW o, NEW got \in Seq(Nat), NEW chan, NEW x \in RoomRecord, NEW y,
           SameReader(x, y), OrderOf(o, got, chan, x)
    PROVE  OrderOf(o, got, chan, y)
<1>1. PICK n \in Len(got)..x.arrived : /\ SentUpTo(n, o, got, chan)
                                       /\ x.read # "done" => LeftFrom(n, x)
  BY DEF OrderOf
<1>2. n \in Nat
  BY <1>1, QueueTyped
<1>3. y.arrived = x.arrived /\ y.read = x.read
  BY DEF SameReader
<1>4. x.read # "done" => LeftFrom(n, y)
  BY <1>1, <1>2, LeftEchoed
<1> QED
  BY <1>1, <1>3, <1>4 DEF OrderOf

(* Steps that keep the channel and at most echo a message of this node. *)
LEMMA OrderQuiet ==
    ASSUME Typed, InOrder, Len(room') = Len(room), UNCHANGED <<msgChan, received>>,
           \A o \in RoomNumbers : SameReader(room[o], room'[o])
    PROVE  InOrder'
<1> SUFFICES ASSUME NEW o \in RoomNumbers
             PROVE  OrderOf(o, received'[o], msgChan', room'[o])
  BY OrderAfter
<1>1. /\ OrderOf(o, received[o], msgChan, room[o]) /\ room[o] \in RoomRecord
      /\ received[o] \in Seq(Nat)
  BY OrderBefore
<1>2. OrderOf(o, received[o], msgChan, room'[o])
  BY <1>1, OrderKept
<1> QED
  BY <1>2

LEMMA JoinRoomOrder ==
    ASSUME Typed, InOrder, NEW c \in Callers, NEW r \in RoomIds, JoinRoom(c, r)
    PROVE  InOrder'
<1> SUFFICES ASSUME NEW m, m = Len(room) + 1
             PROVE  InOrder'
  OBVIOUS
<1>1. /\ Len(room') = m /\ room'[m] = NewRoom(r)
      /\ \A o \in RoomNumbers : room'[o] = room[o]
  BY JoinRoomTyped
<1>2. RoomNumbers' = RoomNumbers \cup {m} /\ m \notin RoomNumbers /\ Len(room) \in Nat
  BY <1>1, TypedParts DEF RoomNumbers
<1>3. /\ received'[m] = <<>> /\ \A o \in RoomNumbers : received'[o] = received[o]
      /\ msgChan' = msgChan
  BY <1>2 DEF JoinRoom, Typed, TypeOK, RoomNumbers
<1>4. ASSUME NEW o \in RoomNumbers
      PROVE  OrderOf(o, received'[o], msgChan', room'[o])
  BY <1>1, <1>3, OrderBefore
<1>5. OrderOf(m, <<>>, msgChan, NewRoom(r))
  <2>1. msgChan \in Seq(ChanEntry)
    BY DEF Typed, TypeOK, ChanEntry
  <2>2. \A i \in 1..Len(msgChan) : msgChan[i].room \in RoomNumbers
    BY <2>1, NumbersTyped DEF ChanEntry
  <2>3. {i \in 1..Len(msgChan) : msgChan[i].room = m} = {}
    BY <1>2, <2>2
  <2>4. \A s : CountsUp(s, {}, 1, 0)
    BY DEF CountsUp
  <2>5. <<>> = [i \in 1..0 |-> i] /\ Len(<<>>) = 0
    OBVIOUS
  <2>6. SentUpTo(0, m, <<>>, msgChan)
    <3>1. CountsUp(Numbers(msgChan), {i \in 1..Len(msgChan) : msgChan[i].room = m}, 1, 0)
      BY <2>3, <2>4
    <3>2. Len(<<>>) + 1 = 1 /\ <<>> = [i \in 1..Len(<<>>) |-> i]
      BY <2>5
    <3> QED
      BY <3>1, <3>2 DEF SentUpTo
  <2>7. /\ NewRoom(r).queue = <<>> /\ NewRoom(r).arrived = 0 /\ NewRoom(r).read = "next"
    BY DEF NewRoom
  <2>8. LeftFrom(0, NewRoom(r))
    <3>1. {i \in 1..Len(NewRoom(r).queue) : NewRoom(r).queue[i] # Ignored} = {}
      BY <2>7
    <3> QED
      BY <2>4, <2>7, <3>1 DEF LeftFrom
  <2> QED
    BY <2>5, <2>6, <2>7, <2>8 DEF OrderOf
<1>6. \A o \in RoomNumbers' : OrderOf(o, received'[o], msgChan', room'[o])
  BY <1>1, <1>2, <1>3, <1>4, <1>5
<1> QED
  BY <1>6 DEF InOrder, OrderOf

(* One Room goes on; what it does to the channel does not concern the others. *)
LEMMA ReadNextOrder ==
    ASSUME Typed, InOrder, NEW o \in RoomNumbers, ReadNext(o)
    PROVE  InOrder'
<1>1. /\ OnlyRoom(o) /\ room[o].queue # <<>> /\ room[o].read = "next"
      /\ room'[o].queue = Tail(room[o].queue) /\ room'[o].held = Head(room[o].queue)
      /\ room'[o].read = IF Head(room[o].queue) # Ignored THEN "send" ELSE "next"
      /\ room'[o].arrived = room[o].arrived
  BY ReadNextTyped DEF ReadNext
<1>2. msgChan' = msgChan /\ received' = received
  BY DEF ReadNext
<1>3. OrderOf(o, received[o], msgChan, room'[o])
  <2>1. PICK n \in Len(received[o])..room[o].arrived :
           SentUpTo(n, o, received[o], msgChan) /\ LeftFrom(n, room[o])
    BY <1>1, OrderBefore DEF OrderOf
  <2>2. n \in Nat /\ room[o] \in RoomRecord
    BY <2>1, OrderBefore
  <2>3. LeftFrom(n, room'[o])
    BY <1>1, <2>1, <2>2, LeftRead
  <2> QED
    BY <1>1, <2>1, <2>3 DEF OrderOf
<1>4. \A p \in RoomNumbers : OrderOf(p, received'[p], msgChan', room'[p])
  BY <1>1, <1>2, <1>3, OrderBefore DEF OnlyRoom
<1> QED
  BY <1>1, <1>4, OrderAfter DEF OnlyRoom

LEMMA SendToChanOrder ==
    ASSUME Typed, InOrder, NEW o \in RoomNumbers, SendToChan(o)
    PROVE  InOrder'
<1> SUFFICES ASSUME NEW e \in ChanEntry, e.room = o, e.num = room[o].held,
                    msgChan' = Append(msgChan, e)
             PROVE  InOrder'
  <2>1. [room |-> o, num |-> room[o].held] \in ChanEntry
    BY SendToChanTyped DEF ChanEntry
  <2> QED
    BY <2>1 DEF SendToChan
<1>1. /\ OnlyRoom(o) /\ room[o].read = "send" /\ room'[o].read = "next"
      /\ room'[o].queue = room[o].queue /\ room'[o].arrived = room[o].arrived
      /\ received' = received
  BY SendToChanTyped DEF SendToChan
<1>2. OrderOf(o, received[o], msgChan', room'[o])
  <2>1. PICK n \in Len(received[o])..room[o].arrived :
           SentUpTo(n, o, received[o], msgChan) /\ LeftFrom(n, room[o])
    BY <1>1, OrderBefore DEF OrderOf
  <2>2. /\ n \in Nat /\ Len(received[o]) <= n /\ room[o].arrived \in Nat
        /\ Len(received[o]) \in Nat
    BY <2>1, OrderBefore
  <2>3. room[o].held = n + 1 /\ n + 1 <= room[o].arrived /\ LeftFrom(n + 1, room'[o])
    BY <1>1, <2>1, <2>2, OrderBefore, LeftSent
  <2>4. SentUpTo(n + 1, o, received[o], msgChan')
    BY <2>1, <2>2, <2>3, OrderBefore, SentOneMore
  <2>5. n + 1 \in Len(received[o])..room'[o].arrived
    BY <1>1, <2>2, <2>3
  <2> QED
    BY <2>3, <2>4, <2>5 DEF OrderOf
<1>3. ASSUME NEW p \in RoomNumbers, p # o
      PROVE  OrderOf(p, received[p], msgChan', room[p])
  <2>1. PICK n \in Len(received[p])..room[p].arrived :
           SentUpTo(n, p, received[p], msgChan) /\ (room[p].read # "done" => LeftFrom(n, room[p]))
    BY OrderBefore DEF OrderOf
  <2>2. n \in Nat /\ Len(received[p]) <= n
    BY <2>1, OrderBefore
  <2>3. SentUpTo(n, p, received[p], msgChan')
    BY <1>3, <2>1, <2>2, OrderBefore, SentOneMore
  <2> QED
    BY <2>1, <2>3 DEF OrderOf
<1>4. \A p \in RoomNumbers : OrderOf(p, received'[p], msgChan', room'[p])
  BY <1>1, <1>2, <1>3 DEF OnlyRoom
<1> QED
  BY <1>1, <1>4, OrderAfter DEF OnlyRoom

LEMMA ReadEndOrder ==
    ASSUME Typed, InOrder, NEW o \in RoomNumbers, ReadEnd(o)
    PROVE  InOrder'
<1>1. OnlyRoom(o) /\ room'[o].read = "done" /\ room'[o].arrived = room[o].arrived
  BY ReadEndTyped
<1>2. msgChan' = msgChan /\ received' = received
  BY DEF ReadEnd
<1>3. \A p \in RoomNumbers : OrderOf(p, received'[p], msgChan', room'[p])
  BY <1>1, <1>2, OrderBefore DEF OnlyRoom, OrderOf
<1> QED
  BY <1>1, <1>3, OrderAfter DEF OnlyRoom

LEMMA ArriveOrder ==
    ASSUME Typed, InOrder, NEW o \in RoomNumbers, Arrive(o)
    PROVE  InOrder'
<1>1. /\ OnlyRoom(o) /\ room[o].read # "done"
      /\ room'[o].queue = Append(room[o].queue, room[o].arrived + 1)
      /\ room'[o].arrived = room[o].arrived + 1
      /\ room'[o].read = room[o].read /\ room'[o].held = room[o].held
  BY ArriveTyped
<1>2. msgChan' = msgChan /\ received' = received
  BY DEF Arrive
<1>3. OrderOf(o, received[o], msgChan, room'[o])
  <2>1. PICK n \in Len(received[o])..room[o].arrived :
           SentUpTo(n, o, received[o], msgChan) /\ LeftFrom(n, room[o])
    BY <1>1, OrderBefore DEF OrderOf
  <2>2. n \in Nat /\ room[o] \in RoomRecord /\ n \in Len(received[o])..(room[o].arrived + 1)
    BY <2>1, OrderBefore
  <2>3. LeftFrom(n, room'[o])
    BY <1>1, <2>1, <2>2, LeftArrived
  <2> QED
    BY <1>1, <2>1, <2>2, <2>3 DEF OrderOf
<1>4. \A p \in RoomNumbers : OrderOf(p, received'[p], msgChan', room'[p])
  BY <1>1, <1>2, <1>3, OrderBefore DEF OnlyRoom
<1> QED
  BY <1>1, <1>4, OrderAfter DEF OnlyRoom

LEMMA ReceiveOrder ==
    ASSUME Typed, InOrder, Receive
    PROVE  InOrder'
<1> SUFFICES ASSUME NEW h, h = Head(msgChan)
             PROVE  InOrder'
  OBVIOUS
<1>1. /\ msgChan # <<>> /\ h.room \in RoomNumbers
      /\ received'[h.room] = Append(received[h.room], h.num)
      /\ \A o \in RoomNumbers : o # h.room => received'[o] = received[o]
      /\ room' = room /\ msgChan' = Tail(msgChan)
  BY ReceiveTyped DEF Receive
<1>2. ASSUME NEW o \in RoomNumbers
      PROVE  OrderOf(o, received'[o], msgChan', room[o])
  <2>1. PICK n \in Len(received[o])..room[o].arrived :
           SentUpTo(n, o, received[o], msgChan) /\ (room[o].read # "done" => LeftFrom(n, room[o]))
    BY OrderBefore DEF OrderOf
  <2>2. /\ n \in Nat /\ Len(received[o]) <= n /\ received[o] \in Seq(Nat)
        /\ Len(received[o]) \in Nat /\ msgChan \in Seq(ChanEntry)
        /\ n <= room[o].arrived /\ room[o].arrived \in Nat
    BY <2>1, OrderBefore
  <2>3. /\ h.room # o => SentUpTo(n, o, received[o], Tail(msgChan))
        /\ h.room = o => /\ Len(received[o]) + 1 <= n
                         /\ SentUpTo(n, o, Append(received[o], h.num), Tail(msgChan))
    BY <1>1, <2>1, <2>2, SentOneTaken
  <2>4. CASE h.room # o
    BY <1>1, <2>1, <2>3, <2>4 DEF OrderOf
  <2>5. CASE h.room = o
    <3>1. h.num \in Nat
      <4>1. h \in ChanEntry
        BY <1>1, <2>2, HeadOfSeq
      <4>2. h.num \in 1..MaxTexts
        BY <4>1 DEF ChanEntry
      <4> QED
        BY <4>2, ChatAssumption
    <3>2. Len(received'[o]) = Len(received[o]) + 1
      BY <1>1, <2>2, <2>5, <3>1
    <3>3. n \in Len(received'[o])..room[o].arrived
      BY <2>2, <2>3, <2>5, <3>2
    <3> QED
      BY <1>1, <2>1, <2>3, <2>5, <3>3 DEF OrderOf
  <2> QED
    BY <2>4, <2>5
<1> QED
  BY <1>1, <1>2, OrderAfter
-----------------------------------------------------------------------------
LEMMA InvInit == Init => Inv
<1> SUFFICES ASSUME Init PROVE Inv
  OBVIOUS
<1>1. room = <<>> /\ Len(room) = 0 /\ RoomNumbers = {}
  BY DEF Init, RoomNumbers
<1>2. MaxTexts \in Nat /\ ChanCap \in Nat
  BY ChatAssumption
<1>3. call = [c \in Callers |-> Idle] /\ Idle \in CallRecord /\ Idle.stage = "idle"
  BY <1>1 DEF Init, Idle, CallRecord
<1>4. call \in [Callers -> CallRecord] /\ \A c \in Callers : call[c].stage = "idle"
  BY <1>3
<1>5. TypeOK
  <2>1. \A c \in Callers : (lock = c) <=> (call[c].stage \in Locked)
    BY <1>4, ChatAssumption DEF Init, Locked
  <2>2. rooms \in [RoomIds -> 0..Len(room)]
    BY <1>1 DEF Init
  <2>3. /\ room \in Seq(RoomRecord) /\ msgChan \in Seq([room: RoomNumbers, num: 1..MaxTexts])
        /\ Len(msgChan) <= ChanCap
    BY <1>1, <1>2 DEF Init
  <2>4. received \in Seq(Seq(1..MaxTexts)) /\ Len(received) = Len(room)
    BY <1>1 DEF Init
  <2>5. {cancelled, closed, panicked} \subseteq BOOLEAN
    BY DEF Init
  <2> QED
    BY <1>4, <2>1, <2>2, <2>3, <2>4, <2>5 DEF TypeOK, CallRecord, RoomRecord
<1>6. ReadersOK /\ CallsOK /\ PostsOK
  BY <1>1, <1>2, <1>4 DEF ReadersOK, CallsOK, PostsOK, Init, AtRoom
<1>7. FiledById /\ OpenIsLast /\ SessionOrder
  BY <1>1 DEF FiledById, OpenIsLast, SessionOrder, Init
<1>8. JoinFirst
  BY <1>1, <1>4 DEF JoinFirst, At
<1>9. InOrder
  BY <1>1 DEF InOrder
<1> QED
  BY <1>5, <1>6, <1>7, <1>8, <1>9 DEF Inv, Typed, Sessions

LEMMA CallerSteps ==
    ASSUME Inv, NEW c \in Callers,
           \/ \E r \in RoomIds : JoinRoom(c, r) \/ SendMessage(c, r) \/ LeaveRoom(c, r)
           \/ Close(c) \/ Called(c)
    PROVE  Inv'
<1>1. Typed /\ Sessions /\ InOrder
  BY DEF Inv
<1>2. \A o \in RoomNumbers : SameReader(room[o], room[o])
  BY DEF SameReader
<1>3. ASSUME NEW r \in RoomIds, JoinRoom(c, r)
      PROVE  Inv'
  BY <1>1, <1>3, JoinRoomTyped, JoinRoomSessions, JoinRoomOrder DEF Inv
<1>4. ASSUME NEW r \in RoomIds, SendMessage(c, r)
      PROVE  Inv'
  <2>1. UNCHANGED <<room, msgChan, received>>
    BY <1>4 DEF SendMessage
  <2> QED
    BY <1>1, <1>2, <1>4, <2>1, SendMessageTyped, SendMessageSessions, OrderQuiet DEF Inv
<1>5. ASSUME NEW r \in RoomIds, LeaveRoom(c, r)
      PROVE  Inv'
  <2>1. /\ rooms[r] \in RoomNumbers /\ Publish(rooms[r], "leave")
        /\ UNCHANGED <<texts, msgChan, received>>
    <3>1. rooms[r] \in 0..Len(room) /\ rooms[r] # 0 /\ Len(room) \in Nat
      BY <1>1, <1>5, TypedParts DEF LeaveRoom
    <3>2. rooms[r] \in RoomNumbers
      BY <3>1 DEF RoomNumbers
    <3> QED
      BY <1>5, <3>2 DEF LeaveRoom
  <2>2. Len(room') = Len(room) /\ \A o \in RoomNumbers : SameReader(room[o], room'[o])
    BY <1>1, <2>1, PublishEffect DEF Echoed
  <2> QED
    BY <1>1, <1>5, <2>1, <2>2, LeaveRoomTyped, LeaveRoomSessions, OrderQuiet DEF Inv
<1>6. ASSUME Close(c) \/ CloseRooms(c) \/ CloseNext(c)
      PROVE  Inv'
  <2>1. UNCHANGED <<room, msgChan, received>>
    BY <1>6 DEF Close, CloseRooms, CloseNext
  <2>2. Typed' /\ Sessions'
    BY <1>1, <1>6, CloseTyped, CloseRoomsTyped, CloseNextTyped, CloseCallsSessions
  <2> QED
    BY <1>1, <1>2, <2>1, <2>2, OrderQuiet DEF Inv
<1>7. ASSUME PublishJoin(c)
      PROVE  Inv'
  <2>1. /\ call[c].room \in RoomNumbers /\ Publish(call[c].room, "join")
        /\ UNCHANGED <<texts, msgChan, received>>
    BY <1>1, <1>7, TypedParts DEF PublishJoin, At, AtRoom
  <2>2. Len(room') = Len(room) /\ \A o \in RoomNumbers : SameReader(room[o], room'[o])
    BY <1>1, <2>1, PublishEffect DEF Echoed
  <2> QED
    BY <1>1, <1>7, <2>1, <2>2, PublishJoinTyped, PublishJoinSessions, OrderQuiet DEF Inv
<1>8. ASSUME PublishText(c)
      PROVE  Inv'
  <2>1. /\ call[c].room \in RoomNumbers /\ Publish(call[c].room, "text")
        /\ UNCHANGED <<texts, msgChan, received>>
    BY <1>1, <1>8, TypedParts DEF PublishText, At, AtRoom
  <2>2. Len(room') = Len(room) /\ \A o \in RoomNumbers : SameReader(room[o], room'[o])
    BY <1>1, <2>1, PublishEffect DEF Echoed
  <2> QED
    BY <1>1, <1>8, <2>1, <2>2, PublishTextTyped, PublishTextSessions, OrderQuiet DEF Inv
<1>9. ASSUME CancelRoom(c)
      PROVE  Inv'
  <2>1. UNCHANGED <<msgChan, received>>
    BY <1>9 DEF CancelRoom
  <2>2. /\ Typed' /\ Len(room') = Len(room)
        /\ \A o \in RoomNumbers : SameReader(room[o], room'[o])
    BY <1>1, <1>9, CancelRoomTyped DEF Echoed
  <2> QED
    BY <1>1, <1>9, <2>1, <2>2, CloseCallsSessions, OrderQuiet DEF Inv
<1>10. ASSUME CloseTopic(c)
       PROVE  Inv'
  <2>1. UNCHANGED <<msgChan, received>>
    BY <1>10 DEF CloseTopic
  <2>2. /\ Typed' /\ Len(room') = Len(room)
        /\ \A o \in RoomNumbers : SameReader(room[o], room'[o])
    BY <1>1, <1>10, CloseTopicTyped
  <2> QED
    BY <1>1, <1>10, <2>1, <2>2, CloseTopicSessions, OrderQuiet DEF Inv
<1> QED
  BY <1>3, <1>4, <1>5, <1>6, <1>7, <1>8, <1>9, <1>10 DEF Called

LEMMA RoomSteps ==
    ASSUME Inv, NEW o \in RoomNumbers,
           ReadNext(o) \/ SendToChan(o) \/ SendOnClosed(o) \/ ReadEnd(o) \/ Watch(o) \/ Arrive(o)
    PROVE  Inv'
<1>1. Typed /\ Sessions /\ InOrder
  BY DEF Inv
<1>2. CASE ReadNext(o)
  <2>1. published' = published /\ call' = call
    BY <1>2 DEF ReadNext
  <2> QED
    BY <1>1, <1>2, <2>1, ReadNextTyped, SessionsRoomStep, ReadNextOrder DEF Inv
<1>3. CASE SendToChan(o)
  <2>1. published' = published /\ call' = call
    BY <1>3 DEF SendToChan
  <2> QED
    BY <1>1, <1>3, <2>1, SendToChanTyped, SessionsRoomStep, SendToChanOrder DEF Inv
<1>4. CASE SendOnClosed(o)
  <2>1. /\ panicked' = TRUE
        /\ UNCHANGED <<rooms, room, cancelled, msgChan, closed, lock, call, received,
                       published, texts>>
    BY <1>4 DEF SendOnClosed
  <2>2. TypeOK'
    BY <1>1, <2>1 DEF Typed, TypeOK, RoomNumbers
  <2>3. ReadersOK' /\ CallsOK' /\ PostsOK'
    BY <1>1, <2>1 DEF Typed, ReadersOK, CallsOK, PostsOK, Post, RoomNumbers
  <2>4. Sessions'
    BY <1>1, <2>1, SessionsKept
  <2>5. InOrder'
    <3>1. \A p \in RoomNumbers : SameReader(room[p], room'[p])
      BY <2>1 DEF SameReader
    <3> QED
      BY <1>1, <2>1, <3>1, OrderQuiet
  <2> QED
    BY <2>2, <2>3, <2>4, <2>5 DEF Inv, Typed
<1>5. CASE ReadEnd(o)
  <2>1. published' = published /\ call' = call
    BY <1>5 DEF ReadEnd
  <2> QED
    BY <1>1, <1>5, <2>1, ReadEndTyped, SessionsRoomStep, ReadEndOrder DEF Inv
<1>6. CASE Watch(o)
  <2>1. UNCHANGED <<published, call, msgChan, received>>
    BY <1>6 DEF Watch, WatchStart, WatchEnd
  <2>2. Typed' /\ OnlyRoom(o) /\ SameReader(room[o], room'[o])
    BY <1>1, <1>6, WatchTyped
  <2>3. Len(room') = Len(room) /\ \A p \in RoomNumbers : SameReader(room[p], room'[p])
    BY <2>2 DEF OnlyRoom, SameReader
  <2> QED
    BY <1>1, <2>1, <2>2, <2>3, SessionsRoomStep, OrderQuiet DEF Inv
<1>7. CASE Arrive(o)
  <2>1. published' = published /\ call' = call
    BY <1>7 DEF Arrive
  <2> QED
    BY <1>1, <1>7, <2>1, ArriveTyped, SessionsRoomStep, ArriveOrder DEF Inv
<1> QED
  BY <1>2, <1>3, <1>4, <1>5, <1>6, <1>7

LEMMA InvNext == Inv /\ [Next]_vars => Inv'
<1> SUFFICES ASSUME Inv, [Next]_vars
             PROVE  Inv'
  OBVIOUS
<1>1. Typed /\ Sessions /\ InOrder
  BY DEF Inv
<1>2. CASE Receive
  <2>1. UNCHANGED <<published, call, room>>
    BY <1>2 DEF Receive
  <2>2. Typed' /\ InOrder'
    BY <1>1, <1>2, ReceiveTyped, ReceiveOrder
  <2>3. Sessions'
    BY <1>1, <2>1, SessionsKept
  <2> QED
    BY <2>2, <2>3 DEF Inv
<1>3. CASE UNCHANGED vars
  <2>1. UNCHANGED <<rooms, room, cancelled, msgChan, closed, lock, call, panicked,
                    received, published, texts>>
    BY <1>3 DEF vars
  <2>2. TypeOK'
    BY <1>1, <2>1 DEF Typed, TypeOK, RoomNumbers
  <2>3. ReadersOK' /\ CallsOK' /\ PostsOK'
    BY <1>1, <2>1 DEF Typed, ReadersOK, CallsOK, PostsOK, Post, RoomNumbers
  <2>4. Sessions'
    BY <1>1, <2>1, SessionsKept
  <2>5. InOrder'
    <3>1. \A p \in RoomNumbers : SameReader(room[p], room'[p])
      BY <2>1 DEF SameReader
    <3> QED
      BY <1>1, <2>1, <3>1, OrderQuiet
  <2> QED
    BY <2>2, <2>3, <2>4, <2>5 DEF Inv, Typed
<1> QED
  BY <1>2, <1>3, CallerSteps, RoomSteps DEF Next

LEMMA Invariance == Spec => []Inv
BY InvInit, InvNext, PTL DEF Spec

(* Type correctness of the chat service: in particular s.mu is held by     *)
(* exactly the call that is at a stage of JoinRoom, LeaveRoom or Close     *)
(* under it, and msgChan never holds more than its capacity.               *)
THEOREM TypeCorrect == Spec => []TypeOK
<1>1. Inv => TypeOK
  BY DEF Inv, Typed
<1> QED
  BY <1>1, Invariance, PTL

(* The user gets the messages of every room completely and in the order in *)
(* which they arrived, however the readLoops of the rooms share msgChan,   *)
(* and up to the end of a readLoop.                                        *)
THEOREM MessagesInOrder == Spec => []InOrder
<1>1. Inv => InOrder
  BY DEF Inv
<1> QED
  BY <1>1, Invariance, PTL

(* Other members see the stays of this node in a room one after the other, *)
(* each begun by its join message, though SendMessage publishes without    *)
(* the lock and the room may be left and joined again in between.          *)
THEOREM SessionsInOrder == Spec => []SessionOrder
<1>1. Inv => SessionOrder
  BY DEF Inv, Sessions
<1> QED
  BY <1>1, Invariance, PTL
=============================================================================
