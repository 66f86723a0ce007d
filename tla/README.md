# A TLA+ verification of p2papp

p2papp is a peer-to-peer chat and file-sharing program in Go on top of libp2p,
with a relay that stores messages for offline peers. This directory holds TLA+
models of its core, the TLC configurations that check them on small instances,
and theorems with proofs that TLAPS checks for every instance. The repository
has no tests, so the code and its comments are the only statement of intent.

## 1. Inventory

### Parts, their state and operations

| Part (source) | State | Operations | Modelled in |
|---|---|---|---|
| Message queue (`internal/relay/queue.go`) | `pending`: map from peers to slices; one JSON file per peer; `q.mu` | `Enqueue`, `Dequeue`, `Peek`, `MarkAttempt`, `RemoveMessage`, `Cleanup`, `savePeer`, `load`; read-only: `HasPending`, `PendingCount`, `TotalPending`, `PeersWithPending`, `Stats` | `MessageQueue`, `StoreForward` |
| Relay node (`internal/relay/node.go`) | `onlinePeers`, the queue, cache, limiter and router; goroutines | stream handlers (forward, announce, cache, fetch), `deliveryLoop`, `cleanupLoop`, `Forward`, `Cache`, `Fetch`, `Close` | `RelayDelivery`, `DeliveryRounds` (store and forward), `RelayNetwork` (`Cache`, `Fetch`) |
| Rate limiter (`internal/relay/limiter.go`) | token buckets per peer for requests and bytes, a global bucket, connection counts | `AllowRequest`, `AllowBytes`, `AllowConnection`, `ReleaseConnection`, `WaitForRequest`, `GetPeerStats`, `Cleanup`, `Reset`, `ResetAll` | `RateLimiter` |
| Content cache (`internal/relay/cache.go`) | list by use, map, byte count | `Get`, `Put`, `PutWithTTL`, `Delete`, `Clear`, `CleanupExpired` | `LRUCache` |
| Router (`internal/relay/router.go`) | nodes and a consistent-hash ring | `AddNode`, `RemoveNode`, `UpdateNode`, `SetHealthy`, `GetNode`, `GetNodes` | `RelayNetwork` |
| Cloud service (`internal/cloud/service.go`, `storage.go`) | chunk files and metadata files; `s.mu` | `Upload`, `Download`, `Delete`, `List`, `GetInfo`, `Share` | `CloudStorage` |
| File transfer (`internal/cloud/transfer.go`) | none | `handleTransfer` (lock free), `Download`, `requestMetadata`, `requestChunk` | `CloudStorage` |
| File index (`internal/cloud/index.go`) | `advertisedHash`; DHT records (external) | `Advertise`, `AdvertiseLoop`, `FindProviders` | `CloudStorage` |
| Chat rooms (`internal/chat/service.go`, `room.go`) | rooms, topics, subscriptions, one message channel; `s.mu` | `JoinRoom`, `LeaveRoom`, `SendMessage`, `Close`; goroutines `readLoop`, `peerLoop` | `ChatRooms` |
| Direct messages, `PubSubManager` (`internal/chat/dm.go`, `pubsub.go`) | a channel; a map of topics | `Send`, `handleStream` (never registered by the service); no callers | not modelled |
| Raft store (`internal/consensus`) | key-value FSM, log and snapshots (library), membership | `Apply`, `Snapshot`, `Restore`, `Join`, `Leave`, `Set`, `Get`, `Delete` | `RaftStore` (all but `Join` and `Leave`) |
| Wallet (`internal/wallet`) | a key pair and its file | `Save`, `Load`, `Sign`, keystore encryption | planned: `Save` |
| Host, configuration, command line (`internal/core`, `cmd`) | wiring | construction and parsing | not modelled: no algorithm of their own |

### How the parts interact

The relay's stream handlers, its delivery loop and its cleanup loop are
goroutines that share the message queue, the cache and the limiter. Each of
these locks itself for the time of one call, so that an operation of theirs is
atomic, but a *sequence* of calls is not, and `Peek` lets its caller read the
queue's own array after the lock is gone. The cloud service holds one lock per
node for a whole `Upload`, `Download` or `Delete`, network requests included;
the handler that serves other nodes takes no lock and reads the disk directly.
Chat rooms run a reading goroutine each, which sends into one channel per
service. A relay node spreads content over the relays that its router's ring
names at that moment, by goroutines whose failures nobody sees, and looks for it
where the ring points later. The Raft library calls the store's FSM on every node, and persists
its snapshots while later entries are applied.

### What is hard here

* **Shared backing arrays.** `Peek` returns a slice, not a copy. `append` and
  `RemoveMessage` write the array under it, while two rounds of deliveries may
  range over it at once.
* **Crashes and failing writes.** `os.WriteFile` truncates before it writes;
  load skips files that do not parse; errors of saving are ignored.
* **Lock-free reads** of another operation's half-written files.
* **Locks held across network requests** between nodes that ask each other.
* **Accounts that are deleted and start anew** (token buckets, connection
  counts), and books kept in three places at once (the cache).
* **Deliveries and requests without a deadline**, some made under a lock.
* **Messages that do not decode**, and errors that nobody sees.
* **A state rebuilt in several ways**: by entries, by a snapshot of its own, by a
  leader's snapshot over old data, after a restart; and calls whose outcome is
  unknown when the leader is lost.
* **Replicas placed by one ring and looked for by another.**
* **Channels that are closed, and rooms that are left, under running goroutines.**

`PROJECT.json` lists each hazard at the line where it bites, with the properties
that would catch it.

### What makes each part correct

* Queue: it behaves as a list of messages per peer with value semantics
  (`ImplementsStoreForward`); peers' arrays stay apart (`HeapOK`); a peeked slice
  shows messages only (`PeekedReadable`); the files are the lists
  (`SavedWhenUnlocked`).
* Relay: no accepted message disappears unsent (`NoMessageLost`); the queue
  drains (`QueueDrains`); it is used only through its operations
  (`UsesMessageQueue`).
* Limiter: in every window of time the grants keep to burst + rate x window
  (`RequestWindowBound`, `GlobalWindowBound`, `ByteWindowBound`), and no
  connection slot leaks (`NoSlotLeak`).
* Cache: list, map and byte count agree (`InStep`), no outdated content is
  served (`NeverOutdated`), eviction is least-recently-used (`WorkingSetKept`).
* Cloud: a chunk of a listed file is missing only if a file that was deleted, or
  whose `Store` or `Delete` was cut off, has it too (`ListedIsWhole`); a successful
  download is the file asked for (`DownloadFaithful`); nodes do not wait for each
  other, unless they ask one that never answers (`OperationsEnd`).
* Chat: each room's messages reach the user in order and completely (`InOrder`),
  other members see this node's stays in a room one after the other
  (`SessionOrder`), and the goroutines of a room end (`LoopsEnd`).
* Raft store: every map and snapshot is the state after a prefix of one log
  (`StateIsLog`), an answered write is visible where it was made
  (`ReadYourWrites`), and calls come back (`CallsEnd`).
* Relay network: a change of the ring moves at most one of the three relays a key
  belongs to (`RingMovesFew`), and what was cached is found there
  (`FetchRetrieves`, which the code does not keep).

## 2. Plan

Order of work, most important behaviour first:

1. `StoreForward`, `MessageQueue`, `RelayDelivery`, `DeliveryRounds`: done.
2. `RateLimiter`, `LRUCache`, `CloudStorage`, `ChatRooms`: done.
3. `RaftStore`: the FSM as a function of the log under snapshot, restore and
   replay, calls that fail and commit later: done, with proofs.
4. `RelayNetwork`: `Cache` and `Fetch` across relays with the router's choice of
   replicas: done.
5. Smaller ones: direct messages against `Close`, `Wallet.Save` and a crash, the
   unguarded `advertisedHash`, the members of a chat room, `Join` and `Leave`.

Every safety property that a passing run checks is also proved (section 5). Left
are the parts named under 5.

## 3. The modules

| Module | What it is |
|---|---|
| `StoreForward` | abstract specification of the queue: a list and a durable copy per peer |
| `MessageQueue` | `queue.go` with slices, arrays, files, crashes; implements `StoreForward` |
| `RelayDelivery` | the relay's goroutines over `MessageQueue` (EXTENDS it) |
| `DeliveryRounds` | `RelayDelivery` with a history of what each round owes |
| `RateLimiter`, `LRUCache`, `CloudStorage`, `ChatRooms`, `RaftStore` | one component each |
| `RelayNetwork` | the router, with `Cache` and `Fetch` of a node over it |
| `MessageQueueProofs`, `RelayDeliveryProofs` | theorems about the queue, its refinement and the relay over it, and their proofs |
| `RateLimiterProofs`, `LRUCacheProofs`, `CloudStorageProofs`, `ChatRoomsProofs`, `RaftStoreProofs`, `RelayNetworkProofs` | theorems about one module each, and their proofs |
| `MC*` | instances for TLC |

Operators whose comment starts with "Mutant" are deliberately wrong variants of
the definition that follows them, each a plausible slip in the code. Put in its
place, each makes TLC refute the property it is paired with in `PROJECT.json`.
They are part of no specification.

### MessageQueue

`pending[p]` is a Go slice, `[arr, len]`, and `heap[arr]` its backing array,
whose length is the capacity; `held[r]` is the slice a caller of `Peek` or
`Dequeue` still uses. Every slice in `queue.go` starts at element 0, so offsets
are not needed. `AppendEntry` is Go's `append` (in place, or into an array of
twice the capacity), `RemoveMessage` shifts the tail in the array and leaves the
last slot behind, `MarkAttempt` increments in the array, `Cleanup` builds fresh
slices. `Collect` is the garbage collector.

Every operation runs under `q.mu` and saves the peers it touched before it
returns. Its first step changes the memory and puts these peers into `dirty`;
`SaveRemove`, or `SaveTruncate` and `SaveWrite`, write one file each; the lock is
free when `dirty` is empty. `SaveFail` is an error of a save, which the callers
ignore, and `Restart` a crash followed by `load`. Crashes may fall between any two
steps, including between truncating a file and writing it.

Abstractions: a message is its ID, its identity (`body`), expiry and attempts;
attempts saturate at `maxRetry`, the only value they are compared with. IDs the
queue makes up from the clock are any ID, also one in use.

### RelayDelivery and DeliveryRounds

The goroutines are `Readers`: `Loop` and the stream handlers. A forward is
received (`ReceiveForward`), its recipient looked up (`CheckOnline`), delivered to
(`DirectDelivery`) and on failure queued (`EnqueueForward`), each a step of its
own because no lock spans them. A round, in the delivery loop or for an
announcement, peeks (`StartRound`), copies an element (`CopyFirst`, `CopySecond`),
delivers it (`DeliverOk`, `DeliverError`), removes or marks it (`RemoveDelivered`,
`MarkFailed`), and waits for the call to return (`Continue`). Copying an element
without `q.mu` is a data race: the copy takes two steps, in either order, between
which the array may change; `mixed` remembers that it did. `online` holds the
peers seen in the last five minutes; `GoStale` is that time passing.

`Close` is not an action: it cancels the loops and removes the handlers, and a
behaviour in which they take no further step is allowed anyway. A relay without
a data directory has no queue and is not modelled.

### RateLimiter

Every operation is one action. Tokens are counted in units for which the refill
of a tick is whole, which the code's floating-point tokens approximate. The
history variables count what was granted since `OpenWindow`, which may happen at
any time: an invariant about them speaks of every window. `forgotten` counts the
byte buckets that `Cleanup` deleted.

### LRUCache

The list, the map and the byte count are separate variables, as in the code.
What an operation does to them one after the other is written as a function from
their values, `Fields`, to new ones: `RemoveElement`, `Without` (the old item of a
key), `Evicted` (the loop of `PutWithTTL`, the first of the `Evictions` that makes
enough room) and `Sweeps` (the loop of `CleanupExpired`). `PutWithTTL` is one action
per outcome: stored or refused as too large, both after the evictions. Hit
counters are left out. `latest` and `touched` are history: what a key should
answer with, and how much was used since.

### CloudStorage

One operation at a time per node (`op`, which is also who holds `s.mu`); each step
is a system call or a request. Files are named by their content; two files may
share chunks. `TryProvider` and `FetchChunk` read the provider's disk between any
two steps of its own operation, as `handleTransfer` does. `EditFile` lets the user
change the file between the two readings of `Store`. Operators that may fail
(`LoadMetadata`, `GetChunk`, and the answers of `handleTransfer` made of them) are
sets with one element or none. A download in `GiveUp` goes on to the next provider;
its temporary file is gone if a chunk was not answered and stays if it could not
be renamed. `Others` is the skip of the node itself (`service.go:120`). The DHT is
external: records appear by `Advertise`, expire, and a lookup returns any part of
them.

`undone` is history: the files of a node whose last `Store` or `Delete` is not a
`Store` that came to its end. `Mute` are nodes that may accept a request and never
answer: they take every step of the others, but none of their answers is owed.

### ChatRooms

Every `JoinRoom` makes a new `Room` object, an element of `room`; `rooms` is the
service's map from IDs to these. A call is a sequence of steps: those under
`s.mu` hold `lock`, while `SendMessage` gives it back before it publishes and
`Close` cancels the context before it asks for it. `readLoop` is `ReadNext`, then
one of the two cases of its select (`SendToChan`, or `SendOnClosed` on a closed
channel, which panics; and `ReadEnd`); `peerLoop` is `WatchStart` and `WatchEnd`,
and what it keeps in between, an event handler on the topic, is what matters to
others. Cancelling the subscription and closing the topic are one step: the
only thing in between that matters, the end of `peerLoop`, may as well come
before.

External, from how the code uses GossipSub: joining a topic that is joined fails,
closing one fails as long as it has an event handler, publishing on a closed one
fails, a subscription drops what does not fit its buffer, can be read empty after
it was cancelled, and gets the node's own messages, which `readLoop` passes over
as it does what it cannot decode.

Two things the model shows and no property can exclude: `readLoop` may panic at
`Close` (`SendOnClosed` is reachable), and `LeaveRoom` leaves the topic open when
`peerLoop` has not ended yet, after which the room cannot be joined again.

### RaftStore

hashicorp/raft is external and reduced to what `raft.go` can observe: the
committed `log`, the current leader's uncommitted entries (`pending`), and the
nodes whose `State()` is `Leader` (`leaders`), among them deposed ones that do not
know it yet. `Elect` keeps any of the uncommitted entries, in the order of their
calls; Raft allows fewer choices, so what holds here holds there. `StepDown` fails the calls that
are not committed, and perhaps some that are. Calls are numbered, and the log is
a sequence of numbers, so that an entry is tied to the caller that waits for it.

`Submit` is `Apply` after its leader check; refused calls (not leader, or a value that
`json.Marshal` rejects) change nothing and are the absence of a step. `ApplyEntry` is the library
handing the next entry to `FSM.Apply` and answering the future; `Snapshot` copies the
map, `Persist` or `PersistError` ends the snapshot later, while `ApplyEntry` goes on;
`InstallSnapshot` is `Restore` over the old map of a node that lags behind, with the
snapshot filed in its own store; `Restart` is a new FSM and `Restore` of the newest snapshot,
after which the entries behind it are applied again. JSON is the function
`Decoded`: numbers come out as `float64`, and decoding what was decoded changes
nothing, which `StoreAssumption` states and `Restore` depends on. An `Op` that
the FSM does not know commits, is answered with nil and changes nothing. So does
an entry that `json.Unmarshal` rejects (`raft.go:281`): `FSM.Apply` returns the error as
the response of the future, which `Apply` (`raft.go:185`) does not look at. The
command "other" stands for both.

### RelayNetwork

One node, `Self`, caches one content under one key, once, and fetches it. The
router's `nodes` and `ring` change by its operations, each with its
`rebuildRing`, any time, also during a `Fetch`. `Rank` is the external hash ring's
order of the relays from the key's position on; virtual nodes and weights only
influence it. `held` is who has the content: caches are `LRUCache` elsewhere, and
here lose it at any time (`Lose`). A goroutine of `Cache` is an element of
`sending`: its message reaches the relay (`Send`) or is lost (`SendLost`, which
includes a limiter that refuses the stream). `Fetch` looks at its own cache, looks
three relays up, and asks them one by one (`Ask`, `AskLost`).

What arrives is `Decoded` of what was sent. `Cache`, `Fetch` and `handleGetStream`
leave `From` empty, which is encoded as an empty string (`node.go:36` has no
`omitempty`), and decoding a `peer.ID` rejects that; content that is not JSON (`Data`)
fails to encode as a `json.RawMessage` before that. `HoldersAfter` and `Answers` are
`handleRelayStream` and `handleGetStream` upon a message that decodes, so that in the
code's behaviour no relay but `Self` ever holds the content and no request is
answered: `Cache` and `Fetch` work on the node's own cache only. `FetchRetrieves`
states what their comments promise instead.

`changes` counts the changes of the ring since `Cache`, and `faulty` records that a
copy, a send or a request was lost; both are history. The content is not empty
(`handleCache` and `Fetch` ignore empty ones) and relay IDs are valid peer IDs.

## 4. Runs

| Run | Instance | What it checks |
|---|---|---|
| `queue` | 2 peers, 2 messages (one with an ID that may collide), 5 arrays, 1 reader, 1 crash or failed save | the queue's invariants, and that it implements `StoreForward` |
| `relay` | 1 recipient, 2 messages, delivery loop and one handler, no fault | `NoMessageLost` under all interleavings of two rounds, appends, cleanups and failures |
| `relay_restart` | 1 message, 1 crash or failed save, 3 arrays, fair | no loss over a restart, `UsesMessageQueue`, and `QueueDrains` |
| `limiter` | 1 peer, burst 2, rate 1, global bucket twice a peer's, 5 ticks, 2 resets per window | the three window bounds, no slot leak |
| `cache` | 3 keys, contents of 1, 2 and 4 bytes, capacity 3, TTL 0 or 1, 2 ticks | `InStep`, `NeverOutdated`, `WorkingSetKept` |
| `cloud` | 1 node, 2 files of 2 chunks that share one, 1 edit, 2 faults | `ListedIsWhole` |
| `cloud_transfer` | 2 downloaders, 2 providers of which one is mute, a file of 1 chunk, fair | `DownloadFaithful` when providers fail and others take over, `OperationsEnd` |
| `chat` | 1 room ID, 2 `Room`s, 2 callers, 1 `SendMessage`, 2 messages of others, channel and subscription of 1, fair | `InOrder`, `SessionOrder`, `LoopsEnd` |
| `rounds` | as `relay`, 3 messages | **violated**: `RoundDeliversAll` |
| `raft` | 2 nodes, 1 key, 2 calls, any elections, snapshots and restarts, fair | `StateIsLog`, `ReadYourWrites`, `CallsEnd` |
| `network` | `Self` (second in the ring) among 5 relays, 2 changes of the ring | `RingMovesFew` |
| `network_fetch` | `Self` among 4 relays, no change of the ring | **violated**: `FetchRetrieves` |

`rounds` is a disagreement between the code and its comment, "Deliver any pending
messages" (`node.go:233`): the loop ranges over the peeked slice, and
`RemoveMessage` shifts that array after each success, so the message that moves
into the visited place is passed over and the last element is seen twice. What
was passed over waits for another round.

`network_fetch` is another: "Cache stores content in the relay network" with "3
replicas" (`node.go:306`, `312`), and "Fetch retrieves content from the relay network"
(`node.go:342`), but the messages of `Cache` (`node.go:331`), of `Fetch` (`node.go:363`) and
the response (`node.go:186`) have no `From`, so that the `Decode` at `node.go:145`, `179` and
`367` fails, and these errors are ignored. In the run the node caches the content,
all sends arrive, its own cache loses it, and `Fetch` reports it as not found.

Two more shortcomings show in the models as exceptions of passing properties.
"P2P file transfer protocol with verification" (`docs/ARCHITECTURE.md:130`): no
hash is compared, so a chunk read while its provider rewrites it (`Partial` in
`CloudStorage`) reaches the destination of a download that reports success. And
`Delete` removes chunks that other stored files list, as `Store` truncates them
before it writes them again, and an error leaves them so: `ListedIsWhole` says that
these chunks, those of the files in `undone`, are all that a listed file can
miss. It and `DownloadFaithful` say nothing once a file was changed between the
two readings of `Store`, which files the new content under the old hash.

`NoMessageLost` has an exception too, `mixed`: a copy that the range loop takes
while the array is shifted can carry the content of one message and the ID of
another, and the second is then removed unsent.

### Bounds, and why they are enough

* Two messages are the fewest for which a removal shifts an array under a
  reader's index and an append reallocates; two rounds over one array are the
  fewest that interfere. The theorems of section 5 cover longer lists.
* Arrays: `queue` has one per peer, one per reader and one fresh one per peer for
  `Cleanup`, so an operation is never disabled for lack of one; `relay` likewise.
  In `relay_restart` three arrays may delay a `Cleanup` of live messages while
  both goroutines hold old arrays; it is enabled again once they expire, which
  is what draining relies on.
* One fault reaches every place where a save can be cut off; a second would start
  from a state that `Restart` reaches anyway.
* `TTL`, `MaxRetry` and `MaxNow` of 1 let messages expire and use up attempts
  before, during and after a round. Messages are enqueued only while their
  expiry is within `MaxNow`, so that every accepted one can expire.
* In `limiter` the maximal age of 2 and 5 ticks allow a bucket to be emptied,
  deleted as stale and started anew within one window; two resets let the peer
  exceed the global limit if that were not enforced.
* In `cloud` two files share a chunk and have one of their own each, so that what
  is done to one can be told from what it does to the other; two faults leave one
  file cut off and then another, or a file half deleted after a restart.
* In `cloud_transfer` there are no crashes and failed writes: `handleTransfer` sees
  torn files anyway, while a provider is writing. One node is a downloader and a
  provider, one only the former and one, mute, only the latter, so that nodes can
  ask each other with their locks held, and a download can turn from either
  provider to the other. The file has one chunk, which is what the temporal check
  allows; a second attempt over a file of many chunks is covered by the theorem,
  and an attempt that keeps the chunks of the last one breaks the property with
  one chunk already, once the first attempt fails to rename. `Uploaders` and `Downloaders`
  name the nodes whose users do these things.
* In `chat` a channel of one message is full after one, two texts let a `readLoop`
  wait on it while another is in the channel, and two `Room`s of one ID are a
  room that is left and joined again, with the goroutines of both running. One
  message is sent, by the caller `Senders` names (the callers are alike).
* In `raft` two entries are the fewest for which a snapshot is older than the map
  beside it, a key is set and deleted, and a lagging node gets a snapshot over
  data it has; two nodes are a leader and a deposed one or a follower. Elections,
  snapshots and restarts are not bounded. The theorems cover all sizes.
* In `network` five relays leave a ring of three after two removals, and two
  changes are the most after which `RingMovesFew` promises a relay. `Self` is in
  the router or not, and may be added and removed. `network_fetch` needs four:
  `Self` and the three that are asked when it is no relay itself.
* Symmetry: array addresses are interchangeable (only equality of addresses is
  ever tested, and `NewArrays` picks among free ones, whose contents are all
  empty, so that states reached by different picks are permutations of each
  other). It is used in safety runs only.

`CHECK_DEADLOCK FALSE` is set throughout, because each model may stop at its
bounds and the program may at any time have nothing to do.

### Fairness

* `RelayDelivery`: strong fairness of `CleanQueue` (the cleanup ticker fires again
  and again, and `sync.RWMutex` does not starve a waiting writer, though the lock
  comes and goes), weak fairness of saving and of the clock. None of deliveries:
  a stream has no deadline in the code, and the delivery loop may hang in one.
  `QueueDrains` holds without it.
* `CloudStorage`: weak fairness of the steps of a node's operation: a system call
  returns, and a request is answered or its stream fails, unless its provider is
  one of `Mute`. The transfers read their streams without a deadline
  (`transfer.go:191`, `230`) and no context they get has one, so that a `Download` from a
  provider that keeps silent holds its node's `s.mu` for good; `OperationsEnd` excepts
  the downloads that have such a provider before them, and shows that nobody else
  waits for them. No fairness of users, advertisements or expiries.

* `ChatRooms`: weak fairness of the callers' steps, of the end of a `readLoop` and
  of `peerLoop`. A goroutine that can run does, and Go's select chooses at random
  among the cases that are ready, so that the end of the context is not passed
  over for ever. None of the user, who may have stopped reading the channel, nor
  of the network.

* `RaftStore`: weak fairness of committing what a leader holds, of applying
  committed entries, and of a deposed leader finding out, which the library does
  by its heartbeats and lease. None of elections, snapshots, restarts or callers.

## 5. What is proved

All theorems are about `Spec` (`RSpec` for the relay) with arbitrary constants that
satisfy the named assumptions.

### MessageQueueProofs

Assumptions: `ConstantsAssumption` (identities are distinct from the null values,
bounds are naturals) and `ArraysAssumption` (an array can be given to every peer
after a restart).

* `TypeCorrect`: `Spec => []TypeOK`.
* `HeapDiscipline`: `Spec => []HeapOK`.
* `PeekStaysReadable`: `Spec => []PeekedReadable`.
* `CrashConsistent`: `Spec => []SavedWhenUnlocked`.

The first four are proved together: the inductive invariant is their conjunction.
`HeapOK` is needed by the others, because only if no two peers share an array
does an update for one leave the `View` of another, and so the agreement with its
file, as it was. `PeekedReadable` needs that shifts and appends write real
messages only, which is `HeapOK` again, and that the collector spares the arrays
a reader holds. For the savings, `SaveWrite` establishes
the agreement for the peer it takes out of `dirty`, and every operation adds to
`dirty` the peers whose list it changes.

* `QueueImplementsStoreForward`: `Spec => ImplementsStoreForward`.

The last is a step simulation. The abstract list of a peer is `View(p)`, what its slice shows,
and the abstract durable copy is `Loaded(p)`, what `load` would make of its file.
For each operation the proof computes the new `View` of the peer it is for from
the new array (an append in place or into a larger one, a shifted tail, an
incremented counter, a fresh slice) and shows that every other peer's is as it
was (`OthersKept`), which is `HeapOK`. The steps of a save change `Durable` only, the
steps of readers and the collector nothing, and after `Restart` each list is what
its file held (`ViewRestart`).

### RelayDeliveryProofs

Assumption, besides the queue's: `RelayAssumption` (the delivery loop is one of
the goroutines, every message has a recipient).

* `RelayTypeCorrect`: `RSpec => []RelayTypeOK`.
* `RelayUsesMessageQueue`: `RSpec => UsesMessageQueue`, that is `RSpec => Spec` of
  `MessageQueue`: every theorem about the queue is one about the relay.
* `RelayLosesNothing`: `OwnIds` gives `RSpec => []NoMessageLost`.

`OwnIds` says that senders give each message an ID that no other carries, and is a
hypothesis of the last theorem only: `RemoveMessage` removes by ID, and of two
messages with one ID the wrong one goes.

The queue's invariant is strengthened by three facts that only the relay needs.
`Collected`: an array that nobody holds is empty, so that `EndRound` without a slice
is a stutter. `HeapGenuine`: *every* array, also one that `pending` left long ago,
holds accepted messages under their senders' IDs, because a round copies from the
array that it peeked at, whatever became of the list since. `DiskGenuine`: the
same for the files, for a restart. `RoundsOK` says for each point of a goroutine
what it has got by then, up to the essential one: a copy that is delivered and
was not put together from two messages (`mixed`) has its own message's ID, so that
what is removed is what was sent.

### RateLimiterProofs

Assumption: `LimiterAssumption`, in particular `Rate * MaxAge >= Burst`: a bucket
that `Cleanup` deletes would have been full again. The code's values (100 per
second, bursts of 200, 24 hours) satisfy it by far; without it the theorem is
false, as the mutant `StaleAtOnce` shows.

* `TypeCorrect`, `RequestsBounded`, `GlobalRequestsBounded`, `BytesBounded`,
  `SlotsNotLeaked`.

The inductive invariant replaces the bound by a credit: what was granted so far,
*plus the tokens still in the bucket*, is at most burst x (1 + resets) + rate x
(time of the last refill - start of the window). A refill moves both sides by the
same amount or cuts the left one down; a grant moves a token from one summand to
the other; a missing bucket counts as a full one. A window that opens between two refills is
covered by its own disjunct, in which nothing has been granted yet. For bytes
the same credit argument is an invariant of its own, `ByteInv`: `Cleanup` judges a
byte bucket by the age of the request bucket and may delete it half empty, so
each deletion (a reset or one counted by `forgotten`) is paid with a burst.

### LRUCacheProofs

Assumption: `CacheAssumption` (sizes and bounds are naturals, and there are
finitely many keys: `WorkingSetKept` adds up over them).

* `TypeCorrect`: `Spec => []TypeOK`, in particular that the capacity is kept.
* `ThreeInStep`: `Spec => []InStep`.
* `NothingOutdated`: `Spec => []NeverOutdated`.
* `WorkingSetStays`: `Spec => []WorkingSetKept`.

The inductive invariant is the four and `UseOrder`: for an item anywhere behind
another one in the list, `touched` counts at least the size of the other one. So
when the item at place p goes in `Evicted`, all in front of it and the new one were
used since, and did not fit with it: `EvictedOverfull` turns that into an order of
keys whose sum refutes `Promised`. `FitsLess` says that a promise that was not given
does not come back while an item is gone.

Sums and loops are recursive functions over 0..n. What they compute is proved by
`SetInduction` (a set that contains 0 and with each number the next has them all,
from the smallest number outside) and `Iteration` (such a function exists and is
the one the definition chooses). One iteration of a loop is `RemoveGood`: removing
an element keeps list, map and byte count in step.

### CloudStorageProofs

Assumption: `CloudAssumption` (files have contents, the null values are none of
the real ones).

* `TypeCorrect`: `Spec => []TypeOK`.
* `ListedFilesAreWhole`: `Spec => []ListedIsWhole`.
* `DownloadsAreFaithful`: `Spec => []DownloadFaithful`.

Each is an invariant of one node, and a frame lemma (`Elsewhere`) says that a step of
a node leaves the others alone, so that a download from a node that is writing
is covered by what its disk may be at any step. `WholeInv`, for as long as no
file was edited, adds to the claim about listed files (`ListedKept`) what makes it
inductive: the chunks that `Store` has handled are whole (but one of the same name
may be under way again) and its file is in `undone`, until `WriteMeta` lists them and
takes the file out (`StoredWhole`); and the chunks that `Delete` has still to remove
are those of its file, which is in `undone` (`DeletedOwn`). That a list is the content of its file comes from `FaithfulInv`.
`FaithfulAt` says that the chunks an operation has read and those it still
has to read make up the file (`MakeUp`), except for what was read torn; that a
metadata file lists its file; and that nobody has been told of a file that is
still being written.

### ChatRoomsProofs

Assumption: `ChatAssumption` (buffers hold at least one message).

* `TypeCorrect`: `Spec => []TypeOK`.
* `MessagesInOrder`: `Spec => []InOrder`.
* `SessionsInOrder`: `Spec => []SessionOrder`.

`SessionOrder` rests on: publications are filed under the ID of their `Room`
(`FiledById`); an open topic belongs to the last `Room` of its ID (`OpenIsLast`), as
joining a joined topic fails; and a `Room` with an open topic has published its
join message, or its `JoinRoom` is still under way, holding the lock, and no
`SendMessage` has got the `Room` (`JoinFirst`). For `InOrder`, the numbers of what was
received, what the channel holds, what `readLoop` holds and what the subscription
holds count up one by one; a step moves the border between two of these.

### RaftStoreProofs

Assumption: `StoreAssumption`, in particular that JSON decoding is idempotent.

* `TypeCorrect`: `Spec => []TypeOK`.
* `StateFollowsLog`: `Spec => []StateIsLog`.
* `WritesVisible`: `Spec => []ReadYourWrites`.

`TypeOK` is inductive because it says of every map that its values are unchanged
by decoding (so that `Restore` is the identity, `RestoreIsIdentity`) and that
snapshots are never ahead of their node. `StateIsLog` speaks of the map, the snapshot
under way and the stored one alike, which makes it inductive relative to `TypeOK`: each of them
after a step was one of them before it, except for the result of `FSM.Apply`,
which `EffectHolds` takes from one prefix to the next; and what a prefix of the
log leaves under a key never changes again (`HoldsKept`). The reference is stated without recursion: the value
under a key is what the last entry that writes it wrote.

### RelayNetworkProofs

Assumption: `NetworkAssumption` (finitely many relays, each with a place of its own
in the ring).

* `TypeCorrect`: `Spec => []TypeOK`.
* `FewRelaysMove`: `Spec => []RingMovesFew`.

Changes pay for relays: those of `home`, which `Cache` chose, that are no longer
among the responsible ones of the ring (`Gone`) are at most as many as the changes
(`Covered`). `Responsible(R)` are the relays with fewer than three in front of them,
which `GetNodes` returns exactly (`GetNodesFacts`), and a relay more or less in the
ring takes at most one out of that set (`OneMore`, `OneLess`).

### Only model-checked

Liveness (`QueueDrains`, `OperationsEnd`, `LoopsEnd`, `CallsEnd`) is out of the prover's
reach.

## 6. What is not modelled

* `WaitTime`'s result, hit counters and statistics: nothing depends on them.
* What encoding/json does to the content of a message (numbers lose precision
  when decoded into `interface{}`). In `RaftStore` this is `Decoded`.
* Values of the store are opaque: `Get`, `GetAll` and `Snapshot` copy the map but
  share the lists and maps in it with their callers.
* Streams that the limiter refuses, and in `RelayDelivery` those that do not decode:
  they change nothing.
* The sending side of the relay's `Forward` (one message written to one stream of
  the relay that `GetNode` names). A forwarded message that arrives at its
  recipient is handled by `handleForward` there like any other, and queued: nothing
  hands it to the application.
* Versions of a content: two calls of `Cache` for a key, or a `Cache` during a `Fetch`,
  leave whichever content arrives last in the node's own cache.
* `Join` and `Leave` of the Raft store: they change the library's configuration
  only. A `Join` that fails after it removed the server has to be repeated.
* Direct messages and the wallet: planned, see section 2. The Raft protocol,
  libp2p, the DHT and GossipSub are libraries.
* Host wiring, configuration and the command line.
