---------------------------- MODULE CloudStorage ----------------------------
(***************************************************************************)
(* The cloud service of a set of nodes, src/internal/cloud: files stored   *)
(* as content-addressed chunks and a metadata file that lists them         *)
(* (storage.go), advertised in a DHT (index.go) and fetched from other     *)
(* nodes (transfer.go).                                                    *)
(*                                                                         *)
(* Upload, Download and Delete hold s.mu of their node (service.go) from   *)
(* beginning to end, so that each node has one operation under way at a    *)
(* time; its steps are single system calls and requests.  handleTransfer   *)
(* takes no lock: it reads a provider's disk between any two steps of the  *)
(* provider's own operation.  os.WriteFile truncates, then writes, and a   *)
(* file read in between, or after a crash in between, is torn.             *)
(*                                                                         *)
(* A file is named by the hash of its content, a chunk by the hash of its  *)
(* own.  List, GetInfo, Share and handleNotify change nothing.             *)
(***************************************************************************)
EXTENDS Naturals, Sequences, FiniteSets, Functions

CONSTANTS Nodes, Files, Chunks,
          Content,    \* Content[f]: the chunks of file f
          Partial,    \* what is read of a torn chunk
          NoFile, NoNode,
          Uploaders, Downloaders,  \* bound: the nodes whose users store files, and
                                   \* whose users fetch them
          Mute,       \* nodes that may accept a request and never answer it
          MaxEdits,   \* bound on files that change while they are uploaded
          MaxFaults   \* bound on crashes and failed writes and removals

ASSUME CloudAssumption ==
    /\ Content \in [Files -> Seq(Chunks)]
    /\ Partial \notin Chunks /\ NoFile \notin Files /\ NoNode \notin Nodes
    /\ Uploaders \subseteq Nodes /\ Downloaders \subseteq Nodes
    /\ Mute \subseteq Nodes
    /\ MaxEdits \in Nat /\ MaxFaults \in Nat

VARIABLES chunks,      \* [Nodes -> [Chunks -> state]]: files of chunksDir
          meta,        \* [Nodes -> [Files -> Meta]]: files of metaDir
          dest,        \* [Nodes -> Seq(Chunks \cup {Partial})]: the file at destPath
          op,          \* [Nodes -> Operation]: what holds s.mu
          advertised,  \* [Nodes -> SUBSET Files]: index.advertisedHash
          dht,         \* [Files -> SUBSET Nodes]: provider records (external)
          claim,       \* history: the file that a Download said is at destPath
          undone,      \* history: files whose last Store or Delete on the node
                       \* is not a Store that came to its end
          edits, faults

disks == <<chunks, meta, dest>>
vars  == <<disks, op, advertised, dht, claim, undone, edits, faults>>
-----------------------------------------------------------------------------
Meta == [state: {"absent", "whole", "torn"}, list: Seq(Chunks)]
NoMeta == [state |-> "absent", list |-> <<>>]
TornMeta == [state |-> "torn", list |-> <<>>]

(* kind: the step the operation is at; todo: chunks still to be handled;   *)
(* list: chunks handled so far, or their data; from: the provider a file   *)
(* is fetched from; next: the providers not tried yet.                     *)
Idle == [kind |-> "idle", file |-> NoFile, todo |-> <<>>, list |-> <<>>, from |-> NoNode, next |-> {}]

Free(n) == op[n].kind = "idle"
At(n, kind) == op[n].kind = kind
Step(n, o) == op' = [op EXCEPT ![n] = o]
Return(n) == Step(n, Idle)

(* The next chunk of an operation, and the operation once it is handled.   *)
Chunk(n) == Head(op[n].todo)
Handled(n, kind, d) ==
    [op[n] EXCEPT !.kind = kind, !.todo = Tail(@), !.list = Append(@, d)]

SetChunk(n, c, s) == chunks' = [chunks EXCEPT ![n][c] = s]
SetMeta(n, f, m) == meta' = [meta EXCEPT ![n][f] = m]

(* Exists looks for the metadata file, loadMetadata also decodes it. *)
Exists(n, f) == meta[n][f].state # "absent"
LoadMetadata(n, f) == IF meta[n][f].state = "whole" THEN {meta[n][f].list} ELSE {}

(* GetChunk and os.ReadFile of chunk c on node m: what it yields, if any. *)
GetChunk(m, c) == IF chunks[m][c] = "absent" THEN {}
                  ELSE {IF chunks[m][c] = "whole" THEN c ELSE Partial}

(* handleTransfer of node m: its answers to a request for the metadata of  *)
(* file f, and to one for chunk c; none is an error response.              *)
AnswerMetadata(m, f) == LoadMetadata(m, f)
AnswerChunk(m, c) == GetChunk(m, c)

Init == /\ chunks = [n \in Nodes |-> [c \in Chunks |-> "absent"]]
        /\ meta = [n \in Nodes |-> [f \in Files |-> NoMeta]]
        /\ dest = [n \in Nodes |-> <<>>]
        /\ op = [n \in Nodes |-> Idle]
        /\ advertised = [n \in Nodes |-> {}]
        /\ dht = [f \in Files |-> {}]
        /\ claim = [n \in Nodes |-> NoFile]
        /\ undone = [n \in Nodes |-> {}]
        /\ edits = 0 /\ faults = 0
-----------------------------------------------------------------------------
(* Store hashes the whole file, then reads it a second time. *)
Store(f) == [Idle EXCEPT !.kind = "store", !.file = f, !.todo = Content[f]]

Upload(n, f) ==
    /\ Free(n) /\ n \in Uploaders
    /\ Step(n, Store(f))
    /\ undone' = [undone EXCEPT ![n] = @ \cup {f}]
    /\ UNCHANGED <<disks, advertised, dht, claim, edits, faults>>

(* Somebody replaces the file between the two readings. *)
EditFile(n, g) ==
    /\ At(n, "store") /\ op[n].list = <<>> /\ g # op[n].file
    /\ edits < MaxEdits
    /\ edits' = edits + 1
    /\ Step(n, [op[n] EXCEPT !.todo = Content[g]])
    /\ UNCHANGED <<disks, advertised, dht, claim, undone, faults>>

(* Save chunk, also when a chunk of this name is there already. *)
TruncateChunk(n) ==
    /\ At(n, "store") /\ op[n].todo # <<>>
    /\ SetChunk(n, Chunk(n), "torn")
    /\ Step(n, [op[n] EXCEPT !.kind = "storing"])
    /\ UNCHANGED <<meta, dest, advertised, dht, claim, undone, edits, faults>>

(* Mutant: the error of os.WriteFile is ignored. *)
WriteChunkUnchecked(n) ==
    /\ At(n, "storing")
    /\ \/ SetChunk(n, Chunk(n), "whole") /\ UNCHANGED faults
       \/ faults < MaxFaults /\ faults' = faults + 1 /\ UNCHANGED chunks
    /\ Step(n, Handled(n, "store", Chunk(n)))
    /\ UNCHANGED <<meta, dest, advertised, dht, claim, undone, edits>>

WriteChunk(n) ==
    /\ At(n, "storing")
    /\ SetChunk(n, Chunk(n), "whole")
    /\ Step(n, Handled(n, "store", Chunk(n)))
    /\ UNCHANGED <<meta, dest, advertised, dht, claim, undone, edits, faults>>

(* Save metadata *)
TruncateMeta(n) ==
    /\ At(n, "store") /\ op[n].todo = <<>>
    /\ SetMeta(n, op[n].file, TornMeta)
    /\ Step(n, [op[n] EXCEPT !.kind = "filing"])
    /\ UNCHANGED <<chunks, dest, advertised, dht, claim, undone, edits, faults>>

WriteMeta(n) ==
    /\ At(n, "filing")
    /\ SetMeta(n, op[n].file, [state |-> "whole", list |-> op[n].list])
    /\ undone' = [undone EXCEPT ![n] = @ \ {op[n].file}]
    /\ Step(n, [op[n] EXCEPT !.kind = "advertise"])
    /\ UNCHANGED <<chunks, dest, advertised, dht, claim, edits, faults>>

(* A write fails: Store returns, and leaves what it has written. *)
StoreError(n) ==
    /\ op[n].kind \in {"store", "storing", "filing"}
    /\ faults < MaxFaults
    /\ faults' = faults + 1
    /\ Return(n)
    /\ UNCHANGED <<disks, advertised, dht, claim, undone, edits>>

(* Advertise; on an error the file is only stored. *)
Advertise(n) ==
    /\ At(n, "advertise")
    /\ \/ /\ advertised' = [advertised EXCEPT ![n] = @ \cup {op[n].file}]
          /\ dht' = [dht EXCEPT ![op[n].file] = @ \cup {n}]
       \/ UNCHANGED <<advertised, dht>>
    /\ Return(n)
    /\ UNCHANGED <<disks, claim, undone, edits, faults>>

(* AdvertiseLoop: each of the advertised hashes may fail again. *)
AdvertiseLoop(n) ==
    /\ advertised[n] # {}
    /\ \E S \in SUBSET advertised[n] :
          dht' = [f \in Files |-> IF f \in S THEN dht[f] \cup {n} ELSE dht[f]]
    /\ UNCHANGED <<disks, op, advertised, claim, undone, edits, faults>>

(* Provider records of the DHT expire. *)
ExpireRecord(f, n) ==
    /\ n \in dht[f]
    /\ dht' = [dht EXCEPT ![f] = @ \ {n}]
    /\ UNCHANGED <<disks, op, advertised, claim, undone, edits, faults>>
-----------------------------------------------------------------------------
(* Delete: the chunks first (errors are ignored), then the metadata.  A    *)
(* file without readable metadata is not found.                            *)
Delete(n, f) ==
    /\ Free(n)
    /\ \E list \in LoadMetadata(n, f) :
          Step(n, [Idle EXCEPT !.kind = "delete", !.file = f, !.todo = list])
    /\ undone' = [undone EXCEPT ![n] = @ \cup {f}]
    /\ UNCHANGED <<disks, advertised, dht, claim, edits, faults>>

DeleteChunk(n) ==
    /\ At(n, "delete") /\ op[n].todo # <<>>
    /\ SetChunk(n, Chunk(n), "absent")
    /\ Step(n, Handled(n, "delete", Chunk(n)))
    /\ UNCHANGED <<meta, dest, advertised, dht, claim, undone, edits, faults>>

DeleteMeta(n) ==
    /\ At(n, "delete") /\ op[n].todo = <<>>
    /\ SetMeta(n, op[n].file, NoMeta)
    /\ Return(n)
    /\ UNCHANGED <<chunks, dest, advertised, dht, claim, undone, edits, faults>>

(* os.Remove fails: a chunk stays behind, or the metadata does and lists   *)
(* chunks that are gone.                                                   *)
DeleteError(n) ==
    /\ At(n, "delete")
    /\ faults < MaxFaults
    /\ faults' = faults + 1
    /\ \/ op[n].todo # <<>> /\ Step(n, Handled(n, "delete", Chunk(n)))
       \/ op[n].todo = <<>> /\ Return(n)
    /\ UNCHANGED <<disks, advertised, dht, claim, undone, edits>>
-----------------------------------------------------------------------------
(* Retrieve, into destPath itself.  Torn metadata is an error. *)
Retrieve(n, f) ==
    /\ \E list \in LoadMetadata(n, f) :
          Step(n, [Idle EXCEPT !.kind = "retrieve", !.file = f, !.todo = list])
    /\ dest' = [dest EXCEPT ![n] = <<>>]
    /\ claim' = [claim EXCEPT ![n] = NoFile]

(* Download of a file whose metadata is there: no provider is asked. *)
DownloadLocal(n, f) ==
    /\ Free(n) /\ n \in Downloaders /\ Exists(n, f)
    /\ Retrieve(n, f)
    /\ UNCHANGED <<chunks, meta, advertised, dht, undone, edits, faults>>

(* A chunk is appended; or it cannot be read or written, and the part of   *)
(* the file that was there stays.                                          *)
RetrieveChunk(n) ==
    /\ At(n, "retrieve") /\ op[n].todo # <<>>
    /\ \/ Return(n) /\ UNCHANGED dest
       \/ \E d \in GetChunk(n, Chunk(n)) :
             /\ dest' = [dest EXCEPT ![n] = Append(@, d)]
             /\ Step(n, Handled(n, "retrieve", d))
    /\ UNCHANGED <<chunks, meta, advertised, dht, claim, undone, edits, faults>>

RetrieveDone(n) ==
    /\ At(n, "retrieve") /\ op[n].todo = <<>>
    /\ claim' = [claim EXCEPT ![n] = op[n].file]
    /\ Return(n)
    /\ UNCHANGED <<disks, advertised, dht, undone, edits, faults>>

(* Mutant: FindProviders does not leave out the node itself. *)
DownloadFromSelf(n, f) ==
    /\ Free(n) /\ n \in Downloaders /\ ~Exists(n, f)
    /\ \E P \in SUBSET dht[f] :
          /\ P # {}
          /\ Step(n, [Idle EXCEPT !.kind = "try", !.file = f, !.next = P])
    /\ UNCHANGED <<disks, advertised, dht, claim, undone, edits, faults>>

(* Download from providers: FindProviders returns those of the records it  *)
(* received within its time.                                               *)
DownloadRemote(n, f) ==
    /\ Free(n) /\ n \in Downloaders /\ ~Exists(n, f)
    /\ \E P \in SUBSET (dht[f] \ {n}) :
          /\ P # {}
          /\ Step(n, [Idle EXCEPT !.kind = "try", !.file = f, !.next = P])
    /\ UNCHANGED <<disks, advertised, dht, claim, undone, edits, faults>>

(* Mutant: the temporary file of the last attempt is appended to. *)
RequestAppending(n, m) ==
    \/ Step(n, [op[n] EXCEPT !.next = @ \ {m}])
    \/ \E list \in AnswerMetadata(m, op[n].file) :
          Step(n, [op[n] EXCEPT !.kind = "fetch", !.next = @ \ {m}, !.from = m, !.todo = list])

(* requestMetadata of provider m, failing or answered by its               *)
(* handleTransfer; the temporary file is then created empty.               *)
RequestMetadata(n, m) ==
    \/ Step(n, [op[n] EXCEPT !.next = @ \ {m}])
    \/ \E list \in AnswerMetadata(m, op[n].file) :
          Step(n, [op[n] EXCEPT !.kind = "fetch", !.next = @ \ {m}, !.from = m,
                                !.todo = list, !.list = <<>>])

(* The providers still to be tried; the node skips itself. *)
Others(n) == op[n].next \ {n}

(* Mutant: handleTransfer takes the provider's s.mu. *)
TryLocked(n) ==
    /\ At(n, "try")
    /\ \E m \in Others(n) : Free(m) /\ RequestMetadata(n, m)
    /\ UNCHANGED <<disks, advertised, dht, claim, undone, edits, faults>>

TryProvider(n) ==
    /\ At(n, "try")
    /\ \E m \in Others(n) : RequestMetadata(n, m)
    /\ UNCHANGED <<disks, advertised, dht, claim, undone, edits, faults>>

NoProviderLeft(n) ==
    /\ At(n, "try") /\ Others(n) = {}
    /\ Return(n)
    /\ UNCHANGED <<disks, advertised, dht, claim, undone, edits, faults>>

(* transfer.Download returns an error, leaving tmp of its temporary file:  *)
(* the next provider is tried.                                             *)
GiveUp(n, tmp) ==
    Step(n, [op[n] EXCEPT !.kind = "try", !.from = NoNode, !.todo = <<>>, !.list = tmp])

(* requestChunk, answered, or failing: the temporary file is removed. *)
FetchChunk(n) ==
    /\ At(n, "fetch") /\ op[n].todo # <<>>
    /\ \/ GiveUp(n, <<>>)
       \/ \E d \in AnswerChunk(op[n].from, Chunk(n)) : Step(n, Handled(n, "fetch", d))
    /\ UNCHANGED <<disks, advertised, dht, claim, undone, edits, faults>>

(* The temporary file is renamed to destPath, or cannot be and stays. *)
FetchDone(n) ==
    /\ At(n, "fetch") /\ op[n].todo = <<>>
    /\ \/ /\ dest' = [dest EXCEPT ![n] = op[n].list]
          /\ claim' = [claim EXCEPT ![n] = op[n].file]
          /\ Return(n)
       \/ GiveUp(n, op[n].list) /\ UNCHANGED <<dest, claim>>
    /\ UNCHANGED <<chunks, meta, advertised, dht, undone, edits, faults>>
-----------------------------------------------------------------------------
(* A node dies and starts again, with what is on its disk and an empty     *)
(* index.                                                                  *)
Crash(n) ==
    /\ faults < MaxFaults
    /\ faults' = faults + 1
    /\ advertised' = [advertised EXCEPT ![n] = {}]
    /\ Return(n)
    /\ UNCHANGED <<disks, dht, claim, undone, edits>>

Work(n) == \/ TruncateChunk(n) \/ WriteChunk(n) \/ TruncateMeta(n) \/ WriteMeta(n)
           \/ Advertise(n)
           \/ DeleteChunk(n) \/ DeleteMeta(n)
           \/ RetrieveChunk(n) \/ RetrieveDone(n)
           \/ TryProvider(n) \/ NoProviderLeft(n) \/ FetchChunk(n) \/ FetchDone(n)

Next == \E n \in Nodes :
          \/ \E f \in Files : \/ Upload(n, f) \/ EditFile(n, f) \/ Delete(n, f)
                              \/ DownloadLocal(n, f) \/ DownloadRemote(n, f)
                              \/ ExpireRecord(f, n)
          \/ Work(n)
          \/ AdvertiseLoop(n)
          \/ StoreError(n) \/ DeleteError(n) \/ Crash(n)

Spec == Init /\ [][Next]_vars

(* An operation that waits for a mute provider, or may be about to.  The   *)
(* transfers read their streams without a deadline.                        *)
Waiting(n) == \/ At(n, "try") /\ op[n].next \cap Mute # {}
              \/ At(n, "fetch") /\ op[n].todo # <<>> /\ op[n].from \in Mute

(* System calls return; a request is answered, or its stream fails, unless *)
(* its provider is mute.                                                   *)
FairSpec == Spec /\ \A n \in Nodes : WF_vars(~Waiting(n) /\ Work(n))
-----------------------------------------------------------------------------
(* Type invariant *)
TypeOK ==
    /\ chunks \in [Nodes -> [Chunks -> {"absent", "whole", "torn"}]]
    /\ meta \in [Nodes -> [Files -> Meta]]
    /\ dest \in [Nodes -> Seq(Chunks \cup {Partial})]
    /\ op \in [Nodes -> [kind: {"idle", "store", "storing", "filing", "advertise", "delete",
                                "retrieve", "try", "fetch"},
                         file: Files \cup {NoFile}, todo: Seq(Chunks),
                         list: Seq(Chunks \cup {Partial}),
                         from: Nodes \cup {NoNode}, next: SUBSET Nodes]]
    /\ \A n \in Nodes : n # op[n].from /\ n \notin op[n].next
    /\ advertised \in [Nodes -> SUBSET Files] /\ dht \in [Files -> SUBSET Nodes]
    /\ claim \in [Nodes -> Files \cup {NoFile}] /\ undone \in [Nodes -> SUBSET Files]

(* What is listed is on disk: a chunk named in readable metadata is        *)
(* missing, or torn, only if it is a chunk of a file that was deleted, or  *)
(* whose Store or Delete is under way or was cut off by an error or a      *)
(* crash.  So a Store that came to its end has written all of its file,    *)
(* and what the service does to other files, and whatever fails while it   *)
(* does, leaves alone every chunk they do not share (a shared one is lost: *)
(* storage.go keeps no count of who uses a chunk).  A file that is changed *)
(* while it is stored is listed under the hash of what it was.             *)
ListedIsWhole ==
    edits = 0 =>
        \A n \in Nodes, f \in Files : meta[n][f].state = "whole" =>
            \A c \in Range(meta[n][f].list) :
                \/ chunks[n][c] = "whole"
                \/ \E g \in undone[n] : c \in Range(Content[g])

(* A Download that reports success has put the file asked for at destPath, *)
(* also when providers failed half-way and others took over, and while     *)
(* providers deleted and stored files: unless a torn chunk was read or a   *)
(* file was changed while it was uploaded.                                 *)
DownloadFaithful ==
    \A n \in Nodes :
        claim[n] # NoFile /\ Partial \notin Range(dest[n]) /\ edits = 0
            => dest[n] = Content[claim[n]]

(* Every operation ends, and s.mu is released: nodes that download from    *)
(* each other at the same time, each holding its own lock, never wait for  *)
(* each other.  Excepted is a Download that asks, or may still have to     *)
(* ask, a provider that never answers: it keeps s.mu for good.             *)
OperationsEnd ==
    \A n \in Nodes :
        ~Free(n) /\ (op[n].next \cup {op[n].from}) \cap Mute = {} ~> Free(n)
=============================================================================
