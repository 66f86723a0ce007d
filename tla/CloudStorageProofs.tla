------------------------- MODULE CloudStorageProofs -------------------------
(***************************************************************************)
(* Proofs about CloudStorage, for every set of nodes, files and chunks,    *)
(* every content of the files and any number of faults and edits.          *)
(*                                                                         *)
(* A step of node n changes the disk, the operation and the history of n   *)
(* alone, so the parts of the invariant are stated for one node (TypedAt,  *)
(* WholeAt, FaithfulAt) and the other nodes keep theirs by a frame lemma.  *)
(***************************************************************************)
EXTENDS CloudStorage, TLAPS

Kinds == {"idle", "store", "storing", "filing", "advertise", "delete", "retrieve", "try", "fetch"}

Operation == [kind: Kinds, file: Files \cup {NoFile}, todo: Seq(Chunks),
              list: Seq(Chunks \cup {Partial}), from: Nodes \cup {NoNode}, next: SUBSET Nodes]

Storing == {"store", "storing", "filing"}

(* What an operation o of node n keeps to, by the step it is at. *)
Proper(n, o) ==
    /\ o \in Operation
    /\ n # o.from /\ n \notin o.next
    /\ o.kind # "idle" => o.file \in Files
    /\ o.kind \in Storing \cup {"delete"} => o.list \in Seq(Chunks)
    /\ o.kind = "storing" => o.todo # <<>>
    /\ o.kind = "filing" => o.todo = <<>>
    /\ o.kind = "fetch" => o.from \in Nodes

DisksTyped ==
    /\ chunks \in [Nodes -> [Chunks -> {"absent", "whole", "torn"}]]
    /\ meta \in [Nodes -> [Files -> Meta]]
    /\ dest \in [Nodes -> Seq(Chunks \cup {Partial})]

RestTyped ==
    /\ advertised \in [Nodes -> SUBSET Files] /\ dht \in [Files -> SUBSET Nodes]
    /\ claim \in [Nodes -> Files \cup {NoFile}] /\ undone \in [Nodes -> SUBSET Files]
    /\ edits \in Nat

OpTyped == op \in [Nodes -> Operation] /\ \A n \in Nodes : Proper(n, op[n])

Typed == DisksTyped /\ RestTyped /\ OpTyped

LEMMA TypedIsTypeOK == Typed => TypeOK
BY DEF Typed, DisksTyped, RestTyped, OpTyped, Operation, Kinds, Proper, TypeOK

(* Sequences: what an element more adds, and what the first one leaves. *)
LEMMA RangeAppend ==
    ASSUME NEW S, NEW s \in Seq(S), NEW d \in S
    PROVE  Range(Append(s, d)) = Range(s) \cup {d}
<1>1. DOMAIN s = 1..Len(s) /\ Len(s) \in Nat
  OBVIOUS
<1>2. /\ DOMAIN Append(s, d) = 1..(Len(s) + 1)
      /\ \A i \in 1..Len(s) : Append(s, d)[i] = s[i]
      /\ Append(s, d)[Len(s) + 1] = d
  OBVIOUS
<1>3. Range(Append(s, d)) \subseteq Range(s) \cup {d}
  <2>1. SUFFICES ASSUME NEW i \in 1..(Len(s) + 1)
                 PROVE  Append(s, d)[i] \in Range(s) \cup {d}
    BY <1>2 DEF Range
  <2>2. CASE i \in 1..Len(s)
    BY <1>1, <1>2, <2>2 DEF Range
  <2>3. CASE i = Len(s) + 1
    BY <1>2, <2>3
  <2>4. QED
    BY <1>1, <2>1, <2>2, <2>3
<1>4. Range(s) \subseteq Range(Append(s, d))
  <2>1. SUFFICES ASSUME NEW i \in 1..Len(s)
                 PROVE  s[i] \in Range(Append(s, d))
    BY <1>1 DEF Range
  <2>2. i \in 1..(Len(s) + 1) /\ s[i] = Append(s, d)[i]
    BY <1>1, <1>2
  <2>3. QED
    BY <1>2, <2>2 DEF Range
<1>5. d \in Range(Append(s, d))
  <2>1. Len(s) + 1 \in 1..(Len(s) + 1)
    BY <1>1
  <2>2. QED
    BY <1>2, <2>1 DEF Range
<1>6. QED
  BY <1>3, <1>4, <1>5

LEMMA RangeTyped ==
    ASSUME NEW S, NEW s \in Seq(S)
    PROVE  Range(s) \subseteq S
BY DEF Range

LEMMA RangeEmpty == Range(<<>>) = {}
BY DEF Range

LEMMA HeadTail ==
    ASSUME NEW S, NEW s \in Seq(S), s # <<>>
    PROVE  /\ Head(s) \in S /\ Tail(s) \in Seq(S) /\ Head(s) = s[1]
           /\ Len(s) \in Nat /\ Len(s) > 0 /\ Len(Tail(s)) = Len(s) - 1
           /\ \A i \in 1..Len(Tail(s)) : Tail(s)[i] = s[i + 1]
OBVIOUS

(* A step of n's operation, whatever the step. *)
LEMMA StepTyped ==
    ASSUME Typed, NEW n \in Nodes, NEW o, Proper(n, o), Step(n, o)
    PROVE  /\ OpTyped' /\ op'[n] = o
           /\ \A m \in Nodes \ {n} : op'[m] = op[m]
<1>1. o \in Operation
  BY DEF Proper
<1>2. op' \in [Nodes -> Operation] /\ op'[n] = o /\ \A m \in Nodes \ {n} : op'[m] = op[m]
  BY <1>1 DEF Typed, OpTyped, Step
<1>3. \A m \in Nodes : Proper(m, op'[m])
  BY <1>2 DEF Typed, OpTyped
<1>4. QED
  BY <1>2, <1>3 DEF OpTyped, Proper

LEMMA IdleProper == ASSUME NEW n \in Nodes PROVE Proper(n, Idle)
BY CloudAssumption DEF Idle, Proper, Operation, Kinds, Storing

(* The operation once a chunk is handled. *)
LEMMA HandledProper ==
    ASSUME Typed, NEW n \in Nodes, op[n].todo # <<>>,
           NEW kind \in {"store", "delete", "retrieve", "fetch"},
           NEW d \in Chunks \cup {Partial},
           op[n].kind # "idle",
           kind \in {"store", "delete"} => op[n].list \in Seq(Chunks) /\ d \in Chunks,
           kind = "fetch" => op[n].from \in Nodes
    PROVE  /\ Proper(n, Handled(n, kind, d)) /\ Chunk(n) \in Chunks
           /\ Handled(n, kind, d).kind = kind /\ Handled(n, kind, d).file = op[n].file
           /\ Handled(n, kind, d).todo = Tail(op[n].todo)
           /\ Handled(n, kind, d).list = Append(op[n].list, d)
<1>1. op[n] \in Operation /\ Proper(n, op[n])
  BY DEF Typed, OpTyped
<1>2. op[n].todo \in Seq(Chunks) /\ op[n].list \in Seq(Chunks \cup {Partial})
  BY <1>1 DEF Operation
<1>3. Tail(op[n].todo) \in Seq(Chunks) /\ Chunk(n) \in Chunks
  BY <1>2, HeadTail DEF Chunk
<1>4. Append(op[n].list, d) \in Seq(Chunks \cup {Partial})
  BY <1>2
<1>5. kind \in {"store", "delete"} => Append(op[n].list, d) \in Seq(Chunks)
  OBVIOUS
<1>6. Handled(n, kind, d) = [op[n] EXCEPT !.kind = kind, !.todo = Tail(op[n].todo),
                                           !.list = Append(op[n].list, d)]
  BY <1>1 DEF Handled, Operation
<1>7. /\ Handled(n, kind, d) \in Operation
      /\ Handled(n, kind, d).kind = kind /\ Handled(n, kind, d).file = op[n].file
      /\ Handled(n, kind, d).todo = Tail(op[n].todo)
      /\ Handled(n, kind, d).list = Append(op[n].list, d)
      /\ Handled(n, kind, d).from = op[n].from /\ Handled(n, kind, d).next = op[n].next
  BY <1>1, <1>3, <1>4, <1>6 DEF Operation, Kinds
<1>8. QED
  BY <1>1, <1>3, <1>5, <1>7 DEF Proper, Storing
-----------------------------------------------------------------------------
(* What the step of an action leaves: the nodes other than n are as they   *)
(* were, and n's operation is at step k of file f.                         *)
Elsewhere(n) ==
    \A m \in Nodes \ {n} :
        /\ chunks'[m] = chunks[m] /\ meta'[m] = meta[m] /\ dest'[m] = dest[m]
        /\ op'[m] = op[m] /\ claim'[m] = claim[m] /\ undone'[m] = undone[m]

NowAt(n, k, f, todo, list) ==
    /\ op'[n].kind = k /\ op'[n].file = f /\ op'[n].todo = todo /\ op'[n].list = list

(* Steps that leave the disk of n, its history and its claim alone. *)
Quiet == UNCHANGED <<chunks, meta, undone, edits>>
Silent == Quiet /\ UNCHANGED <<dest, claim>>

(* A Store or Delete of file f begins on n. *)
Begun(n, f) ==
    /\ UNCHANGED <<chunks, meta, dest, claim, edits>>
    /\ undone'[n] = undone[n] \cup {f}

LEMMA ReturnEffect ==
    ASSUME Typed, NEW n \in Nodes, Return(n)
    PROVE  /\ OpTyped' /\ \A m \in Nodes \ {n} : op'[m] = op[m]
           /\ NowAt(n, "idle", NoFile, <<>>, <<>>)
<1>1. Proper(n, Idle)
  BY IdleProper
<1>2. OpTyped' /\ op'[n] = Idle /\ \A m \in Nodes \ {n} : op'[m] = op[m]
  BY <1>1, StepTyped DEF Return
<1>3. QED
  BY <1>2 DEF NowAt, Idle

(* An operation that begins with the chunks of a file. *)
LEMMA BeginEffect ==
    ASSUME Typed, NEW n \in Nodes, NEW k \in {"store", "delete", "retrieve"}, NEW f \in Files,
           NEW todo \in Seq(Chunks),
           Step(n, [Idle EXCEPT !.kind = k, !.file = f, !.todo = todo])
    PROVE  /\ OpTyped' /\ NowAt(n, k, f, todo, <<>>)
           /\ \A m \in Nodes \ {n} : op'[m] = op[m]
<1> DEFINE o == [Idle EXCEPT !.kind = k, !.file = f, !.todo = todo]
<1>1. Idle \in Operation /\ Proper(n, Idle)
  BY IdleProper DEF Proper
<1>2. Idle.list = <<>>
  BY DEF Idle
<1>3. /\ o \in Operation /\ o.kind = k /\ o.file = f /\ o.todo = todo
      /\ o.list = Idle.list /\ o.from = Idle.from /\ o.next = Idle.next
  BY <1>1 DEF Operation, Kinds
<1> HIDE DEF o
<1>4. Proper(n, o)
  <2>1. <<>> \in Seq(Chunks)
    OBVIOUS
  <2>2. QED
    BY <1>1, <1>2, <1>3, <2>1 DEF Proper, Storing
<1>5. OpTyped' /\ op'[n] = o /\ \A m \in Nodes \ {n} : op'[m] = op[m]
  <2>1. Step(n, o)
    BY DEF o
  <2>2. QED
    BY <1>4, <2>1, StepTyped
<1>6. QED
  BY <1>2, <1>3, <1>5 DEF NowAt

LEMMA UploadEffect ==
    ASSUME Typed, NEW n \in Nodes, NEW f \in Files, Upload(n, f)
    PROVE  /\ Typed' /\ Elsewhere(n) /\ Begun(n, f) /\ op[n].kind = "idle"
           /\ NowAt(n, "store", f, Content[f], <<>>)
<1>1. Content[f] \in Seq(Chunks)
  BY CloudAssumption
<1>2. /\ OpTyped' /\ \A m \in Nodes \ {n} : op'[m] = op[m]
      /\ NowAt(n, "store", f, Content[f], <<>>)
  BY <1>1, BeginEffect DEF Upload, Store
<1>3. /\ undone' \in [Nodes -> SUBSET Files] /\ undone'[n] = undone[n] \cup {f}
      /\ \A m \in Nodes \ {n} : undone'[m] = undone[m]
  BY DEF Upload, Typed, RestTyped
<1>4. Elsewhere(n) /\ Begun(n, f) /\ op[n].kind = "idle"
  BY <1>2, <1>3 DEF Upload, Free, Elsewhere, Begun, disks
<1>5. QED
  BY <1>2, <1>3, <1>4 DEF Upload, disks, Typed, DisksTyped, RestTyped

LEMMA EditFileEffect ==
    ASSUME Typed, NEW n \in Nodes, NEW g \in Files, EditFile(n, g)
    PROVE  /\ Typed' /\ Elsewhere(n) /\ UNCHANGED <<chunks, meta, undone>>
           /\ NowAt(n, "store", op[n].file, Content[g], <<>>)
           /\ op[n].kind = "store" /\ edits' # 0
<1> DEFINE o == [op[n] EXCEPT !.todo = Content[g]]
<1>1. op[n] \in Operation /\ Proper(n, op[n]) /\ op[n].kind = "store" /\ op[n].list = <<>>
  BY DEF Typed, OpTyped, EditFile, At
<1>2. Content[g] \in Seq(Chunks)
  BY CloudAssumption
<1>3. /\ o \in Operation /\ o.kind = "store" /\ o.file = op[n].file /\ o.todo = Content[g]
      /\ o.list = op[n].list /\ o.from = op[n].from /\ o.next = op[n].next
  BY <1>1, <1>2 DEF Operation
<1>4. Proper(n, o)
  BY <1>1, <1>3 DEF Proper, Storing
<1>5. OpTyped' /\ op'[n] = o /\ \A m \in Nodes \ {n} : op'[m] = op[m]
  <2> HIDE DEF o
  <2>1. Step(n, o)
    BY DEF EditFile, o
  <2>2. QED
    BY <1>4, <2>1, StepTyped
<1>6. NowAt(n, "store", op[n].file, Content[g], <<>>)
  BY <1>1, <1>3, <1>5 DEF NowAt
<1>7. Elsewhere(n) /\ UNCHANGED <<chunks, meta, undone>>
  BY <1>5 DEF EditFile, Elsewhere, disks
<1>8. edits' \in Nat /\ edits' # 0
  BY DEF EditFile, Typed, RestTyped
<1>9. QED
  BY <1>1, <1>5, <1>6, <1>7, <1>8 DEF EditFile, disks, Typed, DisksTyped, RestTyped

LEMMA SetChunkTyped ==
    ASSUME Typed, NEW n \in Nodes, NEW c \in Chunks, NEW s \in {"absent", "whole", "torn"},
           SetChunk(n, c, s)
    PROVE  /\ chunks' \in [Nodes -> [Chunks -> {"absent", "whole", "torn"}]]
           /\ \A m \in Nodes \ {n} : chunks'[m] = chunks[m]
           /\ \A d \in Chunks : chunks'[n][d] = IF d = c THEN s ELSE chunks[n][d]
BY DEF Typed, DisksTyped, SetChunk

LEMMA SetMetaTyped ==
    ASSUME Typed, NEW n \in Nodes, NEW f \in Files, NEW x \in Meta, SetMeta(n, f, x)
    PROVE  /\ meta' \in [Nodes -> [Files -> Meta]]
           /\ \A m \in Nodes \ {n} : meta'[m] = meta[m]
           /\ \A g \in Files : meta'[n][g] = IF g = f THEN x ELSE meta[n][g]
BY DEF Typed, DisksTyped, SetMeta

(* The step of an operation that goes on with what it has. *)
LEMMA MoveEffect ==
    ASSUME Typed, NEW n \in Nodes, NEW k \in Kinds \ {"idle"},
           op[n].kind # "idle",
           k \in Storing \cup {"delete"} => op[n].list \in Seq(Chunks),
           k = "storing" => op[n].todo # <<>>, k = "filing" => op[n].todo = <<>>,
           k = "fetch" => op[n].from \in Nodes,
           Step(n, [op[n] EXCEPT !.kind = k])
    PROVE  /\ OpTyped' /\ \A m \in Nodes \ {n} : op'[m] = op[m]
           /\ NowAt(n, k, op[n].file, op[n].todo, op[n].list)
<1> DEFINE o == [op[n] EXCEPT !.kind = k]
<1>1. op[n] \in Operation /\ Proper(n, op[n])
  BY DEF Typed, OpTyped
<1>2. /\ o \in Operation /\ o.kind = k /\ o.file = op[n].file /\ o.todo = op[n].todo
      /\ o.list = op[n].list /\ o.from = op[n].from /\ o.next = op[n].next
  BY <1>1 DEF Operation
<1>3. Proper(n, o)
  BY <1>1, <1>2 DEF Proper, Storing
<1>4. OpTyped' /\ op'[n] = o /\ \A m \in Nodes \ {n} : op'[m] = op[m]
  <2> HIDE DEF o
  <2>1. Step(n, o)
    BY DEF o
  <2>2. QED
    BY <1>3, <2>1, StepTyped
<1>5. QED
  BY <1>2, <1>4 DEF NowAt

(* The step that handles a chunk. *)
LEMMA HandledEffect ==
    ASSUME Typed, NEW n \in Nodes, op[n].todo # <<>>,
           NEW kind \in {"store", "delete", "retrieve", "fetch"},
           NEW d \in Chunks \cup {Partial},
           op[n].kind # "idle",
           kind \in {"store", "delete"} => op[n].list \in Seq(Chunks) /\ d \in Chunks,
           kind = "fetch" => op[n].from \in Nodes,
           Step(n, Handled(n, kind, d))
    PROVE  /\ OpTyped' /\ \A m \in Nodes \ {n} : op'[m] = op[m]
           /\ NowAt(n, kind, op[n].file, Tail(op[n].todo), Append(op[n].list, d))
<1>1. /\ Proper(n, Handled(n, kind, d))
      /\ Handled(n, kind, d).kind = kind /\ Handled(n, kind, d).file = op[n].file
      /\ Handled(n, kind, d).todo = Tail(op[n].todo)
      /\ Handled(n, kind, d).list = Append(op[n].list, d)
  BY HandledProper
<1>2. /\ OpTyped' /\ op'[n] = Handled(n, kind, d)
      /\ \A m \in Nodes \ {n} : op'[m] = op[m]
  BY <1>1, StepTyped
<1>3. QED
  BY <1>1, <1>2 DEF NowAt

LEMMA TruncateChunkEffect ==
    ASSUME Typed, NEW n \in Nodes, TruncateChunk(n)
    PROVE  /\ Typed' /\ Elsewhere(n) /\ UNCHANGED <<meta, dest, claim, undone, edits>>
           /\ op[n].kind = "store" /\ op[n].todo # <<>> /\ Chunk(n) \in Chunks
           /\ NowAt(n, "storing", op[n].file, op[n].todo, op[n].list)
           /\ \A d \in Chunks : chunks'[n][d] = IF d = Chunk(n) THEN "torn" ELSE chunks[n][d]
<1>1. /\ Proper(n, op[n]) /\ op[n] \in Operation
      /\ op[n].kind = "store" /\ op[n].todo # <<>>
  BY DEF Typed, OpTyped, TruncateChunk, At
<1>2. op[n].todo \in Seq(Chunks) /\ op[n].list \in Seq(Chunks)
  BY <1>1 DEF Operation, Proper, Storing
<1>3. Chunk(n) \in Chunks
  BY <1>1, <1>2, HeadTail DEF Chunk
<1>4. Step(n, [op[n] EXCEPT !.kind = "storing"]) /\ SetChunk(n, Chunk(n), "torn")
  BY DEF TruncateChunk
<1>5. /\ OpTyped' /\ NowAt(n, "storing", op[n].file, op[n].todo, op[n].list)
      /\ \A m \in Nodes \ {n} : op'[m] = op[m]
  BY <1>1, <1>2, <1>4, MoveEffect DEF Kinds
<1>6. /\ chunks' \in [Nodes -> [Chunks -> {"absent", "whole", "torn"}]]
      /\ \A m \in Nodes \ {n} : chunks'[m] = chunks[m]
      /\ \A d \in Chunks : chunks'[n][d] = IF d = Chunk(n) THEN "torn" ELSE chunks[n][d]
  BY <1>3, <1>4, SetChunkTyped
<1>7. Elsewhere(n) /\ UNCHANGED <<meta, dest, claim, undone, edits>>
  BY <1>5, <1>6 DEF TruncateChunk, Elsewhere
<1>8. QED
  BY <1>1, <1>3, <1>5, <1>6, <1>7 DEF TruncateChunk, Typed, DisksTyped, RestTyped

LEMMA WriteChunkEffect ==
    ASSUME Typed, NEW n \in Nodes, WriteChunk(n)
    PROVE  /\ Typed' /\ Elsewhere(n) /\ UNCHANGED <<meta, dest, claim, undone, edits>>
           /\ op[n].kind = "storing" /\ op[n].todo # <<>> /\ Chunk(n) \in Chunks
           /\ NowAt(n, "store", op[n].file, Tail(op[n].todo), Append(op[n].list, Chunk(n)))
           /\ \A d \in Chunks : chunks'[n][d] = IF d = Chunk(n) THEN "whole" ELSE chunks[n][d]
<1>1. /\ Proper(n, op[n]) /\ op[n] \in Operation
      /\ op[n].kind = "storing" /\ op[n].todo # <<>>
  BY DEF Typed, OpTyped, WriteChunk, At, Proper
<1>2. op[n].todo \in Seq(Chunks) /\ op[n].list \in Seq(Chunks)
  BY <1>1 DEF Operation, Proper, Storing
<1>3. Chunk(n) \in Chunks
  BY <1>1, <1>2, HeadTail DEF Chunk
<1>4. Step(n, Handled(n, "store", Chunk(n))) /\ SetChunk(n, Chunk(n), "whole")
  BY DEF WriteChunk
<1>5. /\ OpTyped' /\ \A m \in Nodes \ {n} : op'[m] = op[m]
      /\ NowAt(n, "store", op[n].file, Tail(op[n].todo), Append(op[n].list, Chunk(n)))
  BY <1>1, <1>2, <1>3, <1>4, HandledEffect
<1>6. /\ chunks' \in [Nodes -> [Chunks -> {"absent", "whole", "torn"}]]
      /\ \A m \in Nodes \ {n} : chunks'[m] = chunks[m]
      /\ \A d \in Chunks : chunks'[n][d] = IF d = Chunk(n) THEN "whole" ELSE chunks[n][d]
  BY <1>3, <1>4, SetChunkTyped
<1>7. Elsewhere(n) /\ UNCHANGED <<meta, dest, claim, undone, edits>>
  BY <1>5, <1>6 DEF WriteChunk, Elsewhere
<1>8. QED
  BY <1>1, <1>3, <1>5, <1>6, <1>7 DEF WriteChunk, Typed, DisksTyped, RestTyped

LEMMA MetasTyped == NoMeta \in Meta /\ TornMeta \in Meta
BY DEF NoMeta, TornMeta, Meta

LEMMA TruncateMetaEffect ==
    ASSUME Typed, NEW n \in Nodes, TruncateMeta(n)
    PROVE  /\ Typed' /\ Elsewhere(n) /\ UNCHANGED <<chunks, dest, claim, undone, edits>>
           /\ op[n].kind = "store" /\ op[n].todo = <<>> /\ op[n].file \in Files
           /\ NowAt(n, "filing", op[n].file, <<>>, op[n].list)
           /\ \A g \in Files : meta'[n][g] = IF g = op[n].file THEN TornMeta ELSE meta[n][g]
<1>1. /\ Proper(n, op[n]) /\ op[n] \in Operation
      /\ op[n].kind = "store" /\ op[n].todo = <<>>
  BY DEF Typed, OpTyped, TruncateMeta, At
<1>2. op[n].list \in Seq(Chunks) /\ op[n].file \in Files
  BY <1>1 DEF Proper, Storing
<1>3. Step(n, [op[n] EXCEPT !.kind = "filing"]) /\ SetMeta(n, op[n].file, TornMeta)
  BY DEF TruncateMeta
<1>4. /\ OpTyped' /\ NowAt(n, "filing", op[n].file, <<>>, op[n].list)
      /\ \A m \in Nodes \ {n} : op'[m] = op[m]
  BY <1>1, <1>2, <1>3, MoveEffect DEF Kinds
<1>5. /\ meta' \in [Nodes -> [Files -> Meta]]
      /\ \A m \in Nodes \ {n} : meta'[m] = meta[m]
      /\ \A g \in Files : meta'[n][g] = IF g = op[n].file THEN TornMeta ELSE meta[n][g]
  BY <1>2, <1>3, MetasTyped, SetMetaTyped
<1>6. Elsewhere(n) /\ UNCHANGED <<chunks, dest, claim, undone, edits>>
  BY <1>4, <1>5 DEF TruncateMeta, Elsewhere
<1>7. QED
  BY <1>1, <1>2, <1>4, <1>5, <1>6 DEF TruncateMeta, Typed, DisksTyped, RestTyped

LEMMA WriteMetaEffect ==
    ASSUME Typed, NEW n \in Nodes, WriteMeta(n)
    PROVE  /\ Typed' /\ Elsewhere(n) /\ UNCHANGED <<chunks, dest, claim, edits>>
           /\ op[n].kind = "filing" /\ op[n].todo = <<>> /\ op[n].file \in Files
           /\ NowAt(n, "advertise", op[n].file, op[n].todo, op[n].list)
           /\ \A g \in Files \ {op[n].file} : meta'[n][g] = meta[n][g]
           /\ meta'[n][op[n].file] = [state |-> "whole", list |-> op[n].list]
           /\ undone'[n] = undone[n] \ {op[n].file}
<1> DEFINE x == [state |-> "whole", list |-> op[n].list]
<1>1. /\ Proper(n, op[n]) /\ op[n] \in Operation /\ op[n].kind = "filing"
  BY DEF Typed, OpTyped, WriteMeta, At
<1>2. op[n].list \in Seq(Chunks) /\ op[n].file \in Files /\ op[n].todo = <<>>
  BY <1>1 DEF Proper, Storing
<1>3. x \in Meta
  BY <1>2 DEF Meta
<1> HIDE DEF x
<1>4. Step(n, [op[n] EXCEPT !.kind = "advertise"]) /\ SetMeta(n, op[n].file, x)
  BY DEF WriteMeta, x
<1>5. /\ OpTyped' /\ NowAt(n, "advertise", op[n].file, op[n].todo, op[n].list)
      /\ \A m \in Nodes \ {n} : op'[m] = op[m]
  BY <1>1, <1>4, MoveEffect DEF Kinds, Storing
<1>6. /\ meta' \in [Nodes -> [Files -> Meta]]
      /\ \A m \in Nodes \ {n} : meta'[m] = meta[m]
      /\ \A g \in Files : meta'[n][g] = IF g = op[n].file THEN x ELSE meta[n][g]
  BY <1>2, <1>3, <1>4, SetMetaTyped
<1>7. /\ undone' \in [Nodes -> SUBSET Files]
      /\ undone'[n] = undone[n] \ {op[n].file}
      /\ \A m \in Nodes \ {n} : undone'[m] = undone[m]
  BY DEF WriteMeta, Typed, RestTyped
<1>8. Elsewhere(n) /\ UNCHANGED <<chunks, dest, claim, edits>>
  BY <1>5, <1>6, <1>7 DEF WriteMeta, Elsewhere
<1>9. QED
  BY <1>1, <1>2, <1>5, <1>6, <1>7, <1>8 DEF WriteMeta, Typed, DisksTyped, RestTyped, x

LEMMA StoreErrorEffect ==
    ASSUME Typed, NEW n \in Nodes, StoreError(n)
    PROVE  /\ Typed' /\ Elsewhere(n) /\ Silent /\ op[n].kind \in Storing
           /\ NowAt(n, "idle", NoFile, <<>>, <<>>)
<1>1. /\ OpTyped' /\ NowAt(n, "idle", NoFile, <<>>, <<>>)
      /\ \A m \in Nodes \ {n} : op'[m] = op[m]
  BY ReturnEffect DEF StoreError
<1>2. Elsewhere(n) /\ Silent /\ op[n].kind \in Storing
  BY <1>1 DEF StoreError, Elsewhere, Silent, Quiet, Storing, disks
<1>3. QED
  BY <1>1, <1>2 DEF StoreError, disks, Typed, DisksTyped, RestTyped

LEMMA AdvertiseEffect ==
    ASSUME Typed, NEW n \in Nodes, Advertise(n)
    PROVE  /\ Typed' /\ Elsewhere(n) /\ Silent /\ op[n].kind = "advertise"
           /\ NowAt(n, "idle", NoFile, <<>>, <<>>)
<1>1. /\ OpTyped' /\ NowAt(n, "idle", NoFile, <<>>, <<>>)
      /\ \A m \in Nodes \ {n} : op'[m] = op[m]
  BY ReturnEffect DEF Advertise
<1>2. op[n].kind = "advertise" /\ op[n].file \in Files
  BY DEF Advertise, At, Typed, OpTyped, Proper
<1>3. Elsewhere(n) /\ Silent
  BY <1>1 DEF Advertise, Elsewhere, Silent, Quiet, disks
<1>4. advertised' \in [Nodes -> SUBSET Files] /\ dht' \in [Files -> SUBSET Nodes]
  BY <1>2 DEF Advertise, Typed, RestTyped
<1>5. QED
  BY <1>1, <1>2, <1>3, <1>4 DEF Silent, Quiet, Typed, DisksTyped, RestTyped

(* AdvertiseLoop and expiry change the records of the DHT alone. *)
LEMMA RecordsEffect ==
    ASSUME Typed, NEW n \in Nodes, AdvertiseLoop(n) \/ \E f \in Files : ExpireRecord(f, n)
    PROVE  Typed' /\ UNCHANGED <<op, chunks, meta, dest, claim, undone, edits>>
<1>1. dht' \in [Files -> SUBSET Nodes]
  <2>1. CASE AdvertiseLoop(n)
    BY <2>1 DEF AdvertiseLoop, Typed, RestTyped
  <2>2. CASE \E f \in Files : ExpireRecord(f, n)
    BY <2>2 DEF ExpireRecord, Typed, RestTyped
  <2>3. QED
    BY <2>1, <2>2
<1>2. UNCHANGED <<op, chunks, meta, dest, claim, undone, edits, advertised>>
  BY DEF AdvertiseLoop, ExpireRecord, disks
<1>3. QED
  BY <1>1, <1>2 DEF Typed, DisksTyped, RestTyped, OpTyped, Proper

LEMMA LoadedList ==
    ASSUME Typed, NEW n \in Nodes, NEW f \in Files, NEW list \in LoadMetadata(n, f)
    PROVE  list \in Seq(Chunks) /\ meta[n][f].state = "whole" /\ list = meta[n][f].list
<1>1. meta[n][f] \in Meta
  BY DEF Typed, DisksTyped
<1>2. QED
  BY <1>1 DEF LoadMetadata, Meta

LEMMA DeleteEffect ==
    ASSUME Typed, NEW n \in Nodes, NEW f \in Files, Delete(n, f)
    PROVE  /\ Typed' /\ Elsewhere(n) /\ Begun(n, f) /\ op[n].kind = "idle"
           /\ meta[n][f].state = "whole"
           /\ NowAt(n, "delete", f, meta[n][f].list, <<>>)
<1>1. PICK list \in LoadMetadata(n, f) :
         Step(n, [Idle EXCEPT !.kind = "delete", !.file = f, !.todo = list])
  BY DEF Delete
<1>2. list \in Seq(Chunks) /\ list = meta[n][f].list /\ meta[n][f].state = "whole"
  BY LoadedList
<1>3. /\ OpTyped' /\ NowAt(n, "delete", f, list, <<>>)
      /\ \A m \in Nodes \ {n} : op'[m] = op[m]
  BY <1>1, <1>2, BeginEffect
<1>4. /\ undone' \in [Nodes -> SUBSET Files] /\ undone'[n] = undone[n] \cup {f}
      /\ \A m \in Nodes \ {n} : undone'[m] = undone[m]
  BY DEF Delete, Typed, RestTyped
<1>5. Elsewhere(n) /\ Begun(n, f) /\ op[n].kind = "idle"
  BY <1>3, <1>4 DEF Delete, Free, Elsewhere, Begun, disks
<1>6. QED
  BY <1>2, <1>3, <1>4, <1>5 DEF Delete, disks, Typed, DisksTyped, RestTyped

LEMMA DeleteChunkEffect ==
    ASSUME Typed, NEW n \in Nodes, DeleteChunk(n)
    PROVE  /\ Typed' /\ Elsewhere(n) /\ UNCHANGED <<meta, dest, claim, undone, edits>>
           /\ op[n].kind = "delete" /\ op[n].todo # <<>> /\ Chunk(n) \in Chunks
           /\ op[n].list \in Seq(Chunks) /\ op[n].file \in Files
           /\ NowAt(n, "delete", op[n].file, Tail(op[n].todo), Append(op[n].list, Chunk(n)))
           /\ \A d \in Chunks : chunks'[n][d] = IF d = Chunk(n) THEN "absent" ELSE chunks[n][d]
<1>1. /\ Proper(n, op[n]) /\ op[n] \in Operation
      /\ op[n].kind = "delete" /\ op[n].todo # <<>>
  BY DEF Typed, OpTyped, DeleteChunk, At
<1>2. op[n].todo \in Seq(Chunks) /\ op[n].list \in Seq(Chunks) /\ op[n].file \in Files
  BY <1>1 DEF Operation, Proper
<1>3. Chunk(n) \in Chunks
  BY <1>1, <1>2, HeadTail DEF Chunk
<1>4. Step(n, Handled(n, "delete", Chunk(n))) /\ SetChunk(n, Chunk(n), "absent")
  BY DEF DeleteChunk
<1>5. /\ OpTyped' /\ \A m \in Nodes \ {n} : op'[m] = op[m]
      /\ NowAt(n, "delete", op[n].file, Tail(op[n].todo), Append(op[n].list, Chunk(n)))
  BY <1>1, <1>2, <1>3, <1>4, HandledEffect
<1>6. /\ chunks' \in [Nodes -> [Chunks -> {"absent", "whole", "torn"}]]
      /\ \A m \in Nodes \ {n} : chunks'[m] = chunks[m]
      /\ \A d \in Chunks : chunks'[n][d] = IF d = Chunk(n) THEN "absent" ELSE chunks[n][d]
  BY <1>3, <1>4, SetChunkTyped
<1>7. Elsewhere(n) /\ UNCHANGED <<meta, dest, claim, undone, edits>>
  BY <1>5, <1>6 DEF DeleteChunk, Elsewhere
<1>8. QED
  BY <1>1, <1>2, <1>3, <1>5, <1>6, <1>7 DEF DeleteChunk, Typed, DisksTyped, RestTyped

LEMMA DeleteMetaEffect ==
    ASSUME Typed, NEW n \in Nodes, DeleteMeta(n)
    PROVE  /\ Typed' /\ Elsewhere(n) /\ UNCHANGED <<chunks, dest, claim, undone, edits>>
           /\ op[n].kind = "delete" /\ NowAt(n, "idle", NoFile, <<>>, <<>>)
           /\ \A g \in Files : meta'[n][g] = IF g = op[n].file THEN NoMeta ELSE meta[n][g]
<1>1. op[n].kind = "delete" /\ op[n].file \in Files
  BY DEF Typed, OpTyped, Proper, DeleteMeta, At
<1>2. Return(n) /\ SetMeta(n, op[n].file, NoMeta)
  BY DEF DeleteMeta
<1>3. /\ OpTyped' /\ NowAt(n, "idle", NoFile, <<>>, <<>>)
      /\ \A m \in Nodes \ {n} : op'[m] = op[m]
  BY <1>2, ReturnEffect
<1>4. /\ meta' \in [Nodes -> [Files -> Meta]]
      /\ \A m \in Nodes \ {n} : meta'[m] = meta[m]
      /\ \A g \in Files : meta'[n][g] = IF g = op[n].file THEN NoMeta ELSE meta[n][g]
  BY <1>1, <1>2, MetasTyped, SetMetaTyped
<1>5. Elsewhere(n) /\ UNCHANGED <<chunks, dest, claim, undone, edits>>
  BY <1>3, <1>4 DEF DeleteMeta, Elsewhere
<1>6. QED
  BY <1>1, <1>3, <1>4, <1>5 DEF DeleteMeta, Typed, DisksTyped, RestTyped

LEMMA DeleteErrorEffect ==
    ASSUME Typed, NEW n \in Nodes, DeleteError(n)
    PROVE  /\ Typed' /\ Elsewhere(n) /\ Silent /\ op[n].kind = "delete"
           /\ \/ /\ op[n].todo # <<>> /\ Chunk(n) \in Chunks
                 /\ NowAt(n, "delete", op[n].file, Tail(op[n].todo), Append(op[n].list, Chunk(n)))
              \/ NowAt(n, "idle", NoFile, <<>>, <<>>)
<1>1. /\ Proper(n, op[n]) /\ op[n] \in Operation /\ op[n].kind = "delete"
  BY DEF Typed, OpTyped, DeleteError, At
<1>2. op[n].todo \in Seq(Chunks) /\ op[n].list \in Seq(Chunks)
  BY <1>1 DEF Operation, Proper
<1>3. Silent /\ UNCHANGED <<advertised, dht>>
  BY DEF DeleteError, Silent, Quiet, disks
<1>4. CASE op[n].todo # <<>>
  <2>1. Chunk(n) \in Chunks
    BY <1>2, <1>4, HeadTail DEF Chunk
  <2>2. Step(n, Handled(n, "delete", Chunk(n)))
    BY <1>4 DEF DeleteError
  <2>3. /\ OpTyped' /\ \A m \in Nodes \ {n} : op'[m] = op[m]
        /\ NowAt(n, "delete", op[n].file, Tail(op[n].todo), Append(op[n].list, Chunk(n)))
    BY <1>1, <1>2, <1>4, <2>1, <2>2, HandledEffect
  <2>4. Elsewhere(n)
    BY <1>3, <2>3 DEF Elsewhere, Silent, Quiet
  <2>5. QED
    BY <1>1, <1>3, <1>4, <2>1, <2>3, <2>4 DEF Silent, Quiet, Typed, DisksTyped, RestTyped
<1>5. CASE op[n].todo = <<>>
  <2>1. Return(n)
    BY <1>5 DEF DeleteError
  <2>2. /\ OpTyped' /\ NowAt(n, "idle", NoFile, <<>>, <<>>)
        /\ \A m \in Nodes \ {n} : op'[m] = op[m]
    BY <2>1, ReturnEffect
  <2>3. Elsewhere(n)
    BY <1>3, <2>2 DEF Elsewhere, Silent, Quiet
  <2>4. QED
    BY <1>1, <1>3, <2>2, <2>3 DEF Silent, Quiet, Typed, DisksTyped, RestTyped
<1>6. QED
  BY <1>4, <1>5

LEMMA DownloadLocalEffect ==
    ASSUME Typed, NEW n \in Nodes, NEW f \in Files, DownloadLocal(n, f)
    PROVE  /\ Typed' /\ Elsewhere(n) /\ Quiet /\ op[n].kind = "idle"
           /\ meta[n][f].state = "whole"
           /\ NowAt(n, "retrieve", f, meta[n][f].list, <<>>)
           /\ dest'[n] = <<>> /\ claim'[n] = NoFile
<1>1. PICK list \in LoadMetadata(n, f) :
         Step(n, [Idle EXCEPT !.kind = "retrieve", !.file = f, !.todo = list])
  BY DEF DownloadLocal, Retrieve
<1>2. list \in Seq(Chunks) /\ list = meta[n][f].list /\ meta[n][f].state = "whole"
  BY LoadedList
<1>3. /\ OpTyped' /\ NowAt(n, "retrieve", f, list, <<>>)
      /\ \A m \in Nodes \ {n} : op'[m] = op[m]
  BY <1>1, <1>2, BeginEffect
<1>4. <<>> \in Seq(Chunks \cup {Partial})
  OBVIOUS
<1>5. /\ dest' \in [Nodes -> Seq(Chunks \cup {Partial})] /\ dest'[n] = <<>>
      /\ \A m \in Nodes \ {n} : dest'[m] = dest[m]
  BY <1>4 DEF DownloadLocal, Retrieve, Typed, DisksTyped
<1>6. /\ claim' \in [Nodes -> Files \cup {NoFile}] /\ claim'[n] = NoFile
      /\ \A m \in Nodes \ {n} : claim'[m] = claim[m]
  BY DEF DownloadLocal, Retrieve, Typed, RestTyped
<1>7. Elsewhere(n) /\ Quiet /\ op[n].kind = "idle"
  BY <1>3, <1>5, <1>6 DEF DownloadLocal, Free, Elsewhere, Quiet
<1>8. QED
  BY <1>2, <1>3, <1>5, <1>6, <1>7 DEF DownloadLocal, Typed, DisksTyped, RestTyped

LEMMA ChunkRead ==
    ASSUME NEW m \in Nodes, NEW c \in Chunks, NEW d \in GetChunk(m, c)
    PROVE  d \in {c, Partial} /\ d \in Chunks \cup {Partial}
BY DEF GetChunk

LEMMA RetrieveChunkEffect ==
    ASSUME Typed, NEW n \in Nodes, RetrieveChunk(n)
    PROVE  /\ Typed' /\ Elsewhere(n) /\ Quiet /\ claim' = claim
           /\ op[n].kind = "retrieve" /\ op[n].todo # <<>>
           /\ \/ NowAt(n, "idle", NoFile, <<>>, <<>>) /\ dest' = dest
              \/ \E d \in {Chunk(n), Partial} :
                    /\ d \in Chunks \cup {Partial} /\ dest'[n] = Append(dest[n], d)
                    /\ NowAt(n, "retrieve", op[n].file, Tail(op[n].todo), Append(op[n].list, d))
<1>1. /\ Proper(n, op[n]) /\ op[n] \in Operation
      /\ op[n].kind = "retrieve" /\ op[n].todo # <<>>
  BY DEF Typed, OpTyped, RetrieveChunk, At
<1>2. op[n].todo \in Seq(Chunks)
  BY <1>1 DEF Operation
<1>3. Chunk(n) \in Chunks
  BY <1>1, <1>2, HeadTail DEF Chunk
<1>4. Quiet /\ UNCHANGED <<claim, advertised, dht>>
  BY DEF RetrieveChunk, Quiet
<1>5. CASE Return(n) /\ UNCHANGED dest
  <2>1. /\ OpTyped' /\ NowAt(n, "idle", NoFile, <<>>, <<>>)
        /\ \A m \in Nodes \ {n} : op'[m] = op[m]
    BY <1>5, ReturnEffect
  <2>2. Elsewhere(n)
    BY <1>4, <1>5, <2>1 DEF Elsewhere, Quiet
  <2>3. QED
    BY <1>1, <1>4, <1>5, <2>1, <2>2 DEF Quiet, Typed, DisksTyped, RestTyped
<1>6. ASSUME NEW d \in GetChunk(n, Chunk(n)),
             dest' = [dest EXCEPT ![n] = Append(@, d)], Step(n, Handled(n, "retrieve", d))
      PROVE  /\ Typed' /\ Elsewhere(n) /\ d \in {Chunk(n), Partial} /\ d \in Chunks \cup {Partial}
             /\ dest'[n] = Append(dest[n], d)
             /\ NowAt(n, "retrieve", op[n].file, Tail(op[n].todo), Append(op[n].list, d))
  <2>1. d \in {Chunk(n), Partial} /\ d \in Chunks \cup {Partial}
    BY <1>3, ChunkRead
  <2>2. /\ OpTyped' /\ \A m \in Nodes \ {n} : op'[m] = op[m]
        /\ NowAt(n, "retrieve", op[n].file, Tail(op[n].todo), Append(op[n].list, d))
    BY <1>1, <1>6, <2>1, HandledEffect
  <2>3. dest[n] \in Seq(Chunks \cup {Partial})
    BY DEF Typed, DisksTyped
  <2>4. Append(dest[n], d) \in Seq(Chunks \cup {Partial})
    BY <2>1, <2>3
  <2>5. /\ dest' \in [Nodes -> Seq(Chunks \cup {Partial})] /\ dest'[n] = Append(dest[n], d)
        /\ \A m \in Nodes \ {n} : dest'[m] = dest[m]
    BY <1>6, <2>4 DEF Typed, DisksTyped
  <2>6. Elsewhere(n)
    BY <1>4, <2>2, <2>5 DEF Elsewhere, Quiet
  <2>7. QED
    BY <1>4, <2>1, <2>2, <2>5, <2>6 DEF Quiet, Typed, DisksTyped, RestTyped
<1>7. QED
  BY <1>1, <1>4, <1>5, <1>6 DEF RetrieveChunk

LEMMA RetrieveDoneEffect ==
    ASSUME Typed, NEW n \in Nodes, RetrieveDone(n)
    PROVE  /\ Typed' /\ Elsewhere(n) /\ Quiet /\ dest' = dest
           /\ op[n].kind = "retrieve" /\ op[n].todo = <<>>
           /\ NowAt(n, "idle", NoFile, <<>>, <<>>) /\ claim'[n] = op[n].file
<1>1. op[n].kind = "retrieve" /\ op[n].todo = <<>> /\ op[n].file \in Files
  BY DEF Typed, OpTyped, Proper, RetrieveDone, At
<1>2. /\ OpTyped' /\ NowAt(n, "idle", NoFile, <<>>, <<>>)
      /\ \A m \in Nodes \ {n} : op'[m] = op[m]
  BY ReturnEffect DEF RetrieveDone
<1>3. /\ claim' \in [Nodes -> Files \cup {NoFile}] /\ claim'[n] = op[n].file
      /\ \A m \in Nodes \ {n} : claim'[m] = claim[m]
  BY <1>1 DEF RetrieveDone, Typed, RestTyped
<1>4. Elsewhere(n) /\ Quiet /\ dest' = dest
  BY <1>2, <1>3 DEF RetrieveDone, Elsewhere, Quiet, disks
<1>5. QED
  BY <1>1, <1>2, <1>3, <1>4 DEF RetrieveDone, disks, Typed, DisksTyped, RestTyped

LEMMA DownloadRemoteEffect ==
    ASSUME Typed, NEW n \in Nodes, NEW f \in Files, DownloadRemote(n, f)
    PROVE  /\ Typed' /\ Elsewhere(n) /\ Silent /\ op[n].kind = "idle"
           /\ NowAt(n, "try", f, <<>>, <<>>)
<1>1. PICK P \in SUBSET (dht[f] \ {n}) :
         Step(n, [Idle EXCEPT !.kind = "try", !.file = f, !.next = P])
  BY DEF DownloadRemote
<1> DEFINE o == [Idle EXCEPT !.kind = "try", !.file = f, !.next = P]
<1>2. Idle \in Operation /\ Proper(n, Idle) /\ Idle.list = <<>> /\ Idle.todo = <<>>
  BY IdleProper DEF Proper, Idle
<1>3. P \in SUBSET Nodes /\ n \notin P
  BY DEF Typed, RestTyped
<1>4. /\ o \in Operation /\ o.kind = "try" /\ o.file = f /\ o.todo = Idle.todo
      /\ o.list = Idle.list /\ o.from = Idle.from /\ o.next = P
  BY <1>2, <1>3 DEF Operation, Kinds
<1> HIDE DEF o
<1>5. Proper(n, o)
  BY <1>2, <1>3, <1>4 DEF Proper, Storing
<1>6. Step(n, o)
  BY <1>1 DEF o
<1>7. OpTyped' /\ op'[n] = o /\ \A m \in Nodes \ {n} : op'[m] = op[m]
  BY <1>5, <1>6, StepTyped
<1>8. Elsewhere(n) /\ Silent /\ op[n].kind = "idle"
  BY <1>7 DEF DownloadRemote, Free, Elsewhere, Silent, Quiet, disks
<1>9. NowAt(n, "try", f, <<>>, <<>>)
  BY <1>2, <1>4, <1>7 DEF NowAt
<1>10. QED
  BY <1>7, <1>8, <1>9 DEF DownloadRemote, disks, Typed, DisksTyped, RestTyped

LEMMA TryProviderEffect ==
    ASSUME Typed, NEW n \in Nodes, TryProvider(n)
    PROVE  /\ Typed' /\ Elsewhere(n) /\ Silent /\ op[n].kind = "try"
           /\ \/ NowAt(n, "try", op[n].file, op[n].todo, op[n].list)
              \/ \E m \in Nodes :
                    /\ meta[m][op[n].file].state = "whole"
                    /\ NowAt(n, "fetch", op[n].file, meta[m][op[n].file].list, <<>>)
<1>1. /\ Proper(n, op[n]) /\ op[n] \in Operation /\ op[n].kind = "try"
      /\ op[n].file \in Files /\ op[n].next \in SUBSET Nodes /\ n \notin op[n].next
  BY DEF Typed, OpTyped, TryProvider, At, Proper, Operation
<1>2. Silent /\ UNCHANGED <<advertised, dht>>
  BY DEF TryProvider, Silent, Quiet, disks
<1>3. PICK m \in op[n].next : RequestMetadata(n, m)
  BY DEF TryProvider, Others
<1>4. m \in Nodes /\ m # n
  BY <1>1
<1>5. CASE Step(n, [op[n] EXCEPT !.next = @ \ {m}])
  <2> DEFINE o == [op[n] EXCEPT !.next = op[n].next \ {m}]
  <2>1. /\ o \in Operation /\ o.kind = "try" /\ o.file = op[n].file /\ o.todo = op[n].todo
        /\ o.list = op[n].list /\ o.from = op[n].from /\ o.next = op[n].next \ {m}
    BY <1>1 DEF Operation
  <2>2. Step(n, o)
    BY <1>1, <1>5 DEF Operation
  <2> HIDE DEF o
  <2>3. Proper(n, o)
    BY <1>1, <2>1 DEF Proper, Storing
  <2>4. OpTyped' /\ op'[n] = o /\ \A k \in Nodes \ {n} : op'[k] = op[k]
    BY <2>2, <2>3, StepTyped
  <2>5. Elsewhere(n)
    BY <1>2, <2>4 DEF Elsewhere, Silent, Quiet
  <2>6. NowAt(n, "try", op[n].file, op[n].todo, op[n].list)
    BY <2>1, <2>4 DEF NowAt
  <2>7. QED
    BY <1>1, <1>2, <2>4, <2>5, <2>6 DEF Silent, Quiet, Typed, DisksTyped, RestTyped
<1>6. ASSUME NEW list \in AnswerMetadata(m, op[n].file),
             Step(n, [op[n] EXCEPT !.kind = "fetch", !.next = @ \ {m}, !.from = m,
                                   !.todo = list, !.list = <<>>])
      PROVE  /\ Typed' /\ Elsewhere(n) /\ meta[m][op[n].file].state = "whole"
             /\ NowAt(n, "fetch", op[n].file, meta[m][op[n].file].list, <<>>)
  <2> DEFINE o == [op[n] EXCEPT !.kind = "fetch", !.next = op[n].next \ {m}, !.from = m,
                                !.todo = list, !.list = <<>>]
  <2>1. /\ list \in Seq(Chunks) /\ meta[m][op[n].file].state = "whole"
        /\ list = meta[m][op[n].file].list
    BY <1>1, <1>4, LoadedList DEF AnswerMetadata
  <2>2. <<>> \in Seq(Chunks \cup {Partial})
    OBVIOUS
  <2>3. /\ o \in Operation /\ o.kind = "fetch" /\ o.file = op[n].file /\ o.todo = list
        /\ o.list = <<>> /\ o.from = m /\ o.next = op[n].next \ {m}
    BY <1>1, <1>4, <2>1, <2>2 DEF Operation, Kinds
  <2>4. Step(n, o)
    BY <1>1, <1>6 DEF Operation
  <2> HIDE DEF o
  <2>5. Proper(n, o)
    BY <1>1, <1>4, <2>3 DEF Proper, Storing
  <2>6. OpTyped' /\ op'[n] = o /\ \A k \in Nodes \ {n} : op'[k] = op[k]
    BY <2>4, <2>5, StepTyped
  <2>7. Elsewhere(n)
    BY <1>2, <2>6 DEF Elsewhere, Silent, Quiet
  <2>8. NowAt(n, "fetch", op[n].file, meta[m][op[n].file].list, <<>>)
    BY <2>1, <2>3, <2>6 DEF NowAt
  <2>9. QED
    BY <1>2, <2>1, <2>6, <2>7, <2>8 DEF Silent, Quiet, Typed, DisksTyped, RestTyped
<1>7. QED
  BY <1>1, <1>2, <1>3, <1>4, <1>5, <1>6 DEF RequestMetadata

LEMMA NoProviderLeftEffect ==
    ASSUME Typed, NEW n \in Nodes, NoProviderLeft(n)
    PROVE  /\ Typed' /\ Elsewhere(n) /\ Silent /\ op[n].kind = "try"
           /\ NowAt(n, "idle", NoFile, <<>>, <<>>)
<1>1. /\ OpTyped' /\ NowAt(n, "idle", NoFile, <<>>, <<>>)
      /\ \A m \in Nodes \ {n} : op'[m] = op[m]
  BY ReturnEffect DEF NoProviderLeft
<1>2. Elsewhere(n) /\ Silent /\ op[n].kind = "try"
  BY <1>1 DEF NoProviderLeft, At, Elsewhere, Silent, Quiet, disks
<1>3. QED
  BY <1>1, <1>2 DEF NoProviderLeft, disks, Typed, DisksTyped, RestTyped

LEMMA GiveUpEffect ==
    ASSUME Typed, NEW n \in Nodes, op[n].kind = "fetch",
           NEW tmp \in Seq(Chunks \cup {Partial}), GiveUp(n, tmp)
    PROVE  /\ OpTyped' /\ NowAt(n, "try", op[n].file, <<>>, tmp)
           /\ \A m \in Nodes \ {n} : op'[m] = op[m]
<1> DEFINE o == [op[n] EXCEPT !.kind = "try", !.from = NoNode, !.todo = <<>>, !.list = tmp]
<1>1. op[n] \in Operation /\ Proper(n, op[n])
  BY DEF Typed, OpTyped
<1>2. <<>> \in Seq(Chunks)
  OBVIOUS
<1>3. /\ o \in Operation /\ o.kind = "try" /\ o.file = op[n].file /\ o.todo = <<>>
      /\ o.list = tmp /\ o.from = NoNode /\ o.next = op[n].next
  BY <1>1, <1>2 DEF Operation, Kinds
<1>4. Step(n, o)
  BY DEF GiveUp
<1> HIDE DEF o
<1>5. Proper(n, o)
  BY <1>1, <1>3, CloudAssumption DEF Proper, Storing
<1>6. OpTyped' /\ op'[n] = o /\ \A m \in Nodes \ {n} : op'[m] = op[m]
  BY <1>4, <1>5, StepTyped
<1>7. QED
  BY <1>3, <1>6 DEF NowAt

LEMMA FetchChunkEffect ==
    ASSUME Typed, NEW n \in Nodes, FetchChunk(n)
    PROVE  /\ Typed' /\ Elsewhere(n) /\ Silent
           /\ op[n].kind = "fetch" /\ op[n].todo # <<>>
           /\ \/ NowAt(n, "try", op[n].file, <<>>, <<>>)
              \/ \E d \in {Chunk(n), Partial} :
                    /\ d \in Chunks \cup {Partial}
                    /\ NowAt(n, "fetch", op[n].file, Tail(op[n].todo), Append(op[n].list, d))
<1>1. /\ Proper(n, op[n]) /\ op[n] \in Operation
      /\ op[n].kind = "fetch" /\ op[n].todo # <<>>
  BY DEF Typed, OpTyped, FetchChunk, At
<1>2. op[n].todo \in Seq(Chunks) /\ op[n].from \in Nodes
  BY <1>1 DEF Operation, Proper
<1>3. Chunk(n) \in Chunks
  BY <1>1, <1>2, HeadTail DEF Chunk
<1>4. Silent /\ UNCHANGED <<advertised, dht>>
  BY DEF FetchChunk, Silent, Quiet, disks
<1>5. CASE GiveUp(n, <<>>)
  <2>1. /\ OpTyped' /\ NowAt(n, "try", op[n].file, <<>>, <<>>)
        /\ \A m \in Nodes \ {n} : op'[m] = op[m]
    <3>1. <<>> \in Seq(Chunks \cup {Partial})
      OBVIOUS
    <3>2. QED
      BY <1>1, <1>5, <3>1, GiveUpEffect
  <2>2. Elsewhere(n)
    BY <1>4, <2>1 DEF Elsewhere, Silent, Quiet
  <2>3. QED
    BY <1>1, <1>4, <2>1, <2>2 DEF Silent, Quiet, Typed, DisksTyped, RestTyped
<1>6. ASSUME NEW d \in AnswerChunk(op[n].from, Chunk(n)), Step(n, Handled(n, "fetch", d))
      PROVE  /\ Typed' /\ Elsewhere(n) /\ d \in {Chunk(n), Partial} /\ d \in Chunks \cup {Partial}
             /\ NowAt(n, "fetch", op[n].file, Tail(op[n].todo), Append(op[n].list, d))
  <2>1. d \in {Chunk(n), Partial} /\ d \in Chunks \cup {Partial}
    BY <1>2, <1>3, ChunkRead DEF AnswerChunk
  <2>2. /\ OpTyped' /\ \A m \in Nodes \ {n} : op'[m] = op[m]
        /\ NowAt(n, "fetch", op[n].file, Tail(op[n].todo), Append(op[n].list, d))
    BY <1>1, <1>2, <1>6, <2>1, HandledEffect
  <2>3. Elsewhere(n)
    BY <1>4, <2>2 DEF Elsewhere, Silent, Quiet
  <2>4. QED
    BY <1>4, <2>1, <2>2, <2>3 DEF Silent, Quiet, Typed, DisksTyped, RestTyped
<1>7. QED
  BY <1>1, <1>4, <1>5, <1>6 DEF FetchChunk

LEMMA FetchDoneEffect ==
    ASSUME Typed, NEW n \in Nodes, FetchDone(n)
    PROVE  /\ Typed' /\ Elsewhere(n) /\ Quiet /\ op[n].kind = "fetch" /\ op[n].todo = <<>>
           /\ \/ /\ NowAt(n, "try", op[n].file, <<>>, op[n].list)
                 /\ UNCHANGED <<dest, claim>>
              \/ /\ NowAt(n, "idle", NoFile, <<>>, <<>>)
                 /\ dest'[n] = op[n].list /\ claim'[n] = op[n].file
<1>1. /\ Proper(n, op[n]) /\ op[n] \in Operation
      /\ op[n].kind = "fetch" /\ op[n].todo = <<>>
  BY DEF Typed, OpTyped, FetchDone, At
<1>2. op[n].list \in Seq(Chunks \cup {Partial}) /\ op[n].file \in Files
  BY <1>1 DEF Operation, Proper
<1>3. Quiet /\ UNCHANGED <<advertised, dht>>
  BY DEF FetchDone, Quiet
<1>4. CASE GiveUp(n, op[n].list) /\ UNCHANGED <<dest, claim>>
  <2>1. /\ OpTyped' /\ NowAt(n, "try", op[n].file, <<>>, op[n].list)
        /\ \A m \in Nodes \ {n} : op'[m] = op[m]
    BY <1>1, <1>2, <1>4, GiveUpEffect
  <2>2. Elsewhere(n)
    BY <1>3, <1>4, <2>1 DEF Elsewhere, Quiet
  <2>3. QED
    BY <1>1, <1>3, <1>4, <2>1, <2>2 DEF Quiet, Typed, DisksTyped, RestTyped
<1>5. CASE /\ dest' = [dest EXCEPT ![n] = op[n].list]
           /\ claim' = [claim EXCEPT ![n] = op[n].file]
           /\ Return(n)
  <2>1. /\ OpTyped' /\ NowAt(n, "idle", NoFile, <<>>, <<>>)
        /\ \A m \in Nodes \ {n} : op'[m] = op[m]
    BY <1>5, ReturnEffect
  <2>2. /\ dest' \in [Nodes -> Seq(Chunks \cup {Partial})] /\ dest'[n] = op[n].list
        /\ \A m \in Nodes \ {n} : dest'[m] = dest[m]
    BY <1>2, <1>5 DEF Typed, DisksTyped
  <2>3. /\ claim' \in [Nodes -> Files \cup {NoFile}] /\ claim'[n] = op[n].file
        /\ \A m \in Nodes \ {n} : claim'[m] = claim[m]
    BY <1>2, <1>5 DEF Typed, RestTyped
  <2>4. Elsewhere(n)
    BY <1>3, <2>1, <2>2, <2>3 DEF Elsewhere, Quiet
  <2>5. QED
    BY <1>1, <1>3, <2>1, <2>2, <2>3, <2>4 DEF Quiet, Typed, DisksTyped, RestTyped
<1>6. QED
  BY <1>4, <1>5 DEF FetchDone

LEMMA CrashEffect ==
    ASSUME Typed, NEW n \in Nodes, Crash(n)
    PROVE  /\ Typed' /\ Elsewhere(n) /\ Silent /\ NowAt(n, "idle", NoFile, <<>>, <<>>)
<1>1. /\ OpTyped' /\ NowAt(n, "idle", NoFile, <<>>, <<>>)
      /\ \A m \in Nodes \ {n} : op'[m] = op[m]
  BY ReturnEffect DEF Crash
<1>2. Elsewhere(n) /\ Silent
  BY <1>1 DEF Crash, Elsewhere, Silent, Quiet, disks
<1>3. advertised' \in [Nodes -> SUBSET Files]
  BY DEF Crash, Typed, RestTyped
<1>4. QED
  BY <1>1, <1>2, <1>3 DEF Crash, disks, Typed, DisksTyped, RestTyped
-----------------------------------------------------------------------------
LEMMA TypedInit == Init => Typed
<1> SUFFICES ASSUME Init PROVE Typed
  OBVIOUS
<1>2. DisksTyped
  <2>1. <<>> \in Seq(Chunks \cup {Partial})
    OBVIOUS
  <2>2. QED
    BY <2>1, MetasTyped DEF Init, DisksTyped
<1>3. RestTyped
  BY DEF Init, RestTyped
<1>4. \A n \in Nodes : Idle \in Operation /\ Proper(n, Idle)
  BY IdleProper DEF Proper
<1>5. OpTyped
  BY <1>4 DEF Init, OpTyped
<1>6. QED
  BY <1>2, <1>3, <1>5 DEF Typed

LEMMA TypedNext == Typed /\ [Next]_vars => Typed'
<1> SUFFICES ASSUME Typed, [Next]_vars PROVE Typed'
  OBVIOUS
<1>2. CASE UNCHANGED vars
  BY <1>2 DEF vars, disks, Typed, DisksTyped, RestTyped, OpTyped, Proper
<1>3. ASSUME NEW n \in Nodes, NEW f \in Files,
             \/ Upload(n, f) \/ EditFile(n, f) \/ Delete(n, f)
             \/ DownloadLocal(n, f) \/ DownloadRemote(n, f) \/ ExpireRecord(f, n)
      PROVE  Typed'
  BY <1>3, UploadEffect, EditFileEffect, DeleteEffect, DownloadLocalEffect,
     DownloadRemoteEffect, RecordsEffect
<1>4. ASSUME NEW n \in Nodes, Work(n) PROVE Typed'
  BY <1>4, TruncateChunkEffect, WriteChunkEffect, TruncateMetaEffect, WriteMetaEffect,
     AdvertiseEffect, DeleteChunkEffect, DeleteMetaEffect, RetrieveChunkEffect,
     RetrieveDoneEffect, TryProviderEffect, NoProviderLeftEffect, FetchChunkEffect,
     FetchDoneEffect DEF Work
<1>5. ASSUME NEW n \in Nodes,
             AdvertiseLoop(n) \/ StoreError(n) \/ DeleteError(n) \/ Crash(n)
      PROVE  Typed'
  BY <1>5, RecordsEffect, StoreErrorEffect, DeleteErrorEffect, CrashEffect
<1>6. QED
  BY <1>2, <1>3, <1>4, <1>5 DEF Next

(* The disks, the operations and the records of all nodes keep their type: *)
(* an operation that is not idle has a file, Store files only chunks it    *)
(* has read itself, and no node asks itself for a file.                    *)
THEOREM TypeCorrect == Spec => []TypeOK
<1>1. Init => Typed
  BY TypedInit
<1>2. Typed /\ [Next]_vars => Typed'
  BY TypedNext
<1>3. Typed => TypeOK
  BY TypedIsTypeOK
<1>4. QED
  BY <1>1, <1>2, <1>3, PTL DEF Spec
-----------------------------------------------------------------------------
(* The steps of node n, each of which leaves the other nodes as they are.  *)
NodeStep(n) ==
    \/ \E f \in Files : \/ Upload(n, f) \/ EditFile(n, f) \/ Delete(n, f)
                        \/ DownloadLocal(n, f) \/ DownloadRemote(n, f)
    \/ Work(n) \/ StoreError(n) \/ DeleteError(n) \/ Crash(n)

Records(n) == AdvertiseLoop(n) \/ \E f \in Files : ExpireRecord(f, n)

LEMMA NextSplit == Next => \E n \in Nodes : NodeStep(n) \/ Records(n)
BY DEF Next, NodeStep, Records

LEMMA NodeStepElsewhere ==
    ASSUME Typed, NEW n \in Nodes, NodeStep(n)
    PROVE  Elsewhere(n)
<1>1. ASSUME NEW f \in Files, \/ Upload(n, f) \/ EditFile(n, f) \/ Delete(n, f)
                              \/ DownloadLocal(n, f) \/ DownloadRemote(n, f)
      PROVE  Elsewhere(n)
  BY <1>1, UploadEffect, EditFileEffect, DeleteEffect, DownloadLocalEffect,
     DownloadRemoteEffect
<1>2. CASE Work(n)
  BY <1>2, TruncateChunkEffect, WriteChunkEffect, TruncateMetaEffect, WriteMetaEffect,
     AdvertiseEffect, DeleteChunkEffect, DeleteMetaEffect, RetrieveChunkEffect,
     RetrieveDoneEffect, TryProviderEffect, NoProviderLeftEffect, FetchChunkEffect,
     FetchDoneEffect DEF Work
<1>3. CASE StoreError(n) \/ DeleteError(n) \/ Crash(n)
  BY <1>3, StoreErrorEffect, DeleteErrorEffect, CrashEffect
<1>4. QED
  BY <1>1, <1>2, <1>3 DEF NodeStep

LEMMA ListsTyped ==
    ASSUME Typed, NEW n \in Nodes
    PROVE  /\ \A f \in Files : /\ meta[n][f].list \in Seq(Chunks)
                               /\ Range(meta[n][f].list) \subseteq Chunks
           /\ op[n].todo \in Seq(Chunks) /\ op[n].list \in Seq(Chunks \cup {Partial})
           /\ op[n].kind # "idle" => op[n].file \in Files
           /\ op[n].kind \in Storing \cup {"delete"} =>
                 op[n].list \in Seq(Chunks) /\ Range(op[n].list) \subseteq Chunks
<1>1. \A f \in Files : meta[n][f].list \in Seq(Chunks)
  BY DEF Typed, DisksTyped, Meta
<1>2. op[n] \in Operation /\ Proper(n, op[n])
  BY DEF Typed, OpTyped
<1>3. QED
  BY <1>1, <1>2, RangeTyped DEF Operation, Proper
-----------------------------------------------------------------------------
(* DownloadFaithful, for one node: while no file has changed during its    *)
(* upload, list and todo of an operation make up the file together, except *)
(* for chunks read torn; a metadata file lists its file; and what Retrieve *)
(* has read is what it has written to destPath, which nobody has been told *)
(* about.                                                                  *)
MakeUp(list, todo, s) ==
    /\ Len(list) + Len(todo) = Len(s)
    /\ \A i \in 1..Len(list) : list[i] \in {s[i], Partial}
    /\ \A i \in 1..Len(todo) : todo[i] = s[Len(list) + i]

MetaFaithful(n) ==
    \A f \in Files : meta[n][f].state = "whole" => meta[n][f].list = Content[f]

OpFaithful(n) ==
    op[n].kind \in Storing \cup {"retrieve", "fetch"}
        => MakeUp(op[n].list, op[n].todo, Content[op[n].file])

DestFaithful(n) ==
    /\ At(n, "retrieve") => dest[n] = op[n].list /\ claim[n] = NoFile
    /\ claim[n] # NoFile /\ Partial \notin Range(dest[n]) => dest[n] = Content[claim[n]]

FaithfulAt(n) == MetaFaithful(n) /\ OpFaithful(n) /\ DestFaithful(n)

FaithfulInv == edits = 0 => \A n \in Nodes : FaithfulAt(n)

LEMMA MakeUpBegin == ASSUME NEW s \in Seq(Chunks) PROVE MakeUp(<<>>, s, s)
BY DEF MakeUp

LEMMA MakeUpStep ==
    ASSUME NEW s \in Seq(Chunks), NEW list \in Seq(Chunks \cup {Partial}),
           NEW todo \in Seq(Chunks), todo # <<>>,
           NEW d \in Chunks \cup {Partial}, d \in {Head(todo), Partial},
           MakeUp(list, todo, s)
    PROVE  MakeUp(Append(list, d), Tail(todo), s)
<1> DEFINE l == Append(list, d)
           t == Tail(todo)
<1>1. /\ Head(todo) = todo[1] /\ Len(todo) \in Nat /\ Len(todo) > 0
      /\ Len(t) = Len(todo) - 1 /\ \A i \in 1..Len(t) : t[i] = todo[i + 1]
  BY HeadTail
<1>2. /\ Len(l) = Len(list) + 1 /\ Len(list) \in Nat /\ l[Len(list) + 1] = d
      /\ \A i \in 1..Len(list) : l[i] = list[i]
  OBVIOUS
<1> HIDE DEF l, t
<1>3. Len(l) + Len(t) = Len(s)
  BY <1>1, <1>2 DEF MakeUp
<1>4. \A i \in 1..Len(l) : l[i] \in {s[i], Partial}
  <2>1. SUFFICES ASSUME NEW i \in 1..Len(l) PROVE l[i] \in {s[i], Partial}
    OBVIOUS
  <2>2. CASE i \in 1..Len(list)
    BY <1>2, <2>2 DEF MakeUp
  <2>3. CASE i = Len(list) + 1
    <3>1. todo[1] = s[Len(list) + 1]
      BY <1>1 DEF MakeUp
    <3>2. QED
      BY <1>1, <1>2, <2>3, <3>1
  <2>4. QED
    BY <1>2, <2>1, <2>2, <2>3
<1>5. \A i \in 1..Len(t) : t[i] = s[Len(l) + i]
  <2>1. SUFFICES ASSUME NEW i \in 1..Len(t) PROVE t[i] = s[Len(l) + i]
    OBVIOUS
  <2>2. i + 1 \in 1..Len(todo)
    BY <1>1, <2>1
  <2>3. todo[i + 1] = s[Len(list) + (i + 1)]
    BY <2>2 DEF MakeUp
  <2>4. Len(list) + (i + 1) = Len(l) + i
    BY <1>1, <1>2, <2>1
  <2>5. QED
    BY <1>1, <2>1, <2>3, <2>4
<1>6. MakeUp(l, t, s)
  BY <1>3, <1>4, <1>5 DEF MakeUp
<1>7. QED
  BY <1>6 DEF l, t

LEMMA MakeUpEnd ==
    ASSUME NEW s \in Seq(Chunks), NEW list \in Seq(Chunks \cup {Partial}),
           MakeUp(list, <<>>, s), Partial \notin Range(list)
    PROVE  list = s
<1>1. Len(list) = Len(s) /\ Len(s) \in Nat
  BY DEF MakeUp
<1>2. \A i \in 1..Len(list) : list[i] = s[i]
  BY DEF MakeUp, Range
<1>3. QED
  BY <1>1, <1>2

LEMMA FaithfulElsewhere ==
    ASSUME NEW n \in Nodes, Elsewhere(n), NEW m \in Nodes \ {n}, FaithfulAt(m)
    PROVE  FaithfulAt(m)'
BY DEF Elsewhere, FaithfulAt, MetaFaithful, OpFaithful, DestFaithful, At

(* Steps that leave the metadata, destPath and the claim alone, by what    *)
(* the operation of n becomes.                                             *)
LEMMA FaithfulSilent ==
    ASSUME Typed, NEW n \in Nodes, FaithfulAt(n), meta'[n] = meta[n],
           UNCHANGED <<dest, claim>>, op'[n].kind # "retrieve",
           op'[n].kind \in Storing \cup {"fetch"}
               => MakeUp(op'[n].list, op'[n].todo, Content[op'[n].file])
    PROVE  FaithfulAt(n)'
BY DEF FaithfulAt, MetaFaithful, OpFaithful, DestFaithful, At

LEMMA FaithfulStoring ==
    ASSUME Typed, NEW n \in Nodes, FaithfulAt(n),
           \/ \E f \in Files : Upload(n, f)
           \/ TruncateChunk(n) \/ WriteChunk(n)
    PROVE  FaithfulAt(n)'
<1>1. ASSUME NEW f \in Files, Upload(n, f) PROVE FaithfulAt(n)'
  <2>1. /\ UNCHANGED <<meta, dest, claim>> /\ op'[n].kind = "store"
        /\ op'[n].file = f /\ op'[n].todo = Content[f] /\ op'[n].list = <<>>
    BY <1>1, UploadEffect DEF Begun, NowAt
  <2>2. MakeUp(<<>>, Content[f], Content[f])
    BY MakeUpBegin, CloudAssumption
  <2>3. QED
    BY <2>1, <2>2, FaithfulSilent
<1>2. CASE TruncateChunk(n)
  <2>1. /\ UNCHANGED <<meta, dest, claim>> /\ op[n].kind = "store" /\ op'[n].kind = "storing"
        /\ op'[n].file = op[n].file /\ op'[n].todo = op[n].todo /\ op'[n].list = op[n].list
    BY <1>2, TruncateChunkEffect DEF NowAt
  <2>2. MakeUp(op[n].list, op[n].todo, Content[op[n].file])
    BY <2>1 DEF FaithfulAt, OpFaithful, Storing
  <2>3. QED
    BY <2>1, <2>2, FaithfulSilent
<1>3. CASE WriteChunk(n)
  <2>1. /\ UNCHANGED <<meta, dest, claim>> /\ op[n].kind = "storing" /\ op[n].todo # <<>>
        /\ Chunk(n) \in Chunks /\ op'[n].kind = "store" /\ op'[n].file = op[n].file
        /\ op'[n].todo = Tail(op[n].todo) /\ op'[n].list = Append(op[n].list, Chunk(n))
    BY <1>3, WriteChunkEffect DEF NowAt
  <2>2. MakeUp(op[n].list, op[n].todo, Content[op[n].file])
    BY <2>1 DEF FaithfulAt, OpFaithful, Storing
  <2>3. /\ op[n].todo \in Seq(Chunks) /\ op[n].list \in Seq(Chunks \cup {Partial})
        /\ Content[op[n].file] \in Seq(Chunks)
    BY <2>1, ListsTyped, CloudAssumption
  <2>4. MakeUp(Append(op[n].list, Chunk(n)), Tail(op[n].todo), Content[op[n].file])
    BY <2>1, <2>2, <2>3, MakeUpStep DEF Chunk
  <2>5. QED
    BY <2>1, <2>4, FaithfulSilent
<1>4. QED
  BY <1>1, <1>2, <1>3

LEMMA FaithfulFiling ==
    ASSUME Typed, NEW n \in Nodes, FaithfulAt(n),
           TruncateMeta(n) \/ WriteMeta(n) \/ DeleteMeta(n)
    PROVE  FaithfulAt(n)'
<1>1. CASE TruncateMeta(n)
  <2>1. /\ UNCHANGED <<dest, claim>> /\ op[n].kind = "store" /\ op[n].todo = <<>>
        /\ op'[n].kind = "filing" /\ op'[n].file = op[n].file
        /\ op'[n].todo = op[n].todo /\ op'[n].list = op[n].list
        /\ \A g \in Files : meta'[n][g] = IF g = op[n].file THEN TornMeta ELSE meta[n][g]
    BY <1>1, TruncateMetaEffect DEF NowAt
  <2>2. TornMeta.state # "whole"
    BY DEF TornMeta
  <2>3. MetaFaithful(n)'
    BY <2>1, <2>2 DEF FaithfulAt, MetaFaithful
  <2>4. OpFaithful(n)'
    BY <2>1 DEF FaithfulAt, OpFaithful, Storing
  <2>5. DestFaithful(n)'
    BY <2>1 DEF FaithfulAt, DestFaithful, At
  <2>6. QED
    BY <2>3, <2>4, <2>5 DEF FaithfulAt
<1>2. CASE WriteMeta(n)
  <2>1. /\ UNCHANGED <<dest, claim>> /\ op[n].kind = "filing" /\ op[n].todo = <<>>
        /\ op[n].file \in Files /\ op'[n].kind = "advertise"
        /\ \A g \in Files \ {op[n].file} : meta'[n][g] = meta[n][g]
        /\ meta'[n][op[n].file] = [state |-> "whole", list |-> op[n].list]
    BY <1>2, WriteMetaEffect DEF NowAt
  <2>2. MakeUp(op[n].list, <<>>, Content[op[n].file])
    BY <2>1 DEF FaithfulAt, OpFaithful, Storing
  <2>3. op[n].list \in Seq(Chunks) /\ Range(op[n].list) \subseteq Chunks
    BY <2>1, ListsTyped DEF Storing
  <2>4. op[n].list \in Seq(Chunks \cup {Partial}) /\ Content[op[n].file] \in Seq(Chunks)
    BY <2>1, ListsTyped, CloudAssumption
  <2>5. Partial \notin Range(op[n].list)
    BY <2>3, CloudAssumption
  <2>6. op[n].list = Content[op[n].file]
    BY <2>2, <2>4, <2>5, MakeUpEnd
  <2>7. MetaFaithful(n)'
    BY <2>1, <2>6 DEF FaithfulAt, MetaFaithful
  <2>8. OpFaithful(n)' /\ DestFaithful(n)'
    BY <2>1 DEF FaithfulAt, OpFaithful, DestFaithful, At, Storing
  <2>9. QED
    BY <2>7, <2>8 DEF FaithfulAt
<1>3. CASE DeleteMeta(n)
  <2>1. /\ UNCHANGED <<dest, claim>> /\ op'[n].kind = "idle"
        /\ \A g \in Files : meta'[n][g] = IF g = op[n].file THEN NoMeta ELSE meta[n][g]
    BY <1>3, DeleteMetaEffect DEF NowAt
  <2>2. NoMeta.state # "whole"
    BY DEF NoMeta
  <2>3. MetaFaithful(n)'
    BY <2>1, <2>2 DEF FaithfulAt, MetaFaithful
  <2>4. OpFaithful(n)' /\ DestFaithful(n)'
    BY <2>1 DEF FaithfulAt, OpFaithful, DestFaithful, At, Storing
  <2>5. QED
    BY <2>3, <2>4 DEF FaithfulAt
<1>4. QED
  BY <1>1, <1>2, <1>3

(* Steps that end an operation, or go on with one that says nothing of a   *)
(* file's content.                                                         *)
LEMMA FaithfulIdle ==
    ASSUME Typed, NEW n \in Nodes, FaithfulAt(n),
           \/ \E f \in Files : Delete(n, f) \/ DownloadRemote(n, f)
           \/ Advertise(n) \/ NoProviderLeft(n) \/ DeleteChunk(n)
           \/ DeleteError(n) \/ StoreError(n) \/ Crash(n)
    PROVE  FaithfulAt(n)'
<1>1. ASSUME NEW f \in Files, Delete(n, f) \/ DownloadRemote(n, f)
      PROVE  meta'[n] = meta[n] /\ UNCHANGED <<dest, claim>> /\ op'[n].kind \in {"delete", "try"}
  BY <1>1, DeleteEffect, DownloadRemoteEffect DEF Begun, Silent, Quiet, NowAt
<1>2. CASE Advertise(n) \/ NoProviderLeft(n) \/ DeleteChunk(n)
           \/ DeleteError(n) \/ StoreError(n) \/ Crash(n)
  <2>1. /\ meta'[n] = meta[n] /\ UNCHANGED <<dest, claim>>
        /\ op'[n].kind \in {"idle", "delete"}
    BY <1>2, AdvertiseEffect, NoProviderLeftEffect, DeleteChunkEffect, DeleteErrorEffect,
       StoreErrorEffect, CrashEffect DEF Silent, Quiet, NowAt
  <2>2. QED
    BY <2>1, FaithfulSilent DEF Storing
<1>3. QED
  BY <1>1, <1>2, FaithfulSilent DEF Storing

LEMMA FaithfulRetrieving ==
    ASSUME Typed, NEW n \in Nodes, FaithfulAt(n),
           \/ \E f \in Files : DownloadLocal(n, f)
           \/ RetrieveChunk(n) \/ RetrieveDone(n)
    PROVE  FaithfulAt(n)'
<1>1. ASSUME NEW f \in Files, DownloadLocal(n, f) PROVE FaithfulAt(n)'
  <2>1. /\ meta' = meta /\ meta[n][f].state = "whole" /\ op'[n].kind = "retrieve"
        /\ op'[n].file = f /\ op'[n].todo = meta[n][f].list /\ op'[n].list = <<>>
        /\ dest'[n] = <<>> /\ claim'[n] = NoFile
    BY <1>1, DownloadLocalEffect DEF Quiet, NowAt
  <2>2. meta[n][f].list = Content[f]
    BY <2>1 DEF FaithfulAt, MetaFaithful
  <2>3. MakeUp(<<>>, Content[f], Content[f])
    BY MakeUpBegin, CloudAssumption
  <2>4. MetaFaithful(n)' /\ OpFaithful(n)' /\ DestFaithful(n)'
    BY <2>1, <2>2, <2>3 DEF FaithfulAt, MetaFaithful, OpFaithful, DestFaithful, At
  <2>5. QED
    BY <2>4 DEF FaithfulAt
<1>2. CASE RetrieveChunk(n)
  <2>1. /\ UNCHANGED <<meta, claim>> /\ op[n].kind = "retrieve" /\ op[n].todo # <<>>
        /\ \/ op'[n].kind = "idle" /\ dest' = dest
           \/ \E d \in {Chunk(n), Partial} :
                 /\ d \in Chunks \cup {Partial} /\ dest'[n] = Append(dest[n], d)
                 /\ op'[n].kind = "retrieve" /\ op'[n].file = op[n].file
                 /\ op'[n].todo = Tail(op[n].todo) /\ op'[n].list = Append(op[n].list, d)
    BY <1>2, RetrieveChunkEffect DEF Quiet, NowAt
  <2>2. CASE op'[n].kind = "idle" /\ dest' = dest
    BY <2>1, <2>2, FaithfulSilent DEF Storing
  <2>3. ASSUME NEW d \in {Chunk(n), Partial},
               d \in Chunks \cup {Partial}, dest'[n] = Append(dest[n], d),
               op'[n].kind = "retrieve", op'[n].file = op[n].file,
               op'[n].todo = Tail(op[n].todo), op'[n].list = Append(op[n].list, d)
        PROVE  FaithfulAt(n)'
    <3>1. /\ MakeUp(op[n].list, op[n].todo, Content[op[n].file])
          /\ dest[n] = op[n].list /\ claim[n] = NoFile
      BY <2>1 DEF FaithfulAt, OpFaithful, DestFaithful, At
    <3>2. /\ op[n].todo \in Seq(Chunks) /\ op[n].list \in Seq(Chunks \cup {Partial})
          /\ Content[op[n].file] \in Seq(Chunks)
      BY <2>1, ListsTyped, CloudAssumption
    <3>3. MakeUp(Append(op[n].list, d), Tail(op[n].todo), Content[op[n].file])
      BY <2>1, <2>3, <3>1, <3>2, MakeUpStep DEF Chunk
    <3>4. MetaFaithful(n)'
      BY <2>1 DEF FaithfulAt, MetaFaithful
    <3>5. OpFaithful(n)'
      BY <2>3, <3>3 DEF OpFaithful
    <3>6. DestFaithful(n)'
      BY <2>1, <2>3, <3>1 DEF DestFaithful
    <3>7. QED
      BY <3>4, <3>5, <3>6 DEF FaithfulAt
  <2>4. QED
    BY <2>1, <2>2, <2>3
<1>3. CASE RetrieveDone(n)
  <2>1. /\ UNCHANGED <<meta, dest>> /\ op[n].kind = "retrieve" /\ op[n].todo = <<>>
        /\ op'[n].kind = "idle" /\ claim'[n] = op[n].file
    BY <1>3, RetrieveDoneEffect DEF Quiet, NowAt
  <2>2. MakeUp(op[n].list, <<>>, Content[op[n].file]) /\ dest[n] = op[n].list
    BY <2>1 DEF FaithfulAt, OpFaithful, DestFaithful, At
  <2>3. op[n].list \in Seq(Chunks \cup {Partial}) /\ Content[op[n].file] \in Seq(Chunks)
    BY <2>1, ListsTyped, CloudAssumption
  <2>4. Partial \notin Range(dest[n]) => dest[n] = Content[op[n].file]
    BY <2>2, <2>3, MakeUpEnd
  <2>5. MetaFaithful(n)'
    BY <2>1 DEF FaithfulAt, MetaFaithful
  <2>6. OpFaithful(n)' /\ DestFaithful(n)'
    BY <2>1, <2>4 DEF OpFaithful, DestFaithful, At, Storing
  <2>7. QED
    BY <2>5, <2>6 DEF FaithfulAt
<1>4. QED
  BY <1>1, <1>2, <1>3

LEMMA FaithfulFetching ==
    ASSUME Typed, NEW n \in Nodes, FaithfulAt(n), \A m \in Nodes : MetaFaithful(m),
           TryProvider(n) \/ FetchChunk(n) \/ FetchDone(n)
    PROVE  FaithfulAt(n)'
<1>1. CASE TryProvider(n)
  <2>1. /\ UNCHANGED <<meta, dest, claim>> /\ op[n].kind = "try"
        /\ \/ op'[n].kind = "try"
           \/ \E m \in Nodes :
                 /\ meta[m][op[n].file].state = "whole" /\ op'[n].kind = "fetch"
                 /\ op'[n].file = op[n].file
                 /\ op'[n].todo = meta[m][op[n].file].list /\ op'[n].list = <<>>
    BY <1>1, TryProviderEffect DEF Silent, Quiet, NowAt
  <2>2. CASE op'[n].kind = "try"
    BY <2>1, <2>2, FaithfulSilent DEF Storing
  <2>3. ASSUME NEW m \in Nodes, meta[m][op[n].file].state = "whole", op'[n].kind = "fetch",
               op'[n].file = op[n].file, op'[n].todo = meta[m][op[n].file].list,
               op'[n].list = <<>>
        PROVE  FaithfulAt(n)'
    <3>1. op[n].file \in Files
      BY <2>1, ListsTyped
    <3>2. meta[m][op[n].file].list = Content[op[n].file]
      BY <2>3, <3>1 DEF MetaFaithful
    <3>3. MakeUp(<<>>, Content[op[n].file], Content[op[n].file])
      BY <3>1, MakeUpBegin, CloudAssumption
    <3>4. QED
      BY <2>1, <2>3, <3>2, <3>3, FaithfulSilent
  <2>4. QED
    BY <2>1, <2>2, <2>3
<1>2. CASE FetchChunk(n)
  <2>1. /\ UNCHANGED <<meta, dest, claim>> /\ op[n].kind = "fetch" /\ op[n].todo # <<>>
        /\ \/ op'[n].kind = "try"
           \/ \E d \in {Chunk(n), Partial} :
                 /\ d \in Chunks \cup {Partial} /\ op'[n].kind = "fetch"
                 /\ op'[n].file = op[n].file /\ op'[n].todo = Tail(op[n].todo)
                 /\ op'[n].list = Append(op[n].list, d)
    BY <1>2, FetchChunkEffect DEF Silent, Quiet, NowAt
  <2>2. CASE op'[n].kind = "try"
    BY <2>1, <2>2, FaithfulSilent DEF Storing
  <2>3. ASSUME NEW d \in {Chunk(n), Partial}, d \in Chunks \cup {Partial},
               op'[n].kind = "fetch", op'[n].file = op[n].file,
               op'[n].todo = Tail(op[n].todo), op'[n].list = Append(op[n].list, d)
        PROVE  FaithfulAt(n)'
    <3>1. MakeUp(op[n].list, op[n].todo, Content[op[n].file])
      BY <2>1 DEF FaithfulAt, OpFaithful
    <3>2. /\ op[n].todo \in Seq(Chunks) /\ op[n].list \in Seq(Chunks \cup {Partial})
          /\ Content[op[n].file] \in Seq(Chunks)
      BY <2>1, ListsTyped, CloudAssumption
    <3>3. MakeUp(Append(op[n].list, d), Tail(op[n].todo), Content[op[n].file])
      BY <2>1, <2>3, <3>1, <3>2, MakeUpStep DEF Chunk
    <3>4. QED
      BY <2>1, <2>3, <3>3, FaithfulSilent
  <2>4. QED
    BY <2>1, <2>2, <2>3
<1>3. CASE FetchDone(n)
  <2>1. /\ meta' = meta /\ op[n].kind = "fetch" /\ op[n].todo = <<>>
        /\ \/ op'[n].kind = "try" /\ UNCHANGED <<dest, claim>>
           \/ op'[n].kind = "idle" /\ dest'[n] = op[n].list /\ claim'[n] = op[n].file
    BY <1>3, FetchDoneEffect DEF Quiet, NowAt
  <2>2. CASE op'[n].kind = "try" /\ UNCHANGED <<dest, claim>>
    BY <2>1, <2>2, FaithfulSilent DEF Storing
  <2>3. CASE op'[n].kind = "idle" /\ dest'[n] = op[n].list /\ claim'[n] = op[n].file
    <3>1. MakeUp(op[n].list, <<>>, Content[op[n].file])
      BY <2>1 DEF FaithfulAt, OpFaithful
    <3>2. op[n].list \in Seq(Chunks \cup {Partial}) /\ Content[op[n].file] \in Seq(Chunks)
      BY <2>1, ListsTyped, CloudAssumption
    <3>3. Partial \notin Range(op[n].list) => op[n].list = Content[op[n].file]
      BY <3>1, <3>2, MakeUpEnd
    <3>4. MetaFaithful(n)'
      BY <2>1 DEF FaithfulAt, MetaFaithful
    <3>5. OpFaithful(n)' /\ DestFaithful(n)'
      BY <2>3, <3>3 DEF OpFaithful, DestFaithful, At, Storing
    <3>6. QED
      BY <3>4, <3>5 DEF FaithfulAt
  <2>4. QED
    BY <2>1, <2>2, <2>3
<1>4. QED
  BY <1>1, <1>2, <1>3

LEMMA FaithfulInit == Init => FaithfulInv
<1> SUFFICES ASSUME Init, NEW n \in Nodes PROVE FaithfulAt(n)
  BY DEF FaithfulInv
<1>1. op[n] = Idle /\ claim[n] = NoFile /\ \A f \in Files : meta[n][f] = NoMeta
  BY DEF Init
<1>2. Idle.kind = "idle" /\ NoMeta.state = "absent"
  BY DEF Idle, NoMeta
<1>3. QED
  BY <1>1, <1>2 DEF FaithfulAt, MetaFaithful, OpFaithful, DestFaithful, At, Storing

LEMMA EditsGrow ==
    ASSUME Typed, NEW n \in Nodes, NodeStep(n)
    PROVE  \/ \E f \in Files : EditFile(n, f) /\ edits' # 0
           \/ edits' = edits
<1>1. ASSUME NEW f \in Files, EditFile(n, f) PROVE edits' # 0
  BY <1>1, EditFileEffect
<1>2. QED
  BY <1>1 DEF NodeStep, Work, Upload, Delete, DownloadLocal, DownloadRemote, TruncateChunk,
     WriteChunk, TruncateMeta, WriteMeta, Advertise, DeleteChunk, DeleteMeta, RetrieveChunk,
     RetrieveDone, TryProvider, NoProviderLeft, FetchChunk, FetchDone, StoreError,
     DeleteError, Crash

LEMMA FaithfulNext == Typed /\ FaithfulInv /\ [Next]_vars => FaithfulInv'
<1> SUFFICES ASSUME Typed, FaithfulInv, [Next]_vars, edits' = 0, NEW m \in Nodes
             PROVE  FaithfulAt(m)'
  BY DEF FaithfulInv
<1>1. CASE UNCHANGED <<op, meta, dest, claim, edits>>
  <2>1. FaithfulAt(m)
    BY <1>1 DEF FaithfulInv
  <2>2. QED
    BY <1>1, <2>1 DEF FaithfulAt, MetaFaithful, OpFaithful, DestFaithful, At
<1>2. ASSUME NEW n \in Nodes, NodeStep(n) PROVE FaithfulAt(m)'
  <2>1. edits = 0 /\ ~\E f \in Files : EditFile(n, f)
    BY <1>2, EditsGrow, EditFileEffect
  <2>2. \A k \in Nodes : FaithfulAt(k) /\ MetaFaithful(k)
    BY <2>1 DEF FaithfulInv, FaithfulAt
  <2>3. CASE m = n
    BY <1>2, <2>1, <2>2, <2>3, FaithfulStoring, FaithfulFiling, FaithfulIdle,
       FaithfulRetrieving, FaithfulFetching DEF NodeStep, Work
  <2>4. CASE m # n
    BY <1>2, <2>2, <2>4, NodeStepElsewhere, FaithfulElsewhere
  <2>5. QED
    BY <2>3, <2>4
<1>3. ASSUME NEW n \in Nodes, Records(n) PROVE UNCHANGED <<op, meta, dest, claim, edits>>
  BY <1>3, RecordsEffect DEF Records
<1>4. QED
  BY <1>1, <1>2, <1>3, NextSplit DEF vars, disks

(* A Download that reports success has put the file asked for at destPath, *)
(* whatever the providers delete and store and wherever they fail, unless  *)
(* a chunk was read torn or a file changed during its upload.              *)
THEOREM DownloadsAreFaithful == Spec => []DownloadFaithful
<1>1. Init => Typed /\ FaithfulInv
  BY TypedInit, FaithfulInit
<1>2. Typed /\ FaithfulInv /\ [Next]_vars => (Typed /\ FaithfulInv)'
  BY TypedNext, FaithfulNext
<1>3. FaithfulInv => DownloadFaithful
  BY DEF FaithfulInv, FaithfulAt, DestFaithful, DownloadFaithful
<1>4. QED
  BY <1>1, <1>2, <1>3, PTL DEF Spec
-----------------------------------------------------------------------------
(* ListedIsWhole, for one node, and what it needs to be inductive while no *)
(* file has changed during its upload: the chunks that a Store has written *)
(* so far are whole, for when WriteMeta takes its file from undone; and    *)
(* what a Delete has still to remove are chunks of its file.               *)
Kept(n, c) == \/ chunks[n][c] = "whole"
              \/ \E g \in undone[n] : c \in Range(Content[g])

ListedKept(n) ==
    \A f \in Files : meta[n][f].state = "whole" =>
        \A c \in Range(meta[n][f].list) : Kept(n, c)

StoredWhole(n) ==
    op[n].kind \in Storing =>
        /\ op[n].file \in undone[n]
        /\ \A c \in Range(op[n].list) :
              \/ chunks[n][c] = "whole"
              \/ At(n, "storing") /\ c = Chunk(n)

DeletedOwn(n) ==
    At(n, "delete") =>
        /\ op[n].file \in undone[n]
        /\ Range(op[n].todo) \subseteq Range(Content[op[n].file])

WholeAt(n) == ListedKept(n) /\ StoredWhole(n) /\ DeletedOwn(n)

WholeInv == edits = 0 => \A n \in Nodes : WholeAt(n)

LEMMA RangeHeadTail ==
    ASSUME NEW S, NEW s \in Seq(S), s # <<>>
    PROVE  Head(s) \in Range(s) /\ Range(Tail(s)) \subseteq Range(s)
<1>1. /\ Head(s) = s[1] /\ Len(s) \in Nat /\ Len(s) > 0 /\ Len(Tail(s)) = Len(s) - 1
      /\ \A i \in 1..Len(Tail(s)) : Tail(s)[i] = s[i + 1]
      /\ DOMAIN s = 1..Len(s) /\ DOMAIN Tail(s) = 1..Len(Tail(s))
  BY HeadTail
<1>2. Head(s) \in Range(s)
  <2>1. 1 \in 1..Len(s)
    BY <1>1
  <2>2. QED
    BY <1>1, <2>1 DEF Range
<1>3. ASSUME NEW i \in 1..Len(Tail(s)) PROVE Tail(s)[i] \in Range(s)
  <2>1. i + 1 \in 1..Len(s)
    BY <1>1
  <2>2. QED
    BY <1>1, <2>1 DEF Range
<1>4. QED
  BY <1>1, <1>2, <1>3 DEF Range

(* The next chunk of an operation is one of its file. *)
LEMMA NextChunkOwn ==
    ASSUME NEW s \in Seq(Chunks), NEW list \in Seq(Chunks \cup {Partial}),
           NEW todo \in Seq(Chunks), todo # <<>>, MakeUp(list, todo, s)
    PROVE  Head(todo) \in Range(s)
<1>1. Head(todo) = todo[1] /\ Len(todo) \in Nat /\ Len(todo) > 0
  BY HeadTail
<1>2. Len(list) \in Nat /\ Len(s) \in Nat /\ DOMAIN s = 1..Len(s)
  OBVIOUS
<1>3. Len(list) + Len(todo) = Len(s)
  BY DEF MakeUp
<1>4. 1 \in 1..Len(todo) /\ Len(list) + 1 \in 1..Len(s)
  BY <1>1, <1>2, <1>3
<1>5. todo[1] = s[Len(list) + 1]
  BY <1>4 DEF MakeUp
<1>6. QED
  BY <1>1, <1>2, <1>4, <1>5 DEF Range

LEMMA WholeElsewhere ==
    ASSUME NEW n \in Nodes, Elsewhere(n), NEW m \in Nodes \ {n}, WholeAt(m)
    PROVE  WholeAt(m)'
BY DEF Elsewhere, WholeAt, ListedKept, StoredWhole, DeletedOwn, Kept, At, Chunk

(* A step that touches neither chunks nor metadata, and goes on with no    *)
(* Store and no Delete.                                                    *)
LEMMA WholeQuiet ==
    ASSUME Typed, NEW n \in Nodes, WholeAt(n), UNCHANGED <<chunks, meta, undone>>,
           op'[n].kind \notin Storing \cup {"delete"}
    PROVE  WholeAt(n)'
<1>1. ListedKept(n)'
  BY DEF WholeAt, ListedKept, Kept
<1>2. StoredWhole(n)' /\ DeletedOwn(n)'
  BY DEF StoredWhole, DeletedOwn, At
<1>3. QED
  BY <1>1, <1>2 DEF WholeAt

(* A Store begins, and so does a Delete: of a file whose chunks are listed *)
(* in full.                                                                *)
LEMMA WholeBegun ==
    ASSUME Typed, NEW n \in Nodes, WholeAt(n), FaithfulAt(n), NEW f \in Files,
           Upload(n, f) \/ Delete(n, f)
    PROVE  WholeAt(n)'
<1>1. /\ Begun(n, f) /\ op'[n].file = f /\ op'[n].list = <<>>
      /\ \/ op'[n].kind = "store"
         \/ /\ op'[n].kind = "delete" /\ meta[n][f].state = "whole"
            /\ op'[n].todo = meta[n][f].list
  BY UploadEffect, DeleteEffect DEF NowAt
<1>2. ListedKept(n)'
  BY <1>1 DEF Begun, WholeAt, ListedKept, Kept
<1>3. StoredWhole(n)'
  BY <1>1, RangeEmpty DEF Begun, StoredWhole
<1>4. DeletedOwn(n)'
  BY <1>1 DEF Begun, DeletedOwn, At, FaithfulAt, MetaFaithful
<1>5. QED
  BY <1>2, <1>3, <1>4 DEF WholeAt

(* The chunk that is torn is one of a file that is undone. *)
LEMMA WholeTruncateChunk ==
    ASSUME Typed, NEW n \in Nodes, WholeAt(n), FaithfulAt(n), TruncateChunk(n)
    PROVE  WholeAt(n)'
<1>1. /\ UNCHANGED <<meta, undone>> /\ op[n].kind = "store" /\ op[n].todo # <<>>
      /\ Chunk(n) \in Chunks /\ op'[n].kind = "storing"
      /\ op'[n].file = op[n].file /\ op'[n].todo = op[n].todo /\ op'[n].list = op[n].list
      /\ \A d \in Chunks : chunks'[n][d] = IF d = Chunk(n) THEN "torn" ELSE chunks[n][d]
  BY TruncateChunkEffect DEF NowAt
<1>2. op[n].file \in undone[n]
  BY <1>1 DEF WholeAt, StoredWhole, Storing
<1>3. Chunk(n) \in Range(Content[op[n].file])
  <2>1. MakeUp(op[n].list, op[n].todo, Content[op[n].file])
    BY <1>1 DEF FaithfulAt, OpFaithful, Storing
  <2>2. /\ op[n].todo \in Seq(Chunks) /\ op[n].list \in Seq(Chunks \cup {Partial})
        /\ Content[op[n].file] \in Seq(Chunks)
    BY <1>1, ListsTyped, CloudAssumption
  <2>3. QED
    BY <1>1, <2>1, <2>2, NextChunkOwn DEF Chunk
<1>4. \A c \in Chunks : Kept(n, c) => Kept(n, c)'
  BY <1>1, <1>2, <1>3 DEF Kept
<1>5. ListedKept(n)'
  BY <1>1, <1>4, ListsTyped DEF WholeAt, ListedKept
<1>6. StoredWhole(n)'
  <2>1. Chunk(n)' = Chunk(n) /\ Range(op[n].list) \subseteq Chunks
    BY <1>1, ListsTyped DEF Chunk, Storing
  <2>2. \A c \in Range(op[n].list) : chunks[n][c] = "whole"
    BY <1>1 DEF WholeAt, StoredWhole, Storing, At
  <2>3. QED
    BY <1>1, <1>2, <2>1, <2>2 DEF StoredWhole, At
<1>7. DeletedOwn(n)'
  BY <1>1 DEF DeletedOwn, At
<1>8. QED
  BY <1>5, <1>6, <1>7 DEF WholeAt

LEMMA WholeWriteChunk ==
    ASSUME Typed, NEW n \in Nodes, WholeAt(n), WriteChunk(n)
    PROVE  WholeAt(n)'
<1>1. /\ UNCHANGED <<meta, undone>> /\ op[n].kind = "storing" /\ Chunk(n) \in Chunks
      /\ op'[n].kind = "store" /\ op'[n].file = op[n].file
      /\ op'[n].list = Append(op[n].list, Chunk(n))
      /\ \A d \in Chunks : chunks'[n][d] = IF d = Chunk(n) THEN "whole" ELSE chunks[n][d]
  BY WriteChunkEffect DEF NowAt
<1>2. ListedKept(n)'
  <2>1. \A c \in Chunks : Kept(n, c) => Kept(n, c)'
    BY <1>1 DEF Kept
  <2>2. QED
    BY <1>1, <2>1, ListsTyped DEF WholeAt, ListedKept
<1>3. StoredWhole(n)'
  <2>1. op[n].list \in Seq(Chunks) /\ Range(op[n].list) \subseteq Chunks
    BY <1>1, ListsTyped DEF Storing
  <2>2. Range(op'[n].list) = Range(op[n].list) \cup {Chunk(n)}
    BY <1>1, <2>1, RangeAppend
  <2>3. /\ op[n].file \in undone[n]
        /\ \A c \in Range(op[n].list) : chunks[n][c] = "whole" \/ c = Chunk(n)
    BY <1>1 DEF WholeAt, StoredWhole, Storing
  <2>4. \A c \in Range(op'[n].list) : chunks'[n][c] = "whole"
    BY <1>1, <2>1, <2>2, <2>3
  <2>5. QED
    BY <1>1, <2>3, <2>4 DEF StoredWhole
<1>4. DeletedOwn(n)'
  BY <1>1 DEF DeletedOwn, At
<1>5. QED
  BY <1>2, <1>3, <1>4 DEF WholeAt

LEMMA WholeTruncateMeta ==
    ASSUME Typed, NEW n \in Nodes, WholeAt(n), TruncateMeta(n)
    PROVE  WholeAt(n)'
<1>1. /\ UNCHANGED <<chunks, undone>> /\ op[n].kind = "store"
      /\ op'[n].kind = "filing" /\ op'[n].file = op[n].file /\ op'[n].list = op[n].list
      /\ \A g \in Files : meta'[n][g] = IF g = op[n].file THEN TornMeta ELSE meta[n][g]
  BY TruncateMetaEffect DEF NowAt
<1>2. TornMeta.state # "whole"
  BY DEF TornMeta
<1>3. ListedKept(n)'
  BY <1>1, <1>2 DEF WholeAt, ListedKept, Kept
<1>4. StoredWhole(n)'
  BY <1>1 DEF WholeAt, StoredWhole, At, Storing
<1>5. DeletedOwn(n)'
  BY <1>1 DEF DeletedOwn, At
<1>6. QED
  BY <1>3, <1>4, <1>5 DEF WholeAt

(* The file is done: its chunks, which are those of op[n].list, are whole, *)
(* also where they excused another file.                                   *)
LEMMA WholeWriteMeta ==
    ASSUME Typed, NEW n \in Nodes, WholeAt(n), FaithfulAt(n), WriteMeta(n)
    PROVE  WholeAt(n)'
<1>1. /\ UNCHANGED chunks /\ op[n].kind = "filing" /\ op[n].todo = <<>>
      /\ op[n].file \in Files /\ op'[n].kind = "advertise"
      /\ \A g \in Files \ {op[n].file} : meta'[n][g] = meta[n][g]
      /\ meta'[n][op[n].file] = [state |-> "whole", list |-> op[n].list]
      /\ undone'[n] = undone[n] \ {op[n].file}
  BY WriteMetaEffect DEF NowAt
<1>2. \A c \in Range(op[n].list) : chunks[n][c] = "whole"
  BY <1>1 DEF WholeAt, StoredWhole, Storing, At
<1>3. op[n].list = Content[op[n].file]
  <2>1. MakeUp(op[n].list, <<>>, Content[op[n].file])
    BY <1>1 DEF FaithfulAt, OpFaithful, Storing
  <2>2. op[n].list \in Seq(Chunks \cup {Partial}) /\ Content[op[n].file] \in Seq(Chunks)
    BY <1>1, ListsTyped, CloudAssumption
  <2>3. Partial \notin Range(op[n].list)
    BY <1>1, ListsTyped, CloudAssumption DEF Storing
  <2>4. QED
    BY <2>1, <2>2, <2>3, MakeUpEnd
<1>4. \A c : Kept(n, c) => Kept(n, c)'
  BY <1>1, <1>2, <1>3 DEF Kept
<1>5. ListedKept(n)'
  <2>1. SUFFICES ASSUME NEW f \in Files, meta'[n][f].state = "whole",
                        NEW c \in Range(meta'[n][f].list)
                 PROVE  Kept(n, c)'
    BY DEF ListedKept
  <2>2. CASE f = op[n].file
    BY <1>1, <1>2, <2>1, <2>2 DEF Kept
  <2>3. CASE f # op[n].file
    BY <1>1, <1>4, <2>1, <2>3 DEF WholeAt, ListedKept
  <2>4. QED
    BY <2>2, <2>3
<1>6. StoredWhole(n)' /\ DeletedOwn(n)'
  BY <1>1 DEF StoredWhole, DeletedOwn, At, Storing
<1>7. QED
  BY <1>5, <1>6 DEF WholeAt

(* A chunk is removed, or cannot be: one of a file that is undone. *)
LEMMA WholeDeleteChunk ==
    ASSUME Typed, NEW n \in Nodes, WholeAt(n), DeleteChunk(n) \/ DeleteError(n)
    PROVE  WholeAt(n)'
<1>1. CASE op'[n].kind = "idle"
  <2>1. UNCHANGED <<chunks, meta, undone>>
    BY <1>1, DeleteChunkEffect, DeleteErrorEffect DEF Silent, Quiet, NowAt
  <2>2. QED
    BY <1>1, <2>1, WholeQuiet DEF Storing
<1>2. CASE op'[n].kind # "idle"
  <2>1. /\ UNCHANGED <<meta, undone>> /\ op[n].kind = "delete" /\ op[n].todo # <<>>
        /\ op'[n].kind = "delete" /\ op'[n].file = op[n].file /\ op'[n].todo = Tail(op[n].todo)
        /\ \A d \in Chunks : d = Chunk(n) \/ chunks'[n][d] = chunks[n][d]
    BY <1>2, DeleteChunkEffect, DeleteErrorEffect DEF Silent, Quiet, NowAt
  <2>2. op[n].file \in undone[n] /\ Range(op[n].todo) \subseteq Range(Content[op[n].file])
    BY <2>1 DEF WholeAt, DeletedOwn, At
  <2>3. Chunk(n) \in Range(op[n].todo) /\ Range(Tail(op[n].todo)) \subseteq Range(op[n].todo)
    BY <2>1, ListsTyped, RangeHeadTail DEF Chunk
  <2>4. \A c \in Chunks : Kept(n, c) => Kept(n, c)'
    BY <2>1, <2>2, <2>3 DEF Kept
  <2>5. ListedKept(n)'
    BY <2>1, <2>4, ListsTyped DEF WholeAt, ListedKept
  <2>6. StoredWhole(n)'
    BY <2>1 DEF StoredWhole, Storing
  <2>7. DeletedOwn(n)'
    BY <2>1, <2>2, <2>3 DEF DeletedOwn
  <2>8. QED
    BY <2>5, <2>6, <2>7 DEF WholeAt
<1>3. QED
  BY <1>1, <1>2

LEMMA WholeDeleteMeta ==
    ASSUME Typed, NEW n \in Nodes, WholeAt(n), DeleteMeta(n)
    PROVE  WholeAt(n)'
<1>1. /\ UNCHANGED <<chunks, undone>> /\ op'[n].kind = "idle"
      /\ \A g \in Files : meta'[n][g] = IF g = op[n].file THEN NoMeta ELSE meta[n][g]
  BY DeleteMetaEffect DEF NowAt
<1>2. NoMeta.state # "whole"
  BY DEF NoMeta
<1>3. ListedKept(n)'
  BY <1>1, <1>2 DEF WholeAt, ListedKept, Kept
<1>4. StoredWhole(n)' /\ DeletedOwn(n)'
  BY <1>1 DEF StoredWhole, DeletedOwn, At, Storing
<1>5. QED
  BY <1>3, <1>4 DEF WholeAt

(* The other steps: they leave what is stored alone. *)
LEMMA WholeOther ==
    ASSUME Typed, NEW n \in Nodes, WholeAt(n),
           \/ \E f \in Files : DownloadLocal(n, f) \/ DownloadRemote(n, f)
           \/ Advertise(n) \/ RetrieveChunk(n) \/ RetrieveDone(n) \/ TryProvider(n)
           \/ NoProviderLeft(n) \/ FetchChunk(n) \/ FetchDone(n) \/ StoreError(n) \/ Crash(n)
    PROVE  WholeAt(n)'
<1>1. ASSUME NEW f \in Files, DownloadLocal(n, f) \/ DownloadRemote(n, f)
      PROVE  Quiet /\ op'[n].kind \in {"retrieve", "try"}
  BY <1>1, DownloadLocalEffect, DownloadRemoteEffect DEF Silent, NowAt
<1>2. CASE Advertise(n) \/ NoProviderLeft(n) \/ TryProvider(n)
  <2>1. Quiet /\ op'[n].kind \in {"idle", "try", "fetch"}
    BY <1>2, AdvertiseEffect, NoProviderLeftEffect, TryProviderEffect DEF Silent, NowAt
  <2>2. QED
    BY <2>1, WholeQuiet DEF Storing, Quiet
<1>3. CASE RetrieveChunk(n) \/ RetrieveDone(n) \/ FetchChunk(n) \/ FetchDone(n)
  <2>1. Quiet /\ op'[n].kind \in {"idle", "try", "fetch", "retrieve"}
    BY <1>3, RetrieveChunkEffect, RetrieveDoneEffect, FetchChunkEffect, FetchDoneEffect
       DEF Silent, NowAt
  <2>2. QED
    BY <2>1, WholeQuiet DEF Storing, Quiet
<1>4. CASE StoreError(n) \/ Crash(n)
  <2>1. Quiet /\ op'[n].kind = "idle"
    BY <1>4, StoreErrorEffect, CrashEffect DEF Silent, NowAt
  <2>2. QED
    BY <2>1, WholeQuiet DEF Storing, Quiet
<1>5. QED
  BY <1>1, <1>2, <1>3, <1>4, WholeQuiet DEF Storing, Quiet

LEMMA WholeNodeStep ==
    ASSUME Typed, NEW n \in Nodes, WholeAt(n), FaithfulAt(n), NodeStep(n),
           ~\E f \in Files : EditFile(n, f)
    PROVE  WholeAt(n)'
<1>1. CASE \E f \in Files : \/ Upload(n, f) \/ Delete(n, f)
                            \/ DownloadLocal(n, f) \/ DownloadRemote(n, f)
  BY <1>1, WholeBegun, WholeOther
<1>2. CASE Work(n)
  BY <1>2, WholeTruncateChunk, WholeWriteChunk, WholeTruncateMeta, WholeWriteMeta,
     WholeDeleteChunk, WholeDeleteMeta, WholeOther DEF Work
<1>3. CASE StoreError(n) \/ DeleteError(n) \/ Crash(n)
  BY <1>3, WholeDeleteChunk, WholeOther
<1>4. QED
  BY <1>1, <1>2, <1>3 DEF NodeStep

LEMMA WholeInit == Init => WholeInv
<1> SUFFICES ASSUME Init, NEW n \in Nodes PROVE WholeAt(n)
  BY DEF WholeInv
<1>1. op[n] = Idle /\ \A f \in Files : meta[n][f] = NoMeta
  BY DEF Init
<1>2. Idle.kind = "idle" /\ NoMeta.state = "absent"
  BY DEF Idle, NoMeta
<1>3. QED
  BY <1>1, <1>2 DEF WholeAt, ListedKept, StoredWhole, DeletedOwn, At, Storing

LEMMA WholeNext == Typed /\ FaithfulInv /\ WholeInv /\ [Next]_vars => WholeInv'
<1> SUFFICES ASSUME Typed, FaithfulInv, WholeInv, [Next]_vars, edits' = 0, NEW m \in Nodes
             PROVE  WholeAt(m)'
  BY DEF WholeInv
<1>1. CASE UNCHANGED <<op, chunks, meta, undone, edits>>
  <2>1. WholeAt(m)
    BY <1>1 DEF WholeInv
  <2>2. QED
    BY <1>1, <2>1 DEF WholeAt, ListedKept, StoredWhole, DeletedOwn, Kept, At, Chunk
<1>2. ASSUME NEW n \in Nodes, NodeStep(n) PROVE WholeAt(m)'
  <2>1. edits = 0 /\ ~\E f \in Files : EditFile(n, f)
    BY <1>2, EditsGrow, EditFileEffect
  <2>2. \A k \in Nodes : FaithfulAt(k) /\ WholeAt(k)
    BY <2>1 DEF FaithfulInv, WholeInv
  <2>3. CASE m = n
    BY <1>2, <2>1, <2>2, <2>3, WholeNodeStep
  <2>4. CASE m # n
    BY <1>2, <2>2, <2>4, NodeStepElsewhere, WholeElsewhere
  <2>5. QED
    BY <2>3, <2>4
<1>3. ASSUME NEW n \in Nodes, Records(n) PROVE UNCHANGED <<op, chunks, meta, undone, edits>>
  BY <1>3, RecordsEffect DEF Records
<1>4. QED
  BY <1>1, <1>2, <1>3, NextSplit DEF vars, disks

(* A chunk of a file that is listed is missing or torn only if it is a     *)
(* chunk of a file that was deleted, or whose Store or Delete has not come *)
(* to its end: wherever nodes crash and writes and removals fail, and      *)
(* whatever is stored and deleted, chunks that no such file has are whole. *)
THEOREM ListedFilesAreWhole == Spec => []ListedIsWhole
<1>1. Init => Typed /\ FaithfulInv /\ WholeInv
  BY TypedInit, FaithfulInit, WholeInit
<1>2. Typed /\ FaithfulInv /\ WholeInv /\ [Next]_vars => (Typed /\ FaithfulInv /\ WholeInv)'
  BY TypedNext, FaithfulNext, WholeNext
<1>3. WholeInv => ListedIsWhole
  BY DEF WholeInv, WholeAt, ListedKept, Kept, ListedIsWhole
<1>4. QED
  BY <1>1, <1>2, <1>3, PTL DEF Spec
=============================================================================
