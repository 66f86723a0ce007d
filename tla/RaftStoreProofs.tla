-------------------------- MODULE RaftStoreProofs ---------------------------
(***************************************************************************)
(* Proofs about RaftStore, for every set of nodes, keys and values and any *)
(* number of calls.  TypeOK is inductive by itself; StateIsLog and         *)
(* ReadYourWrites are inductive relative to it.                            *)
(***************************************************************************)
EXTENDS RaftStore, TLAPS

(* The statuses of some calls change to "over"; nothing else of them. *)
LEMMA EndCalls ==
    ASSUME calls \in Seq(Call), NEW C, End(C)
    PROVE  /\ calls' \in Seq(Call) /\ Len(calls') = Len(calls)
           /\ \A c \in 1..Len(calls) :
                 /\ calls'[c].cmd = calls[c].cmd /\ calls'[c].node = calls[c].node
                 /\ calls'[c].status = IF c \in C THEN "over" ELSE calls[c].status
<1>1. Len(calls) \in Nat /\ \A c \in 1..Len(calls) : calls[c] \in Call
  OBVIOUS
<1>2. \A c \in 1..Len(calls) :
         [calls[c] EXCEPT !.status = "over"] \in Call
  BY <1>1 DEF Call
<1>3. \A c \in 1..Len(calls) :
         /\ calls'[c] \in Call
         /\ calls'[c] = IF c \in C THEN [calls[c] EXCEPT !.status = "over"] ELSE calls[c]
  BY <1>1, <1>2 DEF End
<1>4. calls' \in Seq(Call) /\ Len(calls') = Len(calls)
  BY <1>1, <1>3 DEF End
<1>5. QED
  BY <1>1, <1>3, <1>4 DEF Call

(* One call is answered. *)
LEMMA AnswerCall ==
    ASSUME calls \in Seq(Call), NEW c \in 1..Len(calls),
           calls' = [calls EXCEPT ![c].status = "ok"]
    PROVE  /\ calls' \in Seq(Call) /\ Len(calls') = Len(calls)
           /\ \A d \in 1..Len(calls) :
                 /\ calls'[d].cmd = calls[d].cmd /\ calls'[d].node = calls[d].node
                 /\ calls'[d].status = IF d = c THEN "ok" ELSE calls[d].status
<1>1. Len(calls) \in Nat /\ \A d \in 1..Len(calls) : calls[d] \in Call
  OBVIOUS
<1>2. [calls[c] EXCEPT !.status = "ok"] \in Call
  BY <1>1 DEF Call
<1>3. \A d \in 1..Len(calls) :
         calls'[d] = IF d = c THEN [calls[c] EXCEPT !.status = "ok"] ELSE calls[d]
  BY <1>1
<1>4. calls' \in Seq(Call) /\ Len(calls') = Len(calls)
  BY <1>1, <1>2
<1>5. QED
  BY <1>1, <1>3, <1>4 DEF Call

(* Calls keep their command and the log its entries. *)
Grows ==
    /\ Len(calls) <= Len(calls')
    /\ \A c \in 1..Len(calls) : calls'[c].cmd = calls[c].cmd /\ calls'[c].node = calls[c].node
    /\ Len(log) <= Len(log')
    /\ \A i \in 1..Len(log) : log'[i] = log[i]

(* What the first entries of the log leave under a key is settled when     *)
(* they are committed.                                                     *)
LEMMA HoldsKept ==
    ASSUME TypeOK, Grows
    PROVE  \A i \in 0..Len(log), k \in Keys : \A x : Holds(i, k, x) => Holds(i, k, x)'
<1>1. \A j \in 1..Len(log) : log[j] \in 1..Len(calls) /\ log'[j] = log[j]
  BY DEF TypeOK, Grows
<1>2. \A j \in 1..Len(log) : calls'[log'[j]].cmd = calls[log[j]].cmd
  BY <1>1 DEF Grows
<1>3. ASSUME NEW j \in 1..Len(log), NEW k \in Keys
      PROVE  (Writes(j, k) <=> Writes(j, k)') /\ WrittenBy(j)' = WrittenBy(j)
  BY <1>2 DEF Writes, WrittenBy
<1>4. Len(log) \in Nat
  BY DEF TypeOK
<1>5. SUFFICES ASSUME NEW i \in 0..Len(log), NEW k \in Keys, NEW x, Holds(i, k, x)
               PROVE  Holds(i, k, x)'
  OBVIOUS
<1>6. \A j \in 1..i : j \in 1..Len(log)
  BY <1>4
<1>7. CASE x = NoValue /\ \A j \in 1..i : ~Writes(j, k)
  BY <1>3, <1>6, <1>7 DEF Holds
<1>8. CASE \E j \in 1..i : /\ Writes(j, k) /\ x = WrittenBy(j)
                           /\ \A l \in (j + 1)..i : ~Writes(l, k)
  <2>1. PICK j \in 1..i : /\ Writes(j, k) /\ x = WrittenBy(j)
                          /\ \A l \in (j + 1)..i : ~Writes(l, k)
    BY <1>8
  <2>2. \A l \in (j + 1)..i : l \in 1..Len(log)
    BY <1>4
  <2>3. Writes(j, k)' /\ x = WrittenBy(j)'
    BY <1>3, <1>6, <2>1
  <2>4. \A l \in (j + 1)..i : ~Writes(l, k)'
    BY <1>3, <2>1, <2>2
  <2>5. QED
    BY <2>3, <2>4 DEF Holds
<1>9. QED
  BY <1>5, <1>7, <1>8 DEF Holds

(* FSM.Apply stores decoded values. *)
LEMMA EffectType ==
    ASSUME NEW data \in Map, NEW cmd \in Command,
           cmd.op = "set" => cmd.val \in Inputs /\ Decoded[cmd.val] # NoJSON
    PROVE  Effect(data, cmd) \in Map
<1>1. cmd.op = "set" => Decoded[cmd.val] \in {v \in Values : Decoded[v] = v}
  BY StoreAssumption
<1>2. cmd.key \in Keys
  BY DEF Command
<1>3. QED
  BY <1>1, <1>2 DEF Effect, Map

(* Restoring a snapshot gives back the map that it was taken of. *)
LEMMA RestoreIsIdentity ==
    ASSUME NEW data, NEW s \in Map
    PROVE  Restore(data, s) = s
<1>1. \A k \in Keys : s[k] = NoValue \/ Decoded[s[k]] = s[k]
  BY DEF Map
<1>2. QED
  BY <1>1 DEF Restore, Map

LEMMA NewFSMType == NewFSM \in State
  BY DEF NewFSM, State, Map

-----------------------------------------------------------------------------
(* The three parts of TypeOK: calls and log, leadership, and the nodes.    *)
CallsOK ==
    /\ calls \in Seq(Call) /\ Len(calls) <= MaxCalls
    /\ \A c \in 1..Len(calls) :
          calls[c].cmd.op = "set" =>
              calls[c].cmd.val \in Inputs /\ Decoded[calls[c].cmd.val] # NoJSON

LogOK ==
    /\ log \in Seq(1..Len(calls))
    /\ \A i, j \in 1..Len(log) : log[i] = log[j] => i = j
    /\ pending \subseteq Uncommitted
    /\ leaders \subseteq Nodes /\ leader \in leaders \cup {NoNode}

NodesOK ==
    /\ fsm \in [Nodes -> State] /\ disk \in [Nodes -> State]
    /\ copy \in [Nodes -> State \cup {NoCopy}]
    /\ \A n \in Nodes :
          /\ disk[n].index <= fsm[n].index /\ fsm[n].index <= Len(log)
          /\ copy[n] # NoCopy => copy[n].index <= fsm[n].index

LEMMA TypeParts == TypeOK <=> CallsOK /\ LogOK /\ NodesOK
  BY DEF TypeOK, CallsOK, LogOK, NodesOK

(* A leader accepts a call. *)
LEMMA SubmitStep ==
    ASSUME TypeOK, NEW n \in Nodes, NEW cmd \in Command, Apply(n, cmd),
           cmd.op = "set" => cmd.val \in Inputs /\ Decoded[cmd.val] # NoJSON
    PROVE  TypeOK' /\ Grows
<1> DEFINE new == [cmd |-> cmd, node |-> n, status |-> "waiting"]
<1>1. CallsOK /\ LogOK /\ NodesOK
  BY TypeParts
<1>2. new \in Call /\ calls' = Append(calls, new) /\ Len(calls) < MaxCalls
  BY DEF Apply, Submit, Call
<1>3. /\ calls' \in Seq(Call) /\ Len(calls') = Len(calls) + 1 /\ Len(calls) \in Nat
      /\ \A c \in 1..Len(calls) : calls'[c] = calls[c]
      /\ calls'[Len(calls) + 1] = new
  BY <1>1, <1>2 DEF CallsOK
<1>4. \A c \in 1..Len(calls') : c \in 1..Len(calls) \/ c = Len(calls) + 1
  BY <1>3
<1>5. CallsOK'
  <2>1. Len(calls') <= MaxCalls
    BY <1>2, <1>3, StoreAssumption
  <2>2. new.cmd = cmd
    OBVIOUS
  <2>3. QED
    BY <1>1, <1>3, <1>4, <2>1, <2>2 DEF CallsOK
<1>6. log' = log /\ leader' = leader /\ leaders' = leaders
      /\ fsm' = fsm /\ copy' = copy /\ disk' = disk
  BY DEF Apply, Submit
<1>7. LogOK'
  <2>1. log \in Seq(1..Len(calls'))
    BY <1>1, <1>3 DEF LogOK
  <2>2. Committed' = Committed /\ Committed \subseteq 1..Len(calls)
    BY <1>1, <1>6 DEF LogOK, Committed
  <2>3. pending' \subseteq pending \cup {Len(calls) + 1}
    BY DEF Apply, Submit
  <2>4. pending' \subseteq Uncommitted'
    BY <1>1, <1>3, <2>2, <2>3 DEF LogOK, Uncommitted
  <2>5. QED
    BY <1>1, <1>6, <2>1, <2>4 DEF LogOK
<1>8. NodesOK'
  BY <1>1, <1>6 DEF NodesOK
<1>9. Grows
  BY <1>1, <1>3, <1>6 DEF Grows, LogOK
<1>10. QED
  <2>1. TypeOK' <=> CallsOK' /\ LogOK' /\ NodesOK'
    BY DEF TypeOK, CallsOK, LogOK, NodesOK
  <2>2. QED
    BY <1>5, <1>7, <1>8, <1>9, <2>1

(* The calls of RaftNode change none of the maps. *)
LEMMA CallSteps ==
    ASSUME TypeOK, NEW n \in Nodes, NEW k \in Keys,
           Delete(n, k) \/ Unknown(n, k) \/ \E v \in Inputs : Set(n, k, v)
    PROVE  /\ TypeOK' /\ Grows
           /\ UNCHANGED <<fsm, copy, disk>>
           /\ \A c \in 1..Len(calls') : calls'[c].status = "ok" =>
                 c \in 1..Len(calls) /\ calls[c].status = "ok"
<1>1. PICK cmd \in Command :
         /\ Apply(n, cmd)
         /\ cmd.op = "set" => cmd.val \in Inputs /\ Decoded[cmd.val] # NoJSON
  <2>1. CASE Delete(n, k)
    <3>1. [op |-> "delete", key |-> k, val |-> NoValue] \in Command
      BY DEF Command, Op
    <3>2. QED
      BY <2>1, <3>1 DEF Delete
  <2>2. CASE Unknown(n, k)
    <3>1. [op |-> "other", key |-> k, val |-> NoValue] \in Command
      BY DEF Command, Op
    <3>2. QED
      BY <2>2, <3>1 DEF Unknown
  <2>3. CASE \E v \in Inputs : Set(n, k, v)
    <3>1. PICK v \in Inputs : Set(n, k, v)
      BY <2>3
    <3>2. [op |-> "set", key |-> k, val |-> v] \in Command
      BY DEF Command, Op
    <3>3. QED
      BY <3>1, <3>2 DEF Set
  <2>4. QED
    BY <2>1, <2>2, <2>3
<1>2. TypeOK' /\ Grows
  BY <1>1, SubmitStep
<1>3. UNCHANGED <<fsm, copy, disk>>
  BY <1>1 DEF Apply, Submit
<1>4. /\ calls \in Seq(Call)
      /\ calls' = Append(calls, [cmd |-> cmd, node |-> n, status |-> "waiting"])
  BY <1>1 DEF Apply, Submit, TypeOK
<1>5. \A c \in 1..Len(calls') : calls'[c].status = "ok" =>
         c \in 1..Len(calls) /\ calls[c].status = "ok"
  <2>1. /\ Len(calls) \in Nat /\ Len(calls') = Len(calls) + 1
        /\ \A c \in 1..Len(calls) : calls'[c] = calls[c]
        /\ calls'[Len(calls) + 1].status = "waiting"
    BY <1>4
  <2>2. QED
    BY <2>1
<1>6. QED
  BY <1>2, <1>3, <1>5

(* The calls of C end, as after a lost leadership or a restart. *)
LEMMA EndStep ==
    ASSUME TypeOK, NEW C, End(C), log' = log
    PROVE  CallsOK' /\ Grows /\ Committed' = Committed /\ Uncommitted' = Uncommitted
           /\ Len(calls') = Len(calls)
<1>1. calls \in Seq(Call) /\ CallsOK /\ log \in Seq(1..Len(calls))
  BY DEF TypeOK, CallsOK
<1>2. /\ calls' \in Seq(Call) /\ Len(calls') = Len(calls)
      /\ \A c \in 1..Len(calls) :
            calls'[c].cmd = calls[c].cmd /\ calls'[c].node = calls[c].node
  BY <1>1, EndCalls
<1>3. CallsOK'
  BY <1>1, <1>2 DEF CallsOK
<1>4. Committed' = Committed /\ Uncommitted' = Uncommitted
  BY <1>2 DEF Committed, Uncommitted
<1>5. Grows
  BY <1>1, <1>2 DEF Grows
<1>6. QED
  BY <1>2, <1>3, <1>4, <1>5

LEMMA TypePartsNext == TypeOK' <=> CallsOK' /\ LogOK' /\ NodesOK'
  BY DEF TypeOK, CallsOK, LogOK, NodesOK

LEMMA ElectType ==
    ASSUME TypeOK, NEW n \in Nodes, Elect(n)
    PROVE  TypeOK' /\ Grows
<1>1. CallsOK' /\ NodesOK'
  BY DEF Elect, TypeOK, CallsOK, NodesOK
<1>2. Uncommitted' = Uncommitted /\ pending' \subseteq Uncommitted
  BY DEF Elect, Uncommitted, Committed
<1>3. LogOK'
  BY <1>2 DEF Elect, TypeOK, LogOK
<1>4. Grows
  BY DEF Elect, Grows, TypeOK
<1>5. QED
  BY <1>1, <1>3, <1>4, TypePartsNext

LEMMA CommitType ==
    ASSUME TypeOK, Commit
    PROVE  TypeOK' /\ Grows
<1>1. PICK c \in pending : log' = Append(log, c) /\ pending' = pending \ {c}
  BY DEF Commit
<1>2. /\ log \in Seq(1..Len(calls)) /\ c \in 1..Len(calls) /\ c \notin Committed
      /\ pending \subseteq (1..Len(calls)) \ Committed
  BY DEF TypeOK, Uncommitted
<1>3. /\ log' \in Seq(1..Len(calls)) /\ Len(log') = Len(log) + 1 /\ Len(log) \in Nat
      /\ \A i \in 1..Len(log) : log'[i] = log[i]
      /\ log'[Len(log) + 1] = c
  BY <1>1, <1>2
<1>4. \A i \in 1..Len(log') : i \in 1..Len(log) \/ i = Len(log) + 1
  BY <1>3
<1>5. \A i \in 1..Len(log) : log[i] # c
  BY <1>2 DEF Committed
<1>6. \A i, j \in 1..Len(log') : log'[i] = log'[j] => i = j
  <2>1. \A i, j \in 1..Len(log) : log[i] = log[j] => i = j
    BY DEF TypeOK
  <2>2. QED
    BY <1>3, <1>4, <1>5, <2>1
<1>7. Committed' \subseteq Committed \cup {c}
  BY <1>3, <1>4 DEF Committed
<1>8. calls' = calls /\ UNCHANGED <<leader, leaders, fsm, copy, disk>>
  BY DEF Commit
<1>9. pending' \subseteq Uncommitted'
  BY <1>1, <1>2, <1>7, <1>8 DEF Uncommitted
<1>10. LogOK'
  BY <1>3, <1>6, <1>8, <1>9 DEF LogOK, TypeOK
<1>11. NodesOK'
  <2>1. NodesOK
    BY TypeParts
  <2>2. \A n \in Nodes : fsm[n].index <= Len(log')
    BY <1>3, <2>1 DEF NodesOK, State
  <2>3. QED
    BY <1>8, <2>1, <2>2 DEF NodesOK
<1>12. CallsOK'
  BY <1>8 DEF TypeOK, CallsOK
<1>13. Grows
  BY <1>3, <1>8 DEF Grows, TypeOK
<1>14. QED
  BY <1>10, <1>11, <1>12, <1>13, TypePartsNext

LEMMA StepDownType ==
    ASSUME TypeOK, NEW n \in Nodes, StepDown(n)
    PROVE  TypeOK' /\ Grows
<1>1. PICK C : End(C)
  BY DEF StepDown
<1>2. CallsOK' /\ Grows /\ Uncommitted' = Uncommitted /\ Len(calls') = Len(calls)
  BY <1>1, EndStep DEF StepDown
<1>3. LogOK'
  BY <1>2 DEF StepDown, TypeOK, LogOK
<1>4. NodesOK'
  BY DEF StepDown, TypeOK, NodesOK
<1>5. QED
  BY <1>2, <1>3, <1>4, TypePartsNext

(* An entry is applied: calls keep their commands, one may be answered.    *)
LEMMA ApplyEntryFacts ==
    ASSUME TypeOK, NEW n \in Nodes, ApplyEntry(n)
    PROVE  LET i == fsm[n].index + 1
               c == log[i]
           IN  /\ i \in 1..Len(log) /\ c \in 1..Len(calls)
               /\ fsm' = [fsm EXCEPT ![n] =
                             [index |-> i, data |-> Effect(fsm[n].data, calls[c].cmd)]]
               /\ Effect(fsm[n].data, calls[c].cmd) \in Map
               /\ calls' \in Seq(Call) /\ Len(calls') = Len(calls)
               /\ \A d \in 1..Len(calls) :
                     /\ calls'[d].cmd = calls[d].cmd /\ calls'[d].node = calls[d].node
                     /\ calls'[d].status = "ok" =>
                           calls[d].status = "ok" \/ (d = c /\ calls[d].node = n)
               /\ UNCHANGED <<raft, copy, disk>>
<1> DEFINE i == fsm[n].index + 1
           c == log[i]
<1>1. fsm[n] \in State /\ Len(log) \in Nat /\ log \in Seq(1..Len(calls)) /\ calls \in Seq(Call)
  BY DEF TypeOK
<1>2. i \in 1..Len(log) /\ c \in 1..Len(calls)
  BY <1>1 DEF ApplyEntry, State
<1>3. fsm' = [fsm EXCEPT ![n] = [index |-> i, data |-> Effect(fsm[n].data, calls[c].cmd)]]
  BY DEF ApplyEntry, FSMApply, TypeOK
<1>4. Effect(fsm[n].data, calls[c].cmd) \in Map
  <2> HIDE DEF c, i
  <2>1. fsm[n].data \in Map /\ calls[c].cmd \in Command
    <3>1. fsm[n].data \in Map
      BY <1>1 DEF State
    <3>2. calls[c] \in Call
      BY <1>1, <1>2
    <3>3. QED
      BY <3>1, <3>2 DEF Call
  <2>2. calls[c].cmd.op = "set" =>
           calls[c].cmd.val \in Inputs /\ Decoded[calls[c].cmd.val] # NoJSON
    BY <1>2 DEF TypeOK
  <2>3. QED
    BY <2>1, <2>2, EffectType
<1>5. /\ calls' \in Seq(Call) /\ Len(calls') = Len(calls)
      /\ \A d \in 1..Len(calls) :
            /\ calls'[d].cmd = calls[d].cmd /\ calls'[d].node = calls[d].node
            /\ calls'[d].status = "ok" =>
                  calls[d].status = "ok" \/ (d = c /\ calls[d].node = n)
  <2>1. CASE c \in Waiting(n)
    <3> HIDE DEF c, i
    <3>1. calls' = [calls EXCEPT ![c].status = "ok"] /\ calls[c].node = n
      BY <2>1 DEF ApplyEntry, Waiting, c, i
    <3>2. /\ calls' \in Seq(Call) /\ Len(calls') = Len(calls)
          /\ \A d \in 1..Len(calls) :
                /\ calls'[d].cmd = calls[d].cmd /\ calls'[d].node = calls[d].node
                /\ calls'[d].status = IF d = c THEN "ok" ELSE calls[d].status
      BY <1>1, <1>2, <3>1, AnswerCall
    <3>3. QED
      BY <3>1, <3>2
  <2>2. CASE c \notin Waiting(n)
    BY <1>1, <2>2 DEF ApplyEntry
  <2>3. QED
    BY <2>1, <2>2
<1>6. UNCHANGED <<raft, copy, disk>>
  BY DEF ApplyEntry
<1>7. QED
  BY <1>2, <1>3, <1>4, <1>5, <1>6

LEMMA ApplyEntryType ==
    ASSUME TypeOK, NEW n \in Nodes, ApplyEntry(n)
    PROVE  TypeOK' /\ Grows
<1> DEFINE i == fsm[n].index + 1
           new == [index |-> i, data |-> Effect(fsm[n].data, calls[log[i]].cmd)]
<1>1. /\ i \in 1..Len(log) /\ fsm' = [fsm EXCEPT ![n] = new]
      /\ Effect(fsm[n].data, calls[log[i]].cmd) \in Map
      /\ calls' \in Seq(Call) /\ Len(calls') = Len(calls)
      /\ \A d \in 1..Len(calls) :
            calls'[d].cmd = calls[d].cmd /\ calls'[d].node = calls[d].node
      /\ UNCHANGED <<raft, copy, disk>>
  BY ApplyEntryFacts
<1>2. log' = log /\ pending' = pending /\ leader' = leader /\ leaders' = leaders
  BY <1>1 DEF raft
<1>3. CallsOK'
  BY <1>1 DEF TypeOK, CallsOK
<1>4. LogOK'
  BY <1>1, <1>2 DEF TypeOK, LogOK, Uncommitted, Committed
<1>5. NodesOK'
  <2>1. NodesOK
    BY TypeParts
  <2>2. new \in State /\ fsm[n].index \in Nat
    BY <1>1, <2>1 DEF NodesOK, State
  <2>3. fsm' \in [Nodes -> State]
    BY <1>1, <2>1, <2>2 DEF NodesOK
  <2>4. \A m \in Nodes : fsm'[m].index = IF m = n THEN i ELSE fsm[m].index
    BY <1>1, <2>1 DEF NodesOK
  <2>5. \A m \in Nodes : disk[m].index \in Nat /\ (copy[m] # NoCopy => copy[m].index \in Nat)
    BY <2>1 DEF NodesOK, State
  <2>6. QED
    BY <1>1, <1>2, <2>1, <2>2, <2>3, <2>4, <2>5 DEF NodesOK
<1>6. Grows
  BY <1>1, <1>2 DEF Grows, TypeOK
<1>7. QED
  BY <1>3, <1>4, <1>5, <1>6, TypePartsNext

(* Steps that leave the calls, the log and the leadership alone. *)
LEMMA LocalStep ==
    ASSUME TypeOK, UNCHANGED <<calls, raft>>, NodesOK'
    PROVE  TypeOK' /\ Grows
<1>1. calls' = calls /\ log' = log /\ pending' = pending /\ leader' = leader /\ leaders' = leaders
  BY DEF raft
<1>2. CallsOK' /\ LogOK'
  BY <1>1 DEF TypeOK, CallsOK, LogOK, Uncommitted, Committed
<1>3. QED
  BY <1>1, <1>2, TypePartsNext DEF Grows, TypeOK

LEMMA SnapshotType ==
    ASSUME TypeOK, NEW n \in Nodes, Snapshot(n) \/ Persist(n) \/ PersistError(n)
    PROVE  TypeOK' /\ Grows
<1>1. UNCHANGED <<calls, raft, fsm>> /\ log' = log
  BY DEF Snapshot, Persist, PersistError, raft
<1>2. NodesOK /\ \A m \in Nodes : fsm[m].index \in Nat
  BY TypeParts DEF NodesOK, State
<1>3. NodesOK'
  <2>1. CASE Snapshot(n)
    BY <1>1, <1>2, <2>1 DEF Snapshot, NodesOK
  <2>2. CASE Persist(n)
    BY <1>1, <1>2, <2>2 DEF Persist, NodesOK
  <2>3. CASE PersistError(n)
    BY <1>1, <1>2, <2>3 DEF PersistError, NodesOK
  <2>4. QED
    BY <2>1, <2>2, <2>3
<1>4. QED
  BY <1>1, <1>3, LocalStep

(* A snapshot is installed as it was taken. *)
LEMMA InstallFacts ==
    ASSUME TypeOK, NEW n \in Nodes, InstallSnapshot(n)
    PROVE  /\ leader \in Nodes /\ disk[leader].index > fsm[n].index
           /\ fsm' = [fsm EXCEPT ![n] = disk[leader]]
           /\ disk' = [disk EXCEPT ![n] = disk[leader]]
           /\ UNCHANGED <<calls, raft, copy>>
<1>1. leader \in Nodes /\ disk[leader] \in State
  BY DEF InstallSnapshot, TypeOK
<1>2. Restore(fsm[n].data, disk[leader].data) = disk[leader].data
  BY <1>1, RestoreIsIdentity DEF State
<1>3. disk[leader] = [index |-> disk[leader].index, data |-> disk[leader].data]
  BY <1>1 DEF State
<1>4. QED
  BY <1>1, <1>2, <1>3 DEF InstallSnapshot, TypeOK

LEMMA InstallType ==
    ASSUME TypeOK, NEW n \in Nodes, InstallSnapshot(n)
    PROVE  TypeOK' /\ Grows
<1>1. NodesOK /\ \A m \in Nodes : fsm[m].index \in Nat /\ disk[m].index \in Nat
  BY TypeParts DEF NodesOK, State
<1>2. /\ leader \in Nodes /\ disk[leader].index > fsm[n].index
      /\ fsm' = [fsm EXCEPT ![n] = disk[leader]]
      /\ disk' = [disk EXCEPT ![n] = disk[leader]]
      /\ UNCHANGED <<calls, raft, copy>> /\ log' = log
  BY InstallFacts DEF raft
<1>3. fsm' \in [Nodes -> State] /\ disk' \in [Nodes -> State]
  BY <1>1, <1>2 DEF NodesOK
<1>4. disk[leader].index <= Len(log)
  <2>1. Len(log) \in Nat
    BY DEF TypeOK
  <2>2. QED
    BY <1>1, <1>2, <2>1 DEF NodesOK
<1>5. \A m \in Nodes : copy[m] # NoCopy => copy[m].index \in Nat
  BY <1>1 DEF NodesOK, State
<1>6. NodesOK'
  BY <1>1, <1>2, <1>3, <1>4, <1>5 DEF NodesOK
<1>7. QED
  BY <1>2, <1>6, LocalStep

(* A new process starts from the newest snapshot. *)
LEMMA RestartFacts ==
    ASSUME TypeOK, NEW n \in Nodes, Restart(n)
    PROVE  fsm' = [fsm EXCEPT ![n] = disk[n]]
<1>1. disk[n] \in State
  BY DEF TypeOK
<1>2. Restore(NewFSM.data, disk[n].data) = disk[n].data
  BY <1>1, RestoreIsIdentity DEF State
<1>3. disk[n] = [index |-> disk[n].index, data |-> disk[n].data]
  BY <1>1 DEF State
<1>4. QED
  BY <1>2, <1>3 DEF Restart

LEMMA RestartType ==
    ASSUME TypeOK, NEW n \in Nodes, Restart(n)
    PROVE  TypeOK' /\ Grows
<1>1. CallsOK' /\ Grows /\ Uncommitted' = Uncommitted /\ Len(calls') = Len(calls)
  BY EndStep DEF Restart
<1>2. LogOK'
  BY <1>1 DEF Restart, TypeOK, LogOK
<1>3. NodesOK'
  <2>1. NodesOK /\ \A m \in Nodes : fsm[m].index \in Nat /\ disk[m].index \in Nat
    BY TypeParts DEF NodesOK, State
  <2>2. fsm' = [fsm EXCEPT ![n] = disk[n]]
    BY RestartFacts
  <2>3. copy' = [copy EXCEPT ![n] = NoCopy] /\ disk' = disk /\ log' = log
    BY DEF Restart
  <2>4. Len(log) \in Nat
    BY DEF TypeOK
  <2>5. QED
    BY <2>1, <2>2, <2>3, <2>4 DEF NodesOK
<1>4. QED
  BY <1>1, <1>2, <1>3, TypePartsNext

(* Every step keeps the type invariant, the commands of the calls and the  *)
(* entries of the log.                                                     *)
LEMMA NextType ==
    ASSUME TypeOK, [Next]_vars
    PROVE  TypeOK' /\ Grows
<1>1. CASE Commit
  BY <1>1, CommitType
<1>2. ASSUME NEW n \in Nodes, NodeStep(n)
      PROVE  TypeOK' /\ Grows
  <2>1. CASE \E k \in Keys : Delete(n, k) \/ Unknown(n, k) \/ \E v \in Inputs : Set(n, k, v)
    BY <2>1, CallSteps
  <2>2. CASE Elect(n)
    BY <2>2, ElectType
  <2>3. CASE StepDown(n)
    BY <2>3, StepDownType
  <2>4. CASE ApplyEntry(n)
    BY <2>4, ApplyEntryType
  <2>5. CASE Snapshot(n) \/ Persist(n) \/ PersistError(n)
    BY <2>5, SnapshotType
  <2>6. CASE InstallSnapshot(n)
    BY <2>6, InstallType
  <2>7. CASE Restart(n)
    BY <2>7, RestartType
  <2>8. QED
    BY <1>2, <2>1, <2>2, <2>3, <2>4, <2>5, <2>6, <2>7 DEF NodeStep
<1>3. CASE UNCHANGED vars
  <2>1. UNCHANGED <<calls, raft>> /\ log' = log /\ fsm' = fsm /\ copy' = copy /\ disk' = disk
    BY <1>3 DEF vars, raft
  <2>2. NodesOK'
    BY <2>1 DEF TypeOK, NodesOK
  <2>3. QED
    BY <2>1, <2>2, LocalStep
<1>4. QED
  BY <1>1, <1>2, <1>3 DEF Next

LEMMA InitType ==
    ASSUME Init
    PROVE  TypeOK
<1>1. calls = <<>> /\ log = <<>> /\ pending = {} /\ leaders = {} /\ leader = NoNode
  BY DEF Init
<1>2. /\ fsm = [n \in Nodes |-> NewFSM] /\ disk = [n \in Nodes |-> NewFSM]
      /\ copy = [n \in Nodes |-> NoCopy] /\ NewFSM.index = 0
  BY DEF Init, NewFSM
<1>3. CallsOK
  BY <1>1, StoreAssumption DEF CallsOK
<1>4. LogOK
  BY <1>1 DEF LogOK
<1>5. NodesOK
  BY <1>1, <1>2, NewFSMType DEF NodesOK
<1>6. QED
  BY <1>3, <1>4, <1>5, TypeParts

(* In every state the maps hold what JSON decoding yields, the log repeats *)
(* no entry, and no snapshot is ahead of its node.                         *)
THEOREM TypeCorrect == Spec => []TypeOK
<1>1. Init => TypeOK
  BY InitType
<1>2. TypeOK /\ [Next]_vars => TypeOK'
  BY NextType
<1>3. QED
  BY <1>1, <1>2, PTL DEF Spec

-----------------------------------------------------------------------------
(* FSM.Apply of entry i takes the state after i - 1 entries to the state   *)
(* after i entries.                                                        *)
LEMMA EffectHolds ==
    ASSUME TypeOK, NEW i \in 1..Len(log), NEW data \in Map,
           \A k \in Keys : Holds(i - 1, k, data[k])
    PROVE  \A k \in Keys : Holds(i, k, Effect(data, calls[log[i]].cmd)[k])
<1> DEFINE cmd == calls[log[i]].cmd
<1>1. i \in Nat /\ i >= 1 /\ cmd \in Command
  <2>1. log[i] \in 1..Len(calls) /\ calls \in Seq(Call) /\ Len(log) \in Nat
    BY DEF TypeOK
  <2>2. calls[log[i]] \in Call
    BY <2>1
  <2>3. QED
    BY <2>1, <2>2 DEF Call
<1>2. SUFFICES ASSUME NEW k \in Keys
               PROVE  Holds(i, k, Effect(data, cmd)[k])
  OBVIOUS
<1>3. CASE cmd.key = k /\ cmd.op # "other"
  <2>1. Writes(i, k)
    BY <1>3 DEF Writes
  <2>2. Effect(data, cmd)[k] = WrittenBy(i)
    BY <1>1, <1>3 DEF Effect, WrittenBy, Command, Op, Map
  <2>3. QED
    BY <1>1, <2>1, <2>2 DEF Holds
<1>4. CASE ~(cmd.key = k /\ cmd.op # "other")
  <2>1. ~Writes(i, k)
    BY <1>4 DEF Writes
  <2>2. Effect(data, cmd)[k] = data[k]
    BY <1>1, <1>4 DEF Effect, Command, Op, Map
  <2>3. Holds(i - 1, k, data[k])
    OBVIOUS
  <2>4. \A j \in 1..i : j \in 1..(i - 1) \/ j = i
    BY <1>1
  <2>5. CASE data[k] = NoValue /\ \A j \in 1..(i - 1) : ~Writes(j, k)
    BY <2>1, <2>2, <2>4, <2>5 DEF Holds
  <2>6. CASE \E j \in 1..(i - 1) : /\ Writes(j, k) /\ data[k] = WrittenBy(j)
                                   /\ \A l \in (j + 1)..(i - 1) : ~Writes(l, k)
    <3>1. PICK j \in 1..(i - 1) : /\ Writes(j, k) /\ data[k] = WrittenBy(j)
                                  /\ \A l \in (j + 1)..(i - 1) : ~Writes(l, k)
      BY <2>6
    <3>2. j \in 1..i /\ \A l \in (j + 1)..i : l \in (j + 1)..(i - 1) \/ l = i
      BY <1>1
    <3>3. QED
      BY <2>1, <2>2, <3>1, <3>2 DEF Holds
  <2>7. QED
    BY <2>3, <2>5, <2>6 DEF Holds
<1>5. QED
  BY <1>3, <1>4

(* A state that some node or snapshot had before a step is, after it,      *)
(* still the state at its index.                                           *)
LEMMA StatesKept ==
    ASSUME TypeOK, Grows
    PROVE  \A t \in State : t.index <= Len(log) /\ IsStateAt(t) =>
              \A k \in Keys : Holds(t.index, k, t.data[k])'
<1>1. SUFFICES ASSUME NEW t \in State, t.index <= Len(log), IsStateAt(t)
               PROVE  \A k \in Keys : Holds(t.index, k, t.data[k])'
  OBVIOUS
<1>2. t.index \in 0..Len(log)
  BY <1>1 DEF State, TypeOK
<1>3. \A k \in Keys : Holds(t.index, k, t.data[k])
  BY <1>1 DEF IsStateAt
<1>4. QED
  BY <1>2, <1>3, HoldsKept

(* t is the state at its index in the log as it is before the step. *)
Known(t) == t \in State /\ t.index <= Len(log) /\ IsStateAt(t)

(* Every state after a step is known before it: only FSM.Apply makes a new *)
(* one, from an entry that was committed earlier.                          *)
LEMMA NextKnown ==
    ASSUME TypeOK, StateIsLog, [Next]_vars, NEW m \in Nodes
    PROVE  Known(fsm'[m]) /\ Known(disk'[m]) /\ (copy'[m] # NoCopy => Known(copy'[m]))
<1>1. \A n \in Nodes : Known(fsm[n]) /\ Known(disk[n]) /\ (copy[n] # NoCopy => Known(copy[n]))
  <2>1. SUFFICES ASSUME NEW n \in Nodes
                 PROVE  Known(fsm[n]) /\ Known(disk[n]) /\ (copy[n] # NoCopy => Known(copy[n]))
    OBVIOUS
  <2>2. /\ fsm[n] \in State /\ disk[n] \in State /\ (copy[n] # NoCopy => copy[n] \in State)
        /\ disk[n].index <= fsm[n].index /\ fsm[n].index <= Len(log)
        /\ copy[n] # NoCopy => copy[n].index <= fsm[n].index
        /\ Len(log) \in Nat
    BY DEF TypeOK
  <2>3. /\ fsm[n].index \in Nat /\ disk[n].index \in Nat
        /\ copy[n] # NoCopy => copy[n].index \in Nat
    BY <2>2 DEF State
  <2>4. disk[n].index <= Len(log) /\ (copy[n] # NoCopy => copy[n].index <= Len(log))
    BY <2>2, <2>3
  <2>5. QED
    BY <2>2, <2>4 DEF Known, StateIsLog
<1>2. fsm \in [Nodes -> State] /\ disk \in [Nodes -> State]
      /\ copy \in [Nodes -> State \cup {NoCopy}]
  BY DEF TypeOK
<1>3. CASE UNCHANGED <<fsm, copy, disk>>
  BY <1>1, <1>3
<1>4. ASSUME NEW n \in Nodes, ApplyEntry(n)
      PROVE  Known(fsm'[m]) /\ Known(disk'[m]) /\ (copy'[m] # NoCopy => Known(copy'[m]))
  <2> DEFINE i == fsm[n].index + 1
             d == Effect(fsm[n].data, calls[log[i]].cmd)
             new == [index |-> i, data |-> d]
  <2>1. /\ i \in 1..Len(log) /\ fsm' = [fsm EXCEPT ![n] = new] /\ d \in Map
        /\ UNCHANGED <<copy, disk>>
    BY <1>4, ApplyEntryFacts
  <2>2. fsm[n].data \in Map /\ fsm[n].index \in Nat /\ Len(log) \in Nat
    BY <1>2 DEF State, TypeOK
  <2>3. \A k \in Keys : Holds(i - 1, k, fsm[n].data[k])
    <3>1. i - 1 = fsm[n].index
      BY <2>2
    <3>2. QED
      BY <1>1, <3>1 DEF Known, IsStateAt
  <2>4. \A k \in Keys : Holds(i, k, d[k])
    <3> HIDE DEF i
    <3>1. QED
      BY <2>1, <2>2, <2>3, EffectHolds
  <2>5. Known(new)
    <3>1. new \in State /\ new.index = i /\ new.data = d
      BY <2>1, <2>2 DEF State
    <3>2. i <= Len(log)
      BY <2>1, <2>2
    <3> HIDE DEF new, d, i
    <3>3. QED
      BY <2>4, <3>1, <3>2 DEF Known, IsStateAt
  <2> HIDE DEF new
  <2>6. QED
    BY <1>1, <1>2, <2>1, <2>5
<1>5. ASSUME NEW n \in Nodes, Snapshot(n) \/ Persist(n) \/ PersistError(n)
      PROVE  Known(fsm'[m]) /\ Known(disk'[m]) /\ (copy'[m] # NoCopy => Known(copy'[m]))
  <2>1. fsm' = fsm
    BY <1>5 DEF Snapshot, Persist, PersistError
  <2>2. disk'[m] = disk[m] \/ (copy[m] # NoCopy /\ disk'[m] = copy[m])
    BY <1>2, <1>5 DEF Snapshot, Persist, PersistError
  <2>3. copy'[m] = copy[m] \/ copy'[m] = fsm[m] \/ copy'[m] = NoCopy
    BY <1>2, <1>5 DEF Snapshot, Persist, PersistError
  <2>4. QED
    BY <1>1, <2>1, <2>2, <2>3
<1>6. ASSUME NEW n \in Nodes, InstallSnapshot(n)
      PROVE  Known(fsm'[m]) /\ Known(disk'[m]) /\ (copy'[m] # NoCopy => Known(copy'[m]))
  BY <1>1, <1>2, <1>6, InstallFacts
<1>7. ASSUME NEW n \in Nodes, Restart(n)
      PROVE  Known(fsm'[m]) /\ Known(disk'[m]) /\ (copy'[m] # NoCopy => Known(copy'[m]))
  <2>1. fsm' = [fsm EXCEPT ![n] = disk[n]]
    BY <1>7, RestartFacts
  <2>2. disk' = disk /\ copy' = [copy EXCEPT ![n] = NoCopy]
    BY <1>7 DEF Restart
  <2>3. QED
    BY <1>1, <1>2, <2>1, <2>2
<1>8. CASE Commit
  <2>1. UNCHANGED <<fsm, copy, disk>>
    BY <1>8 DEF Commit
  <2>2. QED
    BY <1>3, <2>1
<1>9. CASE UNCHANGED vars
  BY <1>3, <1>9 DEF vars
<1>10. ASSUME NEW n \in Nodes, NodeStep(n)
       PROVE  Known(fsm'[m]) /\ Known(disk'[m]) /\ (copy'[m] # NoCopy => Known(copy'[m]))
  <2>1. CASE \E k \in Keys : Delete(n, k) \/ Unknown(n, k) \/ \E v \in Inputs : Set(n, k, v)
    <3>1. UNCHANGED <<fsm, copy, disk>>
      BY <2>1, CallSteps
    <3>2. QED
      BY <1>3, <3>1
  <2>2. CASE Elect(n) \/ StepDown(n)
    <3>1. UNCHANGED <<fsm, copy, disk>>
      BY <2>2 DEF Elect, StepDown
    <3>2. QED
      BY <1>3, <3>1
  <2>3. QED
    BY <1>4, <1>5, <1>6, <1>7, <1>10, <2>1, <2>2 DEF NodeStep
<1>11. QED
  BY <1>8, <1>9, <1>10 DEF Next

LEMMA InitState ==
    ASSUME Init
    PROVE  StateIsLog
<1>1. \A k \in Keys : Holds(0, k, NoValue)
  BY DEF Holds
<1>2. IsStateAt(NewFSM)
  BY <1>1 DEF IsStateAt, NewFSM
<1>3. QED
  BY <1>2 DEF Init, StateIsLog

LEMMA NextState ==
    ASSUME TypeOK, StateIsLog, [Next]_vars
    PROVE  StateIsLog'
<1>1. Grows
  BY NextType
<1>2. \A t : Known(t) => \A k \in Keys : Holds(t.index, k, t.data[k])'
  BY <1>1, StatesKept DEF Known
<1>3. ASSUME NEW m \in Nodes
      PROVE  /\ IsStateAt(fsm[m])'
             /\ IsStateAt(disk[m])'
             /\ (copy[m] # NoCopy => IsStateAt(copy[m]))'
  <2>1. Known(fsm'[m]) /\ Known(disk'[m]) /\ (copy'[m] # NoCopy => Known(copy'[m]))
    BY NextKnown
  <2>2. QED
    BY <1>2, <2>1 DEF IsStateAt
<1>4. QED
  BY <1>3 DEF StateIsLog

(* Whatever the order of snapshots, installations and restarts, each map   *)
(* shown by Get and GetAll, and each snapshot, is the state after a prefix *)
(* of the log.                                                             *)
THEOREM StateFollowsLog == Spec => []StateIsLog
<1>1. Init => TypeOK /\ StateIsLog
  BY InitType, InitState
<1>2. TypeOK /\ StateIsLog /\ [Next]_vars => (TypeOK /\ StateIsLog)'
  BY NextType, NextState
<1>3. QED
  BY <1>1, <1>2, PTL DEF Spec

-----------------------------------------------------------------------------
(* A step that answers no call and takes no node back keeps the promise to *)
(* the calls that were answered.                                           *)
LEMMA PromisesKept ==
    ASSUME TypeOK, ReadYourWrites, Grows,
           \A n \in Nodes : fsm'[n].index \in Nat /\ fsm[n].index <= fsm'[n].index,
           \A c \in 1..Len(calls') : calls'[c].status = "ok" =>
              c \in 1..Len(calls) /\ calls[c].status = "ok"
    PROVE  ReadYourWrites'
<1>1. SUFFICES ASSUME NEW c \in 1..Len(calls'), calls'[c].status = "ok"
               PROVE  \E i \in 1..fsm'[calls'[c].node].index : log'[i] = c
  BY DEF ReadYourWrites
<1>2. c \in 1..Len(calls) /\ calls[c].status = "ok" /\ calls'[c].node = calls[c].node
  BY <1>1 DEF Grows
<1>3. PICK i \in 1..fsm[calls[c].node].index : log[i] = c
  BY <1>2 DEF ReadYourWrites
<1>4. calls[c].node \in Nodes
  <2>1. calls[c] \in Call
    BY <1>2 DEF TypeOK
  <2>2. QED
    BY <2>1 DEF Call
<1>5. i \in 1..Len(log) /\ fsm[calls[c].node].index \in Nat
  <2>1. /\ fsm[calls[c].node] \in State /\ fsm[calls[c].node].index <= Len(log)
        /\ Len(log) \in Nat
    BY <1>4 DEF TypeOK
  <2>2. fsm[calls[c].node].index \in Nat
    BY <2>1 DEF State
  <2>3. QED
    BY <2>1, <2>2
<1>6. log'[i] = c
  BY <1>3, <1>5 DEF Grows
<1>7. i \in 1..fsm'[calls'[c].node].index
  BY <1>2, <1>4, <1>5
<1>8. QED
  BY <1>6, <1>7

LEMMA NextReads ==
    ASSUME TypeOK, ReadYourWrites, [Next]_vars
    PROVE  ReadYourWrites'
<1>1. TypeOK' /\ Grows
  BY NextType
<1>2. /\ \A n \in Nodes : fsm[n].index \in Nat /\ fsm'[n].index \in Nat
      /\ fsm \in [Nodes -> State] /\ calls \in Seq(Call) /\ Len(log) \in Nat
  BY <1>1 DEF TypeOK, State
<1>3. CASE UNCHANGED <<calls, fsm>>
  BY <1>1, <1>2, <1>3, PromisesKept
<1>4. ASSUME NEW n \in Nodes, NodeStep(n)
      PROVE  ReadYourWrites'
  <2>1. CASE \E k \in Keys : Delete(n, k) \/ Unknown(n, k) \/ \E v \in Inputs : Set(n, k, v)
    <3>1. /\ fsm' = fsm
          /\ \A c \in 1..Len(calls') : calls'[c].status = "ok" =>
                c \in 1..Len(calls) /\ calls[c].status = "ok"
      BY <2>1, CallSteps
    <3>2. QED
      BY <1>1, <1>2, <3>1, PromisesKept
  <2>2. CASE Elect(n) \/ Snapshot(n) \/ Persist(n) \/ PersistError(n)
    <3>1. UNCHANGED <<calls, fsm>>
      BY <2>2 DEF Elect, Snapshot, Persist, PersistError
    <3>2. QED
      BY <1>3, <3>1
  <2>3. CASE StepDown(n)
    <3>1. PICK C : End(C)
      BY <2>3 DEF StepDown
    <3>2. fsm' = fsm /\ Len(calls') = Len(calls)
          /\ \A c \in 1..Len(calls) : calls'[c].status = "ok" => calls[c].status = "ok"
      BY <1>2, <2>3, <3>1, EndCalls DEF StepDown
    <3>3. QED
      BY <1>1, <1>2, <3>2, PromisesKept
  <2>4. CASE ApplyEntry(n)
    <3> DEFINE i == fsm[n].index + 1
    <3>1. /\ i \in 1..Len(log) /\ log[i] \in 1..Len(calls) /\ log' = log
          /\ fsm' = [fsm EXCEPT ![n] =
                        [index |-> i, data |-> Effect(fsm[n].data, calls[log[i]].cmd)]]
          /\ Len(calls') = Len(calls)
          /\ \A c \in 1..Len(calls) :
                /\ calls'[c].node = calls[c].node
                /\ calls'[c].status = "ok" =>
                      calls[c].status = "ok" \/ (c = log[i] /\ calls[c].node = n)
      BY <2>4, ApplyEntryFacts DEF raft
    <3>2. \A m \in Nodes : fsm'[m].index = IF m = n THEN i ELSE fsm[m].index
      BY <1>2, <3>1
    <3>3. ASSUME NEW c \in 1..Len(calls), calls'[c].status = "ok"
          PROVE  \E j \in 1..fsm'[calls'[c].node].index : log'[j] = c
      <4>1. CASE c = log[i] /\ calls[c].node = n
        <5>1. fsm'[calls'[c].node].index = i /\ log'[i] = c
          BY <3>1, <3>2, <4>1
        <5>2. i \in 1..i
          BY <1>2
        <5>3. QED
          BY <5>1, <5>2
      <4>2. CASE calls[c].status = "ok"
        <5>1. PICK j \in 1..fsm[calls[c].node].index : log[j] = c
          BY <4>2 DEF ReadYourWrites
        <5>2. calls[c] \in Call
          BY <1>2
        <5>3. calls[c].node \in Nodes
          BY <5>2 DEF Call
        <5>4. j \in 1..fsm'[calls'[c].node].index
          BY <1>2, <3>1, <3>2, <5>3
        <5>5. QED
          BY <3>1, <5>1, <5>4
      <4>3. QED
        BY <3>1, <3>3, <4>1, <4>2
    <3>4. QED
      BY <3>1, <3>3 DEF ReadYourWrites
  <2>5. CASE InstallSnapshot(n)
    <3>1. calls' = calls
      BY <2>5 DEF InstallSnapshot
    <3>2. /\ fsm' = [fsm EXCEPT ![n] = disk[leader]] /\ disk[leader].index > fsm[n].index
          /\ leader \in Nodes
      BY <2>5, InstallFacts
    <3>3. \A m \in Nodes : fsm[m].index <= fsm'[m].index
      <4>1. disk[leader].index \in Nat
        BY <3>2 DEF TypeOK, State
      <4>2. QED
        BY <1>2, <3>2, <4>1
    <3>4. QED
      BY <1>1, <1>2, <3>1, <3>3, PromisesKept
  <2>6. CASE Restart(n)
    <3>1. /\ Len(calls') = Len(calls)
          /\ \A c \in 1..Len(calls) :
                /\ calls'[c].node = calls[c].node
                /\ calls'[c].status =
                      IF c \in {d \in 1..Len(calls) : calls[d].node = n}
                      THEN "over" ELSE calls[c].status
      BY <1>2, <2>6, EndCalls DEF Restart
    <3>2. fsm' = [fsm EXCEPT ![n] = disk[n]] /\ log' = log
      <4>1. fsm' = [fsm EXCEPT ![n] = disk[n]]
        BY <2>6, RestartFacts
      <4>2. log' = log
        BY <2>6 DEF Restart
      <4>3. QED
        BY <4>1, <4>2
    <3>3. ASSUME NEW c \in 1..Len(calls), calls'[c].status = "ok"
          PROVE  \E j \in 1..fsm'[calls'[c].node].index : log'[j] = c
      <4>1. calls[c].node # n /\ calls[c].status = "ok" /\ calls'[c].node = calls[c].node
        BY <3>1, <3>3
      <4>2. fsm'[calls[c].node] = fsm[calls[c].node]
        <5>1. calls[c] \in Call
          BY <1>2
        <5>2. calls[c].node \in Nodes
          BY <5>1 DEF Call
        <5>3. QED
          BY <1>2, <3>2, <4>1, <5>2
      <4>3. QED
        BY <3>2, <4>1, <4>2 DEF ReadYourWrites
    <3>4. QED
      BY <3>1, <3>3 DEF ReadYourWrites
  <2>7. QED
    BY <1>4, <2>1, <2>2, <2>3, <2>4, <2>5, <2>6 DEF NodeStep
<1>5. CASE Commit \/ UNCHANGED vars
  BY <1>3, <1>5 DEF Commit, vars
<1>6. QED
  BY <1>4, <1>5 DEF Next

(* A Set or Delete that returned nil is visible to every later local read  *)
(* on the node that was called, until the node is restarted.               *)
THEOREM WritesVisible == Spec => []ReadYourWrites
<1>1. Init => TypeOK /\ ReadYourWrites
  <2>1. Init => ReadYourWrites
    BY DEF Init, ReadYourWrites
  <2>2. QED
    BY <2>1, InitType
<1>2. TypeOK /\ ReadYourWrites /\ [Next]_vars => (TypeOK /\ ReadYourWrites)'
  BY NextType, NextReads
<1>3. QED
  BY <1>1, <1>2, PTL DEF Spec
=============================================================================
