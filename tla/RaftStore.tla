----------------------------- MODULE RaftStore ------------------------------
(***************************************************************************)
(* The replicated key-value store of src/internal/consensus/raft.go: the   *)
(* calls Apply, Set and Delete of RaftNode, and the state machine FSM that *)
(* hashicorp/raft drives on every node through Apply, Snapshot, Restore    *)
(* and fsmSnapshot.Persist.                                                *)
(*                                                                         *)
(* The Raft library is external and is modelled by what this code sees of  *)
(* it: one log of committed entries, and a leader's entries that are not   *)
(* committed yet.  A deposed leader may go on believing that it leads and  *)
(* accept calls; a new leader keeps any of the uncommitted entries, which  *)
(* allows more than Raft does.  Logs and snapshots survive a restart; the  *)
(* FSM and the callers do not.  Every call is numbered; the log is a       *)
(* sequence of these numbers.                                              *)
(*                                                                         *)
(* A value goes through JSON when a command is submitted and again when a  *)
(* snapshot is persisted: Decoded[v] is what comes out (numbers become     *)
(* float64), or NoJSON when v cannot be encoded.                           *)
(***************************************************************************)
EXTENDS Naturals, Sequences

CONSTANTS Nodes, Keys,
          Values,    \* the values that occur
          Inputs,    \* those that callers pass to Set
          Decoded,   \* what JSON makes of a value
          NoJSON,    \* the result of encoding what has no JSON form
          NoValue,   \* no entry in the map
          NoNode,
          NoCopy,    \* no snapshot under way
          MaxCalls   \* bound on the calls accepted

ASSUME StoreAssumption ==
    /\ Inputs \subseteq Values
    /\ Decoded \in [Values -> Values \cup {NoJSON}]
    /\ \A v \in Values : Decoded[v] # NoJSON => Decoded[Decoded[v]] = Decoded[v]
    /\ NoValue \notin Values /\ NoJSON \notin Values
    /\ NoNode \notin Nodes
    /\ MaxCalls \in Nat

VARIABLES
    calls,     \* the calls accepted so far: command, node and status
    log,       \* the committed entries
    pending,   \* the entries of the current leader that are not committed
    leader,    \* the node elected last, while it leads
    leaders,   \* the nodes whose State() is Leader
    fsm,       \* fsm[n]: the map f.data and the index of the entry applied last
    copy,      \* copy[n]: the fsmSnapshot being persisted
    disk       \* disk[n]: the newest snapshot in n's store

raft == <<log, pending, leader, leaders>>
vars == <<calls, raft, fsm, copy, disk>>

Op == {"set", "delete", "other"}   \* "other": an Op that the FSM does not know
Command == [op : Op, key : Keys, val : Inputs \cup {NoValue}]
Map == [Keys -> {v \in Values : Decoded[v] = v} \cup {NoValue}]
State == [index : Nat, data : Map]
Call == [cmd : Command, node : Nodes, status : {"waiting", "ok", "over"}]

NewFSM == [index |-> 0, data |-> [k \in Keys |-> NoValue]]

Committed == {log[i] : i \in 1..Len(log)}
Uncommitted == (1..Len(calls)) \ Committed
Waiting(n) == {c \in 1..Len(calls) : calls[c].node = n /\ calls[c].status = "waiting"}

(* The calls in C return an error, or their process is gone. *)
End(C) == calls' = [c \in 1..Len(calls) |->
                       IF c \in C THEN [calls[c] EXCEPT !.status = "over"] ELSE calls[c]]

Init ==
    /\ calls = <<>> /\ log = <<>>
    /\ pending = {} /\ leader = NoNode /\ leaders = {}
    /\ fsm = [n \in Nodes |-> NewFSM]
    /\ copy = [n \in Nodes |-> NoCopy]
    /\ disk = [n \in Nodes |-> NewFSM]

-----------------------------------------------------------------------------
(* Calls of RaftNode.  One that is refused, because the node is not leader *)
(* or the value has no JSON form, changes nothing.                         *)

Submit(n, cmd, status) ==
    /\ n \in leaders
    /\ Len(calls) < MaxCalls
    /\ calls' = Append(calls, [cmd |-> cmd, node |-> n, status |-> status])
    /\ pending' = IF n = leader THEN pending \cup {Len(calls) + 1} ELSE pending
    /\ UNCHANGED <<log, leader, leaders, fsm, copy, disk>>

(* Mutant: the future of raft.Apply is not waited for. *)
ApplyNoWait(n, cmd) == Submit(n, cmd, "ok")

Apply(n, cmd) == Submit(n, cmd, "waiting")

(* Mutant: the error of json.Marshal is not looked at. *)
SetUnchecked(n, k, v) == Apply(n, [op |-> "set", key |-> k, val |-> v])

Set(n, k, v) ==
    /\ Decoded[v] # NoJSON
    /\ Apply(n, [op |-> "set", key |-> k, val |-> v])

Delete(n, k) == Apply(n, [op |-> "delete", key |-> k, val |-> NoValue])

Unknown(n, k) == Apply(n, [op |-> "other", key |-> k, val |-> NoValue])

-----------------------------------------------------------------------------
(* The Raft library. *)

Elect(n) ==
    /\ n \notin leaders
    /\ leader' = n
    /\ leaders' = leaders \cup {n}
    /\ \E kept \in SUBSET Uncommitted : pending' = kept
    /\ UNCHANGED <<calls, log, fsm, copy, disk>>

Commit ==
    /\ leader # NoNode
    /\ \E c \in pending :
          /\ \A d \in pending : c <= d
          /\ log' = Append(log, c)
          /\ pending' = pending \ {c}
    /\ UNCHANGED <<calls, leader, leaders, fsm, copy, disk>>

(* What is not committed fails with ErrLeadershipLost; an entry that is    *)
(* already on its way to the FSM may still be answered from there.         *)
StepDown(n) ==
    /\ n \in leaders
    /\ leaders' = leaders \ {n}
    /\ leader' = IF leader = n THEN NoNode ELSE leader
    /\ pending' = IF leader = n THEN {} ELSE pending
    /\ \E C \in SUBSET Waiting(n) : Waiting(n) \ Committed \subseteq C /\ End(C)
    /\ UNCHANGED <<log, fsm, copy, disk>>

-----------------------------------------------------------------------------
(* The FSM.  The library calls Apply, Snapshot and Restore one at a time;  *)
(* Persist runs beside them.                                               *)

(* Any other Op has no effect, nor has an entry that json.Unmarshal        *)
(* rejects: FSM.Apply then responds with an error, which Apply ignores.    *)
Effect(data, cmd) ==
    CASE cmd.op = "set"    -> [data EXCEPT ![cmd.key] = Decoded[cmd.val]]
      [] cmd.op = "delete" -> [data EXCEPT ![cmd.key] = NoValue]
      [] OTHER             -> data

(* Mutant: FSM.Apply never returns from an Op that it does not know. *)
FSMApplyStuck(n, cmd) ==
    /\ cmd.op # "other"
    /\ fsm' = [fsm EXCEPT ![n] = [index |-> @.index + 1, data |-> Effect(@.data, cmd)]]

FSMApply(n, cmd) ==
    fsm' = [fsm EXCEPT ![n] = [index |-> @.index + 1, data |-> Effect(@.data, cmd)]]

(* The next committed entry is applied; a caller that waits for it on this *)
(* node then gets its answer.                                              *)
ApplyEntry(n) ==
    LET c == log[fsm[n].index + 1] IN
    /\ fsm[n].index < Len(log)
    /\ FSMApply(n, calls[c].cmd)
    /\ calls' = IF c \in Waiting(n) THEN [calls EXCEPT ![c].status = "ok"] ELSE calls
    /\ UNCHANGED <<raft, copy, disk>>

Snapshot(n) ==
    /\ copy[n] = NoCopy
    /\ fsm[n].index > disk[n].index
    /\ copy' = [copy EXCEPT ![n] = fsm[n]]
    /\ UNCHANGED <<calls, raft, fsm, disk>>

(* The store lists the snapshot with the highest index first. *)
Persist(n) ==
    /\ copy[n] # NoCopy
    /\ disk' = [disk EXCEPT ![n] = IF copy[n].index > @.index THEN copy[n] ELSE @]
    /\ copy' = [copy EXCEPT ![n] = NoCopy]
    /\ UNCHANGED <<calls, raft, fsm>>

(* Writing fails: the sink is cancelled. *)
PersistError(n) ==
    /\ copy[n] # NoCopy
    /\ copy' = [copy EXCEPT ![n] = NoCopy]
    /\ UNCHANGED <<calls, raft, fsm, disk>>

(* Mutant: the snapshot is decoded into the map that is there. *)
RestoreMerge(data, s) ==
    [k \in Keys |-> IF s[k] = NoValue THEN data[k] ELSE Decoded[s[k]]]

(* FSM.Restore: the decoded snapshot s takes the place of the map data. *)
Restore(data, s) ==
    [k \in Keys |-> IF s[k] = NoValue THEN NoValue ELSE Decoded[s[k]]]

(* A node that lags behind gets the leader's snapshot, after the entries   *)
(* already handed to its FSM.                                              *)
InstallSnapshot(n) ==
    /\ leader # NoNode /\ n \notin leaders
    /\ disk[leader].index > fsm[n].index
    /\ Waiting(n) = {}
    /\ fsm' = [fsm EXCEPT ![n] = [index |-> disk[leader].index,
                                   data |-> Restore(@.data, disk[leader].data)]]
    /\ disk' = [disk EXCEPT ![n] = disk[leader]]
    /\ UNCHANGED <<calls, raft, copy>>

(* A crash or Shutdown, and NewRaftNode over the same directory: a new FSM *)
(* starts from the newest snapshot.                                        *)
Restart(n) ==
    /\ fsm' = [fsm EXCEPT ![n] = [index |-> disk[n].index,
                                   data |-> Restore(NewFSM.data, disk[n].data)]]
    /\ copy' = [copy EXCEPT ![n] = NoCopy]
    /\ leaders' = leaders \ {n}
    /\ leader' = IF leader = n THEN NoNode ELSE leader
    /\ pending' = IF leader = n THEN {} ELSE pending
    /\ End({c \in 1..Len(calls) : calls[c].node = n})
    /\ UNCHANGED <<log, disk>>

-----------------------------------------------------------------------------
NodeStep(n) ==
    \/ \E k \in Keys : Delete(n, k) \/ Unknown(n, k) \/ \E v \in Inputs : Set(n, k, v)
    \/ Elect(n) \/ StepDown(n)
    \/ ApplyEntry(n) \/ Snapshot(n) \/ Persist(n) \/ PersistError(n)
    \/ InstallSnapshot(n) \/ Restart(n)

Next == Commit \/ \E n \in Nodes : NodeStep(n)

Spec == Init /\ [][Next]_vars

(* The library commits what a leader holds, feeds the FSM, and a deposed   *)
(* leader finds out.  Nothing is assumed of elections, snapshots, crashes  *)
(* or callers.                                                             *)
FairSpec ==
    /\ Spec
    /\ WF_vars(Commit)
    /\ \A n \in Nodes : WF_vars(ApplyEntry(n)) /\ WF_vars(n # leader /\ StepDown(n))

-----------------------------------------------------------------------------
(* Every map holds decoded values only, no entry is committed twice, and a *)
(* snapshot, under way or stored, is never ahead of its node.              *)
TypeOK ==
    /\ calls \in Seq(Call) /\ Len(calls) <= MaxCalls
    /\ \A c \in 1..Len(calls) :
          calls[c].cmd.op = "set" =>
              calls[c].cmd.val \in Inputs /\ Decoded[calls[c].cmd.val] # NoJSON
    /\ log \in Seq(1..Len(calls))
    /\ \A i, j \in 1..Len(log) : log[i] = log[j] => i = j
    /\ pending \subseteq Uncommitted
    /\ leaders \subseteq Nodes /\ leader \in leaders \cup {NoNode}
    /\ fsm \in [Nodes -> State] /\ disk \in [Nodes -> State]
    /\ copy \in [Nodes -> State \cup {NoCopy}]
    /\ \A n \in Nodes :
          /\ disk[n].index <= fsm[n].index /\ fsm[n].index <= Len(log)
          /\ copy[n] # NoCopy => copy[n].index <= fsm[n].index

(* Entry i of the log sets or deletes k. *)
Writes(i, k) ==
    LET cmd == calls[log[i]].cmd IN cmd.key = k /\ cmd.op # "other"

WrittenBy(i) ==
    LET cmd == calls[log[i]].cmd IN IF cmd.op = "set" THEN Decoded[cmd.val] ELSE NoValue

(* x is what the first i entries leave under k: what the last of them that *)
(* writes k wrote.                                                         *)
Holds(i, k, x) ==
    \/ /\ x = NoValue
       /\ \A j \in 1..i : ~Writes(j, k)
    \/ \E j \in 1..i :
          /\ Writes(j, k) /\ x = WrittenBy(j)
          /\ \A l \in (j + 1)..i : ~Writes(l, k)

IsStateAt(s) == \A k \in Keys : Holds(s.index, k, s.data[k])

(* Get, GetAll and the snapshots of every node, through failing and late   *)
(* snapshots, installed snapshots and restarts, show the state after a     *)
(* prefix of one log: per key, what its last write in the prefix wrote.    *)
StateIsLog ==
    \A n \in Nodes :
        /\ IsStateAt(fsm[n])
        /\ IsStateAt(disk[n])
        /\ copy[n] # NoCopy => IsStateAt(copy[n])

(* A call that returned nil is in effect on the node that was called, for  *)
(* as long as this process of it lives: a local Get sees it or a later     *)
(* write, also after the node has lost the leadership and was sent a       *)
(* snapshot.                                                               *)
ReadYourWrites ==
    \A c \in 1..Len(calls) :
        calls[c].status = "ok" =>
            \E i \in 1..fsm[calls[c].node].index : log[i] = c

(* Apply waits for its future without a timeout, and comes back: with nil, *)
(* with an error, or together with its process.                            *)
CallsEnd ==
    \A n \in Nodes, c \in 1..MaxCalls : c \in Waiting(n) ~> c \notin Waiting(n)
=============================================================================
