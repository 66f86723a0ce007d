--------------------------- MODULE MCMessageQueue ---------------------------
(* Instances of MessageQueue for TLC.                                      *)
EXTENDS MessageQueue, TLC

CONSTANTS m1, m2, p1, p2, x1, x2, x3, x4, x5

Symmetry == Permutations(Arrays)

(* Message m2 leaves its ID to the queue, which may take one in use. *)
MCIdOf == [m \in Bodies |-> IF m = m1 THEN 1 ELSE NoId]

(* Cleanup's Sublist is the sublist SelectSeq computes. *)
ASSUME \A S \in SUBSET (1..4) :
          /\ Cardinality(InOrder(S)) = 1
          /\ Sublist(<<1, 2, 3, 4>>, S) = SelectSeq(<<1, 2, 3, 4>>, LAMBDA i : i \in S)
=============================================================================
