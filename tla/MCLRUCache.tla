----------------------------- MODULE MCLRUCache -----------------------------
(* Instances of LRUCache for TLC. *)
EXTENDS LRUCache

CONSTANTS k1, k2, k3, small, medium, large

(* large does not fit the capacity of 3 at all. *)
MCSizeOf == [d \in Data |-> CASE d = small -> 1 [] d = medium -> 2 [] d = large -> 4]

Symmetry == Permutations(Keys)
=============================================================================
