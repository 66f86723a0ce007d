-------------------------- MODULE MCDeliveryRounds --------------------------
(* Instance of DeliveryRounds for TLC: three messages for one peer, and     *)
(* the delivery loop beside one stream handler.                             *)
EXTENDS DeliveryRounds, TLC

CONSTANTS p1, m1, m2, m3, x1, x2, x3, x4, loop, h1

MCIdOf == [m \in Bodies |-> CASE m = m1 -> 1 [] m = m2 -> 2 [] m = m3 -> 3]
MCToOf == [m \in Bodies |-> p1]

Symmetry == Permutations(Arrays)
=============================================================================
