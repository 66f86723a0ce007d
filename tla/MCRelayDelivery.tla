-------------------------- MODULE MCRelayDelivery ---------------------------
(* Instances of RelayDelivery for TLC: one recipient, the delivery loop and *)
(* stream handlers.  Every message has an ID of its own.                    *)
EXTENDS RelayDelivery, TLC

CONSTANTS p1, m1, m2, x1, x2, x3, x4, loop, h1

MCIdOf == [m \in Bodies |-> IF m = m1 THEN 1 ELSE 2]
MCToOf == [m \in Bodies |-> p1]

Symmetry == Permutations(Arrays)
=============================================================================
