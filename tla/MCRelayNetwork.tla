--------------------------- MODULE MCRelayNetwork ---------------------------
(* An instance of RelayNetwork for TLC: the node itself among five relays. *)
EXTENDS RelayNetwork

CONSTANTS r1, r2, r3, r4, r5

MCRank == [r \in Relays |-> CASE r = r1 -> 1 [] r = r2 -> 2 [] r = r3 -> 3 [] r = r4 -> 4 [] r = r5 -> 5]
=============================================================================
