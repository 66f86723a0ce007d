--------------------------- MODULE MCCloudStorage ---------------------------
(* Instances of CloudStorage for TLC: two files that share a chunk; a file *)
(* of one chunk that is fetched by two nodes.                              *)
EXTENDS CloudStorage

CONSTANTS n1, n2, n3, f1, f2, f3, c1, c2, c3

MCContent == [f \in Files |-> CASE f = f1 -> <<c1, c2>> [] f = f2 -> <<c2, c3>> [] f = f3 -> <<c1>>]
=============================================================================
