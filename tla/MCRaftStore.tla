---------------------------- MODULE MCRaftStore -----------------------------
(* Instances of RaftStore for TLC: v is changed by JSON (into w), x has no  *)
(* JSON form.                                                               *)
EXTENDS RaftStore

CONSTANTS n1, n2, k1, k2, v, w, x

MCDecoded == [u \in Values |-> IF u = x THEN NoJSON ELSE w]
=============================================================================
