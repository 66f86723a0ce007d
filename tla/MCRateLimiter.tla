--------------------------- MODULE MCRateLimiter ----------------------------
(* Instance of RateLimiter for TLC: one peer, whose resets let it meet the  *)
(* global limit as well.                                                    *)
EXTENDS RateLimiter

CONSTANT p1
=============================================================================
