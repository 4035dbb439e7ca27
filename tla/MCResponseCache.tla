--------------------------- MODULE MCResponseCache ---------------------------
(* The response cache with two keys and two requests at a time. *)
EXTENDS ResponseCache, TLC

CONSTANTS k1, k2, t1, t2

Alike == Permutations({t1, t2})
=============================================================================
