--------------------------- MODULE MCPublication ----------------------------
(* A small instance of Publication for TLC.                                *)
EXTENDS Publication, TLC

CONSTANTS a1, c1, r1, r2, b1, b2, w1, w2

OneCase == c1 :> a1
FromStart == c1 :> 0
Retention == c1 :> 3

Symmetric ==
  Permutations({r1, r2}) \cup Permutations({w1, w2}) \cup Permutations({b1, b2})
=============================================================================
