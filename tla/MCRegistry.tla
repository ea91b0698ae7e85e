----------------------------- MODULE MCRegistry -----------------------------
(* A small instance of Registry for TLC.                                   *)
EXTENDS Registry, TLC

CONSTANTS a1, c1, c2, r1, r2, r3, b1, b2, w1

OneAccount == [c \in {c1, c2} |-> a1]
FromStart == [c \in {c1, c2} |-> 0]
Retention == (c1 :> 3 @@ c2 :> 2)

Symmetric == Permutations({r1, r2, r3}) \cup Permutations({b1, b2})
=============================================================================
