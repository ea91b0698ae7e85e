----------------------------- MODULE MCLifecycle ----------------------------
(* A small instance of Lifecycle for TLC.                                  *)
EXTENDS Lifecycle, TLC

CONSTANTS c1, c2, r1, r2, a1

MCInstalls == {[epoch |-> 0, status |-> "valid", until |-> 2],
               [epoch |-> 1, status |-> "valid", until |-> 1],
               [epoch |-> 1, status |-> "revoked", until |-> 2]}
MCTerms == {[until |-> 2, allowance |-> 2, cost |-> 1, unit |-> 1],
            [until |-> 1, allowance |-> 1, cost |-> 0, unit |-> 1]}
MCSymmetry == Permutations({c1, c2}) \cup Permutations({r1, r2})
=============================================================================
