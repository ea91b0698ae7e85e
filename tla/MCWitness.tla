----------------------------- MODULE MCWitness ------------------------------
(* Small instances of Witness for TLC.                                     *)
EXTENDS Witness, TLC

CONSTANTS r1, r2, p1, p2

Symmetric == Permutations({r1, r2}) \cup Permutations({p1, p2})
=============================================================================
