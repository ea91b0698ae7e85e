------------------------------ MODULE MCReview ------------------------------
(* A small instance of Review for TLC.                                     *)
EXTENDS Review

CONSTANTS s1, s2, u, o, p, q, a, r, c1, c2

Roles == u :> {"propose"} @@ o :> {"start"} @@ p :> {"policy", "start"}
           @@ q :> {"policy", "approve"} @@ a :> {"assess"} @@ r :> {"approve"}
RunRoles == u :> {"propose"} @@ o :> {"start"} @@ p :> {"policy"}
Owner == [case \in Cases |-> u]
OneProject == [case \in Cases |-> "project"]
MCPolicies == {[utility |-> 0, auc |-> 1], [utility |-> 1, auc |-> 1]}
OnePolicy == {[utility |-> 1, auc |-> 1]}
MCResults == {[utility |-> 0, auc |-> 1]}
BothResults == {[utility |-> floor, auc |-> 1] : floor \in {0, 1}}
MCSymmetry == Permutations({s1, s2})
=============================================================================
