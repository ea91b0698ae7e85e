----------------------------- MODULE MCDelivery -----------------------------
(* Small instances of Delivery for TLC.                                    *)
EXTENDS Delivery, TLC

CONSTANTS s1, s2, s3, p1, p2, p3, r1, r2

TwoProcesses == s1 :> p1 @@ s2 :> p2
ThreeProcesses == TwoProcesses @@ s3 :> p3

(* Gateways may be exchanged together with their processes.                *)
Same == s1 :> s1 @@ s2 :> s2 @@ p1 :> p1 @@ p2 :> p2
Exchanged == s1 :> s2 @@ s2 :> s1 @@ p1 :> p2 @@ p2 :> p1
Symmetric == {f @@ g : f \in {Same, Exchanged}, g \in Permutations({r1, r2})}
SymmetricThree ==
  {f @@ [p \in {p1, p2, p3} |-> ThreeProcesses[f[CHOOSE s \in {s1, s2, s3} :
                                                   ThreeProcesses[s] = p]]] :
     f \in Permutations({s1, s2, s3})}
=============================================================================
