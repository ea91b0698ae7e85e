---------------------------- MODULE ExactlyOnce ----------------------------
(***************************************************************************)
(* What the outbox and its receiver promise together: the effect of a      *)
(* committed request is applied at most once and never undone, and only an *)
(* event whose effect was applied is ever acknowledged.                    *)
(***************************************************************************)
EXTENDS Integers, FiniteSets

CONSTANT Keys           \* the permanent request identities

VARIABLES committed, effects, acknowledged

Init == committed = {} /\ effects = [k \in Keys |-> 0] /\ acknowledged = {}

Commit(k) ==
  /\ committed' = committed \cup {k}
  /\ UNCHANGED <<effects, acknowledged>>

Apply(k) ==
  /\ k \in committed /\ effects[k] = 0
  /\ effects' = [effects EXCEPT ![k] = 1]
  /\ UNCHANGED <<committed, acknowledged>>

Acknowledge(k) ==
  /\ effects[k] = 1
  /\ acknowledged' = acknowledged \cup {k}
  /\ UNCHANGED <<committed, effects>>

Next == \E k \in Keys : Commit(k) \/ Apply(k) \/ Acknowledge(k)

Spec == Init /\ [][Next]_<<committed, effects, acknowledged>>
=============================================================================
