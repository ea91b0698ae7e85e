------------------------------- MODULE Ledger -------------------------------
(***************************************************************************)
(* What the fixture registry promises its callers, with no brokers, heads, *)
(* clocks, leases or history: a request identity of an account is charged  *)
(* at most once and for ever, an account never charges more requests than  *)
(* its capacity, and the event of a charged request is published at most   *)
(* once.  The registry of Registry.tla implements this specification.      *)
(***************************************************************************)
EXTENDS Integers, FiniteSets

CONSTANTS Accounts, RequestIds, Capacity

VARIABLE status         \* how far each permanent request identity has come

Keys == Accounts \X RequestIds

Charged(a) == {k \in Keys : k[1] = a /\ status[k] # "open"}

Init == status = [k \in Keys |-> "open"]

Charge(k) ==
  /\ status[k] = "open"
  /\ Cardinality(Charged(k[1])) < Capacity
  /\ status' = [status EXCEPT ![k] = "charged"]

Publish(k) ==
  /\ status[k] = "charged"
  /\ status' = [status EXCEPT ![k] = "published"]

Next == \E k \in Keys : Charge(k) \/ Publish(k)

Spec == Init /\ [][Next]_status
=============================================================================
