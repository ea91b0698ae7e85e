---------------------------- MODULE Publication ----------------------------
(***************************************************************************)
(* The outbox of the registry drained into the local event receiver,       *)
(* production_registry/receiver.py (FixtureEventReceiver), by workers that *)
(* follow the order of rehearsal.py (exercise): claim an event, hand it to *)
(* the receiver, acknowledge it with the lease.  Registry and receiver are *)
(* two databases, so the reply of each of the three calls may be lost and  *)
(* a worker may forget everything between two of them.                     *)
(***************************************************************************)
EXTENDS Registry

CONSTANT MaxApplied      \* MAX_EVENTS of the receiver

ASSUME PublicationAssumption == MaxApplied \in Nat

VARIABLES
  applied,         \* receiver: the events it applied, in order, with their time
  receiverClock,   \* receiver: last clock value a transaction committed
  task             \* what each worker holds

publication == <<applied, receiverClock, task>>
allVars == <<vars, publication>>

NoTask == [pc |-> "none"]

PublicationInit ==
  /\ Init
  /\ applied = << >> /\ receiverClock = 0
  /\ task = [w \in Workers |-> NoTask]

-----------------------------------------------------------------------------
Claim(w, b, c, seconds, now, final) ==
  /\ task[w] = NoTask
  /\ ClaimOutbox(b, w, c, seconds, now, final)
  /\ \/ UNCHANGED task
     \/ \E lease \in leases' \ leases :
          task' = [task EXCEPT ![w] = [pc |-> "claimed", lease |-> lease]]
  /\ UNCHANGED <<applied, receiverClock>>

\* Mutant: a redelivered event is taken for a new one.
NeverApplied(event) == FALSE
Applied(event) == \E i \in 1..Len(applied) : applied[i].event = event

(* The receiver returns the original receipt of an event it has applied.   *)
Receive(w, now, final) ==
  /\ task[w] # NoTask /\ task[w].pc = "claimed"
  /\ receiverClock <= now /\ now <= final /\ receiverClock' = final
  /\ IF Applied(task[w].lease.event) THEN UNCHANGED applied
     ELSE /\ Len(applied) < MaxApplied
          /\ applied' = Append(applied, [event |-> task[w].lease.event,
                                         key |-> receipts[task[w].lease.event].key,
                                         appliedAt |-> final])
  /\ task' \in {task, [task EXCEPT ![w].pc = "received"]}
  /\ UNCHANGED vars

\* Mutant: the lease is acknowledged as soon as it is held.
HoldsLease(w) == task[w] # NoTask
HasReceipt(w) == task[w] # NoTask /\ task[w].pc = "received"

Confirm(w, b, now, final) ==
  /\ HasReceipt(w)
  /\ Acknowledge(b, w, task[w].lease, now, final)
  /\ task' \in {task, [task EXCEPT ![w] = NoTask]}
  /\ UNCHANGED <<applied, receiverClock>>

Forget(w) ==
  /\ task[w] # NoTask
  /\ task' = [task EXCEPT ![w] = NoTask]
  /\ UNCHANGED <<vars, applied, receiverClock>>

RegistryStep(b, now, final) ==
  \/ Migrate(now, final)
  \/ Inspect(b, now, final) \/ ActivateBroker(b, now, final) \/ Observe(b, now, final)
  \/ \E c \in Cases, r \in RequestIds : Prepare(b, c, r, now, final)
  \/ \E k \in Keys : Commit(b, k, now, final)

PublicationNext ==
  \/ \E w \in Workers : Forget(w)
  \/ \E w \in Workers, now, final \in Times : Receive(w, now, final)
  \/ \E b \in Brokers, now, final \in Times :
       \/ RegistryStep(b, now, final) /\ UNCHANGED publication
       \/ \E w \in Workers :
            \/ \E c \in Cases, seconds \in LeaseSeconds : Claim(w, b, c, seconds, now, final)
            \/ Confirm(w, b, now, final)

PublicationSpec == PublicationInit /\ [][PublicationNext]_allVars
-----------------------------------------------------------------------------
(* The two databases and the workers between them implement exactly-once   *)
(* application, although every reply may be lost and leases expire.        *)
Promise == INSTANCE ExactlyOnce WITH
  committed <- {k \in Keys : \E i \in Events : receipts[i].key = k},
  effects <- [k \in Keys |-> Cardinality({i \in 1..Len(applied) : applied[i].key = k})],
  acknowledged <- {k \in Keys : \E i \in 1..Len(deliveries) :
                     receipts[i].key = k /\ deliveries[i].ackedAt # NotAcked}
ImplementsExactlyOnce == Promise!Spec
=============================================================================
