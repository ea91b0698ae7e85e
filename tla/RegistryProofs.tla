--------------------------- MODULE RegistryProofs ---------------------------
(***************************************************************************)
(* Proofs about the registry and about its publication to the receiver,    *)
(* for every set of accounts, cases, requests, brokers and workers and     *)
(* every bound.                                                            *)
(***************************************************************************)
EXTENDS Publication, FiniteSetTheorems, TLAPS

DeliveryRow == [lease : Lease \cup {NoLease}, ackedAt : Nat \cup {NotAcked}]

(* The shapes alone, without the two bounds that TypeOK adds.              *)
Shapes ==
  /\ version \in {1, 2}
  /\ epoch \in Nat /\ broker \in Brokers \cup {NoBroker} /\ brokers \subseteq Brokers
  /\ account \in [Accounts -> [sequence : Nat, head : Nat, total : Nat]]
  /\ case \in [Cases -> CasHead]
  /\ receipts \in Seq(Receipt)
  /\ deliveries \in Seq(DeliveryRow)
  /\ leases \subseteq Lease
  /\ count \in 1..MaxEvents /\ clock \in Nat
  /\ observed \in [Brokers -> Nat \cup {Unseen}]
  /\ session \in [Brokers -> Nat]
  /\ prepared \in [Keys -> Intent \cup {NoIntent}]

(* A receipt built from a retained intent has the shape of a receipt.      *)
LEMMA NewReceiptType ==
  ASSUME Shapes, NEW k \in Keys, NEW b \in Brokers, NEW now \in Times,
         prepared[k] # NoIntent
  PROVE  /\ prepared[k] \in Intent
         /\ prepared[k].case \in Cases
         /\ NewReceipt(k, b, now) \in Receipt
<1>1. prepared[k] \in Intent
  BY DEF Shapes
<1>2. prepared[k].case \in Cases /\ prepared[k].account \in CasHead /\ prepared[k].caseHead \in CasHead
  BY <1>1 DEF Intent
<1>3. session[b] \in Nat /\ now \in Nat
  BY RegistryAssumption DEF Shapes, Times
<1>4. NewReceipt(k, b, now) \in Receipt
  BY <1>2, <1>3 DEF NewReceipt, Receipt, CasHead
<1>5. QED
  BY <1>1, <1>2, <1>4

(* A lease that a claim writes has the shape of a lease.                   *)
LEMMA NewLeaseType ==
  ASSUME Shapes, NEW i \in Events, i \in 1..Len(deliveries), NEW b \in Brokers, NEW o \in Workers,
         NEW seconds \in LeaseSeconds, NEW now \in Times
  PROVE  /\ NewLease(i, b, o, seconds, now) \in Lease
         /\ NewLease(i, b, o, seconds, now).generation = deliveries[i].lease.generation + 1
         /\ deliveries[i].lease.generation \in Nat
<1>1. receipts[i] \in Receipt /\ i \in Nat
  BY DEF Shapes, Events
<1>2. receipts[i].case \in Cases
  BY <1>1 DEF Receipt
<1>3. deliveries[i] \in DeliveryRow
  BY DEF Shapes
<1>4. deliveries[i].lease \in Lease \cup {NoLease}
  BY <1>3 DEF DeliveryRow
<1>5. deliveries[i].lease.generation \in Nat
  BY <1>4 DEF Lease, NoLease
<1>6. session[b] \in Nat /\ now \in Nat /\ seconds \in Nat
  BY RegistryAssumption DEF Shapes, Times
<1>7. now + seconds \in Nat /\ deliveries[i].lease.generation + 1 \in Nat
  BY <1>5, <1>6
<1>8. QED
  BY <1>1, <1>2, <1>5, <1>6, <1>7 DEF NewLease, Lease

-----------------------------------------------------------------------------
(* Appending to a sequence, and overwriting one entry of it, keep its type.*)
LEMMA AppendType ==
  ASSUME NEW S, NEW s \in Seq(S), NEW e \in S
  PROVE  /\ Append(s, e) \in Seq(S)
         /\ Len(Append(s, e)) = Len(s) + 1
         /\ \A i \in 1..Len(s) : Append(s, e)[i] = s[i]
         /\ Append(s, e)[Len(s) + 1] = e
OBVIOUS

LEMMA OverwriteType ==
  ASSUME NEW S, NEW s \in Seq(S), NEW i \in 1..Len(s), NEW e \in S
  PROVE  /\ [s EXCEPT ![i] = e] \in Seq(S)
         /\ Len([s EXCEPT ![i] = e]) = Len(s)
         /\ \A j \in 1..Len(s) : [s EXCEPT ![i] = e][j] = IF j = i THEN e ELSE s[j]
OBVIOUS

LEMMA InitType == Init => TypeOK
<1> SUFFICES ASSUME Init PROVE TypeOK
  OBVIOUS
<1> USE RegistryAssumption
<1>1. account \in [Accounts -> [sequence : Nat, head : Nat, total : Nat]]
  BY DEF Init, Genesis
<1>2. case \in [Cases -> CasHead]
  BY DEF Init, EmptyHead, CasHead, Genesis
<1>3. observed \in [Brokers -> Nat \cup {Unseen}] /\ session \in [Brokers -> Nat]
  BY DEF Init
<1>4. prepared \in [Keys -> Intent \cup {NoIntent}]
  BY DEF Init
<1>5. Len(receipts) = 0 /\ Len(deliveries) = 0 /\ receipts \in Seq(Receipt)
      /\ deliveries \in Seq([lease : Lease \cup {NoLease}, ackedAt : Nat \cup {NotAcked}])
  BY DEF Init
<1>6. QED
  BY <1>1, <1>2, <1>3, <1>4, <1>5 DEF Init, TypeOK

(* What the proof of the step needs of each transaction.                   *)
LEMMA SampledClock ==
  ASSUME clock \in Nat, NEW now \in Times, NEW final \in Times, Sampled(now, final)
  PROVE  now \in Nat /\ final \in Nat /\ clock' \in Nat
         /\ clock <= now /\ now <= final /\ clock' = final
BY RegistryAssumption DEF Sampled, Times

LEMMA CommitType ==
  ASSUME TypeOK, NEW b \in Brokers, NEW k \in Keys, NEW now \in Times, NEW final \in Times,
         Commit(b, k, now, final)
  PROVE  TypeOK'
<1> DEFINE c == prepared[k].case
           a == CaseAccount[c]
           n == Len(receipts) + 1
<1>1. Shapes
  BY DEF TypeOK, Shapes, DeliveryRow
<1>2. prepared[k] \in Intent /\ c \in Cases /\ NewReceipt(k, b, now) \in Receipt
  BY <1>1, NewReceiptType DEF Commit
<1>3. a \in Accounts
  BY <1>2, RegistryAssumption
<1>4. receipts' = Append(receipts, NewReceipt(k, b, now)) /\ receipts \in Seq(Receipt)
  BY DEF Commit, TypeOK
<1>5. receipts' \in Seq(Receipt) /\ Len(receipts') = Len(receipts) + 1
  BY <1>2, <1>4, AppendType
<1>6. Len(receipts) \in Nat
  BY <1>4
<1>7. account' \in [Accounts -> [sequence : Nat, head : Nat, total : Nat]]
  <2>1. prepared[k].account.sequence + 1 \in Nat /\ n \in Nat
    BY <1>2, <1>6 DEF Intent, CasHead
  <2>2. account' = [account EXCEPT ![a] = [sequence |-> prepared[k].account.sequence + 1,
                      head |-> n, total |-> prepared[k].account.sequence + 1]]
    BY DEF Commit
  <2>3. QED
    BY <2>1, <2>2 DEF TypeOK
<1>8. case' \in [Cases -> CasHead]
  <2>1. prepared[k].caseHead.sequence + 1 \in Nat /\ n \in Nat
    BY <1>2, <1>6 DEF Intent, CasHead
  <2>2. case' = [case EXCEPT ![c] = [sequence |-> prepared[k].caseHead.sequence + 1, head |-> n]]
    BY DEF Commit
  <2>3. QED
    BY <2>1, <2>2 DEF TypeOK, CasHead
<1>9. /\ deliveries' \in Seq([lease : Lease \cup {NoLease}, ackedAt : Nat \cup {NotAcked}])
      /\ Len(deliveries') = IF version' = 2 THEN Len(receipts') ELSE 0
      /\ \A i \in 1..Len(deliveries') : deliveries'[i].lease.generation \in 0..MaxAttempts
  <2>1. version' = version /\ version \in {1, 2} /\ deliveries \in Seq(DeliveryRow)
        /\ Len(deliveries) = IF version = 2 THEN Len(receipts) ELSE 0
    BY DEF Commit, TypeOK, DeliveryRow
  <2>2. CASE version = 1
    BY <2>1, <2>2 DEF Commit, TypeOK
  <2>3. CASE version = 2
    <3>1. EmptyDelivery \in DeliveryRow /\ EmptyDelivery.lease.generation \in 0..MaxAttempts
      BY RegistryAssumption DEF EmptyDelivery, DeliveryRow, NoLease
    <3>2. deliveries' = Append(deliveries, EmptyDelivery)
      BY <2>3 DEF Commit
    <3>3. /\ deliveries' \in Seq(DeliveryRow) /\ Len(deliveries') = Len(deliveries) + 1
          /\ \A i \in 1..Len(deliveries) : deliveries'[i] = deliveries[i]
          /\ deliveries'[Len(deliveries) + 1] = EmptyDelivery
      BY <2>1, <3>1, <3>2, AppendType
    <3>4. \A i \in 1..Len(deliveries') : i \in 1..Len(deliveries) \/ i = Len(deliveries) + 1
      BY <2>1, <3>3
    <3>5. \A i \in 1..Len(deliveries') : deliveries'[i].lease.generation \in 0..MaxAttempts
      BY <3>1, <3>3, <3>4 DEF TypeOK
    <3>6. QED
      BY <1>5, <2>1, <2>3, <3>3, <3>5 DEF DeliveryRow
  <2>4. QED
    BY <2>1, <2>2, <2>3
<1>10. clock' \in Nat /\ count' \in 1..MaxEvents
  <2>1. Sampled(now, final) /\ count < MaxEvents /\ count' = count + 1
    BY DEF Commit, AppendsEvent
  <2>2. QED
    BY <2>1, SampledClock, RegistryAssumption DEF TypeOK
<1>11. UNCHANGED <<version, epoch, broker, brokers, leases, remembered>>
  BY DEF Commit
<1>12. QED
  BY <1>5, <1>7, <1>8, <1>9, <1>10, <1>11 DEF TypeOK, remembered

LEMMA MigrateType ==
  ASSUME TypeOK, NEW now \in Times, NEW final \in Times, Migrate(now, final)
  PROVE  TypeOK'
<1>1. Sampled(now, final) /\ count < MaxEvents /\ count' = count + 1
  BY DEF Migrate, AppendsEvent
<1>2. clock' \in Nat /\ count' \in 1..MaxEvents
  BY <1>1, SampledClock, RegistryAssumption DEF TypeOK
<1>3. Len(receipts) \in Nat /\ receipts' = receipts /\ receipts \in Seq(Receipt)
  BY DEF Migrate, TypeOK
<1>4. EmptyDelivery \in DeliveryRow /\ EmptyDelivery.lease.generation \in 0..MaxAttempts
  BY RegistryAssumption DEF EmptyDelivery, DeliveryRow, NoLease
<1>5. deliveries' = [i \in 1..Len(receipts) |-> EmptyDelivery]
  BY DEF Migrate, Events
<1>6. /\ deliveries' \in Seq(DeliveryRow) /\ Len(deliveries') = Len(receipts)
      /\ \A i \in 1..Len(deliveries') : deliveries'[i].lease.generation \in 0..MaxAttempts
  BY <1>3, <1>4, <1>5
<1>7. QED
  BY <1>2, <1>3, <1>6 DEF TypeOK, Migrate, remembered, DeliveryRow

LEMMA ClaimType ==
  ASSUME TypeOK, NEW b \in Brokers, NEW o \in Workers, NEW c \in Cases,
         NEW seconds \in LeaseSeconds, NEW now \in Times, NEW final \in Times,
         ClaimOutbox(b, o, c, seconds, now, final)
  PROVE  TypeOK'
<1>1. PICK i \in Available(c, now) :
        /\ AttemptLeft(i)
        /\ deliveries' = [deliveries EXCEPT ![i].lease = NewLease(i, b, o, seconds, now)]
        /\ leases' = leases \cup {NewLease(i, b, o, seconds, now)}
  BY DEF ClaimOutbox
<1> DEFINE lease == NewLease(i, b, o, seconds, now)
           row == [deliveries[i] EXCEPT !.lease = lease]
<1>2. version = 2 /\ Len(deliveries) = Len(receipts) /\ receipts \in Seq(Receipt)
      /\ deliveries \in Seq(DeliveryRow)
  BY DEF ClaimOutbox, TypeOK, DeliveryRow
<1>3. i \in Events /\ i \in 1..Len(deliveries)
  BY <1>2 DEF Available, Events
<1>4. Shapes
  BY DEF TypeOK, Shapes, DeliveryRow
<1>5. lease \in Lease /\ lease.generation = deliveries[i].lease.generation + 1
      /\ deliveries[i].lease.generation \in Nat
  BY <1>3, <1>4, NewLeaseType
<1>6. lease.generation \in 0..MaxAttempts
  BY <1>1, <1>5, RegistryAssumption DEF AttemptLeft
<1>7. deliveries[i] \in DeliveryRow
  BY <1>2, <1>3
<1>8. row \in DeliveryRow /\ row.lease = lease
  BY <1>5, <1>7 DEF DeliveryRow
<1>9. deliveries' = [deliveries EXCEPT ![i] = row]
  BY <1>1, <1>3
<1>10. /\ deliveries' \in Seq(DeliveryRow) /\ Len(deliveries') = Len(deliveries)
       /\ \A j \in 1..Len(deliveries) : deliveries'[j] = IF j = i THEN row ELSE deliveries[j]
  BY <1>2, <1>3, <1>8, <1>9, OverwriteType
<1>11. \A j \in 1..Len(deliveries') : deliveries'[j].lease.generation \in 0..MaxAttempts
  BY <1>6, <1>8, <1>10 DEF TypeOK
<1>12. clock' \in Nat /\ count' \in 1..MaxEvents
  <2>1. Sampled(now, final) /\ count < MaxEvents /\ count' = count + 1
    BY DEF ClaimOutbox, AppendsEvent
  <2>2. QED
    BY <2>1, SampledClock, RegistryAssumption DEF TypeOK
<1>13. leases' \subseteq Lease
  BY <1>1, <1>5 DEF TypeOK
<1>14. UNCHANGED <<version, epoch, broker, brokers, account, case, receipts, remembered>>
  BY DEF ClaimOutbox
<1>15. QED
  BY <1>2, <1>10, <1>11, <1>12, <1>13, <1>14 DEF TypeOK, remembered, DeliveryRow

LEMMA AcknowledgeType ==
  ASSUME TypeOK, NEW b \in Brokers, NEW o \in Workers, NEW lease \in leases,
         NEW now \in Times, NEW final \in Times, Acknowledge(b, o, lease, now, final)
  PROVE  TypeOK'
<1> DEFINE i == lease.event
           row == [deliveries[i] EXCEPT !.ackedAt = now]
<1>1. version = 2 /\ Len(deliveries) = Len(receipts) /\ deliveries \in Seq(DeliveryRow)
  BY DEF Acknowledge, TypeOK, DeliveryRow
<1>2. now \in Nat /\ clock' \in Nat /\ count' \in 1..MaxEvents
  <2>1. Sampled(now, final) /\ count < MaxEvents /\ count' = count + 1
    BY DEF Acknowledge, AppendsEvent
  <2>2. QED
    BY <2>1, SampledClock, RegistryAssumption DEF TypeOK
<1>3. deliveries' = [deliveries EXCEPT ![i].ackedAt = now]
  BY DEF Acknowledge
<1>4. /\ deliveries' \in Seq(DeliveryRow) /\ Len(deliveries') = Len(deliveries)
      /\ \A j \in 1..Len(deliveries') : deliveries'[j].lease.generation \in 0..MaxAttempts
  <2>1. CASE i \in 1..Len(deliveries)
    <3>1. deliveries[i] \in DeliveryRow
      BY <1>1, <2>1
    <3>2. row \in DeliveryRow /\ row.lease = deliveries[i].lease
      BY <1>2, <3>1 DEF DeliveryRow
    <3>3. deliveries' = [deliveries EXCEPT ![i] = row]
      BY <1>3, <2>1
    <3>4. /\ deliveries' \in Seq(DeliveryRow) /\ Len(deliveries') = Len(deliveries)
          /\ \A j \in 1..Len(deliveries) : deliveries'[j] = IF j = i THEN row ELSE deliveries[j]
      BY <1>1, <2>1, <3>2, <3>3, OverwriteType
    <3>5. QED
      BY <3>2, <3>4 DEF TypeOK
  <2>2. CASE i \notin 1..Len(deliveries)
    <3>1. deliveries' = deliveries
      BY <1>1, <1>3, <2>2
    <3>2. QED
      BY <1>1, <3>1 DEF TypeOK
  <2>3. QED
    BY <2>1, <2>2
<1>5. UNCHANGED <<version, epoch, broker, brokers, account, case, receipts, leases, remembered>>
  BY DEF Acknowledge
<1>6. QED
  BY <1>1, <1>2, <1>4, <1>5 DEF TypeOK, remembered, DeliveryRow

LEMMA ServiceType ==
  ASSUME TypeOK, NEW b \in Brokers, NEW now \in Times, NEW final \in Times
  PROVE  /\ Inspect(b, now, final) => TypeOK'
         /\ ActivateBroker(b, now, final) => TypeOK'
         /\ Observe(b, now, final) => TypeOK'
         /\ \A c \in Cases, r \in RequestIds : Prepare(b, c, r, now, final) => TypeOK'
<1>1. ASSUME Inspect(b, now, final) PROVE TypeOK'
  <2>1. Sampled(now, final) /\ observed' = [observed EXCEPT ![b] = epoch]
    BY <1>1 DEF Inspect
  <2>2. clock' \in Nat /\ observed' \in [Brokers -> Nat \cup {Unseen}]
    BY <2>1, SampledClock DEF TypeOK
  <2>3. UNCHANGED <<stored, session, prepared>>
    BY <1>1 DEF Inspect
  <2>4. QED
    BY <2>2, <2>3 DEF TypeOK, stored
<1>2. ASSUME ActivateBroker(b, now, final) PROVE TypeOK'
  <2>1. Sampled(now, final) /\ count < MaxEvents /\ count' = count + 1
    BY <1>2 DEF ActivateBroker, AppendsEvent
  <2>2. clock' \in Nat /\ count' \in 1..MaxEvents
    BY <2>1, SampledClock, RegistryAssumption DEF TypeOK
  <2>3. /\ brokers' = brokers \cup {b} /\ broker' = b /\ epoch' = epoch + 1
        /\ session' = [session EXCEPT ![b] = epoch + 1]
    BY <1>2 DEF ActivateBroker
  <2>4. UNCHANGED <<version, account, case, receipts, deliveries, leases, observed, prepared>>
    BY <1>2 DEF ActivateBroker
  <2>5. QED
    BY <2>2, <2>3, <2>4 DEF TypeOK
<1>3. ASSUME Observe(b, now, final) PROVE TypeOK'
  <2>1. Sampled(now, final) /\ UNCHANGED <<stored, remembered>>
    BY <1>3 DEF Observe
  <2>2. clock' \in Nat
    BY <2>1, SampledClock DEF TypeOK
  <2>3. QED
    BY <2>1, <2>2 DEF TypeOK, stored, remembered
<1>4. ASSUME NEW c \in Cases, NEW r \in RequestIds, Prepare(b, c, r, now, final)
      PROVE  TypeOK'
  <2> DEFINE a == CaseAccount[c]
             intent == [case |-> c,
                        account |-> [sequence |-> account[a].sequence, head |-> account[a].head],
                        caseHead |-> case[c]]
  <2>1. Sampled(now, final) /\ prepared' = [prepared EXCEPT ![Key(c, r)] = intent]
    BY <1>4 DEF Prepare
  <2>2. a \in Accounts
    BY RegistryAssumption
  <2>3. intent \in Intent
    BY <2>2 DEF TypeOK, Intent, CasHead
  <2>4. clock' \in Nat /\ prepared' \in [Keys -> Intent \cup {NoIntent}]
    BY <2>1, <2>3, SampledClock DEF TypeOK
  <2>5. UNCHANGED <<stored, observed, session>>
    BY <1>4 DEF Prepare
  <2>6. QED
    BY <2>4, <2>5 DEF TypeOK, stored
<1>5. QED
  BY <1>1, <1>2, <1>3, <1>4

LEMMA NextType == TypeOK /\ [Next]_vars => TypeOK'
<1> SUFFICES ASSUME TypeOK, [Next]_vars PROVE TypeOK'
  OBVIOUS
<1>1. CASE UNCHANGED vars
  BY <1>1 DEF TypeOK, vars, stored, remembered
<1>2. CASE Next
  <2>1. PICK now \in Times, final \in Times :
          \/ Migrate(now, final)
          \/ \E b \in Brokers :
               \/ Inspect(b, now, final)
               \/ ActivateBroker(b, now, final)
               \/ Observe(b, now, final)
               \/ \E c \in Cases, r \in RequestIds : Prepare(b, c, r, now, final)
               \/ \E k \in Keys : Commit(b, k, now, final)
               \/ \E o \in Workers, c \in Cases, seconds \in LeaseSeconds :
                    ClaimOutbox(b, o, c, seconds, now, final)
               \/ \E o \in Workers, lease \in leases : Acknowledge(b, o, lease, now, final)
    BY <1>2 DEF Next
  <2>2. QED
    BY <2>1, MigrateType, ServiceType, CommitType, ClaimType, AcknowledgeType
<1>3. QED
  BY <1>1, <1>2

(* The tables keep their shapes and the bounds on attempts and on the      *)
(* history hold, for every configuration (store.py, _apply and _validate). *)
THEOREM TypeCorrect == Spec => []TypeOK
<1>1. Init => TypeOK
  BY InitType
<1>2. TypeOK /\ [Next]_vars => TypeOK'
  BY NextType
<1>3. QED
  BY <1>1, <1>2, PTL DEF Spec

-----------------------------------------------------------------------------
(* Charges and chains.  Only a commit touches receipts and heads, so both  *)
(* invariants are argued once, about Commit.                               *)
ChargeInv ==
  /\ ChargesMatchReceipts
  /\ \A a \in Accounts : account[a].sequence = account[a].total

LEMMA OnlyCommitCharges ==
  ASSUME [Next]_vars
  PROVE  \/ \E b \in Brokers, k \in Keys, now, final \in Times : Commit(b, k, now, final)
         \/ UNCHANGED <<receipts, account, case>>
<1>1. CASE UNCHANGED vars
  BY <1>1 DEF vars, stored
<1>2. CASE Next
  <2>1. PICK now \in Times, final \in Times :
          \/ Migrate(now, final)
          \/ \E b \in Brokers :
               \/ Inspect(b, now, final)
               \/ ActivateBroker(b, now, final)
               \/ Observe(b, now, final)
               \/ \E c \in Cases, r \in RequestIds : Prepare(b, c, r, now, final)
               \/ \E k \in Keys : Commit(b, k, now, final)
               \/ \E o \in Workers, c \in Cases, seconds \in LeaseSeconds :
                    ClaimOutbox(b, o, c, seconds, now, final)
               \/ \E o \in Workers, lease \in leases : Acknowledge(b, o, lease, now, final)
    BY <1>2 DEF Next
  <2>2. Migrate(now, final) => UNCHANGED <<receipts, account, case>>
    BY DEF Migrate
  <2>3. ASSUME NEW b \in Brokers
        PROVE  /\ Inspect(b, now, final) => UNCHANGED <<receipts, account, case>>
               /\ ActivateBroker(b, now, final) => UNCHANGED <<receipts, account, case>>
               /\ Observe(b, now, final) => UNCHANGED <<receipts, account, case>>
               /\ \A c \in Cases, r \in RequestIds :
                    Prepare(b, c, r, now, final) => UNCHANGED <<receipts, account, case>>
    BY DEF Inspect, ActivateBroker, Observe, Prepare, stored
  <2>4. ASSUME NEW b \in Brokers, NEW o \in Workers
        PROVE  /\ \A c \in Cases, seconds \in LeaseSeconds :
                    ClaimOutbox(b, o, c, seconds, now, final) => UNCHANGED <<receipts, account, case>>
               /\ \A lease \in leases :
                    Acknowledge(b, o, lease, now, final) => UNCHANGED <<receipts, account, case>>
    BY DEF ClaimOutbox, Acknowledge
  <2>5. QED
    BY <2>1, <2>2, <2>3, <2>4
<1>3. QED
  BY <1>1, <1>2

(* What a commit does to the events, and which event it adds to which      *)
(* account and case.                                                       *)
LEMMA CommitEffect ==
  ASSUME TypeOK, NEW b \in Brokers, NEW k \in Keys, NEW now \in Times, NEW final \in Times,
         Commit(b, k, now, final),
         NEW c, c = prepared[k].case, NEW n, n = Len(receipts) + 1
  PROVE  /\ n \in Nat \ {0} /\ Events = 1..(n - 1) /\ Events' = 1..n /\ n \notin Events
         /\ c \in Cases /\ CaseAccount[c] \in Accounts
         /\ \A i \in Events : receipts'[i] = receipts[i]
         /\ receipts'[n] = NewReceipt(k, b, now)
         /\ \A a \in Accounts :
              OfAccount(a)' = IF a = CaseAccount[c] THEN OfAccount(a) \cup {n} ELSE OfAccount(a)
         /\ \A d \in Cases :
              OfCase(d)' = IF d = c THEN OfCase(d) \cup {n} ELSE OfCase(d)
<1>1. Shapes
  BY DEF TypeOK, Shapes, DeliveryRow
<1>2. prepared[k] \in Intent /\ c \in Cases /\ NewReceipt(k, b, now) \in Receipt
  BY <1>1, NewReceiptType DEF Commit
<1>3. CaseAccount[c] \in Accounts
  BY <1>2, RegistryAssumption
<1>4. receipts' = Append(receipts, NewReceipt(k, b, now)) /\ receipts \in Seq(Receipt)
  BY DEF Commit, TypeOK
<1>5. /\ Len(receipts') = n /\ n \in Nat \ {0} /\ Len(receipts) = n - 1
      /\ \A i \in 1..Len(receipts) : receipts'[i] = receipts[i]
      /\ receipts'[n] = NewReceipt(k, b, now)
  BY <1>2, <1>4, AppendType
<1>6. Events = 1..(n - 1) /\ Events' = 1..n /\ n \notin Events
  BY <1>5 DEF Events
<1>7. NewReceipt(k, b, now).case = c
  BY DEF NewReceipt
<1>8. \A i \in Events' : i \in Events \/ i = n
  BY <1>5, <1>6
<1>9. n \in Events' /\ \A i \in Events : i \in Events'
  BY <1>5, <1>6
<1>10. \A i \in Events : receipts'[i] = receipts[i]
  BY <1>5 DEF Events
<1>11. \A d \in Cases : OfCase(d)' = IF d = c THEN OfCase(d) \cup {n} ELSE OfCase(d)
  <2> SUFFICES ASSUME NEW d \in Cases
               PROVE  OfCase(d)' = IF d = c THEN OfCase(d) \cup {n} ELSE OfCase(d)
    OBVIOUS
  <2>1. OfCase(d)' = {i \in Events' : receipts'[i].case = d}
    BY DEF OfCase
  <2>2. QED
    BY <2>1, <1>5, <1>7, <1>8, <1>9, <1>10 DEF OfCase
<1>12. \A a \in Accounts :
         OfAccount(a)' = IF a = CaseAccount[c] THEN OfAccount(a) \cup {n} ELSE OfAccount(a)
  <2> SUFFICES ASSUME NEW a \in Accounts
               PROVE  OfAccount(a)' = IF a = CaseAccount[c] THEN OfAccount(a) \cup {n}
                                                            ELSE OfAccount(a)
    OBVIOUS
  <2>1. OfAccount(a)' = {i \in Events' : CaseAccount[receipts'[i].case] = a}
    BY DEF OfAccount, AccountOf
  <2>2. OfAccount(a) = {i \in Events : CaseAccount[receipts[i].case] = a}
    BY DEF OfAccount, AccountOf
  <2>3. \A i \in Events : CaseAccount[receipts'[i].case] = CaseAccount[receipts[i].case]
    BY <1>10
  <2>4. CaseAccount[receipts'[n].case] = CaseAccount[c]
    BY <1>5, <1>7
  <2>5. CASE a = CaseAccount[c]
    BY <2>1, <2>2, <2>3, <2>4, <2>5, <1>8, <1>9
  <2>6. CASE a # CaseAccount[c]
    BY <2>1, <2>2, <2>3, <2>4, <2>6, <1>8, <1>9
  <2>7. QED
    BY <2>5, <2>6
<1>13. QED
  BY <1>2, <1>3, <1>5, <1>6, <1>10, <1>11, <1>12

LEMMA ChargeStep ==
  ASSUME TypeOK, ChargeInv, NEW b \in Brokers, NEW k \in Keys,
         NEW now \in Times, NEW final \in Times, Commit(b, k, now, final)
  PROVE  ChargeInv'
<1> DEFINE c == prepared[k].case
           a == CaseAccount[c]
           n == Len(receipts) + 1
<1>1. /\ n \in Nat \ {0} /\ Events = 1..(n - 1) /\ Events' = 1..n /\ n \notin Events
      /\ c \in Cases /\ a \in Accounts
      /\ \A i \in Events : receipts'[i] = receipts[i]
      /\ receipts'[n] = NewReceipt(k, b, now)
      /\ \A d \in Accounts : OfAccount(d)' = IF d = a THEN OfAccount(d) \cup {n} ELSE OfAccount(d)
  BY CommitEffect
<1> HIDE DEF n
<1>2. /\ HeadsMatch(prepared[k], a, c) /\ CapacityLeft(a) /\ ~Committed(k)
      /\ account' = [account EXCEPT ![a] = [sequence |-> prepared[k].account.sequence + 1,
                      head |-> n, total |-> prepared[k].account.sequence + 1]]
  BY DEF Commit, n
<1>3. /\ account'[a].sequence = account[a].total + 1 /\ account'[a].total = account[a].total + 1
      /\ \A d \in Accounts : d # a => account'[d] = account[d]
  BY <1>1, <1>2 DEF HeadsMatch, ChargeInv, TypeOK
<1>4. \A d \in Accounts : account'[d].sequence = account'[d].total
  BY <1>3 DEF ChargeInv
<1>5. \A d \in Accounts : account'[d].total = Cardinality(OfAccount(d)')
  <2>1. IsFiniteSet(OfAccount(a)) /\ n \notin OfAccount(a)
    <3>1. IsFiniteSet(Events)
      BY <1>1, FS_Interval
    <3>2. QED
      BY <1>1, <3>1, FS_Subset DEF OfAccount
  <2>2. Cardinality(OfAccount(a) \cup {n}) = Cardinality(OfAccount(a)) + 1
    BY <2>1, FS_AddElement
  <2>3. ASSUME NEW d \in Accounts PROVE account'[d].total = Cardinality(OfAccount(d)')
    <3>1. account[d].total = Cardinality(OfAccount(d))
      BY DEF ChargeInv, ChargesMatchReceipts
    <3>2. CASE d = a
      <4>1. OfAccount(d)' = OfAccount(a) \cup {n}
        BY <1>1, <3>2
      <4>2. QED
        BY <1>3, <2>2, <3>1, <3>2, <4>1
    <3>3. CASE d # a
      <4>1. OfAccount(d)' = OfAccount(d)
        BY <1>1, <3>3
      <4>2. QED
        BY <1>3, <3>1, <3>3, <4>1
    <3>4. QED
      BY <3>2, <3>3
  <2>4. QED
    BY <2>3
<1>6. \A d \in Accounts : account'[d].total <= Capacity
  BY <1>1, <1>2, <1>3, RegistryAssumption DEF ChargeInv, ChargesMatchReceipts, CapacityLeft, TypeOK
<1>7. \A i, j \in Events' : receipts'[i].key = receipts'[j].key => i = j
  <2>1. receipts'[n].key = k
    BY <1>1 DEF NewReceipt
  <2>2. \A i \in Events : receipts'[i].key # k
    BY <1>1, <1>2 DEF Committed
  <2>3. \A i \in Events' : i \in Events \/ i = n
    BY <1>1
  <2>4. QED
    BY <1>1, <2>1, <2>2, <2>3 DEF ChargeInv, ChargesMatchReceipts
<1>8. QED
  BY <1>4, <1>5, <1>6, <1>7 DEF ChargeInv, ChargesMatchReceipts

LEMMA ChargeInit == Init => ChargeInv
<1> SUFFICES ASSUME Init PROVE ChargeInv
  OBVIOUS
<1>1. Events = {} /\ \A a \in Accounts : OfAccount(a) = {}
  BY DEF Init, Events, OfAccount
<1>2. Cardinality({}) = 0
  BY FS_EmptySet
<1>3. \A a \in Accounts : account[a].total = 0 /\ account[a].sequence = 0
  BY DEF Init
<1>4. \A a \in Accounts : account[a].total = Cardinality(OfAccount(a))
  <2> SUFFICES ASSUME NEW a \in Accounts PROVE account[a].total = Cardinality(OfAccount(a))
    OBVIOUS
  <2>1. OfAccount(a) = {} /\ account[a].total = 0
    BY <1>1, <1>3
  <2>2. QED
    BY <1>2, <2>1
<1>5. \A a \in Accounts : account[a].total <= Capacity /\ account[a].sequence = account[a].total
  BY <1>3, RegistryAssumption
<1>6. QED
  BY <1>1, <1>4, <1>5 DEF ChargeInv, ChargesMatchReceipts

LEMMA ChargeKept == TypeOK /\ ChargeInv /\ [Next]_vars => ChargeInv'
<1> SUFFICES ASSUME TypeOK, ChargeInv, [Next]_vars PROVE ChargeInv'
  OBVIOUS
<1>1. CASE UNCHANGED <<receipts, account, case>>
  BY <1>1 DEF ChargeInv, ChargesMatchReceipts, OfAccount, AccountOf, Events
<1>2. QED
  BY <1>1, OnlyCommitCharges, ChargeStep

LEMMA ChargesInvariant == Spec => [](TypeOK /\ ChargeInv)
BY ChargeInit, ChargeKept, TypeCorrect, PTL DEF Spec

(* Every account's charge is the number of its receipts, never more than   *)
(* the capacity, and no request identity is ever charged twice.            *)
THEOREM ChargesCorrect == Spec => []ChargesMatchReceipts
<1>1. TypeOK /\ ChargeInv => ChargesMatchReceipts
  BY DEF ChargeInv
<1>2. QED
  BY <1>1, ChargesInvariant, PTL

LEMMA ChainStep ==
  ASSUME TypeOK, LinearChains, NEW b \in Brokers, NEW k \in Keys,
         NEW now \in Times, NEW final \in Times, Commit(b, k, now, final)
  PROVE  LinearChains'
<1>0. PICK c \in Cases, a \in Accounts, n \in Nat :
        c = prepared[k].case /\ a = CaseAccount[c] /\ n = Len(receipts) + 1
  <2>1. Shapes /\ Len(receipts) \in Nat
    BY DEF TypeOK, Shapes, DeliveryRow
  <2>2. prepared[k].case \in Cases
    BY <2>1, NewReceiptType DEF Commit
  <2>3. QED
    BY <2>1, <2>2, RegistryAssumption
<1>1. /\ n \in Nat \ {0} /\ Events = 1..(n - 1) /\ Events' = 1..n /\ n \notin Events
      /\ c \in Cases /\ a \in Accounts
      /\ \A i \in Events : receipts'[i] = receipts[i]
      /\ receipts'[n] = NewReceipt(k, b, now)
      /\ \A d \in Accounts : OfAccount(d)' = IF d = a THEN OfAccount(d) \cup {n} ELSE OfAccount(d)
      /\ \A d \in Cases : OfCase(d)' = IF d = c THEN OfCase(d) \cup {n} ELSE OfCase(d)
  BY <1>0, CommitEffect
<1>2. /\ HeadsMatch(prepared[k], a, c)
      /\ account' = [account EXCEPT ![a] = [sequence |-> prepared[k].account.sequence + 1,
                      head |-> n, total |-> prepared[k].account.sequence + 1]]
      /\ case' = [case EXCEPT ![c] = [sequence |-> prepared[k].caseHead.sequence + 1, head |-> n]]
  BY <1>0 DEF Commit
<1>3. /\ \A d \in Accounts : account'[d].head = IF d = a THEN n ELSE account[d].head
      /\ \A d \in Cases : case'[d].head = IF d = c THEN n ELSE case[d].head
  BY <1>1, <1>2 DEF TypeOK
<1>4. \A d : OfAccount(d) \subseteq Events /\ OfCase(d) \subseteq Events
  BY DEF OfAccount, OfCase
<1>5. \A i \in Events : i \in Nat /\ i < n
  BY <1>1
<1>6. \A d \in Accounts : IsLatest(account'[d].head, OfAccount(d)')
  BY <1>1, <1>3, <1>4, <1>5 DEF LinearChains, IsLatest
<1>7. \A d \in Cases : IsLatest(case'[d].head, OfCase(d)')
  BY <1>1, <1>3, <1>4, <1>5 DEF LinearChains, IsLatest
<1>8. ASSUME NEW i \in Events, NEW d \in Accounts, NEW e \in Cases,
             e = receipts'[i].case, d = CaseAccount[e]
      PROVE  /\ IsLatest(receipts'[i].previousAccount, Below(OfAccount(d)', i))
             /\ IsLatest(receipts'[i].previousCase, Below(OfCase(e)', i))
  <2>1. receipts'[i] = receipts[i] /\ AccountOf(i) = d
    BY <1>1, <1>8 DEF AccountOf
  <2>2. Below(OfAccount(d)', i) = Below(OfAccount(d), i)
    BY <1>1, <1>5 DEF Below
  <2>3. Below(OfCase(e)', i) = Below(OfCase(e), i)
    BY <1>1, <1>5 DEF Below
  <2>4. QED
    BY <1>8, <2>1, <2>2, <2>3 DEF LinearChains
<1>9. /\ IsLatest(receipts'[n].previousAccount, Below(OfAccount(a)', n))
      /\ IsLatest(receipts'[n].previousCase, Below(OfCase(c)', n))
      /\ receipts'[n].case = c
  <2>1. /\ receipts'[n].case = c
        /\ receipts'[n].previousAccount = account[a].head
        /\ receipts'[n].previousCase = case[c].head
    BY <1>0, <1>1, <1>2 DEF NewReceipt, HeadsMatch
  <2>2. OfAccount(a)' = OfAccount(a) \cup {n} /\ OfCase(c)' = OfCase(c) \cup {n}
    BY <1>1
  <2>3. Below(OfAccount(a)', n) = OfAccount(a) /\ Below(OfCase(c)', n) = OfCase(c)
    BY <1>1, <1>4, <1>5, <2>2 DEF Below
  <2>4. QED
    BY <1>1, <2>1, <2>3 DEF LinearChains
<1>10. ASSUME NEW i \in Events'
       PROVE  /\ IsLatest(receipts'[i].previousAccount, Below(OfAccount(AccountOf(i)), i)')
              /\ IsLatest(receipts'[i].previousCase, Below(OfCase(receipts[i].case), i)')
  <2> DEFINE e == receipts'[i].case
  <2>1. i \in Events \/ i = n
    BY <1>1
  <2>2. e \in Cases /\ CaseAccount[e] \in Accounts
    <3>1. CASE i \in Events
      <4>1. receipts'[i] = receipts[i] /\ receipts[i] \in Receipt
        BY <1>1, <3>1 DEF TypeOK, Events
      <4>2. QED
        BY <4>1, RegistryAssumption DEF Receipt
    <3>2. CASE i = n
      BY <1>0, <1>9, <3>2
    <3>3. QED
      BY <2>1, <3>1, <3>2
  <2>3. PICK f \in Cases, d \in Accounts : f = e /\ d = CaseAccount[e]
    BY <2>2
  <2>4. /\ IsLatest(receipts'[i].previousAccount, Below(OfAccount(d)', i))
        /\ IsLatest(receipts'[i].previousCase, Below(OfCase(f)', i))
    <3>1. CASE i \in Events
      BY <1>8, <2>3, <3>1
    <3>2. CASE i = n
      <4>1. f = c /\ d = a
        BY <1>0, <1>9, <2>3, <3>2
      <4>2. QED
        BY <1>9, <3>2, <4>1
    <3>3. QED
      BY <2>1, <3>1, <3>2
  <2>5. OfAccount(AccountOf(i))' = OfAccount(d)' /\ OfCase(receipts[i].case)' = OfCase(f)'
    BY <2>3 DEF OfAccount, OfCase, AccountOf
  <2>6. QED
    BY <2>4, <2>5 DEF Below
<1>11. QED
  BY <1>6, <1>7, <1>10 DEF LinearChains, IsLatest

(* The receipts of each account, and of each case, form one chain that     *)
(* starts at genesis and ends at the current head: no fork, no lost link.  *)
THEOREM ChainsCorrect == Spec => []LinearChains
<1>1. Init => LinearChains
  BY DEF Init, LinearChains, IsLatest, OfAccount, OfCase, Events, EmptyHead
<1>2. TypeOK /\ LinearChains /\ [Next]_vars => LinearChains'
  <2> SUFFICES ASSUME TypeOK, LinearChains, [Next]_vars PROVE LinearChains'
    OBVIOUS
  <2>1. CASE UNCHANGED <<receipts, account, case>>
    BY <2>1 DEF LinearChains, IsLatest, Below, OfAccount, OfCase, AccountOf, Events
  <2>2. QED
    BY <2>1, OnlyCommitCharges, ChainStep
<1>3. QED
  BY <1>1, <1>2, TypeCorrect, PTL DEF Spec

-----------------------------------------------------------------------------
(* The order of things: who led when, what happened in time, and what is   *)
(* permanent.                                                              *)

(* A step that leaves all tables alone and only lets time pass.            *)
Quiet ==
  /\ clock <= clock'
  /\ UNCHANGED <<version, epoch, broker, brokers, account, case, receipts, deliveries,
                 leases, session>>

(* Every step is quiet or one of the five that write an event.             *)
LEMMA StepCases ==
  ASSUME TypeOK, [Next]_vars
  PROVE  \/ Quiet
         \/ \E now, final \in Times : Migrate(now, final)
         \/ \E b \in Brokers, now, final \in Times : ActivateBroker(b, now, final)
         \/ \E b \in Brokers, k \in Keys, now, final \in Times : Commit(b, k, now, final)
         \/ \E b \in Brokers, o \in Workers, c \in Cases, seconds \in LeaseSeconds,
               now, final \in Times : ClaimOutbox(b, o, c, seconds, now, final)
         \/ \E b \in Brokers, o \in Workers, lease \in leases, now, final \in Times :
              Acknowledge(b, o, lease, now, final)
<1>0. clock \in Nat
  BY DEF TypeOK
<1>1. CASE UNCHANGED vars
  BY <1>0, <1>1 DEF vars, stored, remembered, Quiet
<1>2. CASE Next
  <2>1. PICK now \in Times, final \in Times :
          \/ Migrate(now, final)
          \/ \E b \in Brokers :
               \/ Inspect(b, now, final)
               \/ ActivateBroker(b, now, final)
               \/ Observe(b, now, final)
               \/ \E c \in Cases, r \in RequestIds : Prepare(b, c, r, now, final)
               \/ \E k \in Keys : Commit(b, k, now, final)
               \/ \E o \in Workers, c \in Cases, seconds \in LeaseSeconds :
                    ClaimOutbox(b, o, c, seconds, now, final)
               \/ \E o \in Workers, lease \in leases : Acknowledge(b, o, lease, now, final)
    BY <1>2 DEF Next
  <2>2. Sampled(now, final) => clock <= clock'
    BY <1>0, SampledClock
  <2>3. ASSUME NEW b \in Brokers
        PROVE  /\ Inspect(b, now, final) => Quiet
               /\ Observe(b, now, final) => Quiet
               /\ \A c \in Cases, r \in RequestIds : Prepare(b, c, r, now, final) => Quiet
    <3>1. Inspect(b, now, final) => Quiet
      BY <2>2 DEF Inspect, Quiet, stored
    <3>2. Observe(b, now, final) => Quiet
      BY <2>2 DEF Observe, Quiet, stored, remembered
    <3>3. \A c \in Cases, r \in RequestIds : Prepare(b, c, r, now, final) => Quiet
      BY <2>2 DEF Prepare, Quiet, stored
    <3>4. QED
      BY <3>1, <3>2, <3>3
  <2>4. QED
    BY <2>1, <2>3
<1>3. QED
  BY <1>1, <1>2

(* Time never goes back.                                                   *)
LEMMA ClockGrows ==
  ASSUME TypeOK, [Next]_vars
  PROVE  clock \in Nat /\ clock' \in Nat /\ clock <= clock'
<1>1. TypeOK'
  BY NextType
<1>2. clock \in Nat /\ clock' \in Nat
  BY <1>1 DEF TypeOK
<1>3. \A now, final \in Times : Sampled(now, final) => clock <= clock'
  BY <1>2, SampledClock
<1>4. /\ \A now, final \in Times : Migrate(now, final) => Sampled(now, final)
      /\ \A b \in Brokers, now, final \in Times :
           ActivateBroker(b, now, final) => Sampled(now, final)
      /\ \A b \in Brokers, k \in Keys, now, final \in Times :
           Commit(b, k, now, final) => Sampled(now, final)
      /\ \A b \in Brokers, o \in Workers, c \in Cases, seconds \in LeaseSeconds,
            now, final \in Times :
           ClaimOutbox(b, o, c, seconds, now, final) => Sampled(now, final)
      /\ \A b \in Brokers, o \in Workers, lease \in leases, now, final \in Times :
           Acknowledge(b, o, lease, now, final) => Sampled(now, final)
  BY DEF Migrate, ActivateBroker, Commit, ClaimOutbox, Acknowledge
<1>5. Quiet => clock <= clock'
  BY DEF Quiet
<1>6. QED
  BY <1>2, <1>3, <1>4, <1>5, StepCases

-----------------------------------------------------------------------------
(* Leadership.  The session of a service is fixed by its only activation,  *)
(* and its number is above those of all earlier services.                  *)
LeaderInv ==
  /\ broker # NoBroker => broker \in brokers
  /\ \A b \in brokers : session[b] <= epoch
  /\ \A b, c \in brokers : session[b] = session[c] => b = c
  /\ \A i \in Events : /\ receipts[i].broker \in brokers
                       /\ receipts[i].epoch = session[receipts[i].broker]
  /\ \A l \in leases : /\ l.broker \in brokers /\ l.epoch = session[l.broker]
                       /\ l.claimedAt <= clock
  /\ SingleLeader

LEMMA LeaderInit == Init => LeaderInv
BY DEF Init, LeaderInv, SingleLeader, Events

(* A service that passes the broker check leads.                           *)
LEMMA ServedLeads ==
  ASSUME TypeOK, LeaderInv, NEW b \in Brokers, RequireBroker(b)
  PROVE  b \in brokers /\ session[b] = epoch
BY RegistryAssumption DEF LeaderInv, RequireBroker

LEMMA LeaderActivate ==
  ASSUME TypeOK, LeaderInv, clock <= clock', clock' \in Nat,
         NEW b \in Brokers, NEW now \in Times, NEW final \in Times, ActivateBroker(b, now, final)
  PROVE  LeaderInv'
<1>1. /\ b \notin brokers /\ brokers' = brokers \cup {b} /\ broker' = b /\ epoch' = epoch + 1
      /\ session' = [session EXCEPT ![b] = epoch + 1]
      /\ UNCHANGED <<receipts, leases>>
  BY DEF ActivateBroker
<1>2. /\ session'[b] = epoch + 1 /\ \A d \in brokers : session'[d] = session[d]
      /\ epoch \in Nat /\ \A d \in Brokers : session[d] \in Nat
      /\ brokers \subseteq Brokers /\ clock \in Nat
  BY <1>1 DEF TypeOK
<1>3. \A d \in brokers : session[d] <= epoch
  BY DEF LeaderInv
<1>4. \A d \in brokers' : session'[d] <= epoch'
  BY <1>1, <1>2, <1>3
<1>5. \A d, e \in brokers' : session'[d] = session'[e] => d = e
  BY <1>1, <1>2, <1>3 DEF LeaderInv
<1>6. Events' = Events
  BY <1>1 DEF Events
<1>7. \A i \in Events : receipts[i].broker \in brokers /\ receipts[i].epoch = session[receipts[i].broker]
  BY DEF LeaderInv
<1>8. \A i \in Events' : /\ receipts'[i].broker \in brokers'
                         /\ receipts'[i].epoch = session'[receipts'[i].broker]
  BY <1>1, <1>2, <1>6, <1>7
<1>9. \A l \in leases' : /\ l.broker \in brokers' /\ l.epoch = session'[l.broker]
                         /\ l.claimedAt <= clock'
  BY <1>1, <1>2 DEF LeaderInv, TypeOK, Lease
<1>10. SingleLeader'
  BY <1>1, <1>6 DEF LeaderInv, SingleLeader
<1>11. QED
  BY <1>1, <1>4, <1>5, <1>8, <1>9, <1>10 DEF LeaderInv

LEMMA LeaderCommit ==
  ASSUME TypeOK, LeaderInv, clock <= clock', clock' \in Nat,
         NEW b \in Brokers, NEW k \in Keys, NEW now \in Times, NEW final \in Times,
         Commit(b, k, now, final)
  PROVE  LeaderInv'
<1>0. PICK c, n : c = prepared[k].case /\ n = Len(receipts) + 1
  OBVIOUS
<1>1. /\ n \in Nat \ {0} /\ Events = 1..(n - 1) /\ Events' = 1..n /\ n \notin Events
      /\ \A i \in Events : receipts'[i] = receipts[i]
      /\ receipts'[n] = NewReceipt(k, b, now)
  BY <1>0, CommitEffect
<1>2. b \in brokers /\ session[b] = epoch
  BY ServedLeads DEF Commit
<1>3. receipts'[n].broker = b /\ receipts'[n].epoch = session[b]
  BY <1>1 DEF NewReceipt
<1>4. UNCHANGED <<epoch, broker, brokers, leases, session>>
  BY DEF Commit, remembered
<1>5. \A i \in Events : /\ receipts[i].broker \in brokers
                        /\ receipts[i].epoch = session[receipts[i].broker]
                        /\ session[receipts[i].broker] <= epoch
  BY DEF LeaderInv
<1>6. \A i \in Events' : i \in Events \/ i = n
  BY <1>1
<1>7. \A i \in Events' : /\ receipts'[i].broker \in brokers'
                         /\ receipts'[i].epoch = session'[receipts'[i].broker]
  BY <1>1, <1>2, <1>3, <1>4, <1>5, <1>6
<1>8. \A i, j \in Events' : i < j =>
        /\ receipts'[i].epoch <= receipts'[j].epoch
        /\ receipts'[i].epoch = receipts'[j].epoch => receipts'[i].broker = receipts'[j].broker
  <2> SUFFICES ASSUME NEW i \in Events', NEW j \in Events', i < j
               PROVE  /\ receipts'[i].epoch <= receipts'[j].epoch
                      /\ receipts'[i].epoch = receipts'[j].epoch =>
                           receipts'[i].broker = receipts'[j].broker
    OBVIOUS
  <2>1. i \in Events
    BY <1>1
  <2>2. CASE j \in Events
    BY <1>1, <2>1, <2>2 DEF LeaderInv, SingleLeader
  <2>3. CASE j = n
    BY <1>1, <1>2, <1>3, <1>5, <2>1, <2>3 DEF LeaderInv
  <2>4. QED
    BY <1>6, <2>2, <2>3
<1>9. \A l \in leases : l.claimedAt \in Nat
  BY DEF TypeOK, Lease
<1>10. clock \in Nat
  BY DEF TypeOK
<1>11. SingleLeader'
  BY <1>4, <1>8 DEF LeaderInv, SingleLeader
<1>12. QED
  BY <1>4, <1>7, <1>9, <1>10, <1>11 DEF LeaderInv

LEMMA LeaderClaim ==
  ASSUME TypeOK, LeaderInv, clock <= clock', clock' \in Nat,
         NEW b \in Brokers, NEW o \in Workers, NEW c \in Cases, NEW seconds \in LeaseSeconds,
         NEW now \in Times, NEW final \in Times, ClaimOutbox(b, o, c, seconds, now, final)
  PROVE  LeaderInv'
<1>1. PICK i \in Available(c, now) : leases' = leases \cup {NewLease(i, b, o, seconds, now)}
  BY DEF ClaimOutbox
<1> DEFINE new == NewLease(i, b, o, seconds, now)
<1>2. /\ new.broker = b /\ new.epoch = session[b] /\ new.claimedAt = now
  BY DEF NewLease
<1>3. b \in brokers /\ session[b] = epoch
  BY ServedLeads DEF ClaimOutbox
<1>4. clock \in Nat /\ now \in Nat /\ clock <= now /\ now <= clock'
  BY SampledClock DEF TypeOK, ClaimOutbox
<1>5. UNCHANGED <<epoch, broker, brokers, receipts, session>>
  BY DEF ClaimOutbox, remembered
<1>6. Events' = Events
  BY <1>5 DEF Events
<1>7. \A l \in leases : /\ l.broker \in brokers /\ l.epoch = session[l.broker]
                        /\ session[l.broker] <= epoch
                        /\ l.claimedAt <= clock /\ l.claimedAt \in Nat
  BY DEF LeaderInv, TypeOK, Lease
<1> HIDE DEF new
<1>8. \A l \in leases' : l \in leases \/ l = new
  BY <1>1 DEF new
<1>9. \A l \in leases' : /\ l.broker \in brokers' /\ l.epoch = session'[l.broker]
                         /\ l.claimedAt <= clock'
  BY <1>2, <1>3, <1>4, <1>5, <1>7, <1>8
<1>10. \A l, m \in leases' :
         /\ l.epoch = m.epoch => l.broker = m.broker
         /\ l.epoch < m.epoch => l.claimedAt <= m.claimedAt
  <2> SUFFICES ASSUME NEW l \in leases', NEW m \in leases'
               PROVE  /\ l.epoch = m.epoch => l.broker = m.broker
                      /\ l.epoch < m.epoch => l.claimedAt <= m.claimedAt
    OBVIOUS
  <2>1. epoch \in Nat /\ \A d \in brokers : session[d] \in Nat
    BY DEF TypeOK
  <2>2. l.epoch = m.epoch => l.broker = m.broker
    BY <1>2, <1>3, <1>7, <1>8 DEF LeaderInv
  <2>3. CASE l \in leases /\ m \in leases
    BY <2>2, <2>3 DEF LeaderInv, SingleLeader
  <2>4. CASE l \in leases /\ m = new
    BY <1>2, <1>4, <1>7, <2>2, <2>4
  <2>5. CASE l = new
    BY <1>2, <1>3, <1>7, <1>8, <2>1, <2>2, <2>5
  <2>6. QED
    BY <1>8, <2>3, <2>4, <2>5
<1>11. SingleLeader'
  BY <1>5, <1>6, <1>10 DEF LeaderInv, SingleLeader
<1>12. QED
  BY <1>5, <1>6, <1>9, <1>11 DEF LeaderInv

LEMMA LeaderStep == TypeOK /\ LeaderInv /\ [Next]_vars => LeaderInv'
<1> SUFFICES ASSUME TypeOK, LeaderInv, [Next]_vars PROVE LeaderInv'
  OBVIOUS
<1>1. clock \in Nat /\ clock' \in Nat /\ clock <= clock'
  BY ClockGrows
<1>2. \A l \in leases : l.claimedAt \in Nat
  BY DEF TypeOK, Lease
<1>3. \A b \in brokers : session[b] \in Nat
  BY DEF TypeOK
<1>4. ASSUME UNCHANGED <<brokers, session, receipts, leases>>,
             epoch <= epoch', epoch' \in Nat, epoch \in Nat,
             broker' \in {broker, NoBroker}
      PROVE  LeaderInv'
  <2>1. Events' = Events
    BY <1>4 DEF Events
  <2>2. SingleLeader'
    BY <1>4, <2>1 DEF LeaderInv, SingleLeader
  <2>3. QED
    BY <1>1, <1>2, <1>3, <1>4, <2>1, <2>2 DEF LeaderInv
<1>5. CASE Quiet
  <2>1. UNCHANGED <<brokers, session, receipts, leases, epoch, broker>> /\ epoch \in Nat
    BY <1>5 DEF Quiet, TypeOK
  <2>2. QED
    BY <1>4, <2>1
<1>6. ASSUME NEW now \in Times, NEW final \in Times, Migrate(now, final) PROVE LeaderInv'
  <2>1. UNCHANGED <<brokers, session, receipts, leases>> /\ epoch' = epoch + 1 /\ epoch \in Nat
        /\ broker' = NoBroker
    BY <1>6 DEF Migrate, remembered, TypeOK
  <2>2. QED
    BY <1>4, <2>1
<1>7. ASSUME NEW b \in Brokers, NEW o \in Workers, NEW lease \in leases, NEW now \in Times,
             NEW final \in Times, Acknowledge(b, o, lease, now, final)
      PROVE  LeaderInv'
  <2>1. UNCHANGED <<brokers, session, receipts, leases, epoch, broker>> /\ epoch \in Nat
    BY <1>7 DEF Acknowledge, remembered, TypeOK
  <2>2. QED
    BY <1>4, <2>1
<1>8. QED
  BY <1>1, <1>5, <1>6, <1>7, StepCases, LeaderActivate, LeaderCommit, LeaderClaim

(* At most one service leads an epoch, and what it did stays in the order  *)
(* of the epochs: a replaced service never commits or claims again.        *)
THEOREM LeadersCorrect == Spec => []SingleLeader
<1>1. Init => LeaderInv
  BY LeaderInit
<1>2. TypeOK /\ LeaderInv /\ [Next]_vars => LeaderInv'
  BY LeaderStep
<1>3. LeaderInv => SingleLeader
  BY DEF LeaderInv
<1>4. QED
  BY <1>1, <1>2, <1>3, TypeCorrect, PTL DEF Spec
-----------------------------------------------------------------------------
(* Times.  No receipt is later than the clock.                             *)
TimesInv == \A i \in Events : receipts[i].committedAt <= clock

LEMMA TimesStep ==
  ASSUME TypeOK, TimesInv, [Next]_vars
  PROVE  TimesInv'
<1>1. clock \in Nat /\ clock' \in Nat /\ clock <= clock'
  BY ClockGrows
<1>2. \A i \in Events : receipts[i] \in Receipt
  BY DEF TypeOK, Events
<1>3. \A i \in Events : receipts[i].committedAt \in Nat
  BY <1>2 DEF Receipt
<1>4. CASE UNCHANGED <<receipts, account, case>>
  <2>1. Events' = Events
    BY <1>4 DEF Events
  <2>2. QED
    BY <1>1, <1>3, <1>4, <2>1 DEF TimesInv
<1>5. ASSUME NEW b \in Brokers, NEW k \in Keys, NEW now \in Times, NEW final \in Times,
             Commit(b, k, now, final)
      PROVE  TimesInv'
  <2>0. PICK c, n : c = prepared[k].case /\ n = Len(receipts) + 1
    OBVIOUS
  <2>1. /\ Events = 1..(n - 1) /\ Events' = 1..n /\ n \in Nat \ {0} /\ n \notin Events
        /\ \A i \in Events : receipts'[i] = receipts[i]
        /\ receipts'[n] = NewReceipt(k, b, now)
    BY <1>5, <2>0, CommitEffect
  <2>2. receipts'[n].committedAt = now
    BY <2>1 DEF NewReceipt
  <2>3. now \in Nat /\ now <= clock'
    BY <1>1, <1>5, SampledClock DEF Commit
  <2>4. \A i \in Events' : i \in Events \/ i = n
    BY <2>1
  <2>5. \A i \in Events : receipts[i].committedAt <= clock /\ receipts'[i] = receipts[i]
    BY <2>1 DEF TimesInv
  <2>6. \A i \in Events' : receipts'[i].committedAt <= clock'
    BY <1>1, <1>3, <2>2, <2>3, <2>4, <2>5
  <2>7. QED
    BY <2>6 DEF TimesInv
<1>6. QED
  BY <1>4, <1>5, OnlyCommitCharges

-----------------------------------------------------------------------------
(* Leases.  The lease in a delivery row is the one of the highest          *)
(* generation; generations of an event follow the epochs.                  *)
RowInv ==
  \A i \in 1..Len(deliveries) :
    /\ \/ deliveries[i].lease = NoLease
       \/ deliveries[i].lease \in leases /\ deliveries[i].lease.event = i
    /\ deliveries[i].ackedAt # NotAcked =>
         /\ deliveries[i].lease \in leases
         /\ deliveries[i].lease.claimedAt <= deliveries[i].ackedAt
         /\ deliveries[i].ackedAt < deliveries[i].lease.expiresAt
         /\ deliveries[i].ackedAt <= clock

GrantInv ==
  \A l \in leases :
    /\ l.event \in 1..Len(deliveries) /\ l.case = receipts[l.event].case
    /\ 1 <= l.generation /\ l.generation <= deliveries[l.event].lease.generation
    /\ l.claimedAt <= clock /\ l.epoch <= epoch

PairInv ==
  \A l, m \in leases : l.event = m.event =>
    /\ l.generation = m.generation => l = m
    /\ l.generation < m.generation => l.epoch <= m.epoch
    /\ l.generation < m.generation /\ l.epoch = m.epoch => l.expiresAt <= m.claimedAt

LeaseInv == RowInv /\ GrantInv /\ PairInv /\ OldestFirst

LEMMA LeaseInit == Init => LeaseInv
BY DEF Init, LeaseInv, RowInv, GrantInv, PairInv, OldestFirst

LEMMA LeaseTypes ==
  ASSUME TypeOK
  PROVE  /\ \A l \in leases : /\ l.event \in Nat /\ l.generation \in Nat /\ l.epoch \in Nat
                              /\ l.claimedAt \in Nat /\ l.expiresAt \in Nat
         /\ deliveries \in Seq(DeliveryRow) /\ receipts \in Seq(Receipt)
         /\ \A i \in 1..Len(deliveries) :
              /\ deliveries[i].ackedAt \in Nat \cup {NotAcked}
              /\ deliveries[i].lease.generation \in Nat
         /\ epoch \in Nat /\ clock \in Nat
<1>1. \A l \in leases : l \in Lease
  BY DEF TypeOK
<1>2. deliveries \in Seq(DeliveryRow)
  BY DEF TypeOK, DeliveryRow
<1>3. \A i \in 1..Len(deliveries) : deliveries[i] \in DeliveryRow
  BY <1>2
<1>4. \A i \in 1..Len(deliveries) : deliveries[i].lease.generation \in Nat
  BY RegistryAssumption DEF TypeOK
<1>5. QED
  BY <1>1, <1>2, <1>3, <1>4 DEF TypeOK, Lease, DeliveryRow

(* Steps that grant and acknowledge nothing: no row and no lease changes.  *)
LEMMA LeaseFrame ==
  ASSUME TypeOK, LeaseInv, clock <= clock', clock' \in Nat, epoch <= epoch', epoch' \in Nat,
         UNCHANGED <<receipts, deliveries, leases>>
  PROVE  LeaseInv'
<1>1. /\ \A l \in leases : l.claimedAt \in Nat /\ l.epoch \in Nat
      /\ \A i \in 1..Len(deliveries) : deliveries[i].ackedAt \in Nat \cup {NotAcked}
      /\ epoch \in Nat /\ clock \in Nat
  BY LeaseTypes
<1>2. RowInv'
  BY <1>1 DEF LeaseInv, RowInv, NotAcked
<1>3. GrantInv'
  BY <1>1 DEF LeaseInv, GrantInv
<1>4. PairInv'
  BY DEF LeaseInv, PairInv
<1>5. OldestFirst'
  BY DEF LeaseInv, OldestFirst, OfCase, Events
<1>6. QED
  BY <1>2, <1>3, <1>4, <1>5 DEF LeaseInv

(* Before the migration there are no leases.                               *)
LEMMA LeaseMigrate ==
  ASSUME TypeOK, LeaseInv, NEW now \in Times, NEW final \in Times, Migrate(now, final)
  PROVE  LeaseInv'
<1>1. Len(deliveries) = 0 /\ leases' = leases /\ deliveries' = [i \in Events |-> EmptyDelivery]
  BY DEF Migrate, TypeOK
<1>2. leases = {}
  BY <1>1 DEF LeaseInv, GrantInv
<1>3. Len(receipts) \in Nat
  BY LeaseTypes
<1>4. 1..Len(deliveries') = Events
  BY <1>1, <1>3 DEF Events
<1>5. \A i \in 1..Len(deliveries') :
        deliveries'[i].lease = NoLease /\ deliveries'[i].ackedAt = NotAcked
  BY <1>1, <1>4 DEF EmptyDelivery
<1>6. RowInv'
  BY <1>5 DEF RowInv
<1>7. QED
  BY <1>1, <1>2, <1>6 DEF LeaseInv, GrantInv, PairInv, OldestFirst

LEMMA LeaseCommit ==
  ASSUME TypeOK, LeaseInv, clock <= clock', clock' \in Nat,
         NEW b \in Brokers, NEW k \in Keys, NEW now \in Times, NEW final \in Times,
         Commit(b, k, now, final)
  PROVE  LeaseInv'
<1>0. PICK c, n : c = prepared[k].case /\ n = Len(receipts) + 1
  OBVIOUS
<1>1. /\ n \in Nat \ {0} /\ Events = 1..(n - 1) /\ Events' = 1..n /\ n \notin Events
      /\ \A i \in Events : receipts'[i] = receipts[i]
  BY <1>0, CommitEffect
<1>2. /\ leases' = leases /\ epoch' = epoch /\ version' = version
      /\ deliveries' = IF version = 2 THEN Append(deliveries, EmptyDelivery) ELSE deliveries
  BY DEF Commit
<1>3. Len(deliveries) = IF version = 2 THEN Len(receipts) ELSE 0
  BY DEF TypeOK
<1>4. /\ deliveries \in Seq(DeliveryRow) /\ EmptyDelivery \in DeliveryRow
      /\ \A i \in 1..Len(deliveries) : deliveries[i].ackedAt \in Nat \cup {NotAcked}
      /\ \A l \in leases : l.claimedAt \in Nat /\ l.event \in Nat
      /\ clock \in Nat
  BY LeaseTypes DEF EmptyDelivery, DeliveryRow
<1>5. /\ \A i \in 1..Len(deliveries) : i \in 1..Len(deliveries') /\ deliveries'[i] = deliveries[i]
      /\ \A i \in 1..Len(deliveries') :
           \/ i \in 1..Len(deliveries)
           \/ deliveries'[i].lease = NoLease /\ deliveries'[i].ackedAt = NotAcked
  <2>1. CASE version = 2
    <3>1. /\ Len(deliveries') = Len(deliveries) + 1
          /\ \A i \in 1..Len(deliveries) : deliveries'[i] = deliveries[i]
          /\ deliveries'[Len(deliveries) + 1] = EmptyDelivery
      BY <1>2, <1>4, <2>1, AppendType
    <3>2. Len(deliveries) \in Nat
      BY <1>4
    <3>3. QED
      BY <3>1, <3>2 DEF EmptyDelivery
  <2>2. CASE version # 2
    BY <1>2, <2>2
  <2>3. QED
    BY <2>1, <2>2
<1>6. 1..Len(deliveries) \subseteq Events
  BY <1>3 DEF Events
<1>7. RowInv'
  BY <1>2, <1>4, <1>5 DEF LeaseInv, RowInv, NotAcked
<1>8. GrantInv'
  BY <1>1, <1>2, <1>4, <1>5, <1>6 DEF LeaseInv, GrantInv
<1>9. PairInv'
  BY <1>2 DEF LeaseInv, PairInv
<1>10. OldestFirst'
  <2> SUFFICES ASSUME NEW l \in leases', NEW i \in OfCase(l.case)', i < l.event
               PROVE  \/ deliveries'[i].ackedAt # NotAcked /\ deliveries'[i].ackedAt <= l.claimedAt
                      \/ \E m \in leases' : /\ m.event = i /\ m.epoch = l.epoch
                                            /\ m.claimedAt <= l.claimedAt
                                            /\ l.claimedAt < m.expiresAt
    BY DEF OldestFirst
  <2>1. l \in leases /\ l.event \in 1..Len(deliveries)
    BY <1>2 DEF LeaseInv, GrantInv
  <2>2. i \in Events' /\ receipts'[i].case = l.case
    BY DEF OfCase
  <2>3. i \in 1..Len(deliveries) /\ i \in Events
    BY <1>1, <1>4, <1>6, <2>1, <2>2
  <2>4. i \in OfCase(l.case)
    BY <1>1, <2>2, <2>3 DEF OfCase
  <2>5. QED
    BY <1>2, <1>5, <2>1, <2>3, <2>4 DEF LeaseInv, OldestFirst
<1>11. QED
  BY <1>7, <1>8, <1>9, <1>10 DEF LeaseInv

LEMMA LeaseAcknowledge ==
  ASSUME TypeOK, LeaseInv, clock <= clock', clock' \in Nat,
         NEW b \in Brokers, NEW o \in Workers, NEW lease \in leases,
         NEW now \in Times, NEW final \in Times, Acknowledge(b, o, lease, now, final)
  PROVE  LeaseInv'
<1>0. PICK j : j = lease.event
  OBVIOUS
<1>1. /\ j \in 1..Len(deliveries) /\ deliveries[j].lease = lease
      /\ deliveries[j].ackedAt = NotAcked
      /\ lease.claimedAt <= now /\ now < lease.expiresAt
      /\ deliveries' = [deliveries EXCEPT ![j].ackedAt = now]
      /\ UNCHANGED <<receipts, leases, epoch>>
  BY <1>0 DEF Acknowledge, WithinLease, LeaseInv, GrantInv
<1>2. /\ deliveries \in Seq(DeliveryRow)
      /\ \A i \in 1..Len(deliveries) : deliveries[i].ackedAt \in Nat \cup {NotAcked}
      /\ \A l \in leases : l.claimedAt \in Nat /\ l.event \in Nat
      /\ clock \in Nat
  BY LeaseTypes
<1>3. now \in Nat /\ now <= clock'
  BY <1>2, SampledClock DEF Acknowledge
<1>4. /\ Len(deliveries') = Len(deliveries)
      /\ \A i \in 1..Len(deliveries) : /\ deliveries'[i].lease = deliveries[i].lease
                                       /\ i # j => deliveries'[i] = deliveries[i]
      /\ deliveries'[j].ackedAt = now
  <2>1. deliveries[j] \in DeliveryRow
    BY <1>1, <1>2
  <2> DEFINE row == [deliveries[j] EXCEPT !.ackedAt = now]
  <2>2. row \in DeliveryRow /\ row.lease = deliveries[j].lease /\ row.ackedAt = now
    BY <1>3, <2>1 DEF DeliveryRow
  <2>3. deliveries' = [deliveries EXCEPT ![j] = row]
    BY <1>1
  <2>4. /\ Len(deliveries') = Len(deliveries)
        /\ \A i \in 1..Len(deliveries) : deliveries'[i] = IF i = j THEN row ELSE deliveries[i]
    BY <1>1, <1>2, <2>2, <2>3, OverwriteType
  <2>5. QED
    BY <1>1, <2>2, <2>4
<1>5. RowInv'
  <2> SUFFICES ASSUME NEW i \in 1..Len(deliveries)
               PROVE  /\ \/ deliveries'[i].lease = NoLease
                         \/ deliveries'[i].lease \in leases /\ deliveries'[i].lease.event = i
                      /\ deliveries'[i].ackedAt # NotAcked =>
                           /\ deliveries'[i].lease \in leases
                           /\ deliveries'[i].lease.claimedAt <= deliveries'[i].ackedAt
                           /\ deliveries'[i].ackedAt < deliveries'[i].lease.expiresAt
                           /\ deliveries'[i].ackedAt <= clock'
    BY <1>1, <1>4 DEF RowInv
  <2>1. CASE i = j
    BY <1>0, <1>1, <1>3, <1>4, <2>1
  <2>2. CASE i # j
    <3>1. deliveries'[i] = deliveries[i]
      BY <1>4, <2>2
    <3>2. QED
      BY <1>2, <3>1 DEF LeaseInv, RowInv, NotAcked
  <2>3. QED
    BY <2>1, <2>2
<1>6. GrantInv'
  BY <1>1, <1>2, <1>4 DEF LeaseInv, GrantInv
<1>7. PairInv'
  BY <1>1 DEF LeaseInv, PairInv
<1>8. OldestFirst'
  <2> SUFFICES ASSUME NEW l \in leases, NEW i \in OfCase(l.case), i < l.event
               PROVE  \/ deliveries'[i].ackedAt # NotAcked /\ deliveries'[i].ackedAt <= l.claimedAt
                      \/ \E m \in leases : /\ m.event = i /\ m.epoch = l.epoch
                                           /\ m.claimedAt <= l.claimedAt
                                           /\ l.claimedAt < m.expiresAt
    BY <1>1 DEF OldestFirst, OfCase, Events
  <2>1. i \in 1..Len(deliveries)
    <3>1. l.event \in 1..Len(deliveries) /\ i \in Nat /\ i >= 1
      BY DEF LeaseInv, GrantInv, OfCase, Events
    <3>2. QED
      BY <3>1
  <2>2. deliveries[i].ackedAt # NotAcked => deliveries'[i] = deliveries[i]
    BY <1>1, <1>4, <2>1
  <2>3. QED
    BY <2>2 DEF LeaseInv, OldestFirst
<1>9. QED
  BY <1>5, <1>6, <1>7, <1>8 DEF LeaseInv

(* What a claim finds: the lease it replaces has the highest generation of *)
(* its event, and none of this epoch is still running.                     *)
LEMMA ClaimFinds ==
  ASSUME TypeOK, LeaseInv, NEW now \in Nat, clock <= now,
         NEW i \in 1..Len(deliveries), ~LiveLease(i, now),
         NEW l \in leases, l.event = i
  PROVE  /\ l.generation <= deliveries[i].lease.generation
         /\ l.epoch = epoch => l.expiresAt <= now
<1> DEFINE last == deliveries[i].lease
<1>1. /\ l.generation <= last.generation /\ 1 <= l.generation /\ l.epoch <= epoch
  BY DEF LeaseInv, GrantInv
<1>2. last # NoLease
  BY <1>1, LeaseTypes DEF NoLease
<1>3. last \in leases /\ last.event = i
  BY <1>2 DEF LeaseInv, RowInv
<1>4. /\ last.epoch <= epoch /\ last.claimedAt <= clock
  BY <1>3 DEF LeaseInv, GrantInv
<1>5. /\ l.generation \in Nat /\ l.epoch \in Nat /\ l.expiresAt \in Nat
      /\ last.generation \in Nat /\ last.epoch \in Nat /\ last.expiresAt \in Nat
      /\ last.claimedAt \in Nat /\ epoch \in Nat /\ clock \in Nat
  BY <1>3, LeaseTypes
<1> HIDE DEF last
<1>6. last.epoch # epoch \/ last.expiresAt <= now
  BY <1>2, <1>5 DEF LiveLease, last
<1>7. /\ l.generation = last.generation => l = last
      /\ l.generation < last.generation => l.epoch <= last.epoch
      /\ l.generation < last.generation /\ l.epoch = last.epoch => l.expiresAt <= last.claimedAt
  BY <1>3 DEF LeaseInv, PairInv
<1>8. ASSUME l.epoch = epoch PROVE l.expiresAt <= now
  <2>1. CASE l.generation = last.generation
    BY <1>6, <1>7, <1>8, <2>1
  <2>2. CASE l.generation < last.generation
    BY <1>4, <1>5, <1>7, <1>8, <2>2
  <2>3. QED
    BY <1>1, <1>5, <2>1, <2>2
<1>9. QED
  BY <1>1, <1>8 DEF last

LEMMA LeaseClaim ==
  ASSUME TypeOK, LeaderInv, LeaseInv, clock <= clock', clock' \in Nat,
         NEW b \in Brokers, NEW o \in Workers, NEW c \in Cases, NEW seconds \in LeaseSeconds,
         NEW now \in Times, NEW final \in Times, ClaimOutbox(b, o, c, seconds, now, final)
  PROVE  LeaseInv'
<1>1. PICK i \in Available(c, now) :
        /\ IsOldest(i, Available(c, now))
        /\ deliveries' = [deliveries EXCEPT ![i].lease = NewLease(i, b, o, seconds, now)]
        /\ leases' = leases \cup {NewLease(i, b, o, seconds, now)}
  BY DEF ClaimOutbox
<1>2. UNCHANGED <<receipts, epoch>> /\ Len(deliveries) = Len(receipts)
  BY DEF ClaimOutbox, TypeOK
<1>3. /\ i \in Events /\ i \in 1..Len(deliveries) /\ ~LiveLease(i, now)
      /\ receipts[i].case = c /\ deliveries[i].ackedAt = NotAcked
  BY <1>1, <1>2 DEF Available, Events
<1>4. PICK new \in Lease :
        /\ new = NewLease(i, b, o, seconds, now)
        /\ new.event = i /\ new.case = c /\ new.epoch = session[b]
        /\ new.generation = deliveries[i].lease.generation + 1 /\ new.claimedAt = now
  <2>1. Shapes
    BY DEF TypeOK, Shapes, DeliveryRow
  <2>2. NewLease(i, b, o, seconds, now) \in Lease
    BY <1>3, <2>1, NewLeaseType
  <2>3. QED
    BY <1>3, <2>2 DEF NewLease
<1>5. new.epoch = epoch
  BY <1>4, ServedLeads DEF ClaimOutbox
<1>6. /\ deliveries \in Seq(DeliveryRow) /\ epoch \in Nat /\ clock \in Nat
      /\ \A l \in leases : /\ l.event \in Nat /\ l.generation \in Nat /\ l.epoch \in Nat
                           /\ l.claimedAt \in Nat /\ l.expiresAt \in Nat
      /\ \A j \in 1..Len(deliveries) : /\ deliveries[j].ackedAt \in Nat \cup {NotAcked}
                                       /\ deliveries[j].lease.generation \in Nat
  BY LeaseTypes
<1>7. now \in Nat /\ clock <= now /\ now <= clock'
  BY <1>6, SampledClock DEF ClaimOutbox
<1>8. /\ Len(deliveries') = Len(deliveries) /\ deliveries'[i].lease = new
      /\ \A j \in 1..Len(deliveries) : /\ deliveries'[j].ackedAt = deliveries[j].ackedAt
                                       /\ j # i => deliveries'[j] = deliveries[j]
  <2>1. deliveries[i] \in DeliveryRow
    BY <1>3, <1>6
  <2> DEFINE row == [deliveries[i] EXCEPT !.lease = new]
  <2>2. row \in DeliveryRow /\ row.lease = new /\ row.ackedAt = deliveries[i].ackedAt
    BY <1>4, <2>1 DEF DeliveryRow
  <2>3. deliveries' = [deliveries EXCEPT ![i] = row]
    BY <1>1, <1>4
  <2>4. /\ Len(deliveries') = Len(deliveries)
        /\ \A j \in 1..Len(deliveries) : deliveries'[j] = IF j = i THEN row ELSE deliveries[j]
    BY <1>3, <1>6, <2>2, <2>3, OverwriteType
  <2>5. QED
    BY <1>3, <2>2, <2>4
<1>9. leases' = leases \cup {new}
  BY <1>1, <1>4
<1>10. ASSUME NEW l \in leases, l.event = i
       PROVE  /\ l.generation < new.generation /\ l.epoch <= new.epoch
              /\ l.epoch = new.epoch => l.expiresAt <= new.claimedAt
  <2>1. /\ l.generation <= deliveries[i].lease.generation
        /\ l.epoch = epoch => l.expiresAt <= now
    BY <1>3, <1>7, <1>10, ClaimFinds
  <2>2. l.epoch <= epoch
    BY DEF LeaseInv, GrantInv
  <2>3. QED
    BY <1>3, <1>4, <1>5, <1>6, <2>1, <2>2
<1>11. RowInv'
  <2> SUFFICES ASSUME NEW j \in 1..Len(deliveries)
               PROVE  /\ \/ deliveries'[j].lease = NoLease
                         \/ deliveries'[j].lease \in leases' /\ deliveries'[j].lease.event = j
                      /\ deliveries'[j].ackedAt # NotAcked =>
                           /\ deliveries'[j].lease \in leases'
                           /\ deliveries'[j].lease.claimedAt <= deliveries'[j].ackedAt
                           /\ deliveries'[j].ackedAt < deliveries'[j].lease.expiresAt
                           /\ deliveries'[j].ackedAt <= clock'
    BY <1>8 DEF RowInv
  <2>1. CASE j = i
    BY <1>3, <1>4, <1>8, <1>9, <2>1
  <2>2. CASE j # i
    <3>1. deliveries'[j] = deliveries[j]
      BY <1>8, <2>2
    <3>2. QED
      BY <1>6, <1>9, <3>1 DEF LeaseInv, RowInv, NotAcked
  <2>3. QED
    BY <2>1, <2>2
<1>12. GrantInv'
  <2> SUFFICES ASSUME NEW l \in leases'
               PROVE  /\ l.event \in 1..Len(deliveries) /\ l.case = receipts[l.event].case
                      /\ 1 <= l.generation /\ l.generation <= deliveries'[l.event].lease.generation
                      /\ l.claimedAt <= clock' /\ l.epoch <= epoch
    BY <1>2, <1>8 DEF GrantInv
  <2>1. CASE l = new
    <3>1. l.event = i /\ l.case = c /\ l.epoch = epoch /\ l.claimedAt = now
      BY <1>4, <1>5, <2>1
    <3>2. l.event \in 1..Len(deliveries) /\ l.case = receipts[l.event].case
      BY <1>3, <3>1
    <3>3. /\ l.generation = deliveries[i].lease.generation + 1
          /\ deliveries[i].lease.generation \in Nat
      BY <1>3, <1>4, <1>6, <2>1
    <3>4. deliveries'[l.event].lease = l
      BY <1>8, <2>1, <3>1
    <3>5. 1 <= l.generation /\ l.generation <= deliveries'[l.event].lease.generation
      BY <3>3, <3>4
    <3>6. l.claimedAt <= clock' /\ l.epoch <= epoch
      BY <1>6, <1>7, <3>1
    <3>7. QED
      BY <3>2, <3>5, <3>6
  <2>2. CASE l \in leases
    <3>1. /\ l.event \in 1..Len(deliveries) /\ l.case = receipts[l.event].case
          /\ 1 <= l.generation /\ l.generation <= deliveries[l.event].lease.generation
          /\ l.claimedAt <= clock /\ l.epoch <= epoch
      BY <2>2 DEF LeaseInv, GrantInv
    <3>2. l.generation <= deliveries'[l.event].lease.generation
      <4>1. CASE l.event = i
        <5>1. l.generation < new.generation /\ deliveries'[l.event].lease = new
          BY <1>8, <1>10, <2>2, <4>1
        <5>2. new.generation \in Nat /\ l.generation \in Nat
          BY <1>6, <2>2 DEF Lease
        <5>3. QED
          BY <5>1, <5>2
      <4>2. CASE l.event # i
        BY <1>8, <3>1, <4>2
      <4>3. QED
        BY <4>1, <4>2
    <3>3. QED
      BY <1>6, <2>2, <3>1, <3>2
  <2>3. QED
    BY <1>9, <2>1, <2>2
<1>13. PairInv'
  <2> SUFFICES ASSUME NEW l \in leases', NEW m \in leases', l.event = m.event
               PROVE  /\ l.generation = m.generation => l = m
                      /\ l.generation < m.generation => l.epoch <= m.epoch
                      /\ l.generation < m.generation /\ l.epoch = m.epoch =>
                           l.expiresAt <= m.claimedAt
    BY DEF PairInv
  <2>1. CASE l \in leases /\ m \in leases
    BY <2>1 DEF LeaseInv, PairInv
  <2>2. CASE l \in leases /\ m = new
    BY <1>4, <1>6, <1>10, <2>2 DEF Lease
  <2>3. CASE l = new /\ m \in leases
    BY <1>4, <1>6, <1>10, <2>3 DEF Lease
  <2>4. CASE l = new /\ m = new
    BY <1>4, <2>4 DEF Lease
  <2>5. QED
    BY <1>9, <2>1, <2>2, <2>3, <2>4
<1>14. OldestFirst'
  <2> SUFFICES ASSUME NEW l \in leases', NEW j \in OfCase(l.case), j < l.event
               PROVE  \/ deliveries'[j].ackedAt # NotAcked /\ deliveries'[j].ackedAt <= l.claimedAt
                      \/ \E m \in leases' : /\ m.event = j /\ m.epoch = l.epoch
                                            /\ m.claimedAt <= l.claimedAt
                                            /\ l.claimedAt < m.expiresAt
    BY <1>2 DEF OldestFirst, OfCase, Events
  <2>1. j \in 1..Len(deliveries) /\ deliveries'[j].ackedAt = deliveries[j].ackedAt
        /\ j \in Events /\ receipts[j].case = l.case
    BY <1>2, <1>8 DEF OfCase, Events
  <2>2. CASE l \in leases
    BY <1>9, <2>1, <2>2 DEF LeaseInv, OldestFirst
  <2>3. CASE l = new
    <3>1. j \notin Available(c, now)
      <4>1. i \in Nat /\ j \in Nat /\ j < i
        BY <1>3, <1>4, <2>1, <2>3
      <4>2. \A e \in Available(c, now) : i <= e
        BY <1>1 DEF IsOldest
      <4>3. QED
        BY <4>1, <4>2
    <3>2. deliveries[j].ackedAt # NotAcked \/ LiveLease(j, now)
      BY <1>4, <2>1, <2>3, <3>1 DEF Available
    <3>3. CASE deliveries[j].ackedAt # NotAcked
      <4>1. deliveries[j].ackedAt \in Nat /\ deliveries[j].ackedAt <= clock
        BY <1>6, <2>1, <3>3 DEF LeaseInv, RowInv
      <4>2. QED
        BY <1>4, <1>6, <1>7, <2>1, <2>3, <3>3, <4>1
    <3>4. CASE LiveLease(j, now)
      <4>1. PICK m : m = deliveries[j].lease
        OBVIOUS
      <4>2. m # NoLease /\ m.epoch = epoch /\ now < m.expiresAt
        BY <3>4, <4>1 DEF LiveLease
      <4>3. m \in leases /\ m.event = j
        BY <2>1, <4>1, <4>2 DEF LeaseInv, RowInv
      <4>4. m.claimedAt <= clock
        BY <4>3 DEF LeaseInv, GrantInv
      <4>5. QED
        BY <1>4, <1>5, <1>6, <1>7, <1>9, <2>3, <4>2, <4>3, <4>4
    <3>5. QED
      BY <3>2, <3>3, <3>4
  <2>4. QED
    BY <1>9, <2>2, <2>3
<1>15. QED
  BY <1>11, <1>12, <1>13, <1>14 DEF LeaseInv

LEMMA LeaseStep == TypeOK /\ LeaderInv /\ LeaseInv /\ [Next]_vars => LeaseInv'
<1> SUFFICES ASSUME TypeOK, LeaderInv, LeaseInv, [Next]_vars PROVE LeaseInv'
  OBVIOUS
<1>1. clock \in Nat /\ clock' \in Nat /\ clock <= clock' /\ epoch \in Nat
  BY ClockGrows DEF TypeOK
<1>2. CASE Quiet
  BY <1>1, <1>2, LeaseFrame DEF Quiet
<1>3. ASSUME NEW b \in Brokers, NEW now \in Times, NEW final \in Times,
             ActivateBroker(b, now, final)
      PROVE  LeaseInv'
  <2>1. UNCHANGED <<receipts, deliveries, leases>> /\ epoch' = epoch + 1
    BY <1>3 DEF ActivateBroker
  <2>2. QED
    BY <1>1, <2>1, LeaseFrame
<1>4. QED
  BY <1>1, <1>2, <1>3, StepCases, LeaseMigrate, LeaseCommit, LeaseClaim, LeaseAcknowledge

LEMMA LeasesInvariant == Spec => [](TypeOK /\ LeaseInv)
<1>1. Init => LeaderInv /\ LeaseInv
  BY LeaderInit, LeaseInit
<1>2. TypeOK /\ LeaderInv /\ LeaseInv /\ [Next]_vars => LeaderInv' /\ LeaseInv'
  BY LeaderStep, LeaseStep
<1>3. QED
  BY <1>1, <1>2, TypeCorrect, PTL DEF Spec

(* Two leases of one event under one broker never overlap in time.         *)
THEOREM LeasesCorrect == Spec => []DisjointLeases
<1>1. TypeOK /\ LeaseInv => DisjointLeases
  BY DEF LeaseInv, PairInv, DisjointLeases
<1>2. QED
  BY <1>1, LeasesInvariant, PTL

(* Whoever acknowledged an event did so in time and under its last lease.  *)
THEOREM AcksCorrect == Spec => []AckedUnderItsLease
<1>1. TypeOK /\ LeaseInv => AckedUnderItsLease
  BY DEF LeaseInv, RowInv, GrantInv, AckedUnderItsLease
<1>2. QED
  BY <1>1, LeasesInvariant, PTL

(* No event is handed out before the earlier events of its case are        *)
(* acknowledged or in the hands of a worker.                               *)
THEOREM OrderCorrect == Spec => []OldestFirst
<1>1. TypeOK /\ LeaseInv => OldestFirst
  BY DEF LeaseInv
<1>2. QED
  BY <1>1, LeasesInvariant, PTL

-----------------------------------------------------------------------------
(* Both samples.  What a step writes was good when it was written and at   *)
(* the clock that the step leaves.                                         *)

LEMMA ReceiptsWritten ==
  ASSUME TypeOK, TimesInv, [Next]_vars
  PROVE  ReceiptsInTime
<1>1. clock \in Nat
  BY DEF TypeOK
<1>2. CASE UNCHANGED <<receipts, account, case>>
  BY <1>2 DEF ReceiptsInTime, Events
<1>3. ASSUME NEW b \in Brokers, NEW k \in Keys, NEW now \in Times, NEW final \in Times,
             Commit(b, k, now, final)
      PROVE  ReceiptsInTime
  <2>0. PICK c, n : c = prepared[k].case /\ n = Len(receipts) + 1
    OBVIOUS
  <2>1. /\ Events = 1..(n - 1) /\ Events' = 1..n /\ n \in Nat \ {0}
        /\ receipts'[n] = NewReceipt(k, b, now)
    BY <1>3, <2>0, CommitEffect
  <2>2. receipts'[n].case = c /\ receipts'[n].committedAt = now
    BY <2>0, <2>1 DEF NewReceipt
  <2>3. RetainedAt(c, now) /\ RetainedAt(c, final)
    BY <1>3, <2>0 DEF Commit, Retained
  <2>4. now \in Nat /\ clock <= now /\ clock' = final
    BY <1>1, <1>3, SampledClock DEF Commit
  <2>5. \A i \in Events' \ Events : i = n
    BY <2>1
  <2>6. \A i \in Events : receipts[i].committedAt <= clock /\ receipts[i] \in Receipt
    BY DEF TimesInv, TypeOK, Events
  <2>7. \A i \in Events : receipts[i].committedAt <= now
    BY <1>1, <2>4, <2>6 DEF Receipt
  <2>8. QED
    BY <2>2, <2>3, <2>4, <2>5, <2>7 DEF ReceiptsInTime
<1>4. QED
  BY <1>2, <1>3, OnlyCommitCharges

LEMMA LeasesWritten ==
  ASSUME TypeOK, LeaseInv, [Next]_vars
  PROVE  LeasesInTime /\ AcksInTime
<1>1. clock \in Nat /\ deliveries \in Seq(DeliveryRow)
  BY LeaseTypes
<1>2. ASSUME UNCHANGED leases,
             \A i \in 1..Len(deliveries) : deliveries'[i].ackedAt = deliveries[i].ackedAt
      PROVE  LeasesInTime /\ AcksInTime
  BY <1>2 DEF LeasesInTime, AcksInTime
<1>3. CASE Quiet
  BY <1>2, <1>3 DEF Quiet
<1>4. ASSUME NEW b \in Brokers, NEW now \in Times, NEW final \in Times,
             ActivateBroker(b, now, final)
      PROVE  LeasesInTime /\ AcksInTime
  BY <1>2, <1>4 DEF ActivateBroker
<1>5. ASSUME NEW now \in Times, NEW final \in Times, Migrate(now, final)
      PROVE  LeasesInTime /\ AcksInTime
  <2>1. UNCHANGED leases /\ Len(deliveries) = 0
    BY <1>5 DEF Migrate, TypeOK
  <2>2. QED
    BY <1>2, <2>1
<1>6. ASSUME NEW b \in Brokers, NEW k \in Keys, NEW now \in Times, NEW final \in Times,
             Commit(b, k, now, final)
      PROVE  LeasesInTime /\ AcksInTime
  <2>1. EmptyDelivery \in DeliveryRow
    BY DEF EmptyDelivery, DeliveryRow
  <2>2. UNCHANGED leases
        /\ (deliveries' = Append(deliveries, EmptyDelivery) \/ deliveries' = deliveries)
    BY <1>6 DEF Commit
  <2>3. \A i \in 1..Len(deliveries) : deliveries'[i] = deliveries[i]
    BY <1>1, <2>1, <2>2, AppendType
  <2>4. QED
    BY <1>2, <2>2, <2>3
<1>7. ASSUME NEW b \in Brokers, NEW o \in Workers, NEW c \in Cases, NEW seconds \in LeaseSeconds,
             NEW now \in Times, NEW final \in Times, ClaimOutbox(b, o, c, seconds, now, final)
      PROVE  LeasesInTime /\ AcksInTime
  <2>1. PICK i \in Available(c, now) :
          /\ final < NewLease(i, b, o, seconds, now).expiresAt
          /\ deliveries' = [deliveries EXCEPT ![i].lease = NewLease(i, b, o, seconds, now)]
          /\ leases' = leases \cup {NewLease(i, b, o, seconds, now)}
    BY <1>7 DEF ClaimOutbox
  <2>2. NewLease(i, b, o, seconds, now).claimedAt = now
    BY DEF NewLease
  <2>3. now \in Nat /\ final \in Nat /\ now <= final /\ clock' = final
    BY <1>1, <1>7, SampledClock DEF ClaimOutbox
  <2>4. LeasesInTime
    BY <2>1, <2>2, <2>3 DEF LeasesInTime
  <2>5. \A j \in 1..Len(deliveries) : deliveries'[j].ackedAt = deliveries[j].ackedAt
    BY <1>1, <2>1 DEF DeliveryRow
  <2>6. QED
    BY <2>4, <2>5 DEF AcksInTime
<1>8. ASSUME NEW b \in Brokers, NEW o \in Workers, NEW lease \in leases, NEW now \in Times,
             NEW final \in Times, Acknowledge(b, o, lease, now, final)
      PROVE  LeasesInTime /\ AcksInTime
  <2>1. /\ deliveries[lease.event].lease = lease
        /\ deliveries' = [deliveries EXCEPT ![lease.event].ackedAt = now]
        /\ WithinLease(lease, now) /\ WithinLease(lease, final)
        /\ UNCHANGED leases
    BY <1>8 DEF Acknowledge
  <2>2. clock' = final
    BY <1>1, <1>8, SampledClock DEF Acknowledge
  <2>3. \A j \in 1..Len(deliveries) : j # lease.event => deliveries'[j] = deliveries[j]
    BY <1>1, <2>1
  <2>4. lease.event \in 1..Len(deliveries) =>
          deliveries'[lease.event].ackedAt = now /\ deliveries'[lease.event].lease = lease
    BY <1>1, <2>1 DEF DeliveryRow
  <2>5. AcksInTime
    BY <2>1, <2>2, <2>3, <2>4 DEF AcksInTime, WithinLease
  <2>6. QED
    BY <2>1, <2>5 DEF LeasesInTime
<1>9. QED
  BY <1>3, <1>4, <1>5, <1>6, <1>7, <1>8, StepCases

(* Receipts, leases and acknowledgements are written within the time that  *)
(* both samples of the guard allow, and receipts in the order of time.     *)
THEOREM TimesCorrect == Spec => WrittenInTime
<1>1. Init => TimesInv
  BY DEF Init, TimesInv, Events
<1>2. TypeOK /\ TimesInv /\ [Next]_vars => TimesInv'
  BY TimesStep
<1>3. TypeOK /\ LeaseInv /\ TimesInv /\ [Next]_vars
        => [ReceiptsInTime /\ LeasesInTime /\ AcksInTime]_vars
  BY ReceiptsWritten, LeasesWritten
<1>4. Spec => [][ReceiptsInTime /\ LeasesInTime /\ AcksInTime]_vars
  BY <1>1, <1>2, <1>3, LeasesInvariant, PTL DEF Spec
<1>5. QED
  BY <1>4 DEF WrittenInTime

-----------------------------------------------------------------------------
(* Permanence.  The facts that no step may undo.                           *)
Permanent ==
  /\ Len(receipts) <= Len(receipts')
  /\ \A i \in Events : receipts'[i] = receipts[i]
  /\ \A i \in 1..Len(deliveries) :
       deliveries[i].ackedAt # NotAcked => deliveries'[i] = deliveries[i]
  /\ clock <= clock' /\ epoch <= epoch'
  /\ \A a \in Accounts : account[a].total <= account'[a].total

LEMMA PermanentStep ==
  ASSUME TypeOK, ChargeInv, LeaseInv, [Next]_vars
  PROVE  Permanent
<1>1. clock <= clock' /\ epoch \in Nat /\ Len(receipts) \in Nat
      /\ \A a \in Accounts : account[a].total \in Nat
  BY ClockGrows, LeaseTypes DEF TypeOK
<1>2. ASSUME UNCHANGED <<receipts, account>>, epoch <= epoch',
             \A i \in 1..Len(deliveries) :
               deliveries[i].ackedAt # NotAcked => deliveries'[i] = deliveries[i]
      PROVE  Permanent
  BY <1>1, <1>2 DEF Permanent
<1>3. CASE Quiet
  BY <1>1, <1>2, <1>3 DEF Quiet
<1>4. ASSUME NEW b \in Brokers, NEW now \in Times, NEW final \in Times,
             ActivateBroker(b, now, final)
      PROVE  Permanent
  <2>1. UNCHANGED <<receipts, account, deliveries>> /\ epoch' = epoch + 1
    BY <1>4 DEF ActivateBroker
  <2>2. QED
    BY <1>1, <1>2, <2>1
<1>5. ASSUME NEW now \in Times, NEW final \in Times, Migrate(now, final)
      PROVE  Permanent
  <2>1. UNCHANGED <<receipts, account>> /\ epoch' = epoch + 1 /\ Len(deliveries) = 0
    BY <1>5 DEF Migrate, TypeOK
  <2>2. QED
    BY <1>1, <1>2, <2>1
<1>6. ASSUME NEW b \in Brokers, NEW k \in Keys, NEW now \in Times, NEW final \in Times,
             Commit(b, k, now, final)
      PROVE  Permanent
  <2>0. PICK c, n, a : c = prepared[k].case /\ n = Len(receipts) + 1 /\ a = CaseAccount[c]
    OBVIOUS
  <2>1. /\ Events' = 1..n /\ Events = 1..(n - 1) /\ n \in Nat \ {0} /\ a \in Accounts
        /\ \A i \in Events : receipts'[i] = receipts[i]
    BY <1>6, <2>0, CommitEffect
  <2>2. Len(receipts') = Len(receipts) + 1
    BY <1>6, LeaseTypes DEF Commit
  <2>3. /\ epoch' = epoch /\ HeadsMatch(prepared[k], a, c)
        /\ account' = [account EXCEPT ![a] = [sequence |-> prepared[k].account.sequence + 1,
                         head |-> n, total |-> prepared[k].account.sequence + 1]]
    BY <1>6, <2>0 DEF Commit
  <2>4. \A d \in Accounts : account[d].total <= account'[d].total
    BY <1>1, <2>1, <2>3 DEF HeadsMatch, ChargeInv, TypeOK
  <2>5. \A i \in 1..Len(deliveries) : deliveries'[i] = deliveries[i]
    <3>1. deliveries \in Seq(DeliveryRow) /\ EmptyDelivery \in DeliveryRow
      BY LeaseTypes DEF EmptyDelivery, DeliveryRow
    <3>2. deliveries' = Append(deliveries, EmptyDelivery) \/ deliveries' = deliveries
      BY <1>6 DEF Commit
    <3>3. QED
      BY <3>1, <3>2, AppendType
  <2>6. QED
    BY <1>1, <2>1, <2>2, <2>3, <2>4, <2>5 DEF Permanent
<1>7. ASSUME NEW b \in Brokers, NEW o \in Workers, NEW c \in Cases, NEW seconds \in LeaseSeconds,
             NEW now \in Times, NEW final \in Times, ClaimOutbox(b, o, c, seconds, now, final)
      PROVE  Permanent
  <2>1. PICK i \in Available(c, now) :
          deliveries' = [deliveries EXCEPT ![i].lease = NewLease(i, b, o, seconds, now)]
    BY <1>7 DEF ClaimOutbox
  <2>2. deliveries[i].ackedAt = NotAcked /\ UNCHANGED <<receipts, account, epoch>>
    BY <1>7 DEF Available, ClaimOutbox
  <2>3. \A j \in 1..Len(deliveries) : j # i => deliveries'[j] = deliveries[j]
    BY <2>1, LeaseTypes
  <2>4. QED
    BY <1>1, <1>2, <2>2, <2>3
<1>8. ASSUME NEW b \in Brokers, NEW o \in Workers, NEW lease \in leases, NEW now \in Times,
             NEW final \in Times, Acknowledge(b, o, lease, now, final)
      PROVE  Permanent
  <2>1. /\ deliveries' = [deliveries EXCEPT ![lease.event].ackedAt = now]
        /\ deliveries[lease.event].ackedAt = NotAcked
        /\ UNCHANGED <<receipts, account, epoch>>
    BY <1>8 DEF Acknowledge
  <2>2. \A j \in 1..Len(deliveries) : j # lease.event => deliveries'[j] = deliveries[j]
    BY <2>1, LeaseTypes
  <2>3. QED
    BY <1>1, <1>2, <2>1, <2>2
<1>9. QED
  BY <1>3, <1>4, <1>5, <1>6, <1>7, <1>8, StepCases

(* No step rewrites a receipt, withdraws an acknowledgement, refunds a     *)
(* charge or turns back the clock or the epoch.                            *)
THEOREM PermanenceCorrect == Spec => NothingIsUndone
<1>1. TypeOK /\ ChargeInv /\ LeaseInv /\ [Next]_vars => [Permanent]_vars
  BY PermanentStep
<1>2. Spec => [][Permanent]_vars
  BY <1>1, ChargesInvariant, LeasesInvariant, PTL DEF Spec
<1>3. QED
  BY <1>2 DEF NothingIsUndone, Permanent

-----------------------------------------------------------------------------
(* The registry implements the permanent ledger.                           *)

(* An intent and a receipt belong to the account that their key names, so  *)
(* the ledger and the registry count the same charges.                     *)
KeyInv ==
  /\ \A k \in Keys : prepared[k] # NoIntent => CaseAccount[prepared[k].case] = k[1]
  /\ \A i \in Events : AccountOf(i) = receipts[i].key[1]

(* The step of preparing an intent is the only one that touches intents.   *)
LEMMA OnlyPrepareRetains ==
  ASSUME [Next]_vars
  PROVE  \/ UNCHANGED prepared
         \/ \E b \in Brokers, c \in Cases, r \in RequestIds, now, final \in Times :
              Prepare(b, c, r, now, final)
<1>1. CASE UNCHANGED vars
  BY <1>1 DEF vars, remembered
<1>2. CASE Next
  <2>1. PICK now \in Times, final \in Times :
          \/ Migrate(now, final)
          \/ \E b \in Brokers :
               \/ Inspect(b, now, final)
               \/ ActivateBroker(b, now, final)
               \/ Observe(b, now, final)
               \/ \E c \in Cases, r \in RequestIds : Prepare(b, c, r, now, final)
               \/ \E k \in Keys : Commit(b, k, now, final)
               \/ \E o \in Workers, c \in Cases, seconds \in LeaseSeconds :
                    ClaimOutbox(b, o, c, seconds, now, final)
               \/ \E o \in Workers, lease \in leases : Acknowledge(b, o, lease, now, final)
    BY <1>2 DEF Next
  <2>2. Migrate(now, final) => UNCHANGED prepared
    BY DEF Migrate, remembered
  <2>3. ASSUME NEW b \in Brokers
        PROVE  /\ Inspect(b, now, final) => UNCHANGED prepared
               /\ ActivateBroker(b, now, final) => UNCHANGED prepared
               /\ Observe(b, now, final) => UNCHANGED prepared
               /\ \A k \in Keys : Commit(b, k, now, final) => UNCHANGED prepared
    BY DEF Inspect, ActivateBroker, Observe, Commit, remembered
  <2>4. ASSUME NEW b \in Brokers, NEW o \in Workers
        PROVE  /\ \A c \in Cases, seconds \in LeaseSeconds :
                    ClaimOutbox(b, o, c, seconds, now, final) => UNCHANGED prepared
               /\ \A lease \in leases :
                    Acknowledge(b, o, lease, now, final) => UNCHANGED prepared
    BY DEF ClaimOutbox, Acknowledge, remembered
  <2>5. QED
    BY <2>1, <2>2, <2>3, <2>4
<1>3. QED
  BY <1>1, <1>2

LEMMA KeyInit == Init => KeyInv
BY DEF Init, KeyInv, Events

LEMMA KeyStep == TypeOK /\ KeyInv /\ [Next]_vars => KeyInv'
<1> SUFFICES ASSUME TypeOK, KeyInv, [Next]_vars PROVE KeyInv'
  OBVIOUS
<1>1. \A k \in Keys : prepared'[k] # NoIntent => CaseAccount[prepared'[k].case] = k[1]
  <2>1. CASE UNCHANGED prepared
    BY <2>1 DEF KeyInv
  <2>2. ASSUME NEW b \in Brokers, NEW c \in Cases, NEW r \in RequestIds, NEW now \in Times,
               NEW final \in Times, Prepare(b, c, r, now, final)
        PROVE  \A k \in Keys : prepared'[k] # NoIntent => CaseAccount[prepared'[k].case] = k[1]
    <3> DEFINE intent ==
          [case |-> c,
           account |-> [sequence |-> account[CaseAccount[c]].sequence,
                        head |-> account[CaseAccount[c]].head],
           caseHead |-> case[c]]
    <3>1. prepared' = [prepared EXCEPT ![Key(c, r)] = intent] /\ intent.case = c
      BY <2>2 DEF Prepare
    <3> HIDE DEF intent
    <3>2. \A k \in Keys : prepared'[k] = IF k = Key(c, r) THEN intent ELSE prepared[k]
      BY <3>1 DEF TypeOK
    <3>3. Key(c, r)[1] = CaseAccount[c]
      BY DEF Key
    <3>4. QED
      BY <3>1, <3>2, <3>3 DEF KeyInv
  <2>3. QED
    BY <2>1, <2>2, OnlyPrepareRetains
<1>2. \A i \in Events' : AccountOf(i)' = receipts'[i].key[1]
  <2>1. CASE UNCHANGED <<receipts, account, case>>
    BY <2>1 DEF KeyInv, Events, AccountOf
  <2>2. ASSUME NEW b \in Brokers, NEW k \in Keys, NEW now \in Times, NEW final \in Times,
               Commit(b, k, now, final)
        PROVE  \A i \in Events' : AccountOf(i)' = receipts'[i].key[1]
    <3>0. PICK c, n : c = prepared[k].case /\ n = Len(receipts) + 1
      OBVIOUS
    <3>1. /\ \A i \in Events' : i \in Events \/ i = n
          /\ \A i \in Events : receipts'[i] = receipts[i]
          /\ receipts'[n] = NewReceipt(k, b, now)
      BY <2>2, <3>0, CommitEffect
    <3>2. CaseAccount[c] = k[1]
      BY <2>2, <3>0 DEF Commit, KeyInv
    <3>3. receipts'[n].case = c /\ receipts'[n].key = k
      BY <3>0, <3>1 DEF NewReceipt
    <3>4. \A i \in Events : CaseAccount[receipts'[i].case] = receipts'[i].key[1]
      BY <3>1 DEF KeyInv, AccountOf
    <3>5. \A i \in Events' : CaseAccount[receipts'[i].case] = receipts'[i].key[1]
      BY <3>1, <3>2, <3>3, <3>4
    <3>6. QED
      BY <3>5 DEF AccountOf
  <2>3. QED
    BY <2>1, <2>2, OnlyCommitCharges
<1>3. QED
  BY <1>1, <1>2 DEF KeyInv

-----------------------------------------------------------------------------
(* The status of a key, from what the registry stores.                     *)
Published(k) ==
  \E i \in 1..Len(deliveries) : receipts[i].key = k /\ deliveries[i].ackedAt # NotAcked

LEMMA StatusCases ==
  ASSUME NEW k
  PROVE  /\ ~Committed(k) => Status(k) = "open"
         /\ Committed(k) /\ ~Published(k) => Status(k) = "charged"
         /\ Committed(k) /\ Published(k) => Status(k) = "published"
BY DEF Status, Committed, Published

(* No more keys of an account are charged than it has receipts.            *)
LEMMA ChargedCount ==
  ASSUME TypeOK, ChargeInv, KeyInv, NEW a \in Accounts
  PROVE  /\ Cardinality(Abstract!Charged(a)) \in Nat
         /\ Cardinality(Abstract!Charged(a)) <= account[a].total
<1> DEFINE S == OfAccount(a)
           T == Abstract!Charged(a)
           f == [i \in S |-> receipts[i].key]
<1>1. IsFiniteSet(S)
  <2>1. Len(receipts) \in Nat
    BY DEF TypeOK
  <2>2. IsFiniteSet(Events)
    BY <2>1, FS_Interval DEF Events
  <2>3. QED
    BY <2>2, FS_Subset DEF OfAccount
<1>2. \A k : k \in T <=> k \in Keys /\ k[1] = a /\ Committed(k)
  BY StatusCases DEF Abstract!Charged, Abstract!Keys, Keys
<1>3. \A i \in Events : receipts[i].key \in Keys
  <2>1. \A i \in Events : receipts[i] \in Receipt
    BY DEF TypeOK, Events
  <2>2. QED
    BY <2>1 DEF Receipt
<1>4. \A i \in S : i \in Events /\ receipts[i].key[1] = a
  BY DEF OfAccount, KeyInv
<1>5. \A i \in S : receipts[i].key \in T
  BY <1>2, <1>3, <1>4 DEF Committed
<1>6. \A k \in T : \E i \in S : receipts[i].key = k
  BY <1>2 DEF Committed, OfAccount, KeyInv
<1> HIDE DEF S, T
<1>7. f \in Surjection(S, T)
  BY <1>5, <1>6 DEF Surjection
<1>8. IsFiniteSet(T) /\ Cardinality(T) <= Cardinality(S)
  BY <1>1, <1>7, FS_Surjection
<1>9. Cardinality(S) = account[a].total
  BY DEF ChargeInv, ChargesMatchReceipts, S
<1>10. QED
  BY <1>8, <1>9, FS_CardinalityType DEF T

(* Steps that neither commit nor acknowledge are stutters of the ledger.   *)
LEMMA StatusFrame ==
  ASSUME UNCHANGED receipts, Len(deliveries') = Len(deliveries),
         \A i \in 1..Len(deliveries) : deliveries'[i].ackedAt = deliveries[i].ackedAt
  PROVE  \A k \in Keys : Status(k)' = Status(k)
BY DEF Status, Events

LEMMA LedgerCommit ==
  ASSUME TypeOK, ChargeInv, KeyInv, NEW b \in Brokers, NEW k \in Keys,
         NEW now \in Times, NEW final \in Times, Commit(b, k, now, final)
  PROVE  Abstract!Charge(k)
<1>0. PICK n, c : n = Len(receipts) + 1 /\ c = prepared[k].case
  OBVIOUS
<1>1. /\ n \in Nat \ {0} /\ Events = 1..(n - 1) /\ Events' = 1..n
      /\ \A i \in Events : receipts'[i] = receipts[i]
      /\ receipts'[n] = NewReceipt(k, b, now)
  BY <1>0, CommitEffect
<1>2. receipts'[n].key = k
  BY <1>1 DEF NewReceipt
<1>3. \A j : Committed(j)' <=> Committed(j) \/ j = k
  <2>1. \A i \in Events' : i \in Events \/ i = n
    BY <1>1
  <2>2. n \in Events' /\ \A i \in Events : i \in Events'
    BY <1>1
  <2>3. QED
    BY <1>1, <1>2, <2>1, <2>2 DEF Committed
<1>4. \A j : Published(j)' <=> Published(j)
  <2>1. deliveries \in Seq(DeliveryRow) /\ EmptyDelivery \in DeliveryRow
    BY LeaseTypes DEF EmptyDelivery, DeliveryRow
  <2>2. \A i \in 1..Len(deliveries) : i \in Events
    BY DEF TypeOK, Events
  <2>3. CASE deliveries' = deliveries
    BY <1>1, <2>2, <2>3 DEF Published
  <2>4. CASE deliveries' = Append(deliveries, EmptyDelivery)
    <3>1. /\ Len(deliveries') = Len(deliveries) + 1
          /\ \A i \in 1..Len(deliveries) : deliveries'[i] = deliveries[i]
          /\ deliveries'[Len(deliveries) + 1].ackedAt = NotAcked
      BY <2>1, <2>4, AppendType DEF EmptyDelivery
    <3>2. \A i \in 1..Len(deliveries') : i \in 1..Len(deliveries) \/ i = Len(deliveries) + 1
      BY <2>1, <3>1
    <3>3. \A i \in 1..Len(deliveries) : i \in 1..Len(deliveries')
      BY <2>1, <3>1
    <3>4. QED
      BY <1>1, <2>2, <3>1, <3>2, <3>3 DEF Published
  <2>5. QED
    BY <2>3, <2>4 DEF Commit
<1>5. ~Committed(k) /\ ~Published(k)
  <2>1. ~Committed(k)
    BY DEF Commit
  <2>2. \A i \in 1..Len(deliveries) : i \in Events
    BY DEF TypeOK, Events
  <2>3. QED
    BY <2>1, <2>2 DEF Committed, Published
<1>6. Status(k) = "open" /\ Status(k)' = "charged"
  <2>1. Committed(k)' /\ ~Published(k)'
    BY <1>3, <1>4, <1>5
  <2>2. Status(k)' = "charged"
    BY <2>1 DEF Status, Committed, Published
  <2>3. QED
    BY <1>5, <2>2, StatusCases
<1>7. \A j \in Keys : j # k => Status(j)' = Status(j)
  BY <1>3, <1>4 DEF Status, Committed, Published
<1>8. Cardinality(Abstract!Charged(k[1])) < Capacity
  <2> DEFINE a == k[1]
  <2>1. a \in Accounts
    BY DEF Keys
  <2>2. CaseAccount[c] = a /\ CapacityLeft(CaseAccount[c])
    BY <1>0 DEF Commit, KeyInv
  <2>3. account[a].total < Capacity /\ account[a].total \in Nat
    BY <2>1, <2>2 DEF CapacityLeft, TypeOK
  <2>4. /\ Cardinality(Abstract!Charged(a)) \in Nat
        /\ Cardinality(Abstract!Charged(a)) <= account[a].total
    BY <2>1, ChargedCount
  <2>5. QED
    BY <2>3, <2>4, RegistryAssumption
\* The instance has its own copy of Cardinality; both have the same body.
<1>9. Abstract!Cardinality(Abstract!Charged(k[1])) = Cardinality(Abstract!Charged(k[1]))
  BY DEF Abstract!Cardinality, Cardinality
<1>10. [j \in Keys |-> Status(j)]' = [[j \in Keys |-> Status(j)] EXCEPT ![k] = "charged"]
  BY <1>6, <1>7
<1>11. QED
  BY <1>6, <1>8, <1>9, <1>10 DEF Abstract!Charge

LEMMA LedgerAcknowledge ==
  ASSUME TypeOK, ChargeInv, LeaseInv, NEW b \in Brokers, NEW o \in Workers,
         NEW lease \in leases, NEW now \in Times, NEW final \in Times,
         Acknowledge(b, o, lease, now, final)
  PROVE  \E k \in Keys : Abstract!Publish(k)
<1>0. PICK i, k : i = lease.event /\ k = receipts[i].key
  OBVIOUS
<1>1. /\ i \in 1..Len(deliveries) /\ deliveries[i].ackedAt = NotAcked
      /\ deliveries' = [deliveries EXCEPT ![i].ackedAt = now] /\ receipts' = receipts
  BY <1>0 DEF Acknowledge, LeaseInv, GrantInv
<1>2. now \in Nat
  BY RegistryAssumption DEF Times
<1>3. /\ Len(deliveries') = Len(deliveries)
      /\ \A j \in 1..Len(deliveries) : j # i => deliveries'[j] = deliveries[j]
      /\ deliveries'[i].ackedAt # NotAcked
  <2>1. deliveries \in Seq(DeliveryRow) /\ deliveries[i] \in DeliveryRow
    BY <1>1, LeaseTypes
  <2> DEFINE row == [deliveries[i] EXCEPT !.ackedAt = now]
  <2>2. row \in DeliveryRow /\ row.ackedAt # NotAcked
    BY <1>2, <2>1 DEF DeliveryRow, NotAcked
  <2>3. deliveries' = [deliveries EXCEPT ![i] = row]
    BY <1>1
  <2>4. QED
    BY <1>1, <2>1, <2>2, <2>3, OverwriteType
<1>4. \A j \in 1..Len(deliveries) : j \in Events
  BY DEF TypeOK, Events
<1>5. k \in Keys
  <2>1. receipts[i] \in Receipt
    BY <1>1, <1>4 DEF TypeOK, Events
  <2>2. QED
    BY <1>0, <2>1 DEF Receipt
<1>6. \A j \in Events : receipts[j].key = k => j = i
  BY <1>0, <1>1, <1>4 DEF ChargeInv, ChargesMatchReceipts
<1>7. Committed(k) /\ ~Published(k)
  BY <1>0, <1>1, <1>4, <1>6 DEF Committed, Published
<1>8. Status(k) = "charged" /\ Status(k)' = "published"
  <2>1. Committed(k)' /\ Published(k)'
    BY <1>0, <1>1, <1>3, <1>4 DEF Committed, Published, Events
  <2>2. Status(k)' = "published"
    BY <2>1 DEF Status, Committed, Published
  <2>3. QED
    BY <1>7, <2>2, StatusCases
<1>9. \A j \in Keys : j # k => Status(j)' = Status(j)
  <2> SUFFICES ASSUME NEW j \in Keys, j # k PROVE Status(j)' = Status(j)
    OBVIOUS
  <2>1. Published(j)' <=> Published(j)
    BY <1>0, <1>1, <1>3 DEF Published
  <2>2. Committed(j)' <=> Committed(j)
    BY <1>1 DEF Committed, Events
  <2>3. QED
    BY <2>1, <2>2 DEF Status, Committed, Published
<1>10. [j \in Keys |-> Status(j)]' = [[j \in Keys |-> Status(j)] EXCEPT ![k] = "published"]
  BY <1>8, <1>9
<1>11. QED
  BY <1>5, <1>8, <1>10 DEF Abstract!Publish

(* Every step of the registry is a step of the ledger or leaves it alone.  *)
LEMMA LedgerStep ==
  ASSUME TypeOK, ChargeInv, LeaseInv, KeyInv, [Next]_vars
  PROVE  Abstract!Next \/ UNCHANGED [k \in Keys |-> Status(k)]
<1>1. ASSUME \A k \in Keys : Status(k)' = Status(k)
      PROVE  UNCHANGED [k \in Keys |-> Status(k)]
  BY <1>1
<1>2. CASE Quiet
  <2>1. \A k \in Keys : Status(k)' = Status(k)
    BY <1>2, StatusFrame DEF Quiet
  <2>2. QED
    BY <1>1, <2>1
<1>3. ASSUME NEW now \in Times, NEW final \in Times, Migrate(now, final)
      PROVE  \A k \in Keys : Status(k)' = Status(k)
  <2>1. /\ Len(deliveries) = 0 /\ receipts' = receipts
        /\ deliveries' = [i \in 1..Len(receipts) |-> EmptyDelivery]
        /\ Len(receipts) \in Nat
    BY <1>3 DEF Migrate, TypeOK, Events
  <2>2. \A i \in 1..Len(deliveries') : deliveries'[i].ackedAt = NotAcked
    BY <2>1 DEF EmptyDelivery
  <2>3. \A k : ~Published(k) /\ ~Published(k)'
    BY <2>1, <2>2 DEF Published
  <2>4. QED
    BY <2>1, <2>3 DEF Status, Published, Events
<1>4. ASSUME NEW b \in Brokers, NEW now \in Times, NEW final \in Times,
             ActivateBroker(b, now, final)
      PROVE  \A k \in Keys : Status(k)' = Status(k)
  BY <1>4, StatusFrame DEF ActivateBroker
<1>5. ASSUME NEW b \in Brokers, NEW k \in Keys, NEW now \in Times, NEW final \in Times,
             Commit(b, k, now, final)
      PROVE  Abstract!Next
  <2>1. Abstract!Charge(k)
    BY <1>5, LedgerCommit
  <2>2. QED
    BY <2>1 DEF Abstract!Next, Abstract!Keys, Keys
<1>6. ASSUME NEW b \in Brokers, NEW o \in Workers, NEW c \in Cases, NEW seconds \in LeaseSeconds,
             NEW now \in Times, NEW final \in Times, ClaimOutbox(b, o, c, seconds, now, final)
      PROVE  \A k \in Keys : Status(k)' = Status(k)
  <2>1. PICK i \in Available(c, now) :
          deliveries' = [deliveries EXCEPT ![i].lease = NewLease(i, b, o, seconds, now)]
    BY <1>6 DEF ClaimOutbox
  <2> DEFINE lease == NewLease(i, b, o, seconds, now)
             row == [deliveries[i] EXCEPT !.lease = lease]
  <2>2. deliveries \in Seq(DeliveryRow) /\ receipts' = receipts /\ i \in 1..Len(deliveries)
    BY <1>6, LeaseTypes DEF ClaimOutbox, Available, Events, TypeOK
  <2>3. deliveries[i] \in DeliveryRow
    BY <2>2
  <2>4. row.ackedAt = deliveries[i].ackedAt /\ deliveries' = [deliveries EXCEPT ![i] = row]
    BY <2>1, <2>3 DEF DeliveryRow
  <2> HIDE DEF row
  <2>5. /\ Len(deliveries') = Len(deliveries)
        /\ \A j \in 1..Len(deliveries) : deliveries'[j].ackedAt = deliveries[j].ackedAt
    BY <2>2, <2>4
  <2>6. QED
    BY <2>2, <2>5, StatusFrame
<1>7. ASSUME NEW b \in Brokers, NEW o \in Workers, NEW lease \in leases, NEW now \in Times,
             NEW final \in Times, Acknowledge(b, o, lease, now, final)
      PROVE  Abstract!Next
  <2>1. \E k \in Keys : Abstract!Publish(k)
    BY <1>7, LedgerAcknowledge
  <2>2. QED
    BY <2>1 DEF Abstract!Next, Abstract!Keys, Keys
<1>8. QED
  BY <1>1, <1>2, <1>3, <1>4, <1>5, <1>6, <1>7, StepCases

LEMMA LedgerInit == Init => Abstract!Init
<1> SUFFICES ASSUME Init PROVE Abstract!Init
  OBVIOUS
<1>1. \A k \in Keys : Status(k) = "open"
  BY DEF Init, Status, Events
<1>2. QED
  BY <1>1 DEF Abstract!Init, Abstract!Keys, Keys

(* The registry is a ledger: whatever its brokers, heads, clocks, leases   *)
(* and migrations do, its callers see requests charged once, within the    *)
(* capacity, for ever, and published at most once (store.py: commit,       *)
(* acknowledge).                                                           *)
THEOREM LedgerCorrect == Spec => ImplementsLedger
<1>1. TypeOK /\ ChargeInv /\ LeaseInv /\ KeyInv /\ [Next]_vars
        => [Abstract!Next]_([k \in Keys |-> Status(k)])
  BY LedgerStep
<1>2. Init => KeyInv
  BY KeyInit
<1>3. TypeOK /\ KeyInv /\ [Next]_vars => KeyInv'
  BY KeyStep
<1>4. Spec => [](TypeOK /\ ChargeInv)
  BY ChargesInvariant
<1>5. Spec => [](TypeOK /\ LeaseInv)
  BY LeasesInvariant
<1>6. Init => Abstract!Init
  BY LedgerInit
<1>7. Spec => Abstract!Init /\ [][Abstract!Next]_([k \in Keys |-> Status(k)])
  BY <1>1, <1>2, <1>3, <1>4, <1>5, <1>6, PTL DEF Spec
<1>8. QED
  BY <1>7, PTL DEF ImplementsLedger, Abstract!Spec
-----------------------------------------------------------------------------
(* Publication: the outbox drained into the receiver.  What the receiver   *)
(* applied are events of the registry, each once, and an acknowledged      *)
(* event is among them, because a worker acknowledges only a lease whose   *)
(* event the receiver confirmed.                                           *)
AppliedRow == [event : Nat, key : Keys, appliedAt : Nat]

AppliedOK ==
  /\ applied \in Seq(AppliedRow)
  /\ \A j \in 1..Len(applied) :
       applied[j].event \in Events /\ applied[j].key = receipts[applied[j].event].key
  /\ \A j, l \in 1..Len(applied) : applied[j].event = applied[l].event => j = l

Acked(i) == i \in 1..Len(deliveries) /\ deliveries[i].ackedAt # NotAcked

AckedAreApplied == \A i : Acked(i) => Applied(i)

Task(pc, lease) == [pc |-> pc, lease |-> lease]

TaskOK(w) ==
  \/ task[w] = NoTask
  \/ \E pc \in {"claimed", "received"}, lease \in leases :
       task[w] = Task(pc, lease) /\ (pc = "received" => Applied(lease.event))

TasksOK ==
  /\ \E f : task = [w \in Workers |-> f[w]]
  /\ \A w \in Workers : TaskOK(w)

PublicationInv == AppliedOK /\ AckedAreApplied /\ TasksOK

LEMMA TaskIs ==
  ASSUME NEW pc, NEW lease
  PROVE  /\ Task(pc, lease) # NoTask
         /\ Task(pc, lease).pc = pc /\ Task(pc, lease).lease = lease
         /\ \A new : [Task(pc, lease) EXCEPT !.pc = new] = Task(new, lease)
BY DEF Task, NoTask

LEMMA TaskHeld ==
  ASSUME TasksOK, NEW w \in Workers, task[w] # NoTask
  PROVE  \E pc \in {"claimed", "received"}, lease \in leases :
           /\ task[w] = Task(pc, lease) /\ task[w].pc = pc /\ task[w].lease = lease
           /\ pc = "received" => Applied(lease.event)
BY TaskIs DEF TasksOK, TaskOK

(* Registry steps that acknowledge nothing.                                *)
NothingAcked == \A i : Acked(i)' => Acked(i)

LEMMA SameDeliveries ==
  ASSUME deliveries' = deliveries
  PROVE  NothingAcked
BY DEF NothingAcked, Acked

LEMMA CommitAcks ==
  ASSUME TypeOK, NEW b \in Brokers, NEW k \in Keys, NEW now, NEW final, Commit(b, k, now, final)
  PROVE  NothingAcked
<1>1. deliveries' = deliveries \/ deliveries' = Append(deliveries, EmptyDelivery)
  BY DEF Commit
<1>2. CASE deliveries' = Append(deliveries, EmptyDelivery)
  <2>1. deliveries \in Seq(DeliveryRow) /\ EmptyDelivery \in DeliveryRow
    BY LeaseTypes DEF EmptyDelivery, DeliveryRow
  <2>2. /\ Len(deliveries') = Len(deliveries) + 1 /\ Len(deliveries) \in Nat
        /\ \A i \in 1..Len(deliveries) : deliveries'[i] = deliveries[i]
        /\ deliveries'[Len(deliveries) + 1].ackedAt = NotAcked
    BY <1>2, <2>1, AppendType DEF EmptyDelivery
  <2>3. \A i \in 1..Len(deliveries') : i \in 1..Len(deliveries) \/ i = Len(deliveries) + 1
    BY <2>2
  <2>4. QED
    BY <2>2, <2>3 DEF NothingAcked, Acked
<1>3. QED
  BY <1>1, <1>2, SameDeliveries

LEMMA MigrateAcks ==
  ASSUME TypeOK, NEW now, NEW final, Migrate(now, final)
  PROVE  NothingAcked
<1>1. Len(receipts) \in Nat /\ deliveries' = [i \in 1..Len(receipts) |-> EmptyDelivery]
  BY DEF Migrate, TypeOK, Events
<1>2. \A i \in 1..Len(deliveries') : deliveries'[i].ackedAt = NotAcked
  BY <1>1 DEF EmptyDelivery
<1>3. QED
  BY <1>2 DEF NothingAcked, Acked

LEMMA RegistryStepKeeps ==
  ASSUME TypeOK, NEW b \in Brokers, NEW now \in Times, NEW final \in Times,
         RegistryStep(b, now, final)
  PROVE  [Next]_vars /\ leases \subseteq leases' /\ NothingAcked
<1>1. Next
  BY DEF RegistryStep, Next
<1>2. /\ Migrate(now, final) => leases' = leases /\ NothingAcked
      /\ \A k \in Keys : Commit(b, k, now, final) => leases' = leases /\ NothingAcked
  BY MigrateAcks, CommitAcks DEF Migrate, Commit
<1>3. /\ Inspect(b, now, final) => leases' = leases /\ deliveries' = deliveries
      /\ Observe(b, now, final) => leases' = leases /\ deliveries' = deliveries
      /\ ActivateBroker(b, now, final) => leases' = leases /\ deliveries' = deliveries
  BY DEF Inspect, Observe, ActivateBroker, stored
<1>4. \A c \in Cases, r \in RequestIds :
        Prepare(b, c, r, now, final) => leases' = leases /\ deliveries' = deliveries
  BY DEF Prepare, stored
<1>5. leases' = leases /\ NothingAcked
  BY <1>2, <1>3, <1>4, SameDeliveries DEF RegistryStep
<1>6. QED
  BY <1>1, <1>5

LEMMA ClaimAcks ==
  ASSUME TypeOK, NEW b \in Brokers, NEW o \in Workers, NEW c \in Cases,
         NEW seconds \in LeaseSeconds, NEW now \in Times, NEW final \in Times,
         ClaimOutbox(b, o, c, seconds, now, final)
  PROVE  [Next]_vars /\ leases \subseteq leases' /\ NothingAcked
<1>1. PICK i \in Available(c, now) :
        /\ deliveries' = [deliveries EXCEPT ![i].lease = NewLease(i, b, o, seconds, now)]
        /\ leases' = leases \cup {NewLease(i, b, o, seconds, now)}
  BY DEF ClaimOutbox
<1>2. PICK lease : lease = NewLease(i, b, o, seconds, now)
  OBVIOUS
<1>3. PICK row : row = [deliveries[i] EXCEPT !.lease = lease]
  OBVIOUS
<1>4. deliveries \in Seq(DeliveryRow) /\ i \in 1..Len(deliveries)
  BY LeaseTypes DEF ClaimOutbox, Available, Events, TypeOK
<1>5. deliveries[i] \in DeliveryRow
  BY <1>4
<1>6. row.ackedAt = deliveries[i].ackedAt /\ deliveries' = [deliveries EXCEPT ![i] = row]
  BY <1>1, <1>2, <1>3, <1>5 DEF DeliveryRow
<1>7. /\ Len(deliveries') = Len(deliveries)
      /\ \A j \in 1..Len(deliveries) : deliveries'[j].ackedAt = deliveries[j].ackedAt
  BY <1>4, <1>6
<1>8. NothingAcked
  BY <1>7 DEF NothingAcked, Acked
<1>9. Next
  BY DEF Next
<1>10. QED
  BY <1>1, <1>8, <1>9

LEMMA AcknowledgeAcks ==
  ASSUME TypeOK, LeaseInv, NEW b \in Brokers, NEW o \in Workers, NEW lease \in leases,
         NEW now \in Times, NEW final \in Times, Acknowledge(b, o, lease, now, final)
  PROVE  [Next]_vars /\ leases' = leases /\ \A i : Acked(i)' => Acked(i) \/ i = lease.event
<1>1. PICK n : n = lease.event
  OBVIOUS
<1>2. /\ n \in 1..Len(deliveries) /\ deliveries' = [deliveries EXCEPT ![n].ackedAt = now]
      /\ leases' = leases
  BY <1>1 DEF Acknowledge, LeaseInv, GrantInv
<1>3. deliveries \in Seq(DeliveryRow)
  BY LeaseTypes
<1>4. /\ Len(deliveries') = Len(deliveries)
      /\ \A j \in 1..Len(deliveries) : j # n => deliveries'[j] = deliveries[j]
  BY <1>2, <1>3
<1>5. \A i : Acked(i)' => Acked(i) \/ i = n
  BY <1>4 DEF Acked
<1>6. Next
  BY DEF Next
<1>7. QED
  BY <1>1, <1>2, <1>5, <1>6

(* Steps of the registry leave what the receiver applied as it is.         *)
LEMMA AppliedStays ==
  ASSUME TypeOK, Permanent, AppliedOK, applied' = applied
  PROVE  AppliedOK' /\ \A event : Applied(event)' <=> Applied(event)
<1>1. Len(receipts) \in Nat /\ Len(receipts') >= Len(receipts) /\ Len(receipts') \in Int
  BY DEF TypeOK, Permanent
<1>2. \A i \in Events : i \in Events' /\ receipts'[i] = receipts[i]
  BY <1>1 DEF Events, Permanent
<1>3. \A event : Applied(event)' <=> Applied(event)
  BY DEF Applied
<1>4. QED
  BY <1>2, <1>3 DEF AppliedOK

LEMMA TasksStay ==
  ASSUME TasksOK, leases \subseteq leases', \A event : Applied(event) => Applied(event)',
         NEW w \in Workers, NEW t, task' = [task EXCEPT ![w] = t],
         \/ t = NoTask
         \/ \E pc \in {"claimed", "received"}, lease \in leases' :
              t = Task(pc, lease) /\ (pc = "received" => Applied(lease.event)')
  PROVE  TasksOK'
<1>1. PICK f : task = [v \in Workers |-> f[v]]
  BY DEF TasksOK
<1>2. PICK g : g = [f EXCEPT ![w] = t]
  OBVIOUS
<1>3. task' = [v \in Workers |-> IF v = w THEN t ELSE task[v]]
  BY <1>1
<1>4. PICK h : h = [v \in Workers |-> IF v = w THEN t ELSE task[v]]
  OBVIOUS
<1>5. task' = [v \in Workers |-> h[v]]
  BY <1>3, <1>4
<1>6. \A v \in Workers : TaskOK(v)'
  <2>1. SUFFICES ASSUME NEW v \in Workers PROVE TaskOK(v)'
    OBVIOUS
  <2>2. CASE v = w
    BY <1>3, <2>2 DEF TaskOK
  <2>3. CASE v # w
    <3>1. TaskOK(v) /\ task'[v] = task[v]
      BY <1>3, <2>3 DEF TasksOK
    <3>2. QED
      BY <3>1 DEF TaskOK
  <2>4. QED
    BY <2>2, <2>3
<1>7. QED
  BY <1>5, <1>6 DEF TasksOK

LEMMA SameTasks ==
  ASSUME TasksOK, leases \subseteq leases', \A event : Applied(event) => Applied(event)',
         task' = task
  PROVE  TasksOK'
BY DEF TasksOK, TaskOK

RegistryInv == TypeOK /\ ChargeInv /\ LeaseInv

LEMMA ClaimKeeps ==
  ASSUME RegistryInv, PublicationInv, NEW w \in Workers, NEW b \in Brokers, NEW c \in Cases,
         NEW seconds \in LeaseSeconds, NEW now \in Times, NEW final \in Times,
         Claim(w, b, c, seconds, now, final)
  PROVE  [Next]_vars /\ PublicationInv'
<1>1. [Next]_vars /\ leases \subseteq leases' /\ NothingAcked /\ applied' = applied
  BY ClaimAcks DEF Claim, RegistryInv
<1>2. Permanent
  BY <1>1, PermanentStep DEF RegistryInv
<1>3. AppliedOK' /\ \A event : Applied(event)' <=> Applied(event)
  BY <1>1, <1>2, AppliedStays DEF RegistryInv, PublicationInv
<1>4. AckedAreApplied'
  BY <1>1, <1>3 DEF PublicationInv, AckedAreApplied, NothingAcked
<1>5. TasksOK'
  <2>1. CASE task' = task
    BY <1>1, <1>3, <2>1, SameTasks DEF PublicationInv
  <2>2. CASE \E lease \in leases' \ leases :
               task' = [task EXCEPT ![w] = [pc |-> "claimed", lease |-> lease]]
    <3>1. PICK lease \in leases' : task' = [task EXCEPT ![w] = Task("claimed", lease)]
      BY <2>2 DEF Task
    <3>2. QED
      BY <1>1, <1>3, <3>1, TasksStay DEF PublicationInv
  <2>3. QED
    BY <2>1, <2>2 DEF Claim
<1>6. QED
  BY <1>1, <1>3, <1>4, <1>5 DEF PublicationInv

LEMMA ConfirmKeeps ==
  ASSUME RegistryInv, PublicationInv, NEW w \in Workers, NEW b \in Brokers,
         NEW now \in Times, NEW final \in Times, Confirm(w, b, now, final)
  PROVE  [Next]_vars /\ PublicationInv'
<1>1. PICK lease \in leases : task[w].lease = lease /\ Applied(lease.event)
  BY TaskHeld DEF Confirm, HasReceipt, PublicationInv
<1>2. Acknowledge(b, w, lease, now, final) /\ applied' = applied
  BY <1>1 DEF Confirm
<1>3. [Next]_vars /\ leases' = leases /\ \A i : Acked(i)' => Acked(i) \/ i = lease.event
  BY <1>2, AcknowledgeAcks DEF RegistryInv
<1>4. Permanent
  BY <1>3, PermanentStep DEF RegistryInv
<1>5. AppliedOK' /\ \A event : Applied(event)' <=> Applied(event)
  BY <1>2, <1>4, AppliedStays DEF RegistryInv, PublicationInv
<1>6. AckedAreApplied'
  BY <1>1, <1>3, <1>5 DEF PublicationInv, AckedAreApplied
<1>7. TasksOK'
  <2>1. CASE task' = task
    BY <1>3, <1>5, <2>1, SameTasks DEF PublicationInv
  <2>2. CASE task' = [task EXCEPT ![w] = NoTask]
    BY <1>3, <1>5, <2>2, TasksStay DEF PublicationInv
  <2>3. QED
    BY <2>1, <2>2 DEF Confirm
<1>8. QED
  BY <1>3, <1>5, <1>6, <1>7 DEF PublicationInv

LEMMA RegistryKeeps ==
  ASSUME RegistryInv, PublicationInv, NEW b \in Brokers, NEW now \in Times, NEW final \in Times,
         RegistryStep(b, now, final), UNCHANGED publication
  PROVE  [Next]_vars /\ PublicationInv'
<1>1. [Next]_vars /\ leases \subseteq leases' /\ NothingAcked
  BY RegistryStepKeeps DEF RegistryInv
<1>2. Permanent
  BY <1>1, PermanentStep DEF RegistryInv
<1>3. applied' = applied /\ task' = task
  BY DEF publication
<1>4. AppliedOK' /\ \A event : Applied(event)' <=> Applied(event)
  BY <1>2, <1>3, AppliedStays DEF RegistryInv, PublicationInv
<1>5. AckedAreApplied'
  BY <1>1, <1>4 DEF PublicationInv, AckedAreApplied, NothingAcked
<1>6. TasksOK'
  BY <1>1, <1>3, <1>4, SameTasks DEF PublicationInv
<1>7. QED
  BY <1>1, <1>4, <1>5, <1>6 DEF PublicationInv

(* What a delivery adds to the receiver: nothing, or its event.            *)
LEMMA ReceiveApplies ==
  ASSUME RegistryInv, PublicationInv, NEW w \in Workers, NEW now \in Times, NEW final \in Times,
         Receive(w, now, final)
  PROVE  \E lease \in leases :
           /\ task[w] = Task("claimed", lease) /\ lease.event \in Events
           /\ \/ Applied(lease.event) /\ applied' = applied
              \/ /\ ~Applied(lease.event) /\ applied' \in Seq(AppliedRow)
                 /\ Len(applied) \in Nat /\ Len(applied') = Len(applied) + 1
                 /\ \A j \in 1..Len(applied) : applied'[j] = applied[j]
                 /\ applied'[Len(applied) + 1].event = lease.event
                 /\ applied'[Len(applied) + 1].key = receipts[lease.event].key
<1>1. PICK lease \in leases :
        task[w] = Task("claimed", lease) /\ task[w].lease = lease
  BY TaskHeld DEF Receive, PublicationInv
<1>2. lease.event \in Events
  BY DEF RegistryInv, TypeOK, LeaseInv, GrantInv, Events
<1>3. CASE Applied(lease.event)
  BY <1>1, <1>2, <1>3 DEF Receive
<1>4. CASE ~Applied(lease.event)
  <2>1. PICK row : row = [event |-> lease.event, key |-> receipts[lease.event].key,
                          appliedAt |-> final]
    OBVIOUS
  <2>2. applied' = Append(applied, row)
    BY <1>1, <1>4, <2>1 DEF Receive
  <2>3. receipts[lease.event] \in Receipt /\ lease.event \in Nat /\ final \in Nat
    BY <1>2, RegistryAssumption DEF RegistryInv, TypeOK, Events, Times
  <2>4. row \in AppliedRow /\ row.event = lease.event /\ row.key = receipts[lease.event].key
    BY <2>1, <2>3 DEF AppliedRow, Receipt
  <2>5. applied \in Seq(AppliedRow)
    BY DEF PublicationInv, AppliedOK
  <2>6. QED
    BY <1>1, <1>2, <1>4, <2>2, <2>4, <2>5, AppendType
<1>5. QED
  BY <1>3, <1>4

LEMMA ReceiveKeeps ==
  ASSUME RegistryInv, PublicationInv, NEW w \in Workers, NEW now \in Times, NEW final \in Times,
         Receive(w, now, final)
  PROVE  PublicationInv'
<1>1. PICK lease \in leases :
        /\ task[w] = Task("claimed", lease) /\ lease.event \in Events
        /\ \/ Applied(lease.event) /\ applied' = applied
           \/ /\ ~Applied(lease.event) /\ applied' \in Seq(AppliedRow)
              /\ Len(applied) \in Nat /\ Len(applied') = Len(applied) + 1
              /\ \A j \in 1..Len(applied) : applied'[j] = applied[j]
              /\ applied'[Len(applied) + 1].event = lease.event
              /\ applied'[Len(applied) + 1].key = receipts[lease.event].key
  BY ReceiveApplies
<1>2. UNCHANGED <<receipts, deliveries, leases>>
  BY DEF Receive, vars, stored
<1>3. /\ AppliedOK' /\ Applied(lease.event)'
      /\ \A event : Applied(event) => Applied(event)'
  <2>1. CASE Applied(lease.event) /\ applied' = applied
    BY <1>2, <2>1 DEF PublicationInv, AppliedOK, Applied, Events
  <2>2. CASE ~Applied(lease.event) /\ applied' # applied
    <3>1. PICK n : n = Len(applied) + 1
      OBVIOUS
    <3>2. /\ \A j \in 1..Len(applied') : j \in 1..Len(applied) \/ j = n
          /\ \A j \in 1..Len(applied) : j \in 1..Len(applied') /\ applied'[j] = applied[j]
          /\ n \in 1..Len(applied') /\ applied'[n].event = lease.event
          /\ applied'[n].key = receipts[lease.event].key
          /\ applied' \in Seq(AppliedRow)
      BY <1>1, <2>2, <3>1
    <3>3. /\ \A j \in 1..Len(applied) : applied[j].event # lease.event
          /\ \A event : Applied(event) => Applied(event)'
          /\ Applied(lease.event)'
      BY <2>2, <3>2 DEF Applied
    <3>4. \A j \in 1..Len(applied') : /\ applied'[j].event \in Events
                                      /\ applied'[j].key = receipts[applied'[j].event].key
      BY <1>1, <3>2 DEF PublicationInv, AppliedOK
    <3>5. \A j, l \in 1..Len(applied') : applied'[j].event = applied'[l].event => j = l
      BY <3>2, <3>3 DEF PublicationInv, AppliedOK
    <3>6. QED
      BY <1>2, <3>2, <3>3, <3>4, <3>5 DEF AppliedOK, Events
  <2>3. applied' # applied \/ Applied(lease.event)
    BY <1>1
  <2>4. QED
    BY <1>1, <2>1, <2>2, <2>3
<1>4. AckedAreApplied'
  BY <1>2, <1>3 DEF PublicationInv, AckedAreApplied, Acked
<1>5. TasksOK'
  <2>1. CASE task' = task
    BY <1>2, <1>3, <2>1, SameTasks DEF PublicationInv
  <2>2. CASE task' = [task EXCEPT ![w].pc = "received"]
    <3>1. [Task("claimed", lease) EXCEPT !.pc = "received"] = Task("received", lease)
      BY TaskIs
    <3>2. task' = [task EXCEPT ![w] = Task("received", lease)]
      BY <1>1, <2>2, <3>1
    <3>3. QED
      BY <1>2, <1>3, <3>2, TasksStay DEF PublicationInv
  <2>3. QED
    BY <2>1, <2>2 DEF Receive
<1>6. QED
  BY <1>3, <1>4, <1>5 DEF PublicationInv

LEMMA ForgetKeeps ==
  ASSUME PublicationInv, NEW w \in Workers, Forget(w)
  PROVE  PublicationInv'
<1>1. /\ UNCHANGED <<receipts, deliveries, leases>> /\ applied' = applied
      /\ task' = [task EXCEPT ![w] = NoTask]
  BY DEF Forget, vars, stored
<1>2. AppliedOK' /\ AckedAreApplied' /\ \A event : Applied(event) => Applied(event)'
  BY <1>1 DEF PublicationInv, AppliedOK, AckedAreApplied, Acked, Applied, Events
<1>3. TasksOK'
  BY <1>1, <1>2, TasksStay DEF PublicationInv
<1>4. QED
  BY <1>2, <1>3 DEF PublicationInv

LEMMA PublicationInit0 == PublicationInit => Init /\ PublicationInv
<1>1. SUFFICES ASSUME PublicationInit PROVE Init /\ PublicationInv
  OBVIOUS
<1>2. Init /\ applied = << >> /\ task = [w \in Workers |-> NoTask]
  BY <1>1 DEF PublicationInit
<1>3. PICK f : f = [w \in Workers |-> NoTask]
  OBVIOUS
<1>4. task = [w \in Workers |-> f[w]] /\ \A w \in Workers : task[w] = NoTask
  BY <1>2, <1>3
<1>5. Len(deliveries) = 0 /\ Len(applied) = 0 /\ applied \in Seq(AppliedRow)
  BY <1>2 DEF Init
<1>6. AppliedOK /\ AckedAreApplied
  BY <1>5 DEF AppliedOK, AckedAreApplied, Acked
<1>7. TasksOK
  BY <1>4 DEF TasksOK, TaskOK
<1>8. QED
  BY <1>2, <1>6, <1>7 DEF PublicationInv

(* Every step is a delivery or a step of the registry, or leaves both be.  *)
LEMMA PublicationStep ==
  ASSUME RegistryInv, PublicationInv, [PublicationNext]_allVars
  PROVE  /\ [Next]_vars /\ PublicationInv'
         /\ \/ applied' = applied
            \/ \E w \in Workers, now, final \in Times : Receive(w, now, final)
<1>1. CASE UNCHANGED allVars
  <2>1. UNCHANGED vars /\ UNCHANGED <<receipts, deliveries, leases, applied, task>>
    BY <1>1 DEF allVars, publication, vars, stored
  <2>2. PublicationInv'
    BY <2>1 DEF PublicationInv, AppliedOK, AckedAreApplied, Acked, Applied, Events,
                TasksOK, TaskOK
  <2>3. QED
    BY <2>1, <2>2
<1>2. CASE \E w \in Workers : Forget(w)
  <2>1. PublicationInv'
    BY <1>2, ForgetKeeps
  <2>2. UNCHANGED vars /\ applied' = applied
    BY <1>2 DEF Forget
  <2>3. QED
    BY <2>1, <2>2
<1>3. CASE \E w \in Workers, now, final \in Times : Receive(w, now, final)
  <2>1. PublicationInv'
    BY <1>3, ReceiveKeeps
  <2>2. UNCHANGED vars
    BY <1>3 DEF Receive
  <2>3. QED
    BY <1>3, <2>1, <2>2
<1>4. CASE \E b \in Brokers, now, final \in Times :
             RegistryStep(b, now, final) /\ UNCHANGED publication
  <2>1. applied' = applied
    BY <1>4 DEF publication
  <2>2. QED
    BY <1>4, <2>1, RegistryKeeps
<1>5. CASE \E b \in Brokers, now, final \in Times, w \in Workers, c \in Cases,
              seconds \in LeaseSeconds : Claim(w, b, c, seconds, now, final)
  <2>1. applied' = applied
    BY <1>5 DEF Claim
  <2>2. QED
    BY <1>5, <2>1, ClaimKeeps
<1>6. CASE \E b \in Brokers, now, final \in Times, w \in Workers : Confirm(w, b, now, final)
  <2>1. applied' = applied
    BY <1>6 DEF Confirm
  <2>2. QED
    BY <1>6, <2>1, ConfirmKeeps
<1>7. QED
  BY <1>1, <1>2, <1>3, <1>4, <1>5, <1>6 DEF PublicationNext

(* The registry runs as before under the workers and the receiver, so that *)
(* everything proved of it holds of the composition.                       *)
THEOREM PublicationIsRegistry == PublicationSpec => Spec
<1>1. PublicationInit => Init /\ PublicationInv
  BY PublicationInit0
<1>2. RegistryInv /\ PublicationInv /\ [PublicationNext]_allVars
        => [Next]_vars /\ PublicationInv'
  BY PublicationStep
<1>3. Init => TypeOK /\ ChargeInv /\ LeaderInv /\ LeaseInv
  BY InitType, ChargeInit, LeaderInit, LeaseInit
<1>4. TypeOK /\ ChargeInv /\ LeaderInv /\ LeaseInv /\ [Next]_vars
        => TypeOK' /\ ChargeInv' /\ LeaderInv' /\ LeaseInv'
  BY NextType, ChargeKept, LeaderStep, LeaseStep
<1>5. TypeOK /\ ChargeInv /\ LeaseInv => RegistryInv
  BY DEF RegistryInv
<1>6. QED
  BY <1>1, <1>2, <1>3, <1>4, <1>5, PTL DEF PublicationSpec, Spec

LEMMA PublicationInvariant == PublicationSpec => [](RegistryInv /\ KeyInv /\ PublicationInv)
<1>1. PublicationInit => PublicationInv
  BY PublicationInit0
<1>2. RegistryInv /\ PublicationInv /\ [PublicationNext]_allVars => PublicationInv'
  BY PublicationStep
<1>3. Init => KeyInv
  BY KeyInit
<1>4. TypeOK /\ KeyInv /\ [Next]_vars => KeyInv'
  BY KeyStep
<1>5. TypeOK /\ ChargeInv /\ LeaseInv => RegistryInv
  BY DEF RegistryInv
<1>6. PublicationSpec => [](TypeOK /\ ChargeInv)
  BY PublicationIsRegistry, ChargesInvariant, PTL
<1>7. PublicationSpec => [](TypeOK /\ LeaseInv)
  BY PublicationIsRegistry, LeasesInvariant, PTL
<1>8. PublicationSpec => []RegistryInv
  BY <1>5, <1>6, <1>7, PTL
<1>9. PublicationSpec => []KeyInv
  BY <1>3, <1>4, <1>6, PublicationIsRegistry, PTL DEF Spec
<1>10. QED
  BY <1>1, <1>2, <1>8, <1>9, PTL DEF PublicationSpec

(* The three variables of the promise, as the composition keeps them.      *)
CommittedKeys == {k \in Keys : \E i \in Events : receipts[i].key = k}
Effect(k) == Cardinality({i \in 1..Len(applied) : applied[i].key = k})
Effects == [k \in Keys |-> Effect(k)]
AckedKeys ==
  {k \in Keys : \E i \in 1..Len(deliveries) :
                  receipts[i].key = k /\ deliveries[i].ackedAt # NotAcked}

HasEffect(k) == \E j \in 1..Len(applied) : applied[j].key = k

(* A request has one effect or none, because its key has one receipt.      *)
LEMMA EffectIs ==
  ASSUME RegistryInv, PublicationInv, NEW k
  PROVE  Effect(k) = IF HasEffect(k) THEN 1 ELSE 0
<1>1. PICK S : S = {i \in 1..Len(applied) : applied[i].key = k}
  OBVIOUS
<1>2. CASE HasEffect(k)
  <2>1. PICK j \in 1..Len(applied) : applied[j].key = k
    BY <1>2 DEF HasEffect
  <2>2. \A l \in 1..Len(applied) : applied[l].key = k => l = j
    BY <2>1 DEF RegistryInv, ChargeInv, ChargesMatchReceipts, PublicationInv, AppliedOK
  <2>3. S = {j}
    BY <1>1, <2>1, <2>2
  <2>4. QED
    BY <1>1, <1>2, <2>3, FS_Singleton DEF Effect
<1>3. CASE ~HasEffect(k)
  <2>1. S = {}
    BY <1>1, <1>3 DEF HasEffect
  <2>2. QED
    BY <1>1, <1>3, <2>1, FS_EmptySet DEF Effect
<1>4. QED
  BY <1>2, <1>3

LEMMA KeysByStatus ==
  ASSUME TypeOK
  PROVE  /\ CommittedKeys = {k \in Keys : Status(k) # "open"}
         /\ AckedKeys = {k \in Keys : Status(k) = "published"}
<1>1. \A i \in 1..Len(deliveries) : i \in Events
  BY DEF TypeOK, Events
<1>2. ASSUME NEW k \in Keys
      PROVE  /\ Committed(k) <=> Status(k) # "open"
             /\ Published(k) <=> Status(k) = "published"
  <2>1. Published(k) => Committed(k)
    BY <1>1 DEF Published, Committed
  <2>2. QED
    BY <2>1, StatusCases
<1>3. /\ \A k \in Keys : k \in CommittedKeys <=> Status(k) # "open"
      /\ \A k \in Keys : k \in AckedKeys <=> Status(k) = "published"
  BY <1>2 DEF CommittedKeys, AckedKeys, Committed, Published
<1>4. CommittedKeys \subseteq Keys /\ AckedKeys \subseteq Keys
  BY DEF CommittedKeys, AckedKeys
<1>5. QED
  BY <1>3, <1>4

(* The event of an acknowledged request was applied.                       *)
LEMMA AckedHasEffect ==
  ASSUME RegistryInv, PublicationInv, NEW k \in AckedKeys
  PROVE  HasEffect(k)
<1>1. PICK i \in 1..Len(deliveries) : receipts[i].key = k /\ deliveries[i].ackedAt # NotAcked
  BY DEF AckedKeys
<1>2. Applied(i)
  BY <1>1 DEF PublicationInv, AckedAreApplied, Acked
<1>3. PICK j \in 1..Len(applied) : applied[j].event = i
  BY <1>2 DEF Applied
<1>4. QED
  BY <1>1, <1>3 DEF HasEffect, PublicationInv, AppliedOK

(* What the invariants say of the three variables, in every state.         *)
PromiseKept ==
  /\ \A k \in Keys : Effect(k) = IF HasEffect(k) THEN 1 ELSE 0
  /\ CommittedKeys = {k \in Keys : Status(k) # "open"}
  /\ AckedKeys = {k \in Keys : Status(k) = "published"}
  /\ \A k \in AckedKeys : HasEffect(k)

LEMMA PromiseIsKept == RegistryInv /\ PublicationInv => PromiseKept
<1>1. RegistryInv => TypeOK
  BY DEF RegistryInv
<1>2. QED
  BY <1>1, EffectIs, KeysByStatus, AckedHasEffect DEF PromiseKept

LEMMA PromisedDelivery ==
  ASSUME RegistryInv, PublicationInv, PromiseKept, PromiseKept',
         NEW w \in Workers, NEW now \in Times, NEW final \in Times, Receive(w, now, final)
  PROVE  Promise!Next \/ UNCHANGED <<CommittedKeys, Effects, AckedKeys>>
<1>1. PICK lease \in leases :
        /\ task[w] = Task("claimed", lease) /\ lease.event \in Events
        /\ \/ Applied(lease.event) /\ applied' = applied
           \/ /\ ~Applied(lease.event) /\ applied' \in Seq(AppliedRow)
              /\ Len(applied) \in Nat /\ Len(applied') = Len(applied) + 1
              /\ \A j \in 1..Len(applied) : applied'[j] = applied[j]
              /\ applied'[Len(applied) + 1].event = lease.event
              /\ applied'[Len(applied) + 1].key = receipts[lease.event].key
  BY ReceiveApplies
<1>2. UNCHANGED <<CommittedKeys, AckedKeys>>
  <2>1. UNCHANGED <<receipts, deliveries>>
    BY DEF Receive, vars, stored
  <2>2. QED
    BY <2>1 DEF CommittedKeys, AckedKeys, Events
<1>3. CASE applied' = applied
  BY <1>2, <1>3 DEF Effects, Effect
<1>4. CASE applied' # applied
  <2>1. PICK k : k = receipts[lease.event].key
    OBVIOUS
  <2>2. k \in CommittedKeys
    <3>1. receipts[lease.event] \in Receipt
      BY <1>1 DEF RegistryInv, TypeOK, Events
    <3>2. k \in Keys
      BY <2>1, <3>1 DEF Receipt
    <3>3. QED
      BY <1>1, <2>1, <3>2 DEF CommittedKeys
  <2>3. \A j \in Keys : HasEffect(j)' <=> HasEffect(j) \/ j = k
    <3>1. PICK n : n = Len(applied) + 1
      OBVIOUS
    <3>2. /\ \A j \in 1..Len(applied') : j \in 1..Len(applied) \/ j = n
          /\ \A j \in 1..Len(applied) : j \in 1..Len(applied') /\ applied'[j] = applied[j]
          /\ n \in 1..Len(applied') /\ applied'[n].key = k
      BY <1>1, <1>4, <2>1, <3>1
    <3>3. QED
      BY <3>2 DEF HasEffect
  <2>4. ~HasEffect(k)
    <3>1. ASSUME NEW j \in 1..Len(applied), applied[j].key = k PROVE FALSE
      <4>1. applied[j].event \in Events /\ receipts[applied[j].event].key = k
        BY <3>1 DEF PublicationInv, AppliedOK
      <4>2. applied[j].event = lease.event
        BY <1>1, <2>1, <4>1 DEF RegistryInv, ChargeInv, ChargesMatchReceipts
      <4>3. QED
        BY <1>1, <1>4, <4>2 DEF Applied
    <3>2. QED
      BY <3>1 DEF HasEffect
  <2>5. /\ \A j \in Keys : Effect(j) = IF HasEffect(j) THEN 1 ELSE 0
        /\ \A j \in Keys : Effect(j)' = IF HasEffect(j)' THEN 1 ELSE 0
    BY DEF PromiseKept
  <2>6. \A j \in Keys : Effect(j)' = IF j = k THEN 1 ELSE Effect(j)
    BY <2>3, <2>5
  <2>7. k \in Keys /\ Effect(k) = 0
    BY <2>2, <2>4, <2>5 DEF CommittedKeys
  <2>8. Effects' = [Effects EXCEPT ![k] = 1] /\ Effects[k] = 0
    BY <2>6, <2>7 DEF Effects
  <2>9. Promise!Apply(k)
    BY <1>2, <2>2, <2>8 DEF Promise!Apply, CommittedKeys, Effects, Effect, AckedKeys
  <2>10. QED
    BY <2>7, <2>9 DEF Promise!Next
<1>5. QED
  BY <1>3, <1>4

LEMMA PromisedStep ==
  ASSUME RegistryInv, KeyInv, [Next]_vars, applied' = applied, PromiseKept, PromiseKept'
  PROVE  Promise!Next \/ UNCHANGED <<CommittedKeys, Effects, AckedKeys>>
<1>1. UNCHANGED Effects
  BY DEF Effects, Effect
<1>2. /\ CommittedKeys = {k \in Keys : Status(k) # "open"}
      /\ AckedKeys = {k \in Keys : Status(k) = "published"}
      /\ CommittedKeys' = {k \in Keys : Status(k)' # "open"}
      /\ AckedKeys' = {k \in Keys : Status(k)' = "published"}
  BY DEF PromiseKept
<1>3. Abstract!Next \/ UNCHANGED [k \in Keys |-> Status(k)]
  BY LedgerStep DEF RegistryInv
<1>4. CASE UNCHANGED [k \in Keys |-> Status(k)]
  <2>1. \A k \in Keys : Status(k)' = Status(k)
    BY <1>4
  <2>2. QED
    BY <1>1, <1>2, <2>1
<1>5. ASSUME NEW k \in Keys, Abstract!Charge(k)
      PROVE  Promise!Next
  <2>1. /\ Status(k) = "open"
        /\ \A j \in Keys : Status(j)' = IF j = k THEN "charged" ELSE Status(j)
    BY <1>5 DEF Abstract!Charge
  <2>2. CommittedKeys' = CommittedKeys \cup {k} /\ AckedKeys' = AckedKeys
    BY <1>2, <2>1
  <2>3. Promise!Commit(k)
    BY <1>1, <2>2 DEF Promise!Commit, CommittedKeys, Effects, Effect, AckedKeys
  <2>4. QED
    BY <2>3 DEF Promise!Next
<1>6. ASSUME NEW k \in Keys, Abstract!Publish(k)
      PROVE  Promise!Next
  <2>1. /\ Status(k) = "charged"
        /\ \A j \in Keys : Status(j)' = IF j = k THEN "published" ELSE Status(j)
    BY <1>6 DEF Abstract!Publish
  <2>2. CommittedKeys' = CommittedKeys /\ AckedKeys' = AckedKeys \cup {k}
    BY <1>2, <2>1
  <2>3. HasEffect(k)'
    BY <2>2 DEF PromiseKept
  <2>4. HasEffect(k)
    BY <2>3 DEF HasEffect
  <2>5. Effects[k] = 1
    BY <2>4 DEF Effects, PromiseKept
  <2>6. Promise!Acknowledge(k)
    BY <1>1, <2>2, <2>5 DEF Promise!Acknowledge, CommittedKeys, Effects, Effect, AckedKeys
  <2>7. QED
    BY <2>6 DEF Promise!Next
<1>7. QED
  BY <1>3, <1>4, <1>5, <1>6 DEF Abstract!Next, Abstract!Keys, Keys

(* Registry, receiver and workers together apply the effect of a committed *)
(* request at most once, never undo it, and acknowledge only events that   *)
(* were applied, whatever replies are lost and leases expire (claim,       *)
(* receive, acknowledge).                                                  *)
THEOREM PublicationCorrect == PublicationSpec => ImplementsExactlyOnce
<1>1. ASSUME PublicationInit PROVE Promise!Init
  <2>1. Init /\ PublicationInv /\ applied = << >> /\ Len(applied) = 0
    BY <1>1, PublicationInit0 DEF PublicationInit
  <2>2. RegistryInv
    BY <2>1, InitType, ChargeInit, LeaseInit DEF RegistryInv
  <2>3. CommittedKeys = {} /\ AckedKeys = {}
    BY <2>1 DEF Init, CommittedKeys, AckedKeys, Events
  <2>4. \A k \in Keys : ~HasEffect(k)
    BY <2>1 DEF HasEffect
  <2>5. Effects = [k \in Keys |-> 0]
    BY <2>1, <2>2, <2>4, EffectIs DEF Effects
  <2>6. QED
    BY <2>3, <2>5 DEF Promise!Init, CommittedKeys, Effects, Effect, AckedKeys
<1>2. ASSUME RegistryInv, KeyInv, PublicationInv, PromiseKept, PromiseKept',
             [PublicationNext]_allVars
      PROVE  [Promise!Next]_<<CommittedKeys, Effects, AckedKeys>>
  BY <1>2, PublicationStep, PromisedStep, PromisedDelivery
<1>3. PublicationSpec =>
        Promise!Init /\ [][Promise!Next]_<<CommittedKeys, Effects, AckedKeys>>
  BY <1>1, <1>2, PublicationInvariant, PromiseIsKept, PTL DEF PublicationSpec
<1>4. QED
  BY <1>3, PTL DEF ImplementsExactlyOnce, Promise!Spec, CommittedKeys, Effects, Effect, AckedKeys
=============================================================================
