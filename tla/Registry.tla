------------------------------ MODULE Registry ------------------------------
(***************************************************************************)
(* The fixture registry: production_registry/store.py (RegistryStore) and  *)
(* the broker services over it, production_registry/service.py.            *)
(*                                                                         *)
(* One SQLite file is shared by any number of service processes.  Every    *)
(* operation is one BEGIN IMMEDIATE transaction, hence one action; it      *)
(* samples a trusted guard twice, at its start (now) and after its final   *)
(* validation (final), and rolls back whole, its clock write included,     *)
(* when final has passed a deadline of what it wrote.  An operation that   *)
(* is refused changes nothing and is no step.                              *)
(*                                                                         *)
(* A digest is injective, so the head of an account or of a case is the    *)
(* number of the receipt it hashes, and Genesis before the first one.      *)
(* Receipt and event identifiers are fresh random values: the receipt and  *)
(* the outbox event of the n-th commit are both named n.                   *)
(***************************************************************************)
EXTENDS Integers, Sequences, FiniteSets

CONSTANTS
  Accounts,        \* the configured agency/project accounts
  Cases,           \* the cases
  CaseAccount,     \* the account a case belongs to
  CreatedAt,       \* when the object of a case was registered
  RetentionUntil,  \* when its retention ends
  RequestIds,      \* request identifiers, permanent within an account
  Brokers,         \* identities that service processes draw at start-up
  Workers,         \* owners of outbox leases
  NoBroker,        \* no broker has been activated since creation or migration
  Capacity,        \* ACCOUNT_CAPACITY
  MaxAttempts,     \* MAX_DELIVERY_ATTEMPTS
  MaxBrokers,      \* MAX_BROKERS
  MaxCases,        \* MAX_CASES
  MaxEvents,       \* MAX_EVENTS
  LeaseSeconds,    \* the lifetimes a worker may ask for
  MaxTime          \* bound on the clock of the model

ASSUME RegistryAssumption ==
  /\ IsFiniteSet(Brokers) /\ NoBroker \notin Brokers
  /\ CaseAccount \in [Cases -> Accounts]
  /\ CreatedAt \in [Cases -> Nat] /\ RetentionUntil \in [Cases -> Nat]
  /\ Capacity \in Nat \ {0} /\ MaxAttempts \in Nat \ {0}
  /\ MaxBrokers \in Nat /\ MaxCases \in Nat /\ MaxEvents \in Nat \ {0}
  /\ LeaseSeconds \subseteq Nat \ {0}
  /\ MaxTime \in Nat

VARIABLES
  version,     \* schema version of the database, 1 or 2
  epoch,       \* broker epoch
  broker,      \* the current broker
  brokers,     \* every identity that was ever activated
  account,     \* projection: head, sequence and total charge of an account
  case,        \* projection: head and sequence of a case
  receipts,    \* the receipts with their outbox events, in commit order
  deliveries,  \* delivery state of each outbox event, kept by schema 2 only
  leases,      \* every lease ever granted; workers keep theirs for ever
  count,       \* number of events in the history
  clock,       \* last clock value a transaction committed
  observed,    \* epoch that a starting service read with inspect
  session,     \* epoch that activation handed to a service
  prepared     \* the intent a client retains for each request identity

stored == <<version, epoch, broker, brokers, account, case, receipts,
            deliveries, leases, count>>
remembered == <<observed, session, prepared>>
vars == <<stored, clock, remembered>>

-----------------------------------------------------------------------------
Genesis  == 0
Unseen   == -1
NotAcked == -1
Times == 0..MaxTime
Keys  == Accounts \X RequestIds

Key(c, r) == <<CaseAccount[c], r>>

CasHead == [sequence : Nat, head : Nat]
EmptyHead == [sequence |-> 0, head |-> Genesis]

Intent == [case : Cases, account : CasHead, caseHead : CasHead]
NoIntent == [case |-> "none"]

Receipt == [key : Keys, case : Cases, accountSequence : Nat, caseSequence : Nat,
            previousAccount : Nat, previousCase : Nat, broker : Brokers,
            epoch : Nat, committedAt : Nat]

Lease == [event : Nat, case : Cases, owner : Workers, generation : Nat,
          broker : Brokers, epoch : Nat, claimedAt : Nat, expiresAt : Nat]
NoLease == [generation |-> 0]

EmptyDelivery == [lease |-> NoLease, ackedAt |-> NotAcked]

Events == 1..Len(receipts)

\* Mutant: a permanent request identity is forgotten.
CommittedForgotten(k) == FALSE
Committed(k) == \E i \in Events : receipts[i].key = k

(* The clock may stand still or advance between the two samples of a       *)
(* transaction, and a sample below the persisted clock is refused.         *)
Sampled(now, final) == clock <= now /\ now <= final /\ clock' = final

(* A transaction that appends one event to the bounded history.            *)
AppendsEvent == count < MaxEvents /\ count' = count + 1

\* Mutant: a fenced service is still served.
RequireAnySession(b) == session[b] # 0
RequireBroker(b) == broker = b /\ session[b] = epoch

(* The object of a case is looked up by both samples of the guard;         *)
(* retention is half-open.                                                 *)
RetainedAt(c, t) == CreatedAt[c] <= t /\ t < RetentionUntil[c]

\* Mutant: the final sample of the guard is not looked at.
RetainedFirst(c, now, final) == RetainedAt(c, now)
Retained(c, now, final) == RetainedAt(c, now) /\ RetainedAt(c, final)

-----------------------------------------------------------------------------
Init ==
  /\ version \in {1, 2}
  /\ epoch = 0 /\ broker = NoBroker /\ brokers = {}
  /\ account = [a \in Accounts |-> [sequence |-> 0, head |-> Genesis, total |-> 0]]
  /\ case = [c \in Cases |-> EmptyHead]
  /\ receipts = << >> /\ deliveries = << >> /\ leases = {}
  /\ count = 1 /\ clock = 0
  /\ observed = [b \in Brokers |-> Unseen]
  /\ session = [b \in Brokers |-> 0]
  /\ prepared = [k \in Keys |-> NoIntent]

(* A starting service reads the epoch in one transaction and activates     *)
(* itself in the next; other processes may run between the two.            *)
Inspect(b, now, final) ==
  /\ b \notin brokers /\ observed[b] = Unseen
  /\ Sampled(now, final)
  /\ observed' = [observed EXCEPT ![b] = epoch]
  /\ UNCHANGED <<stored, session, prepared>>

ActivateBroker(b, now, final) ==
  /\ observed[b] = epoch
  /\ b \notin brokers
  /\ Cardinality(brokers) < MaxBrokers
  /\ AppendsEvent /\ Sampled(now, final)
  /\ brokers' = brokers \cup {b}
  /\ broker' = b
  /\ epoch' = epoch + 1
  /\ session' = [session EXCEPT ![b] = epoch + 1]
  /\ UNCHANGED <<version, account, case, receipts, deliveries, leases, observed, prepared>>

(* Reads, a commit that returns the permanent receipt of an exact retry,   *)
(* a claim that finds nothing to claim and a repeated acknowledgement only *)
(* advance the persisted clock.                                            *)
Observe(b, now, final) ==
  /\ RequireBroker(b)
  /\ Sampled(now, final) /\ final > clock
  /\ UNCHANGED <<stored, remembered>>

(* The client reads both heads and retains the intent it builds from them. *)
(* Its two reads run under the lock of one service and the second requires *)
(* the broker of the first, so no commit falls between them.               *)
Prepare(b, c, r, now, final) ==
  /\ RequireBroker(b)
  /\ Retained(c, now, final)
  /\ Sampled(now, final)
  /\ LET a == CaseAccount[c] IN
     prepared' = [prepared EXCEPT ![Key(c, r)] =
       [case |-> c,
        account |-> [sequence |-> account[a].sequence, head |-> account[a].head],
        caseHead |-> case[c]]]
  /\ UNCHANGED <<stored, observed, session>>

OpenCases == {c \in Cases : case[c].sequence > 0}

\* Mutant: the compare-and-swap looks at the case and not at the account.
CaseHeadMatches(intent, a, c) == case[c] = intent.caseHead
HeadsMatch(intent, a, c) ==
  /\ account[a].sequence = intent.account.sequence
  /\ account[a].head = intent.account.head
  /\ case[c] = intent.caseHead

\* Mutant: one unit more than the capacity.
CapacityNotPassed(a) == account[a].total <= Capacity
CapacityLeft(a) == account[a].total < Capacity

NewReceipt(k, b, now) ==
  LET intent == prepared[k] IN
  [key |-> k, case |-> intent.case,
   accountSequence |-> intent.account.sequence + 1,
   caseSequence |-> intent.caseHead.sequence + 1,
   previousAccount |-> intent.account.head,
   previousCase |-> intent.caseHead.head,
   broker |-> b, epoch |-> session[b], committedAt |-> now]

(* Capacities of the code: the account, the cases and the history.  The    *)
(* bound on receipts is the capacity of all accounts and never binds.      *)
Commit(b, k, now, final) ==
  /\ prepared[k] # NoIntent
  /\ RequireBroker(b)
  /\ ~Committed(k)
  /\ LET intent == prepared[k]
         c == intent.case
         a == CaseAccount[c]
         n == Len(receipts) + 1
     IN /\ HeadsMatch(intent, a, c)
        /\ CapacityLeft(a)
        /\ case[c].sequence = 0 => Cardinality(OpenCases) < MaxCases
        /\ Retained(c, now, final)
        /\ AppendsEvent /\ Sampled(now, final)
        /\ receipts' = Append(receipts, NewReceipt(k, b, now))
        /\ account' = [account EXCEPT ![a] =
             [sequence |-> intent.account.sequence + 1, head |-> n,
              total |-> intent.account.sequence + 1]]
        /\ case' = [case EXCEPT ![c] =
             [sequence |-> intent.caseHead.sequence + 1, head |-> n]]
        /\ deliveries' = IF version = 2 THEN Append(deliveries, EmptyDelivery)
                                        ELSE deliveries
  /\ UNCHANGED <<version, epoch, broker, brokers, leases, remembered>>

(* The explicit migration from schema 1 to schema 2 backfills an empty     *)
(* delivery for every event and leaves no broker current.                  *)
Migrate(now, final) ==
  /\ version = 1
  /\ AppendsEvent /\ Sampled(now, final)
  /\ version' = 2
  /\ deliveries' = [i \in Events |-> EmptyDelivery]
  /\ broker' = NoBroker
  /\ epoch' = epoch + 1
  /\ UNCHANGED <<brokers, account, case, receipts, leases, remembered>>

-----------------------------------------------------------------------------
\* Mutant: a lease protects nobody.
NeverLive(i, now) == FALSE
LiveLease(i, now) ==
  /\ deliveries[i].lease # NoLease
  /\ deliveries[i].lease.epoch = epoch
  /\ now < deliveries[i].lease.expiresAt

\* Mutant: an acknowledged event is delivered again.
UnleasedEvents(c, now) == {i \in Events : receipts[i].case = c /\ ~LiveLease(i, now)}
Available(c, now) ==
  {i \in Events : /\ receipts[i].case = c
                  /\ deliveries[i].ackedAt = NotAcked
                  /\ ~LiveLease(i, now)}

\* Mutant: the newest event goes first.
IsNewest(i, S) == i \in S /\ \A j \in S : j <= i
IsOldest(i, S) == i \in S /\ \A j \in S : i <= j

\* Mutant: one attempt more than the bound.
AttemptNotPassed(i) == deliveries[i].lease.generation <= MaxAttempts
AttemptLeft(i) == deliveries[i].lease.generation < MaxAttempts

NewLease(i, b, o, seconds, now) ==
  [event |-> i, case |-> receipts[i].case, owner |-> o,
   generation |-> deliveries[i].lease.generation + 1,
   broker |-> b, epoch |-> session[b],
   claimedAt |-> now, expiresAt |-> now + seconds]

(* The oldest available event of the case is claimed; when that one has    *)
(* used up its attempts the claim is refused, whatever follows it.         *)
ClaimOutbox(b, o, c, seconds, now, final) ==
  /\ version = 2
  /\ RequireBroker(b)
  /\ \E i \in Available(c, now) :
       /\ IsOldest(i, Available(c, now))
       /\ AttemptLeft(i)
       /\ LET lease == NewLease(i, b, o, seconds, now)
          IN /\ final < lease.expiresAt
             /\ deliveries' = [deliveries EXCEPT ![i].lease = lease]
             /\ leases' = leases \cup {lease}
  /\ AppendsEvent /\ Sampled(now, final)
  /\ UNCHANGED <<version, epoch, broker, brokers, account, case, receipts, remembered>>

\* Mutant: an expired lease still acknowledges.
AfterClaim(lease, t) == lease.claimedAt <= t
WithinLease(lease, t) == lease.claimedAt <= t /\ t < lease.expiresAt

Acknowledge(b, o, lease, now, final) ==
  /\ version = 2
  /\ lease.owner = o /\ lease.broker = b /\ lease.epoch = session[b]
  /\ RequireBroker(b)
  /\ deliveries[lease.event].lease = lease
  /\ deliveries[lease.event].ackedAt = NotAcked
  /\ WithinLease(lease, now) /\ WithinLease(lease, final)
  /\ AppendsEvent /\ Sampled(now, final)
  /\ deliveries' = [deliveries EXCEPT ![lease.event].ackedAt = now]
  /\ UNCHANGED <<version, epoch, broker, brokers, account, case, receipts, leases, remembered>>

Next ==
  \E now, final \in Times :
    \/ Migrate(now, final)
    \/ \E b \in Brokers :
         \/ Inspect(b, now, final)
         \/ ActivateBroker(b, now, final)
         \/ Observe(b, now, final)
         \/ \E c \in Cases, r \in RequestIds : Prepare(b, c, r, now, final)
         \/ \E k \in Keys : Commit(b, k, now, final)
         \/ \E o \in Workers, c \in Cases, seconds \in LeaseSeconds :
              ClaimOutbox(b, o, c, seconds, now, final)
         \/ \E o \in Workers, lease \in leases : Acknowledge(b, o, lease, now, final)

Spec == Init /\ [][Next]_vars
-----------------------------------------------------------------------------
AccountOf(i) == CaseAccount[receipts[i].case]
OfAccount(a) == {i \in Events : AccountOf(i) = a}
OfCase(c) == {i \in Events : receipts[i].case = c}
Below(S, n) == {i \in S : i < n}
IsLatest(h, S) == IF S = {} THEN h = Genesis ELSE h \in S /\ \A i \in S : i <= h

(* Type invariant: the shapes of the tables, one delivery row per event in *)
(* schema 2 and none in schema 1, and the two bounds that the code keeps.  *)
TypeOK ==
  /\ version \in {1, 2}
  /\ epoch \in Nat /\ broker \in Brokers \cup {NoBroker} /\ brokers \subseteq Brokers
  /\ account \in [Accounts -> [sequence : Nat, head : Nat, total : Nat]]
  /\ case \in [Cases -> CasHead]
  /\ receipts \in Seq(Receipt)
  /\ deliveries \in Seq([lease : Lease \cup {NoLease}, ackedAt : Nat \cup {NotAcked}])
  /\ Len(deliveries) = IF version = 2 THEN Len(receipts) ELSE 0
  /\ \A i \in 1..Len(deliveries) : deliveries[i].lease.generation \in 0..MaxAttempts
  /\ leases \subseteq Lease
  /\ count \in 1..MaxEvents /\ clock \in Nat
  /\ observed \in [Brokers -> Nat \cup {Unseen}]
  /\ session \in [Brokers -> Nat]
  /\ prepared \in [Keys -> Intent \cup {NoIntent}]

(* The charge of an account is the number of its receipts and stays within *)
(* the capacity, and no request identity has two receipts, whatever        *)
(* retries, re-prepared intents and broker changes happen (commit).        *)
ChargesMatchReceipts ==
  /\ \A a \in Accounts : account[a].total = Cardinality(OfAccount(a))
  /\ \A a \in Accounts : account[a].total <= Capacity
  /\ \A i, j \in Events : receipts[i].key = receipts[j].key => i = j

(* Receipts of an account form one chain without forks, and so do those of *)
(* a case: each names its predecessor and the head is the latest one.      *)
LinearChains ==
  /\ \A a \in Accounts : IsLatest(account[a].head, OfAccount(a))
  /\ \A c \in Cases : IsLatest(case[c].head, OfCase(c))
  /\ \A i \in Events :
       /\ IsLatest(receipts[i].previousAccount, Below(OfAccount(AccountOf(i)), i))
       /\ IsLatest(receipts[i].previousCase, Below(OfCase(receipts[i].case), i))

(* One service at a time: the epochs of the history never go back and an   *)
(* epoch belongs to one service, so a replaced or pre-migration service    *)
(* never commits or claims again (_require_broker).                        *)
SingleLeader ==
  /\ \A i, j \in Events : i < j =>
       /\ receipts[i].epoch <= receipts[j].epoch
       /\ receipts[i].epoch = receipts[j].epoch => receipts[i].broker = receipts[j].broker
  /\ \A l, m \in leases :
       /\ l.epoch = m.epoch => l.broker = m.broker
       /\ l.epoch < m.epoch => l.claimedAt <= m.claimedAt

(* Two leases of one event under one broker never overlap in time.         *)
DisjointLeases ==
  \A l, m \in leases :
    l.event = m.event /\ l.epoch = m.epoch /\ l.generation < m.generation
      => l.expiresAt <= m.claimedAt

(* An acknowledgement was given in time under the last lease of its event: *)
(* the event was not claimed again before it, nor after it.                *)
AckedUnderItsLease ==
  \A i \in 1..Len(deliveries) : deliveries[i].ackedAt # NotAcked =>
    /\ deliveries[i].lease \in leases
    /\ deliveries[i].lease.claimedAt <= deliveries[i].ackedAt
    /\ deliveries[i].ackedAt < deliveries[i].lease.expiresAt
    /\ \A l \in leases : l.event = i => l.generation <= deliveries[i].lease.generation

(* Nobody is given an event of a case while an earlier event of that case  *)
(* is neither acknowledged nor in the hands of a worker.                   *)
OldestFirst ==
  \A l \in leases : \A i \in OfCase(l.case) : i < l.event =>
    \/ deliveries[i].ackedAt # NotAcked /\ deliveries[i].ackedAt <= l.claimedAt
    \/ \E m \in leases : /\ m.event = i /\ m.epoch = l.epoch
                         /\ m.claimedAt <= l.claimedAt /\ l.claimedAt < m.expiresAt

(* Commits and acknowledgements are permanent and the clock and the epoch  *)
(* never go back: no step rewrites a receipt or withdraws an               *)
(* acknowledgement, the migration included.                                *)
NothingIsUndone ==
  [][/\ Len(receipts) <= Len(receipts')
     /\ \A i \in Events : receipts'[i] = receipts[i]
     /\ \A i \in 1..Len(deliveries) :
          deliveries[i].ackedAt # NotAcked => deliveries'[i] = deliveries[i]
     /\ clock <= clock' /\ epoch <= epoch'
     /\ \A a \in Accounts : account[a].total <= account'[a].total]_vars

(* What a transaction writes was good at both samples of its guard, at the *)
(* time it wrote and at its final sample, which the clock keeps: a receipt *)
(* lies within the retention of its object however old its intent, a lease *)
(* is handed out alive and an acknowledgement is stored before its lease   *)
(* ends; and receipts are in the order of their times (_transaction).      *)
ReceiptsInTime ==
  \A i \in Events' \ Events :
    /\ \A t \in {receipts'[i].committedAt, clock'} : RetainedAt(receipts'[i].case, t)
    /\ \A j \in Events : receipts[j].committedAt <= receipts'[i].committedAt
LeasesInTime ==
  \A l \in leases' \ leases : l.claimedAt <= clock' /\ clock' < l.expiresAt
AcksInTime ==
  \A i \in 1..Len(deliveries) : deliveries'[i].ackedAt # deliveries[i].ackedAt =>
    LET l == deliveries'[i].lease IN
    l \in leases /\ \A t \in {deliveries'[i].ackedAt, clock'} : l.claimedAt <= t /\ t < l.expiresAt
WrittenInTime == [][ReceiptsInTime /\ LeasesInTime /\ AcksInTime]_vars

(* The registry implements the permanent ledger.                           *)
Status(k) ==
  IF ~\E i \in Events : receipts[i].key = k THEN "open"
  ELSE IF \E i \in 1..Len(deliveries) :
            receipts[i].key = k /\ deliveries[i].ackedAt # NotAcked
       THEN "published" ELSE "charged"

Abstract == INSTANCE Ledger WITH status <- [k \in Keys |-> Status(k)]
ImplementsLedger == Abstract!Spec
=============================================================================
