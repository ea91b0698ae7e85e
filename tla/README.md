# Verification of the transactional core

TLA+ models, TLC checks and TLAPS proofs of the components of
`model_release_assurance` that keep durable state under concurrency, crashes and
lost replies: the fixture **registry** with its outbox and receiver, the
**witness** that guards the registry against rollback, the durable **jobs**, the
controlled **delivery** of an artifact, the **monitoring** of faults, the policy
**review** of a campaign, the **job queue** of the console, and the **lifecycle**
reference. Paths below are relative to `src/src/model_release_assurance/`.

Contents: 1 the system, 2 the modules, 3 runs, 4 fairness, 5 proofs,
6 what is not covered, 7 plan.

## 1. The system

The repository is a toolbox for deciding whether a model may be released. Most of
it computes documents: it reads evidence, does statistics and writes a signed or
hashed record in one pass. A smaller part is a set of local services
(`production_*`), each over one SQLite file or a few files, which several service
processes and workers may open. That part is where order, failure and time matter.

### Components

| Component | State it keeps | Operations that change state | Talks to |
|---|---|---|---|
| `production_registry/store.py`, `service.py` | broker and epoch, accounts, cases, receipts, outbox, deliveries, one hash-chained history, last clock value | create, inspect + activate, prepare (client side), commit, migrate, claim, acknowledge; every read advances the clock | identity (lock, guard), receiver through workers |
| `production_registry/receiver.py` | applied events and their receipts, a head, a clock | receive | workers (`rehearsal.py: exercise`) |
| `production_witness/*` | accepted registry history, one intent per request, pins of all revisions; in memory the newest pin | enroll, observe, prepare intent, commit through the registry, recover | registry (under its write lock), checkpoint sink outside both databases |
| `production_jobs/store.py`, `service.py`, `executor.py` | jobs, attempts, grants, events, broker, clock; in memory submissions and input bindings | activate, submit, authorize input, claim, consume, read, complete, fail, renew, cancel | identity (lock, authority), storage (one read), child process |
| `production_identity/*` | principals, grants, keys, one lock per process | replace authority, revoke | every service |
| `production_storage/*` | objects, object grants, audit | register, grant, read | jobs, registry (retention of an object) |
| `production_delivery/*` | one event history: activations, grants, suspensions, revocations, chunk admissions, observations; in memory the newest pin, the proofs of authority and which gateway the store accepts | activate, grant, suspend, resume, revoke, deliver a chunk (admit, write, observe) | review, identity, checkpoint directory, writer |
| `production_monitoring/*` | monitor: events, incidents, alerts, operations; receiver: the alerts it holds; both as histories; in memory the pins | observe, act on an incident, route (receive, acknowledge), flush | identity, checkpoint directory, receiver |
| `production_review/*` | one event history: campaigns, delegations, decisions; in memory contexts of decisions, evidence of runs, operators | propose, delegate, withdraw, approve policy, execute (start, complete, fail), assess, approve | identity, workflow, delivery |
| `console/store.py`, `worker.py` | queue of local jobs, workers' heartbeats, cases | submit, retry, cancel, edit case, recover, claim, beat, finish | its worker processes |
| `lifecycle_reference.py` | authorities, releases, disclosure history, charges, event chain | set authority, commit, activate, grant access, revoke | clients that hold checkpoints |
| `export_poc/store.py` | prepared and committed exports | prepare, commit, download, revoke | - |

The other components (analysis, optimisation, adapters of attack tools, build,
packets, command line, dashboards, research tools, the Lean files) are listed in
`PROJECT.json` with the reason why no model is kept of them.

### How the parts interact

* **Guards.** Every store operation is one `BEGIN IMMEDIATE` transaction that asks
  a guard for the time at its start (`now`), validates the whole stored history
  again, writes, and asks the guard once more (`final`) before `COMMIT`. When
  `final` has reached a deadline of what was written (a lease, a grant, the
  retention of an object) or authority is gone, everything rolls back, the clock
  included.
* **Brokers.** A service process activates a random identity in the store; the
  previous one is fenced by the epoch and can never be activated again.
* **Compare and swap.** A commit carries the heads it was built from.
* **Memory and disk.** A service keeps in memory what must not outlive it
  (witness pin, job bindings, delivery proofs) and in a database what must.
* **More than one medium.** Registry and receiver; registry, witness and sink;
  job store and child process; delivery store, directory and writer; monitor,
  receiver and directory are updated one after the other; any of them may fail,
  and any reply may be lost, in between.
* **Histories and pins.** Delivery, monitoring and review replay one event history
  before each operation. A pin names a sequence number and the hash of everything
  up to it; a store accepts it when it is an exact ancestor, the checkpoint
  directory when it is longer than what it retains.
* **Proofs in memory.** What an event was authorised by is known only to the
  process that made it, so that a restart keeps the record and loses its use.

### What is hard

1. Two services between `inspect` and `activate`; services that were replaced and
   do not know it.
2. Permanent request identities: retries after lost replies, from any process, with
   old or newly prepared intents.
3. Leases that expire during or between transactions; redelivery; late answers.
4. Crash, sink failure or a refused guard after each step of a witnessed commit;
   restores of either database; commits that bypass the witness.
5. One-use grants whose read may be lost; attempts that end in several ways;
   revocation of authority between two steps of a run.
6. Capacities: units of an account, attempts, rows of a history.
7. The process lock that a run takes twice or three times.
8. A chunk that was admitted and perhaps written, a writer that does not say how
   much; a stop that races an admission; a database restored under running gateways.
9. A routing pass over three media, by two processes; observations out of order.
10. Events of other processes, revoked delegations and persons, stricter policies and
    crashes between the steps of a review.
11. Workers declared dead that still execute, and heartbeat threads that end.
12. Stale checkpoints, lost receipts and a restored file of the lifecycle registry.

`PROJECT.json` lists each hazard with its line and the properties that cover it.

### What makes each component correct

* Registry: one charge per request for ever, within capacity; linear chains; one
  leader per epoch; no commit outside retention; nothing committed is undone.
* Outbox and receiver: leases of one event are disjoint in time, order per case is
  kept, application is exactly once.
* Witness: nothing is charged before its intent is out of reach of a restore; a
  witnessed success is never contradicted; tombstones are final.
* Jobs: one live attempt; only its holder, in time and with authority, succeeds;
  a grant is one read; runs return.
* Delivery: bytes leave once per request, within the allowance, only after their
  admission is out of reach of a restore (of two gateways; section 3 says what three
  can do); only the gateway that made a route uses it,
  while it lasts; a retained stop is obeyed; observations say what was written.
* Monitoring: a pass that returns has delivered all it read; incidents last as long as
  their faults; alerts are acknowledged in the end.
* Review: duties stay separated; policies never weaken once results exist; usable
  reviews were earned by the run that they are about.
* Console: one execution per job, results match the content of the case, late workers
  are ignored, every job settles.
* Lifecycle: every grant has a commit and an activation that nothing stopped; the
  receipts of a client never go back; charges stay within the budget.

## 2. The modules

| Module | Models | Role |
|---|---|---|
| `Ledger` | what the registry promises, with no brokers, heads, clocks or leases | abstract specification |
| `Registry` | `production_registry/store.py`, `service.py`, `contracts.py` | component |
| `RegistryProofs` | - | proofs: types, charges, chains, leadership, times, leases, order, permanence; that `Registry` implements `Ledger` and `Publication` implements `Registry` and `ExactlyOnce` |
| `ExactlyOnce` | what outbox and receiver promise together | abstract specification |
| `Publication` | `receiver.py` and the worker of `rehearsal.py`, EXTENDS `Registry` | composition |
| `Witness` | `production_witness/*` over the history of the registry, the sink, restores | component |
| `WitnessProofs` | - | proofs: types, checkpoints, accepted history, tombstones, durability |
| `Jobs` | `production_jobs/*` with the lock and the authority of identity | component |
| `JobsProofs` | - | proofs: types, live attempts, grants, results, permanence |
| `Emission` | what leaves through the writer, with no gateways, pins or routes | abstract specification |
| `Delivery` | `production_delivery/store.py`, `gateway.py`, `checkpoint.py` | component |
| `DeliveryProofs` | - | proofs: observations, routes, stops |
| `Monitoring` | `production_monitoring/store.py`, `service.py`, `receiver.py`, `checkpoint.py` | composition of three media |
| `MonitoringProofs` | - | proofs: incidents, routing passes |
| `Review` | `production_review/store.py`, `service.py`, `authorization.py` | component |
| `ReviewProofs` | - | proofs: duties, policies, usable reviews |
| `ConsoleQueue` | `console/store.py`, `worker.py` | component |
| `ConsoleQueueProofs` | - | proofs: executions, results, late workers |
| `Lifecycle` | `lifecycle_reference.py` | component |
| `LifecycleProofs` | - | proofs: types, certificates, receipts |
| `MC*` | values of constants and symmetry | instances for TLC |

Each component has a module of proofs, and `RegistryProofs` holds those of
`Publication` too. Definitions whose comment says *Mutant* are wrong variants of the definition after
them; no module uses them. `PROJECT.json` says which property each one breaks.

### Registry

*State.* `version`, `epoch`, `broker`, `brokers`, `account`, `case`, `receipts`,
`deliveries`, `count`, `clock` are the state that `_apply` rebuilds from the history
and the meta table. `leases` is the set of all leases ever given, since a worker
may keep one for ever. `observed` and `session` are the local variables of
`FixtureRegistryService.__init__`; `prepared` is what a client retains.

*Actions.* `Inspect` and `ActivateBroker` are the two transactions of a starting
service. `Prepare` reads both heads: the two reads run under one lock and require
one broker. `Commit`, `Migrate`, `ClaimOutbox` and `Acknowledge` are the methods of
the same names. `Observe` stands for every operation that commits only the clock:
reads, the exact retry of a commit, a claim that finds nothing, a repeated
acknowledgement. An operation that is refused leaves everything as it was and is no
step.

*Abstractions.* Hashes are injective, so a head is the number of the receipt it
hashes. The event of the n-th commit has the number n. The request's digest is its
key together with the heads in `prepared`. Artifacts, objects and policy references
in a receipt are not represented, only the retention of the object is. Accounts are
the configured agency and project pairs.

### Publication

`Claim` and `Confirm` are the registry's own actions together with what the worker
learns; either reply may be lost (`UNCHANGED task`). `Receive` is the whole
transaction of the receiver, its reply may be lost too. `Forget` is a worker that
stops. `ExactlyOnce` is stated over effects counted by request identity.

### Witness

*State.* `log` is the registry as its history of events. `pins`, `history` and
`intents` are the witness database. `floor` is the monotone file sink, with the
intents that its pin covers (the second part is a ghost). `server` is what a process
keeps in memory, `call` how far its current commit has come. `returned`, `restores`
and `ids` are ghosts; `backup` is a copy of both databases, taken at any moment.

*Actions.* A witnessed commit is `Observe`, `RetainIntent`, `CommitRegistry`,
`Confirm`; each witness transaction ends in `Accept`, whose outcome is that the
process stopped, the sink failed, the guard was denied after the sink, or success.
`Recover`, `DirectCommit` (the registry's own service is still there for callers that
do not use the witness), `Attach` (start of a witness service), `Abandon` (any
exception between two steps). `Copy`, `Restore` and `Stop` are the environment: a
restore replaces a database file, and a process that had opened the old file refuses
the new one by its inode, so every process is down afterwards.

*Abstractions.* Times only matter through "an observation at a later time is a new
revision" (`later`). Random identifiers and hashes make every event unique: `ids`
numbers them. Initially the registry has been created and one service activated, and
the witness enrolled, as `rehearsal.py` does it.

### Jobs

*State.* `broker`, `retired`, `jobs` with their attempts, `grants`, `count`, `clock`
are the tables. `binding` is the memory of a service; since it is only used by the
broker that owns the job, it need not be cleared when that process stops. `call` is a
worker inside `run`. `revoked` is the authority of identity. `reads` is a ghost that
counts physical reads.

*Actions.* Each store method is an action of the same name, with the two samples of
its guard. `run` is `Claim`, `ConsumeInput`, `StartRead`, `Deliver`, `RunnerEnds`,
then `Complete` or `Report`; any exception leads to `Cleanup` (the clock-only guard of
`_failed_owned`) or, when that is refused, to `GiveUp`. `ReadLost` is a read whose
transaction rolls back. `Exhaust` is the branch of `claim` that fails a job.
`LockFree` is the identity lock, which a run holds from its claim to its read.
`Revoke` is an administrator, who takes the lock too. `Renew` is a method of the
store that no service calls; it is modelled as a step of the lease holder.

*Abstractions.* The child process is one step whose outcome is either an acceptable
output or anything else. Descriptors and results are not represented. A worker whose
token was replaced is a different holder.

### Delivery

*State.* `log` is the database: the store keeps its event history and derives every
table from it, so the tables are operators on a history (`RouteState`, `Admitted`,
`NextOffset`, ...) and a pin is a prefix of one. `sink` is the newest pin in the
checkpoint directory, `session` each gateway object with its pin and proofs, `bound`
the gateway whose capability the store of a process accepts. `issued` numbers the
random identifiers. `cleared` and `writes` are ghosts: the admissions whose own
session saw them retained, and what the writer was given.

*Actions.* A call is `Begin` (the read), `RetainRead` (the pin to the directory), one
of `Activate`, `GrantRoute`, `Switch`, `RevokeGrant`, `Admit` (the transaction, with
both samples of its guard), `RetainEvent`, and then `Finish`, or `Write` and
`Observe`. `Bind` and `Open` are the constructor, which takes the capability over
before it holds the lock. `Refuse` is any refusal or exception at any step. `Crash`
stops a process; `Restore` puts an older database in place under running sessions.

*Abstractions.* The contexts and frames of a call only decide whether a guard refuses,
which it may always do. `get` and `apply` of an observation are one step, since an
event between them only makes the observation fail. The lock of a process is held
from `Begin` or `Open` to the end of the call.

### Monitoring

*State.* `log` and `inbox` are the histories of monitor and receiver, `sink` the
directory, `service` each service with the step of its call and both pins.

*Actions.* `Construct`; `Observe` and `Act` for producers and responders; the routing
pass `Read`, `Custody`, then `Receive` and `Acknowledge` per alert, `Finish`,
`Return`; `Publish` is the presentation of a pin between two steps, after which the
call goes on at `next`. Repeated identifiers repeat the answer (`Repeat`) or are
refused. `RestoreMonitor` and `RestoreReceiver` replace a database.

*Abstractions.* Severity and texts of events are left out; `Reports` says at which
instant something was seen, and the clock of the service is later than all of them.

### Review

*State.* `log` is the event history; campaigns and delegations are known by the
position of their event. `memory` is what a service keeps: the events it made itself
(`proofs`), the evidence of completed runs, who asked for a start, revoked persons,
and the run that it executes; the history field `wrote` of a memory holds the places of
the events that the service wrote since it last started.

*Actions.* Each call of the service is one action, because it writes only if the
history is still what it read; `execute` alone is two (`Start`, then `Complete` or
`Fail`), with the steps of other processes between them, and holds the lock of its
own process meanwhile. `ReviewsUsable` is the answer of `status`. `AskToStart` is a
refused start, which the identity service remembers nevertheless. `Deny` revokes a
person at one service, `Crash` empties a memory.

*Abstractions.* A token is named by its expiry; the times of events are left out since
the clock of the model never goes back; one number stands for the AUC, which the code
reads as the greater of the value and its complement; a run draws a fresh registration, so that the
reuse of one is left out; delegations of at most their longest lifetime, read access
and the scope of `review:delegate` are left out. Restores of the store are excluded by
the docstring of the code.

### ConsoleQueue

*State.* `jobs` is the table in the order of creation, `revision` counts the edits of
a case, `call` is the loop of each worker process. `begun` and `done` of a job are
ghosts, `age` is the time since its last beat.

*Actions.* `Submit`, `Retry`, `Cancel`, `EditCase`, `CheckHealth` are the interface;
`Recover`, `Claim`, `NothingQueued`, `Executed`, `Finish`, `ResultRefused` the loop of
a worker; `Beat` its thread; `Die` its end. A worker identity is one start of a
process.

### Lifecycle

*State.* The tables, the chain of events, `known`: the checkpoint of each client's last
receipt, and `saved`: a copy of the file.

*Actions.* `SetAuthority`, `Commit`, `Activate`, `GrantAccess`, `Revoke` are
transactions at two readings of the clock, `now` and `final`, that may be anything not
before the last event; their receipt may be lost. `HandOver` passes a checkpoint on,
`Copy` and `Restore` are the file.

*Abstractions.* A checkpoint is the chain its hash stands for. The nonce is part of the
release; the measured artifact and interface are one more refusal; the three expiries
of a request are their least.

## 3. Runs

| Run | Instance | States | Question |
|---|---|---|---|
| `registry_charges` | 1 account of 2 units, 2 cases, 3 requests, 2 services, 1 worker, 1 attempt, time 0..2, 5 history rows | 0.11 M | charges, chains, leadership, times, `Ledger` |
| `publication_replies` | 1 case, 2 requests, 2 services, 2 workers, leases of 1, 2 attempts, time 0..1, 8 rows | 0.35 M | leases, order, permanence, exactly once |
| `witness_commits` | 2 requests, 2 processes, 4 revisions, 8 identifiers, 1 restore | 0.83 M | intents against history, durability of success |
| `jobs_runs` | 1 job, 2 workers, 2 services, 2 attempts, 2 grants, 10 events, time 0..2, fair | 0.24 M | authority, one use, no refunds, every run returns |
| `delivery_restores` | 2 gateways in 2 processes, 1 request, 2 routes, 7 events, 1 restore | 1.65 M | `Emission`, observations |
| `delivery_stops` | 2 gateways, 2 requests, 2 chunks, 5 events, all management, time 0..1 | 0.28 M | stops and routes |
| `delivery_forks` | 3 gateways in 3 processes, 1 request, 1 route, 5 events, 1 restore | 1.2 M | does the directory refuse a fork? It does not |
| `monitoring_passes` | 2 services, 1 key, 2 events, 2 operations, 4 records, 1 restore, fair | 0.38 M | custody, incidents, liveness |
| `review_decisions` | 1 service, 6 persons, 1 campaign, 1 delegation, 8 events, time 0..1 | 0.09 M | duties, usable reviews |
| `review_policies` | 2 services, 3 persons, 2 cases of 1 project, 2 campaigns, 7 events, 1 person revocable | 0.33 M | policies |
| `console_jobs` | 2 workers, 1 of them mortal, 1 case, 3 jobs, 1 edit, beats too old after 1, fair | 0.17 M | executions, results, liveness |
| `lifecycle_grants` | 2 clients, 2 releases, 1 authority with 3 installs, budget 2, 5 events, 1 restore, time 0..1 | 0.73 M | types, certificates, receipts |

*Why these bounds.* `registry_charges`: three requests for two units make capacity,
retries and a losing compare-and-swap meet; two cases of one account make account
and case chains differ; two services and the migration give three epochs; the
retentions of the two cases end at 2 and 3, within and after the run, so that one ends
between the two samples of a commit, as does the only lease of 1.
`publication_replies`: two events, two attempts, one expiry and a change of service
make order, redelivery, exhaustion and every lost reply happen. `witness_commits`:
two processes that interleave inside the commit of two requests, and four revisions
that hold the intent and the outcome of both, on either side of a restore, which stops
all processes. `jobs_runs`: two
attempts and two grants cover restart, expiry, a spent grant and a new one, and
exhaustion. `delivery_restores`: seven events hold an activation, a grant, an
admission and an observation of one gateway and the admission of the other, on either
side of a restore. `delivery_stops`: five events hold a route, two admissions or one
and a stop, and a management event between. `monitoring_passes`: a fault, a healthy
report and both actions, or two alerts with an acknowledgment, at three relative
times. `review_decisions`: seven events are a whole review with a delegation or a
renewal, the eighth is one more of them or a withdrawal; one tick ends a delegation, and
the evidence of a run or not. `review_policies`: two campaigns of three events each and
a renewal; the only reviewer may be revoked at one service and still known to the other.
`console_jobs`: a job that is declared dead, its retry, and a third. `lifecycle_grants`:
authority, commit, activation and grant, and one event between any two of them, or the
same again after a restore.

*The finding.* `delivery_forks` is expected to fail. The documentation of the
checkpoint boundary says that a fork of the retained history is refused
(`docs/production-prd18-controlled-delivery.md:80-82`). `checkpoint.py: __call__`
compares sequence numbers: a fork of the same length is refused, a longer one is
retained. A single call cannot present one, since its pin was retained before it
appended one event; but a delivery reads the history once more before it records its
observation and presents the pin only after that. With three gateways in mid-call and a
restore under them, one retains an event, one appends another to the restored history,
and the observation of the third, written after both, is retained over the first. When
the lost event was an admission, its request can be admitted and its bytes written
again, so that `Emission` is implemented by two gateways (`delivery_restores`) and not
by three. The theorems about `Delivery` hold for any number.

*Bounds of the model* (everything else is a capacity of the code with a small value):
`MaxTime`, `MaxRestores`, `MaxIds`, `MaxJobs`, `MaxEdits`, `MaxOperations`,
`MaxRecords` and `MaxEvents` of histories, `MaxOperators`, `Revocable`. All runs set `CHECK_DEADLOCK FALSE`: at the
end of time and at the capacities of the code nothing more can happen.

*Type invariants* are checked with the capacities in them: attempts, history rows,
revisions, pending intents, grants, charges and accesses stay within their bounds.
Delivery, monitoring and review keep nothing but their histories, whose shape is that
of the events appended, and the shape of the console's queue is proved; their runs ask
the deeper questions only.

*Symmetry* is used in safety runs only, over identities that the code compares for
equality and nothing else. `Ledger`, `ExactlyOnce` and `Emission` are checked as
refinements; the mapping of `Ledger` is the status of each request, read off receipts
and deliveries, that of `Emission` the admissions whose pin is retained and the
requests of the writes.

Each property of a passing run has a wrong variant of the code that TLC refutes with the same
instance, so that none of them holds for want of interesting behaviour.

## 4. Fairness

Three runs assume any. Nothing is assumed of clients, producers, operators or the
clock where it is not named here.

* `jobs_runs`: weak fairness of the steps of each worker inside `run`. They are a
  thread's own next step; the lock is released by other runs, whose threads are
  scheduled too; the runner has a timeout and always ends
  (`executor.py: FixtureProcessRunner.run`). Nobody is assumed to claim a job.
* `console_jobs`: time passes, and the loop of a worker that has not died takes its
  next step (`worker.py: run`); executions end because every tool that a job runs as a
  child process has a deadline, and what it computes in the worker itself (the kinds
  `check` and `assess`, which have none) is finite. No beat is assumed, since the heartbeat thread ends with the first
  exception of the database. One worker of the run does not die; if all did, jobs would
  stay queued.
* `monitoring_passes`: a service that does not stop is started, ends the calls it is
  in, and begins a pass again and again (strong fairness, since a call of another kind
  may be going on each time); and from some time on its guard, sink and stores refuse
  only what cannot be done. Without the last, a sink that is full would stop routing
  for good, as it does in the code.

The code promises no progress elsewhere: a case whose oldest event has used its
attempts stays blocked, a pending intent may stay pending, a queued job whose service
stopped waits for a new authorization, and a started campaign whose process stopped
stays started.

## 5. Proofs

Proved for every value of the constants (sets of accounts, cases, requests, clients,
services and workers, clock bounds, capacities):

| Module | Theorem | Says |
|---|---|---|
| `RegistryProofs` | `TypeCorrect` | `Spec => []TypeOK` |
| | `ChargesCorrect` | `Spec => []ChargesMatchReceipts` |
| | `ChainsCorrect` | `Spec => []LinearChains` |
| | `LeadersCorrect` | `Spec => []SingleLeader` |
| | `LeasesCorrect` | `Spec => []DisjointLeases` |
| | `AcksCorrect` | `Spec => []AckedUnderItsLease` |
| | `OrderCorrect` | `Spec => []OldestFirst` |
| | `TimesCorrect` | `Spec => WrittenInTime` |
| | `PermanenceCorrect` | `Spec => NothingIsUndone` |
| | `LedgerCorrect` | `Spec => ImplementsLedger` |
| | `PublicationIsRegistry` | `PublicationSpec => Spec` |
| | `PublicationCorrect` | `PublicationSpec => ImplementsExactlyOnce` |
| `WitnessProofs` | `TypeCorrect` | `Spec => []TypeOK` |
| | `CheckpointedFirst` | `Spec => []ChargedOnlyAfterCheckpoint` |
| | `AcceptedHistory` | `Spec => []HistoryMatchesIntents` |
| | `AbortsAreFinal` | `Spec => []AbortIsIrreversible` |
| | `ReceiptsLast` | `Spec => []WitnessedIsDurable` |
| | `SuccessSees` | `Spec => SuccessSeesEverything` |
| `JobsProofs` | `JobsTypeCorrect` | `Spec => []TypeOK` |
| | `JobsOneLiveAttempt` | `Spec => []OneLiveAttempt` |
| | `JobsGrantsAreOneUse` | `Spec => []GrantsAreOneUse` |
| | `JobsResultsAreEarned` | `Spec => ResultsAreEarned` |
| | `JobsNothingIsRefunded` | `Spec => NothingIsRefunded` |
| `ConsoleQueueProofs` | `ExecutionsExclusive` | `Spec => []ExecutionsAreExclusive` |
| | `ResultsMatch` | `Spec => []ResultsMatchCase` |
| | `LateIgnored` | `Spec => LateWorkersAreIgnored` |
| `LifecycleProofs` | `TypeCorrect` | `Spec => []TypeOK` |
| | `GrantsCertified` | `Spec => []GrantsAreCertified` |
| | `HistoryIsCurrent` | `Spec => []CertificateIsCurrent` |
| | `ReceiptsForward` | `Spec => ReceiptsGoForward` |
| `DeliveryProofs` | `ObservationsTrue` | `Spec => []ObservationsAreTrue` |
| | `RoutesFresh` | `Spec => []RoutesAreFresh` |
| | `StopsObeyed` | `Spec => StopsAreObeyed` |
| `MonitoringProofs` | `IncidentsTracked` | `Spec => []IncidentsTrackFaults` |
| | `RoutedHeld` | `Spec => RoutedIsHeld` |
| `ReviewProofs` | `DutiesSeparated` | `Spec => []DutiesAreSeparated` |
| | `PoliciesStrengthen` | `Spec => []PoliciesNeverWeaken` |
| | `ReviewsEarned` | `Spec => []UsableReviewsAreEarned` |

These are all the safety properties that the passing runs check, `ImplementsEmission`
excepted. The only assumptions are those that the modules state of their constants
(`RegistryAssumption`, `PublicationAssumption`, `WitnessAssumption`, `JobsAssumption`,
`DeliveryAssumption`, `MonitoringAssumption`, `ReviewAssumption`, `QueueAssumption`,
`LifecycleAssumption`): the constants have the types the code gives them, capacities and
lifetimes that the code requires to be positive are, and no service, worker, case or
release equals the value that stands for none. TLC evaluates all of them.

### Registry

*Types.* `TypeOK` is inductive; the one place where it needs care is that schema 2
has exactly one delivery row per receipt, through `Commit` and `Migrate`, and that the
generation of a lease grows by one under `AttemptLeft`.

*Charges.* `ChargesMatchReceipts` is not inductive: a commit computes the new total
from the *sequence* in the client's intent, so the invariant is strengthened to
`ChargeInv`, that sequence and total of an account agree. Only `Commit` touches
receipts and heads (`OnlyCommitCharges`); `CommitEffect` says which event it adds to
which account and case, and the later proofs build on it. A commit adds one fresh
number to the finite set of receipts of one account, hence one to its cardinality;
the guard `~Committed` gives uniqueness.

*Chains.* `LinearChains` is inductive together with `TypeOK`: the compare-and-swap
makes the head in the intent the current head, which is the latest receipt of its
account, and the new number is above all others.

*Steps.* `StepCases` splits every step into those that leave the tables alone and the
five that write an event; the proofs below have one case for each.

*Leadership.* `LeaderInv` adds to `SingleLeader` where its epochs come from: the
session of a service is fixed by its only activation, sessions of different services
differ, none is above the current epoch, and every receipt and lease carries the
session of its broker. A service that passes `RequireBroker` has the current epoch,
hence the highest one.

*Leases.* `LeaseInv` ties the set of all leases to the delivery rows. `RowInv`: the
lease in a row is one that was granted for this event, and an acknowledgement lies
within it. `GrantInv`: no lease has a higher generation than its row. `PairInv`: the
generations of an event are distinct, follow the epochs, and within an epoch follow
each other without overlap. `ClaimFinds` is the heart: if the row's lease is not
live, then no lease of the current epoch for this event is still running, whichever
generation it is. `OldestFirst` needs the same fact of the events a claim passes over.

*Times.* `WrittenInTime` compares what a step writes with the clock it leaves, which is
the final sample of its guard. The order of the receipts needs that none is later than
the clock (`TimesInv`); the rest follows from the guards of the three writing steps.

*Permanence.* A step rewrites a delivery row only by a claim or an acknowledgement,
and both find it unacknowledged, given `ChargeInv` and `LeaseInv`.

*Refinement.* `KeyInv` says that an intent and a receipt belong to the account their
key names. The numbering of an account's receipts maps onto its charged keys, so those
are at most `total` many and a commit finds room in the ledger too (`ChargedCount`);
uniqueness of keys makes an acknowledgement the publication of one key. All other
steps, the migration included, are stutters.

### Jobs

None of the invariants is inductive alone. `IInv` says of each job what its row says of
its attempts (`LiveJobs`); of each attempt that the grant in its lease was claimed for
this job, fence and holder (`LeasedAttempts`), which makes grants one-use; of each
binding that its grant is one of the job (`Bindings`); of the runs that no two hold one
grant and that none before its read has read (`Runs`, `Reads`), which makes a grant one
read although a read may be lost; and of a succeeded job that its grant was delivered
(`Delivered`). The steps are compared with relations between a row before and after:
`Ended`, `Taken` and `Renewed` for jobs, `GrantKept` for grants. A step that claims and
renews nothing is covered by `QuietStep`; `Submit`, `Authorize`, `Claim` and `Renew` have
lemmas of their own. `JobsNothingIsRefunded` follows from the same relations.
`JobsResultsAreEarned` adds to the invariant what holds at the final sample of a step
that reads or stores: only `Complete` makes a job succeeded and only `Deliver` and
`ReadLost` read, and `LastsToTheEnd` says that their lease is the one of the live
attempt; that the grant they read under is the one of that attempt is `LeasedAttempts`.

### ConsoleQueue

`ExecutionsAreExclusive` and `ResultsMatchCase` are not inductive. `IInv` adds to the
shapes `Claimed` (a job that a worker executes names that worker, and a running job is
executed by the worker it names unless that one is dead) and `OneActivePerCase`, which
is what the partial unique index keeps. An edit needs the second: it finds no active
job of the case, so no running job loses its content. A claim needs the first: the
queued job it takes is nobody's. Two executions of a case overlap only if one job was
declared dead because two running jobs of one case would both be active.
`LateWorkersAreIgnored` follows step by step from `IInv`: only `Finish` completes a
job, and under `Holds`.

### Lifecycle

A restore puts the saved tables in place, so each part of the invariant is an operator
on the tables and `IInv` states it of the current ones and of the copy. `Chained` says
what the chain has of a live release: its commit, with no commit, no revocation of it
after that, and no authority event that did not bring a newer epoch than the one the
release is bound to; and the activation with its lease if it is active. A grant checks
the epoch, which by `Untouched` excludes every later authority event, and so extends
`Certified`. `HistoryKept` is kept because a commit suspends all other live releases;
it implies `HistoryIsCurrent`: the comparison in `_current_history` repeats what the
statuses already say. `ReceiptsForward` needs nothing but the types: a receipt
extends the checkpoint that its client presented.

### Publication

`PublicationIsRegistry` first: each step of the composition is a step of `Registry` or
leaves its variables alone, hence every invariant above holds of the composition too.
`PublicationInv` adds what the two databases say of each other. `AppliedOK`: what the
receiver applied are events of the registry, each once. `AckedAreApplied`: a delivery
that the registry counts as acknowledged was applied. `TasksOK`: what a worker holds is
a lease that was given for an event of the registry, and a worker that is to confirm
has the receipt of an applied event. An acknowledgement is therefore that of an event
with an effect, and since a request has one receipt (`ChargesCorrect`), effects counted
by request are those counted by event: a second application of a request would be a
second application of its event, which `Applied` refuses.

### Witness

A restore may bring back any earlier state of either database, so that everything said
of a database is an operator on it, and is said of the running one and of the copy.
`GoodLog`: a registry commits a request once, and each commit expected exactly the
commits before it. `GoodRecords`: the intents of a witness account for the history it
accepted, committed ones by their commit, aborted ones by a head that moved on.
`WitnessOK` relates the two copies: the one is an earlier form of the other, and intents
of the later keep what the earlier say (`Kept`). `FloorOK` is the heart: whichever
database has the pin of the sink has the intents that the pin covers, and a process
that has passed the sink has its own intent there (`Intended`). A charge is then a
charge of an intent that no restore can take from the databases that can still succeed.
All transactions of the witness are instances of one relation, `Revises`, so that
reconciliation is reasoned about once. `SuccessSees` compares what a returning step
reads with what was returned before: the database that succeeds has the pin of the sink,
hence committed intents for all of it, and the registry it read extends its history.

### Delivery

Pins outlive restores, in the sessions and in the directory, and may bring lost
events back. The invariant therefore speaks of events that are held by any of
database, directory and session (`Held`). `Identified`: an identifier names one activation
or grant among all of them, for `issued` never goes back, and who has a proof made the
record. `Truthful`: each held observation tells of one write. `Calls`: what a session may
rely on at each point of its call, in particular that between `Admit` and `Write` its
own pin, which nobody can change, holds the grant, the route and the chunk, and that the
extent it is about to record is that of its newest write (`Wrote`). None of this needs the
directory to refuse forks, which is why it holds where `Emission` does not. For
`StopsObeyed`, `Admits` remembers of a chunk whose pin is not retained yet that the
directory's pin is the history it was admitted in, or is already too long for the chunk
to be retained: what is cleared was therefore admitted in what the directory knew.

### Monitoring

`Sound` says of one history that events have identifiers of their own in the order of
their times (`EventsOK`), that answers are about what came before them and a receipt
contains its alert (`AnswersOK`), and that lasting faults are in the one unresolved
incident of their key (`Tracked`). `LogOK` requires it of every prefix, so that a restore
has nothing to prove; an appended record only adds one prefix. `Tracked` is where
`NotOlder` is needed: a fault that nothing healthy followed can only be resolved by a
healthy report that is not older than the last one, which ends it. `RoutedHeld`
combines three facts about the history a pass has read: every alert in it is acknowledged,
because the pass ends with none pending; the receipt of each acknowledgement contains the
alert (`AnswersOK`, kept by `ServicesOK`: between the two steps the receiver's pin holds
it); and the receiver of the moment extends every receipt (`HoldsAll`). `InboxOK` says that
an alert is there once.

### Review

The history only grows, so that the invariant says of each event what the history held
before it: campaigns were proposed, runs were started under an approved policy whose
delegation was not withdrawn by then, a completion directly follows its start, an
assessment accepts only what met the policy and never contradicts another, an approval
follows one that accepted (`HistoryInv`). All calls write one event that is `Legal`, and
one lemma takes the invariant over a legal event. Duties are separated because `Has`
reads the duties of a person off the whole history, whichever service wrote it.
`ReviewsEarned` combines `Usable` with that history; the delegation behind a usable
decision is good at the time of the question, not only when it was made. That the
service wrote what a usable review rests on since it last started needs two facts:
whatever is in a memory was written by its owner (`RemembersOwnWork`), and no event is
recorded twice (`NoneTwice`), so that the event in memory is the one in the history.

### Model-checked only

* `ImplementsEmission`: `Emission` sums lengths over sets, and what a sum over a set is
  needs induction over the set, which the provers cannot do; and it holds of two
  gateways only (section 3).
* `RunsReturn`, `JobsSettle` and `AlertsAreAcknowledged`: liveness under fairness and
  `ENABLED`.

Some definitions are written so that the provers can follow them: maxima of sets of
positions in `Delivery`, the `Oldest` and `Newest` of a set in `Monitoring`, where the
code loops over a list; they are what the loops compute, since positions are in order.

## 6. What is not covered

* The components marked `not_modelled` in `PROJECT.json`.
* The stored bytes: the validation of the hash chain, file modes, inode checks and the
  decoding of rows are taken as what makes the stored history the state; damage to a
  file is not modelled except as a restore of an older copy.
* SQLite itself: a transaction is atomic and durable, and writers exclude each other.
* Contents of receipts, descriptors and results beyond what the properties tell apart.
* Operations named in the notes of the components marked `partly`.
* Damage of the writer's bytes, of tools that a console job runs, and of the training
  that a review executes: they are outcomes from a small set.
* Limits the models made visible and that no document of the repository denies: an
  intent retained for an account that is already full stays pending for ever and keeps
  the namespace from reporting success; an event whose attempts are used up blocks the
  later events of its case; a full monitor can no longer acknowledge its alerts; any
  event of another process during a review's run makes the run fail for good, and a
  crash leaves its campaign started; a client that lost a lifecycle receipt is refused until it gets
  a newer checkpoint from elsewhere.
* `Monitoring` checks refusals as free choices; a constructor that is refused keeps the
  pins of the service before it, where the code has no service then.

## 7. Plan

Done: the modules of section 2, their runs, and the proofs of section 5.

1. Proofs: that a request is released at most once by any number of gateways as long as
   no database is restored, which is the part of `Emission` that needs no sum; lemmas that
   the proof modules repeat (newest of a set of positions) in one module of their own.
2. `export_poc/store.py` (prepare, commit, download and revoke with a revision
   compare-and-swap) and the store of `temporal_assurance`.
3. `release_protocol.py` as a pure replay function checked against the transitions of
   `Lifecycle`.
4. The composition of `Review` and `Delivery` through `review_bridge.py`: an activation
   is refused once the reviews it was made from are not usable any more.
