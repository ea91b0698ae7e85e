-------------------------------- MODULE Jobs --------------------------------
(***************************************************************************)
(* Durable fixture jobs: production_jobs/store.py (JobStore) and the       *)
(* coordinator over it, production_jobs/service.py (FixtureJobService).    *)
(*                                                                         *)
(* The store is one SQLite file; each of its operations is one             *)
(* transaction, which samples the guard at its start (now) and at its end  *)
(* (final) and rolls back, clock included, when final has reached a        *)
(* deadline.  A service process keeps its submissions and its input        *)
(* bindings in memory only.  A run is a call of a worker that makes        *)
(* several transactions and executes the runner between two of them; its   *)
(* process may stop at any point, and the identity lock of the process     *)
(* covers the part that claims the job and reads its input.                *)
(***************************************************************************)
EXTENDS Integers, Sequences, FiniteSets

CONSTANTS
  Brokers,          \* identities that service processes draw at start-up
  Workers,          \* threads that call run
  Holders,          \* worker credentials; a fresh token is a fresh holder
  CredentialUntil,  \* when the credential of a holder expires
  Requests,         \* request identifiers of the submitters
  NoBroker,
  MaxAttempts,      \* MAX_ATTEMPTS of a descriptor
  LeaseSeconds,     \* LEASE_SECONDS of a descriptor
  MaxLease,         \* no renewal goes beyond this from the start of an attempt
  GrantSeconds,     \* lifetimes a steward may ask for
  MaxBrokers, MaxJobs, MaxGrants, MaxEvents,  \* capacities of the store
  MaxTime           \* bound on the clock of the model

ASSUME JobsAssumption ==
  /\ IsFiniteSet(Brokers) /\ NoBroker \notin Brokers
  /\ CredentialUntil \in [Holders -> Nat]
  /\ MaxAttempts \in Nat \ {0} /\ LeaseSeconds \in Nat \ {0}
  /\ MaxLease \in Nat /\ LeaseSeconds <= MaxLease
  /\ GrantSeconds \subseteq Nat \ {0}
  /\ MaxBrokers \in Nat /\ MaxJobs \in Nat /\ MaxGrants \in Nat /\ MaxEvents \in Nat
  /\ MaxTime \in Nat

VARIABLES
  broker,     \* store: the current broker
  retired,    \* store: every broker that was ever activated
  jobs,       \* store: the jobs, with their attempts by fence
  grants,     \* store: the input grants; spent ones stay as tombstones
  count,      \* store: number of events
  clock,      \* store: last clock value a transaction committed
  server,     \* state of each service process
  binding,    \* services: the current input binding of a job
  call,       \* services: the run that each worker executes
  revoked,    \* identity: credentials whose authority was withdrawn
  reads       \* number of physical reads made under each grant

store == <<broker, retired, jobs, grants, count>>
service == <<server, binding, call>>
vars == <<store, clock, service, revoked, reads>>

-----------------------------------------------------------------------------
Times == 0..MaxTime
Idle == [pc |-> "idle"]
NoBinding == [grant |-> 0]
Terminal == {"succeeded", "failed", "cancelled"}
JobIds == 1..Len(jobs)

Least(x, y) == IF x <= y THEN x ELSE y

Sampled(now, final) == clock <= now /\ now <= final /\ clock' = final

(* The event history is bounded; an operation that needs more is refused.  *)
\* Mutant: the bound is checked before the events are counted.
EventsNotFull(n) == count <= MaxEvents /\ count' = count + n
AppendsEvents(n) == count + n <= MaxEvents /\ count' = count + n

(* The guard of a run rechecks the submitter, the steward and both uses of *)
(* the worker credential; h stands for all of them.                        *)
Authorized(h, t) == h \notin revoked /\ t < CredentialUntil[h]

(* The identity lock of a process, held from the claim to the read.        *)
\* Mutant: a run that failed still holds the lock when it cleans up.
LockKept(b) == \A w \in Workers :
  call[w] # Idle /\ call[w].lease.broker = b =>
    call[w].pc \notin {"claimed", "consumed", "reading", "cleanup"}
LockFree(b) == \A w \in Workers :
  call[w] # Idle /\ call[w].lease.broker = b => call[w].pc \notin {"claimed", "consumed", "reading"}

\* Mutant: a replaced service is still served.
StillUp(b) == server[b] = "up"
RequireBroker(b) == broker = b /\ server[b] = "up"

Latest(j) == jobs[j].attempts[jobs[j].fence]

(* An attempt is current while its job runs under its fence, it is exactly *)
(* the lease that the caller holds, and it has not expired.                *)
Current(lease, now) ==
  /\ jobs[lease.job].state = "running"
  /\ jobs[lease.job].fence = lease.fence
  /\ Latest(lease.job).state = "running"
  /\ Latest(lease.job).lease = lease
  /\ now < lease.expires

Init ==
  /\ broker = NoBroker /\ retired = {} /\ jobs = << >> /\ grants = << >>
  /\ count = 0 /\ clock = 0
  /\ server = [b \in Brokers |-> "new"]
  /\ binding = << >>
  /\ call = [w \in Workers |-> Idle]
  /\ revoked = {} /\ reads = << >>
-----------------------------------------------------------------------------
(* Operators and stewards.                                                 *)
Requeued(j) == IF jobs[j].fence < MaxAttempts THEN "queued" ELSE "failed"

EndAttempt(job, end) == [job EXCEPT !.attempts[job.fence].state = end]

Abandoned(j, now) ==
  IF jobs[j].state = "running"
  THEN [EndAttempt(jobs[j], "abandoned") EXCEPT !.state = Requeued(j), !.updated = now]
  ELSE jobs[j]

Activate(b, now, final) ==
  /\ server[b] = "new" /\ b \notin retired /\ Cardinality(retired) < MaxBrokers
  /\ AppendsEvents(Cardinality({j \in JobIds : jobs[j].state = "running"}))
  /\ Sampled(now, final)
  /\ broker' = b /\ retired' = retired \cup {b}
  /\ jobs' = [j \in JobIds |-> Abandoned(j, now)]
  /\ grants' = [g \in 1..Len(grants) |->
       IF grants[g].state \in {"authorized", "leased"}
       THEN [grants[g] EXCEPT !.state = "revoked"] ELSE grants[g]]
  /\ server' = [server EXCEPT ![b] = "up"]
  /\ UNCHANGED <<binding, call, revoked, reads>>

(* The process of a service stops; its threads and its memory are gone.    *)
Stop(b) ==
  /\ server[b] = "up"
  /\ server' = [server EXCEPT ![b] = "down"]
  /\ call' = [w \in Workers |-> IF call[w] # Idle /\ call[w].lease.broker = b
                                THEN Idle ELSE call[w]]
  /\ UNCHANGED <<store, clock, binding, revoked, reads>>

(* A request names a job of one broker; repeating it returns that job.     *)
Submit(b, r, now, final) ==
  /\ RequireBroker(b) /\ LockFree(b)
  /\ ~\E j \in JobIds : jobs[j].broker = b /\ jobs[j].request = r
  /\ Len(jobs) < MaxJobs
  /\ AppendsEvents(1) /\ Sampled(now, final)
  /\ jobs' = Append(jobs, [broker |-> b, request |-> r, state |-> "queued", fence |-> 0,
                           updated |-> now, attempts |-> << >>])
  /\ binding' = Append(binding, NoBinding)
  /\ UNCHANGED <<broker, retired, grants, server, call, revoked, reads>>

(* A steward authorizes one read of the input by the holder of a worker    *)
(* credential.  The service needs the submission in its own memory, hence  *)
(* a job of its own.                                                       *)
Authorize(b, j, h, seconds, now, final) ==
  LET expires == Least(now + seconds, CredentialUntil[h]) IN
  /\ RequireBroker(b) /\ LockFree(b) /\ jobs[j].broker = b
  /\ Authorized(h, now) /\ Authorized(h, final)
  /\ jobs[j].state \notin Terminal
  /\ jobs[j].state = "running" => now >= Latest(j).lease.expires
  /\ now < expires /\ final < expires
  /\ Len(grants) < MaxGrants
  /\ AppendsEvents(1) /\ Sampled(now, final)
  /\ grants' = Append(grants, [job |-> j, broker |-> b, holder |-> h,
                               expires |-> expires, state |-> "authorized", fence |-> 0])
  /\ reads' = Append(reads, 0)
  /\ binding' = [binding EXCEPT ![j] = [grant |-> Len(grants) + 1]]
  /\ UNCHANGED <<broker, retired, jobs, server, call, revoked>>

RevokeUnspent(job, states) ==
  grants' = [g \in 1..Len(grants) |->
    IF grants[g].job = job /\ grants[g].state \in states
    THEN [grants[g] EXCEPT !.state = "revoked"] ELSE grants[g]]

Cancel(b, j, now, final) ==
  /\ RequireBroker(b) /\ LockFree(b)
  /\ jobs[j].state \notin {"succeeded", "cancelled"}
  /\ AppendsEvents(1) /\ Sampled(now, final)
  /\ jobs' = [jobs EXCEPT ![j] =
       [(IF jobs[j].state = "running" THEN EndAttempt(jobs[j], "cancelled") ELSE jobs[j])
          EXCEPT !.state = "cancelled", !.updated = now]]
  /\ RevokeUnspent(j, {"authorized", "leased"})
  /\ UNCHANGED <<broker, retired, service, revoked, reads>>

(* Reads and refusals that still commit: only the clock moves.             *)
Observe(b, now, final) ==
  /\ RequireBroker(b) /\ LockFree(b)
  /\ Sampled(now, final) /\ final > clock
  /\ UNCHANGED <<store, service, revoked, reads>>

(* Identity administration withdraws the authority of a credential; it     *)
(* takes the identity lock of the current service too.                     *)
Revoke(h) ==
  /\ h \notin revoked /\ (broker = NoBroker \/ LockFree(broker))
  /\ revoked' = revoked \cup {h}
  /\ UNCHANGED <<store, clock, service, reads>>
-----------------------------------------------------------------------------
(* A run.  The worker presents the bound grant and takes the next fence;   *)
(* an expired attempt of the job is ended by the same transaction.         *)
Over(j, now) == jobs[j].state = "running" /\ now >= Latest(j).lease.expires
Claimable(j, now) == jobs[j].state = "queued" \/ Over(j, now)
BeforeClaim(j, now) == IF Over(j, now) THEN EndAttempt(jobs[j], "expired") ELSE jobs[j]
GrantBeforeClaim(g, j, now) ==
  IF Over(j, now) /\ grants[g].job = j /\ grants[g].fence = jobs[j].fence
       /\ grants[g].state = "leased"
  THEN [grants[g] EXCEPT !.state = "revoked"] ELSE grants[g]

\* Mutant: a grant that was spent serves another attempt.
NotRevoked(g) == grants[g].state # "revoked"
Unspent(g) == grants[g].state = "authorized"

AttemptLeft(j) == jobs[j].fence < MaxAttempts

NewLease(b, j, now) ==
  LET g == binding[j].grant
      h == grants[g].holder
      ends == Least(Least(now + LeaseSeconds, CredentialUntil[h]), grants[g].expires)
  IN [job |-> j, fence |-> jobs[j].fence + 1, holder |-> h, broker |-> b, grant |-> g,
      expires |-> ends]

Claim(w, b, j, now, final) ==
  /\ call[w] = Idle
  /\ RequireBroker(b) /\ LockFree(b)
  /\ jobs[j].broker = b /\ binding[j] # NoBinding
  /\ Claimable(j, now) /\ AttemptLeft(j)
  /\ LET lease == NewLease(b, j, now)
         g == lease.grant
     IN /\ Authorized(lease.holder, now) /\ Authorized(lease.holder, final)
        /\ Unspent(g) /\ now < grants[g].expires
        /\ now < lease.expires /\ final < lease.expires
        /\ AppendsEvents(IF Over(j, now) THEN 2 ELSE 1) /\ Sampled(now, final)
        /\ jobs' = [jobs EXCEPT ![j] =
             [BeforeClaim(j, now) EXCEPT !.state = "running", !.fence = lease.fence,
                !.updated = now,
                !.attempts = Append(@, [lease |-> lease, state |-> "running",
                  maxUntil |-> Least(now + MaxLease, CredentialUntil[lease.holder])])]]
        /\ grants' = [i \in 1..Len(grants) |->
             IF i = g THEN [grants[i] EXCEPT !.state = "leased", !.fence = lease.fence]
             ELSE GrantBeforeClaim(i, j, now)]
        /\ call' = [call EXCEPT ![w] = [pc |-> "claimed", lease |-> lease]]
  /\ UNCHANGED <<broker, retired, server, binding, revoked, reads>>

(* A claim of a job whose last attempt has expired fails it instead.       *)
Exhaust(b, j, now, final) ==
  /\ RequireBroker(b) /\ LockFree(b)
  /\ jobs[j].broker = b /\ binding[j] # NoBinding
  /\ LET h == grants[binding[j].grant].holder IN Authorized(h, now) /\ Authorized(h, final)
  /\ Over(j, now) /\ jobs[j].fence >= MaxAttempts
  /\ AppendsEvents(1) /\ Sampled(now, final)
  /\ jobs' = [jobs EXCEPT ![j] =
       [BeforeClaim(j, now) EXCEPT !.state = "failed", !.updated = now]]
  /\ grants' = [g \in 1..Len(grants) |-> GrantBeforeClaim(g, j, now)]
  /\ UNCHANGED <<broker, retired, service, revoked, reads>>

(* A transaction of the run at pc, by a holder who has the current lease   *)
(* at its start and authority at both samples; all but a renewal must end  *)
(* before the lease does.                                                  *)
HoldsLease(w, pc, now, final) ==
  /\ call[w] # Idle /\ call[w].pc = pc
  /\ RequireBroker(call[w].lease.broker)
  /\ Current(call[w].lease, now)
  /\ Authorized(call[w].lease.holder, now) /\ Authorized(call[w].lease.holder, final)
  /\ AppendsEvents(1) /\ Sampled(now, final)
\* Mutant: the job is checked, and not the lease.
JobRuns(w, pc, now, final) ==
  /\ call[w] # Idle /\ call[w].pc = pc
  /\ RequireBroker(call[w].lease.broker) /\ jobs[call[w].lease.job].state = "running"
  /\ AppendsEvents(1) /\ Sampled(now, final)
UnderLease(w, pc, now, final) ==
  /\ HoldsLease(w, pc, now, final) /\ final < call[w].lease.expires

(* The grant is spent in three transactions: reserved, its read invoked,   *)
(* the bytes delivered.  The read happens inside the last one.             *)
Spend(w, from, to, final) ==
  LET g == call[w].lease.grant IN
  /\ grants[g].state = from
  /\ final < grants[g].expires
  /\ grants' = [grants EXCEPT ![g].state = to]

Step(w, pc) == call' = [call EXCEPT ![w].pc = pc]

ConsumeInput(w, now, final) ==
  /\ UnderLease(w, "claimed", now, final)
  /\ grants[call[w].lease.grant].fence = call[w].lease.fence
  /\ Spend(w, "leased", "consumed", final) /\ Step(w, "consumed")
  /\ UNCHANGED <<broker, retired, jobs, server, binding, revoked, reads>>

StartRead(w, now, final) ==
  /\ UnderLease(w, "consumed", now, final)
  /\ Spend(w, "consumed", "read_started", final) /\ Step(w, "reading")
  /\ UNCHANGED <<broker, retired, jobs, server, binding, revoked, reads>>

CountRead(w) == reads' = [reads EXCEPT ![call[w].lease.grant] = @ + 1]

Deliver(w, now, final) ==
  /\ UnderLease(w, "reading", now, final)
  /\ Spend(w, "read_started", "delivered", final) /\ Step(w, "running")
  /\ CountRead(w)
  /\ UNCHANGED <<broker, retired, jobs, server, binding, revoked>>

(* The bytes were read, but the transaction around the read rolls back.    *)
ReadLost(w) ==
  /\ call[w] # Idle /\ call[w].pc = "reading"
  /\ RequireBroker(call[w].lease.broker)
  /\ Current(call[w].lease, clock) /\ Authorized(call[w].lease.holder, clock)
  /\ CountRead(w) /\ Step(w, "cleanup")
  /\ UNCHANGED <<store, clock, server, binding, revoked>>

(* The runner ends with an output, or without one, before its timeout.     *)
RunnerEnds(w, how) ==
  /\ call[w] # Idle /\ call[w].pc = "running"
  /\ Step(w, how)
  /\ UNCHANGED <<store, clock, server, binding, revoked, reads>>

(* Any exception, of the input or of the end of the run, leads to cleanup. *)
Raise(w) ==
  /\ call[w] # Idle
  /\ call[w].pc \in {"claimed", "consumed", "reading", "running", "completed", "unsuccessful"}
  /\ Step(w, "cleanup")
  /\ UNCHANGED <<store, clock, server, binding, revoked, reads>>

Return(w) == call' = [call EXCEPT ![w] = Idle]

Complete(w, now, final) ==
  /\ UnderLease(w, "completed", now, final) /\ LockFree(call[w].lease.broker)
  /\ grants[call[w].lease.grant].state = "delivered"
  /\ jobs' = [jobs EXCEPT ![call[w].lease.job] =
       [EndAttempt(@, "succeeded") EXCEPT !.state = "succeeded", !.updated = now]]
  /\ RevokeUnspent(call[w].lease.job, {"authorized", "leased"})
  /\ Return(w)
  /\ UNCHANGED <<broker, retired, server, binding, revoked, reads>>

\* Mutant: a grant that was reserved but not read is given back.
Refunded(state) == IF state \in {"leased", "consumed"} THEN "authorized" ELSE state
AfterFailure(state) == IF state = "leased" THEN "revoked" ELSE state

FailAttempt(lease, now) ==
  /\ jobs' = [jobs EXCEPT ![lease.job] =
       [EndAttempt(@, "failed") EXCEPT !.state = Requeued(lease.job), !.updated = now]]
  /\ grants' = [grants EXCEPT ![lease.grant].state = AfterFailure(@)]

Report(w, now, final) ==
  /\ UnderLease(w, "unsuccessful", now, final) /\ LockFree(call[w].lease.broker)
  /\ FailAttempt(call[w].lease, now)
  /\ Return(w)
  /\ UNCHANGED <<broker, retired, server, binding, revoked, reads>>

(* Cleanup records the failure of its own attempt, whatever became of its  *)
(* authority, and gives up silently when the attempt is no longer its own. *)
Cleanup(w, now, final) ==
  /\ call[w] # Idle /\ call[w].pc = "cleanup"
  /\ RequireBroker(call[w].lease.broker) /\ LockFree(call[w].lease.broker)
  /\ Current(call[w].lease, now) /\ final < call[w].lease.expires
  /\ AppendsEvents(1) /\ Sampled(now, final)
  /\ FailAttempt(call[w].lease, now)
  /\ Return(w)
  /\ UNCHANGED <<broker, retired, server, binding, revoked, reads>>

GiveUp(w) ==
  /\ call[w] # Idle /\ call[w].pc = "cleanup" /\ LockFree(call[w].lease.broker)
  /\ Return(w)
  /\ UNCHANGED <<store, clock, server, binding, revoked, reads>>

(* The store lets the holder of a lease renew it; the renewed lease        *)
(* replaces the old one.  No service calls it.                             *)
Renew(w, now, final) ==
  /\ HoldsLease(w, "running", now, final)
  /\ LET lease == call[w].lease
         ends == Least(Least(now + LeaseSeconds, CredentialUntil[lease.holder]),
                       Latest(lease.job).maxUntil)
         renewed == [lease EXCEPT !.expires = ends]
     IN /\ lease.expires <= ends /\ final < ends
        /\ jobs' = [jobs EXCEPT ![lease.job].attempts[lease.fence].lease = renewed]
        /\ call' = [call EXCEPT ![w].lease = renewed]
  /\ UNCHANGED <<broker, retired, grants, server, binding, revoked, reads>>

RunStep(w) ==
  \/ ReadLost(w) \/ Raise(w) \/ GiveUp(w)
  \/ \E how \in {"completed", "unsuccessful"} : RunnerEnds(w, how)
  \/ \E now, final \in Times :
       \/ ConsumeInput(w, now, final) \/ StartRead(w, now, final) \/ Deliver(w, now, final)
       \/ Renew(w, now, final)
       \/ Complete(w, now, final) \/ Report(w, now, final) \/ Cleanup(w, now, final)

Next ==
  \/ \E w \in Workers : RunStep(w)
  \/ \E h \in Holders : Revoke(h)
  \/ \E b \in Brokers : Stop(b)
  \/ \E b \in Brokers, now, final \in Times :
       \/ Activate(b, now, final) \/ Observe(b, now, final)
       \/ \E r \in Requests : Submit(b, r, now, final)
       \/ \E j \in JobIds :
            \/ Cancel(b, j, now, final) \/ Exhaust(b, j, now, final)
            \/ \E h \in Holders, seconds \in GrantSeconds :
                 Authorize(b, j, h, seconds, now, final)
            \/ \E w \in Workers : Claim(w, b, j, now, final)

Spec == Init /\ [][Next]_vars

(* The threads of a run are scheduled; the runner has a timeout.           *)
FairSpec == Spec /\ \A w \in Workers : WF_vars(RunStep(w))
-----------------------------------------------------------------------------
Lease == [job : Nat, fence : Nat, holder : Holders, broker : Brokers, grant : Nat,
          expires : Nat]
Attempt == [lease : Lease, maxUntil : Nat,
            state : {"running", "succeeded", "failed", "expired", "abandoned", "cancelled"}]
Job == [broker : Brokers, request : Requests, updated : Nat, fence : 0..MaxAttempts,
        state : {"queued", "running"} \cup Terminal, attempts : Seq(Attempt)]
Grant == [job : Nat, broker : Brokers, holder : Holders, expires : Nat, fence : Nat,
          state : {"authorized", "leased", "consumed", "read_started", "delivered", "revoked"}]
Spent == {"consumed", "read_started", "delivered"}

Attempts == {x \in JobIds \X (1..MaxAttempts) : x[2] <= Len(jobs[x[1]].attempts)}
AttemptOf(x) == jobs[x[1]].attempts[x[2]]

(* Type invariant: the tables and the calls; the fence of a job is its     *)
(* number of attempts, and neither exceeds the bound of the descriptor.    *)
TypeOK ==
  /\ broker \in Brokers \cup {NoBroker} /\ retired \subseteq Brokers
  /\ jobs \in Seq(Job) /\ Len(jobs) <= MaxJobs
  /\ \A j \in JobIds : Len(jobs[j].attempts) = jobs[j].fence
  /\ grants \in Seq(Grant) /\ Len(grants) <= MaxGrants
  /\ count \in 0..MaxEvents /\ clock \in Nat
  /\ server \in [Brokers -> {"new", "up", "down"}]
  /\ binding \in Seq([grant : 0..Len(grants)]) /\ Len(binding) = Len(jobs)
  /\ \A w \in Workers : call[w] # Idle =>
       /\ call[w].lease \in Lease
       /\ call[w].pc \in {"claimed", "consumed", "reading", "running", "completed",
                          "unsuccessful", "cleanup"}
  /\ revoked \subseteq Holders
  /\ reads \in Seq(Nat) /\ Len(reads) = Len(grants)

(* At most one attempt of a job is live: it is the one with the highest    *)
(* fence, it belongs to the current broker, and the job is running exactly *)
(* as long as there is one, through restarts, expiries and cancellations;  *)
(* a failed job has used up its attempts, and a queued one has one left.   *)
OneLiveAttempt ==
  \A j \in JobIds :
    /\ jobs[j].state = "running" <=>
         \E f \in 1..Len(jobs[j].attempts) : jobs[j].attempts[f].state = "running"
    /\ \A f \in 1..Len(jobs[j].attempts) : jobs[j].attempts[f].state = "running" =>
         f = jobs[j].fence /\ jobs[j].attempts[f].lease.broker = broker
    /\ jobs[j].state = "failed" => jobs[j].fence = MaxAttempts
    /\ jobs[j].state = "queued" => jobs[j].fence < MaxAttempts

(* One grant is one physical read and one attempt, whatever crash, lost    *)
(* read, expiry or new claim follows (claim, with_current_lease).          *)
GrantsAreOneUse ==
  /\ \A g \in 1..Len(grants) : reads[g] <= 1
  /\ \A x, y \in Attempts : AttemptOf(x).lease.grant = AttemptOf(y).lease.grant => x = y

(* A result comes from the last attempt, whose own grant delivered its     *)
(* input in one read, and was stored before the lease ended.  At the final *)
(* sample of the step that stores it the lease lasts, the authority of its *)
(* holder is not revoked and the credential has not ended; and so it is    *)
(* when the input is read, which only the current attempt of the job does  *)
(* (with_current_lease, complete).                                         *)
Earned ==
  \A j \in JobIds :
    /\ jobs[j].state = "succeeded" =>
         /\ Latest(j).state = "succeeded"
         /\ jobs[j].updated < Latest(j).lease.expires
         /\ grants[Latest(j).lease.grant].state = "delivered"
         /\ reads[Latest(j).lease.grant] = 1
         /\ grants[Latest(j).lease.grant].holder = Latest(j).lease.holder
    /\ \A f \in 1..Len(jobs[j].attempts) : jobs[j].attempts[f].state = "succeeded" =>
         jobs[j].state = "succeeded" /\ f = jobs[j].fence
Lasting(lease) == Authorized(lease.holder, clock') /\ clock' < lease.expires
StoredInTime ==
  \A j \in JobIds : jobs'[j].state = "succeeded" /\ jobs[j].state # "succeeded" =>
    Lasting(Latest(j).lease)
ReadInTime ==
  \A g \in 1..Len(grants) : reads'[g] # reads[g] =>
    LET attempt == Latest(grants[g].job) IN
    attempt.state = "running" /\ attempt.lease.grant = g /\ Lasting(attempt.lease)
ResultsAreEarned == [][Earned' /\ StoredInTime /\ ReadInTime]_vars

(* Nothing ended comes back: a succeeded or cancelled job stays so, a      *)
(* failed one can only be cancelled, an attempt that is not running never  *)
(* changes, fences only grow and a spent grant is never refunded.          *)
NothingIsRefunded ==
  [][/\ \A j \in JobIds :
          /\ jobs[j].state \in {"succeeded", "cancelled"} => jobs'[j].state = jobs[j].state
          /\ jobs[j].state = "failed" => jobs'[j].state \in {"failed", "cancelled"}
          /\ jobs[j].fence <= jobs'[j].fence
          /\ \A f \in 1..Len(jobs[j].attempts) : jobs[j].attempts[f].state # "running" =>
               jobs'[j].attempts[f] = jobs[j].attempts[f]
     /\ \A g \in 1..Len(grants) :
          /\ grants[g].state \in Spent => grants'[g].state \in Spent
          /\ grants[g].state \in {"revoked", "delivered"} => grants'[g] = grants[g]]_vars

(* Every run that claimed a job returns to its worker, whatever becomes of *)
(* the lease, the broker, the clock or the other runs.                     *)
RunsReturn == \A w \in Workers : call[w] # Idle ~> call[w] = Idle
=============================================================================
