----------------------------- MODULE JobsProofs -----------------------------
(***************************************************************************)
(* Proofs about the durable jobs, for every set of services, workers,      *)
(* credentials and requests and every capacity.                            *)
(***************************************************************************)
EXTENDS Jobs, FiniteSetTheorems, TLAPS

Pcs == {"claimed", "consumed", "reading", "running", "completed", "unsuccessful", "cleanup"}
Ends == {"succeeded", "failed", "expired", "abandoned", "cancelled"}
CallRow == {Idle} \cup [pc : Pcs, lease : Lease]

(* The shapes alone, without the capacities.                               *)
Shapes ==
  /\ broker \in Brokers \cup {NoBroker}
  /\ jobs \in Seq(Job)
  /\ \A j \in JobIds : Len(jobs[j].attempts) = jobs[j].fence
  /\ grants \in Seq(Grant)
  /\ binding \in Seq([grant : Nat]) /\ Len(binding) = Len(jobs)
  /\ call \in [Workers -> CallRow]
  /\ reads \in Seq(Nat) /\ Len(reads) = Len(grants)

GrantIds == 1..Len(grants)

(* What a job says of its attempts.                                        *)
Live(x, b) ==
  /\ x.state = "running" <=> \E f \in 1..x.fence : x.attempts[f].state = "running"
  /\ \A f \in 1..x.fence : x.attempts[f].state = "running" =>
       f = x.fence /\ x.attempts[f].lease.broker = b
  /\ \A f \in 1..x.fence : x.attempts[f].state = "succeeded" =>
       x.state = "succeeded" /\ f = x.fence
  /\ x.state = "failed" => x.fence = MaxAttempts
  /\ x.state = "queued" => x.fence < MaxAttempts
  /\ x.state = "succeeded" =>
       /\ x.fence # 0 /\ x.attempts[x.fence].state = "succeeded"
       /\ x.updated < x.attempts[x.fence].lease.expires

LiveJobs == \A j \in JobIds : Live(jobs[j], broker)

(* The grant of an attempt names its job, its fence and its holder, so     *)
(* that no other attempt has it.                                           *)
GrantOf(l) == grants[l.grant]
Leased(l, j, f) ==
  /\ l.grant \in GrantIds
  /\ GrantOf(l).state # "authorized"
  /\ GrantOf(l).job = j /\ GrantOf(l).fence = f /\ GrantOf(l).holder = l.holder

LeasedAttempts ==
  \A j \in JobIds : \A f \in 1..jobs[j].fence : Leased(jobs[j].attempts[f].lease, j, f)

(* A binding names a grant of its job.                                     *)
Bindings ==
  \A j \in JobIds : binding[j].grant # 0 =>
    binding[j].grant \in GrantIds /\ grants[binding[j].grant].job = j

(* A run has its grant for itself, and has not read under it before its    *)
(* one read.                                                               *)
Early == {"claimed", "consumed", "reading"}

Runs ==
  /\ \A w \in Workers : call[w] # Idle =>
       /\ call[w].lease.job \in JobIds /\ call[w].lease.grant \in GrantIds
       /\ GrantOf(call[w].lease).state # "authorized"
       /\ call[w].pc \in Early => reads[call[w].lease.grant] = 0
  /\ \A v, w \in Workers : v # w /\ call[v] # Idle /\ call[w] # Idle =>
       call[v].lease.grant # call[w].lease.grant

Reads ==
  \A g \in GrantIds :
    /\ reads[g] \in {0, 1}
    /\ grants[g].state = "authorized" => reads[g] = 0
    /\ grants[g].state = "delivered" => reads[g] = 1

(* The input of a succeeded job was delivered.                             *)
Delivered ==
  \A j \in JobIds : jobs[j].state = "succeeded" =>
    GrantOf(jobs[j].attempts[jobs[j].fence].lease).state = "delivered"

IInv ==
  /\ Shapes /\ LiveJobs /\ LeasedAttempts /\ Bindings /\ Runs /\ Reads /\ Delivered

-----------------------------------------------------------------------------
LEMMA SequenceIs ==
  ASSUME NEW S, NEW s \in Seq(S)
  PROVE  s \in [1..Len(s) -> S] /\ Len(s) \in Nat
OBVIOUS

LEMMA EntryType ==
  ASSUME NEW S, NEW s \in Seq(S), NEW i \in 1..Len(s)
  PROVE  s[i] \in S
OBVIOUS

LEMMA AppendType ==
  ASSUME NEW S, NEW s \in Seq(S), NEW e \in S
  PROVE  /\ Append(s, e) \in Seq(S)
         /\ Len(Append(s, e)) = Len(s) + 1
         /\ \A i \in 1..Len(s) : Append(s, e)[i] = s[i]
         /\ Append(s, e)[Len(s) + 1] = e
OBVIOUS

LEMMA OverwriteType ==
  ASSUME NEW S, NEW s \in Seq(S), NEW i \in 1..Len(s), NEW e \in S
  PROVE  /\ [s EXCEPT ![i] = e] \in Seq(S)
         /\ Len([s EXCEPT ![i] = e]) = Len(s)
         /\ \A j \in 1..Len(s) : [s EXCEPT ![i] = e][j] = IF j = i THEN e ELSE s[j]
OBVIOUS

(* Overwriting all entries at once.                                        *)
LEMMA MapType ==
  ASSUME NEW S, NEW n \in Nat, NEW f \in [1..n -> S]
  PROVE  f \in Seq(S) /\ Len(f) = n
OBVIOUS

-----------------------------------------------------------------------------
(* What a step may do to a job other than a claim or a renewal: it ends    *)
(* the live attempt, or settles the job without one.                       *)
Ended(x, y) ==
  /\ y.fence = x.fence
  /\ y.state # "running"
  /\ \A f \in 1..x.fence :
       /\ y.attempts[f].lease = x.attempts[f].lease
       /\ y.attempts[f].state # "running"
       /\ x.attempts[f].state # "running" => y.attempts[f] = x.attempts[f]
       /\ y.attempts[f].state = "succeeded" =>
            x.attempts[f].state = "succeeded" \/ (y.state = "succeeded" /\ f = y.fence)
  /\ y.state # "cancelled" => x.state = "running"
  /\ x.state \notin {"succeeded", "cancelled"}
  /\ y.state = "failed" => y.fence = MaxAttempts
  /\ y.state = "queued" => y.fence < MaxAttempts
  /\ y.state = "succeeded" =>
       /\ y.fence # 0 /\ y.attempts[y.fence].state = "succeeded"
       /\ y.updated < y.attempts[y.fence].lease.expires

JobFacts(x) ==
  /\ x \in Job /\ Len(x.attempts) = x.fence
  /\ x.fence \in 0..MaxAttempts /\ x.fence \in Nat
  /\ x.state \in {"queued", "running"} \cup Terminal
  /\ \A f \in 1..x.fence : x.attempts[f] \in Attempt

LEMMA JobIs ==
  ASSUME Shapes, NEW j \in JobIds
  PROVE  JobFacts(jobs[j])
<1>1. jobs[j] \in Job /\ Len(jobs[j].attempts) = jobs[j].fence
  BY DEF Shapes, JobIds
<1>2. jobs[j].attempts \in Seq(Attempt) /\ jobs[j].fence \in 0..MaxAttempts
  BY <1>1 DEF Job
<1>3. \A f \in 1..jobs[j].fence : jobs[j].attempts[f] \in Attempt
  BY <1>1, <1>2
<1>4. jobs[j].fence \in Nat
  BY <1>2, JobsAssumption
<1>5. QED
  BY <1>1, <1>2, <1>3, <1>4 DEF JobFacts, Job

LEMMA EndAttemptIs ==
  ASSUME NEW x, JobFacts(x), x.fence # 0, NEW end \in Ends
  PROVE  LET y == EndAttempt(x, end) IN
         /\ y \in Job /\ y.fence = x.fence /\ y.broker = x.broker /\ y.request = x.request
         /\ y.state = x.state /\ y.updated = x.updated
         /\ Len(y.attempts) = x.fence
         /\ \A f \in 1..x.fence :
              /\ y.attempts[f].lease = x.attempts[f].lease
              /\ f # x.fence => y.attempts[f] = x.attempts[f]
         /\ y.attempts[x.fence].state = end
<1> DEFINE last == [x.attempts[x.fence] EXCEPT !.state = end]
           atts == [x.attempts EXCEPT ![x.fence] = last]
<1>0. x \in Job /\ x.attempts \in Seq(Attempt) /\ x.fence \in 1..Len(x.attempts)
  BY DEF JobFacts, Job
<1>1. x.attempts[x.fence] \in Attempt
  BY <1>0
<1>2. last \in Attempt /\ last.state = end /\ last.lease = x.attempts[x.fence].lease
  BY <1>1 DEF Attempt, Ends
<1>3. /\ atts \in Seq(Attempt) /\ Len(atts) = Len(x.attempts)
      /\ \A f \in 1..Len(x.attempts) : atts[f] = IF f = x.fence THEN last ELSE x.attempts[f]
  BY <1>0, <1>2, OverwriteType
<1>4. EndAttempt(x, end) = [x EXCEPT !.attempts = atts]
  BY <1>0 DEF EndAttempt, Job
<1> HIDE DEF atts
<1>5. /\ [x EXCEPT !.attempts = atts] \in Job
      /\ [x EXCEPT !.attempts = atts].attempts = atts
      /\ [x EXCEPT !.attempts = atts].fence = x.fence
      /\ [x EXCEPT !.attempts = atts].broker = x.broker
      /\ [x EXCEPT !.attempts = atts].request = x.request
      /\ [x EXCEPT !.attempts = atts].state = x.state
      /\ [x EXCEPT !.attempts = atts].updated = x.updated
  BY <1>0, <1>3 DEF Job
<1>6. QED
  BY <1>0, <1>2, <1>3, <1>4, <1>5 DEF JobFacts

LEMMA RequeuedIs ==
  ASSUME NEW j, jobs[j].fence \in 0..MaxAttempts
  PROVE  /\ Requeued(j) \in {"queued"} \cup Terminal /\ Requeued(j) # "running"
         /\ Requeued(j) \notin {"succeeded", "cancelled"}
         /\ Requeued(j) = "failed" => jobs[j].fence = MaxAttempts
         /\ Requeued(j) = "queued" => jobs[j].fence < MaxAttempts
BY JobsAssumption DEF Requeued, Terminal

(* A running job that ends its live attempt, settled in any other state.   *)
IsEnding(x, y, end, state, now) ==
  y = [EndAttempt(x, end) EXCEPT !.state = state, !.updated = now]

MayEnd(x, end, state, now) ==
  /\ x.state = "running" /\ now \in Nat
  /\ end \in Ends /\ state \in {"queued"} \cup Terminal
  /\ state = "failed" => x.fence = MaxAttempts
  /\ state = "queued" => x.fence < MaxAttempts
  /\ end = "succeeded" <=> state = "succeeded"
  /\ state = "succeeded" => now < x.attempts[x.fence].lease.expires

LEMMA EndedIs ==
  ASSUME NEW x, JobFacts(x), NEW b, Live(x, b), NEW end, NEW state, NEW now,
         MayEnd(x, end, state, now), NEW y, IsEnding(x, y, end, state, now)
  PROVE  y \in Job /\ Len(y.attempts) = y.fence /\ Ended(x, y) /\ y.state = state
<1> DEFINE z == EndAttempt(x, end)
<1>a. /\ x.state = "running" /\ now \in Nat
      /\ end \in Ends /\ state \in {"queued"} \cup Terminal
      /\ state = "failed" => x.fence = MaxAttempts
      /\ state = "queued" => x.fence < MaxAttempts
      /\ end = "succeeded" <=> state = "succeeded"
      /\ state = "succeeded" => now < x.attempts[x.fence].lease.expires
  BY DEF MayEnd
<1>0. y = [z EXCEPT !.state = state, !.updated = now]
  BY <1>a DEF IsEnding
<1>1. x.fence # 0
  BY <1>a DEF Live, JobFacts
<1>2. /\ z \in Job /\ z.fence = x.fence
      /\ Len(z.attempts) = x.fence
      /\ \A f \in 1..x.fence :
           /\ z.attempts[f].lease = x.attempts[f].lease
           /\ f # x.fence => z.attempts[f] = x.attempts[f]
      /\ z.attempts[x.fence].state = end
  BY <1>a, <1>1, EndAttemptIs
<1> HIDE DEF z
<1>3. /\ y \in Job /\ y.fence = z.fence /\ y.attempts = z.attempts
      /\ y.state = state /\ y.updated = now
  BY <1>a, <1>0, <1>2 DEF Job
<1>4. \A f \in 1..x.fence : x.attempts[f].state = "running" => f = x.fence
  BY <1>a DEF Live
<1>5. state # "running" /\ end # "running"
  BY <1>a DEF Terminal, Ends
<1>6. x.attempts[x.fence].state = "running"
  BY <1>a DEF Live
<1>7. x.fence \in 1..x.fence
  BY <1>a, <1>1 DEF JobFacts
<1>8. \A f \in 1..x.fence :
       /\ y.attempts[f].lease = x.attempts[f].lease
       /\ y.attempts[f].state # "running"
       /\ x.attempts[f].state # "running" => y.attempts[f] = x.attempts[f]
       /\ y.attempts[f].state = "succeeded" =>
            x.attempts[f].state = "succeeded" \/ (y.state = "succeeded" /\ f = y.fence)
  BY <1>a, <1>2, <1>3, <1>4, <1>5, <1>6
<1>9. y.state = "succeeded" =>
       /\ y.fence # 0 /\ y.attempts[y.fence].state = "succeeded"
       /\ y.updated < y.attempts[y.fence].lease.expires
  BY <1>a, <1>1, <1>2, <1>3, <1>7
<1>10. Ended(x, y)
  BY <1>a, <1>2, <1>3, <1>5, <1>8, <1>9 DEF Ended
<1>11. Len(y.attempts) = y.fence
  BY <1>a, <1>2, <1>3
<1>12. QED
  BY <1>a, <1>3, <1>10, <1>11

(* A job without a live attempt is cancelled.                              *)
LEMMA CancelledIs ==
  ASSUME NEW x, JobFacts(x), NEW b, Live(x, b), NEW now \in Nat,
         x.state \notin {"running", "succeeded", "cancelled"},
         NEW y, y = [x EXCEPT !.state = "cancelled", !.updated = now]
  PROVE  y \in Job /\ Len(y.attempts) = y.fence /\ Ended(x, y) /\ y.state = "cancelled"
<1>1. /\ y \in Job /\ y.fence = x.fence /\ y.attempts = x.attempts
      /\ y.state = "cancelled"
  BY DEF Job, JobFacts, Terminal
<1>2. \A f \in 1..x.fence : x.attempts[f].state # "running"
  BY DEF Live
<1>3. Ended(x, y)
  BY <1>1, <1>2 DEF Ended
<1>4. Len(y.attempts) = y.fence
  BY <1>1 DEF JobFacts
<1>5. QED
  BY <1>1, <1>3, <1>4

(* Whoever ended keeps its claim to being well formed, under any broker.   *)
LEMMA EndedIsLive ==
  ASSUME NEW x, NEW y, NEW b, NEW c, JobFacts(x), Live(x, b), Ended(x, y)
  PROVE  Live(y, c)
<1>1. \A f \in 1..y.fence : y.attempts[f].state # "running"
  BY DEF Ended
<1>2. \A f \in 1..y.fence : y.attempts[f].state = "succeeded" =>
        y.state = "succeeded" /\ f = y.fence
  BY DEF Ended, Live
<1>3. QED
  BY <1>1, <1>2 DEF Ended, Live

-----------------------------------------------------------------------------
(* The relations of a step between the tables before and after it.         *)
GrantKept(p, q) ==
  /\ q.job = p.job /\ q.holder = p.holder
  /\ p.state # "authorized" => q.state # "authorized" /\ q.fence = p.fence
  /\ p.state \in {"revoked", "delivered"} => q = p
  /\ p.state \in Spent => q.state \in Spent

GrantsKept ==
  /\ Len(grants) <= Len(grants')
  /\ \A g \in GrantIds : GrantKept(grants[g], grants'[g])

(* A new grant was not delivered, and an old one only when it says so.     *)
NothingDelivered ==
  \A g \in 1..Len(grants') : grants'[g].state = "delivered" =>
    g \in GrantIds /\ grants[g].state = "delivered"

ReadsKept ==
  \A g \in 1..Len(grants') : reads'[g] = IF g \in GrantIds THEN reads[g] ELSE 0

(* The leases of the attempts that there were name the same grants.        *)
LeasesKept ==
  \A j \in 1..Len(jobs') : \A f \in 1..jobs'[j].fence :
    \/ /\ j \in JobIds /\ f \in 1..jobs[j].fence
       /\ jobs'[j].attempts[f].lease.grant = jobs[j].attempts[f].lease.grant
       /\ jobs'[j].attempts[f].lease.holder = jobs[j].attempts[f].lease.holder
    \/ Leased(jobs[j].attempts[f].lease, j, f)'

BindingsKept ==
  \A j \in 1..Len(jobs') :
    \/ j \in JobIds /\ binding'[j] = binding[j]
    \/ binding'[j].grant = 0
    \/ /\ binding'[j].grant \in 1..Len(grants')
       /\ grants'[binding'[j].grant].job = j

(* A call returns, or keeps its job and its grant and no bytes come back.  *)
CallsKept ==
  \A w \in Workers : call'[w] # Idle =>
    /\ call[w] # Idle
    /\ call'[w].lease.job = call[w].lease.job /\ call'[w].lease.grant = call[w].lease.grant
    /\ call'[w].pc \in Early =>
         call[w].pc \in Early /\ reads'[call[w].lease.grant] = reads[call[w].lease.grant]

ResultsKept ==
  \A j \in 1..Len(jobs') : jobs'[j].state = "succeeded" =>
    /\ j \in JobIds /\ jobs[j].fence # 0 /\ jobs'[j].fence = jobs[j].fence
    /\ jobs'[j].attempts[jobs[j].fence].lease.grant = jobs[j].attempts[jobs[j].fence].lease.grant
    /\ jobs[j].state = "succeeded"
         \/ GrantOf(jobs[j].attempts[jobs[j].fence].lease).state = "delivered"

(* Tables have lengths, also after a step.                                 *)
LEMMA Lengths ==
  ASSUME Shapes, Shapes'
  PROVE  /\ Len(grants) \in Nat /\ Len(grants') \in Nat
         /\ Len(jobs) \in Nat /\ Len(jobs') \in Nat
BY DEF Shapes

LEMMA LeasedStep ==
  ASSUME Shapes, Shapes', LeasedAttempts, GrantsKept, LeasesKept
  PROVE  LeasedAttempts'
<1> SUFFICES ASSUME NEW j \in 1..Len(jobs'), NEW f \in 1..jobs'[j].fence
             PROVE  Leased(jobs[j].attempts[f].lease, j, f)'
  BY DEF LeasedAttempts, JobIds
<1>1. CASE Leased(jobs[j].attempts[f].lease, j, f)'
  BY <1>1
<1>2. CASE /\ j \in JobIds /\ f \in 1..jobs[j].fence
           /\ jobs'[j].attempts[f].lease.grant = jobs[j].attempts[f].lease.grant
           /\ jobs'[j].attempts[f].lease.holder = jobs[j].attempts[f].lease.holder
  <2> DEFINE g == jobs[j].attempts[f].lease.grant
  <2>1. /\ g \in GrantIds /\ grants[g].state # "authorized" /\ grants[g].job = j
        /\ grants[g].fence = f /\ grants[g].holder = jobs[j].attempts[f].lease.holder
    BY <1>2 DEF LeasedAttempts, Leased, GrantOf
  <2>2. /\ grants'[g].state # "authorized" /\ grants'[g].job = j
        /\ grants'[g].fence = f /\ grants'[g].holder = jobs[j].attempts[f].lease.holder
    BY <2>1 DEF GrantsKept, GrantKept
  <2>3. g \in 1..Len(grants')
    BY <2>1, Lengths DEF GrantsKept, GrantIds
  <2>4. QED
    BY <1>2, <2>2, <2>3 DEF Leased, GrantOf, GrantIds
<1>3. QED
  BY <1>1, <1>2 DEF LeasesKept

LEMMA BindingsStep ==
  ASSUME Shapes, Shapes', Bindings, GrantsKept, BindingsKept
  PROVE  Bindings'
<1> SUFFICES ASSUME NEW j \in 1..Len(jobs'), binding'[j].grant # 0
             PROVE  binding'[j].grant \in 1..Len(grants') /\ grants'[binding'[j].grant].job = j
  BY DEF Bindings, JobIds, GrantIds
<1>1. CASE j \in JobIds /\ binding'[j] = binding[j]
  <2>1. binding[j].grant \in GrantIds /\ grants[binding[j].grant].job = j
    BY <1>1 DEF Bindings
  <2>2. QED
    BY <1>1, <2>1, Lengths DEF GrantsKept, GrantKept, GrantIds
<1>2. QED
  BY <1>1 DEF BindingsKept

LEMMA RunsStep ==
  ASSUME Shapes, Shapes', Runs, GrantsKept, CallsKept, Len(jobs) <= Len(jobs')
  PROVE  Runs'
<1>1. ASSUME NEW w \in Workers, call'[w] # Idle
      PROVE  /\ call'[w].lease.job \in 1..Len(jobs') /\ call'[w].lease.grant \in 1..Len(grants')
             /\ grants'[call'[w].lease.grant].state # "authorized"
             /\ call'[w].pc \in Early => reads'[call'[w].lease.grant] = 0
  <2>1. /\ call[w] # Idle
        /\ call'[w].lease.job = call[w].lease.job /\ call'[w].lease.grant = call[w].lease.grant
        /\ call'[w].pc \in Early =>
             call[w].pc \in Early /\ reads'[call[w].lease.grant] = reads[call[w].lease.grant]
    BY <1>1 DEF CallsKept
  <2>2. /\ call[w].lease.job \in JobIds /\ call[w].lease.grant \in GrantIds
        /\ grants[call[w].lease.grant].state # "authorized"
        /\ call[w].pc \in Early => reads[call[w].lease.grant] = 0
    BY <2>1 DEF Runs, GrantOf
  <2>3. grants'[call[w].lease.grant].state # "authorized"
    BY <2>2 DEF GrantsKept, GrantKept
  <2>4. call[w].lease.job \in 1..Len(jobs') /\ call[w].lease.grant \in 1..Len(grants')
    BY <2>2, Lengths DEF GrantsKept, GrantIds, JobIds
  <2>5. QED
    BY <2>1, <2>2, <2>3, <2>4
<1>2. ASSUME NEW v \in Workers, NEW w \in Workers, v # w, call'[v] # Idle, call'[w] # Idle
      PROVE  call'[v].lease.grant # call'[w].lease.grant
  BY <1>2 DEF Runs, CallsKept
<1>3. QED
  BY <1>1, <1>2 DEF Runs, GrantOf, JobIds, GrantIds

LEMMA ReadsStep ==
  ASSUME Shapes, Shapes', Reads, GrantsKept, NothingDelivered, ReadsKept
  PROVE  Reads'
<1> SUFFICES ASSUME NEW g \in 1..Len(grants')
             PROVE  /\ reads'[g] \in {0, 1}
                    /\ grants'[g].state = "authorized" => reads'[g] = 0
                    /\ grants'[g].state = "delivered" => reads'[g] = 1
  BY DEF Reads, GrantIds
<1>1. CASE g \in GrantIds
  <2>1. GrantKept(grants[g], grants'[g]) /\ reads'[g] = reads[g]
    BY <1>1 DEF GrantsKept, ReadsKept
  <2>2. /\ reads[g] \in {0, 1}
        /\ grants[g].state = "authorized" => reads[g] = 0
        /\ grants[g].state = "delivered" => reads[g] = 1
    BY <1>1 DEF Reads
  <2>3. grants'[g].state = "delivered" => grants[g].state = "delivered"
    BY DEF NothingDelivered
  <2>4. grants'[g].state = "authorized" => grants[g].state = "authorized"
    BY <2>1 DEF GrantKept
  <2>5. QED
    BY <2>1, <2>2, <2>3, <2>4
<1>2. CASE g \notin GrantIds
  BY <1>2 DEF NothingDelivered, ReadsKept
<1>3. QED
  BY <1>1, <1>2

LEMMA DeliveredStep ==
  ASSUME Shapes, Shapes', LeasedAttempts, Delivered, GrantsKept, ResultsKept
  PROVE  Delivered'
<1> SUFFICES ASSUME NEW j \in 1..Len(jobs'), jobs'[j].state = "succeeded"
             PROVE  grants'[jobs'[j].attempts[jobs'[j].fence].lease.grant].state = "delivered"
  BY DEF Delivered, GrantOf, JobIds
<1> DEFINE g == jobs[j].attempts[jobs[j].fence].lease.grant
<1>1. /\ j \in JobIds /\ jobs[j].fence # 0 /\ jobs'[j].fence = jobs[j].fence
      /\ jobs'[j].attempts[jobs[j].fence].lease.grant = g
      /\ jobs[j].state = "succeeded" \/ grants[g].state = "delivered"
  BY DEF ResultsKept, GrantOf
<1>2. grants[g].state = "delivered"
  BY <1>1 DEF Delivered, GrantOf
<1>3. jobs[j].fence \in 1..jobs[j].fence
  BY <1>1, JobIs DEF JobFacts
<1>4. g \in GrantIds
  BY <1>1, <1>3 DEF LeasedAttempts, Leased
<1>5. grants'[g].state = "delivered"
  BY <1>2, <1>4 DEF GrantsKept, GrantKept
<1>6. QED
  BY <1>1, <1>5

-----------------------------------------------------------------------------
(* A step is quiet when it claims and renews nothing.                      *)
JobsQuiet ==
  /\ Len(jobs') = Len(jobs)
  /\ \A j \in JobIds :
       \/ jobs'[j] = jobs[j] /\ (jobs[j].state = "running" => broker' = broker)
       \/ Ended(jobs[j], jobs'[j])

NewResults ==
  \A j \in JobIds : jobs'[j].state = "succeeded" /\ jobs[j].state # "succeeded" =>
    GrantOf(jobs[j].attempts[jobs[j].fence].lease).state = "delivered"

(* What NothingIsRefunded says of a job and of the grants.                 *)
JobKept(x, y) ==
  /\ x.state \in {"succeeded", "cancelled"} => y.state = x.state
  /\ x.state = "failed" => y.state \in {"failed", "cancelled"}
  /\ x.fence <= y.fence
  /\ \A f \in 1..x.fence : x.attempts[f].state # "running" => y.attempts[f] = x.attempts[f]

(* The tables stay within their capacities.                                *)
SizesKept ==
  /\ Len(jobs) <= MaxJobs => Len(jobs') <= MaxJobs
  /\ Len(grants) <= MaxGrants => Len(grants') <= MaxGrants

AllKept == (\A j \in JobIds : JobKept(jobs[j], jobs'[j])) /\ GrantsKept /\ SizesKept

LEMMA EndedIsKept ==
  ASSUME NEW x, NEW y, JobFacts(x), Ended(x, y)
  PROVE  JobKept(x, y)
BY DEF Ended, JobKept, JobFacts

LEMMA QuietJobs ==
  ASSUME Shapes, Shapes', LiveJobs, JobsQuiet, NewResults
  PROVE  /\ LiveJobs' /\ LeasesKept /\ ResultsKept
         /\ \A j \in JobIds : JobKept(jobs[j], jobs'[j])
<1>0. 1..Len(jobs') = JobIds
  BY DEF JobsQuiet, JobIds
<1> SUFFICES ASSUME NEW j \in JobIds
             PROVE  /\ Live(jobs'[j], broker')
                    /\ JobKept(jobs[j], jobs'[j])
                    /\ jobs'[j].fence = jobs[j].fence
                    /\ \A f \in 1..jobs[j].fence :
                         jobs'[j].attempts[f].lease = jobs[j].attempts[f].lease
                    /\ jobs'[j].state = "succeeded" => jobs[j].fence # 0
  <2>1. LiveJobs'
    BY <1>0 DEF LiveJobs, JobIds
  <2>2. LeasesKept
    BY <1>0 DEF LeasesKept
  <2>3. ResultsKept
    <3> SUFFICES ASSUME NEW j \in JobIds, jobs'[j].state = "succeeded"
                 PROVE  /\ j \in JobIds /\ jobs[j].fence # 0 /\ jobs'[j].fence = jobs[j].fence
                        /\ jobs'[j].attempts[jobs[j].fence].lease.grant
                             = jobs[j].attempts[jobs[j].fence].lease.grant
                        /\ jobs[j].state = "succeeded"
                             \/ GrantOf(jobs[j].attempts[jobs[j].fence].lease).state = "delivered"
      BY <1>0 DEF ResultsKept
    <3>1. jobs[j].fence # 0 /\ jobs[j].fence \in Nat
      BY JobIs DEF JobFacts
    <3>2. jobs[j].fence \in 1..jobs[j].fence
      BY <3>1
    <3>3. QED
      BY <3>1, <3>2 DEF NewResults
  <2>4. QED
    BY <2>1, <2>2, <2>3
<1>1. JobFacts(jobs[j]) /\ Live(jobs[j], broker)
  BY JobIs DEF LiveJobs
<1>2. CASE jobs'[j] = jobs[j] /\ (jobs[j].state = "running" => broker' = broker)
  <2>1. Live(jobs[j], broker')
    BY <1>1, <1>2 DEF Live
  <2>2. JobKept(jobs[j], jobs[j])
    BY <1>1 DEF JobKept, JobFacts
  <2>3. jobs[j].state = "succeeded" => jobs[j].fence # 0
    BY <1>1 DEF Live
  <2>4. QED
    BY <1>2, <2>1, <2>2, <2>3
<1>3. CASE Ended(jobs[j], jobs'[j])
  <2>1. Live(jobs'[j], broker') /\ JobKept(jobs[j], jobs'[j])
    BY <1>1, <1>3, EndedIsLive, EndedIsKept
  <2>2. QED
    BY <2>1, <1>3 DEF Ended
<1>4. QED
  BY <1>2, <1>3 DEF JobsQuiet

(* All but the reads.                                                      *)
LEMMA QuietButReads ==
  ASSUME IInv, Shapes', JobsQuiet, NewResults, GrantsKept, Len(grants') = Len(grants),
         binding' = binding, CallsKept
  PROVE  /\ LiveJobs' /\ LeasedAttempts' /\ Bindings' /\ Runs' /\ Delivered'
         /\ AllKept
<1>0. Shapes /\ LiveJobs /\ LeasedAttempts /\ Bindings /\ Runs /\ Delivered
  BY DEF IInv
<1>1. /\ LiveJobs' /\ LeasesKept /\ ResultsKept
      /\ \A j \in JobIds : JobKept(jobs[j], jobs'[j])
  BY <1>0, QuietJobs
<1>2. BindingsKept
  BY DEF JobsQuiet, BindingsKept, JobIds
<1>3. Len(jobs) <= Len(jobs')
  BY <1>0, Lengths DEF JobsQuiet
<1>4. LeasedAttempts'
  BY <1>0, <1>1, LeasedStep
<1>5. Bindings'
  BY <1>0, <1>2, BindingsStep
<1>6. Runs'
  BY <1>0, <1>3, RunsStep
<1>7. Delivered'
  BY <1>0, <1>1, DeliveredStep
<1>8. SizesKept
  BY DEF SizesKept, JobsQuiet
<1>9. QED
  BY <1>1, <1>4, <1>5, <1>6, <1>7, <1>8 DEF AllKept

LEMMA QuietStep ==
  ASSUME IInv, Shapes', JobsQuiet, NewResults, GrantsKept, Len(grants') = Len(grants),
         binding' = binding, CallsKept,
         NothingDelivered, ReadsKept
  PROVE  IInv' /\ AllKept
<1>1. /\ LiveJobs' /\ LeasedAttempts' /\ Bindings' /\ Runs' /\ Delivered'
      /\ AllKept
  BY QuietButReads
<1>2. Shapes /\ Reads
  BY DEF IInv
<1>3. Reads'
  BY <1>2, ReadsStep
<1>4. QED
  BY <1>1, <1>3 DEF IInv

-----------------------------------------------------------------------------
(* The tables that a step leaves alone.                                    *)
LEMMA SameGrants ==
  ASSUME Shapes, grants' = grants
  PROVE  /\ grants' \in Seq(Grant) /\ Len(grants') = Len(grants)
         /\ GrantsKept /\ NothingDelivered
<1>1. Len(grants) \in Nat
  BY DEF Shapes
<1>2. GrantsKept
  BY <1>1 DEF GrantsKept, GrantKept
<1>3. NothingDelivered
  BY DEF NothingDelivered, GrantIds
<1>4. QED
  BY <1>2, <1>3 DEF Shapes

LEMMA SameReads ==
  ASSUME Shapes, reads' = reads, Len(grants') = Len(grants)
  PROVE  reads' \in Seq(Nat) /\ Len(reads') = Len(grants') /\ ReadsKept
BY DEF Shapes, ReadsKept, GrantIds

LEMMA SameJobs ==
  ASSUME Shapes, jobs' = jobs, broker' = broker
  PROVE  /\ jobs' \in Seq(Job) /\ Len(jobs') = Len(jobs)
         /\ \A j \in 1..Len(jobs') : Len(jobs'[j].attempts) = jobs'[j].fence
         /\ JobsQuiet /\ NewResults
BY DEF Shapes, JobsQuiet, NewResults, JobIds

LEMMA SameCalls ==
  ASSUME Shapes, call' = call, reads' = reads
  PROVE  call' \in [Workers -> CallRow] /\ CallsKept
BY DEF Shapes, CallsKept

LEMMA Stepped ==
  ASSUME Shapes, NEW w \in Workers, call[w] # Idle, NEW pc \in Pcs, Step(w, pc),
         pc \in Early => call[w].pc \in Early /\ reads' = reads
  PROVE  call' \in [Workers -> CallRow] /\ (reads' = reads => CallsKept)
<1>1. call \in [Workers -> CallRow] /\ call[w] \in [pc : Pcs, lease : Lease]
  BY DEF Shapes, CallRow
<1>2. [call[w] EXCEPT !.pc = pc] \in [pc : Pcs, lease : Lease]
  BY <1>1
<1>3. call' = [call EXCEPT ![w] = [call[w] EXCEPT !.pc = pc]]
  BY DEF Step
<1>4. /\ call' \in [Workers -> CallRow]
      /\ \A v \in Workers : call'[v] = IF v = w THEN [call[w] EXCEPT !.pc = pc] ELSE call[v]
  BY <1>1, <1>2, <1>3 DEF CallRow
<1>5. [call[w] EXCEPT !.pc = pc].pc = pc /\ [call[w] EXCEPT !.pc = pc].lease = call[w].lease
  BY <1>1
<1>6. ASSUME reads' = reads, NEW v \in Workers, call'[v] # Idle
      PROVE  /\ call[v] # Idle
             /\ call'[v].lease.job = call[v].lease.job
             /\ call'[v].lease.grant = call[v].lease.grant
             /\ call'[v].pc \in Early =>
                  call[v].pc \in Early /\ reads'[call[v].lease.grant] = reads[call[v].lease.grant]
  BY <1>4, <1>5, <1>6
<1>7. QED
  BY <1>4, <1>6 DEF CallsKept

LEMMA Returned ==
  ASSUME Shapes, NEW w \in Workers, Return(w), reads' = reads
  PROVE  call' \in [Workers -> CallRow] /\ CallsKept
<1>1. /\ call' \in [Workers -> CallRow]
      /\ \A v \in Workers : call'[v] = IF v = w THEN Idle ELSE call[v]
  BY DEF Shapes, Return, CallRow
<1>2. QED
  BY <1>1 DEF CallsKept

(* One job is set to a row that ended.                                     *)
LEMMA OneJob ==
  ASSUME Shapes, NEW j \in JobIds, NEW y \in Job, Len(y.attempts) = y.fence,
         jobs' = [jobs EXCEPT ![j] = y]
  PROVE  /\ jobs' \in Seq(Job) /\ Len(jobs') = Len(jobs)
         /\ \A i \in JobIds : jobs'[i] = IF i = j THEN y ELSE jobs[i]
         /\ \A i \in 1..Len(jobs') : Len(jobs'[i].attempts) = jobs'[i].fence
<1>1. jobs \in Seq(Job) /\ j \in 1..Len(jobs)
  BY DEF Shapes, JobIds
<1>2. /\ jobs' \in Seq(Job) /\ Len(jobs') = Len(jobs)
      /\ \A i \in 1..Len(jobs) : jobs'[i] = IF i = j THEN y ELSE jobs[i]
  BY <1>1, OverwriteType
<1>3. QED
  BY <1>2 DEF Shapes, JobIds

LEMMA OneJobEnded ==
  ASSUME Shapes, NEW j \in JobIds, NEW y \in Job, Len(y.attempts) = y.fence,
         Ended(jobs[j], y), jobs' = [jobs EXCEPT ![j] = y], broker' = broker,
         y.state = "succeeded" =>
           GrantOf(jobs[j].attempts[jobs[j].fence].lease).state = "delivered"
  PROVE  /\ jobs' \in Seq(Job) /\ Len(jobs') = Len(jobs)
         /\ \A i \in 1..Len(jobs') : Len(jobs'[i].attempts) = jobs'[i].fence
         /\ JobsQuiet /\ NewResults
<1>1. /\ jobs' \in Seq(Job) /\ Len(jobs') = Len(jobs)
      /\ \A i \in JobIds : jobs'[i] = IF i = j THEN y ELSE jobs[i]
      /\ \A i \in 1..Len(jobs') : Len(jobs'[i].attempts) = jobs'[i].fence
  BY OneJob
<1>2. JobsQuiet
  BY <1>1 DEF JobsQuiet
<1>3. NewResults
  BY <1>1 DEF NewResults
<1>4. QED
  BY <1>1, <1>2, <1>3

(* Revoking one grant, and mapping all of them.                            *)
LEMMA GrantRevoked ==
  ASSUME NEW p \in Grant, p.state \in {"authorized", "leased"},
         NEW q, q = [p EXCEPT !.state = "revoked"]
  PROVE  q \in Grant /\ q.state = "revoked" /\ GrantKept(p, q)
<1>1. /\ q \in Grant /\ q.state = "revoked"
      /\ q.job = p.job /\ q.holder = p.holder /\ q.fence = p.fence
  BY DEF Grant
<1>2. QED
  BY <1>1 DEF GrantKept, Spent

LEMMA MappedGrants ==
  ASSUME Shapes, grants' \in [GrantIds -> Grant],
         \A g \in GrantIds : GrantKept(grants[g], grants'[g])
  PROVE  grants' \in Seq(Grant) /\ Len(grants') = Len(grants) /\ GrantsKept
<1>1. Len(grants) \in Nat
  BY DEF Shapes
<1>2. grants' \in Seq(Grant) /\ Len(grants') = Len(grants)
  BY <1>1, MapType DEF GrantIds
<1>3. QED
  BY <1>1, <1>2 DEF GrantsKept

-----------------------------------------------------------------------------
(* The steps that change no job.                                           *)
LEMMA NewShapes ==
  ASSUME broker' \in Brokers \cup {NoBroker}, jobs' \in Seq(Job),
         \A j \in 1..Len(jobs') : Len(jobs'[j].attempts) = jobs'[j].fence,
         grants' \in Seq(Grant),
         binding' \in Seq([grant : Nat]), Len(binding') = Len(jobs'),
         call' \in [Workers -> CallRow],
         reads' \in Seq(Nat), Len(reads') = Len(grants')
  PROVE  Shapes'
BY DEF Shapes, JobIds

(* A step of the calls alone.                                              *)
LEMMA CallsOnly ==
  ASSUME IInv, broker' = broker, jobs' = jobs, grants' = grants, binding' = binding,
         reads' = reads, call' \in [Workers -> CallRow], CallsKept
  PROVE  IInv' /\ AllKept
<1>0. Shapes
  BY DEF IInv
<1>1. /\ jobs' \in Seq(Job) /\ Len(jobs') = Len(jobs)
      /\ \A j \in 1..Len(jobs') : Len(jobs'[j].attempts) = jobs'[j].fence
      /\ JobsQuiet /\ NewResults
  BY <1>0, SameJobs
<1>2. /\ grants' \in Seq(Grant) /\ Len(grants') = Len(grants)
      /\ GrantsKept /\ NothingDelivered
  BY <1>0, SameGrants
<1>3. reads' \in Seq(Nat) /\ Len(reads') = Len(grants') /\ ReadsKept
  BY <1>0, <1>2, SameReads
<1>4. /\ broker' \in Brokers \cup {NoBroker}
      /\ binding' \in Seq([grant : Nat]) /\ Len(binding') = Len(jobs')
  BY <1>0, <1>1 DEF Shapes
<1>5. Shapes'
  BY <1>1, <1>2, <1>3, <1>4, NewShapes
<1>6. QED
  BY <1>1, <1>2, <1>3, <1>5, QuietStep

(* The process of a service stops, a transaction only reads, or authority  *)
(* is withdrawn.                                                           *)
LEMMA StopKeeps ==
  ASSUME IInv, NEW b, Stop(b)
  PROVE  IInv' /\ AllKept
<1>0. Shapes
  BY DEF IInv
<1>1. /\ call' \in [Workers -> CallRow]
      /\ \A w \in Workers : call'[w] # Idle => call'[w] = call[w]
  BY <1>0 DEF Stop, Shapes, CallRow
<1>2. reads' = reads
  BY DEF Stop
<1>3. CallsKept
  BY <1>1, <1>2 DEF CallsKept
<1>4. broker' = broker /\ jobs' = jobs /\ grants' = grants /\ binding' = binding
  BY DEF Stop, store
<1>5. QED
  BY <1>1, <1>2, <1>3, <1>4, CallsOnly

LEMMA ObserveOrRevokeKeeps ==
  ASSUME IInv, NEW b, NEW now, NEW final, NEW h, Observe(b, now, final) \/ Revoke(h)
  PROVE  IInv' /\ AllKept
<1>0. Shapes
  BY DEF IInv
<1>1. /\ broker' = broker /\ jobs' = jobs /\ grants' = grants /\ binding' = binding
      /\ call' = call /\ reads' = reads
  BY DEF Observe, Revoke, store, service
<1>2. call' \in [Workers -> CallRow] /\ CallsKept
  BY <1>0, <1>1, SameCalls
<1>3. QED
  BY <1>1, <1>2, CallsOnly

(* A run that moves on, or ends, without touching the store.               *)
LEMMA RunnerKeeps ==
  ASSUME IInv, NEW w \in Workers, NEW how \in {"completed", "unsuccessful"},
         RunnerEnds(w, how) \/ Raise(w) \/ GiveUp(w)
  PROVE  IInv' /\ AllKept
<1>0. Shapes
  BY DEF IInv
<1>1. /\ broker' = broker /\ jobs' = jobs /\ grants' = grants /\ binding' = binding
      /\ reads' = reads
  BY DEF RunnerEnds, Raise, GiveUp, store
<1>2. call' \in [Workers -> CallRow] /\ CallsKept
  <2>1. CASE RunnerEnds(w, how)
    <3>1. call[w] # Idle /\ Step(w, how) /\ how \in Pcs /\ how \notin Early
      BY <2>1 DEF RunnerEnds, Pcs, Early
    <3>2. QED
      BY <1>0, <1>1, <3>1, Stepped
  <2>2. CASE Raise(w)
    <3>1. call[w] # Idle /\ Step(w, "cleanup") /\ "cleanup" \in Pcs /\ "cleanup" \notin Early
      BY <2>2 DEF Raise, Pcs, Early
    <3>2. QED
      BY <1>0, <1>1, <3>1, Stepped
  <2>3. CASE GiveUp(w)
    BY <1>0, <1>1, <2>3, Returned DEF GiveUp
  <2>4. QED
    BY <2>1, <2>2, <2>3
<1>3. QED
  BY <1>1, <1>2, CallsOnly

(* The lease that a step holds is the one of the live attempt.             *)
LEMMA CurrentIs ==
  ASSUME IInv, NEW w \in Workers, call[w] # Idle, NEW now, Current(call[w].lease, now)
  PROVE  LET lease == call[w].lease
             j == lease.job
         IN /\ lease \in Lease /\ lease.grant \in GrantIds
            /\ grants[lease.grant] \in Grant /\ GrantOf(lease).state # "authorized"
            /\ j \in JobIds /\ jobs[j].state = "running" /\ jobs[j].fence = lease.fence
            /\ jobs[j].attempts[jobs[j].fence].lease = lease
            /\ jobs[j].attempts[jobs[j].fence].state = "running"
            /\ now < lease.expires
<1> DEFINE lease == call[w].lease
           j == lease.job
<1>1. call[w] \in [pc : Pcs, lease : Lease]
  BY DEF IInv, Shapes, CallRow
<1>2. lease.grant \in GrantIds /\ j \in JobIds /\ GrantOf(lease).state # "authorized"
  BY DEF IInv, Runs
<1>3. grants[lease.grant] \in Grant
  BY <1>2 DEF IInv, Shapes, GrantIds
<1>4. QED
  BY <1>1, <1>2, <1>3 DEF Current, Latest

(* Spending a grant by one more step.                                      *)
LEMMA SpendKeeps ==
  ASSUME IInv, NEW g \in GrantIds, NEW to \in {"consumed", "read_started", "delivered"},
         grants[g].state \in {"leased", "consumed", "read_started"},
         grants' = [grants EXCEPT ![g].state = to]
  PROVE  /\ grants' \in Seq(Grant) /\ Len(grants') = Len(grants) /\ GrantsKept
         /\ \A i \in GrantIds : i # g => grants'[i] = grants[i]
         /\ grants'[g].state = to
<1> DEFINE q == [grants[g] EXCEPT !.state = to]
<1>1. grants \in Seq(Grant) /\ g \in 1..Len(grants) /\ Len(grants) \in Nat
  BY DEF IInv, Shapes, GrantIds
<1>2. grants[g] \in Grant
  BY <1>1
<1>3. /\ q \in Grant /\ q.state = to
      /\ q.job = grants[g].job /\ q.holder = grants[g].holder /\ q.fence = grants[g].fence
  BY <1>2 DEF Grant
<1>4. grants' = [grants EXCEPT ![g] = q]
  OBVIOUS
<1> HIDE DEF q
<1>5. /\ grants' \in Seq(Grant) /\ Len(grants') = Len(grants)
      /\ \A i \in 1..Len(grants) : grants'[i] = IF i = g THEN q ELSE grants[i]
  BY <1>1, <1>3, <1>4, OverwriteType
<1>6. GrantKept(grants[g], q)
  BY <1>3 DEF GrantKept, Spent
<1>7. \A i \in GrantIds : GrantKept(grants[i], grants'[i])
  BY <1>5, <1>6 DEF GrantKept, GrantIds
<1>8. GrantsKept
  BY <1>1, <1>5, <1>7 DEF GrantsKept
<1>9. QED
  BY <1>1, <1>3, <1>5, <1>8 DEF GrantIds

LEMMA InputKeeps ==
  ASSUME IInv, NEW w \in Workers, NEW now, NEW final,
         ConsumeInput(w, now, final) \/ StartRead(w, now, final)
  PROVE  IInv' /\ AllKept
<1> DEFINE g == call[w].lease.grant
<1>0. Shapes
  BY DEF IInv
<1>1. /\ broker' = broker /\ jobs' = jobs /\ binding' = binding /\ reads' = reads
      /\ call[w] # Idle /\ Current(call[w].lease, now)
  BY DEF ConsumeInput, StartRead, UnderLease, HoldsLease
<1>2. g \in GrantIds
  BY <1>1, CurrentIs
<1>3. /\ grants' \in Seq(Grant) /\ Len(grants') = Len(grants) /\ GrantsKept
      /\ \A i \in GrantIds : i # g => grants'[i] = grants[i]
      /\ grants'[g].state # "delivered"
  <2>1. CASE ConsumeInput(w, now, final)
    <3>1. grants[g].state = "leased" /\ grants' = [grants EXCEPT ![g].state = "consumed"]
      BY <2>1 DEF ConsumeInput, Spend
    <3>2. QED
      BY <1>2, <3>1, SpendKeeps
  <2>2. CASE StartRead(w, now, final)
    <3>1. grants[g].state = "consumed" /\ grants' = [grants EXCEPT ![g].state = "read_started"]
      BY <2>2 DEF StartRead, Spend
    <3>2. QED
      BY <1>2, <3>1, SpendKeeps
  <2>3. QED
    BY <2>1, <2>2
<1>4. NothingDelivered
  BY <1>3 DEF NothingDelivered, GrantIds
<1>5. call' \in [Workers -> CallRow] /\ CallsKept
  <2>1. CASE ConsumeInput(w, now, final)
    <3>1. Step(w, "consumed") /\ "consumed" \in Pcs /\ call[w].pc \in Early
      BY <2>1 DEF ConsumeInput, UnderLease, HoldsLease, Pcs, Early
    <3>2. QED
      BY <1>0, <1>1, <3>1, Stepped
  <2>2. CASE StartRead(w, now, final)
    <3>1. Step(w, "reading") /\ "reading" \in Pcs /\ call[w].pc \in Early
      BY <2>2 DEF StartRead, UnderLease, HoldsLease, Pcs, Early
    <3>2. QED
      BY <1>0, <1>1, <3>1, Stepped
  <2>3. QED
    BY <2>1, <2>2
<1>6. /\ jobs' \in Seq(Job) /\ Len(jobs') = Len(jobs)
      /\ \A j \in 1..Len(jobs') : Len(jobs'[j].attempts) = jobs'[j].fence
      /\ JobsQuiet /\ NewResults
  BY <1>0, <1>1, SameJobs
<1>7. reads' \in Seq(Nat) /\ Len(reads') = Len(grants') /\ ReadsKept
  BY <1>0, <1>1, <1>3, SameReads
<1>8. /\ broker' \in Brokers \cup {NoBroker}
      /\ binding' \in Seq([grant : Nat]) /\ Len(binding') = Len(jobs')
  BY <1>0, <1>1, <1>6 DEF Shapes
<1>9. Shapes'
  BY <1>3, <1>5, <1>6, <1>7, <1>8, NewShapes
<1>10. QED
  BY <1>1, <1>3, <1>4, <1>5, <1>6, <1>7, <1>9, QuietStep

(* The one physical read.                                                  *)
LEMMA CountedRead ==
  ASSUME IInv, NEW w \in Workers, call[w] # Idle, call[w].pc = "reading", CountRead(w)
  PROVE  LET g == call[w].lease.grant IN
         /\ g \in GrantIds /\ reads' \in Seq(Nat) /\ Len(reads') = Len(reads)
         /\ reads'[g] = 1
         /\ \A i \in GrantIds : i # g => reads'[i] = reads[i]
         /\ \A v \in Workers : v # w /\ call[v] # Idle =>
              reads'[call[v].lease.grant] = reads[call[v].lease.grant]
<1> DEFINE g == call[w].lease.grant
<1>1. g \in GrantIds /\ reads[g] = 0
  BY DEF IInv, Runs, Early
<1>2. reads \in Seq(Nat) /\ g \in 1..Len(reads)
  BY <1>1 DEF IInv, Shapes, GrantIds
<1>3. reads' = [reads EXCEPT ![g] = 1]
  BY <1>1, <1>2 DEF CountRead
<1>4. /\ reads' \in Seq(Nat) /\ Len(reads') = Len(reads)
      /\ \A i \in 1..Len(reads) : reads'[i] = IF i = g THEN 1 ELSE reads[i]
  BY <1>2, <1>3, OverwriteType
<1>5. \A i \in GrantIds : i \in 1..Len(reads)
  BY DEF IInv, Shapes, GrantIds
<1>6. ASSUME NEW v \in Workers, v # w, call[v] # Idle
      PROVE  call[v].lease.grant \in GrantIds /\ call[v].lease.grant # g
  BY <1>6 DEF IInv, Runs
<1>7. QED
  BY <1>1, <1>2, <1>4, <1>5, <1>6

LEMMA Moved ==
  ASSUME Shapes, NEW w \in Workers, call[w] # Idle, NEW pc \in Pcs, pc \notin Early,
         Step(w, pc),
         \A v \in Workers : v # w /\ call[v] # Idle =>
           reads'[call[v].lease.grant] = reads[call[v].lease.grant]
  PROVE  call' \in [Workers -> CallRow] /\ CallsKept
<1>1. call \in [Workers -> CallRow] /\ call[w] \in [pc : Pcs, lease : Lease]
  BY DEF Shapes, CallRow
<1>2. [call[w] EXCEPT !.pc = pc] \in [pc : Pcs, lease : Lease]
  BY <1>1
<1>3. call' = [call EXCEPT ![w] = [call[w] EXCEPT !.pc = pc]]
  BY DEF Step
<1>4. /\ call' \in [Workers -> CallRow]
      /\ \A v \in Workers : call'[v] = IF v = w THEN [call[w] EXCEPT !.pc = pc] ELSE call[v]
  BY <1>1, <1>2, <1>3 DEF CallRow
<1>5. [call[w] EXCEPT !.pc = pc].pc = pc /\ [call[w] EXCEPT !.pc = pc].lease = call[w].lease
  BY <1>1
<1>6. QED
  BY <1>4, <1>5 DEF CallsKept

LEMMA DeliverKeeps ==
  ASSUME IInv, NEW w \in Workers, NEW now, NEW final, Deliver(w, now, final)
  PROVE  IInv' /\ AllKept
<1> DEFINE g == call[w].lease.grant
<1>0. Shapes /\ Reads
  BY DEF IInv
<1>1. /\ broker' = broker /\ jobs' = jobs /\ binding' = binding
      /\ call[w] # Idle /\ call[w].pc = "reading" /\ CountRead(w) /\ Step(w, "running")
      /\ grants[g].state = "read_started" /\ grants' = [grants EXCEPT ![g].state = "delivered"]
  BY DEF Deliver, UnderLease, HoldsLease, Spend
<1>2. /\ g \in GrantIds /\ reads' \in Seq(Nat) /\ Len(reads') = Len(reads)
      /\ reads'[g] = 1
      /\ \A i \in GrantIds : i # g => reads'[i] = reads[i]
      /\ \A v \in Workers : v # w /\ call[v] # Idle =>
           reads'[call[v].lease.grant] = reads[call[v].lease.grant]
  BY <1>1, CountedRead
<1>3. /\ grants' \in Seq(Grant) /\ Len(grants') = Len(grants) /\ GrantsKept
      /\ \A i \in GrantIds : i # g => grants'[i] = grants[i]
      /\ grants'[g].state = "delivered"
  BY <1>1, <1>2, SpendKeeps
<1>4. call' \in [Workers -> CallRow] /\ CallsKept
  BY <1>0, <1>1, <1>2, Moved DEF Pcs, Early
<1>5. /\ jobs' \in Seq(Job) /\ Len(jobs') = Len(jobs)
      /\ \A j \in 1..Len(jobs') : Len(jobs'[j].attempts) = jobs'[j].fence
      /\ JobsQuiet /\ NewResults
  BY <1>0, <1>1, SameJobs
<1>6. /\ broker' \in Brokers \cup {NoBroker}
      /\ binding' \in Seq([grant : Nat]) /\ Len(binding') = Len(jobs')
      /\ Len(reads') = Len(grants')
  BY <1>0, <1>1, <1>2, <1>3, <1>5 DEF Shapes
<1>7. Shapes'
  BY <1>2, <1>3, <1>4, <1>5, <1>6, NewShapes
<1>8. /\ LiveJobs' /\ LeasedAttempts' /\ Bindings' /\ Runs' /\ Delivered'
      /\ AllKept
  BY <1>1, <1>3, <1>4, <1>5, <1>7, QuietButReads
<1>9. \A i \in GrantIds :
        /\ reads'[i] \in {0, 1}
        /\ grants'[i].state = "authorized" => reads'[i] = 0
        /\ grants'[i].state = "delivered" => reads'[i] = 1
  BY <1>0, <1>2, <1>3 DEF Reads
<1>10. Reads'
  BY <1>3, <1>9 DEF Reads, GrantIds
<1>11. QED
  BY <1>7, <1>8, <1>10 DEF IInv

LEMMA ReadLostKeeps ==
  ASSUME IInv, NEW w \in Workers, ReadLost(w)
  PROVE  IInv' /\ AllKept
<1> DEFINE g == call[w].lease.grant
<1>0. Shapes /\ Reads /\ Runs
  BY DEF IInv
<1>1. /\ broker' = broker /\ jobs' = jobs /\ binding' = binding /\ grants' = grants
      /\ call[w] # Idle /\ call[w].pc = "reading" /\ CountRead(w) /\ Step(w, "cleanup")
  BY DEF ReadLost, store
<1>2. /\ g \in GrantIds /\ reads' \in Seq(Nat) /\ Len(reads') = Len(reads)
      /\ reads'[g] = 1
      /\ \A i \in GrantIds : i # g => reads'[i] = reads[i]
      /\ \A v \in Workers : v # w /\ call[v] # Idle =>
           reads'[call[v].lease.grant] = reads[call[v].lease.grant]
  BY <1>1, CountedRead
<1>3. grants' \in Seq(Grant) /\ Len(grants') = Len(grants) /\ GrantsKept
  BY <1>0, <1>1, SameGrants
<1>4. call' \in [Workers -> CallRow] /\ CallsKept
  BY <1>0, <1>1, <1>2, Moved DEF Pcs, Early
<1>5. /\ jobs' \in Seq(Job) /\ Len(jobs') = Len(jobs)
      /\ \A j \in 1..Len(jobs') : Len(jobs'[j].attempts) = jobs'[j].fence
      /\ JobsQuiet /\ NewResults
  BY <1>0, <1>1, SameJobs
<1>6. /\ broker' \in Brokers \cup {NoBroker}
      /\ binding' \in Seq([grant : Nat]) /\ Len(binding') = Len(jobs')
      /\ Len(reads') = Len(grants')
  BY <1>0, <1>1, <1>2, <1>3, <1>5 DEF Shapes
<1>7. Shapes'
  BY <1>2, <1>3, <1>4, <1>5, <1>6, NewShapes
<1>8. /\ LiveJobs' /\ LeasedAttempts' /\ Bindings' /\ Runs' /\ Delivered'
      /\ AllKept
  BY <1>1, <1>3, <1>4, <1>5, <1>7, QuietButReads
<1>9. grants[g].state # "authorized"
  BY <1>0, <1>1 DEF Runs, GrantOf
<1>10. \A i \in GrantIds :
        /\ reads'[i] \in {0, 1}
        /\ grants'[i].state = "authorized" => reads'[i] = 0
        /\ grants'[i].state = "delivered" => reads'[i] = 1
  BY <1>0, <1>1, <1>2, <1>9 DEF Reads
<1>11. Reads'
  BY <1>3, <1>10 DEF Reads, GrantIds
<1>12. QED
  BY <1>7, <1>8, <1>11 DEF IInv

-----------------------------------------------------------------------------
(* The steps that end an attempt.                                          *)
(* What they do to a job and to the grants, put together.                  *)
LEMMA EndingKeeps ==
  ASSUME IInv, NEW j \in JobIds, NEW y \in Job, Len(y.attempts) = y.fence,
         Ended(jobs[j], y), jobs' = [jobs EXCEPT ![j] = y], broker' = broker,
         y.state = "succeeded" =>
           GrantOf(jobs[j].attempts[jobs[j].fence].lease).state = "delivered",
         grants' \in Seq(Grant), Len(grants') = Len(grants), GrantsKept, NothingDelivered,
         binding' = binding, reads' = reads, call' \in [Workers -> CallRow], CallsKept
  PROVE  IInv' /\ AllKept
<1>0. Shapes
  BY DEF IInv
<1>1. /\ jobs' \in Seq(Job) /\ Len(jobs') = Len(jobs)
      /\ \A i \in 1..Len(jobs') : Len(jobs'[i].attempts) = jobs'[i].fence
      /\ JobsQuiet /\ NewResults
  BY <1>0, OneJobEnded
<1>2. reads' \in Seq(Nat) /\ Len(reads') = Len(grants') /\ ReadsKept
  BY <1>0, SameReads
<1>3. /\ broker' \in Brokers \cup {NoBroker}
      /\ binding' \in Seq([grant : Nat]) /\ Len(binding') = Len(jobs')
  BY <1>0, <1>1 DEF Shapes
<1>4. Shapes'
  BY <1>1, <1>2, <1>3, NewShapes
<1>5. QED
  BY <1>1, <1>2, <1>4, QuietStep

LEMMA RevokeUnspentKeeps ==
  ASSUME Shapes, NEW j, RevokeUnspent(j, {"authorized", "leased"})
  PROVE  /\ grants' \in Seq(Grant) /\ Len(grants') = Len(grants)
         /\ GrantsKept /\ NothingDelivered
<1>1. grants' = [g \in GrantIds |->
        IF grants[g].job = j /\ grants[g].state \in {"authorized", "leased"}
        THEN [grants[g] EXCEPT !.state = "revoked"] ELSE grants[g]]
  BY DEF RevokeUnspent, GrantIds
<1>2. ASSUME NEW g \in GrantIds
      PROVE  /\ grants'[g] \in Grant /\ GrantKept(grants[g], grants'[g])
             /\ grants'[g].state = "delivered" => grants[g].state = "delivered"
  <2>1. grants[g] \in Grant
    BY DEF Shapes, GrantIds
  <2>2. CASE grants[g].job = j /\ grants[g].state \in {"authorized", "leased"}
    <3>1. grants'[g] = [grants[g] EXCEPT !.state = "revoked"]
      BY <1>1, <2>2
    <3>2. grants'[g] \in Grant /\ grants'[g].state = "revoked" /\ GrantKept(grants[g], grants'[g])
      BY <2>1, <2>2, <3>1, GrantRevoked
    <3>3. QED
      BY <3>2
  <2>3. CASE ~(grants[g].job = j /\ grants[g].state \in {"authorized", "leased"})
    <3>1. grants'[g] = grants[g]
      BY <1>1, <2>3
    <3>2. QED
      BY <2>1, <3>1 DEF GrantKept
  <2>4. QED
    BY <2>2, <2>3
<1>3. grants' \in [GrantIds -> Grant]
  BY <1>1, <1>2
<1>4. grants' \in Seq(Grant) /\ Len(grants') = Len(grants) /\ GrantsKept
  BY <1>2, <1>3, MappedGrants
<1>5. NothingDelivered
  BY <1>2, <1>4 DEF NothingDelivered, GrantIds
<1>6. QED
  BY <1>4, <1>5

LEMMA TimesAreNat == Times \subseteq Nat
BY JobsAssumption DEF Times

LEMMA CancelKeeps ==
  ASSUME IInv, NEW b, NEW j \in JobIds, NEW now \in Times, NEW final, Cancel(b, j, now, final)
  PROVE  IInv' /\ AllKept
<1>0. Shapes
  BY DEF IInv
<1>1. /\ broker' = broker /\ binding' = binding /\ call' = call /\ reads' = reads
      /\ jobs[j].state \notin {"succeeded", "cancelled"}
      /\ RevokeUnspent(j, {"authorized", "leased"})
  BY DEF Cancel, service
<1>2. PICK y : y = [(IF jobs[j].state = "running" THEN EndAttempt(jobs[j], "cancelled")
                     ELSE jobs[j]) EXCEPT !.state = "cancelled", !.updated = now]
  OBVIOUS
<1>3. jobs' = [jobs EXCEPT ![j] = y]
  BY <1>2 DEF Cancel
<1>4. JobFacts(jobs[j]) /\ Live(jobs[j], broker) /\ now \in Nat
  BY <1>0, JobIs, TimesAreNat DEF IInv, LiveJobs
<1>5. y \in Job /\ Len(y.attempts) = y.fence /\ Ended(jobs[j], y) /\ y.state = "cancelled"
  <2>1. CASE jobs[j].state = "running"
    <3>1. IsEnding(jobs[j], y, "cancelled", "cancelled", now)
      BY <1>2, <2>1 DEF IsEnding
    <3>2. MayEnd(jobs[j], "cancelled", "cancelled", now)
      BY <1>4, <2>1 DEF MayEnd, Ends, Terminal
    <3>3. QED
      BY <1>4, <3>1, <3>2, EndedIs
  <2>2. CASE jobs[j].state # "running"
    <3>1. y = [jobs[j] EXCEPT !.state = "cancelled", !.updated = now]
      BY <1>2, <2>2
    <3>2. jobs[j].state \notin {"running", "succeeded", "cancelled"}
      BY <1>1, <2>2
    <3>3. QED
      BY <1>4, <3>1, <3>2, CancelledIs
  <2>3. QED
    BY <2>1, <2>2
<1>6. /\ grants' \in Seq(Grant) /\ Len(grants') = Len(grants)
      /\ GrantsKept /\ NothingDelivered
  BY <1>0, <1>1, RevokeUnspentKeeps
<1>7. call' \in [Workers -> CallRow] /\ CallsKept
  BY <1>0, <1>1, SameCalls
<1>8. QED
  BY <1>1, <1>3, <1>5, <1>6, <1>7, EndingKeeps

LEMMA CompleteKeeps ==
  ASSUME IInv, NEW w \in Workers, NEW now \in Times, NEW final, Complete(w, now, final)
  PROVE  IInv' /\ AllKept
<1> DEFINE lease == call[w].lease
           j == lease.job
<1>0. Shapes
  BY DEF IInv
<1>1. /\ broker' = broker /\ binding' = binding /\ reads' = reads /\ Return(w)
      /\ call[w] # Idle /\ Current(lease, now)
      /\ GrantOf(lease).state = "delivered"
      /\ RevokeUnspent(j, {"authorized", "leased"})
  BY DEF Complete, UnderLease, HoldsLease, GrantOf
<1>2. /\ j \in JobIds /\ jobs[j].state = "running"
      /\ jobs[j].attempts[jobs[j].fence].lease = lease /\ now < lease.expires
  BY <1>1, CurrentIs
<1>3. PICK y : IsEnding(jobs[j], y, "succeeded", "succeeded", now)
  BY DEF IsEnding
<1>4. jobs' = [jobs EXCEPT ![j] = y]
  BY <1>3 DEF Complete, IsEnding
<1>5. JobFacts(jobs[j]) /\ Live(jobs[j], broker) /\ now \in Nat
  BY <1>0, <1>2, JobIs, TimesAreNat DEF IInv, LiveJobs
<1>6. MayEnd(jobs[j], "succeeded", "succeeded", now)
  BY <1>2, <1>5 DEF MayEnd, Ends, Terminal
<1>7. y \in Job /\ Len(y.attempts) = y.fence /\ Ended(jobs[j], y)
  BY <1>3, <1>5, <1>6, EndedIs
<1>8. GrantOf(jobs[j].attempts[jobs[j].fence].lease).state = "delivered"
  BY <1>1, <1>2
<1>9. /\ grants' \in Seq(Grant) /\ Len(grants') = Len(grants)
      /\ GrantsKept /\ NothingDelivered
  BY <1>0, <1>1, RevokeUnspentKeeps
<1>10. call' \in [Workers -> CallRow] /\ CallsKept
  BY <1>0, <1>1, Returned
<1>11. QED
  BY <1>1, <1>2, <1>4, <1>7, <1>8, <1>9, <1>10, EndingKeeps

LEMMA FailAttemptKeeps ==
  ASSUME IInv, NEW w \in Workers, NEW now \in Times, call[w] # Idle,
         Current(call[w].lease, now), FailAttempt(call[w].lease, now), Return(w),
         broker' = broker, binding' = binding, reads' = reads
  PROVE  IInv' /\ AllKept
<1> DEFINE lease == call[w].lease
           j == lease.job
           g == lease.grant
<1>0. Shapes
  BY DEF IInv
<1>2. /\ j \in JobIds /\ jobs[j].state = "running"
      /\ g \in GrantIds /\ grants[g] \in Grant
  BY CurrentIs
<1>3. PICK y : IsEnding(jobs[j], y, "failed", Requeued(j), now)
  BY DEF IsEnding
<1>4. jobs' = [jobs EXCEPT ![j] = y]
  BY <1>3 DEF FailAttempt, IsEnding
<1>5. JobFacts(jobs[j]) /\ Live(jobs[j], broker) /\ now \in Nat
  BY <1>0, <1>2, JobIs, TimesAreNat DEF IInv, LiveJobs
<1>6. PICK state \in {"queued"} \cup Terminal :
        /\ state = Requeued(j)
        /\ state # "succeeded"
        /\ state = "failed" => jobs[j].fence = MaxAttempts
        /\ state = "queued" => jobs[j].fence < MaxAttempts
  BY <1>5, RequeuedIs DEF JobFacts
<1>7. y \in Job /\ Len(y.attempts) = y.fence /\ Ended(jobs[j], y) /\ y.state = state
  <2>1. IsEnding(jobs[j], y, "failed", state, now)
    BY <1>3, <1>6
  <2>2. MayEnd(jobs[j], "failed", state, now)
    BY <1>2, <1>5, <1>6 DEF MayEnd, Ends
  <2>3. QED
    BY <1>5, <2>1, <2>2, EndedIs
<1>8. PICK q : q = [grants[g] EXCEPT !.state = AfterFailure(grants[g].state)]
  OBVIOUS
<1>9. grants' = [grants EXCEPT ![g] = q]
  BY <1>8 DEF FailAttempt
<1>10. /\ q \in Grant /\ GrantKept(grants[g], q)
       /\ q.state = "delivered" => grants[g].state = "delivered"
  <2>1. CASE grants[g].state = "leased"
    <3>1. q = [grants[g] EXCEPT !.state = "revoked"] /\ grants[g].state \in {"authorized", "leased"}
      BY <1>8, <2>1 DEF AfterFailure
    <3>2. q \in Grant /\ q.state = "revoked" /\ GrantKept(grants[g], q)
      BY <1>2, <3>1, GrantRevoked
    <3>3. QED
      BY <3>2
  <2>2. CASE grants[g].state # "leased"
    <3>1. q = [grants[g] EXCEPT !.state = grants[g].state]
      BY <1>8, <2>2 DEF AfterFailure
    <3>2. q = grants[g]
      BY <1>2, <3>1 DEF Grant
    <3>3. QED
      BY <1>2, <3>2 DEF GrantKept
  <2>3. QED
    BY <2>1, <2>2
<1>11. grants \in Seq(Grant) /\ g \in 1..Len(grants) /\ Len(grants) \in Nat
  BY <1>0, <1>2 DEF Shapes, GrantIds
<1>12. /\ grants' \in Seq(Grant) /\ Len(grants') = Len(grants)
       /\ \A i \in 1..Len(grants) : grants'[i] = IF i = g THEN q ELSE grants[i]
  BY <1>9, <1>10, <1>11, OverwriteType
<1>13. \A i \in GrantIds : GrantKept(grants[i], grants'[i])
  BY <1>10, <1>12 DEF GrantKept, GrantIds
<1>14. GrantsKept
  BY <1>11, <1>12, <1>13 DEF GrantsKept
<1>15. NothingDelivered
  BY <1>10, <1>12 DEF NothingDelivered, GrantIds
<1>16. call' \in [Workers -> CallRow] /\ CallsKept
  BY <1>0, Returned
<1>17. y.state # "succeeded"
  BY <1>6, <1>7
<1>18. QED
  BY <1>2, <1>4, <1>7, <1>12, <1>14, <1>15, <1>16, <1>17, EndingKeeps

LEMMA ReportOrCleanupKeeps ==
  ASSUME IInv, NEW w \in Workers, NEW now \in Times, NEW final,
         Report(w, now, final) \/ Cleanup(w, now, final)
  PROVE  IInv' /\ AllKept
<1>1. /\ call[w] # Idle /\ Current(call[w].lease, now) /\ FailAttempt(call[w].lease, now)
      /\ Return(w) /\ broker' = broker /\ binding' = binding /\ reads' = reads
  BY DEF Report, Cleanup, UnderLease, HoldsLease
<1>2. QED
  BY <1>1, FailAttemptKeeps

(* What the transaction of a claim does to the other grants.               *)
LEMMA BeforeClaimKeeps ==
  ASSUME Shapes, NEW j, NEW now, NEW g \in GrantIds
  PROVE  /\ GrantBeforeClaim(g, j, now) \in Grant
         /\ GrantKept(grants[g], GrantBeforeClaim(g, j, now))
         /\ GrantBeforeClaim(g, j, now).state = "delivered" => grants[g].state = "delivered"
<1>1. grants[g] \in Grant
  BY DEF Shapes, GrantIds
<1>2. PICK q : q = GrantBeforeClaim(g, j, now)
  OBVIOUS
<1>3. CASE q = grants[g]
  BY <1>1, <1>2, <1>3 DEF GrantKept
<1>4. CASE grants[g].state = "leased" /\ q = [grants[g] EXCEPT !.state = "revoked"]
  <2>1. grants[g].state \in {"authorized", "leased"} /\ q = [grants[g] EXCEPT !.state = "revoked"]
    BY <1>4
  <2>2. q \in Grant /\ q.state = "revoked" /\ GrantKept(grants[g], q)
    BY <1>1, <2>1, GrantRevoked
  <2>3. QED
    BY <1>2, <2>2
<1>5. QED
  BY <1>2, <1>3, <1>4 DEF GrantBeforeClaim

LEMMA ExhaustKeeps ==
  ASSUME IInv, NEW b, NEW j \in JobIds, NEW now \in Times, NEW final, Exhaust(b, j, now, final)
  PROVE  IInv' /\ AllKept
<1>0. Shapes
  BY DEF IInv
<1>1. /\ broker' = broker /\ binding' = binding /\ call' = call /\ reads' = reads
      /\ Over(j, now) /\ jobs[j].state = "running" /\ jobs[j].fence >= MaxAttempts
      /\ grants' = [g \in GrantIds |-> GrantBeforeClaim(g, j, now)]
  BY DEF Exhaust, Over, service, GrantIds
<1>2. PICK y : IsEnding(jobs[j], y, "expired", "failed", now)
  BY DEF IsEnding
<1>3. jobs' = [jobs EXCEPT ![j] = y]
  BY <1>1, <1>2 DEF Exhaust, BeforeClaim, IsEnding
<1>4. JobFacts(jobs[j]) /\ Live(jobs[j], broker) /\ now \in Nat
  BY <1>0, JobIs, TimesAreNat DEF IInv, LiveJobs
<1>5. jobs[j].fence = MaxAttempts
  BY <1>1, <1>4, JobsAssumption DEF JobFacts
<1>6. MayEnd(jobs[j], "expired", "failed", now)
  BY <1>1, <1>4, <1>5 DEF MayEnd, Ends, Terminal
<1>7. y \in Job /\ Len(y.attempts) = y.fence /\ Ended(jobs[j], y) /\ y.state = "failed"
  BY <1>2, <1>4, <1>6, EndedIs
<1>8. \A g \in GrantIds :
        /\ grants'[g] \in Grant /\ GrantKept(grants[g], grants'[g])
        /\ grants'[g].state = "delivered" => grants[g].state = "delivered"
  BY <1>0, <1>1, BeforeClaimKeeps
<1>9. grants' \in [GrantIds -> Grant]
  BY <1>1, <1>8
<1>10. grants' \in Seq(Grant) /\ Len(grants') = Len(grants) /\ GrantsKept
  BY <1>0, <1>8, <1>9, MappedGrants
<1>11. NothingDelivered
  BY <1>8, <1>10 DEF NothingDelivered, GrantIds
<1>12. call' \in [Workers -> CallRow] /\ CallsKept
  BY <1>0, <1>1, SameCalls
<1>13. QED
  BY <1>1, <1>3, <1>7, <1>10, <1>11, <1>12, EndingKeeps

LEMMA ActivateKeeps ==
  ASSUME IInv, NEW b \in Brokers, NEW now \in Times, NEW final, Activate(b, now, final)
  PROVE  IInv' /\ AllKept
<1>0. Shapes
  BY DEF IInv
<1>1. /\ broker' = b /\ binding' = binding /\ call' = call /\ reads' = reads
      /\ jobs' = [j \in JobIds |-> Abandoned(j, now)]
      /\ grants' = [g \in GrantIds |->
           IF grants[g].state \in {"authorized", "leased"}
           THEN [grants[g] EXCEPT !.state = "revoked"] ELSE grants[g]]
  BY DEF Activate, GrantIds
<1>2. ASSUME NEW j \in JobIds
      PROVE  /\ jobs'[j] \in Job /\ Len(jobs'[j].attempts) = jobs'[j].fence
             /\ \/ jobs'[j] = jobs[j] /\ jobs[j].state # "running"
                \/ Ended(jobs[j], jobs'[j])
             /\ jobs'[j].state = "succeeded" => jobs[j].state = "succeeded"
  <2>1. JobFacts(jobs[j]) /\ Live(jobs[j], broker) /\ now \in Nat
    BY <1>0, JobIs, TimesAreNat DEF IInv, LiveJobs
  <2>2. CASE jobs[j].state = "running"
    <3>1. IsEnding(jobs[j], jobs'[j], "abandoned", Requeued(j), now)
      BY <1>1, <2>2 DEF Abandoned, IsEnding
    <3>2. PICK state \in {"queued"} \cup Terminal :
            /\ state = Requeued(j)
            /\ state # "succeeded"
            /\ state = "failed" => jobs[j].fence = MaxAttempts
            /\ state = "queued" => jobs[j].fence < MaxAttempts
      BY <2>1, RequeuedIs DEF JobFacts
    <3>3. /\ jobs'[j] \in Job /\ Len(jobs'[j].attempts) = jobs'[j].fence
          /\ Ended(jobs[j], jobs'[j]) /\ jobs'[j].state = state
      <4>1. IsEnding(jobs[j], jobs'[j], "abandoned", state, now)
        BY <3>1, <3>2
      <4>2. MayEnd(jobs[j], "abandoned", state, now)
        BY <2>1, <2>2, <3>2 DEF MayEnd, Ends
      <4>3. QED
        BY <2>1, <4>1, <4>2, EndedIs
    <3>4. QED
      BY <3>2, <3>3
  <2>3. CASE jobs[j].state # "running"
    <3>1. jobs'[j] = jobs[j]
      BY <1>1, <2>3 DEF Abandoned
    <3>2. QED
      BY <2>1, <2>3, <3>1 DEF JobFacts
  <2>4. QED
    BY <2>2, <2>3
<1>3. jobs' \in [1..Len(jobs) -> Job] /\ Len(jobs) \in Nat
  BY <1>0, <1>1, <1>2 DEF JobIds, Shapes
<1>4. jobs' \in Seq(Job) /\ Len(jobs') = Len(jobs)
  BY <1>3, MapType
<1>5. /\ \A j \in 1..Len(jobs') : Len(jobs'[j].attempts) = jobs'[j].fence
      /\ JobsQuiet /\ NewResults
  BY <1>2, <1>4 DEF JobsQuiet, NewResults, JobIds
<1>6. ASSUME NEW g \in GrantIds
      PROVE  /\ grants'[g] \in Grant /\ GrantKept(grants[g], grants'[g])
             /\ grants'[g].state = "delivered" => grants[g].state = "delivered"
  <2>1. grants[g] \in Grant
    BY <1>0 DEF Shapes, GrantIds
  <2>2. CASE grants[g].state \in {"authorized", "leased"}
    <3>1. grants'[g] = [grants[g] EXCEPT !.state = "revoked"]
      BY <1>1, <2>2
    <3>2. grants'[g] \in Grant /\ grants'[g].state = "revoked" /\ GrantKept(grants[g], grants'[g])
      BY <2>1, <2>2, <3>1, GrantRevoked
    <3>3. QED
      BY <3>2
  <2>3. CASE grants[g].state \notin {"authorized", "leased"}
    <3>1. grants'[g] = grants[g]
      BY <1>1, <2>3
    <3>2. QED
      BY <2>1, <3>1 DEF GrantKept
  <2>4. QED
    BY <2>2, <2>3
<1>7. grants' \in [GrantIds -> Grant]
  BY <1>1, <1>6
<1>8. grants' \in Seq(Grant) /\ Len(grants') = Len(grants) /\ GrantsKept
  BY <1>0, <1>6, <1>7, MappedGrants
<1>9. NothingDelivered
  BY <1>6, <1>8 DEF NothingDelivered, GrantIds
<1>10. call' \in [Workers -> CallRow] /\ CallsKept
  BY <1>0, <1>1, SameCalls
<1>11. reads' \in Seq(Nat) /\ Len(reads') = Len(grants') /\ ReadsKept
  BY <1>0, <1>1, <1>8, SameReads
<1>12. /\ broker' \in Brokers \cup {NoBroker}
       /\ binding' \in Seq([grant : Nat]) /\ Len(binding') = Len(jobs')
  BY <1>0, <1>1, <1>4 DEF Shapes
<1>13. Shapes'
  BY <1>4, <1>5, <1>8, <1>10, <1>11, <1>12, NewShapes
<1>14. QED
  BY <1>1, <1>5, <1>8, <1>9, <1>10, <1>11, <1>13, QuietStep

-----------------------------------------------------------------------------
(* The steps that add or renew something.                                  *)
LEMMA AddingKeeps ==
  ASSUME IInv, Shapes', LiveJobs', LeasesKept, BindingsKept, ResultsKept, Runs',
         GrantsKept, NothingDelivered, ReadsKept,
         \A j \in JobIds : JobKept(jobs[j], jobs'[j]), SizesKept
  PROVE  IInv' /\ AllKept
<1>0. Shapes /\ LeasedAttempts /\ Bindings /\ Reads /\ Delivered
  BY DEF IInv
<1>1. LeasedAttempts'
  BY <1>0, LeasedStep
<1>2. Bindings'
  BY <1>0, BindingsStep
<1>3. Reads'
  BY <1>0, ReadsStep
<1>4. Delivered'
  BY <1>0, DeliveredStep
<1>5. QED
  BY <1>1, <1>2, <1>3, <1>4 DEF IInv, AllKept

LEMMA SubmitKeeps ==
  ASSUME IInv, NEW b \in Brokers, NEW r \in Requests, NEW now \in Times, NEW final,
         Submit(b, r, now, final)
  PROVE  IInv' /\ AllKept
<1> DEFINE row == [broker |-> b, request |-> r, state |-> "queued", fence |-> 0,
                   updated |-> now, attempts |-> << >>]
<1>0. Shapes /\ LiveJobs /\ Runs
  BY DEF IInv
<1>1. /\ broker' = broker /\ grants' = grants /\ call' = call /\ reads' = reads
      /\ jobs' = Append(jobs, row) /\ binding' = Append(binding, NoBinding)
  BY DEF Submit
<1>2. row \in Job /\ Len(row.attempts) = row.fence /\ row.state = "queued" /\ row.fence = 0
  BY TimesAreNat, JobsAssumption DEF Job
<1>3. Live(row, broker)
  BY <1>2, JobsAssumption DEF Live
<1> HIDE DEF row
<1>4. /\ jobs \in Seq(Job) /\ binding \in Seq([grant : Nat]) /\ Len(binding) = Len(jobs)
      /\ NoBinding \in [grant : Nat] /\ NoBinding.grant = 0
  BY <1>0 DEF Shapes, NoBinding
<1>5. /\ jobs' \in Seq(Job) /\ Len(jobs') = Len(jobs) + 1
      /\ \A j \in 1..Len(jobs) : jobs'[j] = jobs[j]
      /\ jobs'[Len(jobs) + 1] = row
  BY <1>1, <1>2, <1>4, AppendType
<1>6. /\ binding' \in Seq([grant : Nat]) /\ Len(binding') = Len(jobs')
      /\ \A j \in 1..Len(jobs) : binding'[j] = binding[j]
      /\ binding'[Len(jobs) + 1].grant = 0
  BY <1>1, <1>4, <1>5, AppendType
<1>7. \A j \in 1..Len(jobs') : j \in JobIds \/ j = Len(jobs) + 1
  BY <1>4, <1>5 DEF JobIds
<1>8. /\ grants' \in Seq(Grant) /\ Len(grants') = Len(grants)
      /\ GrantsKept /\ NothingDelivered
  BY <1>0, <1>1, SameGrants
<1>9. call' \in [Workers -> CallRow] /\ CallsKept
  BY <1>0, <1>1, SameCalls
<1>10. reads' \in Seq(Nat) /\ Len(reads') = Len(grants') /\ ReadsKept
  BY <1>0, <1>1, <1>8, SameReads
<1>11. \A j \in 1..Len(jobs') : Len(jobs'[j].attempts) = jobs'[j].fence
  BY <1>0, <1>2, <1>5, <1>7 DEF Shapes, JobIds
<1>12. broker' \in Brokers \cup {NoBroker}
  BY <1>0, <1>1 DEF Shapes
<1>13. Shapes'
  BY <1>5, <1>6, <1>8, <1>9, <1>10, <1>11, <1>12, NewShapes
<1>14. LiveJobs'
  BY <1>0, <1>1, <1>3, <1>5, <1>7 DEF LiveJobs, JobIds
<1>15. LeasesKept
  BY <1>2, <1>5, <1>7 DEF LeasesKept, JobIds
<1>16. BindingsKept
  BY <1>6, <1>7 DEF BindingsKept, JobIds
<1>17. ResultsKept
  <2> SUFFICES ASSUME NEW j \in 1..Len(jobs'), jobs'[j].state = "succeeded"
               PROVE  /\ j \in JobIds /\ jobs[j].fence # 0 /\ jobs'[j] = jobs[j]
    BY DEF ResultsKept
  <2>1. j \in JobIds /\ jobs'[j] = jobs[j]
    BY <1>2, <1>5, <1>7 DEF JobIds
  <2>2. QED
    BY <1>0, <2>1 DEF LiveJobs, Live
<1>18. Runs'
  BY <1>0, <1>4, <1>5, <1>8, <1>9, <1>13, RunsStep
<1>19. \A j \in JobIds : JobKept(jobs[j], jobs'[j])
  <2> TAKE j \in JobIds
  <2>1. jobs'[j] = jobs[j] /\ JobFacts(jobs[j])
    BY <1>0, <1>5, JobIs DEF JobIds
  <2>2. QED
    BY <2>1 DEF JobKept, JobFacts
<1>20. SizesKept
  <2>1. Len(jobs) < MaxJobs /\ Len(jobs) \in Nat /\ MaxJobs \in Nat
    BY <1>0, JobsAssumption DEF Submit, Shapes
  <2>2. QED
    BY <1>5, <1>8, <2>1 DEF SizesKept
<1>21. QED
  BY <1>8, <1>10, <1>13, <1>14, <1>15, <1>16, <1>17, <1>18, <1>19, <1>20, AddingKeeps

LEMMA AuthorizeKeeps ==
  ASSUME IInv, NEW b \in Brokers, NEW j \in JobIds, NEW h \in Holders,
         NEW seconds \in GrantSeconds, NEW now \in Times, NEW final,
         Authorize(b, j, h, seconds, now, final)
  PROVE  IInv' /\ AllKept
<1>0. Shapes /\ LiveJobs /\ Runs
  BY DEF IInv
<1>1. PICK expires \in Nat :
        grants' = Append(grants, [job |-> j, broker |-> b, holder |-> h,
                                  expires |-> expires, state |-> "authorized", fence |-> 0])
  <2>1. now + seconds \in Nat /\ CredentialUntil[h] \in Nat
    BY TimesAreNat, JobsAssumption
  <2>2. Least(now + seconds, CredentialUntil[h]) \in Nat
    BY <2>1 DEF Least
  <2>3. QED
    BY <2>2 DEF Authorize
<1> DEFINE row == [job |-> j, broker |-> b, holder |-> h,
                   expires |-> expires, state |-> "authorized", fence |-> 0]
           bound == [grant |-> Len(grants) + 1]
<1>2. /\ broker' = broker /\ jobs' = jobs /\ call' = call
      /\ grants' = Append(grants, row)
      /\ reads' = Append(reads, 0) /\ binding' = [binding EXCEPT ![j] = bound]
  BY <1>1 DEF Authorize
<1>3. /\ grants \in Seq(Grant) /\ reads \in Seq(Nat) /\ Len(reads) = Len(grants)
      /\ binding \in Seq([grant : Nat]) /\ j \in 1..Len(binding)
      /\ Len(binding) = Len(jobs) /\ jobs \in Seq(Job)
      /\ Len(grants) \in Nat /\ Len(jobs) \in Nat
  BY <1>0 DEF Shapes, JobIds
<1>4. row \in Grant /\ row.job = j /\ row.state = "authorized"
  BY <1>3 DEF Grant, JobIds
<1>5. bound \in [grant : Nat] /\ bound.grant = Len(grants) + 1
  BY <1>3
<1> HIDE DEF row, bound
<1>6. /\ grants' \in Seq(Grant) /\ Len(grants') = Len(grants) + 1
      /\ \A g \in 1..Len(grants) : grants'[g] = grants[g]
      /\ grants'[Len(grants) + 1] = row
  BY <1>2, <1>3, <1>4, AppendType
<1>7. /\ reads' \in Seq(Nat) /\ Len(reads') = Len(grants')
      /\ \A g \in 1..Len(grants) : reads'[g] = reads[g]
      /\ reads'[Len(grants) + 1] = 0
  BY <1>2, <1>3, <1>6, AppendType
<1>8. /\ binding' \in Seq([grant : Nat]) /\ Len(binding') = Len(jobs')
      /\ \A i \in 1..Len(jobs) : binding'[i] = IF i = j THEN bound ELSE binding[i]
  BY <1>2, <1>3, <1>5, OverwriteType
<1>9. \A g \in 1..Len(grants') : g \in GrantIds \/ g = Len(grants) + 1
  BY <1>3, <1>6 DEF GrantIds
<1>10. GrantsKept
  BY <1>3, <1>6 DEF GrantsKept, GrantKept, GrantIds
<1>11. NothingDelivered
  BY <1>4, <1>6, <1>9 DEF NothingDelivered, GrantIds
<1>12. ReadsKept
  BY <1>3, <1>7, <1>9 DEF ReadsKept, GrantIds
<1>13. BindingsKept
  <2> SUFFICES ASSUME NEW i \in JobIds
               PROVE  \/ binding'[i] = binding[i]
                      \/ /\ binding'[i].grant \in 1..Len(grants')
                         /\ grants'[binding'[i].grant].job = i
    BY <1>2 DEF BindingsKept, JobIds
  <2>1. CASE i # j
    BY <1>8, <2>1 DEF JobIds
  <2>2. CASE i = j
    <3>1. binding'[i].grant = Len(grants) + 1
      BY <1>5, <1>8, <2>2 DEF JobIds
    <3>2. Len(grants) + 1 \in 1..Len(grants')
      BY <1>3, <1>6
    <3>3. grants'[Len(grants) + 1].job = i
      BY <1>4, <1>6, <2>2
    <3>4. QED
      BY <3>1, <3>2, <3>3
  <2>3. QED
    BY <2>1, <2>2
<1>14. /\ jobs' \in Seq(Job) /\ Len(jobs') = Len(jobs)
       /\ \A i \in 1..Len(jobs') : Len(jobs'[i].attempts) = jobs'[i].fence
       /\ JobsQuiet /\ NewResults
  BY <1>0, <1>2, SameJobs
<1>15. call' \in [Workers -> CallRow] /\ broker' \in Brokers \cup {NoBroker}
  BY <1>0, <1>2 DEF Shapes
<1>16. Shapes'
  BY <1>6, <1>7, <1>8, <1>14, <1>15, NewShapes
<1>17. /\ LiveJobs' /\ LeasesKept /\ ResultsKept
       /\ \A i \in JobIds : JobKept(jobs[i], jobs'[i])
  BY <1>0, <1>14, <1>16, QuietJobs
<1>18. CallsKept
  <2> SUFFICES ASSUME NEW w \in Workers, call[w] # Idle
               PROVE  reads'[call[w].lease.grant] = reads[call[w].lease.grant]
    BY <1>2 DEF CallsKept
  <2>1. call[w].lease.grant \in 1..Len(grants)
    BY <1>0 DEF Runs, GrantIds
  <2>2. QED
    BY <1>7, <2>1
<1>19. Runs'
  BY <1>0, <1>3, <1>10, <1>14, <1>16, <1>18, RunsStep
<1>20. SizesKept
  <2>1. Len(grants) < MaxGrants /\ MaxGrants \in Nat
    BY JobsAssumption DEF Authorize
  <2>2. QED
    BY <1>3, <1>6, <1>14, <2>1 DEF SizesKept
<1>21. QED
  BY <1>10, <1>11, <1>12, <1>13, <1>16, <1>17, <1>19, <1>20, AddingKeeps

(* A renewal: the lease of the live attempt ends at another time.          *)
Renewed(x, y) ==
  /\ y \in Job /\ Len(y.attempts) = y.fence
  /\ y.fence = x.fence /\ y.state = x.state
  /\ \A f \in 1..x.fence :
       /\ y.attempts[f].state = x.attempts[f].state
       /\ y.attempts[f].lease.grant = x.attempts[f].lease.grant
       /\ y.attempts[f].lease.holder = x.attempts[f].lease.holder
       /\ y.attempts[f].lease.broker = x.attempts[f].lease.broker
       /\ f # x.fence => y.attempts[f] = x.attempts[f]

LEMMA RenewedIsLive ==
  ASSUME NEW x, NEW y, NEW b, JobFacts(x), Live(x, b), x.state = "running", Renewed(x, y)
  PROVE  Live(y, b) /\ JobKept(x, y)
<1>1. x.attempts[x.fence].state = "running" /\ x.fence \in 1..x.fence /\ x.fence \in Nat
  BY DEF Live, JobFacts
<1>2. JobKept(x, y)
  BY <1>1 DEF Renewed, JobKept
<1>3. Live(y, b)
  BY <1>1 DEF Renewed, Live
<1>4. QED
  BY <1>2, <1>3

LEMMA RenewKeeps ==
  ASSUME IInv, NEW w \in Workers, NEW now \in Times, NEW final, Renew(w, now, final)
  PROVE  IInv' /\ AllKept
<1> DEFINE lease == call[w].lease
           j == lease.job
           x == jobs[j]
<1>0. Shapes /\ LiveJobs /\ Runs
  BY DEF IInv
<1>1. /\ broker' = broker /\ grants' = grants /\ binding' = binding /\ reads' = reads
      /\ call[w] # Idle /\ call[w].pc = "running" /\ Current(lease, now)
  BY DEF Renew, HoldsLease
<1>2. /\ lease \in Lease /\ j \in JobIds
      /\ x.state = "running" /\ x.fence = lease.fence
      /\ x.attempts[x.fence].lease = lease /\ x.attempts[x.fence].state = "running"
  BY <1>1, CurrentIs
<1>3. JobFacts(x) /\ Live(x, broker)
  BY <1>0, <1>2, JobIs DEF LiveJobs
<1>4. x \in Job /\ x.attempts \in Seq(Attempt) /\ x.fence \in 1..Len(x.attempts)
      /\ Len(x.attempts) = x.fence
  BY <1>2, <1>3 DEF JobFacts, Job, Live
<1>5. PICK ends \in Nat :
        /\ jobs' = [jobs EXCEPT ![j].attempts[lease.fence].lease = [lease EXCEPT !.expires = ends]]
        /\ call' = [call EXCEPT ![w].lease = [lease EXCEPT !.expires = ends]]
  <2> DEFINE ends == Least(Least(now + LeaseSeconds, CredentialUntil[lease.holder]),
                           Latest(lease.job).maxUntil)
  <2>1. now + LeaseSeconds \in Nat /\ CredentialUntil[lease.holder] \in Nat
    BY <1>2, TimesAreNat, JobsAssumption DEF Lease
  <2>2. x.attempts[x.fence] \in Attempt
    BY <1>4
  <2>3. Latest(j).maxUntil \in Nat
    BY <2>2 DEF Latest, Attempt
  <2>4. ends \in Nat
    BY <2>1, <2>3 DEF Least
  <2>5. QED
    BY <2>4 DEF Renew
<1> DEFINE renewed == [lease EXCEPT !.expires = ends]
           att == [x.attempts[x.fence] EXCEPT !.lease = renewed]
           atts == [x.attempts EXCEPT ![x.fence] = att]
<1>6. /\ renewed \in Lease /\ renewed.job = lease.job /\ renewed.grant = lease.grant
      /\ renewed.holder = lease.holder /\ renewed.broker = lease.broker
  BY <1>2 DEF Lease
<1>7. call' = [call EXCEPT ![w].lease = renewed]
  BY <1>5
<1>8. jobs' = [jobs EXCEPT ![j] = [x EXCEPT !.attempts = atts]]
  BY <1>2, <1>5
<1> HIDE DEF renewed
<1>9. att \in Attempt /\ att.lease = renewed /\ att.state = "running"
  <2>1. x.attempts[x.fence] \in Attempt
    BY <1>4
  <2>2. QED
    BY <1>2, <1>6, <2>1 DEF Attempt
<1> HIDE DEF att
<1>10. /\ atts \in Seq(Attempt) /\ Len(atts) = x.fence
       /\ \A f \in 1..x.fence : atts[f] = IF f = x.fence THEN att ELSE x.attempts[f]
  BY <1>4, <1>9, OverwriteType
<1> HIDE DEF atts
<1>11. /\ [x EXCEPT !.attempts = atts] \in Job
       /\ [x EXCEPT !.attempts = atts].attempts = atts
       /\ [x EXCEPT !.attempts = atts].fence = x.fence
       /\ [x EXCEPT !.attempts = atts].state = x.state
  BY <1>4, <1>10 DEF Job
<1>12. PICK y \in Job : /\ y = [x EXCEPT !.attempts = atts]
                        /\ y.attempts = atts /\ y.fence = x.fence /\ y.state = x.state
  BY <1>11
<1>13. Renewed(x, y) /\ Len(y.attempts) = y.fence
  BY <1>2, <1>6, <1>9, <1>10, <1>12 DEF Renewed
<1>14. Live(y, broker) /\ JobKept(x, y)
  BY <1>2, <1>3, <1>13, RenewedIsLive
<1>15. /\ jobs' \in Seq(Job) /\ Len(jobs') = Len(jobs)
       /\ \A i \in JobIds : jobs'[i] = IF i = j THEN y ELSE jobs[i]
       /\ \A i \in 1..Len(jobs') : Len(jobs'[i].attempts) = jobs'[i].fence
  <2>1. jobs' = [jobs EXCEPT ![j] = y]
    BY <1>8, <1>12
  <2>2. QED
    BY <1>0, <1>2, <1>13, <2>1, OneJob
<1>16. /\ grants' \in Seq(Grant) /\ Len(grants') = Len(grants)
       /\ GrantsKept /\ NothingDelivered
  BY <1>0, <1>1, SameGrants
<1>17. reads' \in Seq(Nat) /\ Len(reads') = Len(grants') /\ ReadsKept
  BY <1>0, <1>1, <1>16, SameReads
<1>18. call' \in [Workers -> CallRow] /\ CallsKept
  <2>1. call \in [Workers -> CallRow] /\ call[w] \in [pc : Pcs, lease : Lease]
    BY <1>0, <1>1 DEF Shapes, CallRow
  <2>2. [call[w] EXCEPT !.lease = renewed] \in [pc : Pcs, lease : Lease]
    BY <1>6, <2>1
  <2>3. /\ [call[w] EXCEPT !.lease = renewed].pc = "running"
        /\ [call[w] EXCEPT !.lease = renewed].lease = renewed
    BY <1>1, <2>1
  <2>4. /\ call' \in [Workers -> CallRow]
        /\ \A v \in Workers :
             call'[v] = IF v = w THEN [call[w] EXCEPT !.lease = renewed] ELSE call[v]
    BY <1>7, <2>1, <2>2 DEF CallRow
  <2>5. "running" \notin Early
    BY DEF Early
  <2>6. QED
    BY <1>1, <1>6, <2>3, <2>4, <2>5 DEF CallsKept
<1>19. /\ broker' \in Brokers \cup {NoBroker}
       /\ binding' \in Seq([grant : Nat]) /\ Len(binding') = Len(jobs')
  BY <1>0, <1>1, <1>15 DEF Shapes
<1>20. Shapes'
  BY <1>15, <1>16, <1>17, <1>18, <1>19, NewShapes
<1>21. LiveJobs'
  BY <1>0, <1>1, <1>14, <1>15 DEF LiveJobs, JobIds
<1>22. LeasesKept
  BY <1>13, <1>15 DEF LeasesKept, Renewed, JobIds
<1>23. BindingsKept
  BY <1>1, <1>15 DEF BindingsKept, JobIds
<1>24. ResultsKept
  <2> SUFFICES ASSUME NEW i \in JobIds, jobs'[i].state = "succeeded"
               PROVE  jobs[i].fence # 0 /\ jobs'[i] = jobs[i]
    BY <1>15 DEF ResultsKept, JobIds
  <2>1. jobs'[i] = jobs[i]
    BY <1>2, <1>12, <1>15
  <2>2. QED
    BY <1>0, <2>1 DEF LiveJobs, Live
<1>25. Runs'
  BY <1>0, <1>15, <1>16, <1>18, <1>20, RunsStep, Lengths
<1>26. \A i \in JobIds : JobKept(jobs[i], jobs'[i])
  <2> TAKE i \in JobIds
  <2>1. JobFacts(jobs[i])
    BY <1>0, JobIs
  <2>2. CASE i = j
    BY <1>14, <1>15, <2>2
  <2>3. CASE i # j
    BY <1>15, <2>1, <2>3 DEF JobKept, JobFacts
  <2>4. QED
    BY <2>2, <2>3
<1>27. SizesKept
  BY <1>15, <1>16 DEF SizesKept
<1>28. QED
  BY <1>16, <1>17, <1>20, <1>21, <1>22, <1>23, <1>24, <1>25, <1>26, <1>27, AddingKeeps

(* A claim: no attempt of the job before it stays live, and the new one is *)
(* the last.                                                               *)
Taken(x, y, lease) ==
  /\ y \in Job /\ Len(y.attempts) = y.fence
  /\ y.fence = x.fence + 1 /\ y.state = "running"
  /\ y.attempts[y.fence].state = "running" /\ y.attempts[y.fence].lease = lease
  /\ \A f \in 1..x.fence :
       /\ y.attempts[f].lease = x.attempts[f].lease
       /\ y.attempts[f].state \notin {"running", "succeeded"}
       /\ x.attempts[f].state # "running" => y.attempts[f] = x.attempts[f]

LEMMA TakenIsLive ==
  ASSUME NEW x, NEW y, NEW lease, JobFacts(x), x.state \in {"queued", "running"},
         Taken(x, y, lease)
  PROVE  Live(y, lease.broker) /\ JobKept(x, y)
<1>1. x.fence \in Nat /\ y.fence = x.fence + 1
  BY DEF JobFacts, Taken
<1>2. \A f \in 1..y.fence : f \in 1..x.fence \/ f = y.fence
  BY <1>1
<1>3. y.fence \in 1..y.fence
  BY <1>1
<1>4. \A f \in 1..y.fence : y.attempts[f].state = "running" =>
        f = y.fence /\ y.attempts[f].lease.broker = lease.broker
  BY <1>2 DEF Taken
<1>5. \A f \in 1..y.fence : y.attempts[f].state # "succeeded"
  BY <1>2 DEF Taken
<1>6. Live(y, lease.broker)
  BY <1>3, <1>4, <1>5 DEF Live, Taken
<1>7. JobKept(x, y)
  BY <1>1 DEF JobKept, Taken
<1>8. QED
  BY <1>6, <1>7

(* The job as the claim finds it, its expired attempt ended.               *)
LEMMA BeforeClaimIs ==
  ASSUME Shapes, LiveJobs, NEW j \in JobIds, NEW now, Claimable(j, now),
         NEW z, z = BeforeClaim(j, now)
  PROVE  /\ z \in Job /\ z.fence = jobs[j].fence /\ Len(z.attempts) = z.fence
         /\ jobs[j].state \in {"queued", "running"}
         /\ \A f \in 1..z.fence :
              /\ z.attempts[f].lease = jobs[j].attempts[f].lease
              /\ z.attempts[f].state \notin {"running", "succeeded"}
              /\ jobs[j].attempts[f].state # "running" => z.attempts[f] = jobs[j].attempts[f]
<1>1. JobFacts(jobs[j]) /\ Live(jobs[j], broker)
  BY JobIs DEF LiveJobs
<1>2. CASE Over(j, now)
  <2>1. z = EndAttempt(jobs[j], "expired") /\ jobs[j].state = "running" /\ "expired" \in Ends
    BY <1>2 DEF BeforeClaim, Over, Ends
  <2>2. jobs[j].fence # 0 /\ jobs[j].fence \in 1..jobs[j].fence
    BY <1>1, <2>1 DEF Live, JobFacts
  <2>3. /\ z \in Job /\ z.fence = jobs[j].fence
        /\ Len(z.attempts) = jobs[j].fence
        /\ \A f \in 1..jobs[j].fence :
             /\ z.attempts[f].lease = jobs[j].attempts[f].lease
             /\ f # jobs[j].fence => z.attempts[f] = jobs[j].attempts[f]
        /\ z.attempts[jobs[j].fence].state = "expired"
    BY <1>1, <2>1, <2>2, EndAttemptIs
  <2>4. /\ \A f \in 1..jobs[j].fence :
             jobs[j].attempts[f].state = "running" => f = jobs[j].fence
        /\ \A f \in 1..jobs[j].fence : jobs[j].attempts[f].state # "succeeded"
        /\ jobs[j].attempts[jobs[j].fence].state = "running"
    BY <1>1, <2>1 DEF Live
  <2>5. QED
    BY <2>1, <2>3, <2>4
<1>3. CASE ~Over(j, now)
  <2>1. z = jobs[j] /\ jobs[j].state = "queued"
    BY <1>3 DEF BeforeClaim, Claimable
  <2>2. QED
    BY <1>1, <2>1 DEF Live, JobFacts
<1>4. QED
  BY <1>2, <1>3

IsTaking(y, j, now, lease, maxUntil) ==
  y = [BeforeClaim(j, now) EXCEPT !.state = "running", !.fence = lease.fence,
         !.updated = now,
         !.attempts = Append(@, [lease |-> lease, state |-> "running",
                                 maxUntil |-> maxUntil])]

LEMMA ClaimedRow ==
  ASSUME Shapes, LiveJobs, NEW j \in JobIds, NEW now \in Times, Claimable(j, now),
         AttemptLeft(j), NEW lease \in Lease, lease.fence = jobs[j].fence + 1,
         NEW maxUntil \in Nat, NEW y, IsTaking(y, j, now, lease, maxUntil)
  PROVE  Taken(jobs[j], y, lease)
<1>1. PICK z : z = BeforeClaim(j, now)
  OBVIOUS
<1>2. /\ z \in Job /\ z.fence = jobs[j].fence /\ Len(z.attempts) = z.fence
      /\ \A f \in 1..z.fence :
           /\ z.attempts[f].lease = jobs[j].attempts[f].lease
           /\ z.attempts[f].state \notin {"running", "succeeded"}
           /\ jobs[j].attempts[f].state # "running" => z.attempts[f] = jobs[j].attempts[f]
  BY <1>1, BeforeClaimIs
<1>3. PICK att \in Attempt :
        /\ att = [lease |-> lease, state |-> "running", maxUntil |-> maxUntil]
        /\ att.lease = lease /\ att.state = "running"
  <2> DEFINE new == [lease |-> lease, state |-> "running", maxUntil |-> maxUntil]
  <2>1. new \in Attempt /\ new.lease = lease /\ new.state = "running"
    BY DEF Attempt
  <2>2. QED
    BY <2>1
<1>4. z.attempts \in Seq(Attempt) /\ z.fence \in Nat
  BY <1>2, JobsAssumption DEF Job
<1>5. PICK atts \in Seq(Attempt) :
        /\ atts = Append(z.attempts, att)
        /\ Len(atts) = z.fence + 1
        /\ \A f \in 1..z.fence : atts[f] = z.attempts[f]
        /\ atts[z.fence + 1] = att
  <2> DEFINE new == Append(z.attempts, att)
  <2>1. /\ new \in Seq(Attempt)
        /\ Len(new) = Len(z.attempts) + 1
        /\ \A f \in 1..Len(z.attempts) : new[f] = z.attempts[f]
        /\ new[Len(z.attempts) + 1] = att
    BY <1>4, AppendType
  <2> HIDE DEF new
  <2>2. QED
    BY <1>2, <2>1 DEF new
<1>6. z.fence + 1 \in 0..MaxAttempts /\ lease.fence = z.fence + 1 /\ now \in Nat
  BY <1>2, <1>4, JobsAssumption, TimesAreNat DEF AttemptLeft
<1>7. y = [z EXCEPT !.state = "running", !.fence = lease.fence, !.updated = now,
                    !.attempts = atts]
  BY <1>1, <1>3, <1>5 DEF IsTaking
<1>8. /\ y \in Job /\ y.state = "running" /\ y.fence = z.fence + 1 /\ y.attempts = atts
  BY <1>2, <1>5, <1>6, <1>7 DEF Job
<1>9. QED
  BY <1>2, <1>3, <1>5, <1>8 DEF Taken

LEMMA ClaimKeeps ==
  ASSUME IInv, NEW w \in Workers, NEW b \in Brokers, NEW j \in JobIds,
         NEW now \in Times, NEW final, Claim(w, b, j, now, final)
  PROVE  IInv' /\ AllKept
<1>0. Shapes /\ LiveJobs /\ Runs /\ Reads /\ Bindings
  BY DEF IInv
<1>1. PICK lease : lease = NewLease(b, j, now)
  OBVIOUS
<1> DEFINE g == lease.grant
<1>2. /\ broker' = broker /\ broker = b /\ binding' = binding /\ reads' = reads
      /\ call[w] = Idle /\ binding[j] # NoBinding
      /\ Claimable(j, now) /\ AttemptLeft(j) /\ grants[g].state = "authorized"
      /\ grants' = [i \in 1..Len(grants) |->
           IF i = g THEN [grants[i] EXCEPT !.state = "leased", !.fence = lease.fence]
           ELSE GrantBeforeClaim(i, j, now)]
      /\ call' = [call EXCEPT ![w] = [pc |-> "claimed", lease |-> lease]]
  BY <1>1 DEF Claim, RequireBroker, Unspent
<1>3. /\ binding[j] \in [grant : Nat] /\ g = binding[j].grant
      /\ lease.job = j /\ lease.fence = jobs[j].fence + 1 /\ lease.broker = b
      /\ lease.holder = grants[g].holder
  <2>1. binding[j] \in [grant : Nat]
    <3>1. binding \in Seq([grant : Nat]) /\ j \in 1..Len(binding)
      BY <1>0 DEF Shapes, JobIds
    <3>2. QED
      BY <3>1, EntryType
  <2>2. /\ g = binding[j].grant
        /\ lease.job = j /\ lease.fence = jobs[j].fence + 1 /\ lease.broker = b
        /\ lease.holder = grants[g].holder
    BY <1>1 DEF NewLease
  <2>3. QED
    BY <2>1, <2>2
<1>4. binding[j].grant # 0
  BY <1>2, <1>3 DEF NoBinding
<1>5. g \in GrantIds /\ grants[g].job = j
  BY <1>0, <1>3, <1>4 DEF Bindings
<1>6. grants[g] \in Grant /\ JobFacts(jobs[j]) /\ j \in Nat /\ g \in Nat /\ now \in Nat
  BY <1>0, <1>5, JobIs, TimesAreNat DEF Shapes, GrantIds, JobIds
<1>7. lease \in Lease
  <2>1. lease.expires \in Nat
    <3>1. /\ now + LeaseSeconds \in Nat /\ CredentialUntil[grants[g].holder] \in Nat
          /\ grants[g].expires \in Nat
      BY <1>6, JobsAssumption DEF Grant
    <3>2. Least(Least(now + LeaseSeconds, CredentialUntil[grants[g].holder]),
                grants[g].expires) \in Nat
      BY <3>1 DEF Least
    <3>3. QED
      BY <1>1, <1>3, <3>2 DEF NewLease
  <2>2. lease = [job |-> lease.job, fence |-> lease.fence, holder |-> lease.holder,
                 broker |-> lease.broker, grant |-> lease.grant, expires |-> lease.expires]
    BY <1>1 DEF NewLease
  <2>3. lease.holder \in Holders /\ lease.fence \in Nat
    BY <1>3, <1>6 DEF Grant, JobFacts
  <2>4. QED
    BY <1>3, <1>6, <2>1, <2>2, <2>3 DEF Lease
<1>8. Least(now + MaxLease, CredentialUntil[lease.holder]) \in Nat
  <2>1. now + MaxLease \in Nat /\ CredentialUntil[lease.holder] \in Nat
    BY <1>6, <1>7, JobsAssumption DEF Lease
  <2>2. QED
    BY <2>1 DEF Least
<1>9. PICK y :
        /\ IsTaking(y, j, now, lease, Least(now + MaxLease, CredentialUntil[lease.holder]))
        /\ jobs' = [jobs EXCEPT ![j] = y]
  BY <1>1 DEF IsTaking, Claim
<1>10. Taken(jobs[j], y, lease)
  BY <1>0, <1>2, <1>3, <1>7, <1>8, <1>9, ClaimedRow
<1>11. y \in Job /\ Len(y.attempts) = y.fence
  BY <1>10 DEF Taken
<1>12. jobs[j].state \in {"queued", "running"}
  BY <1>0, <1>2, BeforeClaimIs
<1>13. Live(y, broker) /\ JobKept(jobs[j], y)
  BY <1>2, <1>3, <1>6, <1>10, <1>12, TakenIsLive
<1>14. /\ jobs' \in Seq(Job) /\ Len(jobs') = Len(jobs)
       /\ \A i \in JobIds : jobs'[i] = IF i = j THEN y ELSE jobs[i]
       /\ \A i \in 1..Len(jobs') : Len(jobs'[i].attempts) = jobs'[i].fence
  BY <1>0, <1>9, <1>11, OneJob
<1>15. PICK q : q = [grants[g] EXCEPT !.state = "leased", !.fence = lease.fence]
  OBVIOUS
<1>16. q \in Grant /\ q.state = "leased" /\ q.fence = lease.fence
       /\ q.job = grants[g].job /\ q.holder = grants[g].holder
  <2>1. lease.fence \in Nat
    BY <1>7 DEF Lease
  <2>2. QED
    BY <1>6, <1>15, <2>1 DEF Grant
<1>17. \A i \in GrantIds : grants'[i] = IF i = g THEN q ELSE GrantBeforeClaim(i, j, now)
  BY <1>2, <1>15 DEF GrantIds
<1>18. \A i \in GrantIds :
         /\ grants'[i] \in Grant /\ GrantKept(grants[i], grants'[i])
         /\ grants'[i].state = "delivered" => grants[i].state = "delivered"
  <2> TAKE i \in GrantIds
  <2>1. CASE i = g
    BY <1>2, <1>16, <1>17, <2>1 DEF GrantKept, Spent
  <2>2. CASE i # g
    BY <1>0, <1>17, <2>2, BeforeClaimKeeps
  <2>3. QED
    BY <2>1, <2>2
<1>19. grants' \in [GrantIds -> Grant]
  BY <1>2, <1>18 DEF GrantIds
<1>20. grants' \in Seq(Grant) /\ Len(grants') = Len(grants) /\ GrantsKept
  BY <1>0, <1>18, <1>19, MappedGrants
<1>21. NothingDelivered
  BY <1>18, <1>20 DEF NothingDelivered, GrantIds
<1>22. reads' \in Seq(Nat) /\ Len(reads') = Len(grants') /\ ReadsKept
  BY <1>0, <1>2, <1>20, SameReads
<1>23. /\ call' \in [Workers -> CallRow]
       /\ \A v \in Workers : v # w => call'[v] = call[v]
       /\ call'[w].pc = "claimed" /\ call'[w].lease = lease
  BY <1>0, <1>2, <1>7 DEF Shapes, CallRow, Pcs
<1>24. /\ broker' \in Brokers \cup {NoBroker}
       /\ binding' \in Seq([grant : Nat]) /\ Len(binding') = Len(jobs')
  BY <1>0, <1>2, <1>14 DEF Shapes
<1>25. Shapes'
  BY <1>14, <1>20, <1>22, <1>23, <1>24, NewShapes
<1>26. LiveJobs'
  BY <1>0, <1>2, <1>13, <1>14 DEF LiveJobs, JobIds
<1>27. LeasesKept
  <2> SUFFICES ASSUME NEW i \in JobIds, NEW f \in 1..jobs'[i].fence
               PROVE  \/ /\ f \in 1..jobs[i].fence
                         /\ jobs'[i].attempts[f].lease = jobs[i].attempts[f].lease
                      \/ Leased(jobs[i].attempts[f].lease, i, f)'
    BY <1>14 DEF LeasesKept, JobIds
  <2>1. CASE i # j
    BY <1>14, <2>1
  <2>2. CASE i = j
    <3>1. /\ jobs'[i] = y /\ y.fence = jobs[i].fence + 1 /\ jobs[i].fence \in Nat
      BY <1>6, <1>10, <1>14, <2>2 DEF Taken, JobFacts
    <3>2. CASE f \in 1..jobs[i].fence
      BY <1>10, <2>2, <3>1, <3>2 DEF Taken
    <3>3. CASE f = y.fence
      <4>1. jobs'[i].attempts[f].lease = lease /\ f = lease.fence
        BY <1>3, <1>10, <2>2, <3>1, <3>3 DEF Taken
      <4>2. grants'[g] = q /\ g \in 1..Len(grants')
        BY <1>5, <1>17, <1>20 DEF GrantIds
      <4>3. QED
        BY <1>3, <1>5, <1>16, <2>2, <4>1, <4>2 DEF Leased, GrantOf, GrantIds
    <3>4. QED
      BY <3>1, <3>2, <3>3
  <2>3. QED
    BY <2>1, <2>2
<1>28. BindingsKept
  BY <1>2, <1>14 DEF BindingsKept, JobIds
<1>29. ResultsKept
  <2> SUFFICES ASSUME NEW i \in JobIds, jobs'[i].state = "succeeded"
               PROVE  jobs[i].fence # 0 /\ jobs'[i] = jobs[i]
    BY <1>14 DEF ResultsKept, JobIds
  <2>1. jobs'[i] = jobs[i]
    BY <1>10, <1>14 DEF Taken
  <2>2. QED
    BY <1>0, <2>1 DEF LiveJobs, Live
<1>30. Runs'
  <2>1. reads[g] = 0
    BY <1>0, <1>2, <1>5 DEF Reads
  <2>2. ASSUME NEW v \in Workers, v # w, call[v] # Idle
        PROVE  /\ call[v].lease.job \in JobIds /\ call[v].lease.grant \in GrantIds
               /\ call[v].lease.grant # g
               /\ grants[call[v].lease.grant].state # "authorized"
               /\ call[v].pc \in Early => reads[call[v].lease.grant] = 0
    BY <1>0, <1>2, <2>2 DEF Runs, GrantOf
  <2>3. ASSUME NEW v \in Workers, call'[v] # Idle
        PROVE  /\ call'[v].lease.job \in 1..Len(jobs')
               /\ call'[v].lease.grant \in 1..Len(grants')
               /\ grants'[call'[v].lease.grant].state # "authorized"
               /\ call'[v].pc \in Early => reads'[call'[v].lease.grant] = 0
    <3>1. CASE v = w
      <4>1. grants'[g].state # "authorized" /\ g \in 1..Len(grants') /\ j \in 1..Len(jobs')
        BY <1>5, <1>14, <1>16, <1>17, <1>20 DEF GrantIds, JobIds
      <4>2. QED
        BY <1>2, <1>3, <1>23, <2>1, <3>1, <4>1
    <3>2. CASE v # w
      <4>1. grants'[call[v].lease.grant].state # "authorized"
        BY <1>23, <2>2, <2>3, <3>2, <1>20 DEF GrantsKept, GrantKept
      <4>2. QED
        BY <1>2, <1>14, <1>20, <1>23, <2>2, <2>3, <3>2, <4>1 DEF GrantIds, JobIds
    <3>3. QED
      BY <3>1, <3>2
  <2>4. ASSUME NEW u \in Workers, NEW v \in Workers, u # v, call'[u] # Idle, call'[v] # Idle
        PROVE  call'[u].lease.grant # call'[v].lease.grant
    <3>1. CASE u = w
      BY <1>23, <2>2, <2>4, <3>1
    <3>2. CASE v = w
      BY <1>23, <2>2, <2>4, <3>2
    <3>3. CASE u # w /\ v # w
      BY <1>0, <1>23, <2>4, <3>3 DEF Runs
    <3>4. QED
      BY <3>1, <3>2, <3>3
  <2>5. QED
    BY <2>3, <2>4 DEF Runs, GrantOf, JobIds, GrantIds
<1>31. \A i \in JobIds : JobKept(jobs[i], jobs'[i])
  <2> TAKE i \in JobIds
  <2>1. JobFacts(jobs[i])
    BY <1>0, JobIs
  <2>2. CASE i = j
    BY <1>13, <1>14, <2>2
  <2>3. CASE i # j
    BY <1>14, <2>1, <2>3 DEF JobKept, JobFacts
  <2>4. QED
    BY <2>2, <2>3
<1>32. SizesKept
  BY <1>14, <1>20 DEF SizesKept
<1>33. QED
  BY <1>20, <1>21, <1>22, <1>25, <1>26, <1>27, <1>28, <1>29, <1>30, <1>31, <1>32, AddingKeeps

-----------------------------------------------------------------------------
(* The inductive invariant.                                                *)
LEMMA InitIInv == Init => IInv
<1> SUFFICES ASSUME Init PROVE IInv
  OBVIOUS
<1>1. jobs = << >> /\ grants = << >> /\ binding = << >> /\ reads = << >> /\ broker = NoBroker
  BY DEF Init
<1>2. call \in [Workers -> CallRow] /\ \A w \in Workers : call[w] = Idle
  BY DEF Init, CallRow
<1>3. JobIds = {} /\ GrantIds = {}
  BY <1>1 DEF JobIds, GrantIds
<1>4. Shapes
  BY <1>1, <1>2, <1>3 DEF Shapes
<1>5. LiveJobs /\ LeasedAttempts /\ Bindings /\ Reads /\ Delivered
  BY <1>3 DEF LiveJobs, LeasedAttempts, Bindings, Reads, Delivered
<1>6. Runs
  BY <1>2 DEF Runs
<1>7. QED
  BY <1>4, <1>5, <1>6 DEF IInv

LEMMA RunStepKeeps ==
  ASSUME IInv, NEW w \in Workers, RunStep(w)
  PROVE  IInv' /\ AllKept
<1>1. CASE ReadLost(w)
  BY <1>1, ReadLostKeeps
<1>2. CASE Raise(w) \/ GiveUp(w)
  <2>1. "completed" \in {"completed", "unsuccessful"}
    OBVIOUS
  <2>2. QED
    BY <1>2, <2>1, RunnerKeeps
<1>3. ASSUME NEW how \in {"completed", "unsuccessful"}, RunnerEnds(w, how)
      PROVE  IInv' /\ AllKept
  BY <1>3, RunnerKeeps
<1>4. ASSUME NEW now \in Times, NEW final \in Times,
             ConsumeInput(w, now, final) \/ StartRead(w, now, final)
      PROVE  IInv' /\ AllKept
  BY <1>4, InputKeeps
<1>5. ASSUME NEW now \in Times, NEW final \in Times, Deliver(w, now, final)
      PROVE  IInv' /\ AllKept
  BY <1>5, DeliverKeeps
<1>6. ASSUME NEW now \in Times, NEW final \in Times, Renew(w, now, final)
      PROVE  IInv' /\ AllKept
  BY <1>6, RenewKeeps
<1>7. ASSUME NEW now \in Times, NEW final \in Times, Complete(w, now, final)
      PROVE  IInv' /\ AllKept
  BY <1>7, CompleteKeeps
<1>8. ASSUME NEW now \in Times, NEW final \in Times,
             Report(w, now, final) \/ Cleanup(w, now, final)
      PROVE  IInv' /\ AllKept
  BY <1>8, ReportOrCleanupKeeps
<1>9. QED
  BY <1>1, <1>2, <1>3, <1>4, <1>5, <1>6, <1>7, <1>8 DEF RunStep

LEMMA NextKeeps ==
  ASSUME IInv, Next
  PROVE  IInv' /\ AllKept
<1>1. ASSUME NEW w \in Workers, RunStep(w)
      PROVE  IInv' /\ AllKept
  BY <1>1, RunStepKeeps
<1>2. ASSUME NEW h \in Holders, Revoke(h)
      PROVE  IInv' /\ AllKept
  BY <1>2, ObserveOrRevokeKeeps
<1>3. ASSUME NEW b \in Brokers, Stop(b)
      PROVE  IInv' /\ AllKept
  BY <1>3, StopKeeps
<1>4. ASSUME NEW b \in Brokers, NEW now \in Times, NEW final \in Times, Activate(b, now, final)
      PROVE  IInv' /\ AllKept
  BY <1>4, ActivateKeeps
<1>5. ASSUME NEW b \in Brokers, NEW now \in Times, NEW final \in Times, Observe(b, now, final)
      PROVE  IInv' /\ AllKept
  BY <1>5, ObserveOrRevokeKeeps
<1>6. ASSUME NEW b \in Brokers, NEW now \in Times, NEW final \in Times, NEW r \in Requests,
             Submit(b, r, now, final)
      PROVE  IInv' /\ AllKept
  BY <1>6, SubmitKeeps
<1>7. ASSUME NEW b \in Brokers, NEW now \in Times, NEW final \in Times, NEW j \in JobIds,
             Cancel(b, j, now, final)
      PROVE  IInv' /\ AllKept
  BY <1>7, CancelKeeps
<1>8. ASSUME NEW b \in Brokers, NEW now \in Times, NEW final \in Times, NEW j \in JobIds,
             Exhaust(b, j, now, final)
      PROVE  IInv' /\ AllKept
  BY <1>8, ExhaustKeeps
<1>9. ASSUME NEW b \in Brokers, NEW now \in Times, NEW final \in Times, NEW j \in JobIds,
             NEW h \in Holders, NEW seconds \in GrantSeconds,
             Authorize(b, j, h, seconds, now, final)
      PROVE  IInv' /\ AllKept
  BY <1>9, AuthorizeKeeps
<1>10. ASSUME NEW b \in Brokers, NEW now \in Times, NEW final \in Times, NEW j \in JobIds,
              NEW w \in Workers, Claim(w, b, j, now, final)
       PROVE  IInv' /\ AllKept
  BY <1>10, ClaimKeeps
<1>11. QED
  BY <1>1, <1>2, <1>3, <1>4, <1>5, <1>6, <1>7, <1>8, <1>9, <1>10 DEF Next

LEMMA StutterKeeps ==
  ASSUME IInv, UNCHANGED vars
  PROVE  IInv'
<1>1. /\ broker' = broker /\ jobs' = jobs /\ grants' = grants /\ binding' = binding
      /\ call' = call /\ reads' = reads /\ Shapes
  BY DEF IInv, vars, store, service
<1>2. call' \in [Workers -> CallRow] /\ CallsKept
  BY <1>1, SameCalls
<1>3. QED
  BY <1>1, <1>2, CallsOnly

(* The inductive invariant holds in every behaviour.                       *)
THEOREM JobsInvariant == Spec => []IInv
<1>1. IInv /\ [Next]_vars => IInv'
  BY NextKeeps, StutterKeeps
<1>2. QED
  BY InitIInv, <1>1, PTL DEF Spec

-----------------------------------------------------------------------------
(* The variables that no other part of the invariant mentions, and the     *)
(* capacities.                                                             *)
Capacities ==
  /\ retired \subseteq Brokers
  /\ Len(jobs) <= MaxJobs /\ Len(grants) <= MaxGrants
  /\ count \in 0..MaxEvents /\ clock \in Nat
  /\ server \in [Brokers -> {"new", "up", "down"}]
  /\ revoked \subseteq Holders

(* The events and the clock of a transaction.                              *)
LEMMA Transaction ==
  ASSUME Capacities, NEW n \in Nat, AppendsEvents(n), NEW now, NEW final \in Times,
         Sampled(now, final)
  PROVE  count' \in 0..MaxEvents /\ clock' \in Nat
BY TimesAreNat, JobsAssumption DEF Capacities, AppendsEvents, Sampled

LEMMA RunningIsNat ==
  ASSUME Shapes
  PROVE  Cardinality({j \in JobIds : jobs[j].state = "running"}) \in Nat
<1>1. Len(jobs) \in Nat
  BY DEF Shapes
<1>2. IsFiniteSet(1..Len(jobs))
  BY <1>1, FS_Interval
<1>3. {j \in JobIds : jobs[j].state = "running"} \subseteq 1..Len(jobs)
  BY DEF JobIds
<1>4. IsFiniteSet({j \in JobIds : jobs[j].state = "running"})
  BY <1>2, <1>3, FS_Subset
<1>5. QED
  BY <1>4, FS_CardinalityType

(* Registers is what a step may leave of the rest.                         *)
Registers ==
  /\ retired' \subseteq Brokers /\ count' \in 0..MaxEvents /\ clock' \in Nat
  /\ server' \in [Brokers -> {"new", "up", "down"}] /\ revoked' \subseteq Holders

LEMMA NextRegisters ==
  ASSUME IInv, Capacities, Next
  PROVE  Registers
<1>0. /\ retired \subseteq Brokers /\ count \in 0..MaxEvents /\ clock \in Nat
      /\ server \in [Brokers -> {"new", "up", "down"}] /\ revoked \subseteq Holders
  BY DEF Capacities
<1>1. ASSUME NEW w \in Workers, RunStep(w)
      PROVE  Registers
  <2>1. retired' = retired /\ server' = server /\ revoked' = revoked
    BY <1>1 DEF RunStep, ReadLost, Raise, GiveUp, RunnerEnds, ConsumeInput, StartRead, Deliver,
                Renew, Complete, Report, Cleanup, store
  <2>2. count' \in 0..MaxEvents /\ clock' \in Nat
    <3>1. CASE count' = count /\ clock' = clock
      BY <1>0, <3>1
    <3>2. ASSUME NEW now \in Times, NEW final \in Times,
                 AppendsEvents(1) /\ Sampled(now, final)
          PROVE  count' \in 0..MaxEvents /\ clock' \in Nat
      BY <3>2, Transaction
    <3>3. ASSUME \/ ReadLost(w) \/ Raise(w) \/ GiveUp(w)
                 \/ \E how \in {"completed", "unsuccessful"} : RunnerEnds(w, how)
          PROVE  count' = count /\ clock' = clock
      BY <3>3 DEF ReadLost, Raise, GiveUp, RunnerEnds, store
    <3>4. ASSUME NEW now \in Times, NEW final \in Times,
                 \/ ConsumeInput(w, now, final) \/ StartRead(w, now, final)
                 \/ Deliver(w, now, final) \/ Renew(w, now, final)
                 \/ Complete(w, now, final) \/ Report(w, now, final) \/ Cleanup(w, now, final)
          PROVE  AppendsEvents(1) /\ Sampled(now, final)
      BY <3>4 DEF ConsumeInput, StartRead, Deliver, Renew, Complete, Report, Cleanup,
                  UnderLease, HoldsLease
    <3>5. QED
      BY <1>1, <3>1, <3>2, <3>3, <3>4 DEF RunStep
  <2>3. QED
    BY <1>0, <2>1, <2>2 DEF Registers
<1>2. ASSUME NEW h \in Holders, Revoke(h)
      PROVE  Registers
  BY <1>0, <1>2 DEF Revoke, Registers, store, service
<1>3. ASSUME NEW b \in Brokers, Stop(b)
      PROVE  Registers
  BY <1>0, <1>3 DEF Stop, Registers, store
<1>4. ASSUME NEW b \in Brokers, NEW now \in Times, NEW final \in Times, Activate(b, now, final)
      PROVE  Registers
  <2>1. /\ retired' = retired \cup {b} /\ server' = [server EXCEPT ![b] = "up"]
        /\ revoked' = revoked /\ Sampled(now, final)
        /\ AppendsEvents(Cardinality({j \in JobIds : jobs[j].state = "running"}))
    BY <1>4 DEF Activate
  <2>2. Shapes
    BY DEF IInv
  <2>3. count' \in 0..MaxEvents /\ clock' \in Nat
    BY <2>1, <2>2, RunningIsNat, Transaction
  <2>4. QED
    BY <1>0, <2>1, <2>3 DEF Registers
<1>5. ASSUME NEW b \in Brokers, NEW now \in Times, NEW final \in Times, Observe(b, now, final)
      PROVE  Registers
  BY <1>0, <1>5, TimesAreNat DEF Observe, Sampled, Registers, store, service
<1>6. ASSUME NEW b \in Brokers, NEW now \in Times, NEW final \in Times,
             \/ \E r \in Requests : Submit(b, r, now, final)
             \/ \E j \in JobIds :
                  \/ Cancel(b, j, now, final) \/ Exhaust(b, j, now, final)
                  \/ \E h \in Holders, seconds \in GrantSeconds :
                       Authorize(b, j, h, seconds, now, final)
                  \/ \E w \in Workers : Claim(w, b, j, now, final)
      PROVE  Registers
  <2>1. retired' = retired /\ server' = server /\ revoked' = revoked
    BY <1>6 DEF Submit, Cancel, Exhaust, Authorize, Claim, service
  <2>2. (AppendsEvents(1) \/ AppendsEvents(2)) /\ Sampled(now, final)
    BY <1>6 DEF Submit, Cancel, Exhaust, Authorize, Claim
  <2>3. count' \in 0..MaxEvents /\ clock' \in Nat
    BY <2>2, Transaction
  <2>4. QED
    BY <1>0, <2>1, <2>3 DEF Registers
<1>7. QED
  BY <1>1, <1>2, <1>3, <1>4, <1>5, <1>6 DEF Next

LEMMA CapacitiesKept ==
  ASSUME IInv, Capacities, [Next]_vars
  PROVE  Capacities'
<1>1. CASE Next
  <2>1. Registers /\ SizesKept
    BY <1>1, NextKeeps, NextRegisters DEF AllKept
  <2>2. QED
    BY <2>1 DEF Registers, SizesKept, Capacities
<1>2. CASE UNCHANGED vars
  BY <1>2 DEF vars, store, service, Capacities
<1>3. QED
  BY <1>1, <1>2

LEMMA InitCapacities == Init => Capacities
BY JobsAssumption DEF Init, Capacities

LEMMA IInvTypeOK ==
  ASSUME IInv, Capacities
  PROVE  TypeOK
<1>1. Shapes /\ Bindings
  BY DEF IInv
<1>2. binding \in Seq([grant : 0..Len(grants)])
  <2>1. /\ binding \in Seq([grant : Nat]) /\ Len(binding) \in Nat
        /\ binding \in [1..Len(binding) -> [grant : Nat]] /\ Len(binding) = Len(jobs)
        /\ Len(grants) \in Nat
    BY <1>1, SequenceIs DEF Shapes
  <2>2. ASSUME NEW j \in 1..Len(binding)
        PROVE  binding[j] \in [grant : 0..Len(grants)]
    <3>1. binding[j] \in [grant : Nat] /\ j \in JobIds
      BY <2>1, EntryType DEF JobIds
    <3>2. binding[j].grant \in 0..Len(grants)
      BY <1>1, <2>1, <3>1 DEF Bindings, GrantIds
    <3>3. QED
      BY <3>1, <3>2
  <2>3. binding \in [1..Len(binding) -> [grant : 0..Len(grants)]]
    BY <2>1, <2>2
  <2>4. QED
    BY <2>1, <2>3, MapType
<1>3. ASSUME NEW w \in Workers, call[w] # Idle
      PROVE  call[w].lease \in Lease /\ call[w].pc \in Pcs
  BY <1>1, <1>3 DEF Shapes, CallRow
<1>4. QED
  BY <1>1, <1>2, <1>3 DEF TypeOK, Shapes, Capacities, Pcs

LEMMA IInvOneLiveAttempt ==
  ASSUME IInv
  PROVE  OneLiveAttempt
<1> SUFFICES ASSUME NEW j \in JobIds
             PROVE  /\ jobs[j].state = "running" <=>
                         \E f \in 1..jobs[j].fence : jobs[j].attempts[f].state = "running"
                    /\ \A f \in 1..jobs[j].fence : jobs[j].attempts[f].state = "running" =>
                         f = jobs[j].fence /\ jobs[j].attempts[f].lease.broker = broker
                    /\ jobs[j].state = "failed" => jobs[j].fence = MaxAttempts
                    /\ jobs[j].state = "queued" => jobs[j].fence < MaxAttempts
  BY DEF OneLiveAttempt, IInv, Shapes
<1>1. QED
  BY DEF IInv, LiveJobs, Live

LEMMA IInvGrantsAreOneUse ==
  ASSUME IInv
  PROVE  GrantsAreOneUse
<1>1. \A g \in 1..Len(grants) : reads[g] <= 1
  BY DEF IInv, Reads, GrantIds
<1>2. ASSUME NEW x \in Attempts, NEW y \in Attempts,
             AttemptOf(x).lease.grant = AttemptOf(y).lease.grant
      PROVE  x = y
  <2>1. /\ x = <<x[1], x[2]>> /\ y = <<y[1], y[2]>>
        /\ x[1] \in JobIds /\ x[2] \in 1..jobs[x[1]].fence
        /\ y[1] \in JobIds /\ y[2] \in 1..jobs[y[1]].fence
    <3>1. \A z \in Attempts : /\ z = <<z[1], z[2]>> /\ z[1] \in JobIds /\ z[2] \in 1..MaxAttempts
                              /\ z[2] <= Len(jobs[z[1]].attempts)
      BY DEF Attempts
    <3>2. \A j \in JobIds : Len(jobs[j].attempts) = jobs[j].fence /\ jobs[j].fence \in Nat
      BY JobIs DEF IInv, JobFacts
    <3>3. QED
      BY <3>1, <3>2, JobsAssumption
  <2>2. /\ Leased(AttemptOf(x).lease, x[1], x[2]) /\ Leased(AttemptOf(y).lease, y[1], y[2])
    BY <2>1 DEF IInv, LeasedAttempts, AttemptOf
  <2>3. x[1] = y[1] /\ x[2] = y[2]
    BY <1>2, <2>2 DEF Leased, GrantOf
  <2>4. QED
    BY <2>1, <2>3
<1>3. QED
  BY <1>1, <1>2 DEF GrantsAreOneUse

LEMMA IInvEarned ==
  ASSUME IInv
  PROVE  Earned
<1> SUFFICES ASSUME NEW j \in JobIds
             PROVE  /\ jobs[j].state = "succeeded" =>
                         /\ Latest(j).state = "succeeded"
                         /\ jobs[j].updated < Latest(j).lease.expires
                         /\ grants[Latest(j).lease.grant].state = "delivered"
                         /\ reads[Latest(j).lease.grant] = 1
                         /\ grants[Latest(j).lease.grant].holder = Latest(j).lease.holder
                    /\ \A f \in 1..jobs[j].fence : jobs[j].attempts[f].state = "succeeded" =>
                         jobs[j].state = "succeeded" /\ f = jobs[j].fence
  BY DEF Earned, IInv, Shapes
<1>1. Live(jobs[j], broker) /\ JobFacts(jobs[j])
  BY JobIs DEF IInv, LiveJobs
<1>2. ASSUME jobs[j].state = "succeeded"
      PROVE  /\ Latest(j).state = "succeeded"
             /\ jobs[j].updated < Latest(j).lease.expires
             /\ grants[Latest(j).lease.grant].state = "delivered"
             /\ reads[Latest(j).lease.grant] = 1
             /\ grants[Latest(j).lease.grant].holder = Latest(j).lease.holder
  <2>1. /\ jobs[j].fence \in 1..jobs[j].fence
        /\ Latest(j).state = "succeeded" /\ jobs[j].updated < Latest(j).lease.expires
    BY <1>1, <1>2 DEF Live, JobFacts, Latest
  <2>2. Leased(Latest(j).lease, j, jobs[j].fence)
    BY <2>1 DEF IInv, LeasedAttempts, Latest
  <2>3. grants[Latest(j).lease.grant].state = "delivered"
    BY <1>2 DEF IInv, Delivered, GrantOf, Latest
  <2>4. /\ reads[Latest(j).lease.grant] = 1
        /\ grants[Latest(j).lease.grant].holder = Latest(j).lease.holder
    BY <2>2, <2>3 DEF IInv, Reads, Leased, GrantOf
  <2>5. QED
    BY <2>1, <2>3, <2>4
<1>3. QED
  BY <1>1, <1>2 DEF Live

-----------------------------------------------------------------------------
(* What a step may do with results and reads.                              *)
NoNewResult ==
  \A j \in JobIds : jobs'[j].state = "succeeded" => jobs[j].state = "succeeded"
NoNewRead == \A g \in 1..Len(grants) : reads'[g] = reads[g]

LEMMA StateSet ==
  ASSUME NEW x \in Job, NEW e, NEW s, NEW n, NEW f, NEW a
  PROVE  /\ [EndAttempt(x, e) EXCEPT !.state = s, !.updated = n].state = s
         /\ [x EXCEPT !.state = s, !.updated = n].state = s
         /\ [EndAttempt(x, e) EXCEPT !.state = s, !.fence = f, !.updated = n,
               !.attempts = a].state = s
         /\ [x EXCEPT !.state = s, !.fence = f, !.updated = n, !.attempts = a].state = s
BY DEF EndAttempt, Job

LEMMA OneRow ==
  ASSUME Shapes, NEW i \in JobIds, NEW y, jobs' = [jobs EXCEPT ![i] = y],
         y.state = "succeeded" => jobs[i].state = "succeeded"
  PROVE  NoNewResult
<1>1. jobs \in Seq(Job)
  BY DEF Shapes
<1>2. ASSUME NEW j \in JobIds, jobs'[j].state = "succeeded"
      PROVE  jobs[j].state = "succeeded"
  BY <1>1, <1>2 DEF JobIds
<1>3. QED
  BY <1>2 DEF NoNewResult

LEMMA RunStepStores ==
  ASSUME IInv, NEW w \in Workers, RunStep(w)
  PROVE  NoNewResult \/ \E now, final \in Times : Complete(w, now, final)
<1>0. Shapes
  BY DEF IInv
<1>1. CASE jobs' = jobs
  BY <1>1 DEF NoNewResult
<1>2. ASSUME NEW now \in Times, NEW final \in Times,
             Report(w, now, final) \/ Cleanup(w, now, final)
      PROVE  NoNewResult
  <2> DEFINE i == call[w].lease.job
             y == [EndAttempt(jobs[i], "failed") EXCEPT !.state = Requeued(i), !.updated = now]
  <2>1. call[w] # Idle /\ Current(call[w].lease, now) /\ jobs' = [jobs EXCEPT ![i] = y]
    BY <1>2 DEF Report, Cleanup, UnderLease, HoldsLease, FailAttempt
  <2>2. i \in JobIds
    BY <2>1, CurrentIs
  <2>3. jobs[i] \in Job
    BY <1>0, <2>2, JobIs DEF JobFacts
  <2>4. y.state = Requeued(i) /\ Requeued(i) # "succeeded"
    BY <2>3, StateSet DEF Requeued
  <2>5. QED
    BY <1>0, <2>1, <2>2, <2>4, OneRow
<1>3. ASSUME NEW now \in Times, NEW final \in Times, Renew(w, now, final)
      PROVE  NoNewResult
  <2> DEFINE i == call[w].lease.job
  <2>1. /\ call[w] # Idle /\ Current(call[w].lease, now)
    BY <1>3 DEF Renew, HoldsLease
  <2>2. PICK r : jobs' = [jobs EXCEPT ![i].attempts[call[w].lease.fence].lease = r]
    BY <1>3 DEF Renew
  <2>3. i \in JobIds
    BY <2>1, CurrentIs
  <2>4. jobs[i] \in Job
    BY <1>0, <2>3, JobIs DEF JobFacts
  <2>5. PICK y : y = [jobs[i] EXCEPT !.attempts[call[w].lease.fence].lease = r]
    OBVIOUS
  <2>6. y.state = jobs[i].state
    BY <2>4, <2>5 DEF Job
  <2>7. QED
    BY <1>0, <2>2, <2>3, <2>5, <2>6, OneRow
<1>4. /\ ReadLost(w) \/ Raise(w) \/ GiveUp(w) => jobs' = jobs
      /\ \A how \in {"completed", "unsuccessful"} : RunnerEnds(w, how) => jobs' = jobs
      /\ \A now, final \in Times :
           ConsumeInput(w, now, final) \/ StartRead(w, now, final) \/ Deliver(w, now, final)
             => jobs' = jobs
  BY DEF ReadLost, Raise, GiveUp, RunnerEnds, ConsumeInput, StartRead, Deliver, store
<1>5. QED
  BY <1>1, <1>2, <1>3, <1>4 DEF RunStep

(* Every step that is not a completion leaves results as they are.         *)
LEMMA OthersStore ==
  ASSUME IInv, Next, \A w \in Workers : ~RunStep(w)
  PROVE  NoNewResult
<1>0. Shapes
  BY DEF IInv
<1>1. CASE jobs' = jobs
  BY <1>1 DEF NoNewResult
<1>2. ASSUME NEW b \in Brokers, NEW now \in Times, NEW final \in Times, Activate(b, now, final)
      PROVE  NoNewResult
  <2> SUFFICES ASSUME NEW j \in JobIds, jobs'[j].state = "succeeded"
               PROVE  jobs[j].state = "succeeded"
    BY DEF NoNewResult
  <2>1. jobs'[j] = Abandoned(j, now)
    BY <1>2 DEF Activate
  <2>2. jobs[j] \in Job /\ Requeued(j) # "succeeded"
    BY <1>0, JobIs DEF JobFacts, Requeued
  <2>3. CASE jobs[j].state = "running"
    BY <2>1, <2>2, <2>3, StateSet DEF Abandoned
  <2>4. QED
    BY <2>1, <2>3 DEF Abandoned
<1>3. ASSUME NEW b \in Brokers, NEW now \in Times, NEW final \in Times, NEW r \in Requests,
             Submit(b, r, now, final)
      PROVE  NoNewResult
  <2>1. PICK y : jobs' = Append(jobs, y)
    BY <1>3 DEF Submit
  <2>2. \A j \in JobIds : jobs'[j] = jobs[j]
    BY <1>0, <2>1 DEF Shapes, JobIds
  <2>3. QED
    BY <2>2 DEF NoNewResult
<1>4. ASSUME NEW b \in Brokers, NEW now \in Times, NEW final \in Times, NEW i \in JobIds,
             Cancel(b, i, now, final)
      PROVE  NoNewResult
  <2>1. jobs[i] \in Job
    BY <1>0, JobIs DEF JobFacts
  <2>2. PICK y : /\ jobs' = [jobs EXCEPT ![i] = y]
                 /\ y = [(IF jobs[i].state = "running" THEN EndAttempt(jobs[i], "cancelled")
                          ELSE jobs[i]) EXCEPT !.state = "cancelled", !.updated = now]
    BY <1>4 DEF Cancel
  <2>3. y.state = "cancelled"
    BY <2>1, <2>2, StateSet
  <2>4. QED
    BY <1>0, <2>2, <2>3, OneRow
<1>5. ASSUME NEW b \in Brokers, NEW now \in Times, NEW final \in Times, NEW i \in JobIds,
             Exhaust(b, i, now, final)
      PROVE  NoNewResult
  <2>1. jobs[i] \in Job
    BY <1>0, JobIs DEF JobFacts
  <2>2. PICK y : /\ jobs' = [jobs EXCEPT ![i] = y]
                 /\ y = [BeforeClaim(i, now) EXCEPT !.state = "failed", !.updated = now]
    BY <1>5 DEF Exhaust
  <2>3. y.state = "failed"
    BY <2>1, <2>2, StateSet DEF BeforeClaim
  <2>4. QED
    BY <1>0, <2>2, <2>3, OneRow
<1>6. ASSUME NEW b \in Brokers, NEW now \in Times, NEW final \in Times, NEW i \in JobIds,
             NEW w \in Workers, Claim(w, b, i, now, final)
      PROVE  NoNewResult
  <2>1. jobs[i] \in Job
    BY <1>0, JobIs DEF JobFacts
  <2>2. PICK f, u, a : jobs' = [jobs EXCEPT ![i] =
          [BeforeClaim(i, now) EXCEPT !.state = "running", !.fence = f, !.updated = u,
             !.attempts = a]]
    BY <1>6 DEF Claim
  <2>3. PICK y : y = [BeforeClaim(i, now) EXCEPT !.state = "running", !.fence = f,
                        !.updated = u, !.attempts = a]
    OBVIOUS
  <2>4. y.state = "running"
    BY <2>1, <2>3, StateSet DEF BeforeClaim
  <2>5. QED
    BY <1>0, <2>2, <2>3, <2>4, OneRow
<1>7. /\ \A h \in Holders : Revoke(h) => jobs' = jobs
      /\ \A b \in Brokers : Stop(b) => jobs' = jobs
      /\ \A b \in Brokers, now, final \in Times : Observe(b, now, final) => jobs' = jobs
      /\ \A b \in Brokers, now, final \in Times, j \in JobIds, h \in Holders,
            seconds \in GrantSeconds : Authorize(b, j, h, seconds, now, final) => jobs' = jobs
  BY DEF Revoke, Stop, Observe, Authorize, store
<1>8. QED
  BY <1>1, <1>2, <1>3, <1>4, <1>5, <1>6, <1>7 DEF Next

(* What the holder of a lease may rely on at its final sample.             *)
LEMMA LastsToTheEnd ==
  ASSUME IInv, NEW w \in Workers, NEW pc, NEW now, NEW final, UnderLease(w, pc, now, final)
  PROVE  LET lease == call[w].lease IN
         /\ call[w] # Idle /\ Lasting(lease) /\ lease.job \in JobIds
         /\ Latest(lease.job).lease = lease /\ Latest(lease.job).state = "running"
         /\ jobs[lease.job].state = "running"
<1>1. /\ call[w] # Idle /\ Current(call[w].lease, now) /\ clock' = final
      /\ Authorized(call[w].lease.holder, final) /\ final < call[w].lease.expires
  BY DEF UnderLease, HoldsLease, Sampled
<1>2. QED
  BY <1>1, CurrentIs DEF Lasting, Latest

LEMMA StoredUnderLease ==
  ASSUME IInv, Next
  PROVE  StoredInTime
<1>1. CASE NoNewResult
  BY <1>1 DEF NoNewResult, StoredInTime
<1>2. ASSUME NEW w \in Workers, NEW now \in Times, NEW final \in Times, Complete(w, now, final)
      PROVE  StoredInTime
  <2> DEFINE i == call[w].lease.job
  <2>1. Lasting(call[w].lease) /\ i \in JobIds /\ Latest(i).lease = call[w].lease
    BY <1>2, LastsToTheEnd DEF Complete
  <2>2. PICK y : jobs' = [jobs EXCEPT ![i] = y]
    BY <1>2 DEF Complete
  <2>3. \A j \in JobIds : j # i => jobs'[j] = jobs[j]
    BY <2>2 DEF IInv, Shapes, JobIds
  <2>4. QED
    BY <2>1, <2>3 DEF StoredInTime
<1>3. QED
  BY <1>1, <1>2, RunStepStores, OthersStore

LEMMA ReadByHolder ==
  ASSUME IInv, NEW w \in Workers, call[w] # Idle, call[w].pc = "reading", CountRead(w),
         call[w].lease.job \in JobIds, Latest(call[w].lease.job).lease = call[w].lease,
         Latest(call[w].lease.job).state = "running", Lasting(call[w].lease),
         jobs[call[w].lease.job].state = "running"
  PROVE  ReadInTime
<1> DEFINE lease == call[w].lease
<1>1. \A i \in GrantIds : i # lease.grant => reads'[i] = reads[i]
  BY CountedRead
<1>2. grants[lease.grant].job = lease.job
  <2>1. jobs[lease.job].fence \in 1..jobs[lease.job].fence
    BY DEF IInv, LiveJobs, Live
  <2>2. QED
    BY <2>1 DEF IInv, LeasedAttempts, Leased, GrantOf, Latest
<1>3. QED
  BY <1>1, <1>2 DEF ReadInTime, GrantIds

LEMMA ReadUnderLease ==
  ASSUME IInv, Next
  PROVE  ReadInTime
<1>1. CASE NoNewRead
  BY <1>1 DEF NoNewRead, ReadInTime
<1>2. ASSUME NEW w \in Workers, NEW now \in Times, NEW final \in Times, Deliver(w, now, final)
      PROVE  ReadInTime
  <2>1. call[w].pc = "reading" /\ CountRead(w) /\ UnderLease(w, "reading", now, final)
    BY <1>2 DEF Deliver, UnderLease, HoldsLease
  <2>2. QED
    BY <2>1, LastsToTheEnd, ReadByHolder
<1>3. ASSUME NEW w \in Workers, ReadLost(w)
      PROVE  ReadInTime
  <2>1. /\ call[w] # Idle /\ call[w].pc = "reading" /\ CountRead(w) /\ clock' = clock
        /\ Current(call[w].lease, clock) /\ Authorized(call[w].lease.holder, clock)
    BY <1>3 DEF ReadLost
  <2>2. /\ call[w].lease.job \in JobIds /\ jobs[call[w].lease.job].state = "running"
        /\ Latest(call[w].lease.job).lease = call[w].lease
        /\ Latest(call[w].lease.job).state = "running" /\ clock < call[w].lease.expires
    BY <2>1, CurrentIs DEF Latest
  <2>3. Lasting(call[w].lease)
    BY <2>1, <2>2 DEF Lasting
  <2>4. QED
    BY <2>1, <2>2, <2>3, ReadByHolder
<1>4. ASSUME NEW w \in Workers, RunStep(w), ~ReadLost(w),
             \A now, final \in Times : ~Deliver(w, now, final)
      PROVE  reads' = reads
  <2>1. /\ Raise(w) \/ GiveUp(w) => reads' = reads
        /\ \A how \in {"completed", "unsuccessful"} : RunnerEnds(w, how) => reads' = reads
        /\ \A now, final \in Times :
             /\ ConsumeInput(w, now, final) \/ StartRead(w, now, final) => reads' = reads
             /\ Renew(w, now, final) \/ Complete(w, now, final) => reads' = reads
             /\ Report(w, now, final) \/ Cleanup(w, now, final) => reads' = reads
    BY DEF Raise, GiveUp, RunnerEnds, ConsumeInput, StartRead, Renew, Complete, Report, Cleanup
  <2>2. QED
    BY <1>4, <2>1 DEF RunStep
<1>5. ASSUME NEW b \in Brokers, NEW now \in Times, NEW final \in Times, NEW j \in JobIds,
             NEW h \in Holders, NEW seconds \in GrantSeconds,
             Authorize(b, j, h, seconds, now, final)
      PROVE  NoNewRead
  <2>1. reads' = Append(reads, 0) /\ reads \in Seq(Nat) /\ Len(reads) = Len(grants)
    BY <1>5 DEF Authorize, IInv, Shapes
  <2>2. QED
    BY <2>1 DEF NoNewRead
<1>6. /\ \A h \in Holders : Revoke(h) => reads' = reads
      /\ \A b \in Brokers : Stop(b) => reads' = reads
      /\ \A b \in Brokers, now, final \in Times :
           /\ Activate(b, now, final) \/ Observe(b, now, final) => reads' = reads
           /\ \A r \in Requests : Submit(b, r, now, final) => reads' = reads
           /\ \A j \in JobIds :
                /\ Cancel(b, j, now, final) \/ Exhaust(b, j, now, final) => reads' = reads
                /\ \A w \in Workers : Claim(w, b, j, now, final) => reads' = reads
  <2>1. /\ \A h \in Holders : Revoke(h) => reads' = reads
        /\ \A b \in Brokers : Stop(b) => reads' = reads
        /\ \A b \in Brokers, now, final \in Times : Observe(b, now, final) => reads' = reads
    BY DEF Revoke, Stop, Observe, service
  <2>2. \A b \in Brokers, now, final \in Times : Activate(b, now, final) => reads' = reads
    BY DEF Activate
  <2>3. \A b \in Brokers, now, final \in Times, r \in Requests :
          Submit(b, r, now, final) => reads' = reads
    BY DEF Submit
  <2>4. \A b \in Brokers, now, final \in Times, j \in JobIds :
          Cancel(b, j, now, final) => reads' = reads
    BY DEF Cancel
  <2>5. \A b \in Brokers, now, final \in Times, j \in JobIds :
          Exhaust(b, j, now, final) => reads' = reads
    BY DEF Exhaust
  <2>6. ASSUME NEW b \in Brokers, NEW now \in Times, NEW final \in Times, NEW j \in JobIds,
               NEW w \in Workers, Claim(w, b, j, now, final)
        PROVE  reads' = reads
    BY <2>6 DEF Claim
  <2>7. QED
    BY <2>1, <2>2, <2>3, <2>4, <2>5, <2>6
<1>7. reads' = reads => NoNewRead
  BY DEF NoNewRead
<1>8. QED
  BY <1>1, <1>2, <1>3, <1>4, <1>5, <1>6, <1>7 DEF Next

(* The tables keep their shapes and their capacities: the type invariant   *)
(* of the job store and of its services.                                   *)
THEOREM JobsTypeCorrect == Spec => []TypeOK
<1>1. IInv /\ Capacities /\ [Next]_vars => Capacities'
  BY CapacitiesKept
<1>2. IInv /\ Capacities => TypeOK
  BY IInvTypeOK
<1>3. QED
  BY InitCapacities, JobsInvariant, <1>1, <1>2, PTL DEF Spec

(* At most one attempt of a job is live, the last one, under the current   *)
(* broker; a failed job has no attempt left and a queued one has.          *)
THEOREM JobsOneLiveAttempt == Spec => []OneLiveAttempt
<1>1. IInv => OneLiveAttempt
  BY IInvOneLiveAttempt
<1>2. QED
  BY JobsInvariant, <1>1, PTL

(* One grant is one physical read and one attempt.                         *)
THEOREM JobsGrantsAreOneUse == Spec => []GrantsAreOneUse
<1>1. IInv => GrantsAreOneUse
  BY IInvGrantsAreOneUse
<1>2. QED
  BY JobsInvariant, <1>1, PTL

(* Results and reads were made under the last lease of their job, with the *)
(* authority and in the time of its holder, and results for input that was *)
(* delivered.                                                              *)
THEOREM JobsResultsAreEarned == Spec => ResultsAreEarned
<1>1. IInv => Earned
  BY IInvEarned
<1>2. ASSUME IInv, Next
      PROVE  StoredInTime /\ ReadInTime
  BY <1>2, StoredUnderLease, ReadUnderLease
<1>3. IInv /\ IInv' /\ [Next]_vars => [Earned' /\ StoredInTime /\ ReadInTime]_vars
  <2>1. IInv' => Earned'
    BY <1>1, PTL
  <2>2. QED
    BY <1>2, <2>1
<1>4. Spec => [][Earned' /\ StoredInTime /\ ReadInTime]_vars
  BY JobsInvariant, <1>3, PTL DEF Spec
<1>5. QED
  BY <1>4 DEF ResultsAreEarned

(* No step revives what ended or refunds what was spent.                   *)
THEOREM JobsNothingIsRefunded == Spec => NothingIsRefunded
<1> DEFINE Kept ==
  /\ \A j \in JobIds :
       /\ jobs[j].state \in {"succeeded", "cancelled"} => jobs'[j].state = jobs[j].state
       /\ jobs[j].state = "failed" => jobs'[j].state \in {"failed", "cancelled"}
       /\ jobs[j].fence <= jobs'[j].fence
       /\ \A f \in 1..Len(jobs[j].attempts) : jobs[j].attempts[f].state # "running" =>
            jobs'[j].attempts[f] = jobs[j].attempts[f]
  /\ \A g \in 1..Len(grants) :
       /\ grants[g].state \in Spent => grants'[g].state \in Spent
       /\ grants[g].state \in {"revoked", "delivered"} => grants'[g] = grants[g]
<1>1. ASSUME IInv, Next
      PROVE  Kept
  <2>1. AllKept /\ Shapes
    BY <1>1, NextKeeps DEF IInv
  <2>2. \A j \in JobIds : JobKept(jobs[j], jobs'[j]) /\ Len(jobs[j].attempts) = jobs[j].fence
    BY <2>1 DEF AllKept, Shapes
  <2>3. \A g \in 1..Len(grants) : GrantKept(grants[g], grants'[g])
    BY <2>1 DEF AllKept, GrantsKept, GrantIds
  <2>4. QED
    BY <2>2, <2>3 DEF JobKept, GrantKept
<1>2. IInv /\ [Next]_vars => [Kept]_vars
  BY <1>1
<1>3. QED
  BY JobsInvariant, <1>2, PTL DEF Spec, NothingIsRefunded

=============================================================================
