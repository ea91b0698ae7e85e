-------------------------- MODULE ConsoleQueueProofs --------------------------
(***************************************************************************)
(* Proofs about the console job queue, for every set of workers and cases, *)
(* every limit and every age at which a beat is too old.                   *)
(***************************************************************************)
EXTENDS ConsoleQueue, FiniteSetTheorems, TLAPS

(* The shapes alone, without the bound on the active jobs.                 *)
Shapes ==
  /\ jobs \in Seq(Job)
  /\ revision \in [Cases -> 0..MaxEdits]
  /\ call \in [Workers -> [pc : {"idle", "recovered", "executing", "result", "error", "dead"},
                           job : Nat]]
  /\ \A w \in Workers : call[w].job \in IF Busy(w) THEN JobIds ELSE {0}

(* A job that a worker executes is its own, and a job that is running is   *)
(* executed by its worker unless that has died.                            *)
Claimed ==
  /\ \A w \in Workers : Busy(w) =>
       jobs[call[w].job].worker = w /\ jobs[call[w].job].state \in {"running", "failed"}
  /\ \A j \in JobIds : jobs[j].state = "running" =>
       /\ jobs[j].worker \in Workers
       /\ (Busy(jobs[j].worker) /\ call[jobs[j].worker].job = j) \/ At(jobs[j].worker, "dead")

(* What the partial unique index keeps.                                    *)
OneActivePerCase ==
  \A i, j \in JobIds :
    i # j /\ jobs[i].case = jobs[j].case /\ jobs[i].state \in Active /\ jobs[j].state \in Active
    => jobs[i].case = NoCase

IInv == Shapes /\ Claimed /\ OneActivePerCase /\ ResultsMatchCase

-----------------------------------------------------------------------------
LEMMA AppendType ==
  ASSUME NEW S, NEW s \in Seq(S), NEW e \in S
  PROVE  /\ Append(s, e) \in Seq(S)
         /\ Len(Append(s, e)) = Len(s) + 1
         /\ \A i \in 1..Len(s) : Append(s, e)[i] = s[i]
         /\ Append(s, e)[Len(s) + 1] = e
OBVIOUS

LEMMA OverwriteType ==
  ASSUME NEW S, NEW s \in Seq(S), NEW i \in 1..Len(s), NEW e \in S
  PROVE  /\ [s EXCEPT ![i] = e] \in Seq(S)
         /\ Len([s EXCEPT ![i] = e]) = Len(s)
         /\ \A j \in 1..Len(s) : [s EXCEPT ![i] = e][j] = IF j = i THEN e ELSE s[j]
OBVIOUS

(* Overwriting all entries at once.                                        *)
LEMMA MapType ==
  ASSUME NEW S, NEW n \in Nat, NEW f \in [1..n -> S]
  PROVE  f \in Seq(S) /\ Len(f) = n
OBVIOUS

LEMMA JobFields ==
  ASSUME Shapes, NEW j \in JobIds
  PROVE  /\ jobs[j] \in Job
         /\ jobs[j].case \in Cases \cup {NoCase}
         /\ jobs[j].state \in Active \cup Settled
         /\ jobs[j].worker \in Workers \cup {NoWorker}
         /\ jobs[j].age \in 0..Stale + 1
         /\ Revision(jobs[j].case) \in 0..MaxEdits
<1>1. jobs[j] \in Job
  BY DEF Shapes, JobIds
<1>2. jobs[j].case \in Cases \cup {NoCase}
  BY <1>1 DEF Job
<1>3. Revision(jobs[j].case) \in 0..MaxEdits
  BY <1>2, QueueAssumption DEF Revision, Shapes
<1>4. QED
  BY <1>1, <1>2, <1>3 DEF Job

(* A job that ends keeps its case, its worker and its revision at claim.   *)
LEMMA EndFields ==
  ASSUME Shapes, NEW j \in JobIds, NEW state \in Settled
  PROVE  /\ End(jobs[j], state) \in Job
         /\ End(jobs[j], state).state = state
         /\ End(jobs[j], state).case = jobs[j].case
         /\ End(jobs[j], state).worker = jobs[j].worker
         /\ End(jobs[j], state).begun = jobs[j].begun
         /\ End(jobs[j], state).done = Revision(jobs[j].case)
<1>1. jobs[j] \in Job /\ Revision(jobs[j].case) \in 0..MaxEdits /\ 0 \in 0..Stale + 1
  BY JobFields, QueueAssumption
<1>2. End(jobs[j], state) = [jobs[j] EXCEPT !.state = state, !.age = 0,
                                            !.done = Revision(jobs[j].case)]
  BY DEF End
<1>3. state \in Active \cup Settled
  OBVIOUS
<1>4. QED
  BY <1>1, <1>2, <1>3 DEF Job

LEMMA NewJobFields ==
  ASSUME NEW case \in Cases \cup {NoCase}
  PROVE  NewJob(case) \in Job /\ NewJob(case).case = case /\ NewJob(case).state = "queued"
BY QueueAssumption DEF NewJob, Job, Active

-----------------------------------------------------------------------------
(* Each action, entry by entry.                                            *)
LEMMA SubmitStep ==
  ASSUME Shapes, NEW case \in Cases \cup {NoCase}, Submit(case)
  PROVE  /\ jobs' \in Seq(Job) /\ Len(jobs') = Len(jobs) + 1
         /\ \A j \in JobIds : jobs'[j] = jobs[j]
         /\ jobs'[Len(jobs) + 1] = NewJob(case)
         /\ case # NoCase => ActiveOf(case) = {}
         /\ revision' = revision /\ call' = call
BY NewJobFields, AppendType DEF Submit, Shapes, JobIds

LEMMA CancelStep ==
  ASSUME Shapes, NEW j \in JobIds, Cancel(j)
  PROVE  /\ jobs' \in Seq(Job) /\ Len(jobs') = Len(jobs)
         /\ \A k \in JobIds : jobs'[k] = IF k = j THEN End(jobs[j], "cancelled") ELSE jobs[k]
         /\ jobs[j].state = "queued"
         /\ revision' = revision /\ call' = call
<1>1. End(jobs[j], "cancelled") \in Job
  BY EndFields DEF Settled
<1>2. QED
  BY <1>1, OverwriteType DEF Cancel, Shapes, JobIds

LEMMA OverdueStep ==
  ASSUME Shapes, FailOverdue
  PROVE  /\ jobs' \in Seq(Job) /\ Len(jobs') = Len(jobs)
         /\ \A j \in JobIds : jobs'[j] = IF Overdue(j) THEN End(jobs[j], "failed") ELSE jobs[j]
<1>1. \A j \in JobIds : End(jobs[j], "failed") \in Job /\ jobs[j] \in Job
  BY EndFields, JobFields DEF Settled
<1>2. Len(jobs) \in Nat
  BY DEF Shapes
<1>3. jobs' \in [1..Len(jobs) -> Job]
  BY <1>1 DEF FailOverdue, JobIds
<1>4. jobs' \in Seq(Job) /\ Len(jobs') = Len(jobs)
  BY <1>2, <1>3, MapType
<1>5. QED
  BY <1>4 DEF FailOverdue

LEMMA TickStep ==
  ASSUME Shapes, Tick
  PROVE  /\ jobs' \in Seq(Job) /\ Len(jobs') = Len(jobs)
         /\ \A j \in JobIds : \E age \in 0..Stale + 1 : jobs'[j] = [jobs[j] EXCEPT !.age = age]
         /\ revision' = revision /\ call' = call
<1> DEFINE new(j) == IF jobs[j].state = "running"
                     THEN [jobs[j] EXCEPT !.age = Older(@)] ELSE jobs[j]
<1>1. ASSUME NEW j \in JobIds
      PROVE  /\ new(j) \in Job
             /\ \E age \in 0..Stale + 1 : new(j) = [jobs[j] EXCEPT !.age = age]
  <2>1. jobs[j] \in Job /\ jobs[j].age \in 0..Stale + 1 /\ Stale \in Nat
    BY JobFields, QueueAssumption
  <2>2. Older(jobs[j].age) \in 0..Stale + 1
    BY <2>1 DEF Older
  <2>3. [jobs[j] EXCEPT !.age = Older(@)] \in Job
    BY <2>1, <2>2 DEF Job
  <2>4. jobs[j] = [jobs[j] EXCEPT !.age = jobs[j].age]
    BY <2>1 DEF Job
  <2>5. QED
    BY <2>1, <2>2, <2>3, <2>4
<1>2. Len(jobs) \in Nat
  BY DEF Shapes
<1>3. jobs' = [j \in 1..Len(jobs) |-> new(j)]
  BY DEF Tick, JobIds
<1> HIDE DEF new
<1>4. jobs' \in [1..Len(jobs) -> Job]
  BY <1>1, <1>3 DEF JobIds
<1>5. jobs' \in Seq(Job) /\ Len(jobs') = Len(jobs)
  BY <1>2, <1>4, MapType
<1>6. QED
  BY <1>1, <1>3, <1>5 DEF JobIds, Tick

LEMMA BeatStep ==
  ASSUME Shapes, NEW w \in Workers, Beat(w)
  PROVE  /\ jobs' \in Seq(Job) /\ Len(jobs') = Len(jobs)
         /\ \A j \in JobIds : \E age \in 0..Stale + 1 : jobs'[j] = [jobs[j] EXCEPT !.age = age]
         /\ revision' = revision /\ call' = call
<1> DEFINE new(j) == IF jobs[j].worker = w /\ jobs[j].state = "running"
                     THEN [jobs[j] EXCEPT !.age = 0] ELSE jobs[j]
<1>1. ASSUME NEW j \in JobIds
      PROVE  /\ new(j) \in Job
             /\ \E age \in 0..Stale + 1 : new(j) = [jobs[j] EXCEPT !.age = age]
  <2>1. jobs[j] \in Job /\ jobs[j].age \in 0..Stale + 1 /\ 0 \in 0..Stale + 1
    BY JobFields, QueueAssumption
  <2>2. [jobs[j] EXCEPT !.age = 0] \in Job
    BY <2>1 DEF Job
  <2>3. jobs[j] = [jobs[j] EXCEPT !.age = jobs[j].age]
    BY <2>1 DEF Job
  <2>4. QED
    BY <2>1, <2>2, <2>3
<1>2. Len(jobs) \in Nat
  BY DEF Shapes
<1>3. jobs' = [j \in 1..Len(jobs) |-> new(j)]
  BY DEF Beat, JobIds
<1> HIDE DEF new
<1>4. jobs' \in [1..Len(jobs) -> Job]
  BY <1>1, <1>3 DEF JobIds
<1>5. jobs' \in Seq(Job) /\ Len(jobs') = Len(jobs)
  BY <1>2, <1>4, MapType
<1>6. QED
  BY <1>1, <1>3, <1>5 DEF JobIds, Beat

LEMMA ClaimStep ==
  ASSUME Shapes, NEW w \in Workers, Claim(w)
  PROVE  \E j \in JobIds :
           /\ jobs' \in Seq(Job) /\ Len(jobs') = Len(jobs)
           /\ \A k \in JobIds : k # j => jobs'[k] = jobs[k]
           /\ jobs[j].state = "queued"
           /\ jobs'[j].case = jobs[j].case /\ jobs'[j].state = "running"
           /\ jobs'[j].worker = w /\ jobs'[j].begun = Revision(jobs[j].case)
           /\ call[w].pc = "recovered"
           /\ call' = [call EXCEPT ![w] = [pc |-> "executing", job |-> j]]
           /\ revision' = revision
<1>1. PICK j \in Queued :
        /\ jobs' = [jobs EXCEPT ![j].state = "running", ![j].worker = w, ![j].age = 0,
                                ![j].begun = Revision(jobs[j].case)]
        /\ call' = [call EXCEPT ![w] = [pc |-> "executing", job |-> j]]
  BY DEF Claim
<1>2. j \in JobIds /\ jobs[j].state = "queued"
  BY DEF Queued
<1> DEFINE new == [jobs[j] EXCEPT !.state = "running", !.worker = w, !.age = 0,
                                  !.begun = Revision(jobs[j].case)]
<1>3. jobs[j] \in Job /\ Revision(jobs[j].case) \in 0..MaxEdits /\ 0 \in 0..Stale + 1
  BY <1>2, JobFields, QueueAssumption
<1>4. new \in Job
  BY <1>3 DEF Job, Active
<1>5. jobs \in Seq(Job) /\ j \in 1..Len(jobs)
  BY <1>2 DEF Shapes, JobIds
<1>6. jobs' = [jobs EXCEPT ![j] = new]
  BY <1>1, <1>5
<1>7. /\ new.case = jobs[j].case /\ new.state = "running"
      /\ new.worker = w /\ new.begun = Revision(jobs[j].case)
  BY <1>3 DEF Job
<1> HIDE DEF new
<1>8. /\ jobs' \in Seq(Job) /\ Len(jobs') = Len(jobs)
      /\ \A k \in 1..Len(jobs) : jobs'[k] = IF k = j THEN new ELSE jobs[k]
  BY <1>4, <1>5, <1>6, OverwriteType
<1>9. call[w].pc = "recovered" /\ revision' = revision
  BY DEF Claim, At
<1>10. /\ jobs'[j].case = jobs[j].case /\ jobs'[j].state = "running"
       /\ jobs'[j].worker = w /\ jobs'[j].begun = Revision(jobs[j].case)
       /\ \A k \in JobIds : k # j => jobs'[k] = jobs[k]
  BY <1>5, <1>7, <1>8 DEF JobIds
<1>11. QED
  BY <1>1, <1>2, <1>8, <1>9, <1>10

LEMMA FinishStep ==
  ASSUME Shapes, NEW w \in Workers, Finish(w)
  PROVE  LET j == call[w].job IN
         /\ Busy(w) /\ j \in JobIds
         /\ jobs' \in Seq(Job) /\ Len(jobs') = Len(jobs)
         /\ \A k \in JobIds : k # j => jobs'[k] = jobs[k]
         /\ \/ ~Holds(w) /\ jobs'[j] = jobs[j]
            \/ Holds(w) /\ At(w, "result") /\ jobs'[j] = End(jobs[j], "completed")
            \/ Holds(w) /\ jobs'[j] = End(jobs[j], "failed")
         /\ call' = [call EXCEPT ![w] = [pc |-> "idle", job |-> 0]]
         /\ revision' = revision
<1> DEFINE j == call[w].job
           end == IF At(w, "result") THEN "completed" ELSE "failed"
<1>1. Busy(w)
  BY DEF Finish, Busy, At
<1>2. j \in JobIds
  BY <1>1 DEF Shapes
<1>3. CASE Holds(w)
  <2>1. jobs' = [jobs EXCEPT ![j] = End(jobs[j], end)]
    BY <1>3 DEF Finish
  <2>2. End(jobs[j], end) \in Job
    BY <1>2, EndFields DEF Settled
  <2>3. /\ jobs' \in Seq(Job) /\ Len(jobs') = Len(jobs)
        /\ \A k \in JobIds : jobs'[k] = IF k = j THEN End(jobs[j], end) ELSE jobs[k]
    BY <1>2, <2>1, <2>2, OverwriteType DEF Shapes, JobIds
  <2>4. QED
    BY <1>1, <1>2, <1>3, <2>3 DEF Finish, Return
<1>4. CASE ~Holds(w)
  BY <1>1, <1>2, <1>4 DEF Finish, Return, Shapes
<1>5. QED
  BY <1>3, <1>4

-----------------------------------------------------------------------------
(* Most actions keep the cases, the workers and the revisions at claim,    *)
(* settle some jobs, and let some executions end.                          *)
Settles(j) ==
  /\ jobs'[j].case = jobs[j].case /\ jobs'[j].worker = jobs[j].worker
  /\ jobs'[j].begun = jobs[j].begun
  /\ \/ jobs'[j].state = jobs[j].state /\ jobs'[j].done = jobs[j].done
     \/ jobs[j].state = "queued" /\ jobs'[j].state = "cancelled"
     \/ jobs[j].state = "running" /\ jobs'[j].state = "failed"
     \/ /\ jobs[j].state = "running" /\ jobs'[j].state = "completed"
        /\ jobs'[j].done = Revision(jobs[j].case)
        /\ \A w \in Workers : Busy(w) /\ call[w].job = j => ~Busy(w)'

EndsCall(w) ==
  /\ Busy(w)' => Busy(w) /\ call'[w].job = call[w].job
  /\ ~Busy(w)' => call'[w].job = 0
  /\ At(w, "dead") => At(w, "dead")'
  /\ Busy(w) /\ ~Busy(w)' => At(w, "dead")' \/ jobs'[call[w].job].state # "running"

CallType == [Workers -> [pc : {"idle", "recovered", "executing", "result", "error", "dead"},
                         job : Nat]]

LEMMA SettlingStep ==
  ASSUME IInv, jobs' \in Seq(Job), Len(jobs') = Len(jobs), revision' = revision,
         call' \in CallType, \A j \in JobIds : Settles(j), \A w \in Workers : EndsCall(w)
  PROVE  IInv'
<1>1. JobIds' = JobIds
  BY DEF JobIds
<1>2. Shapes'
  BY <1>1 DEF IInv, Shapes, EndsCall, CallType
<1>3. \A j \in JobIds : Revision(jobs[j].case)' = Revision(jobs[j].case)
  BY DEF Settles, Revision
<1>4. Claimed'
  <2>1. ASSUME NEW w \in Workers, Busy(w)'
        PROVE  /\ jobs'[call'[w].job].worker = w
               /\ jobs'[call'[w].job].state \in {"running", "failed"}
    <3>1. Busy(w) /\ call'[w].job = call[w].job
      BY <2>1 DEF EndsCall
    <3>2. call[w].job \in JobIds
      BY <3>1 DEF IInv, Shapes
    <3>3. jobs[call[w].job].worker = w /\ jobs[call[w].job].state \in {"running", "failed"}
      BY <3>1 DEF IInv, Claimed
    <3>4. QED
      BY <2>1, <3>1, <3>2, <3>3 DEF Settles
  <2>2. ASSUME NEW j \in JobIds, jobs'[j].state = "running"
        PROVE  /\ jobs'[j].worker \in Workers
               /\ \/ Busy(jobs[j].worker)' /\ call'[jobs'[j].worker].job = j
                  \/ At(jobs[j].worker, "dead")'
    <3>1. jobs[j].state = "running" /\ jobs'[j].worker = jobs[j].worker
      BY <2>2 DEF Settles
    <3>2. /\ jobs[j].worker \in Workers
          /\ \/ Busy(jobs[j].worker) /\ call[jobs[j].worker].job = j
             \/ At(jobs[j].worker, "dead")
      BY <3>1 DEF IInv, Claimed
    <3>3. EndsCall(jobs[j].worker)
      BY <3>2
    <3>4. QED
      BY <2>2, <3>1, <3>2, <3>3 DEF EndsCall
  <2>3. QED
    BY <1>1, <2>1, <2>2 DEF Claimed, Busy, At
<1>5. OneActivePerCase'
  BY <1>1 DEF IInv, OneActivePerCase, Settles, Active
<1>6. ResultsMatchCase'
  <2>1. ASSUME NEW j \in JobIds
        PROVE  /\ jobs'[j].state = "completed" => jobs'[j].done = jobs'[j].begun
               /\ jobs'[j].state = "running" => jobs'[j].begun = Revision(jobs[j].case)
    BY DEF IInv, ResultsMatchCase, Settles
  <2>2. QED
    BY <1>1, <1>3, <2>1 DEF ResultsMatchCase
<1>7. QED
  BY <1>2, <1>4, <1>5, <1>6 DEF IInv

LEMMA InitInv == Init => IInv
<1> SUFFICES ASSUME Init PROVE IInv
  OBVIOUS
<1>1. jobs \in Seq(Job) /\ JobIds = {}
  BY DEF Init, JobIds
<1>2. Shapes
  BY <1>1, QueueAssumption DEF Init, Shapes, Busy
<1>3. QED
  BY <1>1, <1>2 DEF Init, IInv, Claimed, OneActivePerCase, ResultsMatchCase, Busy

LEMMA SubmitInv ==
  ASSUME IInv, NEW case \in Cases \cup {NoCase}, Submit(case)
  PROVE  IInv'
<1> DEFINE new == Len(jobs) + 1
<1>1. /\ jobs' \in Seq(Job) /\ Len(jobs') = Len(jobs) + 1
      /\ \A j \in JobIds : jobs'[j] = jobs[j]
      /\ jobs'[new] = NewJob(case)
      /\ case # NoCase => ActiveOf(case) = {}
      /\ revision' = revision /\ call' = call
  BY SubmitStep DEF IInv
<1>2. JobIds' = JobIds \cup {new} /\ new \notin JobIds /\ 0 \notin JobIds
  BY <1>1 DEF IInv, Shapes, JobIds
<1>3. jobs'[new].case = case /\ jobs'[new].state = "queued"
  BY <1>1, NewJobFields
<1>4. \A w \in Workers : Busy(w) => call[w].job \in JobIds
  BY DEF IInv, Shapes
<1>5. Shapes'
  BY <1>1, <1>2 DEF IInv, Shapes, Busy
<1>6. Claimed'
  BY <1>1, <1>2, <1>3, <1>4 DEF IInv, Claimed, Busy, At
<1>7. OneActivePerCase'
  BY <1>1, <1>2, <1>3 DEF IInv, OneActivePerCase, ActiveOf
<1>8. ResultsMatchCase'
  BY <1>1, <1>2, <1>3 DEF IInv, ResultsMatchCase, Revision
<1>9. QED
  BY <1>5, <1>6, <1>7, <1>8 DEF IInv

LEMMA EditInv ==
  ASSUME IInv, NEW c \in Cases, EditCase(c)
  PROVE  IInv'
<1>1. /\ jobs' = jobs /\ call' = call /\ JobIds' = JobIds
      /\ revision' = [revision EXCEPT ![c] = @ + 1]
      /\ ActiveOf(c) = {}
  BY DEF EditCase, JobIds
<1>2. revision' \in [Cases -> 0..MaxEdits]
  BY <1>1, QueueAssumption DEF EditCase, IInv, Shapes
<1>3. Shapes'
  BY <1>1, <1>2 DEF IInv, Shapes, Busy
<1>4. ASSUME NEW j \in JobIds, jobs[j].state = "running"
      PROVE  Revision(jobs[j].case)' = Revision(jobs[j].case)
  <2>1. jobs[j].case # c
    BY <1>1, <1>4 DEF ActiveOf, Active
  <2>2. jobs[j].case \in Cases \cup {NoCase}
    BY JobFields DEF IInv
  <2>3. QED
    BY <1>1, <2>1, <2>2 DEF Revision, IInv, Shapes
<1>5. ResultsMatchCase'
  BY <1>1, <1>4 DEF IInv, ResultsMatchCase
<1>6. QED
  BY <1>1, <1>3, <1>5 DEF IInv, Claimed, OneActivePerCase, Busy, At

LEMMA ClaimInv ==
  ASSUME IInv, NEW w \in Workers, Claim(w)
  PROVE  IInv'
<1>1. PICK j \in JobIds :
           /\ jobs' \in Seq(Job) /\ Len(jobs') = Len(jobs)
           /\ \A k \in JobIds : k # j => jobs'[k] = jobs[k]
           /\ jobs[j].state = "queued"
           /\ jobs'[j].case = jobs[j].case /\ jobs'[j].state = "running"
           /\ jobs'[j].worker = w /\ jobs'[j].begun = Revision(jobs[j].case)
           /\ call[w].pc = "recovered"
           /\ call' = [call EXCEPT ![w] = [pc |-> "executing", job |-> j]]
           /\ revision' = revision
  BY ClaimStep DEF IInv
<1>2. JobIds' = JobIds /\ j \in Nat
  BY <1>1 DEF JobIds
<1>3. call'[w] = [pc |-> "executing", job |-> j] /\ \A v \in Workers \ {w} : call'[v] = call[v]
  BY <1>1 DEF IInv, Shapes
<1>4. Shapes'
  BY <1>1, <1>2, <1>3 DEF IInv, Shapes, Busy
<1>5. \A v \in Workers : Busy(v) => call[v].job \in JobIds /\ call[v].job # j /\ v # w
  BY <1>1 DEF IInv, Claimed, Shapes, Busy
<1>6. \A k \in JobIds : jobs[k].state = "running" => jobs[k].worker # w
  BY <1>1 DEF IInv, Claimed, Busy, At
<1>7. Claimed'
  <2>1. ASSUME NEW v \in Workers, Busy(v)'
        PROVE  /\ jobs'[call'[v].job].worker = v
               /\ jobs'[call'[v].job].state \in {"running", "failed"}
    <3>1. CASE v = w
      BY <1>1, <1>3, <3>1
    <3>2. CASE v # w
      BY <1>1, <1>3, <1>5, <2>1, <3>2 DEF IInv, Claimed, Busy
    <3>3. QED
      BY <3>1, <3>2
  <2>2. ASSUME NEW k \in JobIds, jobs'[k].state = "running"
        PROVE  /\ jobs'[k].worker \in Workers
               /\ \/ Busy(jobs[k].worker)' /\ call'[jobs'[k].worker].job = k
                  \/ At(jobs[k].worker, "dead")'
    <3>1. CASE k = j
      BY <1>1, <1>3, <3>1 DEF Busy
    <3>2. CASE k # j
      BY <1>1, <1>3, <1>6, <2>2, <3>2 DEF IInv, Claimed, Busy, At
    <3>3. QED
      BY <3>1, <3>2
  <2>3. QED
    BY <1>2, <2>1, <2>2 DEF Claimed, Busy, At
<1>8. OneActivePerCase'
  <2>1. \A k \in JobIds : jobs'[k].case = jobs[k].case
                          /\ (jobs'[k].state \in Active => jobs[k].state \in Active)
    BY <1>1 DEF Active
  <2>2. QED
    BY <1>2, <2>1 DEF IInv, OneActivePerCase
<1>9. ResultsMatchCase'
  BY <1>1, <1>2 DEF IInv, ResultsMatchCase, Revision
<1>10. QED
  BY <1>4, <1>7, <1>8, <1>9 DEF IInv

(* The actions that change no job, or only the age of some.                *)
LEMMA QuietInv ==
  ASSUME IInv, jobs' = jobs, revision' = revision, call' \in CallType,
         \A w \in Workers :
           /\ Busy(w)' => Busy(w) /\ call'[w].job = call[w].job
           /\ ~Busy(w)' => call'[w].job = 0
           /\ At(w, "dead") => At(w, "dead")'
           /\ Busy(w) /\ ~Busy(w)' => At(w, "dead")'
  PROVE  IInv'
<1>1. jobs' \in Seq(Job) /\ Len(jobs') = Len(jobs)
  BY DEF IInv, Shapes
<1>2. (\A j \in JobIds : Settles(j)) /\ (\A w \in Workers : EndsCall(w))
  BY DEF Settles, EndsCall
<1>3. QED
  BY <1>1, <1>2, SettlingStep

LEMMA AgeInv ==
  ASSUME IInv, jobs' \in Seq(Job), Len(jobs') = Len(jobs), revision' = revision, call' = call,
         \A j \in JobIds : \E age \in 0..Stale + 1 : jobs'[j] = [jobs[j] EXCEPT !.age = age]
  PROVE  IInv'
<1>1. ASSUME NEW j \in JobIds PROVE Settles(j)
  <2>1. PICK age \in 0..Stale + 1 : jobs'[j] = [jobs[j] EXCEPT !.age = age]
    OBVIOUS
  <2>2. jobs[j] \in Job
    BY JobFields DEF IInv
  <2>3. QED
    BY <2>1, <2>2 DEF Settles, Job
<1>2. \A w \in Workers : EndsCall(w)
  BY DEF EndsCall, Busy, At, IInv, Shapes
<1>3. call' \in CallType
  BY DEF IInv, Shapes, CallType
<1>4. QED
  BY <1>1, <1>2, <1>3, SettlingStep

LEMMA CancelInv ==
  ASSUME IInv, NEW j \in JobIds, Cancel(j)
  PROVE  IInv'
<1>1. /\ jobs' \in Seq(Job) /\ Len(jobs') = Len(jobs)
      /\ \A k \in JobIds : jobs'[k] = IF k = j THEN End(jobs[j], "cancelled") ELSE jobs[k]
      /\ jobs[j].state = "queued"
      /\ revision' = revision /\ call' = call
  BY CancelStep DEF IInv
<1>2. \A k \in JobIds : Settles(k)
  BY <1>1, EndFields DEF IInv, Settles, Settled
<1>3. \A w \in Workers : EndsCall(w)
  BY <1>1 DEF EndsCall, Busy, At, IInv, Shapes
<1>4. call' \in CallType
  BY <1>1 DEF IInv, Shapes, CallType
<1>5. QED
  BY <1>1, <1>2, <1>3, <1>4, SettlingStep

(* Overdue jobs fail: by a request for the health, or before a claim.      *)
LEMMA OverdueInv ==
  ASSUME IInv, FailOverdue, revision' = revision, call' \in CallType,
         \A w \in Workers : \/ call'[w] = call[w]
                            \/ ~Busy(w) /\ ~Busy(w)' /\ call'[w].job = 0 /\ ~At(w, "dead")
  PROVE  IInv'
<1>1. /\ jobs' \in Seq(Job) /\ Len(jobs') = Len(jobs)
      /\ \A j \in JobIds : jobs'[j] = IF Overdue(j) THEN End(jobs[j], "failed") ELSE jobs[j]
  BY OverdueStep DEF IInv
<1>2. \A j \in JobIds : Settles(j)
  BY <1>1, EndFields DEF IInv, Settles, Settled, Overdue
<1>3. \A w \in Workers : EndsCall(w)
  BY DEF EndsCall, Busy, At, IInv, Shapes
<1>4. QED
  BY <1>1, <1>2, <1>3, SettlingStep

LEMMA FinishInv ==
  ASSUME IInv, NEW w \in Workers, Finish(w)
  PROVE  IInv'
<1> DEFINE j == call[w].job
<1>1. /\ Busy(w) /\ j \in JobIds
      /\ jobs' \in Seq(Job) /\ Len(jobs') = Len(jobs)
      /\ \A k \in JobIds : k # j => jobs'[k] = jobs[k]
      /\ \/ ~Holds(w) /\ jobs'[j] = jobs[j]
         \/ Holds(w) /\ At(w, "result") /\ jobs'[j] = End(jobs[j], "completed")
         \/ Holds(w) /\ jobs'[j] = End(jobs[j], "failed")
      /\ call' = [call EXCEPT ![w] = [pc |-> "idle", job |-> 0]]
      /\ revision' = revision
  BY FinishStep DEF IInv
<1>2. call' \in CallType /\ call'[w] = [pc |-> "idle", job |-> 0]
      /\ \A v \in Workers \ {w} : call'[v] = call[v]
  BY <1>1 DEF IInv, Shapes, CallType
<1>3. jobs[j].worker = w /\ jobs[j].state \in {"running", "failed"}
  BY <1>1 DEF IInv, Claimed
<1>4. jobs'[j].state # "running"
  BY <1>1, <1>3, EndFields DEF IInv, Holds, Settled
<1>5. \A v \in Workers : EndsCall(v)
  BY <1>1, <1>2, <1>4 DEF EndsCall, Busy, At, IInv, Shapes
<1>6. \A v \in Workers : Busy(v) /\ call[v].job = j => ~Busy(v)'
  BY <1>2, <1>3 DEF IInv, Claimed, Busy
<1>7. ASSUME NEW k \in JobIds PROVE Settles(k)
  <2>1. CASE k # j
    BY <1>1, <2>1 DEF Settles
  <2>2. CASE k = j /\ jobs'[j] = jobs[j]
    BY <2>2 DEF Settles
  <2>3. CASE k = j /\ Holds(w) /\ jobs'[j] = End(jobs[j], "completed")
    BY <1>1, <1>6, <2>3, EndFields DEF IInv, Settles, Settled, Holds
  <2>4. CASE k = j /\ Holds(w) /\ jobs'[j] = End(jobs[j], "failed")
    BY <1>1, <2>4, EndFields DEF IInv, Settles, Settled, Holds
  <2>5. QED
    BY <1>1, <2>1, <2>2, <2>3, <2>4
<1>8. QED
  BY <1>1, <1>2, <1>5, <1>7, SettlingStep

LEMMA StepInv == IInv /\ [Next]_vars => IInv'
<1> SUFFICES ASSUME IInv, [Next]_vars PROVE IInv'
  OBVIOUS
<1>0. call \in CallType /\ \A w \in Workers : ~Busy(w) => call[w].job = 0
  BY DEF IInv, Shapes, CallType
<1>1. ASSUME NEW c \in Cases \cup {NoCase}, Submit(c) PROVE IInv'
  BY <1>1, SubmitInv
<1>2. ASSUME NEW j \in JobIds, Retry(j) PROVE IInv'
  <2>1. jobs[j].case \in Cases \cup {NoCase}
    BY JobFields DEF IInv
  <2>2. QED
    BY <1>2, <2>1, SubmitInv DEF Retry
<1>3. ASSUME NEW j \in JobIds, Cancel(j) PROVE IInv'
  BY <1>3, CancelInv
<1>4. ASSUME NEW c \in Cases, EditCase(c) PROVE IInv'
  BY <1>4, EditInv
<1>5. CASE CheckHealth
  BY <1>0, <1>5, OverdueInv DEF CheckHealth
<1>6. CASE Tick
  BY <1>6, TickStep, AgeInv DEF IInv
<1>7. ASSUME NEW w \in Workers, Beat(w) PROVE IInv'
  BY <1>7, BeatStep, AgeInv DEF IInv
<1>8. ASSUME NEW w \in Workers, Recover(w) PROVE IInv'
  BY <1>0, <1>8, OverdueInv DEF Recover, Go, At, Busy, CallType
<1>9. ASSUME NEW w \in Workers, Claim(w) PROVE IInv'
  BY <1>9, ClaimInv
<1>10. ASSUME NEW w \in Workers, NothingQueued(w) PROVE IInv'
  BY <1>0, <1>10, QuietInv DEF NothingQueued, Return, At, Busy, CallType
<1>11. ASSUME NEW w \in Workers, Executed(w) PROVE IInv'
  BY <1>0, <1>11, QuietInv DEF Executed, Go, At, Busy, CallType
<1>12. ASSUME NEW w \in Workers, Finish(w) PROVE IInv'
  BY <1>12, FinishInv
<1>13. ASSUME NEW w \in Workers, ResultRefused(w) PROVE IInv'
  BY <1>0, <1>13, QuietInv DEF ResultRefused, Go, At, Busy, CallType
<1>14. ASSUME NEW w \in Workers, Die(w) PROVE IInv'
  BY <1>0, <1>14, QuietInv DEF Die, At, Busy, CallType
<1>15. CASE UNCHANGED vars
  BY <1>0, <1>15, QuietInv DEF vars, At, Busy
<1>16. QED
  BY <1>1, <1>2, <1>3, <1>4, <1>5, <1>6, <1>7, <1>8, <1>9, <1>10, <1>11, <1>12, <1>13, <1>14,
     <1>15 DEF Next, Work

LEMMA InvariantHolds == Spec => []IInv
<1>1. QED
  BY InitInv, StepInv, PTL DEF Spec

-----------------------------------------------------------------------------
(* Two workers that execute jobs of one case: both jobs cannot be running, *)
(* and each is running or failed.                                          *)
LEMMA Exclusive == IInv => ExecutionsAreExclusive
<1> SUFFICES ASSUME IInv PROVE ExecutionsAreExclusive
  OBVIOUS
<1>1. ASSUME NEW v \in Workers, NEW w \in Workers, v # w, Busy(v), Busy(w),
             jobs[call[v].job].case # NoCase,
             jobs[call[v].job].case = jobs[call[w].job].case
      PROVE  "failed" \in {jobs[call[v].job].state, jobs[call[w].job].state}
  <2>1. call[v].job \in JobIds /\ call[w].job \in JobIds
    BY <1>1 DEF IInv, Shapes
  <2>2. /\ jobs[call[v].job].worker = v /\ jobs[call[v].job].state \in {"running", "failed"}
        /\ jobs[call[w].job].worker = w /\ jobs[call[w].job].state \in {"running", "failed"}
    BY <1>1 DEF IInv, Claimed
  <2>3. QED
    BY <1>1, <2>1, <2>2 DEF IInv, OneActivePerCase, Active
<1>2. QED
  BY <1>1 DEF IInv, Claimed, ExecutionsAreExclusive

(* A job is executed once, by its worker, is running only while that       *)
(* executes it or is dead, and executions of one case overlap only when a  *)
(* job was declared dead (Store.claim, finish, recover; work_once).        *)
THEOREM ExecutionsExclusive == Spec => []ExecutionsAreExclusive
<1>1. QED
  BY InvariantHolds, Exclusive, PTL

(* A completed job was executed on one content of its case (edit_case      *)
(* refuses while a job of the case is queued or running).                  *)
THEOREM ResultsMatch == Spec => []ResultsMatchCase
<1>1. IInv => ResultsMatchCase
  BY DEF IInv
<1>2. QED
  BY <1>1, InvariantHolds, PTL

-----------------------------------------------------------------------------
(* What a step may do to one job that exists.                              *)
Ignored(j) ==
  /\ jobs[j].state \in Settled => jobs'[j] = jobs[j]
  /\ jobs[j].state # "completed" /\ jobs'[j].state = "completed" =>
       /\ call[jobs[j].worker] = [pc |-> "result", job |-> j]
       /\ ~Busy(jobs[j].worker)'

(* No action but the end of an execution completes a job.                  *)
LEMMA KeepsSettled ==
  ASSUME IInv, NEW j \in JobIds,
         \/ jobs'[j] = jobs[j]
         \/ jobs[j].state \in Active /\ jobs'[j].state # "completed"
  PROVE  Ignored(j)
BY DEF Ignored, Active, Settled

LEMMA FinishKeeps ==
  ASSUME IInv, NEW w \in Workers, Finish(w), NEW k \in JobIds
  PROVE  Ignored(k)
<1> DEFINE j == call[w].job
<1>1. /\ Busy(w) /\ j \in JobIds
      /\ \A i \in JobIds : i # j => jobs'[i] = jobs[i]
      /\ \/ ~Holds(w) /\ jobs'[j] = jobs[j]
         \/ Holds(w) /\ At(w, "result") /\ jobs'[j] = End(jobs[j], "completed")
         \/ Holds(w) /\ jobs'[j] = End(jobs[j], "failed")
      /\ call' = [call EXCEPT ![w] = [pc |-> "idle", job |-> 0]]
  BY FinishStep DEF IInv
<1>2. CASE jobs'[k] = jobs[k]
  BY <1>2, KeepsSettled
<1>3. CASE k = j /\ Holds(w) /\ jobs'[j] = End(jobs[j], "failed")
  BY <1>1, <1>3, EndFields, KeepsSettled DEF IInv, Holds, Settled, Active
<1>4. CASE k = j /\ Holds(w) /\ At(w, "result") /\ jobs'[j] = End(jobs[j], "completed")
  <2>1. jobs[k].worker = w /\ jobs[k].state = "running" /\ jobs'[k].worker = w
    BY <1>1, <1>4, EndFields DEF IInv, Holds, Settled
  <2>2. call[w] = [pc |-> "result", job |-> k] /\ call'[w].pc = "idle"
    BY <1>1, <1>4 DEF At, IInv, Shapes
  <2>3. ~Busy(jobs[k].worker)'
    BY <2>1, <2>2 DEF Busy
  <2>4. QED
    BY <1>4, <2>1, <2>2, <2>3 DEF Ignored, Settled
<1>5. QED
  BY <1>1, <1>2, <1>3, <1>4

LEMMA LateStep ==
  ASSUME IInv, [Next]_vars, NEW j \in JobIds
  PROVE  Ignored(j)
<1>0. jobs[j].state \in Active \cup Settled /\ jobs \in Seq(Job)
  BY JobFields DEF IInv, Shapes
<1>1. ASSUME NEW c \in Cases \cup {NoCase}, Submit(c) PROVE Ignored(j)
  BY <1>1, SubmitStep, KeepsSettled DEF IInv
<1>2. ASSUME NEW i \in JobIds, Retry(i) PROVE Ignored(j)
  <2>1. jobs[i].case \in Cases \cup {NoCase}
    BY JobFields DEF IInv
  <2>2. QED
    BY <1>2, <2>1, SubmitStep, KeepsSettled DEF IInv, Retry
<1>3. ASSUME NEW i \in JobIds, Cancel(i) PROVE Ignored(j)
  BY <1>3, CancelStep, EndFields, KeepsSettled DEF IInv, Settled, Active
<1>4. ASSUME FailOverdue PROVE Ignored(j)
  BY <1>4, OverdueStep, EndFields, KeepsSettled DEF IInv, Overdue, Settled, Active
<1>5. CASE jobs[j].state = "running" /\ (Tick \/ \E w \in Workers : Beat(w))
  <2>1. PICK age \in 0..Stale + 1 : jobs'[j] = [jobs[j] EXCEPT !.age = age]
    BY <1>5, TickStep, BeatStep DEF IInv
  <2>2. jobs[j] \in Job
    BY JobFields DEF IInv
  <2>3. jobs'[j].state = "running"
    BY <1>5, <2>1, <2>2 DEF Job
  <2>4. QED
    BY <1>5, <2>3, KeepsSettled DEF Active
<1>6. CASE jobs[j].state # "running" /\ (Tick \/ \E w \in Workers : Beat(w))
  <2>1. jobs'[j] = jobs[j]
    BY <1>6 DEF Tick, Beat
  <2>2. QED
    BY <2>1, KeepsSettled
<1>7. ASSUME NEW w \in Workers, Claim(w) PROVE Ignored(j)
  BY <1>7, ClaimStep, KeepsSettled DEF IInv, Active
<1>8. ASSUME NEW w \in Workers, Finish(w) PROVE Ignored(j)
  BY <1>8, FinishKeeps
<1>9. CASE jobs' = jobs
  BY <1>9, KeepsSettled
<1>10. QED
  BY <1>1, <1>2, <1>3, <1>4, <1>5, <1>6, <1>7, <1>8, <1>9
     DEF Next, Work, EditCase, CheckHealth, Recover, NothingQueued, Executed, ResultRefused, Die, vars

(* A beat or a result that comes late revives no settled job, and a job is *)
(* completed only by the worker that claimed it (heartbeat and finish      *)
(* compare the worker and the state).                                      *)
THEOREM LateIgnored == Spec => LateWorkersAreIgnored
<1> DEFINE L == \A j \in JobIds :
       /\ jobs[j].state \in Settled => jobs'[j] = jobs[j]
       /\ jobs[j].state # "completed" /\ jobs'[j].state = "completed" =>
            /\ call[jobs[j].worker] = [pc |-> "result", job |-> j]
            /\ ~Busy(jobs[j].worker)'
<1>1. IInv /\ [Next]_vars => [L]_vars
  BY LateStep DEF Ignored
<1>2. QED
  BY <1>1, InvariantHolds, PTL DEF Spec, LateWorkersAreIgnored
=============================================================================
