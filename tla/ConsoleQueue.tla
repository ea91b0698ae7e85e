---------------------------- MODULE ConsoleQueue ----------------------------
(***************************************************************************)
(* The job queue of the local console: console/store.py (Store) and the    *)
(* worker loop over it, console/worker.py (work_once, run).                *)
(*                                                                         *)
(* Every operation of the store is one SQLite transaction.  A worker is    *)
(* one start of the worker process, under a new identity; it executes its  *)
(* job between two transactions while a thread of its own beats.  The      *)
(* store learns that a worker died only from the age of its last beat, so  *)
(* that a worker whose thread is late, or has ended by an exception, is    *)
(* declared dead while it still executes.                                  *)
(***************************************************************************)
EXTENDS Integers, Sequences, FiniteSets

CONSTANTS
  Workers,     \* identities that worker processes draw at start-up
  Mortal,      \* workers that may stop at any point
  Cases,
  NoCase,      \* case of a demonstration job
  NoWorker,
  MaxActive,   \* queued and running jobs that enqueue accepts
  Stale,       \* ticks after which a beat is too old
  MaxJobs,     \* bound on the jobs of the model
  MaxEdits     \* bound on the edits of a case

ASSUME QueueAssumption ==
  /\ Mortal \subseteq Workers /\ NoCase \notin Cases /\ NoWorker \notin Workers
  /\ MaxActive \in Nat /\ Stale \in Nat /\ MaxJobs \in Nat /\ MaxEdits \in Nat

VARIABLES
  jobs,      \* store: the jobs in the order of their creation
  revision,  \* the number of edits of each case
  call       \* each worker process: the step it is at, and its job

vars == <<jobs, revision, call>>

-----------------------------------------------------------------------------
JobIds == 1..Len(jobs)
Active == {"queued", "running"}
Settled == {"completed", "failed", "cancelled"}

Revision(case) == IF case = NoCase THEN 0 ELSE revision[case]

(* retry_of, the options and the stage texts are left out; begun and done  *)
(* are the revisions of the case at the claim and at the end of the job,   *)
(* and age, the time since its last beat, counts while a job is running.   *)
NewJob(case) ==
  [case |-> case, state |-> "queued", worker |-> NoWorker, age |-> 0, begun |-> 0, done |-> 0]

End(job, state) == [job EXCEPT !.state = state, !.age = 0, !.done = Revision(job.case)]

\* Mutant: a job that was claimed no longer keeps its case.
QueuedOf(case) == {j \in JobIds : jobs[j].case = case /\ jobs[j].state = "queued"}
ActiveOf(case) == {j \in JobIds : jobs[j].case = case /\ jobs[j].state \in Active}

\* Mutant: the job was looked up before the write lock was taken.
QueuedBefore == {j \in JobIds : jobs[j].state \in Active}
Queued == {j \in JobIds : jobs[j].state = "queued"}

Init ==
  /\ jobs = << >> /\ revision = [c \in Cases |-> 0]
  /\ call = [w \in Workers |-> [pc |-> "idle", job |-> 0]]
-----------------------------------------------------------------------------
HasRoom == Cardinality({j \in JobIds : jobs[j].state \in Active}) < MaxActive

(* Requests of the interface.  The active jobs are counted, and a case has *)
(* at most one of them (the partial unique index).                         *)
Submit(case) ==
  /\ Len(jobs) < MaxJobs
  /\ HasRoom
  /\ case # NoCase => ActiveOf(case) = {}
  /\ jobs' = Append(jobs, NewJob(case))
  /\ UNCHANGED <<revision, call>>

(* The state of the original is read in a transaction of its own; a failed *)
(* or cancelled job stays so.                                              *)
Retry(j) ==
  /\ jobs[j].state \in {"failed", "cancelled"}
  /\ Submit(jobs[j].case)

Cancel(j) ==
  /\ jobs[j].state = "queued"
  /\ jobs' = [jobs EXCEPT ![j] = End(@, "cancelled")]
  /\ UNCHANGED <<revision, call>>

EditCase(c) ==
  /\ revision[c] < MaxEdits /\ ActiveOf(c) = {}
  /\ revision' = [revision EXCEPT ![c] = @ + 1]
  /\ UNCHANGED <<jobs, call>>

(* Jobs of workers that have not beaten for too long fail; the interface   *)
(* does this whenever it reports its health, a worker before each claim.   *)
\* Mutant: only a job without a worker is overdue.
OverdueUnclaimed(j) == jobs[j].state = "running" /\ jobs[j].worker = NoWorker
Overdue(j) == jobs[j].state = "running" /\ jobs[j].age > Stale

FailOverdue ==
  jobs' = [j \in JobIds |-> IF Overdue(j) THEN End(jobs[j], "failed") ELSE jobs[j]]

CheckHealth == FailOverdue /\ (\E j \in JobIds : Overdue(j)) /\ UNCHANGED <<revision, call>>

(* Time passes for the jobs that run; their ages matter up to Stale + 1.   *)
Older(age) == IF age > Stale THEN age ELSE age + 1
Tick ==
  /\ \E j \in JobIds : jobs[j].state = "running" /\ ~Overdue(j)
  /\ jobs' = [j \in JobIds |-> IF jobs[j].state = "running"
                               THEN [jobs[j] EXCEPT !.age = Older(@)] ELSE jobs[j]]
  /\ UNCHANGED <<revision, call>>
-----------------------------------------------------------------------------
(* The worker process: its heartbeat thread, and the loop of run.          *)
At(w, pc) == call[w].pc = pc
Go(w, pc) == call' = [call EXCEPT ![w].pc = pc]
Return(w) == call' = [call EXCEPT ![w] = [pc |-> "idle", job |-> 0]]

Beat(w) ==
  /\ ~At(w, "dead")
  /\ jobs' = [j \in JobIds |-> IF jobs[j].worker = w /\ jobs[j].state = "running"
                               THEN [jobs[j] EXCEPT !.age = 0] ELSE jobs[j]]
  /\ UNCHANGED <<revision, call>>

Recover(w) == At(w, "idle") /\ FailOverdue /\ Go(w, "recovered") /\ UNCHANGED revision

Claim(w) ==
  /\ At(w, "recovered")
  /\ \E j \in Queued :
       /\ \A other \in Queued : j <= other
       /\ jobs' = [jobs EXCEPT ![j].state = "running", ![j].worker = w, ![j].age = 0,
                               ![j].begun = Revision(jobs[j].case)]
       /\ call' = [call EXCEPT ![w] = [pc |-> "executing", job |-> j]]
  /\ UNCHANGED revision

NothingQueued(w) ==
  /\ At(w, "recovered") /\ Queued = {}
  /\ Return(w) /\ UNCHANGED <<jobs, revision>>

(* The execution ends with a result or an exception: a tool that fails, or *)
(* one that runs into its deadline.                                        *)
Executed(w) ==
  /\ At(w, "executing")
  /\ \E outcome \in {"result", "error"} : Go(w, outcome)
  /\ UNCHANGED <<jobs, revision>>

(* A result is kept only for a job that still runs under this worker.      *)
\* Mutant: the state of the job is not compared.
SameWorker(w) == jobs[call[w].job].worker = w
Holds(w) == jobs[call[w].job].worker = w /\ jobs[call[w].job].state = "running"

Finish(w) ==
  LET j == call[w].job IN
  /\ At(w, "result") \/ At(w, "error")
  /\ jobs' = IF Holds(w)
             THEN [jobs EXCEPT ![j] = End(@, IF At(w, "result") THEN "completed" ELSE "failed")]
             ELSE jobs
  /\ Return(w) /\ UNCHANGED revision

(* A result that cannot be stored (it is too long, the database stays      *)
(* locked) becomes an error; when that cannot be stored either, or another *)
(* transaction of the loop fails, the exception ends the process.          *)
ResultRefused(w) == At(w, "result") /\ Go(w, "error") /\ UNCHANGED <<jobs, revision>>

Die(w) ==
  /\ w \in Mortal /\ ~At(w, "dead")
  /\ call' = [call EXCEPT ![w] = [pc |-> "dead", job |-> 0]]
  /\ UNCHANGED <<jobs, revision>>

Work(w) ==
  Recover(w) \/ Claim(w) \/ NothingQueued(w) \/ Executed(w) \/ Finish(w) \/ ResultRefused(w)

Next ==
  \/ \E c \in Cases \cup {NoCase} : Submit(c)
  \/ \E j \in JobIds : Retry(j) \/ Cancel(j)
  \/ \E c \in Cases : EditCase(c)
  \/ CheckHealth \/ Tick
  \/ \E w \in Workers : Beat(w) \/ Work(w) \/ Die(w)

Spec == Init /\ [][Next]_vars

(* Time passes, and the loop of a worker that has not died goes on.  The   *)
(* tools that a job runs as processes have deadlines; a check and an       *)
(* assessment run in the worker itself, without one, and end because they  *)
(* are finite computations over a case.  No beat is ever assumed.          *)
FairSpec == Spec /\ WF_vars(Tick) /\ \A w \in Workers : WF_vars(Work(w))
-----------------------------------------------------------------------------
Job == [case : Cases \cup {NoCase}, state : Active \cup Settled,
        worker : Workers \cup {NoWorker}, age : 0..Stale + 1,
        begun : 0..MaxEdits, done : 0..MaxEdits]

Busy(w) == call[w].pc \in {"executing", "result", "error"}

(* A job is executed once, by the worker that claimed it, and is running   *)
(* only as long as that worker executes it or is dead; two executions of   *)
(* one case overlap only when one of the jobs was declared dead.  A queued *)
(* job has not been executed by anybody.                                   *)
ExecutionsAreExclusive ==
  /\ \A w \in Workers : Busy(w) =>
       jobs[call[w].job].worker = w /\ jobs[call[w].job].state \in {"running", "failed"}
  /\ \A j \in JobIds : jobs[j].state = "running" =>
       (Busy(jobs[j].worker) /\ call[jobs[j].worker].job = j) \/ At(jobs[j].worker, "dead")
  /\ \A v, w \in Workers : v # w /\ Busy(v) /\ Busy(w) =>
       LET a == jobs[call[v].job]
           b == jobs[call[w].job]
       IN a.case # NoCase /\ a.case = b.case => "failed" \in {a.state, b.state}

(* A result is about one content of its case: between the claim of a       *)
(* completed job and its end nobody edited the case, however often the job *)
(* was retried, cancelled or declared dead meanwhile, and a running one    *)
(* still executes on the current content.                                  *)
ResultsMatchCase ==
  \A j \in JobIds :
    /\ jobs[j].state = "completed" => jobs[j].done = jobs[j].begun
    /\ jobs[j].state = "running" => jobs[j].begun = Revision(jobs[j].case)

(* A late worker is ignored: what is settled stays, so that neither a beat *)
(* nor a result revives a job that was declared dead; and a job completes  *)
(* only by the worker that claimed it.                                     *)
LateWorkersAreIgnored ==
  [][\A j \in JobIds :
       /\ jobs[j].state \in Settled => jobs'[j] = jobs[j]
       /\ jobs[j].state # "completed" /\ jobs'[j].state = "completed" =>
            /\ call[jobs[j].worker] = [pc |-> "result", job |-> j]
            /\ ~Busy(jobs[j].worker)']_vars

(* Every job settles as long as one worker lives, also one whose own       *)
(* worker died or whose heartbeat thread stopped.                          *)
JobsSettle == \A j \in 1..MaxJobs : (j \in JobIds) ~> (j \in JobIds /\ jobs[j].state \in Settled)
=============================================================================
