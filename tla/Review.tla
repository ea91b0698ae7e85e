------------------------------- MODULE Review -------------------------------
(***************************************************************************)
(* The policy review of a fixture: production_review/store.py              *)
(* (ReviewStore), service.py (FixtureReviewService) and authorization.py   *)
(* (ReviewAuthorization).                                                  *)
(*                                                                         *)
(* The database is its event history, which the store replays before every *)
(* operation.  A service is one process over it with an identity service   *)
(* of its own, whose lock each of its calls holds.  All calls but execute  *)
(* read the history, and write one event only if it is still the same, so  *)
(* that they are one step here; execute records the start, trains, and     *)
(* records the completion in another transaction, while the services of    *)
(* other processes go on.  What a service knows beyond the history, the    *)
(* authenticated contexts of decisions and the evidence of a run, lives in *)
(* its memory.                                                             *)
(***************************************************************************)
EXTENDS Integers, Sequences, FiniteSets, FiniteSetsExt, SequencesExt

CONSTANTS
  Services,
  People,          \* canonical persons
  May,             \* the actions for which a person has the role
  Tokens,          \* credentials of a person, each named by its expiry
  Cases,
  Submitter,       \* the person who submitted a case
  ProjectOf,
  Policies,        \* what may be proposed: a utility floor and a ceiling of AUC
  Results,         \* what a run may measure: a utility and an AUC
  Lifetimes,       \* lifetimes of delegations
  RunLifetimes,    \* lifetimes of the evidence of a run
  MaxCampaigns, MaxDelegations, MaxEvents,   \* capacities of the store
  MaxOperators,    \* bound on who asks a service for a start in vain
  Revocable,       \* bound: the people whose authority may be revoked
  MaxTime          \* bound on the clock of the model

Reviews == {"policy", "assess", "approve"}
Actions == Reviews \cup {"propose", "start"}

ASSUME ReviewAssumption ==
  /\ May \in [People -> SUBSET Actions] /\ Tokens \subseteq Nat
  /\ Submitter \in [Cases -> People] /\ DOMAIN ProjectOf = Cases
  /\ Policies \cup Results \subseteq [utility : Nat, auc : Nat]
  /\ Lifetimes \cup RunLifetimes \subseteq Nat \ {0}
  /\ MaxCampaigns \in Nat /\ MaxDelegations \in Nat /\ MaxEvents \in Nat
  /\ MaxOperators \in Nat /\ Revocable \subseteq People /\ MaxTime \in Nat

VARIABLES
  log,        \* database: the event history
  time,
  memory      \* each service: its proofs, evidence, operators, denied
              \* persons, and the run that it executes; history: where in
              \* the log it wrote these proofs and this evidence

vars == <<log, time, memory>>

-----------------------------------------------------------------------------
(* What the history says of a case and of a campaign.  A campaign and a    *)
(* delegation are known by the position of the event that made them.       *)
Events(op) == {i \in DOMAIN log : log[i].op = op}

Campaigns == Events("propose")
CaseOf(c) == log[c].case

Latest(c, op) == Max({0} \cup {i \in Events(op) : log[i].campaign = c})

(* A renewed policy approval takes the assessment with it, and a renewed   *)
(* assessment the approval.                                                *)
PolicyApproval(c) == Latest(c, "policy")
Assessment(c) == IF Latest(c, "assess") > PolicyApproval(c) THEN Latest(c, "assess") ELSE 0
Approval(c) ==
  IF Assessment(c) # 0 /\ Latest(c, "approve") > Assessment(c) THEN Latest(c, "approve") ELSE 0

State(c) ==
  IF Latest(c, "fail") # 0 THEN "failed"
  ELSE IF Latest(c, "complete") # 0 THEN "completed"
  ELSE IF Latest(c, "start") # 0 THEN "started"
  ELSE IF Latest(c, "policy") # 0 THEN "approved"
  ELSE "proposed"

Delegations == Events("delegate")
Withdrawn(d) == \E i \in Events("revoke") : log[i].delegation = d

Operators(case) == {log[i].by.person : i \in {j \in Events("start") : log[j].case = case}}
Reviewers(case, action) ==
  LET granted == {i \in Delegations : log[i].case = case /\ log[i].action = action}
      decided == {i \in Events(action) : log[i].case = case} IN
  {log[i].by.person : i \in granted \cup decided} \cup {log[i].delegate : i \in granted}

(* _independent: of the owner, the operators and the other review roles.   *)
Independent(case, action, person) ==
  /\ person # Submitter[case] /\ person \notin Operators(case)
  /\ \A other \in Reviews \ {action} : person \notin Reviewers(case, other)

\* Mutant: an operator need only differ from the owner.
NotTheOwner(case, person) == person # Submitter[case]
MayOperate(case, person) ==
  /\ person # Submitter[case]
  /\ \A action \in Reviews : person \notin Reviewers(case, action)

(* auc stands for the distance of an attack from guessing: the larger of   *)
(* the measured value and its complement.                                  *)
Meets(x, policy) == x.utility >= policy.utility /\ x.auc <= policy.auc

(* _strong_enough: no weaker than any policy of the project that started.  *)
\* Mutant: only the starts of the case count.
StrongInCase(case, policy) ==
  \A i \in Events("start") :
    log[i].case = case => Meets(policy, log[log[i].campaign].policy)
StrongEnough(case, policy) ==
  \A i \in Events("start") :
    ProjectOf[log[i].case] = ProjectOf[case] => Meets(policy, log[log[i].campaign].policy)
-----------------------------------------------------------------------------
(* Authority.  Each change of it revokes some person and is a new revision *)
(* that no context from before survives.                                   *)
Revision(s) == Cardinality(memory[s].denied)
Actors(s) == [person : People, token : Tokens, revision : {Revision(s)}]

ActionOf(e) ==
  CASE e.op = "delegate" -> e.action
    [] e.op = "complete" -> "start"
    [] OTHER -> e.op

Context(e) == [case |-> e.case, by |-> e.by, action |-> ActionOf(e)]

Current(s, x, t) ==
  /\ x.action \in May[x.by.person] /\ x.by.person \notin memory[s].denied
  /\ x.by.revision = Revision(s) /\ t < x.by.token
  /\ x.action = "propose" => x.by.person = Submitter[x.case]
  /\ x.action \in Reviews =>
       x.by.person # Submitter[x.case] /\ <<x.case, x.by.person>> \notin memory[s].operators

(* A delegation covers one action of one person on one campaign, for a     *)
(* while, unless it was withdrawn; 0 is no delegation.                     *)
Covers(d, c, action, person, t) ==
  d # 0 =>
    /\ d \in Delegations /\ ~Withdrawn(d)
    /\ LET e == log[d] IN
         /\ e.campaign = c /\ e.action = action /\ e.delegate = person
         /\ t < e.until
         /\ Independent(e.case, action, e.by.person)

Deadlines(d) == IF d = 0 THEN {} ELSE {log[d].until}
Grantors(d) == IF d = 0 THEN {} ELSE {log[d]}

(* The decision at position i is known to service s, and its delegation    *)
(* still covers it.                                                        *)
Usable(s, i, t) ==
  /\ i # 0 /\ log[i] \in memory[s].proofs
  /\ Covers(log[i].delegation, log[i].campaign, log[i].op, log[i].by.person, t)
  /\ Grantors(log[i].delegation) \subseteq memory[s].proofs

Behind(i) == {Context(e) : e \in {log[i]} \cup Grantors(log[i].delegation)}
-----------------------------------------------------------------------------
Init ==
  /\ log = << >> /\ time = 0
  /\ memory = [s \in Services |->
       [proofs |-> {}, evidence |-> {}, operators |-> {}, denied |-> {}, run |-> << >>,
        wrote |-> {}]]

LockFree(s) == memory[s].run = << >>

(* access: the caller may act on the case now.                             *)
Access(s, by, case, action) ==
  Current(s, [case |-> case, by |-> by, action |-> action], time)

(* One transaction of s.  The guard checks every context at its start and  *)
(* at its end, and no delegation may have expired by then.                 *)
Apply(s, event, contexts, deadlines) ==
  /\ Len(log) < MaxEvents
  /\ event \notin Range(log)
  /\ log' = Append(log, event)
  /\ time' \in time..MaxTime
  /\ \A x \in contexts \cup {Context(event)} : Current(s, x, time')
  /\ \A deadline \in deadlines : time' < deadline

Remember(s, event) ==
  memory' = [memory EXCEPT ![s].proofs = @ \cup {event}, ![s].wrote = @ \cup {Len(log) + 1}]

Propose(s, by, case, policy) ==
  /\ Access(s, by, case, "propose")
  /\ Cardinality(Campaigns) < MaxCampaigns
  /\ StrongEnough(case, policy)
  /\ Apply(s, [op |-> "propose", case |-> case, by |-> by,
               campaign |-> Len(log) + 1, policy |-> policy], {}, {})
  /\ UNCHANGED memory

Delegate(s, by, c, action) ==
  /\ Access(s, by, CaseOf(c), action)
  /\ Cardinality(Delegations) < MaxDelegations
  /\ Independent(CaseOf(c), action, by.person)
  /\ ~\E i \in Delegations :
       log[i].campaign = c /\ log[i].action = action /\ log[i].delegate = by.person
  /\ \E delegate \in People \ {by.person}, seconds \in Lifetimes :
       LET event == [op |-> "delegate", case |-> CaseOf(c), by |-> by, campaign |-> c,
                     id |-> Len(log) + 1, action |-> action, delegate |-> delegate,
                     until |-> time + seconds] IN
       /\ Independent(CaseOf(c), action, delegate)
       /\ Apply(s, event, {}, {event.until})
       /\ Remember(s, event)

(* Only the grantor withdraws a delegation, in the role of its action.     *)
Withdraw(s, by, d) ==
  LET e == log[d] IN
  /\ Access(s, by, e.case, e.action)
  /\ ~Withdrawn(d) /\ by.person = e.by.person
  /\ Len(log) < MaxEvents
  /\ log' = Append(log, [op |-> "revoke", case |-> e.case, campaign |-> e.campaign, by |-> by,
                         delegation |-> d])
  /\ time' \in time..MaxTime /\ Current(s, [Context(e) EXCEPT !.by = by], time')
  /\ UNCHANGED memory

(* A renewed decision repeats its verdict and its delegation, though not   *)
(* the assessment that an approval names.  Only an assessment has a        *)
(* verdict, and only an approval names an assessment.                      *)
Renews(c, op, verdict, d) ==
  \A i \in Events(op) :
    log[i].campaign = c => log[i].verdict = verdict /\ log[i].delegation = d

Decide(s, by, c, op, verdict, assessment, d, contexts, deadlines) ==
  LET event == [op |-> op, case |-> CaseOf(c), by |-> by, campaign |-> c, delegation |-> d,
                verdict |-> verdict, assessment |-> assessment] IN
  /\ Independent(CaseOf(c), op, by.person)
  /\ Covers(d, c, op, by.person, time) /\ Grantors(d) \subseteq memory[s].proofs
  /\ Renews(c, op, verdict, d)
  /\ Apply(s, event, contexts \cup {Context(e) : e \in Grantors(d)}, deadlines \cup Deadlines(d))
  /\ Remember(s, event)

ApprovePolicy(s, by, c, d) ==
  /\ Access(s, by, CaseOf(c), "policy")
  /\ State(c) # "failed" /\ StrongEnough(CaseOf(c), log[c].policy)
  /\ Decide(s, by, c, "policy", "none", 0, d, {}, {})
-----------------------------------------------------------------------------
(* execute: start, run, and completion or failure.  Who asks for a start   *)
(* is an operator for the identity service even when it is refused.        *)
AskToStart(s, person, case) ==
  /\ LockFree(s) /\ "start" \in May[person] /\ person \notin memory[s].denied
  /\ Cardinality(memory[s].operators) < MaxOperators
  /\ memory' = [memory EXCEPT ![s].operators = @ \cup {<<case, person>>}]
  /\ UNCHANGED <<log, time>>

(* The caller counts as an operator before the guard compares, so that no  *)
(* reviewer of the case starts a run of it; MayOperate refuses the same.   *)
Start(s, by, c) ==
  LET policy == PolicyApproval(c)
      event == [op |-> "start", case |-> CaseOf(c), by |-> by, campaign |-> c] IN
  /\ Access(s, by, CaseOf(c), "start")
  /\ State(c) = "approved" /\ Usable(s, policy, time)
  /\ MayOperate(CaseOf(c), by.person)
  /\ StrongEnough(CaseOf(c), log[c].policy)
  /\ Apply(s, event, Behind(policy), Deadlines(log[policy].delegation))
  /\ memory' = [memory EXCEPT ![s].operators = @ \cup {<<CaseOf(c), by.person>>},
                              ![s].run = <<event>>]

(* Nothing may have been written, to whatever case, since the start.       *)
Complete(s, result, seconds) ==
  LET start == memory[s].run[1]
      c == start.campaign
      policy == PolicyApproval(c)
      event == [op |-> "complete", case |-> start.case, by |-> start.by, campaign |-> c,
                result |-> result] IN
  /\ ~LockFree(s) /\ Last(log) = start
  /\ Usable(s, policy, time)
  /\ Apply(s, event, Behind(policy), Deadlines(log[policy].delegation) \cup {time + seconds})
  /\ memory' = [memory EXCEPT ![s].run = << >>, ![s].wrote = @ \cup {Len(log) + 1},
                              ![s].evidence = @ \cup
       {[campaign |-> c, contexts |-> {Context(start)} \cup Behind(policy),
         deadlines |-> Deadlines(log[policy].delegation) \cup {time + seconds}]}]

Fail(s) ==
  LET start == memory[s].run[1] IN
  /\ ~LockFree(s)
  /\ Len(log) < MaxEvents
  /\ log' = Append(log, [op |-> "fail", case |-> start.case, by |-> start.by,
                         campaign |-> start.campaign])
  /\ time' \in time..MaxTime /\ Current(s, Context(start), time')
  /\ memory' = [memory EXCEPT ![s].run = << >>]

(* The failure cannot be recorded either.                                  *)
GiveUp(s) ==
  /\ ~LockFree(s)
  /\ memory' = [memory EXCEPT ![s].run = << >>] /\ UNCHANGED <<log, time>>
-----------------------------------------------------------------------------
(* The observer of a completion watches its evidence as long as the        *)
(* operator, and who approved the policy for it, are current.              *)
Evidence(s, c) == {e \in memory[s].evidence : e.campaign = c}
Observed(s, c) == UNION {e.contexts : e \in Evidence(s, c)}
EvidenceEnd(s, c) == UNION {e.deadlines : e \in Evidence(s, c)}

\* Mutant: a completion of which no evidence is known is not looked into.
NothingAgainst(s, c) ==
  /\ \A x \in Observed(s, c) : Current(s, x, time)
  /\ \A deadline \in EvidenceEnd(s, c) : time < deadline
Evidenced(s, c) ==
  /\ Evidence(s, c) # {}
  /\ \A x \in Observed(s, c) : Current(s, x, time)
  /\ \A deadline \in EvidenceEnd(s, c) : time < deadline

Assess(s, by, c, verdict, d) ==
  LET policy == PolicyApproval(c) IN
  /\ Access(s, by, CaseOf(c), "assess")
  /\ State(c) = "completed" /\ Usable(s, policy, time) /\ Evidenced(s, c)
  /\ verdict = "accept" => Meets(log[Latest(c, "complete")].result, log[c].policy)
  /\ Decide(s, by, c, "assess", verdict, 0, d, Behind(policy) \cup Observed(s, c),
            Deadlines(log[policy].delegation) \cup EvidenceEnd(s, c))

Approve(s, by, c, d) ==
  LET policy == PolicyApproval(c)
      assessment == Assessment(c) IN
  /\ Access(s, by, CaseOf(c), "approve")
  /\ State(c) = "completed" /\ Usable(s, policy, time) /\ Evidenced(s, c)
  /\ Usable(s, assessment, time) /\ log[assessment].verdict = "accept"
  /\ Decide(s, by, c, "approve", "none", assessment, d,
            Behind(policy) \cup Behind(assessment) \cup Observed(s, c),
            Deadlines(log[policy].delegation) \cup Deadlines(log[assessment].delegation)
              \cup EvidenceEnd(s, c))

(* status: whether the reviews of a campaign can be used now.              *)
ReviewsUsable(s, c) ==
  /\ Evidenced(s, c) /\ Approval(c) # 0
  /\ \A i \in {PolicyApproval(c), Assessment(c), Approval(c)} :
       Usable(s, i, time) /\ \A x \in Behind(i) : Current(s, x, time)
-----------------------------------------------------------------------------
Deny(s, person) ==
  /\ LockFree(s) /\ person \notin memory[s].denied
  /\ memory' = [memory EXCEPT ![s].denied = @ \cup {person}]
  /\ UNCHANGED <<log, time>>

Crash(s) ==
  /\ memory' = [memory EXCEPT ![s] =
       [proofs |-> {}, evidence |-> {}, operators |-> {}, denied |-> @.denied, run |-> << >>,
        wrote |-> {}]]
  /\ UNCHANGED <<log, time>>

Tick == time < MaxTime /\ time' = time + 1 /\ UNCHANGED <<log, memory>>

Decision(s, by, c, d) ==
  \/ ApprovePolicy(s, by, c, d)
  \/ \E verdict \in {"accept", "reject"} : Assess(s, by, c, verdict, d)
  \/ Approve(s, by, c, d)

Call(s, by) ==
  \/ \E case \in Cases, policy \in Policies : Propose(s, by, case, policy)
  \/ \E c \in Campaigns :
       \/ \E action \in Reviews : Delegate(s, by, c, action)
       \/ \E d \in Delegations \cup {0} : Decision(s, by, c, d)
       \/ Start(s, by, c)
  \/ \E d \in Delegations : Withdraw(s, by, d)

Next ==
  \/ \E s \in Services :
       \/ LockFree(s) /\ \E by \in Actors(s) : Call(s, by)
       \/ \E result \in Results, seconds \in RunLifetimes : Complete(s, result, seconds)
       \/ Fail(s) \/ GiveUp(s) \/ Crash(s)
       \/ \E person \in Revocable : Deny(s, person)
       \/ \E person \in People, case \in Cases : AskToStart(s, person, case)
  \/ Tick

Spec == Init /\ [][Next]_vars
-----------------------------------------------------------------------------
(* Duties are separated over the whole history of a case: nobody owns,     *)
(* operates, decides the policy, assesses and approves in two of these     *)
(* roles, whether as a decider, as the grantor of a delegation or as a     *)
(* delegate who never used it, in whatever order, campaign or process.     *)
Duties(case) ==
  [duty \in Reviews \cup {"own", "operate"} |->
     CASE duty = "own" -> {Submitter[case]}
       [] duty = "operate" -> Operators(case)
       [] OTHER -> Reviewers(case, duty)]

DutiesAreSeparated ==
  \A case \in Cases :
    LET has == Duties(case) IN
    \A one, other \in DOMAIN has : one # other => has[one] \cap has[other] = {}

(* The policies of a project never weaken once results exist: whatever     *)
(* starts later is at least as strict as everything that started before,   *)
(* also a draft from before and a campaign of another case.                *)
PoliciesNeverWeaken ==
  \A i, j \in DOMAIN log :
    /\ i < j /\ log[i].op = "start" /\ log[j].op = "start"
    /\ ProjectOf[log[i].case] = ProjectOf[log[j].case]
    => Meets(log[log[j].campaign].policy, log[log[i].campaign].policy)

(* Reviews that status calls usable were earned: a run that started under  *)
(* an approved policy, whose delegation was not withdrawn until it ended,  *)
(* met that policy, was accepted and never rejected, and approved after    *)
(* that; the service that says so wrote the completion, the decisions and  *)
(* the delegations behind them itself, since it last started, and none of  *)
(* these delegations has been withdrawn or has expired.                    *)
Basis(c) ==
  LET decisions == {Latest(c, op) : op \in Reviews} IN
  {Latest(c, "complete")} \cup decisions \cup ({log[i].delegation : i \in decisions} \ {0})

UsableReviewsAreEarned ==
  \A s \in Services : \A c \in Campaigns : ReviewsUsable(s, c) =>
    LET complete == Latest(c, "complete") IN
    /\ \E i \in DOMAIN log :
         /\ log[i].op = "policy" /\ log[i].campaign = c
         /\ i < Latest(c, "start") /\ Latest(c, "start") < complete
         /\ ~\E j \in i..complete : log[j].op = "revoke" /\ log[j].delegation = log[i].delegation
    /\ complete < Latest(c, "assess") /\ Latest(c, "assess") < Latest(c, "approve")
    /\ Meets(log[complete].result, log[c].policy)
    /\ \A i \in Events("assess") : log[i].campaign = c => log[i].verdict = "accept"
    /\ Basis(c) \subseteq memory[s].wrote
    /\ \A d \in Basis(c) \cap Delegations : ~Withdrawn(d) /\ time < log[d].until
=============================================================================
