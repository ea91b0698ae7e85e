---------------------------- MODULE ReviewProofs ----------------------------
(***************************************************************************)
(* Proofs about the policy review of a fixture, for every set of services, *)
(* people, credentials and cases, every policy and every capacity.         *)
(*                                                                         *)
(* The history only grows, so each part of the invariant says of an event  *)
(* what the history held before it.                                        *)
(***************************************************************************)
EXTENDS Review, SequenceTheorems, WellFoundedInduction, TLAPS

IsHistory(h) == h \in Seq(Range(h))

(* Every event belongs to a campaign that was proposed before.             *)
CampaignsKnown ==
  \A i \in DOMAIN log : log[i].campaign \in 1..i /\ log[log[i].campaign].op = "propose"

(* Only delegations are withdrawn, and 0 is none.                          *)
WithdrawalsKnown ==
  \A i \in DOMAIN log : log[i].op = "revoke" => log[i].delegation \in 1..i - 1

(* A run starts once, under an approved policy whose delegation was not    *)
(* withdrawn by then.                                                      *)
NotWithdrawnBefore(j, d) ==
  \A m \in 1..j - 1 : log[m].op = "revoke" => log[m].delegation # d

StartsApproved ==
  \A j \in DOMAIN log : log[j].op = "start" =>
    /\ \E i \in 1..j - 1 :
         /\ log[i].op = "policy" /\ log[i].campaign = log[j].campaign
         /\ NotWithdrawnBefore(j, log[i].delegation)
    /\ \A m \in 1..j - 1 : log[m].campaign = log[j].campaign => log[m].op # "start"

(* A completion directly follows the start of its run.                     *)
CompletesItsStart ==
  \A k \in DOMAIN log : log[k].op = "complete" =>
    k > 1 /\ log[k - 1].op = "start" /\ log[k - 1].campaign = log[k].campaign

(* An assessment comes after the completion, and accepts only what met the *)
(* policy; assessments of a campaign do not contradict each other, and an  *)
(* approval comes after one that accepted.                                 *)
AssessesCompletion ==
  \A i \in DOMAIN log : log[i].op = "assess" =>
    \E k \in 1..i - 1 :
      /\ log[k].op = "complete" /\ log[k].campaign = log[i].campaign
      /\ log[i].verdict = "accept" => Meets(log[k].result, log[log[i].campaign].policy)

OneVerdict ==
  \A i, j \in DOMAIN log :
    log[i].op = "assess" /\ log[j].op = "assess" /\ log[i].campaign = log[j].campaign
    => log[i].verdict = log[j].verdict

ApprovesAccepted ==
  \A i \in DOMAIN log : log[i].op = "approve" =>
    \E j \in 1..i - 1 :
      log[j].op = "assess" /\ log[j].campaign = log[i].campaign /\ log[j].verdict = "accept"

(* What a service runs was started in the history.                         *)
RunsStarted ==
  \A s \in Services : memory[s].run # << >> =>
    \E i \in DOMAIN log : memory[s].run = <<log[i]>> /\ log[i].op = "start"

(* No review is recorded twice.                                            *)
NoneTwice ==
  \A i, j \in DOMAIN log : log[i].op \in Reviews \cup {"delegate"} /\ log[i] = log[j] => i = j

(* A service wrote itself what it remembers of reviews and runs.           *)
OwnWork(m) ==
  /\ m.wrote \subseteq DOMAIN log
  /\ \A e \in m.proofs : \E k \in m.wrote : log[k] = e
  /\ \A e \in m.evidence : \E k \in m.wrote :
       log[k].op = "complete" /\ log[k].campaign = e.campaign

RemembersOwnWork == \A s \in Services : OwnWork(memory[s])

(* A service remembers six things.                                         *)
Shaped(m) ==
  m = [proofs |-> m.proofs, evidence |-> m.evidence, operators |-> m.operators,
       denied |-> m.denied, run |-> m.run, wrote |-> m.wrote]

MemoryShape ==
  /\ memory = [s \in Services |-> memory[s]]
  /\ \A s \in Services : Shaped(memory[s])

HistoryInv ==
  /\ IsHistory(log) /\ MemoryShape
  /\ CampaignsKnown /\ WithdrawalsKnown
  /\ StartsApproved /\ CompletesItsStart
  /\ AssessesCompletion /\ OneVerdict /\ ApprovesAccepted
  /\ RunsStarted /\ NoneTwice /\ RemembersOwnWork

(* The invariant: how the history came about, and the two properties that  *)
(* are inductive with it.                                                  *)
IInv == HistoryInv /\ DutiesAreSeparated /\ PoliciesNeverWeaken

-----------------------------------------------------------------------------
(* Numbers and sequences.                                                  *)
Below == OpToRel(<, Nat)

LEMMA BelowWellFounded == IsWellFoundedOn(Below, Nat)
BY NatLessThanWellFounded, Zenon DEF Below

LEMMA BelowIs == \A m, n \in Nat : m < n => <<m, n>> \in Below
BY Zenon DEF Below, OpToRel

LEMMA LeastExists ==
  ASSUME NEW S \in SUBSET Nat, S # {}
  PROVE  \E m \in S : \A n \in S : m <= n
<1>1. PICK m \in S : \A n \in S : ~(<<n, m>> \in Below)
  BY BelowWellFounded, WFMin
<1>2. \A n \in S : ~(n < m)
  BY <1>1, BelowIs
<1>3. QED
  BY <1>2

(* Max of a non-empty set of numbers up to n.                              *)
LEMMA MaxIs ==
  ASSUME NEW n \in Nat, NEW S \in SUBSET (0..n), S # {}
  PROVE  Max(S) \in S /\ \A x \in S : x <= Max(S)
<1>1. PICK T : T = {n - x : x \in S}
  OBVIOUS
<1>2. T \in SUBSET Nat /\ T # {}
  <2>1. \A x \in S : n - x \in Nat
    OBVIOUS
  <2>2. \A x \in S : n - x \in T
    BY <1>1
  <2>3. QED
    BY <1>1, <2>1, <2>2
<1>3. PICK m \in T : \A y \in T : m <= y
  BY <1>2, LeastExists
<1>4. PICK x \in S : m = n - x
  BY <1>1, <1>3
<1>5. \A y \in S : x >= y
  BY <1>1, <1>3, <1>4
<1>6. \E z \in S : \A y \in S : z >= y
  BY <1>5
<1>7. QED
  BY <1>6 DEF Max

LEMMA AppendIs ==
  ASSUME NEW h, IsHistory(h), NEW e
  PROVE  /\ Len(h) \in Nat /\ DOMAIN h = 1..Len(h)
         /\ IsHistory(Append(h, e)) /\ Len(Append(h, e)) = Len(h) + 1
         /\ DOMAIN Append(h, e) = 1..Len(h) + 1
         /\ \A i \in 1..Len(h) : Append(h, e)[i] = h[i]
         /\ Append(h, e)[Len(h) + 1] = e
<1>1. PICK S : S = Range(h) \cup {e}
  OBVIOUS
<1>2. h \in Seq(S) /\ e \in S
  BY <1>1, SeqMonotonic DEF IsHistory
<1>3. Append(h, e) \in Seq(S)
  BY <1>2
<1>4. IsHistory(Append(h, e))
  BY <1>3, SeqOfRange DEF IsHistory
<1>5. QED
  BY <1>2, <1>4

LEMMA Positions ==
  ASSUME IsHistory(log)
  PROVE  Len(log) \in Nat /\ DOMAIN log = 1..Len(log)
BY DEF IsHistory

(* Latest is the last event of its kind, or 0 when there is none.          *)
LEMMA LatestIs ==
  ASSUME IsHistory(log), NEW c, NEW op
  PROVE  /\ Latest(c, op) \in Nat
         /\ Latest(c, op) # 0 => /\ Latest(c, op) \in DOMAIN log
                                 /\ log[Latest(c, op)].op = op
                                 /\ log[Latest(c, op)].campaign = c
         /\ \A i \in DOMAIN log : log[i].op = op /\ log[i].campaign = c => i <= Latest(c, op)
<1>1. Len(log) \in Nat /\ DOMAIN log = 1..Len(log)
  BY Positions
<1>2. PICK S : S = {0} \cup {i \in Events(op) : log[i].campaign = c}
  OBVIOUS
<1>3. S \in SUBSET (0..Len(log)) /\ S # {}
  BY <1>1, <1>2 DEF Events
<1>4. Max(S) \in S /\ \A x \in S : x <= Max(S)
  BY <1>1, <1>3, MaxIs
<1>5. Latest(c, op) = Max(S)
  BY <1>2 DEF Latest
<1>6. QED
  BY <1>1, <1>2, <1>3, <1>4, <1>5 DEF Events

-----------------------------------------------------------------------------
(* What the store has checked of an event that it writes.                  *)
LegalReview(e) ==
  /\ e.op \in Reviews \cup {"delegate"} => e \notin Range(log)
  /\ e.op = "delegate" =>
       /\ e.action \in Reviews
       /\ Independent(e.case, e.action, e.by.person) /\ Independent(e.case, e.action, e.delegate)
  /\ e.op \in Reviews => Independent(e.case, e.op, e.by.person)
  /\ e.op = "revoke" => e.delegation \in Delegations
  /\ e.op = "assess" =>
       /\ State(e.campaign) = "completed"
       /\ e.verdict = "accept" =>
            Meets(log[Latest(e.campaign, "complete")].result, log[e.campaign].policy)
       /\ \A i \in Events("assess") : log[i].campaign = e.campaign => log[i].verdict = e.verdict
  /\ e.op = "approve" =>
       Assessment(e.campaign) # 0 /\ log[Assessment(e.campaign)].verdict = "accept"

LegalRun(e) ==
  /\ e.op = "start" =>
       LET i == PolicyApproval(e.campaign) IN
       /\ MayOperate(e.case, e.by.person) /\ StrongEnough(e.case, log[e.campaign].policy)
       /\ State(e.campaign) = "approved"
       /\ i # 0 /\ (log[i].delegation # 0 => ~Withdrawn(log[i].delegation))
  /\ e.op = "complete" =>
       /\ Len(log) > 0
       /\ log[Len(log)].op = "start" /\ log[Len(log)].campaign = e.campaign

Legal(e) ==
  /\ \/ e.op = "propose" /\ e.campaign = Len(log) + 1
     \/ e.op # "propose" /\ e.campaign \in Campaigns
  /\ LegalReview(e) /\ LegalRun(e)

(* An event of one kind need only be legal as that.                        *)
LEMMA ProposeLegal ==
  ASSUME NEW e, e.op = "propose", e.campaign = Len(log) + 1
  PROVE  Legal(e)
BY DEF Legal, LegalReview, LegalRun, Reviews

LEMMA DelegateWrites ==
  ASSUME NEW s, NEW by, NEW c \in Campaigns, NEW action \in Reviews, Delegate(s, by, c, action)
  PROVE  \E e : Legal(e) /\ log' = Append(log, e) /\ Remember(s, e)
<1>1. PICK delegate, seconds, e :
        /\ e = [op |-> "delegate", case |-> CaseOf(c), by |-> by, campaign |-> c,
                id |-> Len(log) + 1, action |-> action, delegate |-> delegate,
                until |-> time + seconds]
        /\ Independent(CaseOf(c), action, delegate)
        /\ Apply(s, e, {}, {e.until}) /\ Remember(s, e)
  BY DEF Delegate
<1>2. /\ Independent(CaseOf(c), action, by.person) /\ Independent(CaseOf(c), action, delegate)
      /\ log' = Append(log, e) /\ e \notin Range(log)
  BY <1>1 DEF Delegate, Apply
<1>3. /\ e.op = "delegate" /\ e.campaign = c /\ e.action = action /\ e.case = CaseOf(c)
      /\ e.by = by /\ e.delegate = delegate
  BY <1>1
<1>4. Legal(e)
  BY <1>2, <1>3 DEF Legal, LegalReview, LegalRun, Reviews
<1>5. QED
  BY <1>1, <1>2, <1>4

LEMMA WithdrawWrites ==
  ASSUME HistoryInv, NEW s, NEW by, NEW d \in Delegations, Withdraw(s, by, d)
  PROVE  \E e : Legal(e) /\ log' = Append(log, e)
<1>1. PICK e : e = [op |-> "revoke", case |-> log[d].case, campaign |-> log[d].campaign,
                    by |-> by, delegation |-> d]
  OBVIOUS
<1>2. log' = Append(log, e)
  BY <1>1 DEF Withdraw
<1>3. e.op = "revoke" /\ e.campaign = log[d].campaign /\ e.delegation = d
  BY <1>1
<1>4. e.campaign \in Campaigns
  BY <1>3, Positions DEF HistoryInv, CampaignsKnown, Delegations, Campaigns, Events
<1>5. Legal(e)
  BY <1>3, <1>4 DEF Legal, LegalReview, LegalRun, Reviews
<1>6. QED
  BY <1>2, <1>5

(* The three decisions share what Decide checks.                           *)
LEMMA DecideIs ==
  ASSUME NEW s, NEW by, NEW c, NEW op, NEW verdict, NEW assessment, NEW d, NEW contexts,
         NEW deadlines,
         Decide(s, by, c, op, verdict, assessment, d, contexts, deadlines)
  PROVE  \E e :
           /\ log' = Append(log, e) /\ e \notin Range(log) /\ Remember(s, e)
           /\ e.op = op /\ e.case = CaseOf(c) /\ e.by = by /\ e.campaign = c
           /\ e.verdict = verdict
           /\ Independent(CaseOf(c), op, by.person)
           /\ \A i \in Events(op) : log[i].campaign = c => log[i].verdict = verdict
<1>1. PICK e : e = [op |-> op, case |-> CaseOf(c), by |-> by, campaign |-> c, delegation |-> d,
                    verdict |-> verdict, assessment |-> assessment]
  OBVIOUS
<1>2. log' = Append(log, e) /\ e \notin Range(log) /\ Remember(s, e)
  BY <1>1 DEF Decide, Apply
<1>3. Independent(CaseOf(c), op, by.person) /\ Renews(c, op, verdict, d)
  BY DEF Decide
<1>4. QED
  BY <1>1, <1>2, <1>3 DEF Renews

LEMMA DecisionWrites ==
  ASSUME NEW s, NEW by, NEW c \in Campaigns, NEW d, Decision(s, by, c, d)
  PROVE  \E e : Legal(e) /\ log' = Append(log, e) /\ Remember(s, e)
<1>1. CASE ApprovePolicy(s, by, c, d)
  <2>1. Decide(s, by, c, "policy", "none", 0, d, {}, {})
    BY <1>1 DEF ApprovePolicy
  <2>2. PICK e : /\ log' = Append(log, e) /\ e \notin Range(log) /\ Remember(s, e)
                 /\ e.op = "policy" /\ e.case = CaseOf(c) /\ e.by = by /\ e.campaign = c
                 /\ Independent(CaseOf(c), "policy", by.person)
    BY <2>1, DecideIs
  <2>3. Legal(e)
    BY <2>2 DEF Legal, LegalReview, LegalRun, Reviews
  <2>4. QED
    BY <2>2, <2>3
<1>2. ASSUME NEW verdict \in {"accept", "reject"}, Assess(s, by, c, verdict, d)
      PROVE  \E e : Legal(e) /\ log' = Append(log, e) /\ Remember(s, e)
  <2>1. PICK contexts, deadlines :
          Decide(s, by, c, "assess", verdict, 0, d, contexts, deadlines)
    BY <1>2 DEF Assess
  <2>2. PICK e :
          /\ log' = Append(log, e) /\ e \notin Range(log) /\ Remember(s, e)
          /\ e.op = "assess" /\ e.case = CaseOf(c) /\ e.by = by /\ e.campaign = c
          /\ e.verdict = verdict
          /\ Independent(CaseOf(c), "assess", by.person)
          /\ \A i \in Events("assess") : log[i].campaign = c => log[i].verdict = verdict
    BY <2>1, DecideIs
  <2>3. /\ State(c) = "completed"
        /\ verdict = "accept" => Meets(log[Latest(c, "complete")].result, log[c].policy)
    BY <1>2 DEF Assess
  <2>4. Legal(e)
    BY <2>2, <2>3 DEF Legal, LegalReview, LegalRun, Reviews
  <2>5. QED
    BY <2>2, <2>4
<1>3. CASE Approve(s, by, c, d)
  <2>1. PICK contexts, deadlines, assessment :
          Decide(s, by, c, "approve", "none", assessment, d, contexts, deadlines)
    BY <1>3 DEF Approve
  <2>2. PICK e : /\ log' = Append(log, e) /\ e \notin Range(log) /\ Remember(s, e)
                 /\ e.op = "approve" /\ e.case = CaseOf(c) /\ e.by = by /\ e.campaign = c
                 /\ Independent(CaseOf(c), "approve", by.person)
    BY <2>1, DecideIs
  <2>3. Assessment(c) # 0 /\ log[Assessment(c)].verdict = "accept"
    BY <1>3 DEF Approve, Usable
  <2>4. Legal(e)
    BY <2>2, <2>3 DEF Legal, LegalReview, LegalRun, Reviews
  <2>5. QED
    BY <2>2, <2>4
<1>4. QED
  BY <1>1, <1>2, <1>3 DEF Decision

LEMMA StartWrites ==
  ASSUME NEW s, NEW by, NEW c \in Campaigns, Start(s, by, c)
  PROVE  \E e :
           /\ Legal(e) /\ log' = Append(log, e) /\ e.op = "start"
           /\ memory' = [memory EXCEPT ![s].operators = @ \cup {<<CaseOf(c), by.person>>},
                                       ![s].run = <<e>>]
<1>1. PICK e : e = [op |-> "start", case |-> CaseOf(c), by |-> by, campaign |-> c]
  OBVIOUS
<1>2. e.op = "start" /\ e.case = CaseOf(c) /\ e.by = by /\ e.campaign = c
  BY <1>1
<1>3. /\ log' = Append(log, e)
      /\ memory' = [memory EXCEPT ![s].operators = @ \cup {<<CaseOf(c), by.person>>},
                                  ![s].run = <<e>>]
  BY <1>1 DEF Start, Apply
<1>4. /\ MayOperate(CaseOf(c), by.person) /\ StrongEnough(CaseOf(c), log[c].policy)
      /\ State(c) = "approved" /\ Usable(s, PolicyApproval(c), time)
  BY DEF Start
<1>5. LegalRun(e)
  BY <1>2, <1>4 DEF LegalRun, Usable, Covers
<1>6. Legal(e)
  BY <1>2, <1>5 DEF Legal, LegalReview, Reviews
<1>7. QED
  BY <1>2, <1>3, <1>6

LEMMA CompleteWrites ==
  ASSUME HistoryInv, NEW s \in Services, NEW result, NEW seconds,
         Complete(s, result, seconds)
  PROVE  \E e, x :
           /\ Legal(e) /\ log' = Append(log, e)
           /\ e.op = "complete" /\ x.campaign = e.campaign
           /\ memory' = [memory EXCEPT ![s].run = << >>, ![s].wrote = @ \cup {Len(log) + 1},
                                       ![s].evidence = @ \cup {x}]
<1>1. PICK start : start = memory[s].run[1]
  OBVIOUS
<1>2. PICK e : e = [op |-> "complete", case |-> start.case, by |-> start.by,
                    campaign |-> start.campaign, result |-> result]
  OBVIOUS
<1>3. log' = Append(log, e) /\ memory[s].run # << >> /\ Last(log) = start
  BY <1>1, <1>2 DEF Complete, Apply, LockFree
<1>4. PICK i \in DOMAIN log : memory[s].run = <<log[i]>> /\ log[i].op = "start"
  BY <1>3 DEF HistoryInv, RunsStarted
<1>5. Len(log) > 0 /\ log[Len(log)].op = "start" /\ log[Len(log)] = start
  BY <1>1, <1>3, <1>4, Positions DEF HistoryInv, Last
<1>6. e.op = "complete" /\ e.campaign = start.campaign
  BY <1>2
<1>7. e.campaign \in Campaigns
  BY <1>5, <1>6, Positions DEF HistoryInv, CampaignsKnown, Campaigns, Events
<1>8. Legal(e)
  BY <1>5, <1>6, <1>7 DEF Legal, LegalReview, LegalRun, Reviews
<1>9. PICK policy : policy = PolicyApproval(start.campaign)
  OBVIOUS
<1>10. PICK x :
         x = [campaign |-> start.campaign, contexts |-> {Context(start)} \cup Behind(policy),
              deadlines |-> Deadlines(log[policy].delegation) \cup {time + seconds}]
  OBVIOUS
<1>11. /\ memory' = [memory EXCEPT ![s].run = << >>, ![s].wrote = @ \cup {Len(log) + 1},
                                   ![s].evidence = @ \cup {x}]
       /\ x.campaign = e.campaign
  BY <1>1, <1>6, <1>9, <1>10 DEF Complete
<1>12. QED
  BY <1>3, <1>6, <1>8, <1>11

LEMMA FailWrites ==
  ASSUME HistoryInv, NEW s \in Services, Fail(s)
  PROVE  \E e : Legal(e) /\ log' = Append(log, e)
<1>1. PICK start : start = memory[s].run[1]
  OBVIOUS
<1>2. PICK e : e = [op |-> "fail", case |-> start.case, by |-> start.by,
                    campaign |-> start.campaign]
  OBVIOUS
<1>3. log' = Append(log, e) /\ memory[s].run # << >>
  BY <1>1, <1>2 DEF Fail, LockFree
<1>4. PICK i \in DOMAIN log : memory[s].run = <<log[i]>> /\ log[i].op = "start"
  BY <1>3 DEF HistoryInv, RunsStarted
<1>5. e.op = "fail" /\ e.campaign = log[i].campaign
  BY <1>1, <1>2, <1>4
<1>6. e.campaign \in Campaigns
  BY <1>5, Positions DEF HistoryInv, CampaignsKnown, Campaigns, Events
<1>7. Legal(e)
  BY <1>5, <1>6 DEF Legal, LegalReview, LegalRun, Reviews
<1>8. QED
  BY <1>3, <1>7

-----------------------------------------------------------------------------
(* What a service remembers.                                               *)
SameWork(m, n) == n.wrote = m.wrote /\ n.proofs = m.proofs /\ n.evidence = m.evidence
NoWork(n) == n.wrote = {} /\ n.proofs = {} /\ n.evidence = {}

(* A review, or the completion of a run, that is written now.              *)
MoreWork(m, n) ==
  \E e :
    /\ log' = Append(log, e) /\ n.wrote = m.wrote \cup {Len(log) + 1}
    /\ \/ n.proofs = m.proofs \cup {e} /\ n.evidence = m.evidence
       \/ \E x : /\ n.proofs = m.proofs /\ n.evidence = m.evidence \cup {x}
                 /\ e.op = "complete" /\ x.campaign = e.campaign

LEMMA Overwrite ==
  ASSUME NEW m, Shaped(m), NEW x, NEW n
  PROVE  /\ n = [m EXCEPT !.proofs = x] =>
              /\ Shaped(n) /\ n.run = m.run
              /\ n.proofs = x /\ n.wrote = m.wrote /\ n.evidence = m.evidence
         /\ n = [m EXCEPT !.wrote = x] =>
              /\ Shaped(n) /\ n.run = m.run
              /\ n.proofs = m.proofs /\ n.wrote = x /\ n.evidence = m.evidence
         /\ n = [m EXCEPT !.evidence = x] =>
              /\ Shaped(n) /\ n.run = m.run
              /\ n.proofs = m.proofs /\ n.wrote = m.wrote /\ n.evidence = x
         /\ n = [m EXCEPT !.operators = x] => Shaped(n) /\ n.run = m.run /\ SameWork(m, n)
         /\ n = [m EXCEPT !.denied = x] => Shaped(n) /\ n.run = m.run /\ SameWork(m, n)
         /\ n = [m EXCEPT !.run = x] => Shaped(n) /\ n.run = x /\ SameWork(m, n)
BY DEF Shaped, SameWork

(* A step that gives one service a new memory m.                           *)
LEMMA MemoryOverwrite ==
  ASSUME MemoryShape, NEW s \in Services, NEW m, Shaped(m), memory' = [memory EXCEPT ![s] = m]
  PROVE  MemoryShape' /\ \A t \in Services : memory'[t] = IF t = s THEN m ELSE memory[t]
BY DEF MemoryShape

(* What a step may do: write one legal event or none; what a service runs  *)
(* is what it ran before, or a start that was just written; and what it    *)
(* wrote is as before, is forgotten, or has grown by that event.           *)
WritesLegally == UNCHANGED log \/ \E e : Legal(e) /\ log' = Append(log, e)

RunKept(m, n) ==
  \/ n.run = m.run \/ n.run = << >>
  \/ \E e : n.run = <<e>> /\ e.op = "start" /\ log' = Append(log, e)

WorkKept(m, n) == SameWork(m, n) \/ NoWork(n) \/ MoreWork(m, n)

MemoriesKept ==
  \A s \in Services : RunKept(memory[s], memory'[s]) /\ WorkKept(memory[s], memory'[s])

StepOK == WritesLegally /\ MemoryShape' /\ MemoriesKept

LEMMA Untouched ==
  ASSUME MemoryShape, UNCHANGED memory
  PROVE  MemoryShape' /\ MemoriesKept
BY DEF MemoryShape, Shaped, MemoriesKept, RunKept, WorkKept, SameWork

LEMMA OneTouched ==
  ASSUME MemoryShape, NEW s \in Services, NEW m, Shaped(m),
         RunKept(memory[s], m), WorkKept(memory[s], m), memory' = [memory EXCEPT ![s] = m]
  PROVE  MemoryShape' /\ MemoriesKept
<1>1. MemoryShape' /\ \A t \in Services : memory'[t] = IF t = s THEN m ELSE memory[t]
  BY MemoryOverwrite
<1>2. ASSUME NEW t \in Services
      PROVE  RunKept(memory[t], memory'[t]) /\ WorkKept(memory[t], memory'[t])
  <2>1. CASE t = s
    BY <1>1, <2>1
  <2>2. CASE t # s
    BY <1>1, <2>2 DEF RunKept, WorkKept, SameWork
  <2>3. QED
    BY <2>1, <2>2
<1>3. QED
  BY <1>1, <1>2 DEF MemoriesKept

(* A service that remembers the event it writes.                           *)
LEMMA Remembered ==
  ASSUME MemoryShape, NEW s \in Services, NEW e, log' = Append(log, e), Remember(s, e)
  PROVE  MemoryShape' /\ MemoriesKept
<1>1. PICK x, y : x = memory[s].proofs \cup {e} /\ y = memory[s].wrote \cup {Len(log) + 1}
  OBVIOUS
<1>2. PICK n : n = [memory[s] EXCEPT !.proofs = x]
  OBVIOUS
<1>3. PICK m : m = [n EXCEPT !.wrote = y]
  OBVIOUS
<1>4. Shaped(memory[s])
  BY DEF MemoryShape
<1>5. /\ Shaped(n) /\ n.run = memory[s].run
      /\ n.proofs = x /\ n.wrote = memory[s].wrote /\ n.evidence = memory[s].evidence
  BY <1>2, <1>4 DEF Shaped
<1>6. Shaped(m) /\ m.run = n.run /\ m.wrote = y /\ m.proofs = n.proofs /\ m.evidence = n.evidence
  <2>1. m = [proofs |-> n.proofs, evidence |-> n.evidence, operators |-> n.operators,
             denied |-> n.denied, run |-> n.run, wrote |-> y]
    BY <1>3, <1>5 DEF Shaped
  <2>2. QED
    BY <2>1 DEF Shaped
<1>7. memory' = [memory EXCEPT ![s] = m]
  <2>1. memory' = [memory EXCEPT ![s].proofs = @ \cup {e}, ![s].wrote = @ \cup {Len(log) + 1}]
    BY DEF Remember
  <2>2. QED
    BY <1>1, <1>2, <1>3, <1>5, <2>1 DEF MemoryShape
<1>8. RunKept(memory[s], m) /\ WorkKept(memory[s], m)
  BY <1>1, <1>5, <1>6 DEF RunKept, WorkKept, MoreWork
<1>9. QED
  BY <1>6, <1>7, <1>8, OneTouched

LEMMA CallSteps ==
  ASSUME HistoryInv, NEW s \in Services, NEW by, Call(s, by)
  PROVE  StepOK
<1>0. MemoryShape
  BY DEF HistoryInv
<1>a. (\E e : Legal(e) /\ log' = Append(log, e) /\ Remember(s, e)) => StepOK
  BY <1>0, Remembered DEF StepOK, WritesLegally
<1>1. ASSUME NEW case \in Cases, NEW policy \in Policies, Propose(s, by, case, policy)
      PROVE  StepOK
  <2>1. PICK e : e = [op |-> "propose", case |-> case, by |-> by, campaign |-> Len(log) + 1,
                      policy |-> policy]
    OBVIOUS
  <2>2. log' = Append(log, e) /\ UNCHANGED memory
    BY <1>1, <2>1 DEF Propose, Apply
  <2>3. e.op = "propose" /\ e.campaign = Len(log) + 1
    BY <2>1
  <2>4. Legal(e)
    BY <2>3, ProposeLegal
  <2>5. QED
    BY <1>0, <2>2, <2>4, Untouched DEF StepOK, WritesLegally
<1>2. ASSUME NEW c \in Campaigns, NEW action \in Reviews, Delegate(s, by, c, action)
      PROVE  StepOK
  BY <1>a, <1>2, DelegateWrites
<1>3. ASSUME NEW c \in Campaigns, NEW d \in Delegations \cup {0}, Decision(s, by, c, d)
      PROVE  StepOK
  BY <1>a, <1>3, DecisionWrites
<1>4. ASSUME NEW c \in Campaigns, Start(s, by, c)
      PROVE  StepOK
  <2>1. PICK e :
          /\ Legal(e) /\ log' = Append(log, e) /\ e.op = "start"
          /\ memory' = [memory EXCEPT ![s].operators = @ \cup {<<CaseOf(c), by.person>>},
                                      ![s].run = <<e>>]
    BY <1>4, StartWrites
  <2>2. PICK n : n = [memory[s] EXCEPT !.operators = @ \cup {<<CaseOf(c), by.person>>}]
    OBVIOUS
  <2>3. PICK m : m = [n EXCEPT !.run = <<e>>]
    OBVIOUS
  <2>4. Shaped(n) /\ SameWork(memory[s], n)
    BY <1>0, <2>2, Overwrite DEF MemoryShape
  <2>5. Shaped(m) /\ m.run = <<e>> /\ SameWork(n, m)
    BY <2>3, <2>4, Overwrite
  <2>6. memory' = [memory EXCEPT ![s] = m]
    BY <1>0, <2>1, <2>2, <2>3 DEF MemoryShape
  <2>7. RunKept(memory[s], m) /\ WorkKept(memory[s], m)
    BY <2>1, <2>4, <2>5 DEF RunKept, WorkKept, SameWork
  <2>8. QED
    BY <1>0, <2>1, <2>5, <2>6, <2>7, OneTouched DEF StepOK, WritesLegally
<1>5. ASSUME NEW d \in Delegations, Withdraw(s, by, d)
      PROVE  StepOK
  <2>1. UNCHANGED memory
    BY <1>5 DEF Withdraw
  <2>2. WritesLegally
    BY <1>5, WithdrawWrites DEF WritesLegally
  <2>3. QED
    BY <1>0, <2>1, <2>2, Untouched DEF StepOK
<1>6. QED
  BY <1>1, <1>2, <1>3, <1>4, <1>5 DEF Call

LEMMA CompleteSteps ==
  ASSUME HistoryInv, NEW s \in Services, NEW result, NEW seconds, Complete(s, result, seconds)
  PROVE  StepOK
<1>0. MemoryShape /\ Shaped(memory[s])
  BY DEF HistoryInv, MemoryShape
<1>1. PICK e, x :
        /\ Legal(e) /\ log' = Append(log, e) /\ e.op = "complete" /\ x.campaign = e.campaign
        /\ memory' = [memory EXCEPT ![s].run = << >>, ![s].wrote = @ \cup {Len(log) + 1},
                                    ![s].evidence = @ \cup {x}]
  BY CompleteWrites
<1>2. PICK y, z : y = memory[s].wrote \cup {Len(log) + 1} /\ z = memory[s].evidence \cup {x}
  OBVIOUS
<1>3. PICK k : k = [memory[s] EXCEPT !.run = << >>]
  OBVIOUS
<1>4. PICK n : n = [k EXCEPT !.wrote = y]
  OBVIOUS
<1>5. PICK m : m = [n EXCEPT !.evidence = z]
  OBVIOUS
<1>6. Shaped(k) /\ k.run = << >> /\ SameWork(memory[s], k)
  BY <1>0, <1>3, Overwrite
<1>7. Shaped(n) /\ n.run = << >> /\ n.wrote = y /\ n.proofs = k.proofs /\ n.evidence = k.evidence
  BY <1>4, <1>6 DEF Shaped
<1>8. Shaped(m) /\ m.run = << >> /\ m.wrote = y /\ m.proofs = n.proofs /\ m.evidence = z
  BY <1>5, <1>7, Overwrite
<1>9. memory' = [memory EXCEPT ![s] = m]
  BY <1>0, <1>1, <1>2, <1>3, <1>4, <1>5 DEF MemoryShape, Shaped
<1>10. RunKept(memory[s], m) /\ WorkKept(memory[s], m)
  BY <1>1, <1>2, <1>6, <1>7, <1>8 DEF RunKept, WorkKept, MoreWork, SameWork
<1>11. QED
  BY <1>0, <1>1, <1>8, <1>9, <1>10, OneTouched DEF StepOK, WritesLegally

LEMMA StepCases ==
  ASSUME HistoryInv, [Next]_vars
  PROVE  StepOK
<1>0. MemoryShape /\ \A s \in Services : Shaped(memory[s])
  BY DEF HistoryInv, MemoryShape
<1>1. CASE UNCHANGED vars
  BY <1>0, <1>1, Untouched DEF vars, StepOK, WritesLegally
<1>a. ASSUME NEW s \in Services, NEW m, Shaped(m), m.run \in {memory[s].run, << >>},
             SameWork(memory[s], m) \/ NoWork(m), memory' = [memory EXCEPT ![s] = m]
      PROVE  MemoryShape' /\ MemoriesKept
  <2>1. RunKept(memory[s], m) /\ WorkKept(memory[s], m)
    BY <1>a DEF RunKept, WorkKept
  <2>2. QED
    BY <1>0, <1>a, <2>1, OneTouched
<1>2. ASSUME NEW s \in Services, NEW by, Call(s, by)
      PROVE  StepOK
  BY <1>2, CallSteps
<1>3. ASSUME NEW s \in Services, NEW result, NEW seconds, Complete(s, result, seconds)
      PROVE  StepOK
  BY <1>3, CompleteSteps
<1>4. ASSUME NEW s \in Services, Fail(s) \/ GiveUp(s)
      PROVE  StepOK
  <2>1. WritesLegally
    BY <1>4, FailWrites DEF WritesLegally, GiveUp
  <2>2. memory' = [memory EXCEPT ![s].run = << >>]
    BY <1>4 DEF Fail, GiveUp
  <2>3. PICK m : m = [memory[s] EXCEPT !.run = << >>]
    OBVIOUS
  <2>4. Shaped(m) /\ m.run = << >> /\ SameWork(memory[s], m)
    BY <1>0, <2>3, Overwrite
  <2>5. memory' = [memory EXCEPT ![s] = m]
    BY <2>2, <2>3
  <2>6. QED
    BY <1>a, <2>1, <2>4, <2>5 DEF StepOK
<1>5. ASSUME NEW s \in Services, Crash(s)
      PROVE  StepOK
  <2>1. PICK m : m = [proofs |-> {}, evidence |-> {}, operators |-> {},
                      denied |-> memory[s].denied, run |-> << >>, wrote |-> {}]
    OBVIOUS
  <2>2. Shaped(m) /\ m.run = << >> /\ NoWork(m)
    BY <2>1 DEF Shaped, NoWork
  <2>3. memory' = [memory EXCEPT ![s] = m] /\ UNCHANGED log
    BY <1>5, <2>1 DEF Crash
  <2>4. QED
    BY <1>a, <2>2, <2>3 DEF StepOK, WritesLegally
<1>6. ASSUME NEW s \in Services, NEW person, Deny(s, person)
      PROVE  StepOK
  <2>1. PICK m : m = [memory[s] EXCEPT !.denied = @ \cup {person}]
    OBVIOUS
  <2>2. Shaped(m) /\ m.run = memory[s].run /\ SameWork(memory[s], m)
    BY <1>0, <2>1, Overwrite
  <2>3. memory' = [memory EXCEPT ![s] = m] /\ UNCHANGED log
    BY <1>6, <2>1 DEF Deny
  <2>4. QED
    BY <1>a, <2>2, <2>3 DEF StepOK, WritesLegally
<1>7. ASSUME NEW s \in Services, NEW person, NEW case, AskToStart(s, person, case)
      PROVE  StepOK
  <2>1. PICK m : m = [memory[s] EXCEPT !.operators = @ \cup {<<case, person>>}]
    OBVIOUS
  <2>2. Shaped(m) /\ m.run = memory[s].run /\ SameWork(memory[s], m)
    BY <1>0, <2>1, Overwrite
  <2>3. memory' = [memory EXCEPT ![s] = m] /\ UNCHANGED log
    BY <1>7, <2>1 DEF AskToStart
  <2>4. QED
    BY <1>a, <2>2, <2>3 DEF StepOK, WritesLegally
<1>8. Tick => StepOK
  BY <1>0, Untouched DEF Tick, StepOK, WritesLegally
<1>9. QED
  BY <1>1, <1>2, <1>3, <1>4, <1>5, <1>6, <1>7, <1>8 DEF Next

-----------------------------------------------------------------------------
(* The history after one more event.                                       *)
Grown(e) ==
  /\ Len(log) \in Nat /\ DOMAIN log = 1..Len(log)
  /\ DOMAIN log' = 1..Len(log) + 1
  /\ \A i \in 1..Len(log) : log'[i] = log[i]
  /\ log'[Len(log) + 1] = e

LEMMA AppendGrows ==
  ASSUME IsHistory(log), NEW e, log' = Append(log, e)
  PROVE  Grown(e) /\ IsHistory(log)'
<1>1. /\ Len(log) \in Nat /\ DOMAIN log = 1..Len(log)
      /\ IsHistory(Append(log, e)) /\ DOMAIN Append(log, e) = 1..Len(log) + 1
      /\ \A i \in 1..Len(log) : Append(log, e)[i] = log[i]
      /\ Append(log, e)[Len(log) + 1] = e
  BY AppendIs
<1>2. IsHistory(log)'
  BY <1>1 DEF IsHistory
<1>3. QED
  BY <1>1, <1>2 DEF Grown

LEMMA CampaignsStep ==
  ASSUME CampaignsKnown, WithdrawalsKnown, NEW e, Grown(e), Legal(e)
  PROVE  CampaignsKnown' /\ WithdrawalsKnown'
<1>1. CampaignsKnown'
  <2>1. ASSUME NEW i \in 1..Len(log)
        PROVE  log'[i].campaign \in 1..i /\ log'[log'[i].campaign].op = "propose"
    <3>1. log[i].campaign \in 1..i /\ log[log[i].campaign].op = "propose"
      BY DEF CampaignsKnown, Grown
    <3>2. log[i].campaign \in 1..Len(log)
      BY <3>1 DEF Grown
    <3>3. QED
      BY <3>1, <3>2 DEF Grown
  <2>2. e.campaign \in 1..Len(log) + 1 /\ log'[e.campaign].op = "propose"
    BY DEF Legal, Campaigns, Events, Grown
  <2>3. QED
    BY <2>1, <2>2 DEF CampaignsKnown, Grown
<1>2. WithdrawalsKnown'
  BY DEF WithdrawalsKnown, Grown, Legal, LegalReview, Delegations, Events
<1>3. QED
  BY <1>1, <1>2

(* What the state of a campaign says of its events.                        *)
LEMMA StateIs ==
  ASSUME IsHistory(log), NEW c
  PROVE  /\ State(c) = "approved" => \A i \in DOMAIN log : log[i].campaign = c =>
              log[i].op \notin {"start", "complete", "fail"}
         /\ State(c) = "completed" => Latest(c, "complete") # 0
<1>1. State(c) = "approved" =>
        Latest(c, "fail") = 0 /\ Latest(c, "complete") = 0 /\ Latest(c, "start") = 0
  BY DEF State
<1>2. State(c) = "completed" => Latest(c, "complete") # 0
  BY DEF State
<1>3. ASSUME NEW op, Latest(c, op) = 0, NEW i \in DOMAIN log, log[i].campaign = c
      PROVE  log[i].op # op
  BY <1>3, LatestIs, Positions
<1>4. QED
  BY <1>1, <1>2, <1>3

LEMMA StartsStep ==
  ASSUME IsHistory(log), WithdrawalsKnown, StartsApproved, NEW e, Grown(e), Legal(e)
  PROVE  StartsApproved'
<1>1. ASSUME NEW j \in 1..Len(log), log[j].op = "start"
      PROVE  /\ \E i \in 1..j - 1 :
                  /\ log'[i].op = "policy" /\ log'[i].campaign = log'[j].campaign
                  /\ \A m \in 1..j - 1 :
                       log'[m].op = "revoke" => log'[m].delegation # log'[i].delegation
             /\ \A m \in 1..j - 1 : log'[m].campaign = log'[j].campaign => log'[m].op # "start"
  <2>1. /\ \E i \in 1..j - 1 :
             /\ log[i].op = "policy" /\ log[i].campaign = log[j].campaign
             /\ \A m \in 1..j - 1 : log[m].op = "revoke" => log[m].delegation # log[i].delegation
        /\ \A m \in 1..j - 1 : log[m].campaign = log[j].campaign => log[m].op # "start"
    BY <1>1 DEF StartsApproved, NotWithdrawnBefore, Grown
  <2>2. \A m \in 1..j - 1 : log'[m] = log[m]
    BY DEF Grown
  <2>3. log'[j] = log[j]
    BY DEF Grown
  <2>4. QED
    BY <2>1, <2>2, <2>3
<1>2. ASSUME e.op = "start"
      PROVE  /\ \E i \in 1..Len(log) :
                  /\ log[i].op = "policy" /\ log[i].campaign = e.campaign
                  /\ \A m \in 1..Len(log) :
                       log[m].op = "revoke" => log[m].delegation # log[i].delegation
             /\ \A m \in 1..Len(log) : log[m].campaign = e.campaign => log[m].op # "start"
  <2>1. PICK i : i = PolicyApproval(e.campaign)
    OBVIOUS
  <2>2. /\ State(e.campaign) = "approved"
        /\ i # 0 /\ (log[i].delegation # 0 => ~Withdrawn(log[i].delegation))
    BY <1>2, <2>1 DEF Legal, LegalRun
  <2>3. i \in 1..Len(log) /\ log[i].op = "policy" /\ log[i].campaign = e.campaign
    BY <2>1, <2>2, LatestIs DEF PolicyApproval, Grown
  <2>4. ASSUME NEW m \in 1..Len(log), log[m].op = "revoke"
        PROVE  log[m].delegation # log[i].delegation
    <3>1. log[m].delegation # 0
      BY <2>4 DEF WithdrawalsKnown, Grown
    <3>2. QED
      BY <2>2, <2>4, <3>1 DEF Withdrawn, Events, Grown
  <2>5. \A m \in 1..Len(log) : log[m].campaign = e.campaign => log[m].op # "start"
    BY <2>2, StateIs DEF Grown
  <2>6. QED
    BY <2>3, <2>4, <2>5
<1>3. ASSUME NEW j \in 1..Len(log) + 1, log'[j].op = "start"
      PROVE  /\ \E i \in 1..j - 1 :
                  /\ log'[i].op = "policy" /\ log'[i].campaign = log'[j].campaign
                  /\ \A m \in 1..j - 1 :
                       log'[m].op = "revoke" => log'[m].delegation # log'[i].delegation
             /\ \A m \in 1..j - 1 : log'[m].campaign = log'[j].campaign => log'[m].op # "start"
  <2>1. CASE j \in 1..Len(log)
    BY <1>1, <1>3, <2>1 DEF Grown
  <2>2. CASE j = Len(log) + 1
    <3>1. log'[j] = e /\ j - 1 = Len(log)
      BY <2>2 DEF Grown
    <3>2. \A m \in 1..Len(log) : log'[m] = log[m]
      BY DEF Grown
    <3>3. QED
      BY <1>2, <1>3, <3>1, <3>2
  <2>3. QED
    BY <2>1, <2>2 DEF Grown
<1>4. QED
  BY <1>3 DEF StartsApproved, NotWithdrawnBefore, Grown

LEMMA CompletesStep ==
  ASSUME CompletesItsStart, NEW e, Grown(e), Legal(e)
  PROVE  CompletesItsStart'
<1>1. ASSUME NEW k \in 1..Len(log), log[k].op = "complete"
      PROVE  k > 1 /\ log'[k - 1].op = "start" /\ log'[k - 1].campaign = log'[k].campaign
  <2>1. k > 1 /\ log[k - 1].op = "start" /\ log[k - 1].campaign = log[k].campaign
    BY <1>1 DEF CompletesItsStart, Grown
  <2>2. log'[k - 1] = log[k - 1] /\ log'[k] = log[k]
    BY <2>1 DEF Grown
  <2>3. QED
    BY <2>1, <2>2
<1>2. ASSUME e.op = "complete"
      PROVE  Len(log) > 0 /\ log'[Len(log)].op = "start" /\ log'[Len(log)].campaign = e.campaign
  BY <1>2 DEF Legal, LegalRun, Grown
<1>3. QED
  BY <1>1, <1>2 DEF CompletesItsStart, Grown

LEMMA AssessmentsStep ==
  ASSUME IsHistory(log), CampaignsKnown, AssessesCompletion, OneVerdict, ApprovesAccepted,
         NEW e, Grown(e), Legal(e)
  PROVE  AssessesCompletion' /\ OneVerdict' /\ ApprovesAccepted'
<1>1. AssessesCompletion'
  <2>1. ASSUME NEW i \in 1..Len(log), log[i].op = "assess"
        PROVE  \E k \in 1..i - 1 :
                 /\ log'[k].op = "complete" /\ log'[k].campaign = log'[i].campaign
                 /\ log'[i].verdict = "accept" =>
                      Meets(log'[k].result, log'[log'[i].campaign].policy)
    <3>1. PICK k \in 1..i - 1 :
            /\ log[k].op = "complete" /\ log[k].campaign = log[i].campaign
            /\ log[i].verdict = "accept" => Meets(log[k].result, log[log[i].campaign].policy)
      BY <2>1 DEF AssessesCompletion, Grown
    <3>2. log[i].campaign \in 1..Len(log)
      BY DEF CampaignsKnown, Grown
    <3>3. log'[k] = log[k] /\ log'[i] = log[i] /\ log'[log[i].campaign] = log[log[i].campaign]
      BY <3>2 DEF Grown
    <3>4. QED
      BY <3>1, <3>3
  <2>2. ASSUME e.op = "assess"
        PROVE  \E k \in 1..Len(log) :
                 /\ log'[k].op = "complete" /\ log'[k].campaign = e.campaign
                 /\ e.verdict = "accept" => Meets(log'[k].result, log'[e.campaign].policy)
    <3>1. PICK k : k = Latest(e.campaign, "complete")
      OBVIOUS
    <3>2. /\ State(e.campaign) = "completed" /\ e.campaign \in Campaigns
          /\ e.verdict = "accept" => Meets(log[k].result, log[e.campaign].policy)
      BY <2>2, <3>1 DEF Legal, LegalReview
    <3>3. k \in 1..Len(log) /\ log[k].op = "complete" /\ log[k].campaign = e.campaign
      BY <3>1, <3>2, StateIs, LatestIs DEF Grown
    <3>4. log'[k] = log[k] /\ log'[e.campaign] = log[e.campaign]
      BY <3>2, <3>3 DEF Grown, Campaigns, Events
    <3>5. QED
      BY <3>2, <3>3, <3>4
  <2>3. QED
    BY <2>1, <2>2 DEF AssessesCompletion, Grown
<1>2. OneVerdict'
  <2>1. e.op = "assess" =>
          \A i \in 1..Len(log) : log[i].op = "assess" /\ log[i].campaign = e.campaign
            => log[i].verdict = e.verdict
    BY DEF Legal, LegalReview, Events, Grown
  <2>2. QED
    BY <2>1 DEF OneVerdict, Grown
<1>3. ApprovesAccepted'
  <2>1. ASSUME NEW i \in 1..Len(log), log[i].op = "approve"
        PROVE  \E j \in 1..i - 1 : /\ log'[j].op = "assess" /\ log'[j].campaign = log'[i].campaign
                                   /\ log'[j].verdict = "accept"
    BY <2>1 DEF ApprovesAccepted, Grown
  <2>2. ASSUME e.op = "approve"
        PROVE  \E j \in 1..Len(log) : /\ log'[j].op = "assess" /\ log'[j].campaign = e.campaign
                                      /\ log'[j].verdict = "accept"
    <3>1. PICK j : j = Assessment(e.campaign)
      OBVIOUS
    <3>2. j # 0 /\ log[j].verdict = "accept"
      BY <2>2, <3>1 DEF Legal, LegalReview
    <3>3. j \in 1..Len(log) /\ log[j].op = "assess" /\ log[j].campaign = e.campaign
      BY <3>1, <3>2, LatestIs DEF Assessment, Grown
    <3>4. QED
      BY <3>2, <3>3 DEF Grown
  <2>3. QED
    BY <2>1, <2>2 DEF ApprovesAccepted, Grown
<1>4. QED
  BY <1>1, <1>2, <1>3

LEMMA RunsStep ==
  ASSUME IsHistory(log), RunsStarted, MemoriesKept, NEW e, Grown(e), log' = Append(log, e)
  PROVE  RunsStarted'
<1>1. ASSUME NEW s \in Services, memory'[s].run # << >>
      PROVE  \E i \in 1..Len(log) + 1 : memory'[s].run = <<log'[i]>> /\ log'[i].op = "start"
  <2>1. CASE memory'[s].run = memory[s].run
    <3>1. PICK i \in 1..Len(log) : memory[s].run = <<log[i]>> /\ log[i].op = "start"
      BY <1>1, <2>1 DEF RunsStarted, Grown
    <3>2. QED
      BY <2>1, <3>1 DEF Grown
  <2>2. ASSUME NEW f, memory'[s].run = <<f>>, f.op = "start", log' = Append(log, f)
        PROVE  \E i \in 1..Len(log) + 1 : memory'[s].run = <<log'[i]>> /\ log'[i].op = "start"
    <3>1. Grown(f)
      BY <2>2, AppendGrows
    <3>2. QED
      BY <2>2, <3>1 DEF Grown
  <2>3. QED
    BY <1>1, <2>1, <2>2 DEF MemoriesKept, RunKept
<1>2. QED
  BY <1>1 DEF RunsStarted, Grown

LEMMA NoneTwiceStep ==
  ASSUME NoneTwice, NEW e, Grown(e), Legal(e)
  PROVE  NoneTwice'
<1>1. e.op \in Reviews \cup {"delegate"} => \A i \in 1..Len(log) : log[i] # e
  BY DEF Legal, LegalReview, Range, Grown
<1>2. ASSUME NEW i \in 1..Len(log) + 1, NEW j \in 1..Len(log) + 1,
             log'[i].op \in Reviews \cup {"delegate"}, log'[i] = log'[j]
      PROVE  i = j
  <2>1. CASE i \in 1..Len(log) /\ j \in 1..Len(log)
    BY <1>2, <2>1 DEF NoneTwice, Grown
  <2>2. CASE i = Len(log) + 1 \/ j = Len(log) + 1
    BY <1>1, <1>2, <2>2 DEF Grown
  <2>3. QED
    BY <2>1, <2>2 DEF Grown
<1>3. QED
  BY <1>2 DEF NoneTwice, Grown

LEMMA OwnWorkStep ==
  ASSUME IsHistory(log), RemembersOwnWork, MemoriesKept, NEW e, Grown(e), log' = Append(log, e)
  PROVE  RemembersOwnWork'
<1>1. ASSUME NEW s \in Services PROVE OwnWork(memory[s])'
  <2>1. PICK m, n : m = memory[s] /\ n = memory'[s]
    OBVIOUS
  <2>2. /\ m.wrote \subseteq 1..Len(log)
        /\ \A f \in m.proofs : \E k \in m.wrote : log[k] = f
        /\ \A f \in m.evidence : \E k \in m.wrote :
             log[k].op = "complete" /\ log[k].campaign = f.campaign
    BY <2>1 DEF RemembersOwnWork, OwnWork, Grown
  <2>3. \A k \in m.wrote : k \in 1..Len(log) + 1 /\ log'[k] = log[k]
    BY <2>2 DEF Grown
  <2>4. /\ m.wrote \subseteq 1..Len(log) + 1
        /\ \A f \in m.proofs : \E k \in m.wrote : log'[k] = f
        /\ \A f \in m.evidence : \E k \in m.wrote :
             log'[k].op = "complete" /\ log'[k].campaign = f.campaign
    BY <2>2, <2>3
  <2>5. SUFFICES /\ n.wrote \subseteq 1..Len(log) + 1
                 /\ \A f \in n.proofs : \E k \in n.wrote : log'[k] = f
                 /\ \A f \in n.evidence : \E k \in n.wrote :
                      log'[k].op = "complete" /\ log'[k].campaign = f.campaign
    BY <2>1 DEF OwnWork, Grown
  <2>6. CASE SameWork(m, n)
    BY <2>4, <2>6 DEF SameWork
  <2>7. CASE NoWork(n)
    BY <2>7 DEF NoWork
  <2>8. CASE MoreWork(m, n)
    <3>1. PICK g :
            /\ log' = Append(log, g) /\ n.wrote = m.wrote \cup {Len(log) + 1}
            /\ \/ n.proofs = m.proofs \cup {g} /\ n.evidence = m.evidence
               \/ \E x : /\ n.proofs = m.proofs /\ n.evidence = m.evidence \cup {x}
                         /\ g.op = "complete" /\ x.campaign = g.campaign
      BY <2>8 DEF MoreWork
    <3>2. Len(log) \in Nat /\ log'[Len(log) + 1] = g
      BY <3>1, AppendGrows DEF Grown
    <3>3. n.wrote \subseteq 1..Len(log) + 1 /\ Len(log) + 1 \in n.wrote
      BY <2>4, <3>1, <3>2
    <3>4. CASE n.proofs = m.proofs \cup {g} /\ n.evidence = m.evidence
      BY <2>4, <3>1, <3>2, <3>3, <3>4
    <3>5. ASSUME NEW x, n.proofs = m.proofs, n.evidence = m.evidence \cup {x},
                 g.op = "complete", x.campaign = g.campaign
          PROVE  /\ \A f \in n.proofs : \E k \in n.wrote : log'[k] = f
                 /\ \A f \in n.evidence : \E k \in n.wrote :
                      log'[k].op = "complete" /\ log'[k].campaign = f.campaign
      BY <2>4, <3>1, <3>2, <3>3, <3>5
    <3>6. QED
      BY <3>1, <3>3, <3>4, <3>5
  <2>9. QED
    BY <2>1, <2>6, <2>7, <2>8 DEF MemoriesKept, WorkKept
<1>2. QED
  BY <1>1 DEF RemembersOwnWork

LEMMA HistoryStep ==
  ASSUME HistoryInv, [Next]_vars
  PROVE  HistoryInv'
<1>1. StepOK
  BY StepCases
<1>2. CASE UNCHANGED log
  <2>1. ASSUME NEW e, log' = Append(log, e) PROVE FALSE
    BY <1>2, <2>1, AppendIs DEF HistoryInv
  <2>2. RunsStarted'
    BY <1>1, <1>2, <2>1 DEF StepOK, MemoriesKept, RunKept, RunsStarted, HistoryInv
  <2>3. \A s \in Services : SameWork(memory[s], memory'[s]) \/ NoWork(memory'[s])
    BY <1>1, <2>1 DEF StepOK, MemoriesKept, WorkKept, MoreWork
  <2>4. RemembersOwnWork'
    BY <1>2, <2>3 DEF HistoryInv, RemembersOwnWork, OwnWork, SameWork, NoWork
  <2>5. QED
    BY <1>1, <1>2, <2>2, <2>4 DEF StepOK, HistoryInv, IsHistory, CampaignsKnown, WithdrawalsKnown,
      StartsApproved, NotWithdrawnBefore, CompletesItsStart, AssessesCompletion, OneVerdict,
      ApprovesAccepted, NoneTwice
<1>3. ASSUME NEW e, Legal(e), log' = Append(log, e)
      PROVE  HistoryInv'
  <2>1. Grown(e) /\ IsHistory(log)'
    BY <1>3, AppendGrows DEF HistoryInv
  <2>2. CampaignsKnown' /\ WithdrawalsKnown'
    BY <1>3, <2>1, CampaignsStep DEF HistoryInv
  <2>3. StartsApproved'
    BY <1>3, <2>1, StartsStep DEF HistoryInv
  <2>4. CompletesItsStart'
    BY <1>3, <2>1, CompletesStep DEF HistoryInv
  <2>5. AssessesCompletion' /\ OneVerdict' /\ ApprovesAccepted'
    BY <1>3, <2>1, AssessmentsStep DEF HistoryInv
  <2>6. RunsStarted' /\ MemoryShape'
    BY <1>1, <1>3, <2>1, RunsStep DEF HistoryInv, StepOK
  <2>7. NoneTwice' /\ RemembersOwnWork'
    BY <1>1, <1>3, <2>1, NoneTwiceStep, OwnWorkStep DEF HistoryInv, StepOK
  <2>8. QED
    BY <2>1, <2>2, <2>3, <2>4, <2>5, <2>6, <2>7 DEF HistoryInv
<1>4. QED
  BY <1>1, <1>2, <1>3 DEF StepOK, WritesLegally

-----------------------------------------------------------------------------
(* Duties.  An event gives a person a duty of a case.                      *)
Gives(e, case, duty, x) ==
  /\ e.case = case
  /\ \/ duty = "operate" /\ e.op = "start" /\ e.by.person = x
     \/ /\ duty \in Reviews /\ e.op = "delegate" /\ e.action = duty
        /\ x = e.by.person \/ x = e.delegate
     \/ duty \in Reviews /\ e.op = duty /\ e.by.person = x

AllDuties == Reviews \cup {"own", "operate"}

LEMMA OperatorsAre ==
  ASSUME NEW case, NEW x
  PROVE  x \in Operators(case) <=> \E i \in DOMAIN log : Gives(log[i], case, "operate", x)
BY DEF Operators, Events, Gives, Reviews

LEMMA ReviewersAre ==
  ASSUME NEW case, NEW x, NEW action \in Reviews
  PROVE  x \in Reviewers(case, action) <=> \E i \in DOMAIN log : Gives(log[i], case, action, x)
BY DEF Reviewers, Delegations, Events, Gives, Reviews

(* The property, said of events.                                           *)
Has(case, duty, x) ==
  \/ duty = "own" /\ x = Submitter[case]
  \/ \E i \in DOMAIN log : Gives(log[i], case, duty, x)

Separated ==
  \A case \in Cases, one, other \in AllDuties : one # other =>
    \A x : ~(Has(case, one, x) /\ Has(case, other, x))

LEMMA SeparatedIs == DutiesAreSeparated <=> Separated
<1>1. ASSUME NEW case, NEW duty \in AllDuties, NEW x
      PROVE  x \in Duties(case)[duty] <=> Has(case, duty, x)
  <2>1. CASE duty = "own"
    <3>1. Duties(case)[duty] = {Submitter[case]}
      BY <2>1 DEF Duties, AllDuties
    <3>2. \A e : ~Gives(e, case, duty, x)
      BY <2>1 DEF Gives, Reviews
    <3>3. QED
      BY <2>1, <3>1, <3>2 DEF Has
  <2>2. CASE duty = "operate"
    <3>1. Duties(case)[duty] = Operators(case)
      BY <2>2 DEF Duties, AllDuties
    <3>2. QED
      BY <2>2, <3>1, OperatorsAre DEF Has
  <2>3. CASE duty \in Reviews
    <3>1. Duties(case)[duty] = Reviewers(case, duty)
      BY <2>3 DEF Duties, AllDuties, Reviews
    <3>2. duty # "own"
      BY <2>3 DEF Reviews
    <3>3. QED
      BY <2>3, <3>1, <3>2, ReviewersAre DEF Has
  <2>4. QED
    BY <2>1, <2>2, <2>3 DEF AllDuties
<1>2. DutiesAreSeparated <=>
        \A case \in Cases, one, other \in AllDuties :
          one # other => \A x : ~(x \in Duties(case)[one] /\ x \in Duties(case)[other])
  <2>1. \A case : DOMAIN Duties(case) = AllDuties
    BY DEF Duties, AllDuties
  <2>2. \A S, T : S \cap T = {} <=> \A x : ~(x \in S /\ x \in T)
    OBVIOUS
  <2>3. QED
    BY <2>1, <2>2 DEF DutiesAreSeparated
<1>3. QED
  BY <1>1, <1>2 DEF Separated

LEMMA SeparatedStep ==
  ASSUME Separated, NEW e, Grown(e), Legal(e)
  PROVE  Separated'
<1>1. ASSUME NEW case, NEW duty, NEW x
      PROVE  Has(case, duty, x)' => Has(case, duty, x) \/ Gives(e, case, duty, x)
  BY DEF Has, Grown
<1>2. ASSUME NEW case, NEW one \in AllDuties, NEW other \in AllDuties, NEW x, one # other,
             Gives(e, case, one, x)
      PROVE  ~Has(case, other, x) /\ ~Gives(e, case, other, x)
  <2>1. ~Gives(e, case, other, x)
    BY <1>2 DEF Gives, Reviews
  <2>2. CASE one = "operate"
    <3>1. MayOperate(case, x)
      BY <1>2, <2>2 DEF Gives, Legal, LegalRun, Reviews
    <3>2. other = "own" \/ other \in Reviews
      BY <1>2, <2>2 DEF AllDuties
    <3>3. QED
      BY <2>1, <3>1, <3>2, ReviewersAre DEF MayOperate, Has, Gives, Reviews
  <2>3. CASE one \in Reviews
    <3>1. Independent(case, one, x)
      BY <1>2, <2>3 DEF Gives, Legal, LegalReview, Reviews
    <3>2. CASE other = "own"
      BY <2>1, <3>1, <3>2 DEF Independent, Has, Gives, Reviews
    <3>3. CASE other = "operate"
      BY <2>1, <3>1, <3>3, OperatorsAre DEF Independent, Has
    <3>4. CASE other \in Reviews
      <4>1. x \notin Reviewers(case, other)
        BY <1>2, <3>1, <3>4 DEF Independent
      <4>2. QED
        BY <2>1, <3>4, <4>1, ReviewersAre DEF Has, Reviews
    <3>5. QED
      BY <3>2, <3>3, <3>4 DEF AllDuties
  <2>4. QED
    BY <1>2, <2>2, <2>3 DEF AllDuties, Gives, Reviews
<1>3. ASSUME NEW case \in Cases, NEW one \in AllDuties, NEW other \in AllDuties, NEW x,
             one # other, Has(case, one, x)', Has(case, other, x)'
      PROVE  FALSE
  <2>1. /\ Has(case, one, x) \/ Gives(e, case, one, x)
        /\ Has(case, other, x) \/ Gives(e, case, other, x)
    BY <1>1, <1>3
  <2>2. ~(Has(case, one, x) /\ Has(case, other, x))
    BY <1>3 DEF Separated
  <2>3. Gives(e, case, one, x) => ~Has(case, other, x) /\ ~Gives(e, case, other, x)
    BY <1>2, <1>3
  <2>4. Gives(e, case, other, x) => ~Has(case, one, x) /\ ~Gives(e, case, one, x)
    BY <1>2, <1>3
  <2>5. QED
    BY <2>1, <2>2, <2>3, <2>4
<1>4. QED
  BY <1>3 DEF Separated

(* Policies.                                                               *)
LEMMA PoliciesStep ==
  ASSUME CampaignsKnown, PoliciesNeverWeaken, NEW e, Grown(e), Legal(e)
  PROVE  PoliciesNeverWeaken'
<1>1. ASSUME NEW i \in 1..Len(log)
      PROVE  log'[i] = log[i] /\ log'[log[i].campaign] = log[log[i].campaign]
  BY DEF CampaignsKnown, Grown
<1>2. ASSUME NEW i \in 1..Len(log), NEW j \in 1..Len(log), i < j,
             log[i].op = "start", log[j].op = "start",
             ProjectOf[log[i].case] = ProjectOf[log[j].case]
      PROVE  Meets(log'[log[j].campaign].policy, log'[log[i].campaign].policy)
  <2>1. Meets(log[log[j].campaign].policy, log[log[i].campaign].policy)
    BY <1>2 DEF PoliciesNeverWeaken, Grown
  <2>2. QED
    BY <1>1, <2>1
<1>3. ASSUME NEW i \in 1..Len(log), log[i].op = "start", e.op = "start",
             ProjectOf[log[i].case] = ProjectOf[e.case]
      PROVE  Meets(log'[e.campaign].policy, log'[log[i].campaign].policy)
  <2>1. StrongEnough(e.case, log[e.campaign].policy) /\ e.campaign \in Campaigns
    BY <1>3 DEF Legal, LegalRun
  <2>2. Meets(log[e.campaign].policy, log[log[i].campaign].policy)
    BY <1>3, <2>1 DEF StrongEnough, Events, Grown
  <2>3. log'[e.campaign] = log[e.campaign]
    BY <2>1 DEF Campaigns, Events, Grown
  <2>4. QED
    BY <1>1, <2>2, <2>3
<1>4. ASSUME NEW i \in 1..Len(log) + 1, NEW j \in 1..Len(log) + 1, i < j,
             log'[i].op = "start", log'[j].op = "start",
             ProjectOf[log'[i].case] = ProjectOf[log'[j].case]
      PROVE  Meets(log'[log'[j].campaign].policy, log'[log'[i].campaign].policy)
  <2>1. i \in 1..Len(log) /\ log'[i] = log[i]
    BY <1>4 DEF Grown
  <2>2. CASE j \in 1..Len(log)
    <3>1. log'[j] = log[j]
      BY <2>2 DEF Grown
    <3>2. QED
      BY <1>2, <1>4, <2>1, <2>2, <3>1
  <2>3. CASE j = Len(log) + 1
    <3>1. log'[j] = e
      BY <2>3 DEF Grown
    <3>2. QED
      BY <1>3, <1>4, <2>1, <3>1
  <2>4. QED
    BY <2>2, <2>3 DEF Grown
<1>5. QED
  BY <1>4 DEF PoliciesNeverWeaken, Grown

-----------------------------------------------------------------------------
(* A campaign completes once, right after its only start.                  *)
LEMMA CompletionIs ==
  ASSUME HistoryInv, NEW k \in DOMAIN log, log[k].op = "complete", NEW c, log[k].campaign = c
  PROVE  Latest(c, "complete") = k /\ Latest(c, "start") = k - 1
<1>1. Len(log) \in Nat /\ DOMAIN log = 1..Len(log)
  BY Positions DEF HistoryInv
<1>2. k - 1 \in DOMAIN log /\ log[k - 1].op = "start" /\ log[k - 1].campaign = c
  BY <1>1 DEF HistoryInv, CompletesItsStart
<1>3. ASSUME NEW i \in DOMAIN log, NEW j \in DOMAIN log, log[i].op = "start",
             log[j].op = "start", log[i].campaign = c, log[j].campaign = c
      PROVE  i = j
  <2>1. ~(i < j) /\ ~(j < i)
    BY <1>1, <1>3 DEF HistoryInv, StartsApproved
  <2>2. QED
    BY <1>1, <2>1
<1>4. Latest(c, "start") = k - 1
  <2>1. Latest(c, "start") # 0
    BY <1>1, <1>2, LatestIs DEF HistoryInv
  <2>2. QED
    BY <1>2, <1>3, <2>1, LatestIs DEF HistoryInv
<1>5. Latest(c, "complete") = k
  <2>1. PICK n : n = Latest(c, "complete")
    OBVIOUS
  <2>2. n # 0 /\ n \in Nat
    BY <1>1, <2>1, LatestIs DEF HistoryInv
  <2>3. n \in DOMAIN log /\ log[n].op = "complete" /\ log[n].campaign = c
    BY <2>1, <2>2, LatestIs DEF HistoryInv
  <2>4. n - 1 \in DOMAIN log /\ log[n - 1].op = "start" /\ log[n - 1].campaign = c
    BY <1>1, <2>3 DEF HistoryInv, CompletesItsStart
  <2>5. n - 1 = k - 1
    BY <1>2, <1>3, <2>4
  <2>6. QED
    BY <1>1, <2>1, <2>3, <2>5
<1>6. QED
  BY <1>4, <1>5

(* A usable decision was written by the service itself, and so was the     *)
(* delegation behind it, which still holds.                                *)
LEMMA UsableIs ==
  ASSUME HistoryInv, NEW s \in Services, NEW i \in DOMAIN log, log[i].op \in Reviews,
         NEW t, Usable(s, i, t), NEW d, d = log[i].delegation
  PROVE  /\ i \in memory[s].wrote
         /\ d # 0 => d \in memory[s].wrote /\ d \in Delegations /\ ~Withdrawn(d) /\ t < log[d].until
<1>1. ASSUME NEW j \in DOMAIN log, log[j].op \in Reviews \cup {"delegate"},
             log[j] \in memory[s].proofs
      PROVE  j \in memory[s].wrote
  <2>1. PICK k \in memory[s].wrote : log[k] = log[j] /\ k \in DOMAIN log
    BY <1>1 DEF HistoryInv, RemembersOwnWork, OwnWork
  <2>2. QED
    BY <1>1, <2>1 DEF HistoryInv, NoneTwice
<1>2. log[i] \in memory[s].proofs
  BY DEF Usable
<1>3. ASSUME d # 0
      PROVE  d \in Delegations /\ ~Withdrawn(d) /\ t < log[d].until /\ log[d] \in memory[s].proofs
  BY <1>3 DEF Usable, Covers, Grantors
<1>4. d # 0 => d \in DOMAIN log /\ log[d].op = "delegate"
  BY <1>3 DEF Delegations, Events
<1>5. QED
  BY <1>1, <1>2, <1>3, <1>4

LEMMA EarnedIs ==
  ASSUME HistoryInv
  PROVE  UsableReviewsAreEarned
<1> SUFFICES ASSUME NEW s \in Services, NEW c \in Campaigns, ReviewsUsable(s, c)
             PROVE  LET complete == Latest(c, "complete") IN
                    /\ \E i \in DOMAIN log :
                         /\ log[i].op = "policy" /\ log[i].campaign = c
                         /\ i < Latest(c, "start") /\ Latest(c, "start") < complete
                         /\ ~\E j \in i..complete :
                              log[j].op = "revoke" /\ log[j].delegation = log[i].delegation
                    /\ complete < Latest(c, "assess")
                    /\ Latest(c, "assess") < Latest(c, "approve")
                    /\ Meets(log[complete].result, log[c].policy)
                    /\ \A i \in Events("assess") :
                         log[i].campaign = c => log[i].verdict = "accept"
                    /\ Basis(c) \subseteq memory[s].wrote
                    /\ \A d \in Basis(c) \cap Delegations : ~Withdrawn(d) /\ time < log[d].until
  BY DEF UsableReviewsAreEarned
<1>1. Len(log) \in Nat /\ DOMAIN log = 1..Len(log) /\ IsHistory(log)
  BY Positions DEF HistoryInv
<1>2. PICK assess, approve : assess = Latest(c, "assess") /\ approve = Latest(c, "approve")
  OBVIOUS
<1>3. /\ Assessment(c) = assess /\ Approval(c) = approve /\ assess # 0 /\ assess < approve
      /\ assess \in Nat /\ approve \in Nat
  BY <1>1, <1>2, LatestIs DEF ReviewsUsable, Approval, Assessment, PolicyApproval
<1>4. /\ assess \in DOMAIN log /\ log[assess].op = "assess" /\ log[assess].campaign = c
      /\ approve \in DOMAIN log /\ log[approve].op = "approve" /\ log[approve].campaign = c
  <2>1. approve # 0
    BY <1>3
  <2>2. QED
    BY <1>1, <1>2, <1>3, <2>1, LatestIs
<1>5. \A i \in Events("assess") : log[i].campaign = c => log[i].verdict = "accept"
  <2>1. PICK j \in 1..approve - 1 :
          log[j].op = "assess" /\ log[j].campaign = c /\ log[j].verdict = "accept"
    BY <1>4 DEF HistoryInv, ApprovesAccepted
  <2>2. j \in DOMAIN log
    BY <1>1, <1>4, <2>1
  <2>3. QED
    BY <2>1, <2>2 DEF HistoryInv, OneVerdict, Events
<1>6. log[assess].verdict = "accept"
  BY <1>4, <1>5 DEF Events
<1>7. PICK k \in 1..assess - 1 :
        /\ log[k].op = "complete" /\ log[k].campaign = c
        /\ Meets(log[k].result, log[c].policy)
  BY <1>4, <1>6 DEF HistoryInv, AssessesCompletion
<1>8. k \in DOMAIN log /\ Latest(c, "complete") = k /\ Latest(c, "start") = k - 1
  <2>1. k \in DOMAIN log
    BY <1>1, <1>4
  <2>2. QED
    BY <1>7, <2>1, CompletionIs
<1>9. k - 1 \in DOMAIN log /\ log[k - 1].op = "start" /\ log[k - 1].campaign = c
  BY <1>1, <1>7, <1>8 DEF HistoryInv, CompletesItsStart
<1>10. PICK i \in 1..k - 2 :
         /\ log[i].op = "policy" /\ log[i].campaign = c
         /\ \A m \in 1..k - 2 : log[m].op = "revoke" => log[m].delegation # log[i].delegation
  <2>1. PICK j : j = k - 1
    OBVIOUS
  <2>2. j \in DOMAIN log /\ log[j].op = "start" /\ log[j].campaign = c /\ j - 1 = k - 2
    BY <1>1, <1>8, <1>9, <2>1
  <2>3. \E i \in 1..j - 1 : /\ log[i].op = "policy" /\ log[i].campaign = c
                            /\ NotWithdrawnBefore(j, log[i].delegation)
    BY <2>2 DEF HistoryInv, StartsApproved
  <2>4. QED
    BY <2>2, <2>3 DEF NotWithdrawnBefore
<1>11. ~\E j \in i..k : log[j].op = "revoke" /\ log[j].delegation = log[i].delegation
  <2>1. SUFFICES ASSUME NEW j \in i..k, log[j].op = "revoke"
                 PROVE  log[j].delegation # log[i].delegation
    OBVIOUS
  <2>2. j # k /\ j # k - 1
    BY <1>7, <1>9, <2>1
  <2>3. j \in 1..k - 2
    BY <1>1, <1>8, <2>2
  <2>4. QED
    BY <1>10, <2>1, <2>3
<1>12. i \in DOMAIN log /\ i < k - 1 /\ k - 1 < k /\ k < assess
  BY <1>1, <1>3, <1>8
<1>13. \A op \in Reviews :
         LET j == Latest(c, op) IN
         j \in DOMAIN log /\ log[j].op = op /\ Usable(s, j, time)
  <2>1. PICK policy : policy = Latest(c, "policy")
    OBVIOUS
  <2>2. /\ Usable(s, policy, time) /\ Usable(s, assess, time) /\ Usable(s, approve, time)
    BY <1>3, <2>1 DEF ReviewsUsable, PolicyApproval
  <2>3. policy # 0
    BY <2>2 DEF Usable
  <2>4. policy \in DOMAIN log /\ log[policy].op = "policy"
    BY <1>1, <2>1, <2>3, LatestIs
  <2>5. QED
    BY <1>2, <1>4, <2>1, <2>2, <2>4 DEF Reviews
<1>14. ASSUME NEW j, NEW op \in Reviews, j = Latest(c, op), NEW d, d = log[j].delegation
       PROVE  /\ j \in memory[s].wrote /\ j \notin Delegations
              /\ d # 0 => d \in memory[s].wrote /\ ~Withdrawn(d) /\ time < log[d].until
  <2>1. j \in DOMAIN log /\ log[j].op = op /\ Usable(s, j, time)
    BY <1>13, <1>14
  <2>2. QED
    BY <1>14, <2>1, UsableIs DEF Delegations, Events, Reviews
<1>15. k \in memory[s].wrote /\ k \notin Delegations
  <2>1. PICK e \in memory[s].evidence : e.campaign = c
    BY DEF ReviewsUsable, Evidenced, Evidence
  <2>2. PICK n \in memory[s].wrote :
          n \in DOMAIN log /\ log[n].op = "complete" /\ log[n].campaign = c
    BY <2>1 DEF HistoryInv, RemembersOwnWork, OwnWork
  <2>3. n = k
    BY <1>8, <2>2, CompletionIs
  <2>4. QED
    BY <1>7, <2>2, <2>3 DEF Delegations, Events
<1>16. /\ Basis(c) \subseteq memory[s].wrote
       /\ \A d \in Basis(c) \cap Delegations : ~Withdrawn(d) /\ time < log[d].until
  <2>1. ASSUME NEW b \in Basis(c)
        PROVE  \/ b = k
               \/ \E op \in Reviews : b = Latest(c, op)
               \/ \E op \in Reviews : b = log[Latest(c, op)].delegation /\ b # 0
    BY <1>8, <2>1 DEF Basis
  <2>2. QED
    BY <1>14, <1>15, <2>1
<1>17. QED
  BY <1>2, <1>3, <1>5, <1>7, <1>8, <1>10, <1>11, <1>12, <1>16

-----------------------------------------------------------------------------
LEMMA IInvInit == Init => IInv
<1> SUFFICES ASSUME Init PROVE IInv
  OBVIOUS
<1>1. DOMAIN log = {} /\ IsHistory(log)
  BY DEF Init, IsHistory, Range
<1>2. /\ MemoryShape /\ RemembersOwnWork
      /\ \A s \in Services : memory[s].run = << >>
  BY <1>1 DEF Init, MemoryShape, Shaped, RemembersOwnWork, OwnWork
<1>3. HistoryInv
  BY <1>1, <1>2 DEF HistoryInv, CampaignsKnown, WithdrawalsKnown, StartsApproved,
    CompletesItsStart, AssessesCompletion, OneVerdict, ApprovesAccepted, RunsStarted, NoneTwice
<1>4. Separated
  BY <1>1 DEF Separated, Has, AllDuties, Reviews
<1>5. PoliciesNeverWeaken
  BY <1>1 DEF PoliciesNeverWeaken
<1>6. QED
  BY <1>3, <1>4, <1>5, SeparatedIs DEF IInv

LEMMA IInvStep == IInv /\ [Next]_vars => IInv'
<1> SUFFICES ASSUME IInv, [Next]_vars PROVE IInv'
  OBVIOUS
<1>1. HistoryInv'
  BY HistoryStep DEF IInv
<1>2. Separated
  BY SeparatedIs DEF IInv
<1>3. Separated' /\ PoliciesNeverWeaken'
  <2>1. WritesLegally
    BY StepCases DEF IInv, StepOK
  <2>2. CASE UNCHANGED log
    BY <1>2, <2>2 DEF IInv, Separated, Has, PoliciesNeverWeaken
  <2>3. ASSUME NEW e, Legal(e), log' = Append(log, e)
        PROVE  Separated' /\ PoliciesNeverWeaken'
    <3>1. Grown(e)
      BY <2>3, AppendGrows DEF IInv, HistoryInv
    <3>2. QED
      BY <1>2, <2>3, <3>1, SeparatedStep, PoliciesStep DEF IInv, HistoryInv
  <2>4. QED
    BY <2>1, <2>2, <2>3 DEF WritesLegally
<1>4. DutiesAreSeparated' <=> Separated'
  BY SeparatedIs, PTL
<1>5. QED
  BY <1>1, <1>3, <1>4 DEF IInv

LEMMA ReviewInvariant == Spec => []IInv
BY IInvInit, IInvStep, PTL DEF Spec

(* Whatever services, people and cases there are, nobody has two of the    *)
(* duties of a case (ReviewStore._independent and its callers).            *)
THEOREM DutiesSeparated == Spec => []DutiesAreSeparated
<1>1. IInv => DutiesAreSeparated
  BY DEF IInv
<1>2. QED
  BY <1>1, ReviewInvariant, PTL

(* No run starts under a policy that is weaker than one of the project     *)
(* under which a run has started (_strong_enough, propose, start).         *)
THEOREM PoliciesStrengthen == Spec => []PoliciesNeverWeaken
<1>1. IInv => PoliciesNeverWeaken
  BY DEF IInv
<1>2. QED
  BY <1>1, ReviewInvariant, PTL

(* Reviews that status calls usable have their whole history behind them   *)
(* (FixtureReviewService.status, ReviewStore.decide).                      *)
THEOREM ReviewsEarned == Spec => []UsableReviewsAreEarned
<1>1. IInv => UsableReviewsAreEarned
  BY EarnedIs DEF IInv
<1>2. QED
  BY <1>1, ReviewInvariant, PTL
=============================================================================
