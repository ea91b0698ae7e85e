---------------------------- MODULE WitnessProofs ----------------------------
(***************************************************************************)
(* Proofs about the witness of the fixture registry, for every set of      *)
(* requests and processes, every capacity and any number of restores.      *)
(***************************************************************************)
EXTENDS Witness, FiniteSetTheorems, WellFoundedInduction, TLAPS

(* A registry, running or copied: a request is committed once, and each    *)
(* commit expected exactly the commits before it.                          *)
Before(h, i) == {j \in Commits(h) : j < i}

GoodLog(h) ==
  /\ h \in Seq(Event)
  /\ \A i, j \in Commits(h) : h[i].request = h[j].request => i = j
  /\ \A i \in Commits(h) : h[i].expected.sequence = Cardinality(Before(h, i))
  /\ Cardinality(Commits(h)) <= Capacity

(* A witness, running or copied: its intents account for its history.      *)
Matched(h, records) ==
  /\ \A i \in Commits(h) :
       LET record == records[h[i].request] IN
       /\ record.state = "committed" /\ record.receipt = h[i].id
       /\ record.expected = h[i].expected /\ record.epoch = h[i].epoch
       /\ record.predecessor < i
  /\ \A r \in Requests : records[r].state = "committed" =>
       \E i \in Commits(h) : h[i].request = r

GoodRecords(h, records) ==
  /\ records \in [Requests -> Record \cup {Absent}]
  /\ Matched(h, records)
  /\ \A r \in Requests : records[r].state = "aborted" =>
       Cardinality(Commits(h)) > records[r].expected.sequence
  /\ \A r \in Requests : records[r] # Absent => records[r].predecessor <= Len(h)
  /\ IsFiniteSet(PendingOf(records)) /\ Cardinality(PendingOf(records)) <= MaxPending

(* Later intents keep what earlier ones say.                               *)
Kept(x, y) ==
  x # Absent =>
    /\ y # Absent
    /\ y.expected = x.expected /\ y.epoch = x.epoch /\ y.predecessor = x.predecessor
    /\ x.state = "committed" => y.state = "committed" /\ y.receipt = x.receipt

IntentsKept(a, b) == \A r \in Requests : Kept(a[r], b[r])

StartsWith(h, g) == Len(g) <= Len(h) /\ \A i \in 1..Len(g) : h[i] = g[i]

RegistryOK ==
  /\ GoodLog(log) /\ Activations(log) # {}
  /\ GoodLog(backup.registry) /\ Activations(backup.registry) # {}
  /\ StartsWith(log, backup.registry)
  /\ prepared \subseteq Content

(* What the witness and its copy have in common.                           *)
WitnessOK ==
  /\ pins \in Seq(Nat) /\ Len(pins) \in 1..MaxRevisions
  /\ \A i \in 1..Len(pins) : pins[i] <= ids
  /\ GoodLog(history) /\ GoodRecords(history, intents)
  /\ backup = [registry |-> backup.registry,
               witness |-> <<backup.witness[1], backup.witness[2], backup.witness[3]>>]
  /\ backup.witness[1] \in Seq(Nat) /\ Len(backup.witness[1]) \in 1..MaxRevisions
  /\ GoodLog(backup.witness[2]) /\ GoodRecords(backup.witness[2], backup.witness[3])
  /\ StartsWith(pins, backup.witness[1])
  /\ IntentsKept(backup.witness[3], intents)
  /\ Len(pins) = Len(backup.witness[1]) => history = backup.witness[2] /\ intents = backup.witness[3]

(* The sink: who has its pin has its intents.                              *)
Has(p, pin) == pin.revision <= Len(p) /\ p[pin.revision] = pin.id

FloorOK ==
  /\ floor = [pin |-> [revision |-> floor.pin.revision, id |-> floor.pin.id],
              intents |-> floor.intents]
  /\ floor.pin.revision \in Nat \ {0} /\ floor.pin.id \in Nat /\ floor.pin.id <= ids
  /\ floor.intents \in [Requests -> Record \cup {Absent}]
  /\ Has(pins, floor.pin) => IntentsKept(floor.intents, intents)
  /\ Has(backup.witness[1], floor.pin) => IntentsKept(floor.intents, backup.witness[3])

Intended(p) ==
  LET record == floor.intents[call[p].content.request] IN
  /\ record # Absent
  /\ record.expected = call[p].content.expected /\ record.epoch = server[p].epoch
  /\ record.predecessor <= Len(log)

UpRegistry == [state : {"registry"}, broker : Nat, epoch : Nat]
UpWitness == [state : {"witness"}, broker : Nat, epoch : Nat, pin : Pin]
Calls == [pc : {"observed", "intended", "charged"}, content : Content]

ProcessOK ==
  /\ server \in [Processes -> {Down} \cup UpRegistry \cup UpWitness]
  /\ call \in [Processes -> {Idle} \cup Calls]
  /\ \A p \in Processes :
       /\ server[p] # Down =>
            server[p].broker <= ids /\ (server[p].broker = Broker => server[p].epoch = Epoch)
       /\ server[p].state = "witness" => Has(pins, floor.pin)
       /\ call[p] # Idle => server[p].state = "witness"
       /\ call[p].pc = "intended" => Intended(p)

ReturnedOK ==
  \A x \in returned :
    /\ x \in [request : Requests, receipt : Nat]
    /\ floor.intents[x.request].state = "committed" /\ floor.intents[x.request].receipt = x.receipt

IInv ==
  /\ ids \in Nat
  /\ RegistryOK /\ WitnessOK /\ FloorOK /\ ProcessOK
  /\ ChargedOnlyAfterCheckpoint /\ ReturnedOK
-----------------------------------------------------------------------------
(* Sets of positions in a history, and the newest of them.                 *)
Below == OpToRel(<, Nat)

LEMMA BelowWellFounded == IsWellFoundedOn(Below, Nat)
BY NatLessThanWellFounded, Zenon DEF Below

LEMMA BelowIs == \A m, n \in Nat : m < n => <<m, n>> \in Below
BY Zenon DEF Below, OpToRel

LEMMA LeastExists ==
  ASSUME NEW S \in SUBSET Nat, S # {}
  PROVE  \E m \in S : \A n \in S : m <= n
<1>1. PICK m \in S : \A n \in S : ~(<<n, m>> \in Below)
  BY BelowWellFounded, WFMin
<1>2. \A n \in S : ~(n < m)
  BY <1>1, BelowIs
<1>3. QED
  BY <1>2

LEMMA NewestIs ==
  ASSUME NEW n \in Nat, NEW S \in SUBSET (1..n), S # {}
  PROVE  Newest(S) \in S /\ \A x \in S : x <= Newest(S)
<1>1. PICK T : T = {n - x : x \in S}
  OBVIOUS
<1>2. T \in SUBSET Nat /\ T # {}
  <2>1. \A x \in S : n - x \in Nat
    OBVIOUS
  <2>2. \A x \in S : n - x \in T
    BY <1>1
  <2>3. QED
    BY <1>1, <2>1, <2>2
<1>3. PICK m \in T : \A y \in T : m <= y
  BY <1>2, LeastExists
<1>4. PICK x \in S : m = n - x
  BY <1>1, <1>3
<1>5. \A y \in S : y <= x
  <2>1. TAKE y \in S
  <2>2. n - y \in T
    BY <1>1
  <2>3. n - x <= n - y
    BY <1>3, <1>4, <2>2
  <2>4. QED
    BY <2>3
<1>6. QED
  BY <1>5 DEF Newest

LEMMA PositionsFinite ==
  ASSUME NEW n \in Nat, NEW S \in SUBSET (1..n)
  PROVE  IsFiniteSet(S) /\ Cardinality(S) \in Nat
<1>1. IsFiniteSet(1..n)
  BY FS_Interval
<1>2. QED
  BY <1>1, FS_Subset, FS_CardinalityType

LEMMA HistoryIs ==
  ASSUME NEW h \in Seq(Event)
  PROVE  /\ Len(h) \in Nat
         /\ Commits(h) \subseteq 1..Len(h) /\ Activations(h) \subseteq 1..Len(h)
         /\ IsFiniteSet(Commits(h)) /\ Cardinality(Commits(h)) \in Nat
         /\ IsFiniteSet(Activations(h)) /\ Cardinality(Activations(h)) \in Nat
         /\ \A i \in 1..Len(h) : h[i] \in Event
         /\ \A i \in Commits(h) :
              /\ h[i].kind = "committed" /\ h[i].request \in Requests
              /\ h[i].id \in Nat /\ h[i].epoch \in Nat
              /\ h[i].expected \in [sequence : Nat, head : Nat]
<1>1. Len(h) \in Nat /\ \A i \in 1..Len(h) : h[i] \in Event
  OBVIOUS
<1>2. Commits(h) \in SUBSET (1..Len(h)) /\ Activations(h) \in SUBSET (1..Len(h))
  BY DEF Commits, Activations
<1>3. \A i \in Commits(h) :
        /\ h[i].kind = "committed" /\ h[i].request \in Requests
        /\ h[i].id \in Nat /\ h[i].epoch \in Nat
        /\ h[i].expected \in [sequence : Nat, head : Nat]
  <2>1. TAKE i \in Commits(h)
  <2>2. h[i].kind = "committed" /\ h[i] \in Event
    BY <1>1 DEF Commits
  <2>3. QED
    BY <2>2 DEF Event
<1>4. QED
  BY <1>1, <1>2, <1>3, PositionsFinite

LEMMA AppendIs ==
  ASSUME NEW h \in Seq(Event), NEW e \in Event
  PROVE  /\ Append(h, e) \in Seq(Event) /\ Len(Append(h, e)) = Len(h) + 1
         /\ \A i \in 1..Len(h) : Append(h, e)[i] = h[i]
         /\ Append(h, e)[Len(h) + 1] = e
OBVIOUS

LEMMA AppendOther ==
  ASSUME NEW h \in Seq(Event), NEW e \in Event
  PROVE  /\ e.kind # "committed" => Commits(Append(h, e)) = Commits(h)
         /\ e.kind # "activated" => Activations(Append(h, e)) = Activations(h)
<1>1. PICK g : g = Append(h, e)
  OBVIOUS
<1>2. /\ Len(h) \in Nat /\ Len(g) = Len(h) + 1
      /\ \A i \in 1..Len(h) : g[i] = h[i] /\ g[Len(h) + 1] = e
  BY <1>1, AppendIs
<1>3. \A i \in 1..Len(g) : i \in 1..Len(h) \/ i = Len(h) + 1
  BY <1>2
<1>4. 1..Len(h) \subseteq 1..Len(g)
  BY <1>2
<1>5. QED
  BY <1>1, <1>2, <1>3, <1>4 DEF Commits, Activations

LEMMA AppendSame ==
  ASSUME NEW h \in Seq(Event), NEW e \in Event
  PROVE  /\ e.kind = "committed" => Commits(Append(h, e)) = Commits(h) \cup {Len(h) + 1}
         /\ e.kind = "activated" => Activations(Append(h, e)) = Activations(h) \cup {Len(h) + 1}
         /\ Len(h) + 1 \notin Commits(h) /\ Len(h) + 1 \notin Activations(h)
<1>1. PICK g : g = Append(h, e)
  OBVIOUS
<1>2. /\ Len(h) \in Nat /\ Len(g) = Len(h) + 1
      /\ \A i \in 1..Len(h) : g[i] = h[i] /\ g[Len(h) + 1] = e
  BY <1>1, AppendIs
<1>3. \A i \in 1..Len(g) : i \in 1..Len(h) \/ i = Len(h) + 1
  BY <1>2
<1>4. 1..Len(h) \subseteq 1..Len(g) /\ Len(h) + 1 \in 1..Len(g) /\ Len(h) + 1 \notin 1..Len(h)
  BY <1>2
<1>5. QED
  BY <1>1, <1>2, <1>3, <1>4 DEF Commits, Activations

(* A new broker belongs to the next epoch; a commit changes neither.       *)
BrokerOf(h) == IF Activations(h) = {} THEN 0 ELSE h[Newest(Activations(h))].id
LastOf(h) == IF Commits(h) = {} THEN 0 ELSE h[Newest(Commits(h))].id

LEMMA BrokerAfterActivation ==
  ASSUME NEW h \in Seq(Event), NEW e \in Event, e.kind = "activated"
  PROVE  /\ BrokerOf(Append(h, e)) = e.id
         /\ Cardinality(Activations(Append(h, e))) = Cardinality(Activations(h)) + 1
<1>1. /\ Activations(Append(h, e)) = Activations(h) \cup {Len(h) + 1}
      /\ Len(h) + 1 \notin Activations(h)
  BY AppendSame
<1>2. Activations(h) \subseteq 1..Len(h) /\ IsFiniteSet(Activations(h)) /\ Len(h) \in Nat
  BY HistoryIs
<1>3. Cardinality(Activations(Append(h, e))) = Cardinality(Activations(h)) + 1
  BY <1>1, <1>2, FS_AddElement
<1>4. \A x \in Activations(Append(h, e)) : x <= Len(h) + 1 /\ x \in Nat
  BY <1>1, <1>2
<1>5. Newest(Activations(Append(h, e))) = Len(h) + 1
  BY <1>1, <1>2, <1>4 DEF Newest
<1>6. Append(h, e)[Len(h) + 1] = e
  BY AppendIs
<1>7. QED
  BY <1>1, <1>3, <1>5, <1>6 DEF BrokerOf

LEMMA BrokerAfterCommit ==
  ASSUME NEW h \in Seq(Event), NEW e \in Event, e.kind = "committed"
  PROVE  /\ BrokerOf(Append(h, e)) = BrokerOf(h)
         /\ Activations(Append(h, e)) = Activations(h)
<1>1. Activations(Append(h, e)) = Activations(h)
  BY AppendOther
<1>2. Activations(h) \in SUBSET (1..Len(h)) /\ Len(h) \in Nat
  BY HistoryIs
<1>3. Activations(h) # {} => Newest(Activations(h)) \in 1..Len(h)
  BY <1>2, NewestIs
<1>4. \A i \in 1..Len(h) : Append(h, e)[i] = h[i]
  BY AppendIs
<1>5. QED
  BY <1>1, <1>3, <1>4 DEF BrokerOf

LEMMA LastIs ==
  ASSUME NEW h \in Seq(Event)
  PROVE  LastOf(h) \in Nat
<1>1. Commits(h) \in SUBSET (1..Len(h)) /\ Len(h) \in Nat
  BY HistoryIs
<1>2. Commits(h) # {} => Newest(Commits(h)) \in Commits(h)
  BY <1>1, NewestIs
<1>3. QED
  BY <1>2, HistoryIs DEF LastOf
-----------------------------------------------------------------------------
(* Registries grow into registries.                                        *)
LEMMA GoodAfterActivation ==
  ASSUME NEW h, GoodLog(h), NEW e \in Event, e.kind = "activated"
  PROVE  GoodLog(Append(h, e)) /\ Activations(Append(h, e)) # {}
<1>1. h \in Seq(Event)
  BY DEF GoodLog
<1>2. Commits(Append(h, e)) = Commits(h)
  BY <1>1, AppendOther
<1>3. /\ Append(h, e) \in Seq(Event)
      /\ \A i \in Commits(h) : Append(h, e)[i] = h[i]
  BY <1>1, AppendIs, HistoryIs
<1>4. \A i \in Commits(h) : Before(Append(h, e), i) = Before(h, i)
  BY <1>2 DEF Before
<1>5. Activations(Append(h, e)) # {}
  BY <1>1, AppendSame
<1>6. QED
  BY <1>2, <1>3, <1>4, <1>5 DEF GoodLog

LEMMA GoodAfterCommit ==
  ASSUME NEW h, GoodLog(h), NEW e \in Event, e.kind = "committed",
         \A i \in Commits(h) : h[i].request # e.request,
         e.expected.sequence = Cardinality(Commits(h)), Cardinality(Commits(h)) < Capacity
  PROVE  GoodLog(Append(h, e))
<1> DEFINE g == Append(h, e)
<1>1. h \in Seq(Event) /\ Len(h) \in Nat
  BY DEF GoodLog
<1>2. Commits(g) = Commits(h) \cup {Len(h) + 1} /\ Len(h) + 1 \notin Commits(h)
  BY <1>1, AppendSame
<1>3. /\ g \in Seq(Event) /\ g[Len(h) + 1] = e
      /\ \A i \in Commits(h) : g[i] = h[i]
  BY <1>1, AppendIs, HistoryIs
<1>4. /\ Commits(h) \subseteq 1..Len(h) /\ IsFiniteSet(Commits(h))
      /\ Cardinality(Commits(h)) \in Nat
  BY <1>1, HistoryIs
<1>5. Cardinality(Commits(g)) = Cardinality(Commits(h)) + 1
  BY <1>2, <1>4, FS_AddElement
<1>6. Cardinality(Commits(g)) <= Capacity
  BY <1>4, <1>5, WitnessAssumption
<1>7. \A i \in Commits(h) : Before(g, i) = Before(h, i)
  BY <1>1, <1>2, <1>4 DEF Before
<1>8. Before(g, Len(h) + 1) = Commits(h)
  BY <1>1, <1>2, <1>4 DEF Before
<1>9. \A i \in Commits(g) : g[i].expected.sequence = Cardinality(Before(g, i))
  BY <1>2, <1>3, <1>7, <1>8 DEF GoodLog
<1>10. \A i, j \in Commits(g) : g[i].request = g[j].request => i = j
  BY <1>2, <1>3 DEF GoodLog
<1>11. QED
  BY <1>3, <1>6, <1>9, <1>10 DEF GoodLog

(* What a registry keeps of an accepted history.                           *)
LEMMA KeptCommits ==
  ASSUME NEW h \in Seq(Event), NEW g \in Seq(Event), StartsWith(h, g)
  PROVE  /\ \A i \in Commits(g) : i \in Commits(h) /\ h[i] = g[i]
         /\ \A i \in Commits(h) : i <= Len(g) => i \in Commits(g) /\ h[i] = g[i]
         /\ Commits(g) \subseteq Commits(h) /\ Len(g) <= Len(h)
         /\ Cardinality(Commits(g)) <= Cardinality(Commits(h))
<1>1. Len(g) \in Nat /\ Len(h) \in Nat /\ Len(g) <= Len(h)
  BY DEF StartsWith
<1>2. 1..Len(g) \subseteq 1..Len(h) /\ \A i \in 1..Len(h) : i <= Len(g) => i \in 1..Len(g)
  BY <1>1
<1>3. \A i \in 1..Len(g) : h[i] = g[i]
  BY DEF StartsWith
<1>4. \A i \in Commits(g) : i \in Commits(h) /\ h[i] = g[i]
  BY <1>2, <1>3 DEF Commits
<1>5. \A i \in Commits(h) : i <= Len(g) => i \in Commits(g) /\ h[i] = g[i]
  BY <1>2, <1>3 DEF Commits
<1>6. IsFiniteSet(Commits(h))
  BY HistoryIs
<1>7. QED
  BY <1>1, <1>4, <1>5, <1>6, FS_Subset

-----------------------------------------------------------------------------
(* Intents.                                                                *)
LEMMA StatesOfIntents ==
  ASSUME NEW x \in Record \cup {Absent}
  PROVE  /\ x # Absent => x \in Record
         /\ x.state \in {"pending", "committed", "aborted"} => x # Absent
         /\ x = Absent => x.state = "absent"
BY DEF Record, Absent

LEMMA KeptAgain ==
  ASSUME NEW a, NEW b, NEW c, IntentsKept(a, b), IntentsKept(b, c)
  PROVE  IntentsKept(a, c)
BY DEF IntentsKept, Kept

LEMMA KeptSame ==
  ASSUME NEW a
  PROVE  IntentsKept(a, a)
BY DEF IntentsKept, Kept

(* Reconciliation: the intent of each new commit becomes committed, those  *)
(* whose time is over become aborted.                                      *)
LEMMA CommitIs ==
  ASSUME GoodLog(log), NEW i \in Unwitnessed
  PROVE  Commit(log[i].request) = i
<1>1. \A j \in Unwitnessed : log[j].request = log[i].request => j = i
  BY DEF GoodLog, Unwitnessed
<1>2. QED
  BY <1>1 DEF Commit

LEMMA ReconciledIs ==
  ASSUME intents \in [Requests -> Record \cup {Absent}], NEW r \in Requests
  PROVE  /\ intents[r].state # "pending" => Reconciled[r] = intents[r]
         /\ intents[r].state = "pending" =>
              /\ intents[r] \in Record
              /\ (\E i \in Unwitnessed : log[i].request = r) =>
                   Reconciled[r] = [intents[r] EXCEPT !.state = "committed",
                                                      !.receipt = log[Commit(r)].id]
              /\ ~(\E i \in Unwitnessed : log[i].request = r) =>
                   \/ Superseded(intents[r])
                      /\ Reconciled[r] = [intents[r] EXCEPT !.state = "aborted"]
                   \/ Reconciled[r] = intents[r]
<1>1. intents[r].state = "pending" => intents[r] \in Record
  BY StatesOfIntents
<1>2. QED
  BY <1>1 DEF Reconciled, Unresolved

LEMMA ReconciledGood ==
  ASSUME GoodLog(log), GoodLog(history), GoodRecords(history, intents),
         StartsWith(log, history), \A i \in Unwitnessed : Covered(i)
  PROVE  GoodRecords(log, Reconciled) /\ IntentsKept(intents, Reconciled)
<1>1. log \in Seq(Event) /\ history \in Seq(Event)
  BY DEF GoodLog
<1>2. /\ intents \in [Requests -> Record \cup {Absent}] /\ Matched(history, intents)
      /\ IsFiniteSet(PendingOf(intents)) /\ Cardinality(PendingOf(intents)) <= MaxPending
      /\ \A r \in Requests : intents[r].state = "aborted" =>
           Cardinality(Commits(history)) > intents[r].expected.sequence
      /\ \A r \in Requests : intents[r] # Absent => intents[r].predecessor <= Len(history)
  BY DEF GoodRecords
<1>3. /\ \A i \in Commits(history) : i \in Commits(log) /\ log[i] = history[i]
      /\ \A i \in Commits(log) : i <= Len(history) => i \in Commits(history) /\ log[i] = history[i]
      /\ Len(history) <= Len(log)
      /\ Cardinality(Commits(history)) <= Cardinality(Commits(log))
  BY <1>1, KeptCommits
<1>4. /\ Cardinality(Commits(log)) \in Nat /\ Cardinality(Commits(history)) \in Nat
      /\ Len(log) \in Nat /\ Len(history) \in Nat
      /\ Commits(log) \subseteq 1..Len(log)
      /\ \A i \in Commits(log) : log[i].request \in Requests /\ log[i].id \in Nat
  BY <1>1, HistoryIs
<1>5. \A i \in Unwitnessed : i \in Commits(log) /\ i > Len(history)
  BY DEF Unwitnessed
<1>6. \A r \in Requests :
        /\ Reconciled[r] \in Record \cup {Absent}
        /\ Kept(intents[r], Reconciled[r])
        /\ Reconciled[r].state = "pending" => intents[r].state = "pending"
        /\ Reconciled[r] # Absent => Reconciled[r].predecessor <= Len(log)
        /\ Reconciled[r].state = "aborted" =>
             Cardinality(Commits(log)) > Reconciled[r].expected.sequence
        /\ Reconciled[r].state = "committed" => \E i \in Commits(log) : log[i].request = r
  <2>1. TAKE r \in Requests
  <2>2. intents[r] \in Record \cup {Absent}
    BY <1>2
  <2>3. CASE intents[r].state # "pending"
    <3>1. Reconciled[r] = intents[r]
      BY <1>2, <2>3, ReconciledIs
    <3>2. intents[r] # Absent => intents[r].predecessor \in Nat /\ intents[r].expected.sequence \in Nat
      BY <2>2 DEF Record
    <3>3. intents[r].state = "aborted" => intents[r] # Absent
      BY <2>2, StatesOfIntents
    <3>4. intents[r].state = "committed" => \E i \in Commits(log) : log[i].request = r
      BY <1>2, <1>3 DEF Matched
    <3>5. intents[r] # Absent => intents[r].predecessor <= Len(log)
      BY <1>2, <1>3, <1>4, <3>2
    <3>6. intents[r].state = "aborted" =>
            Cardinality(Commits(log)) > intents[r].expected.sequence
      BY <1>2, <1>3, <1>4, <3>2, <3>3
    <3>7. QED
      BY <2>2, <2>3, <3>1, <3>4, <3>5, <3>6 DEF Kept
  <2>4. CASE intents[r].state = "pending" /\ \E i \in Unwitnessed : log[i].request = r
    <3>1. PICK i \in Unwitnessed : log[i].request = r
      BY <2>4
    <3>2. intents[r] \in Record /\ intents[r] # Absent
      BY <2>2, <2>4, StatesOfIntents
    <3>3. Reconciled[r] = [intents[r] EXCEPT !.state = "committed", !.receipt = log[i].id]
      BY <1>2, <2>4, <3>1, CommitIs, ReconciledIs
    <3>4. log[i].id \in Nat /\ i \in Commits(log)
      BY <1>4, <1>5, <3>1
    <3>5. /\ Reconciled[r] \in Record /\ Reconciled[r].state = "committed"
          /\ Reconciled[r].expected = intents[r].expected
          /\ Reconciled[r].epoch = intents[r].epoch
          /\ Reconciled[r].predecessor = intents[r].predecessor
      BY <3>2, <3>3, <3>4 DEF Record
    <3>6. intents[r].predecessor \in Nat /\ intents[r].predecessor <= Len(history)
      BY <1>2, <3>2 DEF Record
    <3>7. Reconciled[r] # Absent
      BY <3>5, StatesOfIntents
    <3>8. Kept(intents[r], Reconciled[r])
      BY <2>4, <3>5, <3>7 DEF Kept
    <3>9. QED
      BY <1>3, <1>4, <2>4, <3>1, <3>4, <3>5, <3>6, <3>8
  <2>5. CASE intents[r].state = "pending" /\ ~\E i \in Unwitnessed : log[i].request = r
    <3>1. intents[r] \in Record /\ intents[r] # Absent
      BY <2>2, <2>5, StatesOfIntents
    <3>2. intents[r].predecessor \in Nat /\ intents[r].predecessor <= Len(history)
      BY <1>2, <3>1 DEF Record
    <3>3. CASE Reconciled[r] = intents[r]
      BY <1>3, <1>4, <2>5, <3>1, <3>2, <3>3 DEF Kept
    <3>4. CASE Superseded(intents[r]) /\ Reconciled[r] = [intents[r] EXCEPT !.state = "aborted"]
      <4>1. /\ Reconciled[r] \in Record /\ Reconciled[r].state = "aborted"
            /\ Reconciled[r].expected = intents[r].expected
            /\ Reconciled[r].epoch = intents[r].epoch
            /\ Reconciled[r].predecessor = intents[r].predecessor
        BY <3>1, <3>4 DEF Record
      <4>2. Reconciled[r] # Absent
        BY <4>1, StatesOfIntents
      <4>3. Kept(intents[r], Reconciled[r])
        BY <2>5, <4>1, <4>2 DEF Kept
      <4>4. Cardinality(Commits(log)) > intents[r].expected.sequence
        BY <3>4 DEF Superseded, Sequence
      <4>5. QED
        BY <1>3, <1>4, <3>2, <4>1, <4>3, <4>4
    <3>5. QED
      BY <1>2, <2>5, <3>3, <3>4, ReconciledIs
  <2>6. QED
    BY <2>3, <2>4, <2>5
<1>7. PICK records : records = Reconciled
  OBVIOUS
<1>8. records \in [Requests -> Record \cup {Absent}]
  <2>1. records = [r \in Requests |-> Reconciled[r]]
    BY <1>7 DEF Reconciled
  <2>2. QED
    BY <1>6, <2>1
<1>9. PendingOf(records) \subseteq PendingOf(intents)
  BY <1>6, <1>7 DEF PendingOf
<1>10. IsFiniteSet(PendingOf(records)) /\ Cardinality(PendingOf(records)) <= MaxPending
  <2>1. IsFiniteSet(PendingOf(records)) /\ Cardinality(PendingOf(records)) <= Cardinality(PendingOf(intents))
    BY <1>2, <1>9, FS_Subset
  <2>2. Cardinality(PendingOf(records)) \in Nat /\ Cardinality(PendingOf(intents)) \in Nat
    BY <1>2, <2>1, FS_CardinalityType
  <2>3. QED
    BY <1>2, <2>1, <2>2, WitnessAssumption
<1>11. \A i \in Commits(log) :
         LET record == records[log[i].request] IN
         /\ record.state = "committed" /\ record.receipt = log[i].id
         /\ record.expected = log[i].expected /\ record.epoch = log[i].epoch
         /\ record.predecessor < i
  <2>1. TAKE i \in Commits(log)
  <2>2. PICK r \in Requests : r = log[i].request
    BY <1>4
  <2>3. CASE i <= Len(history)
    <3>1. i \in Commits(history) /\ log[i] = history[i]
      BY <1>3, <2>3
    <3>2. /\ intents[r].state = "committed" /\ intents[r].receipt = log[i].id
          /\ intents[r].expected = log[i].expected /\ intents[r].epoch = log[i].epoch
          /\ intents[r].predecessor < i
      BY <1>2, <2>2, <3>1 DEF Matched
    <3>3. records[r] = intents[r]
      BY <1>2, <1>7, <3>2, ReconciledIs
    <3>4. QED
      BY <2>2, <3>2, <3>3
  <2>4. CASE ~(i <= Len(history))
    <3>1. i \in Unwitnessed
      BY <1>4, <2>4 DEF Unwitnessed
    <3>2. /\ intents[r].state = "pending" /\ intents[r].expected = log[i].expected
          /\ intents[r].epoch = log[i].epoch /\ intents[r].predecessor < i
      BY <2>2, <3>1 DEF Covered
    <3>3. intents[r] \in Record
      BY <1>2, <3>2, StatesOfIntents
    <3>4. records[r] = [intents[r] EXCEPT !.state = "committed", !.receipt = log[i].id]
      BY <1>2, <1>7, <2>2, <3>1, <3>2, CommitIs, ReconciledIs
    <3>5. /\ records[r].state = "committed" /\ records[r].receipt = log[i].id
          /\ records[r].expected = intents[r].expected /\ records[r].epoch = intents[r].epoch
          /\ records[r].predecessor = intents[r].predecessor
      BY <3>3, <3>4 DEF Record
    <3>6. QED
      BY <2>2, <3>2, <3>5
  <2>5. QED
    BY <2>3, <2>4
<1>12. Matched(log, records)
  BY <1>6, <1>7, <1>11 DEF Matched
<1>13. GoodRecords(log, records)
  BY <1>6, <1>7, <1>8, <1>10, <1>12 DEF GoodRecords
<1>14. QED
  BY <1>6, <1>7, <1>13 DEF IntentsKept

(* A new intent.                                                           *)
LEMMA IntentGood ==
  ASSUME NEW h, GoodLog(h), NEW records, GoodRecords(h, records),
         NEW r \in Requests, records[r] = Absent,
         Cardinality(PendingOf(records)) < MaxPending,
         NEW n \in Record, n.state = "pending", n.predecessor <= Len(h)
  PROVE  /\ GoodRecords(h, [records EXCEPT ![r] = n])
         /\ IntentsKept(records, [records EXCEPT ![r] = n])
<1>1. PICK more : more = [records EXCEPT ![r] = n]
  OBVIOUS
<1>2. /\ records \in [Requests -> Record \cup {Absent}] /\ Matched(h, records)
      /\ IsFiniteSet(PendingOf(records))
  BY DEF GoodRecords
<1>3. /\ more \in [Requests -> Record \cup {Absent}] /\ more[r] = n
      /\ \A q \in Requests : q # r => more[q] = records[q]
  BY <1>1, <1>2
<1>4. r \notin PendingOf(records)
  BY StatesOfIntents DEF PendingOf, Absent
<1>5. PendingOf(more) = PendingOf(records) \cup {r}
  BY <1>3 DEF PendingOf
<1>6. /\ IsFiniteSet(PendingOf(more))
      /\ Cardinality(PendingOf(more)) = Cardinality(PendingOf(records)) + 1
  BY <1>2, <1>4, <1>5, FS_AddElement
<1>7. Cardinality(PendingOf(records)) \in Nat
  BY <1>2, FS_CardinalityType
<1>8. Cardinality(PendingOf(more)) <= MaxPending
  BY <1>6, <1>7, WitnessAssumption
<1>9. h \in Seq(Event)
  BY DEF GoodLog
<1>10. records[r].state = "absent"
  BY DEF Absent
<1>11. Matched(h, more)
  <2>1. \A i \in Commits(h) : h[i].request \in Requests /\ h[i].request # r
    BY <1>2, <1>9, <1>10, HistoryIs DEF Matched
  <2>2. \A i \in Commits(h) : more[h[i].request] = records[h[i].request]
    BY <1>3, <2>1
  <2>3. \A q \in Requests : more[q].state = "committed" => q # r
    BY <1>3
  <2>4. QED
    BY <1>2, <1>3, <2>2, <2>3 DEF Matched
<1>12. \A q \in Requests : more[q].state = "aborted" =>
         Cardinality(Commits(h)) > more[q].expected.sequence
  BY <1>3 DEF GoodRecords
<1>13. \A q \in Requests : more[q] # Absent => more[q].predecessor <= Len(h)
  BY <1>3 DEF GoodRecords
<1>14. GoodRecords(h, more)
  BY <1>3, <1>6, <1>8, <1>11, <1>12, <1>13 DEF GoodRecords
<1>15. IntentsKept(records, more)
  BY <1>3 DEF IntentsKept, Kept
<1>16. QED
  BY <1>1, <1>14, <1>15
-----------------------------------------------------------------------------
(* What the invariant says of the properties.                              *)
LEMMA HeadsAre ==
  ASSUME RegistryOK
  PROVE  /\ Broker = BrokerOf(log) /\ LastCommit = LastOf(log)
         /\ Sequence = Cardinality(Commits(log)) /\ Epoch = Cardinality(Activations(log))
         /\ Sequence \in Nat /\ Epoch \in Nat /\ LastCommit \in Nat
         /\ log \in Seq(Event) /\ Len(log) \in Nat
<1>1. log \in Seq(Event)
  BY DEF RegistryOK, GoodLog
<1>2. QED
  BY <1>1, HistoryIs, LastIs DEF Broker, BrokerOf, LastCommit, LastOf, Sequence, Epoch

LEMMA InvariantTypeOK ==
  ASSUME IInv
  PROVE  TypeOK
<1>1. log \in Seq(Event) /\ prepared \subseteq Content /\ Sequence <= Capacity
  BY DEF IInv, RegistryOK, GoodLog, Sequence
<1>2. /\ pins \in Seq(Nat) /\ Len(pins) \in 1..MaxRevisions /\ history \in Seq(Event)
      /\ intents \in [Requests -> Record \cup {Absent}]
      /\ Cardinality(PendingOf(intents)) <= MaxPending
  BY DEF IInv, WitnessOK, GoodLog, GoodRecords
<1>3. floor.pin \in Pin /\ floor.intents \in [Requests -> Record \cup {Absent}]
  <2>1. floor.pin = [revision |-> floor.pin.revision, id |-> floor.pin.id]
    BY DEF IInv, FloorOK
  <2>2. QED
    BY <2>1 DEF IInv, FloorOK, Pin
<1>4. \A p \in Processes :
        /\ server[p].state \in {"down", "registry", "witness"}
        /\ server[p].state = "witness" => server[p].pin \in Pin
        /\ call[p] = Idle \/ call[p] \in [pc : {"observed", "intended", "charged"}, content : Content]
        /\ call[p] # Idle => server[p].state = "witness"
  <2>1. TAKE p \in Processes
  <2>2. server[p] \in {Down} \cup UpRegistry \cup UpWitness /\ call[p] \in {Idle} \cup Calls
    BY DEF IInv, ProcessOK
  <2>3. call[p] # Idle => server[p].state = "witness"
    BY DEF IInv, ProcessOK
  <2>4. QED
    BY <2>2, <2>3 DEF UpRegistry, UpWitness, Calls, Down
<1>5. returned \subseteq [request : Requests, receipt : Nat]
  BY DEF IInv, ReturnedOK
<1>6. QED
  BY <1>1, <1>2, <1>3, <1>4, <1>5 DEF TypeOK

LEMMA InvariantHistory ==
  ASSUME IInv
  PROVE  HistoryMatchesIntents
BY DEF IInv, WitnessOK, GoodRecords, Matched, HistoryMatchesIntents

LEMMA InvariantAborts ==
  ASSUME IInv
  PROVE  AbortIsIrreversible
<1> SUFFICES ASSUME Extends, NEW r \in Requests, intents[r].state = "aborted",
                    NEW i \in Commits(log), log[i].request = r,
                    log[i].expected = intents[r].expected
             PROVE  FALSE
  BY DEF AbortIsIrreversible
<1>1. GoodLog(log) /\ GoodLog(history) /\ GoodRecords(history, intents)
  BY DEF IInv, RegistryOK, WitnessOK
<1>2. log \in Seq(Event) /\ history \in Seq(Event) /\ StartsWith(log, history)
  BY <1>1 DEF GoodLog, Extends, StartsWith
<1>3. /\ \A j \in Commits(history) : j \in Commits(log) /\ log[j] = history[j]
      /\ \A j \in Commits(log) : j <= Len(history) => j \in Commits(history) /\ log[j] = history[j]
  BY <1>2, KeptCommits
<1>4. Cardinality(Commits(history)) > Cardinality(Before(log, i))
  BY <1>1 DEF GoodRecords, GoodLog
<1>5. /\ IsFiniteSet(Commits(log)) /\ Commits(log) \subseteq 1..Len(log) /\ Len(log) \in Nat
      /\ Len(history) \in Nat /\ Commits(history) \subseteq 1..Len(history)
      /\ Cardinality(Commits(history)) \in Nat
  BY <1>2, HistoryIs
<1>6. CASE i <= Len(history)
  <2>1. i \in Commits(history) /\ history[i].request = r
    BY <1>3, <1>6
  <2>2. QED
    BY <1>1, <2>1 DEF GoodRecords, Matched
<1>7. CASE ~(i <= Len(history))
  <2>1. Commits(history) \subseteq Before(log, i)
    BY <1>3, <1>5, <1>7 DEF Before
  <2>2. Before(log, i) \subseteq Commits(log)
    BY DEF Before
  <2>3. IsFiniteSet(Before(log, i))
    BY <1>5, <2>2, FS_Subset
  <2>4. Cardinality(Commits(history)) <= Cardinality(Before(log, i))
    BY <2>1, <2>3, FS_Subset
  <2>5. Cardinality(Before(log, i)) \in Nat
    BY <2>3, FS_CardinalityType
  <2>6. QED
    BY <1>4, <1>5, <2>4, <2>5
<1>8. QED
  BY <1>6, <1>7

LEMMA InvariantDurable ==
  ASSUME IInv
  PROVE  WitnessedIsDurable
<1>1. Retained(floor.pin) => IntentsKept(floor.intents, intents)
  BY DEF IInv, FloorOK, Retained, Has
<1>2. \A x \in returned :
        /\ x \in [request : Requests, receipt : Nat]
        /\ floor.intents[x.request].state = "committed" /\ floor.intents[x.request].receipt = x.receipt
  BY DEF IInv, ReturnedOK
<1>3. \A x \in returned : floor.intents[x.request] # Absent
  BY <1>2 DEF Absent
<1>4. \A x, y \in returned : x.request = y.request => x = y
  <2>1. \A x, y \in returned : x.request = y.request => x.receipt = y.receipt
    BY <1>2
  <2>2. QED
    BY <1>2, <2>1
<1>5. Retained(floor.pin) => \A x \in returned : /\ intents[x.request].state = "committed"
                                                /\ intents[x.request].receipt = x.receipt
  BY <1>1, <1>2, <1>3 DEF IntentsKept, Kept
<1>6. QED
  BY <1>4, <1>5 DEF WitnessedIsDurable
-----------------------------------------------------------------------------
(* The invariant holds initially.                                          *)
LEMMA InvariantInit ==
  ASSUME Init
  PROVE  IInv
<1>1. /\ log = <<[id |-> 1, kind |-> "created"], [id |-> 2, kind |-> "activated"]>>
      /\ prepared = {} /\ pins = <<3>> /\ history = log
      /\ intents = [r \in Requests |-> Absent]
      /\ floor = [pin |-> [revision |-> 1, id |-> 3], intents |-> intents]
      /\ call = [p \in Processes |-> Idle]
      /\ returned = {} /\ ids = 3
      /\ backup = [registry |-> log, witness |-> <<pins, history, intents>>]
  BY DEF Init, witness
<1>2. PICK q \in Processes :
        server = [[p \in Processes |-> Down] EXCEPT ![q] =
                   [state |-> "registry", broker |-> 2, epoch |-> 1]]
  BY DEF Init
<1>3. /\ log \in Seq(Event) /\ Len(log) = 2
      /\ log[1] = [id |-> 1, kind |-> "created"] /\ log[2] = [id |-> 2, kind |-> "activated"]
  BY <1>1 DEF Event
<1>4. Commits(log) = {} /\ Activations(log) = {2}
  BY <1>3 DEF Commits, Activations
<1>5. GoodLog(log)
  BY <1>3, <1>4, FS_EmptySet, WitnessAssumption DEF GoodLog
<1>6. PendingOf(intents) = {}
  BY <1>1 DEF PendingOf, Absent
<1>7. GoodRecords(log, intents)
  <2>1. \A r \in Requests : intents[r] = Absent /\ intents[r].state = "absent"
    BY <1>1 DEF Absent
  <2>2. intents \in [Requests -> Record \cup {Absent}]
    BY <1>1
  <2>3. Matched(log, intents)
    BY <1>4, <2>1 DEF Matched
  <2>4. QED
    BY <1>6, <2>1, <2>2, <2>3, FS_EmptySet, WitnessAssumption DEF GoodRecords
<1>8. pins \in Seq(Nat) /\ Len(pins) = 1 /\ pins[1] = 3
  BY <1>1
<1>9. Len(pins) \in 1..MaxRevisions
  BY <1>8, WitnessAssumption
<1>10. /\ backup.registry = log /\ backup.witness = <<pins, log, intents>>
       /\ backup.witness[1] = pins /\ backup.witness[2] = log /\ backup.witness[3] = intents
  BY <1>1
<1>11. RegistryOK
  BY <1>1, <1>3, <1>4, <1>5, <1>10 DEF RegistryOK, StartsWith
<1>12. WitnessOK
  BY <1>1, <1>5, <1>7, <1>8, <1>9, <1>10, KeptSame DEF WitnessOK, StartsWith
<1>13. FloorOK
  <2>1. intents \in [Requests -> Record \cup {Absent}]
    BY <1>1
  <2>2. QED
    BY <1>1, <1>10, <2>1, KeptSame DEF FloorOK
<1>14. ProcessOK
  <2>1. \A p \in Processes : server[p] = Down \/ server[p] = [state |-> "registry", broker |-> 2, epoch |-> 1]
    BY <1>2
  <2>2. server \in [Processes -> {Down} \cup UpRegistry \cup UpWitness]
    BY <1>2 DEF UpRegistry
  <2>3. Epoch = 1
    BY <1>4, FS_Singleton DEF Epoch
  <2>4. call \in [Processes -> {Idle} \cup Calls] /\ \A p \in Processes : call[p] = Idle
    BY <1>1
  <2>5. \A p \in Processes : server[p].state # "witness"
    BY <2>1 DEF Down
  <2>6. QED
    BY <1>1, <2>1, <2>2, <2>3, <2>4, <2>5 DEF ProcessOK, Idle
<1>15. ChargedOnlyAfterCheckpoint /\ ReturnedOK
  BY <1>1, <1>4 DEF ChargedOnlyAfterCheckpoint, ReturnedOK
<1>16. QED
  BY <1>1, <1>11, <1>12, <1>13, <1>14, <1>15 DEF IInv
-----------------------------------------------------------------------------
(* A write of the registry: the witness and the sink are as they were.     *)
LEMMA RegistryWrites ==
  ASSUME IInv, NEW e \in Event, log' = Append(log, e), GoodLog(log'), Activations(log') # {},
         ids' = ids + 1, UNCHANGED <<prepared, witness, floor, returned, backup>>
  PROVE  RegistryOK' /\ WitnessOK' /\ FloorOK' /\ ReturnedOK' /\ ids' \in Nat
<1>1. /\ pins' = pins /\ history' = history /\ intents' = intents /\ floor' = floor
      /\ returned' = returned /\ backup' = backup /\ prepared' = prepared
  BY DEF witness
<1>2. ids \in Nat /\ ids' \in Nat /\ ids <= ids'
  BY DEF IInv
<1>3. RegistryOK'
  <2>1. log \in Seq(Event) /\ backup.registry \in Seq(Event) /\ StartsWith(log, backup.registry)
    BY DEF IInv, RegistryOK, GoodLog
  <2>2. /\ Len(log) \in Nat /\ Len(backup.registry) \in Nat /\ Len(backup.registry) <= Len(log)
        /\ \A i \in 1..Len(backup.registry) : log[i] = backup.registry[i]
    BY <2>1 DEF StartsWith
  <2>3. Len(log') = Len(log) + 1 /\ \A i \in 1..Len(log) : log'[i] = log[i]
    BY <2>1, AppendIs
  <2>4. 1..Len(backup.registry) \subseteq 1..Len(log)
    BY <2>2
  <2>5. StartsWith(log', backup.registry)
    BY <2>2, <2>3, <2>4 DEF StartsWith
  <2>6. QED
    BY <1>1, <2>5 DEF IInv, RegistryOK
<1>4. WitnessOK'
  <2>1. \A i \in 1..Len(pins) : pins[i] <= ids' /\ pins[i] \in Nat
    BY <1>2 DEF IInv, WitnessOK
  <2>2. QED
    BY <1>1, <2>1 DEF IInv, WitnessOK
<1>5. FloorOK'
  <2>1. floor.pin.id <= ids'
    BY <1>2 DEF IInv, FloorOK
  <2>2. QED
    BY <1>1, <2>1 DEF IInv, FloorOK
<1>6. ReturnedOK'
  BY <1>1 DEF IInv, ReturnedOK
<1>7. QED
  BY <1>2, <1>3, <1>4, <1>5, <1>6

LEMMA ActivateKeeps ==
  ASSUME IInv, NEW p \in Processes, Activate(p)
  PROVE  IInv'
<1> DEFINE e == [id |-> ids + 1, kind |-> "activated"]
<1>1. /\ server[p] = Down /\ ids' = ids + 1 /\ log' = Append(log, e)
      /\ server' = [server EXCEPT ![p] =
            [state |-> "registry", broker |-> ids + 1, epoch |-> Epoch + 1]]
      /\ pins' = pins /\ floor' = floor /\ call' = call
      /\ UNCHANGED <<prepared, witness, floor, returned, backup>>
  BY DEF Activate, witness
<1>2. ids \in Nat /\ e \in Event /\ e.kind = "activated" /\ e.id = ids + 1
  BY DEF IInv, Event
<1>3. GoodLog(log) /\ log \in Seq(Event) /\ Len(log) \in Nat
  BY DEF IInv, RegistryOK, GoodLog
<1>4. GoodLog(log') /\ Activations(log') # {}
  BY <1>1, <1>2, <1>3, GoodAfterActivation
<1>5. RegistryOK' /\ WitnessOK' /\ FloorOK' /\ ReturnedOK' /\ ids' \in Nat
  BY <1>1, <1>2, <1>4, RegistryWrites
<1>6. /\ Epoch \in Nat /\ Epoch = Cardinality(Activations(log))
  BY HeadsAre DEF IInv
<1>7. /\ BrokerOf(log') = ids + 1
      /\ Cardinality(Activations(log')) = Epoch + 1
  BY <1>1, <1>2, <1>3, <1>6, BrokerAfterActivation
<1>8. Broker' = ids + 1 /\ Epoch' = Epoch + 1
  BY <1>7 DEF Broker, BrokerOf, Epoch
<1>9. Commits(log') = Commits(log) /\ \A i \in Commits(log) : log'[i] = log[i]
  BY <1>1, <1>2, <1>3, AppendOther, AppendIs, HistoryIs
<1>10. ChargedOnlyAfterCheckpoint'
  BY <1>1, <1>9 DEF IInv, ChargedOnlyAfterCheckpoint, Covers
<1>11. ProcessOK'
  <2>1. /\ server \in [Processes -> {Down} \cup UpRegistry \cup UpWitness]
        /\ call \in [Processes -> {Idle} \cup Calls]
    BY DEF IInv, ProcessOK
  <2>2. [state |-> "registry", broker |-> ids + 1, epoch |-> Epoch + 1] \in UpRegistry
    BY <1>2, <1>6 DEF UpRegistry
  <2>3. server' \in [Processes -> {Down} \cup UpRegistry \cup UpWitness]
    BY <1>1, <2>1, <2>2
  <2>4. call[p] = Idle
    BY <1>1 DEF IInv, ProcessOK, Down
  <2>5. \A q \in Processes :
          /\ server'[q] # Down =>
               server'[q].broker <= ids' /\ (server'[q].broker = Broker' => server'[q].epoch = Epoch')
          /\ server'[q].state = "witness" => Has(pins', floor'.pin)
          /\ call'[q] # Idle => server'[q].state = "witness"
          /\ call'[q].pc = "intended" => Intended(q)'
    <3>1. TAKE q \in Processes
    <3>2. CASE q = p
      <4>1. server'[q] = [state |-> "registry", broker |-> ids + 1, epoch |-> Epoch + 1]
        BY <1>1, <2>1, <3>2
      <4>2. call'[q] = Idle
        BY <1>1, <2>4, <3>2
      <4>3. QED
        BY <1>1, <1>2, <1>8, <4>1, <4>2 DEF Idle
    <3>3. CASE q # p
      <4>1. server'[q] = server[q] /\ call'[q] = call[q]
        BY <1>1, <2>1, <3>3
      <4>2. server[q] # Down => server[q].broker <= ids /\ server[q].broker \in Nat
        BY <2>1 DEF IInv, ProcessOK, UpRegistry, UpWitness
      <4>3. Len(log) <= Len(log') /\ Len(log') \in Nat
        BY <1>1, <1>2, <1>3, AppendIs
      <4>4. call'[q].pc = "intended" => Intended(q)'
        <5>1. HAVE call'[q].pc = "intended"
        <5>2. Intended(q)
          BY <4>1, <5>1 DEF IInv, ProcessOK
        <5>3. PICK r : r = call[q].content.request
          OBVIOUS
        <5>4. call[q] \in Calls
          BY <2>1, <4>1, <5>1 DEF Idle
        <5>5. r \in Requests
          BY <5>3, <5>4 DEF Calls, Content
        <5>6. floor.intents[r].predecessor \in Nat
          BY <5>2, <5>3, <5>5 DEF IInv, FloorOK, Intended, Record
        <5>7. QED
          BY <1>1, <1>3, <4>1, <4>3, <5>2, <5>3, <5>6 DEF Intended
      <4>5. QED
        BY <1>1, <1>2, <1>8, <4>1, <4>2, <4>4 DEF IInv, ProcessOK
    <3>4. QED
      BY <3>2, <3>3
  <2>6. QED
    BY <1>1, <2>1, <2>3, <2>5 DEF ProcessOK
<1>12. QED
  BY <1>5, <1>10, <1>11 DEF IInv

(* A charge, by the witness service or around it.                          *)
LEMMA ChargeWrites ==
  ASSUME IInv, NEW p \in Processes, NEW content \in Content, NEW flag \in BOOLEAN,
         Receipts(content.request) = {}, Charge(p, content.request, content.expected, flag),
         UNCHANGED <<prepared, witness, floor, returned, backup>>
  PROVE  /\ RegistryOK' /\ WitnessOK' /\ FloorOK' /\ ReturnedOK' /\ ids' \in Nat
         /\ Broker' = Broker /\ Epoch' = Epoch /\ ids <= ids' /\ ids \in Nat
         /\ Len(log') = Len(log) + 1 /\ Len(log) \in Nat
         /\ Commits(log') = Commits(log) \cup {Len(log) + 1}
         /\ \A i \in Commits(log) : log'[i] = log[i]
         /\ log'[Len(log) + 1].request = content.request
         /\ log'[Len(log) + 1].expected = content.expected
         /\ log'[Len(log) + 1].epoch = server[p].epoch
         /\ log'[Len(log) + 1].witnessed = flag
<1> DEFINE e == [id |-> ids + 1, kind |-> "committed", request |-> content.request,
                 expected |-> content.expected, epoch |-> server[p].epoch, witnessed |-> flag]
<1>1. /\ RequireBroker(p) /\ content.expected = AccountHead /\ Sequence < Capacity
      /\ ids' = ids + 1 /\ log' = Append(log, e)
  BY DEF Charge
<1>2. /\ GoodLog(log) /\ Activations(log) # {} /\ log \in Seq(Event) /\ Len(log) \in Nat
      /\ ids \in Nat
  BY DEF IInv, RegistryOK, GoodLog
<1>3. server[p].epoch \in Nat
  BY <1>1 DEF IInv, ProcessOK, RequireBroker, UpRegistry, UpWitness, Down
<1>4. content.request \in Requests /\ content.expected \in [sequence : Nat, head : Nat]
  BY DEF Content
<1>5. e \in Event /\ e.kind = "committed" /\ e.request = content.request
  BY <1>2, <1>3, <1>4 DEF Event
<1>6. \A i \in Commits(log) : log[i].request # content.request
  BY DEF Receipts
<1>7. content.expected.sequence = Sequence /\ Sequence = Cardinality(Commits(log))
  BY <1>1 DEF AccountHead, Sequence
<1>8. GoodLog(log')
  <2>1. e.expected.sequence = Cardinality(Commits(log)) /\ Cardinality(Commits(log)) < Capacity
    BY <1>1, <1>7
  <2>2. QED
    BY <1>1, <1>2, <1>5, <1>6, <2>1, GoodAfterCommit
<1>9. BrokerOf(log') = BrokerOf(log) /\ Activations(log') = Activations(log)
  BY <1>1, <1>2, <1>5, BrokerAfterCommit
<1>10. RegistryOK' /\ WitnessOK' /\ FloorOK' /\ ReturnedOK' /\ ids' \in Nat
  BY <1>1, <1>2, <1>5, <1>8, <1>9, RegistryWrites
<1>11. Broker' = Broker /\ Epoch' = Epoch
  BY <1>9 DEF Broker, BrokerOf, Epoch
<1>12. /\ Len(log') = Len(log) + 1 /\ log'[Len(log) + 1] = e
       /\ \A i \in Commits(log) : log'[i] = log[i]
  BY <1>1, <1>2, <1>5, AppendIs, HistoryIs
<1>13. Commits(log') = Commits(log) \cup {Len(log) + 1}
  BY <1>1, <1>2, <1>5, AppendSame
<1>14. /\ log'[Len(log) + 1].request = content.request
       /\ log'[Len(log) + 1].expected = content.expected
       /\ log'[Len(log) + 1].epoch = server[p].epoch
       /\ log'[Len(log) + 1].witnessed = flag
  BY <1>12
<1>15. ids <= ids'
  BY <1>1, <1>2
<1>16. QED
  BY <1>2, <1>10, <1>11, <1>12, <1>13, <1>14, <1>15

(* What every process still has when the registry grew and no broker came. *)
LEMMA ProcessesKeep ==
  ASSUME IInv, Broker' = Broker, Epoch' = Epoch, ids <= ids', ids' \in Nat, ids \in Nat,
         Len(log) <= Len(log'), Len(log) \in Nat, Len(log') \in Nat,
         pins' = pins, floor' = floor, server' = server,
         call' \in [Processes -> {Idle} \cup Calls],
         \A q \in Processes : call'[q] = call[q] \/ (call[q] # Idle /\ call'[q].pc = "charged")
  PROVE  ProcessOK'
<1>1. /\ server \in [Processes -> {Down} \cup UpRegistry \cup UpWitness]
      /\ call \in [Processes -> {Idle} \cup Calls]
  BY DEF IInv, ProcessOK
<1>2. \A q \in Processes :
        /\ server'[q] # Down =>
             server'[q].broker <= ids' /\ (server'[q].broker = Broker' => server'[q].epoch = Epoch')
        /\ server'[q].state = "witness" => Has(pins', floor'.pin)
        /\ call'[q] # Idle => server'[q].state = "witness"
        /\ call'[q].pc = "intended" => Intended(q)'
  <2>1. TAKE q \in Processes
  <2>2. server[q] # Down => server[q].broker <= ids /\ server[q].broker \in Nat
    BY <1>1 DEF IInv, ProcessOK, UpRegistry, UpWitness
  <2>3. call'[q].pc = "intended" => Intended(q)'
    <3>1. HAVE call'[q].pc = "intended"
    <3>2. call'[q] = call[q] /\ Intended(q)
      BY <3>1 DEF IInv, ProcessOK
    <3>3. PICK r : r = call[q].content.request
      OBVIOUS
    <3>4. call[q] \in Calls
      BY <1>1, <3>1, <3>2 DEF Idle
    <3>5. r \in Requests
      BY <3>3, <3>4 DEF Calls, Content
    <3>6. floor.intents[r].predecessor \in Nat
      BY <3>2, <3>3, <3>5 DEF IInv, FloorOK, Intended, Record
    <3>7. QED
      BY <3>2, <3>3, <3>6 DEF Intended
  <2>4. call'[q] # Idle => call[q] # Idle
    OBVIOUS
  <2>5. QED
    BY <2>2, <2>3, <2>4 DEF IInv, ProcessOK
<1>3. QED
  BY <1>1, <1>2 DEF ProcessOK

LEMMA DirectCommitKeeps ==
  ASSUME IInv, NEW p \in Processes, NEW content \in prepared, DirectCommit(p, content)
  PROVE  IInv'
<1>1. /\ Receipts(content.request) = {}
      /\ Charge(p, content.request, content.expected, FALSE)
      /\ UNCHANGED <<prepared, witness, floor, returned, backup>>
      /\ pins' = pins /\ floor' = floor /\ server' = server /\ call' = call
  BY DEF DirectCommit, process, witness
<1>2. content \in Content
  BY DEF IInv, RegistryOK
<1>3. /\ RegistryOK' /\ WitnessOK' /\ FloorOK' /\ ReturnedOK' /\ ids' \in Nat
      /\ Broker' = Broker /\ Epoch' = Epoch /\ ids <= ids' /\ ids \in Nat
      /\ Len(log') = Len(log) + 1 /\ Len(log) \in Nat
      /\ Commits(log') = Commits(log) \cup {Len(log) + 1}
      /\ \A i \in Commits(log) : log'[i] = log[i]
      /\ log'[Len(log) + 1].witnessed = FALSE
  BY <1>1, <1>2, ChargeWrites
<1>4. ProcessOK'
  <2>1. call \in [Processes -> {Idle} \cup Calls]
    BY DEF IInv, ProcessOK
  <2>2. Len(log) <= Len(log') /\ Len(log') \in Nat
    BY <1>3
  <2>3. QED
    BY <1>1, <1>3, <2>1, <2>2, ProcessesKeep
<1>5. ChargedOnlyAfterCheckpoint'
  BY <1>1, <1>3 DEF IInv, ChargedOnlyAfterCheckpoint, Covers
<1>6. QED
  BY <1>3, <1>4, <1>5 DEF IInv

LEMMA CommitRegistryKeeps ==
  ASSUME IInv, NEW p \in Processes, CommitRegistry(p)
  PROVE  IInv'
<1>1. /\ call[p].pc = "intended"
      /\ Charge(p, call[p].content.request, call[p].content.expected, TRUE)
      /\ call' = [call EXCEPT ![p].pc = "charged"]
      /\ UNCHANGED <<prepared, witness, floor, returned, backup>>
      /\ pins' = pins /\ floor' = floor /\ server' = server
  BY DEF CommitRegistry, witness
<1>2. call \in [Processes -> {Idle} \cup Calls] /\ call[p] # Idle /\ call[p] \in Calls
  BY <1>1 DEF IInv, ProcessOK, Idle
<1>3. PICK content \in Content : content = call[p].content
  BY <1>2 DEF Calls
<1>4. call' \in [Processes -> {Idle} \cup Calls] /\ call'[p].pc = "charged"
  <2>1. [call[p] EXCEPT !.pc = "charged"] \in Calls /\ [call[p] EXCEPT !.pc = "charged"].pc = "charged"
    BY <1>2 DEF Calls
  <2>2. call' = [call EXCEPT ![p] = [call[p] EXCEPT !.pc = "charged"]]
    BY <1>1
  <2>3. QED
    BY <1>2, <2>1, <2>2
<1>5. \A q \in Processes : call'[q] = call[q] \/ (call[q] # Idle /\ call'[q].pc = "charged")
  BY <1>1, <1>2, <1>4
<1>6. CASE Receipts(content.request) = {}
  <2>1. /\ RegistryOK' /\ WitnessOK' /\ FloorOK' /\ ReturnedOK' /\ ids' \in Nat
        /\ Broker' = Broker /\ Epoch' = Epoch /\ ids <= ids' /\ ids \in Nat
        /\ Len(log') = Len(log) + 1 /\ Len(log) \in Nat
        /\ Commits(log') = Commits(log) \cup {Len(log) + 1}
        /\ \A i \in Commits(log) : log'[i] = log[i]
        /\ log'[Len(log) + 1].request = content.request
        /\ log'[Len(log) + 1].expected = content.expected
        /\ log'[Len(log) + 1].epoch = server[p].epoch
    BY <1>1, <1>3, <1>6, ChargeWrites
  <2>2. ProcessOK'
    <3>1. Len(log) <= Len(log') /\ Len(log') \in Nat
      BY <2>1
    <3>2. QED
      BY <1>1, <1>4, <1>5, <2>1, <3>1, ProcessesKeep
  <2>3. Intended(p)
    BY <1>1 DEF IInv, ProcessOK
  <2>4. floor.intents[content.request].predecessor \in Nat
    BY <1>3, <2>3 DEF IInv, FloorOK, Intended, Record, Content
  <2>5. \A i \in Commits(log') : log'[i].witnessed =>
          /\ floor'.intents[log'[i].request] # Absent
          /\ floor'.intents[log'[i].request].expected = log'[i].expected
          /\ floor'.intents[log'[i].request].epoch = log'[i].epoch
          /\ floor'.intents[log'[i].request].predecessor < i
    <3>1. \A i \in Commits(log) : log[i].witnessed =>
            /\ floor.intents[log[i].request] # Absent
            /\ floor.intents[log[i].request].expected = log[i].expected
            /\ floor.intents[log[i].request].epoch = log[i].epoch
            /\ floor.intents[log[i].request].predecessor < i
      BY DEF IInv, ChargedOnlyAfterCheckpoint, Covers
    <3>2. /\ floor.intents[content.request] # Absent
          /\ floor.intents[content.request].expected = content.expected
          /\ floor.intents[content.request].epoch = server[p].epoch
          /\ floor.intents[content.request].predecessor < Len(log) + 1
      BY <1>3, <2>1, <2>3, <2>4 DEF Intended
    <3>3. QED
      BY <1>1, <2>1, <3>1, <3>2
  <2>6. ChargedOnlyAfterCheckpoint'
    BY <2>5 DEF ChargedOnlyAfterCheckpoint, Covers
  <2>7. QED
    BY <2>1, <2>2, <2>6 DEF IInv
<1>7. CASE Receipts(content.request) # {}
  <2>1. log' = log /\ ids' = ids
    BY <1>1, <1>3, <1>7 DEF Charge
  <2>2. /\ prepared' = prepared /\ pins' = pins /\ history' = history /\ intents' = intents
        /\ floor' = floor /\ returned' = returned /\ backup' = backup
    BY <1>1 DEF witness
  <2>3. RegistryOK' /\ WitnessOK' /\ FloorOK' /\ ReturnedOK' /\ ids' \in Nat
    BY <2>1, <2>2 DEF IInv, RegistryOK, WitnessOK, FloorOK, ReturnedOK
  <2>4. ChargedOnlyAfterCheckpoint'
    BY <2>1, <2>2 DEF IInv, ChargedOnlyAfterCheckpoint, Commits, Covers
  <2>5. Broker' = Broker /\ Epoch' = Epoch
    BY <2>1 DEF Broker, Epoch
  <2>6. ids \in Nat /\ Len(log) \in Nat
    BY HeadsAre DEF IInv
  <2>7. ProcessOK'
    BY <1>1, <1>4, <1>5, <2>1, <2>5, <2>6, ProcessesKeep
  <2>8. QED
    BY <2>3, <2>4, <2>7 DEF IInv
<1>8. QED
  BY <1>6, <1>7
-----------------------------------------------------------------------------
(* Steps of the processes that leave databases and sink alone.             *)
LEMMA ProcessesOnly ==
  ASSUME IInv, prepared' \subseteq Content,
         UNCHANGED <<log, witness, floor, returned, backup, ids>>,
         server' \in [Processes -> {Down} \cup UpRegistry \cup UpWitness],
         call' \in [Processes -> {Idle} \cup Calls],
         \A q \in Processes :
           \/ server'[q] = server[q] /\ (call'[q] = call[q] \/ call'[q] = Idle)
           \/ server'[q] = Down /\ call'[q] = Idle
  PROVE  IInv'
<1>1. /\ log' = log /\ pins' = pins /\ history' = history /\ intents' = intents
      /\ floor' = floor /\ returned' = returned /\ backup' = backup /\ ids' = ids
  BY DEF witness
<1>2. RegistryOK' /\ WitnessOK' /\ FloorOK' /\ ReturnedOK' /\ ids' \in Nat
  BY <1>1 DEF IInv, RegistryOK, WitnessOK, FloorOK, ReturnedOK
<1>3. ChargedOnlyAfterCheckpoint'
  BY <1>1 DEF IInv, ChargedOnlyAfterCheckpoint, Commits, Covers
<1>4. Broker' = Broker /\ Epoch' = Epoch
  BY <1>1 DEF Broker, Epoch
<1>5. \A q \in Processes :
        /\ server'[q] # Down =>
             server'[q].broker <= ids' /\ (server'[q].broker = Broker' => server'[q].epoch = Epoch')
        /\ server'[q].state = "witness" => Has(pins', floor'.pin)
        /\ call'[q] # Idle => server'[q].state = "witness"
        /\ call'[q].pc = "intended" => Intended(q)'
  <2>1. TAKE q \in Processes
  <2>2. CASE server'[q] = server[q] /\ call'[q] = call[q]
    BY <1>1, <1>4, <2>2 DEF IInv, ProcessOK, Intended
  <2>3. CASE server'[q] = server[q] /\ call'[q] = Idle
    BY <1>1, <1>4, <2>3 DEF IInv, ProcessOK, Idle
  <2>4. CASE server'[q] = Down /\ call'[q] = Idle
    BY <2>4 DEF Idle, Down
  <2>5. QED
    BY <2>2, <2>3, <2>4
<1>6. ProcessOK'
  BY <1>5 DEF ProcessOK
<1>7. QED
  BY <1>2, <1>3, <1>6 DEF IInv

LEMMA ProcessStepsKeep ==
  ASSUME IInv, NEW p \in Processes,
         Stop(p) \/ Abandon(p) \/ (\E r \in Requests : PrepareRequest(p, r))
  PROVE  IInv'
<1>1. /\ server \in [Processes -> {Down} \cup UpRegistry \cup UpWitness]
      /\ call \in [Processes -> {Idle} \cup Calls] /\ prepared \subseteq Content
  BY DEF IInv, ProcessOK, RegistryOK
<1>2. CASE Stop(p)
  <2>1. /\ UNCHANGED <<prepared, log, witness, floor, returned, backup, ids>>
        /\ server' = [server EXCEPT ![p] = Down] /\ call' = [call EXCEPT ![p] = Idle]
    BY <1>2 DEF Stop, registry
  <2>2. /\ server' \in [Processes -> {Down} \cup UpRegistry \cup UpWitness]
        /\ call' \in [Processes -> {Idle} \cup Calls] /\ prepared' \subseteq Content
        /\ \A q \in Processes : \/ server'[q] = server[q] /\ call'[q] = call[q]
                                \/ server'[q] = Down /\ call'[q] = Idle
    BY <1>1, <2>1
  <2>3. QED
    BY <2>1, <2>2, ProcessesOnly
<1>3. CASE Abandon(p)
  <2>1. /\ UNCHANGED <<prepared, log, witness, floor, returned, backup, ids, server>>
        /\ call' = [call EXCEPT ![p] = Idle]
    BY <1>3 DEF Abandon, registry
  <2>2. /\ call' \in [Processes -> {Idle} \cup Calls] /\ prepared' \subseteq Content
        /\ \A q \in Processes : call'[q] = call[q] \/ call'[q] = Idle
    BY <1>1, <2>1
  <2>3. QED
    BY <1>1, <2>1, <2>2, ProcessesOnly
<1>4. CASE \E r \in Requests : PrepareRequest(p, r)
  <2>1. PICK r \in Requests : PrepareRequest(p, r)
    BY <1>4
  <2>2. /\ UNCHANGED <<log, witness, floor, returned, backup, ids, server, call>>
        /\ prepared' = prepared \cup {[request |-> r, expected |-> AccountHead]}
    BY <2>1 DEF PrepareRequest, process
  <2>3. AccountHead \in [sequence : Nat, head : Nat]
    BY HeadsAre DEF IInv, AccountHead
  <2>4. prepared' \subseteq Content
    BY <1>1, <2>2, <2>3 DEF Content
  <2>5. QED
    BY <1>1, <2>2, <2>4, ProcessesOnly
<1>5. QED
  BY <1>2, <1>3, <1>4

(* A witness service starts with the newest pin, over a good one.          *)
LEMMA AttachKeeps ==
  ASSUME IInv, NEW p \in Processes, Attach(p)
  PROVE  IInv'
<1>1. /\ server[p].state = "registry" /\ Retained(floor.pin)
      /\ \/ server' = [server EXCEPT ![p] =
              [state |-> "witness", broker |-> server[p].broker,
               epoch |-> server[p].epoch, pin |-> CurrentPin]]
         \/ server' = server
      /\ floor' = [pin |-> CurrentPin, intents |-> intents]
      /\ log' = log /\ prepared' = prepared /\ pins' = pins /\ history' = history
      /\ intents' = intents /\ call' = call /\ returned' = returned
      /\ backup' = backup /\ ids' = ids
  BY DEF Attach, registry, witness
<1>2. /\ pins \in Seq(Nat) /\ Len(pins) \in Nat \ {0} /\ pins[Len(pins)] \in Nat
      /\ pins[Len(pins)] <= ids
      /\ intents \in [Requests -> Record \cup {Absent}]
  <2>1. /\ pins \in Seq(Nat) /\ Len(pins) \in 1..MaxRevisions
        /\ \A i \in 1..Len(pins) : pins[i] <= ids
    BY DEF IInv, WitnessOK
  <2>2. Len(pins) \in 1..Len(pins)
    BY <2>1
  <2>3. pins[Len(pins)] \in Nat
    BY <2>1, <2>2
  <2>4. intents \in [Requests -> Record \cup {Absent}]
    BY DEF IInv, WitnessOK, GoodRecords
  <2>5. QED
    BY <2>1, <2>2, <2>3, <2>4
<1>3. /\ floor'.pin = [revision |-> Len(pins), id |-> pins[Len(pins)]]
      /\ floor'.pin.revision = Len(pins) /\ floor'.pin.id = pins[Len(pins)]
      /\ floor'.intents = intents
  BY <1>1 DEF CurrentPin
<1>4. RegistryOK' /\ ids' \in Nat
  BY <1>1 DEF IInv, RegistryOK
<1>5. WitnessOK'
  BY <1>1 DEF IInv, WitnessOK
<1>6. IntentsKept(floor.intents, intents)
  BY <1>1 DEF IInv, FloorOK, Retained, Has
<1>7. FloorOK'
  <2>1. Has(backup.witness[1], floor'.pin) => intents = backup.witness[3]
    <3>1. HAVE Has(backup.witness[1], floor'.pin)
    <3>2. Len(pins) = Len(backup.witness[1])
      BY <1>2, <1>3, <3>1 DEF IInv, WitnessOK, StartsWith, Has
    <3>3. QED
      BY <3>2 DEF IInv, WitnessOK
  <2>2. Has(backup.witness[1], floor'.pin) => IntentsKept(floor'.intents, backup.witness[3])
    BY <1>3, <2>1, KeptSame
  <2>3. IntentsKept(floor'.intents, intents)
    BY <1>3, KeptSame
  <2>4. floor' = [pin |-> [revision |-> floor'.pin.revision, id |-> floor'.pin.id],
                  intents |-> floor'.intents]
    BY <1>1, <1>3
  <2>5. QED
    BY <1>1, <1>2, <1>3, <2>2, <2>3, <2>4 DEF FloorOK
<1>8. ReturnedOK'
  <2>1. \A x \in returned : floor.intents[x.request] # Absent /\ x.request \in Requests
    BY DEF IInv, ReturnedOK, Absent
  <2>2. QED
    BY <1>1, <1>3, <1>6, <2>1 DEF IInv, ReturnedOK, IntentsKept, Kept
<1>9. ChargedOnlyAfterCheckpoint'
  <2>1. \A i \in Commits(log) : log[i].request \in Requests
    BY HistoryIs, HeadsAre DEF IInv
  <2>2. QED
    BY <1>1, <1>3, <1>6, <2>1
       DEF IInv, ChargedOnlyAfterCheckpoint, Covers, Commits, IntentsKept, Kept
<1>10. ProcessOK'
  <2>1. /\ server \in [Processes -> {Down} \cup UpRegistry \cup UpWitness]
        /\ call \in [Processes -> {Idle} \cup Calls]
    BY DEF IInv, ProcessOK
  <2>2. server[p] \in UpRegistry
    BY <1>1, <2>1 DEF UpWitness, Down
  <2>3. [state |-> "witness", broker |-> server[p].broker, epoch |-> server[p].epoch,
         pin |-> CurrentPin] \in UpWitness
    BY <1>2, <2>2 DEF UpRegistry, UpWitness, CurrentPin, Pin
  <2>4. server' \in [Processes -> {Down} \cup UpRegistry \cup UpWitness]
    BY <1>1, <2>1, <2>3
  <2>5. Broker' = Broker /\ Epoch' = Epoch
    BY <1>1 DEF Broker, Epoch
  <2>6. \A q \in Processes :
          /\ server'[q] # Down => server[q] # Down
          /\ \/ server'[q].broker = server[q].broker /\ server'[q].epoch = server[q].epoch
             \/ server'[q] = server[q]
          /\ server[q].state = "witness" => server'[q].state = "witness"
    BY <1>1, <2>1, <2>2 DEF UpRegistry, Down
  <2>7. Has(pins', floor'.pin)
    BY <1>1, <1>2, <1>3 DEF Has
  <2>8. \A q \in Processes : call[q].pc = "intended" => Intended(q)'
    <3>1. TAKE q \in Processes
    <3>2. HAVE call[q].pc = "intended"
    <3>3. Intended(q)
      BY <3>2 DEF IInv, ProcessOK
    <3>4. PICK r : r = call[q].content.request
      OBVIOUS
    <3>5. r \in Requests
      BY <2>1, <3>2, <3>4 DEF Calls, Content, Idle
    <3>6. server'[q].epoch = server[q].epoch
      BY <2>6
    <3>7. QED
      BY <1>1, <1>3, <1>6, <3>3, <3>4, <3>5, <3>6 DEF Intended, IntentsKept, Kept
  <2>9. \A q \in Processes :
          /\ server'[q] # Down =>
               server'[q].broker <= ids' /\ (server'[q].broker = Broker' => server'[q].epoch = Epoch')
          /\ server'[q].state = "witness" => Has(pins', floor'.pin)
          /\ call'[q] # Idle => server'[q].state = "witness"
          /\ call'[q].pc = "intended" => Intended(q)'
    BY <1>1, <2>5, <2>6, <2>7, <2>8 DEF IInv, ProcessOK
  <2>10. QED
    BY <1>1, <2>1, <2>4, <2>9 DEF ProcessOK
<1>11. QED
  BY <1>4, <1>5, <1>7, <1>8, <1>9, <1>10 DEF IInv

-----------------------------------------------------------------------------
(* Copies and restores.                                                    *)
LEMMA StartsWithSelf ==
  ASSUME NEW S, NEW h \in Seq(S)
  PROVE  StartsWith(h, h)
BY DEF StartsWith

LEMMA CopyKeeps ==
  ASSUME IInv, Copy
  PROVE  IInv'
<1>1. /\ backup' = [registry |-> log, witness |-> <<pins, history, intents>>]
      /\ log' = log /\ prepared' = prepared /\ pins' = pins /\ history' = history
      /\ intents' = intents /\ call' = call /\ returned' = returned
      /\ floor' = floor /\ ids' = ids /\ server' = server
  BY DEF Copy, registry, witness, process
<1>2. /\ backup'.registry = log /\ backup'.witness = <<pins, history, intents>>
      /\ backup'.witness[1] = pins /\ backup'.witness[2] = history
      /\ backup'.witness[3] = intents
  BY <1>1
<1>3. log \in Seq(Event) /\ pins \in Seq(Nat)
  BY DEF IInv, RegistryOK, WitnessOK, GoodLog
<1>4. StartsWith(log, log) /\ StartsWith(pins, pins)
  BY <1>3, StartsWithSelf
<1>5. RegistryOK'
  BY <1>1, <1>2, <1>4 DEF IInv, RegistryOK
<1>6. WitnessOK'
  BY <1>1, <1>2, <1>4, KeptSame DEF IInv, WitnessOK
<1>7. FloorOK'
  BY <1>1, <1>2 DEF IInv, FloorOK
<1>8. ProcessOK'
  BY <1>1 DEF IInv, ProcessOK, Broker, Epoch, Intended
<1>9. ChargedOnlyAfterCheckpoint' /\ ReturnedOK' /\ ids' \in Nat
  BY <1>1 DEF IInv, ChargedOnlyAfterCheckpoint, ReturnedOK, Commits, Covers
<1>10. QED
  BY <1>5, <1>6, <1>7, <1>8, <1>9 DEF IInv

LEMMA RestoreKeeps ==
  ASSUME IInv, NEW which, Restore(which)
  PROVE  IInv'
<1>1. /\ \/ log' = backup.registry
         \/ log' = log
      /\ \/ pins' = backup.witness[1] /\ history' = backup.witness[2]
            /\ intents' = backup.witness[3]
         \/ pins' = pins /\ history' = history /\ intents' = intents
      /\ server' = [p \in Processes |-> Down] /\ call' = [p \in Processes |-> Idle]
      /\ prepared' = prepared /\ floor' = floor /\ returned' = returned
      /\ backup' = backup /\ ids' = ids
  BY DEF Restore, witness
<1>2. log \in Seq(Event) /\ backup.registry \in Seq(Event) /\ StartsWith(log, backup.registry)
  BY DEF IInv, RegistryOK, GoodLog
<1>3. RegistryOK' /\ ids' \in Nat
  <2>1. StartsWith(backup.registry, backup.registry)
    BY <1>2, StartsWithSelf
  <2>2. QED
    BY <1>1, <2>1 DEF IInv, RegistryOK
<1>4. WitnessOK'
  <2>1. CASE pins' = pins /\ history' = history /\ intents' = intents
    BY <1>1, <2>1 DEF IInv, WitnessOK
  <2>2. CASE pins' = backup.witness[1] /\ history' = backup.witness[2]
             /\ intents' = backup.witness[3]
    <3>1. /\ backup.witness[1] \in Seq(Nat) /\ Len(backup.witness[1]) \in 1..MaxRevisions
          /\ StartsWith(pins, backup.witness[1]) /\ \A i \in 1..Len(pins) : pins[i] <= ids
      BY DEF IInv, WitnessOK
    <3>2. \A i \in 1..Len(backup.witness[1]) : backup.witness[1][i] = pins[i] /\ i \in 1..Len(pins)
      BY <3>1 DEF StartsWith
    <3>3. \A i \in 1..Len(backup.witness[1]) : backup.witness[1][i] <= ids
      BY <3>1, <3>2
    <3>4. StartsWith(backup.witness[1], backup.witness[1])
      BY <3>1, StartsWithSelf
    <3>5. QED
      BY <1>1, <2>2, <3>3, <3>4, KeptSame DEF IInv, WitnessOK
  <2>3. QED
    BY <1>1, <2>1, <2>2
<1>5. FloorOK'
  BY <1>1 DEF IInv, FloorOK
<1>6. ProcessOK'
  BY <1>1 DEF ProcessOK, Down, Idle
<1>7. ChargedOnlyAfterCheckpoint'
  <2>1. \A i \in Commits(backup.registry) : i \in Commits(log) /\ log[i] = backup.registry[i]
    BY <1>2, KeptCommits
  <2>2. \A i \in Commits(log') : i \in Commits(log) /\ log[i] = log'[i]
    BY <1>1, <2>1
  <2>3. \A i \in Commits(log) : log[i].witnessed =>
          /\ floor.intents[log[i].request] # Absent
          /\ floor.intents[log[i].request].expected = log[i].expected
          /\ floor.intents[log[i].request].epoch = log[i].epoch
          /\ floor.intents[log[i].request].predecessor < i
    BY DEF IInv, ChargedOnlyAfterCheckpoint, Covers
  <2>4. \A i \in Commits(log') : log'[i].witnessed =>
          /\ floor'.intents[log'[i].request] # Absent
          /\ floor'.intents[log'[i].request].expected = log'[i].expected
          /\ floor'.intents[log'[i].request].epoch = log'[i].epoch
          /\ floor'.intents[log'[i].request].predecessor < i
    BY <1>1, <2>2, <2>3
  <2>5. QED
    BY <2>4 DEF ChargedOnlyAfterCheckpoint, Covers
<1>8. ReturnedOK'
  BY <1>1 DEF IInv, ReturnedOK
<1>9. QED
  BY <1>3, <1>4, <1>5, <1>6, <1>7, <1>8 DEF IInv
-----------------------------------------------------------------------------
(* Transactions of the witness: observations, and the one that retains an  *)
(* intent.  Whatever the outcome, later intents say what earlier ones did. *)
GoodNext(p, next) ==
  /\ next \in {Idle} \cup Calls
  /\ next.pc = "intended" =>
       LET record == intents'[next.content.request] IN
       /\ record # Absent
       /\ record.expected = next.content.expected /\ record.epoch = server[p].epoch

GoodReturn(outcome) ==
  \/ returned' = returned
  \/ \E r \in Requests :
       /\ outcome = "accepted" /\ intents'[r].state = "committed"
       /\ PendingOf(intents') = {}
       /\ returned' = returned \cup {[request |-> r, receipt |-> intents'[r].receipt]}

Revises(p, outcome, next) ==
  /\ server[p].state = "witness" /\ RequireBroker(p)
  /\ history' = log /\ GoodRecords(log, intents') /\ IntentsKept(intents, intents')
  /\ \/ pins' = Append(pins, ids + 1) /\ ids' = ids + 1 /\ Len(pins) < MaxRevisions
     \/ UNCHANGED <<pins, ids, history, intents>>
  /\ Accept(p, outcome, next) /\ GoodNext(p, next) /\ GoodReturn(outcome)
  /\ UNCHANGED <<log, prepared, backup>>

LEMMA RevisedPins ==
  ASSUME IInv, NEW p, NEW outcome, NEW next, Revises(p, outcome, next)
  PROVE  /\ pins' \in Seq(Nat) /\ Len(pins') \in 1..MaxRevisions /\ Len(pins) \in Nat \ {0}
         /\ ids \in Nat /\ ids' \in Nat /\ ids <= ids'
         /\ \A i \in 1..Len(pins') : pins'[i] <= ids' /\ pins'[i] \in Nat
         /\ \A i \in 1..Len(pins) : i \in 1..Len(pins') /\ pins'[i] = pins[i]
         /\ Len(pins') = Len(pins) => UNCHANGED <<pins, ids, history, intents>>
         /\ Len(pins) <= Len(pins')
<1>1. /\ ids \in Nat /\ pins \in Seq(Nat) /\ Len(pins) \in 1..MaxRevisions
      /\ \A i \in 1..Len(pins) : pins[i] <= ids
  BY DEF IInv, WitnessOK
<1>2. CASE UNCHANGED <<pins, ids, history, intents>>
  BY <1>1, <1>2
<1>3. CASE pins' = Append(pins, ids + 1) /\ ids' = ids + 1 /\ Len(pins) < MaxRevisions
  <2>1. /\ pins' \in Seq(Nat) /\ Len(pins') = Len(pins) + 1
        /\ \A i \in 1..Len(pins) : pins'[i] = pins[i]
        /\ pins'[Len(pins) + 1] = ids + 1
    BY <1>1, <1>3
  <2>2. Len(pins) \in Nat \ {0} /\ MaxRevisions \in Nat
    BY <1>1, WitnessAssumption
  <2>3. \A i \in 1..Len(pins') : i \in 1..Len(pins) \/ i = Len(pins) + 1
    BY <2>1, <2>2
  <2>4. \A i \in 1..Len(pins') : pins'[i] <= ids' /\ pins'[i] \in Nat
    BY <1>1, <1>3, <2>1, <2>3
  <2>5. \A i \in 1..Len(pins) : i \in 1..Len(pins') /\ pins'[i] = pins[i]
    BY <2>1, <2>2
  <2>6. Len(pins') \in 1..MaxRevisions /\ ids' \in Nat /\ ids <= ids' /\ Len(pins') # Len(pins)
    BY <1>1, <1>3, <2>1, <2>2
  <2>7. QED
    BY <1>1, <2>1, <2>2, <2>4, <2>5, <2>6
<1>4. QED
  BY <1>2, <1>3 DEF Revises

LEMMA RevisedFloor ==
  ASSUME IInv, NEW p \in Processes, NEW outcome, NEW next, Revises(p, outcome, next)
  PROVE  /\ Has(pins', floor'.pin) /\ IntentsKept(floor'.intents, intents')
         /\ IntentsKept(floor.intents, floor'.intents)
         /\ outcome = "accepted" => floor'.intents = intents'
         /\ FloorOK'
<1> DEFINE pin == [revision |-> Len(pins'), id |-> pins'[Len(pins')]]
<1>1. floor' = IF outcome \in {"denied", "accepted"}
               THEN [pin |-> pin, intents |-> intents'] ELSE floor
  BY DEF Revises, Accept
<1>2. /\ pins' \in Seq(Nat) /\ Len(pins') \in 1..MaxRevisions /\ Len(pins) \in Nat \ {0}
      /\ ids \in Nat /\ ids' \in Nat /\ ids <= ids'
      /\ \A i \in 1..Len(pins') : pins'[i] <= ids' /\ pins'[i] \in Nat
      /\ \A i \in 1..Len(pins) : i \in 1..Len(pins') /\ pins'[i] = pins[i]
      /\ Len(pins') = Len(pins) => UNCHANGED <<pins, ids, history, intents>>
      /\ Len(pins) <= Len(pins')
  BY RevisedPins
<1>3. Has(pins, floor.pin)
  BY DEF IInv, ProcessOK, Revises
<1>4. /\ floor.pin.revision \in Nat \ {0} /\ floor.pin.id \in Nat /\ floor.pin.id <= ids
      /\ floor.intents \in [Requests -> Record \cup {Absent}]
      /\ floor = [pin |-> [revision |-> floor.pin.revision, id |-> floor.pin.id],
                  intents |-> floor.intents]
  BY DEF IInv, FloorOK
<1>5. Has(pins', floor.pin)
  BY <1>2, <1>3, <1>4 DEF Has
<1>6. IntentsKept(floor.intents, intents')
  <2>1. IntentsKept(floor.intents, intents)
    BY <1>3 DEF IInv, FloorOK
  <2>2. IntentsKept(intents, intents')
    BY DEF Revises
  <2>3. QED
    BY <2>1, <2>2, KeptAgain
<1>7. /\ backup' = backup /\ StartsWith(pins, backup.witness[1])
      /\ backup.witness[1] \in Seq(Nat)
      /\ Len(pins) = Len(backup.witness[1]) => intents = backup.witness[3]
  BY DEF IInv, WitnessOK, Revises
<1>8. CASE outcome \in {"denied", "accepted"}
  <2>1. /\ floor'.pin = pin /\ floor'.intents = intents'
        /\ floor'.pin.revision = Len(pins') /\ floor'.pin.id = pins'[Len(pins')]
        /\ floor' = [pin |-> [revision |-> floor'.pin.revision, id |-> floor'.pin.id],
                     intents |-> floor'.intents]
    BY <1>1, <1>8
  <2>2. Len(pins') \in 1..Len(pins') /\ Len(pins') \in Nat \ {0}
    BY <1>2
  <2>3. pins'[Len(pins')] \in Nat /\ pins'[Len(pins')] <= ids'
    BY <1>2, <2>2
  <2>4. Has(pins', floor'.pin)
    BY <2>1, <2>2 DEF Has
  <2>5. intents' \in [Requests -> Record \cup {Absent}]
    BY DEF Revises, GoodRecords
  <2>6. Has(backup.witness[1], floor'.pin) => floor'.intents = backup.witness[3]
    <3>1. HAVE Has(backup.witness[1], floor'.pin)
    <3>2. Len(pins') <= Len(backup.witness[1]) /\ Len(backup.witness[1]) <= Len(pins)
      BY <1>7, <2>1, <3>1 DEF Has, StartsWith
    <3>3. Len(backup.witness[1]) \in Nat
      BY <1>7
    <3>4. Len(pins') = Len(pins) /\ Len(pins) = Len(backup.witness[1])
      BY <1>2, <3>2, <3>3
    <3>5. QED
      BY <1>2, <1>7, <2>1, <3>4
  <2>7. FloorOK'
    BY <1>7, <2>1, <2>2, <2>3, <2>4, <2>5, <2>6, KeptSame DEF FloorOK
  <2>8. QED
    BY <1>6, <2>1, <2>4, <2>7, KeptSame
<1>9. CASE outcome \notin {"denied", "accepted"}
  <2>1. floor' = floor
    BY <1>1, <1>9
  <2>2. floor'.pin.id <= ids'
    BY <1>2, <1>4, <2>1
  <2>3. FloorOK'
    BY <1>4, <1>6, <1>7, <2>1, <2>2 DEF IInv, FloorOK
  <2>4. QED
    BY <1>5, <1>6, <1>9, <2>1, <2>3, KeptSame
<1>10. QED
  BY <1>8, <1>9

LEMMA RevisedProcesses ==
  ASSUME IInv, NEW p \in Processes, NEW outcome, NEW next, Revises(p, outcome, next)
  PROVE  ProcessOK'
<1> DEFINE pin == [revision |-> Len(pins'), id |-> pins'[Len(pins')]]
<1>1. /\ pins' \in Seq(Nat) /\ Len(pins') \in 1..MaxRevisions
      /\ ids \in Nat /\ ids' \in Nat /\ ids <= ids'
      /\ \A i \in 1..Len(pins') : pins'[i] <= ids' /\ pins'[i] \in Nat
  BY RevisedPins
<1>2. /\ Has(pins', floor'.pin) /\ IntentsKept(floor'.intents, intents')
      /\ IntentsKept(floor.intents, floor'.intents)
      /\ outcome = "accepted" => floor'.intents = intents'
  BY RevisedFloor
<1>3. /\ server[p].state = "witness"
      /\ server' = [server EXCEPT ![p] = IF outcome = "stopped" THEN Down
                                         ELSE [server[p] EXCEPT !.pin = pin]]
      /\ call' = [call EXCEPT ![p] = IF outcome = "accepted" THEN next ELSE Idle]
      /\ next \in {Idle} \cup Calls /\ log' = log
      /\ GoodRecords(log, intents')
  BY DEF Revises, Accept, GoodNext, Proceeds
<1>4. /\ server \in [Processes -> {Down} \cup UpRegistry \cup UpWitness]
      /\ call \in [Processes -> {Idle} \cup Calls]
  BY DEF IInv, ProcessOK
<1>5. server[p] \in UpWitness
  BY <1>3, <1>4 DEF UpRegistry, Down
<1>6. pin \in Pin
  <2>1. Len(pins') \in 1..Len(pins') /\ Len(pins') \in Nat
    BY <1>1
  <2>2. QED
    BY <1>1, <2>1 DEF Pin
<1>7. /\ [server[p] EXCEPT !.pin = pin] \in UpWitness
      /\ [server[p] EXCEPT !.pin = pin].broker = server[p].broker
      /\ [server[p] EXCEPT !.pin = pin].epoch = server[p].epoch
      /\ [server[p] EXCEPT !.pin = pin].state = "witness"
  BY <1>5, <1>6 DEF UpWitness
<1>8. /\ server' \in [Processes -> {Down} \cup UpRegistry \cup UpWitness]
      /\ call' \in [Processes -> {Idle} \cup Calls]
      /\ \A q \in Processes : q # p => server'[q] = server[q] /\ call'[q] = call[q]
      /\ outcome = "stopped" => server'[p] = Down /\ call'[p] = Idle
      /\ outcome # "stopped" => server'[p] = [server[p] EXCEPT !.pin = pin]
      /\ outcome # "accepted" => call'[p] = Idle
      /\ outcome = "accepted" => call'[p] = next
  BY <1>3, <1>4, <1>7
<1>9. Broker' = Broker /\ Epoch' = Epoch
  BY <1>3 DEF Broker, Epoch
<1>10. Len(log) \in Nat
  BY HeadsAre DEF IInv
<1>11. \A q \in Processes :
        /\ server'[q] # Down =>
             server'[q].broker <= ids' /\ (server'[q].broker = Broker' => server'[q].epoch = Epoch')
        /\ server'[q].state = "witness" => Has(pins', floor'.pin)
        /\ call'[q] # Idle => server'[q].state = "witness"
        /\ call'[q].pc = "intended" => Intended(q)'
  <2>1. TAKE q \in Processes
  <2>2. server[q] # Down => /\ server[q].broker <= ids /\ server[q].broker \in Nat
                            /\ server[q].broker = Broker => server[q].epoch = Epoch
    BY <1>4 DEF IInv, ProcessOK, UpRegistry, UpWitness
  <2>3. CASE q # p
    <3>1. server'[q] = server[q] /\ call'[q] = call[q]
      BY <1>8, <2>3
    <3>2. call[q].pc = "intended" => Intended(q)'
      <4>1. HAVE call[q].pc = "intended"
      <4>2. Intended(q)
        BY <4>1 DEF IInv, ProcessOK
      <4>3. PICK r : r = call[q].content.request
        OBVIOUS
      <4>4. r \in Requests
        BY <1>4, <4>1, <4>3 DEF Calls, Content, Idle
      <4>5. QED
        BY <1>2, <1>3, <3>1, <4>2, <4>3, <4>4 DEF Intended, IntentsKept, Kept
    <3>3. QED
      BY <1>1, <1>2, <1>9, <2>2, <3>1, <3>2 DEF IInv, ProcessOK
  <2>4. CASE q = p /\ outcome = "stopped"
    BY <1>8, <2>4 DEF Down, Idle
  <2>5. CASE q = p /\ outcome # "stopped"
    <3>1. /\ server'[q].broker = server[p].broker /\ server'[q].epoch = server[p].epoch
          /\ server'[q].state = "witness"
      BY <1>7, <1>8, <2>5
    <3>2. call'[q].pc = "intended" => Intended(q)'
      <4>1. HAVE call'[q].pc = "intended"
      <4>2. outcome = "accepted" /\ call'[q] = next
        BY <1>8, <2>5, <4>1 DEF Idle
      <4>3. PICK r : r = next.content.request
        OBVIOUS
      <4>4. r \in Requests
        BY <1>3, <4>1, <4>2, <4>3 DEF Calls, Content, Idle
      <4>5. /\ intents'[r] # Absent /\ intents'[r].expected = next.content.expected
            /\ intents'[r].epoch = server[p].epoch
        BY <4>1, <4>2, <4>3 DEF Revises, GoodNext
      <4>6. intents'[r].predecessor <= Len(log)
        BY <1>3, <4>4, <4>5 DEF GoodRecords
      <4>7. floor'.intents = intents'
        BY <1>2, <4>2
      <4>8. QED
        BY <1>3, <2>5, <3>1, <4>2, <4>3, <4>5, <4>6, <4>7 DEF Intended
    <3>3. server[p] # Down
      BY <1>3 DEF Down
    <3>4. QED
      BY <1>1, <1>2, <1>9, <2>2, <2>5, <3>1, <3>2, <3>3
  <2>6. QED
    BY <2>3, <2>4, <2>5
<1>12. QED
  BY <1>8, <1>11 DEF ProcessOK

LEMMA RevisesKeeps ==
  ASSUME IInv, NEW p \in Processes, NEW outcome, NEW next, Revises(p, outcome, next)
  PROVE  IInv'
<1>1. /\ log' = log /\ prepared' = prepared /\ backup' = backup /\ history' = log
      /\ GoodRecords(log, intents') /\ IntentsKept(intents, intents')
  BY DEF Revises
<1>2. /\ pins' \in Seq(Nat) /\ Len(pins') \in 1..MaxRevisions /\ Len(pins) \in Nat \ {0}
      /\ ids' \in Nat
      /\ \A i \in 1..Len(pins') : pins'[i] <= ids' /\ pins'[i] \in Nat
      /\ \A i \in 1..Len(pins) : i \in 1..Len(pins') /\ pins'[i] = pins[i]
      /\ Len(pins') = Len(pins) => UNCHANGED <<pins, ids, history, intents>>
      /\ Len(pins) <= Len(pins')
  BY RevisedPins
<1>3. /\ IntentsKept(floor.intents, floor'.intents) /\ FloorOK'
      /\ outcome = "accepted" => floor'.intents = intents'
  BY RevisedFloor
<1>4. ProcessOK'
  BY RevisedProcesses
<1>5. RegistryOK'
  BY <1>1 DEF IInv, RegistryOK
<1>6. WitnessOK'
  <2>1. /\ GoodLog(log) /\ StartsWith(pins, backup.witness[1])
        /\ backup.witness[1] \in Seq(Nat)
        /\ IntentsKept(backup.witness[3], intents)
        /\ (Len(pins) = Len(backup.witness[1])
             => history = backup.witness[2] /\ intents = backup.witness[3])
    BY DEF IInv, WitnessOK, RegistryOK
  <2>2. Len(backup.witness[1]) \in Nat /\ Len(backup.witness[1]) <= Len(pins)
    BY <2>1 DEF StartsWith
  <2>3. \A i \in 1..Len(backup.witness[1]) : i \in 1..Len(pins)
    BY <1>2, <2>2
  <2>4. StartsWith(pins', backup.witness[1])
    <3>1. Len(backup.witness[1]) <= Len(pins')
      BY <1>2, <2>2
    <3>2. QED
      BY <1>2, <2>1, <2>3, <3>1 DEF StartsWith
  <2>5. IntentsKept(backup.witness[3], intents')
    BY <1>1, <2>1, KeptAgain
  <2>6. Len(pins') = Len(backup.witness[1]) =>
          history' = backup.witness[2] /\ intents' = backup.witness[3]
    <3>1. HAVE Len(pins') = Len(backup.witness[1])
    <3>2. Len(pins') = Len(pins)
      BY <1>2, <2>2, <3>1
    <3>3. QED
      BY <1>2, <2>1, <3>1, <3>2
  <2>7. QED
    BY <1>1, <1>2, <2>1, <2>4, <2>5, <2>6 DEF IInv, WitnessOK
<1>7. ChargedOnlyAfterCheckpoint'
  <2>1. \A i \in Commits(log) : log[i].request \in Requests
    BY HistoryIs, HeadsAre DEF IInv
  <2>2. \A i \in Commits(log) : log[i].witnessed =>
          /\ floor.intents[log[i].request] # Absent
          /\ floor.intents[log[i].request].expected = log[i].expected
          /\ floor.intents[log[i].request].epoch = log[i].epoch
          /\ floor.intents[log[i].request].predecessor < i
    BY DEF IInv, ChargedOnlyAfterCheckpoint, Covers
  <2>3. \A i \in Commits(log) : log[i].witnessed =>
          /\ floor'.intents[log[i].request] # Absent
          /\ floor'.intents[log[i].request].expected = log[i].expected
          /\ floor'.intents[log[i].request].epoch = log[i].epoch
          /\ floor'.intents[log[i].request].predecessor < i
    BY <1>3, <2>1, <2>2 DEF IntentsKept, Kept
  <2>4. QED
    BY <1>1, <2>3 DEF ChargedOnlyAfterCheckpoint, Covers
<1>8. ReturnedOK'
  <2>1. \A x \in returned :
          /\ x \in [request : Requests, receipt : Nat]
          /\ floor.intents[x.request].state = "committed" /\ floor.intents[x.request].receipt = x.receipt
          /\ floor.intents[x.request] # Absent
    BY DEF IInv, ReturnedOK, Absent
  <2>2. \A x \in returned :
          /\ x \in [request : Requests, receipt : Nat]
          /\ floor'.intents[x.request].state = "committed" /\ floor'.intents[x.request].receipt = x.receipt
    BY <1>3, <2>1 DEF IntentsKept, Kept
  <2>3. CASE returned' = returned
    BY <2>2, <2>3 DEF ReturnedOK
  <2>4. ASSUME NEW r \in Requests, outcome = "accepted", intents'[r].state = "committed",
               returned' = returned \cup {[request |-> r, receipt |-> intents'[r].receipt]}
        PROVE  ReturnedOK'
    <3>1. intents'[r] \in Record \cup {Absent}
      BY <1>1 DEF GoodRecords
    <3>2. intents'[r] \in Record
      BY <2>4, <3>1, StatesOfIntents
    <3>3. intents'[r].receipt \in Nat
      BY <3>2 DEF Record
    <3>4. floor'.intents = intents'
      BY <1>3, <2>4
    <3>5. QED
      BY <2>2, <2>4, <3>3, <3>4 DEF ReturnedOK
  <2>5. QED
    BY <2>3, <2>4 DEF Revises, GoodReturn
<1>9. QED
  BY <1>2, <1>3, <1>4, <1>5, <1>6, <1>7, <1>8 DEF IInv
-----------------------------------------------------------------------------
(* The transactions of the witness are such revisions.                     *)
LEMMA RecordsRevise ==
  ASSUME IInv, NEW records, NEW later, Records(records, later)
  PROVE  /\ history' = log /\ intents' = records
         /\ GoodLog(log) /\ GoodRecords(log, Reconciled) /\ IntentsKept(intents, Reconciled)
         /\ \/ pins' = Append(pins, ids + 1) /\ ids' = ids + 1 /\ Len(pins) < MaxRevisions
            \/ UNCHANGED <<pins, ids, history, intents>>
<1>1. Extends /\ (\A i \in Unwitnessed : Covered(i)) /\ history' = log /\ intents' = records
  BY DEF Records
<1>2. GoodLog(log) /\ GoodLog(history) /\ GoodRecords(history, intents)
  BY DEF IInv, RegistryOK, WitnessOK
<1>3. StartsWith(log, history)
  BY <1>1 DEF Extends, StartsWith
<1>4. GoodRecords(log, Reconciled) /\ IntentsKept(intents, Reconciled)
  BY <1>1, <1>2, <1>3, ReconciledGood
<1>5. \/ pins' = Append(pins, ids + 1) /\ ids' = ids + 1 /\ Len(pins) < MaxRevisions
      \/ UNCHANGED <<pins, ids>> /\ log = history /\ records = intents
  BY DEF Records, RevisionLeft
<1>6. QED
  BY <1>1, <1>2, <1>4, <1>5

LEMMA ReturnsGood ==
  ASSUME NEW outcome, NEW r \in Requests, Returns(outcome, r)
  PROVE  GoodReturn(outcome)
BY DEF Returns, GoodReturn, Proceeds, Result

LEMMA ObservesRevises ==
  ASSUME IInv, NEW p \in Processes, NEW outcome, NEW next, NEW later,
         Observes(p, later), Accept(p, outcome, next), GoodNext(p, next), GoodReturn(outcome),
         UNCHANGED <<registry, backup>>
  PROVE  Revises(p, outcome, next)
<1>1. server[p].state = "witness" /\ RequireBroker(p) /\ Records(Reconciled, later)
  BY DEF Observes
<1>2. /\ history' = log /\ intents' = Reconciled
      /\ GoodRecords(log, Reconciled) /\ IntentsKept(intents, Reconciled)
      /\ \/ pins' = Append(pins, ids + 1) /\ ids' = ids + 1 /\ Len(pins) < MaxRevisions
         \/ UNCHANGED <<pins, ids, history, intents>>
  BY <1>1, RecordsRevise
<1>3. GoodRecords(log, intents') /\ IntentsKept(intents, intents')
  BY <1>2
<1>4. QED
  BY <1>1, <1>2, <1>3 DEF Revises, registry

LEMMA IdleNext ==
  ASSUME NEW p
  PROVE  GoodNext(p, Idle)
BY DEF GoodNext, Idle

LEMMA ObserveRevises ==
  ASSUME IInv, NEW p \in Processes, NEW content \in prepared, NEW outcome, NEW later,
         Observe(p, content, outcome, later)
  PROVE  \E next : Revises(p, outcome, next)
<1>1. /\ Observes(p, later) /\ Accept(p, outcome, NextCall(p, content))
      /\ UNCHANGED <<registry, backup>>
      /\ Returns(outcome, content.request) \/ returned' = returned
  BY DEF Observe
<1>2. content \in Content /\ content.request \in Requests
  BY DEF IInv, RegistryOK, Content
<1>3. GoodReturn(outcome)
  BY <1>1, <1>2, ReturnsGood DEF GoodReturn
<1>4. GoodNext(p, NextCall(p, content))
  <2>1. PICK next : next = NextCall(p, content)
    OBVIOUS
  <2>2. \/ next = [pc |-> "observed", content |-> content]
        \/ /\ next = [pc |-> "intended", content |-> content]
           /\ intents'[content.request] # Absent
           /\ intents'[content.request].expected = content.expected
           /\ intents'[content.request].epoch = server[p].epoch
        \/ next = Idle
    BY <2>1 DEF NextCall
  <2>3. CASE next = [pc |-> "observed", content |-> content]
    <3>1. next \in Calls /\ next.pc # "intended"
      BY <1>2, <2>3 DEF Calls
    <3>2. QED
      BY <2>1, <3>1 DEF GoodNext
  <2>4. CASE /\ next = [pc |-> "intended", content |-> content]
             /\ intents'[content.request] # Absent
             /\ intents'[content.request].expected = content.expected
             /\ intents'[content.request].epoch = server[p].epoch
    <3>1. next \in Calls /\ next.content = content
      BY <1>2, <2>4 DEF Calls
    <3>2. QED
      BY <2>1, <2>4, <3>1 DEF GoodNext
  <2>5. CASE next = Idle
    BY <2>1, <2>5, IdleNext
  <2>6. QED
    BY <2>2, <2>3, <2>4, <2>5
<1>5. QED
  BY <1>1, <1>3, <1>4, ObservesRevises

LEMMA RetainIntentRevises ==
  ASSUME IInv, NEW p \in Processes, NEW outcome, NEW later, RetainIntent(p, outcome, later)
  PROVE  \E next : Revises(p, outcome, next)
<1> DEFINE next == [pc |-> "intended", content |-> call[p].content]
<1>1. /\ call[p].pc = "observed"
      /\ Accept(p, outcome, next)
      /\ UNCHANGED <<registry, returned, backup>>
  BY DEF RetainIntent
<1>2. call[p] \in Calls
  BY <1>1 DEF IInv, ProcessOK, Idle
<1>3. PICK content \in Content : content = call[p].content
  BY <1>2 DEF Calls
<1>4. PICK r \in Requests : r = content.request
  BY DEF Content
<1>5. next \in Calls /\ next.content = content
  BY <1>3 DEF Calls
<1>6. server[p].state = "witness" /\ RequireBroker(p)
  BY DEF RetainIntent, Observes
<1>7. server[p].epoch = Epoch /\ Epoch \in Nat /\ Len(log) \in Nat
  BY <1>6, HeadsAre DEF IInv, ProcessOK, RequireBroker, Down
<1>8. PICK new : new = NewIntent(p)
  OBVIOUS
<1>9. /\ new \in Record /\ new.state = "pending" /\ new.expected = content.expected
      /\ new.epoch = server[p].epoch /\ new.predecessor = Len(log) /\ new # Absent
  <2>1. new = [state |-> "pending", expected |-> content.expected, epoch |-> Epoch,
               predecessor |-> Len(log), receipt |-> 0]
    BY <1>3, <1>8 DEF NewIntent
  <2>2. new.state = "pending" /\ new \in Record
    BY <1>7, <2>1 DEF Record, Content
  <2>3. new # Absent
    BY <2>2, StatesOfIntents
  <2>4. QED
    BY <1>7, <2>1, <2>2, <2>3
<1>10. GoodReturn(outcome)
  BY <1>1 DEF GoodReturn
<1>11. CASE Reconciled[r] # Absent
  <2>1. Reconciled[r] = new /\ Observes(p, later)
    BY <1>3, <1>4, <1>8, <1>11 DEF RetainIntent
  <2>2. intents' = Reconciled
    BY <2>1 DEF Observes, Records
  <2>3. intents'[next.content.request] = new
    BY <1>4, <1>5, <2>1, <2>2
  <2>4. GoodNext(p, next)
    BY <1>5, <1>9, <2>3 DEF GoodNext
  <2>5. QED
    BY <1>1, <1>10, <2>1, <2>4, ObservesRevises
<1>12. CASE Reconciled[r] = Absent
  <2>1. /\ Cardinality(PendingOf(Reconciled)) < MaxPending
        /\ Records([Reconciled EXCEPT ![r] = new], later)
    BY <1>3, <1>4, <1>8, <1>12 DEF RetainIntent
  <2>2. /\ history' = log /\ intents' = [Reconciled EXCEPT ![r] = new]
        /\ GoodLog(log) /\ GoodRecords(log, Reconciled) /\ IntentsKept(intents, Reconciled)
        /\ \/ pins' = Append(pins, ids + 1) /\ ids' = ids + 1 /\ Len(pins) < MaxRevisions
           \/ UNCHANGED <<pins, ids, history, intents>>
    BY <2>1, RecordsRevise
  <2>3. new.predecessor <= Len(log)
    BY <1>7, <1>9
  <2>4. GoodRecords(log, intents') /\ IntentsKept(Reconciled, intents')
    BY <1>9, <1>12, <2>1, <2>2, <2>3, IntentGood
  <2>5. IntentsKept(intents, intents')
    BY <2>2, <2>4, KeptAgain
  <2>6. intents'[next.content.request] = new
    <3>1. Reconciled \in [Requests -> Record \cup {Absent}]
      BY <2>2 DEF GoodRecords
    <3>2. QED
      BY <1>4, <1>5, <2>2, <3>1
  <2>7. GoodNext(p, next)
    BY <1>5, <1>9, <2>6 DEF GoodNext
  <2>8. Revises(p, outcome, next)
    BY <1>1, <1>6, <1>10, <2>2, <2>4, <2>5, <2>7 DEF Revises, registry
  <2>9. QED
    BY <2>8
<1>13. QED
  BY <1>11, <1>12

LEMMA ConfirmRevises ==
  ASSUME IInv, NEW p \in Processes, NEW outcome, NEW later, Confirm(p, outcome, later)
  PROVE  \E next : Revises(p, outcome, next)
<1>1. /\ call[p].pc = "charged" /\ Observes(p, later) /\ Accept(p, outcome, Idle)
      /\ Returns(outcome, call[p].content.request) /\ UNCHANGED <<registry, backup>>
  BY DEF Confirm
<1>2. call[p] \in Calls
  BY <1>1 DEF IInv, ProcessOK, Idle
<1>3. call[p].content.request \in Requests
  BY <1>2 DEF Calls, Content
<1>4. GoodReturn(outcome)
  BY <1>1, <1>3, ReturnsGood
<1>5. QED
  BY <1>1, <1>4, IdleNext, ObservesRevises

LEMMA RecoverRevises ==
  ASSUME IInv, NEW p \in Processes, NEW r \in Requests, NEW outcome, NEW later,
         Recover(p, r, outcome, later)
  PROVE  \E next : Revises(p, outcome, next)
<1>1. /\ Observes(p, later) /\ Accept(p, outcome, Idle) /\ Returns(outcome, r)
      /\ UNCHANGED <<registry, backup>>
  BY DEF Recover
<1>2. GoodReturn(outcome)
  BY <1>1, ReturnsGood
<1>3. QED
  BY <1>1, <1>2, IdleNext, ObservesRevises

-----------------------------------------------------------------------------
(* Every step is one of these.                                             *)
WitnessStep(p) == \E outcome, next : Revises(p, outcome, next)

LEMMA StepsAre ==
  ASSUME IInv, Next
  PROVE  \/ \E p \in Processes : WitnessStep(p)
         \/ returned' = returned /\ IInv'
<1>1. CASE Copy
  BY <1>1, CopyKeeps DEF Copy
<1>2. ASSUME NEW which, Restore(which)
      PROVE  returned' = returned /\ IInv'
  BY <1>2, RestoreKeeps DEF Restore
<1>3. ASSUME NEW p \in Processes, Activate(p)
      PROVE  returned' = returned /\ IInv'
  BY <1>3, ActivateKeeps DEF Activate
<1>4. ASSUME NEW p \in Processes, Attach(p)
      PROVE  returned' = returned /\ IInv'
  BY <1>4, AttachKeeps DEF Attach
<1>5. ASSUME NEW p \in Processes,
             Stop(p) \/ Abandon(p) \/ (\E r \in Requests : PrepareRequest(p, r))
      PROVE  returned' = returned /\ IInv'
  <2>1. returned' = returned
    BY <1>5 DEF Stop, Abandon, PrepareRequest
  <2>2. QED
    BY <1>5, <2>1, ProcessStepsKeep
<1>6. ASSUME NEW p \in Processes, CommitRegistry(p)
      PROVE  returned' = returned /\ IInv'
  BY <1>6, CommitRegistryKeeps DEF CommitRegistry
<1>7. ASSUME NEW p \in Processes, NEW content \in prepared, DirectCommit(p, content)
      PROVE  returned' = returned /\ IInv'
  BY <1>7, DirectCommitKeeps DEF DirectCommit
<1>8. ASSUME NEW p \in Processes, NEW outcome, NEW later,
             \/ \E content \in prepared : Observe(p, content, outcome, later)
             \/ RetainIntent(p, outcome, later)
             \/ Confirm(p, outcome, later)
             \/ \E r \in Requests : Recover(p, r, outcome, later)
      PROVE  WitnessStep(p)
  BY <1>8, ObserveRevises, RetainIntentRevises, ConfirmRevises, RecoverRevises DEF WitnessStep
<1>9. QED
  BY <1>1, <1>2, <1>3, <1>4, <1>5, <1>6, <1>7, <1>8 DEF Next

LEMMA InvariantKept ==
  ASSUME IInv, [Next]_vars
  PROVE  IInv'
<1>1. CASE Next
  BY <1>1, StepsAre, RevisesKeeps DEF WitnessStep
<1>2. CASE UNCHANGED vars
  <2>1. /\ UNCHANGED <<prepared, log, witness, floor, returned, backup, ids>>
        /\ server' = server /\ call' = call
    BY <1>2 DEF vars, registry, process
  <2>2. QED
    BY <2>1, ProcessesOnly DEF IInv, ProcessOK, RegistryOK
<1>3. QED
  BY <1>1, <1>2

LEMMA InvariantHolds == Spec => []IInv
<1>1. QED
  BY InvariantInit, InvariantKept, PTL DEF Spec

(* Type correctness, the capacity of the registry and the bound of the     *)
(* pending intents, over any restores.                                     *)
THEOREM TypeCorrect == Spec => []TypeOK
<1>1. QED
  BY InvariantHolds, InvariantTypeOK, PTL

(* The witness service charges the registry only for an intent that the    *)
(* external sink had retained before (FixtureWitnessService.commit).       *)
THEOREM CheckpointedFirst == Spec => []ChargedOnlyAfterCheckpoint
<1>1. IInv => ChargedOnlyAfterCheckpoint
  BY DEF IInv
<1>2. QED
  BY <1>1, InvariantHolds, PTL

(* The accepted history and the intents agree, in every witness database   *)
(* that was ever restored (WitnessStore.observe).                          *)
THEOREM AcceptedHistory == Spec => []HistoryMatchesIntents
<1>1. QED
  BY InvariantHolds, InvariantHistory, PTL

(* No commit ever has the content of an aborted intent, while the registry *)
(* still has the accepted history (_reconcile).                            *)
THEOREM AbortsAreFinal == Spec => []AbortIsIrreversible
<1>1. QED
  BY InvariantHolds, InvariantAborts, PTL

(* A witnessed receipt is for ever the only one of its request, in every   *)
(* witness database that has the pin of the sink.                          *)
THEOREM ReceiptsLast == Spec => []WitnessedIsDurable
<1>1. QED
  BY InvariantHolds, InvariantDurable, PTL

-----------------------------------------------------------------------------
(* What a caller that is given a witnessed receipt may rely on.            *)
LEMMA RevisionSees ==
  ASSUME IInv, NEW p \in Processes, WitnessStep(p), returned' # returned
  PROVE  /\ \A x \in returned' : \E i \in Commits(log) :
              log[i].id = x.receipt /\ log[i].request = x.request
         /\ \A i \in Commits(log) : Covers(intents'[log[i].request], i)
         /\ PendingOf(intents') = {}
<1>1. PICK outcome, next : Revises(p, outcome, next)
  BY DEF WitnessStep
<1>2. PICK r \in Requests :
        /\ outcome = "accepted" /\ intents'[r].state = "committed"
        /\ PendingOf(intents') = {}
        /\ returned' = returned \cup {[request |-> r, receipt |-> intents'[r].receipt]}
  BY <1>1 DEF Revises, GoodReturn
<1>3. GoodRecords(log, intents') /\ Matched(log, intents')
  BY <1>1 DEF Revises, GoodRecords
<1>4. /\ IntentsKept(floor.intents, floor'.intents) /\ floor'.intents = intents'
  BY <1>1, <1>2, RevisedFloor
<1>5. \A x \in returned :
        /\ x.request \in Requests
        /\ intents'[x.request].state = "committed" /\ intents'[x.request].receipt = x.receipt
  <2>1. \A x \in returned :
          /\ x.request \in Requests /\ floor.intents[x.request] # Absent
          /\ floor.intents[x.request].state = "committed" /\ floor.intents[x.request].receipt = x.receipt
    BY DEF IInv, ReturnedOK, Absent
  <2>2. QED
    BY <1>4, <2>1 DEF IntentsKept, Kept
<1>6. \A x \in returned' :
        /\ x.request \in Requests
        /\ intents'[x.request].state = "committed" /\ intents'[x.request].receipt = x.receipt
  BY <1>2, <1>5
<1>7. \A i \in Commits(log) :
        /\ log[i].request \in Requests
        /\ intents'[log[i].request].state = "committed"
        /\ intents'[log[i].request].receipt = log[i].id
        /\ Covers(intents'[log[i].request], i)
  <2>1. \A i \in Commits(log) : log[i].request \in Requests
    BY HistoryIs, HeadsAre DEF IInv
  <2>2. \A i \in Commits(log) : intents'[log[i].request].state = "committed"
    BY <1>3 DEF Matched
  <2>3. \A i \in Commits(log) : intents'[log[i].request] # Absent
    BY <2>2 DEF Absent
  <2>4. QED
    BY <1>3, <2>1, <2>2, <2>3 DEF Matched, Covers
<1>8. \A q \in Requests : intents'[q].state = "committed" =>
        \E i \in Commits(log) : log[i].request = q
  BY <1>3 DEF Matched
<1>9. \A x \in returned' : \E i \in Commits(log) :
        log[i].id = x.receipt /\ log[i].request = x.request
  <2>1. TAKE x \in returned'
  <2>2. PICK i \in Commits(log) : log[i].request = x.request
    BY <1>6, <1>8
  <2>3. log[i].id = x.receipt
    BY <1>6, <1>7, <2>2
  <2>4. QED
    BY <2>2, <2>3
<1>10. QED
  BY <1>2, <1>7, <1>9

LEMMA SuccessStep ==
  ASSUME IInv, Next, returned' # returned
  PROVE  /\ \A x \in returned' : \E i \in Commits(log) :
              log[i].id = x.receipt /\ log[i].request = x.request
         /\ \A i \in Commits(log) : Covers(intents'[log[i].request], i)
         /\ PendingOf(intents') = {}
<1>1. PICK p \in Processes : WitnessStep(p)
  BY StepsAre
<1>2. QED
  BY <1>1, RevisionSees

(* A step that returns a witnessed receipt sees every receipt returned     *)
(* before in the registry, and an earlier intent for each commit.          *)
THEOREM SuccessSees == Spec => SuccessSeesEverything
<1>1. IInv /\ [Next]_vars =>
        [returned' # returned =>
           /\ \A x \in returned' : \E i \in Commits(log) :
                log[i].id = x.receipt /\ log[i].request = x.request
           /\ \A i \in Commits(log) : Covers(intents'[log[i].request], i)
           /\ PendingOf(intents') = {}]_vars
  BY SuccessStep
<1>2. QED
  BY <1>1, InvariantHolds, PTL DEF Spec, SuccessSeesEverything
=============================================================================
