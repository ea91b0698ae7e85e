------------------------------ MODULE Witness ------------------------------
(***************************************************************************)
(* The witness of the fixture registry: production_witness/store.py,       *)
(* service.py and reader.py, over the registry of one account.             *)
(*                                                                         *)
(* Two databases and a checkpoint sink outside both.  A process keeps the  *)
(* newest pin it has seen in memory.  A witnessed commit observes the      *)
(* registry, retains the intent in the witness, lets the sink retain the   *)
(* pin, charges the registry and observes again; the process may stop, the *)
(* sink may fail and the current guard may refuse after each of these.     *)
(* Either database may be restored from a copy; a restore replaces the     *)
(* file, which processes that had opened the old one refuse.               *)
(*                                                                         *)
(* Registry.tla has the registry's own rules.  Here its history is what    *)
(* matters: the registry is the sequence of its events, in which random    *)
(* identifiers and hashes make every event, and every event of the         *)
(* witness, unique: each carries the number of its creation.               *)
(***************************************************************************)
EXTENDS Integers, Sequences, FiniteSets

CONSTANTS
  Requests,      \* permanent request identities of the account
  Processes,     \* service processes
  Capacity,      \* ACCOUNT_CAPACITY of the registry
  MaxPending,    \* MAX_PENDING
  MaxIntents,    \* MAX_INTENTS
  MaxRevisions,  \* MAX_EVENTS of the witness
  MaxRestores,   \* bound of the model: restores of either database
  MaxIds         \* bound of the model: events of both databases ever written

ASSUME WitnessAssumption ==
  /\ Capacity \in Nat \ {0} /\ MaxPending \in Nat \ {0} /\ MaxIntents \in Nat
  /\ MaxRevisions \in Nat \ {0} /\ MaxRestores \in Nat /\ MaxIds \in Nat

VARIABLES
  log,       \* the registry: its history of events
  prepared,  \* the contents that clients have prepared, by request identity
  pins,      \* witness: the head after each of its revisions
  history,   \* witness: the accepted copy of the registry history
  intents,   \* witness: the intent of each request identity
  floor,     \* the pin the external sink retains, with the intents it covers
  server,    \* the service processes
  call,      \* the commit that each process executes
  returned,  \* witnessed receipts that were returned to callers
  backup,    \* copies of the two databases
  restores,  \* number of restores
  ids        \* events created so far

registry == <<log, prepared>>
witness == <<pins, history, intents>>
process == <<server, call>>
vars == <<registry, witness, floor, process, returned, backup, restores, ids>>

-----------------------------------------------------------------------------
Absent == [state |-> "absent"]
Down == [state |-> "down"]
Idle == [pc |-> "idle"]

Outcomes == {"stopped", "sink failed", "denied", "accepted"}

Commits(h) == {i \in 1..Len(h) : h[i].kind = "committed"}
Activations(h) == {i \in 1..Len(h) : h[i].kind = "activated"}
Newest(S) == CHOOSE i \in S : \A j \in S : j <= i

Epoch == Cardinality(Activations(log))
Broker == IF Activations(log) = {} THEN 0 ELSE log[Newest(Activations(log))].id
Sequence == Cardinality(Commits(log))
LastCommit == IF Commits(log) = {} THEN 0 ELSE log[Newest(Commits(log))].id
AccountHead == [sequence |-> Sequence, head |-> LastCommit]

CurrentPin == [revision |-> Len(pins), id |-> pins[Len(pins)]]
PendingOf(records) == {r \in Requests : records[r].state = "pending"}

(* The broker check of every registry transaction.                         *)
RequireBroker(p) == server[p].state # "down" /\ server[p].broker = Broker

(* A pin is good when it is exactly the head that the witness had at that  *)
(* revision.                                                               *)
Retained(pin) == pin.revision <= Len(pins) /\ pins[pin.revision] = pin.id

(* A witness is enrolled over a fresh registry whose first service is up.  *)
Init ==
  /\ log = <<[id |-> 1, kind |-> "created"], [id |-> 2, kind |-> "activated"]>>
  /\ prepared = {}
  /\ pins = <<3>> /\ history = log
  /\ intents = [r \in Requests |-> Absent]
  /\ floor = [pin |-> [revision |-> 1, id |-> 3], intents |-> intents]
  /\ \E p \in Processes :
       server = [[q \in Processes |-> Down] EXCEPT ![p] =
                   [state |-> "registry", broker |-> 2, epoch |-> 1]]
  /\ call = [p \in Processes |-> Idle]
  /\ returned = {}
  /\ backup = [registry |-> log, witness |-> witness]
  /\ restores = 0 /\ ids = 3
-----------------------------------------------------------------------------
(* Processes.  The registry service activates its broker, then the witness *)
(* service checks the pin that the sink retains and passes on the newest;  *)
(* the guard may still refuse after the sink, and there is no service.     *)
Activate(p) ==
  /\ server[p] = Down /\ ids < MaxIds
  /\ ids' = ids + 1
  /\ log' = Append(log, [id |-> ids + 1, kind |-> "activated"])
  /\ server' = [server EXCEPT ![p] =
       [state |-> "registry", broker |-> ids + 1, epoch |-> Epoch + 1]]
  /\ UNCHANGED <<prepared, witness, floor, call, returned, backup, restores>>

Attach(p) ==
  /\ server[p].state = "registry"
  /\ Retained(floor.pin)
  /\ \/ server' = [server EXCEPT ![p] = [state |-> "witness", broker |-> server[p].broker,
                                         epoch |-> server[p].epoch, pin |-> CurrentPin]]
     \/ UNCHANGED server /\ floor.pin # CurrentPin
  /\ floor' = [pin |-> CurrentPin, intents |-> intents]
  /\ UNCHANGED <<registry, witness, call, returned, backup, restores, ids>>

Stop(p) ==
  /\ server[p] # Down
  /\ server' = [server EXCEPT ![p] = Down]
  /\ call' = [call EXCEPT ![p] = Idle]
  /\ UNCHANGED <<registry, witness, floor, returned, backup, restores, ids>>

-----------------------------------------------------------------------------
(* The registry.  A client freezes the heads it read into its request; it  *)
(* may prepare the same identity again and keep both contents.             *)
PrepareRequest(p, r) ==
  /\ RequireBroker(p) /\ call[p] = Idle
  /\ prepared' = prepared \cup {[request |-> r, expected |-> AccountHead]}
  /\ UNCHANGED <<log, witness, floor, process, returned, backup, restores, ids>>

Receipts(r) == {i \in Commits(log) : log[i].request = r}

Charge(p, r, expected, witnessed) ==
  /\ RequireBroker(p)
  /\ IF Receipts(r) # {}
     THEN /\ \A i \in Receipts(r) : log[i].expected = expected
          /\ UNCHANGED <<log, ids>>
     ELSE /\ expected = AccountHead /\ Sequence < Capacity
          /\ ids < MaxIds /\ ids' = ids + 1
          /\ log' = Append(log, [id |-> ids + 1, kind |-> "committed", request |-> r,
                                 expected |-> expected, epoch |-> server[p].epoch,
                                 witnessed |-> witnessed])

(* The registry service also commits for callers that bypass the witness.  *)
DirectCommit(p, content) ==
  /\ call[p] = Idle /\ Receipts(content.request) = {}
  /\ Charge(p, content.request, content.expected, FALSE)
  /\ UNCHANGED <<prepared, witness, floor, process, returned, backup, restores>>
-----------------------------------------------------------------------------
(* The witness, always called under the registry's write lock.  Everything *)
(* that it accepted must still be there, and each commit beyond that must  *)
(* have had exactly its intent before it happened.                         *)
\* Mutant: only the length of the accepted history is compared.
LongerThanAccepted == Len(history) <= Len(log)
Extends == /\ Len(history) <= Len(log)
           /\ \A i \in 1..Len(history) : log[i] = history[i]

Unwitnessed == {i \in Commits(log) : i > Len(history)}

\* Mutant: any commit of a known request is good.
IntentKnown(i) == intents[log[i].request] # Absent
Covered(i) ==
  LET record == intents[log[i].request] IN
  /\ record.state = "pending"
  /\ record.expected = log[i].expected
  /\ record.epoch = log[i].epoch
  /\ record.predecessor < i

\* Mutant: a new broker is taken as proof that the intent is lost.
OverdueOrFenced(record) == Sequence > record.expected.sequence \/ Epoch > record.epoch
Superseded(record) == Sequence > record.expected.sequence

Unresolved(record) == record.state = "pending"

Commit(r) == CHOOSE i \in Unwitnessed : log[i].request = r

Reconciled ==
  [r \in Requests |->
     IF ~Unresolved(intents[r]) THEN intents[r]
     ELSE IF \E i \in Unwitnessed : log[i].request = r
          THEN [intents[r] EXCEPT !.state = "committed", !.receipt = log[Commit(r)].id]
     ELSE IF Superseded(intents[r]) THEN [intents[r] EXCEPT !.state = "aborted"]
     ELSE intents[r]]

\* Mutant: one revision more than the bound.
RevisionNotPassed == Len(pins) <= MaxRevisions
RevisionLeft == Len(pins) < MaxRevisions

(* A revision is written when the observation differs from the last one;   *)
(* an observation at a later time does, whatever the history.              *)
Records(records, later) ==
  /\ Extends
  /\ \A i \in Unwitnessed : Covered(i)
  /\ intents' = records /\ history' = log
  /\ IF later \/ log # history \/ records # intents
     THEN /\ RevisionLeft /\ ids < MaxIds
          /\ pins' = Append(pins, ids + 1) /\ ids' = ids + 1
     ELSE UNCHANGED <<pins, ids>>

NewIntent(p) ==
  [state |-> "pending", expected |-> call[p].content.expected, epoch |-> Epoch,
   predecessor |-> Len(log), receipt |-> 0]

\* Mutant: a failed sink does not stop the commit.
SinkIgnored(outcome) == outcome \in {"accepted", "sink failed"}
Proceeds(outcome) == outcome = "accepted"

(* The pin of a witness transaction is accepted: the process remembers it, *)
(* the sink retains it, unless it holds a later one or another of the same *)
(* revision, and the guard is consulted once more.                         *)
Accept(p, outcome, next) ==
  LET pin == [revision |-> Len(pins'), id |-> pins'[Len(pins')]] IN
  /\ outcome \in Outcomes
  /\ outcome \in {"denied", "accepted"} =>
       pin.revision > floor.pin.revision \/ pin = floor.pin
  /\ server' = [server EXCEPT ![p] =
       IF outcome = "stopped" THEN Down ELSE [@ EXCEPT !.pin = pin]]
  /\ floor' = IF outcome \in {"denied", "accepted"}
              THEN [pin |-> pin, intents |-> intents'] ELSE floor
  /\ call' = [call EXCEPT ![p] = IF Proceeds(outcome) THEN next ELSE Idle]

Observes(p, later) ==
  /\ server[p].state = "witness" /\ RequireBroker(p)
  /\ Retained(server[p].pin)
  /\ Records(Reconciled, later)

\* Mutant: the receipt is returned while another intent is unresolved.
OwnIntentResolved(r) == intents'[r].state = "committed"
Result(r) == intents'[r].state = "committed" /\ PendingOf(intents') = {}

Returns(outcome, r) ==
  returned' = IF Proceeds(outcome) /\ Result(r)
              THEN returned \cup {[request |-> r, receipt |-> intents'[r].receipt]}
              ELSE returned

(* A commit starts with an observation.  A request that is resolved, or    *)
(* whose identity has another content, or whose intent belongs to another  *)
(* broker, ends there; a pending one goes straight to the registry.        *)
NextCall(p, content) ==
  LET record == intents'[content.request] IN
  IF record = Absent THEN [pc |-> "observed", content |-> content]
  ELSE IF record.state = "pending" /\ record.expected = content.expected
            /\ record.epoch = server[p].epoch
       THEN [pc |-> "intended", content |-> content]
       ELSE Idle

Observe(p, content, outcome, later) ==
  /\ call[p] = Idle
  /\ Observes(p, later)
  /\ Accept(p, outcome, NextCall(p, content))
  /\ IF intents'[content.request] # Absent /\ intents'[content.request].expected = content.expected
     THEN Returns(outcome, content.request)
     ELSE UNCHANGED returned
  /\ UNCHANGED <<registry, backup, restores>>

RetainIntent(p, outcome, later) ==
  /\ call[p].pc = "observed"
  /\ LET r == call[p].content.request IN
     IF Reconciled[r] # Absent
     THEN Reconciled[r] = NewIntent(p) /\ Observes(p, later)
     ELSE /\ server[p].state = "witness" /\ RequireBroker(p) /\ Retained(server[p].pin)
          /\ Cardinality({q \in Requests : Reconciled[q] # Absent}) < MaxIntents
          /\ Cardinality(PendingOf(Reconciled)) < MaxPending
          /\ call[p].content.expected = AccountHead
          /\ Records([Reconciled EXCEPT ![r] = NewIntent(p)], later)
  /\ Accept(p, outcome, [pc |-> "intended", content |-> call[p].content])
  /\ UNCHANGED <<registry, returned, backup, restores>>

CommitRegistry(p) ==
  /\ call[p].pc = "intended"
  /\ Charge(p, call[p].content.request, call[p].content.expected, TRUE)
  /\ call' = [call EXCEPT ![p].pc = "charged"]
  /\ UNCHANGED <<prepared, witness, floor, server, returned, backup, restores>>

Confirm(p, outcome, later) ==
  /\ call[p].pc = "charged"
  /\ Observes(p, later)
  /\ Accept(p, outcome, Idle)
  /\ Returns(outcome, call[p].content.request)
  /\ UNCHANGED <<registry, backup, restores>>

(* Any exception between these steps ends the call; what the databases and *)
(* the sink hold stays.                                                    *)
Abandon(p) ==
  /\ call[p] # Idle
  /\ call' = [call EXCEPT ![p] = Idle]
  /\ UNCHANGED <<registry, witness, floor, server, returned, backup, restores, ids>>

Recover(p, r, outcome, later) ==
  /\ call[p] = Idle
  /\ Observes(p, later)
  /\ Accept(p, outcome, Idle)
  /\ Returns(outcome, r)
  /\ UNCHANGED <<registry, backup, restores>>

-----------------------------------------------------------------------------
(* Copies.  One is kept of each database, taken at any time.  The sink is  *)
(* outside this custody and is never restored.                             *)
Copy ==
  /\ backup' = [registry |-> log, witness |-> witness] /\ backup # backup'
  /\ UNCHANGED <<registry, witness, floor, process, returned, restores, ids>>

Restore(which) ==
  /\ restores < MaxRestores /\ restores' = restores + 1
  /\ IF "registry" \in which THEN log' = backup.registry ELSE UNCHANGED log
  /\ IF "witness" \in which
     THEN /\ pins' = backup.witness[1] /\ history' = backup.witness[2]
          /\ intents' = backup.witness[3]
     ELSE UNCHANGED witness
  /\ server' = [p \in Processes |-> Down] /\ call' = [p \in Processes |-> Idle]
  /\ UNCHANGED <<prepared, floor, returned, backup, ids>>

Next ==
  \/ Copy
  \/ \E which \in (SUBSET {"registry", "witness"}) \ {{}} : Restore(which)
  \/ \E p \in Processes :
       \/ Activate(p) \/ Attach(p) \/ Stop(p) \/ Abandon(p) \/ CommitRegistry(p)
       \/ \E r \in Requests : PrepareRequest(p, r)
       \/ \E content \in prepared : DirectCommit(p, content)
       \/ \E outcome \in Outcomes, later \in BOOLEAN :
            \/ \E content \in prepared : Observe(p, content, outcome, later)
            \/ RetainIntent(p, outcome, later)
            \/ Confirm(p, outcome, later)
            \/ \E r \in Requests : Recover(p, r, outcome, later)

Spec == Init /\ [][Next]_vars
-----------------------------------------------------------------------------
Content == [request : Requests, expected : [sequence : Nat, head : Nat]]
Event == [id : Nat, kind : {"created", "activated"}]
  \cup [id : Nat, kind : {"committed"}, request : Requests,
        expected : [sequence : Nat, head : Nat], epoch : Nat, witnessed : BOOLEAN]
Record == [state : {"pending", "committed", "aborted"}, epoch : Nat, predecessor : Nat,
           expected : [sequence : Nat, head : Nat], receipt : Nat]
Pin == [revision : Nat, id : Nat]

(* Type invariant: the two databases, the sink, the processes; the account *)
(* is within its capacity and the pending intents within their bound.      *)
TypeOK ==
  /\ log \in Seq(Event) /\ prepared \subseteq Content
  /\ pins \in Seq(Nat) /\ Len(pins) \in 1..MaxRevisions
  /\ history \in Seq(Event)
  /\ intents \in [Requests -> Record \cup {Absent}]
  /\ floor.pin \in Pin /\ floor.intents \in [Requests -> Record \cup {Absent}]
  /\ \A p \in Processes :
       /\ server[p].state \in {"down", "registry", "witness"}
       /\ server[p].state = "witness" => server[p].pin \in Pin
       /\ call[p] = Idle \/ call[p] \in [pc : {"observed", "intended", "charged"}, content : Content]
       /\ call[p] # Idle => server[p].state = "witness"
  /\ returned \subseteq [request : Requests, receipt : Nat]
  /\ Sequence <= Capacity
  /\ Cardinality(PendingOf(intents)) <= MaxPending

Covers(record, i) ==
  /\ record # Absent
  /\ record.expected = log[i].expected /\ record.epoch = log[i].epoch
  /\ record.predecessor < i

(* Charge only after the intent is out of reach of a restore: each commit  *)
(* of the witness service had exactly its intent under the pin that the    *)
(* external sink retains (FixtureWitnessService.commit).                   *)
ChargedOnlyAfterCheckpoint ==
  \A i \in Commits(log) : log[i].witnessed => Covers(floor.intents[log[i].request], i)

(* A receipt that was returned as witnessed is for ever the receipt of its *)
(* request in every witness database that has the sink's pin, restored or  *)
(* not; a request never has two such receipts.                             *)
WitnessedIsDurable ==
  /\ Retained(floor.pin) =>
       \A x \in returned : /\ intents[x.request].state = "committed"
                           /\ intents[x.request].receipt = x.receipt
  /\ \A x, y \in returned : x.request = y.request => x = y

(* The accepted history and the intents agree: exactly the commits of that *)
(* history are committed, each under its own earlier intent.               *)
HistoryMatchesIntents ==
  /\ \A i \in Commits(history) :
       LET record == intents[history[i].request] IN
       /\ record.state = "committed" /\ record.receipt = history[i].id
       /\ record.expected = history[i].expected /\ record.epoch = history[i].epoch
       /\ record.predecessor < i
  /\ \A r \in Requests : intents[r].state = "committed" =>
       \E i \in Commits(history) : history[i].request = r

(* An aborted intent can never be charged any more: as long as the         *)
(* registry still has the accepted history, no later commit has the        *)
(* content of an aborted intent (_reconcile).                              *)
AbortIsIrreversible ==
  Extends => \A r \in Requests : intents[r].state = "aborted" =>
     ~\E i \in Commits(log) : log[i].request = r /\ log[i].expected = intents[r].expected

(* A step that returns a witnessed receipt sees a registry that still has  *)
(* every receipt returned before, whatever was restored, and in which each *)
(* commit, those that bypassed the witness included, had its own earlier   *)
(* intent; nothing is pending.                                             *)
SuccessSeesEverything ==
  [][returned' # returned =>
       /\ \A x \in returned' : \E i \in Commits(log) :
            log[i].id = x.receipt /\ log[i].request = x.request
       /\ \A i \in Commits(log) : Covers(intents'[log[i].request], i)
       /\ PendingOf(intents') = {}]_vars
=============================================================================
