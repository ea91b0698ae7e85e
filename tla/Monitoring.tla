----------------------------- MODULE Monitoring -----------------------------
(***************************************************************************)
(* Fixture monitoring: production_monitoring/store.py (MonitorStore),      *)
(* service.py (FixtureMonitoringService), receiver.py                      *)
(* (FixtureAlertReceiver) and checkpoint.py (FileCheckpointSink).          *)
(*                                                                         *)
(* Three media change one after the other: the history of the monitor, the *)
(* deliveries of the receiver and the checkpoint directory.  Both stores   *)
(* are histories that are replayed before each operation, so that a pin is *)
(* a prefix of one of them.  Every service object lives in a process of    *)
(* its own and makes one call at a time (the identity lock); each of its   *)
(* steps is one transaction, or one presentation of a pin to the sink.     *)
(***************************************************************************)
EXTENDS Integers, Sequences, FiniteSets, FiniteSetsExt, SequencesExt

CONSTANTS
  Services,
  Fronts,       \* services that producers and responders call
  Mortal,       \* services whose process may stop at any point
  Keys,         \* pairs of a resource and a fault code
  Reports,      \* what producers report: a condition, and when it was seen
  None,
  MaxEvents,    \* bounds on the identifiers that producers and responders
  MaxOperations,  \* draw, each of them in order, ...
  MaxRecords,   \* ... on the history of the monitor ...
  MaxRestores   \* ... and on the restores of the model

ASSUME MonitoringAssumption ==
  /\ Fronts \subseteq Services /\ Mortal \subseteq Services /\ None \notin Nat
  /\ Reports \subseteq {"fault", "healthy"} \X Nat
  /\ MaxEvents \in Nat /\ MaxOperations \in Nat
  /\ MaxRecords \in Nat /\ MaxRestores \in Nat

EventIds == 1..MaxEvents
Drawn(ids) == 1..Cardinality(ids) + 1  \* the identifiers in use and the next one

VARIABLES
  log,       \* database of the monitor: its history
  inbox,     \* database of the receiver: the alerts it holds, in order
  sink,      \* the newest pin that the checkpoint directory retains
  service,   \* each service: where it is, its pin, the pin of its receiver
  restores   \* number of restores of an older database

vars == <<log, inbox, sink, service, restores>>

-----------------------------------------------------------------------------
(* What a history of the monitor says.  An event carries the incident that *)
(* the store attached to it; an alert is the event of a fault.             *)
Recorded(h, kind) == {h[n] : n \in {m \in DOMAIN h : h[m].kind = kind}}
Oldest(h, records) == h[Min({n \in DOMAIN h : h[n] \in records})]
Newest(h, records) == h[Max({n \in DOMAIN h : h[n] \in records})]

EventsOf(h, key) == {r \in Recorded(h, "event") : r.key = key}
Did(h, action, i) == \E r \in Recorded(h, "action") : r.action = action /\ r.incident = i

Alerts(h) == {r \in Recorded(h, "event") : r.condition = "fault"}
Acknowledged(h, e) == \E r \in Recorded(h, "ack") : r.alert = e
Pending(h) == {r \in Alerts(h) : ~Acknowledged(h, r.id)}

Incidents(h, key) == {r.incident : r \in EventsOf(h, key)} \ {None}
Unresolved(h, key) == {i \in Incidents(h, key) : ~Did(h, "resolve", i)}

IncidentOf(key, condition, id) ==
  IF Unresolved(log, key) # {} THEN CHOOSE i \in Unresolved(log, key) : TRUE
  ELSE IF condition = "fault" THEN id ELSE None

(* A pin is good for a history that has it as an exact ancestor.           *)
Extends(history, pin) == IsPrefix(pin, history)
-----------------------------------------------------------------------------
Go(s, pc) == service' = [service EXCEPT ![s].pc = pc, ![s].next = "idle"]

(* The pin is kept in memory, and is then to be published; the call goes   *)
(* on at "next".                                                           *)
Keep(s, pin, next) ==
  service' = [service EXCEPT ![s].pc = "publish", ![s].pin = pin, ![s].next = next]

NewService == [pc |-> "new", next |-> "idle", pin |-> << >>, rpin |-> << >>]

Init ==
  /\ log = << >> /\ inbox = << >> /\ sink = << >>
  /\ service = [s \in Services |-> NewService]
  /\ restores = 0

(* The operator opens the stores with the floors that the directory and    *)
(* the last acknowledgment below it name.                                  *)
ReceiverFloor ==
  IF Recorded(sink, "ack") = {} THEN << >> ELSE Newest(sink, Recorded(sink, "ack")).receipt

Construct(s) ==
  /\ service[s].pc = "new"
  /\ Extends(log, sink) /\ Extends(inbox, ReceiverFloor)
  /\ service' = [service EXCEPT ![s] =
       [pc |-> "publish", next |-> "idle", pin |-> log, rpin |-> inbox]]
  /\ UNCHANGED <<log, inbox, sink, restores>>

Publish(s) ==
  /\ service[s].pc = "publish"
  /\ Len(service[s].pin) > Len(sink) \/ service[s].pin = sink
  /\ sink' = service[s].pin
  /\ Go(s, service[s].next)
  /\ UNCHANGED <<log, inbox, restores>>

(* snapshot and flush_checkpoint, and the first step of incident and of    *)
(* route_pending.                                                          *)
Read(s, next) ==
  /\ service[s].pc = "idle" /\ Extends(log, service[s].pin)
  /\ Keep(s, log, next)
  /\ UNCHANGED <<log, inbox, sink, restores>>

(* A write needs the very history that the service knows.                  *)
Write(s, record, next) ==
  /\ service[s].pin = log /\ Len(log) < MaxRecords
  /\ log' = Append(log, record)
  /\ Keep(s, log', next)
  /\ UNCHANGED <<inbox, sink, restores>>

Repeat(s, next) ==
  /\ service[s].pin = log
  /\ Keep(s, log, next)
  /\ UNCHANGED <<log, inbox, sink, restores>>

(* A producer reports an observation, perhaps again, late or out of order; *)
(* observe uses the pin it has and reads nothing before.                   *)
\* Mutant: an observation that is older than the last one is recorded.
AnyOrder(key, at) == TRUE
NotOlder(key, at) == EventsOf(log, key) # {} => Newest(log, EventsOf(log, key)).at <= at

Observe(s, id, key, report) ==
  LET condition == report[1]
      at == report[2]
      seen == {r \in Recorded(log, "event") : r.id = id} IN
  /\ service[s].pc = "idle"
  /\ \/ /\ seen = {} /\ NotOlder(key, at)
        /\ Write(s, [kind |-> "event", id |-> id, key |-> key, condition |-> condition,
                     at |-> at, incident |-> IncidentOf(key, condition, id)], "idle")
     \/ /\ \E r \in seen : <<r.key, r.condition, r.at>> = <<key, condition, at>>
        /\ Repeat(s, "idle")

(* A responder acknowledges an incident, and resolves it once the latest   *)
(* observation is healthy; repeating an operation repeats its answer.      *)
Key(i) == (CHOOSE r \in Recorded(log, "event") : r.incident = i).key
Healthy(i) == Newest(log, EventsOf(log, Key(i))).condition = "healthy"

Act(s, op, action, i) ==
  LET done == {r \in Recorded(log, "action") : r.op = op} IN
  /\ service[s].pc = "acting"
  /\ \/ /\ done = {}
        /\ \E key \in Keys : i \in Unresolved(log, key)
        /\ IF action = "acknowledge" THEN ~Did(log, "acknowledge", i)
           ELSE Did(log, "acknowledge", i) /\ Healthy(i)
        /\ Write(s, [kind |-> "action", op |-> op, action |-> action, incident |-> i], "idle")
     \/ /\ \E r \in done : r.action = action /\ r.incident = i
        /\ Repeat(s, "idle")
-----------------------------------------------------------------------------
(* A routing pass.  The receiver must hold every alert that the history    *)
(* acknowledges, with the same content, at or below the pin that it        *)
(* acknowledged.                                                           *)
\* Mutant: the receiver is asked for its state without the alerts.
HoldsAnything(h) == TRUE
HoldsAll(h) ==
  \A r \in Recorded(h, "ack") :
    /\ Extends(inbox, r.receipt)
    /\ \A alert \in Alerts(h) : alert.id = r.alert => alert \in Range(r.receipt)

Custody(s) ==
  /\ service[s].pc = "routing"
  /\ Extends(inbox, service[s].rpin) /\ HoldsAll(service[s].pin)
  /\ service' = [service EXCEPT ![s].pc = "sending", ![s].rpin = inbox]
  /\ UNCHANGED <<log, inbox, sink, restores>>

(* The next alert that is not acknowledged.  The receiver takes it once:   *)
(* when it has it already, the answer is the same receipt again, and an    *)
(* identifier that it has with other content is refused.                   *)
\* Mutant: an alert that was taken before is refused.
NeverAgain(alert) == FALSE
Redelivered(alert) == alert \in Range(inbox)
NewToReceiver(alert) == \A r \in Range(inbox) : r.id # alert.id

NextAlert(h) == Oldest(h, Pending(h))

Receive(s) ==
  LET alert == NextAlert(service[s].pin) IN
  /\ service[s].pc = "sending" /\ Pending(service[s].pin) # {}
  /\ service[s].rpin = inbox
  /\ \/ NewToReceiver(alert) /\ inbox' = Append(inbox, alert)
     \/ Redelivered(alert) /\ inbox' = inbox
  /\ service' = [service EXCEPT ![s].pc = "received", ![s].rpin = inbox']
  /\ UNCHANGED <<log, sink, restores>>

Acknowledge(s) ==
  /\ service[s].pc = "received"
  /\ Write(s, [kind |-> "ack", alert |-> NextAlert(service[s].pin).id,
               receipt |-> service[s].rpin], "sending")

Finish(s) ==
  /\ service[s].pc = "sending" /\ Pending(service[s].pin) = {}
  /\ Extends(inbox, service[s].rpin) /\ HoldsAll(service[s].pin)
  /\ service' = [service EXCEPT ![s].pc = "routed", ![s].rpin = inbox]
  /\ UNCHANGED <<log, inbox, sink, restores>>

Return(s) ==
  /\ service[s].pc = "routed" /\ Go(s, "idle")
  /\ UNCHANGED <<log, inbox, sink, restores>>

(* A refusal by the guard, a store, the sink or the receiver ends the      *)
(* call; the pins stay.  Of a refused construction nothing would stay; it  *)
(* is left with its pins here, as after a refused flush_checkpoint.        *)
Refuse(s) ==
  /\ service[s].pc \notin {"new", "idle", "routed"}
  /\ Go(s, "idle")
  /\ UNCHANGED <<log, inbox, sink, restores>>

Crash(s) ==
  /\ s \in Mortal /\ service[s].pc # "new"
  /\ service' = [service EXCEPT ![s] = NewService]
  /\ UNCHANGED <<log, inbox, sink, restores>>

(* An older copy of a database is put in place, under running services.    *)
RestoreMonitor(n) ==
  /\ restores < MaxRestores /\ n < Len(log)
  /\ log' = SubSeq(log, 1, n) /\ restores' = restores + 1
  /\ UNCHANGED <<inbox, sink, service>>

RestoreReceiver(n) ==
  /\ restores < MaxRestores /\ n < Len(inbox)
  /\ inbox' = SubSeq(inbox, 1, n) /\ restores' = restores + 1
  /\ UNCHANGED <<log, sink, service>>

Pass(s) ==
  \/ Read(s, "routing") \/ Custody(s) \/ Receive(s) \/ Acknowledge(s) \/ Finish(s) \/ Return(s)

ObservedIds == EventIds \cap Drawn({r.id : r \in Recorded(log, "event")})
Operations == (1..MaxOperations) \cap Drawn({r.op : r \in Recorded(log, "action")})

Request(s) ==
  \/ \E next \in {"idle", "acting"} : Read(s, next)
  \/ \E op \in Operations, action \in {"acknowledge", "resolve"}, i \in EventIds :
       Act(s, op, action, i)
  \/ \E id \in ObservedIds, key \in Keys, report \in Reports : Observe(s, id, key, report)

Call(s) == Publish(s) \/ Refuse(s) \/ Pass(s) \/ (s \in Fronts /\ Request(s))

Next ==
  \/ \E s \in Services : Construct(s) \/ Call(s) \/ Crash(s)
  \/ \E n \in 0..MaxRecords : RestoreMonitor(n) \/ RestoreReceiver(n)

Spec == Init /\ [][Next]_vars

(* A service that does not stop is started, ends its calls and repeats its *)
(* passes, and from some time on is only refused what cannot be done.      *)
Runs(s) == Construct(s) \/ (Call(s) /\ service[s].pc # "idle")

FairSpec ==
  /\ Spec
  /\ \A s \in Services \ Mortal :
       /\ WF_vars(Runs(s)) /\ SF_vars(Read(s, "routing"))
       /\ <>[][Refuse(s) => ~ENABLED (Publish(s) \/ Pass(s))]_vars
-----------------------------------------------------------------------------
(* When a routing pass returns, every alert of the history that it read is *)
(* acknowledged and is held by the receiver, once, whatever was restored,  *)
(* crashed or routed by another service meanwhile (route_pending).         *)
RoutedIsHeld ==
  [][\A s \in Services : service[s].pc # "routed" /\ service'[s].pc = "routed" =>
       \A alert \in Alerts(service[s].pin) :
         /\ Acknowledged(service[s].pin, alert.id)
         /\ Cardinality({n \in DOMAIN inbox' : inbox'[n] = alert}) = 1]_vars

(* An incident stays open as long as its fault lasts: a key has at most    *)
(* one unresolved incident, and a fault that nothing healthy was observed  *)
(* at or after belongs to it, in whatever order the observations arrived   *)
(* and were repeated and the responders acted (_transition).               *)
IncidentsTrackFaults ==
  \A key \in Keys :
    /\ Cardinality(Unresolved(log, key)) <= 1
    /\ \A fault \in EventsOf(log, key) :
         /\ fault.condition = "fault"
         /\ \A r \in EventsOf(log, key) : r.condition = "healthy" => r.at < fault.at
         => fault.incident \in Unresolved(log, key)

(* Every alert is acknowledged in the end, through crashes of services,    *)
(* refusals by the sink and passes of other services, unless a database    *)
(* was restored: then the stores may refuse for good.                      *)
AlertsAreAcknowledged ==
  \A e \in EventIds :
    (\E r \in Alerts(log) : r.id = e)
      ~> (Acknowledged(log, e) \/ Len(log) = MaxRecords \/ restores > 0)
=============================================================================
