------------------------------ MODULE Delivery ------------------------------
(***************************************************************************)
(* Controlled delivery of a fixture: production_delivery/store.py          *)
(* (DeliveryStore), gateway.py (FixtureDeliveryGateway) and checkpoint.py  *)
(* (FileCheckpointSink).                                                   *)
(*                                                                         *)
(* The database is its event history: the store replays it before every    *)
(* operation and keeps nothing else, so that here the tables are operators *)
(* over the history, and a pin, which names a sequence number and a hash   *)
(* of everything up to it, is that prefix of the history.  A session is    *)
(* one gateway object.  Each of its calls holds the identity lock of its   *)
(* process; between its transactions it presents the pin to the sink, and  *)
(* calls the writer, while sessions of other processes go on.              *)
(***************************************************************************)
EXTENDS Integers, Sequences, FiniteSets, FiniteSetsExt, SequencesExt

CONSTANTS
  Sessions,         \* gateway objects, each constructed at most once
  Processes,
  ProcessOf,        \* the process that constructs a session
  Nobody,
  Requests,         \* request identifiers; callers may repeat one
  Lengths,          \* chunk lengths that callers ask for
  Size,             \* artifact_size
  Allowance,        \* max_attempted_bytes of a grant
  Seconds,          \* lifetimes that callers ask for
  Management,       \* the operations that operators call
  MaxActivations, MaxGrants, MaxTransfer,  \* capacities of the store
  MaxEvents,        \* bound on the history
  MaxTime,          \* bound on the clock of the model
  MaxRestores       \* bound on the restores of the model

ASSUME DeliveryAssumption ==
  /\ ProcessOf \in [Sessions -> Processes] /\ Nobody \notin Sessions
  /\ Lengths \subseteq Nat \ {0} /\ Size \in Nat /\ Allowance \in Nat
  /\ Seconds \subseteq Nat \ {0}
  /\ Management \subseteq {"suspend", "resume", "revoke", "revoke_grant"}
  /\ MaxActivations \in Nat /\ MaxGrants \in Nat /\ MaxTransfer \in Nat
  /\ MaxEvents \in Nat /\ MaxTime \in Nat /\ MaxRestores \in Nat

VARIABLES
  log,       \* the database: the event history
  issued,    \* number of identifiers drawn for activations and grants
  sink,      \* the newest pin that the checkpoint directory retains
  session,   \* each gateway: where it is, its pin and its proofs
  bound,     \* per process: the session whose capability the store accepts
  time,
  restores,  \* number of restores of an older database
  cleared,   \* history: admissions whose own session saw their pin retained
  writes     \* history: what was given to the writer, in order

database == <<log, issued>>
vars == <<database, sink, session, bound, time, restores, cleared, writes>>

-----------------------------------------------------------------------------
(* What a history h says.                                                  *)
Recorded(h, op) == {h[i] : i \in {j \in DOMAIN h : h[j].op = op}}

Activation(h, id) == CHOOSE e \in Recorded(h, "activate") : e.id = id
Grant(h, id) == CHOOSE e \in Recorded(h, "grant") : e.id = id
Known(h, op, id) == \E e \in Recorded(h, op) : e.id = id

Switching == [suspend |-> "suspended", resume |-> "active", revoke |-> "revoked"]
RouteState(h, id) ==
  LET switches == {i \in DOMAIN h : h[i].op \in DOMAIN Switching /\ h[i].id = id}
  IN IF switches = {} THEN "active" ELSE Switching[h[Max(switches)].op]

GrantRevoked(h, id) == \E e \in Recorded(h, "revoke_grant") : e.id = id

Admitted(h, g) == {e \in Recorded(h, "admit") : e.grant = g}

AttemptedBytes(h, g) == MapThenSumSet(LAMBDA e : e.length, Admitted(h, g))
NextOffset(h, g) == Max({0} \cup {e.offset + e.length : e \in Admitted(h, g)})

(* A pin is good for a history that has it as an exact ancestor.           *)
Extends(pin) == IsPrefix(pin, log)
-----------------------------------------------------------------------------
Free == {"new", "binding", "idle", "dead"}
LockFree(p) == \A s \in Sessions : ProcessOf[s] = p => session[s].pc \in Free

Go(s, pc) == session' = [session EXCEPT ![s].pc = pc]

NewSession == [pc |-> "new", pin |-> << >>, proofs |-> {}]
Dead == [NewSession EXCEPT !.pc = "dead"]

Init ==
  /\ log = << >> /\ issued = 0
  /\ sink = << >>
  /\ session = [s \in Sessions |-> NewSession]
  /\ bound = [p \in Processes |-> Nobody]
  /\ time = 0 /\ restores = 0
  /\ cleared = {} /\ writes = << >>

(* The constructor takes the store over before it waits for the lock; the  *)
(* operator hands it the pin that the directory retains.                   *)
Bind(s) ==
  /\ session[s].pc = "new"
  /\ session' = [session EXCEPT ![s].pc = "binding", ![s].pin = sink]
  /\ bound' = [bound EXCEPT ![ProcessOf[s]] = s]
  /\ UNCHANGED <<database, sink, time, restores, cleared, writes>>

(* A transaction that only reads: inspect and get.  The session keeps the  *)
(* newer pin before it presents it.                                        *)
Read(s, from, to) ==
  /\ session[s].pc = from /\ LockFree(ProcessOf[s])
  /\ Extends(session[s].pin)
  /\ session' = [session EXCEPT ![s].pc = to, ![s].pin = log]
  /\ UNCHANGED <<database, sink, bound, time, restores, cleared, writes>>

Open(s) == Read(s, "binding", "opening")
Begin(s) == Read(s, "idle", "beginning")

\* Mutant: the directory takes whatever it is given.
AnyPin(pin) == TRUE
Retainable(pin) == Len(pin) > Len(sink) \/ pin = sink

Retain(s, from, to) ==
  /\ session[s].pc = from /\ Retainable(session[s].pin)
  /\ sink' = session[s].pin
  /\ Go(s, to)
  /\ UNCHANGED <<database, bound, time, restores, writes>>

RetainRead(s) ==
  /\ Retain(s, "opening", "idle") \/ Retain(s, "beginning", "ready")
  /\ UNCHANGED cleared
-----------------------------------------------------------------------------
Room == Len(log) < MaxEvents

(* A transaction that appends one event.  It starts from exactly the       *)
(* history that the session read, samples the guard at its start and its   *)
(* end, and rolls back when it ends at a deadline or later.                *)
Transaction(s, base, event, deadlines, final) ==
  /\ Room
  /\ \A deadline \in deadlines : final < deadline
  /\ log' = Append(base, event)
  /\ time' = final
  /\ session' = [session EXCEPT ![s].pc = "keeping", ![s].pin = log']
  /\ UNCHANGED <<sink, bound, restores, cleared, writes>>

Current(s) == session[s].pc = "ready" /\ session[s].pin = log

Capable(s) == bound[ProcessOf[s]] = s

(* Activation and grant proofs are those the session made itself.          *)
\* Mutant: any session may use a recorded activation or grant.
RecordIsProof(s, id) == TRUE
Proven(s, id) == id \in session[s].proofs

RouteCurrent(id) ==
  /\ Known(log, "activate", id) /\ RouteState(log, id) = "active"
  /\ time < Activation(log, id).until

Activate(s, seconds, final) ==
  LET until == time + seconds IN
  /\ Current(s) /\ Capable(s)
  /\ Cardinality(Recorded(log, "activate")) < MaxActivations
  /\ Transaction(s, log, [op |-> "activate", id |-> issued + 1, by |-> s,
                          until |-> until], {until}, final)
  /\ issued' = issued + 1

GrantRoute(s, route, seconds, final) ==
  LET end == Activation(log, route).until
      until == Min({time + seconds, end}) IN
  /\ Current(s) /\ RouteCurrent(route) /\ Proven(s, route)
  /\ Cardinality(Recorded(log, "grant")) < MaxGrants
  /\ Transaction(s, log, [op |-> "grant", id |-> issued + 1, route |-> route, by |-> s,
                          until |-> until], {until, end}, final)
  /\ issued' = issued + 1

(* Suspension and revocation need no proof and know no deadline.           *)
Switch(s, op, route, final) ==
  /\ Current(s) /\ Known(log, "activate", route)
  /\ op = "suspend" => RouteState(log, route) = "active"
  /\ op = "resume" => /\ RouteState(log, route) = "suspended" /\ Proven(s, route)
                      /\ time < Activation(log, route).until
  /\ op = "revoke" => RouteState(log, route) # "revoked"
  /\ Transaction(s, log, [op |-> op, id |-> route],
                 IF op = "resume" THEN {Activation(log, route).until} ELSE {}, final)
  /\ UNCHANGED issued

RevokeGrant(s, g, final) ==
  /\ Current(s) /\ Known(log, "grant", g) /\ ~GrantRevoked(log, g)
  /\ Transaction(s, log, [op |-> "revoke_grant", id |-> g], {}, final)
  /\ UNCHANGED issued

(* Only the next chunk, or the same bytes again under a new request.       *)
InOrder(g, offset, length) ==
  \/ offset = NextOffset(log, g)
  \/ \E e \in Admitted(log, g) : e.offset = offset /\ e.length = length

FreshRequest(r) == ~\E e \in Recorded(log, "admit") : e.request = r

Admit(s, g, r, offset, length, final) ==
  LET grant == Grant(log, g) IN
  /\ Current(s) /\ Capable(s)
  /\ Known(log, "grant", g) /\ ~GrantRevoked(log, g)
  /\ RouteCurrent(grant.route) /\ time < grant.until
  /\ Proven(s, g) /\ Proven(s, grant.route)
  /\ FreshRequest(r) /\ InOrder(g, offset, length)
  /\ Cardinality(Admitted(log, g)) < MaxTransfer
  /\ AttemptedBytes(log, g) + length <= Allowance
  /\ offset + length <= Size
  /\ Transaction(s, log, [op |-> "admit", grant |-> g, request |-> r, offset |-> offset,
                          length |-> length],
                 {grant.until, Activation(log, grant.route).until}, final)
  /\ UNCHANGED issued
-----------------------------------------------------------------------------
(* After the transaction: the new pin is presented, and only then is the   *)
(* result used.                                                            *)
RetainEvent(s) ==
  /\ Retain(s, "keeping", "kept")
  /\ cleared' = IF Last(session[s].pin).op = "admit"
                THEN cleared \cup {Last(session[s].pin)} ELSE cleared

Finish(s) ==
  LET event == Last(session[s].pin) IN
  /\ session[s].pc = "kept" /\ event.op # "admit"
  /\ event.op \in {"activate", "grant"} => time < event.until
  /\ session' = [session EXCEPT ![s].pc = "idle",
       ![s].proofs = IF event.op \in {"activate", "grant"} THEN @ \cup {event.id} ELSE @]
  /\ UNCHANGED <<database, sink, bound, time, restores, cleared, writes>>

\* Mutant: when the extent is not known the writer is called again.
WrittenOrAgain == {"known", "kept"}
Outcomes == {"known", "unknown"}

(* The writer gets the bytes of the admission, once, and says how many it  *)
(* wrote, if it says anything.                                             *)
Write(s, bytes) ==
  LET event == Last(session[s].pin)
      grant == Grant(session[s].pin, event.grant) IN
  /\ session[s].pc = "kept" /\ event.op = "admit"
  /\ time < grant.until /\ time < Activation(session[s].pin, grant.route).until
  /\ bytes <= event.length
  /\ writes' = Append(writes, [pin |-> session[s].pin, by |-> s, at |-> time, bytes |-> bytes])
  /\ \E said \in Outcomes : Go(s, said)
  /\ UNCHANGED <<database, sink, bound, time, restores, cleared>>

Unknown == -1
\* Mutant: what is recorded is the length of the chunk.
WholeChunk(s) == Last(session[s].pin).length
Extent(s) ==
  IF session[s].pc = "known" THEN writes[Max({i \in DOMAIN writes : writes[i].by = s})].bytes
  ELSE Unknown

(* The observation is appended to whatever history extends the pin; get    *)
(* and apply are one step here because an event between them only makes    *)
(* the recording fail.                                                     *)
Observe(s, final) ==
  LET r == Last(session[s].pin).request IN
  /\ session[s].pc \in {"known", "unknown"} /\ Extends(session[s].pin)
  /\ \E e \in Recorded(log, "admit") : e.request = r
  /\ ~\E e \in Recorded(log, "observe") : e.request = r
  /\ Transaction(s, log, [op |-> "observe", request |-> r, extent |-> Extent(s)],
                 {}, final)
  /\ UNCHANGED issued

(* A refusal by the guard, the store or the sink ends the call; the pin    *)
(* stays, and a constructor leaves no gateway.                             *)
Refuse(s) ==
  /\ session[s].pc \notin {"new", "idle", "dead"}
  /\ IF session[s].pc \in {"binding", "opening"}
     THEN session' = [session EXCEPT ![s] = Dead] ELSE Go(s, "idle")
  /\ UNCHANGED <<database, sink, bound, time, restores, cleared, writes>>

Crash(p) ==
  /\ \E s \in Sessions : ProcessOf[s] = p /\ session[s].pc \notin {"new", "dead"}
  /\ session' = [s \in Sessions |->
       IF ProcessOf[s] = p /\ session[s].pc # "new" THEN Dead ELSE session[s]]
  /\ bound' = [bound EXCEPT ![p] = Nobody]
  /\ UNCHANGED <<database, sink, time, restores, cleared, writes>>

(* An older copy of the database is put in place, under running sessions.  *)
Restore(n) ==
  /\ restores < MaxRestores /\ n < Len(log)
  /\ log' = SubSeq(log, 1, n) /\ restores' = restores + 1
  /\ UNCHANGED <<issued, sink, session, bound, time, cleared, writes>>

Tick ==
  /\ time < MaxTime /\ time' = time + 1
  /\ UNCHANGED <<database, sink, session, bound, restores, cleared, writes>>

Apply(s, final) ==
  \/ \E seconds \in Seconds :
       \/ Activate(s, seconds, final)
       \/ \E route \in 1..issued : GrantRoute(s, route, seconds, final)
  \/ \E route \in 1..issued, op \in Management \ {"revoke_grant"} : Switch(s, op, route, final)
  \/ \E g \in 1..issued :
       \/ "revoke_grant" \in Management /\ RevokeGrant(s, g, final)
       \/ \E r \in Requests, offset \in 0..Size, length \in Lengths :
            Admit(s, g, r, offset, length, final)

Next ==
  \/ \E s \in Sessions :
       \/ Bind(s) \/ Open(s) \/ Begin(s) \/ RetainRead(s) \/ RetainEvent(s)
       \/ Finish(s) \/ Refuse(s)
       \/ \E bytes \in 0..Size : Write(s, bytes)
       \/ \E final \in time..MaxTime : Apply(s, final) \/ Observe(s, final)
  \/ \E p \in Processes : Crash(p)
  \/ \E n \in 0..MaxEvents : Restore(n)
  \/ Tick

Spec == Init /\ [][Next]_vars
-----------------------------------------------------------------------------
Chunk == [op : {"admit"}, grant : 1..MaxEvents + MaxEvents, request : Requests,
          offset : 0..Size, length : Lengths]

Written(i) == Last(writes[i].pin)
Released == [i \in DOMAIN writes |-> Written(i).request]

Abstract == INSTANCE Emission
  WITH Chunks <- Chunk, released <- Released

(* Bytes leave as Emission says, whatever two gateways, a crash, a failed  *)
(* sink or a restored database do meanwhile: an admission is retained      *)
(* outside the database before its bytes are written, so that no restore   *)
(* gives a request or an allowance back (deliver_chunk, _accept).  Three   *)
(* gateways in the middle of their calls may lose it: see ForksAreRefused. *)
ImplementsEmission == Abstract!Spec

(* What is recorded of a write is what was written: an observation in the  *)
(* history or in a retained pin belongs to one write of that very request, *)
(* and a known extent is the number of bytes that the writer released.     *)
ObservationsAreTrue ==
  \A h \in {sink, log} : \A e \in Recorded(h, "observe") :
    \E i \in DOMAIN writes :
      /\ Written(i).request = e.request
      /\ e.extent # Unknown => e.extent = writes[i].bytes

(* A stop that is retained is obeyed: once the directory retains that a    *)
(* route is suspended or revoked, or a grant revoked, no chunk of it is    *)
(* cleared any more, also when its admission was committed before.         *)
StopsAreObeyed ==
  [][\A c \in cleared' \ cleared :
       /\ Known(sink, "grant", c.grant) /\ ~GrantRevoked(sink, c.grant)
       /\ RouteState(sink, Grant(sink, c.grant).route) = "active"]_vars

(* A route is used by the gateway that made it, while it lasts: activation *)
(* and grant of every chunk written were made by the session that writes   *)
(* it, and both have time left, whatever restarted or was rebound since.   *)
RoutesAreFresh ==
  \A i \in DOMAIN writes :
    LET w == writes[i]
        grant == Grant(w.pin, Written(i).grant)
        route == Activation(w.pin, grant.route)
    IN /\ grant.by = w.by /\ w.at < grant.until
       /\ route.by = w.by /\ w.at < route.until

(* What the documentation says of the directory: the history that it       *)
(* retains only grows, and a fork of it is refused.  __call__ compares     *)
(* sequence numbers and cannot see a longer fork, which a call that        *)
(* appends to whatever history extends its own pin may present.            *)
ForksAreRefused == [][IsPrefix(sink, sink')]_vars
=============================================================================
