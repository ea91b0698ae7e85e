-------------------------- MODULE MonitoringProofs --------------------------
(***************************************************************************)
(* Proofs about fixture monitoring, for every set of services, keys and    *)
(* reports, every bound, and any number of restores of either database.    *)
(*                                                                         *)
(* What matters of a history holds of each of its prefixes, so that it     *)
(* survives a restore; what a service holds was a history once.            *)
(***************************************************************************)
EXTENDS Monitoring, SequenceTheorems, FiniteSetTheorems, WellFoundedInduction, TLAPS

IsHistory(h) == h \in Seq(Range(h))

Happened(h, id) == \E n \in DOMAIN h : h[n].kind = "event" /\ h[n].id = id

(* Events have identifiers of their own, come in the order of their times  *)
(* per key, and an incident is named after an event and belongs to one key.*)
EventsOK(h) ==
  /\ \A n \in DOMAIN h : h[n].kind = "event" =>
       /\ h[n].id \in Nat /\ h[n].at \in Nat
       /\ h[n].condition = "fault" => h[n].incident # None
       /\ h[n].incident # None => Happened(h, h[n].incident)
  /\ \A m, n \in DOMAIN h : h[m].kind = "event" /\ h[n].kind = "event" =>
       /\ h[m].id = h[n].id => m = n
       /\ h[m].key = h[n].key /\ m <= n => h[m].at <= h[n].at
       /\ h[m].incident = h[n].incident /\ h[m].incident # None => h[m].key = h[n].key

(* What responders and routing passes answer is about events before; the   *)
(* receipt of an acknowledged alert contains the alert.                    *)
AnswersOK(h) ==
  \A n \in DOMAIN h :
    /\ h[n].kind = "action" => Happened(h, h[n].incident)
    /\ h[n].kind = "ack" =>
         /\ IsHistory(h[n].receipt)
         /\ \E a \in Alerts(h) : a.id = h[n].alert /\ a \in Range(h[n].receipt)

Lasting(h, key, fault) ==
  /\ fault.condition = "fault"
  /\ \A r \in EventsOf(h, key) : r.condition = "healthy" => r.at < fault.at

Tracked(h, key) ==
  /\ \A i, j \in Unresolved(h, key) : i = j
  /\ \A fault \in EventsOf(h, key) :
       Lasting(h, key, fault) => fault.incident \in Unresolved(h, key)

Sound(h) == EventsOK(h) /\ AnswersOK(h) /\ \A key \in Keys : Tracked(h, key)

LogOK == IsHistory(log) /\ \A n \in 0..Len(log) : Sound(SubSeq(log, 1, n))

InboxOK ==
  /\ IsHistory(inbox)
  /\ \A m, n \in DOMAIN inbox : inbox[m].id = inbox[n].id => m = n

ServiceOK(s) ==
  /\ IsHistory(service[s].pin) /\ IsHistory(service[s].rpin) /\ Sound(service[s].pin)
  /\ service[s].next \in {"idle", "acting", "routing", "sending"}
  /\ service[s].pc = "received" =>
       /\ Pending(service[s].pin) # {}
       /\ NextAlert(service[s].pin) \in Range(service[s].rpin)

ServicesOK ==
  /\ service = [s \in Services |-> [pc |-> service[s].pc, next |-> service[s].next,
                                    pin |-> service[s].pin, rpin |-> service[s].rpin]]
  /\ \A s \in Services : ServiceOK(s)

IInv == LogOK /\ InboxOK /\ ServicesOK
-----------------------------------------------------------------------------
(* Sequences, and the first and the last of a set of positions.            *)
Below == OpToRel(<, Nat)

LEMMA BelowWellFounded == IsWellFoundedOn(Below, Nat)
BY NatLessThanWellFounded, Zenon DEF Below

LEMMA BelowIs == \A m, n \in Nat : m < n => <<m, n>> \in Below
BY Zenon DEF Below, OpToRel

LEMMA LeastExists ==
  ASSUME NEW S \in SUBSET Nat, S # {}
  PROVE  \E m \in S : \A n \in S : m <= n
<1>1. PICK m \in S : \A n \in S : ~(<<n, m>> \in Below)
  BY BelowWellFounded, WFMin
<1>2. \A n \in S : ~(n < m)
  BY <1>1, BelowIs
<1>3. QED
  BY <1>2

LEMMA HistoryIs ==
  ASSUME NEW h, IsHistory(h)
  PROVE  /\ Len(h) \in Nat /\ DOMAIN h = 1..Len(h)
         /\ \A e : e \in Range(h) <=> \E i \in 1..Len(h) : e = h[i]
BY DEF IsHistory, Range

LEMMA NothingIs == IsHistory(<< >>) /\ Len(<< >>) = 0 /\ Range(<< >>) = {}
BY DEF IsHistory, Range

LEMMA AppendIs ==
  ASSUME NEW h, IsHistory(h), NEW e
  PROVE  /\ IsHistory(Append(h, e)) /\ Len(Append(h, e)) = Len(h) + 1
         /\ \A i \in 1..Len(h) : Append(h, e)[i] = h[i]
         /\ Append(h, e)[Len(h) + 1] = e /\ Last(Append(h, e)) = e
         /\ Range(Append(h, e)) = Range(h) \cup {e}
<1>1. PICK S : S = Range(h) \cup {e}
  OBVIOUS
<1>2. h \in Seq(S) /\ e \in S
  BY <1>1, SeqMonotonic DEF IsHistory
<1>3. PICK g : g = Append(h, e)
  OBVIOUS
<1>4. /\ g \in Seq(S) /\ Len(g) = Len(h) + 1 /\ Len(h) \in Nat
      /\ \A i \in 1..Len(h) : g[i] = h[i] /\ i \in 1..Len(g)
      /\ g[Len(h) + 1] = e
      /\ DOMAIN g = 1..Len(g) /\ DOMAIN h = 1..Len(h)
  BY <1>2, <1>3
<1>5. \A i \in 1..Len(g) : i \in 1..Len(h) \/ i = Len(h) + 1
  BY <1>4
<1>6. Len(h) + 1 \in 1..Len(g)
  BY <1>4
<1>7. Range(g) = S
  <2>1. Range(g) \subseteq S
    BY <1>4 DEF Range
  <2>2. \A x \in Range(h) : x \in Range(g)
    BY <1>4 DEF Range
  <2>3. e \in Range(g)
    BY <1>4, <1>6 DEF Range
  <2>4. QED
    BY <1>1, <2>1, <2>2, <2>3
<1>8. IsHistory(g)
  BY <1>4, <1>7 DEF IsHistory
<1>9. QED
  BY <1>1, <1>3, <1>4, <1>7, <1>8 DEF Last

LEMMA CutIs ==
  ASSUME NEW h, IsHistory(h), NEW n \in Nat, n <= Len(h)
  PROVE  /\ IsHistory(SubSeq(h, 1, n)) /\ Range(SubSeq(h, 1, n)) \subseteq Range(h)
         /\ Len(SubSeq(h, 1, n)) = n
         /\ \A i \in 1..n : SubSeq(h, 1, n)[i] = h[i]
<1>1. PICK S : S = Range(h)
  OBVIOUS
<1>2. h \in Seq(S) /\ Len(h) \in Nat
  BY <1>1 DEF IsHistory
<1>3. PICK g : g = SubSeq(h, 1, n)
  OBVIOUS
<1>4. \A i \in 1..n : h[i] \in S
  BY <1>2
<1>5. /\ g \in Seq(S) /\ Len(g) = n /\ \A i \in 1..n : g[i] = h[i]
  BY <1>3, <1>4, SubSeqProperties
<1>6. Range(g) \subseteq S
  BY <1>5 DEF Range
<1>7. DOMAIN g = 1..Len(g) /\ \A i \in 1..Len(g) : g[i] \in Range(g)
  BY <1>5 DEF Range
<1>8. g \in Seq(Range(g))
  BY <1>5, <1>7
<1>9. QED
  BY <1>1, <1>3, <1>5, <1>6, <1>8 DEF IsHistory

LEMMA LastIs ==
  ASSUME NEW n \in Nat, NEW S \in SUBSET (1..n), S # {}
  PROVE  Max(S) \in S /\ \A x \in S : x <= Max(S)
<1>1. PICK T : T = {n - x : x \in S}
  OBVIOUS
<1>2. T \in SUBSET Nat /\ T # {}
  <2>1. \A x \in S : n - x \in Nat
    OBVIOUS
  <2>2. \A x \in S : n - x \in T
    BY <1>1
  <2>3. QED
    BY <1>1, <2>1, <2>2
<1>3. PICK m \in T : \A y \in T : m <= y
  BY <1>2, LeastExists
<1>4. PICK x \in S : m = n - x
  BY <1>1, <1>3
<1>5. \A y \in S : x >= y
  <2>1. TAKE y \in S
  <2>2. n - y \in T
    BY <1>1
  <2>3. n - x <= n - y
    BY <1>3, <1>4, <2>2
  <2>4. QED
    BY <2>3
<1>6. \E z \in S : \A y \in S : z >= y
  BY <1>5
<1>7. QED
  BY <1>6 DEF Max

LEMMA FirstIs ==
  ASSUME NEW n \in Nat, NEW S \in SUBSET (1..n), S # {}
  PROVE  Min(S) \in S
<1>1. S \in SUBSET Nat
  OBVIOUS
<1>2. \E x \in S : \A y \in S : x <= y
  BY <1>1, LeastExists
<1>3. QED
  BY <1>2 DEF Min

LEMMA OldestIs ==
  ASSUME NEW h, IsHistory(h), NEW records, records # {}, records \subseteq Range(h)
  PROVE  Oldest(h, records) \in records
<1>1. PICK S : S = {n \in DOMAIN h : h[n] \in records}
  OBVIOUS
<1>2. Len(h) \in Nat /\ DOMAIN h = 1..Len(h)
  BY HistoryIs
<1>3. S \in SUBSET (1..Len(h)) /\ S # {}
  BY <1>1, <1>2, HistoryIs
<1>4. Min(S) \in S
  BY <1>2, <1>3, FirstIs
<1>5. QED
  BY <1>1, <1>4 DEF Oldest

LEMMA NewestIs ==
  ASSUME NEW h, IsHistory(h), NEW records, records # {}, records \subseteq Range(h)
  PROVE  \E n \in DOMAIN h :
           /\ Newest(h, records) = h[n] /\ h[n] \in records
           /\ \A m \in DOMAIN h : h[m] \in records => m <= n
<1>1. PICK S : S = {n \in DOMAIN h : h[n] \in records}
  OBVIOUS
<1>2. Len(h) \in Nat /\ DOMAIN h = 1..Len(h)
  BY HistoryIs
<1>3. S \in SUBSET (1..Len(h)) /\ S # {}
  BY <1>1, <1>2, HistoryIs
<1>4. Max(S) \in S /\ \A m \in S : m <= Max(S)
  BY <1>2, <1>3, LastIs
<1>5. QED
  BY <1>1, <1>4 DEF Newest

LEMMA PrefixIs ==
  ASSUME NEW h, IsHistory(h), NEW pin, IsHistory(pin), Extends(h, pin)
  PROVE  Range(pin) \subseteq Range(h)
<1>1. PICK n : n = Len(pin)
  OBVIOUS
<1>2. n \in Nat /\ n <= Len(h) /\ SubSeq(pin, 1, n) = SubSeq(h, 1, n)
  BY <1>1, HistoryIs DEF Extends, IsPrefix
<1>3. Range(SubSeq(h, 1, n)) \subseteq Range(h)
  BY <1>2, CutIs
<1>4. /\ IsHistory(SubSeq(pin, 1, n)) /\ Len(SubSeq(pin, 1, n)) = n
      /\ \A i \in 1..n : SubSeq(pin, 1, n)[i] = pin[i]
  BY <1>1, <1>2, CutIs
<1>5. ASSUME NEW e \in Range(pin) PROVE e \in Range(SubSeq(pin, 1, n))
  <2>1. PICK i \in 1..n : e = pin[i]
    BY <1>1, <1>5, HistoryIs
  <2>2. e = SubSeq(pin, 1, n)[i]
    BY <1>4, <2>1
  <2>3. QED
    BY <1>4, <2>1, <2>2, HistoryIs
<1>6. QED
  BY <1>2, <1>3, <1>5
-----------------------------------------------------------------------------
(* What an appended record changes of what a history says.                 *)
LEMMA RecordedAre ==
  ASSUME NEW h, NEW kind
  PROVE  /\ \A r : r \in Recorded(h, kind) <=> \E n \in DOMAIN h : r = h[n] /\ h[n].kind = kind
         /\ Recorded(h, kind) \subseteq Range(h)
BY DEF Recorded, Range

Grows(h, e, g) == g = Append(h, e)

LEMMA Appended ==
  ASSUME NEW h, IsHistory(h), NEW e, NEW g, Grows(h, e, g)
  PROVE  /\ IsHistory(g) /\ Len(h) \in Nat /\ Len(g) = Len(h) + 1
         /\ DOMAIN h = 1..Len(h) /\ Len(h) + 1 \in DOMAIN g /\ g[Len(h) + 1] = e
         /\ \A n \in DOMAIN h : n \in DOMAIN g /\ g[n] = h[n] /\ n < Len(h) + 1
         /\ \A n \in DOMAIN g : n \in DOMAIN h \/ n = Len(h) + 1
<1>1. /\ IsHistory(g) /\ Len(g) = Len(h) + 1 /\ \A n \in 1..Len(h) : g[n] = h[n]
      /\ g[Len(h) + 1] = e
  BY AppendIs DEF Grows
<1>2. Len(h) \in Nat /\ DOMAIN h = 1..Len(h) /\ DOMAIN g = 1..Len(g)
  BY <1>1, HistoryIs
<1>3. QED
  BY <1>1, <1>2

LEMMA RecordedAppend ==
  ASSUME NEW h, IsHistory(h), NEW e, NEW g, Grows(h, e, g), NEW kind
  PROVE  \A r : r \in Recorded(g, kind) <=> r \in Recorded(h, kind) \/ (r = e /\ e.kind = kind)
<1>1. /\ Len(h) + 1 \in DOMAIN g /\ g[Len(h) + 1] = e
      /\ \A n \in DOMAIN h : n \in DOMAIN g /\ g[n] = h[n]
      /\ \A n \in DOMAIN g : n \in DOMAIN h \/ n = Len(h) + 1
  BY Appended
<1>2. \A r : r \in Recorded(g, kind) <=> \E n \in DOMAIN g : r = g[n] /\ g[n].kind = kind
  BY RecordedAre
<1>3. \A r : r \in Recorded(h, kind) <=> \E n \in DOMAIN h : r = h[n] /\ h[n].kind = kind
  BY RecordedAre
<1>4. ASSUME NEW r PROVE r \in Recorded(g, kind) <=> r \in Recorded(h, kind) \/ (r = e /\ e.kind = kind)
  <2>1. ASSUME r \in Recorded(g, kind)
        PROVE  r \in Recorded(h, kind) \/ (r = e /\ e.kind = kind)
    BY <1>1, <1>2, <1>3, <2>1
  <2>2. ASSUME r \in Recorded(h, kind) PROVE r \in Recorded(g, kind)
    BY <1>1, <1>2, <1>3, <2>2
  <2>3. ASSUME r = e, e.kind = kind PROVE r \in Recorded(g, kind)
    BY <1>1, <1>2, <2>3
  <2>4. QED
    BY <2>1, <2>2, <2>3
<1>5. QED
  BY <1>4

LEMMA HappenedAre ==
  ASSUME NEW h, NEW id
  PROVE  Happened(h, id) <=> \E r \in Recorded(h, "event") : r.id = id
BY RecordedAre DEF Happened

LEMMA SaidAppend ==
  ASSUME NEW h, IsHistory(h), NEW e, NEW g, Grows(h, e, g)
  PROVE  /\ \A id : Happened(h, id) => Happened(g, id)
         /\ Alerts(h) \subseteq Alerts(g)
         /\ e.kind # "event" =>
              /\ \A key : EventsOf(g, key) = EventsOf(h, key)
              /\ Alerts(g) = Alerts(h)
              /\ \A key : Incidents(g, key) = Incidents(h, key)
         /\ e.kind # "action" => \A action, i : Did(g, action, i) <=> Did(h, action, i)
<1>1. \A kind, r : r \in Recorded(g, kind) <=> r \in Recorded(h, kind) \/ (r = e /\ e.kind = kind)
  BY RecordedAppend
<1>2. \A id : Happened(h, id) => Happened(g, id)
  BY <1>1, HappenedAre
<1>3. Alerts(h) \subseteq Alerts(g)
  BY <1>1 DEF Alerts
<1>4. ASSUME e.kind # "event"
      PROVE  /\ \A key : EventsOf(g, key) = EventsOf(h, key)
             /\ Alerts(g) = Alerts(h)
             /\ \A key : Incidents(g, key) = Incidents(h, key)
  <2>1. Recorded(g, "event") = Recorded(h, "event")
    <3>1. \A r : r \in Recorded(g, "event") <=> r \in Recorded(h, "event")
      BY <1>1, <1>4
    <3>2. QED
      BY <3>1
  <2>2. QED
    BY <2>1 DEF EventsOf, Alerts, Incidents
<1>5. ASSUME e.kind # "action"
      PROVE  \A action, i : Did(g, action, i) <=> Did(h, action, i)
  <2>1. Recorded(g, "action") = Recorded(h, "action")
    <3>1. \A r : r \in Recorded(g, "action") <=> r \in Recorded(h, "action")
      BY <1>1, <1>5
    <3>2. QED
      BY <3>1
  <2>2. QED
    BY <2>1 DEF Did
<1>6. QED
  BY <1>2, <1>3, <1>4, <1>5

(* An acknowledgment of an alert changes nothing of the events.            *)
LEMMA AckSound ==
  ASSUME NEW h, IsHistory(h), Sound(h), NEW e, e.kind = "ack", IsHistory(e.receipt),
         \E a \in Alerts(h) : a.id = e.alert /\ a \in Range(e.receipt),
         NEW g, Grows(h, e, g)
  PROVE  Sound(g)
<1>1. /\ Len(h) + 1 \in DOMAIN g /\ g[Len(h) + 1] = e
      /\ \A n \in DOMAIN h : n \in DOMAIN g /\ g[n] = h[n]
      /\ \A n \in DOMAIN g : n \in DOMAIN h \/ n = Len(h) + 1
  BY Appended
<1>2. /\ \A id : Happened(h, id) => Happened(g, id)
      /\ Alerts(g) = Alerts(h)
      /\ \A key : EventsOf(g, key) = EventsOf(h, key) /\ Incidents(g, key) = Incidents(h, key)
      /\ \A action, i : Did(g, action, i) <=> Did(h, action, i)
  BY SaidAppend
<1>3. \A n \in DOMAIN g : g[n].kind # "ack" => n \in DOMAIN h
  BY <1>1
<1>4. EventsOK(g)
  BY <1>1, <1>2, <1>3 DEF Sound, EventsOK
<1>5. AnswersOK(g)
  <2>1. ASSUME NEW n \in DOMAIN g, g[n].kind = "action"
        PROVE  Happened(g, g[n].incident)
    BY <1>1, <1>2, <1>3, <2>1 DEF Sound, AnswersOK
  <2>2. ASSUME NEW n \in DOMAIN g, g[n].kind = "ack"
        PROVE  /\ IsHistory(g[n].receipt)
               /\ \E a \in Alerts(g) : a.id = g[n].alert /\ a \in Range(g[n].receipt)
    BY <1>1, <1>2, <2>2 DEF Sound, AnswersOK
  <2>3. QED
    BY <2>1, <2>2 DEF AnswersOK
<1>6. \A key \in Keys : Tracked(g, key)
  <2>1. \A key : Unresolved(g, key) = Unresolved(h, key)
    BY <1>2 DEF Unresolved
  <2>2. QED
    BY <1>2, <2>1 DEF Sound, Tracked, Lasting
<1>7. QED
  BY <1>4, <1>5, <1>6 DEF Sound

(* Incidents and the events that they are named after.                     *)
LEMMA IncidentIs ==
  ASSUME NEW h, IsHistory(h), Sound(h), NEW key, NEW i \in Incidents(h, key)
  PROVE  /\ Happened(h, i) /\ i # None
         /\ \A r \in Recorded(h, "event") : r.incident = i => r.key = key
<1>1. PICK r \in EventsOf(h, key) : r.incident = i /\ i # None
  BY DEF Incidents
<1>2. PICK n \in DOMAIN h : r = h[n] /\ h[n].kind = "event" /\ h[n].key = key
  BY <1>1, RecordedAre DEF EventsOf
<1>3. Happened(h, i)
  BY <1>1, <1>2 DEF Sound, EventsOK
<1>4. \A m \in DOMAIN h : h[m].kind = "event" /\ h[m].incident = i => h[m].key = key
  BY <1>1, <1>2 DEF Sound, EventsOK
<1>5. \A q \in Recorded(h, "event") : q.incident = i => q.key = key
  BY <1>4, RecordedAre
<1>6. QED
  BY <1>1, <1>3, <1>5

LEMMA NewestEvent ==
  ASSUME NEW h, IsHistory(h), Sound(h), NEW key, NEW fault \in EventsOf(h, key)
  PROVE  /\ Newest(h, EventsOf(h, key)) \in EventsOf(h, key)
         /\ fault.at <= Newest(h, EventsOf(h, key)).at
         /\ fault.at \in Nat /\ Newest(h, EventsOf(h, key)).at \in Nat
<1>1. /\ EventsOf(h, key) # {} /\ EventsOf(h, key) \subseteq Range(h)
      /\ EventsOf(h, key) \subseteq Recorded(h, "event")
  BY RecordedAre DEF EventsOf
<1>2. PICK n \in DOMAIN h :
        /\ Newest(h, EventsOf(h, key)) = h[n] /\ h[n] \in EventsOf(h, key)
        /\ \A m \in DOMAIN h : h[m] \in EventsOf(h, key) => m <= n
  BY <1>1, NewestIs
<1>3. \A r \in EventsOf(h, key) : r.kind = "event" /\ r.key = key
  BY RecordedAre DEF EventsOf
<1>4. PICK m \in DOMAIN h : fault = h[m]
  BY <1>1, RecordedAre
<1>5. m <= n /\ h[m].kind = "event" /\ h[n].kind = "event" /\ h[m].key = h[n].key
  BY <1>2, <1>3, <1>4
<1>6. h[m].at <= h[n].at /\ h[m].at \in Nat /\ h[n].at \in Nat
  BY <1>5 DEF Sound, EventsOK
<1>7. QED
  BY <1>2, <1>4, <1>6

(* An incident is resolved when the last observation of its key is healthy,*)
(* so that no fault of it lasts.                                           *)
LEMMA ActionSound ==
  ASSUME NEW h, IsHistory(h), Sound(h), NEW e, e.kind = "action",
         NEW key, e.incident \in Unresolved(h, key),
         e.action = "resolve" =>
           Newest(h, EventsOf(h, (CHOOSE r \in Recorded(h, "event") : r.incident = e.incident).key)
                 ).condition = "healthy",
         NEW g, Grows(h, e, g)
  PROVE  Sound(g)
<1>1. /\ Len(h) + 1 \in DOMAIN g /\ g[Len(h) + 1] = e
      /\ \A n \in DOMAIN h : n \in DOMAIN g /\ g[n] = h[n]
      /\ \A n \in DOMAIN g : n \in DOMAIN h \/ n = Len(h) + 1
  BY Appended
<1>2. /\ \A id : Happened(h, id) => Happened(g, id)
      /\ Alerts(g) = Alerts(h)
      /\ \A k : EventsOf(g, k) = EventsOf(h, k) /\ Incidents(g, k) = Incidents(h, k)
  BY SaidAppend
<1>3. \A n \in DOMAIN g : g[n].kind # "action" => n \in DOMAIN h
  BY <1>1
<1>4. e.incident \in Incidents(h, key)
  BY DEF Unresolved
<1>5. EventsOK(g)
  BY <1>1, <1>2, <1>3 DEF Sound, EventsOK
<1>6. AnswersOK(g)
  <2>1. ASSUME NEW n \in DOMAIN g, g[n].kind = "action"
        PROVE  Happened(g, g[n].incident)
    BY <1>1, <1>2, <1>4, <2>1, IncidentIs DEF Sound, AnswersOK
  <2>2. ASSUME NEW n \in DOMAIN g, g[n].kind = "ack"
        PROVE  /\ IsHistory(g[n].receipt)
               /\ \E a \in Alerts(g) : a.id = g[n].alert /\ a \in Range(g[n].receipt)
    BY <1>1, <1>2, <1>3, <2>2 DEF Sound, AnswersOK
  <2>3. QED
    BY <2>1, <2>2 DEF AnswersOK
<1>7. \A i : Did(g, "resolve", i) <=>
               Did(h, "resolve", i) \/ (e.action = "resolve" /\ i = e.incident)
  <2>1. \A r : r \in Recorded(g, "action") <=> r \in Recorded(h, "action") \/ r = e
    BY RecordedAppend
  <2>2. QED
    BY <2>1 DEF Did
<1>8. \A k, i : i \in Unresolved(g, k) <=>
                  i \in Unresolved(h, k) /\ ~(e.action = "resolve" /\ i = e.incident)
  BY <1>2, <1>7 DEF Unresolved
<1>9. ASSUME NEW k, NEW fault \in EventsOf(h, k), Lasting(h, k, fault),
             e.action = "resolve", fault.incident = e.incident
      PROVE  FALSE
  <2>1. PICK q : q = CHOOSE r \in Recorded(h, "event") : r.incident = e.incident
    OBVIOUS
  <2>2. fault \in Recorded(h, "event") /\ fault.key = k
    BY <1>9 DEF EventsOf
  <2>3. q \in Recorded(h, "event") /\ q.incident = e.incident
    BY <1>9, <2>1, <2>2
  <2>4. q.key = key /\ fault.key = key
    BY <1>4, <1>9, <2>2, <2>3, IncidentIs
  <2>5. Newest(h, EventsOf(h, k)).condition = "healthy"
    BY <1>9, <2>1, <2>2, <2>4
  <2>6. /\ Newest(h, EventsOf(h, k)) \in EventsOf(h, k)
        /\ fault.at <= Newest(h, EventsOf(h, k)).at
        /\ fault.at \in Nat /\ Newest(h, EventsOf(h, k)).at \in Nat
    BY <1>9, NewestEvent
  <2>7. QED
    BY <1>9, <2>5, <2>6 DEF Lasting
<1>10. ASSUME NEW k \in Keys PROVE Tracked(g, k)
  <2>1. Tracked(h, k)
    BY DEF Sound
  <2>2. \A i, j \in Unresolved(g, k) : i = j
    BY <1>8, <2>1 DEF Tracked
  <2>3. ASSUME NEW fault \in EventsOf(g, k), Lasting(g, k, fault)
        PROVE  fault.incident \in Unresolved(g, k)
    <3>1. fault \in EventsOf(h, k) /\ Lasting(h, k, fault)
      BY <1>2, <2>3 DEF Lasting
    <3>2. fault.incident \in Unresolved(h, k)
      BY <2>1, <3>1 DEF Tracked
    <3>3. QED
      BY <1>8, <1>9, <3>1, <3>2
  <2>4. QED
    BY <2>2, <2>3 DEF Tracked
<1>11. QED
  BY <1>5, <1>6, <1>10 DEF Sound

(* An observation continues the unresolved incident of its key, or begins  *)
(* one of its own when it is a fault.                                      *)
Continues(h, e) ==
  \/ e.incident \in Unresolved(h, e.key)
  \/ Unresolved(h, e.key) = {} /\ e.incident = IF e.condition = "fault" THEN e.id ELSE None

Fresh(h, e) ==
  /\ e.kind = "event" /\ e.id \in Nat /\ e.at \in Nat
  /\ ~Happened(h, e.id)
  /\ EventsOf(h, e.key) # {} => Newest(h, EventsOf(h, e.key)).at <= e.at

LEMMA ContinuesIs ==
  ASSUME NEW h, IsHistory(h), Sound(h), NEW e, Fresh(h, e), Continues(h, e)
  PROVE  /\ e.incident # None => e.incident = e.id \/ Happened(h, e.incident)
         /\ e.condition = "fault" => e.incident # None
         /\ \A r \in Recorded(h, "event") :
              r.incident = e.incident /\ e.incident # None => r.key = e.key
<1>1. CASE e.incident \in Unresolved(h, e.key)
  <2>1. e.incident \in Incidents(h, e.key)
    BY <1>1 DEF Unresolved
  <2>2. QED
    BY <2>1, IncidentIs
<1>2. CASE e.incident = e.id /\ e.condition = "fault"
  <2>1. e.id # None
    BY MonitoringAssumption DEF Fresh, MonitoringAssumption
  <2>2. \A r \in Recorded(h, "event") : r.incident # e.id
    <3>1. SUFFICES ASSUME NEW r \in Recorded(h, "event"), r.incident = e.id PROVE FALSE
      OBVIOUS
    <3>2. PICK n \in DOMAIN h : r = h[n] /\ h[n].kind = "event"
      BY <3>1, RecordedAre
    <3>3. Happened(h, e.id)
      BY <2>1, <3>1, <3>2 DEF Sound, EventsOK
    <3>4. QED
      BY <3>3 DEF Fresh
  <2>3. QED
    BY <1>2, <2>1, <2>2
<1>3. CASE e.incident = None /\ e.condition # "fault"
  BY <1>3
<1>4. QED
  BY <1>1, <1>2, <1>3 DEF Continues

LEMMA EventEvents ==
  ASSUME NEW h, IsHistory(h), Sound(h), NEW e, Fresh(h, e), Continues(h, e),
         NEW g, Grows(h, e, g)
  PROVE  EventsOK(g)
<1>1. /\ Len(h) + 1 \in DOMAIN g /\ g[Len(h) + 1] = e
      /\ \A n \in DOMAIN h : n \in DOMAIN g /\ g[n] = h[n] /\ n < Len(h) + 1
      /\ \A n \in DOMAIN g : n \in DOMAIN h \/ n = Len(h) + 1
      /\ DOMAIN h = 1..Len(h) /\ Len(h) \in Nat
  BY Appended
<1>2. \A id : Happened(h, id) => Happened(g, id)
  BY SaidAppend
<1>3. Happened(g, e.id)
  BY <1>1 DEF Happened, Fresh
<1>4. ASSUME NEW n \in DOMAIN g, g[n].kind = "event"
      PROVE  /\ g[n].id \in Nat /\ g[n].at \in Nat
             /\ g[n].condition = "fault" => g[n].incident # None
             /\ g[n].incident # None => Happened(g, g[n].incident)
  <2>1. CASE n \in DOMAIN h
    BY <1>1, <1>2, <1>4, <2>1 DEF Sound, EventsOK
  <2>2. CASE n = Len(h) + 1
    BY <1>1, <1>2, <1>3, <2>2, ContinuesIs DEF Fresh
  <2>3. QED
    BY <1>1, <2>1, <2>2
<1>5. ASSUME NEW m \in DOMAIN h, h[m].kind = "event"
      PROVE  /\ h[m].id # e.id
             /\ h[m].key = e.key => h[m].at <= e.at
             /\ h[m].incident = e.incident /\ h[m].incident # None => h[m].key = e.key
  <2>1. h[m].id # e.id
    BY <1>5 DEF Fresh, Happened
  <2>2. h[m] \in Recorded(h, "event")
    BY <1>5, RecordedAre
  <2>3. ASSUME h[m].key = e.key PROVE h[m].at <= e.at
    <3>1. h[m] \in EventsOf(h, e.key)
      BY <2>2, <2>3 DEF EventsOf
    <3>2. /\ h[m].at <= Newest(h, EventsOf(h, e.key)).at
          /\ h[m].at \in Nat /\ Newest(h, EventsOf(h, e.key)).at \in Nat
      BY <3>1, NewestEvent
    <3>3. Newest(h, EventsOf(h, e.key)).at <= e.at /\ e.at \in Nat
      BY <3>1 DEF Fresh
    <3>4. QED
      BY <3>2, <3>3
  <2>4. QED
    BY <2>1, <2>2, <2>3, ContinuesIs
<1>6. ASSUME NEW m \in DOMAIN g, NEW n \in DOMAIN g, g[m].kind = "event", g[n].kind = "event"
      PROVE  /\ g[m].id = g[n].id => m = n
             /\ g[m].key = g[n].key /\ m <= n => g[m].at <= g[n].at
             /\ g[m].incident = g[n].incident /\ g[m].incident # None => g[m].key = g[n].key
  <2>1. CASE m \in DOMAIN h /\ n \in DOMAIN h
    BY <1>1, <1>6, <2>1 DEF Sound, EventsOK
  <2>2. CASE m \in DOMAIN h /\ n = Len(h) + 1
    BY <1>1, <1>5, <1>6, <2>2
  <2>3. CASE m = Len(h) + 1 /\ n \in DOMAIN h
    <3>1. ~(m <= n)
      BY <1>1, <2>3
    <3>2. QED
      BY <1>1, <1>5, <1>6, <2>3, <3>1
  <2>4. CASE m = Len(h) + 1 /\ n = Len(h) + 1
    <3>1. e.at \in Nat
      BY DEF Fresh
    <3>2. QED
      BY <1>1, <2>4, <3>1
  <2>5. QED
    BY <1>1, <2>1, <2>2, <2>3, <2>4
<1>7. QED
  BY <1>4, <1>6 DEF EventsOK

LEMMA EventTracks ==
  ASSUME NEW h, IsHistory(h), Sound(h), NEW e, Fresh(h, e), Continues(h, e),
         NEW g, Grows(h, e, g), NEW k \in Keys
  PROVE  Tracked(g, k)
<1>1. \A r : r \in Recorded(g, "event") <=> r \in Recorded(h, "event") \/ r = e
  BY RecordedAppend DEF Fresh
<1>2. \A r : r \in EventsOf(g, k) <=> r \in EventsOf(h, k) \/ (r = e /\ e.key = k)
  BY <1>1 DEF EventsOf
<1>3. \A i : Did(g, "resolve", i) <=> Did(h, "resolve", i)
  BY SaidAppend DEF Fresh
<1>4. \A i : i \in Unresolved(g, k) <=>
               \/ i \in Unresolved(h, k)
               \/ e.key = k /\ i = e.incident /\ i # None /\ ~Did(h, "resolve", i)
  <2>1. \A i : i \in Incidents(g, k) <=>
                 i \in Incidents(h, k) \/ (e.key = k /\ i = e.incident /\ i # None)
    BY <1>2 DEF Incidents
  <2>2. QED
    BY <1>3, <2>1 DEF Unresolved
<1>5. Tracked(h, k)
  BY DEF Sound
<1>6. \A i, j \in Unresolved(g, k) : i = j
  <2>1. CASE e.incident \in Unresolved(h, k)
    BY <1>4, <1>5, <2>1 DEF Tracked
  <2>2. CASE e.key # k
    BY <1>4, <1>5, <2>2 DEF Tracked
  <2>3. CASE e.key = k /\ Unresolved(h, k) = {}
    BY <1>4, <2>3
  <2>4. QED
    BY <2>1, <2>2, <2>3 DEF Continues
<1>7. ASSUME e.key = k, e.condition = "fault" PROVE e.incident \in Unresolved(g, k)
  <2>1. CASE e.incident \in Unresolved(h, k)
    BY <1>4, <2>1
  <2>2. CASE e.incident = e.id
    <3>1. e.incident # None
      BY <1>7, ContinuesIs
    <3>2. ~Did(h, "resolve", e.id)
      <4>1. SUFFICES ASSUME Did(h, "resolve", e.id) PROVE FALSE
        OBVIOUS
      <4>2. PICK r \in Recorded(h, "action") : r.incident = e.id
        BY <4>1 DEF Did
      <4>3. PICK n \in DOMAIN h : r = h[n] /\ h[n].kind = "action"
        BY <4>2, RecordedAre
      <4>4. Happened(h, e.id)
        BY <4>2, <4>3 DEF Sound, AnswersOK
      <4>5. QED
        BY <4>4 DEF Fresh
    <3>3. QED
      BY <1>4, <1>7, <2>2, <3>1, <3>2
  <2>3. QED
    BY <1>7, <2>1, <2>2 DEF Continues
<1>8. ASSUME NEW fault \in EventsOf(g, k), Lasting(g, k, fault)
      PROVE  fault.incident \in Unresolved(g, k)
  <2>1. CASE fault \in EventsOf(h, k)
    <3>1. Lasting(h, k, fault)
      BY <1>2, <1>8 DEF Lasting
    <3>2. fault.incident \in Unresolved(h, k)
      BY <1>5, <2>1, <3>1 DEF Tracked
    <3>3. QED
      BY <1>4, <3>2
  <2>2. CASE fault = e /\ e.key = k
    BY <1>7, <1>8, <2>2 DEF Lasting
  <2>3. QED
    BY <1>2, <1>8, <2>1, <2>2
<1>9. QED
  BY <1>6, <1>8 DEF Tracked

LEMMA EventSound ==
  ASSUME NEW h, IsHistory(h), Sound(h), NEW e, Fresh(h, e), Continues(h, e),
         NEW g, Grows(h, e, g)
  PROVE  Sound(g)
<1>1. /\ g[Len(h) + 1] = e
      /\ \A n \in DOMAIN h : n \in DOMAIN g /\ g[n] = h[n]
      /\ \A n \in DOMAIN g : n \in DOMAIN h \/ n = Len(h) + 1
  BY Appended
<1>2. /\ \A id : Happened(h, id) => Happened(g, id)
      /\ Alerts(h) \subseteq Alerts(g)
  BY SaidAppend
<1>3. \A n \in DOMAIN g : g[n].kind # "event" => n \in DOMAIN h
  BY <1>1 DEF Fresh
<1>4. AnswersOK(g)
  <2>1. ASSUME NEW n \in DOMAIN g, g[n].kind = "action"
        PROVE  Happened(g, g[n].incident)
    BY <1>1, <1>2, <1>3, <2>1 DEF Sound, AnswersOK
  <2>2. ASSUME NEW n \in DOMAIN g, g[n].kind = "ack"
        PROVE  /\ IsHistory(g[n].receipt)
               /\ \E a \in Alerts(g) : a.id = g[n].alert /\ a \in Range(g[n].receipt)
    BY <1>1, <1>2, <1>3, <2>2 DEF Sound, AnswersOK
  <2>3. QED
    BY <2>1, <2>2 DEF AnswersOK
<1>5. QED
  BY <1>4, EventEvents, EventTracks DEF Sound
-----------------------------------------------------------------------------
(* Services: one moves, the others stay.                                   *)
Records ==
  service = [s \in Services |-> [pc |-> service[s].pc, next |-> service[s].next,
                                 pin |-> service[s].pin, rpin |-> service[s].rpin]]

Turn(s, pc, next, pin, rpin) ==
  service' = [service EXCEPT ![s] = [pc |-> pc, next |-> next, pin |-> pin, rpin |-> rpin]]

LEMMA TurnIs ==
  ASSUME Records, NEW s \in Services, NEW pc, NEW next, NEW pin, NEW rpin,
         Turn(s, pc, next, pin, rpin)
  PROVE  /\ Records'
         /\ service'[s].pc = pc /\ service'[s].next = next
         /\ service'[s].pin = pin /\ service'[s].rpin = rpin
         /\ \A t \in Services : t # s => service'[t] = service[t]
<1>1. PICK m : m = [pc |-> pc, next |-> next, pin |-> pin, rpin |-> rpin]
  OBVIOUS
<1>2. /\ m.pc = pc /\ m.next = next /\ m.pin = pin /\ m.rpin = rpin
      /\ m = [pc |-> m.pc, next |-> m.next, pin |-> m.pin, rpin |-> m.rpin]
  BY <1>1
<1>3. service' = [service EXCEPT ![s] = m]
  BY <1>1 DEF Turn
<1>4. /\ service' = [t \in Services |-> IF t = s THEN m ELSE service[t]]
      /\ \A t \in Services : service'[t] = IF t = s THEN m ELSE service[t]
  BY <1>3 DEF Records
<1>5. \A t \in Services : service[t] = [pc |-> service[t].pc, next |-> service[t].next,
                                        pin |-> service[t].pin, rpin |-> service[t].rpin]
  BY DEF Records
<1>6. \A t \in Services : service'[t] = [pc |-> service'[t].pc, next |-> service'[t].next,
                                         pin |-> service'[t].pin, rpin |-> service'[t].rpin]
  BY <1>2, <1>4, <1>5
<1>7. Records'
  BY <1>4, <1>6 DEF Records
<1>8. QED
  BY <1>2, <1>4, <1>7

Advance(s, a, f) == f = [service EXCEPT ![s].pc = a]

LEMMA Advanced ==
  ASSUME Records, NEW s \in Services, NEW a, NEW f, Advance(s, a, f)
  PROVE  \E m :
         /\ f = [service EXCEPT ![s] = m]
         /\ f[s] = m /\ s \in DOMAIN f
         /\ m = [pc |-> m.pc, next |-> m.next, pin |-> m.pin, rpin |-> m.rpin]
         /\ m.pc = a /\ m.next = service[s].next /\ m.pin = service[s].pin
         /\ m.rpin = service[s].rpin
<1> PICK m : m = [pc |-> a, next |-> service[s].next, pin |-> service[s].pin,
                  rpin |-> service[s].rpin]
  OBVIOUS
<1>1. PICK n : n = service[s]
  OBVIOUS
<1>2. /\ n = [pc |-> n.pc, next |-> n.next, pin |-> n.pin, rpin |-> n.rpin]
      /\ s \in DOMAIN service
  BY <1>1 DEF Records
<1>3. [n EXCEPT !.pc = a] = m
  BY <1>1, <1>2
<1>4. f = [service EXCEPT ![s] = m]
  BY <1>1, <1>3 DEF Advance
<1>5. f[s] = m /\ s \in DOMAIN f
  BY <1>2, <1>4
<1>6. /\ m = [pc |-> m.pc, next |-> m.next, pin |-> m.pin, rpin |-> m.rpin]
      /\ m.pc = a /\ m.next = service[s].next /\ m.pin = service[s].pin
      /\ m.rpin = service[s].rpin
  OBVIOUS
<1>7. QED
  BY <1>4, <1>5, <1>6

LEMMA Goes ==
  ASSUME Records, NEW s \in Services, NEW a, NEW b,
         service' = [service EXCEPT ![s].pc = a, ![s].next = b]
  PROVE  Turn(s, a, b, service[s].pin, service[s].rpin)
<1>1. PICK f : f = [service EXCEPT ![s].pc = a]
  OBVIOUS
<1>2. service' = [f EXCEPT ![s].next = b]
  BY <1>1
<1>3. Advance(s, a, f)
  BY <1>1 DEF Advance
<1>4. PICK m :
      /\ f = [service EXCEPT ![s] = m] /\ f[s] = m /\ s \in DOMAIN f
      /\ m = [pc |-> m.pc, next |-> m.next, pin |-> m.pin, rpin |-> m.rpin]
      /\ m.pc = a /\ m.pin = service[s].pin /\ m.rpin = service[s].rpin
  BY <1>3, Advanced
<1>5. [m EXCEPT !.next = b] = [pc |-> a, next |-> b, pin |-> service[s].pin,
                               rpin |-> service[s].rpin]
  BY <1>4
<1>6. service' = [f EXCEPT ![s] = [m EXCEPT !.next = b]]
  BY <1>2, <1>4
<1>7. \A x : [f EXCEPT ![s] = x] = [service EXCEPT ![s] = x]
  BY <1>4
<1>8. service' = [service EXCEPT ![s] = [pc |-> a, next |-> b, pin |-> service[s].pin,
                                         rpin |-> service[s].rpin]]
  BY <1>5, <1>6, <1>7
<1>9. QED
  BY <1>8 DEF Turn

LEMMA Asks ==
  ASSUME Records, NEW s \in Services, NEW a, NEW b,
         service' = [service EXCEPT ![s].pc = a, ![s].rpin = b]
  PROVE  Turn(s, a, service[s].next, service[s].pin, b)
<1>1. PICK f : f = [service EXCEPT ![s].pc = a]
  OBVIOUS
<1>2. service' = [f EXCEPT ![s].rpin = b]
  BY <1>1
<1>3. Advance(s, a, f)
  BY <1>1 DEF Advance
<1>4. PICK m :
      /\ f = [service EXCEPT ![s] = m] /\ f[s] = m /\ s \in DOMAIN f
      /\ m = [pc |-> m.pc, next |-> m.next, pin |-> m.pin, rpin |-> m.rpin]
      /\ m.pc = a /\ m.next = service[s].next /\ m.pin = service[s].pin
  BY <1>3, Advanced
<1>5. [m EXCEPT !.rpin = b] = [pc |-> a, next |-> service[s].next, pin |-> service[s].pin,
                               rpin |-> b]
  BY <1>4
<1>6. service' = [f EXCEPT ![s] = [m EXCEPT !.rpin = b]]
  BY <1>2, <1>4
<1>7. \A x : [f EXCEPT ![s] = x] = [service EXCEPT ![s] = x]
  BY <1>4
<1>8. service' = [service EXCEPT ![s] = [pc |-> a, next |-> service[s].next,
                                         pin |-> service[s].pin, rpin |-> b]]
  BY <1>5, <1>6, <1>7
<1>9. QED
  BY <1>8 DEF Turn

LEMMA Pins ==
  ASSUME Records, NEW s \in Services, NEW a, NEW b, NEW c,
         service' = [service EXCEPT ![s].pc = a, ![s].pin = b, ![s].next = c]
  PROVE  Turn(s, a, c, b, service[s].rpin)
<1>1. PICK f : f = [service EXCEPT ![s].pc = a]
  OBVIOUS
<1>2. PICK d : d = [f EXCEPT ![s].pin = b]
  OBVIOUS
<1>3. service' = [d EXCEPT ![s].next = c]
  BY <1>1, <1>2
<1>4. Advance(s, a, f)
  BY <1>1 DEF Advance
<1>5. PICK m :
      /\ f = [service EXCEPT ![s] = m] /\ f[s] = m /\ s \in DOMAIN f
      /\ m = [pc |-> m.pc, next |-> m.next, pin |-> m.pin, rpin |-> m.rpin]
      /\ m.pc = a /\ m.next = service[s].next /\ m.rpin = service[s].rpin
  BY <1>4, Advanced
<1>6. PICK n : n = [pc |-> a, next |-> m.next, pin |-> b, rpin |-> m.rpin]
  OBVIOUS
<1>7. /\ n = [pc |-> n.pc, next |-> n.next, pin |-> n.pin, rpin |-> n.rpin]
      /\ n.pc = a /\ n.pin = b /\ n.rpin = service[s].rpin
  BY <1>5, <1>6
<1>8. [m EXCEPT !.pin = b] = n
  BY <1>5, <1>6
<1>9. d = [f EXCEPT ![s] = n]
  BY <1>2, <1>5, <1>8
<1>10. d[s] = n /\ \A x : [d EXCEPT ![s] = x] = [service EXCEPT ![s] = x]
  BY <1>5, <1>9
<1>11. [n EXCEPT !.next = c] = [pc |-> a, next |-> c, pin |-> b, rpin |-> service[s].rpin]
  BY <1>7
<1>12. service' = [d EXCEPT ![s] = [n EXCEPT !.next = c]]
  BY <1>3, <1>10
<1>13. service' = [service EXCEPT ![s] = [pc |-> a, next |-> c, pin |-> b,
                                          rpin |-> service[s].rpin]]
  BY <1>10, <1>11, <1>12
<1>14. QED
  BY <1>13 DEF Turn

LEMMA TurnKeeps ==
  ASSUME ServicesOK, NEW s \in Services, NEW pc, NEW next, NEW pin, NEW rpin,
         Turn(s, pc, next, pin, rpin), IsHistory(pin), IsHistory(rpin), Sound(pin),
         next \in {"idle", "acting", "routing", "sending"},
         pc = "received" => Pending(pin) # {} /\ NextAlert(pin) \in Range(rpin)
  PROVE  ServicesOK'
<1>1. Records
  BY DEF ServicesOK, Records
<1>2. /\ Records'
      /\ service'[s].pc = pc /\ service'[s].next = next
      /\ service'[s].pin = pin /\ service'[s].rpin = rpin
      /\ \A t \in Services : t # s => service'[t] = service[t]
  BY <1>1, TurnIs
<1>3. ServiceOK(s)'
  BY <1>2 DEF ServiceOK
<1>4. \A t \in Services : t # s => ServiceOK(t)'
  BY <1>2 DEF ServicesOK, ServiceOK
<1>5. \A t \in Services : ServiceOK(t)'
  BY <1>3, <1>4
<1>6. QED
  BY <1>2, <1>5 DEF ServicesOK, Records
-----------------------------------------------------------------------------
(* The two databases, when a record is appended and after a restore.       *)
LEMMA SameHistory ==
  ASSUME NEW g, NEW h, IsHistory(g), IsHistory(h), Len(g) = Len(h),
         \A i \in 1..Len(h) : g[i] = h[i]
  PROVE  g = h
<1>1. PICK S : S = Range(g) \cup Range(h)
  OBVIOUS
<1>2. g \in Seq(S) /\ h \in Seq(S)
  BY <1>1, SeqMonotonic DEF IsHistory
<1>3. QED
  BY <1>2

LEMMA CutCut ==
  ASSUME NEW h, IsHistory(h), NEW n \in Nat, n <= Len(h), NEW m \in Nat, m <= n
  PROVE  SubSeq(SubSeq(h, 1, n), 1, m) = SubSeq(h, 1, m)
<1>1. Len(h) \in Nat
  BY HistoryIs
<1>2. PICK g : g = SubSeq(h, 1, n)
  OBVIOUS
<1>3. IsHistory(g) /\ Len(g) = n /\ \A i \in 1..n : g[i] = h[i]
  BY <1>2, CutIs
<1>4. /\ IsHistory(SubSeq(g, 1, m)) /\ Len(SubSeq(g, 1, m)) = m
      /\ \A i \in 1..m : SubSeq(g, 1, m)[i] = g[i]
  BY <1>3, CutIs
<1>5. /\ IsHistory(SubSeq(h, 1, m)) /\ Len(SubSeq(h, 1, m)) = m
      /\ \A i \in 1..m : SubSeq(h, 1, m)[i] = h[i]
  BY <1>1, CutIs
<1>6. \A i \in 1..m : SubSeq(g, 1, m)[i] = SubSeq(h, 1, m)[i]
  BY <1>3, <1>4, <1>5
<1>7. QED
  BY <1>2, <1>4, <1>5, <1>6, SameHistory

LEMMA CutAppend ==
  ASSUME NEW h, IsHistory(h), NEW e, NEW g, Grows(h, e, g), NEW m \in Nat, m <= Len(h)
  PROVE  SubSeq(g, 1, m) = SubSeq(h, 1, m)
<1>1. /\ IsHistory(g) /\ Len(h) \in Nat /\ Len(g) = Len(h) + 1 /\ DOMAIN h = 1..Len(h)
      /\ \A n \in DOMAIN h : g[n] = h[n]
  BY Appended
<1>2. /\ IsHistory(SubSeq(g, 1, m)) /\ Len(SubSeq(g, 1, m)) = m
      /\ \A i \in 1..m : SubSeq(g, 1, m)[i] = g[i]
  BY <1>1, CutIs
<1>3. /\ IsHistory(SubSeq(h, 1, m)) /\ Len(SubSeq(h, 1, m)) = m
      /\ \A i \in 1..m : SubSeq(h, 1, m)[i] = h[i]
  BY <1>1, CutIs
<1>4. \A i \in 1..m : SubSeq(g, 1, m)[i] = SubSeq(h, 1, m)[i]
  BY <1>1, <1>2, <1>3
<1>5. QED
  BY <1>2, <1>3, <1>4, SameHistory

LEMMA WholeIs ==
  ASSUME NEW h, IsHistory(h)
  PROVE  SubSeq(h, 1, Len(h)) = h
BY SubSeqFull DEF IsHistory

LEMMA LogIsSound ==
  ASSUME LogOK
  PROVE  IsHistory(log) /\ Sound(log)
<1>1. IsHistory(log) /\ Len(log) \in 0..Len(log)
  BY HistoryIs DEF LogOK
<1>2. QED
  BY <1>1, WholeIs DEF LogOK

LEMMA LogAppend ==
  ASSUME LogOK, NEW e, NEW g, Grows(log, e, g), Sound(g), log' = g
  PROVE  IsHistory(g) /\ LogOK'
<1>1. IsHistory(log)
  BY DEF LogOK
<1>2. IsHistory(g) /\ Len(log) \in Nat /\ Len(g) = Len(log) + 1
  BY <1>1, Appended
<1>3. ASSUME NEW n \in 0..Len(g) PROVE Sound(SubSeq(g, 1, n))
  <2>1. CASE n = Len(g)
    BY <1>2, <2>1, WholeIs
  <2>2. CASE n # Len(g)
    <3>1. n \in Nat /\ n <= Len(log) /\ n \in 0..Len(log)
      BY <1>2, <2>2
    <3>2. SubSeq(g, 1, n) = SubSeq(log, 1, n)
      BY <1>1, <3>1, CutAppend
    <3>3. QED
      BY <3>1, <3>2 DEF LogOK
  <2>3. QED
    BY <2>1, <2>2
<1>4. QED
  BY <1>2, <1>3 DEF LogOK

LEMMA LogCut ==
  ASSUME LogOK, NEW n \in Nat, n < Len(log), log' = SubSeq(log, 1, n)
  PROVE  LogOK'
<1>1. PICK g : g = SubSeq(log, 1, n)
  OBVIOUS
<1>2. IsHistory(log) /\ Len(log) \in Nat
  BY HistoryIs DEF LogOK
<1>3. IsHistory(g) /\ Len(g) = n
  BY <1>1, <1>2, CutIs
<1>4. ASSUME NEW m \in 0..n PROVE Sound(SubSeq(g, 1, m))
  <2>1. SubSeq(g, 1, m) = SubSeq(log, 1, m)
    BY <1>1, <1>2, CutCut
  <2>2. m \in 0..Len(log)
    BY <1>2
  <2>3. QED
    BY <2>1, <2>2 DEF LogOK
<1>5. QED
  BY <1>1, <1>3, <1>4 DEF LogOK

LEMMA InboxAppend ==
  ASSUME InboxOK, NEW e, NewToReceiver(e), NEW g, Grows(inbox, e, g), inbox' = g
  PROVE  IsHistory(g) /\ InboxOK' /\ e \in Range(g)
<1>1. IsHistory(inbox)
  BY DEF InboxOK
<1>2. /\ IsHistory(g) /\ Len(inbox) + 1 \in DOMAIN g /\ g[Len(inbox) + 1] = e
      /\ \A n \in DOMAIN inbox : n \in DOMAIN g /\ g[n] = inbox[n]
      /\ \A n \in DOMAIN g : n \in DOMAIN inbox \/ n = Len(inbox) + 1
  BY <1>1, Appended
<1>3. \A n \in DOMAIN inbox : inbox[n].id # e.id
  BY DEF NewToReceiver, Range
<1>4. \A m, n \in DOMAIN g : g[m].id = g[n].id => m = n
  BY <1>2, <1>3 DEF InboxOK
<1>5. e \in Range(g)
  BY <1>2 DEF Range
<1>6. QED
  BY <1>2, <1>4, <1>5 DEF InboxOK

LEMMA InboxCut ==
  ASSUME InboxOK, NEW n \in Nat, n < Len(inbox), inbox' = SubSeq(inbox, 1, n)
  PROVE  InboxOK'
<1>1. PICK g : g = SubSeq(inbox, 1, n)
  OBVIOUS
<1>2. IsHistory(inbox) /\ Len(inbox) \in Nat /\ DOMAIN inbox = 1..Len(inbox)
  BY HistoryIs DEF InboxOK
<1>3. /\ IsHistory(g) /\ Len(g) = n /\ \A i \in 1..n : g[i] = inbox[i]
  BY <1>1, <1>2, CutIs
<1>4. DOMAIN g = 1..n
  BY <1>3, HistoryIs
<1>5. \A i \in DOMAIN g : i \in DOMAIN inbox
  BY <1>2, <1>4
<1>6. \A i, j \in DOMAIN g : g[i].id = g[j].id => i = j
  BY <1>3, <1>4, <1>5 DEF InboxOK
<1>7. QED
  BY <1>1, <1>3, <1>6 DEF InboxOK
-----------------------------------------------------------------------------
(* Every step keeps the invariant.                                         *)
LEMMA EmptyIsSound == IsHistory(<< >>) /\ Sound(<< >>)
<1>1. PICK h : h = << >>
  OBVIOUS
<1>2. IsHistory(h) /\ DOMAIN h = {}
  BY <1>1, NothingIs
<1>3. \A kind : Recorded(h, kind) = {}
  BY <1>2 DEF Recorded
<1>4. \A key : EventsOf(h, key) = {}
  BY <1>3 DEF EventsOf
<1>5. \A key : Unresolved(h, key) = {}
  BY <1>4 DEF Unresolved, Incidents
<1>6. EventsOK(h) /\ AnswersOK(h)
  BY <1>2 DEF EventsOK, AnswersOK
<1>7. \A key \in Keys : Tracked(h, key)
  BY <1>4, <1>5 DEF Tracked
<1>8. QED
  BY <1>1, <1>2, <1>6, <1>7 DEF Sound

LEMMA Start == Init => IInv
<1>1. SUFFICES ASSUME Init PROVE IInv
  OBVIOUS
<1>2. PICK new : new = NewService
  OBVIOUS
<1>3. /\ new = [pc |-> new.pc, next |-> new.next, pin |-> new.pin, rpin |-> new.rpin]
      /\ new.pc = "new" /\ new.next = "idle" /\ new.pin = << >> /\ new.rpin = << >>
  BY <1>2 DEF NewService
<1>4. log = << >> /\ inbox = << >> /\ service = [s \in Services |-> new]
  BY <1>1, <1>2 DEF Init
<1>5. \A s \in Services : service[s] = new
  BY <1>4
<1>6. LogOK
  <2>1. ASSUME NEW n \in 0..Len(log) PROVE Sound(SubSeq(log, 1, n))
    <3>1. n = Len(log) /\ IsHistory(log)
      BY <1>4, <2>1, NothingIs
    <3>2. QED
      BY <1>4, <3>1, WholeIs, EmptyIsSound
  <2>2. QED
    BY <1>4, <2>1, EmptyIsSound DEF LogOK
<1>7. InboxOK
  BY <1>4, EmptyIsSound DEF InboxOK
<1>8. \A s \in Services : ServiceOK(s)
  BY <1>3, <1>5, EmptyIsSound DEF ServiceOK
<1>9. ServicesOK
  BY <1>3, <1>4, <1>5, <1>8 DEF ServicesOK
<1>10. QED
  BY <1>6, <1>7, <1>9 DEF IInv

Places == {"idle", "acting", "routing", "sending"}

LEMMA GoKeeps ==
  ASSUME IInv, NEW s \in Services, NEW pc, pc # "received", Go(s, pc),
         UNCHANGED <<log, inbox>>
  PROVE  IInv'
<1>1. Records /\ ServicesOK
  BY DEF IInv, ServicesOK, Records
<1>2. service' = [service EXCEPT ![s].pc = pc, ![s].next = "idle"]
  BY DEF Go
<1>3. Turn(s, pc, "idle", service[s].pin, service[s].rpin)
  BY <1>1, <1>2, Goes
<1>4. IsHistory(service[s].pin) /\ IsHistory(service[s].rpin) /\ Sound(service[s].pin)
  BY <1>1 DEF ServicesOK, ServiceOK
<1>5. ServicesOK'
  BY <1>1, <1>3, <1>4, TurnKeeps
<1>6. QED
  BY <1>5 DEF IInv, LogOK, InboxOK

LEMMA KeepKeeps ==
  ASSUME IInv, NEW s \in Services, NEW pin, IsHistory(pin), Sound(pin),
         NEW next \in Places, Keep(s, pin, next), LogOK', inbox' = inbox
  PROVE  IInv'
<1>1. Records /\ ServicesOK
  BY DEF IInv, ServicesOK, Records
<1>2. service' = [service EXCEPT ![s].pc = "publish", ![s].pin = pin, ![s].next = next]
  BY DEF Keep
<1>3. Turn(s, "publish", next, pin, service[s].rpin)
  BY <1>1, <1>2, Pins
<1>4. IsHistory(service[s].rpin)
  BY <1>1 DEF ServicesOK, ServiceOK
<1>5. ServicesOK'
  BY <1>1, <1>3, <1>4, TurnKeeps DEF Places
<1>6. QED
  BY <1>5 DEF IInv, InboxOK

LEMMA AskKeeps ==
  ASSUME IInv, NEW s \in Services, NEW pc, NEW rpin, IsHistory(rpin),
         service' = [service EXCEPT ![s].pc = pc, ![s].rpin = rpin],
         pc = "received" => /\ Pending(service[s].pin) # {}
                            /\ NextAlert(service[s].pin) \in Range(rpin),
         log' = log, InboxOK'
  PROVE  IInv'
<1>1. Records /\ ServicesOK
  BY DEF IInv, ServicesOK, Records
<1>2. Turn(s, pc, service[s].next, service[s].pin, rpin)
  BY <1>1, Asks
<1>3. /\ IsHistory(service[s].pin) /\ Sound(service[s].pin)
      /\ service[s].next \in {"idle", "acting", "routing", "sending"}
  BY <1>1 DEF ServicesOK, ServiceOK
<1>4. ServicesOK'
  BY <1>1, <1>2, <1>3, TurnKeeps
<1>5. QED
  BY <1>4 DEF IInv, LogOK

LEMMA LogSame ==
  ASSUME IInv, log' = log
  PROVE  LogOK' /\ IsHistory(log) /\ Sound(log)
BY LogIsSound DEF IInv, LogOK

LEMMA ReadKeeps ==
  ASSUME IInv, NEW s \in Services, NEW next \in Places, Read(s, next) \/ Repeat(s, next)
  PROVE  IInv'
<1>1. Keep(s, log, next) /\ log' = log /\ inbox' = inbox
  BY DEF Read, Repeat
<1>2. QED
  BY <1>1, LogSame, KeepKeeps

LEMMA WriteKeeps ==
  ASSUME IInv, NEW s \in Services, NEW record, NEW next \in Places, Write(s, record, next),
         \A g : Grows(log, record, g) => Sound(g)
  PROVE  IInv'
<1>1. PICK g : g = Append(log, record)
  OBVIOUS
<1>2. Grows(log, record, g)
  BY <1>1 DEF Grows
<1>3. log' = g /\ Keep(s, g, next) /\ inbox' = inbox
  BY <1>1 DEF Write, Keep
<1>4. Sound(g) /\ LogOK
  BY <1>2 DEF IInv
<1>5. IsHistory(g) /\ LogOK'
  BY <1>2, <1>3, <1>4, LogAppend
<1>6. QED
  BY <1>3, <1>4, <1>5, KeepKeeps

LEMMA PublishKeeps ==
  ASSUME IInv, NEW s \in Services, Publish(s)
  PROVE  IInv'
<1>1. service[s].next # "received"
  BY DEF IInv, ServicesOK, ServiceOK
<1>2. QED
  BY <1>1, GoKeeps DEF Publish

LEMMA ConstructKeeps ==
  ASSUME IInv, NEW s \in Services, Construct(s)
  PROVE  IInv'
<1>1. Turn(s, "publish", "idle", log, inbox) /\ log' = log /\ inbox' = inbox
  BY DEF Construct, Turn
<1>2. IsHistory(log) /\ Sound(log) /\ LogOK'
  BY <1>1, LogSame
<1>3. IsHistory(inbox) /\ ServicesOK
  BY DEF IInv, InboxOK
<1>4. ServicesOK'
  BY <1>1, <1>2, <1>3, TurnKeeps
<1>5. QED
  BY <1>1, <1>2, <1>4 DEF IInv, InboxOK

LEMMA ObserveKeeps ==
  ASSUME IInv, NEW s \in Services, NEW id \in ObservedIds, NEW key \in Keys,
         NEW report \in Reports, Observe(s, id, key, report)
  PROVE  IInv'
<1>1. CASE Repeat(s, "idle")
  BY <1>1, ReadKeeps DEF Places
<1>2. CASE /\ {r \in Recorded(log, "event") : r.id = id} = {} /\ NotOlder(key, report[2])
           /\ Write(s, [kind |-> "event", id |-> id, key |-> key, condition |-> report[1],
                        at |-> report[2], incident |-> IncidentOf(key, report[1], id)], "idle")
  <2>1. PICK e : e = [kind |-> "event", id |-> id, key |-> key, condition |-> report[1],
                      at |-> report[2], incident |-> IncidentOf(key, report[1], id)]
    OBVIOUS
  <2>2. /\ e.kind = "event" /\ e.id = id /\ e.key = key /\ e.condition = report[1]
        /\ e.at = report[2] /\ e.incident = IncidentOf(key, report[1], id)
    BY <2>1
  <2>3. id \in Nat /\ report[2] \in Nat
    BY MonitoringAssumption DEF MonitoringAssumption, ObservedIds, EventIds
  <2>4. ~Happened(log, id)
    BY <1>2, HappenedAre
  <2>5. Fresh(log, e)
    BY <1>2, <2>2, <2>3, <2>4 DEF Fresh, NotOlder
  <2>6. Continues(log, e)
    <3>1. CASE Unresolved(log, key) # {}
      BY <2>2, <3>1 DEF IncidentOf, Continues
    <3>2. CASE Unresolved(log, key) = {}
      BY <2>2, <3>2 DEF IncidentOf, Continues
    <3>3. QED
      BY <3>1, <3>2
  <2>7. IsHistory(log) /\ Sound(log)
    BY LogIsSound DEF IInv
  <2>8. \A g : Grows(log, e, g) => Sound(g)
    BY <2>5, <2>6, <2>7, EventSound
  <2>9. Write(s, e, "idle")
    BY <1>2, <2>1
  <2>10. QED
    BY <2>8, <2>9, WriteKeeps DEF Places
<1>3. QED
  BY <1>1, <1>2 DEF Observe

LEMMA ActKeeps ==
  ASSUME IInv, NEW s \in Services, NEW op, NEW action, NEW i, Act(s, op, action, i)
  PROVE  IInv'
<1>1. CASE Repeat(s, "idle")
  BY <1>1, ReadKeeps DEF Places
<1>2. CASE /\ \E key \in Keys : i \in Unresolved(log, key)
           /\ IF action = "acknowledge" THEN ~Did(log, "acknowledge", i)
              ELSE Did(log, "acknowledge", i) /\ Healthy(i)
           /\ Write(s, [kind |-> "action", op |-> op, action |-> action, incident |-> i], "idle")
  <2>1. PICK e : e = [kind |-> "action", op |-> op, action |-> action, incident |-> i]
    OBVIOUS
  <2>2. e.kind = "action" /\ e.action = action /\ e.incident = i
    BY <2>1
  <2>3. PICK key \in Keys : e.incident \in Unresolved(log, key)
    BY <1>2, <2>2
  <2>4. e.action = "resolve" =>
          Newest(log, EventsOf(log,
            (CHOOSE r \in Recorded(log, "event") : r.incident = e.incident).key)
                 ).condition = "healthy"
    BY <1>2, <2>2 DEF Healthy, Key
  <2>5. IsHistory(log) /\ Sound(log)
    BY LogIsSound DEF IInv
  <2>6. \A g : Grows(log, e, g) => Sound(g)
    BY <2>2, <2>3, <2>4, <2>5, ActionSound
  <2>7. Write(s, e, "idle")
    BY <1>2, <2>1
  <2>8. QED
    BY <2>6, <2>7, WriteKeeps DEF Places
<1>3. QED
  BY <1>1, <1>2 DEF Act

LEMMA NextAlertIs ==
  ASSUME NEW h, IsHistory(h), Pending(h) # {}
  PROVE  NextAlert(h) \in Alerts(h)
<1>1. Pending(h) \subseteq Alerts(h) /\ Pending(h) \subseteq Range(h)
  BY RecordedAre DEF Pending, Alerts
<1>2. Oldest(h, Pending(h)) \in Pending(h)
  BY <1>1, OldestIs
<1>3. QED
  BY <1>1, <1>2 DEF NextAlert

LEMMA AcknowledgeKeeps ==
  ASSUME IInv, NEW s \in Services, Acknowledge(s)
  PROVE  IInv'
<1>1. PICK e : e = [kind |-> "ack", alert |-> NextAlert(service[s].pin).id,
                    receipt |-> service[s].rpin]
  OBVIOUS
<1>2. e.kind = "ack" /\ e.alert = NextAlert(service[s].pin).id /\ e.receipt = service[s].rpin
  BY <1>1
<1>3. service[s].pc = "received" /\ Write(s, e, "sending") /\ service[s].pin = log
  BY <1>1 DEF Acknowledge, Write
<1>4. /\ IsHistory(service[s].rpin) /\ Pending(log) # {}
      /\ NextAlert(log) \in Range(service[s].rpin)
  BY <1>3 DEF IInv, ServicesOK, ServiceOK
<1>5. IsHistory(log) /\ Sound(log)
  BY LogIsSound DEF IInv
<1>6. NextAlert(log) \in Alerts(log)
  BY <1>4, <1>5, NextAlertIs
<1>7. \A g : Grows(log, e, g) => Sound(g)
  BY <1>2, <1>3, <1>4, <1>5, <1>6, AckSound
<1>8. QED
  BY <1>3, <1>7, WriteKeeps DEF Places

LEMMA ReceiveKeeps ==
  ASSUME IInv, NEW s \in Services, Receive(s)
  PROVE  IInv'
<1>1. PICK a : a = NextAlert(service[s].pin)
  OBVIOUS
<1>2. PICK rpin : rpin = inbox'
  OBVIOUS
<1>3. /\ Pending(service[s].pin) # {} /\ log' = log
      /\ service' = [service EXCEPT ![s].pc = "received", ![s].rpin = rpin]
      /\ \/ NewToReceiver(a) /\ inbox' = Append(inbox, a)
         \/ Redelivered(a) /\ inbox' = inbox
  BY <1>1, <1>2 DEF Receive
<1>4. InboxOK
  BY DEF IInv
<1>5. IsHistory(rpin) /\ InboxOK' /\ a \in Range(rpin)
  <2>1. CASE NewToReceiver(a) /\ inbox' = Append(inbox, a)
    <3>1. Grows(inbox, a, rpin)
      BY <1>2, <2>1 DEF Grows
    <3>2. QED
      BY <1>2, <1>4, <2>1, <3>1, InboxAppend
  <2>2. CASE Redelivered(a) /\ inbox' = inbox
    BY <1>2, <1>4, <2>2 DEF InboxOK, Redelivered
  <2>3. QED
    BY <1>3, <2>1, <2>2
<1>6. QED
  BY <1>1, <1>3, <1>5, AskKeeps

LEMMA CustodyKeeps ==
  ASSUME IInv, NEW s \in Services, Custody(s) \/ Finish(s)
  PROVE  IInv'
<1>1. PICK pc \in {"sending", "routed"} :
        service' = [service EXCEPT ![s].pc = pc, ![s].rpin = inbox]
  BY DEF Custody, Finish
<1>2. log' = log /\ inbox' = inbox
  BY DEF Custody, Finish
<1>3. IsHistory(inbox) /\ InboxOK' /\ pc # "received"
  BY <1>1, <1>2 DEF IInv, InboxOK
<1>4. QED
  BY <1>1, <1>2, <1>3, AskKeeps

LEMMA CrashKeeps ==
  ASSUME IInv, NEW s \in Services, Crash(s)
  PROVE  IInv'
<1>1. Turn(s, "new", "idle", << >>, << >>) /\ log' = log /\ inbox' = inbox
  BY DEF Crash, NewService, Turn
<1>2. ServicesOK'
  BY <1>1, EmptyIsSound, TurnKeeps DEF IInv
<1>3. QED
  BY <1>1, <1>2 DEF IInv, LogOK, InboxOK

LEMMA RestoreKeeps ==
  ASSUME IInv, NEW n \in Nat, RestoreMonitor(n) \/ RestoreReceiver(n)
  PROVE  IInv'
<1>1. CASE RestoreMonitor(n)
  <2>1. /\ n < Len(log) /\ log' = SubSeq(log, 1, n)
        /\ inbox' = inbox /\ service' = service
    BY <1>1 DEF RestoreMonitor
  <2>2. LogOK'
    BY <2>1, LogCut DEF IInv
  <2>3. QED
    BY <2>1, <2>2 DEF IInv, InboxOK, ServicesOK, ServiceOK
<1>2. CASE RestoreReceiver(n)
  <2>1. /\ n < Len(inbox) /\ inbox' = SubSeq(inbox, 1, n)
        /\ log' = log /\ service' = service
    BY <1>2 DEF RestoreReceiver
  <2>2. InboxOK'
    BY <2>1, InboxCut DEF IInv
  <2>3. QED
    BY <2>1, <2>2 DEF IInv, LogOK, ServicesOK, ServiceOK
<1>3. QED
  BY <1>1, <1>2

LEMMA RequestKeeps ==
  ASSUME IInv, NEW s \in Services, Request(s)
  PROVE  IInv'
<1>1. CASE \E next \in {"idle", "acting"} : Read(s, next)
  BY <1>1, ReadKeeps DEF Places
<1>2. CASE \E op \in Operations, action \in {"acknowledge", "resolve"}, i \in EventIds :
             Act(s, op, action, i)
  BY <1>2, ActKeeps
<1>3. CASE \E id \in ObservedIds, key \in Keys, report \in Reports : Observe(s, id, key, report)
  BY <1>3, ObserveKeeps
<1>4. QED
  BY <1>1, <1>2, <1>3 DEF Request

LEMMA CallKeeps ==
  ASSUME IInv, NEW s \in Services, Call(s)
  PROVE  IInv'
<1>1. CASE Publish(s)
  BY <1>1, PublishKeeps
<1>2. CASE Refuse(s) \/ Return(s)
  <2>1. Go(s, "idle") /\ UNCHANGED <<log, inbox>>
    BY <1>2 DEF Refuse, Return
  <2>2. QED
    BY <2>1, GoKeeps
<1>3. CASE Read(s, "routing")
  BY <1>3, ReadKeeps DEF Places
<1>4. CASE Custody(s) \/ Finish(s)
  BY <1>4, CustodyKeeps
<1>5. CASE Receive(s)
  BY <1>5, ReceiveKeeps
<1>6. CASE Acknowledge(s)
  BY <1>6, AcknowledgeKeeps
<1>7. CASE Request(s)
  BY <1>7, RequestKeeps
<1>8. QED
  BY <1>1, <1>2, <1>3, <1>4, <1>5, <1>6, <1>7 DEF Call, Pass

LEMMA Step == IInv /\ [Next]_vars => IInv'
<1>1. SUFFICES ASSUME IInv, [Next]_vars PROVE IInv'
  OBVIOUS
<1>2. CASE UNCHANGED vars
  BY <1>1, <1>2 DEF vars, IInv, LogOK, InboxOK, ServicesOK, ServiceOK
<1>3. CASE \E s \in Services : Construct(s) \/ Call(s) \/ Crash(s)
  BY <1>1, <1>3, ConstructKeeps, CallKeeps, CrashKeeps
<1>4. CASE \E n \in 0..MaxRecords : RestoreMonitor(n) \/ RestoreReceiver(n)
  <2>1. PICK n \in 0..MaxRecords : RestoreMonitor(n) \/ RestoreReceiver(n)
    BY <1>4
  <2>2. n \in Nat
    BY <2>1
  <2>3. QED
    BY <1>1, <2>1, <2>2, RestoreKeeps
<1>5. QED
  BY <1>1, <1>2, <1>3, <1>4 DEF Next

LEMMA Invariance == Spec => []IInv
<1>1. QED
  BY Start, Step, PTL DEF Spec
-----------------------------------------------------------------------------
LEMMA AtMostOne ==
  ASSUME NEW S, \A i, j \in S : i = j
  PROVE  Cardinality(S) <= 1
<1>1. CASE S = {}
  BY <1>1, FS_EmptySet
<1>2. CASE S # {}
  <2>1. PICK i \in S : TRUE
    BY <1>2
  <2>2. S = {i}
    BY <2>1
  <2>3. Cardinality(S) = 1
    BY <2>2, FS_Singleton
  <2>4. QED
    BY <2>3
<1>3. QED
  BY <1>1, <1>2

(* An incident stays open as long as its fault lasts, and a key has at most *)
(* one, through every restore of the history (_transition, observe).        *)
THEOREM IncidentsTracked == Spec => []IncidentsTrackFaults
<1>1. IInv => IncidentsTrackFaults
  <2>1. SUFFICES ASSUME IInv, NEW key \in Keys
                 PROVE  /\ Cardinality(Unresolved(log, key)) <= 1
                        /\ \A fault \in EventsOf(log, key) :
                             Lasting(log, key, fault) => fault.incident \in Unresolved(log, key)
    BY DEF IncidentsTrackFaults, Lasting
  <2>2. Tracked(log, key)
    BY <2>1, LogIsSound DEF IInv, Sound
  <2>3. QED
    BY <2>2, AtMostOne DEF Tracked
<1>2. QED
  BY <1>1, Invariance, PTL
-----------------------------------------------------------------------------
(* A service returns from a routing pass by Finish only.                    *)
NoneRouted == \A s \in Services : service'[s].pc = "routed" => service[s].pc = "routed"

LEMMA TurnRoutes ==
  ASSUME Records, NEW t \in Services, NEW pc, NEW next, NEW pin, NEW rpin,
         Turn(t, pc, next, pin, rpin), pc # "routed"
  PROVE  NoneRouted
<1>1. service'[t].pc = pc /\ \A s \in Services : s # t => service'[s] = service[s]
  BY TurnIs
<1>2. QED
  BY <1>1 DEF NoneRouted

LEMMA GoRoutes ==
  ASSUME Records, NEW t \in Services, NEW pc, Go(t, pc), pc # "routed"
  PROVE  NoneRouted
<1>1. service' = [service EXCEPT ![t].pc = pc, ![t].next = "idle"]
  BY DEF Go
<1>2. Turn(t, pc, "idle", service[t].pin, service[t].rpin)
  BY <1>1, Goes
<1>3. QED
  BY <1>2, TurnRoutes

LEMMA KeepRoutes ==
  ASSUME Records, NEW t \in Services, NEW pin, NEW next, Keep(t, pin, next)
  PROVE  NoneRouted
<1>1. service' = [service EXCEPT ![t].pc = "publish", ![t].pin = pin, ![t].next = next]
  BY DEF Keep
<1>2. Turn(t, "publish", next, pin, service[t].rpin)
  BY <1>1, Pins
<1>3. QED
  BY <1>2, TurnRoutes

LEMMA WriteRoutes ==
  ASSUME Records, NEW t \in Services, NEW record, NEW next, Write(t, record, next)
  PROVE  NoneRouted
<1>1. PICK g : g = Append(log, record)
  OBVIOUS
<1>2. Keep(t, g, next)
  BY <1>1 DEF Write, Keep
<1>3. QED
  BY <1>2, KeepRoutes

LEMMA RepeatRoutes ==
  ASSUME Records, NEW t \in Services, NEW next, Read(t, next) \/ Repeat(t, next)
  PROVE  NoneRouted
<1>1. Keep(t, log, next)
  BY DEF Read, Repeat
<1>2. QED
  BY <1>1, KeepRoutes

LEMMA AskRoutes ==
  ASSUME Records, NEW t \in Services, Custody(t) \/ Receive(t)
  PROVE  NoneRouted
<1>1. PICK rpin : rpin = IF Custody(t) THEN inbox ELSE inbox'
  OBVIOUS
<1>2. PICK pc \in {"sending", "received"} :
        service' = [service EXCEPT ![t].pc = pc, ![t].rpin = rpin]
  BY <1>1 DEF Custody, Receive
<1>3. Turn(t, pc, service[t].next, service[t].pin, rpin)
  BY <1>2, Asks
<1>4. QED
  BY <1>2, <1>3, TurnRoutes

LEMMA RequestRoutes ==
  ASSUME Records, NEW t \in Services, Request(t)
  PROVE  NoneRouted
<1>1. CASE \E next \in {"idle", "acting"} : Read(t, next)
  BY <1>1, RepeatRoutes
<1>2. CASE \E op \in Operations, action \in {"acknowledge", "resolve"}, i \in EventIds :
             Act(t, op, action, i)
  BY <1>2, WriteRoutes, RepeatRoutes DEF Act
<1>3. CASE \E id \in ObservedIds, key \in Keys, report \in Reports : Observe(t, id, key, report)
  BY <1>3, WriteRoutes, RepeatRoutes DEF Observe
<1>4. QED
  BY <1>1, <1>2, <1>3 DEF Request

LEMMA CallRoutes ==
  ASSUME IInv, NEW t \in Services, Call(t)
  PROVE  NoneRouted \/ Finish(t)
<1>1. Records /\ service[t].next # "routed"
  BY DEF IInv, ServicesOK, ServiceOK, Records
<1>2. CASE Publish(t) \/ Refuse(t) \/ Return(t)
  <2>1. PICK pc : Go(t, pc) /\ pc # "routed"
    BY <1>1, <1>2 DEF Publish, Refuse, Return
  <2>2. QED
    BY <1>1, <2>1, GoRoutes
<1>3. CASE Read(t, "routing")
  BY <1>1, <1>3, RepeatRoutes
<1>4. CASE Custody(t) \/ Receive(t)
  BY <1>1, <1>4, AskRoutes
<1>5. CASE Acknowledge(t)
  BY <1>1, <1>5, WriteRoutes DEF Acknowledge
<1>6. CASE Request(t)
  BY <1>1, <1>6, RequestRoutes
<1>7. QED
  BY <1>2, <1>3, <1>4, <1>5, <1>6 DEF Call, Pass

LEMMA OnlyFinish ==
  ASSUME IInv, [Next]_vars
  PROVE  NoneRouted \/ \E t \in Services : Finish(t)
<1>1. Records
  BY DEF IInv, ServicesOK, Records
<1>2. CASE \E t \in Services : Construct(t)
  <2>1. PICK t \in Services : Turn(t, "publish", "idle", log, inbox)
    BY <1>2 DEF Construct, Turn
  <2>2. QED
    BY <1>1, <2>1, TurnRoutes
<1>3. CASE \E t \in Services : Call(t)
  BY <1>3, CallRoutes
<1>4. CASE \E t \in Services : Crash(t)
  <2>1. PICK t \in Services : Turn(t, "new", "idle", << >>, << >>)
    BY <1>4 DEF Crash, NewService, Turn
  <2>2. QED
    BY <1>1, <2>1, TurnRoutes
<1>5. CASE service' = service
  BY <1>5 DEF NoneRouted
<1>6. QED
  BY <1>2, <1>3, <1>4, <1>5 DEF Next, RestoreMonitor, RestoreReceiver, vars

(* What every acknowledgment's receipt holds is in the receiver, once.      *)
LEMMA AcknowledgedIsHeld ==
  ASSUME NEW h, IsHistory(h), Sound(h), InboxOK, HoldsAll(h),
         NEW alert \in Alerts(h), Acknowledged(h, alert.id)
  PROVE  Cardinality({n \in DOMAIN inbox : inbox[n] = alert}) = 1
<1>1. PICK r \in Recorded(h, "ack") : r.alert = alert.id
  BY DEF Acknowledged
<1>2. PICK k \in DOMAIN h : r = h[k] /\ h[k].kind = "ack"
  BY RecordedAre
<1>3. IsHistory(r.receipt)
  BY <1>2 DEF Sound, AnswersOK
<1>4. alert \in Range(r.receipt)
  BY <1>1 DEF HoldsAll
<1>5. Extends(inbox, r.receipt) /\ IsHistory(inbox)
  BY <1>1 DEF HoldsAll, InboxOK
<1>6. alert \in Range(inbox)
  BY <1>3, <1>4, <1>5, PrefixIs
<1>7. PICK n \in DOMAIN inbox : inbox[n] = alert
  BY <1>6 DEF Range
<1>8. \A m \in DOMAIN inbox : inbox[m] = alert => m = n
  BY <1>7 DEF InboxOK
<1>9. {m \in DOMAIN inbox : inbox[m] = alert} = {n}
  BY <1>7, <1>8
<1>10. QED
  BY <1>9, FS_Singleton

(* When a routing pass returns, every alert of the history that it read is *)
(* acknowledged and held by the receiver, once (route_pending).            *)
THEOREM RoutedHeld == Spec => RoutedIsHeld
<1>1. ASSUME IInv, [Next]_vars, NEW s \in Services, service[s].pc # "routed",
             service'[s].pc = "routed", NEW alert \in Alerts(service[s].pin)
      PROVE  /\ Acknowledged(service[s].pin, alert.id)
             /\ Cardinality({n \in DOMAIN inbox' : inbox'[n] = alert}) = 1
  <2>1. PICK t \in Services : Finish(t)
    BY <1>1, OnlyFinish DEF NoneRouted
  <2>2. s = t
    <3>1. service' = [service EXCEPT ![t].pc = "routed", ![t].rpin = inbox]
      BY <2>1 DEF Finish
    <3>2. Records
      BY <1>1 DEF IInv, ServicesOK, Records
    <3>3. Turn(t, "routed", service[t].next, service[t].pin, inbox)
      BY <2>1, <3>1, <3>2, Asks
    <3>4. \A u \in Services : u # t => service'[u] = service[u]
      BY <2>1, <3>2, <3>3, TurnIs
    <3>5. QED
      BY <1>1, <3>4
  <2>3. /\ Pending(service[s].pin) = {} /\ HoldsAll(service[s].pin) /\ inbox' = inbox
    BY <2>1, <2>2 DEF Finish
  <2>4. Acknowledged(service[s].pin, alert.id)
    BY <1>1, <2>3 DEF Pending
  <2>5. IsHistory(service[s].pin) /\ Sound(service[s].pin) /\ InboxOK
    BY <1>1 DEF IInv, ServicesOK, ServiceOK
  <2>6. Cardinality({n \in DOMAIN inbox : inbox[n] = alert}) = 1
    BY <1>1, <2>3, <2>4, <2>5, AcknowledgedIsHeld
  <2>7. QED
    BY <2>3, <2>4, <2>6
<1>2. IInv /\ [Next]_vars =>
        [\A s \in Services : service[s].pc # "routed" /\ service'[s].pc = "routed" =>
           \A alert \in Alerts(service[s].pin) :
             /\ Acknowledged(service[s].pin, alert.id)
             /\ Cardinality({n \in DOMAIN inbox' : inbox'[n] = alert}) = 1]_vars
  BY <1>1
<1>3. QED
  BY <1>2, Invariance, PTL DEF Spec, RoutedIsHeld
=============================================================================
