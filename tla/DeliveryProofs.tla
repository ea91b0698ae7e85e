--------------------------- MODULE DeliveryProofs ---------------------------
(***************************************************************************)
(* Proofs about the controlled delivery of a fixture, for every set of     *)
(* gateways, processes and requests, every size and allowance, and any     *)
(* number of restores.                                                     *)
(*                                                                         *)
(* A restore takes events away, and what other sessions and the directory  *)
(* remember brings them back, so that the invariant speaks of the events   *)
(* that any of the histories holds.                                        *)
(***************************************************************************)
EXTENDS Delivery, SequenceTheorems, WellFoundedInduction, TLAPS

IsHistory(h) == h \in Seq(Range(h))

Shapes ==
  /\ IsHistory(log) /\ IsHistory(sink) /\ IsHistory(writes) /\ issued \in Nat
  /\ session = [s \in Sessions |-> [pc |-> session[s].pc, pin |-> session[s].pin,
                                    proofs |-> session[s].proofs]]
  /\ \A s \in Sessions : IsHistory(session[s].pin)

Held(e) ==
  \/ e \in Range(log) \/ e \in Range(sink)
  \/ \E s \in Sessions : e \in Range(session[s].pin)

Making(e) == e.op \in {"activate", "grant"}

(* An identifier belongs to one activation or grant, whatever was restored *)
(* since it was drawn; who has a proof made the record itself.             *)
Identified ==
  /\ \A e : Held(e) /\ Making(e) => e.id \in Nat /\ e.id <= issued
  /\ \A e, f : Held(e) /\ Held(f) /\ Making(e) /\ Making(f) /\ e.id = f.id => e.by = f.by
  /\ \A s \in Sessions : \A e : Held(e) /\ Making(e) /\ e.id \in session[s].proofs => e.by = s
  /\ \A s \in Sessions : \A id \in session[s].proofs : id \in Nat /\ id <= issued

Told(e) ==
  \E i \in DOMAIN writes :
    /\ Written(i).request = e.request
    /\ e.extent # Unknown => e.extent = writes[i].bytes

Truthful == \A e : Held(e) /\ e.op = "observe" => Told(e)

(* What held in a history when a chunk c was admitted in it.               *)
Delivers(h, c) ==
  /\ Known(h, "grant", c.grant) /\ ~GrantRevoked(h, c.grant)
  /\ Known(h, "activate", Grant(h, c.grant).route)
  /\ RouteState(h, Grant(h, c.grant).route) = "active"

Admits(s) ==
  LET c == Last(session[s].pin) IN
  /\ Delivers(session[s].pin, c)
  /\ c.grant \in session[s].proofs
  /\ Grant(session[s].pin, c.grant).route \in session[s].proofs
  /\ session[s].pc = "keeping" =>
       \E h :
         /\ IsHistory(h) /\ Delivers(h, c) /\ Len(session[s].pin) = Len(h) + 1
         /\ (sink = h \/ Len(sink) >= Len(session[s].pin))

(* The newest write of a session.                                          *)
Wrote(s, i) ==
  /\ i \in DOMAIN writes /\ writes[i].by = s
  /\ \A j \in DOMAIN writes : writes[j].by = s => j <= i

CallOK(s) ==
  /\ session[s].pc \in {"keeping", "kept"} =>
       LET e == Last(session[s].pin) IN
       /\ Len(session[s].pin) > 0
       /\ Making(e) => e.by = s
       /\ e.op = "admit" => Admits(s)
  /\ session[s].pc = "ready" => sink = session[s].pin \/ Len(sink) > Len(session[s].pin)
  /\ session[s].pc \in {"known", "unknown"} =>
       \E i : Wrote(s, i) /\ writes[i].pin = session[s].pin

Calls == \A s \in Sessions : CallOK(s)

IInv == Shapes /\ Identified /\ Truthful /\ Calls /\ RoutesAreFresh
-----------------------------------------------------------------------------
(* Sequences, and the newest of a set of positions.                        *)
Below == OpToRel(<, Nat)

LEMMA BelowWellFounded == IsWellFoundedOn(Below, Nat)
BY NatLessThanWellFounded, Zenon DEF Below

LEMMA BelowIs == \A m, n \in Nat : m < n => <<m, n>> \in Below
BY Zenon DEF Below, OpToRel

LEMMA LeastExists ==
  ASSUME NEW S \in SUBSET Nat, S # {}
  PROVE  \E m \in S : \A n \in S : m <= n
<1>1. PICK m \in S : \A n \in S : ~(<<n, m>> \in Below)
  BY BelowWellFounded, WFMin
<1>2. \A n \in S : ~(n < m)
  BY <1>1, BelowIs
<1>3. QED
  BY <1>2

LEMMA HistoryIs ==
  ASSUME NEW h, IsHistory(h)
  PROVE  /\ Len(h) \in Nat /\ DOMAIN h = 1..Len(h)
         /\ \A e : e \in Range(h) <=> \E i \in 1..Len(h) : e = h[i]
BY DEF IsHistory, Range

LEMMA NothingIs == IsHistory(<< >>) /\ Len(<< >>) = 0 /\ Range(<< >>) = {}
BY DEF IsHistory, Range

LEMMA AppendIs ==
  ASSUME NEW h, IsHistory(h), NEW e
  PROVE  /\ IsHistory(Append(h, e)) /\ Len(Append(h, e)) = Len(h) + 1
         /\ \A i \in 1..Len(h) : Append(h, e)[i] = h[i]
         /\ Append(h, e)[Len(h) + 1] = e /\ Last(Append(h, e)) = e
         /\ Range(Append(h, e)) = Range(h) \cup {e}
<1>1. PICK S : S = Range(h) \cup {e}
  OBVIOUS
<1>2. h \in Seq(S) /\ e \in S
  BY <1>1, SeqMonotonic DEF IsHistory
<1>3. PICK g : g = Append(h, e)
  OBVIOUS
<1>4. /\ g \in Seq(S) /\ Len(g) = Len(h) + 1 /\ Len(h) \in Nat
      /\ \A i \in 1..Len(h) : g[i] = h[i] /\ i \in 1..Len(g)
      /\ g[Len(h) + 1] = e
      /\ DOMAIN g = 1..Len(g) /\ DOMAIN h = 1..Len(h)
  BY <1>2, <1>3
<1>5. \A i \in 1..Len(g) : i \in 1..Len(h) \/ i = Len(h) + 1
  BY <1>4
<1>6. Len(h) + 1 \in 1..Len(g)
  BY <1>4
<1>7. Range(g) = S
  <2>1. Range(g) \subseteq S
    BY <1>4 DEF Range
  <2>2. \A x \in Range(h) : x \in Range(g)
    BY <1>4 DEF Range
  <2>3. e \in Range(g)
    BY <1>4, <1>6 DEF Range
  <2>4. QED
    BY <1>1, <2>1, <2>2, <2>3
<1>8. IsHistory(g)
  BY <1>4, <1>7 DEF IsHistory
<1>9. QED
  BY <1>1, <1>3, <1>4, <1>7, <1>8 DEF Last

LEMMA CutIs ==
  ASSUME NEW h, IsHistory(h), NEW n \in Nat, n <= Len(h)
  PROVE  /\ IsHistory(SubSeq(h, 1, n)) /\ Range(SubSeq(h, 1, n)) \subseteq Range(h)
         /\ Len(SubSeq(h, 1, n)) = n
         /\ \A i \in 1..n : SubSeq(h, 1, n)[i] = h[i]
<1>1. PICK S : S = Range(h)
  OBVIOUS
<1>2. h \in Seq(S) /\ Len(h) \in Nat
  BY <1>1 DEF IsHistory
<1>3. PICK g : g = SubSeq(h, 1, n)
  OBVIOUS
<1>4. \A i \in 1..n : h[i] \in S
  BY <1>2
<1>5. /\ g \in Seq(S) /\ Len(g) = n /\ \A i \in 1..n : g[i] = h[i]
  BY <1>3, <1>4, SubSeqProperties
<1>6. Range(g) \subseteq S
  BY <1>5 DEF Range
<1>7. DOMAIN g = 1..Len(g) /\ \A i \in 1..Len(g) : g[i] \in Range(g)
  BY <1>5 DEF Range
<1>8. g \in Seq(Range(g))
  BY <1>5, <1>7
<1>9. QED
  BY <1>1, <1>3, <1>5, <1>6, <1>8 DEF IsHistory

LEMMA NewestIs ==
  ASSUME NEW n \in Nat, NEW S \in SUBSET (1..n), S # {}
  PROVE  Max(S) \in S /\ \A x \in S : x <= Max(S)
<1>1. PICK T : T = {n - x : x \in S}
  OBVIOUS
<1>2. T \in SUBSET Nat /\ T # {}
  <2>1. \A x \in S : n - x \in Nat
    OBVIOUS
  <2>2. \A x \in S : n - x \in T
    BY <1>1
  <2>3. QED
    BY <1>1, <2>1, <2>2
<1>3. PICK m \in T : \A y \in T : m <= y
  BY <1>2, LeastExists
<1>4. PICK x \in S : m = n - x
  BY <1>1, <1>3
<1>5. \A y \in S : x >= y
  <2>1. TAKE y \in S
  <2>2. n - y \in T
    BY <1>1
  <2>3. n - x <= n - y
    BY <1>3, <1>4, <2>2
  <2>4. QED
    BY <2>3
<1>6. \E z \in S : \A y \in S : z >= y
  BY <1>5
<1>7. QED
  BY <1>6 DEF Max

-----------------------------------------------------------------------------
(* Sessions.                                                               *)
LEMMA SessionMoves ==
  ASSUME Shapes, NEW s \in Sessions, NEW pc, NEW pin, IsHistory(pin), NEW proofs,
         session' = [session EXCEPT ![s] = [pc |-> pc, pin |-> pin, proofs |-> proofs]]
  PROVE  /\ session' = [t \in Sessions |-> [pc |-> session'[t].pc, pin |-> session'[t].pin,
                                            proofs |-> session'[t].proofs]]
         /\ \A t \in Sessions : IsHistory(session'[t].pin)
         /\ session'[s].pc = pc /\ session'[s].pin = pin /\ session'[s].proofs = proofs
         /\ \A t \in Sessions : t # s => session'[t] = session[t]
<1>1. /\ session = [t \in Sessions |-> [pc |-> session[t].pc, pin |-> session[t].pin,
                                        proofs |-> session[t].proofs]]
      /\ \A t \in Sessions : IsHistory(session[t].pin)
  BY DEF Shapes
<1>2. PICK m : m = [pc |-> pc, pin |-> pin, proofs |-> proofs]
  OBVIOUS
<1>3. m.pc = pc /\ m.pin = pin /\ m.proofs = proofs /\ m = [pc |-> m.pc, pin |-> m.pin, proofs |-> m.proofs]
  BY <1>2
<1>4. session' = [session EXCEPT ![s] = m]
  BY <1>2
<1>5. /\ session' = [t \in Sessions |-> IF t = s THEN m ELSE session[t]]
      /\ \A t \in Sessions : session'[t] = IF t = s THEN m ELSE session[t]
  BY <1>1, <1>4
<1>6. \A t \in Sessions : session'[t] = [pc |-> session'[t].pc, pin |-> session'[t].pin,
                                         proofs |-> session'[t].proofs]
  BY <1>1, <1>3, <1>5
<1>7. QED
  BY <1>1, <1>3, <1>5, <1>6

LEMMA RecordFields ==
  ASSUME NEW m, m = [pc |-> m.pc, pin |-> m.pin, proofs |-> m.proofs], NEW a
  PROVE  /\ [m EXCEPT !.pc = a] = [pc |-> a, pin |-> m.pin, proofs |-> m.proofs]
         /\ [m EXCEPT !.pin = a] = [pc |-> m.pc, pin |-> a, proofs |-> m.proofs]
         /\ [m EXCEPT !.proofs = a] = [pc |-> m.pc, pin |-> m.pin, proofs |-> a]
OBVIOUS

LEMMA Advanced ==
  ASSUME Shapes, NEW s \in Sessions, NEW a, NEW f, f = [session EXCEPT ![s].pc = a]
  PROVE  f = [session EXCEPT ![s] = [pc |-> a, pin |-> session[s].pin,
                                     proofs |-> session[s].proofs]]
<1>1. PICK m : m = session[s]
  OBVIOUS
<1>2. m = [pc |-> m.pc, pin |-> m.pin, proofs |-> m.proofs] /\ s \in DOMAIN session
  BY <1>1 DEF Shapes
<1>3. [m EXCEPT !.pc = a] = [pc |-> a, pin |-> m.pin, proofs |-> m.proofs]
  BY <1>2
<1>4. QED
  BY <1>1, <1>3

LEMMA Advances ==
  ASSUME Shapes, NEW s \in Sessions, NEW a, session' = [session EXCEPT ![s].pc = a]
  PROVE  session' = [session EXCEPT ![s] = [pc |-> a, pin |-> session[s].pin,
                                            proofs |-> session[s].proofs]]
BY Advanced

LEMMA Repins ==
  ASSUME Shapes, NEW s \in Sessions, NEW a, NEW b,
         session' = [session EXCEPT ![s].pc = a, ![s].pin = b]
  PROVE  session' = [session EXCEPT ![s] = [pc |-> a, pin |-> b, proofs |-> session[s].proofs]]
<1>1. PICK f : f = [session EXCEPT ![s].pc = a]
  OBVIOUS
<1>2. session' = [f EXCEPT ![s].pin = b]
  BY <1>1
<1>3. PICK n : n = [pc |-> a, pin |-> session[s].pin, proofs |-> session[s].proofs]
  OBVIOUS
<1>4. n = [pc |-> n.pc, pin |-> n.pin, proofs |-> n.proofs]
      /\ n.pc = a /\ n.pin = session[s].pin /\ n.proofs = session[s].proofs
  BY <1>3
<1>5. f = [session EXCEPT ![s] = n]
  BY <1>1, <1>3, Advanced
<1>6. f[s] = n /\ s \in DOMAIN f
  BY <1>5 DEF Shapes
<1>7. [n EXCEPT !.pin = b] = [pc |-> a, pin |-> b, proofs |-> session[s].proofs]
  BY <1>4
<1>8. session' = [f EXCEPT ![s] = [n EXCEPT !.pin = b]]
  BY <1>2, <1>6
<1>9. \A x : [f EXCEPT ![s] = x] = [session EXCEPT ![s] = x]
  BY <1>5
<1>10. QED
  BY <1>7, <1>8, <1>9

(* One session moves.                                                      *)
Turn(s, pc, pin, proofs) ==
  session' = [session EXCEPT ![s] = [pc |-> pc, pin |-> pin, proofs |-> proofs]]

LEMMA Proves ==
  ASSUME Shapes, NEW s \in Sessions, NEW a, NEW b,
         session' = [session EXCEPT ![s].pc = a, ![s].proofs = b]
  PROVE  Turn(s, a, session[s].pin, b)
<1>1. PICK f : f = [session EXCEPT ![s].pc = a]
  OBVIOUS
<1>2. session' = [f EXCEPT ![s].proofs = b]
  BY <1>1
<1>3. PICK n : n = [pc |-> a, pin |-> session[s].pin, proofs |-> session[s].proofs]
  OBVIOUS
<1>4. n = [pc |-> n.pc, pin |-> n.pin, proofs |-> n.proofs]
      /\ n.pc = a /\ n.pin = session[s].pin /\ n.proofs = session[s].proofs
  BY <1>3
<1>5. f = [session EXCEPT ![s] = n]
  BY <1>1, <1>3, Advanced
<1>6. f[s] = n /\ s \in DOMAIN f
  BY <1>5 DEF Shapes
<1>7. [n EXCEPT !.proofs = b] = [pc |-> a, pin |-> session[s].pin, proofs |-> b]
  BY <1>4
<1>8. session' = [f EXCEPT ![s] = [n EXCEPT !.proofs = b]]
  BY <1>2, <1>6
<1>9. \A x : [f EXCEPT ![s] = x] = [session EXCEPT ![s] = x]
  BY <1>5
<1>10. session' = [session EXCEPT ![s] = [pc |-> a, pin |-> session[s].pin, proofs |-> b]]
  BY <1>7, <1>8, <1>9
<1>11. QED
  BY <1>10 DEF Turn

LEMMA TurnKeepsShapes ==
  ASSUME Shapes, NEW s \in Sessions, NEW pc, NEW pin, IsHistory(pin), NEW proofs,
         Turn(s, pc, pin, proofs), IsHistory(log'), IsHistory(sink'), IsHistory(writes'),
         issued' \in Nat
  PROVE  Shapes'
<1>1. session' = [session EXCEPT ![s] = [pc |-> pc, pin |-> pin, proofs |-> proofs]]
  BY DEF Turn
<1>2. /\ session' = [t \in Sessions |-> [pc |-> session'[t].pc, pin |-> session'[t].pin,
                                       proofs |-> session'[t].proofs]]
      /\ \A t \in Sessions : IsHistory(session'[t].pin)
  BY <1>1, SessionMoves
<1>3. QED
  BY <1>2 DEF Shapes

LEMMA TurnIs ==
  ASSUME Shapes, NEW s \in Sessions, NEW pc, NEW pin, IsHistory(pin), NEW proofs,
         Turn(s, pc, pin, proofs)
  PROVE  /\ session'[s].pc = pc /\ session'[s].pin = pin /\ session'[s].proofs = proofs
         /\ \A t \in Sessions : t # s => session'[t] = session[t]
<1>1. session' = [session EXCEPT ![s] = [pc |-> pc, pin |-> pin, proofs |-> proofs]]
  BY DEF Turn
<1>2. QED
  BY <1>1, SessionMoves

LEMMA TurnHolds ==
  ASSUME Shapes, NEW s \in Sessions, NEW pc, NEW pin, IsHistory(pin), NEW proofs,
         Turn(s, pc, pin, proofs), NEW N,
         \A e \in Range(log') : Held(e) \/ e \in N,
         \A e \in Range(sink') : Held(e) \/ e \in N,
         \A e \in Range(pin) : Held(e) \/ e \in N
  PROVE  \A e : Held(e)' => Held(e) \/ e \in N
<1>1. /\ session'[s].pin = pin
      /\ \A t \in Sessions : t # s => session'[t] = session[t]
  BY TurnIs
<1>2. \A t \in Sessions : \A e \in Range(session'[t].pin) : Held(e) \/ e \in N
  BY <1>1 DEF Held
<1>3. QED
  BY <1>2 DEF Held

(* Identifiers and observations, when nothing new is held, and when one    *)
(* event is.                                                               *)
LEMMA NothingNew ==
  ASSUME IInv, \A e : Held(e)' => Held(e), issued' = issued,
         \A t \in Sessions : session'[t].proofs \subseteq session[t].proofs,
         \A i \in DOMAIN writes : i \in DOMAIN writes' /\ writes'[i] = writes[i]
  PROVE  Identified' /\ Truthful'
<1>1. Identified'
  BY DEF IInv, Identified
<1>2. \A e : Told(e) => Told(e)'
  BY DEF Told, Written
<1>3. QED
  BY <1>1, <1>2 DEF IInv, Truthful

LEMMA OneNew ==
  ASSUME IInv, NEW e, \A f : Held(f)' => Held(f) \/ f = e,
         issued' \in Nat, issued <= issued', writes' = writes,
         \A t \in Sessions : session'[t].proofs = session[t].proofs,
         Making(e) => e.id = issued + 1 /\ issued' = issued + 1,
         e.op = "observe" => Told(e)
  PROVE  Identified' /\ Truthful'
<1>1. issued \in Nat
  BY DEF IInv, Shapes
<1>2. \A f : Held(f) /\ Making(f) => f.id \in Nat /\ f.id <= issued /\ f.id # issued + 1
  BY <1>1 DEF IInv, Identified
<1>3. \A f : Held(f)' /\ Making(f) => f.id \in Nat /\ f.id <= issued'
  BY <1>1, <1>2
<1>4. \A f, g : Held(f)' /\ Held(g)' /\ Making(f) /\ Making(g) /\ f.id = g.id => f.by = g.by
  BY <1>2 DEF IInv, Identified
<1>5. \A t \in Sessions : \A id \in session[t].proofs : id \in Nat /\ id <= issued /\ id # issued + 1
  BY <1>1 DEF IInv, Identified
<1>6. \A t \in Sessions : \A f : Held(f)' /\ Making(f) /\ f.id \in session'[t].proofs => f.by = t
  BY <1>5 DEF IInv, Identified
<1>7. \A t \in Sessions : \A id \in session'[t].proofs : id \in Nat /\ id <= issued'
  BY <1>1, <1>5
<1>8. Identified'
  BY <1>3, <1>4, <1>6, <1>7 DEF Identified, Making
<1>9. \A f : Told(f) => Told(f)'
  BY DEF Told, Written
<1>10. Truthful'
  BY <1>9 DEF IInv, Truthful
<1>11. QED
  BY <1>8, <1>10

(* What the other sessions have done stays.                                *)
LEMMA OthersKeep ==
  ASSUME IInv, NEW t \in Sessions, session'[t] = session[t],
         sink' = sink \/ Len(sink') > Len(sink), IsHistory(sink'),
         \/ writes' = writes
         \/ \E w : w.by # t /\ writes' = Append(writes, w)
  PROVE  CallOK(t)'
<1>1. /\ CallOK(t) /\ Len(sink) \in Nat /\ Len(sink') \in Nat
      /\ Len(session[t].pin) \in Nat /\ IsHistory(writes)
  BY HistoryIs DEF IInv, Calls, Shapes
<1>2. \A h : IsHistory(h) => Len(h) \in Nat
  BY HistoryIs
<1>3. /\ session'[t].pin = session[t].pin /\ session'[t].pc = session[t].pc
      /\ session'[t].proofs = session[t].proofs
  OBVIOUS
<1>4. Admits(t) => Admits(t)'
  <2>1. ASSUME Admits(t), session[t].pc = "keeping"
        PROVE  \E h : /\ IsHistory(h) /\ Delivers(h, Last(session[t].pin))
                      /\ Len(session[t].pin) = Len(h) + 1
                      /\ (sink' = h \/ Len(sink') >= Len(session[t].pin))
    BY <1>1, <1>2, <2>1 DEF Admits
  <2>2. QED
    BY <1>3, <2>1 DEF Admits
<1>5. session[t].pc = "ready" => sink' = session[t].pin \/ Len(sink') > Len(session[t].pin)
  BY <1>1 DEF CallOK
<1>6. ASSUME session[t].pc \in {"known", "unknown"}
      PROVE  \E i : Wrote(t, i)' /\ writes'[i].pin = session[t].pin
  <2>1. PICK i : Wrote(t, i) /\ writes[i].pin = session[t].pin
    BY <1>1, <1>6 DEF CallOK
  <2>2. CASE writes' = writes
    BY <2>1, <2>2 DEF Wrote
  <2>3. ASSUME NEW w, w.by # t, writes' = Append(writes, w)
        PROVE  Wrote(t, i)' /\ writes'[i].pin = session[t].pin
    <3>1. /\ Len(writes) \in Nat /\ DOMAIN writes = 1..Len(writes)
          /\ DOMAIN writes' = 1..Len(writes) + 1
          /\ \A j \in 1..Len(writes) : writes'[j] = writes[j]
          /\ writes'[Len(writes) + 1] = w
      BY <1>1, <2>3, AppendIs, HistoryIs
    <3>2. i \in 1..Len(writes) /\ writes[i].by = t
      BY <2>1, <3>1 DEF Wrote
    <3>3. \A j \in DOMAIN writes' : j \in DOMAIN writes \/ j = Len(writes) + 1
      BY <3>1
    <3>4. \A j \in DOMAIN writes' : writes'[j].by = t => j <= i
      BY <2>1, <2>3, <3>1, <3>3 DEF Wrote
    <3>5. QED
      BY <2>1, <3>1, <3>2, <3>4 DEF Wrote
  <2>4. QED
    BY <2>2, <2>3
<1>7. QED
  BY <1>1, <1>3, <1>4, <1>5, <1>6 DEF CallOK
-----------------------------------------------------------------------------
(* Steps that write no event and nothing to the writer.                    *)
LEMMA PinsAreHeld ==
  ASSUME NEW s \in Sessions
  PROVE  \A e \in Range(session[s].pin) : Held(e)
BY DEF Held

LEMMA QuietKeeps ==
  ASSUME IInv, NEW s \in Sessions, NEW pc, NEW pin,
         pin \in {<< >>, sink, log, session[s].pin},
         NEW proofs, proofs \subseteq session[s].proofs, Turn(s, pc, pin, proofs),
         sink' = sink \/ (sink' = session[s].pin /\ Len(sink') > Len(sink)),
         log' = log, writes' = writes, issued' = issued, CallOK(s)'
  PROVE  IInv'
<1>1. /\ Shapes /\ IsHistory(sink) /\ IsHistory(session[s].pin) /\ IsHistory(log)
      /\ IsHistory(writes) /\ issued \in Nat
  BY DEF IInv, Shapes
<1>2. IsHistory(pin) /\ IsHistory(sink')
  BY <1>1, NothingIs
<1>3. Shapes'
  BY <1>1, <1>2, TurnKeepsShapes
<1>4. /\ session'[s].proofs = proofs
      /\ \A t \in Sessions : t # s => session'[t] = session[t]
  BY <1>1, <1>2, TurnIs
<1>5. \A e : Held(e)' => Held(e)
  <2>1. PICK N : N = {}
    OBVIOUS
  <2>2. /\ \A e \in Range(log') : Held(e) \/ e \in N
        /\ \A e \in Range(sink') : Held(e) \/ e \in N
    BY PinsAreHeld DEF Held
  <2>3. \A e \in Range(pin) : Held(e) \/ e \in N
    BY PinsAreHeld, NothingIs DEF Held
  <2>4. \A e : Held(e)' => Held(e) \/ e \in N
    BY <1>1, <1>2, <2>2, <2>3, TurnHolds
  <2>5. QED
    BY <2>1, <2>4
<1>6. Identified' /\ Truthful'
  BY <1>4, <1>5, NothingNew
<1>7. \A t \in Sessions : CallOK(t)'
  <2>1. TAKE t \in Sessions
  <2>2. CASE t = s
    BY <2>2
  <2>3. CASE t # s
    BY <1>2, <1>4, <2>3, OthersKeep
  <2>4. QED
    BY <2>2, <2>3
<1>8. Calls' /\ RoutesAreFresh'
  BY <1>7 DEF IInv, Calls, RoutesAreFresh, Written
<1>9. QED
  BY <1>3, <1>6, <1>8 DEF IInv

LEMMA IdleCall ==
  ASSUME NEW s \in Sessions,
         session'[s].pc \notin {"keeping", "kept", "ready", "known", "unknown"}
  PROVE  CallOK(s)'
BY DEF CallOK

LEMMA BindKeeps ==
  ASSUME IInv, NEW s \in Sessions, Bind(s)
  PROVE  IInv'
<1>1. Shapes /\ IsHistory(sink)
  BY DEF IInv, Shapes
<1>2. Turn(s, "binding", sink, session[s].proofs)
  <2>1. session' = [session EXCEPT ![s].pc = "binding", ![s].pin = sink]
    BY DEF Bind
  <2>2. session' = [session EXCEPT ![s] = [pc |-> "binding", pin |-> sink,
                                           proofs |-> session[s].proofs]]
    BY <1>1, <2>1, Repins
  <2>3. QED
    BY <2>2 DEF Turn
<1>3. CallOK(s)'
  BY <1>1, <1>2, TurnIs, IdleCall
<1>4. log' = log /\ sink' = sink /\ writes' = writes /\ issued' = issued
  BY DEF Bind, database
<1>5. QED
  BY <1>2, <1>3, <1>4, QuietKeeps

LEMMA ReadKeeps ==
  ASSUME IInv, NEW s \in Sessions, Open(s) \/ Begin(s)
  PROVE  IInv'
<1>1. Shapes /\ IsHistory(log)
  BY DEF IInv, Shapes
<1>2. PICK to \in {"opening", "beginning"} : session' = [session EXCEPT ![s].pc = to, ![s].pin = log]
  BY DEF Open, Begin, Read
<1>3. Turn(s, to, log, session[s].proofs)
  <2>1. session' = [session EXCEPT ![s] = [pc |-> to, pin |-> log, proofs |-> session[s].proofs]]
    BY <1>1, <1>2, Repins
  <2>2. QED
    BY <2>1 DEF Turn
<1>4. CallOK(s)'
  BY <1>1, <1>2, <1>3, TurnIs, IdleCall
<1>5. log' = log /\ sink' = sink /\ writes' = writes /\ issued' = issued
  BY DEF Open, Begin, Read, database
<1>6. QED
  BY <1>3, <1>4, <1>5, QuietKeeps

LEMMA RetainKeeps ==
  ASSUME IInv, NEW s \in Sessions, NEW from, NEW to, Retain(s, from, to),
         \/ to = "idle" \/ to = "ready"
         \/ from = "keeping" /\ to = "kept"
  PROVE  IInv'
<1>1. /\ Shapes /\ IsHistory(session[s].pin) /\ IsHistory(sink)
      /\ Len(session[s].pin) \in Nat /\ Len(sink) \in Nat
  BY HistoryIs DEF IInv, Shapes
<1>2. /\ session[s].pc = from /\ session' = [session EXCEPT ![s].pc = to]
      /\ Len(session[s].pin) > Len(sink) \/ session[s].pin = sink
      /\ sink' = session[s].pin
      /\ log' = log /\ writes' = writes /\ issued' = issued
  BY DEF Retain, Retainable, Go, database
<1>3. Turn(s, to, session[s].pin, session[s].proofs)
  BY <1>1, <1>2, Advances DEF Turn
<1>4. session'[s].pc = to /\ session'[s].pin = session[s].pin /\ session'[s].proofs = session[s].proofs
  BY <1>1, <1>3, TurnIs
<1>5. CallOK(s)'
  <2>1. CASE to = "idle"
    BY <1>4, <2>1, IdleCall
  <2>2. CASE to = "ready"
    BY <1>2, <1>4, <2>2 DEF CallOK
  <2>3. CASE from = "keeping" /\ to = "kept"
    <3>1. CallOK(s) /\ session[s].pc = "keeping"
      BY <1>2, <2>3 DEF IInv, Calls
    <3>2. Admits(s) => Admits(s)'
      BY <1>4, <2>3 DEF Admits
    <3>3. QED
      BY <1>4, <2>3, <3>1, <3>2 DEF CallOK
  <2>4. QED
    BY <2>1, <2>2, <2>3
<1>6. sink' = sink \/ (sink' = session[s].pin /\ Len(sink') > Len(sink))
  BY <1>2
<1>7. QED
  BY <1>2, <1>3, <1>5, <1>6, QuietKeeps

LEMMA DeadIs ==
  /\ Dead = [pc |-> "dead", pin |-> << >>, proofs |-> {}]
  /\ Dead.pc = "dead" /\ Dead.pin = << >> /\ Dead.proofs = {}
<1>1. PICK m : m = NewSession
  OBVIOUS
<1>2. m.pin = << >> /\ m.proofs = {} /\ m = [pc |-> m.pc, pin |-> m.pin, proofs |-> m.proofs]
  BY <1>1 DEF NewSession
<1>3. [m EXCEPT !.pc = "dead"] = [pc |-> "dead", pin |-> << >>, proofs |-> {}]
  BY <1>2, RecordFields
<1>4. Dead = [pc |-> "dead", pin |-> << >>, proofs |-> {}]
  BY <1>1, <1>3 DEF Dead
<1>5. QED
  BY <1>4

LEMMA RefuseKeeps ==
  ASSUME IInv, NEW s \in Sessions, Refuse(s)
  PROVE  IInv'
<1>1. Shapes /\ IsHistory(session[s].pin)
  BY DEF IInv, Shapes
<1>2. log' = log /\ sink' = sink /\ writes' = writes /\ issued' = issued
  BY DEF Refuse, database
<1>3. CASE session' = [session EXCEPT ![s] = Dead]
  <2>1. Turn(s, "dead", << >>, {})
    BY <1>3, DeadIs DEF Turn
  <2>2. CallOK(s)'
    <3>1. IsHistory(<< >>)
      BY NothingIs
    <3>2. session'[s].pc = "dead"
      BY <1>1, <2>1, <3>1, TurnIs
    <3>3. QED
      BY <3>2, IdleCall
  <2>3. {} \subseteq session[s].proofs /\ << >> \in {<< >>, sink, log, session[s].pin}
    OBVIOUS
  <2>4. QED
    BY <1>2, <2>1, <2>2, <2>3, QuietKeeps
<1>4. CASE session' = [session EXCEPT ![s].pc = "idle"]
  <2>1. Turn(s, "idle", session[s].pin, session[s].proofs)
    BY <1>1, <1>4, Advances DEF Turn
  <2>2. CallOK(s)'
    BY <1>1, <2>1, TurnIs, IdleCall
  <2>3. QED
    BY <1>2, <2>1, <2>2, QuietKeeps
<1>5. QED
  BY <1>3, <1>4 DEF Refuse, Go

(* Time, crashes, restores.                                                *)
LEMMA SurroundingsKeep ==
  ASSUME IInv, IsHistory(log'), Range(log') \subseteq Range(log),
         session' = [s \in Sessions |-> session'[s]],
         \A s \in Sessions : session'[s] = session[s] \/ session'[s] = Dead,
         sink' = sink, writes' = writes, issued' = issued
  PROVE  IInv'
<1>1. Dead = [pc |-> "dead", pin |-> << >>, proofs |-> {}]
  BY DeadIs
<1>2. Dead.pc = "dead" /\ Dead.pin = << >> /\ Dead.proofs = {}
  BY DeadIs
<1>3. Shapes'
  <2>1. /\ session = [s \in Sessions |-> [pc |-> session[s].pc, pin |-> session[s].pin,
                                        proofs |-> session[s].proofs]]
        /\ \A s \in Sessions : IsHistory(session[s].pin)
    BY DEF IInv, Shapes
  <2>2. \A s \in Sessions :
          /\ session'[s] = [pc |-> session'[s].pc, pin |-> session'[s].pin,
                            proofs |-> session'[s].proofs]
          /\ IsHistory(session'[s].pin)
    <3>1. TAKE s \in Sessions
    <3>2. CASE session'[s] = session[s]
      BY <2>1, <3>2
    <3>3. CASE session'[s] = Dead
      BY <1>1, <1>2, <3>3, NothingIs
    <3>4. QED
      BY <3>2, <3>3
  <2>3. QED
    BY <2>2 DEF IInv, Shapes
<1>4. \A e : Held(e)' => Held(e)
  <2>1. \A s \in Sessions : \A e \in Range(session'[s].pin) : Held(e)
    BY <1>2, NothingIs DEF Held
  <2>2. QED
    BY <2>1 DEF Held
<1>5. \A t \in Sessions : session'[t].proofs \subseteq session[t].proofs
  BY <1>2
<1>6. Identified' /\ Truthful'
  BY <1>4, <1>5, NothingNew
<1>7. \A t \in Sessions : CallOK(t)'
  <2>1. TAKE t \in Sessions
  <2>2. CASE session'[t] = session[t]
    BY <2>2, OthersKeep DEF IInv, Shapes
  <2>3. CASE session'[t] = Dead
    BY <1>2, <2>3, IdleCall
  <2>4. QED
    BY <2>2, <2>3
<1>8. Calls' /\ RoutesAreFresh'
  BY <1>7 DEF IInv, Calls, RoutesAreFresh, Written
<1>9. QED
  BY <1>3, <1>6, <1>8 DEF IInv

LEMMA CrashKeeps ==
  ASSUME IInv, NEW p, Crash(p)
  PROVE  IInv'
<1>1. /\ session' = [s \in Sessions |->
             IF ProcessOf[s] = p /\ session[s].pc # "new" THEN Dead ELSE session[s]]
      /\ log' = log /\ sink' = sink /\ writes' = writes /\ issued' = issued
  BY DEF Crash, database
<1>2. /\ session' = [s \in Sessions |-> session'[s]]
      /\ \A s \in Sessions : session'[s] = session[s] \/ session'[s] = Dead
  BY <1>1
<1>3. QED
  BY <1>1, <1>2, SurroundingsKeep DEF IInv, Shapes

LEMMA SessionsStay ==
  ASSUME IInv, session' = session
  PROVE  /\ session' = [s \in Sessions |-> session'[s]]
         /\ \A s \in Sessions : session'[s] = session[s] \/ session'[s] = Dead
BY DEF IInv, Shapes

LEMMA RestoreKeeps ==
  ASSUME IInv, NEW n \in Nat, Restore(n)
  PROVE  IInv'
<1>1. /\ n < Len(log) /\ log' = SubSeq(log, 1, n) /\ session' = session
      /\ sink' = sink /\ writes' = writes /\ issued' = issued
  BY DEF Restore
<1>2. IsHistory(log) /\ Len(log) \in Nat
  BY HistoryIs DEF IInv, Shapes
<1>3. IsHistory(log') /\ Range(log') \subseteq Range(log)
  BY <1>1, <1>2, CutIs
<1>4. QED
  BY <1>1, <1>3, SessionsStay, SurroundingsKeep

LEMMA TickKeeps ==
  ASSUME IInv, UNCHANGED <<database, sink, session, writes>>
  PROVE  IInv'
<1>1. log' = log /\ session' = session /\ sink' = sink /\ writes' = writes /\ issued' = issued
  BY DEF database
<1>2. QED
  BY <1>1, SessionsStay, SurroundingsKeep DEF IInv, Shapes
-----------------------------------------------------------------------------
(* Transactions: one event is appended.                                    *)
LEMMA RecordedIs ==
  ASSUME NEW h, IsHistory(h), NEW op
  PROVE  \A e : e \in Recorded(h, op) <=> e \in Range(h) /\ e.op = op
BY DEF Recorded, Range

LEMMA RecordedAppend ==
  ASSUME NEW h, IsHistory(h), NEW e, NEW op, e.op # op
  PROVE  Recorded(Append(h, e), op) = Recorded(h, op)
<1>1. IsHistory(Append(h, e)) /\ Range(Append(h, e)) = Range(h) \cup {e}
  BY AppendIs
<1>2. \A f : f \in Recorded(Append(h, e), op) <=> f \in Range(Append(h, e)) /\ f.op = op
  BY <1>1, RecordedIs
<1>3. \A f : f \in Recorded(h, op) <=> f \in Range(h) /\ f.op = op
  BY RecordedIs
<1>4. QED
  BY <1>1, <1>2, <1>3

(* The events that switch a route.                                         *)
Switches(h, id) == {i \in DOMAIN h : h[i].op \in DOMAIN Switching /\ h[i].id = id}

LEMMA RouteStateIs ==
  ASSUME NEW h, NEW id
  PROVE  RouteState(h, id) = IF Switches(h, id) = {} THEN "active"
                             ELSE Switching[h[Max(Switches(h, id))].op]
BY DEF RouteState, Switches

LEMMA RouteStateAppend ==
  ASSUME NEW h, IsHistory(h), NEW e, e.op \notin DOMAIN Switching, NEW id
  PROVE  RouteState(Append(h, e), id) = RouteState(h, id)
<1>1. PICK g : g = Append(h, e)
  OBVIOUS
<1>2. /\ IsHistory(g) /\ Len(g) = Len(h) + 1 /\ Len(h) \in Nat
      /\ \A i \in 1..Len(h) : g[i] = h[i]
      /\ g[Len(h) + 1] = e /\ DOMAIN g = 1..Len(g) /\ DOMAIN h = 1..Len(h)
  BY <1>1, AppendIs, HistoryIs
<1>3. Switches(g, id) = Switches(h, id)
  <2>1. \A i \in DOMAIN g : i \in DOMAIN h \/ i = Len(h) + 1
    BY <1>2
  <2>2. \A i \in DOMAIN h : i \in DOMAIN g
    BY <1>2
  <2>3. \A i \in DOMAIN h : g[i] = h[i]
    BY <1>2
  <2>4. QED
    BY <1>2, <2>1, <2>2, <2>3 DEF Switches
<1>4. CASE Switches(h, id) = {}
  BY <1>1, <1>3, <1>4, RouteStateIs
<1>5. CASE Switches(h, id) # {}
  <2>1. Switches(h, id) \in SUBSET (1..Len(h))
    BY <1>2 DEF Switches
  <2>2. Max(Switches(h, id)) \in 1..Len(h)
    BY <1>2, <1>5, <2>1, NewestIs
  <2>3. g[Max(Switches(h, id))] = h[Max(Switches(h, id))]
    BY <1>2, <2>2
  <2>4. QED
    BY <1>1, <1>3, <1>5, <2>3, RouteStateIs
<1>6. QED
  BY <1>4, <1>5

LEMMA AdmissionDelivers ==
  ASSUME NEW h, IsHistory(h), NEW c, c.op = "admit", Delivers(h, c)
  PROVE  /\ Delivers(Append(h, c), c)
         /\ Grant(Append(h, c), c.grant) = Grant(h, c.grant)
<1>1. /\ Recorded(Append(h, c), "grant") = Recorded(h, "grant")
      /\ Recorded(Append(h, c), "activate") = Recorded(h, "activate")
      /\ Recorded(Append(h, c), "revoke_grant") = Recorded(h, "revoke_grant")
  BY RecordedAppend
<1>2. c.op \notin DOMAIN Switching
  BY DEF Switching
<1>3. \A id : RouteState(Append(h, c), id) = RouteState(h, id)
  BY <1>2, RouteStateAppend
<1>4. /\ \A id : Known(Append(h, c), "grant", id) <=> Known(h, "grant", id)
      /\ \A id : Known(Append(h, c), "activate", id) <=> Known(h, "activate", id)
      /\ \A id : GrantRevoked(Append(h, c), id) <=> GrantRevoked(h, id)
  BY <1>1 DEF Known, GrantRevoked
<1>5. Grant(Append(h, c), c.grant) = Grant(h, c.grant)
  BY <1>1 DEF Grant
<1>6. QED
  BY <1>3, <1>4, <1>5 DEF Delivers

LEMMA KeepingIs ==
  ASSUME Shapes, NEW s \in Sessions, NEW pin, IsHistory(pin),
         Turn(s, "keeping", pin, session[s].proofs)
  PROVE  /\ session'[s].pc = "keeping" /\ session'[s].pin = pin
         /\ session'[s].proofs = session[s].proofs
         /\ \A t \in Sessions : t # s => session'[t] = session[t]
<1>1. PICK proofs : proofs = session[s].proofs
  OBVIOUS
<1>2. Turn(s, "keeping", pin, proofs)
  BY <1>1
<1>3. QED
  BY <1>1, <1>2, TurnIs

LEMMA AppendKeeps ==
  ASSUME IInv, NEW s \in Sessions, NEW e, log' = Append(log, e),
         NEW pin, pin = log', Turn(s, "keeping", pin, session[s].proofs),
         sink' = sink, writes' = writes, issued' \in Nat, issued <= issued',
         Making(e) => e.id = issued + 1 /\ issued' = issued + 1 /\ e.by = s,
         e.op = "observe" => Told(e),
         e.op = "admit" =>
           /\ Delivers(log, e) /\ e.grant \in session[s].proofs
           /\ Grant(log, e.grant).route \in session[s].proofs
           /\ sink = log \/ Len(sink) > Len(log)
  PROVE  IInv'
<1>1. /\ Shapes /\ IsHistory(log) /\ IsHistory(sink) /\ IsHistory(writes)
      /\ Len(log) \in Nat /\ Len(sink) \in Nat
  BY HistoryIs DEF IInv, Shapes
<1>2. /\ IsHistory(log') /\ Range(log') = Range(log) \cup {e}
      /\ Len(log') = Len(log) + 1 /\ Last(log') = e
  BY <1>1, AppendIs
<1>3. Shapes'
  BY <1>1, <1>2, TurnKeepsShapes
<1>4. /\ session'[s].pc = "keeping" /\ session'[s].pin = log'
      /\ session'[s].proofs = session[s].proofs
      /\ \A t \in Sessions : t # s => session'[t] = session[t]
  BY <1>1, <1>2, KeepingIs
<1>5. \A f : Held(f)' => Held(f) \/ f = e
  <2>1. PICK N : N = {e}
    OBVIOUS
  <2>2. /\ \A f \in Range(log') : Held(f) \/ f \in N
        /\ \A f \in Range(sink') : Held(f) \/ f \in N
    BY <1>2, <2>1 DEF Held
  <2>3. \A f : Held(f)' => Held(f) \/ f \in N
    BY <1>1, <1>2, <2>2, TurnHolds
  <2>4. QED
    BY <2>1, <2>3
<1>6. \A t \in Sessions : session'[t].proofs = session[t].proofs
  BY <1>4
<1>7. Identified' /\ Truthful'
  BY <1>5, <1>6, OneNew
<1>8. e.op = "admit" => Admits(s)'
  <2>1. SUFFICES ASSUME e.op = "admit" PROVE Admits(s)'
    OBVIOUS
  <2>2. Delivers(log', e) /\ Grant(log', e.grant) = Grant(log, e.grant)
    BY <1>1, <2>1, AdmissionDelivers
  <2>3. \E h : /\ IsHistory(h) /\ Delivers(h, e) /\ Len(log') = Len(h) + 1
               /\ (sink' = h \/ Len(sink') >= Len(log'))
    <3>1. sink = log \/ Len(sink) >= Len(log) + 1
      BY <1>1, <2>1
    <3>2. QED
      BY <1>1, <1>2, <2>1, <3>1
  <2>4. QED
    BY <1>2, <1>4, <2>1, <2>2, <2>3 DEF Admits
<1>9. CallOK(s)'
  <2>1. Len(log') > 0
    BY <1>1, <1>2
  <2>2. QED
    BY <1>2, <1>4, <1>8, <2>1 DEF CallOK
<1>10. \A t \in Sessions : CallOK(t)'
  <2>1. TAKE t \in Sessions
  <2>2. CASE t = s
    BY <1>9, <2>2
  <2>3. CASE t # s
    BY <1>1, <1>4, <2>3, OthersKeep
  <2>4. QED
    BY <2>2, <2>3
<1>11. Calls' /\ RoutesAreFresh'
  BY <1>10 DEF IInv, Calls, RoutesAreFresh, Written
<1>12. QED
  BY <1>3, <1>7, <1>11 DEF IInv

LEMMA TransactionKeeps ==
  ASSUME IInv, NEW s \in Sessions, NEW e, NEW deadlines, NEW final,
         Transaction(s, log, e, deadlines, final), issued' \in Nat, issued <= issued',
         Making(e) => e.id = issued + 1 /\ issued' = issued + 1 /\ e.by = s,
         e.op = "observe" => Told(e),
         e.op = "admit" =>
           /\ Delivers(log, e) /\ e.grant \in session[s].proofs
           /\ Grant(log, e.grant).route \in session[s].proofs
           /\ sink = log \/ Len(sink) > Len(log)
  PROVE  IInv'
<1>1. PICK pin : pin = log'
  OBVIOUS
<1>2. /\ log' = Append(log, e) /\ sink' = sink /\ writes' = writes
      /\ session' = [session EXCEPT ![s].pc = "keeping", ![s].pin = pin]
  BY <1>1 DEF Transaction
<1>3. session' = [session EXCEPT ![s] = [pc |-> "keeping", pin |-> pin,
                                         proofs |-> session[s].proofs]]
  <2>1. Shapes
    BY DEF IInv
  <2>2. QED
    BY <1>2, <2>1, Repins
<1>4. Turn(s, "keeping", pin, session[s].proofs)
  BY <1>3 DEF Turn
<1>5. QED
  BY <1>1, <1>2, <1>4, AppendKeeps

LEMMA CurrentIs ==
  ASSUME IInv, NEW s \in Sessions, Current(s)
  PROVE  /\ issued \in Nat /\ session[s].pin = log
         /\ sink = log \/ Len(sink) > Len(log)
BY DEF IInv, Shapes, Calls, CallOK, Current

LEMMA ActivateKeeps ==
  ASSUME IInv, NEW s \in Sessions, NEW seconds, NEW final, Activate(s, seconds, final)
  PROVE  IInv'
<1>1. PICK e : e = [op |-> "activate", id |-> issued + 1, by |-> s, until |-> time + seconds]
  OBVIOUS
<1>2. e.op = "activate" /\ e.id = issued + 1 /\ e.by = s
  BY <1>1
<1>3. Transaction(s, log, e, {time + seconds}, final) /\ issued' = issued + 1 /\ Current(s)
  BY <1>1 DEF Activate
<1>4. issued \in Nat
  BY <1>3, CurrentIs
<1>5. QED
  BY <1>2, <1>3, <1>4, TransactionKeeps

LEMMA GrantRouteKeeps ==
  ASSUME IInv, NEW s \in Sessions, NEW route, NEW seconds, NEW final,
         GrantRoute(s, route, seconds, final)
  PROVE  IInv'
<1>1. PICK until, end :
        /\ Transaction(s, log, [op |-> "grant", id |-> issued + 1, route |-> route,
                                by |-> s, until |-> until], {until, end}, final)
        /\ issued' = issued + 1 /\ Current(s)
  BY DEF GrantRoute
<1>2. PICK e : e = [op |-> "grant", id |-> issued + 1, route |-> route, by |-> s,
                    until |-> until]
  OBVIOUS
<1>3. e.op = "grant" /\ e.id = issued + 1 /\ e.by = s
  BY <1>2
<1>4. Transaction(s, log, e, {until, end}, final) /\ issued' = issued + 1
  BY <1>1, <1>2
<1>5. issued \in Nat
  BY <1>1, CurrentIs
<1>6. QED
  BY <1>3, <1>4, <1>5, TransactionKeeps

LEMMA SwitchKeeps ==
  ASSUME IInv, NEW s \in Sessions, NEW op \in Management \ {"revoke_grant"}, NEW route,
         NEW final, Switch(s, op, route, final)
  PROVE  IInv'
<1>1. PICK deadlines :
        Transaction(s, log, [op |-> op, id |-> route], deadlines, final)
  BY DEF Switch
<1>2. issued' = issued /\ Current(s)
  BY DEF Switch
<1>3. PICK e : e = [op |-> op, id |-> route]
  OBVIOUS
<1>4. e.op = op /\ op \in {"suspend", "resume", "revoke"}
  BY <1>3, DeliveryAssumption DEF DeliveryAssumption
<1>5. e.op \notin {"activate", "grant", "observe", "admit"}
  BY <1>4
<1>6. issued \in Nat
  BY <1>2, CurrentIs
<1>7. Transaction(s, log, e, deadlines, final)
  BY <1>1, <1>3
<1>8. QED
  BY <1>2, <1>5, <1>6, <1>7, TransactionKeeps DEF Making

LEMMA RevokeGrantKeeps ==
  ASSUME IInv, NEW s \in Sessions, NEW g, NEW final, RevokeGrant(s, g, final)
  PROVE  IInv'
<1>1. PICK e : e = [op |-> "revoke_grant", id |-> g]
  OBVIOUS
<1>2. e.op = "revoke_grant"
  BY <1>1
<1>3. Transaction(s, log, e, {}, final) /\ issued' = issued /\ Current(s)
  BY <1>1 DEF RevokeGrant
<1>4. issued \in Nat
  BY <1>3, CurrentIs
<1>5. QED
  BY <1>2, <1>3, <1>4, TransactionKeeps DEF Making

LEMMA AdmitKeeps ==
  ASSUME IInv, NEW s \in Sessions, NEW g, NEW r, NEW offset, NEW length, NEW final,
         Admit(s, g, r, offset, length, final)
  PROVE  IInv'
<1>1. PICK deadlines :
        Transaction(s, log, [op |-> "admit", grant |-> g, request |-> r,
                             offset |-> offset, length |-> length], deadlines, final)
  BY DEF Admit
<1>2. /\ Current(s) /\ issued' = issued
      /\ Known(log, "grant", g) /\ ~GrantRevoked(log, g)
      /\ RouteCurrent(Grant(log, g).route)
      /\ g \in session[s].proofs /\ Grant(log, g).route \in session[s].proofs
  BY DEF Admit, Proven
<1>3. PICK e : e = [op |-> "admit", grant |-> g, request |-> r, offset |-> offset,
                    length |-> length]
  OBVIOUS
<1>4. e.op = "admit" /\ e.grant = g
  BY <1>3
<1>5. Delivers(log, e)
  BY <1>2, <1>4 DEF Delivers, RouteCurrent
<1>6. issued \in Nat /\ (sink = log \/ Len(sink) > Len(log))
  BY <1>2, CurrentIs
<1>7. Transaction(s, log, e, deadlines, final)
  BY <1>1, <1>3
<1>8. /\ ~Making(e) /\ e.op # "observe"
      /\ e.grant \in session[s].proofs /\ Grant(log, e.grant).route \in session[s].proofs
  BY <1>2, <1>4 DEF Making
<1>9. QED
  BY <1>2, <1>5, <1>6, <1>7, <1>8, TransactionKeeps

LEMMA ObserveKeeps ==
  ASSUME IInv, NEW s \in Sessions, NEW final, Observe(s, final)
  PROVE  IInv'
<1>1. /\ session[s].pc \in {"known", "unknown"} /\ issued' = issued
      /\ Transaction(s, log, [op |-> "observe", request |-> Last(session[s].pin).request,
                              extent |-> Extent(s)], {}, final)
  BY DEF Observe
<1>2. PICK e : e = [op |-> "observe", request |-> Last(session[s].pin).request,
                    extent |-> Extent(s)]
  OBVIOUS
<1>3. e.op = "observe" /\ e.request = Last(session[s].pin).request /\ e.extent = Extent(s)
  BY <1>2
<1>4. PICK i : Wrote(s, i) /\ writes[i].pin = session[s].pin
  BY <1>1 DEF IInv, Calls, CallOK
<1>5. Extent(s) # Unknown => Extent(s) = writes[i].bytes
  <2>1. SUFFICES ASSUME session[s].pc = "known" PROVE Extent(s) = writes[i].bytes
    BY DEF Extent
  <2>2. PICK S : S = {j \in DOMAIN writes : writes[j].by = s}
    OBVIOUS
  <2>3. DOMAIN writes = 1..Len(writes) /\ Len(writes) \in Nat
    BY HistoryIs DEF IInv, Shapes
  <2>4. S \in SUBSET (1..Len(writes)) /\ i \in S
    BY <1>4, <2>2, <2>3 DEF Wrote
  <2>5. Max(S) \in S /\ i <= Max(S)
    BY <2>3, <2>4, NewestIs
  <2>6. Max(S) <= i
    BY <1>4, <2>2, <2>5 DEF Wrote
  <2>7. Max(S) = i
    <3>1. S \subseteq Nat
      BY <2>3, <2>4
    <3>2. PICK m \in Nat : m = Max(S)
      BY <2>5, <3>1
    <3>3. QED
      BY <2>4, <2>5, <2>6, <3>1, <3>2
  <2>8. QED
    BY <2>1, <2>2, <2>7 DEF Extent
<1>6. Told(e)
  BY <1>3, <1>4, <1>5 DEF Told, Written, Wrote
<1>7. Transaction(s, log, e, {}, final) /\ issued \in Nat
  BY <1>1, <1>2 DEF IInv, Shapes
<1>8. ~Making(e) /\ e.op # "admit"
  BY <1>3 DEF Making
<1>9. QED
  BY <1>1, <1>6, <1>7, <1>8, TransactionKeeps
-----------------------------------------------------------------------------
(* What a finished transaction gives, and what is written.                 *)
LEMMA LastIsHeld ==
  ASSUME IInv, NEW s \in Sessions, Len(session[s].pin) > 0
  PROVE  Held(Last(session[s].pin))
<1>1. IsHistory(session[s].pin)
  BY DEF IInv, Shapes
<1>2. Last(session[s].pin) = session[s].pin[Len(session[s].pin)]
  BY DEF Last
<1>3. Last(session[s].pin) \in Range(session[s].pin)
  BY <1>1, <1>2, HistoryIs
<1>4. QED
  BY <1>3, PinsAreHeld

LEMMA FinishKeeps ==
  ASSUME IInv, NEW s \in Sessions, Finish(s)
  PROVE  IInv'
<1>1. PICK e : e = Last(session[s].pin)
  OBVIOUS
<1>2. PICK mine : mine = IF e.op \in {"activate", "grant"}
                             THEN session[s].proofs \cup {e.id} ELSE session[s].proofs
  OBVIOUS
<1>3. /\ session[s].pc = "kept"
      /\ session' = [session EXCEPT ![s].pc = "idle", ![s].proofs = mine]
      /\ log' = log /\ issued' = issued /\ sink' = sink /\ writes' = writes
  BY <1>1, <1>2 DEF Finish, database
<1>4. /\ Shapes /\ IsHistory(session[s].pin) /\ IsHistory(log) /\ IsHistory(sink)
      /\ IsHistory(writes) /\ issued \in Nat
  BY DEF IInv, Shapes
<1>5. Shapes /\ session' = [session EXCEPT ![s].pc = "idle", ![s].proofs = mine]
  BY <1>3, <1>4
<1>6. Turn(s, "idle", session[s].pin, mine)
  BY <1>5, Proves
<1>7. Shapes'
  BY <1>3, <1>4, <1>6, TurnKeepsShapes
<1>8. /\ session'[s].pc = "idle" /\ session'[s].pin = session[s].pin
      /\ session'[s].proofs = mine
      /\ \A t \in Sessions : t # s => session'[t] = session[t]
  BY <1>4, <1>6, TurnIs
<1>9. Held(e) /\ (Making(e) => e.by = s)
  BY <1>1, <1>3, LastIsHeld DEF IInv, Calls, CallOK
<1>10. \A f : Held(f)' => Held(f)
  <2>1. \A t \in Sessions : session'[t].pin = session[t].pin
    BY <1>8
  <2>2. QED
    BY <1>3, <2>1 DEF Held
<1>11. /\ \A id \in mine : id \in session[s].proofs \/ (Making(e) /\ id = e.id)
       /\ \A t \in Sessions : t # s => session'[t].proofs = session[t].proofs
  BY <1>2, <1>8 DEF Making
<1>12. \A f : Held(f) /\ Making(f) /\ f.id \in mine => f.by = s
  BY <1>9, <1>11 DEF IInv, Identified
<1>13. \A t \in Sessions : \A f : Held(f)' /\ Making(f) /\ f.id \in session'[t].proofs
                                   => f.by = t
  <2>1. TAKE t \in Sessions
  <2>2. CASE t = s
    BY <1>8, <1>10, <1>12, <2>2
  <2>3. CASE t # s
    BY <1>10, <1>11, <2>3 DEF IInv, Identified
  <2>4. QED
    BY <2>2, <2>3
<1>14. \A t \in Sessions : \A id \in session'[t].proofs : id \in Nat /\ id <= issued
  BY <1>8, <1>9, <1>11 DEF IInv, Identified
<1>15. Identified'
  <2>1. /\ \A f : Held(f)' /\ Making(f) => f.id \in Nat /\ f.id <= issued
        /\ \A f, g : Held(f)' /\ Held(g)' /\ Making(f) /\ Making(g) /\ f.id = g.id => f.by = g.by
    BY <1>10 DEF IInv, Identified
  <2>2. QED
    BY <1>3, <1>13, <1>14, <2>1 DEF Identified
<1>16. Truthful'
  <2>1. \A f : Told(f) => Told(f)'
    BY <1>3 DEF Told, Written
  <2>2. QED
    BY <1>10, <2>1 DEF IInv, Truthful
<1>17. \A t \in Sessions : CallOK(t)'
  <2>1. TAKE t \in Sessions
  <2>2. CASE t = s
    BY <1>8, <2>2, IdleCall
  <2>3. CASE t # s
    BY <1>3, <1>4, <1>8, <2>3, OthersKeep
  <2>4. QED
    BY <2>2, <2>3
<1>18. Calls' /\ RoutesAreFresh'
  BY <1>3, <1>17 DEF IInv, Calls, RoutesAreFresh, Written
<1>19. QED
  BY <1>7, <1>15, <1>16, <1>18 DEF IInv

(* The records that a proof names are those of the session itself.         *)
LEMMA OwnRecord ==
  ASSUME IInv, NEW s \in Sessions, NEW op \in {"activate", "grant"}, NEW id,
         id \in session[s].proofs, Known(session[s].pin, op, id)
  PROVE  (CHOOSE e \in Recorded(session[s].pin, op) : e.id = id).by = s
<1>1. PICK e : e = CHOOSE f \in Recorded(session[s].pin, op) : f.id = id
  OBVIOUS
<1>2. e \in Recorded(session[s].pin, op) /\ e.id = id
  BY <1>1 DEF Known
<1>3. IsHistory(session[s].pin)
  BY DEF IInv, Shapes
<1>4. e \in Range(session[s].pin) /\ e.op = op
  BY <1>2, <1>3, RecordedIs
<1>5. Held(e) /\ Making(e)
  BY <1>4, PinsAreHeld DEF Making
<1>6. e.by = s
  BY <1>2, <1>5 DEF IInv, Identified
<1>7. QED
  BY <1>1, <1>6

LEMMA WriteKeeps ==
  ASSUME IInv, NEW s \in Sessions, NEW bytes, Write(s, bytes)
  PROVE  IInv'
<1>1. PICK w : w = [pin |-> session[s].pin, by |-> s, at |-> time, bytes |-> bytes]
  OBVIOUS
<1>2. w.pin = session[s].pin /\ w.by = s /\ w.at = time /\ w.bytes = bytes
  BY <1>1
<1>3. PICK said \in {"known", "unknown"} : session' = [session EXCEPT ![s].pc = said]
  BY DEF Write, Outcomes, Go
<1>4. PICK c : c = Last(session[s].pin)
  OBVIOUS
<1>5. /\ session[s].pc = "kept" /\ c.op = "admit"
      /\ time < Grant(session[s].pin, c.grant).until
      /\ time < Activation(session[s].pin, Grant(session[s].pin, c.grant).route).until
      /\ writes' = Append(writes, w)
      /\ log' = log /\ issued' = issued /\ sink' = sink
  BY <1>1, <1>4 DEF Write, database
<1>6. /\ Shapes /\ IsHistory(session[s].pin) /\ IsHistory(log) /\ IsHistory(sink)
      /\ IsHistory(writes) /\ issued \in Nat
  BY DEF IInv, Shapes
<1>7. session' = [session EXCEPT ![s] = [pc |-> said, pin |-> session[s].pin,
                                         proofs |-> session[s].proofs]]
  BY <1>3, <1>6, Advances
<1>8. Turn(s, said, session[s].pin, session[s].proofs)
  BY <1>7 DEF Turn
<1>9. /\ IsHistory(writes') /\ Len(writes) \in Nat /\ DOMAIN writes = 1..Len(writes)
      /\ DOMAIN writes' = 1..Len(writes) + 1
      /\ \A j \in 1..Len(writes) : writes'[j] = writes[j]
      /\ writes'[Len(writes) + 1] = w
  BY <1>5, <1>6, AppendIs, HistoryIs
<1>10. Shapes'
  BY <1>5, <1>6, <1>8, <1>9, TurnKeepsShapes
<1>11. /\ session'[s].pc = said /\ session'[s].pin = session[s].pin
       /\ session'[s].proofs = session[s].proofs
       /\ \A t \in Sessions : t # s => session'[t] = session[t]
  BY <1>6, <1>8, TurnIs
<1>12. \A f : Held(f)' => Held(f)
  <2>1. \A t \in Sessions : session'[t].pin = session[t].pin
    BY <1>11
  <2>2. QED
    BY <1>5, <2>1 DEF Held
<1>13. Identified' /\ Truthful'
  <2>1. \A t \in Sessions : session'[t].proofs \subseteq session[t].proofs
    BY <1>11
  <2>2. \A i \in DOMAIN writes : i \in DOMAIN writes' /\ writes'[i] = writes[i]
    BY <1>9
  <2>3. QED
    BY <1>5, <1>12, <2>1, <2>2, NothingNew
<1>14. CallOK(s)'
  <2>1. PICK n : n = Len(writes) + 1
    OBVIOUS
  <2>2. /\ n \in DOMAIN writes' /\ writes'[n].by = s
        /\ \A j \in DOMAIN writes' : j <= n
    BY <1>2, <1>9, <2>1
  <2>3. Wrote(s, n)'
    BY <2>2 DEF Wrote
  <2>4. writes'[n].pin = session'[s].pin
    BY <1>2, <1>9, <1>11, <2>1
  <2>5. said \notin {"keeping", "kept", "ready"}
    BY <1>3
  <2>6. QED
    BY <1>11, <2>3, <2>4, <2>5 DEF CallOK
<1>15. \A t \in Sessions : CallOK(t)'
  <2>1. TAKE t \in Sessions
  <2>2. CASE t = s
    BY <1>14, <2>2
  <2>3. CASE t # s
    BY <1>2, <1>5, <1>6, <1>11, <2>3, OthersKeep
  <2>4. QED
    BY <2>2, <2>3
<1>16. /\ Grant(w.pin, Last(w.pin).grant).by = s
       /\ Activation(w.pin, Grant(w.pin, Last(w.pin).grant).route).by = s
  <2>1. Admits(s)
    BY <1>4, <1>5 DEF IInv, Calls, CallOK
  <2>2. /\ Known(w.pin, "grant", Last(w.pin).grant)
        /\ Known(w.pin, "activate", Grant(w.pin, Last(w.pin).grant).route)
        /\ Last(w.pin).grant \in session[s].proofs
        /\ Grant(w.pin, Last(w.pin).grant).route \in session[s].proofs
    BY <1>2, <2>1 DEF Admits, Delivers
  <2>3. Grant(w.pin, Last(w.pin).grant).by = s
    BY <1>2, <2>2, OwnRecord DEF Grant
  <2>4. Activation(w.pin, Grant(w.pin, Last(w.pin).grant).route).by = s
    BY <1>2, <2>2, OwnRecord DEF Activation
  <2>5. QED
    BY <2>3, <2>4
<1>17. RoutesAreFresh'
  <2>1. \A i \in DOMAIN writes' : i \in DOMAIN writes \/ i = Len(writes) + 1
    BY <1>9
  <2>2. \A i \in DOMAIN writes : writes'[i] = writes[i]
    BY <1>9
  <2>3. \A i \in DOMAIN writes' :
          /\ Grant(writes'[i].pin, Last(writes'[i].pin).grant).by = writes'[i].by
          /\ writes'[i].at < Grant(writes'[i].pin, Last(writes'[i].pin).grant).until
          /\ Activation(writes'[i].pin, Grant(writes'[i].pin, Last(writes'[i].pin).grant).route).by
               = writes'[i].by
          /\ writes'[i].at < Activation(writes'[i].pin,
               Grant(writes'[i].pin, Last(writes'[i].pin).grant).route).until
    <3>1. TAKE i \in DOMAIN writes'
    <3>2. CASE i \in DOMAIN writes
      BY <2>2, <3>2 DEF IInv, RoutesAreFresh, Written
    <3>3. CASE i = Len(writes) + 1
      BY <1>2, <1>4, <1>5, <1>9, <1>16, <3>3
    <3>4. QED
      BY <2>1, <3>2, <3>3
  <2>4. QED
    BY <2>3 DEF RoutesAreFresh, Written
<1>18. Calls'
  BY <1>15 DEF Calls
<1>19. QED
  BY <1>10, <1>13, <1>17, <1>18 DEF IInv
-----------------------------------------------------------------------------
LEMMA Start == Init => IInv
<1>1. SUFFICES ASSUME Init PROVE IInv
  OBVIOUS
<1>2. PICK new : new = NewSession
  OBVIOUS
<1>3. new = [pc |-> new.pc, pin |-> new.pin, proofs |-> new.proofs]
      /\ new.pc = "new" /\ new.pin = << >> /\ new.proofs = {}
  BY <1>2 DEF NewSession
<1>4. /\ log = << >> /\ sink = << >> /\ writes = << >> /\ issued = 0
      /\ session = [s \in Sessions |-> new]
  BY <1>1, <1>2 DEF Init
<1>5. \A s \in Sessions : session[s] = new
  BY <1>4
<1>6. Shapes
  BY <1>3, <1>4, <1>5, NothingIs DEF Shapes
<1>7. \A e : ~Held(e)
  <2>1. \A s \in Sessions : Range(session[s].pin) = {}
    BY <1>3, <1>5, NothingIs
  <2>2. Range(log) = {} /\ Range(sink) = {}
    BY <1>4, NothingIs
  <2>3. QED
    BY <2>1, <2>2 DEF Held
<1>8. Identified /\ Truthful
  BY <1>3, <1>5, <1>7 DEF Identified, Truthful
<1>9. Calls
  BY <1>3, <1>5 DEF Calls, CallOK
<1>10. DOMAIN writes = {}
  BY <1>4
<1>11. RoutesAreFresh
  BY <1>10 DEF RoutesAreFresh
<1>12. QED
  BY <1>6, <1>8, <1>9, <1>11 DEF IInv

LEMMA ApplyKeeps ==
  ASSUME IInv, NEW s \in Sessions, NEW final, Apply(s, final)
  PROVE  IInv'
<1>1. CASE \E seconds \in Seconds : Activate(s, seconds, final)
  BY <1>1, ActivateKeeps
<1>2. CASE \E seconds \in Seconds, route \in 1..issued : GrantRoute(s, route, seconds, final)
  BY <1>2, GrantRouteKeeps
<1>3. CASE \E route \in 1..issued, op \in Management \ {"revoke_grant"} :
             Switch(s, op, route, final)
  BY <1>3, SwitchKeeps
<1>4. CASE \E g \in 1..issued : RevokeGrant(s, g, final)
  BY <1>4, RevokeGrantKeeps
<1>5. CASE \E g \in 1..issued, r \in Requests, offset \in 0..Size, length \in Lengths :
             Admit(s, g, r, offset, length, final)
  BY <1>5, AdmitKeeps
<1>6. QED
  BY <1>1, <1>2, <1>3, <1>4, <1>5 DEF Apply

LEMMA SessionStepKeeps ==
  ASSUME IInv, NEW s \in Sessions,
         \/ Bind(s) \/ Open(s) \/ Begin(s) \/ RetainRead(s) \/ RetainEvent(s)
         \/ Finish(s) \/ Refuse(s)
         \/ \E bytes \in 0..Size : Write(s, bytes)
         \/ \E final \in time..MaxTime : Apply(s, final) \/ Observe(s, final)
  PROVE  IInv'
<1>1. CASE Bind(s)
  BY <1>1, BindKeeps
<1>2. CASE Open(s) \/ Begin(s)
  BY <1>2, ReadKeeps
<1>3. CASE RetainRead(s)
  <2>1. CASE Retain(s, "opening", "idle")
    BY <2>1, RetainKeeps
  <2>2. CASE Retain(s, "beginning", "ready")
    BY <2>2, RetainKeeps
  <2>3. QED
    BY <1>3, <2>1, <2>2 DEF RetainRead
<1>4. CASE RetainEvent(s)
  <2>1. Retain(s, "keeping", "kept")
    BY <1>4 DEF RetainEvent
  <2>2. QED
    BY <2>1, RetainKeeps
<1>5. CASE Finish(s)
  BY <1>5, FinishKeeps
<1>6. CASE Refuse(s)
  BY <1>6, RefuseKeeps
<1>7. CASE \E bytes \in 0..Size : Write(s, bytes)
  BY <1>7, WriteKeeps
<1>8. CASE \E final \in time..MaxTime : Apply(s, final)
  BY <1>8, ApplyKeeps
<1>9. CASE \E final \in time..MaxTime : Observe(s, final)
  BY <1>9, ObserveKeeps
<1>10. QED
  BY <1>1, <1>2, <1>3, <1>4, <1>5, <1>6, <1>7, <1>8, <1>9

LEMMA Step == IInv /\ [Next]_vars => IInv'
<1>1. SUFFICES ASSUME IInv, [Next]_vars PROVE IInv'
  OBVIOUS
<1>2. CASE UNCHANGED vars
  <2>1. UNCHANGED <<database, sink, session, writes>>
    BY <1>2 DEF vars
  <2>2. QED
    BY <1>1, <2>1, TickKeeps
<1>3. CASE \E s \in Sessions :
             \/ Bind(s) \/ Open(s) \/ Begin(s) \/ RetainRead(s) \/ RetainEvent(s)
             \/ Finish(s) \/ Refuse(s)
             \/ \E bytes \in 0..Size : Write(s, bytes)
             \/ \E final \in time..MaxTime : Apply(s, final) \/ Observe(s, final)
  BY <1>1, <1>3, SessionStepKeeps
<1>4. CASE \E p \in Processes : Crash(p)
  BY <1>1, <1>4, CrashKeeps
<1>5. CASE \E n \in 0..MaxEvents : Restore(n)
  <2>1. PICK n \in 0..MaxEvents : Restore(n)
    BY <1>5
  <2>2. n \in Nat
    BY <2>1
  <2>3. QED
    BY <1>1, <2>1, <2>2, RestoreKeeps
<1>6. CASE Tick
  <2>1. UNCHANGED <<database, sink, session, writes>>
    BY <1>6 DEF Tick
  <2>2. QED
    BY <1>1, <2>1, TickKeeps
<1>7. QED
  BY <1>1, <1>2, <1>3, <1>4, <1>5, <1>6 DEF Next

LEMMA Invariance == Spec => []IInv
<1>1. QED
  BY Start, Step, PTL DEF Spec
-----------------------------------------------------------------------------
(* What an observation says is what the writer did, in the history and in  *)
(* the retained pin, after crashes and restores too (record_observation).  *)
THEOREM ObservationsTrue == Spec => []ObservationsAreTrue
<1>1. IInv => ObservationsAreTrue
  <2>1. SUFFICES ASSUME IInv, NEW h \in {sink, log}, NEW e \in Recorded(h, "observe")
                 PROVE  Told(e)
    BY DEF ObservationsAreTrue, Told
  <2>2. IsHistory(h)
    BY <2>1 DEF IInv, Shapes
  <2>3. e \in Range(h) /\ e.op = "observe"
    BY <2>1, <2>2, RecordedIs
  <2>4. Held(e)
    BY <2>1, <2>3 DEF Held
  <2>5. QED
    BY <2>1, <2>3, <2>4 DEF IInv, Truthful
<1>2. QED
  BY <1>1, Invariance, PTL

(* A chunk is written by the gateway that made its route and its grant,    *)
(* while both last (deliver_chunk, _require_route_proof).                  *)
THEOREM RoutesFresh == Spec => []RoutesAreFresh
<1>1. IInv => RoutesAreFresh
  BY DEF IInv
<1>2. QED
  BY <1>1, Invariance, PTL

LEMMA ApplyClearsNothing ==
  ASSUME NEW s, NEW final, Apply(s, final)
  PROVE  cleared' = cleared
<1>1. \A base, e, deadlines : Transaction(s, base, e, deadlines, final) => cleared' = cleared
  BY DEF Transaction
<1>2. \A seconds : Activate(s, seconds, final) => cleared' = cleared
  BY <1>1 DEF Activate
<1>3. \A route, seconds : GrantRoute(s, route, seconds, final) => cleared' = cleared
  BY <1>1 DEF GrantRoute
<1>4. \A op, route : Switch(s, op, route, final) => cleared' = cleared
  BY <1>1 DEF Switch
<1>5. \A g : RevokeGrant(s, g, final) => cleared' = cleared
  BY <1>1 DEF RevokeGrant
<1>6. \A g, r, offset, length : Admit(s, g, r, offset, length, final) => cleared' = cleared
  BY <1>1 DEF Admit
<1>7. QED
  BY <1>2, <1>3, <1>4, <1>5, <1>6 DEF Apply

LEMMA OnlyRetention ==
  ASSUME [Next]_vars, cleared' # cleared
  PROVE  \E s \in Sessions : RetainEvent(s)
<1>1. \A s : /\ Bind(s) => cleared' = cleared
             /\ Open(s) => cleared' = cleared
             /\ Begin(s) => cleared' = cleared
             /\ RetainRead(s) => cleared' = cleared
             /\ Finish(s) => cleared' = cleared
             /\ Refuse(s) => cleared' = cleared
  BY DEF Bind, Open, Begin, Read, RetainRead, Finish, Refuse
<1>2. \A s, bytes : Write(s, bytes) => cleared' = cleared
  BY DEF Write
<1>3. \A s, final : Apply(s, final) => cleared' = cleared
  BY ApplyClearsNothing
<1>4. \A s, final : Observe(s, final) => cleared' = cleared
  BY DEF Observe, Transaction
<1>5. \A p : Crash(p) => cleared' = cleared
  BY DEF Crash
<1>6. \A n : Restore(n) => cleared' = cleared
  BY DEF Restore
<1>7. Tick => cleared' = cleared
  BY DEF Tick
<1>8. UNCHANGED vars => cleared' = cleared
  BY DEF vars
<1>9. QED
  BY <1>1, <1>2, <1>3, <1>4, <1>5, <1>6, <1>7, <1>8 DEF Next

(* What the directory retains of suspensions and revocations binds every   *)
(* chunk that is cleared from then on (checkpoint.retain, _accept).        *)
THEOREM StopsObeyed == Spec => StopsAreObeyed
<1>1. ASSUME IInv, [Next]_vars, NEW c \in cleared' \ cleared
      PROVE  Delivers(sink, c)
  <2>1. cleared' # cleared
    BY <1>1
  <2>2. PICK s \in Sessions : RetainEvent(s)
    BY <1>1, <2>1, OnlyRetention
  <2>3. /\ session[s].pc = "keeping" /\ c = Last(session[s].pin) /\ c.op = "admit"
        /\ Len(session[s].pin) > Len(sink) \/ session[s].pin = sink
    BY <1>1, <2>2 DEF RetainEvent, Retain, Retainable
  <2>4. Admits(s)
    BY <1>1, <2>3 DEF IInv, Calls, CallOK
  <2>5. Delivers(session[s].pin, c)
    BY <2>3, <2>4 DEF Admits
  <2>6. PICK h : /\ Delivers(h, c) /\ Len(session[s].pin) = Len(h) + 1
                 /\ (sink = h \/ Len(sink) >= Len(session[s].pin))
    BY <2>3, <2>4 DEF Admits
  <2>7. Len(sink) \in Nat /\ Len(session[s].pin) \in Nat
    BY <1>1, HistoryIs DEF IInv, Shapes
  <2>8. QED
    BY <2>3, <2>5, <2>6, <2>7
<1>2. IInv /\ [Next]_vars =>
        [\A c \in cleared' \ cleared :
           /\ Known(sink, "grant", c.grant) /\ ~GrantRevoked(sink, c.grant)
           /\ RouteState(sink, Grant(sink, c.grant).route) = "active"]_vars
  BY <1>1 DEF Delivers
<1>3. QED
  BY <1>2, Invariance, PTL DEF Spec, StopsAreObeyed
=============================================================================
