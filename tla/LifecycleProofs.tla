--------------------------- MODULE LifecycleProofs ---------------------------
(***************************************************************************)
(* Proofs about the lifecycle reference, for every set of clients,         *)
(* releases and authorities and every budget, clock and bound.  What an    *)
(* invariant says of the tables must also hold of the copy of the file, or *)
(* a restore would break it: each part is an operator on the tables.       *)
(***************************************************************************)
EXTENDS Lifecycle, TLAPS

Shapes(h, l, auth, rel, dis, u) ==
  /\ h \in Seq(EventType) /\ l \in Nat
  /\ auth \in [Authorities -> AuthorityType]
  /\ rel \in [Releases -> ReleaseType]
  /\ dis \in SUBSET Releases /\ u \in 0..Budget

(* Releases name authorities that were installed at the epoch they are     *)
(* bound to, and stay within their allowance.                              *)
Bound(auth, rel) ==
  \A r \in Releases : 
    /\ rel[r].grants <= rel[r].allowance
    /\ rel[r].status # "none" =>
         /\ rel[r].authority \in Authorities
         /\ rel[r].epoch <= auth[rel[r].authority].epoch

(* No event after i stops a use of r, except that a new authority came     *)
(* with a newer epoch, so that the release is no longer live in effect.    *)
Untouched(h, i, auth, r, a, epoch) ==
  \A k \in i+1..Len(h) :
    /\ h[k].op # "commit"
    /\ h[k].op = "revoke" => h[k].release # r
    /\ h[k].op = "authority" /\ h[k].authority = a => auth[a].epoch > epoch

Committed(h, i, r) == i \in 1..Len(h) /\ h[i].op = "commit" /\ h[i].release = r

Activated(h, m, r, lease) ==
  h[m].op = "activate" /\ h[m].release = r /\ h[m].until = lease

(* What the chain has of a live release.                                   *)
Chained(h, auth, rel) ==
  \A r \in Releases : rel[r].status \in Live =>
    \E i \in 1..Len(h) :
      /\ Committed(h, i, r)
      /\ Untouched(h, i, auth, r, rel[r].authority, rel[r].epoch)
      /\ rel[r].status = "active" => \E m \in i+1..Len(h) : Activated(h, m, r, rel[r].lease)

Certified(h) ==
  \A j \in 1..Len(h) : h[j].op = "grant" =>
    \E i \in 1..j-1 :
      /\ Certifies(h, i, j)
      /\ \E m \in i+1..j-1 :
           /\ h[m].op = "activate" /\ h[m].release = h[j].release
           /\ h[j].at < h[m].until

(* The history that a live release froze is the current one.               *)
HistoryKept(rel, dis) ==
  \A r \in Releases : rel[r].status \in Live => dis = rel[r].history \cup {r}

Sound(h, l, auth, rel, dis, u) ==
  /\ Shapes(h, l, auth, rel, dis, u) /\ Bound(auth, rel)
  /\ Chained(h, auth, rel) /\ Certified(h) /\ HistoryKept(rel, dis)

IInv ==
  /\ Sound(log, last, authority, release, disclosed, used)
  /\ Sound(saved.log, saved.last, saved.authority, saved.release, saved.disclosed, saved.used)
  /\ known \in [Clients -> Seq(EventType)]
  /\ restores \in Nat

-----------------------------------------------------------------------------
LEMMA AppendType ==
  ASSUME NEW S, NEW s \in Seq(S), NEW e \in S
  PROVE  /\ Append(s, e) \in Seq(S)
         /\ Len(Append(s, e)) = Len(s) + 1
         /\ \A i \in 1..Len(s) : Append(s, e)[i] = s[i]
         /\ Append(s, e)[Len(s) + 1] = e
OBVIOUS

LEMMA AppendPrefix ==
  ASSUME NEW S, NEW s \in Seq(S), NEW e \in S
  PROVE  IsPrefix(s, s) /\ IsPrefix(s, Append(s, e))
BY DEF IsPrefix

(* An operation appends one event; the rest is what a lemma about each     *)
(* operation needs of it.                                                  *)
LEMMA TransitionStep ==
  ASSUME IInv, NEW c \in Clients, NEW event \in EventType, NEW now \in Times, NEW final \in Times,
         Transition(c, event, now, final)
  PROVE  LET e == [event EXCEPT !.at = now] IN
         /\ e \in EventType /\ log' = Append(log, e)
         /\ log' \in Seq(EventType) /\ Len(log') = Len(log) + 1
         /\ \A i \in 1..Len(log) : log'[i] = log[i]
         /\ log'[Len(log) + 1] = e
         /\ last' = now /\ now \in Nat /\ now <= final /\ final \in Nat
         /\ known[c] = log
         /\ \/ known' = known
            \/ known' = [known EXCEPT ![c] = Append(log, e)]
         /\ saved' = saved /\ restores' = restores
<1> DEFINE e == [event EXCEPT !.at = now]
<1>1. now \in Nat /\ final \in Nat /\ now <= final
  BY LifecycleAssumption DEF Times, Transition
<1>2. e \in EventType
  BY <1>1 DEF EventType
<1>3. log \in Seq(EventType)
  BY DEF IInv, Sound, Shapes
<1> HIDE DEF e
<1>4. /\ Append(log, e) \in Seq(EventType)
      /\ Len(Append(log, e)) = Len(log) + 1
      /\ \A i \in 1..Len(log) : Append(log, e)[i] = log[i]
      /\ Append(log, e)[Len(log) + 1] = e
  BY <1>2, <1>3, AppendType
<1>5. log' = Append(log, e)
  BY DEF Transition, e
<1>6. /\ last' = now /\ known[c] = log
      /\ \/ known' = known
         \/ known' = [known EXCEPT ![c] = Append(log, e)]
      /\ saved' = saved /\ restores' = restores
  BY <1>5 DEF Transition, Expected
<1>7. QED
  BY <1>1, <1>2, <1>4, <1>5, <1>6 DEF e

-----------------------------------------------------------------------------
(* One more event e on the chain h gives the chain g.                      *)
Longer(h, g, e) ==
  /\ h \in Seq(EventType) /\ g \in Seq(EventType) /\ e \in EventType
  /\ Len(g) = Len(h) + 1
  /\ \A i \in 1..Len(h) : g[i] = h[i]
  /\ g[Len(h) + 1] = e

(* The event is no commit; releases that are live after it were so before, *)
(* and it neither revokes them nor leaves them their authority.            *)
Continues(e, auth2, rel, rel2) ==
  /\ e.op # "commit"
  /\ \A r \in Releases : rel2[r].status \in Live =>
       /\ rel[r].status \in Live /\ rel[r].authority \in Authorities
       /\ rel[r].epoch \in Nat
       /\ rel2[r].authority = rel[r].authority /\ rel2[r].epoch = rel[r].epoch
       /\ e.op = "revoke" => e.release # r
       /\ e.op = "authority" /\ e.authority = rel[r].authority =>
            auth2[rel[r].authority].epoch > rel[r].epoch
       /\ rel2[r].status = "active" =>
            \/ rel[r].status = "active" /\ rel2[r].lease = rel[r].lease
            \/ e.op = "activate" /\ e.release = r /\ e.until = rel2[r].lease

Rises(auth, auth2) == \A a \in Authorities : auth[a].epoch <= auth2[a].epoch

(* Live releases stay on the chain when the event does not concern them.   *)
LEMMA ChainedKeeps ==
  ASSUME NEW h, NEW g, NEW e, Longer(h, g, e),
         NEW auth \in [Authorities -> AuthorityType], NEW auth2 \in [Authorities -> AuthorityType],
         NEW rel, NEW rel2, Chained(h, auth, rel),
         Rises(auth, auth2), Continues(e, auth2, rel, rel2)
  PROVE  Chained(g, auth2, rel2)
<1> USE DEF Continues, Rises
<1> SUFFICES ASSUME NEW r \in Releases, rel2[r].status \in Live
             PROVE  \E i \in 1..Len(g) :
                      /\ Committed(g, i, r)
                      /\ Untouched(g, i, auth2, r, rel2[r].authority, rel2[r].epoch)
                      /\ rel2[r].status = "active" =>
                           \E m \in i+1..Len(g) : Activated(g, m, r, rel2[r].lease)
  BY DEF Chained
<1>1. PICK i \in 1..Len(h) :
        /\ Committed(h, i, r)
        /\ Untouched(h, i, auth, r, rel[r].authority, rel[r].epoch)
        /\ rel[r].status = "active" => \E m \in i+1..Len(h) : Activated(h, m, r, rel[r].lease)
  BY DEF Chained
<1>2. Len(h) \in Nat /\ i \in 1..Len(g) /\ 1..Len(g) = 1..Len(h) \cup {Len(h) + 1}
  BY DEF Longer
<1>3. Committed(g, i, r)
  BY <1>1, <1>2 DEF Committed, Longer
<1>4. Untouched(g, i, auth2, r, rel2[r].authority, rel2[r].epoch)
  <2>1. rel[r].authority \in Authorities /\ rel[r].epoch \in Nat
    OBVIOUS
  <2>2. auth[rel[r].authority].epoch \in Int /\ auth2[rel[r].authority].epoch \in Int
    BY <2>1 DEF AuthorityType
  <2>3. ASSUME NEW k \in i+1..Len(g)
        PROVE  /\ g[k].op # "commit"
               /\ g[k].op = "revoke" => g[k].release # r
               /\ g[k].op = "authority" /\ g[k].authority = rel[r].authority =>
                    auth2[rel[r].authority].epoch > rel[r].epoch
    <3>1. CASE k = Len(h) + 1
      BY <3>1 DEF Longer
    <3>2. CASE k \in i+1..Len(h)
      <4>1. g[k] = h[k]
        BY <1>2, <3>2 DEF Longer
      <4>2. auth[rel[r].authority].epoch <= auth2[rel[r].authority].epoch
        BY <2>1
      <4>3. QED
        BY <1>1, <2>1, <2>2, <3>2, <4>1, <4>2 DEF Untouched
    <3>3. QED
      BY <1>2, <3>1, <3>2 DEF Longer
  <2>4. QED
    BY <2>3 DEF Untouched
<1>5. ASSUME rel2[r].status = "active"
      PROVE  \E m \in i+1..Len(g) : Activated(g, m, r, rel2[r].lease)
  <2>1. CASE rel[r].status = "active" /\ rel2[r].lease = rel[r].lease
    <3>1. PICK m \in i+1..Len(h) : Activated(h, m, r, rel[r].lease)
      BY <1>1, <2>1
    <3>2. m \in i+1..Len(g) /\ g[m] = h[m]
      BY <1>2, <3>1 DEF Longer
    <3>3. QED
      BY <2>1, <3>1, <3>2 DEF Activated
  <2>2. CASE e.op = "activate" /\ e.release = r /\ e.until = rel2[r].lease
    <3>1. Len(h) + 1 \in i+1..Len(g) /\ g[Len(h) + 1] = e
      BY <1>2 DEF Longer
    <3>2. QED
      BY <2>2, <3>1 DEF Activated
  <2>3. QED
    BY <1>5, <2>1, <2>2
<1>6. QED
  BY <1>2, <1>3, <1>4, <1>5

(* An event certifies itself, or needs no certificate.                     *)
LEMMA CertifiedKeeps ==
  ASSUME NEW h, NEW g, NEW e, Longer(h, g, e), Certified(h),
         e.op = "grant" =>
           \E i \in 1..Len(h) :
             /\ h[i].op = "commit" /\ h[i].release = e.release
             /\ \A k \in i+1..Len(h) : ~Stops(h[k], e)
             /\ \E m \in i+1..Len(h) :
                  h[m].op = "activate" /\ h[m].release = e.release /\ e.at < h[m].until
  PROVE  Certified(g)
<1> SUFFICES ASSUME NEW j \in 1..Len(g), g[j].op = "grant"
             PROVE  \E i \in 1..j-1 :
                      /\ Certifies(g, i, j)
                      /\ \E m \in i+1..j-1 :
                           /\ g[m].op = "activate" /\ g[m].release = g[j].release
                           /\ g[j].at < g[m].until
  BY DEF Certified
<1>1. Len(h) \in Nat /\ Len(g) = Len(h) + 1 /\ \A i \in 1..Len(h) : g[i] = h[i]
  BY DEF Longer
<1>2. CASE j \in 1..Len(h)
  <2>1. PICK i \in 1..j-1 :
          /\ Certifies(h, i, j)
          /\ \E m \in i+1..j-1 :
               /\ h[m].op = "activate" /\ h[m].release = h[j].release
               /\ h[j].at < h[m].until
    BY <1>1, <1>2 DEF Certified
  <2>2. \A k \in 1..j : g[k] = h[k]
    BY <1>1, <1>2
  <2>3. Certifies(g, i, j)
    BY <1>2, <2>1, <2>2 DEF Certifies
  <2>4. QED
    BY <1>2, <2>1, <2>2, <2>3
<1>3. CASE j = Len(h) + 1
  <2>1. g[j] = e /\ j - 1 = Len(h)
    BY <1>1, <1>3 DEF Longer
  <2>2. PICK i \in 1..Len(h) :
          /\ h[i].op = "commit" /\ h[i].release = e.release
          /\ \A k \in i+1..Len(h) : ~Stops(h[k], e)
          /\ \E m \in i+1..Len(h) :
               h[m].op = "activate" /\ h[m].release = e.release /\ e.at < h[m].until
    BY <2>1
  <2>3. Certifies(g, i, j)
    BY <1>1, <2>1, <2>2 DEF Certifies
  <2>4. QED
    BY <1>1, <2>1, <2>2, <2>3
<1>4. QED
  BY <1>1, <1>2, <1>3

(* The fields that operations overwrite.                                   *)
Overwritten(row, status, lease) == [row EXCEPT !.status = status, !.lease = lease]

LEMMA RowFields ==
  ASSUME NEW row \in ReleaseType, NEW status \in Status, NEW lease \in Nat
  PROVE  /\ Overwritten(row, status, lease) \in ReleaseType
         /\ Overwritten(row, status, lease).status = status
         /\ Overwritten(row, status, lease).lease = lease
         /\ Overwritten(row, status, lease).authority = row.authority
         /\ Overwritten(row, status, lease).epoch = row.epoch
         /\ Overwritten(row, status, lease).history = row.history
         /\ Overwritten(row, status, lease).grants = row.grants
         /\ Overwritten(row, status, lease).allowance = row.allowance
<1>1. [row EXCEPT !.status = status] \in ReleaseType
  BY DEF ReleaseType
<1>2. Overwritten(row, status, lease) = [[row EXCEPT !.status = status] EXCEPT !.lease = lease]
  BY DEF Overwritten
<1>3. QED
  BY <1>1, <1>2 DEF ReleaseType

-----------------------------------------------------------------------------
(* Each operation leaves sound tables.                                     *)
Tables == Sound(log, last, authority, release, disclosed, used)

(* The new chain of an operation, and the new value of the clock.          *)
LEMMA OperationStep ==
  ASSUME IInv, NEW c \in Clients, NEW event \in EventType, NEW now \in Times, NEW final \in Times,
         Transition(c, event, now, final)
  PROVE  LET e == [event EXCEPT !.at = now] IN
         /\ Longer(log, log', e)
         /\ e \in EventType /\ e.at = now
         /\ e.op = event.op /\ e.release = event.release
         /\ e.authority = event.authority /\ e.until = event.until
         /\ last' \in Nat /\ now \in Nat /\ final \in Nat /\ now <= final
<1>1. log \in Seq(EventType)
  BY DEF IInv, Sound, Shapes
<1>2. QED
  BY <1>1, TransitionStep DEF Longer, EventType

LEMMA SetAuthorityKeeps ==
  ASSUME IInv, NEW c \in Clients, NEW a \in Authorities, NEW new \in Installs,
         NEW now \in Times, NEW final \in Times, SetAuthority(c, a, new, now, final)
  PROVE  Tables'
<1> DEFINE event == Event("authority", None, a)
           e == [event EXCEPT !.at = now]
<1>1. event \in EventType /\ event.op = "authority" /\ event.authority = a
  BY DEF Event, EventType
<1> HIDE DEF event
<1>2. Transition(c, event, now, final)
  BY DEF SetAuthority, event
<1>3. /\ Longer(log, log', e) /\ e \in EventType /\ e.op = "authority" /\ e.authority = a
      /\ last' \in Nat
  BY <1>1, <1>2, OperationStep
<1> HIDE DEF e
<1>4. new \in AuthorityType /\ new.epoch \in Nat
  BY LifecycleAssumption DEF AuthorityType
<1>5. /\ authority \in [Authorities -> AuthorityType]
      /\ authority' = [authority EXCEPT ![a] = new]
      /\ new.epoch > authority[a].epoch
      /\ release' = release /\ disclosed' = disclosed /\ used' = used
  BY DEF SetAuthority, IInv, Sound, Shapes
<1>6. authority' \in [Authorities -> AuthorityType]
  BY <1>4, <1>5
<1>7. \A b \in Authorities : /\ authority[b].epoch \in Int /\ authority'[b].epoch \in Int
                            /\ authority[b].epoch <= authority'[b].epoch
  BY <1>4, <1>5 DEF AuthorityType
<1>8. Shapes(log, last, authority, release, disclosed, used)'
  BY <1>3, <1>5, <1>6 DEF Longer, IInv, Sound, Shapes
<1>9. release \in [Releases -> ReleaseType] /\ Bound(authority, release)
  BY DEF IInv, Sound, Shapes
<1>10. \A r \in Releases : release[r].epoch \in Nat
  BY <1>9 DEF ReleaseType
<1>11. Bound(authority, release)'
  <2>1. ASSUME NEW r \in Releases, release[r].status # "none"
        PROVE  release[r].epoch <= authority'[release[r].authority].epoch
    <3>1. release[r].authority \in Authorities
          /\ release[r].epoch <= authority[release[r].authority].epoch
      BY <1>9, <2>1 DEF Bound
    <3>2. QED
      BY <1>7, <1>10, <3>1
  <2>2. QED
    BY <1>5, <1>9, <2>1 DEF Bound
<1>12. Chained(log', authority', release')
  <2>1. ASSUME NEW r \in Releases, release[r].status \in Live
        PROVE  /\ release[r].authority \in Authorities
               /\ release[r].authority = a => authority'[a].epoch > release[r].epoch
    <3>1. release[r].authority \in Authorities
          /\ release[r].epoch <= authority[release[r].authority].epoch
      BY <1>9, <2>1 DEF Bound, Live
    <3>2. authority'[a] = new
      BY <1>5
    <3>3. QED
      BY <1>4, <1>5, <1>7, <1>10, <3>1, <3>2
  <2>2. Chained(log, authority, release)
    BY DEF IInv, Sound
  <2>3. Continues(e, authority', release, release') /\ Rises(authority, authority')
    BY <1>3, <1>5, <1>7, <1>10, <2>1 DEF Continues, Rises
  <2>4. Longer(log, log', e)
    BY <1>3
  <2>5. authority \in [Authorities -> AuthorityType]
    BY <1>5
  <2>6. QED
    BY <1>6, <2>2, <2>3, <2>4, <2>5, ChainedKeeps
<1>13. Certified(log)'
  BY <1>3, CertifiedKeeps DEF IInv, Sound
<1>14. HistoryKept(release, disclosed)'
  BY <1>5 DEF IInv, Sound, HistoryKept
<1>15. QED
  BY <1>8, <1>11, <1>12, <1>13, <1>14 DEF Tables, Sound

LEMMA CommitKeeps ==
  ASSUME IInv, NEW c \in Clients, NEW r \in Releases, NEW a \in Authorities, NEW epoch \in Epochs,
         NEW terms \in Terms, NEW now \in Times, NEW final \in Times,
         Commit(c, r, a, epoch, terms, now, final)
  PROVE  Tables'
<1> DEFINE event == Event("commit", r, a)
           e == [event EXCEPT !.at = now]
           row == [status |-> "authorized", authority |-> a, epoch |-> epoch, until |-> terms.until,
                   history |-> disclosed, allowance |-> terms.allowance, unit |-> terms.unit,
                   lease |-> 0, grants |-> 0]
<1>1. event \in EventType /\ event.op = "commit" /\ event.release = r
  BY DEF Event, EventType
<1> HIDE DEF event
<1>2. Transition(c, event, now, final)
  BY DEF Commit, event
<1>3. /\ Longer(log, log', e) /\ e \in EventType /\ e.op = "commit" /\ e.release = r
      /\ last' \in Nat
  BY <1>1, <1>2, OperationStep
<1> HIDE DEF e
<1>4. /\ release \in [Releases -> ReleaseType] /\ authority \in [Authorities -> AuthorityType]
      /\ disclosed \in SUBSET Releases /\ used \in 0..Budget
      /\ Bound(authority, release)
  BY DEF IInv, Sound, Shapes
<1>5. /\ authority' = authority /\ disclosed' = disclosed \cup {r}
      /\ used' = used + terms.cost /\ used + terms.cost <= Budget
      /\ release' = [Suspended EXCEPT ![r] = row]
      /\ authority[a].epoch = epoch
  BY DEF Commit, Chargeable, Valid
<1>6. epoch \in Nat /\ terms.until \in Nat /\ terms.allowance \in Nat /\ terms.unit \in Nat
      /\ terms.cost \in Nat
  BY LifecycleAssumption DEF Epochs
<1>7. /\ row \in ReleaseType /\ row.status = "authorized" /\ row.authority = a
      /\ row.epoch = epoch /\ row.history = disclosed /\ row.grants <= row.allowance
  BY <1>4, <1>6 DEF ReleaseType, Status
<1> HIDE DEF row
<1>8. ASSUME NEW s \in Releases
      PROVE  /\ Suspended[s] \in ReleaseType /\ Suspended[s].status \notin Live
             /\ Suspended[s].status = "none" <=> release[s].status = "none"
             /\ Suspended[s].authority = release[s].authority
             /\ Suspended[s].epoch = release[s].epoch
             /\ Suspended[s].grants = release[s].grants
             /\ Suspended[s].allowance = release[s].allowance
  <2>1. release[s] \in ReleaseType
    BY <1>4
  <2>2. CASE release[s].status \in Live
    <3>1. Suspended[s] = Overwritten(release[s], "suspended", 0)
      BY <2>2 DEF Suspended, Overwritten
    <3>2. "suspended" \in Status /\ 0 \in Nat
      BY DEF Status
    <3>3. QED
      BY <2>1, <2>2, <3>1, <3>2, RowFields DEF Live
  <2>3. CASE release[s].status \notin Live
    BY <2>1, <2>3 DEF Suspended
  <2>4. QED
    BY <2>2, <2>3
<1>9. Suspended \in [Releases -> ReleaseType]
  BY <1>8 DEF Suspended
<1>10. /\ release' \in [Releases -> ReleaseType] /\ release'[r] = row
       /\ \A s \in Releases \ {r} : release'[s] = Suspended[s]
  BY <1>5, <1>7, <1>9
<1>11. Shapes(log, last, authority, release, disclosed, used)'
  BY <1>3, <1>4, <1>5, <1>6, <1>10, LifecycleAssumption DEF Longer, IInv, Sound, Shapes
<1>12. Bound(authority, release)'
  BY <1>4, <1>5, <1>6, <1>7, <1>8, <1>10 DEF Bound
<1>13. Chained(log, authority, release)'
  <2>1. \A s \in Releases : release'[s].status \in Live => s = r
    BY <1>8, <1>10
  <2>2. Len(log') \in Nat /\ Len(log') \in 1..Len(log') /\ log'[Len(log')] = e
    BY <1>3 DEF Longer
  <2>3. Committed(log', Len(log'), r)
    BY <1>3, <2>2 DEF Committed
  <2>4. Untouched(log', Len(log'), authority', r, a, epoch)
    BY <2>2 DEF Untouched
  <2>5. release'[r].status # "active"
    BY <1>7, <1>10
  <2>6. QED
    BY <1>7, <1>10, <2>1, <2>2, <2>3, <2>4, <2>5 DEF Chained
<1>14. Certified(log)'
  BY <1>3, CertifiedKeeps DEF IInv, Sound
<1>15. HistoryKept(release, disclosed)'
  BY <1>5, <1>7, <1>8, <1>10 DEF HistoryKept
<1>16. QED
  BY <1>11, <1>12, <1>13, <1>14, <1>15 DEF Tables, Sound

(* Activation and revocation overwrite the status and the lease of a       *)
(* release that exists.                                                    *)
LEMMA OverwriteKeeps ==
  ASSUME IInv, NEW r \in Releases, NEW status \in Status, NEW lease \in Nat, NEW e,
         release[r].status # "none", Longer(log, log', e), last' \in Nat,
         e.op \in {"activate", "revoke"}, e.release = r,
         status \in Live => release[r].status \in Live /\ e.op = "activate" /\ e.until = lease,
         authority' = authority, disclosed' = disclosed, used' = used,
         release' = [release EXCEPT ![r] = Overwritten(release[r], status, lease)]
  PROVE  Tables'
<1>1. /\ release \in [Releases -> ReleaseType] /\ authority \in [Authorities -> AuthorityType]
      /\ Bound(authority, release) /\ HistoryKept(release, disclosed)
      /\ Chained(log, authority, release)
  BY DEF IInv, Sound, Shapes
<1>2. release[r] \in ReleaseType
  BY <1>1
<1>3. /\ Overwritten(release[r], status, lease) \in ReleaseType
      /\ Overwritten(release[r], status, lease).status = status
      /\ Overwritten(release[r], status, lease).lease = lease
      /\ Overwritten(release[r], status, lease).authority = release[r].authority
      /\ Overwritten(release[r], status, lease).epoch = release[r].epoch
      /\ Overwritten(release[r], status, lease).history = release[r].history
      /\ Overwritten(release[r], status, lease).grants = release[r].grants
      /\ Overwritten(release[r], status, lease).allowance = release[r].allowance
  BY <1>2, RowFields
<1>4. release' \in [Releases -> ReleaseType]
  BY <1>1, <1>3
<1>5. ASSUME NEW s \in Releases
      PROVE  /\ release'[s].authority = release[s].authority
             /\ release'[s].epoch = release[s].epoch
             /\ release'[s].history = release[s].history
             /\ release'[s].grants = release[s].grants
             /\ release'[s].allowance = release[s].allowance
             /\ s # r => release'[s] = release[s]
             /\ s = r => release'[s].status = status /\ release'[s].lease = lease
  BY <1>1, <1>3
<1>6. Shapes(log, last, authority, release, disclosed, used)'
  BY <1>4 DEF Longer, IInv, Sound, Shapes
<1>7. Bound(authority, release)'
  BY <1>1, <1>5 DEF Bound
<1>8. Chained(log', authority', release')
  <2>1. ASSUME NEW s \in Releases, release'[s].status \in Live
        PROVE  release[s].status \in Live /\ release[s].authority \in Authorities
               /\ release[s].epoch \in Nat
    <3>1. release[s].status \in Live
      BY <1>5, <2>1
    <3>2. QED
      BY <1>1, <3>1 DEF Bound, Live, ReleaseType
  <2>2. Continues(e, authority', release, release')
    BY <1>5, <2>1 DEF Continues, Live
  <2>3. Rises(authority, authority')
    BY <1>1 DEF Rises, AuthorityType
  <2>4. authority' \in [Authorities -> AuthorityType] /\ authority \in [Authorities -> AuthorityType]
    BY <1>1
  <2>5. Chained(log, authority, release)
    BY <1>1
  <2>6. QED
    BY <2>2, <2>3, <2>4, <2>5, ChainedKeeps
<1>9. Certified(log)'
  BY CertifiedKeeps DEF IInv, Sound
<1>10. HistoryKept(release, disclosed)'
  BY <1>1, <1>5 DEF HistoryKept
<1>11. QED
  BY <1>6, <1>7, <1>8, <1>9, <1>10 DEF Tables, Sound

LEMMA ActivateKeeps ==
  ASSUME IInv, NEW c \in Clients, NEW r \in Releases, NEW lease \in Times,
         NEW now \in Times, NEW final \in Times, Activate(c, r, lease, now, final)
  PROVE  Tables'
<1> DEFINE event == [Event("activate", r, release[r].authority) EXCEPT !.until = lease]
           e == [event EXCEPT !.at = now]
<1>1. release \in [Releases -> ReleaseType] /\ Bound(authority, release)
  BY DEF IInv, Sound, Shapes
<1>2. /\ release[r].status = "authorized" /\ lease \in Nat
      /\ authority' = authority /\ disclosed' = disclosed /\ used' = used
      /\ release' = [release EXCEPT ![r].status = "active", ![r].lease = lease]
      /\ Transition(c, event, now, final)
  BY LifecycleAssumption DEF Activate, Times
<1>3. release[r].authority \in Authorities
  BY <1>1, <1>2 DEF Bound
<1>4. event \in EventType /\ event.op = "activate" /\ event.release = r /\ event.until = lease
  BY <1>2, <1>3 DEF Event, EventType
<1> HIDE DEF event
<1>5. /\ Longer(log, log', e) /\ e.op = "activate" /\ e.release = r /\ e.until = lease
      /\ last' \in Nat
  BY <1>2, <1>4, OperationStep
<1> HIDE DEF e
<1>6. release' = [release EXCEPT ![r] = Overwritten(release[r], "active", lease)]
  BY <1>1, <1>2 DEF Overwritten
<1>7. "active" \in Status /\ release[r].status \in Live /\ release[r].status # "none"
  BY <1>2 DEF Status, Live
<1>8. QED
  BY <1>2, <1>5, <1>6, <1>7, OverwriteKeeps

LEMMA RevokeKeeps ==
  ASSUME IInv, NEW c \in Clients, NEW r \in Releases, NEW a \in Authorities, NEW epoch \in Epochs,
         NEW now \in Times, NEW final \in Times, Revoke(c, r, a, epoch, now, final)
  PROVE  Tables'
<1> DEFINE event == Event("revoke", r, a)
           e == [event EXCEPT !.at = now]
<1>1. release \in [Releases -> ReleaseType]
  BY DEF IInv, Sound, Shapes
<1>2. /\ release[r].status # "none" /\ 0 \in Nat
      /\ authority' = authority /\ disclosed' = disclosed /\ used' = used
      /\ release' = [release EXCEPT ![r].status = "revoked", ![r].lease = 0]
      /\ Transition(c, event, now, final)
  BY DEF Revoke
<1>3. event \in EventType /\ event.op = "revoke" /\ event.release = r
  BY DEF Event, EventType
<1> HIDE DEF event
<1>4. Longer(log, log', e) /\ e.op = "revoke" /\ e.release = r /\ last' \in Nat
  BY <1>2, <1>3, OperationStep
<1> HIDE DEF e
<1>5. release' = [release EXCEPT ![r] = Overwritten(release[r], "revoked", 0)]
  BY <1>1, <1>2 DEF Overwritten
<1>6. "revoked" \in Status /\ "revoked" \notin Live
  BY DEF Status, Live
<1>7. QED
  BY <1>2, <1>4, <1>5, <1>6, OverwriteKeeps

LEMMA GrantAccessKeeps ==
  ASSUME IInv, NEW c \in Clients, NEW r \in Releases, NEW now \in Times, NEW final \in Times,
         GrantAccess(c, r, now, final)
  PROVE  Tables'
<1> DEFINE a == release[r].authority
           event == Event("grant", r, a)
           e == [event EXCEPT !.at = now]
           row == [release[r] EXCEPT !.grants = release[r].grants + 1]
<1>1. /\ release \in [Releases -> ReleaseType] /\ authority \in [Authorities -> AuthorityType]
      /\ disclosed \in SUBSET Releases /\ used \in 0..Budget
      /\ Bound(authority, release) /\ HistoryKept(release, disclosed)
      /\ Chained(log, authority, release)
  BY DEF IInv, Sound, Shapes
<1>2. /\ release[r].status = "active" /\ final < release[r].lease
      /\ release[r].grants < release[r].allowance
      /\ authority[a].epoch = release[r].epoch
      /\ used + release[r].unit <= Budget /\ used' = used + release[r].unit
      /\ authority' = authority /\ disclosed' = disclosed \cup {r}
      /\ release' = [release EXCEPT ![r].grants = @ + 1]
      /\ Transition(c, event, now, final)
  BY DEF GrantAccess, Chargeable, Prerequisites, Valid
<1>3. a \in Authorities
  BY <1>1, <1>2 DEF Bound
<1>4. event \in EventType /\ event.op = "grant" /\ event.release = r /\ event.authority = a
  BY <1>3 DEF Event, EventType
<1> HIDE DEF event
<1>5. /\ Longer(log, log', e) /\ e.op = "grant" /\ e.release = r /\ e.authority = a
      /\ e.at = now /\ now \in Nat /\ final \in Nat /\ now <= final /\ last' \in Nat
  BY <1>2, <1>4, OperationStep
<1> HIDE DEF e
<1>6. /\ release[r] \in ReleaseType /\ release[r].unit \in Nat /\ release[r].grants \in Nat
      /\ release[r].allowance \in Nat /\ release[r].lease \in Nat /\ release[r].epoch \in Nat
  BY <1>1 DEF ReleaseType
<1>7. /\ row \in ReleaseType /\ row.grants <= row.allowance
      /\ row.status = release[r].status /\ row.lease = release[r].lease
      /\ row.authority = release[r].authority /\ row.epoch = release[r].epoch
      /\ row.history = release[r].history
  BY <1>2, <1>6 DEF ReleaseType
<1>8. release' = [release EXCEPT ![r] = row]
  BY <1>1, <1>2
<1> HIDE DEF row
<1>9. release' \in [Releases -> ReleaseType] /\ used' \in 0..Budget /\ disclosed' = disclosed
  <2>1. disclosed = release[r].history \cup {r}
    BY <1>1, <1>2 DEF HistoryKept, Live
  <2>2. QED
    BY <1>1, <1>2, <1>6, <1>7, <1>8, <2>1, LifecycleAssumption
<1>10. ASSUME NEW s \in Releases
       PROVE  /\ release'[s].authority = release[s].authority
              /\ release'[s].epoch = release[s].epoch
              /\ release'[s].history = release[s].history
              /\ release'[s].status = release[s].status
              /\ release'[s].lease = release[s].lease
              /\ s # r => release'[s] = release[s]
              /\ s = r => release'[s] = row
  BY <1>1, <1>7, <1>8
<1>11. Shapes(log, last, authority, release, disclosed, used)'
  BY <1>2, <1>5, <1>9 DEF Longer, IInv, Sound, Shapes
<1>12. Bound(authority, release)'
  BY <1>1, <1>2, <1>7, <1>10 DEF Bound
<1>13. Chained(log', authority', release')
  <2>1. ASSUME NEW s \in Releases, release[s].status \in Live
        PROVE  release[s].authority \in Authorities /\ release[s].epoch \in Nat
    BY <1>1, <2>1 DEF Bound, Live, ReleaseType
  <2>2. Continues(e, authority', release, release')
    BY <1>5, <1>10, <2>1 DEF Continues
  <2>3. Rises(authority, authority')
    BY <1>1, <1>2 DEF Rises, AuthorityType
  <2>4. authority' \in [Authorities -> AuthorityType] /\ authority \in [Authorities -> AuthorityType]
    BY <1>1, <1>2
  <2>5. Chained(log, authority, release) /\ Longer(log, log', e)
    BY <1>1, <1>5
  <2>6. QED
    BY <2>2, <2>3, <2>4, <2>5, ChainedKeeps
<1>14. \E i \in 1..Len(log) :
         /\ log[i].op = "commit" /\ log[i].release = e.release
         /\ \A k \in i+1..Len(log) : ~Stops(log[k], e)
         /\ \E m \in i+1..Len(log) :
              log[m].op = "activate" /\ log[m].release = e.release /\ e.at < log[m].until
  <2>1. PICK i \in 1..Len(log) :
          /\ Committed(log, i, r)
          /\ Untouched(log, i, authority, r, a, release[r].epoch)
          /\ \E m \in i+1..Len(log) : Activated(log, m, r, release[r].lease)
    BY <1>1, <1>2 DEF Chained, Live
  <2>2. \A k \in i+1..Len(log) : ~Stops(log[k], e)
    BY <1>2, <1>5, <1>6, <2>1 DEF Untouched, Stops
  <2>3. now < release[r].lease
    BY <1>2, <1>5, <1>6
  <2>4. \E m \in i+1..Len(log) :
          log[m].op = "activate" /\ log[m].release = e.release /\ e.at < log[m].until
    BY <1>5, <2>1, <2>3 DEF Activated
  <2>5. QED
    BY <1>5, <2>1, <2>2, <2>4 DEF Committed
<1>15. Certified(log)'
  <2>1. Certified(log) /\ Longer(log, log', e)
    BY <1>5 DEF IInv, Sound
  <2>2. Certified(log')
    BY <1>14, <2>1, CertifiedKeeps
  <2>3. QED
    BY <2>2
<1>16. HistoryKept(release, disclosed)'
  BY <1>1, <1>9, <1>10 DEF HistoryKept
<1>17. QED
  BY <1>11, <1>12, <1>13, <1>15, <1>16 DEF Tables, Sound

-----------------------------------------------------------------------------
(* What an operation does, whichever it is.                                *)
LEMMA OperationKeeps ==
  ASSUME IInv, NEW c \in Clients, NEW now \in Times, NEW final \in Times,
         Operation(c, now, final)
  PROVE  /\ Tables' /\ saved' = saved /\ restores' = restores /\ log \in Seq(EventType)
         /\ known[c] = log
         /\ \E e \in EventType : \/ known' = known
                                \/ known' = [known EXCEPT ![c] = Append(log, e)]
<1> DEFINE Moved == \E event \in EventType : Transition(c, event, now, final)
<1>1. log \in Seq(EventType) /\ Bound(authority, release)
  BY DEF IInv, Sound, Shapes
<1>2. ASSUME NEW a \in Authorities, NEW new \in Installs, SetAuthority(c, a, new, now, final)
      PROVE  Tables' /\ Moved
  <2>1. Event("authority", None, a) \in EventType
    BY DEF Event, EventType
  <2>2. QED
    BY <1>2, <2>1, SetAuthorityKeeps DEF SetAuthority
<1>3. ASSUME NEW r \in Releases, NEW a \in Authorities, NEW epoch \in Epochs, NEW terms \in Terms,
             Commit(c, r, a, epoch, terms, now, final)
      PROVE  Tables' /\ Moved
  <2>1. Event("commit", r, a) \in EventType
    BY DEF Event, EventType
  <2>2. QED
    BY <1>3, <2>1, CommitKeeps DEF Commit
<1>4. ASSUME NEW r \in Releases, NEW a \in Authorities, NEW epoch \in Epochs,
             Revoke(c, r, a, epoch, now, final)
      PROVE  Tables' /\ Moved
  <2>1. Event("revoke", r, a) \in EventType
    BY DEF Event, EventType
  <2>2. QED
    BY <1>4, <2>1, RevokeKeeps DEF Revoke
<1>5. ASSUME NEW r \in Releases, NEW lease \in Times, Activate(c, r, lease, now, final)
      PROVE  Tables' /\ Moved
  <2>1. release[r].authority \in Authorities
    BY <1>1, <1>5 DEF Activate, Bound
  <2>2. [Event("activate", r, release[r].authority) EXCEPT !.until = lease] \in EventType
    BY <2>1, LifecycleAssumption DEF Event, EventType, Times
  <2>3. QED
    BY <1>5, <2>2, ActivateKeeps DEF Activate
<1>6. ASSUME NEW r \in Releases, GrantAccess(c, r, now, final)
      PROVE  Tables' /\ Moved
  <2>1. release[r].authority \in Authorities
    BY <1>1, <1>6 DEF GrantAccess, Bound
  <2>2. Event("grant", r, release[r].authority) \in EventType
    BY <2>1 DEF Event, EventType
  <2>3. QED
    BY <1>6, <2>2, GrantAccessKeeps DEF GrantAccess
<1>7. Tables' /\ Moved
  BY <1>2, <1>3, <1>4, <1>5, <1>6 DEF Operation
<1>8. PICK event \in EventType : Transition(c, event, now, final)
  BY <1>7
<1>9. /\ [event EXCEPT !.at = now] \in EventType /\ known[c] = log
      /\ \/ known' = known
         \/ known' = [known EXCEPT ![c] = Append(log, [event EXCEPT !.at = now])]
      /\ saved' = saved /\ restores' = restores
  BY <1>8, TransitionStep
<1>10. QED
  BY <1>1, <1>7, <1>9

LEMMA InitInv == Init => IInv
<1> SUFFICES ASSUME Init PROVE IInv
  OBVIOUS
<1>1. /\ log = << >> /\ Len(log) = 0 /\ log \in Seq(EventType)
      /\ last = 0 /\ disclosed = {} /\ used = 0
  BY DEF Init
<1>2. NoRelease \in ReleaseType /\ NoRelease.status = "none" /\ NoRelease.grants <= NoRelease.allowance
  BY DEF NoRelease, ReleaseType, Status
<1>3. NoAuthority \in AuthorityType
  BY DEF NoAuthority, AuthorityType
<1>4. /\ release \in [Releases -> ReleaseType] /\ authority \in [Authorities -> AuthorityType]
      /\ \A r \in Releases : release[r] = NoRelease
  BY <1>2, <1>3 DEF Init
<1>5. Shapes(log, last, authority, release, disclosed, used)
  BY <1>1, <1>4, LifecycleAssumption DEF Shapes
<1>6. Bound(authority, release) /\ Chained(log, authority, release) /\ HistoryKept(release, disclosed)
  BY <1>2, <1>4 DEF Bound, Chained, HistoryKept, Live
<1>7. Certified(log)
  BY <1>1 DEF Certified
<1>8. Tables
  BY <1>5, <1>6, <1>7 DEF Tables, Sound
<1>9. /\ saved.log = log /\ saved.last = last /\ saved.authority = authority
      /\ saved.release = release /\ saved.disclosed = disclosed /\ saved.used = used
  BY DEF Init, Database
<1>10. known \in [Clients -> Seq(EventType)] /\ restores \in Nat
  BY DEF Init
<1>11. QED
  BY <1>8, <1>9, <1>10 DEF IInv, Tables

LEMMA StepInv == IInv /\ [Next]_vars => IInv'
<1> SUFFICES ASSUME IInv, [Next]_vars PROVE IInv'
  OBVIOUS
<1>1. /\ Tables /\ known \in [Clients -> Seq(EventType)] /\ restores \in Nat
      /\ Sound(saved.log, saved.last, saved.authority, saved.release, saved.disclosed, saved.used)
  BY DEF IInv, Tables
<1>2. ASSUME NEW c \in Clients, NEW now \in Times, NEW final \in Times, Operation(c, now, final)
      PROVE  IInv'
  <2>1. PICK e \in EventType : \/ known' = known
                             \/ known' = [known EXCEPT ![c] = Append(log, e)]
    BY <1>2, OperationKeeps
  <2>2. Tables' /\ saved' = saved /\ restores' = restores /\ log \in Seq(EventType)
    BY <1>2, OperationKeeps
  <2>3. Append(log, e) \in Seq(EventType)
    BY <2>2, AppendType
  <2>4. known' \in [Clients -> Seq(EventType)]
    BY <1>1, <2>1, <2>3
  <2>5. QED
    BY <1>1, <2>2, <2>4 DEF IInv, Tables
<1>3. ASSUME NEW c \in Clients, NEW d \in Clients, HandOver(c, d) PROVE IInv'
  BY <1>1, <1>3 DEF HandOver, IInv, Tables, tables
<1>4. CASE Copy
  <2>1. /\ saved'.log = log /\ saved'.last = last /\ saved'.authority = authority
        /\ saved'.release = release /\ saved'.disclosed = disclosed /\ saved'.used = used
    BY <1>4 DEF Copy, Database
  <2>2. QED
    BY <1>1, <1>4, <2>1 DEF Copy, IInv, Tables, tables
<1>5. CASE Restore
  BY <1>1, <1>5 DEF Restore, IInv, Tables
<1>6. CASE UNCHANGED vars
  BY <1>1, <1>6 DEF IInv, Tables, vars, tables
<1>7. QED
  BY <1>2, <1>3, <1>4, <1>5, <1>6 DEF Next

LEMMA InvariantHolds == Spec => []IInv
<1>1. QED
  BY InitInv, StepInv, PTL DEF Spec

-----------------------------------------------------------------------------
(* The charges never exceed the budget, a release never has more accesses  *)
(* than its allowance, and every table keeps its shape.                    *)
THEOREM TypeCorrect == Spec => []TypeOK
<1>1. IInv => TypeOK
  BY DEF IInv, Sound, Shapes, Bound, TypeOK
<1>2. QED
  BY <1>1, InvariantHolds, PTL

(* Every grant of the chain is certified by a commit and an activation     *)
(* that nothing came between, also in a database that was put back.        *)
THEOREM GrantsCertified == Spec => []GrantsAreCertified
<1>1. IInv => GrantsAreCertified
  <2> SUFFICES ASSUME IInv PROVE GrantsAreCertified
    OBVIOUS
  <2>1. log \in Seq(EventType) /\ Certified(log)
    BY DEF IInv, Sound, Shapes
  <2>2. DOMAIN log = 1..Len(log)
    BY <2>1
  <2>3. QED
    BY <2>1, <2>2 DEF Certified, GrantsAreCertified
<1>2. QED
  BY <1>1, InvariantHolds, PTL

(* A release that is authorized or active froze the history that is        *)
(* current: a disclosure suspends every other one (commit), so that the    *)
(* comparison of _current_history repeats what the statuses say.           *)
CertificateIsCurrent ==
  \A r \in Releases : release[r].status \in Live => HistoryCurrent(r)

THEOREM HistoryIsCurrent == Spec => []CertificateIsCurrent
<1>1. IInv => CertificateIsCurrent
  BY DEF IInv, Sound, HistoryKept, CertificateIsCurrent, HistoryCurrent
<1>2. QED
  BY <1>1, InvariantHolds, PTL

(* No receipt is ever undone by a receipt that the same client gets later. *)
THEOREM ReceiptsForward == Spec => ReceiptsGoForward
<1>1. IInv /\ [Next]_vars => [\A c \in Clients : IsPrefix(known[c], known'[c])]_vars
  <2> SUFFICES ASSUME IInv, [Next]_vars, NEW d \in Clients
               PROVE  IsPrefix(known[d], known'[d])
    OBVIOUS
  <2>1. known \in [Clients -> Seq(EventType)]
    BY DEF IInv
  <2>2. IsPrefix(known[d], known[d])
    BY <2>1 DEF IsPrefix
  <2>3. ASSUME NEW c \in Clients, NEW now \in Times, NEW final \in Times, Operation(c, now, final)
        PROVE  IsPrefix(known[d], known'[d])
    <3>1. PICK e \in EventType : \/ known' = known
                               \/ known' = [known EXCEPT ![c] = Append(log, e)]
      BY <2>3, OperationKeeps
    <3>2. known[c] = log /\ log \in Seq(EventType)
      BY <2>3, OperationKeeps
    <3>3. IsPrefix(log, Append(log, e))
      BY <3>2, AppendPrefix
    <3>4. QED
      BY <2>1, <2>2, <3>1, <3>2, <3>3
  <2>4. ASSUME NEW c \in Clients, NEW f \in Clients, HandOver(c, f)
        PROVE  IsPrefix(known[d], known'[d])
    BY <2>1, <2>2, <2>4 DEF HandOver
  <2>5. CASE known' = known
    BY <2>2, <2>5
  <2>6. QED
    BY <2>3, <2>4, <2>5 DEF Next, Copy, Restore, vars
<1>2. QED
  BY <1>1, InvariantHolds, PTL DEF Spec, ReceiptsGoForward
=============================================================================
