------------------------------ MODULE Lifecycle ------------------------------
(***************************************************************************)
(* The lifecycle reference, lifecycle_reference.py (LifecycleRegistry): a  *)
(* local registry of releases whose writers must present the checkpoint    *)
(* that an earlier receipt gave them.                                      *)
(*                                                                         *)
(* Every operation is one SQLite transaction on the tables and the event   *)
(* chain.  A checkpoint names the hash of the chain, so that here it is    *)
(* the chain itself.  The clock is not trusted to advance: each            *)
(* transaction reads it twice and compares.  A client may lose the receipt *)
(* of a transaction that committed, and an older copy of the database file *)
(* may be put in place.                                                    *)
(***************************************************************************)
EXTENDS Integers, Sequences, FiniteSets, SequencesExt

CONSTANTS
  Clients,
  Releases,      \* release identifiers, each with a nonce of its own
  None,
  Authorities,
  Installs,      \* what administrators install: an epoch, a status and an expiry
  Terms,         \* what a request asks for: until (the least of its three
                 \* expiries), allowance (max_accesses), cost and unit
  Budget,        \* budget_limit
  MaxTime,       \* bound on the clock of the model
  MaxEvents,     \* bound on the event chain
  MaxRestores    \* bound on the restores of the model

ASSUME LifecycleAssumption ==
  /\ None \notin Releases \cup Authorities
  /\ Installs \subseteq [epoch : Nat, status : {"valid", "unknown", "revoked"}, until : Nat]
  /\ Terms \subseteq [until : Nat \ {0}, allowance : Nat \ {0}, cost : Nat, unit : Nat \ {0}]
  /\ Budget \in Nat /\ MaxTime \in Nat
  /\ MaxEvents \in Nat /\ MaxRestores \in Nat

Times == 0..MaxTime
Epochs == {new.epoch : new \in Installs}

VARIABLES
  log,        \* the event chain
  last,       \* last_time: the clock at the last event
  authority,  \* installed authorities
  release,    \* registered releases and their frozen requests
  disclosed,  \* disclosure history; it is never shortened
  used,       \* sum of the charges
  known,      \* each client: the checkpoint of its newest receipt
  saved,      \* a copy of the database file
  restores    \* number of restores

tables == <<last, authority, release, disclosed, used>>
vars == <<log, tables, known, saved, restores>>

-----------------------------------------------------------------------------
NoAuthority == [epoch |-> -1, status |-> "unknown", until |-> 0]
NoRelease == [status |-> "none", authority |-> None, epoch |-> 0, until |-> 0, history |-> {},
              allowance |-> 0, unit |-> 0, lease |-> 0, grants |-> 0]

Live == {"authorized", "active"}

Database == [log |-> log, last |-> last, authority |-> authority, release |-> release,
             disclosed |-> disclosed, used |-> used]

Init ==
  /\ log = << >> /\ last = 0
  /\ authority = [a \in Authorities |-> NoAuthority]
  /\ release = [r \in Releases |-> NoRelease]
  /\ disclosed = {} /\ used = 0
  /\ known = [c \in Clients |-> << >>]
  /\ saved = Database /\ restores = 0

\* Mutant: the checkpoint is compared by its sequence number alone.
SequenceOnly(c) == Len(known[c]) = Len(log)
Expected(c) == known[c] = log

(* A transaction of c that reads the clock at now and, before it commits,  *)
(* at final.  The receipt may get lost on its way to the client.           *)
Transition(c, event, now, final) ==
  /\ Expected(c) /\ Len(log) < MaxEvents
  /\ last <= now /\ now <= final
  /\ log' = Append(log, [event EXCEPT !.at = now])
  /\ last' = now
  /\ known' \in {known, [known EXCEPT ![c] = log']}
  /\ UNCHANGED <<saved, restores>>

Event(op, r, a) == [op |-> op, release |-> r, authority |-> a, at |-> 0, until |-> 0]

(* _authority: it is valid, at this epoch, and has time left.              *)
\* Mutant: whatever epoch is installed now will do.
ValidNow(a, epoch, t) == authority[a].status = "valid" /\ t < authority[a].until
Valid(a, epoch, t) ==
  /\ authority[a].status = "valid" /\ authority[a].epoch = epoch
  /\ t < authority[a].until

(* _live_release, at both readings of the clock.                           *)
Prerequisites(r, t) ==
  /\ release[r].status # "none"
  /\ Valid(release[r].authority, release[r].epoch, t)
  /\ t < release[r].until

HistoryCurrent(r) == disclosed = release[r].history \cup {r}

\* Mutant: the budget is compared before the units are added.
ChargeableBefore(units) == used <= Budget
Chargeable(units) == used + units <= Budget
-----------------------------------------------------------------------------
SetAuthority(c, a, new, now, final) ==
  /\ new.epoch > authority[a].epoch
  /\ Transition(c, Event("authority", None, a), now, final)
  /\ authority' = [authority EXCEPT ![a] = new]
  /\ UNCHANGED <<release, disclosed, used>>

(* A request freezes the exact disclosure history.  The new disclosure     *)
(* suspends every release that is not stopped yet.                         *)
Suspended == [r \in Releases |->
  IF release[r].status \in Live THEN [release[r] EXCEPT !.status = "suspended", !.lease = 0]
  ELSE release[r]]

Commit(c, r, a, epoch, terms, now, final) ==
  /\ Valid(a, epoch, final) /\ final < terms.until
  /\ release[r].status = "none"
  /\ Chargeable(terms.cost)
  /\ Transition(c, Event("commit", r, a), now, final)
  /\ release' = [Suspended EXCEPT ![r] =
       [status |-> "authorized", authority |-> a, epoch |-> epoch, until |-> terms.until,
        history |-> disclosed, allowance |-> terms.allowance, unit |-> terms.unit,
        lease |-> 0, grants |-> 0]]
  /\ disclosed' = disclosed \cup {r}
  /\ used' = used + terms.cost
  /\ UNCHANGED authority

(* Activation and grants also compare the measured artifact and interface  *)
(* with the request; a difference is one more refusal and is left out.     *)
Activate(c, r, lease, now, final) ==
  /\ Prerequisites(r, final) /\ HistoryCurrent(r)
  /\ release[r].status = "authorized"
  /\ final < lease /\ lease <= release[r].until
  /\ lease <= authority[release[r].authority].until
  /\ Transition(c, [Event("activate", r, release[r].authority) EXCEPT !.until = lease],
                now, final)
  /\ release' = [release EXCEPT ![r].status = "active", ![r].lease = lease]
  /\ UNCHANGED <<authority, disclosed, used>>

GrantAccess(c, r, now, final) ==
  /\ Prerequisites(r, final) /\ HistoryCurrent(r)
  /\ release[r].status = "active" /\ final < release[r].lease
  /\ release[r].grants < release[r].allowance
  /\ Chargeable(release[r].unit)
  /\ Transition(c, Event("grant", r, release[r].authority), now, final)
  /\ release' = [release EXCEPT ![r].grants = @ + 1]
  /\ used' = used + release[r].unit
  /\ disclosed' = disclosed \cup {r}
  /\ UNCHANGED authority

(* Any valid authority may revoke any release.                             *)
Revoke(c, r, a, epoch, now, final) ==
  /\ Valid(a, epoch, final)
  /\ release[r].status \notin {"none", "revoked"}
  /\ Transition(c, Event("revoke", r, a), now, final)
  /\ release' = [release EXCEPT ![r].status = "revoked", ![r].lease = 0]
  /\ UNCHANGED <<authority, disclosed, used>>
-----------------------------------------------------------------------------
(* Outside the registry: a client passes its checkpoint on to one that is  *)
(* behind, the file is copied, and an older copy is put in place.          *)
HandOver(c, d) ==
  /\ IsPrefix(known[d], known[c]) /\ known[d] # known[c]
  /\ known' = [known EXCEPT ![d] = known[c]]
  /\ UNCHANGED <<log, tables, saved, restores>>

Copy ==
  /\ restores < MaxRestores
  /\ saved' = Database
  /\ UNCHANGED <<log, tables, known, restores>>

Restore ==
  /\ restores < MaxRestores /\ restores' = restores + 1
  /\ log' = saved.log /\ last' = saved.last /\ authority' = saved.authority
  /\ release' = saved.release /\ disclosed' = saved.disclosed /\ used' = saved.used
  /\ UNCHANGED <<known, saved>>

Operation(c, now, final) ==
  \/ \E a \in Authorities, new \in Installs : SetAuthority(c, a, new, now, final)
  \/ \E r \in Releases, a \in Authorities, epoch \in Epochs :
       \/ \E terms \in Terms : Commit(c, r, a, epoch, terms, now, final)
       \/ Revoke(c, r, a, epoch, now, final)
  \/ \E r \in Releases :
       \/ \E lease \in Times : Activate(c, r, lease, now, final)
       \/ GrantAccess(c, r, now, final)

Next ==
  \/ \E c \in Clients, now, final \in Times : Operation(c, now, final)
  \/ \E c, d \in Clients : HandOver(c, d)
  \/ Copy \/ Restore

Spec == Init /\ [][Next]_vars
-----------------------------------------------------------------------------
Status == {"none", "authorized", "active", "suspended", "revoked"}
EventType == [op : {"authority", "commit", "activate", "grant", "revoke"},
              release : Releases \cup {None}, authority : Authorities, at : Nat, until : Nat]
AuthorityType == [epoch : Nat \cup {-1}, status : {"valid", "unknown", "revoked"}, until : Nat]
ReleaseType == [status : Status, authority : Authorities \cup {None}, epoch : Nat, until : Nat,
                history : SUBSET Releases, allowance : Nat, unit : Nat, lease : Nat, grants : Nat]

(* Type invariant; it also bounds the charges and the accesses.            *)
TypeOK ==
  /\ log \in Seq(EventType) /\ last \in Nat
  /\ authority \in [Authorities -> AuthorityType]
  /\ release \in [Releases -> ReleaseType]
  /\ \A r \in Releases :
       /\ release[r].grants <= release[r].allowance
       /\ release[r].status # "none" => release[r].authority \in Authorities
  /\ disclosed \in SUBSET Releases /\ used \in 0..Budget
  /\ known \in [Clients -> Seq(EventType)]
  /\ restores \in Nat

(* Event i commits the release that event j uses, and between them nothing *)
(* was disclosed, the release was not revoked, and its authority was not   *)
(* replaced.                                                               *)
Stops(e, use) ==
  \/ e.op = "commit"
  \/ e.op = "revoke" /\ e.release = use.release
  \/ e.op = "authority" /\ e.authority = use.authority

Certifies(h, i, j) ==
  /\ h[i].op = "commit" /\ h[i].release = h[j].release
  /\ \A k \in i+1..j-1 : ~Stops(h[k], h[j])

(* Every grant of the chain is certified: its release was committed and    *)
(* then activated under a lease that had not ended, and no disclosure,     *)
(* revocation or new authority came between, in whatever order operators   *)
(* raced (_live_release, _current_history, commit, grant_access).          *)
GrantsAreCertified ==
  \A j \in DOMAIN log : log[j].op = "grant" =>
    \E i \in 1..j-1 :
      /\ Certifies(log, i, j)
      /\ \E m \in i+1..j-1 :
           /\ log[m].op = "activate" /\ log[m].release = log[j].release
           /\ log[j].at < log[m].until

(* The receipts of a client are one chain: an operation whose receipt a    *)
(* client has is never undone by a later operation that it gets a receipt  *)
(* for, even when an older database was put in place and another client    *)
(* went on from there (_verify).                                           *)
ReceiptsGoForward == [][\A c \in Clients : IsPrefix(known[c], known'[c])]_vars
=============================================================================
