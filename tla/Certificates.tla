---------------------------- MODULE Certificates ----------------------------
(***************************************************************************)
(* The certificate pipeline: the certificates and server_identity tables   *)
(* of server/src/db.ts and everything that writes them, the jobs of        *)
(* server/src/jobs.ts, the ACME order of services/acme.ts, the server's    *)
(* own wildcard in services/serverIdentity.ts and the routes under         *)
(* /certificates and /server in routes.ts.                                 *)
(*                                                                         *)
(* A job is a program counter over its awaits.  What it read before an     *)
(* await (the wildcard row, the apex, the row it works for) it carries     *)
(* along, as the code's local variables do.                                *)
(***************************************************************************)
EXTENDS Naturals, FiniteSets

CONSTANTS
  Task,        \* slots for the jobs in flight
  Timer,       \* the slot in which the orchestrator interval runs
  Apex,        \* server identities: the apexes <serverId>.<labDomain>
  Configured,  \* the apex of the same server id under the configured lab domain
  Domain,      \* all the domains certificates are issued for
  MaxRow,      \* bound on the row ids in use at a time
  MaxTenantRows, \* bound on the rows users keep
  Life,        \* ticks a new certificate is valid
  KeepFor,     \* ensureWildcardPki keeps a wildcard with more ticks left (7 days)
  UpgradeAt,   \* tryUpgradeWildcardToAcme renews with fewer ticks left (14 days)
  RenewAt,     \* the renewal sweep's horizon (30 days)
  Reverts,     \* may the administrator go back to a former identity?  FALSE where
               \* recovery is asked for: a server that returns to a former name
               \* may keep another name's wildcard (KeptWildcardCoversApex)
  Crashes      \* may the process be killed and started again?

ASSUME TimerAssumption == Timer \in Task
ASSUME ApexAssumption ==
  /\ Apex \subseteq Nat \ {0} /\ 1 \in Apex /\ Apex \subseteq Domain
  /\ Configured \in [Apex -> Apex] /\ Configured[1] = 1
ASSUME LifeAssumption ==
  /\ Life \in Nat /\ KeepFor \in Nat /\ UpgradeAt \in Nat /\ RenewAt \in Nat
  /\ KeepFor < UpgradeAt /\ UpgradeAt <= RenewAt /\ RenewAt <= Life
ASSUME RowsAssumption == MaxRow \in Nat /\ MaxTenantRows \in Nat
ASSUME WorldAssumption == Reverts \in BOOLEAN /\ Crashes \in BOOLEAN

VARIABLES
  cert,        \* the certificates table: a row, or Absent, for each id
  apex,        \* server_identity.wildcard_domain
  wild,        \* server_identity.wildcard_cert_id, 0 when NULL
  task         \* the jobs

vars == <<cert, apex, wild, task>>

Id == 1..MaxRow

\* Certificate and key: the domain they are for, and the ticks until they expire.
NoMaterial == [subject |-> 0, left |-> 0]
Material == [subject : Domain, left : 0..Life]

Row == [owner : {"server", "tenant"}, domain : Domain,
        status : {"issuing", "issued", "error"}, source : {"none", "pki", "acme"},
        mat : Material \cup {NoMaterial}]

\* A deleted id, or one never given out.
Absent == [owner |-> "nobody"]

Job == {"sweep", "default", "issue"}
Waiting == {"zone", "ensure", "mint", "push", "upgrade", "probe", "account", "order"}

\* row: the wildcard row as read; own: the row the job is for; name: the domain
\* as read.
Work == [pc : Waiting \cup {"idle"}, job : Job, row : 0..MaxRow, own : 0..MaxRow,
         name : Domain]

Idle == [pc |-> "idle", job |-> "sweep", row |-> 0, own |-> 0, name |-> 1]

TypeOK ==
  /\ cert \in [Id -> Row \cup {Absent}]
  /\ apex \in Apex
  /\ wild \in 0..MaxRow
  /\ task \in [Task -> Work]

-----------------------------------------------------------------------------
(* The tables.                                                             *)

Live == {i \in Id : cert[i] # Absent}

\* Mutant of InUse: without AUTOINCREMENT, an id is free once its row is deleted.
InUseByRows == Live

\* AUTOINCREMENT never gives an id out twice.  Ids that nothing refers to any
\* more are indistinguishable from new ones, so those are the ones to choose from.
InUse == Live \cup {task[t].row : t \in Task} \cup {task[t].own : t \in Task}
Unused == Id \ (InUse \cup {wild})
\* For a row the identity will point at: it forgets the row it pointed at before.
UnusedAfterwards == Id \ InUse
Least(S) == CHOOSE i \in S : \A j \in S : i <= j

\* createCertificate.
NewRow(owner, domain, source) ==
  [owner |-> owner, domain |-> domain, status |-> "issuing", source |-> source,
   mat |-> NoMaterial]

\* Mutant of Saved: records the validity asked for, and not what is left of it.
SavedTooLong(i, subject, source) ==
  IF i \in Live
  THEN [cert EXCEPT ![i].mat = [subject |-> subject, left |-> Life + 1],
                    ![i].status = "issued", ![i].source = source]
  ELSE cert

\* saveCertificateMaterial, which leaves domain and domains_json as they are.
\* The UPDATE of a row deleted in the meantime touches nothing.
Saved(i, subject, source) ==
  IF i \in Live
  THEN [cert EXCEPT ![i].mat = [subject |-> subject, left |-> Life],
                    ![i].status = "issued", ![i].source = source]
  ELSE cert

\* updateCertificateStatus.
WithStatus(i, status) == IF i \in Live THEN [cert EXCEPT ![i].status = status] ELSE cert

Goto(t, work) == task' = [task EXCEPT ![t] = work]
Done(t) == Goto(t, Idle)

-----------------------------------------------------------------------------
(* ensureWildcardPki.                                                      *)

\* The row the identity names, if it is still there.
WildRow == IF wild \in Live THEN wild ELSE 0

\* Mutant of Reusable: only the names are looked at.
ReusableIfCovering(i) == cert[i].mat # NoMaterial /\ cert[i].domain = apex

\* A wildcard is kept when it is valid long enough and its recorded names
\* cover the apex.
Reusable(i) ==
  /\ cert[i].mat # NoMaterial
  /\ cert[i].mat.left > KeepFor
  /\ cert[i].domain = apex

\* Where a job goes when ensureWildcardPki returns: a sweep goes on to the
\* upgrade, POST /certificates to the ACME job for the row it created, by
\* runIssueJob, which reads the row again.
AfterEnsure(w) ==
  CASE w.job = "sweep" -> [w EXCEPT !.pc = "upgrade", !.row = 0, !.name = 1]
    [] w.job = "default" /\ w.own \in Live ->
         [w EXCEPT !.pc = "account", !.job = "issue", !.row = 0, !.name = cert[w.own].domain]
    [] w.job = "default" /\ w.own \notin Live -> Idle

\* Up to its first await: keep the wildcard there is or start to mint one.
EnsureWildcard(w) ==
  IF WildRow # 0 /\ Reusable(WildRow)
  THEN AfterEnsure(w)
  ELSE [w EXCEPT !.pc = "mint", !.row = WildRow, !.name = apex]

\* orchestratorSweep, up to the end of the CRS calls it awaits; also
\* POST /server/wildcard/renew, which awaits nothing before.
StartSweep(t) ==
  /\ task[t].pc = "idle"
  /\ Goto(t, [Idle EXCEPT !.pc = "ensure"])
  /\ UNCHANGED <<cert, apex, wild>>

Ensure(t) ==
  /\ task[t].pc = "ensure"
  /\ Goto(t, EnsureWildcard(task[t]))
  /\ UNCHANGED <<cert, apex, wild>>

\* The wildcard is minted: save it on the row read before, or make it a row
\* and point the identity at it.
MintOk(t) ==
  /\ task[t].pc = "mint"
  /\ LET w == task[t] IN
     IF w.row # 0
     THEN /\ cert' = Saved(w.row, w.name, "pki")
          /\ UNCHANGED wild
     ELSE /\ UnusedAfterwards # {}
          /\ wild' = Least(UnusedAfterwards)
          /\ cert' = [cert EXCEPT ![wild'] =
                        [NewRow("server", w.name, "pki") EXCEPT
                           !.mat = [subject |-> w.name, left |-> Life], !.status = "issued"]]
  /\ Goto(t, [task[t] EXCEPT !.pc = "push", !.row = 0, !.name = 1])
  /\ UNCHANGED apex

MintFail(t) ==
  /\ task[t].pc = "mint"
  /\ Goto(t, AfterEnsure(task[t]))
  /\ UNCHANGED <<cert, apex, wild>>

\* The zone is ensured and the certificate pushed to NPM, or neither: failures
\* there are swallowed.
Pushed(t) ==
  /\ task[t].pc = "push"
  /\ Goto(t, AfterEnsure(task[t]))
  /\ UNCHANGED <<cert, apex, wild>>

-----------------------------------------------------------------------------
(* tryUpgradeWildcardToAcme.                                               *)

Fresh(i) == cert[i].source = "acme" /\ cert[i].mat # NoMaterial /\ cert[i].mat.left >= UpgradeAt

Upgrade(t) ==
  /\ task[t].pc = "upgrade"
  /\ IF WildRow # 0 /\ Fresh(WildRow)
     THEN Done(t)
     ELSE Goto(t, [task[t] EXCEPT !.pc = "probe", !.own = WildRow, !.name = apex])
  /\ UNCHANGED <<cert, apex, wild>>

\* Technitium answers the quick probe: make sure there is a row, then order.
ProbeOk(t) ==
  /\ task[t].pc = "probe"
  /\ IF task[t].own # 0
     THEN /\ Goto(t, [task[t] EXCEPT !.pc = "account"])
          /\ UNCHANGED <<cert, wild>>
     ELSE /\ UnusedAfterwards # {}
          /\ wild' = Least(UnusedAfterwards)
          /\ cert' = [cert EXCEPT ![wild'] = NewRow("server", task[t].name, "none")]
          /\ Goto(t, [task[t] EXCEPT !.pc = "account", !.own = wild'])
  /\ UNCHANGED apex

Offline(t) ==
  /\ task[t].pc = "probe"
  /\ Done(t)
  /\ UNCHANGED <<cert, apex, wild>>

-----------------------------------------------------------------------------
(* issueCertificate, and what its callers do with the outcome.             *)

\* Mutant of Recorded: a failed issue job leaves its row as it is.
NotRecorded(w) == cert

\* A job records a failure on its row; the upgrade only reports it.
Recorded(w) == IF w.job = "issue" THEN WithStatus(w.own, "error") ELSE cert

\* Technitium answers, the account and the CSR are ready: mark the row and order.
Order(t) ==
  /\ task[t].pc = "account"
  /\ cert' = WithStatus(task[t].own, "issuing")
  /\ Goto(t, [task[t] EXCEPT !.pc = "order"])
  /\ UNCHANGED <<apex, wild>>

Ordered(t) ==
  /\ task[t].pc = "order"
  /\ cert' = Saved(task[t].own, task[t].name, "acme")
  /\ Done(t)
  /\ UNCHANGED <<apex, wild>>

\* Technitium is unreachable, the order fails, or the challenge times out.
IssueFail(t) ==
  /\ task[t].pc \in {"account", "order"}
  /\ cert' = Recorded(task[t])
  /\ Done(t)
  /\ UNCHANGED <<apex, wild>>

-----------------------------------------------------------------------------
(* The routes.                                                             *)

RoomForOne ==
  /\ Unused # {}
  /\ Cardinality({i \in Live : cert[i].owner = "tenant"}) < MaxTenantRows

IssueJob(i, domain) ==
  [Idle EXCEPT !.pc = "account", !.job = "issue", !.own = i, !.name = domain]

\* POST /certificates for a domain under a registered zone.
Create(t, d) ==
  /\ task[t].pc = "idle"
  /\ RoomForOne
  /\ LET i == Least(Unused) IN
     /\ cert' = [cert EXCEPT ![i] = NewRow("tenant", d, "none")]
     /\ Goto(t, IssueJob(i, d))
  /\ UNCHANGED <<apex, wild>>

\* POST /certificates without a domain: the apex of the moment, whose zone is
\* ensured first.
StartDefault(t) ==
  /\ task[t].pc = "idle"
  /\ RoomForOne
  /\ Goto(t, [Idle EXCEPT !.pc = "zone", !.job = "default", !.name = apex])
  /\ UNCHANGED <<cert, apex, wild>>

CreateDefault(t) ==
  /\ task[t].pc = "zone"
  /\ RoomForOne
  /\ LET i == Least(Unused)
         w == [task[t] EXCEPT !.own = i]
     IN /\ cert' = [cert EXCEPT ![i] = NewRow("tenant", w.name, "pki")]
        /\ Goto(t, IF WildRow # 0 /\ Reusable(WildRow)
                   THEN IssueJob(i, w.name)
                   ELSE [w EXCEPT !.pc = "mint", !.row = WildRow, !.name = apex])
  /\ UNCHANGED <<apex, wild>>

\* POST /certificates/:id/renew.
Renew(t, i) ==
  /\ task[t].pc = "idle"
  /\ cert' = WithStatus(i, "issuing")
  /\ Goto(t, IssueJob(i, cert[i].domain))
  /\ UNCHANGED <<apex, wild>>

\* DELETE /certificates/:id: the identity keeps pointing at the row.
Delete(i) ==
  /\ cert' = [cert EXCEPT ![i] = Absent]
  /\ UNCHANGED <<apex, wild, task>>

\* POST /server/identity.
ChangeIdentity(a) ==
  /\ a # apex
  /\ Reverts \/ a > apex
  /\ apex' = a
  /\ UNCHANGED <<cert, wild, task>>

-----------------------------------------------------------------------------
(* Time and crashes.                                                       *)

Older(m) == IF m.left > 0 THEN [m EXCEPT !.left = @ - 1] ELSE m

Tick ==
  /\ \E i \in Live : cert[i].mat.left > 0
  /\ cert' = [i \in Id |-> IF i \in Live THEN [cert[i] EXCEPT !.mat = Older(@)] ELSE Absent]
  /\ UNCHANGED <<apex, wild, task>>

\* The process dies and is started again: the database's constructor sets the
\* lab domain back to the configured one, and a sweep starts at once.
Restart ==
  /\ Crashes
  /\ apex' = Configured[apex]
  /\ task' = [t \in Task |-> IF t = Timer THEN [Idle EXCEPT !.pc = "ensure"] ELSE Idle]
  /\ UNCHANGED <<cert, wild>>

Init ==
  /\ cert = [i \in Id |-> Absent]
  /\ apex = 1
  /\ wild = 0
  /\ task = [t \in Task |-> IF t = Timer THEN [Idle EXCEPT !.pc = "ensure"] ELSE Idle]

\* What a job under way does when minting, which is all local, does not fail.
Proceed(t) ==
  \/ Ensure(t)
  \/ MintOk(t)
  \/ Pushed(t)
  \/ Upgrade(t)
  \/ ProbeOk(t)
  \/ Offline(t)
  \/ Order(t)
  \/ Ordered(t)
  \/ IssueFail(t)
  \/ CreateDefault(t)

Advance(t) == Proceed(t) \/ MintFail(t)

User(t) ==
  \/ \E d \in Domain : Create(t, d)
  \/ StartDefault(t)
  \/ \E i \in Live : Renew(t, i)

\* What happens to the jobs from outside.
Outside ==
  \/ \E t \in Task : StartSweep(t)
  \/ \E t \in Task \ {Timer} : User(t)
  \/ \E i \in Live : Delete(i)
  \/ \E a \in Apex : ChangeIdentity(a)
  \/ Restart

Next ==
  \/ \E t \in Task : Advance(t)
  \/ Outside
  \/ Tick

Spec == Init /\ [][Next]_vars

\* The interval timer keeps starting sweeps, a call that is awaited ends one way
\* or the other (each has a timeout), and minting, which is local cryptography,
\* is not interrupted or made to fail every single time.  Nothing is assumed of
\* users, of the ACME server or of Technitium.
FairSpec ==
  /\ Spec
  /\ WF_vars(StartSweep(Timer))
  /\ SF_vars(MintOk(Timer))
  /\ \A t \in Task : WF_vars(Advance(t))

-----------------------------------------------------------------------------
(* renewalSweep, kept apart from Next: as the code stands it never finds   *)
(* anything to do.                                                         *)

\* listExpiringSoon compares two texts.  expires_at is X509Certificate.validTo,
\* which begins with the name of a month (A, D, F, J, M, N, O, S); the cutoff
\* is an ISO timestamp, which begins with the digit 2.
MonthInitials == {65, 68, 70, 74, 77, 78, 79, 83}
BeforeCutoff == \E c \in MonthInitials : c < 50

DueSoon == {i \in Live : cert[i].status = "issued" /\ cert[i].mat # NoMaterial /\ BeforeCutoff}

RenewalSweep(t) ==
  /\ task[t].pc = "idle"
  /\ \E i \in DueSoon :
       Goto(t, IF cert[i].source = "pki" THEN [Idle EXCEPT !.pc = "ensure"]
               ELSE IssueJob(i, cert[i].domain))
  /\ UNCHANGED <<cert, apex, wild>>

RenewalSpec ==
  /\ Init /\ [][Next \/ \E t \in Task : RenewalSweep(t)]_vars
  /\ SF_vars(RenewalSweep(Timer))
  /\ WF_vars(StartSweep(Timer))
  /\ \A t \in Task : WF_vars(Advance(t))

-----------------------------------------------------------------------------
(* Properties.                                                             *)

\* A certificate a tenant asked for never holds material for another name,
\* whatever was renewed, deleted or re-created while its order was under way
\* and however the server's identity changed: only the wildcard's row, which
\* is never a tenant's, is written for the identity's sake.
TenantRowsFit ==
  /\ \A i \in Live : cert[i].owner = "tenant" /\ cert[i].mat # NoMaterial
                      => cert[i].mat.subject = cert[i].domain
  /\ wild \in Live => cert[wild].owner = "server"

\* As long as the process lives, a tenant's row that says "issuing" is being
\* worked on, also when several jobs for one row overlap and end in any order:
\* only a crash leaves one behind.
Attended(i) ==
  i \in Live /\ cert[i].owner = "tenant" /\ cert[i].status = "issuing"
    => \E t \in Task : task[t].own = i /\ task[t].pc # "idle"
IssuingIsAttended == [][Restart \/ \A i \in Id : Attended(i) => Attended(i)']_vars

\* A wildcard ensureWildcardPki would keep is for the apex of the moment: "a
\* stale wildcard must be re-issued rather than kept" (serverIdentity.ts:127).
\* The code does not see to it: what it looks at is the names on record, which a
\* new certificate on an old row leaves as they were.
KeptWildcardCoversApex ==
  WildRow # 0 /\ Reusable(WildRow) => cert[WildRow].mat.subject = apex

\* The server has a certificate it can serve under its own name.
Serves ==
  WildRow # 0 /\ cert[WildRow].mat.subject = apex /\ cert[WildRow].mat.left > 0

\* Whenever it has none (first boot, row deleted, identity changed, expired,
\* overwritten by a late job), the sweeps get it one again, unless somebody
\* deletes the wildcard's row time and again, under the sweeps' hands.
WildcardDeleted == wild \in Live /\ cert'[wild] = Absent
WildcardRecovers == []<>Serves \/ []<><<WildcardDeleted>>_vars

\* "Cerulean renews on a timer (auto_renew), for issued rows"
\* (docs/certificates.md:24): a tenant's issued certificate near its end does
\* not stay as it is.
Due(i) ==
  /\ i \in Live /\ cert[i].owner = "tenant"
  /\ cert[i].status = "issued" /\ cert[i].mat.left < RenewAt
RenewedOnTimer == \A i \in Id : Due(i) ~> ~ Due(i)
=============================================================================
