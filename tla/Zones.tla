-------------------------------- MODULE Zones --------------------------------
(***************************************************************************)
(* The names of the estate: the domain rows of server/src/db.ts, the zones *)
(* the Technitium resolvers serve, and the mail domains of the mail host,  *)
(* which three routes of server/src/routes.ts keep in step: the console's  *)
(* /domains, the bridge's /service/domains and the provisioning and        *)
(* teardown of a tenant at /service/tenants.  A record that is added makes  *)
(* its zone on the way.  Each tenant has the platform's resolver or one of *)
(* its own, and may change it between two requests or under one.           *)
(*                                                                         *)
(* A request is a program counter over its awaits.  It reads rows before   *)
(* an await and uses what it read after it, so what is in a slot may be    *)
(* stale.  A resolver answers or refuses each request; its effect and      *)
(* the continuation of the handler are two steps.                          *)
(***************************************************************************)
EXTENDS ServiceKeys

CONSTANTS
  Call,      \* slots for the requests in flight
  Name,      \* the domain names
  Platform,  \* the apex and the lab domain of the server identity
  Resolver,  \* the platform's resolver and those of tenants
  Own,       \* the resolvers that may become a tenant's
  Rank,      \* where a name stands in a resolver's list of zones
  PageSize,  \* how many zones are read of that list (100)
  Standing,  \* zones that may be there at the start
  Held,      \* <<name, tenant>>: names that may be on record at the start
  MaxRow,    \* bound: row ids handed out
  MaxBegun   \* bound: requests begun

ASSUME ZonesAssumption ==
  /\ Platform \subseteq Name
  /\ Name # {} /\ IsFiniteSet(Name)
  /\ IsFiniteSet(Call)
  /\ MaxRow \in Nat /\ MaxBegun \in Nat
ASSUME ResolverAssumption ==
  /\ Own \in [Tenant -> (SUBSET Resolver) \ {{}}]
  /\ Rank \in [Name -> Nat] /\ PageSize \in Nat
ASSUME StartAssumption ==
  /\ Standing \subseteq Resolver \X Name
  /\ Held \subseteq Name \X Tenant
  /\ Held # {} => MaxRow # 0

VARIABLES
  rows,    \* the table domains
  lastId,  \* its AUTOINCREMENT counter
  elected, \* the resolver of each tenant
  zones,   \* which resolver serves which name
  mail,    \* what the mail host has for each name
  call,    \* the requests
  begun,   \* how many there were so far
  seen     \* history: what was true at some moment of each request

vars == <<rows, lastId, elected, zones, mail, keys, call, begun, seen>>

Row == [id : 1..MaxRow, name : Name, tenant : Tenant]
NoRow == 0

\* Not a key: a signed-in user.
Session == "session"

Op == {"add", "record", "cover", "provision", "drop", "handback", "teardown"}
Pc == {"idle", "list", "create", "delete", "reply", "mail", "check"}

\* row: the id the handler read; at: the resolver it read for its tenant; wipe:
\* removeDomain; ok: the resolver's answer lets the handler go on to the row; key:
\* the key that goes to the mail host;
\* gone, mailGone: accountRemoved and mailDomainRemoved.  An idle slot shows what
\* its teardown has just answered, until the next step: ok is zoneRemoved and
\* removed is whether anything went.
Work == [pc : Pc, op : Op, tenant : Tenant, name : Name, row : 0..MaxRow,
         at : Resolver, key : Key \cup {Session},
         wipe : BOOLEAN, ok : BOOLEAN, gone : BOOLEAN, mailGone : BOOLEAN,
         removed : BOOLEAN]

Idle == [pc |-> "idle", op |-> "add", tenant |-> CHOOSE t \in Tenant : TRUE,
         name |-> CHOOSE n \in Name : TRUE, row |-> NoRow,
         at |-> CHOOSE s \in Resolver : TRUE, key |-> Session,
         wipe |-> FALSE, ok |-> FALSE, gone |-> FALSE, mailGone |-> FALSE, removed |-> FALSE]

Seen == [unserved : BOOLEAN, crowded : BOOLEAN, anything : BOOLEAN, owned : BOOLEAN]
NothingSeen == [unserved |-> FALSE, crowded |-> FALSE, anything |-> FALSE, owned |-> FALSE]

MailState == {"none", "domain", "box"}

TypeOK ==
  /\ rows \subseteq Row
  /\ lastId \in 0..MaxRow
  /\ elected \in [Tenant -> Resolver]
  /\ zones \subseteq Resolver \X Name
  /\ mail \in [Name -> MailState]
  /\ keys \in [Key -> KeyState]
  /\ call \in [Call -> Work]
  /\ \A c \in Call : call[c].pc = "delete" => call[c].row # NoRow
  /\ begun \in 0..MaxBegun
  /\ seen \in [Call -> Seen]

-----------------------------------------------------------------------------
(* The table.                                                              *)

RowsOf(n, t) == {r \in rows : r.name = n /\ r.tenant = t}

\* getDomainByName within a tenant, as the id or NoRow.
RowId(n, t) == IF RowsOf(n, t) = {} THEN NoRow ELSE (CHOOSE r \in RowsOf(n, t) : TRUE).id

\* Mutant of CanCreate: the index is per tenant, as the routes' check is.
CanCreatePerTenant(n) == \E t \in Tenant : RowsOf(n, t) = {}

\* The INSERT meets the UNIQUE index on the name, whichever tenant holds it.
CanCreate(n) == \A r \in rows : r.name # n

CreateDomain(n, t) ==
  /\ lastId' = lastId + 1
  /\ rows' = rows \cup {[id |-> lastId + 1, name |-> n, tenant |-> t]}

DeleteDomain(i, t) ==
  /\ rows' = {r \in rows : ~(r.id = i /\ r.tenant = t)}
  /\ UNCHANGED lastId

\* The answer of a teardown is seen until the next step.
Answered(w) == IF w.pc = "idle" THEN Idle ELSE w

Goto(c, w) == call' = [d \in Call |-> IF d = c THEN w ELSE Answered(call[d])]

\* The answer of a teardown: zoneRemoved, and whether anything was removed.
Reported(w, freed) == [Idle EXCEPT !.op = "teardown", !.ok = freed,
                                   !.removed = freed \/ w.gone \/ w.mailGone]

-----------------------------------------------------------------------------
(* Requests that register a name.                                          *)

\* Room for the rows of the requests under way: the bound MaxRow.
Room == lastId + Cardinality({c \in Call : call[c].pc \in {"list", "create", "reply"}
                                          /\ call[c].row = NoRow}) < MaxRow

Fresh(op, n, t) == [Idle EXCEPT !.op = op, !.name = n, !.tenant = t]

\* providerConnectionForTenant is read, and then its resolver is asked.
Asking(w, pc) == [w EXCEPT !.pc = pc, !.at = elected[w.tenant]]

\* A tenant's connections are edited, so that another one is elected (Providers).
Elect(t, s) ==
  /\ s # elected[t]
  /\ elected' = [elected EXCEPT ![t] = s]
  /\ UNCHANGED <<rows, lastId, zones, mail, keys, call>>

\* The scopes the routes of the bridge ask for.
DomainScopes == {<<"domains", "write">>, Bare("domains"), <<"dns", "write">>, Bare("dns"), All}
TenantScopes == {<<"tenants", "write">>, Bare("tenants"), <<"tenant", "write">>, Bare("tenant"), All}
RecordScopes == {<<"dns", "write">>, Bare("dns"), All}
MailScopes == {<<"mail", "provision">>}

\* The key acts for the tenant and has the scopes.
Asks(k, t, need) == Admits(k, need) /\ t \in TenantsOf(k)

\* POST /domains; a name of the tenant is a 409.
StartAdd(c, n, t) ==
  /\ call[c].pc = "idle" /\ RowId(n, t) = NoRow /\ Room
  /\ Goto(c, Asking(Fresh("add", n, t), "list"))
  /\ UNCHANGED <<rows, lastId, zones, mail>>

\* POST /service/domains.
BridgeAdd(c, n, t) ==
  /\ \E k \in Key : Asks(k, t, DomainScopes)
  /\ StartAdd(c, n, t)

\* addRecord ensures the zone first.
Record(c, n, t) ==
  /\ call[c].pc = "idle"
  /\ Goto(c, Asking(Fresh("record", n, t), "list"))
  /\ UNCHANGED <<rows, lastId, zones, mail>>

\* POST /domains/:id/records of a registered name, and POST
\* /service/dns/records of any.
StartRecord(c, n, t) == RowId(n, t) # NoRow /\ Record(c, n, t)
BridgeRecord(c, n, t) == (\E k \in Key : Asks(k, t, RecordScopes)) /\ Record(c, n, t)

\* A certificate asked for without a domain registers the apex on the way.
StartCover(c, n, t) ==
  /\ call[c].pc = "idle" /\ n \in Platform /\ RowId(n, t) = NoRow /\ Room
  /\ Goto(c, Asking(Fresh("cover", n, t), "list"))
  /\ UNCHANGED <<rows, lastId, zones, mail>>

\* POST /service/tenants: a row of the tenant's own is kept.
StartProvision(c, n, t, k) ==
  /\ call[c].pc = "idle" /\ Asks(k, t, TenantScopes)
  /\ RowId(n, t) # NoRow \/ Room
  /\ LET w == [Fresh("provision", n, t) EXCEPT !.key = k] IN
     Goto(c, IF RowId(n, t) # NoRow THEN [w EXCEPT !.pc = "mail"] ELSE Asking(w, "list"))
  /\ UNCHANGED <<rows, lastId, zones, mail>>

\* The resolver is not asked again.
Told(w, ok) == [w EXCEPT !.pc = "reply", !.at = Idle.at, !.ok = ok]

\* After ensureZone: a record is added or not; of the others only the cover of a
\* certificate takes no row for a zone it could not have.
Zoned(w, told) ==
  IF w.op = "record" THEN Idle
  ELSE Told(w, told \/ w.op # "cover")

\* What a resolver serves, and what its list shows of that: the first page only.
ZonesAt(z, s) == {n \in Name : <<s, n>> \in z}
Page(z, s) ==
  {n \in ZonesAt(z, s) :
     Cardinality({m \in ZonesAt(z, s) : Rank[m] < Rank[n]}) < PageSize}

\* ensureZone lists the zones; a zone on the list ends it, and a list that
\* cannot be read does not stop it from creating.
ResolverLists(c) ==
  /\ call[c].pc = "list"
  /\ LET w == call[c] IN
     \/ Goto(c, [w EXCEPT !.pc = "create"])
     \/ w.name \in Page(zones, w.at) /\ Goto(c, Zoned(w, TRUE))
  /\ UNCHANGED <<rows, lastId, zones, mail>>

\* The zone a request is about.
Zone(w) == <<w.at, w.name>>

\* The resolver creates the zone, or refuses: it is there, listed or not, or it
\* is down; or its answer is lost.
ResolverCreates(c) ==
  /\ call[c].pc = "create"
  /\ \E done, told \in BOOLEAN :
       /\ told => done
       /\ done => Zone(call[c]) \notin zones
       /\ zones' = IF done THEN zones \cup {Zone(call[c])} ELSE zones
       /\ Goto(c, Zoned(call[c], told))
  /\ UNCHANGED <<rows, lastId, mail>>

AfterRow(w) == IF w.op = "provision" THEN [w EXCEPT !.pc = "mail", !.ok = FALSE] ELSE Idle

\* Mutant of Register: a row that cannot be taken is passed over, as a zone
\* that cannot be created is.
RegisterSoft(c) ==
  /\ call[c].pc = "reply" /\ call[c].op \in {"add", "cover", "provision"}
  /\ LET w == call[c] IN
     IF w.ok /\ CanCreate(w.name)
     THEN CreateDomain(w.name, w.tenant) /\ Goto(c, AfterRow(w))
     ELSE Goto(c, AfterRow(w)) /\ UNCHANGED <<rows, lastId>>
  /\ UNCHANGED <<zones, mail>>

\* The INSERT, which fails on a name that is on record.
Register(c) ==
  /\ call[c].pc = "reply" /\ call[c].op \in {"add", "cover", "provision"}
  /\ LET w == call[c] IN
     IF w.ok /\ CanCreate(w.name)
     THEN CreateDomain(w.name, w.tenant) /\ Goto(c, AfterRow(w))
     ELSE Goto(c, Idle) /\ UNCHANGED <<rows, lastId>>
  /\ UNCHANGED <<zones, mail>>

\* The mail host asks GET /service/whoami what the key it was handed is.
Adjudicated(w) == Admits(w.key, MailScopes)

\* After ensureGroup, whose failure is only a warning, the mail host builds
\* what is missing, or refuses; an answer that does not come in time is an
\* error for the caller, built or not.
MailProvisions(c) ==
  /\ call[c].pc = "mail" /\ call[c].op = "provision"
  /\ \/ Adjudicated(call[c]) /\ mail' = [mail EXCEPT ![call[c].name] = "box"]
     \/ UNCHANGED mail
  /\ Goto(c, Idle)
  /\ UNCHANGED <<rows, lastId, zones>>

-----------------------------------------------------------------------------
(* Requests that hand a name back.                                         *)

\* DELETE /domains/:id, of a row of the tenant's.
StartDrop(c, r) ==
  /\ call[c].pc = "idle" /\ r \in rows
  /\ Goto(c, Asking([Fresh("drop", r.name, r.tenant) EXCEPT !.row = r.id], "delete"))
  /\ UNCHANGED <<rows, lastId, zones, mail>>

\* DELETE /service/domains: never a platform zone.  The mail host makes this
\* request too, on the caller's key, when it removes a mail domain.
StartHandback(c, n, t) ==
  /\ \E k \in Key : Asks(k, t, DomainScopes)
  /\ call[c].pc = "idle" /\ n \notin Platform /\ RowId(n, t) # NoRow
  /\ Goto(c, Asking([Fresh("handback", n, t) EXCEPT !.row = RowId(n, t)], "delete"))
  /\ UNCHANGED <<rows, lastId, zones, mail>>

\* DELETE /service/tenants: the mail half first.
StartTeardown(c, n, t, k, wipe) ==
  /\ call[c].pc = "idle" /\ n \notin Platform /\ Asks(k, t, TenantScopes)
  /\ Goto(c, [Fresh("teardown", n, t) EXCEPT !.key = k, !.pc = "mail", !.wipe = wipe])
  /\ UNCHANGED <<rows, lastId, zones, mail>>

\* Mutant of ZoneHalf: a teardown does not ask whether it found a row.
ZoneHalfBlind(w) ==
  IF ~w.wipe THEN Reported(w, FALSE)
  ELSE Asking([w EXCEPT !.row = RowId(w.name, w.tenant)], "delete")

\* The zone half of a teardown reads the tenant's resolver and the row after the
\* mail host answered.
ZoneHalf(w) ==
  LET i == RowId(w.name, w.tenant) IN
  IF ~w.wipe THEN Reported(w, FALSE)
  ELSE IF i = NoRow THEN Asking(w, "check")
  ELSE Asking([w EXCEPT !.row = i], "delete")

\* The mail host removes the mailbox, and the mail domain if asked; or it
\* refuses, or is not reached, and nothing else is undone.
MailDeprovisions(c) ==
  /\ call[c].pc = "mail" /\ call[c].op = "teardown"
  /\ LET w == call[c]
         left == IF w.wipe \/ mail[w.name] = "none" THEN "none" ELSE "domain"
         told == [w EXCEPT !.key = Session, !.gone = mail[w.name] = "box",
                           !.mailGone = w.wipe /\ mail[w.name] # "none"] IN
     \/ /\ Adjudicated(w) /\ mail' = [mail EXCEPT ![w.name] = left]
        /\ Goto(c, ZoneHalf(told)) \/ Goto(c, Idle)
     \/ UNCHANGED mail /\ Goto(c, Idle)
  /\ UNCHANGED <<rows, lastId, zones>>

\* Mutant of StillServed: an unreadable resolver serves nothing.
StillServedHopeful(w, readable) == readable /\ w.name \in Page(zones, w.at)

\* zoneStillServed: a list that cannot be read says the name is served; a name
\* beyond the page that is read counts as not served.
StillServed(w, readable) == ~readable \/ w.name \in Page(zones, w.at)

\* Mutant of ZoneRemoved: an unserved name counts as removed.
ZoneRemovedAnyway(w, served) == ~served

\* Without a row the zone counts as removed only when the resolver no longer
\* serves the name and the mail domain went in this very call.
ZoneRemoved(w, served) == ~served /\ w.mailGone

CheckServed(c) ==
  /\ call[c].pc = "check"
  /\ \E readable \in BOOLEAN :
       LET w == call[c] IN
       Goto(c, Reported(w, ZoneRemoved(w, StillServed(w, readable))))
  /\ UNCHANGED <<rows, lastId, zones, mail>>

\* deleteZone, at the resolver of the moment the request read it, whichever has
\* the zone: one that is not there is a success.  The console's route has
\* its own request, which is not sent for a tenant without a provider.  Only a
\* teardown minds what the resolver said.
ResolverDeletes(c) ==
  /\ call[c].pc = "delete"
  /\ \E done, told \in BOOLEAN :
       /\ told => done
       /\ zones' = IF done THEN zones \ {Zone(call[c])} ELSE zones
       /\ Goto(c, Told(call[c], told \/ call[c].op # "teardown"))
  /\ UNCHANGED <<rows, lastId, mail>>

\* Mutant of Drops: a teardown drops its row like the other routes.
DropsAlways(w) == w.op \in Op

\* A teardown keeps its row for a retry when the resolver refused.
Drops(w) == w.ok

Drop(c) ==
  /\ call[c].pc = "reply" /\ call[c].op \in {"drop", "handback", "teardown"}
  /\ LET w == call[c] IN
     /\ IF Drops(w) THEN DeleteDomain(w.row, w.tenant) ELSE UNCHANGED <<rows, lastId>>
     /\ Goto(c, IF w.op = "teardown" THEN Reported(w, w.ok) ELSE Idle)
  /\ UNCHANGED <<zones, mail>>

-----------------------------------------------------------------------------
\* Of a teardown, whether the resolver it asked did not serve its name, whether
\* that resolver had more zones than its list showed, and whether there was anything
\* of the name anywhere; of a provision, whether its name was the tenant's.
Moment(w) ==
  [unserved |-> w.op = "teardown" /\ w.pc \in {"check", "delete"} /\ Zone(w) \notin zones',
   crowded |-> w.pc = "check" /\ Cardinality(ZonesAt(zones', w.at)) > PageSize,
   anything |-> w.op = "teardown" /\ (\/ \E s \in Resolver : <<s, w.name>> \in zones'
                                      \/ mail'[w.name] # "none"
                                      \/ \E r \in rows' : r.name = w.name),
   owned |-> w.op = "provision" /\ \E r \in rows' : r.name = w.name /\ r.tenant = w.tenant]

Either(s, m) == [unserved |-> s.unserved \/ m.unserved,
                 crowded |-> s.crowded \/ m.crowded,
                 anything |-> s.anything \/ m.anything,
                 owned |-> s.owned \/ m.owned]

Begins(c) == call[c].pc = "idle" /\ call'[c].pc # "idle"
Count ==
  /\ begun' = IF \E c \in Call : Begins(c) THEN begun + 1 ELSE begun
  /\ begun' <= MaxBegun

\* A request's history starts with its first step; a teardown's outlives it.
Observe ==
  seen' = [c \in Call |->
    IF call'[c] = Idle THEN NothingSeen
    ELSE IF call'[c].pc = "idle" /\ call[c].pc = "idle" THEN seen[c]
    ELSE IF Begins(c) THEN Moment(call'[c])
    ELSE Either(seen[c], Moment(call[c]))]

Init ==
  /\ keys = [k \in Key |-> "unused"]
  /\ \/ rows = {} /\ lastId = 0
     \/ \E h \in Held : rows = {[id |-> 1, name |-> h[1], tenant |-> h[2]]} /\ lastId = 1
  /\ elected \in {e \in [Tenant -> Resolver] : \A t \in Tenant : e[t] \in Own[t]}
  /\ zones \in SUBSET Standing
  /\ mail = [n \in Name |-> "none"]
  /\ call = [c \in Call |-> Idle] /\ begun = 0
  /\ seen = [c \in Call |-> NothingSeen]

Step ==
  \E c \in Call :
    \/ \E n \in Name, t \in Tenant :
         \/ StartAdd(c, n, t) \/ BridgeAdd(c, n, t)
         \/ StartRecord(c, n, t) \/ BridgeRecord(c, n, t)
         \/ StartCover(c, n, t) \/ StartHandback(c, n, t)
         \/ \E k \in Key :
              \/ StartProvision(c, n, t, k)
              \/ \E wipe \in BOOLEAN : StartTeardown(c, n, t, k, wipe)
    \/ \E r \in rows : StartDrop(c, r)
    \/ ResolverLists(c) \/ ResolverCreates(c) \/ Register(c)
    \/ MailProvisions(c) \/ MailDeprovisions(c)
    \/ CheckServed(c) \/ ResolverDeletes(c) \/ Drop(c)

Next ==
  /\ \/ Step /\ UNCHANGED <<keys, elected>>
     \/ KeysNext /\ UNCHANGED <<rows, lastId, elected, zones, mail, call>>
     \/ \E t \in Tenant : \E s \in Own[t] : Elect(t, s)
  /\ Count
  /\ Observe

Spec == Init /\ [][Next]_vars

-----------------------------------------------------------------------------
\* A name is on record once, whichever tenants raced for it: the routes look
\* for it within a tenant, await the resolver, and insert.
OneRowPerName ==
  /\ \A r, q \in rows : r.name = q.name => r = q
  /\ \A r \in rows : r.id <= lastId

\* A removal that is reported took place: the resolver that was asked did not serve
\* the name at some moment after it was asked (zoneRemoved of the teardown), except
\* where it served more zones than zoneStillServed reads of its list.  "Nothing
\* should claim a removal it cannot see" (routes.ts:1823): beyond that page the code
\* does claim it, and what another resolver serves of the name nobody asks.
RemovalIsReal ==
  \A c \in Call :
    call[c].pc = "idle" /\ call[c].ok => seen[c].unserved \/ seen[c].crowded

\* A teardown of a name nobody had anything for, all along, reports that
\* nothing was removed: a repeated webhook does not report a second removal.
RepeatRemovesNothing ==
  \A c \in Call :
    call[c].pc = "idle" /\ call[c].removed => seen[c].anything

\* A row goes only by a request of its own tenant that read that very row,
\* so a name registered anew while a removal is under way keeps its row; and
\* a teardown takes the row only after the resolver that was asked let the name go.
RowsGoByOwner ==
  [][\A r \in rows \ rows' : \E c \in Call :
       /\ call[c] # call'[c]
       /\ call[c].row = r.id /\ call[c].tenant = r.tenant
       /\ call[c].op = "teardown" => seen[c].unserved]_vars

\* The mail host changes a name only on a key that is good at that moment and
\* acts for the tenant, and builds only what that tenant has, or had while it
\* asked, on record: a revocation is immediate everywhere, and losing the race
\* for a name stops the provisioning.  Removals are held to the key alone: a teardown
\* asks the mail host before it looks for a row, and whose domain it is the mail
\* host decides.
MailOnOwnName ==
  [][\A n \in Name : mail[n] # mail'[n] =>
       \E c \in Call :
         /\ call[c] # call'[c] /\ call[c].name = n
         /\ \E k \in Key : /\ call[c].key = k /\ keys[k] = "live"
                           /\ Bound[k] \in {call[c].tenant, Anyone}
         /\ mail[n] = "none" => seen[c].owned]_vars
=============================================================================
