# Cerulean in TLA+

Cerulean is one Node process that owns a SQLite database and talks to
DNS servers (Technitium), a proxy (Nginx Proxy Manager), a vault, an identity
provider, an ACME server and other Cerulean nodes. Its database calls are
synchronous, so nothing interleaves inside one of them; everything interleaves at
an `await`. Jobs started by timers and by HTTP requests overlap freely: no job
checks whether another one of its kind is under way. Paths below are relative to
the repository root; `server/` is the portal.

This directory holds the specifications of its core, the TLC configurations that
model-check them, and proofs checked by TLAPS. `PROJECT.json` maps every
definition to the lines it stands for.

    tlc -config MCCrs.cfg MCCrs        # one run
    tlapm CrsProofs.tla                # one module of proofs

## 1. Inventory

For each component: what it keeps, what it does, with whom, what is hard about
it, and what makes it correct. *Modelled* means there is a module for it here.

**Private CA and client certificates** (`server/src/services/pki.ts`; *modelled*).
Keeps the singleton `ca` row (root key, serial counter) and `client_certificates`.
Issues with a generated key or from a CSR, revokes, creates the root on demand,
and mints the server's wildcard off the same root and counter. Hard: key
generation, import, signing and CSR verification are awaits between looking a name
up and inserting it, and between finding no root and storing one. Correct when a
tenant has one active certificate per name, no serial is used twice, everything
verifies against the one root, and whoever is told "issued" finds it on record.

**Certificates, jobs, wildcard** (`services/acme.ts`, `services/serverIdentity.ts`,
`jobs.ts`; *modelled*). Keeps `certificates` rows (status, source, material, expiry)
and the server identity's pointer to its wildcard's row. POST, renew and delete
routes, an orchestrator sweep at boot and every 6 h (register, keep or mint the
wildcard, try to upgrade it to ACME), a renewal sweep every 12 h. Hard: overlapping
jobs on one row, a row deleted under a job, an identity that changes while a
wildcard is being minted, crashes, time. Correct when a row holds only material for
its own name, no row is left "issuing" without a job, and the wildcard in service is
for the name of the moment, never expires and comes back when lost. As the code
stands, the wildcard may be for another name (`wildcard_returns`).

**Central registration servers** (`services/crs.ts`; *modelled*). Each node keeps
an identity, a registry of servers, a resolved role and the outcome of its last
probe. Nodes probe a home or master, register with it, pull its registry, and
accept registrations when they take themselves for a master. Hard: connections
break with the other side having acted or not, answers arrive late, two sweeps
overlap, identities change, processes restart, and an isolated node accepts peers.
Correct when what a node holds as confirmed by its master is on record there, no
id on record is lost, and roles and replicas converge once the network is back.

**Database** (`server/src/db.ts`; *modelled as far as these components use it*).
Its tables; unique indexes that carry invariants (one active client certificate
per tenant and name, one `ca` row, one server per id); a constructor that seeds the
identity and resets its lab domain at every boot.

**Jobs, routes, start-up** (`jobs.ts`, `routes.ts`, `index.ts`; *the parts that drive
the above*). No state of their own but the timers.

**Technitium client** (`services/technitium.ts`; *modelled: the session, zones,
challenge values*). One module-level session token for all connections; requests
repeated once with a session login after `invalid-token`; zones ensured by
list-then-create. Correct when one retry is enough unless the server itself drops
the session.

**DNS-01 challenges** (`dns01.ts`, `dns.ts`, `acme.ts`; *modelled*). TXT values of
concurrent authorizations under one name, at the resolver a tenant had elected when
its order began. Hard: two parts of one order run side by side, one may fail while
the other goes on, removals are refused, the tenant edits its connections meanwhile.
Correct when an order's value is in place while it is validated, and is removed
where it was put, and nothing else is.

**Tenants and DNS providers** (`tenants.ts`, `providers.ts`; *modelled*). Which
resolver a tenant's zones use is elected by flag or order among its rows. Correct
when a tenant has at most one default, also after a write that failed half way.

**Domains, zones and mail** (the routes `/domains`, `/service/domains`,
`/service/tenants`; *modelled*). A domain is a row, a zone at the resolver and a
domain at the mail host, kept in step by requests that read, await and write. Hard:
names unique globally while the routes look within a tenant; teardowns repeated by
webhooks; soft failures; keys revoked and resolvers exchanged under way; a list of
zones that is read up to its first page. Correct when a name has one owner,
a removal that was reported happened, a row goes only by its owner's request, and
the mail host acts on a good key for a tenant's own name.

**Service API keys** (`serviceAuth.ts`; *modelled*). Keys bound to a tenant or to
none, scoped by family and action, revoked or deleted for good.

**Nginx Proxy Manager client** (`services/npm.ts`; *modelled: certificates, hosts'
certificates and gates*). A sync reads a
row, lists hosts and certificates, imports in two calls or refreshes, and writes back
copies of the hosts it listed. Hard: a failure between the two calls, hosts changed
between list and write, a wildcard and a host's own certificate competing. Correct
when a sync delivers what it set out with, renewals refresh in place, a wildcard
displaces no certificate of a host, and a gate is there once, with its CA file. All
but the last is so only of a sync that nothing overlaps with.

**Sessions, single sign-on** (`auth.ts`, `oidc.ts`, `tenants.ts`, and the browser's side
in `web/src`; *modelled*). Sessions and one-time states in maps of the process. Hard:
callbacks sent twice, states and sessions that time out, restarts, browsers that hold
two tokens, groups that change. Correct when a state is good for one session, a
session acts only for tenants its groups admit, and an ended one stays ended.

**Audit and health** (`audit.ts`, `health.ts`; *the two scores, as functions*).

**Vault client** (`vault.ts`; not modelled). It writes the material of the rows to the
vault, one call a row, and resolves references at start-up; nothing reads the copies
back, so no decision depends on them.

**Discovery**, **DHCP and blocking**, **enrollment profile**, **Authentik client**,
**configuration** (not modelled). Readers, thin pass-throughs, or reports: no
decision depends on a state they keep.

**Scripts** (`scripts/`; not modelled). `authentik-update.sh` is a real state
machine (lock, pins, apply, verify, roll back, commit, push) and
`vault-entrypoint.sh` another (init, store keys, unseal, serve tokens); both have
crash hazards. The others reconcile, provision or alert, one shot each.

**Web interface** (*the session and the providers page*), **Python plugin, hooks, CI**
(not modelled). Clients and checks with no further state that matters here.

### How they interact

Routes and timers call services; services call the database synchronously and
other products over HTTP with a timeout. The wildcard ties three components
together: the orchestrator sweep registers with the CRS master, then has the
private CA mint under the identity's apex, then orders from ACME through
Technitium, then pushes to the proxy. An order runs at the resolver that the
tenant's providers elect; a domain's row, zone and mail are brought up and torn
down by requests that a session or a service key admits. Shared state between
concurrent jobs is the database rows, the module variables of `auth.ts`, `oidc.ts`,
`crs.ts` and `technitium.ts`, and what the other products keep.

The hazards this gives rise to are listed in `PROJECT.json`, each at its line and
with the properties that would catch it.

## 2. Modules

| Module | Models | State |
|---|---|---|
| `CredentialRegistry` | what the PKI promises, abstractly: one authority, at most one active credential per tenant and name, serials spent once | `authority, held, spent` |
| `PrivateCa` | `pki.ts`, its tables, the minting path of `serverIdentity.ts` | `ca, keysMade, serial, certs, minted, req` |
| `PrivateCaProofs` | theorems about `PrivateCa` | |
| `Certificates` | certificate rows, the jobs on them, the wildcard, identity, time, crashes | `cert, apex, wild, task` |
| `WildcardUpkeep` | `Certificates` with the clock tied to the orchestrator's timer | adds `swept` |
| `WildcardNames` | `Certificates` with a history of the names the server went by | adds `former` |
| `Crs` | several nodes running `crs.ts`, the network between them, crashes | `online, ident, reg, role, probed, task` |
| `CrsProofs` | theorems about `Crs` | |
| `CertificatesProofs` | theorems about `Certificates`, `WildcardUpkeep` and `WildcardNames`, and a name's health score | |
| `TechnitiumSession` | how requests to Technitium are authorised | `cached, valid, call` |
| `TechnitiumSessionProofs` | theorems about `TechnitiumSession` | |
| `Providers` | the resolvers a tenant registers, and which one is elected | `providers` |
| `DnsChallenge` | the exchange inside an order; extends `Providers` | adds `records, order, refused, shared` |
| `DnsChallengeProofs` | theorems about both | |
| `ServiceKeys` | the keys other stacks call with | `keys` |
| `Zones` | domains as rows, zones and mail; extends `ServiceKeys` | adds `rows, lastId, elected, zones, mail, call, begun, seen` |
| `ZonesProofs` | theorems about `Zones`, and the audit's score | |
| `Mirrors` | the copies of certificates at the proxy manager | `material, hosts, store, reuploads, caFile, job, started, alone` |
| `MirrorsProofs` | theorems about `Mirrors` | |
| `Admission` | what signing in promises, abstractly: an invitation makes one session, a session acts only while it lives and for its own tenants | `member, begun, open, made, ended, granted` |
| `SignIn` | sessions, the sign-in flow, browsers, effective tenants | `tenants, member, flows, exchange, sessions, browser, grants` |
| `SignInProofs` | theorems about `SignIn` | |
| `Health` | the scores of audits and certificates | none |
| `MC...` | instances for TLC | |

The style is the same everywhere. A job in flight is a record with a program
counter over the *awaits* of the code and the local variables that survive them;
an action is what runs between two awaits. Where a local variable outlives an
await (the wildcard row a mint was started for, the identity a registration was
sent with, the registry as the master sent it) it is kept in the record, because
its being stale is what goes wrong. A field that no later step reads is reset to
a fixed value, so that equal states are equal. Operators whose comment begins with
"Mutant of" are not used by any specification: each is a plausible bug in the
definition that follows it, kept to show that a property notices.

**PrivateCa.** `StartIssue`, `StartCsr`, `StartOther` are the requests up to their
first await; `CsrVerified`, `CaMade`, `KeyReady`, `ClaimSerial`, `StoreSigned`,
`MintSigned` go on after each one; `Fail` is any awaited call that throws; `Revoke`
and `Restart` are atomic. A key is the number of its making, a certificate is its
tenant, name, serial and signer. `PrivateCa` implements `CredentialRegistry`: a row
of status "issued" is a held credential, the serials of all rows are the spent ones
(`RegistrySpec`).

**Certificates.** `StartSweep .. Pushed` are the orchestrator sweep through
`ensureWildcardPki`; `Upgrade .. Offline` are `tryUpgradeWildcardToAcme`; `Order`,
`Ordered`, `IssueFail` are `issueCertificate` and what its three callers do with the
outcome; `Create`, `StartDefault`, `CreateDefault`, `Renew`, `Delete`,
`ChangeIdentity` are routes. Certificate material is the name it is for and the
ticks left; a wildcard's recorded names are its row's domain. Row ids are never
given out twice by SQLite's AUTOINCREMENT; as ids nothing refers to any more cannot
be told from new ones, the model draws from those. The renewal sweep is kept in a
specification of its own (`RenewalSpec`), because as the code stands it selects
nothing.

**WildcardUpkeep.** A week does not pass before the six-hour timer has once more
taken `ensureWildcardPki` to its end. Users, other sweeps, crashes and the other
products stay unconstrained. It serves `WildcardStaysValid`, and the run
`wildcard_returns` shares its clock.

**WildcardNames.** `former` is history: the names left so far, by an administrator's
change or by the reset of a restart. It serves `MissesOnlyByReturn`.

**Crs.** Tasks are slots bound to a node; a job is one of sweep, sync sweep, role
resolution, and the two administrator routes. A call has up to two steps: the other
side handles it, the answer arrives. A node that goes offline cuts all calls from
and to it (`cut`), wherever they are; they end in a network error. A restart keeps
the tables, loses the jobs and the module variables, and resets the lab domain.
`PeerRegisters` and `PeerAsksForId` are other stacks registering here. A 409 whose
text contains "offline" is taken for a network error (`crs.ts:81`), which is what
happens when the refusing node is an offline slave; the model has both refusals.

**TechnitiumSession.** A call takes a configured token, the cached session or a new
login (`Start`, `Resolved`, `LoggedIn`), is accepted or refused by the server its
connection leads to (`Answered`, `Refused`), or fails. The cache is one variable for
all connections, as in the code: a session opened at one server is presented at
another, refused, cleared, and replaced. A session is known by its server and by
whether that server still has it. Servers forget sessions (`Forget`) and tokens get
revoked (`Revoke`) at any time. DHCP and blocking have their own token handling
without a cache and are not part of it.

**Providers, DnsChallenge.** The provider handlers await nothing, so each is one action;
clearing the defaults and writing the row are two statements, and a name that is taken stops
the second only. `DnsChallenge` composes them with orders: `StartOrder` elects the resolver
once; a value is published there, and awaited at the platform's resolver (`Appeared`), which
finds it if it is there or if it can find the tenant's; an order has a part for the name and
one for its wildcard, and each goes `Publish`, `Appeared` or `TimedOut`, `Validated`. A part
that fails takes its order out of "run"; the other part goes on in the background while
`CleansUp` removes what the order noted. Values of one order share a *stem* that the ACME
server hands out, and hands out again to one who asks twice (`shared`). A removal may be
refused (`refused`), a restart loses the orders and leaves their values. It is one step of
`Certificates` (`Ordered` or `IssueFail`) seen from inside.

**ServiceKeys, Zones.** A request is a slot; its operation is one of adding a domain
(console or bridge), adding a record (which makes the zone on the way), covering a
name of the platform, provisioning a tenant, dropping, handing back, and tearing
down. `ResolverLists`, `ResolverCreates`, `ResolverDeletes`, `MailProvisions`,
`MailDeprovisions` and `CheckServed` are the external answers, each of which may be a
refusal; `Register` and `Drop` are the writes of the row that come after. A tenant's resolver is
`elected`, which it may change at any time (`Elect`); a request reads it where the code
calls `providerConnectionForTenant` (`Asking`), and that resolver is asked, whichever
one serves the name. A list of zones shows its first `PageSize` zones (`Page`), so a
zone beyond them is made again or counts as not served (`StillServed`), and deleting
a zone that is not there succeeds. The key of a
request is looked at when it comes in and again by the mail host (`Adjudicated`).
`seen` is history: whether the resolver a teardown asked did not serve its name at
some moment, or had more zones than it lists, whether there was anything of the name,
and whether a provision's name was the tenant's.

**Mirrors.** NPM's certificates are a sequence, in the order they were made; a host has
its certificate, its forced flag and its custom configuration, of which the model has
the administrator's rule and the lines of the client-certificate block. Builds of NPM
differ in whether a JSON create stores files and whether there is an upload route
(`reuploads`). Every operation carries the copies it listed and writes them back; an
operation may fail at any request (`Fails`). `Scanned`, `Scan` and `Strip` are the loop
by which `applyMtlsConfig` takes an earlier block out, line by line. `alone` is
history: whether an operation has been the only one since it began.

**SignIn.** `Authorize` is open to every browser, signed in or not. `Callback` is any
browser with any state, as nothing ties the two; it takes the state out of the map
before the exchange is awaited, and `Exchanged` reads the account's groups of that
moment, the platform's among them, and makes the session that keeps them. A browser has a
local token and a cookie, sends the local one if it has it, drops it on a 401
(`Request`), and moves the cookie over on boot (`Reload`). `grants` is history: the
requests admitted, as session and tenant. Time is a step (`FlowTimesOut`,
`SessionTimesOut`) that the map notices only when it is looked at. `SignIn` implements
`Admission`: an invitation is open while its state is in the map *and* while a callback
that took it out awaits Authentik; the sessions are those ever made, ended ones
included (`AdmissionSpec`).

**Health.** Nothing here keeps state, so there is no run: the scores are functions of
what the probes said, and what is claimed of them is proved for every value
(`AgeingNeverHelps`, `ExpiringIsNeverA` in `CertificatesProofs`, `UndelegatedIsQuiet` in
`ZonesProofs`).

### Left out on purpose

X.509 and PKCS#12 encodings; activity logs; `crs_state`, which is written and never
read; row timestamps and metadata; tokens between CRS nodes, assumed to match; the
legacy `POST /server/register` and `registerServer`, which the sweep reaches for no
role (`jobs.ts:110`); `autoWildcard`, assumed on; in `Certificates` the push to the
proxy, whose failure is swallowed and changes no row (what it does there is `Mirrors`);
NPM's own login and the routing fields of a host; DNS records other than challenges;
the vault, which is written row by row and read by nobody here.

## 3. Runs

Twelve runs: nine whose properties hold, three that show a disagreement. TLC finishes
each within four minutes on two cores.

| Run | Question | Result |
|---|---|---|
| `private_ca` | two overlapping requests of any kind, with restarts: names, serials, root, answers, history, refinement | holds |
| `certificates` | sweep and user job on two rows, deletion, id reuse, identity change, crash, time: does a tenant's row ever get foreign material, does anything but a crash leave one "issuing" without a job, and does a lost wildcard come back? | holds |
| `wildcard_returns` | "a stale wildcard must be re-issued rather than kept" (`serverIdentity.ts:127`): also when the identity is edited and reset? | violated |
| `certificates_renewal` | "Cerulean renews on a timer" (`docs/certificates.md:24`) | violated |
| `crs` | chain of three nodes: is everything marked as the master's on record there, are ids ever lost? | holds |
| `crs_converge` | do role and replica settle after outages, restarts, overlapping jobs of any kind? | holds |
| `technitium_session` | is a caller with a password ever told "session expired" though the server dropped nothing? | holds (never) |
| `challenges` | two orders under one name while the tenant's connections change: is a value in place while it is validated, is anything left behind, is there ever a second default? | holds |
| `zones` | requests on two names by two tenants and a key, at two resolvers that list one zone: one owner per name, a reported removal true of the resolver that was asked unless it had more zones than it listed, rows dropped by their owner, mail on the tenant's own name? | holds |
| `mirrors` | two operations at the proxy, imports that fail half way: one gate, no host on a certificate of another domain; and of a sync that ran alone: delivered, in place, nothing displaced by a wildcard? | holds |
| `mirrors_namesakes` | a wildcard and a plain certificate for one domain: does the file that serves a host name it? | violated |
| `sign_in` | two browsers: callbacks repeated and crossed, sessions and states timing out, restarts, groups changing: one session per state, ended stays ended, refinement (tenants by membership in it)? | holds |

### What the violations say

`certificates_renewal`: `expires_at` is OpenSSL text ("Nov 19 ..."), the cutoff an ISO
timestamp; the comparison is of strings, and a letter is never below the digit 2. The
renewal sweep therefore selects nothing, ever; what renews the server's wildcard is the
orchestrator sweep, and what renews anything else is a user.

`wildcard_returns`: the wildcard is kept if its row's `domains_json` names the apex of the
moment, and `saveCertificateMaterial`, by which a mint into an existing row is stored,
does not write that column. Identity A has its wildcard; the lab domain is edited to B, and
the next sweep mints B's certificate into A's row; at the next boot the constructor
resets the lab domain to the configured A (`db.ts:436`). The row still says A, so B's
certificate is kept as the server's wildcard until it nears its end. An administrator who
takes an edit back has the same effect. What holds is that there is no other way: a kept
wildcard is for another name only on a server that came back to a name it had left
(`MissesOnlyByReturn`). In `certificates` only the server id is edited and no edit is
taken back, as that run asks for a wildcard that *serves* the name, which for a
server that came back this disagreement rules out.

`mirrors_namesakes`: an upload leaves an entry at NPM the CN for its only name, and for
a certificate without an entry of its own `syncCertificateToNpm` falls back to one with
the same names (`npm.ts:478`). Once the wildcard of a domain has been uploaded, a sync
of a plain certificate for that domain therefore finds the wildcard's entry and replaces
its files; the hosts under the domain that the wildcard was attached to are then served
a certificate that does not name them (`ServedCovers`). What holds everywhere is
`ServedByDomain`: the files are always of a certificate of the right domain, one of
which names the host.

### Seen while modelling

What the code does that a reader of its documents or tests may not expect. None of
it has a run of its own; where a definition shows it, it is named.

- *Default certificate* (`CreateDefault`). POST without a domain makes a row "so the
  caller gets material" (`routes.ts:734`), and then mints the wildcard into the
  wildcard's own row, or keeps it; the row answered with stays empty until the ACME
  job fills it.
- *Restart* (`Restart` of `Crs` and `Certificates`). The constructor resets the lab domain
  whenever it differs from the environment, also when the environment is unchanged
  ("don't overwrite", `db.ts:436`).
- *Peers of an isolated node* (`Crs`). Once connected again it sends home its own
  identity only, although "Master holds all records" (`crs.ts:23`).
- *Central registration.* A taken id is honoured as a refresh (`crs.ts:448`); an
  administrator's sync at a master turns its own rows into replicas
  (`routes.ts:1494`); a re-registration without a lab domain overwrites the recorded
  one with the master's (`crs.ts:449`); `validateMasterConfig` can refuse nothing, as
  the CRS domain is never empty (`crs.ts:174`).
- *Private CA.* The root and the first leaf both bear serial 1 (`pki.ts:130`).
- *Certificates.* A wildcard row left "issuing" by a crash or a failed upgrade stays so
  until the next success.
- *Technitium.* Every rejection of a configured token also clears the good session of the
  call before, so a dead token costs two extra round trips a call where the comment at
  `technitium.ts:212` counts one.
- *Waiting for a challenge* (`Appeared`). A value is published at the tenant's resolver
  and awaited at the platform's (`acme.ts:36-55`), so the orders of a tenant whose own
  resolver is not the platform's time out unless the platform's finds the name there.
- *Providers* (`EditProvider`). A rename to a name that is taken fails after the defaults
  were cleared, and leaves none. A tenant's first provider becomes its default only
  below the route, which always passes a flag (`routes.ts:1244`; the test at
  `tests/providers.test.ts:149` calls below it). The page sends back the flag it loaded
  (`DnsProviders.tsx:93`), so saving a stale form moves the default; its text on
  deletion (line 119) speaks of the platform's resolver, which serves only a tenant
  with no row left.
- *Domains* (`Zones`). A zone that could not be created when its row was is not created
  by the retry, which is answered 409. `DELETE /domains/:id` never reaches the
  resolver for a tenant without a connection of its own. Adding a record re-creates a
  zone torn down meanwhile.
- *Long lists* (`Page`). `listZones` reads the first page of 100 zones (`technitium.ts:263`).
  A zone beyond it that is still served is reported removed by a teardown that finds no row
  and removes the mail domain (`StillServed`), although "nothing should claim a removal it cannot see"
  (`routes.ts:1823`): `RemovalIsReal` excepts resolvers with more zones than the page. And
  `ensureZone` takes such a zone for missing, and fails to create it.
- *A resolver left behind* (`Elect`). A teardown asks the resolver the tenant has now, and
  "not found" is a success there. A zone made at the tenant's earlier resolver, or the
  platform's, stays served and is reported removed; nothing here asks the others.
- *Proxy* (`Attach`, `Gate`). A gate set between the list and the write of a sync is lost,
  as the copy is written back whole. Two syncs at once import twice. And a host that was
  listed without a certificate and is given one before the write has it displaced by
  the wildcard, which "never overrides a certificate a host already has" (`npm.ts:431`; the
  list is at 447, the write at 505): `WildcardNeverReplaces` is therefore of a sync that
  ran alone.
- *Overlapping pulls* (`Crs`). An older answer of the master written over a node's own newer
  row is repaired by the next sweep; `crs_converge`, where that row never changes, does
  not show the time between.
- *Audit* (`UndelegatedIsQuiet`). A name without delegation scores 75, a B, since the audit
  stops at its first check; the sweep notes nothing.

### Bounds, and why they are enough

- *private_ca*: two requests at a time, since every race in `pki.ts` is between two holders
  of one piece of state (name, root, counter); two tenants sharing one name, so that "same
  name" and "same tenant" differ; three serials and three roots, one more than two requests
  need, so a spent one is followed by another. Requests are interchangeable (symmetry). The
  theorems hold for any numbers.
- *certificates*: one slot for the timer's sweep and one for anything a user or another
  sweep does; two ids, one row at most a tenant's, the smallest in which an id goes from the
  wildcard to a tenant; two apexes, which a restart does not reset (only the server id is
  edited) and no edit takes back. Life 1 and horizon 0 make every row either good or due.
  All the safety properties are proved without these bounds.
- *wildcard_returns*: two apexes, both of them reset to the first by a restart, and no
  tenant's row, the least in which a name is left and come back to; life 3 and horizon 1, so
  that the kept certificate is far from its end.
- *crs*: the chain b → a → home is the shortest in which a node is both a slave and
  someone's master; its nodes start with one id, so that registrations collide, and the last
  one may change to a second id while a call of its sweep is under way. `crs_converge` has
  two ids (the node's own and one that peers register) and two lab domains, so that a stale
  row differs from a fresh one, and two slots at one node, one for any kind of job, since
  overlap is between jobs of one process. Rows of different ids never influence each other,
  so more ids add nothing.
- *technitium_session*: three calls, as a refused call, the login that replaced its session
  and a call of another connection have to overlap; two servers, so that a session can be
  good at one and refused at the other; a connection of each kind (password, password and
  token, token only).
- *challenges*: a tenant with two connection names, the platform's resolver and one of its
  own, so that the election can change under an order; two orders of two parts, the least in
  which values of one order and of another meet under one name; two stems; `MaxRefused` is
  1: one value in flight at a time whose removal was refused.
- *zones*: two requests at once out of `MaxBegun` = 3, the third to find what two that
  overlapped left; two tenants that both want one name, and the platform's apex; two
  resolvers, the platform's and one of the first tenant's, between which it may change at
  any time; `PageSize` 1, so that of two zones one is beyond the list; one key, good for
  either tenant, which may be revoked at any time. The start may have the name on record and
  the apex served (`Held`, `Standing`), which saves the requests that would bring it about.
  `MaxRow` is 2, a name registered, dropped and registered anew. All of it is proved for any
  numbers (of requests and names, any finite one).
- *mirrors*: two operations at once out of `MaxStart` = 3 begun in all (issuances included),
  a wildcard certificate of a zone and one for a name in it, the host of that name and a
  deeper one no wildcard covers; two versions of a certificate, so that an older one can be
  told from a newer; two entries at NPM, one more than a certificate should have. Deadlock
  is not checked, as operations end when the bound is reached. `mirrors_namesakes` needs one
  operation at a time and a domain with both kinds of certificate. The theorems hold for any
  certificates, hosts and operations.
- *sign_in*: two browsers, either of which may send the other's callback, and each of which
  holds two tokens (symmetry); one account, which joins and leaves the group of the tenant
  and the platform's, so that a member, an administrator and neither are there in turn; the
  default tenant and another; two flows and two sessions. The theorems hold for any numbers.

### Fairness

Only the certificates and the registration servers have liveness properties; the
specifications of the other runs state no fairness.

`Certificates!FairSpec`: the interval timer fires (weak fairness of starting a sweep
in the timer's slot); a call that is awaited ends, since each has a timeout (weak
fairness of every job's step); minting, which is local computation, does not fail or
get interrupted every single time (strong fairness of `MintOk` in the timer's slot,
needed because a crash or failure may disable it again and again). Nothing is
assumed of users, ACME or Technitium, and `WildcardRecovers` excepts an operator who
keeps deleting the row. `Crs!FairSpec`: timers fire, calls end. The convergence
properties state what else they need as premises: the two nodes stay connected from
some time on, neither is restarted for ever, and for `ReplicaConverges` the master's
registry settles.

## 4. Proofs

TLAPS proves, for any values of the constants that satisfy the named assumptions of
the modules:

`PrivateCaProofs` (assumptions: at least one tenant and name, bounds are natural
numbers): `TypeCorrect`, `NamesUnique`, `SerialsDiffer`, `OneRoot`, `AnswersKept`,
`HistoryKept` and `Refinement`, that `PrivateCa` implements `CredentialRegistry`. All
rest on one inductive invariant, `IInv`: the type invariant; `RootInv` (past
`ensureCa` a request holds *the* root, and a root being made bears a number already
given); `SerialInv` (whatever is stored, minted or about to be signed bears a
serial at or below the counter, and all of them differ); `OneActivePerName`; and
`AnswerIsOnRecord`. `SerialsUnique` alone is not inductive: it says nothing of the
serials that requests have claimed and not yet used. `NamesUnique` is carried by the
index at insertion, not by the look-up before the awaits. The steps come one lemma
per action, over `SlotStep`, which says once what a step that only moves one request
preserves.

`CrsProofs` (assumptions: masters, slots, ids and domains are of their types):
`TypeCorrect`, `ReplicasSound`, `IdsKept`, for any graph of masters, cycles and
self-loops included, and any number of overlapping calls. `ReplicaSound` is not
inductive either: an answer under way must already be on record
(`AnswersSound`: a job in state "registered" has its id, and a job in state "pulled"
all its rows, on record at the master), and a job that probes must be one that a
probe can lead on (`ProbesLeadOn`). Since rows are never removed, what was on record
when the master answered still is when the answer arrives; `NothingLost` is that
fact, and `IdsKept` is its temporal form. `CarryOn` and `Severed` say once what
moving one job, and cutting or losing any number of them, preserve.

`TechnitiumSessionProofs` (assumption: connections lead to servers): `TypeCorrect` and
`RetrySuffices`, for any number of connections, servers and calls. The invariant adds
that a second attempt bears the session its call logged in for, alive unless the
call was marked as dropped (`Sound`). It is inductive because clearing the cache and
looking at it again happen without an await in between: the second attempt cannot
pick up a session that another connection cached meanwhile.

`CertificatesProofs` (assumptions: the timer has a slot, apexes are numbers and domains,
lifetimes are ordered): `TypeCorrect`, `TenantsGetTheirOwn`, `IssuingRowsHaveJobs`,
`MissesOnlyByReturn` and `WildcardStaysValid`, for any number of jobs and rows. The first
three rest on `CertInv`: what a job carries *fits* the row it will write (`Fits`: a mint and
an upgrade have a row of the server's, an issue job the row's own name), and an id that
anything refers to is not given out (`RowsStay`), so it still fits after other jobs and
routes ran. `MissesOnlyByReturn` is about `WildcardNames` and assumes nothing of the
identities: by `NamesInv` a row of the server's is for a name the server had, and holds
material for another one only once the server has left the row's, which is then in `former`;
so must the names be that jobs set out with, since they still write after the identity has
moved on. `WildcardStaysValid` assumes that a certificate lives longer than the horizon and
one tick, and the horizon is at least a tick: `UpkeepInv` keeps a margin, one tick larger
while the timer's job stands behind a mint (it has read the row, or another job made a newer
one), so that leaving `ensureWildcardPki` always finds the wildcard above the horizon.

`DnsChallengeProofs` (assumptions: there is a tenant and a stem, the connections lead
to servers): `TypeCorrect`, `OneDefault`, `ValuesStay`, `NothingStays`. For the values the
invariant adds that a served value belongs to a part under way or was refused
(`ServedInv`), that two orders share a stem only if it was handed out twice
(`StemsApart`), and that the value of a part under way is in place from its
publication on, not only while it is validated (`InPlace`).

`SignInProofs` (assumption: the default tenant is one): `TypeCorrect`, `StatesOnce`,
`TenantsByMembership`, `SessionsStayEnded`, and `AdmissionImplemented`, that `SignIn`
implements `Admission`. A flow whose exchange is awaited has left the map, has not been
used, and has one callback only (`FlowsInv`): that is what taking the state out before
the await is good for. For the refinement each action has a lemma that says which of
Admission's steps it is: `Exchanged` takes up an invitation, which is open although it has
left the map; timeouts, log-outs, failed exchanges and a restart are all one step that
stops some invitations and some sessions (`Stopped`); a callback, or a token that is
looked at late, is none.

`ZonesProofs` (assumptions: there are names and tenants, keys are bound to them, and for
the types that the requests in flight are finitely many): `ZonesInvariant`, `TypeCorrect`,
`NameOnRecordOnce`, `ReportedZoneWentAway`, `NothingReportedForNothing`,
`OnlyOwnersRemoveRows`, `MailFollowsRecord`, for any number of requests, keys and ids. What
a request carries is backed by what was seen of it (`Backed`), and what is true now of a
teardown's name has been noticed (`Noticed`). What was seen is of the resolver
a request asked, whatever its tenant elected since. For `TypeCorrect` the bound on row ids needs
an invariant that counts: the ids handed out and the requests that may still insert a
row are together at most `MaxRow` (`Budget`). A step adds no such request, or one for
which there was room, or turns one into a row (`BudgetKept`, `BudgetTaken`,
`BudgetSpent`).

`MirrorsProofs` (assumption: certificates and hosts have names and bounds are numbers):
`TypeCorrect`, `GatedOnce`, `GateReplaced`, `DomainServed`, `NamesServed`,
`WildcardKeepsOthers`, `SyncsDeliver`, `NothingPilesUp`, for any certificates and hosts and
any number of operations at once. The invariant `Inv` is in parts. `NpmFits`: every host,
and every copy of a host that an operation carries, has an administrator's rule with at
most one block after it, which names a CA that is there, and a certificate of the
domain it was attached for; an operation that is past its upload has an entry whose
files are of its certificate's domain. The copies have to be in it, as they are written
back whole. `AloneInv`: of a sync
that has run alone so far, the copies it still has to write are the hosts as they are, the
hosts of its own name are among them or attached, and the entry it attaches has its
material; `WildcardKeepsOthers`, `SyncsDeliver` and
`NothingPilesUp` rest on it, and say nothing of syncs that overlap. `NamesServed` is
`ServedCovers` under the hypothesis `OneKind`, that no domain has a certificate with the
wildcard and one without; `mirrors_namesakes` shows that it is needed. `GateReplaced` says
of `applyMtlsConfig` that applying it again forgets what was applied before, for every
list of lines: the block it writes is one its own loop takes out. It is by induction over
the lines.

`CertificatesProofs` and `ZonesProofs` end with three theorems about the scores as
functions (`Health`): `AgeingNeverHelps`, `ExpiringIsNeverA`, `UndelegatedIsQuiet`.

A note on induction. The library's induction theorems take an operator as a parameter, which
the installed provers cannot instantiate. `MirrorsProofs` states induction of a *set* of
numbers instead (`SetInduction`, from the well-foundedness of the numbers, `LeastNumber`),
which first-order provers can use; what a recursive function computes for every list of
lines is proved with it, after `LoopExists` and `ScanDef` have shown that the function is
there. Definitions by RECURSIVE operators stay out of reach, and none of the modules that
are proved about has one.

Only model-checked: liveness (`WildcardRecovers`, `RoleConverges`, `ReplicaConverges`), which
is out of the prover's reach as is anything that depends on fairness or ENABLED. Every
other property of a passing run is stated by a theorem. `ServedCovers`,
`KeptWildcardCoversApex` and `RenewedOnTimer` are violated. The other way about,
`WildcardNeverExpires` is proved (`WildcardStaysValid`) and has no run.

## 5. Not modelled, and plan

Not modelled: certificate discovery, DHCP and blocking, the enrollment profile, the
Authentik client and the configuration, which keep no state a decision depends on;
the vault client; the web pages other than sign-in and the providers page; the Python plugin; the
scripts beside the server. Of the modelled components, what is left out is said
above.

Done: the private CA with its abstract specification; certificates and the
wildcard; the registration servers; Technitium sessions; DNS-01 with the providers;
zones, mail and service keys; the mirrors; sign-in with its abstract specification; the
scores: all with proofs. What is left, most important first:

1. *AuthentikUpdate*: lock, pins, rollback and push failure with crashes, against the
   abstract promise that pins on record are the ones in service.
2. *VaultBootstrap*: crash between initialising and storing keys.
3. *Abstract specifications* for the registration servers (ids that only grow, copied
   down the chain) and for the names (`Zones`: one owner at a time), with their
   refinements proved.
4. *Pure operators*: zone resolution and the reconciliation scripts against reference
   definitions.
