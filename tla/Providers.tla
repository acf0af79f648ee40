------------------------------ MODULE Providers ------------------------------
(***************************************************************************)
(* The resolvers a tenant registers for itself: the table dns_providers of *)
(* server/src/db.ts, services/providers.ts, the routes under               *)
(* /dns/providers and the page web/src/pages/DnsProviders.tsx that calls   *)
(* them.  Each handler runs to its end without an await.                   *)
(***************************************************************************)
EXTENDS Naturals, FiniteSets

CONSTANTS
  Tenant,
  ProviderName, \* names, as the numbers that order them
  Server,       \* resolvers
  Platform,     \* the resolver of the environment
  Own,          \* the resolvers each tenant registers
  MaxProvider   \* bound on the rows at a time

ASSUME ProvidersAssumption ==
  /\ Tenant # {}
  /\ ProviderName \subseteq Nat
  /\ Platform \in Server
  /\ Own \in [Tenant -> SUBSET Server]

VARIABLE providers \* the table

Provider == [tenant : Tenant, name : ProviderName, server : Server, isDefault : BOOLEAN]

ProvidersOk ==
  /\ providers \subseteq Provider
  /\ \A r, q \in providers : r.tenant = q.tenant /\ r.name = q.name => r = q
  /\ \A r \in providers : r.server \in Own[r.tenant]

-----------------------------------------------------------------------------
\* listDnsProviders.
Of(t) == {r \in providers : r.tenant = t}

FirstByName(S) == CHOOSE r \in S : \A q \in S : r.name <= q.name

\* providerConnectionForTenant: the default, else the first by name, else, with
\* no row at all, the platform's own.
Elected(t) ==
  LET marked == {r \in Of(t) : r.isDefault} IN
  IF marked # {} THEN FirstByName(marked).server
  ELSE IF Of(t) # {} THEN FirstByName(Of(t)).server
  ELSE Platform

Unmarked(r) == [r EXCEPT !.isDefault = FALSE]

\* Mutant of Cleared: nothing is cleared.
ClearedNone(t) == {r \in providers : t \in Tenant}

\* clearDnsProviderDefaults.
Cleared(t) == (providers \ Of(t)) \cup {Unmarked(r) : r \in Of(t)}

\* What the table is when a row that is to be the default is about to be written.
Before(t, flag) == IF flag THEN Cleared(t) ELSE providers

\* Mutant of CanInsert: without the UNIQUE index on the tenant and the name.
CanInsertAnyName(t, n) == t \in Tenant /\ n \in ProviderName

\* createProvider looks at the tenant's names first; the table has a UNIQUE index on
\* the tenant and the name.
CanInsert(t, n) == \A r \in Of(t) : r.name # n

\* createDnsProvider.
Inserted(table, row) == table \cup {row}

\* updateDnsProvider writes over the row, which is found by its id.
Updated(table, old, row) ==
  (table \ {q \in table : q.tenant = old.tenant /\ q.name = old.name}) \cup {row}

\* POST /dns/providers: a name the tenant has is a 409.  The route always says
\* whether the row is to be the default.
AddProvider(t, n, s, flag) ==
  /\ CanInsert(t, n)
  /\ Cardinality(providers) < MaxProvider
  /\ providers' = Inserted(Before(t, flag),
                          [tenant |-> t, name |-> n, server |-> s, isDefault |-> flag])

\* A form of the page sends the flag it was opened with, whatever has become the
\* default since; the button sends yes; other callers may send none.
Asked == {"same", "yes", "no"}
Flag(r, asked) == IF asked = "same" THEN r.isDefault ELSE asked = "yes"

\* PATCH /dns/providers/:id: the defaults are cleared before the UPDATE, which
\* fails on a name another row of the tenant has.
EditProvider(r, n, s, asked) ==
  LET flag == Flag(r, asked)
      before == Before(r.tenant, flag) IN
  providers' = IF n # r.name /\ ~CanInsert(r.tenant, n) THEN before
               ELSE Updated(before, r, [r EXCEPT !.name = n, !.server = s, !.isDefault = flag])

\* DELETE /dns/providers/:id.
RemoveProvider(r) == providers' = providers \ {r}

ProvidersInit == providers = {}

ProvidersNext ==
  \/ \E t \in Tenant, n \in ProviderName, flag \in BOOLEAN :
       \E s \in Own[t] : AddProvider(t, n, s, flag)
  \/ \E r \in providers :
       \/ RemoveProvider(r)
       \/ \E n \in ProviderName, s \in Own[r.tenant], asked \in Asked :
            EditProvider(r, n, s, asked)

-----------------------------------------------------------------------------
\* A tenant has one default at most, also after an edit that failed half way.
AtMostOneDefault ==
  \A r, q \in providers :
    r.tenant = q.tenant /\ r.isDefault /\ q.isDefault => r = q
=============================================================================
