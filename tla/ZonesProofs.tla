----------------------------- MODULE ZonesProofs ------------------------------
(***************************************************************************)
(* Theorems about Zones, for any tenants, keys, names, resolvers and finite *)
(* number of requests.  Only the types (TypeCorrect) need the bounds.      *)
(***************************************************************************)
EXTENDS Zones, Health, FiniteSetTheorems, TLAPS

\* A request, its row id any number.
Loose == [pc : Pc, op : Op, tenant : Tenant, name : Name, row : Nat,
          at : Resolver, key : Key \cup {Session},
          wipe : BOOLEAN, ok : BOOLEAN, gone : BOOLEAN, mailGone : BOOLEAN,
          removed : BOOLEAN]

\* Each tenant has a resolver.
ElectedInv == \A t \in Tenant : elected[t] \in Resolver

\* Something is there to be changed for every name.
MailInv == mail \in [Name -> MailState]

\* The table, its row ids any number.
RowsInv ==
  /\ lastId \in Nat
  /\ rows \subseteq [id : Nat, name : Name, tenant : Tenant]
  /\ OneRowPerName

\* The key that goes to the mail host acts for the tenant.
KeyFits(w) == w.key \in Key /\ Bound[w.key] \in {w.tenant, Anyone}

\* What a request carries is backed by what was seen of it: a teardown that
\* says its zone is gone saw the name unserved, or asked for it where there is more
\* than a page, one that says anything was removed saw something, and a provision
\* at the mail host saw its row.
Backed(w, s) ==
  /\ w.pc = "idle" => (w.ok => s.unserved \/ s.crowded) /\ (w.removed => s.anything)
  /\ w.pc # "idle" /\ w.op = "teardown" =>
       /\ w.pc \in {"mail", "check", "delete", "reply"}
       /\ w.ok => s.unserved
       /\ w.gone \/ w.mailGone => s.anything
       /\ w.pc \in {"delete", "reply"} => s.anything
  /\ w.pc = "check" => w.op = "teardown"
  /\ w.pc = "mail" => KeyFits(w)
  /\ w.pc # "idle" /\ w.op = "provision" => KeyFits(w) /\ (w.pc = "mail" => s.owned)

Something(n) ==
  (\E s \in Resolver : <<s, n>> \in zones) \/ mail[n] # "none" \/ \E r \in rows : r.name = n

\* The history of a teardown has noticed the present.
Noticed(c) ==
  call[c].pc # "idle" /\ call[c].op = "teardown" =>
    (Something(call[c].name) => seen[c].anything)

CallsInv ==
  \A c \in Call : call[c] \in Loose /\ Backed(call[c], seen[c]) /\ Noticed(c)

-----------------------------------------------------------------------------
(* What one request leaves of the others.                                  *)

LEMMA IdleBacked ==
  /\ Idle \in Loose /\ Idle.pc = "idle" /\ Idle.op = "add"
  /\ ~Idle.ok /\ ~Idle.removed /\ ~Idle.gone /\ ~Idle.mailGone
  /\ \A s : Backed(Idle, s)
<1>1. (CHOOSE t \in Tenant : TRUE) \in Tenant /\ (CHOOSE n \in Name : TRUE) \in Name
  BY ServiceKeysAssumption, ZonesAssumption
<1>2. (CHOOSE s \in Resolver : TRUE) \in Resolver
  BY ServiceKeysAssumption, ResolverAssumption
<1>3. QED
  BY <1>1, <1>2 DEF Idle, Loose, Pc, Op, NoRow, Backed

\* What is there of a name after the step.
Anything(n) ==
  \/ \E s \in Resolver : <<s, n>> \in zones'
  \/ mail'[n] # "none"
  \/ \E r \in rows' : r.name = n

\* What the moment after the step shows of a request.
LEMMA MomentShows ==
  ASSUME NEW w
  PROVE  /\ Moment(w).unserved <=> /\ w.op = "teardown" /\ w.pc \in {"check", "delete"}
                                  /\ Zone(w) \notin zones'
         /\ Moment(w).crowded <=> /\ w.pc = "check"
                                 /\ Cardinality(ZonesAt(zones', w.at)) > PageSize
         /\ Moment(w).anything <=> w.op = "teardown" /\ Anything(w.name)
         /\ Moment(w).owned <=> /\ w.op = "provision"
                               /\ \E r \in rows' : r.name = w.name /\ r.tenant = w.tenant
BY DEF Moment, Anything

\* A history that goes on has what it had and what is true after the step.
LEMMA HistoryGrows ==
  ASSUME Observe, NEW c \in Call, call[c].pc # "idle", call'[c] # Idle
  PROVE  /\ seen'[c].unserved <=> \/ seen[c].unserved
                                  \/ /\ call[c].op = "teardown"
                                     /\ call[c].pc \in {"check", "delete"}
                                     /\ Zone(call[c]) \notin zones'
         /\ seen'[c].crowded <=> \/ seen[c].crowded
                                 \/ /\ call[c].pc = "check"
                                    /\ Cardinality(ZonesAt(zones', call[c].at)) > PageSize
         /\ seen'[c].anything <=> \/ seen[c].anything
                                  \/ call[c].op = "teardown" /\ Anything(call[c].name)
         /\ seen'[c].owned <=> \/ seen[c].owned
                               \/ /\ call[c].op = "provision"
                                  /\ \E r \in rows' : r.name = call[c].name
                                                      /\ r.tenant = call[c].tenant
<1> DEFINE w == call[c]
           m == Moment(w)
<1>1. seen'[c] = Either(seen[c], m)
  BY DEF Observe, Begins
<1> HIDE DEF m, w
<1>2. /\ seen'[c].unserved = (seen[c].unserved \/ m.unserved)
      /\ seen'[c].crowded = (seen[c].crowded \/ m.crowded)
      /\ seen'[c].anything = (seen[c].anything \/ m.anything)
      /\ seen'[c].owned = (seen[c].owned \/ m.owned)
  BY <1>1 DEF Either
<1>3. QED
  BY <1>2, MomentShows DEF m, w

\* A history begins with what is true after the first step.
LEMMA HistoryBegins ==
  ASSUME Observe, NEW c \in Call, call[c].pc = "idle", call'[c].pc # "idle"
  PROVE  /\ seen'[c].anything <=> call'[c].op = "teardown" /\ Anything(call'[c].name)
         /\ seen'[c].owned <=> /\ call'[c].op = "provision"
                               /\ \E r \in rows' : r.name = call'[c].name
                                                   /\ r.tenant = call'[c].tenant
<1>1. call'[c] # Idle
  BY IdleBacked
<1> DEFINE w == call'[c]
<1>2. seen'[c] = Moment(w)
  BY <1>1 DEF Observe, Begins
<1> HIDE DEF w
<1>3. QED
  BY <1>2, MomentShows DEF w

\* A request that stays as it is stays backed.
LEMMA Bystander ==
  ASSUME Observe, NEW c \in Call, Backed(call[c], seen[c]), call[c] \in Loose,
         call'[c] = call[c], call[c].pc # "idle"
  PROVE  Backed(call'[c], seen'[c]) /\ Noticed(c)'
<1>1. call'[c] # Idle
  BY IdleBacked
<1>2. Backed(call'[c], seen'[c])
  BY <1>1, HistoryGrows DEF Backed
<1>3. Noticed(c)'
  BY <1>1, HistoryGrows DEF Noticed, Something, Anything
<1>4. QED
  BY <1>2, <1>3

\* A step of one request that leaves it backed keeps the invariant.
LEMMA OneCall ==
  ASSUME CallsInv, Observe, NEW c \in Call, NEW w \in Loose, Goto(c, w),
         call[c].pc # "idle" /\ w.pc # "idle"
           => w.op = call[c].op /\ w.name = call[c].name,
         Backed(w, seen'[c])
  PROVE  CallsInv'
<1>1. call'[c] = w
  BY DEF Goto
<1>2. \A d \in Call \ {c} : call'[d] = Answered(call[d])
  BY DEF Goto
<1>3. Noticed(c)'
  <2>1. CASE w.pc = "idle"
    BY <1>1, <2>1 DEF Noticed
  <2>2. CASE w.pc # "idle" /\ call[c].pc = "idle"
    BY <1>1, <2>2, HistoryBegins DEF Noticed, Something, Anything
  <2>3. CASE w.pc # "idle" /\ call[c].pc # "idle"
    <3>1. w # Idle
      BY <2>3, IdleBacked
    <3>2. QED
      BY <1>1, <2>3, <3>1, HistoryGrows DEF Noticed, Something, Anything
  <2>4. QED
    BY <2>1, <2>2, <2>3
<1>4. ASSUME NEW d \in Call \ {c}
      PROVE  call'[d] \in Loose /\ Backed(call'[d], seen'[d]) /\ Noticed(d)'
  <2>1. CASE call[d].pc = "idle"
    <3>1. call'[d] = Idle
      BY <1>2, <2>1 DEF Answered
    <3>2. Noticed(d)'
      BY <3>1, IdleBacked DEF Noticed
    <3>3. QED
      BY <3>1, <3>2, IdleBacked
  <2>2. CASE call[d].pc # "idle"
    <3>1. call'[d] = call[d] /\ call[d] \in Loose /\ Backed(call[d], seen[d])
      BY <1>2, <2>2 DEF Answered, CallsInv
    <3>2. QED
      BY <2>2, <3>1, Bystander
  <2>3. QED
    BY <2>1, <2>2
<1>5. QED
  BY <1>1, <1>3, <1>4 DEF CallsInv

\* The end of a request of another kind than a teardown.
LEMMA Ends ==
  ASSUME CallsInv, Observe, NEW c \in Call, Goto(c, Idle) PROVE CallsInv'
BY IdleBacked, OneCall

\* The answer of a teardown is backed if what it says is.
LEMMA ReportedStep ==
  ASSUME CallsInv, Observe, NEW c \in Call, NEW w \in Loose, NEW freed \in BOOLEAN,
         call[c].pc # "idle", Goto(c, Reported(w, freed)),
         freed => seen'[c].unserved \/ seen'[c].crowded,
         freed \/ w.gone \/ w.mailGone => seen'[c].anything
  PROVE  CallsInv'
<1> DEFINE x == Reported(w, freed)
<1>1. x \in Loose /\ x.pc = "idle" /\ x.ok = freed /\ (x.removed <=> freed \/ w.gone \/ w.mailGone)
  BY IdleBacked DEF Reported, Loose, Op
<1> HIDE DEF x
<1>2. Backed(x, seen'[c])
  BY <1>1 DEF Backed
<1>3. Goto(c, x)
  BY DEF x
<1>4. QED
  BY <1>1, <1>2, <1>3, OneCall

-----------------------------------------------------------------------------
(* Requests that begin.                                                    *)

\* A request of an operation, at its first await.
LEMMA FreshLoose ==
  ASSUME NEW op \in Op, NEW n \in Name, NEW t \in Tenant
  PROVE  /\ Fresh(op, n, t) \in Loose /\ Fresh(op, n, t).op = op
         /\ Fresh(op, n, t).name = n /\ Fresh(op, n, t).tenant = t
         /\ ~Fresh(op, n, t).ok /\ ~Fresh(op, n, t).gone /\ ~Fresh(op, n, t).mailGone
BY IdleBacked DEF Fresh, Loose

LEMMA AsksFits == ASSUME NEW k \in Key, NEW t, NEW need, Asks(k, t, need)
                  PROVE  Bound[k] \in {t, Anyone}
BY DEF Asks, TenantsOf

LEMMA RowFound ==
  ASSUME RowsInv, NEW n, NEW t, RowId(n, t) # NoRow
  PROVE  \E r \in rows : r.name = n /\ r.tenant = t /\ r.id = RowId(n, t)
<1>1. RowsOf(n, t) # {}
  BY DEF RowId
<1>2. (CHOOSE r \in RowsOf(n, t) : TRUE) \in RowsOf(n, t)
  BY <1>1
<1>3. QED
  BY <1>1, <1>2 DEF RowId, RowsOf

LEMMA RowIdNat == ASSUME RowsInv, NEW n, NEW t PROVE RowId(n, t) \in Nat
BY RowFound DEF RowsInv, NoRow

\* What asking for a resolver, and its answer, change of a request.
LEMMA AskingKeeps ==
  ASSUME ElectedInv, NEW w \in Loose, NEW pc \in Pc
  PROVE  /\ Asking(w, pc) \in Loose /\ Asking(w, pc).pc = pc
         /\ \A f \in {"op", "name", "tenant", "row", "key", "ok", "gone", "mailGone"} :
              Asking(w, pc)[f] = w[f]
<1> DEFINE s == elected[w.tenant]
<1>1. s \in Resolver
  BY DEF ElectedInv, Loose
<1>2. Asking(w, pc) = [w EXCEPT !.pc = pc, !.at = s]
  BY DEF Asking
<1> HIDE DEF s
<1>3. QED
  BY <1>1, <1>2 DEF Loose

LEMMA ToldKeeps ==
  ASSUME NEW w \in Loose, NEW ok \in BOOLEAN
  PROVE  /\ Told(w, ok) \in Loose /\ Told(w, ok).pc = "reply" /\ Told(w, ok).ok = ok
         /\ \A f \in {"op", "name", "tenant", "row", "key", "gone", "mailGone"} :
              Told(w, ok)[f] = w[f]
<1> DEFINE s == Idle.at
<1>1. s \in Resolver
  BY IdleBacked DEF Loose
<1>2. Told(w, ok) = [w EXCEPT !.pc = "reply", !.at = s, !.ok = ok]
  BY DEF Told
<1> HIDE DEF s
<1>3. QED
  BY <1>1, <1>2 DEF Loose, Pc

\* Requests whose kind carries nothing that needs backing.
LEMMA StartPlain ==
  ASSUME CallsInv, ElectedInv, Observe, NEW c \in Call, NEW f \in Loose,
         f.op \notin {"teardown", "provision"}, NEW pc \in {"list", "delete"},
         Goto(c, Asking(f, pc)), call[c].pc = "idle"
  PROVE  CallsInv'
<1> DEFINE w == Asking(f, pc)
<1>1. pc \in Pc /\ pc # "idle" /\ pc # "check" /\ pc # "mail"
  BY DEF Pc
<1>2. w \in Loose /\ w.op = f.op /\ w.pc = pc
  BY <1>1, AskingKeeps
<1> HIDE DEF w
<1>3. Backed(w, seen'[c])
  BY <1>1, <1>2 DEF Backed
<1>4. QED
  BY <1>1, <1>2, <1>3, OneCall DEF w

LEMMA ListPlain ==
  ASSUME CallsInv, ElectedInv, Observe, NEW c \in Call, NEW op \in {"add", "record", "cover"},
         NEW n \in Name, NEW t \in Tenant,
         Goto(c, Asking(Fresh(op, n, t), "list")), call[c].pc = "idle"
  PROVE  CallsInv'
<1>1. op \in Op /\ op \notin {"teardown", "provision"}
  BY DEF Op
<1>2. QED
  BY <1>1, FreshLoose, StartPlain

LEMMA RemovePlain ==
  ASSUME CallsInv, ElectedInv, Observe, NEW c \in Call, NEW op \in {"drop", "handback"},
         NEW n \in Name, NEW t \in Tenant, NEW i \in Nat,
         Goto(c, Asking([Fresh(op, n, t) EXCEPT !.row = i], "delete")), call[c].pc = "idle"
  PROVE  CallsInv'
<1> DEFINE f == Fresh(op, n, t)
           w == [f EXCEPT !.row = i]
<1>1. f \in Loose /\ f.op = op
  BY FreshLoose DEF Op
<1> HIDE DEF f
<1>2. w \in Loose /\ w.op = op
  BY <1>1 DEF Loose
<1>3. Goto(c, Asking(w, "delete"))
  BY DEF f
<1> HIDE DEF w
<1>4. QED
  BY <1>2, <1>3, StartPlain

LEMMA ProvisionStep ==
  ASSUME CallsInv, RowsInv, ElectedInv, Observe, NEW c \in Call, NEW n \in Name,
         NEW t \in Tenant, NEW k \in Key, StartProvision(c, n, t, k)
  PROVE  CallsInv'
<1> DEFINE f == Fresh("provision", n, t)
           v == [f EXCEPT !.key = k]
           found == RowId(n, t) # NoRow
           w == IF found THEN [v EXCEPT !.pc = "mail"] ELSE Asking(v, "list")
<1>1. f \in Loose /\ f.op = "provision" /\ f.name = n /\ f.tenant = t
  BY FreshLoose DEF Op
<1>2. Goto(c, w) /\ call[c].pc = "idle" /\ UNCHANGED rows /\ Bound[k] \in {t, Anyone}
  BY AsksFits DEF StartProvision
<1> HIDE DEF f, found
<1>3. v \in Loose /\ v.op = "provision" /\ v.name = n /\ v.tenant = t /\ v.key = k
  BY <1>1 DEF Loose
<1> HIDE DEF v
<1>4. /\ w \in Loose /\ w.op = "provision" /\ w.key = k /\ w.name = n /\ w.tenant = t
      /\ w.pc = IF found THEN "mail" ELSE "list"
  <2>1. CASE found
    BY <1>3, <2>1 DEF Loose, Pc
  <2>2. CASE ~found
    BY <1>3, <2>2, AskingKeeps DEF Pc
  <2>3. QED
    BY <2>1, <2>2
<1> HIDE DEF w
<1>5. call'[c] = w
  BY <1>2 DEF Goto
<1>6. found => seen'[c].owned
  BY <1>2, <1>4, <1>5, RowFound, HistoryBegins DEF found
<1>7. Backed(w, seen'[c])
  BY <1>2, <1>4, <1>6 DEF Backed, KeyFits
<1>8. QED
  BY <1>2, <1>4, <1>7, OneCall

LEMMA TeardownStep ==
  ASSUME CallsInv, Observe, NEW c \in Call, NEW n \in Name, NEW t \in Tenant,
         NEW k \in Key, NEW wipe \in BOOLEAN, StartTeardown(c, n, t, k, wipe)
  PROVE  CallsInv'
<1> DEFINE f == Fresh("teardown", n, t)
           w == [f EXCEPT !.key = k, !.pc = "mail", !.wipe = wipe]
<1>1. /\ f \in Loose /\ f.op = "teardown" /\ f.tenant = t
      /\ ~f.ok /\ ~f.gone /\ ~f.mailGone
  BY FreshLoose DEF Op
<1>2. Goto(c, w) /\ call[c].pc = "idle" /\ Bound[k] \in {t, Anyone}
  BY AsksFits DEF StartTeardown
<1> HIDE DEF f
<1>3. w \in Loose /\ w.op = "teardown" /\ w.pc = "mail" /\ w.key = k /\ w.tenant = t
  BY <1>1 DEF Loose, Pc
<1>4. ~w.ok /\ ~w.gone /\ ~w.mailGone
  BY <1>1 DEF Loose
<1> HIDE DEF w
<1>5. Backed(w, seen'[c])
  BY <1>2, <1>3, <1>4 DEF Backed, KeyFits
<1>6. QED
  BY <1>2, <1>3, <1>5, OneCall

-----------------------------------------------------------------------------
(* Requests that go on.                                                    *)

\* A request of any kind but a teardown that goes on with its key; one at the
\* mail host for a provision has seen its row.
LEMMA GoOn ==
  ASSUME CallsInv, Observe, NEW c \in Call, call[c].pc # "idle", call[c].op # "teardown",
         NEW w \in Loose, w.pc \notin {"idle", "check", "mail"}, Goto(c, w),
         w.op = call[c].op, w.name = call[c].name, w.key = call[c].key,
         w.tenant = call[c].tenant
  PROVE  CallsInv'
<1>1. call[c] \in Loose /\ Backed(call[c], seen[c])
  BY DEF CallsInv
<1>2. Backed(w, seen'[c])
  BY <1>1 DEF Backed, KeyFits
<1>3. QED
  BY <1>2, OneCall

LEMMA ZonedStep ==
  ASSUME CallsInv, Observe, NEW c \in Call, call[c].pc \in {"list", "create"},
         NEW told \in BOOLEAN, Goto(c, Zoned(call[c], told))
  PROVE  CallsInv'
<1>1. call[c].op # "teardown" /\ call[c] \in Loose
  BY DEF CallsInv, Backed
<1>2. CASE call[c].op = "record"
  BY <1>2, Ends DEF Zoned
<1>3. CASE call[c].op # "record"
  <2> DEFINE ok == told \/ call[c].op # "cover"
  <2>1. Goto(c, Told(call[c], ok)) /\ ok \in BOOLEAN
    BY <1>3 DEF Zoned
  <2> HIDE DEF ok
  <2>2. QED
    BY <1>1, <2>1, ToldKeeps, GoOn
<1>4. QED
  BY <1>2, <1>3

LEMMA ListsStep ==
  ASSUME CallsInv, Observe, NEW c \in Call, ResolverLists(c) PROVE CallsInv'
<1>1. call[c].pc = "list" /\ call[c] \in Loose /\ call[c].op # "teardown"
  BY DEF ResolverLists, CallsInv, Backed
<1>2. CASE Goto(c, [call[c] EXCEPT !.pc = "create"])
  <2> DEFINE w == [call[c] EXCEPT !.pc = "create"]
  <2>1. /\ w \in Loose /\ w.pc = "create" /\ w.op = call[c].op /\ w.name = call[c].name
        /\ w.key = call[c].key /\ w.tenant = call[c].tenant
    BY <1>1 DEF Loose, Pc
  <2>2. Goto(c, w)
    BY <1>2
  <2> HIDE DEF w
  <2>3. QED
    BY <1>1, <2>1, <2>2, GoOn
<1>3. CASE Goto(c, Zoned(call[c], TRUE))
  BY <1>1, <1>3, ZonedStep
<1>4. QED
  BY <1>2, <1>3 DEF ResolverLists

LEMMA CreatesStep ==
  ASSUME CallsInv, Observe, NEW c \in Call, ResolverCreates(c) PROVE CallsInv'
<1>1. PICK told \in BOOLEAN : Goto(c, Zoned(call[c], told))
  BY DEF ResolverCreates
<1>2. QED
  BY <1>1, ZonedStep DEF ResolverCreates

LEMMA RegisterStep ==
  ASSUME CallsInv, RowsInv, Observe, NEW c \in Call, Register(c) PROVE CallsInv'
<1>0. call[c].pc = "reply" /\ call[c] \in Loose /\ Backed(call[c], seen[c])
  BY DEF Register, CallsInv
<1>1. CASE Goto(c, Idle)
  BY <1>1, Ends
<1>2. ASSUME CreateDomain(call[c].name, call[c].tenant), Goto(c, AfterRow(call[c]))
      PROVE  CallsInv'
  <2>1. CASE call[c].op # "provision"
    BY <1>2, <2>1, Ends DEF AfterRow
  <2>2. CASE call[c].op = "provision"
    <3> DEFINE w == [call[c] EXCEPT !.pc = "mail", !.ok = FALSE]
    <3>1. /\ w \in Loose /\ w.pc = "mail" /\ w.op = "provision" /\ w.name = call[c].name
          /\ w.key = call[c].key /\ w.tenant = call[c].tenant
      BY <1>0, <2>2 DEF Loose, Pc
    <3>2. Goto(c, w)
      BY <1>2, <2>2 DEF AfterRow
    <3> HIDE DEF w
    <3>3. call'[c] = w /\ w # Idle
      BY <3>1, <3>2, IdleBacked DEF Goto
    <3> DEFINE q == [id |-> lastId + 1, name |-> call[c].name, tenant |-> call[c].tenant]
    <3>4. \E r \in rows' : r.name = call[c].name /\ r.tenant = call[c].tenant
      <4>1. q \in rows' /\ q.name = call[c].name /\ q.tenant = call[c].tenant
        BY <1>2 DEF CreateDomain
      <4>2. QED
        BY <4>1
    <3>5. seen'[c].owned
      BY <1>0, <2>2, <3>3, <3>4, HistoryGrows
    <3>6. KeyFits(w)
      BY <1>0, <2>2, <3>1 DEF Backed, KeyFits
    <3>7. Backed(w, seen'[c])
      BY <3>1, <3>5, <3>6 DEF Backed
    <3>8. QED
      BY <1>0, <2>2, <3>1, <3>2, <3>7, OneCall
  <2>3. QED
    BY <2>1, <2>2
<1>3. QED
  BY <1>1, <1>2 DEF Register

LEMMA DeprovisionsStep ==
  ASSUME CallsInv, RowsInv, ElectedInv, Observe, NEW c \in Call, MailDeprovisions(c) PROVE CallsInv'
<1>0. /\ call[c].pc = "mail" /\ call[c].op = "teardown" /\ call[c] \in Loose
      /\ Backed(call[c], seen[c]) /\ Noticed(c) /\ (call[c].ok => seen[c].unserved)
  BY DEF MailDeprovisions, CallsInv, Backed
<1> DEFINE gone == mail[call[c].name] = "box"
           mailGone == call[c].wipe /\ mail[call[c].name] # "none"
           told == [call[c] EXCEPT !.key = Session, !.gone = gone, !.mailGone = mailGone]
<1>3. Something(call[c].name) => seen[c].anything
  BY <1>0 DEF Noticed
<1>1. CASE Goto(c, Idle)
  BY <1>1, Ends
<1>2. ASSUME Goto(c, ZoneHalf(told)) PROVE CallsInv'
  <2>1. gone \in BOOLEAN /\ mailGone \in BOOLEAN /\ (gone \/ mailGone => seen[c].anything)
    <3>1. mail[call[c].name] # "none" => seen[c].anything
      BY <1>3 DEF Something
    <3>2. call[c].wipe \in BOOLEAN
      BY <1>0 DEF Loose
    <3>3. QED
      BY <3>1, <3>2
  <2> HIDE DEF gone, mailGone
  <2>2. /\ told \in Loose /\ told.gone = gone /\ told.mailGone = mailGone
        /\ told.op = "teardown" /\ told.name = call[c].name /\ told.ok = call[c].ok
        /\ told.pc = "mail"
    BY <1>0, <2>1 DEF Loose
  <2> HIDE DEF told
  <2>3. call'[c] = ZoneHalf(told)
    BY <1>2 DEF Goto
  <2> DEFINE i == RowId(told.name, told.tenant)
  <2>4. CASE ~told.wipe
    <3>1. Goto(c, Reported(told, FALSE))
      BY <1>2, <2>4 DEF ZoneHalf
    <3>2. call'[c] # Idle
      <4>1. Reported(told, FALSE).op = "teardown"
        BY IdleBacked DEF Reported, Loose
      <4>2. QED
        BY <3>1, <4>1, IdleBacked DEF Goto
    <3>3. told.gone \/ told.mailGone => seen'[c].anything
      BY <1>0, <2>1, <2>2, <3>2, HistoryGrows
    <3>4. QED
      BY <1>0, <2>2, <3>1, <3>3, ReportedStep
  <2>5. CASE told.wipe /\ i = NoRow
    <3> DEFINE w == Asking(told, "check")
    <3>1. /\ w \in Loose /\ w.pc = "check" /\ w.op = "teardown" /\ w.name = call[c].name
          /\ w.ok = call[c].ok /\ w.gone = gone /\ w.mailGone = mailGone
      BY <2>2, AskingKeeps DEF Pc
    <3>2. Goto(c, w)
      BY <1>2, <2>5 DEF ZoneHalf
    <3> HIDE DEF w
    <3>3. call'[c] # Idle
      BY <3>1, <3>2, IdleBacked DEF Goto
    <3>4. /\ seen[c].unserved => seen'[c].unserved
          /\ seen[c].anything => seen'[c].anything
      BY <1>0, <3>3, HistoryGrows
    <3>5. Backed(w, seen'[c])
      BY <1>0, <2>1, <3>1, <3>4 DEF Backed
    <3>6. QED
      BY <1>0, <3>1, <3>2, <3>5, OneCall
  <2>6. CASE told.wipe /\ i # NoRow
    <3> DEFINE v == [told EXCEPT !.row = i]
               w == Asking(v, "delete")
    <3>1. i \in Nat /\ \E r \in rows : r.name = call[c].name
      BY <2>2, <2>6, RowFound, RowIdNat
    <3>2. Goto(c, w)
      BY <1>2, <2>6 DEF ZoneHalf
    <3> HIDE DEF i
    <3>9. /\ v \in Loose /\ v.op = "teardown" /\ v.name = call[c].name
          /\ v.ok = call[c].ok /\ v.gone = gone /\ v.mailGone = mailGone
      BY <2>2, <3>1 DEF Loose
    <3> HIDE DEF v
    <3>3. /\ w \in Loose /\ w.pc = "delete" /\ w.op = "teardown" /\ w.name = call[c].name
          /\ w.ok = call[c].ok /\ w.gone = gone /\ w.mailGone = mailGone
      BY <3>9, AskingKeeps DEF Pc
    <3> HIDE DEF w
    <3>4. call'[c] # Idle
      BY <3>2, <3>3, IdleBacked DEF Goto
    <3>5. seen[c].anything
      BY <1>3, <3>1 DEF Something
    <3>6. /\ seen[c].unserved => seen'[c].unserved
          /\ seen'[c].anything
      BY <1>0, <3>4, <3>5, HistoryGrows
    <3>7. Backed(w, seen'[c])
      BY <1>0, <3>3, <3>6 DEF Backed
    <3>8. QED
      BY <1>0, <3>2, <3>3, <3>7, OneCall
  <2>7. told.wipe \in BOOLEAN
    BY <2>2 DEF Loose
  <2>8. QED
    BY <2>4, <2>5, <2>6, <2>7
<1>4. QED
  BY <1>1, <1>2 DEF MailDeprovisions

\* A name that is not on the page of a list that shows all is not served.
LEMMA PageShows ==
  ASSUME NEW z, NEW s, NEW n \in ZonesAt(z, s), ~(Cardinality(ZonesAt(z, s)) > PageSize)
  PROVE  n \in Page(z, s)
<1> DEFINE all == ZonesAt(z, s)
           before == {m \in all : Rank[m] < Rank[n]}
<1>1. IsFiniteSet(all) /\ n \in Name
  BY ZonesAssumption, FS_Subset DEF ZonesAt
<1>2. before \subseteq all \ {n}
  <2>1. Rank[n] \in Nat
    BY <1>1, ResolverAssumption
  <2>2. QED
    BY <2>1
<1> HIDE DEF all, before
<1>3. /\ IsFiniteSet(all \ {n}) /\ Cardinality(all \ {n}) = Cardinality(all) - 1
      /\ Cardinality(all) \in Nat
  BY <1>1, FS_RemoveElement, FS_CardinalityType DEF all
<1>4. Cardinality(before) \in Nat /\ Cardinality(before) <= Cardinality(all) - 1
  BY <1>2, <1>3, FS_Subset, FS_CardinalityType
<1>5. Cardinality(before) < PageSize
  BY <1>3, <1>4, ResolverAssumption DEF all
<1>6. QED
  BY <1>5 DEF Page, all, before

LEMMA CheckStep ==
  ASSUME CallsInv, Observe, NEW c \in Call, CheckServed(c) PROVE CallsInv'
<1>0. /\ call[c].pc = "check" /\ call[c].op = "teardown" /\ call[c] \in Loose
      /\ Backed(call[c], seen[c]) /\ UNCHANGED zones
  BY DEF CheckServed, CallsInv, Backed
<1>1. PICK readable \in BOOLEAN :
        Goto(c, Reported(call[c], ZoneRemoved(call[c], StillServed(call[c], readable))))
  BY DEF CheckServed
<1> DEFINE freed == ZoneRemoved(call[c], StillServed(call[c], readable))
<1>2. /\ freed \in BOOLEAN
      /\ freed => call[c].name \notin Page(zones, call[c].at) /\ call[c].mailGone
  BY <1>0 DEF ZoneRemoved, StillServed, Loose
<1> HIDE DEF freed
<1>3. Goto(c, Reported(call[c], freed))
  BY <1>1 DEF freed
<1>4. call'[c] # Idle
  <2>1. Reported(call[c], freed).op = "teardown"
    BY IdleBacked DEF Reported, Loose
  <2>2. QED
    BY <1>3, <2>1, IdleBacked DEF Goto
<1>5. freed => seen'[c].unserved \/ seen'[c].crowded
  <2>1. SUFFICES ASSUME freed, ~(Cardinality(ZonesAt(zones', call[c].at)) > PageSize)
                 PROVE  Zone(call[c]) \notin zones'
    BY <1>0, <1>4, HistoryGrows
  <2>2. call[c].name \notin ZonesAt(zones, call[c].at)
    BY <1>0, <1>2, <2>1, PageShows
  <2>3. QED
    BY <1>0, <2>2 DEF ZonesAt, Zone, Loose
<1>6. freed \/ call[c].gone \/ call[c].mailGone => seen'[c].anything
  BY <1>0, <1>2, <1>4, HistoryGrows DEF Backed
<1>7. QED
  BY <1>0, <1>2, <1>3, <1>5, <1>6, ReportedStep

LEMMA DeletesStep ==
  ASSUME CallsInv, Observe, NEW c \in Call, ResolverDeletes(c) PROVE CallsInv'
<1>0. /\ call[c].pc = "delete" /\ call[c] \in Loose /\ Backed(call[c], seen[c])
  BY DEF ResolverDeletes, CallsInv
<1>1. PICK done \in BOOLEAN, told \in BOOLEAN :
        /\ told => done
        /\ zones' = IF done THEN zones \ {Zone(call[c])} ELSE zones
        /\ Goto(c, Told(call[c], told \/ call[c].op # "teardown"))
  BY DEF ResolverDeletes
<1> DEFINE ok == told \/ call[c].op # "teardown"
           w == Told(call[c], ok)
<1>2. ok \in BOOLEAN /\ (ok /\ call[c].op = "teardown" => told)
  OBVIOUS
<1> HIDE DEF ok
<1>3. /\ w \in Loose /\ w.pc = "reply" /\ w.op = call[c].op /\ w.name = call[c].name
      /\ w.key = call[c].key /\ w.tenant = call[c].tenant /\ w.ok = ok
      /\ w.gone = call[c].gone /\ w.mailGone = call[c].mailGone
  BY <1>0, <1>2, ToldKeeps
<1>4. Goto(c, w)
  BY <1>1 DEF ok
<1> HIDE DEF w
<1>5. call'[c] # Idle
  BY <1>3, <1>4, IdleBacked DEF Goto
<1>6. call[c].op = "teardown" => (ok => seen'[c].unserved) /\ seen'[c].anything
  BY <1>0, <1>1, <1>2, <1>5, HistoryGrows DEF Backed
<1>7. Backed(w, seen'[c])
  BY <1>0, <1>3, <1>6 DEF Backed, KeyFits
<1>8. QED
  BY <1>0, <1>3, <1>4, <1>7, OneCall

LEMMA DropStep ==
  ASSUME CallsInv, Observe, NEW c \in Call, Drop(c) PROVE CallsInv'
<1>0. call[c].pc = "reply" /\ call[c] \in Loose /\ Backed(call[c], seen[c])
  BY DEF Drop, CallsInv
<1>1. CASE call[c].op # "teardown"
  BY <1>1, Ends DEF Drop
<1>2. CASE call[c].op = "teardown"
  <2>1. Goto(c, Reported(call[c], call[c].ok)) /\ call[c].ok \in BOOLEAN
    BY <1>0, <1>2 DEF Drop, Loose
  <2>2. call'[c] # Idle
    <3>1. Reported(call[c], call[c].ok).op = "teardown"
      BY IdleBacked DEF Reported, Loose
    <3>2. QED
      BY <2>1, <3>1, IdleBacked DEF Goto
  <2>3. (call[c].ok => seen'[c].unserved) /\ seen'[c].anything /\ call[c] \in Loose
    BY <1>0, <1>2, <2>2, HistoryGrows DEF Backed
  <2>4. QED
    BY <1>0, <2>1, <2>3, ReportedStep
<1>3. QED
  BY <1>1, <1>2

\* Keys come and go without touching the requests.
LEMMA KeysStep ==
  ASSUME CallsInv, Observe, UNCHANGED <<rows, lastId, zones, mail, call>> PROVE CallsInv'
<1> SUFFICES ASSUME NEW c \in Call
             PROVE  call'[c] \in Loose /\ Backed(call'[c], seen'[c]) /\ Noticed(c)'
  BY DEF CallsInv
<1>0. call'[c] = call[c] /\ call[c] \in Loose /\ Backed(call[c], seen[c])
  BY DEF CallsInv
<1>1. CASE call[c] = Idle
  <2>1. Noticed(c)'
    BY <1>0, <1>1, IdleBacked DEF Noticed
  <2>2. QED
    BY <1>0, <1>1, <2>1, IdleBacked
<1>2. CASE call[c] # Idle /\ call[c].pc = "idle"
  <2>1. seen'[c] = seen[c]
    BY <1>0, <1>2 DEF Observe
  <2>2. Noticed(c)'
    BY <1>0, <1>2 DEF Noticed
  <2>3. QED
    BY <1>0, <2>1, <2>2
<1>3. CASE call[c].pc # "idle"
  BY <1>0, <1>3, Bystander
<1>4. QED
  BY <1>1, <1>2, <1>3

-----------------------------------------------------------------------------
(* The tables.                                                             *)

LEMMA CreateKeeps ==
  ASSUME RowsInv, NEW n \in Name, NEW t \in Tenant, CanCreate(n), CreateDomain(n, t)
  PROVE  RowsInv'
<1> DEFINE q == [id |-> lastId + 1, name |-> n, tenant |-> t]
<1>1. q \in [id : Nat, name : Name, tenant : Tenant] /\ q.name = n /\ q.id = lastId + 1
  BY DEF RowsInv
<1>2. rows' = rows \cup {q} /\ lastId' = lastId + 1
  BY DEF CreateDomain
<1> HIDE DEF q
<1>3. lastId' \in Nat /\ rows' \subseteq [id : Nat, name : Name, tenant : Tenant]
  BY <1>1, <1>2 DEF RowsInv
<1>4. \A r \in rows : r.name # q.name /\ r.id \in Nat /\ r.id <= lastId
  BY <1>1 DEF CanCreate, RowsInv, OneRowPerName
<1>5. \A r, p \in rows' : r.name = p.name => r = p
  BY <1>2, <1>4 DEF RowsInv, OneRowPerName
<1>6. \A r \in rows' : r.id <= lastId'
  BY <1>1, <1>2, <1>4 DEF RowsInv
<1>7. QED
  BY <1>3, <1>5, <1>6 DEF RowsInv, OneRowPerName

LEMMA DeleteKeeps ==
  ASSUME RowsInv, NEW i, NEW t, DeleteDomain(i, t) PROVE RowsInv'
BY DEF DeleteDomain, RowsInv, OneRowPerName

\* The rows change in two actions, the mail host in two others.
LEMMA StepKinds ==
  ASSUME Step
  PROVE  \E c \in Call :
           \/ Register(c) \/ Drop(c) \/ MailProvisions(c) \/ MailDeprovisions(c)
           \/ rows' = rows /\ lastId' = lastId /\ mail' = mail
<1>1. PICK c \in Call :
        \/ \E n \in Name, t \in Tenant :
             \/ StartAdd(c, n, t) \/ BridgeAdd(c, n, t)
             \/ StartRecord(c, n, t) \/ BridgeRecord(c, n, t)
             \/ StartCover(c, n, t) \/ StartHandback(c, n, t)
             \/ \E k \in Key :
                  \/ StartProvision(c, n, t, k)
                  \/ \E wipe \in BOOLEAN : StartTeardown(c, n, t, k, wipe)
        \/ \E r \in rows : StartDrop(c, r)
        \/ ResolverLists(c) \/ ResolverCreates(c) \/ Register(c)
        \/ MailProvisions(c) \/ MailDeprovisions(c)
        \/ CheckServed(c) \/ ResolverDeletes(c) \/ Drop(c)
  BY DEF Step
<1> DEFINE Same == rows' = rows /\ lastId' = lastId /\ mail' = mail
<1>2. ASSUME NEW n \in Name, NEW t \in Tenant,
             \/ StartAdd(c, n, t) \/ BridgeAdd(c, n, t)
             \/ StartRecord(c, n, t) \/ BridgeRecord(c, n, t)
             \/ StartCover(c, n, t) \/ StartHandback(c, n, t)
             \/ \E k \in Key :
                  \/ StartProvision(c, n, t, k)
                  \/ \E wipe \in BOOLEAN : StartTeardown(c, n, t, k, wipe)
      PROVE  Same
  BY <1>2 DEF StartAdd, BridgeAdd, StartRecord, BridgeRecord, Record, StartCover,
              StartHandback, StartProvision, StartTeardown
<1>3. ASSUME NEW r, StartDrop(c, r) PROVE Same
  BY <1>3 DEF StartDrop
<1>4. ResolverLists(c) \/ ResolverCreates(c) \/ CheckServed(c) \/ ResolverDeletes(c) => Same
  BY DEF ResolverLists, ResolverCreates, CheckServed, ResolverDeletes
<1>5. QED
  BY <1>1, <1>2, <1>3, <1>4

LEMMA RowsStep ==
  ASSUME RowsInv, CallsInv, Step PROVE RowsInv'
<1>1. CASE UNCHANGED <<rows, lastId>>
  BY <1>1 DEF RowsInv, OneRowPerName
<1>2. CASE \E c \in Call : Register(c)
  <2>1. PICK c \in Call : Register(c)
    BY <1>2
  <2>2. call[c].name \in Name /\ call[c].tenant \in Tenant
    BY DEF CallsInv, Loose
  <2>3. CASE CanCreate(call[c].name) /\ CreateDomain(call[c].name, call[c].tenant)
    BY <2>2, <2>3, CreateKeeps
  <2>4. QED
    BY <1>1, <2>1, <2>3 DEF Register
<1>3. CASE \E c \in Call : Drop(c)
  BY <1>1, <1>3, DeleteKeeps DEF Drop
<1>4. CASE \E c \in Call : MailProvisions(c) \/ MailDeprovisions(c)
  BY <1>1, <1>4 DEF MailProvisions, MailDeprovisions
<1>5. QED
  BY <1>1, <1>2, <1>3, <1>4, StepKinds

\* How the mail host changes: one name, on a request that is at the mail host.
LEMMA MailChange ==
  ASSUME Step
  PROVE  \/ UNCHANGED mail
         \/ \E c \in Call :
              /\ MailProvisions(c) /\ Adjudicated(call[c])
              /\ mail' = [mail EXCEPT ![call[c].name] = "box"]
         \/ \E c \in Call, left \in {"none", "domain"} :
              /\ MailDeprovisions(c) /\ Adjudicated(call[c])
              /\ mail' = [mail EXCEPT ![call[c].name] = left]
              /\ mail[call[c].name] = "none" => left = "none"
<1>1. CASE \E c \in Call : MailProvisions(c)
  BY <1>1 DEF MailProvisions
<1>2. ASSUME NEW c \in Call, MailDeprovisions(c), mail' # mail
      PROVE  \E left \in {"none", "domain"} :
               /\ Adjudicated(call[c]) /\ mail' = [mail EXCEPT ![call[c].name] = left]
               /\ mail[call[c].name] = "none" => left = "none"
  <2> DEFINE left == IF call[c].wipe \/ mail[call[c].name] = "none" THEN "none" ELSE "domain"
  <2>1. Adjudicated(call[c]) /\ mail' = [mail EXCEPT ![call[c].name] = left]
    BY <1>2 DEF MailDeprovisions
  <2>2. left \in {"none", "domain"} /\ (mail[call[c].name] = "none" => left = "none")
    OBVIOUS
  <2> HIDE DEF left
  <2>3. QED
    BY <2>1, <2>2
<1>3. CASE \E c \in Call : MailDeprovisions(c)
  BY <1>2, <1>3
<1>4. CASE \E c \in Call : Register(c) \/ Drop(c)
  BY <1>4 DEF Register, Drop
<1>5. QED
  BY <1>1, <1>3, <1>4, StepKinds

LEMMA MailKeeps == ASSUME MailInv, Step PROVE MailInv'
BY MailChange DEF MailInv, MailState

-----------------------------------------------------------------------------
(* The invariant.                                                          *)

LEMMA DropStarts ==
  ASSUME CallsInv, RowsInv, ElectedInv, Observe, NEW c \in Call, NEW r \in rows,
         StartDrop(c, r)
  PROVE  CallsInv'
<1>1. r.name \in Name /\ r.tenant \in Tenant /\ r.id \in Nat
  BY DEF RowsInv
<1>2. QED
  BY <1>1, RemovePlain DEF StartDrop

LEMMA HandbackStarts ==
  ASSUME CallsInv, RowsInv, ElectedInv, Observe, NEW c \in Call, NEW n \in Name,
         NEW t \in Tenant, StartHandback(c, n, t)
  PROVE  CallsInv'
<1>1. RowId(n, t) \in Nat
  BY RowIdNat
<1>2. QED
  BY <1>1, RemovePlain DEF StartHandback

LEMMA CallsStep ==
  ASSUME CallsInv, RowsInv, ElectedInv, Observe, Step PROVE CallsInv'
<1>1. PICK c \in Call :
        \/ \E n \in Name, t \in Tenant :
             \/ StartAdd(c, n, t) \/ BridgeAdd(c, n, t)
             \/ StartRecord(c, n, t) \/ BridgeRecord(c, n, t)
             \/ StartCover(c, n, t) \/ StartHandback(c, n, t)
             \/ \E k \in Key :
                  \/ StartProvision(c, n, t, k)
                  \/ \E wipe \in BOOLEAN : StartTeardown(c, n, t, k, wipe)
        \/ \E r \in rows : StartDrop(c, r)
        \/ ResolverLists(c) \/ ResolverCreates(c) \/ Register(c)
        \/ MailProvisions(c) \/ MailDeprovisions(c)
        \/ CheckServed(c) \/ ResolverDeletes(c) \/ Drop(c)
  BY DEF Step
<1>2. ASSUME NEW n \in Name, NEW t \in Tenant,
             \/ StartAdd(c, n, t) \/ BridgeAdd(c, n, t)
             \/ StartRecord(c, n, t) \/ BridgeRecord(c, n, t) \/ StartCover(c, n, t)
      PROVE  CallsInv'
  BY <1>2, ListPlain DEF StartAdd, BridgeAdd, StartRecord, BridgeRecord, Record, StartCover
<1>3. CASE MailProvisions(c)
  BY <1>3, Ends DEF MailProvisions
<1>4. QED
  BY <1>1, <1>2, <1>3, HandbackStarts, ProvisionStep, TeardownStep, DropStarts, ListsStep,
     CreatesStep, RegisterStep, DeprovisionsStep, CheckStep, DeletesStep, DropStep

\* It is inductive, though none of the properties below is by itself.
ZonesInv == RowsInv /\ ElectedInv /\ MailInv /\ CallsInv

LEMMA ElectedStays == ASSUME ElectedInv, [Next]_vars PROVE ElectedInv'
<1>1. CASE UNCHANGED elected
  BY <1>1 DEF ElectedInv
<1>2. ASSUME NEW t \in Tenant, NEW s \in Own[t], Elect(t, s) PROVE ElectedInv'
  BY <1>2, ResolverAssumption DEF Elect, ElectedInv
<1>3. QED
  BY <1>1, <1>2 DEF Next, vars

LEMMA ZonesInit == Init => ZonesInv
<1> SUFFICES ASSUME Init PROVE ZonesInv
  OBVIOUS
<1>1. RowsInv
  <2>1. CASE rows = {} /\ lastId = 0
    BY <2>1 DEF RowsInv, OneRowPerName
  <2>2. CASE \E h \in Held : rows = {[id |-> 1, name |-> h[1], tenant |-> h[2]]} /\ lastId = 1
    BY <2>2, StartAssumption DEF RowsInv, OneRowPerName
  <2>3. QED
    BY <2>1, <2>2 DEF Init
<1>5. ElectedInv
  BY ResolverAssumption DEF Init, ElectedInv
<1>2. MailInv
  BY DEF Init, MailInv, MailState
<1>3. CallsInv
  BY IdleBacked DEF Init, CallsInv, Noticed
<1>4. QED
  BY <1>1, <1>2, <1>3, <1>5 DEF ZonesInv

LEMMA ZonesNext == ZonesInv /\ [Next]_vars => ZonesInv'
<1> SUFFICES ASSUME ZonesInv, [Next]_vars PROVE ZonesInv'
  OBVIOUS
<1>0. ElectedInv'
  BY ElectedStays DEF ZonesInv
<1>1. CASE Step /\ Observe
  BY <1>0, <1>1, RowsStep, MailKeeps, CallsStep DEF ZonesInv
<1>2. CASE Observe /\ UNCHANGED <<rows, lastId, zones, mail, call>>
  <2>1. RowsInv' /\ MailInv'
    BY <1>2 DEF ZonesInv, RowsInv, OneRowPerName, MailInv
  <2>2. QED
    BY <1>0, <1>2, <2>1, KeysStep DEF ZonesInv
<1>3. CASE UNCHANGED vars
  BY <1>0, <1>3 DEF vars, ZonesInv, RowsInv, OneRowPerName, MailInv, CallsInv, Noticed,
                    Something
<1>4. QED
  BY <1>1, <1>2, <1>3 DEF Next, Elect

\* The tables and the requests stay backed as long as the program runs.
THEOREM ZonesInvariant == Spec => []ZonesInv
BY ZonesInit, ZonesNext, PTL DEF Spec

-----------------------------------------------------------------------------
(* What follows.                                                           *)

\* A name is on record once, however many requests race for it: what each read
\* within its tenant may be stale, and the index on the name decides.
THEOREM NameOnRecordOnce == Spec => []OneRowPerName
<1>1. ZonesInv => OneRowPerName
  BY DEF ZonesInv, RowsInv
<1>2. QED
  BY <1>1, ZonesInvariant, PTL

\* A teardown that reports its zone as removed asked a resolver that did not serve
\* the name at some moment after it was asked, or has more zones than the page
\* that is read.
THEOREM ReportedZoneWentAway == Spec => []RemovalIsReal
<1>1. ZonesInv => RemovalIsReal
  BY DEF ZonesInv, CallsInv, Backed, RemovalIsReal
<1>2. QED
  BY <1>1, ZonesInvariant, PTL

\* A teardown that reports anything removed found something of the name.
THEOREM NothingReportedForNothing == Spec => []RepeatRemovesNothing
<1>1. ZonesInv => RepeatRemovesNothing
  BY DEF ZonesInv, CallsInv, Backed, RepeatRemovesNothing
<1>2. QED
  BY <1>1, ZonesInvariant, PTL

\* A row goes by a request of its tenant that read that row, and a teardown
\* takes it only after the resolver it asked let the name go.
THEOREM OnlyOwnersRemoveRows == Spec => RowsGoByOwner
<1> DEFINE Owned == \A r \in rows \ rows' : \E c \in Call :
                    /\ call[c] # call'[c]
                    /\ call[c].row = r.id /\ call[c].tenant = r.tenant
                    /\ call[c].op = "teardown" => seen[c].unserved
<1>1. ASSUME ZonesInv, Step PROVE Owned
  <2>1. CASE UNCHANGED rows
    BY <2>1
  <2>2. CASE \E c \in Call : Register(c)
    BY <2>1, <2>2 DEF Register, CreateDomain
  <2>3. ASSUME NEW c \in Call, Drop(c) PROVE Owned
    <3>1. call[c].pc = "reply" /\ Backed(call[c], seen[c]) /\ call[c] \in Loose
      BY <1>1, <2>3 DEF Drop, ZonesInv, CallsInv
    <3>2. call'[c].pc = "idle"
      <4>1. Reported(call[c], call[c].ok).pc = "idle"
        BY IdleBacked DEF Reported, Loose
      <4>2. QED
        BY <2>3, <4>1, IdleBacked DEF Drop, Goto
    <3>3. CASE call[c].ok /\ DeleteDomain(call[c].row, call[c].tenant)
      <4>1. \A r \in rows \ rows' : r.id = call[c].row /\ r.tenant = call[c].tenant
        BY <3>3 DEF DeleteDomain
      <4>2. call[c].op = "teardown" => seen[c].unserved
        BY <3>1, <3>3 DEF Backed
      <4>3. QED
        BY <3>1, <3>2, <4>1, <4>2
    <3>4. QED
      BY <2>1, <2>3, <3>3 DEF Drop, Drops
  <2>4. CASE \E c \in Call : MailProvisions(c) \/ MailDeprovisions(c)
    BY <2>1, <2>4 DEF MailProvisions, MailDeprovisions
  <2>5. QED
    BY <1>1, <2>1, <2>2, <2>3, <2>4, StepKinds
<1>2. ZonesInv /\ [Next]_vars => [Owned]_vars
  BY <1>1 DEF Next, Elect, vars
<1>3. QED
  BY <1>2, ZonesInvariant, PTL DEF Spec, RowsGoByOwner

\* The mail host changes a name only on a live key of its tenant, and builds
\* for a name the tenant has, or had while it asked, on record.
THEOREM MailFollowsRecord == Spec => MailOnOwnName
<1> DEFINE Owned == \A n \in Name : mail[n] # mail'[n] =>
                    \E c \in Call :
                      /\ call[c] # call'[c] /\ call[c].name = n
                      /\ \E k \in Key : /\ call[c].key = k /\ keys[k] = "live"
                                        /\ Bound[k] \in {call[c].tenant, Anyone}
                      /\ mail[n] = "none" => seen[c].owned
<1>1. ASSUME ZonesInv, Step PROVE Owned
  <2> SUFFICES ASSUME NEW n \in Name, mail[n] # mail'[n]
               PROVE  \E c \in Call :
                        /\ call[c] # call'[c] /\ call[c].name = n
                        /\ \E k \in Key : /\ call[c].key = k /\ keys[k] = "live"
                                          /\ Bound[k] \in {call[c].tenant, Anyone}
                        /\ mail[n] = "none" => seen[c].owned
    OBVIOUS
  <2>0. mail \in [Name -> MailState] /\ ~UNCHANGED mail
    BY <1>1 DEF ZonesInv, MailInv
  <2>1. ASSUME NEW c \in Call, call[c].pc = "mail", Adjudicated(call[c])
        PROVE  /\ \E k \in Key : /\ call[c].key = k /\ keys[k] = "live"
                                 /\ Bound[k] \in {call[c].tenant, Anyone}
               /\ call[c].op = "provision" => seen[c].owned
    BY <1>1, <2>1 DEF ZonesInv, CallsInv, Backed, KeyFits, Adjudicated, Admits
  <2>2. ASSUME NEW c \in Call, MailProvisions(c), Adjudicated(call[c]),
               mail' = [mail EXCEPT ![call[c].name] = "box"]
        PROVE  /\ call[c] # call'[c] /\ call[c].name = n
               /\ call[c].pc = "mail" /\ call[c].op = "provision"
    BY <2>0, <2>2, IdleBacked DEF MailProvisions, Goto
  <2>3. ASSUME NEW c \in Call, NEW left \in {"none", "domain"},
               MailDeprovisions(c), Adjudicated(call[c]),
               mail' = [mail EXCEPT ![call[c].name] = left],
               mail[call[c].name] = "none" => left = "none"
        PROVE  /\ call[c] # call'[c] /\ call[c].name = n
               /\ call[c].pc = "mail" /\ mail[n] # "none"
    <3>1. call[c].name = n /\ mail[n] # "none" /\ call[c].pc = "mail" /\ call[c] \in Loose
      BY <1>1, <2>0, <2>3 DEF MailDeprovisions, ZonesInv, CallsInv
    <3>2. call'[c].pc # "mail"
      <4> DEFINE told == [call[c] EXCEPT !.key = Session,
                            !.gone = mail[call[c].name] = "box",
                            !.mailGone = call[c].wipe /\ mail[call[c].name] # "none"]
                 ended == Reported(told, FALSE)
                 i == RowId(told.name, told.tenant)
      <4>1. call'[c] = Idle \/ call'[c] = ZoneHalf(told)
        BY <2>3 DEF MailDeprovisions, Goto
      <4>2. ended.pc = "idle"
        BY IdleBacked DEF Reported, Loose
      <4>3. told = [told EXCEPT !.key = Session] /\ "pc" \in DOMAIN told
        BY <3>1 DEF Loose
      <4>4. ZoneHalf(told) \in {ended, Asking(told, "check"),
                                Asking([told EXCEPT !.row = i], "delete")}
        BY DEF ZoneHalf
      <4> HIDE DEF told, ended, i
      <4>5. QED
        BY <4>1, <4>2, <4>3, <4>4, IdleBacked DEF Asking
    <3>3. QED
      BY <3>1, <3>2
  <2>4. QED
    BY <1>1, <2>0, <2>1, <2>2, <2>3, MailChange
<1>2. ZonesInv /\ [Next]_vars => [Owned]_vars
  BY <1>1 DEF Next, Elect, vars
<1>3. QED
  BY <1>2, ZonesInvariant, PTL DEF Spec, MailOnOwnName

-----------------------------------------------------------------------------
(* The bound on the row ids: a request that may insert a row starts only when *)
(* there is an id for it, so ids taken and requests waiting never exceed it.  *)

\* The operations that insert a row.
Takers == {"add", "cover", "provision"}

\* A request that may still insert a row.
Takes(w) == w.pc \in {"list", "create", "reply"} /\ w.op \in Takers
Taking(calls) == {c \in Call : Takes(calls[c])}

Budget == lastId + Cardinality(Taking(call)) <= MaxRow

\* The row a request has read is one of the table's, or was, and a request that
\* may insert a row has read none.
Bounded(w) ==
  /\ w.row <= MaxRow
  /\ w.pc = "delete" => w.row # NoRow
  /\ w.op \in Takers \cup {"record"} => w.row = NoRow

BudgetInv ==
  /\ \A c \in Call : Bounded(call[c])
  /\ lastId \in Nat /\ Budget
  /\ \A r \in rows : r.id \in 1..MaxRow

LEMMA IdleBounded == Bounded(Idle) /\ ~Takes(Idle)
BY ZonesAssumption DEF Bounded, Takes, Idle, NoRow

LEMMA TakingStep ==
  ASSUME NEW c \in Call, NEW w, Goto(c, w)
  PROVE  Taking(call') = IF Takes(w) THEN Taking(call) \cup {c} ELSE Taking(call) \ {c}
<1>1. \A d \in Call : call'[d] = IF d = c THEN w ELSE Answered(call[d])
  BY DEF Goto
<1>2. \A d \in Call : Takes(Answered(call[d])) <=> Takes(call[d])
  BY IdleBounded DEF Answered, Takes
<1>3. \A d \in Call : Takes(call'[d]) <=> IF d = c THEN Takes(w) ELSE Takes(call[d])
  BY <1>1, <1>2
<1>4. QED
  BY <1>3 DEF Taking

LEMMA TakingFinite ==
  /\ IsFiniteSet(Taking(call)) /\ Cardinality(Taking(call)) \in Nat
BY ZonesAssumption, FS_Subset, FS_CardinalityType DEF Taking

\* The three ways of a step with the budget: no request is added, one is for which
\* there was room, or one becomes a row.
LEMMA BudgetKept ==
  ASSUME BudgetInv, NEW c \in Call, NEW w, Goto(c, w), UNCHANGED lastId,
         Takes(w) => Takes(call[c])
  PROVE  Budget'
<1>1. Taking(call') \subseteq Taking(call)
  BY TakingStep DEF Taking
<1>2. /\ Cardinality(Taking(call')) \in Nat
      /\ Cardinality(Taking(call')) <= Cardinality(Taking(call))
  BY <1>1, TakingFinite, FS_Subset, FS_CardinalityType
<1>3. QED
  BY <1>2, TakingFinite, ZonesAssumption DEF Budget, BudgetInv

LEMMA BudgetTaken ==
  ASSUME BudgetInv, NEW c \in Call, NEW w, Goto(c, w), UNCHANGED lastId, Room
  PROVE  Budget'
<1> DEFINE waiting == {d \in Call : call[d].pc \in {"list", "create", "reply"}
                                    /\ call[d].row = NoRow}
<1>1. Taking(call) \subseteq waiting /\ IsFiniteSet(waiting)
  BY ZonesAssumption, FS_Subset DEF Taking, Takes, BudgetInv, Bounded
<1>2. /\ Cardinality(Taking(call)) <= Cardinality(waiting)
      /\ Cardinality(waiting) \in Nat
  BY <1>1, FS_Subset, FS_CardinalityType
<1>3. lastId + Cardinality(waiting) < MaxRow
  BY DEF Room
<1> HIDE DEF waiting
<1>4. Taking(call') \subseteq Taking(call) \cup {c}
  BY TakingStep
<1>5. /\ IsFiniteSet(Taking(call) \cup {c})
      /\ Cardinality(Taking(call) \cup {c}) <= Cardinality(Taking(call)) + 1
  <2> DEFINE S == Taking(call)
  <2>1. IsFiniteSet(S) /\ Cardinality(S) \in Nat
    BY TakingFinite
  <2> HIDE DEF S
  <2>2. /\ IsFiniteSet(S \cup {c})
        /\ Cardinality(S \cup {c}) = IF c \in S THEN Cardinality(S) ELSE Cardinality(S) + 1
    BY <2>1, FS_AddElement
  <2>3. QED
    BY <2>1, <2>2 DEF S
<1>6. /\ Cardinality(Taking(call')) \in Nat
      /\ Cardinality(Taking(call')) <= Cardinality(Taking(call) \cup {c})
      /\ Cardinality(Taking(call) \cup {c}) \in Nat
  BY <1>4, <1>5, FS_Subset, FS_CardinalityType
<1>7. QED
  BY <1>2, <1>3, <1>5, <1>6, TakingFinite, ZonesAssumption DEF Budget, BudgetInv

LEMMA BudgetSpent ==
  ASSUME BudgetInv, NEW c \in Call, NEW w, Goto(c, w), lastId' = lastId + 1,
         Takes(call[c]), ~Takes(w)
  PROVE  Budget' /\ lastId + 1 <= MaxRow
<1>1. Taking(call') = Taking(call) \ {c} /\ c \in Taking(call)
  BY TakingStep DEF Taking
<1>2. /\ Cardinality(Taking(call')) = Cardinality(Taking(call)) - 1
      /\ Cardinality(Taking(call')) \in Nat
  BY <1>1, TakingFinite, FS_RemoveElement, FS_CardinalityType
<1>3. QED
  BY <1>2, TakingFinite, ZonesAssumption DEF Budget, BudgetInv

\* The other parts of the invariant, once the request's new state has them.
LEMMA OthersBounded ==
  ASSUME BudgetInv, NEW c \in Call, NEW w, Goto(c, w), Bounded(w)
  PROVE  \A d \in Call : Bounded(call'[d])
<1>1. \A d \in Call : call'[d] = IF d = c THEN w ELSE Answered(call[d])
  BY DEF Goto
<1>2. \A d \in Call : Bounded(Answered(call[d]))
  BY IdleBounded DEF Answered, BudgetInv
<1>3. QED
  BY <1>1, <1>2

LEMMA Keeps ==
  ASSUME BudgetInv, NEW c \in Call, NEW w, Goto(c, w), Bounded(w),
         Takes(w) => Takes(call[c]), UNCHANGED lastId, rows' \subseteq rows
  PROVE  BudgetInv'
<1>1. Budget' /\ \A d \in Call : Bounded(call'[d])
  BY BudgetKept, OthersBounded
<1>2. QED
  BY <1>1 DEF BudgetInv, Bounded

LEMMA KeepsIdle ==
  ASSUME BudgetInv, NEW c \in Call, Goto(c, Idle), UNCHANGED lastId, rows' \subseteq rows
  PROVE  BudgetInv'
BY IdleBounded, Keeps

LEMMA ReportedBounded ==
  ASSUME NEW w, NEW freed PROVE Bounded(Reported(w, freed)) /\ ~Takes(Reported(w, freed))
<1>1. /\ Reported(w, freed).pc = "idle" /\ Reported(w, freed).op = "teardown"
      /\ Reported(w, freed).row = NoRow
  BY DEF Reported, Idle
<1>2. QED
  BY <1>1, ZonesAssumption DEF Bounded, Takes, Takers, NoRow

-----------------------------------------------------------------------------
(* Each step within the budget.                                            *)

LEMMA FreshRow ==
  ASSUME NEW op, NEW n, NEW t
  PROVE  Fresh(op, n, t).row = NoRow /\ Fresh(op, n, t).op = op
BY DEF Fresh, Idle

\* A request that may insert a row starts with room for it.
LEMMA TakerStarts ==
  ASSUME BudgetInv, NEW c \in Call, NEW op \in {"add", "cover"}, NEW n, NEW t, Room,
         Goto(c, Asking(Fresh(op, n, t), "list")), UNCHANGED <<rows, lastId>>
  PROVE  BudgetInv'
<1> DEFINE w == Asking(Fresh(op, n, t), "list")
<1>1. w.row = NoRow /\ w.pc = "list"
  BY DEF Asking, Fresh, Idle
<1> HIDE DEF w
<1>2. Bounded(w)
  BY <1>1, ZonesAssumption DEF Bounded, NoRow
<1>3. Goto(c, w)
  BY DEF w
<1>4. Budget' /\ \A d \in Call : Bounded(call'[d])
  BY <1>2, <1>3, BudgetTaken, OthersBounded
<1>5. QED
  BY <1>4 DEF BudgetInv, Bounded

LEMMA ProvisionBudget ==
  ASSUME BudgetInv, NEW c \in Call, NEW n, NEW t, NEW k, StartProvision(c, n, t, k)
  PROVE  BudgetInv'
<1> DEFINE pc == IF RowId(n, t) # NoRow THEN "mail" ELSE "list"
           v == [Fresh("provision", n, t) EXCEPT !.key = k]
           w == IF RowId(n, t) # NoRow THEN [v EXCEPT !.pc = "mail"] ELSE Asking(v, "list")
<1>1. w.row = NoRow /\ w.pc = pc
  BY DEF Asking, Fresh, Idle
<1>2. Goto(c, w) /\ UNCHANGED <<rows, lastId>> /\ (pc = "mail" \/ Room)
  BY DEF StartProvision
<1> HIDE DEF w, pc
<1>3. Bounded(w)
  BY <1>1, <1>2, ZonesAssumption DEF Bounded, NoRow, pc
<1>4. CASE pc = "mail"
  BY <1>1, <1>2, <1>3, <1>4, Keeps DEF Takes
<1>5. CASE Room
  <2>1. Budget' /\ \A d \in Call : Bounded(call'[d])
    BY <1>2, <1>3, <1>5, BudgetTaken, OthersBounded
  <2>2. QED
    BY <1>2, <2>1 DEF BudgetInv, Bounded
<1>6. QED
  BY <1>2, <1>4, <1>5

LEMMA RecordBudget ==
  ASSUME BudgetInv, NEW c \in Call, NEW n, NEW t, Record(c, n, t) PROVE BudgetInv'
<1> DEFINE w == Asking(Fresh("record", n, t), "list")
<1>1. w.row = NoRow /\ w.pc = "list" /\ w.op = "record"
  BY DEF Asking, Fresh, Idle
<1>2. Goto(c, w) /\ UNCHANGED <<rows, lastId>>
  BY DEF Record
<1> HIDE DEF w
<1>3. Bounded(w) /\ ~Takes(w)
  BY <1>1, ZonesAssumption DEF Bounded, Takes, Takers, NoRow
<1>4. QED
  BY <1>2, <1>3, Keeps

\* A request that removes a row read its id in the table.
LEMMA RemovalBudget ==
  ASSUME BudgetInv, NEW c \in Call, NEW op \in {"drop", "handback"}, NEW n, NEW t,
         NEW i \in 1..MaxRow, UNCHANGED <<rows, lastId>>,
         Goto(c, Asking([Fresh(op, n, t) EXCEPT !.row = i], "delete"))
  PROVE  BudgetInv'
<1> DEFINE w == Asking([Fresh(op, n, t) EXCEPT !.row = i], "delete")
<1>1. w.row = i /\ w.pc = "delete" /\ w.op = op
  BY DEF Asking, Fresh, Idle
<1> HIDE DEF w
<1>2. Bounded(w) /\ ~Takes(w)
  BY <1>1, ZonesAssumption DEF Bounded, Takes, Takers, NoRow
<1>3. Goto(c, w)
  BY DEF w
<1>4. QED
  BY <1>2, <1>3, Keeps

LEMMA RowIdBound ==
  ASSUME BudgetInv, RowsInv, NEW n, NEW t, RowId(n, t) # NoRow
  PROVE  RowId(n, t) \in 1..MaxRow
BY RowFound DEF BudgetInv

LEMMA TeardownBudget ==
  ASSUME BudgetInv, NEW c \in Call, NEW n, NEW t, NEW k, NEW wipe,
         StartTeardown(c, n, t, k, wipe)
  PROVE  BudgetInv'
<1> DEFINE w == [Fresh("teardown", n, t) EXCEPT !.key = k, !.pc = "mail", !.wipe = wipe]
<1>1. w.row = NoRow /\ w.pc = "mail"
  BY DEF Fresh, Idle
<1>2. Goto(c, w) /\ UNCHANGED <<rows, lastId>>
  BY DEF StartTeardown
<1> HIDE DEF w
<1>3. Bounded(w) /\ ~Takes(w)
  BY <1>1, ZonesAssumption DEF Bounded, Takes, NoRow
<1>4. QED
  BY <1>2, <1>3, Keeps

\* The resolver's answer moves a request on and leaves its operation and its row.
LEMMA MovesOn ==
  ASSUME BudgetInv, NEW c \in Call, NEW w, w.pc \in {"create", "reply"},
         w.row = call[c].row, w.op = call[c].op,
         Takes(call[c]) \/ call[c].op \notin Takers,
         Goto(c, w), UNCHANGED <<rows, lastId>>
  PROVE  BudgetInv'
<1>1. Bounded(w) /\ (Takes(w) => Takes(call[c]))
  BY DEF Bounded, Takes, BudgetInv
<1>2. QED
  BY <1>1, Keeps

LEMMA ZonedBudget ==
  ASSUME BudgetInv, CallsInv, NEW c \in Call, call[c].pc \in {"list", "create"}, NEW told,
         Goto(c, Zoned(call[c], told)), UNCHANGED <<rows, lastId>>
  PROVE  BudgetInv'
<1> DEFINE ok == told \/ call[c].op # "cover"
           w == Told(call[c], ok)
<1>1. Goto(c, Idle) \/ Goto(c, w)
  BY DEF Zoned
<1>2. w.pc = "reply" /\ w.row = call[c].row /\ w.op = call[c].op
  BY DEF Told, CallsInv, Loose
<1> HIDE DEF w
<1>3. Takes(call[c]) \/ call[c].op \notin Takers
  BY DEF Takes
<1>4. QED
  BY <1>1, <1>2, <1>3, KeepsIdle, MovesOn

LEMMA ListsBudget ==
  ASSUME BudgetInv, CallsInv, NEW c \in Call, ResolverLists(c) PROVE BudgetInv'
<1>1. call[c].pc = "list" /\ call[c] \in Loose /\ UNCHANGED <<rows, lastId>>
  BY DEF ResolverLists, CallsInv
<1>2. CASE Goto(c, [call[c] EXCEPT !.pc = "create"])
  <2> DEFINE w == [call[c] EXCEPT !.pc = "create"]
  <2>1. w.pc = "create" /\ w.row = call[c].row /\ w.op = call[c].op /\ Goto(c, w)
    BY <1>1, <1>2 DEF Loose
  <2> HIDE DEF w
  <2>2. QED
    BY <1>1, <2>1, MovesOn DEF Takes
<1>3. CASE Goto(c, Zoned(call[c], TRUE))
  BY <1>1, <1>3, ZonedBudget
<1>4. QED
  BY <1>2, <1>3 DEF ResolverLists

LEMMA DeletesBudget ==
  ASSUME BudgetInv, CallsInv, NEW c \in Call, ResolverDeletes(c) PROVE BudgetInv'
<1>1. PICK told \in BOOLEAN :
        Goto(c, Told(call[c], told \/ call[c].op # "teardown"))
  BY DEF ResolverDeletes
<1>2. call[c].pc = "delete" /\ UNCHANGED <<rows, lastId>>
  BY DEF ResolverDeletes
<1>3. call[c].op \notin Takers
  BY <1>2 DEF BudgetInv, Bounded
<1> DEFINE w == Told(call[c], told \/ call[c].op # "teardown")
<1>4. w.pc = "reply" /\ w.row = call[c].row /\ w.op = call[c].op /\ Goto(c, w)
  BY <1>1 DEF Told, CallsInv, Loose
<1> HIDE DEF w
<1>5. QED
  BY <1>2, <1>3, <1>4, MovesOn

\* The row that is inserted has the id there was room for.
LEMMA RegisterBudget ==
  ASSUME BudgetInv, CallsInv, NEW c \in Call, Register(c) PROVE BudgetInv'
<1> DEFINE n == call[c].name
           t == call[c].tenant
           w == AfterRow(call[c])
<1>1. CASE Goto(c, Idle) /\ UNCHANGED <<rows, lastId>>
  BY <1>1, KeepsIdle
<1>2. CASE CreateDomain(n, t) /\ Goto(c, w)
  <2>1. Takes(call[c])
    BY DEF Register, Takes, Takers
  <2>2. \/ w = Idle
        \/ w.pc = "mail" /\ w.row = call[c].row /\ w.op = call[c].op
    BY DEF AfterRow, CallsInv, Loose
  <2>3. Bounded(w) /\ ~Takes(w)
    BY <2>2, IdleBounded DEF Bounded, Takes, BudgetInv
  <2>4. lastId' = lastId + 1 /\ Goto(c, w)
    BY <1>2 DEF CreateDomain
  <2>5. rows' = rows \cup {[id |-> lastId + 1, name |-> n, tenant |-> t]}
    BY <1>2 DEF CreateDomain
  <2> HIDE DEF w, n, t
  <2>6. Budget' /\ lastId + 1 <= MaxRow /\ \A d \in Call : Bounded(call'[d])
    BY <2>1, <2>3, <2>4, BudgetSpent, OthersBounded
  <2>7. lastId + 1 \in 1..MaxRow /\ lastId' \in Nat
    BY <2>4, <2>6, ZonesAssumption DEF BudgetInv
  <2>8. \A r \in rows' : r.id \in 1..MaxRow
    BY <2>5, <2>7 DEF BudgetInv
  <2>9. QED
    BY <2>6, <2>7, <2>8 DEF BudgetInv, Bounded
<1>3. QED
  BY <1>1, <1>2 DEF Register

LEMMA DeprovisionsBudget ==
  ASSUME BudgetInv, CallsInv, RowsInv, NEW c \in Call, MailDeprovisions(c) PROVE BudgetInv'
<1> DEFINE told == [call[c] EXCEPT !.key = Session,
                      !.gone = mail[call[c].name] = "box",
                      !.mailGone = call[c].wipe /\ mail[call[c].name] # "none"]
           i == RowId(told.name, told.tenant)
<1>1. call[c].op = "teardown" /\ call[c] \in Loose /\ UNCHANGED <<rows, lastId>>
  BY DEF MailDeprovisions, CallsInv
<1>2. Goto(c, Idle) \/ Goto(c, ZoneHalf(told))
  BY DEF MailDeprovisions
<1>3. /\ told.row = call[c].row /\ told.op = "teardown"
      /\ told = [told EXCEPT !.key = Session] /\ {"pc", "row", "op"} \subseteq DOMAIN told
  BY <1>1 DEF Loose
<1>4. \/ ZoneHalf(told) = Reported(told, FALSE)
      \/ ZoneHalf(told) = Asking(told, "check")
      \/ i # NoRow /\ ZoneHalf(told) = Asking([told EXCEPT !.row = i], "delete")
  BY DEF ZoneHalf
<1>5. i # NoRow => i \in 1..MaxRow
  BY RowIdBound
<1> HIDE DEF told, i
<1>6. Bounded(ZoneHalf(told)) /\ ~Takes(ZoneHalf(told))
  <2>1. CASE ZoneHalf(told) = Reported(told, FALSE)
    BY <2>1, ReportedBounded
  <2>2. CASE ZoneHalf(told) = Asking(told, "check")
    BY <1>3, <2>2 DEF Asking, Bounded, BudgetInv, Takes, Takers
  <2>3. CASE i # NoRow /\ ZoneHalf(told) = Asking([told EXCEPT !.row = i], "delete")
    BY <1>3, <1>5, <2>3, ZonesAssumption DEF Asking, Bounded, Takes, Takers
  <2>4. QED
    BY <1>4, <2>1, <2>2, <2>3
<1>7. QED
  BY <1>1, <1>2, <1>6, Keeps, KeepsIdle

LEMMA DropBudget ==
  ASSUME BudgetInv, NEW c \in Call, Drop(c) PROVE BudgetInv'
<1>1. rows' \subseteq rows /\ UNCHANGED lastId
  BY DEF Drop, DeleteDomain
<1>2. Goto(c, Idle) \/ Goto(c, Reported(call[c], call[c].ok))
  BY DEF Drop
<1>3. QED
  BY <1>1, <1>2, KeepsIdle, Keeps, ReportedBounded

LEMMA BudgetStep ==
  ASSUME BudgetInv, CallsInv, RowsInv, Step PROVE BudgetInv'
<1>1. PICK c \in Call :
        \/ \E n \in Name, t \in Tenant :
             \/ StartAdd(c, n, t) \/ BridgeAdd(c, n, t)
             \/ StartRecord(c, n, t) \/ BridgeRecord(c, n, t)
             \/ StartCover(c, n, t) \/ StartHandback(c, n, t)
             \/ \E k \in Key :
                  \/ StartProvision(c, n, t, k)
                  \/ \E wipe \in BOOLEAN : StartTeardown(c, n, t, k, wipe)
        \/ \E r \in rows : StartDrop(c, r)
        \/ ResolverLists(c) \/ ResolverCreates(c) \/ Register(c)
        \/ MailProvisions(c) \/ MailDeprovisions(c)
        \/ CheckServed(c) \/ ResolverDeletes(c) \/ Drop(c)
  BY DEF Step
<1>2. ASSUME NEW n \in Name, NEW t \in Tenant,
             StartAdd(c, n, t) \/ BridgeAdd(c, n, t) \/ StartCover(c, n, t)
      PROVE  BudgetInv'
  BY <1>2, TakerStarts DEF StartAdd, BridgeAdd, StartCover
<1>3. ASSUME NEW n \in Name, NEW t \in Tenant, StartRecord(c, n, t) \/ BridgeRecord(c, n, t)
      PROVE  BudgetInv'
  BY <1>3, RecordBudget DEF StartRecord, BridgeRecord
<1>4. ASSUME NEW n \in Name, NEW t \in Tenant, StartHandback(c, n, t) PROVE BudgetInv'
  BY <1>4, RowIdBound, RemovalBudget DEF StartHandback
<1>5. ASSUME NEW r \in rows, StartDrop(c, r) PROVE BudgetInv'
  <2>1. r.id \in 1..MaxRow
    BY DEF BudgetInv
  <2>2. QED
    BY <1>5, <2>1, RemovalBudget DEF StartDrop
<1>6. CASE ResolverCreates(c)
  BY <1>6, ZonedBudget DEF ResolverCreates
<1>7. CASE MailProvisions(c)
  BY <1>7, KeepsIdle DEF MailProvisions
<1>8. CASE CheckServed(c)
  BY <1>8, ReportedBounded, Keeps DEF CheckServed
<1>9. QED
  BY <1>1, <1>2, <1>3, <1>4, <1>5, <1>6, <1>7, <1>8, ProvisionBudget, TeardownBudget,
     ListsBudget, RegisterBudget, DeprovisionsBudget, DeletesBudget, DropBudget

-----------------------------------------------------------------------------
(* Types.                                                                  *)

\* What has the same shape whatever the budget.
ShapeInv ==
  /\ zones \subseteq Resolver \X Name /\ keys \in [Key -> KeyState]
  /\ elected \in [Tenant -> Resolver] /\ begun \in 0..MaxBegun
  /\ call \in [Call -> Loose] /\ seen \in [Call -> Seen]

LEMMA MomentSeen == ASSUME NEW w PROVE Moment(w) \in Seen
BY DEF Moment, Seen

LEMMA SeenStep ==
  ASSUME seen \in [Call -> Seen], Observe PROVE seen' \in [Call -> Seen]
<1>1. NothingSeen \in Seen
  BY DEF NothingSeen, Seen
<1>2. ASSUME NEW s \in Seen, NEW m \in Seen PROVE Either(s, m) \in Seen
  BY DEF Either, Seen
<1>3. ASSUME NEW c \in Call
      PROVE  Either(seen[c], Moment(call[c])) \in Seen /\ Moment(call'[c]) \in Seen
  BY <1>2, MomentSeen
<1>4. QED
  BY <1>1, <1>3 DEF Observe

\* Every step sets one request, and adds at most its zone.
LEMMA StepGoes ==
  ASSUME Step
  PROVE  \E c \in Call : /\ \E w : Goto(c, w)
                         /\ zones' \subseteq zones \/ zones' = zones \cup {Zone(call[c])}
<1>1. PICK c \in Call :
        \/ \E n \in Name, t \in Tenant :
             \/ StartAdd(c, n, t) \/ BridgeAdd(c, n, t)
             \/ StartRecord(c, n, t) \/ BridgeRecord(c, n, t)
             \/ StartCover(c, n, t) \/ StartHandback(c, n, t)
             \/ \E k \in Key :
                  \/ StartProvision(c, n, t, k)
                  \/ \E wipe \in BOOLEAN : StartTeardown(c, n, t, k, wipe)
        \/ \E r \in rows : StartDrop(c, r)
        \/ ResolverLists(c) \/ ResolverCreates(c) \/ Register(c)
        \/ MailProvisions(c) \/ MailDeprovisions(c)
        \/ CheckServed(c) \/ ResolverDeletes(c) \/ Drop(c)
  BY DEF Step
<1> DEFINE Goes == /\ \E w : Goto(c, w)
                   /\ zones' \subseteq zones \/ zones' = zones \cup {Zone(call[c])}
<1>2. ASSUME NEW n \in Name, NEW t \in Tenant,
             \/ StartAdd(c, n, t) \/ BridgeAdd(c, n, t)
             \/ StartRecord(c, n, t) \/ BridgeRecord(c, n, t)
             \/ StartCover(c, n, t) \/ StartHandback(c, n, t)
      PROVE  Goes
  BY <1>2 DEF StartAdd, BridgeAdd, StartRecord, BridgeRecord, Record, StartCover, StartHandback
<1>3. ASSUME NEW n, NEW t, NEW k, NEW wipe,
             StartProvision(c, n, t, k) \/ StartTeardown(c, n, t, k, wipe)
      PROVE  Goes
  BY <1>3 DEF StartProvision, StartTeardown
<1>4. ASSUME NEW r, StartDrop(c, r) PROVE Goes
  BY <1>4 DEF StartDrop
<1>5. ResolverLists(c) \/ ResolverCreates(c) \/ Register(c) => Goes
  BY DEF ResolverLists, ResolverCreates, Register
<1>6. MailProvisions(c) \/ MailDeprovisions(c) => Goes
  BY DEF MailProvisions, MailDeprovisions
<1>7. CheckServed(c) \/ ResolverDeletes(c) \/ Drop(c) => Goes
  BY DEF CheckServed, ResolverDeletes, Drop
<1>8. Goes
  BY <1>1, <1>2, <1>3, <1>4, <1>5, <1>6, <1>7
<1>9. QED
  BY <1>8

LEMMA ZonesStay ==
  ASSUME zones \subseteq Resolver \X Name, CallsInv, Step PROVE zones' \subseteq Resolver \X Name
<1>1. \A c \in Call : Zone(call[c]) \in Resolver \X Name
  BY DEF CallsInv, Loose, Zone
<1>2. QED
  BY <1>1, StepGoes

LEMMA ElectedShape ==
  ASSUME elected \in [Tenant -> Resolver], [Next]_vars PROVE elected' \in [Tenant -> Resolver]
BY ResolverAssumption DEF Next, Elect, vars

LEMMA BegunShape == ASSUME begun \in 0..MaxBegun, [Next]_vars PROVE begun' \in 0..MaxBegun
BY ZonesAssumption DEF Next, Count, vars

LEMMA KeysShape == ASSUME keys \in [Key -> KeyState], KeysNext PROVE keys' \in [Key -> KeyState]
BY DEF KeysNext, CreateKey, RevokeKey, DeleteKey, KeyState

TypesInv == ZonesInv /\ BudgetInv /\ ShapeInv

LEMMA TypesInit == Init => TypesInv
<1> SUFFICES ASSUME Init PROVE TypesInv
  OBVIOUS
<1>1. BudgetInv
  <2>1. Taking(call) = {}
    BY IdleBounded DEF Init, Taking
  <2>2. Cardinality(Taking(call)) = 0
    BY <2>1, FS_EmptySet
  <2>3. /\ lastId \in {0, 1} /\ (lastId = 1 => MaxRow # 0)
        /\ \A r \in rows : r.id = 1 /\ MaxRow # 0
    BY StartAssumption DEF Init
  <2>4. QED
    BY <2>2, <2>3, IdleBounded, ZonesAssumption DEF Init, BudgetInv, Budget
<1>2. ShapeInv
  <2>1. NothingSeen \in Seen /\ "unused" \in KeyState
    BY DEF NothingSeen, Seen, KeyState
  <2>2. elected \in [Tenant -> Resolver] /\ zones \subseteq Resolver \X Name
    BY StartAssumption DEF Init
  <2>3. QED
    BY <2>1, <2>2, IdleBacked, ZonesAssumption DEF Init, ShapeInv
<1>3. QED
  BY <1>1, <1>2, ZonesInit DEF TypesInv

LEMMA TypesNext == TypesInv /\ [Next]_vars => TypesInv'
<1> SUFFICES ASSUME TypesInv, [Next]_vars PROVE TypesInv'
  OBVIOUS
<1>0. /\ ZonesInv' /\ elected' \in [Tenant -> Resolver] /\ begun' \in 0..MaxBegun
  BY ZonesNext, ElectedShape, BegunShape DEF TypesInv, ShapeInv
<1>1. CASE Step /\ Observe /\ UNCHANGED keys
  <2>1. BudgetInv'
    BY <1>1, BudgetStep DEF TypesInv, ZonesInv
  <2>2. zones' \subseteq Resolver \X Name /\ seen' \in [Call -> Seen]
    BY <1>1, ZonesStay, SeenStep DEF TypesInv, ZonesInv, ShapeInv
  <2>3. call' \in [Call -> Loose]
    <3>1. call' = [c \in Call |-> call'[c]]
      BY <1>1, StepGoes DEF Goto
    <3>2. \A c \in Call : call'[c] \in Loose
      BY <1>0 DEF ZonesInv, CallsInv
    <3>3. QED
      BY <3>1, <3>2
  <2>4. QED
    BY <1>0, <1>1, <2>1, <2>2, <2>3 DEF TypesInv, ShapeInv
<1>2. CASE (KeysNext \/ UNCHANGED keys) /\ Observe /\ UNCHANGED <<rows, lastId, zones, mail, call>>
  <2>1. BudgetInv'
    BY <1>2 DEF TypesInv, BudgetInv, Budget
  <2>2. ShapeInv'
    BY <1>0, <1>2, SeenStep, KeysShape DEF TypesInv, ShapeInv
  <2>3. QED
    BY <1>0, <2>1, <2>2 DEF TypesInv
<1>3. CASE UNCHANGED vars
  <2>1. BudgetInv' /\ ShapeInv'
    BY <1>3 DEF vars, TypesInv, BudgetInv, Budget, ShapeInv
  <2>2. QED
    BY <1>0, <2>1 DEF TypesInv
<1>4. QED
  BY <1>1, <1>2, <1>3 DEF Next, Elect

\* Every variable keeps its type, the row ids their bound among it.
THEOREM TypeCorrect == Spec => []TypeOK
<1>1. TypesInv => TypeOK
  <2> SUFFICES ASSUME TypesInv PROVE TypeOK
    OBVIOUS
  <2>1. rows \subseteq Row
    BY DEF TypesInv, ZonesInv, RowsInv, BudgetInv, Row
  <2>2. lastId \in 0..MaxRow
    BY TakingFinite, ZonesAssumption DEF TypesInv, BudgetInv, Budget
  <2>3. ASSUME NEW c \in Call
        PROVE  call[c] \in Work /\ (call[c].pc = "delete" => call[c].row # NoRow)
    <3>1. call[c] \in Loose /\ Bounded(call[c])
      BY DEF TypesInv, ShapeInv, BudgetInv
    <3>2. call[c].row \in 0..MaxRow
      BY <3>1, ZonesAssumption DEF Bounded, Loose
    <3>3. QED
      BY <3>1, <3>2 DEF Bounded, Loose, Work
  <2>4. call \in [Call -> Work]
    BY <2>3 DEF TypesInv, ShapeInv
  <2>5. QED
    BY <2>1, <2>2, <2>3, <2>4 DEF TypesInv, ZonesInv, MailInv, ShapeInv, TypeOK
<1>2. QED
  BY <1>1, TypesInit, TypesNext, PTL DEF Spec

-----------------------------------------------------------------------------
(* The score of a domain (Health).                                        *)

\* A domain without any delegation scores better than one whose nameservers are
\* all silent, and the sweep never notes it: the audit ends before it counts.
THEOREM UndelegatedIsQuiet ==
  ASSUME NEW d \in AuditedDomain, NEW e \in AuditedDomain,
         d.servers = 0, e.servers # 0, e.reached = 0, e.apex = "none"
  PROVE  /\ ~Noted(d) /\ GradeFor(AuditDomain(d)) = "B"
         /\ Noted(e)
         /\ AuditDomain(e) < AuditDomain(d)
<1>1. AuditDomain(d) = 75
  BY DEF AuditDomain, Clamped, Penalty
<1>2. SoaPenalty(e) \in Nat /\ SoaPenalty(e) >= 25
  BY DEF SoaPenalty, AuditedDomain
<1>3. ApexPenalty(e) \in Nat /\ ApexPenalty(e) >= 25
  BY DEF ApexPenalty, Penalty
<1>4. CaaPenalty(e) \in Nat
  BY DEF CaaPenalty, Penalty
<1>5. AuditDomain(e) <= 50
  BY <1>2, <1>3, <1>4 DEF AuditDomain, Clamped
<1>6. AuditDomain(e) \in Int
  BY <1>2, <1>3, <1>4 DEF AuditDomain, Clamped
<1> QED
  BY <1>1, <1>5, <1>6 DEF Noted, GradeFor
=============================================================================
