-------------------------- MODULE DnsChallengeProofs --------------------------
(***************************************************************************)
(* Theorems about DnsChallenge and Providers, for any tenants, resolvers,  *)
(* connections and number of orders.                                       *)
(***************************************************************************)
EXTENDS DnsChallenge, WellFoundedInduction, TLAPS

\* The table: names are unique within a tenant, and one row is the default.
TableInv == ProvidersOk /\ AtMostOneDefault

\* The values an order published and did not ask to remove yet.
LiveOf(w) == {Value(w, p) : p \in {q \in Part : w.part[q] \in {"poll", "valid"}}}

\* A value is served for a part that is under way, or because its removal was
\* refused; two orders have one stem only if it was handed out twice; and the
\* value of a part under way is in place, unless a twin may have removed it.
ServedInv == \A v \in records : v \in refused \/ \E o \in Order : v \in LiveOf(order[o])
RefusedInv == refused \subseteq records /\ refused \subseteq Held
StemsApart ==
  \A o, q \in Order :
    o # q /\ order[o].pc # "idle" /\ order[q].pc # "idle" /\ order[o].stem = order[q].stem
      => order[o].stem \in shared
InPlace ==
  \A o \in Order, p \in Part :
    order[o].pc = "run" /\ order[o].part[p] \in {"poll", "valid"} /\ order[o].stem \notin shared
      => Value(order[o], p) \in records
IdleIsBare == \A o \in Order : order[o].pc = "idle" => \A p \in Part : order[o].part[p] = "none"

TypeInv ==
  /\ records \subseteq Record
  /\ order \in [Order -> Work]
  /\ shared \subseteq Stem

OrdersInv == TypeInv /\ ServedInv /\ RefusedInv /\ StemsApart /\ InPlace /\ IdleIsBare

-----------------------------------------------------------------------------
(* The table of connections.                                               *)

LEMMA TableInit == Init => TableInv
BY DEF Init, ProvidersInit, TableInv, ProvidersOk, AtMostOneDefault

LEMMA UnmarkedRow ==
  ASSUME NEW r \in Provider
  PROVE  /\ Unmarked(r) \in Provider /\ Unmarked(r).tenant = r.tenant
         /\ Unmarked(r).name = r.name /\ Unmarked(r).server = r.server
         /\ ~Unmarked(r).isDefault
BY DEF Unmarked, Provider

\* What the table is before a row is written: a row of the tenant that may go
\* on as it is has a flag only if the new one has none.
LEMMA BeforeOk ==
  ASSUME TableInv, NEW t \in Tenant, NEW flag \in BOOLEAN
  PROVE  /\ Before(t, flag) \subseteq Provider
         /\ \A r \in Before(t, flag) : \E q \in providers :
              /\ r.tenant = q.tenant /\ r.name = q.name /\ r.server = q.server
              /\ r = q \/ r = Unmarked(q)
         /\ \A r, q \in Before(t, flag) : r.tenant = q.tenant /\ r.name = q.name => r = q
         /\ \A r, q \in Before(t, flag) :
              r.tenant = q.tenant /\ r.isDefault /\ q.isDefault => r = q
         /\ \A r \in Before(t, flag) : r.server \in Own[r.tenant]
         /\ flag => \A r \in Before(t, flag) : r.tenant = t => ~r.isDefault
<1>0. providers \subseteq Provider
  BY DEF TableInv, ProvidersOk
<1>1. CASE flag
  <2>1. Before(t, flag) = {r \in providers : r.tenant # t}
                            \cup {Unmarked(r) : r \in {q \in providers : q.tenant = t}}
    BY <1>1 DEF Before, Cleared, Of
  <2>2. \A r \in providers :
          /\ Unmarked(r) \in Provider /\ Unmarked(r).tenant = r.tenant
          /\ Unmarked(r).name = r.name /\ Unmarked(r).server = r.server
          /\ ~Unmarked(r).isDefault
    BY <1>0, UnmarkedRow
  <2>3. QED
    BY <1>0, <2>1, <2>2 DEF TableInv, ProvidersOk, AtMostOneDefault
<1>2. CASE ~flag
  BY <1>2 DEF Before, TableInv, ProvidersOk, AtMostOneDefault
<1>3. QED
  BY <1>1, <1>2

LEMMA TableNext == TableInv /\ ProvidersNext => TableInv'
<1> SUFFICES ASSUME TableInv, ProvidersNext PROVE TableInv'
  OBVIOUS
<1>0. providers \subseteq Provider
  BY DEF TableInv, ProvidersOk
<1>1. ASSUME NEW t \in Tenant, NEW n \in ProviderName, NEW flag \in BOOLEAN,
             NEW s \in Own[t], AddProvider(t, n, s, flag)
      PROVE  TableInv'
  <2> DEFINE row == [tenant |-> t, name |-> n, server |-> s, isDefault |-> flag]
             before == Before(t, flag)
  <2>1. /\ row \in Provider /\ row.tenant = t /\ row.name = n /\ row.server = s
        /\ row.isDefault = flag
    BY ProvidersAssumption DEF Provider
  <2>2. providers' = before \cup {row}
    BY <1>1 DEF AddProvider, Inserted
  <2>3. \A r \in providers : r.tenant = t => r.name # n
    BY <1>1 DEF AddProvider, CanInsert, Of
  <2>4. \A r \in before : ~(r.tenant = t /\ r.name = n)
    BY <2>3, BeforeOk
  <2>5. /\ before \subseteq Provider
        /\ \A r, q \in before : r.tenant = q.tenant /\ r.name = q.name => r = q
        /\ \A r, q \in before : r.tenant = q.tenant /\ r.isDefault /\ q.isDefault => r = q
        /\ \A r \in before : r.server \in Own[r.tenant]
        /\ flag => \A r \in before : r.tenant = t => ~r.isDefault
    BY BeforeOk
  <2> HIDE DEF row, before
  <2>6. QED
    BY <2>1, <2>2, <2>4, <2>5 DEF TableInv, ProvidersOk, AtMostOneDefault
<1>2. ASSUME NEW r \in providers, NEW n \in ProviderName, NEW s \in Own[r.tenant],
             NEW asked \in Asked, EditProvider(r, n, s, asked)
      PROVE  TableInv'
  <2> DEFINE flag == Flag(r, asked)
             before == Before(r.tenant, flag)
             row == [r EXCEPT !.name = n, !.server = s, !.isDefault = flag]
             kept == before \ {q \in before : q.tenant = r.tenant /\ q.name = r.name}
  <2>1. r \in Provider /\ r.tenant \in Tenant /\ flag \in BOOLEAN
    BY <1>0 DEF Provider, Flag
  <2> HIDE DEF flag
  <2>2. /\ row \in Provider /\ row.tenant = r.tenant /\ row.name = n /\ row.server = s
        /\ row.isDefault = flag
    BY <2>1, ProvidersAssumption DEF Provider
  <2>3. /\ before \subseteq Provider
        /\ \A x \in before : \E q \in providers : x.tenant = q.tenant /\ x.name = q.name
        /\ \A x, q \in before : x.tenant = q.tenant /\ x.name = q.name => x = q
        /\ \A x, q \in before : x.tenant = q.tenant /\ x.isDefault /\ q.isDefault => x = q
        /\ \A x \in before : x.server \in Own[x.tenant]
        /\ flag => \A x \in before : x.tenant = r.tenant => ~x.isDefault
    BY <2>1, BeforeOk
  <2>4. CASE providers' = before
    <3> HIDE DEF before
    <3>1. QED
      BY <2>3, <2>4 DEF TableInv, ProvidersOk, AtMostOneDefault
  <2>5. ASSUME providers' = kept \cup {row}, n = r.name \/ CanInsert(r.tenant, n)
        PROVE  TableInv'
    <3>1. n # r.name => \A q \in providers : q.tenant = r.tenant => q.name # n
      BY <2>5 DEF CanInsert, Of
    <3>2. \A x \in kept : ~(x.tenant = r.tenant /\ x.name = n)
      <4> HIDE DEF before
      <4>1. QED
        BY <2>3, <3>1
    <3>3. \A x \in kept : x \in before
      OBVIOUS
    \* Without the flag another row may be the default, but then the row had none
    \* or gives it up.
    <3>4. flag => \A x \in kept : x.tenant = r.tenant => ~x.isDefault
      BY <2>3, <3>3
    <3> HIDE DEF kept, before, row
    <3>5. QED
      BY <2>2, <2>3, <2>5, <3>2, <3>3, <3>4 DEF TableInv, ProvidersOk, AtMostOneDefault
  <2>6. \/ providers' = before
        \/ providers' = Updated(before, r, row) /\ (n = r.name \/ CanInsert(r.tenant, n))
    BY <1>2 DEF EditProvider, flag
  <2>7. Updated(before, r, row) = kept \cup {row}
    BY DEF Updated
  <2>8. QED
    BY <2>4, <2>5, <2>6, <2>7
<1>3. ASSUME NEW r \in providers, RemoveProvider(r) PROVE TableInv'
  BY <1>3 DEF RemoveProvider, TableInv, ProvidersOk, AtMostOneDefault
<1>4. QED
  BY <1>1, <1>2, <1>3 DEF ProvidersNext

\* The first of some rows is one of them.
LEMMA FirstIsOne ==
  ASSUME NEW S, S \subseteq Provider, S # {}
  PROVE  FirstByName(S) \in S
<1> DEFINE N == {r.name : r \in S}
<1>1. N # {} /\ N \subseteq Nat
  BY ProvidersAssumption DEF Provider
<1>2. PICK n \in N : \A m \in N : ~(<<m, n>> \in OpToRel(<, Nat))
  <2> HIDE DEF N
  <2>1. QED
    BY <1>1, WFMin, NatLessThanWellFounded
<1>3. \E r \in S : \A q \in S : r.name <= q.name
  <2>1. ASSUME NEW m \in N PROVE n <= m
    <3>1. m \in Nat /\ n \in Nat
      BY <1>1
    <3>2. ~(m < n)
      BY <1>2, <3>1 DEF OpToRel
    <3>3. QED
      BY <3>1, <3>2
  <2>2. PICK r \in S : r.name = n
    OBVIOUS
  <2>3. \A q \in S : q.name \in N
    OBVIOUS
  <2> HIDE DEF N
  <2>4. QED
    BY <2>1, <2>2, <2>3
<1>4. QED
  BY <1>3 DEF FirstByName

\* A tenant's resolver is always one of the estate's.
LEMMA ElectedServer == ASSUME TableInv, NEW t \in Tenant PROVE Elected(t) \in Server
<1> DEFINE marked == {r \in Of(t) : r.isDefault}
<1>1. Of(t) \subseteq Provider /\ marked \subseteq Provider
  BY DEF Of, TableInv, ProvidersOk
<1>2. marked # {} => FirstByName(marked).server \in Server
  BY <1>1, FirstIsOne DEF Provider
<1>3. Of(t) # {} => FirstByName(Of(t)).server \in Server
  BY <1>1, FirstIsOne DEF Provider
<1>4. QED
  BY <1>2, <1>3, ProvidersAssumption DEF Elected

-----------------------------------------------------------------------------
(* The orders.                                                             *)

\* A value tells its stem and its part.
LEMMA ValueOfWork ==
  ASSUME NEW w \in Work, NEW p \in Part
  PROVE  /\ Value(w, p) \in Record /\ Value(w, p).stem = w.stem
         /\ Value(w, p).part = p
BY DEF Work, Value, Record

\* Resting an order touches nothing of it that is under way.
LEMMA RestedWork ==
  ASSUME NEW w \in Work, w.pc # "idle"
  PROVE  /\ Rested(w) \in Work /\ LiveOf(Rested(w)) = LiveOf(w)
         /\ Rested(w) = w \/ (Rested(w) = Idle /\ w.pc # "cleanup")
         /\ Rested(w).pc = "idle" => \A p \in Part : Rested(w).part[p] = "none"
<1>1. Idle \in Work /\ \A p \in Part : Idle.part[p] = "none"
  BY DnsChallengeAssumption, ProvidersAssumption DEF Idle, Work, Part, PartPc, Stem
<1>2. CASE (\A p \in Part : w.part[p] \in Settled) /\ w.pc # "cleanup"
  <2>1. LiveOf(w) = {}
    BY <1>2 DEF LiveOf, Settled
  <2>2. LiveOf(Idle) = {}
    BY <1>1 DEF LiveOf
  <2>3. QED
    BY <1>1, <1>2, <2>1, <2>2 DEF Rested
<1>3. CASE ~((\A p \in Part : w.part[p] \in Settled) /\ w.pc # "cleanup")
  BY <1>3 DEF Rested
<1>4. QED
  BY <1>2, <1>3

LEMMA LiveIsNoted == ASSUME NEW w PROVE LiveOf(w) \subseteq Noted(w)
BY DEF LiveOf, Noted, Pushed, PartPc

\* What a resolver serves after a step is what it was left with, without what
\* no order notes any more; and what it did not remove is noted as refused.
LEMMA ServesSound ==
  ASSUME NEW served, NEW failed, Serves(served, failed)
  PROVE  /\ records' \subseteq served
         /\ served \cap Held' \subseteq records'
         /\ refused' \subseteq records' /\ refused' \subseteq Held'
         /\ \A v \in records' : v \in refused \cup failed => v \in refused'
BY DEF Serves

\* A step of one order keeps the invariant if it removes only values of its stem,
\* leaves none in place that it does not answer for, and those in place that are
\* under way.
LEMMA OrderStep ==
  ASSUME OrdersInv, NEW o \in Order, NEW w \in Work, w.pc # "idle",
         order[o].pc # "idle", w.stem = order[o].stem,
         Goto(o, w), UNCHANGED shared, NEW served \in SUBSET Record, NEW failed,
         Serves(served, failed),
         \A v \in records \ served : v.stem = w.stem,
         \A v \in served : \/ v \in refused \cup failed \cup LiveOf(w)
                           \/ \E q \in Order \ {o} : v \in LiveOf(order[q]),
         \A p \in Part : w.pc = "run" /\ w.part[p] \in {"poll", "valid"}
                           /\ w.stem \notin shared => Value(w, p) \in served
  PROVE  OrdersInv'
<1> DEFINE x == Rested(w)
<1>1. /\ x \in Work /\ LiveOf(x) = LiveOf(w)
      /\ x = w \/ x = Idle
      /\ x.pc = "idle" => \A p \in Part : x.part[p] = "none"
  BY RestedWork
<1>2. order' = [order EXCEPT ![o] = x]
  BY DEF Goto
<1> HIDE DEF x
<1>3. order \in [Order -> Work] /\ shared \subseteq Stem
  BY DEF OrdersInv, TypeInv
<1>4. order'[o] = x /\ \A q \in Order \ {o} : order'[q] = order[q]
  BY <1>2, <1>3
<1>5. /\ records' \subseteq served /\ served \cap Held' \subseteq records'
      /\ refused' \subseteq records' /\ refused' \subseteq Held'
      /\ \A v \in records' : v \in refused \cup failed => v \in refused'
  BY ServesSound
<1>6. TypeInv'
  BY <1>1, <1>2, <1>3, <1>5 DEF TypeInv
<1>7. ServedInv'
  BY <1>1, <1>4, <1>5 DEF ServedInv
<1>8. RefusedInv'
  BY <1>5 DEF RefusedInv
<1>9. IdleIsBare'
  BY <1>1, <1>4 DEF OrdersInv, IdleIsBare
<1>10. Idle.pc = "idle"
  BY DEF Idle
<1>11. StemsApart'
  <2>1. x.pc # "idle" => x.stem = order[o].stem
    BY <1>1, <1>10
  <2>2. QED
    BY <1>4, <2>1 DEF OrdersInv, StemsApart
<1>12. InPlace'
  <2> SUFFICES ASSUME NEW q \in Order, NEW p \in Part, order'[q].pc = "run",
                      order'[q].part[p] \in {"poll", "valid"}, order'[q].stem \notin shared
               PROVE  Value(order'[q], p) \in records'
    BY DEF InPlace
  <2>1. Value(order'[q], p) \in Held'
    <3>1. Value(order'[q], p) \in LiveOf(order'[q])
      BY DEF LiveOf
    <3>2. Value(order'[q], p) \in Noted(order'[q])
      BY <3>1, LiveIsNoted
    <3>3. QED
      BY <3>2 DEF Held
  <2>2. CASE q = o
    BY <1>1, <1>4, <1>5, <1>10, <2>1, <2>2
  <2>3. CASE q # o
    <3>1. order'[q] = order[q] /\ Value(order[q], p) \in records
      BY <1>4, <2>3 DEF OrdersInv, InPlace
    \* Another order's value has another stem, so this step did not remove it.
    <3>2. Value(order[q], p) \in served
      <4>1. order[q].stem # order[o].stem
        BY <2>3, <3>1 DEF OrdersInv, StemsApart
      <4>2. Value(order[q], p).stem = order[q].stem
        BY DEF Value
      <4>3. QED
        BY <3>1, <4>1, <4>2
    <3>3. QED
      BY <1>5, <2>1, <3>1, <3>2
  <2>4. QED
    BY <2>2, <2>3
<1>13. QED
  BY <1>6, <1>7, <1>8, <1>9, <1>11, <1>12 DEF OrdersInv

\* A part that ends: its value is removed, or its removal refused.
LEMMA EndsStep ==
  ASSUME OrdersInv, NEW o \in Order, NEW p \in Part, NEW failed \in BOOLEAN,
         order[o].pc # "idle", NEW served \in SUBSET Record, UNCHANGED shared,
         Ends(o, p, failed, served), records \subseteq served,
         served \subseteq records \cup {Value(order[o], p)}
  PROVE  OrdersInv'
<1> DEFINE w == order[o]
           x == [w EXCEPT !.part[p] = "ended",
                          !.pc = IF failed /\ w.pc = "run" THEN "cleanup" ELSE @]
           v == Value(w, p)
<1>1. w \in Work
  BY DEF OrdersInv, TypeInv
<1>2. /\ x \in Work /\ x.pc # "idle" /\ x.stem = w.stem /\ x.server = w.server
      /\ x.tenant = w.tenant /\ x.part[p] = "ended"
      /\ \A q \in Part \ {p} : x.part[q] = w.part[q]
      /\ x.pc = "run" => w.pc = "run"
  BY <1>1 DEF Work, PartPc
<1>3. Goto(o, x) /\ (Serves(served \ {v}, {}) \/ Serves(served, {v}))
  <2>1. [v EXCEPT !.server = Target(w)] = v
    BY DEF Value, Target
  <2>2. served \ Matching(v, served) = served \ {v}
    BY DEF Matching
  <2>3. Goto(o, x) /\ Removes(w, p, served)
    BY DEF Ends
  <2>4. QED
    BY <2>1, <2>2, <2>3 DEF Removes
<1>4. \A q \in Part : Value(x, q) = Value(w, q)
  BY <1>2 DEF Value
<1>5. LiveOf(w) \subseteq LiveOf(x) \cup {v}
  BY <1>2, <1>4 DEF LiveOf
<1>6. \A u \in served : u # v =>
         u \in refused \cup LiveOf(x) \/ \E q \in Order \ {o} : u \in LiveOf(order[q])
  BY <1>5 DEF OrdersInv, ServedInv
<1>7. \A q \in Part : x.pc = "run" /\ x.part[q] \in {"poll", "valid"} /\ x.stem \notin shared
         => Value(x, q) \in served \ {v}
  <2>1. ASSUME NEW q \in Part, x.pc = "run", x.part[q] \in {"poll", "valid"},
               x.stem \notin shared
        PROVE  Value(w, q) \in served \ {v}
    <3>1. q # p
      BY <1>2, <2>1
    <3>2. Value(w, q) \in records
      BY <1>2, <2>1, <3>1 DEF OrdersInv, InPlace
    <3>3. Value(w, q).part = q /\ v.part = p
      BY DEF Value
    <3>4. QED
      BY <3>1, <3>2, <3>3
  <2>2. QED
    BY <1>4, <2>1
<1>8. v.stem = x.stem
  BY <1>2 DEF Value
<1> HIDE DEF x, v
<1>9. CASE Serves(served \ {v}, {})
  BY <1>2, <1>3, <1>6, <1>7, <1>8, <1>9, OrderStep
<1>10. CASE Serves(served, {v})
  BY <1>2, <1>3, <1>6, <1>7, <1>10, OrderStep
<1>11. QED
  BY <1>3, <1>9, <1>10

\* A part that goes on, with nothing removed.
LEMMA GoesOn ==
  ASSUME NEW w \in Work, w.pc # "idle", NEW p \in Part, NEW s \in {"poll", "valid"},
         w.part[p] # "none"
  PROVE  /\ [w EXCEPT !.part[p] = s] \in Work
         /\ [w EXCEPT !.part[p] = s].pc = w.pc
         /\ [w EXCEPT !.part[p] = s].stem = w.stem
         /\ [w EXCEPT !.part[p] = s].part[p] = s
         /\ \A q \in Part : Value([w EXCEPT !.part[p] = s], q) = Value(w, q)
         /\ \A q \in Part \ {p} : [w EXCEPT !.part[p] = s].part[q] = w.part[q]
         /\ LiveOf([w EXCEPT !.part[p] = s]) = LiveOf(w) \cup {Value(w, p)}
<1> DEFINE x == [w EXCEPT !.part[p] = s]
<1>1. /\ x \in Work /\ x.pc = w.pc /\ x.stem = w.stem /\ x.server = w.server
      /\ x.tenant = w.tenant /\ x.part[p] = s
      /\ \A q \in Part \ {p} : x.part[q] = w.part[q]
  BY DEF Work, PartPc
<1>2. \A q \in Part : Value(x, q) = Value(w, q)
  BY <1>1 DEF Value
<1> HIDE DEF x
<1>3. LiveOf(x) = LiveOf(w) \cup {Value(w, p)}
  BY <1>1, <1>2 DEF LiveOf
<1>4. QED
  BY <1>1, <1>2, <1>3 DEF x

LEMMA OrdersInit == Init => OrdersInv
<1> SUFFICES ASSUME Init PROVE OrdersInv
  OBVIOUS
<1>1. Idle \in Work /\ Idle.pc = "idle" /\ \A p \in Part : Idle.part[p] = "none"
  BY DnsChallengeAssumption, ProvidersAssumption DEF Idle, Work, Part, PartPc, Stem
<1>2. QED
  BY <1>1 DEF Init, OrdersInv, TypeInv, ServedInv, RefusedInv, StemsApart, InPlace, IdleIsBare

LEMMA OrdersNext == OrdersInv /\ TableInv /\ [Next]_vars => OrdersInv'
<1> SUFFICES ASSUME OrdersInv, TableInv, [Next]_vars PROVE OrdersInv'
  OBVIOUS
<1>0. /\ records \subseteq Record /\ order \in [Order -> Work] /\ shared \subseteq Stem
      /\ \A o \in Order : order[o] \in Work
      /\ \A o \in Order, p \in Part : order[o].pc = "idle" => order[o].part[p] = "none"
  BY DEF OrdersInv, TypeInv, IdleIsBare
<1>1. ASSUME NEW o \in Order, NEW t \in Tenant, NEW wildcard \in BOOLEAN,
             StartOrder(o, t, wildcard)
      PROVE  OrdersInv'
  <2> DEFINE first(y) == [Idle EXCEPT !.pc = "run", !.tenant = t, !.wildcard = wildcard,
                            !.server = Elected(t), !.stem = y,
                            !.part = [p \in Part |-> IF p = "base" \/ wildcard THEN "due" ELSE "none"]]
  <2>1. PICK y \in Stem :
          /\ (\E q \in Twins(first(y)) : order[q].stem = y) \/ y \notin InUse
          /\ Goto(o, first(y))
          /\ shared' = IF \E q \in Twins(first(y)) : order[q].stem = y
                       THEN shared \cup {y} ELSE shared \ {y}
    BY <1>1 DEF StartOrder
  <2> DEFINE x == first(y)
  <2>2. /\ order[o].pc = "idle" /\ UNCHANGED <<records, refused>>
    BY <1>1 DEF StartOrder
  <2>3. /\ x \in Work /\ x.pc = "run" /\ x.stem = y
        /\ \A p \in Part : x.part[p] \in {"due", "none"}
        /\ x.part["base"] = "due"
    <3>1. Idle \in Work
      BY DnsChallengeAssumption, ProvidersAssumption DEF Idle, Work, Part, PartPc, Stem
    <3>2. Elected(t) \in Server
      BY ElectedServer
    <3>3. QED
      BY <3>1, <3>2 DEF Work, Part, PartPc
  <2>4. (y \in shared' /\ shared \subseteq shared') \/ (shared' = shared \ {y} /\ y \notin InUse)
    BY <2>1
  <2>5. shared' \subseteq Stem
    BY <1>0, <2>1
  <2>6. order' = [order EXCEPT ![o] = x]
    <3> HIDE DEF x
    <3>1. Rested(x) = x
      <4>1. "base" \in Part
        BY DEF Part
      <4>2. QED
        BY <2>3, <4>1 DEF Rested, Settled
    <3>2. Goto(o, x)
      BY <2>1 DEF x
    <3>3. QED
      BY <3>1, <3>2 DEF Goto
  <2> HIDE DEF first
  <2> HIDE DEF x
  <2>7. order'[o] = x /\ \A q \in Order \ {o} : order'[q] = order[q]
    BY <1>0, <2>6
  <2>8. Noted(order[o]) = {} /\ LiveOf(order[o]) = {}
    BY <1>0, <2>2 DEF Noted, LiveOf, Pushed, PartPc
  <2>9. TypeInv'
    BY <1>0, <2>2, <2>3, <2>5, <2>6 DEF TypeInv
  <2>10. ServedInv'
    BY <2>2, <2>7, <2>8 DEF OrdersInv, ServedInv
  <2>11. RefusedInv'
    <3>1. Held \subseteq Held'
      BY <2>7, <2>8 DEF Held
    <3>2. QED
      BY <2>2, <3>1 DEF OrdersInv, RefusedInv
  <2>12. IdleIsBare'
    BY <2>3, <2>7 DEF OrdersInv, IdleIsBare
  <2>13. StemsApart'
    <3>1. ASSUME NEW q \in Order \ {o}, order[q].pc # "idle", order[q].stem = y
          PROVE  y \in shared'
      BY <2>4, <3>1 DEF InUse
    <3>2. ASSUME NEW q \in Order \ {o}, NEW r \in Order \ {o}, q # r,
                 order[q].pc # "idle", order[r].pc # "idle", order[q].stem = order[r].stem
          PROVE  order[q].stem \in shared'
      <4>1. order[q].stem \in shared
        BY <3>2 DEF OrdersInv, StemsApart
      <4>2. order[q].stem = y => y \in shared'
        BY <3>1, <3>2
      <4>3. QED
        BY <2>4, <4>1, <4>2
    <3>3. QED
      BY <2>3, <2>7, <3>1, <3>2 DEF StemsApart
  <2>14. InPlace'
    <3> SUFFICES ASSUME NEW q \in Order, NEW p \in Part, order'[q].pc = "run",
                        order'[q].part[p] \in {"poll", "valid"}, order'[q].stem \notin shared'
                 PROVE  Value(order'[q], p) \in records'
      BY DEF InPlace
    <3>1. q # o /\ order'[q] = order[q]
      BY <2>3, <2>7
    <3>2. order[q].stem \notin shared
      <4>1. order[q].stem # y
        BY <2>4, <3>1 DEF InUse
      <4>2. QED
        BY <2>4, <3>1, <4>1
    <3>3. QED
      BY <2>2, <3>1, <3>2 DEF OrdersInv, InPlace
  <2>15. QED
    BY <2>9, <2>10, <2>11, <2>12, <2>13, <2>14 DEF OrdersInv
<1>2. ASSUME NEW o \in Order, NEW p \in Part, Publish(o, p) PROVE OrdersInv'
  <2> DEFINE added == records \cup {Value(order[o], p)}
             x == [order[o] EXCEPT !.part[p] = "poll"]
  <2>1. order[o].part[p] = "due" /\ order[o].pc # "idle" /\ UNCHANGED shared
    BY <1>0, <1>2 DEF Publish
  <2>2. added \subseteq Record
    BY <1>0, ValueOfWork
  <2>3. CASE Goto(o, x) /\ Serves(added, {})
    <3>1. /\ x \in Work /\ x.pc = order[o].pc /\ x.stem = order[o].stem
          /\ x.part[p] = "poll"
          /\ \A q \in Part : Value(x, q) = Value(order[o], q)
          /\ \A q \in Part \ {p} : x.part[q] = order[o].part[q]
          /\ LiveOf(x) = LiveOf(order[o]) \cup {Value(order[o], p)}
      BY <1>0, <2>1, GoesOn
    <3> HIDE DEF x
    <3>2. \A v \in added : \/ v \in refused \cup {} \cup LiveOf(x)
                           \/ \E q \in Order \ {o} : v \in LiveOf(order[q])
      BY <3>1 DEF OrdersInv, ServedInv
    <3>3. \A q \in Part : x.pc = "run" /\ x.part[q] \in {"poll", "valid"} /\ x.stem \notin shared
            => Value(x, q) \in added
      BY <3>1 DEF OrdersInv, InPlace
    <3>4. \A v \in records \ added : v.stem = x.stem
      OBVIOUS
    <3> HIDE DEF added
    <3>5. QED
      BY <2>1, <2>2, <2>3, <3>1, <3>2, <3>3, <3>4, OrderStep
  <2>4. ASSUME Ends(o, p, TRUE, added) \/ Ends(o, p, TRUE, records) PROVE OrdersInv'
    BY <1>0, <2>1, <2>2, <2>4, EndsStep
  <2>5. QED
    BY <1>2, <2>3, <2>4 DEF Publish
<1>3. ASSUME NEW o \in Order, NEW p \in Part, Appeared(o, p) PROVE OrdersInv'
  <2> DEFINE x == [order[o] EXCEPT !.part[p] = "valid"]
  <2>1. order[o].part[p] = "poll" /\ order[o].pc # "idle" /\ UNCHANGED <<records, refused, shared>>
    BY <1>0, <1>3 DEF Appeared
  <2>2. Goto(o, x)
    BY <1>3 DEF Appeared
  <2>3. /\ x \in Work /\ x.pc = order[o].pc /\ x.stem = order[o].stem
        /\ x.part[p] = "valid"
        /\ \A q \in Part : Value(x, q) = Value(order[o], q)
        /\ \A q \in Part \ {p} : x.part[q] = order[o].part[q]
        /\ LiveOf(x) = LiveOf(order[o]) \cup {Value(order[o], p)}
    BY <1>0, <2>1, GoesOn
  <2> HIDE DEF x
  <2>4. Rested(x) = x
    BY <2>3 DEF Rested, Settled
  <2>5. order' = [order EXCEPT ![o] = x]
    BY <2>2, <2>4 DEF Goto
  <2>6. order'[o] = x /\ \A q \in Order \ {o} : order'[q] = order[q]
    BY <1>0, <2>5
  <2>7. Noted(order[o]) = Noted(x)
    <3>1. \A q \in Part : x.part[q] \in Pushed <=> order[o].part[q] \in Pushed
      BY <2>1, <2>3 DEF Pushed, PartPc
    <3>2. QED
      BY <2>3, <3>1 DEF Noted
  <2>8. TypeInv'
    BY <1>0, <2>1, <2>3, <2>5 DEF TypeInv
  <2>9. ServedInv'
    BY <2>1, <2>3, <2>6 DEF OrdersInv, ServedInv
  <2>10. RefusedInv'
    BY <2>1, <2>6, <2>7 DEF OrdersInv, RefusedInv, Held
  <2>11. IdleIsBare' /\ StemsApart'
    BY <2>1, <2>3, <2>6 DEF OrdersInv, IdleIsBare, StemsApart
  <2>12. InPlace'
    BY <2>1, <2>3, <2>6 DEF OrdersInv, InPlace
  <2>13. QED
    BY <2>8, <2>9, <2>10, <2>11, <2>12 DEF OrdersInv
<1>4. ASSUME NEW o \in Order, NEW p \in Part, TimedOut(o, p) \/ Validated(o, p) PROVE OrdersInv'
  <2>1. order[o].part[p] \in {"poll", "valid"} /\ UNCHANGED shared
    BY <1>4 DEF TimedOut, Validated
  <2>2. order[o].pc # "idle"
    BY <1>0, <2>1
  <2>3. \E failed \in BOOLEAN : Ends(o, p, failed, records)
    BY <1>4 DEF TimedOut, Validated
  <2>4. QED
    BY <1>0, <2>1, <2>2, <2>3, EndsStep
<1>5. ASSUME NEW o \in Order, CleansUp(o) PROVE OrdersInv'
  <2> DEFINE x == [order[o] EXCEPT !.pc = "over"]
             removed(failed) == UNION {Matching(v, records) : v \in Noted(order[o]) \ failed}
  <2>1. order[o].pc = "cleanup" /\ Goto(o, x) /\ UNCHANGED shared
    BY <1>5 DEF CleansUp
  <2>2. PICK failed \in SUBSET Noted(order[o]) : Serves(records \ removed(failed), failed)
    BY <1>5 DEF CleansUp
  <2> DEFINE served == records \ removed(failed)
  <2>3. /\ x \in Work /\ x.pc = "over" /\ x.stem = order[o].stem /\ x.part = order[o].part
        /\ x.server = order[o].server /\ x.tenant = order[o].tenant
    BY <1>0 DEF Work
  <2>4. LiveOf(x) = LiveOf(order[o])
    BY <2>3 DEF LiveOf, Value
  <2>5. \A v \in records \ served : v.stem = x.stem
    BY <2>3 DEF Matching, Noted, Value
  <2>6. served \subseteq records
    OBVIOUS
  <2>7. \A v \in served : \/ v \in refused \cup failed \cup LiveOf(x)
                          \/ \E q \in Order \ {o} : v \in LiveOf(order[q])
    BY <2>4, <2>6 DEF OrdersInv, ServedInv
  <2>8. Serves(served, failed)
    BY <2>2
  <2> HIDE DEF x, served
  <2>9. QED
    BY <1>0, <2>1, <2>3, <2>5, <2>6, <2>7, <2>8, OrderStep
<1>6. CASE Restart
  <2>1. order' = [o \in Order |-> Idle] /\ shared' = {} /\ Serves(records, Held)
    BY <1>6 DEF Restart
  <2>2. Idle \in Work /\ Idle.pc = "idle" /\ \A p \in Part : Idle.part[p] = "none"
    BY DnsChallengeAssumption, ProvidersAssumption DEF Idle, Work, Part, PartPc, Stem
  <2>3. Held' = {}
    BY <2>1, <2>2 DEF Held, Noted, Pushed, PartPc
  <2>4. records \subseteq Held
    BY LiveIsNoted DEF OrdersInv, ServedInv, RefusedInv, Held
  <2>5. records' = {} /\ refused' = {}
    BY <2>1, <2>3, <2>4 DEF Serves
  <2>6. QED
    BY <2>1, <2>2, <2>5
    DEF OrdersInv, TypeInv, ServedInv, RefusedInv, StemsApart, InPlace, IdleIsBare
<1>7. ASSUME UNCHANGED <<records, order, refused, shared>> PROVE OrdersInv'
  BY <1>7 DEF OrdersInv, TypeInv, ServedInv, RefusedInv, StemsApart, InPlace, IdleIsBare, Held
<1>8. QED
  BY <1>1, <1>2, <1>3, <1>4, <1>5, <1>6, <1>7 DEF Next, vars

-----------------------------------------------------------------------------
LEMMA TableKept == TableInv /\ [Next]_vars => TableInv'
<1> SUFFICES ASSUME TableInv, [Next]_vars PROVE TableInv'
  OBVIOUS
<1>1. ProvidersNext \/ UNCHANGED providers
  BY DEF Next, vars, StartOrder, CleansUp, Publish, Appeared, TimedOut, Validated, Restart
<1>2. UNCHANGED providers => TableInv'
  BY DEF TableInv, ProvidersOk, AtMostOneDefault
<1>3. QED
  BY <1>1, <1>2, TableNext

LEMMA Invariance == Spec => [](TableInv /\ OrdersInv)
<1>1. Init => TableInv /\ OrdersInv
  BY TableInit, OrdersInit
<1>2. TableInv /\ OrdersInv /\ [Next]_vars => (TableInv /\ OrdersInv)'
  BY TableKept, OrdersNext
<1>3. QED
  BY <1>1, <1>2, PTL DEF Spec

\* Every reachable state is well typed.
THEOREM TypeCorrect == Spec => []TypeOK
<1>1. TableInv /\ OrdersInv => TypeOK
  BY DEF TableInv, OrdersInv, TypeInv, RefusedInv, TypeOK
<1>2. QED
  BY <1>1, Invariance, PTL

\* A tenant has one default connection at most, whatever edits fail half way.
THEOREM OneDefault == Spec => []AtMostOneDefault
<1>1. TableInv => AtMostOneDefault
  BY DEF TableInv
<1>2. QED
  BY <1>1, Invariance, PTL

\* The value an order is validated by is in place, whatever other orders for
\* the name, their clean-ups and changes of the tenant's connections do.
THEOREM ValuesStay == Spec => []ValuesInPlace
<1>1. OrdersInv => ValuesInPlace
  BY DEF OrdersInv, InPlace, ValuesInPlace
<1>2. QED
  BY <1>1, Invariance, PTL

\* What is served is of an order in flight: a value outlives its order only
\* where a resolver refused to remove it or the process died.
THEOREM NothingStays == Spec => []NothingLeftBehind
<1>1. OrdersInv => NothingLeftBehind
  BY LiveIsNoted DEF OrdersInv, ServedInv, RefusedInv, Held, NothingLeftBehind
<1>2. QED
  BY <1>1, Invariance, PTL
=============================================================================
