----------------------------- MODULE DnsChallenge -----------------------------
(***************************************************************************)
(* The DNS-01 exchange inside issueCertificate of services/acme.ts: the    *)
(* TXT values it publishes through services/technitium.ts on the resolver  *)
(* its tenant has elected when the order begins, awaits with               *)
(* services/dns.ts and takes back, and the clean-up when an order fails.   *)
(*                                                                         *)
(* An order for a name and its wildcard has two parts, which publish two   *)
(* values under one TXT name.  The ACME client runs the parts of an order  *)
(* side by side and rejects as soon as one fails; the other goes on in the *)
(* background.  A request to a resolver and the step that made it are one:  *)
(* nothing is read in between.  The values come from the ACME server, which may hand the   *)
(* pending order out again to one who asks twice.                          *)
(***************************************************************************)
EXTENDS Providers

CONSTANTS
  Order, \* slots for the orders in flight
  MaxStem, \* bound on the stems in use at a time
  MaxRefused \* bound on the refused removals of orders in flight at a time

ASSUME DnsChallengeAssumption == MaxStem \in Nat \ {0} /\ MaxRefused \in Nat

VARIABLES
  records, \* the challenge values the resolvers serve
  order,   \* the orders
  refused, \* history: values of orders in flight a resolver did not remove
  shared   \* history: the stems handed out twice

vars == <<providers, records, order, refused, shared>>

\* A stem is what the ACME server's values for one order have in common.
Stem == 1..MaxStem
Part == {"base", "wild"}
Record == [server : Server, tenant : Tenant, stem : Stem, part : Part]

\* A part: not asked for, to begin, its value awaited at the resolver, being
\* validated, ended well or badly: a part that fails takes its order out of "run".
PartPc == {"none", "due", "poll", "valid", "ended"}
Settled == {"none", "ended"}
Pushed == PartPc \ {"none", "due"}

\* An order: its parts run, or one failed and the clean-up is due, or over
\* while another part goes on.
Work == [pc : {"idle", "run", "cleanup", "over"}, tenant : Tenant, wildcard : BOOLEAN,
         server : Server, stem : Stem, part : [Part -> PartPc]]

Idle == [pc |-> "idle", tenant |-> CHOOSE t \in Tenant : TRUE, wildcard |-> FALSE,
         server |-> Platform, stem |-> 1, part |-> [p \in Part |-> "none"]]

TypeOK ==
  /\ ProvidersOk
  /\ records \subseteq Record
  /\ order \in [Order -> Work]
  /\ refused \subseteq records
  /\ shared \subseteq Stem

-----------------------------------------------------------------------------
\* What an order publishes, and where: at the resolver it began with.
Value(w, p) == [server |-> w.server, tenant |-> w.tenant, stem |-> w.stem, part |-> p]

\* state.records of the orders: the values they have noted.
Noted(w) == {Value(w, p) : p \in {q \in Part : w.part[q] \in Pushed}}
Held == UNION {Noted(order[o]) : o \in Order}

\* Mutant of Target: the tenant's resolver is looked up again.
TargetElected(w) == Elected(w.tenant)

\* The connection is read once, when the order begins.
Target(w) == w.server

\* An order that has nothing left to do frees its slot.
Rested(w) ==
  IF /\ \A p \in Part : w.part[p] \in Settled
     /\ w.pc # "cleanup"
  THEN Idle ELSE w

Goto(o, w) == order' = [order EXCEPT ![o] = Rested(w)]

\* Mutant of Matching: the values at the name, whatever was asked for.
MatchingName(v, served) == {r \in served : r.server = v.server /\ r.tenant = v.tenant}

\* The TXT record of this very value.
Matching(v, served) == served \cap {v}

\* The resolver serves these, having failed to remove some.  What it failed to
\* remove and no order holds any more stays there for good, out of the model.
Serves(served, failed) ==
  LET missed == (refused \cup failed) \cap served IN
  /\ records' = served \ (missed \ Held')
  /\ refused' = missed \cap Held'
  /\ Cardinality(refused') <= MaxRefused

\* clearTxtRecord with a value: the resolver removes it, or refuses, or is down.
Removes(w, p, served) ==
  LET v == [Value(w, p) EXCEPT !.server = Target(w)] IN
  Serves(served \ Matching(v, served), {}) \/ Serves(served, {v})

\* challengeRemoveFn runs however a part ends, and its failure is passed over;
\* then the failure of a part is the failure of the order.
Ends(o, p, failed, served) ==
  LET w == order[o] IN
  /\ Goto(o, [w EXCEPT !.part[p] = "ended",
                       !.pc = IF failed /\ w.pc = "run" THEN "cleanup" ELSE @])
  /\ Removes(w, p, served)

-----------------------------------------------------------------------------
InUse == {order[o].stem : o \in {q \in Order : order[q].pc # "idle"}}

\* The orders that ask for the same names and are pending.
Twins(w) == {q \in Order : /\ order[q].pc = "run"
                           /\ order[q].tenant = w.tenant /\ order[q].wildcard = w.wildcard}

\* The resolver of the moment answers the probe, and the ACME server opens the
\* order; else the order leaves nothing behind.
StartOrder(o, t, wildcard) ==
  /\ order[o].pc = "idle"
  /\ \E x \in Stem :
       LET w == [Idle EXCEPT !.pc = "run", !.tenant = t, !.wildcard = wildcard,
                   !.server = Elected(t), !.stem = x,
                   !.part = [p \in Part |-> IF p = "base" \/ wildcard THEN "due" ELSE "none"]]
           again == \E q \in Twins(w) : order[q].stem = x IN
       /\ again \/ (x \notin InUse /\ 1..(x - 1) \subseteq InUse)
       /\ Goto(o, w)
       /\ shared' = IF again THEN shared \cup {x} ELSE shared \ {x}
  /\ UNCHANGED <<providers, records, refused>>

\* challengeCreateFn notes the value and adds it: setTxtRecord takes a value
\* that is there already for success.  Or the resolver refuses, or its answer is
\* lost, and the part ends.
Publish(o, p) ==
  /\ order[o].part[p] = "due"
  /\ LET added == records \cup {Value(order[o], p)} IN
     \/ Goto(o, [order[o] EXCEPT !.part[p] = "poll"]) /\ Serves(added, {})
     \/ Ends(o, p, TRUE, added)
     \/ Ends(o, p, TRUE, records)
  /\ UNCHANGED <<providers, shared>>

\* waitForTxt asks the platform's resolver, whoever's order it is: it has the zone
\* itself, or it may find it at the resolver the order published at.
Appeared(o, p) ==
  /\ order[o].part[p] = "poll"
  /\ \E s \in {Platform, order[o].server} :
       [Value(order[o], p) EXCEPT !.server = s] \in records
  /\ Goto(o, [order[o] EXCEPT !.part[p] = "valid"])
  /\ UNCHANGED <<providers, records, refused, shared>>

TimedOut(o, p) ==
  /\ order[o].part[p] = "poll"
  /\ Ends(o, p, TRUE, records)
  /\ UNCHANGED <<providers, shared>>

\* The ACME server finds the value, or does not.
Validated(o, p) ==
  /\ order[o].part[p] = "valid"
  /\ \/ Value(order[o], p) \in records /\ Ends(o, p, FALSE, records)
     \/ Ends(o, p, TRUE, records)
  /\ UNCHANGED <<providers, shared>>

\* The catch of issueCertificate asks once more for all the order has noted to
\* be removed, and passes over what fails.
CleansUp(o) ==
  /\ order[o].pc = "cleanup"
  /\ Goto(o, [order[o] EXCEPT !.pc = "over"])
  /\ \E failed \in SUBSET Noted(order[o]) :
       Serves(records \ UNION {Matching(v, records) : v \in Noted(order[o]) \ failed}, failed)
  /\ UNCHANGED <<providers, shared>>

\* The process dies: the values of its orders stay behind for good.
Restart ==
  /\ order' = [o \in Order |-> Idle]
  /\ Serves(records, Held)
  /\ shared' = {}
  /\ UNCHANGED providers

Init ==
  /\ ProvidersInit
  /\ records = {} /\ refused = {} /\ shared = {}
  /\ order = [o \in Order |-> Idle]

Next ==
  \/ ProvidersNext /\ UNCHANGED <<records, order, refused, shared>>
  \/ \E o \in Order :
       \/ \E t \in Tenant, wildcard \in BOOLEAN : StartOrder(o, t, wildcard)
       \/ CleansUp(o)
       \/ \E p \in Part : Publish(o, p) \/ Appeared(o, p) \/ TimedOut(o, p) \/ Validated(o, p)
  \/ Restart

Spec == Init /\ [][Next]_vars

-----------------------------------------------------------------------------
\* A value that is being validated, for an order that has not failed, is in
\* place, whatever other parts, other orders for the same name and their
\* clean-ups do meanwhile, unless the ACME server gave the very same value to
\* two orders.
ValuesInPlace ==
  \A o \in Order, p \in Part :
    order[o].pc = "run" /\ order[o].part[p] = "valid" /\ order[o].stem \notin shared
      => Value(order[o], p) \in records

\* A value outlives its order only where a resolver refused to remove it or the
\* process died, also when the tenant elects another resolver under way.
NothingLeftBehind == records \subseteq Held
=============================================================================
