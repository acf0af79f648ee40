--------------------------------- MODULE Crs ---------------------------------
(***************************************************************************)
(* The central registration servers: server/src/services/crs.ts, its two   *)
(* sweeps in server/src/jobs.ts, its routes in server/src/routes.ts and    *)
(* the crs_registry and server_identity tables of server/src/db.ts, on     *)
(* several nodes that call each other.                                     *)
(*                                                                         *)
(* A node goes offline and comes back; a call that was under way then ends *)
(* in a network error, whether the other side has handled it or not.  A    *)
(* restart keeps the tables and loses the jobs and the module variables    *)
(* resolvedRole and lastProbe.  Tokens are assumed to match, and the       *)
(* crs_state table, which is written and never read, is left out.          *)
(***************************************************************************)
EXTENDS Naturals

CONSTANTS
  Node,
  Home,        \* the node CRS_HOME_URL names, on every node
  Master,      \* CRS_MASTER_URL of each node
  Role,        \* CRS_ROLE of each node
  GivenDomain, \* CRS_DOMAIN of each node, 0 where it is not set
  LabDomain,   \* the default lab domain (config.ts)
  Task,        \* slots for the jobs in flight
  NodeOf,      \* the node a slot belongs to
  Timer,       \* the slots reserved for an orchestrator interval
  Id,          \* server ids
  Lab,         \* lab domains
  InitialId,   \* the server id a node starts with
  Renamed,     \* nodes whose identity an administrator may change
  Peered,      \* nodes other stacks register servers with
  Payload,     \* the id, lab domain and apex they name, 0 for none of the latter
  Restarted    \* nodes whose process may be killed and started again

ASSUME NodesAssumption ==
  /\ Home \in Node
  /\ Master \in [Node -> Node]
  /\ Role \in [Node -> {"auto", "master", "slave"}]
  /\ Renamed \subseteq Node /\ Peered \subseteq Node /\ Restarted \subseteq Node
ASSUME DomainsAssumption ==
  /\ Lab \subseteq Nat \ {0} /\ LabDomain \in Lab
  /\ GivenDomain \in [Node -> Lab \cup {0}]
ASSUME JobsAssumption == NodeOf \in [Task -> Node] /\ Timer \subseteq Task
ASSUME IdsAssumption ==
  /\ InitialId \in [Node -> Id]
  /\ Payload \subseteq Id \X (Lab \cup {0}) \X (Lab \cup {0})

VARIABLES
  online,   \* the nodes that are connected to the others
  ident,    \* server_identity of each node
  reg,      \* crs_registry of each node: a row, or None, for each server id
  role,     \* resolvedRole of each node, "unresolved" when null
  probed,   \* lastProbe.ok of each node, "unknown" when null
  task      \* the jobs

vars == <<online, ident, reg, role, probed, task>>

Identity == [id : Id, lab : Lab, registered : BOOLEAN]

\* The apex of a row is <serverId>.<lab>: the lab domain it was built from.
Row == [lab : Lab, apex : Lab, source : {"local", "replica", "master", "home"}]
None == [source |-> "none"]

Job == {"sweep", "sync", "resolve", "adminSync", "registerSelf"}
Calling == {"probe", "register", "registered", "refused", "refusedOffline", "pull", "pulled"}

\* id and lab: the identity as registerToMaster read it; data: the registry as
\* the master sent it; cut: the connection broke during the call.
Work == [pc : Calling \cup {"idle"}, job : Job, id : Id, lab : Lab,
         data : [Id -> Row \cup {None}], cut : BOOLEAN]

NoRows == [i \in Id |-> None]
Idle == [pc |-> "idle", job |-> "sweep", id |-> InitialId[Home], lab |-> LabDomain,
         data |-> NoRows, cut |-> FALSE]

TypeOK ==
  /\ online \subseteq Node
  /\ ident \in [Node -> Identity]
  /\ reg \in [Node -> [Id -> Row \cup {None}]]
  /\ role \in [Node -> {"unresolved", "master", "slave", "isolated-master", "offline-slave"}]
  /\ probed \in [Node -> {"unknown", "ok", "failed"}]
  /\ task \in [Task -> Work]

-----------------------------------------------------------------------------
(* Configuration and role.                                                 *)

CrsDomain(n) == IF GivenDomain[n] # 0 THEN GivenDomain[n] ELSE LabDomain

\* validateMasterConfig: a master without a domain refuses to start.
BootError(n) == Role[n] = "master" /\ CrsDomain(n) = 0

\* resolvedRole as crsStatus reports it.
Resolved(n) ==
  IF role[n] # "unresolved" THEN role[n]
  ELSE IF Role[n] = "master" THEN "master" ELSE "isolated-master"

IsMaster(n) == Resolved(n) \in {"master", "isolated-master"}

\* Mutant of RoleAfter: once isolated, a node stays its own master.
RoleAfterSticky(n, ok) ==
  CASE Role[n] = "master" -> "master"
    [] Role[n] = "slave"  -> IF ok THEN "slave" ELSE "offline-slave"
    [] Role[n] = "auto"   -> IF ok /\ role[n] # "isolated-master" THEN "slave"
                             ELSE "isolated-master"

\* Mutant of RoleAfter: a name no reader of the role knows.
RoleAfterMisspelt(n, ok) ==
  CASE Role[n] = "master" -> "master"
    [] Role[n] = "slave"  -> IF ok THEN "slave" ELSE "offline"
    [] Role[n] = "auto"   -> IF ok THEN "slave" ELSE "isolated-master"

\* The role a probe's outcome leads to.
RoleAfter(n, ok) ==
  CASE Role[n] = "master" -> "master"
    [] Role[n] = "slave"  -> IF ok THEN "slave" ELSE "offline-slave"
    [] Role[n] = "auto"   -> IF ok THEN "slave" ELSE "isolated-master"

-----------------------------------------------------------------------------
(* Calls.                                                                  *)

\* A master probes its home, everything else goes to the node's master.
Target(t) ==
  IF task[t].pc = "probe" /\ Role[NodeOf[t]] = "master" THEN Home ELSE Master[NodeOf[t]]

Connected(t) == ~ task[t].cut /\ {NodeOf[t], Target(t)} \subseteq online

Call(w, pc) == [w EXCEPT !.pc = pc, !.cut = FALSE]

Goto(t, w) == task' = [task EXCEPT ![t] = w]

\* registerToMaster, up to its call.
Register(n, w) == [Call(w, "register") EXCEPT !.id = ident[n].id, !.lab = ident[n].lab]

AfterResolve(n, w) ==
  CASE w.job = "sweep"             -> Register(n, w)
    [] w.job = "adminSync"         -> Call(w, "pull")
    [] w.job \in {"sync", "resolve"} -> Idle

AfterRegister(n, w) ==
  IF w.job = "sweep" /\ Role[n] # "master" THEN Call([w EXCEPT !.id = Idle.id, !.lab = Idle.lab], "pull")
  ELSE Idle

AfterPull(w) ==
  IF w.job = "sync" THEN Call([w EXCEPT !.data = NoRows], "probe") ELSE Idle

\* How a job begins.  Only the sweep lets a master skip a probe it has made
\* before; a master's sync sweep pulls nothing and probes at once.
Begin(n, job) ==
  LET w == [Idle EXCEPT !.job = job] IN
  CASE job = "sweep" /\ Role[n] = "master" /\ probed[n] # "unknown" -> AfterResolve(n, w)
    [] job = "sync" /\ Resolved(n) # "master" -> Call(w, "pull")
    [] job = "registerSelf" -> Register(n, w)
    [] OTHER -> Call(w, "probe")

Start(t, job) ==
  /\ task[t].pc = "idle"
  /\ ~ BootError(NodeOf[t])
  /\ Goto(t, Begin(NodeOf[t], job))
  /\ role' = [role EXCEPT ![NodeOf[t]] =
                IF Begin(NodeOf[t], job).pc = "register" /\ job = "sweep" THEN "master" ELSE @]
  /\ UNCHANGED <<online, ident, reg, probed>>

\* resolveCrsRole after its probe.
Probed(t) ==
  /\ task[t].pc = "probe"
  /\ LET n == NodeOf[t]
         ok == Connected(t)
     IN /\ role' = [role EXCEPT ![n] = RoleAfter(n, ok)]
        /\ probed' = [probed EXCEPT ![n] = IF ok THEN "ok" ELSE "failed"]
        /\ Goto(t, AfterResolve(n, task[t]))
  /\ UNCHANGED <<online, ident, reg>>

-----------------------------------------------------------------------------
(* Registration.                                                           *)

\* handleRegistrationRequest on node m for a given id; 0 stands for a field the
\* payload lacks.
Registration(m, i, lab, apex) ==
  LET l == IF lab # 0 THEN lab ELSE CrsDomain(m)
      x == CASE apex # 0                        -> apex
             [] apex = 0 /\ reg[m][i] # None    -> reg[m][i].apex
             [] apex = 0 /\ reg[m][i] = None    -> l
  IN [reg EXCEPT ![m][i] = [lab |-> l, apex |-> x, source |-> "master"]]

\* The call reaches the master: it registers the node, or answers 409.
Handled(t) ==
  /\ task[t].pc = "register"
  /\ Connected(t)
  /\ LET m == Target(t)
         w == task[t]
     IN IF IsMaster(m)
        THEN /\ reg' = Registration(m, w.id, w.lab, w.lab)
             /\ Goto(t, [w EXCEPT !.pc = "registered"])
        ELSE /\ Goto(t, [w EXCEPT !.pc = IF Resolved(m) = "offline-slave"
                                         THEN "refusedOffline" ELSE "refused"])
             /\ UNCHANGED reg
  /\ UNCHANGED <<online, ident, role, probed>>

\* The master's answer arrives: the identity, whichever it is by now, is
\* marked registered, and the registered one recorded in the replica.
Registered(t) ==
  /\ task[t].pc = "registered"
  /\ Connected(t)
  /\ LET n == NodeOf[t]
         w == task[t]
     IN /\ ident' = [ident EXCEPT ![n].registered = TRUE]
        /\ reg' = [reg EXCEPT ![n][w.id] = [lab |-> w.lab, apex |-> w.lab, source |-> "home"]]
        /\ probed' = [probed EXCEPT ![n] = "ok"]
        /\ Goto(t, AfterRegister(n, w))
  /\ UNCHANGED <<online, role>>

\* Mutant of RegisterOffline: what the node records of itself passes for the
\* master's answer.
RegisterOfflineAsHome(t) ==
  /\ \/ task[t].pc \in {"register", "registered", "refused", "refusedOffline"} /\ ~ Connected(t)
     \/ task[t].pc = "refusedOffline"
  /\ LET n == NodeOf[t]
         w == task[t]
     IN /\ reg' = [reg EXCEPT ![n][w.id] = [lab |-> w.lab, apex |-> w.lab, source |-> "home"]]
        /\ probed' = [probed EXCEPT ![n] = "failed"]
        /\ Goto(t, AfterRegister(n, w))
  /\ UNCHANGED <<online, ident, role>>

\* A network error, or a 409 whose text says "offline" and is taken for one:
\* the node records itself.
RegisterOffline(t) ==
  /\ \/ task[t].pc \in {"register", "registered", "refused", "refusedOffline"} /\ ~ Connected(t)
     \/ task[t].pc = "refusedOffline"
  /\ LET n == NodeOf[t]
         w == task[t]
     IN /\ reg' = [reg EXCEPT ![n][w.id] = [lab |-> w.lab, apex |-> w.lab, source |-> "local"]]
        /\ probed' = [probed EXCEPT ![n] = "failed"]
        /\ Goto(t, AfterRegister(n, w))
  /\ UNCHANGED <<online, ident, role>>

\* Any other 409 is thrown, and swallowed by whoever called.
Refused(t) ==
  /\ task[t].pc = "refused"
  /\ Connected(t)
  /\ Goto(t, AfterRegister(NodeOf[t], task[t]))
  /\ UNCHANGED <<online, ident, reg, role, probed>>

\* Another stack registers a server with a node that takes itself for a
\* master, with as many fields as it likes.
PeerRegisters(m, i, lab, apex) ==
  /\ m \in online
  /\ ~ BootError(m)
  /\ IsMaster(m)
  /\ reg' = Registration(m, i, lab, apex)
  /\ UNCHANGED <<online, ident, role, probed, task>>

\* Without an id one is minted, under the default lab domain.
PeerAsksForId(m, i) ==
  /\ m \in online
  /\ ~ BootError(m)
  /\ IsMaster(m)
  /\ reg[m][i] = None
  /\ reg' = [reg EXCEPT ![m][i] = [lab |-> LabDomain, apex |-> LabDomain, source |-> "master"]]
  /\ UNCHANGED <<online, ident, role, probed, task>>

-----------------------------------------------------------------------------
(* Replication: syncRegistryFromMaster.                                    *)

\* The master, whatever its role, sends its registry.
Served(t) ==
  /\ task[t].pc = "pull"
  /\ Connected(t)
  /\ Goto(t, [task[t] EXCEPT !.pc = "pulled",
                !.data = [i \in Id |-> LET row == reg[Target(t)][i] IN
                                         IF row = None THEN None
                                         ELSE [row EXCEPT !.source = "replica"]]])
  /\ UNCHANGED <<online, ident, reg, role, probed>>

\* Mutant of Pulled: adds what is missing and leaves the rows there are.
PulledMissing(t) ==
  /\ task[t].pc = "pulled"
  /\ Connected(t)
  /\ LET n == NodeOf[t] IN
     /\ reg' = [reg EXCEPT ![n] =
                  [i \in Id |-> IF @[i] = None THEN task[t].data[i] ELSE @[i]]]
     /\ probed' = [probed EXCEPT ![n] = "ok"]
  /\ Goto(t, AfterPull(task[t]))
  /\ UNCHANGED <<online, ident, role>>

\* Mutant of Pulled: the master's registry takes the replica's place.
PulledWhole(t) ==
  /\ task[t].pc = "pulled"
  /\ Connected(t)
  /\ LET n == NodeOf[t] IN
     /\ reg' = [reg EXCEPT ![n] = task[t].data]
     /\ probed' = [probed EXCEPT ![n] = "ok"]
  /\ Goto(t, AfterPull(task[t]))
  /\ UNCHANGED <<online, ident, role>>

\* It arrives: every row it holds replaces the one there is.
Pulled(t) ==
  /\ task[t].pc = "pulled"
  /\ Connected(t)
  /\ LET n == NodeOf[t] IN
     /\ reg' = [reg EXCEPT ![n] =
                  [i \in Id |-> IF task[t].data[i] # None THEN task[t].data[i] ELSE @[i]]]
     /\ probed' = [probed EXCEPT ![n] = "ok"]
  /\ Goto(t, AfterPull(task[t]))
  /\ UNCHANGED <<online, ident, role>>

PullFailed(t) ==
  /\ task[t].pc \in {"pull", "pulled"}
  /\ ~ Connected(t)
  /\ probed' = [probed EXCEPT ![NodeOf[t]] = "failed"]
  /\ Goto(t, AfterPull(task[t]))
  /\ UNCHANGED <<online, ident, reg, role>>

-----------------------------------------------------------------------------
(* The administrator, the network, crashes.                                *)

\* POST /server/identity: the row keeps its registered flag.
ChangeIdentity(n, i, lab) ==
  /\ ident[n].id # i \/ ident[n].lab # lab
  /\ ident' = [ident EXCEPT ![n].id = i, ![n].lab = lab]
  /\ UNCHANGED <<online, reg, role, probed, task>>

\* Calls to and from a node, but for those of the slots in Lost.
CutOff(n, Lost) ==
  [t \in Task |-> IF t \in Lost THEN Idle
                  ELSE IF task[t].pc # "idle" /\ n \in {NodeOf[t], Target(t)}
                  THEN [task[t] EXCEPT !.cut = TRUE] ELSE task[t]]

GoOffline(n) ==
  /\ n \in online
  /\ online' = online \ {n}
  /\ task' = CutOff(n, {})
  /\ UNCHANGED <<ident, reg, role, probed>>

GoOnline(n) ==
  /\ n \notin online
  /\ online' = online \cup {n}
  /\ UNCHANGED <<ident, reg, role, probed, task>>

\* The database's constructor sets the lab domain back to the configured one.
Restart(n) ==
  /\ ident' = [ident EXCEPT ![n].lab = LabDomain]
  /\ task' = CutOff(n, {t \in Task : NodeOf[t] = n})
  /\ role' = [role EXCEPT ![n] = "unresolved"]
  /\ probed' = [probed EXCEPT ![n] = "unknown"]
  /\ UNCHANGED <<online, reg>>

-----------------------------------------------------------------------------
Init ==
  /\ online = Node
  /\ ident = [n \in Node |-> [id |-> InitialId[n], lab |-> LabDomain, registered |-> FALSE]]
  /\ reg = [n \in Node |-> NoRows]
  /\ role = [n \in Node |-> "unresolved"]
  /\ probed = [n \in Node |-> "unknown"]
  /\ task = [t \in Task |-> Idle]

Advance(t) ==
  \/ Probed(t)
  \/ Handled(t)
  \/ Registered(t)
  \/ RegisterOffline(t)
  \/ Refused(t)
  \/ Served(t)
  \/ Pulled(t)
  \/ PullFailed(t)

Outside ==
  \/ \E m \in Peered, p \in Payload : PeerRegisters(m, p[1], p[2], p[3])
  \/ \E m \in Peered, i \in Id : PeerAsksForId(m, i)
  \/ \E n \in Renamed, i \in Id, lab \in Lab : ChangeIdentity(n, i, lab)
  \/ \E n \in Node : GoOffline(n) \/ GoOnline(n)
  \/ \E n \in Restarted : Restart(n)

Next ==
  \/ \E t \in Task : Advance(t)
  \/ \E t \in Timer : Start(t, "sweep")
  \/ \E t \in Task \ Timer, job \in Job : Start(t, job)
  \/ Outside

Spec == Init /\ [][Next]_vars

\* The interval timers fire and every call ends, by an answer or by a timeout.
FairSpec ==
  /\ Spec
  /\ \A t \in Timer : WF_vars(Start(t, "sweep"))
  /\ \A t \in Task : WF_vars(Advance(t))

-----------------------------------------------------------------------------
(* Properties.                                                             *)

\* A row that says it came from the master ("home", "replica") is on record
\* there, also after lost answers, restarts and changes of identity.
ReplicaSound ==
  \A n \in Node, i \in Id :
    reg[n][i].source \in {"home", "replica"} => reg[Master[n]][i] # None

\* An id on record with a node stays taken there, through pulls, overlapping
\* registrations and renames: isolated, the node can never mint it again.
IdsStayTaken ==
  [][\A n \in Node, i \in Id : reg[n][i] # None => reg'[n][i] # None]_vars

\* The premises of convergence: from some time on a node and its master stay
\* connected, and neither is restarted time and again.
Steady(n) ==
  /\ <>[]({n, Master[n]} \subseteq online)
  /\ \A m \in {n, Master[n]} : <>[][~ Restart(m)]_vars

\* "It will re-sync the moment connectivity returns. No extra operator step"
\* (crs.ts:16): a node that is no master settles in the role of a slave,
\* whatever probes and sweeps of the outage are still on their way.
RoleConverges ==
  \A n \in Node : Role[n] # "master" => (Steady(n) => <>[](role[n] = "slave"))

\* Once the registry of a master settles, its slaves end up with the same rows,
\* however late answers, their own registrations and what they recorded while
\* isolated overwrite each other.
Named(n, i) == IF reg[n][i] = None THEN <<0, 0>> ELSE <<reg[n][i].lab, reg[n][i].apex>>
Settles(n) == <>[][\A i \in Id : Named(n, i)' = Named(n, i)]_vars
Agrees(n) == \A i \in Id : reg[Master[n]][i] # None => Named(n, i) = Named(Master[n], i)
ReplicaConverges ==
  \A n \in Node :
    Role[n] # "master" /\ Role[Master[n]] = "master" =>
      (Steady(n) /\ Settles(Master[n]) => <>[]Agrees(n))
=============================================================================
