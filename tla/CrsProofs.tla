------------------------------ MODULE CrsProofs ------------------------------
(***************************************************************************)
(* Proofs about Crs for any nodes, masters, roles, slots, ids and domains: *)
(* type correctness, and that what a node records as its master's is on    *)
(* record at that master.                                                  *)
(*                                                                         *)
(* ReplicaSound is not inductive alone: an answer may be under way.  What  *)
(* a registration or a pull still has to deliver is on record at the       *)
(* master already (AnswersSound), and a registry never loses a row.        *)
(***************************************************************************)
EXTENDS Crs, TLAPS

OnRecord(n, i) == reg[n][i] # None

\* What the calls under way were answered is on record where they were sent.
AnswersSound ==
  \A t \in Task :
    /\ task[t].pc = "registered" => OnRecord(Master[NodeOf[t]], task[t].id)
    /\ \A i \in Id : task[t].data[i] # None => OnRecord(Master[NodeOf[t]], i)

\* Registering this node by hand is the one job that never probes.
ProbesLeadOn == \A t \in Task : task[t].pc = "probe" => task[t].job # "registerSelf"

IInv == TypeOK /\ ProbesLeadOn /\ AnswersSound /\ ReplicaSound

-----------------------------------------------------------------------------
(* The shape of rows and jobs.                                             *)

\* A row is told from the lack of one by its source.
LEMMA RowIsSome == \A row \in Row : row # None /\ row.source # "none"
BY DEF Row, None

\* The lack of a row is not a row of any source.
LEMMA NoneSource == None.source = "none"
BY DEF None

\* An idle slot holds a well-formed job that carries no rows.
LEMMA IdleType == Idle \in Work /\ Idle.data = NoRows /\ Idle.pc = "idle"
<1>1. InitialId[Home] \in Id /\ LabDomain \in Lab
  BY NodesAssumption, DomainsAssumption, IdsAssumption
<1>2. NoRows \in [Id -> Row \cup {None}]
  BY DEF NoRows
<1>3. QED
  BY <1>1, <1>2 DEF Idle, Work, Calling, Job

\* A new call keeps the job it belongs to and what that carries.
LEMMA CallType ==
  ASSUME NEW w \in Work, NEW pc \in Calling
  PROVE  Call(w, pc) \in Work /\ Call(w, pc).data = w.data /\ Call(w, pc).pc = pc
         /\ Call(w, pc).id = w.id /\ Call(w, pc).job = w.job
BY DEF Call, Work, Calling

\* registerToMaster starts with the identity of the moment.
LEMMA RegisterType ==
  ASSUME TypeOK, NEW n \in Node, NEW w \in Work
  PROVE  Register(n, w) \in Work /\ Register(n, w).data = w.data /\ Register(n, w).pc = "register"
<1>1. Call(w, "register") \in Work /\ Call(w, "register").data = w.data
      /\ Call(w, "register").pc = "register"
  BY CallType DEF Calling
<1>2. ident[n].id \in Id /\ ident[n].lab \in Lab
  BY DEF TypeOK, Identity
<1>3. QED
  BY <1>1, <1>2 DEF Register, Work

\* What a job does next: it carries on with what it had, or nothing, waits for
\* no registration's answer, and probes only if it knows how to go on.
Carries(w, x) ==
  /\ x \in Work
  /\ x.pc # "registered"
  /\ x.pc = "probe" => x.job # "registerSelf"
  /\ x.data = w.data \/ x.data = NoRows

\* A job that registers, pulls or ends carries on.
LEMMA NextCalls ==
  ASSUME TypeOK, NEW n \in Node, NEW w \in Work
  PROVE  /\ Carries(w, Register(n, w))
         /\ Carries(w, Call(w, "pull"))
         /\ w.job # "registerSelf" => Carries(w, Call(w, "probe"))
         /\ Carries(w, Idle)
<1>1. Carries(w, Register(n, w))
  BY RegisterType DEF Carries
<1>2. Carries(w, Call(w, "pull"))
  BY CallType DEF Carries, Calling
<1>3. w.job # "registerSelf" => Carries(w, Call(w, "probe"))
  BY CallType DEF Carries, Calling
<1>4. Carries(w, Idle)
  BY IdleType DEF Carries
<1>5. QED
  BY <1>1, <1>2, <1>3, <1>4

\* After its probe a job registers, pulls or ends.
LEMMA AfterResolveType ==
  ASSUME TypeOK, NEW n \in Node, NEW w \in Work, w.job # "registerSelf"
  PROVE  Carries(w, AfterResolve(n, w))
<1>1. w.job \in Job
  BY DEF Work
<1>2. QED
  BY <1>1, NextCalls DEF AfterResolve, Job

\* After registering, a sweep that is no master's pulls and the others end.
LEMMA AfterRegisterType ==
  ASSUME TypeOK, NEW n \in Node, NEW w \in Work
  PROVE  Carries(w, AfterRegister(n, w))
<1> DEFINE x == [w EXCEPT !.id = Idle.id, !.lab = Idle.lab]
<1>1. x \in Work /\ x.data = w.data
  BY IdleType DEF Work
<1>2. Carries(x, Call(x, "pull"))
  BY <1>1, NextCalls
<1>3. Carries(w, Call(x, "pull"))
  BY <1>1, <1>2 DEF Carries
<1>4. QED
  BY <1>3, NextCalls DEF AfterRegister

\* After pulling, the sync sweep probes, with nothing in hand, and the others end.
LEMMA AfterPullType ==
  ASSUME TypeOK, NEW w \in Work, NEW n \in Node
  PROVE  Carries(w, AfterPull(w))
<1> DEFINE x == [w EXCEPT !.data = NoRows]
<1>1. NoRows \in [Id -> Row \cup {None}]
  BY DEF NoRows
<1>2. x \in Work /\ x.data = NoRows /\ x.job = w.job
  BY <1>1 DEF Work
<1>3. w.job = "sync" => Carries(x, Call(x, "probe"))
  BY <1>2, NextCalls
<1>4. w.job = "sync" => Carries(w, Call(x, "probe"))
  BY <1>2, <1>3 DEF Carries
<1>5. QED
  BY <1>4, NextCalls DEF AfterPull

\* A job begins with nothing in hand.
LEMMA BeginType ==
  ASSUME TypeOK, NEW n \in Node, NEW job \in Job
  PROVE  Carries(Idle, Begin(n, job))
<1> DEFINE w == [Idle EXCEPT !.job = job]
<1>1. w \in Work /\ w.data = NoRows /\ w.job = job
  BY IdleType DEF Work
<1> HIDE DEF w
<1>2. /\ job # "registerSelf" => Carries(w, AfterResolve(n, w))
      /\ Carries(w, Call(w, "pull"))
      /\ Carries(w, Register(n, w))
      /\ job # "registerSelf" => Carries(w, Call(w, "probe"))
  BY <1>1, NextCalls, AfterResolveType
<1>3. \A x : Carries(w, x) => Carries(Idle, x)
  BY <1>1, IdleType DEF Carries
<1>4. Begin(n, job) =
        CASE job = "sweep" /\ Role[n] = "master" /\ probed[n] # "unknown" -> AfterResolve(n, w)
          [] job = "sync" /\ Resolved(n) # "master" -> Call(w, "pull")
          [] job = "registerSelf" -> Register(n, w)
          [] OTHER -> Call(w, "probe")
  BY DEF Begin, w
<1>5. QED
  BY <1>2, <1>3, <1>4

\* The row a registration puts on record.
RowOf(m, i, lab, apex) == Registration(m, i, lab, apex)[m][i]

\* A registration puts one row on record, as the node's own.
LEMMA RegistrationType ==
  ASSUME TypeOK, NEW m \in Node, NEW i \in Id,
         NEW lab \in Lab \cup {0}, NEW apex \in Lab \cup {0}
  PROVE  /\ RowOf(m, i, lab, apex) \in Row
         /\ RowOf(m, i, lab, apex).source = "master"
         /\ Registration(m, i, lab, apex) = [reg EXCEPT ![m][i] = RowOf(m, i, lab, apex)]
<1> DEFINE l == IF lab # 0 THEN lab ELSE CrsDomain(m)
           x == CASE apex # 0                        -> apex
                  [] apex = 0 /\ reg[m][i] # None    -> reg[m][i].apex
                  [] apex = 0 /\ reg[m][i] = None    -> l
           row == [lab |-> l, apex |-> x, source |-> "master"]
<1>1. l \in Lab
  BY DomainsAssumption DEF CrsDomain
<1>2. reg[m][i] # None => reg[m][i].apex \in Lab
  BY DEF TypeOK, Row
<1>3. x \in Lab
  BY <1>1, <1>2
<1>4. row \in Row /\ row.source = "master"
  BY <1>1, <1>3 DEF Row
<1>5. Registration(m, i, lab, apex) = [reg EXCEPT ![m][i] = row]
  BY DEF Registration
<1>6. RowOf(m, i, lab, apex) = row
  <2> HIDE DEF row
  <2>1. [reg EXCEPT ![m][i] = row][m][i] = row
    BY DEF TypeOK
  <2>2. QED
    BY <1>5, <2>1 DEF RowOf
<1>7. QED
  BY <1>4, <1>5, <1>6

-----------------------------------------------------------------------------
(* What a step does to the registries and to the calls under way.          *)

NothingLost == \A n \in Node, i \in Id : OnRecord(n, i) => OnRecord(n, i)'

\* Recording one row keeps the types and loses nothing; it keeps ReplicaSound
\* if the row, where it claims to be the master's, is on record there.
LEMMA RecordRow ==
  ASSUME TypeOK, ReplicaSound, NEW n \in Node, NEW i \in Id, NEW row \in Row,
         reg' = [reg EXCEPT ![n][i] = row],
         row.source \in {"home", "replica"} => OnRecord(Master[n], i)
  PROVE  reg' \in [Node -> [Id -> Row \cup {None}]] /\ NothingLost /\ ReplicaSound'
<1>1. reg \in [Node -> [Id -> Row \cup {None}]] /\ Master \in [Node -> Node]
  BY NodesAssumption DEF TypeOK
<1>2. reg' \in [Node -> [Id -> Row \cup {None}]]
  BY <1>1
<1>3. \A m \in Node, j \in Id : reg'[m][j] = IF m = n /\ j = i THEN row ELSE reg[m][j]
  BY <1>1
<1>4. row # None
  BY RowIsSome
<1>5. NothingLost
  BY <1>3, <1>4 DEF NothingLost, OnRecord
<1>6. ASSUME NEW m \in Node, NEW j \in Id, reg'[m][j].source \in {"home", "replica"}
      PROVE  reg'[Master[m]][j] # None
  <2>1. OnRecord(Master[m], j)
    <3>1. CASE m = n /\ j = i
      BY <3>1, <1>3, <1>6
    <3>2. CASE ~ (m = n /\ j = i)
      BY <3>2, <1>3, <1>6 DEF ReplicaSound, OnRecord
    <3>3. QED
      BY <3>1, <3>2
  <2>2. QED
    BY <2>1, <1>1, <1>5 DEF NothingLost, OnRecord
<1>7. QED
  BY <1>2, <1>5, <1>6 DEF ReplicaSound

\* A job that carries on keeps what is known of the jobs.
LEMMA CarryOn ==
  ASSUME IInv, NothingLost, NEW t \in Task, NEW x, Carries(task[t], x),
         task' = [task EXCEPT ![t] = x]
  PROVE  task' \in [Task -> Work] /\ ProbesLeadOn' /\ AnswersSound'
<1>1. task \in [Task -> Work] /\ x \in Work
  BY DEF IInv, TypeOK, Carries
<1>2. task' \in [Task -> Work]
  BY <1>1
<1>3. \A u \in Task : task'[u] = IF u = t THEN x ELSE task[u]
  BY <1>1
<1>4. ProbesLeadOn'
  BY <1>3 DEF ProbesLeadOn, IInv, Carries
<1>5. \A u \in Task : Master[NodeOf[u]] \in Node
  BY NodesAssumption, JobsAssumption
<1>6. \A i \in Id : NoRows[i] = None
  BY DEF NoRows
<1>7. ASSUME NEW u \in Task
      PROVE  /\ task'[u].pc = "registered" => OnRecord(Master[NodeOf[u]], task'[u].id)
             /\ \A i \in Id : task'[u].data[i] # None => OnRecord(Master[NodeOf[u]], i)
  BY <1>3, <1>6 DEF IInv, AnswersSound, Carries
<1>8. \A u \in Task : task'[u].id \in Id
  BY <1>2 DEF Work
<1>9. QED
  BY <1>2, <1>4, <1>5, <1>7, <1>8 DEF AnswersSound, NothingLost, OnRecord

\* So does a step that leaves the registries alone and ends jobs or cuts calls.
LEMMA Severed ==
  ASSUME IInv, UNCHANGED reg,
         \E f \in [Task -> {"lost", "cut", "same"}] :
           task' = [t \in Task |-> CASE f[t] = "lost" -> Idle
                                     [] f[t] = "cut"  -> [task[t] EXCEPT !.cut = TRUE]
                                     [] f[t] = "same" -> task[t]]
  PROVE  task' \in [Task -> Work] /\ ProbesLeadOn' /\ AnswersSound' /\ ReplicaSound'
<1>1. task \in [Task -> Work]
  BY DEF IInv, TypeOK
<1>2. \A t \in Task : LET c == [task[t] EXCEPT !.cut = TRUE] IN
        c \in Work /\ c.pc = task[t].pc /\ c.job = task[t].job /\ c.id = task[t].id /\ c.data = task[t].data
  BY <1>1 DEF Work
<1>3. \A t \in Task :
        \/ task'[t] = Idle
        \/ /\ task'[t] \in Work
           /\ task'[t].pc = task[t].pc /\ task'[t].job = task[t].job
           /\ task'[t].id = task[t].id /\ task'[t].data = task[t].data
  BY <1>1, <1>2
<1>4. task' \in [Task -> Work]
  <2>1. task' = [t \in Task |-> task'[t]]
    OBVIOUS
  <2>2. \A t \in Task : task'[t] \in Work
    BY <1>3, IdleType
  <2>3. QED
    BY <2>1, <2>2
<1>5. ProbesLeadOn'
  BY <1>3, IdleType DEF IInv, ProbesLeadOn
<1>6. \A i \in Id : Idle.data[i] = None
  BY IdleType DEF NoRows
<1>7. AnswersSound'
  BY <1>3, <1>6, IdleType DEF IInv, AnswersSound, OnRecord
<1>8. ReplicaSound'
  BY DEF IInv, ReplicaSound
<1>9. QED
  BY <1>4, <1>5, <1>7, <1>8

-----------------------------------------------------------------------------
(* Every step keeps the invariant.                                         *)

LEMMA InitHolds == Init => IInv
<1> SUFFICES ASSUME Init PROVE IInv
  OBVIOUS
<1>1. \A n \in Node : [id |-> InitialId[n], lab |-> LabDomain, registered |-> FALSE] \in Identity
  BY IdsAssumption, DomainsAssumption DEF Identity
<1>2. NoRows \in [Id -> Row \cup {None}]
  BY DEF NoRows
<1>3. TypeOK
  BY <1>1, <1>2, IdleType DEF Init, TypeOK
<1>4. ProbesLeadOn /\ AnswersSound
  BY IdleType DEF Init, ProbesLeadOn, AnswersSound, NoRows
<1>5. ReplicaSound
  BY NoneSource DEF Init, ReplicaSound, NoRows
<1>6. QED
  BY <1>3, <1>4, <1>5 DEF IInv

\* Jobs that begin, probe, are refused or fail to pull leave the registries alone.
LEMMA QuietCalls ==
  ASSUME IInv, NEW t \in Task,
         \/ \E job \in Job : Start(t, job)
         \/ Probed(t)
         \/ Refused(t)
         \/ PullFailed(t)
  PROVE  IInv' /\ NothingLost
<1> DEFINE n == NodeOf[t]
           w == task[t]
<1>0. n \in Node /\ w \in Work /\ TypeOK
  BY JobsAssumption DEF IInv, TypeOK
<1>1. NothingLost /\ ReplicaSound' /\ reg' = reg /\ ident' = ident /\ online' = online
  <2>1. reg' = reg /\ ident' = ident /\ online' = online
    BY DEF Start, Probed, Refused, PullFailed
  <2>2. QED
    BY <2>1 DEF IInv, NothingLost, OnRecord, ReplicaSound
<1>2. \E x : Carries(w, x) /\ task' = [task EXCEPT ![t] = x]
  <2>1. CASE \E job \in Job : Start(t, job)
    <3>1. PICK job \in Job : Start(t, job)
      BY <2>1
    <3>2. Carries(Idle, Begin(n, job))
      BY <1>0, BeginType
    <3>3. Carries(w, Begin(n, job))
      BY <3>2, IdleType DEF Carries
    <3>4. QED
      BY <3>1, <3>3 DEF Start, Goto
  <2>2. CASE Probed(t)
    <3>1. w.job # "registerSelf"
      BY <2>2 DEF Probed, IInv, ProbesLeadOn
    <3>2. Carries(w, AfterResolve(n, w))
      BY <1>0, <3>1, AfterResolveType
    <3>3. QED
      BY <2>2, <3>2 DEF Probed, Goto
  <2>3. CASE Refused(t)
    BY <1>0, <2>3, AfterRegisterType DEF Refused, Goto
  <2>4. CASE PullFailed(t)
    BY <1>0, <2>4, AfterPullType DEF PullFailed, Goto
  <2>5. QED
    BY <2>1, <2>2, <2>3, <2>4
<1>3. task' \in [Task -> Work] /\ ProbesLeadOn' /\ AnswersSound'
  BY <1>1, <1>2, CarryOn
<1>4. role' \in [Node -> {"unresolved", "master", "slave", "isolated-master", "offline-slave"}]
  <2>1. \A ok \in BOOLEAN :
          RoleAfter(n, ok) \in {"unresolved", "master", "slave", "isolated-master", "offline-slave"}
    BY <1>0, NodesAssumption DEF RoleAfter
  <2>2. Connected(t) \in BOOLEAN
    BY DEF Connected
  <2>3. QED
    BY <1>0, <2>1, <2>2 DEF Start, Probed, Refused, PullFailed, TypeOK
<1>5. probed' \in [Node -> {"unknown", "ok", "failed"}]
  BY <1>0 DEF Start, Probed, Refused, PullFailed, TypeOK
<1>6. QED
  BY <1>0, <1>1, <1>3, <1>4, <1>5 DEF IInv, TypeOK

\* A call that reaches the master puts the caller on record there, or is refused.
LEMMA HandledKeeps ==
  ASSUME IInv, NEW t \in Task, Handled(t)
  PROVE  IInv' /\ NothingLost
<1> DEFINE m == Target(t)
           w == task[t]
<1>0. w \in Work /\ TypeOK /\ task \in [Task -> Work] /\ m = Master[NodeOf[t]] /\ m \in Node
      /\ w.id \in Id /\ w.lab \in Lab \cup {0} /\ w.pc = "register"
  BY JobsAssumption, NodesAssumption DEF IInv, TypeOK, Work, Handled, Target
<1>1. CASE IsMaster(m)
  <2>1. reg' = Registration(m, w.id, w.lab, w.lab) /\ task' = [task EXCEPT ![t] = [w EXCEPT !.pc = "registered"]]
    BY <1>1 DEF Handled, Goto
  <2> DEFINE row == RowOf(m, w.id, w.lab, w.lab)
  <2>2. row \in Row /\ row.source = "master" /\ reg' = [reg EXCEPT ![m][w.id] = row]
    BY <1>0, <2>1, RegistrationType
  <2> HIDE DEF row
  <2>3. reg' \in [Node -> [Id -> Row \cup {None}]] /\ NothingLost /\ ReplicaSound'
    <3>1. ReplicaSound
      BY DEF IInv
    <3>2. QED
      BY <1>0, <2>2, <3>1, RecordRow
  <2>4. reg'[m][w.id] # None
    BY <1>0, <2>2, RowIsSome DEF TypeOK
  <2>5. \A u \in Task : u # t => task'[u] = task[u]
    BY <1>0, <2>1
  <2>6. /\ task'[t] \in Work /\ task'[t].pc = "registered"
        /\ task'[t].id = w.id /\ task'[t].data = w.data
    BY <1>0, <2>1 DEF Work, Calling
  <2>7. task' \in [Task -> Work]
    BY <1>0, <2>1, <2>6
  <2>8. \A u \in Task : Master[NodeOf[u]] \in Node /\ task[u].id \in Id
    BY <1>0, NodesAssumption, JobsAssumption DEF Work
  <2>9. AnswersSound'
    <3>1. ASSUME NEW u \in Task
          PROVE  /\ task'[u].pc = "registered" => reg'[Master[NodeOf[u]]][task'[u].id] # None
                 /\ \A i \in Id : task'[u].data[i] # None => reg'[Master[NodeOf[u]]][i] # None
      <4>1. \A n \in Node, i \in Id : reg[n][i] # None => reg'[n][i] # None
        BY <2>3 DEF NothingLost, OnRecord
      <4>2. /\ task[u].pc = "registered" => reg[Master[NodeOf[u]]][task[u].id] # None
            /\ \A i \in Id : task[u].data[i] # None => reg[Master[NodeOf[u]]][i] # None
        BY DEF IInv, AnswersSound, OnRecord
      <4>3. CASE u = t
        BY <4>1, <4>2, <4>3, <1>0, <2>4, <2>6, <2>8
      <4>4. CASE u # t
        BY <4>1, <4>2, <4>4, <2>5, <2>8
      <4>5. QED
        BY <4>3, <4>4
    <3>2. QED
      BY <3>1 DEF AnswersSound, OnRecord
  <2>10. ProbesLeadOn'
    BY <2>5, <2>6 DEF IInv, ProbesLeadOn
  <2>11. QED
    BY <1>0, <2>3, <2>7, <2>9, <2>10 DEF IInv, TypeOK, Handled
<1>2. CASE ~ IsMaster(m)
  <2>1. PICK pc \in {"refused", "refusedOffline"} : task' = [task EXCEPT ![t] = [w EXCEPT !.pc = pc]]
    BY <1>2 DEF Handled, Goto
  <2>2. Carries(w, [w EXCEPT !.pc = pc])
    BY <1>0 DEF Carries, Work, Calling
  <2>3. reg' = reg
    BY <1>2 DEF Handled
  <2>4. NothingLost /\ ReplicaSound'
    BY <2>3 DEF IInv, NothingLost, OnRecord, ReplicaSound
  <2>5. task' \in [Task -> Work] /\ ProbesLeadOn' /\ AnswersSound'
    BY <2>1, <2>2, <2>4, CarryOn
  <2>6. QED
    BY <1>0, <2>3, <2>4, <2>5 DEF IInv, TypeOK, Handled
<1>3. QED
  BY <1>1, <1>2

\* The master's answer, or the lack of one, puts the node itself on its record.
LEMMA SelfRecordedKeeps ==
  ASSUME IInv, NEW t \in Task, Registered(t) \/ RegisterOffline(t)
  PROVE  IInv' /\ NothingLost
<1> DEFINE n == NodeOf[t]
           w == task[t]
           row == [lab |-> w.lab, apex |-> w.lab,
                   source |-> IF Registered(t) THEN "home" ELSE "local"]
<1>0. /\ TypeOK /\ ReplicaSound /\ w \in Work /\ n \in Node
      /\ w.id \in Id /\ w.lab \in Lab
  BY JobsAssumption DEF IInv, TypeOK, Work
<1>1. row \in Row
  BY <1>0 DEF Row
<1>2. reg' = [reg EXCEPT ![n][w.id] = row]
  BY DEF Registered, RegisterOffline
<1>3. row.source \in {"home", "replica"} => OnRecord(Master[n], w.id)
  BY DEF IInv, AnswersSound, Registered
<1>4. reg' \in [Node -> [Id -> Row \cup {None}]] /\ NothingLost /\ ReplicaSound'
  <2> HIDE DEF row, n, w
  <2>1. QED
    BY <1>0, <1>1, <1>2, <1>3, RecordRow
<1>5. Carries(w, AfterRegister(n, w)) /\ task' = [task EXCEPT ![t] = AfterRegister(n, w)]
  BY <1>0, AfterRegisterType DEF Registered, RegisterOffline, Goto
<1>6. task' \in [Task -> Work] /\ ProbesLeadOn' /\ AnswersSound'
  BY <1>4, <1>5, CarryOn
<1>7. ident' \in [Node -> Identity]
  <2>1. CASE Registered(t)
    <3>1. ident' = [ident EXCEPT ![n].registered = TRUE]
      BY <2>1 DEF Registered
    <3>2. QED
      BY <1>0, <3>1 DEF TypeOK, Identity
  <2>2. CASE RegisterOffline(t)
    BY <1>0, <2>2 DEF RegisterOffline, TypeOK
  <2>3. QED
    BY <2>1, <2>2
<1>8. probed' \in [Node -> {"unknown", "ok", "failed"}] /\ online' = online /\ role' = role
  BY <1>0 DEF Registered, RegisterOffline, TypeOK
<1>9. QED
  BY <1>0, <1>4, <1>6, <1>7, <1>8 DEF IInv, TypeOK

\* A peer's registration adds a row and disturbs no call.
LEMMA PeerKeeps ==
  ASSUME IInv, NEW m \in Peered,
         \/ \E p \in Payload : PeerRegisters(m, p[1], p[2], p[3])
         \/ \E i \in Id : PeerAsksForId(m, i)
  PROVE  IInv' /\ NothingLost
<1>0. TypeOK /\ ReplicaSound /\ m \in Node
  BY NodesAssumption DEF IInv
<1>1. PICK i \in Id, row \in Row : row.source = "master" /\ reg' = [reg EXCEPT ![m][i] = row]
  <2>1. ASSUME NEW p \in Payload, PeerRegisters(m, p[1], p[2], p[3])
        PROVE  \E i \in Id, row \in Row : row.source = "master" /\ reg' = [reg EXCEPT ![m][i] = row]
    <3>1. p[1] \in Id /\ p[2] \in Lab \cup {0} /\ p[3] \in Lab \cup {0}
      BY IdsAssumption
    <3> DEFINE row == RowOf(m, p[1], p[2], p[3])
    <3>2. row \in Row /\ row.source = "master" /\ reg' = [reg EXCEPT ![m][p[1]] = row]
      BY <1>0, <2>1, <3>1, RegistrationType DEF PeerRegisters
    <3> HIDE DEF row
    <3>3. QED
      BY <3>1, <3>2
  <2>2. ASSUME NEW i \in Id, PeerAsksForId(m, i)
        PROVE  \E j \in Id, row \in Row : row.source = "master" /\ reg' = [reg EXCEPT ![m][j] = row]
    <3> DEFINE row == [lab |-> LabDomain, apex |-> LabDomain, source |-> "master"]
    <3>1. row \in Row /\ row.source = "master"
      BY DomainsAssumption DEF Row
    <3>2. reg' = [reg EXCEPT ![m][i] = row]
      BY <2>2 DEF PeerAsksForId
    <3> HIDE DEF row
    <3>3. QED
      BY <3>1, <3>2
  <2>3. QED
    BY <2>1, <2>2
<1>2. reg' \in [Node -> [Id -> Row \cup {None}]] /\ NothingLost /\ ReplicaSound'
  BY <1>0, <1>1, RecordRow
<1>3. UNCHANGED <<online, ident, role, probed, task>>
  BY DEF PeerRegisters, PeerAsksForId
<1>4. \A u \in Task : Master[NodeOf[u]] \in Node /\ task[u].id \in Id
  BY <1>0, NodesAssumption, JobsAssumption DEF TypeOK, Work
<1>5. AnswersSound'
  <2>1. \A n \in Node, j \in Id : reg[n][j] # None => reg'[n][j] # None
    BY <1>2 DEF NothingLost, OnRecord
  <2>2. QED
    BY <1>3, <1>4, <2>1 DEF IInv, AnswersSound, OnRecord
<1>6. ProbesLeadOn'
  BY <1>3 DEF IInv, ProbesLeadOn
<1>7. QED
  BY <1>0, <1>2, <1>3, <1>5, <1>6 DEF IInv, TypeOK

\* The master's registry, as it is sent, holds what is on record there.
LEMMA ServedKeeps ==
  ASSUME IInv, NEW t \in Task, Served(t)
  PROVE  IInv' /\ NothingLost
<1> DEFINE m == Target(t)
           w == task[t]
           data == [i \in Id |-> LET row == reg[m][i] IN
                                   IF row = None THEN None ELSE [row EXCEPT !.source = "replica"]]
           x == [w EXCEPT !.pc = "pulled", !.data = data]
<1>0. /\ TypeOK /\ w \in Work /\ m = Master[NodeOf[t]] /\ m \in Node
      /\ task \in [Task -> Work] /\ task' = [task EXCEPT ![t] = x]
  BY JobsAssumption, NodesAssumption DEF IInv, TypeOK, Served, Target, Goto
<1>1. \A row \in Row : [row EXCEPT !.source = "replica"] \in Row
  BY DEF Row
<1>2. data \in [Id -> Row \cup {None}] /\ \A i \in Id : data[i] # None => reg[m][i] # None
  BY <1>0, <1>1 DEF TypeOK
<1> HIDE DEF data
<1>3. x \in Work /\ x.pc = "pulled" /\ x.data = data
  BY <1>0, <1>2 DEF Work, Calling
<1> HIDE DEF x
<1>4. \A u \in Task : task'[u] = IF u = t THEN x ELSE task[u]
  BY <1>0
<1>5. task' \in [Task -> Work]
  BY <1>0, <1>3
<1>6. UNCHANGED <<online, ident, reg, role, probed>>
  BY DEF Served
<1>7. AnswersSound'
  BY <1>0, <1>2, <1>3, <1>4, <1>6 DEF IInv, AnswersSound, OnRecord
<1>8. ProbesLeadOn' /\ ReplicaSound'
  BY <1>3, <1>4, <1>6 DEF IInv, ProbesLeadOn, ReplicaSound
<1>9. NothingLost
  BY <1>6 DEF NothingLost, OnRecord
<1>10. QED
  BY <1>0, <1>5, <1>6, <1>7, <1>8, <1>9 DEF IInv, TypeOK

\* What a pull delivers replaces rows by rows that are on record at the master.
LEMMA PulledKeeps ==
  ASSUME IInv, NEW t \in Task, Pulled(t)
  PROVE  IInv' /\ NothingLost
<1> DEFINE n == NodeOf[t]
           w == task[t]
<1>0. TypeOK /\ ReplicaSound /\ w \in Work /\ n \in Node /\ Master \in [Node -> Node]
  BY JobsAssumption, NodesAssumption DEF IInv, TypeOK
<1>1. \A m \in Node, i \in Id :
        reg'[m][i] = IF m = n /\ w.data[i] # None THEN w.data[i] ELSE reg[m][i]
  BY <1>0 DEF Pulled, TypeOK
<1>2. w.data \in [Id -> Row \cup {None}] /\ \A i \in Id : w.data[i] # None => reg[Master[n]][i] # None
  BY <1>0 DEF IInv, AnswersSound, OnRecord, Work
<1>3. reg' \in [Node -> [Id -> Row \cup {None}]]
  BY <1>0, <1>2 DEF Pulled, TypeOK
<1>4. NothingLost
  BY <1>1 DEF NothingLost, OnRecord
<1>5. ReplicaSound'
  <2>1. ASSUME NEW m \in Node, NEW i \in Id, reg'[m][i].source \in {"home", "replica"}
        PROVE  reg'[Master[m]][i] # None
    <3>1. reg[Master[m]][i] # None
      BY <1>0, <1>1, <1>2, <2>1 DEF ReplicaSound
    <3>2. QED
      BY <1>0, <1>4, <3>1 DEF NothingLost, OnRecord
  <2>2. QED
    BY <2>1 DEF ReplicaSound
<1>6. Carries(w, AfterPull(w)) /\ task' = [task EXCEPT ![t] = AfterPull(w)]
  BY <1>0, AfterPullType DEF Pulled, Goto
<1>7. task' \in [Task -> Work] /\ ProbesLeadOn' /\ AnswersSound'
  BY <1>4, <1>6, CarryOn
<1>8. probed' \in [Node -> {"unknown", "ok", "failed"}] /\ UNCHANGED <<online, ident, role>>
  BY <1>0 DEF Pulled, TypeOK
<1>9. QED
  BY <1>0, <1>3, <1>4, <1>5, <1>7, <1>8 DEF IInv, TypeOK

\* A broken network, a restart or a new identity ends or cuts calls at most.
LEMMA WorldKeeps ==
  ASSUME IInv, NEW n \in Node,
         \/ \E i \in Id, lab \in Lab : ChangeIdentity(n, i, lab)
         \/ GoOffline(n)
         \/ GoOnline(n)
         \/ Restart(n)
  PROVE  IInv' /\ NothingLost
<1>0. TypeOK /\ UNCHANGED reg
  BY DEF IInv, ChangeIdentity, GoOffline, GoOnline, Restart
<1>1. task' \in [Task -> Work] /\ ProbesLeadOn' /\ AnswersSound' /\ ReplicaSound'
  <2>1. ASSUME NEW Lost \in SUBSET Task, task' = CutOff(n, Lost)
        PROVE  task' \in [Task -> Work] /\ ProbesLeadOn' /\ AnswersSound' /\ ReplicaSound'
    <3> DEFINE f == [t \in Task |-> IF t \in Lost THEN "lost"
                                    ELSE IF task[t].pc # "idle" /\ n \in {NodeOf[t], Target(t)}
                                    THEN "cut" ELSE "same"]
    <3>1. f \in [Task -> {"lost", "cut", "same"}]
      OBVIOUS
    <3>2. task' = [t \in Task |-> CASE f[t] = "lost" -> Idle
                                    [] f[t] = "cut"  -> [task[t] EXCEPT !.cut = TRUE]
                                    [] f[t] = "same" -> task[t]]
      BY <2>1 DEF CutOff
    <3> HIDE DEF f
    <3>3. QED
      BY <1>0, <3>1, <3>2, Severed
  <2>2. ASSUME UNCHANGED task
        PROVE  task' \in [Task -> Work] /\ ProbesLeadOn' /\ AnswersSound' /\ ReplicaSound'
    BY <1>0, <2>2 DEF IInv, TypeOK, ProbesLeadOn, AnswersSound, ReplicaSound, OnRecord
  <2>3. CASE \E i \in Id, lab \in Lab : ChangeIdentity(n, i, lab)
    BY <2>2, <2>3 DEF ChangeIdentity
  <2>4. CASE GoOffline(n)
    BY <2>1, <2>4 DEF GoOffline
  <2>5. CASE GoOnline(n)
    BY <2>2, <2>5 DEF GoOnline
  <2>6. CASE Restart(n)
    BY <2>1, <2>6 DEF Restart
  <2>7. QED
    BY <2>3, <2>4, <2>5, <2>6
<1>2. ident' \in [Node -> Identity]
  <2>1. CASE \E i \in Id, lab \in Lab : ChangeIdentity(n, i, lab)
    <3>1. PICK i \in Id, lab \in Lab : ident' = [ident EXCEPT ![n].id = i, ![n].lab = lab]
      BY <2>1 DEF ChangeIdentity
    <3>2. ident' = [ident EXCEPT ![n] = [@ EXCEPT !.id = i, !.lab = lab]]
      BY <1>0, <3>1 DEF TypeOK, Identity
    <3>3. [ident[n] EXCEPT !.id = i, !.lab = lab] \in Identity
      BY <1>0 DEF TypeOK, Identity
    <3>4. QED
      BY <1>0, <3>2, <3>3 DEF TypeOK
  <2>2. CASE GoOffline(n) \/ GoOnline(n)
    BY <1>0, <2>2 DEF GoOffline, GoOnline, TypeOK
  <2>3. CASE Restart(n)
    <3>1. ident' = [ident EXCEPT ![n].lab = LabDomain] /\ LabDomain \in Lab
      BY <2>3, DomainsAssumption DEF Restart
    <3>2. QED
      BY <1>0, <3>1 DEF TypeOK, Identity
  <2>4. QED
    BY <2>1, <2>2, <2>3
<1>3. /\ online' \subseteq Node
      /\ role' \in [Node -> {"unresolved", "master", "slave", "isolated-master", "offline-slave"}]
      /\ probed' \in [Node -> {"unknown", "ok", "failed"}]
  BY <1>0 DEF ChangeIdentity, GoOffline, GoOnline, Restart, TypeOK
<1>4. NothingLost
  BY <1>0 DEF NothingLost, OnRecord
<1>5. QED
  BY <1>0, <1>1, <1>2, <1>3, <1>4 DEF IInv, TypeOK

\* Every step keeps the invariant and every row.
LEMMA NextKeeps == IInv /\ [Next]_vars => IInv' /\ NothingLost
<1> SUFFICES ASSUME IInv, [Next]_vars PROVE IInv' /\ NothingLost
  OBVIOUS
<1>1. ASSUME NEW t \in Task, Advance(t) PROVE IInv' /\ NothingLost
  BY <1>1, QuietCalls, HandledKeeps, SelfRecordedKeeps, ServedKeeps, PulledKeeps DEF Advance
<1>2. ASSUME NEW t \in Task, NEW job \in Job, Start(t, job) PROVE IInv' /\ NothingLost
  BY <1>2, QuietCalls
<1>3. CASE Outside
  BY <1>3, NodesAssumption, PeerKeeps, WorldKeeps DEF Outside
<1>4. CASE UNCHANGED vars
  BY <1>4 DEF IInv, TypeOK, ProbesLeadOn, AnswersSound, ReplicaSound, NothingLost, OnRecord, vars
<1>5. "sweep" \in Job /\ Timer \subseteq Task
  BY JobsAssumption DEF Job
<1>6. QED
  BY <1>1, <1>2, <1>3, <1>4, <1>5 DEF Next

\* The invariant holds in every reachable state.
LEMMA Invariance == Spec => []IInv
BY InitHolds, NextKeeps, PTL DEF Spec

-----------------------------------------------------------------------------
(* The theorems.                                                           *)

\* The nodes' tables, roles and jobs have their types in every reachable state.
THEOREM TypeCorrect == Spec => []TypeOK
BY Invariance, PTL DEF IInv

\* What a node holds as its master's is on record there, although answers are
\* lost, late and overlapping (registerToMaster, syncRegistryFromMaster).
THEOREM ReplicasSound == Spec => []ReplicaSound
BY Invariance, PTL DEF IInv

\* No node ever loses a server id it has on record (upsertCrsEntry never deletes).
THEOREM IdsKept == Spec => IdsStayTaken
<1>1. IInv /\ [Next]_vars => [\A n \in Node, i \in Id : reg[n][i] # None => reg'[n][i] # None]_vars
  BY NextKeeps DEF NothingLost, OnRecord
<1>2. QED
  BY <1>1, Invariance, PTL DEF Spec, IdsStayTaken
=============================================================================
