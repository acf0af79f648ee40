-------------------------- MODULE CertificatesProofs --------------------------
(***************************************************************************)
(* Theorems about Certificates, WildcardUpkeep and WildcardNames, for any  *)
(* number of rows and jobs, any names and any lifetimes.  The one that     *)
(* needs a certificate to live longer than two rounds of the timer says so *)
(* in its ASSUME.                                                          *)
(***************************************************************************)
EXTENDS WildcardUpkeep, WildcardNames, Health, WellFoundedInduction, TLAPS

Table == [Id -> Row \cup {Absent}]

\* A row of a tenant's that says "issuing".
Pending(c, i) == c[i] # Absent /\ c[i].owner = "tenant" /\ c[i].status = "issuing"

\* Where a job can be.
Placed(w) ==
  /\ w.pc \in {"ensure", "upgrade"} => w.job = "sweep" /\ w.own = 0
  /\ w.pc = "probe" => w.job = "sweep"
  /\ w.pc = "zone" => w.job = "default" /\ w.own = 0
  /\ w.pc \in {"mint", "push"} => w.job = "default" \/ (w.job = "sweep" /\ w.own = 0)
  /\ w.pc \in {"account", "order"} => w.job \in {"sweep", "issue"}

\* What a job carries fits the row it will write, as long as that is there: a
\* mint and an upgrade have a row of the server's, an issue job the row's name.
Fits(c, w) ==
  /\ Placed(w)
  /\ w.pc = "mint" /\ w.row # 0 /\ c[w.row] # Absent => c[w.row].owner = "server"
  /\ w.pc \in {"probe", "account", "order"} /\ w.own # 0 /\ c[w.own] # Absent =>
       IF w.job = "sweep" THEN c[w.own].owner = "server" ELSE c[w.own].domain = w.name

RowsInv ==
  /\ cert \in Table
  /\ \A i \in Id : /\ cert[i] # Absent /\ cert[i].owner = "tenant"
                   /\ cert[i].mat # NoMaterial
                   => cert[i].mat.subject = cert[i].domain
  /\ wild # 0 /\ cert[wild] # Absent => cert[wild].owner = "server"

JobsInv == \A t \in Task : task[t] \in Work /\ Fits(cert, task[t])

CertInv == RowsInv /\ apex \in Apex /\ wild \in 0..MaxRow /\ task \in [Task -> Work] /\ JobsInv

\* Rows that something refers to keep their owner and name, and come from
\* nowhere.
RowsStay ==
  \A i \in InUse \cap Id : cert'[i] # Absent =>
    cert[i] # Absent /\ cert'[i].owner = cert[i].owner /\ cert'[i].domain = cert[i].domain

AllAttended == \A i \in Id : Attended(i) => Attended(i)'

-----------------------------------------------------------------------------
(* Ids.                                                                    *)

LEMMA IdleWork == Idle \in Work /\ (\A c : Fits(c, Idle)) /\ Idle.own = 0 /\ Idle.pc = "idle"
BY ApexAssumption, RowsAssumption DEF Idle, Work, Job, Waiting, Fits, Placed

LEMMA LeastIn == ASSUME NEW S \in SUBSET Id, S # {} PROVE Least(S) \in S
<1>1. S \subseteq Nat
  BY RowsAssumption DEF Id
<1>2. PICK n \in S : \A m \in S : ~(<<m, n>> \in OpToRel(<, Nat))
  BY <1>1, WFMin, NatLessThanWellFounded
<1>3. ASSUME NEW m \in S PROVE n <= m
  <2>1. m \in Nat /\ n \in Nat /\ ~(m < n)
    BY <1>1, <1>2 DEF OpToRel
  <2>2. QED
    BY <2>1
<1>4. QED
  BY <1>3 DEF Least

LEMMA RowNotAbsent == Absent \notin Row
<1>1. \A r \in Row : r.owner # "nobody"
  BY DEF Row
<1>2. QED
  BY <1>1 DEF Absent

LEMMA LiveTyped ==
  ASSUME RowsInv, NEW i \in Live PROVE i \in Id /\ cert[i] \in Row /\ i # 0
BY RowsAssumption DEF RowsInv, Table, Live, Id

\* The row the identity names is the server's, if it is there.
LEMMA WildServers ==
  ASSUME RowsInv, wild \in 0..MaxRow
  PROVE  /\ WildRow \in 0..MaxRow
         /\ WildRow # 0 => WildRow \in Live /\ cert[WildRow].owner = "server"
<1>1. CASE wild \in Live
  <2>1. wild # 0 /\ cert[wild] # Absent
    BY <1>1, LiveTyped DEF Live
  <2>2. QED
    BY <1>1, <2>1 DEF WildRow, RowsInv
<1>2. CASE wild \notin Live
  BY <1>2, RowsAssumption DEF WildRow
<1>3. QED
  BY <1>1, <1>2

-----------------------------------------------------------------------------
(* What a write does to the rows.                                          *)

LEMMA Unwritten ==
  ASSUME RowsInv, cert' = cert, wild' = wild
  PROVE  RowsInv' /\ RowsStay /\ \A i \in Id : Pending(cert', i) <=> Pending(cert, i)
BY DEF RowsInv, RowsStay, Pending

LEMMA SavedRows ==
  ASSUME RowsInv, NEW i \in 0..MaxRow, NEW d \in Domain, NEW s \in {"none", "pki", "acme"},
         i \in Live /\ cert[i].owner = "tenant" => cert[i].domain = d,
         cert' = Saved(i, d, s), wild' = wild
  PROVE  /\ RowsInv' /\ RowsStay
         /\ \A j \in Id : Pending(cert', j) => Pending(cert, j) /\ j # i
<1>1. CASE i \notin Live
  <2>1. cert' = cert
    BY <1>1 DEF Saved
  <2>2. \A j \in Id : Pending(cert, j) => j # i
    BY <1>1 DEF Pending, Live
  <2>3. QED
    BY <2>1, <2>2, Unwritten
<1>2. CASE i \in Live
  <2> DEFINE m == [subject |-> d, left |-> Life]
             r == [cert[i] EXCEPT !.mat = m, !.status = "issued", !.source = s]
  <2>1. i \in Id /\ cert[i] \in Row /\ i # 0
    BY <1>2, LiveTyped
  <2>2. m \in Material /\ m.subject = d
    BY LifeAssumption DEF Material
  <2>3. cert \in Table
    BY DEF RowsInv
  <2>4. cert' = [cert EXCEPT ![i] = r]
    BY <1>2, <2>1, <2>3 DEF Saved, Table
  <2> HIDE DEF m
  <2>5. /\ r \in Row /\ r.mat = m /\ r.owner = cert[i].owner
        /\ r.domain = cert[i].domain /\ r.status = "issued"
    BY <2>1, <2>2 DEF Row
  <2> HIDE DEF r
  <2>6. cert' \in Table /\ cert'[i] = r /\ r # Absent /\ \A j \in Id \ {i} : cert'[j] = cert[j]
    BY <2>1, <2>3, <2>4, <2>5, RowNotAbsent DEF Table
  <2>7. cert[i] # Absent
    BY <1>2 DEF Live
  <2>8. RowsInv'
    <3>1. ASSUME NEW j \in Id, cert'[j] # Absent, cert'[j].owner = "tenant",
                 cert'[j].mat # NoMaterial
          PROVE  cert'[j].mat.subject = cert'[j].domain
      <4>1. CASE j = i
        BY <1>2, <2>2, <2>5, <2>6, <3>1, <4>1
      <4>2. CASE j # i
        BY <2>6, <3>1, <4>2 DEF RowsInv
      <4>3. QED
        BY <4>1, <4>2
    <3>2. ASSUME wild' # 0, cert'[wild'] # Absent PROVE cert'[wild'].owner = "server"
      <4>1. CASE wild = i
        BY <2>1, <2>5, <2>6, <2>7, <4>1 DEF RowsInv
      <4>2. CASE wild # i /\ wild \in Id
        BY <2>6, <3>2, <4>2 DEF RowsInv
      <4>3. CASE wild \notin Id
        <5>1. cert'[wild] = cert[wild]
          BY <2>3, <2>4, <4>3 DEF Table
        <5>2. QED
          BY <3>2, <5>1 DEF RowsInv
      <4>4. QED
        BY <4>1, <4>2, <4>3
    <3>3. QED
      BY <2>6, <3>1, <3>2 DEF RowsInv
  <2>9. RowsStay
    BY <2>5, <2>6, <2>7 DEF RowsStay
  <2>10. \A j \in Id : Pending(cert', j) => Pending(cert, j) /\ j # i
    BY <2>5, <2>6 DEF Pending
  <2>11. QED
    BY <2>8, <2>9, <2>10
<1>3. QED
  BY <1>1, <1>2

LEMMA StatusRows ==
  ASSUME RowsInv, NEW i \in 0..MaxRow, NEW s \in {"issuing", "error"},
         cert' = WithStatus(i, s), wild' = wild
  PROVE  /\ RowsInv' /\ RowsStay
         /\ \A j \in Id : Pending(cert', j) =>
              \/ Pending(cert, j) /\ (j # i \/ s = "issuing")
              \/ j = i /\ s = "issuing"
<1>1. CASE i \notin Live
  <2>1. cert' = cert
    BY <1>1 DEF WithStatus
  <2>2. \A j \in Id : Pending(cert, j) => j # i
    BY <1>1 DEF Pending, Live
  <2>3. QED
    BY <2>1, <2>2, Unwritten
<1>2. CASE i \in Live
  <2> DEFINE r == [cert[i] EXCEPT !.status = s]
  <2>1. i \in Id /\ cert[i] \in Row /\ i # 0
    BY <1>2, LiveTyped
  <2>3. cert \in Table
    BY DEF RowsInv
  <2>4. cert' = [cert EXCEPT ![i] = r]
    BY <1>2, <2>1, <2>3 DEF WithStatus, Table
  <2>5. /\ r \in Row /\ r.mat = cert[i].mat /\ r.owner = cert[i].owner
        /\ r.domain = cert[i].domain /\ r.status = s
    BY <2>1 DEF Row
  <2> HIDE DEF r
  <2>6. cert' \in Table /\ cert'[i] = r /\ r # Absent /\ \A j \in Id \ {i} : cert'[j] = cert[j]
    BY <2>1, <2>3, <2>4, <2>5, RowNotAbsent DEF Table
  <2>7. cert[i] # Absent
    BY <1>2 DEF Live
  <2>8. RowsInv'
    <3>1. ASSUME NEW j \in Id, cert'[j] # Absent, cert'[j].owner = "tenant",
                 cert'[j].mat # NoMaterial
          PROVE  cert'[j].mat.subject = cert'[j].domain
      <4>1. CASE j = i
        BY <2>1, <2>5, <2>6, <2>7, <3>1, <4>1 DEF RowsInv
      <4>2. CASE j # i
        BY <2>6, <3>1, <4>2 DEF RowsInv
      <4>3. QED
        BY <4>1, <4>2
    <3>2. ASSUME wild' # 0, cert'[wild'] # Absent PROVE cert'[wild'].owner = "server"
      <4>1. CASE wild = i
        BY <2>1, <2>5, <2>6, <2>7, <4>1 DEF RowsInv
      <4>2. CASE wild # i /\ wild \in Id
        BY <2>6, <3>2, <4>2 DEF RowsInv
      <4>3. CASE wild \notin Id
        <5>1. cert'[wild] = cert[wild]
          BY <2>3, <2>4, <4>3 DEF Table
        <5>2. QED
          BY <3>2, <5>1 DEF RowsInv
      <4>4. QED
        BY <4>1, <4>2, <4>3
    <3>3. QED
      BY <2>6, <3>1, <3>2 DEF RowsInv
  <2>9. RowsStay
    BY <2>5, <2>6, <2>7 DEF RowsStay
  <2>10. \A j \in Id : Pending(cert', j) =>
              \/ Pending(cert, j) /\ (j # i \/ s = "issuing")
              \/ j = i /\ s = "issuing"
    BY <2>5, <2>6 DEF Pending
  <2>11. QED
    BY <2>8, <2>9, <2>10
<1>3. QED
  BY <1>1, <1>2

\* A row made under an id nothing refers to: a tenant's under one the identity
\* does not point at, or the server's, which the identity points at from now on.
LEMMA NewRows ==
  ASSUME RowsInv, NEW i \in Id \ InUse, NEW r \in Row,
         cert' = [cert EXCEPT ![i] = r],
         \/ r.owner = "tenant" /\ r.mat = NoMaterial /\ wild' = wild /\ i # wild
         \/ r.owner = "server" /\ wild' = i
  PROVE  /\ RowsInv' /\ RowsStay
         /\ \A j \in Id : Pending(cert', j) => Pending(cert, j) \/ (j = i /\ r.owner = "tenant")
<1>1. cert \in Table /\ i \in Id
  BY DEF RowsInv
<1>2. /\ cert' \in Table /\ cert'[i] = r /\ r # Absent
      /\ \A j \in Id \ {i} : cert'[j] = cert[j]
  BY <1>1, RowNotAbsent DEF Table
<1>3. ASSUME NEW j \in Id, cert'[j] # Absent, cert'[j].owner = "tenant",
             cert'[j].mat # NoMaterial
      PROVE  cert'[j].mat.subject = cert'[j].domain
  <2>1. CASE j = i
    BY <1>2, <1>3, <2>1
  <2>2. CASE j # i
    BY <1>2, <1>3, <2>2 DEF RowsInv
  <2>3. QED
    BY <2>1, <2>2
<1>4. ASSUME wild' # 0, cert'[wild'] # Absent PROVE cert'[wild'].owner = "server"
  <2>1. CASE wild' = i
    BY <1>2, <2>1
  <2>2. CASE wild' # i
    <3>1. wild' = wild /\ cert'[wild] = cert[wild]
      BY <1>1, <1>2, <2>2 DEF Table
    <3>2. QED
      BY <1>4, <3>1 DEF RowsInv
  <2>3. QED
    BY <2>1, <2>2
<1>5. RowsStay
  BY <1>2 DEF RowsStay
<1>6. QED
  BY <1>2, <1>3, <1>4, <1>5 DEF RowsInv, Pending

\* Nothing a job refers to is new.
LEMMA FitsStays ==
  ASSUME RowsInv, RowsInv', RowsStay, NEW t \in Task, task[t] \in Work, Fits(cert, task[t])
  PROVE  Fits(cert', task[t])
<1> DEFINE w == task[t]
<1>1. w.row \in InUse /\ w.own \in InUse /\ w.row \in 0..MaxRow /\ w.own \in 0..MaxRow
  BY DEF InUse, Work
<1>2. \A i \in 0..MaxRow : i # 0 => i \in Id
  BY RowsAssumption DEF Id
<1> HIDE DEF w
<1>3. Fits(cert, w)
  BY DEF w
<1>4. \A i \in {w.row, w.own} : i # 0 /\ cert'[i] # Absent =>
        cert[i] # Absent /\ cert'[i].owner = cert[i].owner /\ cert'[i].domain = cert[i].domain
  BY <1>1, <1>2 DEF RowsStay
<1>5. Fits(cert', w)
  BY <1>3, <1>4 DEF Fits
<1>6. QED
  BY <1>5 DEF w

\* A step of one job.
LEMMA JobStep ==
  ASSUME CertInv, NEW t \in Task, NEW w \in Work, Goto(t, w), RowsInv', RowsStay,
         apex' \in Apex, wild' \in 0..MaxRow, Fits(cert', w),
         \A i \in Id : Pending(cert', i) =>
           \/ w.own = i /\ w.pc # "idle"
           \/ Pending(cert, i) /\ ~(task[t].own = i /\ task[t].pc # "idle")
  PROVE  CertInv' /\ AllAttended /\ RowsStay
<1>1. task' \in [Task -> Work] /\ task'[t] = w /\ \A u \in Task \ {t} : task'[u] = task[u]
  BY DEF CertInv, Goto
<1>2. JobsInv'
  BY <1>1, FitsStays DEF CertInv, JobsInv
<1>3. ASSUME NEW i \in Id, Attended(i), Pending(cert', i)
      PROVE  \E u \in Task : task'[u].own = i /\ task'[u].pc # "idle"
  <2>1. CASE w.own = i /\ w.pc # "idle"
    BY <1>1, <2>1
  <2>2. CASE Pending(cert, i) /\ ~(task[t].own = i /\ task[t].pc # "idle")
    <3>1. PICK u \in Task : task[u].own = i /\ task[u].pc # "idle"
      BY <1>3, <2>2 DEF Attended, Pending, Live
    <3>2. QED
      BY <1>1, <2>2, <3>1
  <2>3. QED
    BY <1>3, <2>1, <2>2
<1>4. AllAttended
  BY <1>3 DEF AllAttended, Attended, Pending, Live
<1>5. QED
  BY <1>1, <1>2, <1>4 DEF CertInv

-----------------------------------------------------------------------------
(* Jobs.                                                                   *)

\* A step that writes nothing, to a job that keeps the row it is for.
LEMMA QuietStep ==
  ASSUME CertInv, NEW t \in Task, NEW w \in Work, Goto(t, w), UNCHANGED <<cert, apex, wild>>,
         Fits(cert, w),
         \/ task[t].pc = "idle" \/ task[t].own = 0 \/ ~Pending(cert, task[t].own)
         \/ w.own = task[t].own /\ w.pc # "idle"
  PROVE  CertInv' /\ AllAttended /\ RowsStay
<1>1. RowsInv' /\ RowsStay /\ \A i \in Id : Pending(cert', i) <=> Pending(cert, i)
  BY Unwritten DEF CertInv
<1>2. \A i \in Id : i # 0
  BY RowsAssumption DEF Id
<1>3. \A i \in Id : Pending(cert', i) =>
        \/ w.own = i /\ w.pc # "idle"
        \/ Pending(cert, i) /\ ~(task[t].own = i /\ task[t].pc # "idle")
  BY <1>1, <1>2
<1>4. QED
  BY <1>1, <1>3, JobStep DEF CertInv

\* What the invariant says of one job.
LEMMA JobFacts ==
  ASSUME CertInv, NEW t \in Task
  PROVE  /\ task[t] \in Work /\ Fits(cert, task[t]) /\ Placed(task[t])
         /\ RowsInv /\ wild \in 0..MaxRow /\ apex \in Apex /\ apex \in Domain
BY ApexAssumption DEF CertInv, JobsInv, Fits

\* Where ensureWildcardPki returns to.
LEMMA AfterEnsureFits ==
  ASSUME CertInv, NEW w \in Work, \/ w.job = "sweep" /\ w.own = 0
                                  \/ w.job = "default"
  PROVE  /\ AfterEnsure(w) \in Work /\ Fits(cert, AfterEnsure(w))
         /\ \/ w.own = 0 \/ ~Pending(cert, w.own)
            \/ AfterEnsure(w).own = w.own /\ AfterEnsure(w).pc # "idle"
         /\ \/ AfterEnsure(w).pc \in {"upgrade", "idle"}
            \/ AfterEnsure(w).pc = "account" /\ AfterEnsure(w).job = "issue"
<1>1. CASE w.job = "sweep" /\ w.own = 0
  <2> DEFINE v == [w EXCEPT !.pc = "upgrade", !.row = 0, !.name = 1]
  <2>1. AfterEnsure(w) = v
    BY <1>1 DEF AfterEnsure
  <2>2. v \in Work /\ v.pc = "upgrade" /\ v.job = "sweep" /\ v.own = 0
    BY <1>1, ApexAssumption, RowsAssumption DEF Work, Waiting
  <2> HIDE DEF v
  <2>3. QED
    BY <1>1, <2>1, <2>2 DEF Fits, Placed
<1>2. CASE w.job = "default" /\ w.own \in Live
  <2> DEFINE d == cert[w.own].domain
             v == [w EXCEPT !.pc = "account", !.job = "issue", !.row = 0, !.name = d]
  <2>1. AfterEnsure(w) = v
    BY <1>2 DEF AfterEnsure
  <2>2. d \in Domain
    BY <1>2, LiveTyped DEF CertInv, Row
  <2> HIDE DEF d
  <2>3. v \in Work /\ v.pc = "account" /\ v.job = "issue" /\ v.own = w.own /\ v.name = d
    <3>1. 0 \in 0..MaxRow /\ "issue" \in Job /\ "account" \in Waiting \cup {"idle"}
      BY RowsAssumption DEF Job, Waiting
    <3>2. QED
      BY <2>2, <3>1 DEF Work
  <2> HIDE DEF v
  <2>4. Fits(cert, v)
    BY <2>3 DEF Fits, Placed, d
  <2>5. QED
    BY <2>1, <2>3, <2>4
<1>3. CASE w.job = "default" /\ w.own \notin Live
  <2>1. AfterEnsure(w) = Idle
    BY <1>3 DEF AfterEnsure
  <2>2. w.own = 0 \/ ~Pending(cert, w.own)
    BY <1>3, RowsAssumption DEF Live, Pending, Work, Id
  <2>3. QED
    BY <2>1, <2>2, IdleWork
<1>4. QED
  BY <1>1, <1>2, <1>3

LEMMA SweepStarts ==
  ASSUME CertInv, NEW t \in Task, StartSweep(t) PROVE CertInv' /\ AllAttended /\ RowsStay
<1> DEFINE w == [Idle EXCEPT !.pc = "ensure"]
<1>1. w \in Work /\ w.pc = "ensure" /\ w.job = "sweep" /\ w.own = 0
  BY IdleWork DEF Work, Waiting, Idle
<1>2. Goto(t, w) /\ task[t].pc = "idle" /\ UNCHANGED <<cert, apex, wild>>
  BY DEF StartSweep
<1> HIDE DEF w
<1>3. Fits(cert, w)
  BY <1>1 DEF Fits, Placed
<1>4. QED
  BY <1>1, <1>2, <1>3, QuietStep

\* A mint under way has read the row the identity names.
LEMMA MintFits ==
  ASSUME CertInv, NEW w \in Work, \/ w.job = "sweep" /\ w.own = 0
                                  \/ w.job = "default"
  PROVE  LET v == [w EXCEPT !.pc = "mint", !.row = WildRow, !.name = apex]
         IN  v \in Work /\ Fits(cert, v) /\ v.own = w.own /\ v.pc = "mint"
<1> DEFINE i == WildRow
           v == [w EXCEPT !.pc = "mint", !.row = i, !.name = apex]
<1>1. i \in 0..MaxRow /\ (i # 0 => i \in Live /\ cert[i].owner = "server")
  BY WildServers DEF CertInv
<1> HIDE DEF i
<1>2. /\ v \in Work /\ v.pc = "mint" /\ v.job = w.job /\ v.own = w.own /\ v.row = i
  BY <1>1, ApexAssumption DEF Work, Waiting, CertInv
<1> HIDE DEF v
<1>3. Fits(cert, v)
  BY <1>1, <1>2 DEF Fits, Placed
<1>4. QED
  BY <1>2, <1>3 DEF v, i

LEMMA EnsureStep ==
  ASSUME CertInv, NEW t \in Task, Ensure(t) PROVE CertInv' /\ AllAttended /\ RowsStay
<1>1. /\ task[t].pc = "ensure" /\ task[t] \in Work /\ task[t].job = "sweep" /\ task[t].own = 0
      /\ UNCHANGED <<cert, apex, wild>>
  BY JobFacts DEF Ensure, Placed
<1>2. CASE Goto(t, AfterEnsure(task[t]))
  BY <1>1, <1>2, AfterEnsureFits, QuietStep
<1>3. CASE Goto(t, [task[t] EXCEPT !.pc = "mint", !.row = WildRow, !.name = apex])
  BY <1>1, <1>3, MintFits, QuietStep
<1>4. QED
  BY <1>2, <1>3 DEF Ensure, EnsureWildcard

LEMMA MintOkStep ==
  ASSUME CertInv, NEW t \in Task, MintOk(t) PROVE CertInv' /\ AllAttended /\ RowsStay
<1> DEFINE w == task[t]
           v == [w EXCEPT !.pc = "push", !.row = 0, !.name = 1]
<1>1. /\ w \in Work /\ Fits(cert, w) /\ w.pc = "mint" /\ RowsInv
      /\ w.job = "default" \/ (w.job = "sweep" /\ w.own = 0)
  BY JobFacts DEF MintOk, Placed
<1>2. v \in Work /\ v.pc = "push" /\ v.job = w.job /\ v.own = w.own
  <2>1. 1 \in Domain /\ 0 \in 0..MaxRow /\ w \in Work
    BY <1>1, ApexAssumption, RowsAssumption
  <2> HIDE DEF w
  <2>2. QED
    BY <2>1 DEF Work, Waiting
<1>3. Goto(t, v) /\ apex' = apex
  BY DEF MintOk
<1>4. Fits(cert', v)
  <2> HIDE DEF v, w
  <2>1. QED
    BY <1>1, <1>2 DEF Fits, Placed
<1>5. CASE w.row # 0
  <2>1. cert' = Saved(w.row, w.name, "pki") /\ wild' = wild
    BY <1>5 DEF MintOk
  <2>2. w.row \in Live => cert[w.row].owner = "server"
    BY <1>1, <1>5 DEF Fits, Live
  <2>3. w.row \in 0..MaxRow /\ w.name \in Domain
    BY <1>1 DEF Work
  <2> HIDE DEF v, w
  <2>4. RowsInv' /\ RowsStay /\ \A j \in Id : Pending(cert', j) => Pending(cert, j)
    BY <1>1, <2>1, <2>2, <2>3, SavedRows
  <2>5. QED
    BY <1>2, <1>3, <1>4, <2>1, <2>4, JobStep DEF CertInv, w
<1>6. CASE w.row = 0
  <2> DEFINE i == Least(UnusedAfterwards)
             m == [subject |-> w.name, left |-> Life]
             r == [NewRow("server", w.name, "pki") EXCEPT !.mat = m, !.status = "issued"]
  <2>1. i \in Id \ InUse
    BY <1>6, LeastIn DEF MintOk, UnusedAfterwards
  <2>2. wild' = i /\ cert' = [cert EXCEPT ![i] = r]
    BY <1>6 DEF MintOk
  <2>3. r \in Row /\ r.owner = "server"
    <3>1. w.name \in Domain /\ m \in Material
      BY <1>1, LifeAssumption DEF Work, Material
    <3>2. NewRow("server", w.name, "pki") \in Row /\ NewRow("server", w.name, "pki").owner = "server"
      BY <3>1 DEF NewRow, Row
    <3> DEFINE n == NewRow("server", w.name, "pki")
    <3> HIDE DEF m, n
    <3>3. QED
      BY <3>1, <3>2 DEF Row, n
  <2>4. i \in 0..MaxRow
    BY <2>1, RowsAssumption DEF Id
  <2> HIDE DEF v, w, i, r
  <2>5. RowsInv' /\ RowsStay /\ \A j \in Id : Pending(cert', j) => Pending(cert, j)
    BY <1>1, <2>1, <2>2, <2>3, NewRows
  <2>6. QED
    BY <1>2, <1>3, <1>4, <2>2, <2>4, <2>5, JobStep DEF CertInv, w
<1>7. QED
  BY <1>5, <1>6

LEMMA MintEndsStep ==
  ASSUME CertInv, NEW t \in Task, MintFail(t) \/ Pushed(t) PROVE CertInv' /\ AllAttended /\ RowsStay
<1>1. /\ task[t] \in Work /\ UNCHANGED <<cert, apex, wild>>
      /\ Goto(t, AfterEnsure(task[t])) /\ RowsInv
      /\ task[t].job = "default" \/ (task[t].job = "sweep" /\ task[t].own = 0)
  BY JobFacts DEF MintFail, Pushed, Placed
<1>2. QED
  BY <1>1, AfterEnsureFits, QuietStep

LEMMA UpgradeStep ==
  ASSUME CertInv, NEW t \in Task, Upgrade(t) PROVE CertInv' /\ AllAttended /\ RowsStay
<1>1. /\ task[t].pc = "upgrade" /\ task[t] \in Work /\ task[t].job = "sweep" /\ task[t].own = 0
      /\ UNCHANGED <<cert, apex, wild>>
  BY JobFacts DEF Upgrade, Placed
<1> DEFINE i == WildRow
           w == [task[t] EXCEPT !.pc = "probe", !.own = i, !.name = apex]
<1>2. i \in 0..MaxRow /\ (i # 0 => i \in Live /\ cert[i].owner = "server")
  BY WildServers DEF CertInv
<1>3. Goto(t, Idle) \/ Goto(t, w)
  BY DEF Upgrade, Done
<1> HIDE DEF i
<1>4. w \in Work /\ w.pc = "probe" /\ w.own = i /\ w.job = "sweep"
  BY <1>1, <1>2, ApexAssumption DEF Work, Waiting, CertInv
<1> HIDE DEF w
<1>5. Fits(cert, w)
  BY <1>2, <1>4 DEF Fits, Placed
<1>6. QED
  BY <1>1, <1>3, <1>4, <1>5, IdleWork, QuietStep

LEMMA ProbeOkStep ==
  ASSUME CertInv, NEW t \in Task, ProbeOk(t) PROVE CertInv' /\ AllAttended /\ RowsStay
<1> DEFINE w == task[t]
<1>1. w \in Work /\ Fits(cert, w) /\ w.pc = "probe" /\ w.job = "sweep" /\ RowsInv
  BY JobFacts DEF ProbeOk, Placed
<1>2. CASE w.own # 0
  <2> DEFINE v == [w EXCEPT !.pc = "account"]
  <2>1. v \in Work /\ v.pc = "account" /\ v.job = "sweep" /\ v.own = w.own
    BY <1>1 DEF Work, Waiting
  <2>2. Goto(t, v) /\ UNCHANGED <<cert, apex, wild>>
    BY <1>2 DEF ProbeOk
  <2> HIDE DEF v, w
  <2>3. Fits(cert, v)
    BY <1>1, <1>2, <2>1 DEF Fits, Placed
  <2>4. QED
    BY <2>1, <2>2, <2>3, QuietStep DEF w
<1>3. CASE w.own = 0
  <2> DEFINE i == Least(UnusedAfterwards)
             r == NewRow("server", w.name, "none")
             v == [w EXCEPT !.pc = "account", !.own = i]
  <2>1. i \in Id \ InUse
    BY <1>3, LeastIn DEF ProbeOk, UnusedAfterwards
  <2>2. wild' = i /\ cert' = [cert EXCEPT ![i] = r] /\ apex' = apex /\ Goto(t, v)
    BY <1>3 DEF ProbeOk
  <2>3. r \in Row /\ r.owner = "server"
    BY <1>1 DEF NewRow, Row, Work
  <2>4. i \in 0..MaxRow
    BY <2>1, RowsAssumption DEF Id
  <2> HIDE DEF i, r
  <2>5. v \in Work /\ v.pc = "account" /\ v.job = "sweep" /\ v.own = i
    BY <1>1, <2>4 DEF Work, Waiting
  <2> HIDE DEF v, w
  <2>6. RowsInv' /\ RowsStay /\ \A j \in Id : Pending(cert', j) => Pending(cert, j)
    BY <1>1, <2>1, <2>2, <2>3, NewRows
  <2>7. cert'[i].owner = "server"
    BY <2>1, <2>2, <2>3, <1>1 DEF RowsInv, Table
  <2>8. Fits(cert', v)
    BY <2>5, <2>7 DEF Fits, Placed
  <2>9. \A j \in Id : j # 0
    BY RowsAssumption DEF Id
  <2>10. QED
    BY <1>3, <2>2, <2>4, <2>5, <2>6, <2>8, <2>9, JobStep DEF CertInv, w
<1>4. QED
  BY <1>2, <1>3

LEMMA OfflineStep ==
  ASSUME CertInv, NEW t \in Task, Offline(t) PROVE CertInv' /\ AllAttended /\ RowsStay
<1>1. /\ task[t] \in Work /\ Fits(cert, task[t]) /\ task[t].pc = "probe"
      /\ task[t].job = "sweep" /\ Goto(t, Idle) /\ UNCHANGED <<cert, apex, wild>>
  BY JobFacts DEF Offline, Placed, Done
<1>2. task[t].own = 0 \/ ~Pending(cert, task[t].own)
  BY <1>1 DEF Fits, Pending
<1>3. QED
  BY <1>1, <1>2, IdleWork, QuietStep

LEMMA OrderStep ==
  ASSUME CertInv, NEW t \in Task, Order(t) PROVE CertInv' /\ AllAttended /\ RowsStay
<1> DEFINE w == task[t]
           v == [w EXCEPT !.pc = "order"]
<1>1. /\ w \in Work /\ Fits(cert, w) /\ w.pc = "account" /\ RowsInv
      /\ cert' = WithStatus(w.own, "issuing") /\ wild' = wild /\ apex' = apex /\ Goto(t, v)
  BY JobFacts DEF Order
<1>2. w.own \in 0..MaxRow
  BY <1>1 DEF Work
<1>3. /\ v \in Work /\ v.pc = "order" /\ v.job = w.job /\ v.own = w.own /\ v.name = w.name
      /\ v.row = w.row
  BY <1>1 DEF Work, Waiting
<1> HIDE DEF v
<1>4. /\ RowsInv' /\ RowsStay
      /\ \A j \in Id : Pending(cert', j) => Pending(cert, j) \/ j = w.own
  BY <1>1, <1>2, StatusRows
<1>5. Fits(cert', w)
  BY <1>1, <1>4, FitsStays
<1> HIDE DEF w
<1>6. Fits(cert', v)
  BY <1>1, <1>3, <1>5 DEF Fits, Placed
<1>7. QED
  BY <1>1, <1>3, <1>4, <1>6, JobStep DEF CertInv, w

LEMMA OrderedStep ==
  ASSUME CertInv, NEW t \in Task, Ordered(t) PROVE CertInv' /\ AllAttended /\ RowsStay
<1> DEFINE w == task[t]
<1>1. /\ w \in Work /\ Fits(cert, w) /\ w.pc = "order" /\ RowsInv /\ w.job \in {"sweep", "issue"}
      /\ cert' = Saved(w.own, w.name, "acme") /\ wild' = wild /\ apex' = apex /\ Goto(t, Idle)
  BY JobFacts DEF Ordered, Done, Placed
<1>2. w.own \in 0..MaxRow /\ w.name \in Domain
  BY <1>1 DEF Work
<1> HIDE DEF w
<1>3. w.own \in Live /\ cert[w.own].owner = "tenant" => cert[w.own].domain = w.name
  <2>1. w.own \in Live => w.own # 0 /\ cert[w.own] # Absent
    BY <1>1, LiveTyped DEF Live
  <2>2. QED
    BY <1>1, <2>1 DEF Fits
<1>4. /\ RowsInv' /\ RowsStay
      /\ \A j \in Id : Pending(cert', j) => Pending(cert, j) /\ j # w.own
  BY <1>1, <1>2, <1>3, SavedRows
<1>5. QED
  BY <1>1, <1>4, IdleWork, JobStep DEF CertInv, w

LEMMA IssueFailStep ==
  ASSUME CertInv, NEW t \in Task, IssueFail(t) PROVE CertInv' /\ AllAttended /\ RowsStay
<1> DEFINE w == task[t]
<1>1. /\ w \in Work /\ Fits(cert, w) /\ w.pc \in {"account", "order"} /\ RowsInv
      /\ w.job \in {"sweep", "issue"}
      /\ cert' = Recorded(w) /\ wild' = wild /\ apex' = apex /\ Goto(t, Idle)
  BY JobFacts DEF IssueFail, Done, Placed
<1>2. w.own \in 0..MaxRow
  BY <1>1 DEF Work
<1>3. CASE w.job = "issue"
  <2>1. /\ RowsInv' /\ RowsStay
        /\ \A j \in Id : Pending(cert', j) => Pending(cert, j) /\ j # w.own
    BY <1>1, <1>2, <1>3, StatusRows DEF Recorded
  <2>2. QED
    BY <1>1, <2>1, IdleWork, JobStep DEF CertInv
<1>4. CASE w.job = "sweep"
  <2>1. UNCHANGED <<cert, apex, wild>>
    BY <1>1, <1>4 DEF Recorded
  <2>2. w.own = 0 \/ ~Pending(cert, w.own)
    BY <1>1, <1>4 DEF Fits, Pending
  <2>3. QED
    BY <1>1, <2>1, <2>2, IdleWork, QuietStep
<1>5. QED
  BY <1>1, <1>3, <1>4

-----------------------------------------------------------------------------
(* The routes, time and crashes.                                           *)

LEMMA IssueJobWork ==
  ASSUME NEW i \in 0..MaxRow, NEW d \in Domain
  PROVE  /\ IssueJob(i, d) \in Work /\ IssueJob(i, d).pc = "account"
         /\ IssueJob(i, d).job = "issue" /\ IssueJob(i, d).own = i /\ IssueJob(i, d).name = d
<1>1. "issue" \in Job /\ "account" \in Waiting \cup {"idle"} /\ Idle \in Work
  BY IdleWork DEF Job, Waiting
<1>2. QED
  BY <1>1 DEF IssueJob, Work

LEMMA NewTenantRow ==
  ASSUME NEW d \in Domain, NEW s \in {"none", "pki"}
  PROVE  /\ NewRow("tenant", d, s) \in Row /\ NewRow("tenant", d, s).owner = "tenant"
         /\ NewRow("tenant", d, s).mat = NoMaterial /\ NewRow("tenant", d, s).domain = d
BY DEF NewRow, Row

LEMMA UnusedId ==
  ASSUME Unused # {}
  PROVE  Least(Unused) \in Id \ InUse /\ Least(Unused) # wild /\ Least(Unused) \in 0..MaxRow
<1>1. Unused \in SUBSET Id
  BY DEF Unused
<1>2. Least(Unused) \in Unused
  BY <1>1, LeastIn
<1>3. QED
  BY <1>1, <1>2, RowsAssumption DEF Unused, Id

LEMMA CreateStep ==
  ASSUME CertInv, NEW t \in Task, NEW d \in Domain, Create(t, d) PROVE CertInv' /\ AllAttended /\ RowsStay
<1> DEFINE i == Least(Unused)
           r == NewRow("tenant", d, "none")
           v == IssueJob(i, d)
<1>1. i \in Id \ InUse /\ i # wild /\ i \in 0..MaxRow
  BY UnusedId DEF Create, RoomForOne
<1>2. /\ cert' = [cert EXCEPT ![i] = r] /\ Goto(t, v) /\ wild' = wild /\ apex' = apex
      /\ task[t].pc = "idle"
  BY DEF Create
<1>3. r \in Row /\ r.owner = "tenant" /\ r.mat = NoMaterial /\ r.domain = d
  BY NewTenantRow
<1> HIDE DEF i, r
<1>4. v \in Work /\ v.pc = "account" /\ v.job = "issue" /\ v.own = i /\ v.name = d
  BY <1>1, IssueJobWork
<1> HIDE DEF v
<1>5. /\ RowsInv' /\ RowsStay
      /\ \A j \in Id : Pending(cert', j) => Pending(cert, j) \/ j = i
  BY <1>1, <1>2, <1>3, NewRows DEF CertInv
<1>6. cert'[i].domain = d
  BY <1>1, <1>2, <1>3 DEF CertInv, RowsInv, Table
<1>7. Fits(cert', v)
  BY <1>4, <1>6 DEF Fits, Placed
<1>8. QED
  BY <1>2, <1>4, <1>5, <1>7, JobStep DEF CertInv

LEMMA DefaultStarts ==
  ASSUME CertInv, NEW t \in Task, StartDefault(t) PROVE CertInv' /\ AllAttended /\ RowsStay
<1> DEFINE w == [Idle EXCEPT !.pc = "zone", !.job = "default", !.name = apex]
<1>1. "default" \in Job /\ "zone" \in Waiting \cup {"idle"} /\ apex \in Domain /\ Idle \in Work
  BY IdleWork, JobFacts DEF Job, Waiting
<1>2. w \in Work /\ w.pc = "zone" /\ w.job = "default" /\ w.own = 0
  BY <1>1, IdleWork DEF Work
<1>3. Goto(t, w) /\ task[t].pc = "idle" /\ UNCHANGED <<cert, apex, wild>>
  BY DEF StartDefault
<1> HIDE DEF w
<1>4. Fits(cert, w)
  BY <1>2 DEF Fits, Placed
<1>5. QED
  BY <1>2, <1>3, <1>4, QuietStep

LEMMA CreateDefaultStep ==
  ASSUME CertInv, NEW t \in Task, CreateDefault(t) PROVE CertInv' /\ AllAttended /\ RowsStay
<1> DEFINE i == Least(Unused)
           w == task[t]
           o == [w EXCEPT !.own = i]
           r == NewRow("tenant", w.name, "pki")
           v == IssueJob(i, w.name)
           k == WildRow
           m == [o EXCEPT !.pc = "mint", !.row = k, !.name = apex]
<1>1. i \in Id \ InUse /\ i # wild /\ i \in 0..MaxRow
  BY UnusedId DEF CreateDefault, RoomForOne
<1>2. /\ cert' = [cert EXCEPT ![i] = r] /\ (Goto(t, v) \/ Goto(t, m)) /\ wild' = wild
      /\ apex' = apex
  BY DEF CreateDefault, UnusedId
<1>3. /\ w \in Work /\ w.pc = "zone" /\ w.job = "default" /\ w.own = 0 /\ w.name \in Domain
  BY JobFacts DEF CreateDefault, Placed, Work
<1>4. r \in Row /\ r.owner = "tenant" /\ r.mat = NoMaterial /\ r.domain = w.name
  BY <1>3, NewTenantRow
<1>5. k \in 0..MaxRow /\ (k # 0 => k \in Live /\ cert[k].owner = "server")
  BY WildServers DEF CertInv
<1> HIDE DEF i, r, k
<1>6. v \in Work /\ v.pc = "account" /\ v.job = "issue" /\ v.own = i /\ v.name = w.name
  BY <1>1, <1>3, IssueJobWork
<1>7. m \in Work /\ m.pc = "mint" /\ m.job = "default" /\ m.own = i /\ m.row = k
  <2>1. o \in Work /\ o.job = "default" /\ o.own = i
    BY <1>1, <1>3 DEF Work
  <2>2. apex \in Domain
    BY JobFacts
  <2> HIDE DEF o
  <2>3. QED
    BY <1>5, <2>1, <2>2 DEF Work, Waiting
<1> HIDE DEF v, m, o
<1>8. /\ RowsInv' /\ RowsStay
      /\ \A j \in Id : Pending(cert', j) => Pending(cert, j) \/ j = i
  BY <1>1, <1>2, <1>4, NewRows DEF CertInv
<1>9. cert'[i].domain = w.name /\ (k # 0 => cert'[k] = cert[k])
  <2>1. k # 0 => k # i /\ k \in Id
    BY <1>1, <1>5 DEF InUse, Live
  <2>2. QED
    BY <1>1, <1>2, <1>4, <2>1 DEF CertInv, RowsInv, Table
<1>10. Fits(cert', v) /\ Fits(cert', m)
  <2>1. Fits(cert', v)
    BY <1>6, <1>9 DEF Fits, Placed
  <2>2. Fits(cert', m)
    BY <1>5, <1>7, <1>9 DEF Fits, Placed
  <2>3. QED
    BY <2>1, <2>2
<1>11. \A j \in Id : j # 0
  BY RowsAssumption DEF Id
<1> HIDE DEF w
<1>12. \A j \in Id : Pending(cert', j) => j = i \/ (Pending(cert, j) /\ task[t].own # j)
  BY <1>3, <1>8, <1>11 DEF w
<1>13. CASE Goto(t, v)
  BY <1>2, <1>6, <1>8, <1>10, <1>12, <1>13, JobStep DEF CertInv
<1>14. CASE Goto(t, m)
  BY <1>2, <1>7, <1>8, <1>10, <1>12, <1>14, JobStep DEF CertInv
<1>15. QED
  BY <1>2, <1>13, <1>14

LEMMA RenewStep ==
  ASSUME CertInv, NEW t \in Task, NEW i \in Live, Renew(t, i) PROVE CertInv' /\ AllAttended /\ RowsStay
<1> DEFINE d == cert[i].domain
           v == IssueJob(i, d)
<1>1. i \in Id /\ cert[i] \in Row /\ d \in Domain /\ i \in 0..MaxRow
  BY LiveTyped, RowsAssumption DEF CertInv, Row, Id
<1>2. /\ cert' = WithStatus(i, "issuing") /\ Goto(t, v) /\ wild' = wild /\ apex' = apex
      /\ task[t].pc = "idle"
  BY DEF Renew
<1>3. v \in Work /\ v.pc = "account" /\ v.job = "issue" /\ v.own = i /\ v.name = d
  <2> HIDE DEF d
  <2>1. QED
    BY <1>1, IssueJobWork
<1> HIDE DEF v
<1>4. /\ RowsInv' /\ RowsStay
      /\ \A j \in Id : Pending(cert', j) => Pending(cert, j) \/ j = i
  BY <1>1, <1>2, StatusRows DEF CertInv
<1>5. cert'[i] # Absent => cert'[i].domain = d
  BY <1>1, <1>4 DEF RowsStay, InUse
<1>6. Fits(cert', v)
  BY <1>3, <1>5 DEF Fits, Placed
<1>7. QED
  BY <1>2, <1>3, <1>4, <1>6, JobStep DEF CertInv

\* A step of none of the jobs.
LEMMA OutsideStep ==
  ASSUME CertInv, task' = task, RowsInv', RowsStay, apex' \in Apex, wild' \in 0..MaxRow,
         \A i \in Id : Pending(cert', i) => Pending(cert, i)
  PROVE  CertInv' /\ AllAttended /\ RowsStay
<1>1. JobsInv'
  BY FitsStays DEF CertInv, JobsInv
<1>2. AllAttended
  BY DEF AllAttended, Attended, Pending, Live
<1>3. QED
  BY <1>1, <1>2 DEF CertInv

LEMMA DeleteStep ==
  ASSUME CertInv, NEW i \in Live, Delete(i) PROVE CertInv' /\ AllAttended /\ RowsStay
<1>1. /\ cert \in Table /\ i \in Id /\ cert' = [cert EXCEPT ![i] = Absent]
      /\ UNCHANGED <<apex, wild, task>>
  BY LiveTyped DEF CertInv, RowsInv, Delete
<1>2. /\ cert' \in Table /\ cert'[i] = Absent
      /\ \A j : j # i => cert'[j] = cert[j] 
  BY <1>1 DEF Table
<1>3. RowsInv'
  BY <1>1, <1>2 DEF CertInv, RowsInv
<1>4. RowsStay /\ \A j \in Id : Pending(cert', j) => Pending(cert, j)
  BY <1>2 DEF RowsStay, Pending
<1>5. QED
  BY <1>1, <1>3, <1>4, OutsideStep DEF CertInv

LEMMA ChangeStep ==
  ASSUME CertInv, NEW a \in Apex, ChangeIdentity(a) PROVE CertInv' /\ AllAttended /\ RowsStay
<1>1. RowsInv' /\ RowsStay /\ \A i \in Id : Pending(cert', i) <=> Pending(cert, i)
  BY Unwritten DEF CertInv, ChangeIdentity
<1>2. QED
  BY <1>1, OutsideStep DEF CertInv, ChangeIdentity

LEMMA TickStep ==
  ASSUME CertInv, Tick PROVE CertInv' /\ AllAttended /\ RowsStay
<1>1. ASSUME NEW i \in Live
      PROVE  /\ cert'[i] \in Row /\ cert'[i].owner = cert[i].owner
             /\ cert'[i].domain = cert[i].domain /\ cert'[i].status = cert[i].status
             /\ cert'[i].mat # NoMaterial =>
                  cert[i].mat # NoMaterial /\ cert'[i].mat.subject = cert[i].mat.subject
  <2> DEFINE m == cert[i].mat
             n == Older(m)
             r == [cert[i] EXCEPT !.mat = n]
  <2>1. i \in Id /\ cert[i] \in Row /\ m \in Material \cup {NoMaterial}
    BY LiveTyped DEF CertInv, Row
  <2>2. cert'[i] = r
    BY <2>1 DEF Tick
  <2> HIDE DEF m
  <2>3. /\ n \in Material \cup {NoMaterial} /\ n.subject = m.subject
        /\ n # NoMaterial => m # NoMaterial
    <3>1. CASE m = NoMaterial
      BY <3>1 DEF Older, NoMaterial
    <3>2. CASE m \in Material /\ m # NoMaterial
      <4>1. m.left \in 0..Life /\ m.subject \in Domain
        BY <3>2 DEF Material
      <4>2. m.left > 0 => m.left - 1 \in 0..Life
        BY <4>1, LifeAssumption
      <4> DEFINE l == m.left - 1
      <4>3. n = IF m.left > 0 THEN [m EXCEPT !.left = l] ELSE m
        BY DEF Older
      <4>4. m.left > 0 => l \in 0..Life
        BY <4>2
      <4> HIDE DEF l, n
      <4>5. QED
        BY <3>2, <4>3, <4>4 DEF Material
    <3>3. QED
      BY <2>1, <3>1, <3>2
  <2> HIDE DEF n
  <2>4. QED
    BY <2>1, <2>2, <2>3 DEF Row, m
<1>2. /\ cert' = [i \in Id |-> IF i \in Live THEN [cert[i] EXCEPT !.mat = Older(@)] ELSE Absent]
      /\ UNCHANGED <<apex, wild, task>>
  BY DEF Tick
<1>3. \A i \in Id : i \notin Live => cert'[i] = Absent
  BY <1>2
<1>4. \A i \in Id : cert'[i] \in Row \cup {Absent}
  BY <1>1, <1>3
<1>5. cert' \in Table
  BY <1>2, <1>4 DEF Table
<1>6. \A i \in Id : i \in Live => cert[i] # Absent
  BY DEF Live
<1>7. wild \in 0..MaxRow /\ wild # 0 => wild \in Id
  BY RowsAssumption DEF Id
<1>8. RowsInv'
  <2>1. ASSUME NEW i \in Id, cert'[i] # Absent
        PROVE  /\ i \in Live /\ cert[i] # Absent /\ cert'[i].owner = cert[i].owner
               /\ cert'[i].domain = cert[i].domain
               /\ cert'[i].mat # NoMaterial =>
                    cert[i].mat # NoMaterial /\ cert'[i].mat.subject = cert[i].mat.subject
    BY <1>1, <1>3, <1>6, <2>1
  <2>2. ASSUME NEW i \in Id, cert'[i] # Absent, cert'[i].owner = "tenant", cert'[i].mat # NoMaterial
        PROVE  cert'[i].mat.subject = cert'[i].domain
    BY <2>1, <2>2 DEF CertInv, RowsInv
  <2>3. wild' # 0 /\ cert'[wild'] # Absent => cert'[wild'].owner = "server"
    BY <1>2, <1>7, <2>1 DEF CertInv, RowsInv
  <2>4. QED
    BY <1>5, <2>2, <2>3 DEF RowsInv
<1>9. RowsStay /\ \A j \in Id : Pending(cert', j) => Pending(cert, j)
  BY <1>1, <1>3, <1>6 DEF RowsStay, Pending
<1>10. QED
  BY <1>2, <1>8, <1>9, OutsideStep DEF CertInv

LEMMA RestartStep == ASSUME CertInv, Restart PROVE CertInv' /\ RowsStay
<1> DEFINE w == [Idle EXCEPT !.pc = "ensure"]
<1>1. w \in Work /\ w.pc = "ensure" /\ w.job = "sweep" /\ w.own = 0
  BY IdleWork DEF Work, Waiting, Idle
<1>2. /\ task' = [t \in Task |-> IF t = Timer THEN w ELSE Idle]
      /\ apex' = Configured[apex] /\ UNCHANGED <<cert, wild>>
  BY DEF Restart
<1> HIDE DEF w
<1>3. \A c : Fits(c, w)
  BY <1>1 DEF Fits, Placed
<1>4. RowsInv' /\ RowsStay /\ apex' \in Apex
  BY <1>2, Unwritten, ApexAssumption DEF CertInv
<1>5. task' \in [Task -> Work] /\ JobsInv'
  BY <1>1, <1>2, <1>3, IdleWork DEF JobsInv
<1>6. QED
  BY <1>2, <1>4, <1>5 DEF CertInv

-----------------------------------------------------------------------------
(* The theorems.                                                           *)

LEMMA CertInit == Init => CertInv
<1> SUFFICES ASSUME Init PROVE CertInv
  OBVIOUS
<1> DEFINE w == [Idle EXCEPT !.pc = "ensure"]
<1>1. w \in Work /\ w.pc = "ensure" /\ w.job = "sweep" /\ w.own = 0
  BY IdleWork DEF Work, Waiting, Idle
<1>2. task = [t \in Task |-> IF t = Timer THEN w ELSE Idle]
  BY DEF Init
<1> HIDE DEF w
<1>3. \A c : Fits(c, w)
  BY <1>1 DEF Fits, Placed
<1>4. task \in [Task -> Work] /\ JobsInv
  BY <1>1, <1>2, <1>3, IdleWork DEF JobsInv
<1>5. RowsInv /\ apex \in Apex /\ wild \in 0..MaxRow
  BY ApexAssumption, RowsAssumption DEF Init, RowsInv, Table
<1>6. QED
  BY <1>4, <1>5 DEF CertInv

LEMMA CertNext ==
  ASSUME CertInv, [Next]_vars
  PROVE  CertInv' /\ RowsStay /\ (Restart \/ AllAttended)
<1>1. CASE \E t \in Task : Advance(t)
  BY <1>1, EnsureStep, MintOkStep, MintEndsStep, UpgradeStep, ProbeOkStep, OfflineStep,
     OrderStep, OrderedStep, IssueFailStep, CreateDefaultStep DEF Advance, Proceed
<1>2. CASE Outside
  BY <1>2, SweepStarts, CreateStep, DefaultStarts, RenewStep, DeleteStep, ChangeStep,
     RestartStep DEF Outside, User
<1>3. CASE Tick
  BY <1>3, TickStep
<1>4. CASE UNCHANGED vars
  <2>1. RowsInv' /\ RowsStay /\ \A i \in Id : Pending(cert', i) <=> Pending(cert, i)
    BY <1>4, Unwritten DEF CertInv, vars
  <2>2. QED
    BY <1>4, <2>1, OutsideStep DEF CertInv, vars
<1>5. QED
  BY <1>1, <1>2, <1>3, <1>4 DEF Next

\* The rows stay fit for what the jobs carry, as long as the program runs.
THEOREM CertificatesInvariant == Spec => []CertInv
<1>1. CertInv /\ [Next]_vars => CertInv'
  BY CertNext
<1>2. QED
  BY <1>1, CertInit, PTL DEF Spec

\* Every reachable state is well typed.
THEOREM TypeCorrect == Spec => []TypeOK
<1>1. CertInv => TypeOK
  BY DEF CertInv, RowsInv, Table, TypeOK
<1>2. QED
  BY <1>1, CertificatesInvariant, PTL

\* A tenant's row never holds material for another name, and the identity never
\* points at a tenant's row.
THEOREM TenantsGetTheirOwn == Spec => []TenantRowsFit
<1>1. CertInv => TenantRowsFit
  <2> SUFFICES ASSUME CertInv PROVE TenantRowsFit
    OBVIOUS
  <2>1. \A i \in Live : i \in Id /\ i # 0 /\ cert[i] # Absent
    BY LiveTyped DEF CertInv, Live
  <2>2. QED
    BY <2>1 DEF CertInv, RowsInv, TenantRowsFit
<1>2. QED
  BY <1>1, CertificatesInvariant, PTL

\* While the process lives, a tenant's row in state "issuing" has a job.
THEOREM IssuingRowsHaveJobs == Spec => IssuingIsAttended
<1>1. CertInv /\ [Next]_vars => [Restart \/ \A i \in Id : Attended(i) => Attended(i)']_vars
  BY CertNext DEF AllAttended
<1>2. QED
  BY <1>1, CertificatesInvariant, PTL DEF Spec, IssuingIsAttended

-----------------------------------------------------------------------------
(* Names that were left (WildcardNames).                                   *)

\* A row of the server's is for a name the server had, and holds material for
\* another one only once the server has left the row's.  f: the names left.
Sound(c, a, f, i) ==
  c[i] # Absent /\ c[i].owner = "server" =>
    /\ c[i].domain \in f \cup {a}
    /\ c[i].mat # NoMaterial => c[i].mat.subject = c[i].domain \/ c[i].domain \in f

\* A mint or an upgrade is for a name the server had, and its row for the same
\* one or one that was left.
Named(c, a, f, w) ==
  /\ w.pc = "mint" =>
       /\ w.name \in f \cup {a}
       /\ w.row # 0 /\ c[w.row] # Absent => c[w.row].domain \in f \cup {w.name}
  /\ w.pc \in {"probe", "account", "order"} /\ w.job = "sweep" =>
       /\ w.name \in f \cup {a}
       /\ w.own # 0 /\ c[w.own] # Absent => c[w.own].domain \in f \cup {w.name}

NamesInv ==
  /\ \A i \in Id : Sound(cert, apex, former, i)
  /\ \A t \in Task : Named(cert, apex, former, task[t])

\* A row that names what it named before.
SameNames(i) ==
  cert'[i] # Absent =>
    /\ cert[i] # Absent /\ cert'[i].owner = cert[i].owner /\ cert'[i].domain = cert[i].domain
    /\ cert'[i].mat # NoMaterial =>
         cert[i].mat # NoMaterial /\ cert'[i].mat.subject = cert[i].mat.subject

\* The names left stay left, and so is the present one once it gives way.
Kept == former \subseteq former' /\ apex \in former' \cup {apex'}

LEMMA SoundStays ==
  ASSUME NEW i, Sound(cert, apex, former, i), SameNames(i), Kept
  PROVE  Sound(cert', apex', former', i)
<1>1. CASE cert'[i] # Absent /\ cert'[i].owner = "server"
  <2>1. /\ cert'[i].domain \in former \cup {apex}
        /\ cert'[i].mat # NoMaterial =>
             cert'[i].mat.subject = cert'[i].domain \/ cert'[i].domain \in former
    BY <1>1 DEF Sound, SameNames
  <2>2. QED
    BY <2>1, <1>1 DEF Sound, Kept
<1>2. QED
  BY <1>1 DEF Sound

LEMMA NamedStays ==
  ASSUME RowsStay, NEW t \in Task, task[t] \in Work, Named(cert, apex, former, task[t]), Kept
  PROVE  Named(cert', apex', former', task[t])
<1> DEFINE w == task[t]
<1>1. w.row \in InUse /\ w.own \in InUse /\ w.row \in 0..MaxRow /\ w.own \in 0..MaxRow
  BY DEF InUse, Work
<1>2. \A i \in 0..MaxRow : i # 0 => i \in Id
  BY RowsAssumption DEF Id
<1> HIDE DEF w
<1>3. Named(cert, apex, former, w)
  BY DEF w
<1>4. \A i \in {w.row, w.own} : i # 0 /\ cert'[i] # Absent =>
        cert[i] # Absent /\ cert'[i].domain = cert[i].domain
  BY <1>1, <1>2 DEF RowsStay
<1>5. Named(cert', apex', former', w)
  BY <1>3, <1>4 DEF Named, Kept
<1>6. QED
  BY <1>5 DEF w

\* A step of one job under an identity that stays.
LEMMA NamesStep ==
  ASSUME CertInv, NamesInv, NEW t \in Task, NEW w, Goto(t, w), RowsStay, UNCHANGED <<apex, former>>,
         \A i \in Id : SameNames(i) \/ Sound(cert', apex, former, i), Named(cert', apex, former, w)
  PROVE  NamesInv'
<1>0. Kept /\ task \in [Task -> Work]
  BY DEF CertInv, Kept
<1>1. \A i \in Id : Sound(cert', apex', former', i)
  BY <1>0, SoundStays DEF NamesInv
<1>2. task'[t] = w /\ \A u \in Task \ {t} : task'[u] = task[u]
  BY <1>0 DEF Goto
<1>3. \A u \in Task : Named(cert', apex', former', task'[u])
  BY <1>0, <1>2, NamedStays DEF NamesInv, CertInv
<1>4. QED
  BY <1>1, <1>3 DEF NamesInv

\* Steps in which no row changes its names and a job goes to where no name matters.
LEMMA PlainNames ==
  ASSUME CertInv, NamesInv, NEW t \in Task, NEW w, Goto(t, w), RowsStay, UNCHANGED <<apex, former>>,
         \A i \in Id : SameNames(i) \/ Sound(cert', apex, former, i), w.pc # "mint",
         w.pc \in {"probe", "account", "order"} => w.job # "sweep"
  PROVE  NamesInv'
<1>1. Named(cert', apex, former, w)
  BY DEF Named
<1>2. QED
  BY <1>1, NamesStep

LEMMA SameIfUnchanged == ASSUME cert' = cert PROVE \A i \in Id : SameNames(i)
BY DEF SameNames

LEMMA SameIfStatus ==
  ASSUME RowsInv, NEW i, NEW s, cert' = WithStatus(i, s) PROVE \A j \in Id : SameNames(j)
<1>1. CASE i \notin Live
  BY <1>1, SameIfUnchanged DEF WithStatus
<1>2. CASE i \in Live
  <2>1. cert' = [cert EXCEPT ![i].status = s] /\ cert[i] \in Row /\ i \in Id /\ cert \in Table
    BY <1>2, LiveTyped DEF WithStatus, RowsInv
  <2> DEFINE r == [cert[i] EXCEPT !.status = s]
  <2>2. cert' = [cert EXCEPT ![i] = r]
    BY <2>1 DEF Table
  <2>3. r.owner = cert[i].owner /\ r.domain = cert[i].domain /\ r.mat = cert[i].mat
    BY <2>1 DEF Row
  <2> HIDE DEF r
  <2>4. cert'[i] = r /\ (\A j \in Id \ {i} : cert'[j] = cert[j]) /\ cert[i] # Absent
    BY <1>2, <2>1, <2>2 DEF Table, Live
  <2>5. QED
    BY <2>3, <2>4 DEF SameNames
<1>3. QED
  BY <1>1, <1>2

\* Material saved on a row of the server's, for the row's name or once that was left.
LEMMA SavedNames ==
  ASSUME RowsInv, \A j \in Id : Sound(cert, apex, former, j),
         NEW i, NEW d, NEW s, cert' = Saved(i, d, s),
         i \in Live /\ cert[i].owner = "server" =>
           cert[i].domain \in former \cup {d}
  PROVE  \A j \in Id : SameNames(j) \/ Sound(cert', apex, former, j)
<1>1. CASE i \notin Live
  BY <1>1, SameIfUnchanged DEF Saved
<1>2. CASE i \in Live
  <2>1. cert[i] \in Row /\ i \in Id /\ cert \in Table /\ cert[i] # Absent
    BY <1>2, LiveTyped DEF RowsInv, Live
  <2> DEFINE m == [subject |-> d, left |-> Life]
             r == [cert[i] EXCEPT !.mat = m, !.status = "issued", !.source = s]
  <2>2. cert' = [cert EXCEPT ![i] = r]
    BY <1>2, <2>1 DEF Saved, Table
  <2>3. m.subject = d
    OBVIOUS
  <2> HIDE DEF m
  <2>4. r.owner = cert[i].owner /\ r.domain = cert[i].domain /\ r.mat = m
    BY <2>1 DEF Row
  <2> HIDE DEF r
  <2>5. cert'[i] = r /\ (\A j \in Id \ {i} : cert'[j] = cert[j])
    BY <2>1, <2>2 DEF Table
  <2>6. Sound(cert', apex, former, i)
    <3> SUFFICES ASSUME cert[i].owner = "server"
                 PROVE  /\ r.domain \in former \cup {apex}
                        /\ r.mat # NoMaterial => r.mat.subject = r.domain \/ r.domain \in former
      BY <2>4, <2>5 DEF Sound
    <3> DEFINE e == cert[i].domain
    <3>1. e \in former \cup {apex}
      BY <2>1 DEF Sound
    <3>2. e = d \/ e \in former
      BY <1>2
    <3> HIDE DEF e
    <3>3. QED
      BY <2>3, <2>4, <3>1, <3>2 DEF e
  <2>7. \A j \in Id \ {i} : SameNames(j)
    BY <2>5 DEF SameNames
  <2>8. QED
    BY <2>6, <2>7
<1>3. QED
  BY <1>1, <1>2

LEMMA NewNames ==
  ASSUME RowsInv, NEW i \in Id \ InUse, NEW r, cert' = [cert EXCEPT ![i] = r],
         r.owner = "server" =>
           r.domain \in former \cup {apex} /\ (r.mat # NoMaterial => r.mat.subject = r.domain)
  PROVE  \A j \in Id : SameNames(j) \/ Sound(cert', apex, former, j)
<1>1. cert'[i] = r /\ \A j \in Id \ {i} : cert'[j] = cert[j]
  BY DEF RowsInv, Table
<1>2. Sound(cert', apex, former, i)
  BY <1>1 DEF Sound
<1>3. \A j \in Id \ {i} : SameNames(j)
  BY <1>1 DEF SameNames
<1>4. QED
  BY <1>2, <1>3

LEMMA NewRowParts ==
  ASSUME NEW o, NEW d, NEW s
  PROVE  /\ NewRow(o, d, s).owner = o /\ NewRow(o, d, s).domain = d
         /\ NewRow(o, d, s).mat = NoMaterial
BY DEF NewRow

\* The row the identity names is for a name it had.
LEMMA WildNamed ==
  ASSUME CertInv, NamesInv
  PROVE  WildRow # 0 /\ cert[WildRow] # Absent => cert[WildRow].domain \in former \cup {apex}
<1>1. WildRow # 0 => WildRow \in Id /\ WildRow \in Live /\ cert[WildRow].owner = "server"
  BY WildServers, LiveTyped DEF CertInv
<1>2. QED
  BY <1>1 DEF NamesInv, Sound

LEMMA NamesNext ==
  ASSUME CertInv, NamesInv, [Next /\ Left]_namesVars
  PROVE  NamesInv'
<1>0. /\ RowsStay /\ RowsInv /\ (\A i \in Id : Sound(cert, apex, former, i))
      /\ (\A t \in Task : task[t] \in Work) /\ Kept /\ (apex' = apex => former' = former)
      /\ [Next]_vars
  <2>1. [Next]_vars /\ Kept /\ (apex' = apex => former' = former)
    BY DEF Left, Kept, namesVars, vars
  <2>2. QED
    BY <2>1, CertNext DEF CertInv, NamesInv, JobsInv
<1>1. ASSUME NEW t \in Task, NEW w, Goto(t, w), UNCHANGED <<cert, apex>>, w.pc # "mint",
             w.pc \in {"probe", "account", "order"} => w.job # "sweep"
      PROVE  NamesInv'
  BY <1>0, <1>1, SameIfUnchanged, PlainNames
<1>2. ASSUME NEW t \in Task, NEW w, Goto(t, w), apex' = apex,
             \A i \in Id : SameNames(i) \/ Sound(cert', apex, former, i),
             w.pc \in {"idle", "push"} \/ w.job = "issue", w.pc # "mint"
      PROVE  NamesInv'
  <2>1. w.pc \in {"probe", "account", "order"} => w.job # "sweep"
    BY <1>2
  <2>2. QED
    BY <1>0, <1>2, <2>1, PlainNames
<1>3. ASSUME NEW t \in Task, StartSweep(t) PROVE NamesInv'
  <2> DEFINE w == [Idle EXCEPT !.pc = "ensure"]
  <2>1. w.pc = "ensure" /\ Goto(t, w) /\ UNCHANGED <<cert, apex>>
    BY <1>3 DEF StartSweep, Idle
  <2> HIDE DEF w
  <2>2. QED
    BY <1>1, <2>1
<1>4. ASSUME NEW t \in Task, NEW w \in Work, Goto(t, AfterEnsure(w)), UNCHANGED <<cert, apex>>,
             \/ w.job = "sweep" /\ w.own = 0
             \/ w.job = "default"
      PROVE  NamesInv'
  BY <1>1, <1>4, AfterEnsureFits
<1>5. ASSUME NEW t \in Task, NEW w \in Work, RowsInv', apex' = apex,
             \A i \in Id : SameNames(i) \/ Sound(cert', apex, former, i),
             cert'[WildRow] = cert[WildRow] \/ WildRow = 0,
             Goto(t, [w EXCEPT !.pc = "mint", !.row = WildRow, !.name = apex])
      PROVE  NamesInv'
  <2> DEFINE k == WildRow
             v == [w EXCEPT !.pc = "mint", !.row = k, !.name = apex]
  <2>1. v.pc = "mint" /\ v.row = k /\ v.name = apex /\ Goto(t, v)
    BY <1>5 DEF Work
  <2>2. k # 0 /\ cert'[k] # Absent => cert'[k].domain \in former \cup {apex}
    BY <1>5, WildNamed
  <2> HIDE DEF v, k
  <2>3. Named(cert', apex, former, v)
    BY <1>0, <2>1, <2>2 DEF Named
  <2>4. QED
    BY <1>0, <1>5, <2>1, <2>3, NamesStep
<1>6. ASSUME NEW t \in Task, Ensure(t) PROVE NamesInv'
  <2>1. /\ task[t] \in Work /\ UNCHANGED <<cert, apex>> /\ RowsInv'
        /\ task[t].job = "sweep" /\ task[t].own = 0
    BY <1>0, <1>6, JobFacts, CertNext DEF Ensure, Placed, CertInv
  <2>2. CASE Goto(t, AfterEnsure(task[t]))
    BY <1>4, <2>1, <2>2
  <2>3. CASE Goto(t, [task[t] EXCEPT !.pc = "mint", !.row = WildRow, !.name = apex])
    BY <1>5, <2>1, <2>3, SameIfUnchanged
  <2>4. QED
    BY <1>6, <2>2, <2>3 DEF Ensure, EnsureWildcard
<1>7. ASSUME NEW t \in Task, MintOk(t) PROVE NamesInv'
  <2> DEFINE w == task[t]
             v == [w EXCEPT !.pc = "push", !.row = 0, !.name = 1]
  <2>1. w \in Work /\ Fits(cert, w) /\ Named(cert, apex, former, w) /\ w.pc = "mint"
    BY <1>7, JobFacts DEF MintOk, NamesInv
  <2>2. v.pc = "push" /\ Goto(t, v) /\ apex' = apex
    BY <1>7, <2>1 DEF MintOk, Work
  <2> HIDE DEF v
  <2>3. CASE w.row # 0
    <3>1. cert' = Saved(w.row, w.name, "pki")
      BY <1>7, <2>3 DEF MintOk
    <3> HIDE DEF w
    <3>2. w.row \in Live => cert[w.row].domain \in former \cup {w.name}
      BY <2>1, <2>3 DEF Named, Live
    <3>3. \A i \in Id : SameNames(i) \/ Sound(cert', apex, former, i)
      BY <1>0, <3>1, <3>2, SavedNames
    <3>4. QED
      BY <1>2, <2>2, <3>3
  <2>4. CASE w.row = 0
    <3> DEFINE i == Least(UnusedAfterwards)
               m == [subject |-> w.name, left |-> Life]
               n == NewRow("server", w.name, "pki")
               r == [n EXCEPT !.mat = m, !.status = "issued"]
    <3>1. i \in Id \ InUse
      BY <1>7, <2>4, LeastIn DEF MintOk, UnusedAfterwards
    <3>2. cert' = [cert EXCEPT ![i] = r]
      BY <1>7, <2>4 DEF MintOk
    <3>3. r.domain = w.name /\ r.mat = m /\ m.subject = w.name
      BY DEF NewRow
    <3> HIDE DEF w, i, r, m
    <3>4. w.name \in former \cup {apex}
      BY <2>1 DEF Named
    <3>5. \A j \in Id : SameNames(j) \/ Sound(cert', apex, former, j)
      BY <1>0, <3>1, <3>2, <3>3, <3>4, NewNames
    <3>6. QED
      BY <1>2, <2>2, <3>5
  <2>5. QED
    BY <2>3, <2>4
<1>8. ASSUME NEW t \in Task, MintFail(t) \/ Pushed(t) PROVE NamesInv'
  <2>1. /\ task[t] \in Work /\ UNCHANGED <<cert, apex>> /\ Goto(t, AfterEnsure(task[t]))
        /\ task[t].job = "default" \/ (task[t].job = "sweep" /\ task[t].own = 0)
    BY <1>8, JobFacts DEF MintFail, Pushed, Placed
  <2>2. QED
    BY <1>4, <2>1
<1>9. ASSUME NEW t \in Task, Upgrade(t) PROVE NamesInv'
  <2> DEFINE k == WildRow
             w == [task[t] EXCEPT !.pc = "probe", !.own = k, !.name = apex]
  <2>1. w.pc = "probe" /\ w.own = k /\ w.name = apex /\ UNCHANGED <<cert, apex>>
    BY <1>0, <1>9 DEF Upgrade, Work
  <2>2. Goto(t, Idle) \/ Goto(t, w)
    BY <1>9 DEF Upgrade, Done
  <2>3. k # 0 /\ cert[k] # Absent => cert[k].domain \in former \cup {apex}
    BY WildNamed
  <2> HIDE DEF k, w
  <2>4. Named(cert', apex, former, w)
    BY <1>0, <2>1, <2>3 DEF Named
  <2>5. QED
    BY <1>0, <1>1, <2>1, <2>2, <2>4, NamesStep, SameIfUnchanged, IdleWork
<1>10. ASSUME NEW t \in Task, ProbeOk(t) PROVE NamesInv'
  <2> DEFINE w == task[t]
  <2>1. /\ w \in Work /\ Named(cert, apex, former, w) /\ w.pc = "probe" /\ w.job = "sweep"
    BY <1>10, JobFacts DEF ProbeOk, NamesInv, Placed
  <2>2. CASE w.own # 0
    <3> DEFINE v == [w EXCEPT !.pc = "account"]
    <3>1. v.pc = "account" /\ v.own = w.own /\ v.name = w.name
      BY <2>1 DEF Work
    <3>2. Goto(t, v) /\ UNCHANGED <<cert, apex>>
      BY <1>10, <2>2 DEF ProbeOk
    <3> HIDE DEF v, w
    <3>3. Named(cert', apex, former, v)
      BY <2>1, <3>1, <3>2 DEF Named
    <3>4. QED
      BY <1>0, <3>2, <3>3, NamesStep, SameIfUnchanged
  <2>3. CASE w.own = 0
    <3> DEFINE i == Least(UnusedAfterwards)
               r == NewRow("server", w.name, "none")
               v == [w EXCEPT !.pc = "account", !.own = i]
    <3>1. i \in Id \ InUse
      BY <1>10, <2>3, LeastIn DEF ProbeOk, UnusedAfterwards
    <3>2. cert' = [cert EXCEPT ![i] = r] /\ apex' = apex /\ Goto(t, v)
      BY <1>10, <2>3 DEF ProbeOk
    <3>3. r.domain = w.name /\ r.mat = NoMaterial
      BY NewRowParts
    <3>4. w.name \in former \cup {apex}
      BY <2>1 DEF Named
    <3> HIDE DEF i, r
    <3>5. v.pc = "account" /\ v.own = i /\ v.name = w.name
      BY <2>1 DEF Work
    <3> HIDE DEF v, w
    <3>6. \A j \in Id : SameNames(j) \/ Sound(cert', apex, former, j)
      BY <1>0, <3>1, <3>2, <3>3, <3>4, NewNames
    <3>7. cert'[i].domain = w.name
      BY <1>0, <3>1, <3>2, <3>3 DEF RowsInv, Table
    <3>8. Named(cert', apex, former, v)
      BY <3>4, <3>5, <3>7 DEF Named
    <3>9. QED
      BY <1>0, <3>2, <3>6, <3>8, NamesStep
  <2>4. QED
    BY <2>2, <2>3
<1>11. ASSUME NEW t \in Task, Offline(t) PROVE NamesInv'
  BY <1>1, <1>11, IdleWork DEF Offline, Done
<1>12. ASSUME NEW t \in Task, Order(t) PROVE NamesInv'
  <2> DEFINE w == task[t]
             v == [w EXCEPT !.pc = "order"]
  <2>1. w \in Work /\ Named(cert, apex, former, w) /\ w.pc = "account"
    BY <1>12, JobFacts DEF Order, NamesInv
  <2>2. Goto(t, v) /\ cert' = WithStatus(w.own, "issuing") /\ apex' = apex
    BY <1>12 DEF Order
  <2>3. v.pc = "order" /\ v.own = w.own /\ v.name = w.name /\ v.job = w.job
    BY <2>1 DEF Work
  <2>4. Named(cert', apex, former, w)
    BY <1>0, <2>1, <2>2, NamedStays
  <2> HIDE DEF v, w
  <2>5. Named(cert', apex, former, v)
    BY <2>1, <2>3, <2>4 DEF Named
  <2>6. QED
    BY <1>0, <2>2, <2>5, SameIfStatus, NamesStep
<1>13. ASSUME NEW t \in Task, Ordered(t) PROVE NamesInv'
  <2> DEFINE w == task[t]
  <2>1. /\ w \in Work /\ Fits(cert, w) /\ Named(cert, apex, former, w) /\ w.pc = "order"
        /\ w.job \in {"sweep", "issue"}
    BY <1>13, JobFacts DEF Ordered, NamesInv, Placed
  <2>2. Goto(t, Idle) /\ cert' = Saved(w.own, w.name, "acme") /\ apex' = apex
    BY <1>13 DEF Ordered, Done
  <2> HIDE DEF w
  <2>3. w.own \in Live => w.own # 0 /\ cert[w.own] # Absent
    BY <1>0, LiveTyped DEF Live
  <2>4. w.own \in Live /\ cert[w.own].owner = "server" =>
          cert[w.own].domain \in former \cup {w.name}
    BY <2>1, <2>3 DEF Fits, Named
  <2>5. \A i \in Id : SameNames(i) \/ Sound(cert', apex, former, i)
    BY <1>0, <2>2, <2>4, SavedNames
  <2>6. QED
    BY <1>2, <2>2, <2>5, IdleWork
<1>14. ASSUME NEW t \in Task, IssueFail(t) PROVE NamesInv'
  <2>1. Goto(t, Idle) /\ apex' = apex /\ cert' \in {cert, WithStatus(task[t].own, "error")}
    BY <1>14 DEF IssueFail, Done, Recorded
  <2>2. \A i \in Id : SameNames(i)
    BY <1>0, <2>1, SameIfUnchanged, SameIfStatus
  <2>3. QED
    BY <1>2, <2>1, <2>2, IdleWork
<1>15. ASSUME NEW t \in Task, NEW d \in Domain, Create(t, d) PROVE NamesInv'
  <2> DEFINE i == Least(Unused)
             r == NewRow("tenant", d, "none")
  <2>1. i \in Id \ InUse /\ i \in 0..MaxRow
    BY <1>15, UnusedId DEF Create, RoomForOne
  <2>2. cert' = [cert EXCEPT ![i] = r] /\ Goto(t, IssueJob(i, d)) /\ apex' = apex
    BY <1>15 DEF Create
  <2>3. r.owner # "server"
    BY NewRowParts
  <2> HIDE DEF i, r
  <2>4. IssueJob(i, d).pc = "account" /\ IssueJob(i, d).job = "issue"
    BY <2>1, IssueJobWork
  <2>5. QED
    BY <1>0, <1>2, <2>1, <2>2, <2>3, <2>4, NewNames
<1>16. ASSUME NEW t \in Task, StartDefault(t) PROVE NamesInv'
  <2> DEFINE w == [Idle EXCEPT !.pc = "zone", !.job = "default", !.name = apex]
  <2>1. w.pc = "zone" /\ Goto(t, w) /\ UNCHANGED <<cert, apex>>
    BY <1>16 DEF StartDefault, Idle
  <2> HIDE DEF w
  <2>2. QED
    BY <1>1, <2>1
<1>17. ASSUME NEW t \in Task, CreateDefault(t) PROVE NamesInv'
  <2> DEFINE i == Least(Unused)
             w == task[t]
             o == [w EXCEPT !.own = i]
             r == NewRow("tenant", w.name, "pki")
  <2>1. i \in Id \ InUse /\ i \in 0..MaxRow
    BY <1>17, UnusedId DEF CreateDefault, RoomForOne
  <2>2. cert' = [cert EXCEPT ![i] = r] /\ apex' = apex
    BY <1>17 DEF CreateDefault
  <2>3. \/ Goto(t, IssueJob(i, w.name))
        \/ Goto(t, [o EXCEPT !.pc = "mint", !.row = WildRow, !.name = apex])
    BY <1>17 DEF CreateDefault
  <2>4. w \in Work /\ w.name \in Domain
    BY <1>0 DEF Work
  <2>5. r.owner # "server"
    BY NewRowParts
  <2> HIDE DEF i, r
  <2>6. o \in Work
    BY <2>1, <2>4 DEF Work
  <2> HIDE DEF o
  <2>7. IssueJob(i, w.name).pc = "account" /\ IssueJob(i, w.name).job = "issue"
    BY <2>1, <2>4, IssueJobWork
  <2>8. \A j \in Id : SameNames(j) \/ Sound(cert', apex, former, j)
    BY <1>0, <2>1, <2>2, <2>5, NewNames
  <2>9. RowsInv' /\ (cert'[WildRow] = cert[WildRow] \/ WildRow = 0)
    <3>1. WildRow # 0 => WildRow \in Live
      BY <1>0, WildServers DEF CertInv
    <3>2. WildRow # 0 => WildRow # i /\ WildRow \in Id
      BY <1>0, <2>1, <3>1, LiveTyped DEF InUse
    <3>3. QED
      BY <1>0, <2>1, <2>2, <3>2, CertNext DEF RowsInv, Table, CertInv
  <2> HIDE DEF w
  <2>10. CASE Goto(t, IssueJob(i, w.name))
    BY <1>2, <2>2, <2>7, <2>8, <2>10
  <2>11. CASE Goto(t, [o EXCEPT !.pc = "mint", !.row = WildRow, !.name = apex])
    BY <1>5, <2>2, <2>6, <2>8, <2>9, <2>11
  <2>12. QED
    BY <2>3, <2>10, <2>11
<1>18. ASSUME NEW t \in Task, NEW i \in Live, Renew(t, i) PROVE NamesInv'
  <2> DEFINE d == cert[i].domain
  <2>1. i \in 0..MaxRow /\ d \in Domain
    BY <1>0, LiveTyped, RowsAssumption DEF Row, Id
  <2>2. cert' = WithStatus(i, "issuing") /\ Goto(t, IssueJob(i, d)) /\ apex' = apex
    BY <1>18 DEF Renew
  <2> HIDE DEF d
  <2>3. IssueJob(i, d).pc = "account" /\ IssueJob(i, d).job = "issue"
    BY <2>1, IssueJobWork
  <2>4. QED
    BY <1>0, <1>2, <2>2, <2>3, SameIfStatus
<1>19. ASSUME task' = task, \A i \in Id : SameNames(i)
       PROVE  NamesInv'
  BY <1>0, <1>19, SoundStays, NamedStays DEF NamesInv
<1>20. ASSUME NEW i \in Live, Delete(i) PROVE NamesInv'
  <2>1. \A j \in Id : SameNames(j)
    BY <1>0, <1>20 DEF Delete, SameNames, RowsInv, Table
  <2>2. QED
    BY <1>0, <1>19, <1>20, <2>1 DEF Delete
<1>21. ASSUME NEW a \in Apex, ChangeIdentity(a) PROVE NamesInv'
  BY <1>19, <1>21, SameIfUnchanged DEF ChangeIdentity
<1>22. CASE Restart
  <2> DEFINE w == [Idle EXCEPT !.pc = "ensure"]
  <2>1. w.pc = "ensure"
    BY DEF Idle
  <2>2. /\ task' = [t \in Task |-> IF t = Timer THEN w ELSE Idle]
        /\ cert' = cert
    BY <1>22 DEF Restart
  <2> HIDE DEF w
  <2>3. \A t \in Task : Named(cert', apex', former', task'[t])
    BY <2>1, <2>2, IdleWork DEF Named
  <2>4. \A i \in Id : Sound(cert', apex', former', i)
    BY <1>0, <2>2, SameIfUnchanged, SoundStays
  <2>5. QED
    BY <2>3, <2>4 DEF NamesInv
<1>23. CASE Tick
  <2>1. ASSUME NEW i \in Id PROVE SameNames(i)
    <3>1. CASE i \in Live
      <4> DEFINE m == cert[i].mat
                 n == Older(m)
                 r == [cert[i] EXCEPT !.mat = n]
      <4>1. cert'[i] = r /\ cert[i] \in Row /\ cert[i] # Absent
        BY <1>0, <1>23, <3>1, LiveTyped DEF Tick, Live
      <4>2. m \in Material \cup {NoMaterial}
        BY <4>1 DEF Row
      <4> HIDE DEF m
      <4>3. n.subject = m.subject /\ (n # NoMaterial => m # NoMaterial)
        BY <4>2 DEF Older, Material, NoMaterial
      <4> HIDE DEF n
      <4>4. r.owner = cert[i].owner /\ r.domain = cert[i].domain /\ r.mat = n
        BY <4>1 DEF Row
      <4> HIDE DEF r
      <4>5. QED
        BY <4>1, <4>3, <4>4 DEF SameNames, m
    <3>2. CASE i \notin Live
      BY <1>23, <3>2 DEF Tick, SameNames
    <3>3. QED
      BY <3>1, <3>2
  <2>2. QED
    BY <1>0, <1>19, <1>23, <2>1 DEF Tick
<1>24. CASE UNCHANGED namesVars
  BY <1>0, <1>19, <1>24, SameIfUnchanged DEF namesVars, vars
<1>25. CASE \E t \in Task : Advance(t)
  BY <1>6, <1>7, <1>8, <1>9, <1>10, <1>11, <1>12, <1>13, <1>14, <1>17, <1>25 DEF Advance, Proceed
<1>26. CASE Outside
  BY <1>3, <1>15, <1>16, <1>18, <1>20, <1>21, <1>22, <1>26 DEF Outside, User
<1>27. QED
  BY <1>23, <1>24, <1>25, <1>26 DEF Next

\* A wildcard that is kept is for the name of the moment, except on a server that
\* has come back to a name it had left: nothing else, no late job and no restart,
\* makes KeptWildcardCoversApex false.
THEOREM MissesOnlyByReturn == NamesSpec => []MissesOnlyOnReturn
<1>1. Init /\ former = {} => CertInv /\ NamesInv
  <2> SUFFICES ASSUME Init, former = {} PROVE CertInv /\ NamesInv
    OBVIOUS
  <2> DEFINE w == [Idle EXCEPT !.pc = "ensure"]
  <2>1. w.pc = "ensure" /\ task = [t \in Task |-> IF t = Timer THEN w ELSE Idle]
    BY DEF Init, Idle
  <2> HIDE DEF w
  <2>2. \A t \in Task : Named(cert, apex, former, task[t])
    BY <2>1, IdleWork DEF Named
  <2>3. QED
    BY <2>2, CertInit DEF Init, NamesInv, Sound
<1>2. CertInv /\ NamesInv /\ [Next /\ Left]_namesVars => CertInv' /\ NamesInv'
  <2> SUFFICES ASSUME CertInv, NamesInv, [Next /\ Left]_namesVars PROVE CertInv' /\ NamesInv'
    OBVIOUS
  <2>1. [Next]_vars
    BY DEF namesVars
  <2>2. QED
    BY <2>1, CertNext, NamesNext
<1>3. CertInv /\ NamesInv => MissesOnlyOnReturn
  <2> SUFFICES ASSUME CertInv, NamesInv, WildRow # 0, Reusable(WildRow),
                      cert[WildRow].mat.subject # apex
               PROVE  apex \in former
    BY DEF MissesOnlyOnReturn
  <2> DEFINE i == WildRow
  <2>1. i \in Id /\ cert[i] # Absent /\ cert[i].owner = "server"
    BY WildServers, LiveTyped DEF CertInv, Live
  <2>2. Sound(cert, apex, former, i) /\ cert[i].mat # NoMaterial /\ cert[i].domain = apex
    BY <2>1 DEF NamesInv, Reusable
  <2>3. QED
    BY <2>1, <2>2 DEF Sound
<1>4. QED
  BY <1>1, <1>2, <1>3, PTL DEF NamesSpec

-----------------------------------------------------------------------------
(* The wildcard against the clock.                                         *)

Lasts(c, i, n) == c[i] # Absent /\ c[i].mat # NoMaterial => c[i].mat.left > n

Base(s) == IF s THEN KeepFor ELSE 0
Margin(s) == IF s THEN KeepFor + 1 ELSE KeepFor

\* The wildcard outlasts the tick that may come, and when the timer is about to
\* leave ensureWildcardPki, having minted, the one that comes after it, too.
UpkeepInv ==
  /\ swept \in BOOLEAN
  /\ task[Timer].job = "sweep"
  /\ \A i \in Id : i = wild =>
       /\ Lasts(cert, i, Base(swept))
       /\ task[Timer].pc = "push" => Lasts(cert, i, Margin(swept))
       /\ task[Timer].pc = "mint" /\ i # task[Timer].row => Lasts(cert, i, Margin(swept))

\* What the row the identity names holds, it held before, or it is new.
HeldOrNew(i) ==
  cert'[i] # Absent /\ cert'[i].mat # NoMaterial =>
    \/ cert'[i].mat.left = Life
    \/ cert[i] # Absent /\ cert'[i].mat = cert[i].mat
WildStays == \A i \in Id : i = wild' =>
  HeldOrNew(i) /\ (wild' = wild \/ Lasts(cert', i, Life - 1))

\* What the timer's job does next.
TimerMoves ==
  \/ task'[Timer] = task[Timer]
  \/ /\ task[Timer].pc = "ensure" /\ task'[Timer].pc = "mint"
     /\ task'[Timer].row = WildRow /\ UNCHANGED <<cert, wild>>
  \/ /\ task[Timer].pc = "ensure" /\ task'[Timer].pc = "upgrade"
     /\ WildRow # 0 /\ Reusable(WildRow) /\ UNCHANGED <<cert, wild>>
  \/ /\ task[Timer].pc = "mint" /\ task'[Timer].pc = "push"
     /\ wild' = wild /\ task[Timer].row = wild /\ wild \in Id => Lasts(cert', wild, Life - 1)
  \/ task[Timer].pc = "push" /\ task'[Timer].pc = "upgrade" /\ UNCHANGED <<cert, wild>>
  \/ task[Timer].pc \notin {"ensure", "push"} /\ task'[Timer].pc \notin {"mint", "push"}
  \/ task'[Timer].pc = "ensure"

LEMMA HeldIfUnchanged ==
  ASSUME cert' = cert, wild' = wild PROVE WildStays
BY DEF WildStays, HeldOrNew

LEMMA HeldIfStatus ==
  ASSUME RowsInv, NEW i, NEW s, cert' = WithStatus(i, s), wild' = wild PROVE WildStays
<1>1. CASE i \notin Live
  BY <1>1, HeldIfUnchanged DEF WithStatus
<1>2. CASE i \in Live
  <2>1. cert' = [cert EXCEPT ![i].status = s] /\ cert[i] \in Row /\ i \in Id /\ cert \in Table
    BY <1>2, LiveTyped DEF WithStatus, RowsInv
  <2> DEFINE r == [cert[i] EXCEPT !.status = s]
  <2>2. cert' = [cert EXCEPT ![i] = r]
    BY <2>1 DEF Table
  <2>3. r.mat = cert[i].mat
    BY <2>1 DEF Row
  <2> HIDE DEF r
  <2>4. cert'[i] = r /\ (\A j \in Id \ {i} : cert'[j] = cert[j]) /\ cert[i] # Absent
    BY <1>2, <2>1, <2>2 DEF Table, Live
  <2>5. QED
    BY <2>3, <2>4 DEF WildStays, HeldOrNew
<1>3. QED
  BY <1>1, <1>2

LEMMA LifeLeft == Life \in Nat /\ KeepFor \in Nat /\ Life > Life - 1
BY LifeAssumption

LEMMA HeldIfSaved ==
  ASSUME RowsInv, NEW i, NEW d, NEW s, cert' = Saved(i, d, s), wild' = wild
  PROVE  WildStays /\ (i \in Id => Lasts(cert', i, Life - 1))
<1>1. CASE i \notin Live
  <2>1. cert' = cert
    BY <1>1 DEF Saved
  <2>2. i \in Id => cert'[i] = Absent
    BY <1>1, <2>1 DEF Live
  <2>3. QED
    BY <2>1, <2>2, HeldIfUnchanged DEF Lasts
<1>2. CASE i \in Live
  <2>1. cert[i] \in Row /\ i \in Id /\ cert \in Table /\ cert[i] # Absent
    BY <1>2, LiveTyped DEF RowsInv, Live
  <2> DEFINE m == [subject |-> d, left |-> Life]
             r == [cert[i] EXCEPT !.mat = m, !.status = "issued", !.source = s]
  <2>2. cert' = [cert EXCEPT ![i] = r]
    BY <1>2, <2>1 DEF Saved, Table
  <2>3. m.left = Life
    OBVIOUS
  <2> HIDE DEF m
  <2>4. r.mat = m
    BY <2>1 DEF Row
  <2> HIDE DEF r
  <2>5. cert'[i] = r /\ (\A j \in Id \ {i} : cert'[j] = cert[j])
    BY <2>1, <2>2 DEF Table
  <2>6. QED
    BY <2>1, <2>3, <2>4, <2>5, LifeLeft DEF WildStays, HeldOrNew, Lasts
<1>3. QED
  BY <1>1, <1>2

\* A row put in, which the identity names then, or does not.
LEMMA HeldIfNew ==
  ASSUME RowsInv, NEW i \in Id \ InUse, NEW r,
         r.mat = NoMaterial \/ r.mat.left = Life,
         cert' = [cert EXCEPT ![i] = r], wild' = wild \/ wild' = i
  PROVE  WildStays
<1>1. cert'[i] = r /\ \A j \in Id \ {i} : cert'[j] = cert[j]
  BY DEF RowsInv, Table
<1>2. HeldOrNew(i) /\ Lasts(cert', i, Life - 1)
  BY <1>1, LifeLeft DEF HeldOrNew, Lasts
<1>3. \A j \in Id \ {i} : HeldOrNew(j)
  BY <1>1 DEF HeldOrNew
<1>4. QED
  BY <1>2, <1>3 DEF WildStays

LEMMA ProceedKeeps == ASSUME CertInv, NEW t \in Task, Proceed(t) PROVE WildStays
<1>1. RowsInv
  BY DEF CertInv
<1>2. CASE Ensure(t) \/ Pushed(t) \/ Upgrade(t) \/ Offline(t)
  <2>1. cert' = cert /\ wild' = wild
    BY <1>2 DEF Ensure, Pushed, Upgrade, Offline
  <2>2. QED
    BY <2>1, HeldIfUnchanged
<1>3. CASE MintOk(t)
  <2> DEFINE w == task[t]
  <2>1. CASE w.row # 0
    <3>1. cert' = Saved(w.row, w.name, "pki") /\ wild' = wild
      BY <1>3, <2>1 DEF MintOk
    <3>2. QED
      BY <1>1, <3>1, HeldIfSaved
  <2>2. CASE w.row = 0
    <3> DEFINE i == Least(UnusedAfterwards)
               m == [subject |-> w.name, left |-> Life]
               n == NewRow("server", w.name, "pki")
               r == [n EXCEPT !.mat = m, !.status = "issued"]
    <3>1. i \in Id \ InUse
      BY <1>3, <2>2, LeastIn DEF MintOk, UnusedAfterwards
    <3>2. wild' = i /\ cert' = [cert EXCEPT ![i] = r]
      BY <1>3, <2>2 DEF MintOk
    <3>3. r.mat = m /\ m.left = Life
      BY DEF NewRow
    <3> HIDE DEF i, r, m
    <3>4. QED
      BY <1>1, <3>1, <3>2, <3>3, HeldIfNew
  <2>3. QED
    BY <2>1, <2>2
<1>4. CASE ProbeOk(t)
  <2> DEFINE w == task[t]
  <2>1. CASE w.own # 0
    <3>1. cert' = cert /\ wild' = wild
      BY <1>4, <2>1 DEF ProbeOk
    <3>2. QED
      BY <3>1, HeldIfUnchanged
  <2>2. CASE w.own = 0
    <3> DEFINE i == Least(UnusedAfterwards)
               r == NewRow("server", w.name, "none")
    <3>1. i \in Id \ InUse
      BY <1>4, <2>2, LeastIn DEF ProbeOk, UnusedAfterwards
    <3>2. wild' = i /\ cert' = [cert EXCEPT ![i] = r]
      BY <1>4, <2>2 DEF ProbeOk
    <3>3. r.mat = NoMaterial
      BY NewRowParts
    <3> HIDE DEF i, r
    <3>4. QED
      BY <1>1, <3>1, <3>2, <3>3, HeldIfNew
  <2>3. QED
    BY <2>1, <2>2
<1>5. CASE Order(t)
  BY <1>1, <1>5, HeldIfStatus DEF Order
<1>6. CASE Ordered(t)
  BY <1>1, <1>6, HeldIfSaved DEF Ordered
<1>7. CASE IssueFail(t)
  BY <1>1, <1>7, HeldIfStatus, HeldIfUnchanged DEF IssueFail, Recorded
<1>8. CASE CreateDefault(t)
  <2> DEFINE i == Least(Unused)
             r == NewRow("tenant", task[t].name, "pki")
  <2>1. i \in Id \ InUse
    BY <1>8, UnusedId DEF CreateDefault, RoomForOne
  <2>2. cert' = [cert EXCEPT ![i] = r] /\ wild' = wild
    BY <1>8 DEF CreateDefault
  <2>3. r.mat = NoMaterial
    BY NewRowParts
  <2> HIDE DEF i, r
  <2>4. QED
    BY <1>1, <2>1, <2>2, <2>3, HeldIfNew
<1>9. QED
  BY <1>2, <1>3, <1>4, <1>5, <1>6, <1>7, <1>8 DEF Proceed

LEMMA OutsideKeeps == ASSUME CertInv, Outside PROVE WildStays
<1>1. RowsInv
  BY DEF CertInv
<1>2. ASSUME NEW t \in Task, NEW d \in Domain, Create(t, d) PROVE WildStays
  <2> DEFINE i == Least(Unused)
             r == NewRow("tenant", d, "none")
  <2>1. i \in Id \ InUse
    BY <1>2, UnusedId DEF Create, RoomForOne
  <2>2. cert' = [cert EXCEPT ![i] = r] /\ wild' = wild
    BY <1>2 DEF Create
  <2>3. r.mat = NoMaterial
    BY NewRowParts
  <2> HIDE DEF i, r
  <2>4. QED
    BY <1>1, <2>1, <2>2, <2>3, HeldIfNew
<1>3. ASSUME NEW t \in Task, StartSweep(t) \/ StartDefault(t) PROVE WildStays
  BY <1>3, HeldIfUnchanged DEF StartSweep, StartDefault
<1>4. ASSUME NEW t \in Task, NEW i \in Live, Renew(t, i) PROVE WildStays
  BY <1>1, <1>4, HeldIfStatus DEF Renew
<1>5. ASSUME NEW i \in Live, Delete(i) PROVE WildStays
  <2>1. cert'[i] = Absent /\ (\A j \in Id \ {i} : cert'[j] = cert[j]) /\ wild' = wild
    BY <1>1, <1>5, LiveTyped DEF Delete, RowsInv, Table
  <2>2. QED
    BY <2>1 DEF WildStays, HeldOrNew
<1>6. ASSUME (\E a \in Apex : ChangeIdentity(a)) \/ Restart PROVE WildStays
  BY <1>6, HeldIfUnchanged DEF ChangeIdentity, Restart
<1>7. QED
  BY <1>2, <1>3, <1>4, <1>5, <1>6 DEF Outside, User

\* The timer's job is a sweep, and goes on as one.
LEMMA TimerProceeds ==
  ASSUME CertInv, task[Timer].job = "sweep", Proceed(Timer)
  PROVE  TimerMoves /\ task'[Timer].job = "sweep"
<1> DEFINE w == task[Timer]
<1>1. w \in Work /\ Placed(w) /\ RowsInv /\ Timer \in Task
  BY JobFacts, TimerAssumption
<1>2. ASSUME NEW v, Goto(Timer, v) PROVE task'[Timer] = v
  BY <1>1, <1>2 DEF Goto, CertInv
<1>3. /\ AfterEnsure(w) = [w EXCEPT !.pc = "upgrade", !.row = 0, !.name = 1]
      /\ AfterEnsure(w).pc = "upgrade" /\ AfterEnsure(w).job = "sweep"
  BY <1>1 DEF AfterEnsure, Work
<1>4. Idle.pc = "idle" /\ Idle.job = "sweep"
  BY DEF Idle
<1>5. CASE Ensure(Timer)
  <2>1. w.pc = "ensure" /\ UNCHANGED <<cert, wild>> /\ task'[Timer] = EnsureWildcard(w)
    BY <1>2, <1>5 DEF Ensure
  <2>2. CASE WildRow # 0 /\ Reusable(WildRow)
    BY <1>3, <2>1, <2>2 DEF EnsureWildcard, TimerMoves
  <2>3. CASE ~(WildRow # 0 /\ Reusable(WildRow))
    <3> DEFINE k == WildRow
               v == [w EXCEPT !.pc = "mint", !.row = k, !.name = apex]
    <3>1. task'[Timer] = v
      BY <2>1, <2>3 DEF EnsureWildcard
    <3>2. v.pc = "mint" /\ v.row = k /\ v.job = "sweep"
      BY <1>1 DEF Work
    <3>3. QED
      BY <2>1, <3>1, <3>2 DEF TimerMoves
  <2>4. QED
    BY <2>2, <2>3
<1>6. CASE MintOk(Timer)
  <2> DEFINE v == [w EXCEPT !.pc = "push", !.row = 0, !.name = 1]
  <2>1. w.pc = "mint" /\ task'[Timer] = v
    BY <1>2, <1>6 DEF MintOk
  <2>2. v.pc = "push" /\ v.job = "sweep"
    BY <1>1 DEF Work
  <2>3. ASSUME w.row = wild, wild' = wild, wild \in Id PROVE Lasts(cert', wild, Life - 1)
    <3>1. w.row # 0
      BY <2>3, RowsAssumption DEF Id
    <3>2. cert' = Saved(w.row, w.name, "pki")
      BY <1>6, <3>1 DEF MintOk
    <3>3. Lasts(cert', w.row, Life - 1)
      BY <1>1, <2>3, <3>2, HeldIfSaved
    <3>4. QED
      BY <2>3, <3>3 DEF Lasts
  <2>4. QED
    BY <2>1, <2>2, <2>3 DEF TimerMoves
<1>7. CASE Pushed(Timer)
  <2>1. w.pc = "push" /\ UNCHANGED <<cert, wild>> /\ task'[Timer] = AfterEnsure(w)
    BY <1>2, <1>7 DEF Pushed
  <2>2. QED
    BY <1>3, <2>1 DEF TimerMoves
<1>8. ASSUME w.pc \notin {"ensure", "push"}, task'[Timer].pc \notin {"mint", "push"},
             task'[Timer].job = "sweep"
      PROVE  TimerMoves /\ task'[Timer].job = "sweep"
  BY <1>8 DEF TimerMoves
<1>9. CASE Upgrade(Timer)
  <2> DEFINE k == WildRow
             v == [w EXCEPT !.pc = "probe", !.own = k, !.name = apex]
  <2>1. w.pc = "upgrade" /\ (task'[Timer] = Idle \/ task'[Timer] = v)
    BY <1>2, <1>9 DEF Upgrade, Done
  <2>2. v.pc = "probe" /\ v.job = "sweep"
    BY <1>1 DEF Work
  <2>3. QED
    BY <1>4, <1>8, <2>1, <2>2
<1>10. CASE ProbeOk(Timer)
  <2> DEFINE i == wild'
             u == [w EXCEPT !.pc = "account"]
             v == [w EXCEPT !.pc = "account", !.own = i]
  <2>1. w.pc = "probe" /\ (task'[Timer] = u \/ task'[Timer] = v)
    BY <1>2, <1>10 DEF ProbeOk
  <2>2. u.pc = "account" /\ u.job = "sweep" /\ v.pc = "account" /\ v.job = "sweep"
    BY <1>1 DEF Work
  <2>3. QED
    BY <1>8, <2>1, <2>2
<1>11. CASE Offline(Timer) \/ Ordered(Timer) \/ IssueFail(Timer)
  <2>1. w.pc \in {"probe", "account", "order"} /\ task'[Timer] = Idle
    BY <1>2, <1>11 DEF Offline, Ordered, IssueFail, Done
  <2>2. QED
    BY <1>4, <1>8, <2>1
<1>12. CASE Order(Timer)
  <2> DEFINE v == [w EXCEPT !.pc = "order"]
  <2>1. w.pc = "account" /\ task'[Timer] = v
    BY <1>2, <1>12 DEF Order
  <2>2. v.pc = "order" /\ v.job = "sweep"
    BY <1>1 DEF Work
  <2>3. QED
    BY <1>8, <2>1, <2>2
<1>13. CASE CreateDefault(Timer)
  BY <1>1, <1>13 DEF CreateDefault, Placed
<1>14. QED
  BY <1>5, <1>6, <1>7, <1>9, <1>10, <1>11, <1>12, <1>13 DEF Proceed

\* Another job leaves the timer's alone.
LEMMA OthersMove ==
  ASSUME CertInv, Timer \in Task, NEW t \in Task \ {Timer}, Proceed(t) \/ StartSweep(t) \/ User(t)
  PROVE  task'[Timer] = task[Timer]
<1>1. ASSUME NEW v, Goto(t, v) PROVE task'[Timer] = task[Timer]
  BY <1>1 DEF Goto, CertInv
<1>2. \E v : Goto(t, v)
  BY DEF Proceed, Ensure, MintOk, Pushed, Upgrade, ProbeOk, Offline, Order, Ordered, IssueFail,
         CreateDefault, StartSweep, User, Create, StartDefault, Renew, Done
<1>3. QED
  BY <1>1, <1>2

LEMMA StepsMove ==
  ASSUME CertInv, task[Timer].job = "sweep", (\E t \in Task : Proceed(t)) \/ Outside
  PROVE  WildStays /\ TimerMoves /\ task'[Timer].job = "sweep"
<1>1. Timer \in Task /\ (task' = task => TimerMoves /\ task'[Timer].job = "sweep")
  BY TimerAssumption DEF TimerMoves
<1>2. ASSUME task'[Timer] = task[Timer] PROVE TimerMoves /\ task'[Timer].job = "sweep"
  BY <1>2 DEF TimerMoves
<1>3. ASSUME NEW t \in Task, Proceed(t) PROVE WildStays /\ TimerMoves /\ task'[Timer].job = "sweep"
  <2>1. CASE t = Timer
    BY <1>3, <2>1, ProceedKeeps, TimerProceeds
  <2>2. CASE t # Timer
    BY <1>1, <1>2, <1>3, <2>2, ProceedKeeps, OthersMove
  <2>3. QED
    BY <2>1, <2>2
<1>4. ASSUME Outside PROVE TimerMoves /\ task'[Timer].job = "sweep"
  <2> DEFINE w == [Idle EXCEPT !.pc = "ensure"]
  <2>1. w.pc = "ensure" /\ w.job = "sweep"
    BY DEF Idle
  <2>2. ASSUME task'[Timer] = w PROVE TimerMoves /\ task'[Timer].job = "sweep"
    BY <2>1, <2>2 DEF TimerMoves
  <2>3. CASE StartSweep(Timer)
    <3>1. task'[Timer] = w
      BY <1>1, <2>3 DEF StartSweep, Goto, CertInv
    <3>2. QED
      BY <2>2, <3>1
  <2>4. CASE Restart
    <3>1. task'[Timer] = w
      BY <1>1, <2>4 DEF Restart
    <3>2. QED
      BY <2>2, <3>1
  <2>5. ASSUME NEW t \in Task \ {Timer}, StartSweep(t) \/ User(t) PROVE task'[Timer] = task[Timer]
    BY <1>1, <2>5, OthersMove
  <2>6. CASE (\E i \in Live : Delete(i)) \/ (\E a \in Apex : ChangeIdentity(a))
    BY <1>1, <2>6 DEF Delete, ChangeIdentity
  <2>7. QED
    BY <1>2, <1>4, <2>3, <2>4, <2>5, <2>6 DEF Outside
<1>5. QED
  BY <1>3, <1>4, OutsideKeeps

\* A new certificate outlasts both margins, and a round of the timer's turns the
\* one into the other.
LEMMA Margins ==
  ASSUME KeepFor >= 1, Life > KeepFor + 1, NEW s \in BOOLEAN
  PROVE  /\ Base(s) \in 0..(Life - 1) /\ Margin(s) \in 0..(Life - 1) /\ Life - 1 \in Nat
         /\ Base(s) <= Margin(s) /\ Base(TRUE) <= Margin(s)
         /\ Margin(FALSE) = Base(TRUE) /\ Base(TRUE) = KeepFor /\ Base(FALSE) = 0
         /\ Margin(TRUE) = KeepFor + 1
BY LifeAssumption DEF Base, Margin

\* Ticks left are a number.
LEMMA LeftNat ==
  ASSUME NEW c \in Table, NEW i \in Id, c[i] # Absent PROVE c[i].mat.left \in Nat
<1> DEFINE m == c[i].mat
<1>1. m \in Material \cup {NoMaterial}
  BY DEF Table, Row
<1> HIDE DEF m
<1>2. m.left \in Nat
  BY <1>1, LifeAssumption DEF Material, NoMaterial
<1>3. QED
  BY <1>2 DEF m

LEMMA LastsLess ==
  ASSUME NEW c \in Table, NEW i \in Id, NEW m \in Nat, NEW n \in Nat, m <= n, Lasts(c, i, n)
  PROVE  Lasts(c, i, m)
BY LeftNat DEF Lasts

LEMMA UpkeepStep ==
  ASSUME KeepFor >= 1, Life > KeepFor + 1, CertInv, UpkeepInv, [UpkeepNext]_upkeepVars, CertInv'
  PROVE  UpkeepInv'
<1>1. cert \in Table /\ cert' \in Table
  BY DEF CertInv, RowsInv
<1>2. swept \in BOOLEAN /\ task[Timer].job = "sweep"
  BY DEF UpkeepInv
<1>3. ASSUME NEW i \in Id, i = wild
      PROVE  /\ Lasts(cert, i, Base(swept))
             /\ task[Timer].pc = "push" => Lasts(cert, i, Margin(swept))
             /\ task[Timer].pc = "mint" /\ i # task[Timer].row => Lasts(cert, i, Margin(swept))
  BY <1>3 DEF UpkeepInv
<1>4. CASE UNCHANGED upkeepVars
  BY <1>4 DEF upkeepVars, vars, UpkeepInv
<1>5. CASE ((\E t \in Task : Proceed(t)) \/ Outside) /\ swept' = (swept \/ Ensured)
  <2>1. WildStays /\ TimerMoves /\ task'[Timer].job = "sweep"
    BY <1>2, <1>5, StepsMove
  <2>2. ASSUME NEW i \in Id, i = wild', NEW n \in 0..(Life - 1), wild = i => Lasts(cert, i, n)
        PROVE  Lasts(cert', i, n)
    <3>1. HeldOrNew(i) /\ (wild' = wild \/ Lasts(cert', i, Life - 1))
      BY <2>1, <2>2 DEF WildStays
    <3>2. n \in Nat /\ n <= Life - 1 /\ Life - 1 \in Nat /\ Life > n
      BY <2>2, LifeAssumption
    <3>3. CASE wild' = wild
      BY <2>2, <3>1, <3>2, <3>3 DEF HeldOrNew, Lasts
    <3>4. CASE Lasts(cert', i, Life - 1)
      BY <1>1, <3>2, <3>4, LastsLess
    <3>5. QED
      BY <3>1, <3>3, <3>4
  <2>3. swept' \in BOOLEAN
    BY <1>2, <1>5
  <2> SUFFICES ASSUME NEW i \in Id, i = wild'
               PROVE  /\ Lasts(cert', i, Base(swept'))
                      /\ task'[Timer].pc = "push" => Lasts(cert', i, Margin(swept'))
                      /\ task'[Timer].pc = "mint" /\ i # task'[Timer].row
                           => Lasts(cert', i, Margin(swept'))
    BY <2>1, <2>3 DEF UpkeepInv
  <2>4. ASSUME swept' = swept PROVE Lasts(cert', i, Base(swept'))
    BY <1>2, <1>3, <2>2, <2>4, Margins
  <2>5. ASSUME wild = i => Lasts(cert, i, Margin(swept)), swept' = swept
        PROVE  Lasts(cert', i, Margin(swept'))
    BY <1>2, <2>2, <2>5, Margins
  <2>6. CASE task'[Timer] = task[Timer]
    <3>1. swept' = swept
      BY <1>2, <1>5, <2>6 DEF Ensured
    <3>2. QED
      BY <1>3, <2>4, <2>5, <2>6, <3>1
  <2>7. CASE /\ task[Timer].pc = "ensure" /\ task'[Timer].pc = "mint"
             /\ task'[Timer].row = WildRow /\ UNCHANGED <<cert, wild>>
    <3>1. swept' = swept
      BY <1>2, <1>5, <2>7 DEF Ensured
    <3>2. i # WildRow => cert'[i] = Absent
      BY <2>7 DEF WildRow, Live
    <3>3. QED
      BY <2>4, <2>7, <3>1, <3>2 DEF Lasts
  <2>8. CASE /\ task[Timer].pc = "ensure" /\ task'[Timer].pc = "upgrade"
             /\ WildRow # 0 /\ Reusable(WildRow) /\ UNCHANGED <<cert, wild>>
    <3>1. swept' = TRUE
      BY <1>5, <2>8 DEF Ensured
    <3>2. i = WildRow /\ cert'[i].mat.left > KeepFor
      BY <2>8 DEF WildRow, Reusable
    <3>3. QED
      BY <1>2, <2>8, <3>1, <3>2, Margins DEF Lasts
  <2>9. CASE /\ task[Timer].pc = "mint" /\ task'[Timer].pc = "push"
             /\ wild' = wild /\ task[Timer].row = wild /\ wild \in Id => Lasts(cert', wild, Life - 1)
    <3>1. swept' = swept
      BY <1>2, <1>5, <2>9 DEF Ensured
    <3>2. Lasts(cert', i, Margin(swept'))
      <4>1. CASE wild = i /\ task[Timer].row = i
        <5> DEFINE m == Margin(swept')
        <5>1. Lasts(cert', i, Life - 1)
          BY <2>9, <4>1
        <5>2. m \in Nat /\ Life - 1 \in Nat /\ m <= Life - 1
          BY <3>1, LifeAssumption DEF m, Margin
        <5> HIDE DEF m
        <5>3. Lasts(cert', i, m)
          BY <1>1, <5>1, <5>2, LastsLess
        <5>4. QED
          BY <5>3 DEF m
      <4>2. CASE wild = i => i # task[Timer].row
        BY <1>3, <2>5, <2>9, <3>1, <4>2
      <4>3. QED
        BY <4>1, <4>2
    <3>3. QED
      BY <2>4, <2>9, <3>1, <3>2
  <2>10. CASE task[Timer].pc = "push" /\ task'[Timer].pc = "upgrade" /\ UNCHANGED <<cert, wild>>
    <3>1. swept' = TRUE
      BY <1>5, <2>10 DEF Ensured
    <3>2. Lasts(cert, i, Margin(swept))
      BY <1>3, <2>10
    <3>3. Lasts(cert, i, Base(TRUE))
      <4> DEFINE m == Margin(swept)
                 b == Base(TRUE)
      <4>1. m \in Nat /\ b \in Nat /\ b <= m /\ Lasts(cert, i, m)
        BY <3>2, LifeAssumption DEF Base, Margin
      <4> HIDE DEF m, b
      <4>2. Lasts(cert, i, b)
        BY <1>1, <4>1, LastsLess
      <4>3. QED
        BY <4>2 DEF b
    <3>4. QED
      BY <2>10, <3>1, <3>3
  <2>11. CASE \/ task[Timer].pc \notin {"ensure", "push"} /\ task'[Timer].pc \notin {"mint", "push"}
              \/ task'[Timer].pc = "ensure"
    <3>1. swept' = swept
      BY <1>2, <1>5, <2>11 DEF Ensured
    <3>2. QED
      BY <2>4, <2>11, <3>1
  <2>12. QED
    BY <2>1, <2>6, <2>7, <2>8, <2>9, <2>10, <2>11 DEF TimerMoves
<1>6. CASE swept /\ Tick /\ swept' = FALSE
  <2>1. task' = task /\ wild' = wild
    BY <1>6 DEF Tick
  <2>2. ASSUME NEW i \in Id, NEW n \in Nat, n > 0, Lasts(cert, i, n) PROVE Lasts(cert', i, n - 1)
    <3> SUFFICES ASSUME cert'[i] # Absent, cert'[i].mat # NoMaterial PROVE cert'[i].mat.left > n - 1
      BY DEF Lasts
    <3>1. i \in Live
      BY <1>6 DEF Tick
    <3> DEFINE m == cert[i].mat
               o == Older(m)
               l == m.left - 1
    <3>2. cert[i] # Absent /\ cert[i] \in Row /\ m.left \in Nat
      BY <1>1, <3>1, LiveTyped, LeftNat DEF Live, CertInv
    <3>3. m \in Material \cup {NoMaterial}
      BY <3>2 DEF Row
    <3>4. cert'[i] = [cert[i] EXCEPT !.mat = o]
      BY <1>6, <3>1 DEF Tick
    <3> HIDE DEF m, o
    <3>5. cert'[i].mat = o
      BY <3>2, <3>4 DEF Row
    <3>6. m # NoMaterial
      BY <3>5 DEF o, Older, NoMaterial
    <3>7. m.left > n
      BY <2>2, <3>2, <3>6 DEF Lasts, m
    <3> HIDE DEF l
    <3>8. o = [m EXCEPT !.left = l]
      BY <2>2, <3>2, <3>7 DEF o, Older, l
    <3>9. o.left = l
      BY <3>3, <3>8 DEF Material, NoMaterial
    <3>10. QED
      BY <2>2, <3>2, <3>5, <3>7, <3>9 DEF l
  <2> SUFFICES ASSUME NEW i \in Id, i = wild
               PROVE  /\ Lasts(cert', i, Base(FALSE))
                      /\ task[Timer].pc = "push" => Lasts(cert', i, Margin(FALSE))
                      /\ task[Timer].pc = "mint" /\ i # task[Timer].row => Lasts(cert', i, Margin(FALSE))
    BY <1>2, <1>6, <2>1 DEF UpkeepInv
  <2>3. KeepFor \in Nat /\ KeepFor - 1 \in Nat /\ 0 <= KeepFor - 1 /\ KeepFor + 1 - 1 = KeepFor /\ KeepFor + 1 > 0
    BY LifeAssumption
  <2>4. Lasts(cert', i, Base(FALSE))
    <3>1. Lasts(cert, i, KeepFor)
      BY <1>3, <1>6, Margins
    <3>2. Lasts(cert', i, KeepFor - 1)
      BY <2>2, <2>3, <3>1
    <3>3. QED
      BY <1>1, <2>3, <3>2, LastsLess DEF Base
  <2>5. ASSUME Lasts(cert, i, Margin(swept)) PROVE Lasts(cert', i, Margin(FALSE))
    <3>1. Lasts(cert, i, KeepFor + 1)
      BY <1>6, <2>5, Margins
    <3>2. Lasts(cert', i, KeepFor + 1 - 1)
      BY <2>2, <2>3, <3>1
    <3>3. QED
      BY <2>3, <3>2 DEF Margin
  <2>6. QED
    BY <1>3, <2>4, <2>5
<1>7. QED
  BY <1>4, <1>5, <1>6 DEF UpkeepNext

\* As long as the timer's sweeps keep their pace and a certificate lives longer
\* than the two rounds, the server's wildcard does not expire.
THEOREM WildcardStaysValid ==
  ASSUME KeepFor >= 1, Life > KeepFor + 1
  PROVE  UpkeepSpec => []WildcardNeverExpires
<1>1. UpkeepInit => CertInv /\ UpkeepInv
  <2> SUFFICES ASSUME UpkeepInit PROVE CertInv /\ UpkeepInv
    OBVIOUS
  <2>1. task[Timer].job = "sweep"
    BY TimerAssumption DEF UpkeepInit, Init, Idle
  <2>2. \A i \in Id : cert[i] = Absent
    BY DEF UpkeepInit, Init
  <2>3. QED
    BY <2>1, <2>2, CertInit DEF UpkeepInit, UpkeepInv, Lasts
<1>2. CertInv /\ UpkeepInv /\ [UpkeepNext]_upkeepVars => CertInv' /\ UpkeepInv'
  <2> SUFFICES ASSUME CertInv, UpkeepInv, [UpkeepNext]_upkeepVars PROVE CertInv' /\ UpkeepInv'
    OBVIOUS
  <2>1. [Next]_vars
    BY DEF UpkeepNext, upkeepVars, Next, Advance
  <2>2. QED
    BY <2>1, CertNext, UpkeepStep
<1>3. CertInv /\ UpkeepInv => WildcardNeverExpires
  <2> SUFFICES ASSUME CertInv, UpkeepInv, WildRow # 0, cert[WildRow].mat # NoMaterial
               PROVE  cert[WildRow].mat.left > 0
    BY DEF WildcardNeverExpires
  <2>1. WildRow = wild /\ wild \in Id /\ cert[wild] # Absent
    BY WildServers, LiveTyped DEF CertInv, WildRow, Live
  <2>2. Lasts(cert, wild, Base(swept)) /\ swept \in BOOLEAN
    BY <2>1 DEF UpkeepInv
  <2>3. cert \in Table /\ Base(swept) \in Nat /\ 0 <= Base(swept)
    BY <2>2, LifeAssumption DEF CertInv, RowsInv, Base
  <2>4. Lasts(cert, wild, 0)
    BY <2>1, <2>2, <2>3, LastsLess
  <2>5. QED
    BY <2>1, <2>4 DEF Lasts
<1>4. QED
  BY <1>1, <1>2, <1>3, PTL DEF UpkeepSpec

-----------------------------------------------------------------------------
(* The score of a certificate (Health).                                   *)

LEMMA ClampedType == ASSUME NEW p \in Nat PROVE Clamped(p) \in 0..100
  BY DEF Clamped

\* The checks that do not look at the clock.
Timeless(c) == Penalty(MaterialCheck(c)) + Penalty(KeyCheck(c)) + Penalty(Signature(c))
                 + Penalty(Chain(c)) + Penalty(Coverage(c))

LEMMA TimelessType == ASSUME NEW c PROVE Timeless(c) \in Nat
<1>1. Penalty(MaterialCheck(c)) \in Nat BY DEF Penalty, MaterialCheck
<1>2. Penalty(KeyCheck(c)) \in Nat BY DEF Penalty, KeyCheck
<1>3. Penalty(Signature(c)) \in Nat BY DEF Penalty, Signature
<1>4. Penalty(Chain(c)) \in Nat BY DEF Penalty, Chain
<1>5. Penalty(Coverage(c)) \in Nat BY DEF Penalty, Coverage
<1> QED BY <1>1, <1>2, <1>3, <1>4, <1>5 DEF Timeless

LEMMA ScoreOfParts ==
  ASSUME NEW c, NEW now \in Int
  PROVE  ScoreCertificate(c, now) =
           Clamped(Penalty(Validity(c, now)) + Penalty(Issued(c, now)) + Timeless(c))
<1>1. Penalty(MaterialCheck(c)) \in Nat BY DEF Penalty, MaterialCheck
<1>2. Penalty(KeyCheck(c)) \in Nat BY DEF Penalty, KeyCheck
<1>3. Penalty(Signature(c)) \in Nat BY DEF Penalty, Signature
<1>4. Penalty(Chain(c)) \in Nat BY DEF Penalty, Chain
<1>5. Penalty(Coverage(c)) \in Nat BY DEF Penalty, Coverage
<1>6. Penalty(Validity(c, now)) \in Nat BY DEF Penalty, Validity
<1>7. Penalty(Issued(c, now)) \in Nat BY DEF Penalty, Issued
<1> QED BY <1>1, <1>2, <1>3, <1>4, <1>5, <1>6, <1>7 DEF ScoreCertificate, Timeless

\* A certificate's score never rises as it ages, once its issue date is not in the
\* future any more: nobody gets a better grade by waiting (scoreCertificate).
THEOREM AgeingNeverHelps ==
  ASSUME NEW c \in Certificate, NEW now \in Int, NEW later \in Int,
         now <= later, c.issuedOn = "date" => c.issued - now <= Day
  PROVE  ScoreCertificate(c, later) <= ScoreCertificate(c, now)
<1>1. Penalty(Issued(c, later)) = Penalty(Issued(c, now))
  BY DEF Issued, Certificate, Day
<1>2. Penalty(Validity(c, now)) <= Penalty(Validity(c, later))
  BY DEF Penalty, Validity, Certificate, Day
<1>3. /\ Penalty(Validity(c, now)) \in Nat /\ Penalty(Validity(c, later)) \in Nat
      /\ Penalty(Issued(c, now)) \in Nat
  BY DEF Penalty, Validity, Issued
<1>4. Timeless(c) \in Nat
  BY TimelessType
<1> QED
  BY <1>1, <1>2, <1>3, <1>4, ScoreOfParts DEF Clamped

\* A certificate with less than a week to live is at most a B, however good the
\* rest of it is, and every score is one gradeFor is meant for.
THEOREM ExpiringIsNeverA ==
  ASSUME NEW c \in Certificate, NEW now \in Int
  PROVE  /\ ScoreCertificate(c, now) \in 0..100
         /\ c.dated /\ c.expires - now < 7 * Day => GradeFor(ScoreCertificate(c, now)) # "A"
<1>1. Penalty(Validity(c, now)) \in Nat /\ Penalty(Issued(c, now)) \in Nat
  BY DEF Penalty, Validity, Issued
<1>2. c.dated /\ c.expires - now < 7 * Day => Penalty(Validity(c, now)) = 25
  BY DEF Penalty, Validity
<1>3. Timeless(c) \in Nat
  BY TimelessType
<1>4. ScoreCertificate(c, now) \in 0..100
  <2>1. Penalty(Validity(c, now)) + Penalty(Issued(c, now)) + Timeless(c) \in Nat
    BY <1>1, <1>3
  <2> QED BY <2>1, ScoreOfParts, ClampedType
<1>5. Penalty(Validity(c, now)) = 25 => ScoreCertificate(c, now) <= 75
  BY <1>1, <1>3, ScoreOfParts DEF Clamped
<1>6. ScoreCertificate(c, now) <= 75 => GradeFor(ScoreCertificate(c, now)) # "A"
  BY <1>4 DEF GradeFor
<1> QED
  BY <1>2, <1>4, <1>5, <1>6
=============================================================================
