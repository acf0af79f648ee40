------------------------------- MODULE Mirrors -------------------------------
(***************************************************************************)
(* Where issued certificates are copied to: the custom certificates and    *)
(* proxy hosts of nginx proxy manager (server/src/services/npm.ts and the  *)
(* /npm routes of routes.ts).                                              *)
(*                                                                         *)
(* Every operation lists before it acts: it reads the certificate row, then *)
(* awaits the lists of hosts and certificates, then writes back copies of  *)
(* the hosts it listed.  A job below holds what it read; NPM is external   *)
(* and answers or fails.                                                   *)
(***************************************************************************)
EXTENDS Integers, FiniteSets, Sequences, SequencesExt

CONSTANTS
  Job,        \* slots for the operations in flight
  Cert,       \* the certificate rows
  Domain,     \* [Cert -> domain], a domain being its labels from the root down
  Wild,       \* the certificates that are for the wildcard too
  Host,       \* the proxy hosts
  HostNames,  \* [Host -> its domain_names, in order]
  WildcardAttach, \* NPM_WILDCARD_ATTACH
  MaxVersion, \* bound: issuances of a certificate
  MaxStart,   \* bound: operations begun and certificates issued
  MaxEntry    \* bound: certificates made at NPM

ASSUME MirrorsAssumption ==
  /\ Cert # {} /\ Wild \subseteq Cert
  /\ WildcardAttach \in BOOLEAN
  /\ {MaxVersion, MaxEntry, MaxStart} \subseteq Nat
  /\ \A h \in Host : Len(HostNames[h]) \in Nat \ {0}

VARIABLES
  material, \* per certificate row, how often it was issued; 0: no material
  hosts,    \* the proxy hosts of NPM
  store,    \* the certificates of NPM, in the order they were made
  reuploads,\* whether this build of NPM has the /upload route, or PUT instead
  caFile,   \* whether the client CA file is in the data directory of NPM
  job,      \* the operations
  started,  \* how many were begun
  alone     \* history: whether an operation has been the only one so far

vars == <<material, hosts, store, reuploads, caFile, job, started, alone>>
npm == <<hosts, store, caFile>>

Entry == 0..MaxEntry
Version == 0..MaxVersion
NoFiles == [of |-> CHOOSE c \in Cert : TRUE, version |-> 0]

\* advanced_config as its lines: a rule of the administrator's, the two
\* markers, and the directives between them.
Line == {"rule", "mark", "gate", "end"}

\* auto is history: the certificate was attached by a sync.
HostState == [up : BOOLEAN, cert : Entry, forced : BOOLEAN, config : Seq(Line),
              auto : BOOLEAN]
Absent == [up |-> FALSE, cert |-> 0, forced |-> FALSE, config |-> <<>>, auto |-> FALSE]

Names == [base : {Domain[c] : c \in Cert}, wild : BOOLEAN]
Files == [of : Cert, version : Version]

\* own: made under the nice name of a certificate row, or one of the caller's.
StoreEntry == [of : Cert, own : BOOLEAN, names : SUBSET Names, files : Files]

\* on: the mode of a gate; of an edit, whether it names a certificate.
Kind == {"sync", "export", "edit", "delete", "gate"}
Pc == {"idle", "hosts", "certs", "create", "upload", "write"}
Work == [pc : Pc, kind : Kind, cert : Cert, version : Version, own : BOOLEAN,
         entry : Entry, todo : SUBSET Host, copy : [Host -> HostState],
         on : BOOLEAN]

Idle == [pc |-> "idle", kind |-> "sync", cert |-> CHOOSE c \in Cert : TRUE,
         version |-> 0, own |-> FALSE, entry |-> 0, todo |-> {},
         copy |-> [h \in Host |-> Absent], on |-> FALSE]

TypeOK ==
  /\ material \in [Cert -> Version]
  /\ hosts \in [Host -> HostState]
  /\ Len(store) <= MaxEntry /\ \A e \in 1..Len(store) : store[e] \in StoreEntry
  /\ reuploads \in BOOLEAN /\ caFile \in BOOLEAN
  /\ job \in [Job -> Work] /\ started \in 0..MaxStart
  /\ \A j \in Job : job[j].pc = "write" => job[j].todo # {}
  /\ alone \in [Job -> BOOLEAN]

-----------------------------------------------------------------------------
(* What a certificate is for.                                              *)

Plain(d) == [base |-> d, wild |-> FALSE]
NamesOf(c) == {Plain(Domain[c])} \cup
              (IF c \in Wild THEN {[base |-> Domain[c], wild |-> TRUE]} ELSE {})

\* Mutant of WildcardCovers: any deeper name is covered too.
WildcardCoversDeep(base, d) == IsStrictPrefix(base, d)

\* One label more than the base, not the base itself and not a deeper name.
WildcardCovers(base, d) == IsStrictPrefix(base, d) /\ Len(d) = Len(base) + 1

\* A host is looked up by its first name only.
Match(c, h) ==
  LET d == HostNames[h][1] IN
  d = Domain[c] \/ (WildcardAttach /\ c \in Wild /\ WildcardCovers(Domain[c], d))

CoveredExactly(c, h) == \E i \in 1..Len(HostNames[h]) : HostNames[h][i] = Domain[c]

-----------------------------------------------------------------------------
(* applyMtlsConfig                                                         *)

\* One turn of the loop over the lines.
Scanned(acc, line) ==
  IF line = "mark" THEN [acc EXCEPT !.skipping = TRUE]
  ELSE IF line = "end" THEN [acc EXCEPT !.skipping = FALSE]
  ELSE IF acc.skipping THEN acc
  ELSE [acc EXCEPT !.kept = Append(@, line)]

\* The loop's variables after each line.
Scan(lines) ==
  LET scan[n \in 0..Len(lines)] ==
        IF n = 0 THEN [kept |-> <<>>, skipping |-> FALSE]
        ELSE Scanned(scan[n-1], lines[n])
  IN scan

\* The lines outside the marked block.
Strip(lines) == Scan(lines)[Len(lines)].kept

\* Mutant of ApplyMtlsConfig: the block is added to what is there.
ApplyMtlsConfigAgain(lines, on) ==
  IF on THEN lines \o <<"mark", "gate", "end">> ELSE Strip(lines)

ApplyMtlsConfig(lines, on) ==
  IF on THEN Strip(lines) \o <<"mark", "gate", "end">> ELSE Strip(lines)

-----------------------------------------------------------------------------
Goto(j, w) == job' = [job EXCEPT ![j] = w] /\ UNCHANGED started
Start(j, w) ==
  /\ job[j].pc = "idle" /\ started < MaxStart
  /\ job' = [job EXCEPT ![j] = w] /\ started' = started + 1

\* A job is issued or renewed: the row has newer material.
Issue(c) ==
  /\ material[c] < MaxVersion
  /\ started < MaxStart /\ started' = started + 1
  /\ material' = [material EXCEPT ![c] = @ + 1]
  /\ UNCHANGED <<npm, reuploads, job>>

\* syncCertificateToNpm reads the row, then lists the hosts.
StartSync(j, c) ==
  /\ material[c] # 0
  /\ Start(j, [Idle EXCEPT !.pc = "hosts", !.cert = c, !.version = material[c], !.own = TRUE])
  /\ UNCHANGED <<material, npm, reuploads>>

\* POST /npm/export-cert always imports, under a name of the caller's or the
\* certificate's own.
StartExport(j, c, own) ==
  /\ material[c] # 0
  /\ Start(j, [Idle EXCEPT !.pc = "create", !.kind = "export", !.cert = c,
                           !.version = material[c], !.own = own])
  /\ UNCHANGED <<material, npm, reuploads>>

\* PUT and DELETE /npm/hosts/:id, and POST /npm/mtls: list the hosts first.
StartEdit(j, h, given, e) ==
  /\ IF given THEN e \in 0..Len(store) ELSE e = 0
  /\ Start(j, [Idle EXCEPT !.pc = "hosts", !.kind = "edit", !.todo = {h},
                           !.on = given, !.entry = e])
  /\ UNCHANGED <<material, npm, reuploads>>

StartDelete(j, h) ==
  /\ Start(j, [Idle EXCEPT !.pc = "hosts", !.kind = "delete", !.todo = {h}])
  /\ UNCHANGED <<material, npm, reuploads>>

StartGate(j, hs, on) ==
  /\ hs # {}
  /\ Start(j, [Idle EXCEPT !.pc = "hosts", !.kind = "gate", !.todo = hs, !.on = on])
  /\ UNCHANGED <<material, npm, reuploads>>

\* POST /npm/hosts creates a host at once.
CreateHost(h, e, forced) ==
  /\ ~hosts[h].up /\ e \in 0..Len(store)
  /\ started < MaxStart /\ started' = started + 1
  /\ hosts' = [hosts EXCEPT ![h] = [Absent EXCEPT !.up = TRUE, !.cert = e, !.forced = forced]]
  /\ UNCHANGED <<material, store, caFile, reuploads, job>>

-----------------------------------------------------------------------------
(* The lists.                                                              *)

Copies(hs) == [h \in Host |-> IF h \in hs THEN hosts[h] ELSE Absent]

\* Of an edit, a deletion or a gate: the hosts asked for that are there.
ListHosts(j) ==
  /\ job[j].pc = "hosts"
  /\ LET w == job[j]
         asked == IF w.kind = "sync" THEN {h \in Host : Match(w.cert, h)} ELSE w.todo
         found == {h \in asked : hosts[h].up} IN
     /\ Goto(j, IF found = {} THEN Idle
                ELSE [w EXCEPT !.pc = IF w.kind = "sync" THEN "certs" ELSE "write",
                               !.todo = found, !.copy = Copies(found)])
     \* materializeClientCaFile, before the first host is gated
     /\ caFile' = (caFile \/ (w.kind = "gate" /\ w.on /\ found # {}))
  /\ UNCHANGED <<material, hosts, store, reuploads>>

\* cerulean-<domain>[-wildcard].
NiceName(c) == <<Domain[c], c \in Wild>>

ByName(c) == {e \in 1..Len(store) : store[e].own /\ NiceName(store[e].of) = NiceName(c)}
ByDomains(c) == {e \in 1..Len(store) : store[e].names = NamesOf(c)}

\* Mutant of Existing: an entry is recognised by its names alone.
ExistingByDomains(c) == ByDomains(c)

\* The nice name is preferred, as an upload rewrites the names of an entry.
Existing(c) == IF ByName(c) # {} THEN ByName(c) ELSE ByDomains(c)

ListCerts(j) ==
  /\ job[j].pc = "certs"
  /\ LET w == job[j] IN
     \/ /\ Existing(w.cert) # {}
        /\ Goto(j, [w EXCEPT !.pc = "upload",
                             !.entry = CHOOSE e \in Existing(w.cert) : \A f \in Existing(w.cert) : e <= f])
     \/ Existing(w.cert) = {} /\ Goto(j, [w EXCEPT !.pc = "create"])
  /\ UNCHANGED <<material, npm, reuploads>>

-----------------------------------------------------------------------------
(* The certificate at NPM.                                                 *)

FilesOf(w) == [of |-> w.cert, version |-> w.version]

\* The JSON create: a current build stores the row without files.
CreateEntry(j) ==
  /\ job[j].pc = "create" /\ Len(store) < MaxEntry
  /\ LET w == job[j] IN
     /\ store' = Append(store, [of |-> w.cert, own |-> w.own, names |-> NamesOf(w.cert),
                                files |-> IF reuploads THEN NoFiles ELSE FilesOf(w)])
     /\ Goto(j, [w EXCEPT !.pc = "upload", !.entry = Len(store) + 1])
  /\ UNCHANGED <<material, hosts, caFile, reuploads>>

\* Mutant of Wanted: every matched host is written.
WantedAll(w) == {h \in w.todo : ~(w.copy[h].cert = w.entry /\ w.copy[h].forced)}

\* A matched host is written unless it has the entry already, or the match is
\* by wildcard and it has a certificate.
Wanted(w) ==
  {h \in w.todo : /\ ~(w.copy[h].cert = w.entry /\ w.copy[h].forced)
                  /\ CoveredExactly(w.cert, h) \/ w.copy[h].cert = 0}

AfterUpload(w) ==
  IF w.kind = "export" \/ Wanted(w) = {} THEN Idle
  ELSE [w EXCEPT !.pc = "write", !.todo = Wanted(w),
                 !.copy = [h \in Host |-> IF h \in Wanted(w) THEN w.copy[h] ELSE Absent]]

\* The multipart upload writes the files and leaves the entry the common name
\* only; a build without that route has PUT, which keeps the names.
UploadedEntry(w) ==
  [store[w.entry] EXCEPT !.files = FilesOf(w),
                         !.names = IF reuploads THEN {Plain(Domain[w.cert])} ELSE NamesOf(w.cert)]

\* Mutant of Upload: the upload of an entry just made is left out.
UploadRefreshOnly(j) ==
  /\ job[j].pc = "upload"
  /\ store' = IF store[job[j].entry].files.version = 0 THEN store
              ELSE [store EXCEPT ![job[j].entry] = UploadedEntry(job[j])]
  /\ Goto(j, AfterUpload(job[j]))
  /\ UNCHANGED <<material, hosts, caFile, reuploads>>

Upload(j) ==
  /\ job[j].pc = "upload"
  /\ store' = [store EXCEPT ![job[j].entry] = UploadedEntry(job[j])]
  /\ Goto(j, AfterUpload(job[j]))
  /\ UNCHANGED <<material, hosts, caFile, reuploads>>

-----------------------------------------------------------------------------
(* The writes, one host at a time.                                         *)

\* Mutant of Done: an operation goes on after its last host.
DoneNever(w, h) == [w EXCEPT !.todo = @ \ {h}, !.copy[h] = Absent]

Done(w, h) ==
  IF w.todo = {h} THEN Idle
  ELSE [w EXCEPT !.todo = @ \ {h}, !.copy[h] = Absent]

\* updateProxyHost writes the copy back, with the certificate, ssl_forced on
\* and the config; PUT of a host that has gone fails.
Put(j, h, state) ==
  /\ job[j].pc = "write" /\ h \in job[j].todo /\ hosts[h].up
  /\ hosts' = [hosts EXCEPT ![h] = [state EXCEPT !.forced = TRUE]]
  /\ Goto(j, Done(job[j], h))
  /\ UNCHANGED <<material, store, caFile, reuploads>>

Attach(j, h) ==
  /\ job[j].kind = "sync"
  /\ Put(j, h, [job[j].copy[h] EXCEPT !.cert = job[j].entry, !.auto = TRUE])

\* Without a certificate_id in the request the host keeps the one it was
\* listed with.
Edit(j, h) ==
  /\ job[j].kind = "edit"
  /\ Put(j, h, IF ~job[j].on THEN job[j].copy[h]
               ELSE [job[j].copy[h] EXCEPT !.cert = job[j].entry, !.auto = FALSE])

\* setHostMtls refuses to gate a host that was listed without a certificate.
Gate(j, h) ==
  /\ job[j].kind = "gate" /\ (job[j].on => job[j].copy[h].cert # 0)
  /\ Put(j, h, [job[j].copy[h] EXCEPT !.config = ApplyMtlsConfig(@, job[j].on)])

DeleteHost(j, h) ==
  /\ job[j].kind = "delete" /\ job[j].pc = "write" /\ h \in job[j].todo /\ hosts[h].up
  /\ hosts' = [hosts EXCEPT ![h] = Absent]
  /\ Goto(j, Done(job[j], h))
  /\ UNCHANGED <<material, store, caFile, reuploads>>

\* A request is refused or not answered, or a host was listed without the
\* certificate a gate needs: the operation ends where it is.
Fails(j) ==
  /\ job[j].pc # "idle"
  /\ Goto(j, Idle)
  /\ UNCHANGED <<material, npm, reuploads>>

-----------------------------------------------------------------------------
\* No other operation is under way, and nobody else changes a host.
ByItself(j) ==
  /\ \A i \in Job \ {j} : job[i].pc = "idle" /\ job'[i].pc = "idle"
  /\ hosts' = hosts \/ job'[j] # job[j]

Observe ==
  alone' = [j \in Job |->
    job'[j].pc # "idle" /\ ByItself(j) /\ (job[j].pc = "idle" \/ alone[j])]

Init ==
  /\ material \in [Cert -> Version \cap 0..1]
  /\ hosts \in [Host -> {[Absent EXCEPT !.up = TRUE, !.config = <<"rule">>], Absent}]
  /\ store = <<>> /\ caFile = FALSE
  /\ reuploads \in BOOLEAN
  /\ job = [j \in Job |-> Idle] /\ started = 0
  /\ alone = [j \in Job |-> FALSE]

Step ==
  \/ \E c \in Cert : Issue(c)
  \/ \E h \in Host, e \in Entry, forced \in BOOLEAN : CreateHost(h, e, forced)
  \/ \E j \in Job :
       \/ \E c \in Cert :
            \/ StartSync(j, c)
            \/ \E own \in BOOLEAN : StartExport(j, c, own)
       \/ \E h \in Host :
            \/ \E e \in Entry, given \in BOOLEAN : StartEdit(j, h, given, e)
            \/ StartDelete(j, h)
            \/ Attach(j, h) \/ Edit(j, h) \/ Gate(j, h) \/ DeleteHost(j, h)
       \/ \E hs \in SUBSET Host, on \in BOOLEAN : StartGate(j, hs, on)
       \/ ListHosts(j) \/ ListCerts(j) \/ CreateEntry(j) \/ Upload(j) \/ Fails(j)

Next == Step /\ Observe

Spec == Init /\ [][Next]_vars

-----------------------------------------------------------------------------
\* However often a gate is set and lifted, by operations that write back
\* copies they listed earlier, a host keeps its administrator's rules and has
\* the client-certificate block once or not at all; once only where NPM has the
\* CA to check the certificates with.
OneGate ==
  \A h \in Host :
    \/ hosts[h].config \in {<<>>, <<"rule">>}
    \/ hosts[h].config \in {<<"mark", "gate", "end">>, <<"rule", "mark", "gate", "end">>} /\ caFile

\* What is said of a host's certificate once there are files: they are good for
\* a certificate that names the host.
Covers(c, h) ==
  \/ Plain(HostNames[h][1]) \in NamesOf(c)
  \/ /\ c \in Wild /\ Len(HostNames[h][1]) = Len(Domain[c]) + 1
     /\ IsPrefix(Domain[c], HostNames[h][1])

\* A host a sync gave its certificate is served by one that names it, whatever
\* was issued and uploaded since (syncCertificateToNpm).
ServedCovers ==
  \A h \in Host : hosts[h].auto /\ hosts[h].cert # 0 =>
    LET files == store[hosts[h].cert].files IN
    files.version # 0 => Covers(files.of, h)

\* At least it is served by a certificate of the domain that one that names it is
\* of, too: no upload takes an entry to another domain.
ServedByDomain ==
  \A h \in Host : hosts[h].auto /\ hosts[h].cert # 0 =>
    LET files == store[hosts[h].cert].files IN
    files.version # 0 => \E c \in Cert : Domain[c] = Domain[files.of] /\ Covers(c, h)

\* A wildcard "never overrides a certificate a host already has" (npm.ts:431): a
\* sync that ran alone takes the place of a host's certificate only for a host that the
\* certificate names itself.  Of one that overlaps with another operation this is
\* not so: between the list and the write the host may be given a certificate,
\* and the copy that is written back does not show it (npm.ts:447, 505).
WildcardNeverReplaces ==
  [][\A h \in Host, j \in Job :
       /\ job[j].kind = "sync" /\ job[j].pc = "write" /\ job'[j] # job[j]
       /\ hosts'[h].cert # hosts[h].cert /\ hosts[h].cert # 0 /\ alone[j]
       => CoveredExactly(job[j].cert, h)]_vars

\* A sync that ran alone to its last host has every host of the certificate's
\* own name on an entry with the material it set out with.
SyncDelivers ==
  [][\A j \in Job :
       /\ job[j].kind = "sync" /\ job[j].pc = "write" /\ job'[j] = Idle
       /\ hosts' # hosts /\ alone[j] /\ \A i \in Job \ {j} : job[i].pc = "idle"
       => \A h \in Host : hosts'[h].up /\ HostNames[h][1] = Domain[job[j].cert] =>
            /\ hosts'[h].cert # 0
            /\ store[hosts'[h].cert].files = FilesOf(job[j])]_vars

\* Renewals refresh in place: a sync that runs alone makes no second entry for
\* a certificate.
NoPileUp ==
  [][\A j \in Job :
       /\ job[j].kind = "sync" /\ job[j].pc = "create" /\ store' # store
       /\ alone[j] /\ \A i \in Job \ {j} : job[i].pc = "idle"
       => ByName(job[j].cert) = {}]_vars
=============================================================================
