---------------------------- MODULE MirrorsProofs ----------------------------
(***************************************************************************)
(* Theorems about Mirrors, for any certificates, hosts and names, any      *)
(* number of operations in flight, and every advanced_config.              *)
(***************************************************************************)
EXTENDS Mirrors, SequenceTheorems, WellFoundedInduction, TLAPS

-----------------------------------------------------------------------------
(* Induction over the numbers, stated of sets.                             *)

\* A set of numbers that is not empty has a least one.
LEMMA LeastNumber ==
  ASSUME NEW S \in SUBSET Nat, S # {}
  PROVE  \E m \in S : \A n \in S : m <= n
<1> DEFINE R == OpToRel(<, Nat)
<1>1. \A m, n \in Nat : m < n => <<m, n>> \in R
  BY DEF OpToRel
<1>2. IsWellFoundedOn(R, Nat)
  BY NatLessThanWellFounded
<1> HIDE DEF R
<1>3. \E m \in S : \A n \in S : <<n, m>> \notin R
  BY <1>2, WFMin
<1>4. PICK m \in S : \A n \in S : <<n, m>> \notin R
  BY <1>3
<1>5. ASSUME NEW n \in S PROVE m <= n
  <2>1. ~(n < m)
    BY <1>1, <1>4
  <2> QED BY <2>1
<1> QED BY <1>5

\* A set with zero, and with the successor of each number in it, has them all.
LEMMA SetInduction ==
  ASSUME NEW S, 0 \in S, \A n \in Nat : n \in S => n + 1 \in S
  PROVE  Nat \subseteq S
<1> SUFFICES ASSUME Nat \ S # {} PROVE FALSE
  OBVIOUS
<1>1. PICK m \in Nat \ S : \A n \in Nat \ S : m <= n
  BY LeastNumber
<1>2. m # 0 /\ m - 1 \in Nat
  BY <1>1
<1>3. m - 1 \in S
  BY <1>1, <1>2
<1> QED BY <1>1, <1>2, <1>3

-----------------------------------------------------------------------------
(* applyMtlsConfig, for every list of lines.                               *)

\* The lines that applyMtlsConfig can keep, and the variables of its loop.
Kept == Line \ {"mark", "end"}
Acc == [kept : Seq(Kept), skipping : BOOLEAN]
Start0 == [kept |-> <<>>, skipping |-> FALSE]

\* A turn of the loop keeps no marker.
LEMMA ScannedType ==
  ASSUME NEW acc \in Acc, NEW line \in Line
  PROVE  Scanned(acc, line) \in Acc
<1>1. CASE line \in {"mark", "end"}
  BY <1>1 DEF Scanned, Acc
<1>2. CASE line \notin {"mark", "end"}
  <2>1. Append(acc.kept, line) \in Seq(Kept)
    BY <1>2, AppendProperties DEF Acc, Kept
  <2> DEFINE k == Append(acc.kept, line)
  <2>2. [acc EXCEPT !.kept = k] = [kept |-> k, skipping |-> acc.skipping]
    BY DEF Acc
  <2> QED BY <1>2, <2>1, <2>2 DEF Scanned, Acc
<1> QED BY <1>1, <1>2

\* The loop's variables as a function of the lines read so far.
Loop(lines, n) ==
  {f \in [0..n -> Acc] : /\ f[0] = Start0
                         /\ \A i \in 1..n : f[i] = Scanned(f[i-1], lines[i])}

\* There is such a function, whatever the lines are.
LEMMA LoopExists ==
  ASSUME NEW lines \in Seq(Line)
  PROVE  Loop(lines, Len(lines)) # {}
<1> DEFINE S == {n \in Nat : n <= Len(lines) => Loop(lines, n) # {}}
<1>0. Start0 \in Acc
  BY EmptySeq DEF Start0, Acc
<1>1. 0 \in S
  <2>1. [i \in 0..0 |-> Start0] \in Loop(lines, 0)
    BY <1>0 DEF Loop
  <2> QED BY <2>1
<1>2. ASSUME NEW n \in Nat, n \in S PROVE n + 1 \in S
  <2> SUFFICES ASSUME n + 1 <= Len(lines) PROVE Loop(lines, n + 1) # {}
    OBVIOUS
  <2>1. PICK f \in Loop(lines, n) : TRUE
    BY <1>2, LenProperties
  <2> DEFINE x == Scanned(f[n], lines[n + 1])
             g == [i \in 0..(n + 1) |-> IF i = n + 1 THEN x ELSE f[i]]
  <2>2. lines[n + 1] \in Line
    BY ElementOfSeq, LenProperties
  <2>3. f \in [0..n -> Acc]
    BY <2>1 DEF Loop
  <2>4. x \in Acc
    BY <2>2, <2>3, ScannedType
  <2> HIDE DEF x
  <2>5. g \in [0..(n + 1) -> Acc]
    BY <2>3, <2>4
  <2>6. g[0] = Start0
    BY <2>1 DEF Loop
  <2>7. ASSUME NEW i \in 1..(n + 1) PROVE g[i] = Scanned(g[i - 1], lines[i])
    <3>1. CASE i = n + 1
      BY <3>1 DEF x
    <3>2. CASE i # n + 1
      <4>1. i \in 1..n /\ g[i] = f[i] /\ g[i - 1] = f[i - 1]
        BY <3>2
      <4> QED BY <2>1, <4>1 DEF Loop
    <3> QED BY <3>1, <3>2
  <2> HIDE DEF g
  <2> QED BY <2>5, <2>6, <2>7 DEF Loop
<1> HIDE DEF S
<1>3. Nat \subseteq S
  BY <1>1, <1>2, SetInduction
<1>4. Len(lines) \in Nat
  BY LenProperties
<1> QED BY <1>3, <1>4 DEF S

\* Scan is those variables: what the recursive definition says of each line.
LEMMA ScanDef ==
  ASSUME NEW lines \in Seq(Line)
  PROVE  /\ Scan(lines)[0] = Start0
         /\ \A n \in 1..Len(lines) :
              Scan(lines)[n] = Scanned(Scan(lines)[n - 1], lines[n])
<1> DEFINE N == Len(lines)
           F(g) == [n \in 0..N |-> IF n = 0 THEN Start0 ELSE Scanned(g[n - 1], lines[n])]
<1>1. N \in Nat
  BY LenProperties
<1>2. PICK f \in Loop(lines, N) : TRUE
  BY LoopExists
<1>3. f = F(f)
  BY <1>1, <1>2 DEF Loop
<1>4. Scan(lines) = F(Scan(lines))
  BY <1>3 DEF Scan, Start0
<1> QED BY <1>1, <1>4

LEMMA ScanType ==
  ASSUME NEW lines \in Seq(Line), NEW n \in 0..Len(lines)
  PROVE  Scan(lines)[n] \in Acc
<1> DEFINE S == {i \in Nat : i <= Len(lines) => Scan(lines)[i] \in Acc}
<1>0. Start0 \in Acc /\ 0 \in Nat
  BY EmptySeq DEF Start0, Acc
<1>1. 0 \in S
  <2>1. Scan(lines)[0] = Start0
    BY ScanDef
  <2> QED BY <1>0, <2>1
<1>2. ASSUME NEW i \in Nat, i \in S PROVE i + 1 \in S
  <2> SUFFICES ASSUME i + 1 <= Len(lines) PROVE Scan(lines)[i + 1] \in Acc
    OBVIOUS
  <2>1. i + 1 \in 1..Len(lines) /\ Scan(lines)[i] \in Acc
    BY <1>2, LenProperties
  <2>2. lines[i + 1] \in Line
    BY <2>1, ElementOfSeq
  <2>3. Scan(lines)[i + 1] = Scanned(Scan(lines)[i], lines[i + 1])
    BY <2>1, ScanDef
  <2> QED BY <2>1, <2>2, <2>3, ScannedType
<1> HIDE DEF S
<1>3. Nat \subseteq S
  BY <1>1, <1>2, SetInduction
<1>4. n \in Nat /\ n <= Len(lines)
  BY LenProperties
<1> QED BY <1>3, <1>4 DEF S

\* No marker is left.
LEMMA StripType ==
  ASSUME NEW lines \in Seq(Line)
  PROVE  Strip(lines) \in Seq(Kept)
<1>1. Len(lines) \in 0..Len(lines)
  BY LenProperties
<1> QED BY <1>1, ScanType DEF Strip, Acc

\* Lines without a marker are kept as they are, whatever follows them.
LEMMA ScanPlain ==
  ASSUME NEW lines \in Seq(Kept), NEW rest \in Seq(Line), NEW n \in 0..Len(lines)
  PROVE  Scan(lines \o rest)[n] = [kept |-> SubSeq(lines, 1, n), skipping |-> FALSE]
<1> DEFINE all == lines \o rest
           S == {i \in Nat : i <= Len(lines) =>
                   Scan(all)[i] = [kept |-> SubSeq(lines, 1, i), skipping |-> FALSE]}
<1>0. lines \in Seq(Line) /\ Len(lines) \in Nat
  BY SeqMonotonic, LenProperties DEF Kept
<1>1. /\ all \in Seq(Line) /\ Len(all) >= Len(lines)
      /\ \A i \in 1..Len(lines) : all[i] = lines[i]
  BY <1>0, ConcatProperties, LenProperties
<1> HIDE DEF all
<1>2. 0 \in S
  <2>1. Scan(all)[0] = Start0
    BY <1>1, ScanDef
  <2>2. SubSeq(lines, 1, 0) = <<>>
    BY <1>0, SubSeqEmpty
  <2>3. Scan(all)[0] = [kept |-> SubSeq(lines, 1, 0), skipping |-> FALSE] /\ 0 \in Nat
    BY <2>1, <2>2 DEF Start0
  <2> QED BY <2>3
<1>3. ASSUME NEW i \in Nat, i \in S PROVE i + 1 \in S
  <2> SUFFICES ASSUME i + 1 <= Len(lines)
               PROVE  Scan(all)[i + 1] = [kept |-> SubSeq(lines, 1, i + 1), skipping |-> FALSE]
    OBVIOUS
  <2> DEFINE k == SubSeq(lines, 1, i)
  <2>1. i + 1 \in 1..Len(lines) /\ i + 1 \in 1..Len(all)
    BY <1>0, <1>1, LenProperties
  <2>2. Scan(all)[i] = [kept |-> k, skipping |-> FALSE]
    BY <1>0, <1>3, <2>1
  <2>3. all[i + 1] = lines[i + 1] /\ lines[i + 1] \in Kept
    BY <1>1, <2>1, ElementOfSeq
  <2>4. Scan(all)[i + 1] = Scanned(Scan(all)[i], all[i + 1])
    BY <1>1, <2>1, ScanDef
  <2>5. SubSeq(lines, 1, i + 1) = Append(k, lines[i + 1])
    BY <1>0, <2>1
  <2> HIDE DEF k
  <2>6. Scanned([kept |-> k, skipping |-> FALSE], lines[i + 1]) =
          [kept |-> Append(k, lines[i + 1]), skipping |-> FALSE]
    BY <2>3 DEF Scanned, Kept
  <2> QED BY <2>2, <2>3, <2>4, <2>5, <2>6
<1> HIDE DEF S
<1>4. Nat \subseteq S
  BY <1>2, <1>3, SetInduction
<1>5. n \in Nat /\ n <= Len(lines)
  BY <1>0
<1> QED BY <1>4, <1>5 DEF S, all

\* What each line of the block does to the loop.
LEMMA ScannedBlock ==
  ASSUME NEW k
  PROVE  /\ Scanned([kept |-> k, skipping |-> FALSE], "mark") = [kept |-> k, skipping |-> TRUE]
         /\ Scanned([kept |-> k, skipping |-> TRUE], "gate") = [kept |-> k, skipping |-> TRUE]
         /\ Scanned([kept |-> k, skipping |-> TRUE], "end") = [kept |-> k, skipping |-> FALSE]
  BY DEF Scanned

Block == <<"mark", "gate", "end">>

\* Taking the block out leaves what it was added to.
LEMMA StripBlock ==
  ASSUME NEW lines \in Seq(Kept)
  PROVE  Strip(lines) = lines /\ Strip(lines \o Block) = lines
<1> DEFINE n == Len(lines)
<1>0. n \in Nat /\ lines \in Seq(Line) /\ SubSeq(lines, 1, n) = lines
  BY SeqMonotonic, LenProperties, SubSeqFull DEF Kept
<1>1. Strip(lines) = lines
  <2>1. lines \o <<>> = lines /\ <<>> \in Seq(Line)
    BY <1>0, ConcatEmptySeq, EmptySeq
  <2>2. n \in 0..n
    BY <1>0
  <2>3. Scan(lines \o <<>>)[n] = [kept |-> SubSeq(lines, 1, n), skipping |-> FALSE]
    BY <2>1, <2>2, ScanPlain
  <2>4. Scan(lines)[n] = [kept |-> lines, skipping |-> FALSE]
    BY <1>0, <2>1, <2>3
  <2> QED BY <2>4 DEF Strip
<1>2. Strip(lines \o Block) = lines
  <2> DEFINE all == lines \o Block
  <2>1. Block \in Seq(Line) /\ Len(Block) = 3
        /\ Block[1] = "mark" /\ Block[2] = "gate" /\ Block[3] = "end"
    BY DEF Block, Line
  <2>2. all \in Seq(Line) /\ Len(all) = n + 3
        /\ all[n + 1] = "mark" /\ all[n + 2] = "gate" /\ all[n + 3] = "end"
    <3>0. /\ all \in Seq(Line) /\ Len(all) = n + Len(Block)
          /\ \A i \in 1..n + Len(Block) : all[i] = IF i <= n THEN lines[i] ELSE Block[i - n]
      BY <1>0, <2>1, ConcatProperties
    <3>1. /\ all \in Seq(Line) /\ Len(all) = n + 3
          /\ \A i \in 1..Len(all) : all[i] = IF i <= n THEN lines[i] ELSE Block[i - n]
      BY <2>1, <3>0
    <3> HIDE DEF all
    <3>2. n + 1 \in 1..Len(all) /\ n + 2 \in 1..Len(all) /\ n + 3 \in 1..Len(all)
      BY <1>0, <3>1
    <3>3. (n + 1) - n = 1 /\ (n + 2) - n = 2 /\ (n + 3) - n = 3
      BY <1>0
    <3>4. all[n + 1] = Block[1] /\ all[n + 2] = Block[2] /\ all[n + 3] = Block[3]
      BY <1>0, <3>1, <3>2, <3>3
    <3> QED BY <2>1, <3>1, <3>4
  <2>3. Scan(all)[n] = [kept |-> lines, skipping |-> FALSE]
    BY <1>0, <2>1, ScanPlain
  <2> HIDE DEF all, n
  <2>4. Scan(all)[n + 1] = [kept |-> lines, skipping |-> TRUE]
    <3>0. n + 1 \in 1..Len(all) /\ (n + 1) - 1 = n
      BY <1>0, <2>2
    <3>1. Scan(all)[n + 1] = Scanned(Scan(all)[n], "mark")
      BY <2>2, <3>0, ScanDef
    <3> QED BY <2>3, <3>1, ScannedBlock
  <2>5. Scan(all)[n + 2] = [kept |-> lines, skipping |-> TRUE]
    <3>0. n + 2 \in 1..Len(all) /\ (n + 2) - 1 = n + 1
      BY <1>0, <2>2
    <3>1. Scan(all)[n + 2] = Scanned(Scan(all)[n + 1], "gate")
      BY <2>2, <3>0, ScanDef
    <3> QED BY <2>4, <3>1, ScannedBlock
  <2>6. Scan(all)[n + 3] = [kept |-> lines, skipping |-> FALSE]
    <3>0. n + 3 \in 1..Len(all) /\ (n + 3) - 1 = n + 2
      BY <1>0, <2>2
    <3>1. Scan(all)[n + 3] = Scanned(Scan(all)[n + 2], "end")
      BY <2>2, <3>0, ScanDef
    <3> QED BY <2>5, <3>1, ScannedBlock
  <2> QED BY <2>2, <2>6 DEF Strip, all
<1> QED BY <1>1, <1>2

\* Setting or lifting a gate leaves the same lines whatever was set or lifted
\* before, for any advanced_config an administrator may have written, blank lines aside
\* (applyMtlsConfig): blocks never pile up, and what the first pass kept stays.
THEOREM GateReplaced ==
  ASSUME NEW lines \in Seq(Line), NEW before \in BOOLEAN, NEW on \in BOOLEAN
  PROVE  ApplyMtlsConfig(ApplyMtlsConfig(lines, before), on) = ApplyMtlsConfig(lines, on)
<1>1. Strip(lines) \in Seq(Kept)
  BY StripType
<1>2. Strip(Strip(lines)) = Strip(lines) /\ Strip(Strip(lines) \o Block) = Strip(lines)
  BY <1>1, StripBlock
<1>3. Strip(ApplyMtlsConfig(lines, before)) = Strip(lines)
  BY <1>2 DEF ApplyMtlsConfig, Block
<1> QED BY <1>3 DEF ApplyMtlsConfig

-----------------------------------------------------------------------------
(* What fits what.                                                         *)

\* What there is beside the block on a host of the model.
Rules == {<<>>, <<"rule">>}

\* The rules, with the block once or not at all, and with the CA if there is one.
GoodConfig(config, ca) == config \in Rules \/ (ca /\ \E r \in Rules : config = r \o Block)

\* A host a sync gave its certificate has an entry of a domain that names it.
Attached(x, h, st) ==
  x.auto /\ x.cert # 0 =>
    \E d \in Cert : Domain[d] = Domain[st[x.cert].of] /\ Covers(d, h)

\* A host, or a copy of one, fits the store.
HostFits(x, h, st, ca) ==
  x.cert <= Len(st) /\ GoodConfig(x.config, ca) /\ Attached(x, h, st)

\* The names and the files of an entry are of the domain it was made for.
EntryFits(e) ==
  /\ \A n \in e.names : n.base = Domain[e.of]
  /\ e.files.version # 0 => Domain[e.files.of] = Domain[e.of]

\* What each stage of an operation has in hand.
Shape(w) ==
  /\ w.pc = "idle" => w = Idle
  /\ w.pc \in {"create", "upload"} => w.kind \in {"sync", "export"}
  /\ w.pc = "certs" => w.kind = "sync"
  /\ w.pc = "write" => w.todo # {}
  /\ w.pc # "hosts" => \A h \in w.todo : w.copy[h].up
  /\ w.kind = "sync" /\ w.pc # "hosts" => \A h \in w.todo : Match(w.cert, h)
  /\ w.kind = "sync" /\ w.pc = "write" =>
       \A h \in w.todo : CoveredExactly(w.cert, h) \/ w.copy[h].cert = 0

\* A sync or an export that uploads, and a sync that attaches, has an entry of
\* the domain of its certificate.
HasEntry(w, st) ==
  w.pc = "upload" \/ (w.kind = "sync" /\ w.pc = "write") =>
    w.entry # 0 /\ Domain[st[w.entry].of] = Domain[w.cert]

WorkFits(w, st, ca) ==
  /\ Shape(w)
  /\ w.entry <= Len(st) /\ HasEntry(w, st)
  /\ w.kind = "gate" /\ w.on /\ w.pc = "write" => ca
  /\ \A h \in Host : HostFits(w.copy[h], h, st, ca)

\* The host bears the name of the certificate.
Named(c, h) == HostNames[h][1] = Domain[c]

\* What a sync that runs alone knows: its copies are the hosts as they are, with every
\* host of the certificate's own name among them until it writes; an entry is made
\* only where there is none by the nice name, and once it attaches, the entry has
\* its material and the hosts of that name are attached or to come.
AloneFits(w, hs, st) ==
  w.kind = "sync" =>
    /\ w.pc \in {"certs", "create", "upload", "write"} => \A h \in w.todo : w.copy[h] = hs[h]
    /\ w.pc \in {"certs", "create", "upload"} =>
         \A h \in Host : hs[h].up /\ Named(w.cert, h) => h \in w.todo
    /\ w.pc = "create" => \A e \in 1..Len(st) : ~(st[e].own /\ NiceName(st[e].of) = NiceName(w.cert))
    /\ w.pc = "write" =>
         /\ st[w.entry].files = FilesOf(w)
         /\ \A h \in Host : hs[h].up /\ Named(w.cert, h) => h \in w.todo \/ hs[h].cert = w.entry

\* The store of an operation's step: entries are added and none changes hands.
Grows(s, t) == Len(s) <= Len(t) /\ \A e \in 1..Len(s) : t[e].of = s[e].of

LEMMA AbsentType == Absent \in HostState /\ <<>> \in Seq(Line)
<1>1. <<>> \in Seq(Line)
  BY EmptySeq
<1> QED BY <1>1, MirrorsAssumption DEF Absent, HostState, Entry

LEMMA IdleType == Idle \in Work
<1>1. (CHOOSE c \in Cert : TRUE) \in Cert
  BY MirrorsAssumption
<1>2. MaxVersion \in Nat /\ MaxEntry \in Nat
  BY MirrorsAssumption
<1>3. [h \in Host |-> Absent] \in [Host -> HostState]
  BY AbsentType
<1>4. 0 \in Version /\ 0 \in Entry
  BY <1>2 DEF Version, Entry
<1> QED BY <1>1, <1>3, <1>4 DEF Idle, Work, Pc, Kind

LEMMA AbsentFits ==
  ASSUME NEW h \in Host, NEW st \in Seq(StoreEntry), NEW ca \in BOOLEAN
  PROVE  HostFits(Absent, h, st, ca)
  BY LenProperties DEF HostFits, Absent, GoodConfig, Rules, Attached

LEMMA IdleFits ==
  ASSUME NEW st \in Seq(StoreEntry), NEW ca \in BOOLEAN
  PROVE  WorkFits(Idle, st, ca)
<1>1. \A h \in Host : HostFits(Idle.copy[h], h, st, ca)
  BY AbsentFits DEF Idle
<1>2. Shape(Idle)
  BY DEF Idle, Shape
<1>3. Idle.entry <= Len(st) /\ HasEntry(Idle, st)
  BY LenProperties DEF Idle, HasEntry
<1> QED BY <1>1, <1>2, <1>3 DEF WorkFits, Idle

\* What fitted the store fits it when it grows, and the CA file stays.
LEMMA HostFitsGrows ==
  ASSUME NEW x \in HostState, NEW h \in Host,
         NEW s \in Seq(StoreEntry), NEW t \in Seq(StoreEntry), Grows(s, t),
         NEW ca \in BOOLEAN, NEW cb \in BOOLEAN, ca => cb, HostFits(x, h, s, ca)
  PROVE  HostFits(x, h, t, cb)
<1>1. Len(s) \in Nat /\ Len(t) \in Nat /\ Len(s) <= Len(t)
  BY LenProperties DEF Grows
<1>2. x.cert <= Len(s) /\ x.cert \in Nat
  BY DEF HostFits, HostState, Entry
<1>3. x.cert # 0 => t[x.cert].of = s[x.cert].of
  BY <1>1, <1>2 DEF Grows
<1>4. Attached(x, h, t)
  BY <1>3 DEF Attached, HostFits
<1>5. GoodConfig(x.config, cb)
  BY DEF GoodConfig, HostFits
<1> QED BY <1>1, <1>2, <1>4, <1>5 DEF HostFits

LEMMA WorkFitsGrows ==
  ASSUME NEW w \in Work,
         NEW s \in Seq(StoreEntry), NEW t \in Seq(StoreEntry), Grows(s, t),
         NEW ca \in BOOLEAN, NEW cb \in BOOLEAN, ca => cb, WorkFits(w, s, ca)
  PROVE  WorkFits(w, t, cb)
<1>1. Len(s) \in Nat /\ Len(t) \in Nat /\ Len(s) <= Len(t)
  BY LenProperties DEF Grows
<1>2. w.entry <= Len(s) /\ w.entry \in Nat
  BY DEF WorkFits, Work, Entry
<1>3. w.entry # 0 => t[w.entry].of = s[w.entry].of
  BY <1>1, <1>2 DEF Grows
<1>4. HasEntry(w, t)
  BY <1>3 DEF HasEntry, WorkFits
<1>5. ASSUME NEW h \in Host PROVE HostFits(w.copy[h], h, t, cb)
  <2>1. w.copy[h] \in HostState
    BY DEF Work
  <2>2. HostFits(w.copy[h], h, s, ca)
    BY DEF WorkFits
  <2> QED BY <2>1, <2>2, HostFitsGrows
<1> QED BY <1>1, <1>2, <1>4, <1>5 DEF WorkFits

-----------------------------------------------------------------------------
(* The parts of the invariant, and the steps that start an operation.      *)

\* The types, but for the history.
WorldType ==
  /\ material \in [Cert -> Version]
  /\ hosts \in [Host -> HostState]
  /\ store \in Seq(StoreEntry) /\ Len(store) <= MaxEntry
  /\ reuploads \in BOOLEAN /\ caFile \in BOOLEAN
  /\ job \in [Job -> Work] /\ started \in 0..MaxStart

\* Everything at NPM and in flight fits.
NpmFits ==
  /\ \A e \in 1..Len(store) : EntryFits(store[e])
  /\ \A h \in Host : HostFits(hosts[h], h, store, caFile)
  /\ \A j \in Job : WorkFits(job[j], store, caFile)

\* One operation moves and the others stay.
LEMMA JobMoves ==
  ASSUME NEW st \in Seq(StoreEntry), NEW ca \in BOOLEAN, job \in [Job -> Work],
         \A i \in Job : WorkFits(job[i], st, ca),
         NEW j \in Job, NEW w \in Work, job' = [job EXCEPT ![j] = w], WorkFits(w, st, ca)
  PROVE  job' \in [Job -> Work] /\ \A i \in Job : WorkFits(job'[i], st, ca)
  OBVIOUS

LEMMA NpmGrows ==
  ASSUME WorldType, NpmFits,
         NEW t \in Seq(StoreEntry), NEW cb \in BOOLEAN, Grows(store, t), caFile => cb
  PROVE  /\ \A h \in Host : HostFits(hosts[h], h, t, cb)
         /\ \A i \in Job : WorkFits(job[i], t, cb)
<1>1. ASSUME NEW h \in Host PROVE HostFits(hosts[h], h, t, cb)
  BY HostFitsGrows DEF WorldType, NpmFits
<1>2. ASSUME NEW i \in Job PROVE WorkFits(job[i], t, cb)
  BY WorkFitsGrows DEF WorldType, NpmFits
<1> QED BY <1>1, <1>2

\* An operation that was just begun fits.
LEMMA StartFits ==
  ASSUME NEW st \in Seq(StoreEntry), NEW ca \in BOOLEAN, NEW w \in Work,
         w.copy = Idle.copy, w.entry <= Len(st),
         w.pc = "hosts" \/ (w.todo = {} /\ w.pc = "create" /\ w.kind = "export")
  PROVE  WorkFits(w, st, ca)
<1>1. \A h \in Host : HostFits(w.copy[h], h, st, ca)
  BY AbsentFits DEF Idle
<1>2. Shape(w)
  BY DEF Shape
<1>3. HasEntry(w, st)
  BY DEF HasEntry
<1> QED BY <1>1, <1>2, <1>3 DEF WorkFits

LEMMA StartKeeps ==
  ASSUME WorldType, NpmFits, NEW j \in Job, NEW w \in Work,
         w.copy = Idle.copy, w.entry <= Len(store),
         w.pc = "hosts" \/ (w.todo = {} /\ w.pc = "create" /\ w.kind = "export"),
         Start(j, w), UNCHANGED <<material, npm, reuploads>>
  PROVE  WorldType' /\ NpmFits'
<1>1. WorkFits(w, store, caFile)
  BY StartFits DEF WorldType
<1>2. job' \in [Job -> Work] /\ \A i \in Job : WorkFits(job'[i], store, caFile)
  BY <1>1, JobMoves DEF Start, WorldType, NpmFits
<1>3. started' \in 0..MaxStart
  BY MirrorsAssumption DEF Start, WorldType
<1> QED BY <1>2, <1>3 DEF WorldType, NpmFits, npm

LEMMA StartSyncKeeps ==
  ASSUME WorldType, NpmFits, NEW j \in Job, NEW c \in Cert, StartSync(j, c)
  PROVE  WorldType' /\ NpmFits'
<1> DEFINE w == [Idle EXCEPT !.pc = "hosts", !.cert = c, !.version = material[c], !.own = TRUE]
<1>1. material[c] \in Version /\ Len(store) \in Nat
  BY LenProperties DEF WorldType
<1>2. /\ w \in Work /\ w.copy = Idle.copy /\ w.entry = 0 /\ w.pc = "hosts"
  BY <1>1, IdleType DEF Work, Idle, Pc
<1> HIDE DEF w
<1>3. Start(j, w) /\ UNCHANGED <<material, npm, reuploads>>
  BY DEF StartSync, w
<1> QED BY <1>1, <1>2, <1>3, StartKeeps

LEMMA StartExportKeeps ==
  ASSUME WorldType, NpmFits, NEW j \in Job, NEW c \in Cert, NEW own \in BOOLEAN,
         StartExport(j, c, own)
  PROVE  WorldType' /\ NpmFits'
<1> DEFINE w == [Idle EXCEPT !.pc = "create", !.kind = "export", !.cert = c,
                             !.version = material[c], !.own = own]
<1>1. material[c] \in Version /\ Len(store) \in Nat
  BY LenProperties DEF WorldType
<1>2. /\ w \in Work /\ w.copy = Idle.copy /\ w.entry = 0 /\ w.pc = "create"
      /\ w.kind = "export" /\ w.todo = {}
  BY <1>1, IdleType DEF Work, Idle, Pc, Kind
<1> HIDE DEF w
<1>3. Start(j, w) /\ UNCHANGED <<material, npm, reuploads>>
  BY DEF StartExport, w
<1> QED BY <1>1, <1>2, <1>3, StartKeeps

LEMMA StartEditKeeps ==
  ASSUME WorldType, NpmFits, NEW j \in Job, NEW h \in Host, NEW e \in Entry,
         NEW given \in BOOLEAN, StartEdit(j, h, given, e)
  PROVE  WorldType' /\ NpmFits'
<1> DEFINE w == [Idle EXCEPT !.pc = "hosts", !.kind = "edit", !.todo = {h},
                             !.on = given, !.entry = e]
<1>1. Len(store) \in Nat
  BY LenProperties DEF WorldType
<1>2. w \in Work /\ w.copy = Idle.copy /\ w.entry = e /\ w.pc = "hosts"
  BY <1>1, IdleType DEF Work, Idle, Pc, Kind
<1> HIDE DEF w
<1>3. Start(j, w) /\ UNCHANGED <<material, npm, reuploads>>
  BY DEF StartEdit, w
<1>4. e <= Len(store)
  BY <1>1 DEF StartEdit
<1> QED BY <1>1, <1>2, <1>3, <1>4, StartKeeps

LEMMA StartDeleteKeeps ==
  ASSUME WorldType, NpmFits, NEW j \in Job, NEW h \in Host, StartDelete(j, h)
  PROVE  WorldType' /\ NpmFits'
<1> DEFINE w == [Idle EXCEPT !.pc = "hosts", !.kind = "delete", !.todo = {h}]
<1>1. Len(store) \in Nat
  BY LenProperties DEF WorldType
<1>2. w \in Work /\ w.copy = Idle.copy /\ w.entry = 0 /\ w.pc = "hosts"
  BY <1>1, IdleType DEF Work, Idle, Pc, Kind
<1> HIDE DEF w
<1>3. Start(j, w) /\ UNCHANGED <<material, npm, reuploads>>
  BY DEF StartDelete, w
<1> QED BY <1>1, <1>2, <1>3, StartKeeps

LEMMA StartGateKeeps ==
  ASSUME WorldType, NpmFits, NEW j \in Job, NEW hs \in SUBSET Host, NEW on \in BOOLEAN,
         StartGate(j, hs, on)
  PROVE  WorldType' /\ NpmFits'
<1> DEFINE w == [Idle EXCEPT !.pc = "hosts", !.kind = "gate", !.todo = hs, !.on = on]
<1>1. Len(store) \in Nat
  BY LenProperties DEF WorldType
<1>2. w \in Work /\ w.copy = Idle.copy /\ w.entry = 0 /\ w.pc = "hosts"
  BY <1>1, IdleType DEF Work, Idle, Pc, Kind
<1> HIDE DEF w
<1>3. Start(j, w) /\ UNCHANGED <<material, npm, reuploads>>
  BY DEF StartGate, w
<1> QED BY <1>1, <1>2, <1>3, StartKeeps

LEMMA IssueKeeps ==
  ASSUME WorldType, NpmFits, NEW c \in Cert, Issue(c)
  PROVE  WorldType' /\ NpmFits'
<1>1. material' \in [Cert -> Version]
  BY MirrorsAssumption DEF Issue, WorldType, Version
<1>2. started' \in 0..MaxStart
  BY MirrorsAssumption DEF Issue, WorldType
<1> QED BY <1>1, <1>2 DEF Issue, WorldType, NpmFits, npm

LEMMA CreateHostKeeps ==
  ASSUME WorldType, NpmFits, NEW h \in Host, NEW e \in Entry, NEW forced \in BOOLEAN,
         CreateHost(h, e, forced)
  PROVE  WorldType' /\ NpmFits'
<1> DEFINE x == [Absent EXCEPT !.up = TRUE, !.cert = e, !.forced = forced]
<1>1. x \in HostState /\ x.cert = e /\ x.config = <<>> /\ ~x.auto
  BY AbsentType DEF Absent, HostState
<1> HIDE DEF x
<1>2. hosts' = [hosts EXCEPT ![h] = x]
  BY DEF CreateHost, x
<1>3. e <= Len(store)
  BY LenProperties DEF CreateHost, WorldType
<1>4. HostFits(x, h, store, caFile)
  BY <1>1, <1>3 DEF HostFits, GoodConfig, Rules, Attached
<1>5. started' \in 0..MaxStart
  BY MirrorsAssumption DEF CreateHost, WorldType
<1>6. hosts' \in [Host -> HostState]
  BY <1>1, <1>2 DEF WorldType
<1>7. \A g \in Host : HostFits(hosts'[g], g, store, caFile)
  BY <1>2, <1>4 DEF NpmFits, WorldType
<1> QED BY <1>5, <1>6, <1>7 DEF CreateHost, WorldType, NpmFits

-----------------------------------------------------------------------------
(* The lists and the certificate at NPM.                                   *)

\* One lemma per action: it keeps the types and the fit.
LEMMA FailsKeeps ==
  ASSUME WorldType, NpmFits, NEW j \in Job, Fails(j)
  PROVE  WorldType' /\ NpmFits'
<1>1. WorkFits(Idle, store, caFile) /\ Idle \in Work
  BY IdleFits, IdleType DEF WorldType
<1>2. job' \in [Job -> Work] /\ \A i \in Job : WorkFits(job'[i], store, caFile)
  BY <1>1, JobMoves DEF Fails, Goto, WorldType, NpmFits
<1> QED BY <1>2 DEF Fails, Goto, WorldType, NpmFits, npm

LEMMA ListHostsKeeps ==
  ASSUME WorldType, NpmFits, NEW j \in Job, ListHosts(j)
  PROVE  WorldType' /\ NpmFits'
<1> DEFINE w == job[j]
           asked == IF w.kind = "sync" THEN {h \in Host : Match(w.cert, h)} ELSE w.todo
           found == {h \in asked : hosts[h].up}
           x == [w EXCEPT !.pc = IF w.kind = "sync" THEN "certs" ELSE "write",
                          !.todo = found, !.copy = Copies(found)]
           y == IF found = {} THEN Idle ELSE x
<1>1. w \in Work /\ WorkFits(w, store, caFile) /\ w.pc = "hosts"
  BY DEF WorldType, NpmFits, ListHosts
<1>2. /\ job' = [job EXCEPT ![j] = y]
      /\ caFile' = (caFile \/ (w.kind = "gate" /\ w.on /\ found # {}))
      /\ UNCHANGED <<material, hosts, store, reuploads, started>>
  BY DEF ListHosts, Goto
<1>3. /\ asked \in SUBSET Host /\ found \in SUBSET Host
      /\ \A h \in found : hosts[h].up
      /\ w.kind = "sync" => \A h \in found : Match(w.cert, h)
  BY <1>1 DEF Work
<1>4. caFile' \in BOOLEAN /\ (caFile => caFile')
      /\ (found # {} /\ w.kind = "gate" /\ w.on => caFile')
  BY <1>2 DEF WorldType
<1>5. store \in Seq(StoreEntry) /\ Grows(store, store)
  BY LenProperties DEF WorldType, Grows
<1> HIDE DEF found, asked
<1> DEFINE cs == Copies(found)
<1>6. cs \in [Host -> HostState] /\ \A h \in found : cs[h] = hosts[h]
  BY <1>3, AbsentType DEF Copies, WorldType
<1>7. /\ \A h \in Host : HostFits(hosts[h], h, store, caFile')
      /\ \A i \in Job : WorkFits(job[i], store, caFile')
  BY <1>4, <1>5, NpmGrows
<1>8. \A h \in Host : HostFits(cs[h], h, store, caFile')
  BY <1>4, <1>5, <1>7, AbsentFits DEF Copies
<1> HIDE DEF cs
<1> DEFINE p == IF w.kind = "sync" THEN "certs" ELSE "write"
<1>9. /\ x.pc = p /\ x.todo = found /\ x.copy = cs /\ x.kind = w.kind
      /\ x.cert = w.cert /\ x.entry = w.entry /\ x.on = w.on
      /\ x \in Work
  BY <1>1, <1>3, <1>6 DEF Work, Pc, cs
<1> HIDE DEF w, x
<1>10. ASSUME found # {} PROVE WorkFits(x, store, caFile')
  <2>1. Shape(x)
    BY <1>3, <1>6, <1>9, <1>10 DEF Shape
  <2>2. HasEntry(x, store)
    BY <1>9 DEF HasEntry
  <2>3. x.entry <= Len(store)
    BY <1>1, <1>9 DEF WorkFits
  <2> QED BY <1>4, <1>8, <1>9, <1>10, <2>1, <2>2, <2>3 DEF WorkFits
<1>11. WorkFits(y, store, caFile') /\ y \in Work
  BY <1>4, <1>5, <1>9, <1>10, IdleFits, IdleType
<1> HIDE DEF y
<1>12. job' \in [Job -> Work] /\ \A i \in Job : WorkFits(job'[i], store, caFile')
  <2>1. job \in [Job -> Work] /\ job' = [job EXCEPT ![j] = y]
    BY <1>2 DEF WorldType
  <2>2. \A i \in Job : job'[i] = job[i] \/ job'[i] = y
    BY <2>1
  <2>3. job' \in [Job -> Work]
    BY <1>11, <2>1
  <2>4. \A i \in Job : WorkFits(job'[i], store, caFile')
    BY <1>7, <1>11, <2>2, Zenon
  <2> QED BY <2>3, <2>4
<1> QED BY <1>2, <1>4, <1>7, <1>12 DEF WorldType, NpmFits

\* An entry that is recognised as a certificate's was made for its domain.
LEMMA ExistingFits ==
  ASSUME store \in Seq(StoreEntry), \A e \in 1..Len(store) : EntryFits(store[e]),
         NEW c \in Cert, Existing(c) # {}
  PROVE  LET e == CHOOSE e \in Existing(c) : \A f \in Existing(c) : e <= f IN
         e \in 1..Len(store) /\ Domain[store[e].of] = Domain[c]
<1>1. Len(store) \in Nat
  BY LenProperties
<1>2. Existing(c) \in SUBSET (1..Len(store))
  BY DEF Existing, ByName, ByDomains
<1>3. \E e \in Existing(c) : \A f \in Existing(c) : e <= f
  BY <1>1, <1>2, LeastNumber
<1>4. \A e \in Existing(c) : Domain[store[e].of] = Domain[c]
  <2>1. ASSUME NEW e \in ByName(c) PROVE Domain[store[e].of] = Domain[c]
    BY DEF ByName, NiceName
  <2>2. ASSUME NEW e \in ByDomains(c) PROVE Domain[store[e].of] = Domain[c]
    <3>1. Plain(Domain[c]) \in store[e].names /\ EntryFits(store[e])
      BY DEF ByDomains, NamesOf
    <3>2. Plain(Domain[c]).base = Domain[store[e].of]
      BY <3>1 DEF EntryFits
    <3> QED BY <3>2 DEF Plain
  <2> QED BY <2>1, <2>2 DEF Existing
<1> QED BY <1>2, <1>3, <1>4

LEMMA ListCertsKeeps ==
  ASSUME WorldType, NpmFits, NEW j \in Job, ListCerts(j)
  PROVE  WorldType' /\ NpmFits'
<1> DEFINE w == job[j]
           E == CHOOSE e \in Existing(w.cert) : \A f \in Existing(w.cert) : e <= f
<1>1. w \in Work /\ WorkFits(w, store, caFile) /\ w.pc = "certs" /\ w.kind = "sync"
  BY DEF WorldType, NpmFits, ListCerts, WorkFits, Shape
<1>2. UNCHANGED <<material, npm, reuploads, started>>
  BY DEF ListCerts, Goto
<1>3. PICK x \in Work : job' = [job EXCEPT ![j] = x] /\ WorkFits(x, store, caFile)
  <2>1. CASE Existing(w.cert) # {} /\ Goto(j, [w EXCEPT !.pc = "upload", !.entry = E])
    <3>0. w.cert \in Cert
      BY <1>1 DEF Work
    <3>1. E \in 1..Len(store) /\ Domain[store[E].of] = Domain[w.cert]
      BY <2>1, <3>0, ExistingFits DEF WorldType, NpmFits
    <3> HIDE DEF E
    <3>2. Len(store) \in Nat /\ Len(store) <= MaxEntry /\ MaxEntry \in Nat
      BY LenProperties, MirrorsAssumption DEF WorldType
    <3> DEFINE x == [w EXCEPT !.pc = "upload", !.entry = E]
    <3>3. /\ x \in Work /\ x.pc = "upload" /\ x.kind = w.kind /\ x.todo = w.todo
          /\ x.copy = w.copy /\ x.cert = w.cert /\ x.entry = E
      <4>1. E \in Entry
        BY <3>1, <3>2 DEF Entry
      <4> QED BY <1>1, <4>1 DEF Work, Pc
    <3> HIDE DEF x, w
    <3>4. Shape(x)
      BY <1>1, <3>3 DEF Shape, WorkFits
    <3>5. HasEntry(x, store) /\ x.entry <= Len(store)
      BY <3>1, <3>2, <3>3 DEF HasEntry
    <3>6. WorkFits(x, store, caFile)
      BY <1>1, <3>3, <3>4, <3>5 DEF WorkFits
    <3> QED BY <2>1, <3>3, <3>6 DEF Goto, x, w
  <2>2. CASE Goto(j, [w EXCEPT !.pc = "create"])
    <3> DEFINE x == [w EXCEPT !.pc = "create"]
    <3>3. /\ x \in Work /\ x.pc = "create" /\ x.kind = w.kind /\ x.todo = w.todo
          /\ x.copy = w.copy /\ x.cert = w.cert /\ x.entry = w.entry
      BY <1>1 DEF Work, Pc
    <3> HIDE DEF x, w
    <3>4. Shape(x)
      BY <1>1, <3>3 DEF Shape, WorkFits
    <3>5. HasEntry(x, store)
      BY <3>3 DEF HasEntry
    <3>6. WorkFits(x, store, caFile)
      BY <1>1, <3>3, <3>4, <3>5 DEF WorkFits
    <3> QED BY <2>2, <3>3, <3>6 DEF Goto, x, w
  <2> QED BY <2>1, <2>2 DEF ListCerts
<1>4. job' \in [Job -> Work] /\ \A i \in Job : WorkFits(job'[i], store, caFile)
  BY <1>3, JobMoves DEF WorldType, NpmFits
<1> QED BY <1>2, <1>4 DEF WorldType, NpmFits, npm

LEMMA CreateEntryKeeps ==
  ASSUME WorldType, NpmFits, NEW j \in Job, CreateEntry(j)
  PROVE  WorldType' /\ NpmFits' /\ Grows(store, store')
<1> DEFINE w == job[j]
           n == Len(store)
           fs == IF reuploads THEN NoFiles ELSE FilesOf(w)
           e == [of |-> w.cert, own |-> w.own, names |-> NamesOf(w.cert), files |-> fs]
           x == [w EXCEPT !.pc = "upload", !.entry = n + 1]
<1>1. /\ w \in Work /\ WorkFits(w, store, caFile) /\ w.pc = "create"
      /\ w.kind \in {"sync", "export"} /\ w.cert \in Cert /\ w.own \in BOOLEAN
      /\ w.version \in Version
  BY DEF WorldType, NpmFits, CreateEntry, WorkFits, Shape, Work
<1>2. /\ job' = [job EXCEPT ![j] = x] /\ store' = Append(store, e)
      /\ UNCHANGED <<material, hosts, caFile, reuploads, started>>
  BY DEF CreateEntry, Goto
<1>3. n \in Nat /\ n < MaxEntry /\ MaxEntry \in Nat /\ MaxVersion \in Nat
  BY LenProperties, MirrorsAssumption DEF WorldType, CreateEntry
<1>4. fs \in Files /\ (fs.version # 0 => fs.of = w.cert)
  <2>1. NoFiles \in Files /\ NoFiles.version = 0
    BY <1>3, MirrorsAssumption DEF NoFiles, Files, Version
  <2>2. FilesOf(w) \in Files /\ FilesOf(w).of = w.cert
    BY <1>1 DEF FilesOf, Files
  <2> QED BY <2>1, <2>2
<1> HIDE DEF fs
<1>5. NamesOf(w.cert) \in SUBSET Names /\ \A m \in NamesOf(w.cert) : m.base = Domain[w.cert]
  <2>1. Domain[w.cert] \in {Domain[c] : c \in Cert}
    BY <1>1
  <2>2. /\ Plain(Domain[w.cert]) \in Names /\ Plain(Domain[w.cert]).base = Domain[w.cert]
        /\ [base |-> Domain[w.cert], wild |-> TRUE] \in Names
    BY <2>1 DEF Names, Plain
  <2>3. [base |-> Domain[w.cert], wild |-> TRUE].base = Domain[w.cert]
    OBVIOUS
  <2> DEFINE p == Plain(Domain[w.cert])
             q == [base |-> Domain[w.cert], wild |-> TRUE]
  <2>4. NamesOf(w.cert) = {p} \cup (IF w.cert \in Wild THEN {q} ELSE {})
    BY DEF NamesOf
  <2>5. p \in Names /\ q \in Names /\ p.base = Domain[w.cert] /\ q.base = Domain[w.cert]
    BY <2>2, <2>3
  <2> HIDE DEF w, p, q
  <2> QED BY <2>4, <2>5
<1>6. e \in StoreEntry /\ EntryFits(e) /\ e.of = w.cert
  BY <1>1, <1>4, <1>5 DEF StoreEntry, EntryFits
<1> HIDE DEF e
<1>7. /\ store' \in Seq(StoreEntry) /\ Len(store') = n + 1 /\ store'[n + 1] = e
      /\ \A i \in 1..n : store'[i] = store[i]
  BY <1>2, <1>3, <1>6, AppendProperties DEF WorldType
<1>8. Grows(store, store')
  BY <1>3, <1>7 DEF Grows
<1>9. /\ \A h \in Host : HostFits(hosts[h], h, store', caFile)
      /\ \A i \in Job : WorkFits(job[i], store', caFile)
  BY <1>7, <1>8, NpmGrows DEF WorldType
<1>10. /\ x \in Work /\ x.pc = "upload" /\ x.kind = w.kind /\ x.todo = w.todo
       /\ x.copy = w.copy /\ x.cert = w.cert /\ x.entry = n + 1
  <2>1. n + 1 \in Entry
    BY <1>3 DEF Entry
  <2> HIDE DEF n
  <2> QED BY <1>1, <2>1 DEF Work, Pc
<1> HIDE DEF x
<1>11. WorkFits(w, store', caFile)
  BY <1>9
<1> HIDE DEF w
<1>12. Shape(x)
  BY <1>1, <1>10 DEF Shape, WorkFits
<1>13. HasEntry(x, store') /\ x.entry <= Len(store')
  BY <1>3, <1>6, <1>7, <1>10 DEF HasEntry
<1>14. WorkFits(x, store', caFile)
  BY <1>1, <1>10, <1>11, <1>12, <1>13 DEF WorkFits
<1>15. job' \in [Job -> Work] /\ \A i \in Job : WorkFits(job'[i], store', caFile)
  BY <1>2, <1>7, <1>9, <1>10, <1>14, JobMoves DEF WorldType
<1>16. \A i \in 1..Len(store') : EntryFits(store'[i])
  BY <1>3, <1>6, <1>7 DEF NpmFits
<1>17. Len(store') <= MaxEntry
  BY <1>3, <1>7
<1> HIDE DEF n
<1> QED BY <1>2, <1>7, <1>8, <1>9, <1>15, <1>16, <1>17 DEF WorldType, NpmFits

LEMMA AfterUploadFits ==
  ASSUME NEW w \in Work, NEW st \in Seq(StoreEntry), NEW ca \in BOOLEAN,
         WorkFits(w, st, ca), w.pc = "upload"
  PROVE  AfterUpload(w) \in Work /\ WorkFits(AfterUpload(w), st, ca)
<1> DEFINE cs == [h \in Host |-> IF h \in Wanted(w) THEN w.copy[h] ELSE Absent]
           x == [w EXCEPT !.pc = "write", !.todo = Wanted(w), !.copy = cs]
<1>1. Idle \in Work /\ WorkFits(Idle, st, ca)
  BY IdleType, IdleFits
<1>2. ASSUME w.kind # "export", Wanted(w) # {} PROVE x \in Work /\ WorkFits(x, st, ca)
  <2>1. /\ w.kind = "sync" /\ w.todo \in SUBSET Host
        /\ \A h \in w.todo : w.copy[h].up /\ Match(w.cert, h)
    BY <1>2 DEF WorkFits, Shape, Work
  <2>2. /\ Wanted(w) \in SUBSET w.todo
        /\ \A h \in Wanted(w) : CoveredExactly(w.cert, h) \/ w.copy[h].cert = 0
    BY DEF Wanted
  <2>3. cs \in [Host -> HostState]
    BY AbsentType DEF Work
  <2>4. \A h \in Wanted(w) : cs[h] = w.copy[h]
    BY <2>1, <2>2
  <2>5. \A h \in Host : HostFits(cs[h], h, st, ca)
    BY AbsentFits DEF WorkFits
  <2> HIDE DEF cs
  <2>6. /\ x \in Work /\ x.pc = "write" /\ x.todo = Wanted(w) /\ x.copy = cs
        /\ x.kind = "sync" /\ x.cert = w.cert /\ x.entry = w.entry
    BY <2>1, <2>2, <2>3 DEF Work, Pc
  <2> HIDE DEF x
  <2>7. Shape(x)
    BY <1>2, <2>1, <2>2, <2>4, <2>6 DEF Shape
  <2>8. HasEntry(x, st) /\ x.entry <= Len(st)
    BY <2>6 DEF HasEntry, WorkFits
  <2> QED BY <2>5, <2>6, <2>7, <2>8 DEF WorkFits
<1> QED BY <1>1, <1>2 DEF AfterUpload

LEMMA UploadKeeps ==
  ASSUME WorldType, NpmFits, NEW j \in Job, Upload(j)
  PROVE  WorldType' /\ NpmFits' /\ Grows(store, store')
<1> DEFINE w == job[j]
           n == w.entry
           u == UploadedEntry(w)
<1>1. /\ w \in Work /\ WorkFits(w, store, caFile) /\ w.pc = "upload"
      /\ w.cert \in Cert /\ w.version \in Version
  BY DEF WorldType, NpmFits, Upload, Work
<1>2. /\ job' = [job EXCEPT ![j] = AfterUpload(w)] /\ store' = [store EXCEPT ![n] = u]
      /\ UNCHANGED <<material, hosts, caFile, reuploads, started>>
  BY DEF Upload, Goto
<1>3. Len(store) \in Nat /\ n \in 1..Len(store) /\ Domain[store[n].of] = Domain[w.cert]
  BY <1>1, LenProperties DEF WorldType, WorkFits, HasEntry, Work, Entry
<1>4. store[n] \in StoreEntry
  BY <1>3, ElementOfSeq DEF WorldType
<1>5. FilesOf(w) \in Files /\ FilesOf(w).of = w.cert
  BY <1>1 DEF FilesOf, Files
<1> DEFINE names == IF reuploads THEN {Plain(Domain[w.cert])} ELSE NamesOf(w.cert)
<1>6. names \in SUBSET Names /\ \A m \in names : m.base = Domain[w.cert]
  <2>1. Domain[w.cert] \in {Domain[c] : c \in Cert}
    BY <1>1
  <2> DEFINE p == Plain(Domain[w.cert])
             q == [base |-> Domain[w.cert], wild |-> TRUE]
  <2>2. p \in Names /\ q \in Names /\ p.base = Domain[w.cert] /\ q.base = Domain[w.cert]
    BY <2>1 DEF Names, Plain
  <2>4. NamesOf(w.cert) = {p} \cup (IF w.cert \in Wild THEN {q} ELSE {})
    BY DEF NamesOf
  <2> HIDE DEF w, p, q
  <2>5. NamesOf(w.cert) \in SUBSET {p, q}
    BY <2>4
  <2>6. names \in SUBSET {p, q}
    BY <2>5 DEF p
  <2> HIDE DEF names
  <2> QED BY <2>2, <2>6
<1> HIDE DEF names
<1>7. u \in StoreEntry /\ u.of = store[n].of /\ u.names = names /\ u.files = FilesOf(w)
  <2>1. u = [store[n] EXCEPT !.files = FilesOf(w), !.names = names]
    BY DEF UploadedEntry, names
  <2> DEFINE e == store[n]
  <2>2. e \in StoreEntry
    BY <1>4
  <2>3. u = [e EXCEPT !.files = FilesOf(w), !.names = names]
    BY <2>1
  <2> HIDE DEF e, u, w
  <2>4. u \in StoreEntry /\ u.of = e.of /\ u.names = names /\ u.files = FilesOf(w)
    BY <1>5, <1>6, <2>2, <2>3 DEF StoreEntry
  <2> QED BY <2>4 DEF e
<1> HIDE DEF u
<1>8. EntryFits(u)
  BY <1>3, <1>5, <1>6, <1>7 DEF EntryFits
<1>9. /\ store' \in Seq(StoreEntry) /\ Len(store') = Len(store)
      /\ \A i \in 1..Len(store) : store'[i] = IF i = n THEN u ELSE store[i]
  BY <1>2, <1>3, <1>7, ExceptSeq DEF WorldType
<1>10. Grows(store, store')
  BY <1>3, <1>7, <1>9 DEF Grows
<1>11. /\ \A h \in Host : HostFits(hosts[h], h, store', caFile)
       /\ \A i \in Job : WorkFits(job[i], store', caFile)
  BY <1>9, <1>10, NpmGrows DEF WorldType
<1>12. WorkFits(w, store', caFile)
  BY <1>11
<1>13. AfterUpload(w) \in Work /\ WorkFits(AfterUpload(w), store', caFile)
  BY <1>1, <1>9, <1>12, AfterUploadFits DEF WorldType
<1>14. job' \in [Job -> Work] /\ \A i \in Job : WorkFits(job'[i], store', caFile)
  BY <1>2, <1>9, <1>11, <1>13, JobMoves DEF WorldType
<1>15. \A i \in 1..Len(store') : EntryFits(store'[i])
  BY <1>8, <1>9 DEF NpmFits
<1> QED BY <1>2, <1>9, <1>10, <1>11, <1>14, <1>15 DEF WorldType, NpmFits

LEMMA DoneFits ==
  ASSUME NEW w \in Work, NEW st \in Seq(StoreEntry), NEW ca \in BOOLEAN,
         WorkFits(w, st, ca), w.pc = "write", NEW h \in w.todo
  PROVE  Done(w, h) \in Work /\ WorkFits(Done(w, h), st, ca)
<1> DEFINE cs == [w.copy EXCEPT ![h] = Absent]
           x == [w EXCEPT !.todo = w.todo \ {h}, !.copy = cs]
<1>1. Idle \in Work /\ WorkFits(Idle, st, ca)
  BY IdleType, IdleFits
<1>2. /\ h \in Host /\ w.todo \in SUBSET Host /\ w.copy \in [Host -> HostState]
      /\ \A g \in w.todo : w.copy[g].up
  BY DEF Work, WorkFits, Shape
<1>3. cs \in [Host -> HostState] /\ \A g \in Host : cs[g] = IF g = h THEN Absent ELSE w.copy[g]
  BY <1>2, AbsentType
<1>4. \A g \in Host : HostFits(cs[g], g, st, ca)
  BY <1>3, AbsentFits DEF WorkFits
<1>5. Done(w, h) = IF w.todo = {h} THEN Idle ELSE x
  BY DEF Done
<1> HIDE DEF cs
<1>6. ASSUME w.todo # {h} PROVE x \in Work /\ WorkFits(x, st, ca)
  <2>1. /\ x \in Work /\ x.pc = "write" /\ x.todo = w.todo \ {h} /\ x.copy = cs
        /\ x.kind = w.kind /\ x.cert = w.cert /\ x.entry = w.entry /\ x.on = w.on
    BY <1>2, <1>3 DEF Work
  <2>2. x.todo # {}
    BY <1>6, <2>1
  <2> HIDE DEF x
  <2>3. \A g \in x.todo : g \in w.todo /\ x.copy[g] = w.copy[g]
    BY <1>2, <1>3, <2>1
  <2>4. Shape(x)
    BY <1>2, <2>1, <2>2, <2>3 DEF Shape, WorkFits
  <2>5. HasEntry(x, st) /\ x.entry <= Len(st)
    BY <2>1 DEF HasEntry, WorkFits
  <2> QED BY <1>4, <2>1, <2>4, <2>5 DEF WorkFits
<1> QED BY <1>1, <1>5, <1>6

LEMMA PutKeeps ==
  ASSUME WorldType, NpmFits, NEW j \in Job, NEW h \in Host, NEW state \in HostState,
         Put(j, h, state), HostFits(state, h, store, caFile)
  PROVE  WorldType' /\ NpmFits'
<1> DEFINE x == [state EXCEPT !.forced = TRUE]
           d == Done(job[j], h)
<1>1. /\ x \in HostState /\ x.cert = state.cert /\ x.config = state.config
      /\ x.auto = state.auto
  BY DEF HostState
<1> HIDE DEF x
<1>2. /\ hosts' = [hosts EXCEPT ![h] = x] /\ job' = [job EXCEPT ![j] = d]
      /\ UNCHANGED <<material, store, caFile, reuploads, started>>
  BY DEF Put, Goto, x
<1>3. HostFits(x, h, store, caFile)
  BY <1>1 DEF HostFits, Attached
<1>4. hosts' \in [Host -> HostState] /\ \A g \in Host : HostFits(hosts'[g], g, store, caFile)
  BY <1>1, <1>2, <1>3 DEF WorldType, NpmFits
<1>5. job[j] \in Work /\ job[j].pc = "write" /\ h \in job[j].todo /\ WorkFits(job[j], store, caFile)
  BY DEF Put, WorldType, NpmFits
<1>6. d \in Work /\ WorkFits(d, store, caFile)
  BY <1>5, DoneFits DEF WorldType
<1> HIDE DEF d
<1>7. job' \in [Job -> Work] /\ \A i \in Job : WorkFits(job'[i], store, caFile)
  BY <1>2, <1>6, JobMoves DEF WorldType, NpmFits
<1> QED BY <1>2, <1>4, <1>7 DEF WorldType, NpmFits

-----------------------------------------------------------------------------
(* The writes.                                                             *)

LEMMA AttachKeeps ==
  ASSUME WorldType, NpmFits, NEW j \in Job, NEW h \in Host, Attach(j, h)
  PROVE  WorldType' /\ NpmFits'
<1> DEFINE w == job[j]
           x == w.copy[h]
           y == [x EXCEPT !.cert = w.entry, !.auto = TRUE]
<1>1. /\ w \in Work /\ WorkFits(w, store, caFile) /\ w.kind = "sync" /\ w.pc = "write"
      /\ h \in w.todo /\ x \in HostState /\ w.entry \in Entry
  BY DEF WorldType, NpmFits, Attach, Put, Work
<1>2. HostFits(x, h, store, caFile) /\ w.entry <= Len(store)
      /\ Domain[store[w.entry].of] = Domain[w.cert] /\ Match(w.cert, h) /\ w.cert \in Cert
  BY <1>1 DEF WorkFits, HasEntry, Shape, Work
<1>3. Covers(w.cert, h)
  BY <1>2 DEF Match, Covers, NamesOf, Plain, WildcardCovers, IsStrictPrefix
<1> HIDE DEF x
<1>4. /\ y \in HostState /\ y.cert = w.entry /\ y.config = x.config
  BY <1>1 DEF HostState
<1>5. Put(j, h, y)
  BY DEF Attach, x
<1> HIDE DEF y, w
<1>6. HostFits(y, h, store, caFile)
  BY <1>2, <1>3, <1>4 DEF HostFits, Attached
<1> QED BY <1>4, <1>5, <1>6, PutKeeps

LEMMA EditKeeps ==
  ASSUME WorldType, NpmFits, NEW j \in Job, NEW h \in Host, Edit(j, h)
  PROVE  WorldType' /\ NpmFits'
<1> DEFINE w == job[j]
           x == w.copy[h]
           y == [x EXCEPT !.cert = w.entry, !.auto = FALSE]
           z == IF ~w.on THEN x ELSE y
<1>1. /\ w \in Work /\ WorkFits(w, store, caFile)
      /\ x \in HostState /\ w.entry \in Entry
  BY DEF WorldType, NpmFits, Work
<1>2. HostFits(x, h, store, caFile) /\ w.entry <= Len(store)
  BY <1>1 DEF WorkFits
<1>5. Put(j, h, z)
  BY DEF Edit, x
<1> HIDE DEF x
<1>4. /\ y \in HostState /\ y.cert = w.entry /\ y.config = x.config /\ y.auto = FALSE
  BY <1>1 DEF HostState
<1> HIDE DEF y
<1>6. HostFits(y, h, store, caFile)
  BY <1>2, <1>4 DEF HostFits, Attached
<1>7. z \in HostState /\ HostFits(z, h, store, caFile)
  BY <1>1, <1>2, <1>4, <1>6
<1> HIDE DEF z
<1> QED BY <1>5, <1>7, PutKeeps

\* Setting or lifting the gate of a fitting host leaves it fitting.
LEMMA GateConfig ==
  ASSUME NEW config \in Seq(Line), NEW ca \in BOOLEAN, GoodConfig(config, ca),
         NEW on \in BOOLEAN, on => ca
  PROVE  /\ ApplyMtlsConfig(config, on) \in Seq(Line)
         /\ GoodConfig(ApplyMtlsConfig(config, on), ca)
<1>1. \A r \in Rules : r \in Seq(Kept)
  <2>1. <<>> \in Seq(Kept) /\ "rule" \in Kept
    BY EmptySeq DEF Kept, Line
  <2>2. <<"rule">> \in Seq(Kept)
    BY <2>1
  <2> QED BY <2>1, <2>2 DEF Rules
<1>2. PICK r \in Rules : config = r \/ config = r \o Block
  BY DEF GoodConfig
<1>3. Strip(config) = r
  BY <1>1, <1>2, StripBlock
<1>4. ApplyMtlsConfig(config, on) = IF on THEN r \o Block ELSE r
  BY <1>3 DEF ApplyMtlsConfig, Block
<1>5. Block \in Seq(Line) /\ r \in Seq(Line)
  BY <1>1, SeqMonotonic DEF Block, Line, Kept
<1>6. r \o Block \in Seq(Line)
  BY <1>5, ConcatProperties
<1> QED BY <1>2, <1>4, <1>5, <1>6 DEF GoodConfig

LEMMA GateKeeps ==
  ASSUME WorldType, NpmFits, NEW j \in Job, NEW h \in Host, Gate(j, h)
  PROVE  WorldType' /\ NpmFits'
<1> DEFINE w == job[j]
           x == w.copy[h]
           c == ApplyMtlsConfig(x.config, w.on)
           y == [x EXCEPT !.config = c]
<1>1. /\ w \in Work /\ WorkFits(w, store, caFile) /\ w.kind = "gate" /\ w.pc = "write"
      /\ x \in HostState /\ w.on \in BOOLEAN
  BY DEF WorldType, NpmFits, Work, Gate, Put
<1>2. HostFits(x, h, store, caFile) /\ (w.on => caFile)
  BY <1>1 DEF WorkFits
<1>3. x.config \in Seq(Line) /\ GoodConfig(x.config, caFile)
  BY <1>1, <1>2 DEF HostState, HostFits
<1>4. c \in Seq(Line) /\ GoodConfig(c, caFile)
  BY <1>1, <1>2, <1>3, GateConfig DEF WorldType
<1>5. Put(j, h, y)
  BY DEF Gate
<1> HIDE DEF x, c
<1>6. /\ y \in HostState /\ y.cert = x.cert /\ y.config = c /\ y.auto = x.auto
  BY <1>1, <1>4 DEF HostState
<1> HIDE DEF y, w
<1>7. HostFits(y, h, store, caFile)
  BY <1>2, <1>4, <1>6 DEF HostFits, Attached
<1> QED BY <1>5, <1>6, <1>7, PutKeeps

LEMMA DeleteHostKeeps ==
  ASSUME WorldType, NpmFits, NEW j \in Job, NEW h \in Host, DeleteHost(j, h)
  PROVE  WorldType' /\ NpmFits'
<1> DEFINE d == Done(job[j], h)
<1>2. /\ hosts' = [hosts EXCEPT ![h] = Absent] /\ job' = [job EXCEPT ![j] = d]
      /\ UNCHANGED <<material, store, caFile, reuploads, started>>
  BY DEF DeleteHost, Goto
<1>3. HostFits(Absent, h, store, caFile)
  BY AbsentFits DEF WorldType
<1>4. hosts' \in [Host -> HostState] /\ \A g \in Host : HostFits(hosts'[g], g, store, caFile)
  BY <1>2, <1>3, AbsentType DEF WorldType, NpmFits
<1>5. job[j] \in Work /\ job[j].pc = "write" /\ h \in job[j].todo /\ WorkFits(job[j], store, caFile)
  BY DEF DeleteHost, WorldType, NpmFits
<1>6. d \in Work /\ WorkFits(d, store, caFile)
  BY <1>5, DoneFits DEF WorldType
<1> HIDE DEF d
<1>7. job' \in [Job -> Work] /\ \A i \in Job : WorkFits(job'[i], store, caFile)
  BY <1>2, <1>6, JobMoves DEF WorldType, NpmFits
<1> QED BY <1>2, <1>4, <1>7 DEF WorldType, NpmFits

-----------------------------------------------------------------------------
(* Every step.                                                             *)

\* The steps of an operation, grouped.
Starts(j) ==
  \/ \E c \in Cert : StartSync(j, c) \/ \E own \in BOOLEAN : StartExport(j, c, own)
  \/ \E h \in Host : StartDelete(j, h) \/ \E e \in Entry, given \in BOOLEAN : StartEdit(j, h, given, e)
  \/ \E hs \in SUBSET Host, on \in BOOLEAN : StartGate(j, hs, on)

Writes(j) == \E h \in Host : Attach(j, h) \/ Edit(j, h) \/ Gate(j, h) \/ DeleteHost(j, h)

LEMMA StepCases ==
  ASSUME Step
  PROVE  \/ \E c \in Cert : Issue(c)
         \/ \E h \in Host, e \in Entry, forced \in BOOLEAN : CreateHost(h, e, forced)
         \/ \E j \in Job : \/ Starts(j) \/ Writes(j)
                           \/ ListHosts(j) \/ ListCerts(j) \/ CreateEntry(j) \/ Upload(j)
                           \/ Fails(j)
  BY Zenon DEF Step, Starts, Writes

LEMMA StepKeeps ==
  ASSUME WorldType, NpmFits, Step
  PROVE  WorldType' /\ NpmFits'
<1>1. CASE \E c \in Cert : Issue(c)
  BY <1>1, IssueKeeps
<1>2. CASE \E h \in Host, e \in Entry, forced \in BOOLEAN : CreateHost(h, e, forced)
  BY <1>2, CreateHostKeeps
<1>3. ASSUME NEW j \in Job, Starts(j) PROVE WorldType' /\ NpmFits'
  BY <1>3, StartSyncKeeps, StartExportKeeps, StartDeleteKeeps, StartEditKeeps,
     StartGateKeeps DEF Starts
<1>4. ASSUME NEW j \in Job, Writes(j) PROVE WorldType' /\ NpmFits'
  BY <1>4, AttachKeeps, EditKeeps, GateKeeps, DeleteHostKeeps DEF Writes
<1>5. ASSUME NEW j \in Job, ListHosts(j) \/ ListCerts(j) \/ CreateEntry(j) \/ Upload(j) \/ Fails(j)
      PROVE  WorldType' /\ NpmFits'
  BY <1>5, ListHostsKeeps, ListCertsKeeps, CreateEntryKeeps, UploadKeeps, FailsKeeps
<1> QED BY <1>1, <1>2, <1>3, <1>4, <1>5, StepCases

-----------------------------------------------------------------------------
(* What Observe notes.                                                     *)

LEMMA ObserveAlone ==
  ASSUME Observe, NEW j \in Job, alone'[j]
  PROVE  /\ \A i \in Job \ {j} : job[i].pc = "idle" /\ job'[i].pc = "idle"
         /\ hosts' = hosts \/ job'[j] # job[j]
         /\ job'[j].pc # "idle"
         /\ job[j].pc # "idle" => alone[j]
  BY DEF Observe, ByItself

-----------------------------------------------------------------------------
(* How the operations change.                                              *)

\* One operation's step: the others stay as they are, and it was under way before
\* or is now.
Moved(j) ==
  /\ \A i \in Job \ {j} : job'[i] = job[i]
  /\ job[j].pc # "idle" \/ job'[j].pc # "idle"

\* An operation is begun as x.
Begins(j, x) ==
  /\ Start(j, x) /\ x.pc # "idle"
  /\ x.kind = "sync" => x.pc = "hosts"

LEMMA StartsMoved ==
  ASSUME WorldType, NEW j \in Job, Starts(j)
  PROVE  Moved(j) /\ (job'[j].kind = "sync" => job'[j].pc = "hosts")
<1> SUFFICES ASSUME NEW x, Begins(j, x)
             PROVE  Moved(j) /\ (job'[j].kind = "sync" => job'[j].pc = "hosts")
  <2>1. ASSUME NEW c \in Cert, StartSync(j, c)
       PROVE  \E x : Begins(j, x)
    <3> DEFINE x == [Idle EXCEPT !.pc = "hosts", !.cert = c, !.version = material[c], !.own = TRUE]
    <3>1. x.pc = "hosts"
      BY DEF Idle
    <3>2. Start(j, x)
      BY <2>1 DEF StartSync
    <3> HIDE DEF x
    <3> QED BY <3>1, <3>2 DEF Begins
  <2>2. ASSUME NEW c \in Cert, NEW own \in BOOLEAN, StartExport(j, c, own)
       PROVE  \E x : Begins(j, x)
    <3> DEFINE x == [Idle EXCEPT !.pc = "create", !.kind = "export", !.cert = c,
                                 !.version = material[c], !.own = own]
    <3>1. x.pc = "create" /\ x.kind = "export"
      BY DEF Idle
    <3>2. Start(j, x)
      BY <2>2 DEF StartExport
    <3> HIDE DEF x
    <3> QED BY <3>1, <3>2 DEF Begins
  <2>3. ASSUME NEW h \in Host, StartDelete(j, h)
       PROVE  \E x : Begins(j, x)
    <3> DEFINE x == [Idle EXCEPT !.pc = "hosts", !.kind = "delete", !.todo = {h}]
    <3>1. x.pc = "hosts"
      BY DEF Idle
    <3>2. Start(j, x)
      BY <2>3 DEF StartDelete
    <3> HIDE DEF x
    <3> QED BY <3>1, <3>2 DEF Begins
  <2>4. ASSUME NEW h \in Host, NEW e \in Entry, NEW given \in BOOLEAN, StartEdit(j, h, given, e)
       PROVE  \E x : Begins(j, x)
    <3> DEFINE x == [Idle EXCEPT !.pc = "hosts", !.kind = "edit", !.todo = {h},
                                 !.on = given, !.entry = e]
    <3>1. x.pc = "hosts"
      BY DEF Idle
    <3>2. Start(j, x)
      BY <2>4 DEF StartEdit
    <3> HIDE DEF x
    <3> QED BY <3>1, <3>2 DEF Begins
  <2>5. ASSUME NEW hs \in SUBSET Host, NEW on \in BOOLEAN, StartGate(j, hs, on)
       PROVE  \E x : Begins(j, x)
    <3> DEFINE x == [Idle EXCEPT !.pc = "hosts", !.kind = "gate", !.todo = hs, !.on = on]
    <3>1. x.pc = "hosts"
      BY DEF Idle
    <3>2. Start(j, x)
      BY <2>5 DEF StartGate
    <3> HIDE DEF x
    <3> QED BY <3>1, <3>2 DEF Begins
  <2> QED BY <2>1, <2>2, <2>3, <2>4, <2>5 DEF Starts
<1>1. job' = [job EXCEPT ![j] = x] /\ job \in [Job -> Work]
  BY DEF Begins, Start, WorldType
<1>2. job'[j] = x /\ \A i \in Job \ {j} : job'[i] = job[i]
  BY <1>1
<1> QED BY <1>2 DEF Begins, Moved

LEMMA GotoMoved ==
  ASSUME job \in [Job -> Work], NEW j \in Job, NEW x, Goto(j, x),
         job[j].pc # "idle"
  PROVE  Moved(j) /\ job'[j] = x
  BY DEF Goto, Moved

LEMMA WritesMoved ==
  ASSUME WorldType, NEW j \in Job, NEW h \in Host,
         Attach(j, h) \/ Edit(j, h) \/ Gate(j, h) \/ DeleteHost(j, h)
  PROVE  /\ Moved(j) /\ job'[j] = Done(job[j], h) /\ job[j].pc = "write" /\ h \in job[j].todo
         /\ UNCHANGED store
<1>1. /\ Goto(j, Done(job[j], h)) /\ job[j].pc = "write" /\ h \in job[j].todo
      /\ UNCHANGED store
  BY DEF Attach, Edit, Gate, DeleteHost, Put
<1>2. job \in [Job -> Work]
  BY DEF WorldType
<1> QED BY <1>1, <1>2, GotoMoved

LEMMA ListCertsMoved ==
  ASSUME WorldType, NEW j \in Job, ListCerts(j)
  PROVE  /\ Moved(j) /\ job[j].pc = "certs"
         /\ job'[j].pc \in {"upload", "create"}
         /\ job'[j].kind = job[j].kind /\ job'[j].cert = job[j].cert
         /\ job'[j].todo = job[j].todo /\ job'[j].copy = job[j].copy
         /\ job'[j].pc = "create" => Existing(job[j].cert) = {}
<1> DEFINE w == job[j]
<1>1. job \in [Job -> Work] /\ w \in Work /\ w.pc = "certs"
  BY DEF WorldType, ListCerts
<1>2. PICK x : /\ Goto(j, x) /\ x.pc \in {"upload", "create"} /\ x.kind = w.kind
               /\ x.cert = w.cert /\ x.todo = w.todo /\ x.copy = w.copy
               /\ x.pc = "create" => Existing(w.cert) = {}
  <2> DEFINE E == CHOOSE e \in Existing(w.cert) : \A f \in Existing(w.cert) : e <= f
             x == [w EXCEPT !.pc = "upload", !.entry = E]
             y == [w EXCEPT !.pc = "create"]
  <2>1. Goto(j, x) \/ (Goto(j, y) /\ Existing(w.cert) = {})
    BY DEF ListCerts
  <2> HIDE DEF E
  <2>2. /\ x.pc = "upload" /\ x.kind = w.kind
        /\ x.cert = w.cert /\ x.todo = w.todo /\ x.copy = w.copy
    BY <1>1 DEF Work
  <2>3. /\ y.pc = "create" /\ y.kind = w.kind
        /\ y.cert = w.cert /\ y.todo = w.todo /\ y.copy = w.copy
    BY <1>1 DEF Work
  <2> HIDE DEF x, y, w
  <2> QED BY <2>1, <2>2, <2>3
<1>3. Moved(j) /\ job'[j] = x
  BY <1>1, <1>2, GotoMoved
<1> QED BY <1>1, <1>2, <1>3

LEMMA CreateEntryMoved ==
  ASSUME WorldType, NEW j \in Job, CreateEntry(j)
  PROVE  /\ Moved(j) /\ job[j].pc = "create" /\ job'[j].pc = "upload"
         /\ job'[j].kind = job[j].kind /\ job'[j].cert = job[j].cert
         /\ job'[j].todo = job[j].todo /\ job'[j].copy = job[j].copy
<1> DEFINE w == job[j]
           x == [w EXCEPT !.pc = "upload", !.entry = Len(store) + 1]
<1>1. job \in [Job -> Work] /\ w \in Work /\ w.pc = "create" /\ Goto(j, x)
  BY DEF WorldType, CreateEntry
<1>2. /\ x.pc = "upload" /\ x.kind = w.kind
      /\ x.cert = w.cert /\ x.todo = w.todo /\ x.copy = w.copy
  BY <1>1 DEF Work
<1> HIDE DEF x
<1>3. Moved(j) /\ job'[j] = x
  BY <1>1, GotoMoved
<1> QED BY <1>1, <1>2, <1>3

LEMMA UploadMoved ==
  ASSUME WorldType, NEW j \in Job, Upload(j)
  PROVE  Moved(j) /\ job[j].pc = "upload" /\ job'[j] = AfterUpload(job[j])
<1>1. job \in [Job -> Work] /\ job[j] \in Work /\ job[j].pc = "upload"
      /\ Goto(j, AfterUpload(job[j]))
  BY DEF WorldType, Upload
<1> QED BY <1>1, GotoMoved

LEMMA FailsMoved ==
  ASSUME WorldType, NEW j \in Job, Fails(j)
  PROVE  Moved(j) /\ job'[j] = Idle
  BY GotoMoved DEF Fails, WorldType

LEMMA ListHostsMoved ==
  ASSUME WorldType, NEW j \in Job, ListHosts(j)
  PROVE  /\ \A i \in Job \ {j} : job'[i] = job[i]
         /\ job[j].pc = "hosts" /\ UNCHANGED <<hosts, store>>
         /\ \/ job'[j] = Idle
            \/ /\ job'[j].kind = job[j].kind /\ job'[j].cert = job[j].cert
               /\ \A h \in job'[j].todo : job'[j].copy[h] = hosts[h]
               /\ job'[j].kind = "sync" => job'[j].pc = "certs" /\
                    \A h \in Host : hosts[h].up /\ Match(job[j].cert, h) => h \in job'[j].todo
<1> DEFINE w == job[j]
           asked == IF w.kind = "sync" THEN {h \in Host : Match(w.cert, h)} ELSE w.todo
           found == {h \in asked : hosts[h].up}
           cs == Copies(found)
           p == IF w.kind = "sync" THEN "certs" ELSE "write"
           x == [w EXCEPT !.pc = p, !.todo = found, !.copy = cs]
           y == IF found = {} THEN Idle ELSE x
<1>1. /\ job \in [Job -> Work] /\ w \in Work /\ w.pc = "hosts"
      /\ job' = [job EXCEPT ![j] = y] /\ UNCHANGED <<hosts, store>>
  BY DEF WorldType, ListHosts, Goto
<1>2. /\ \A h \in Host : cs[h] = IF h \in found THEN hosts[h] ELSE Absent
      /\ found \subseteq Host
  BY <1>1 DEF Copies, Work
<1>3. w.kind = "sync" => \A h \in Host : hosts[h].up /\ Match(w.cert, h) => h \in found
  OBVIOUS
<1> HIDE DEF cs, found
<1>4. x.pc = p /\ x.todo = found /\ x.copy = cs /\ x.kind = w.kind /\ x.cert = w.cert
  BY <1>1 DEF Work
<1> HIDE DEF x
<1>5. job'[j] = y /\ \A i \in Job \ {j} : job'[i] = job[i]
  BY <1>1
<1> HIDE DEF w
<1>6. y = Idle \/ y = x
  OBVIOUS
<1> HIDE DEF y
<1>7. y = x => /\ y.kind = w.kind /\ y.cert = w.cert
               /\ \A h \in y.todo : y.copy[h] = hosts[h]
               /\ y.kind = "sync" => y.pc = "certs" /\
                    \A h \in Host : hosts[h].up /\ Match(w.cert, h) => h \in y.todo
  BY <1>2, <1>3, <1>4
<1> QED BY <1>1, <1>5, <1>6, <1>7 DEF w

LEMMA CreateHostChanges ==
  ASSUME WorldType, NEW h \in Host, NEW e \in Entry, NEW forced \in BOOLEAN,
         CreateHost(h, e, forced)
  PROVE  hosts' # hosts /\ UNCHANGED job
<1>1. ~hosts[h].up /\ hosts'[h].up /\ UNCHANGED job
  BY DEF CreateHost, WorldType, Absent
<1> QED BY <1>1

-----------------------------------------------------------------------------
(* An operation that runs alone.                                           *)

\* An operation seen to run alone does, and its copies are up to date.
AloneInv ==
  \A j \in Job : alone[j] =>
    (\A i \in Job \ {j} : job[i].pc = "idle") /\ AloneFits(job[j], hosts, store)

\* A step while an operation is seen to run alone is its own or an issuance.
LEMMA AloneSteps ==
  ASSUME WorldType, NpmFits, Step, Observe, NEW j \in Job, alone'[j]
  PROVE  \/ UNCHANGED <<job, hosts, store>>
         \/ Starts(j) \/ Writes(j)
         \/ ListHosts(j) \/ ListCerts(j) \/ CreateEntry(j) \/ Upload(j) \/ Fails(j)
<1>1. /\ \A i \in Job \ {j} : job[i].pc = "idle" /\ job'[i].pc = "idle"
      /\ hosts' = hosts \/ job'[j] # job[j]
  BY ObserveAlone
<1>2. ASSUME NEW i \in Job, Moved(i) PROVE i = j
  BY <1>1, <1>2 DEF Moved
<1>3. CASE \E c \in Cert : Issue(c)
  BY <1>3 DEF Issue, npm
<1>4. CASE \E h \in Host, e \in Entry, forced \in BOOLEAN : CreateHost(h, e, forced)
  BY <1>1, <1>4, CreateHostChanges
<1>5. ASSUME NEW i \in Job, Starts(i) PROVE i = j
  BY <1>2, <1>5, StartsMoved
<1>6. ASSUME NEW i \in Job, Writes(i) PROVE i = j
  BY <1>2, <1>6, WritesMoved DEF Writes
<1>7. ASSUME NEW i \in Job, ListCerts(i) \/ CreateEntry(i) \/ Upload(i) \/ Fails(i)
      PROVE  i = j
  BY <1>2, <1>7, ListCertsMoved, CreateEntryMoved, UploadMoved, FailsMoved
<1>8. ASSUME NEW i \in Job, ListHosts(i) PROVE i = j
  BY <1>1, <1>8, ListHostsMoved
<1> QED BY <1>3, <1>4, <1>5, <1>6, <1>7, <1>8, StepCases

LEMMA AloneWritesKeeps ==
  ASSUME WorldType, NpmFits, NEW j \in Job, AloneFits(job[j], hosts, store),
         NEW h \in Host, Attach(j, h) \/ Edit(j, h) \/ Gate(j, h) \/ DeleteHost(j, h)
  PROVE  AloneFits(job'[j], hosts', store')
<1> DEFINE w == job[j]
           cs == [w.copy EXCEPT ![h] = Absent]
           x == [w EXCEPT !.todo = w.todo \ {h}, !.copy = cs]
<1>1. /\ job'[j] = Done(w, h) /\ w.pc = "write" /\ h \in w.todo /\ UNCHANGED store
      /\ w \in Work /\ w.copy \in [Host -> HostState]
  BY WritesMoved DEF WorldType, Work
<1>2. job'[j] = Idle \/ job'[j] = x
  BY <1>1 DEF Done
<1>3. CASE job'[j] = Idle
  BY <1>3 DEF AloneFits, Idle
<1>4. CASE job'[j] = x
  <2>1. /\ x.pc = "write" /\ x.kind = w.kind /\ x.cert = w.cert /\ x.todo = w.todo \ {h}
        /\ x.entry = w.entry /\ x.version = w.version /\ x.copy = cs
    BY <1>1 DEF Work
  <2> HIDE DEF x
  <2> SUFFICES ASSUME w.kind = "sync" PROVE AloneFits(x, hosts', store')
    BY <1>4, <2>1 DEF AloneFits
  <2>2. Attach(j, h)
    BY DEF Edit, Gate, DeleteHost
  <2>3. w.copy[h] \in HostState
    BY <1>1
  <2> DEFINE y == [w.copy[h] EXCEPT !.cert = w.entry, !.auto = TRUE]
             z == [y EXCEPT !.forced = TRUE]
  <2>4. hosts' = [hosts EXCEPT ![h] = z]
    BY <2>2 DEF Attach, Put
  <2>5. z.cert = w.entry
    BY <2>3 DEF HostState
  <2> HIDE DEF z
  <2>6. /\ hosts'[h].cert = w.entry
        /\ \A g \in Host : g # h => hosts'[g] = hosts[g]
    BY <2>4, <2>5 DEF WorldType
  <2>7. /\ store[w.entry].files = FilesOf(w)
        /\ \A g \in Host : hosts[g].up /\ Named(w.cert, g) => g \in w.todo \/ hosts[g].cert = w.entry
    BY <1>1 DEF AloneFits
  <2>8. FilesOf(x) = FilesOf(w)
    BY <2>1 DEF FilesOf
  <2>9. \A g \in Host : hosts'[g].up /\ Named(x.cert, g) => g \in x.todo \/ hosts'[g].cert = x.entry
    BY <2>1, <2>6, <2>7
  <2>10. \A g \in x.todo : x.copy[g] = hosts'[g]
    <3>1. \A g \in w.todo : g \in Host /\ w.copy[g] = hosts[g]
      BY <1>1 DEF AloneFits, Work
    <3>2. \A g \in Host : g # h => cs[g] = w.copy[g]
      BY <1>1
    <3> HIDE DEF cs
    <3> QED BY <2>1, <2>6, <3>1, <3>2
  <2> QED BY <1>1, <2>1, <2>7, <2>8, <2>9, <2>10 DEF AloneFits
<1> QED BY <1>2, <1>3, <1>4

LEMMA AloneUploadKeeps ==
  ASSUME WorldType, NpmFits, NEW j \in Job, AloneFits(job[j], hosts, store), Upload(j)
  PROVE  AloneFits(job'[j], hosts', store')
<1> DEFINE w == job[j]
           cs == [h \in Host |-> IF h \in Wanted(w) THEN w.copy[h] ELSE Absent]
           x == [w EXCEPT !.pc = "write", !.todo = Wanted(w), !.copy = cs]
           u == UploadedEntry(w)
<1>1. /\ job'[j] = AfterUpload(w) /\ w.pc = "upload" /\ UNCHANGED hosts
      /\ store' = [store EXCEPT ![w.entry] = u]
      /\ w \in Work /\ WorkFits(w, store, caFile)
  BY UploadMoved DEF WorldType, NpmFits, Upload
<1>2. job'[j] = Idle \/ job'[j] = x
  BY <1>1 DEF AfterUpload
<1>3. CASE job'[j] = Idle
  BY <1>3 DEF AloneFits, Idle
<1>4. CASE job'[j] = x
  <2>1. /\ x.pc = "write" /\ x.kind = w.kind /\ x.cert = w.cert /\ x.todo = Wanted(w)
        /\ x.entry = w.entry /\ x.version = w.version /\ x.copy = cs
    BY <1>1 DEF Work
  <2> HIDE DEF x
  <2> SUFFICES ASSUME w.kind = "sync" PROVE AloneFits(x, hosts', store')
    BY <1>4, <2>1 DEF AloneFits
  <2>2. /\ \A h \in Host : hosts[h].up /\ Named(w.cert, h) => h \in w.todo
        /\ \A h \in w.todo : h \in Host /\ w.copy[h] = hosts[h]
    BY <1>1 DEF AloneFits, Work
  <2>3. \A h \in Host : Named(w.cert, h) => CoveredExactly(w.cert, h)
    <3>1. \A h \in Host : Len(HostNames[h]) \in Nat \ {0}
      BY MirrorsAssumption
    <3>2. \A h \in Host : 1 \in 1..Len(HostNames[h])
      BY <3>1
    <3> QED BY <3>2 DEF Named, CoveredExactly
  <2>4. \A h \in Host : hosts[h].up /\ Named(x.cert, h) => h \in x.todo \/ hosts[h].cert = x.entry
    BY <2>1, <2>2, <2>3 DEF Wanted
  <2>5. store'[w.entry].files = FilesOf(x)
    <3>1. Len(store) \in Nat /\ w.entry \in 1..Len(store) /\ store \in Seq(StoreEntry)
      BY <1>1, LenProperties DEF WorldType, WorkFits, HasEntry, Work, Entry
    <3>2. store'[w.entry] = u
      BY <1>1, <3>1
    <3>3. store[w.entry] \in StoreEntry
      BY <3>1, ElementOfSeq
    <3>4. u.files = FilesOf(w)
      BY <3>3 DEF UploadedEntry, StoreEntry
    <3> QED BY <2>1, <3>2, <3>4 DEF FilesOf
  <2>6. \A h \in x.todo : x.copy[h] = hosts[h]
    <3>1. Wanted(w) \subseteq w.todo
      BY DEF Wanted
    <3> QED BY <2>1, <2>2, <3>1
  <2> QED BY <1>1, <2>1, <2>4, <2>5, <2>6 DEF AloneFits
<1> QED BY <1>2, <1>3, <1>4

LEMMA AloneKeeps ==
  ASSUME WorldType, NpmFits, AloneInv, Step, Observe
  PROVE  AloneInv'
<1> SUFFICES ASSUME NEW j \in Job, alone'[j]
             PROVE  AloneFits(job'[j], hosts', store')
  BY ObserveAlone DEF AloneInv
<1>1. /\ job'[j].pc # "idle"
      /\ job[j].pc # "idle" => alone[j]
  BY ObserveAlone
<1>2. job[j].pc # "idle" => AloneFits(job[j], hosts, store)
  BY <1>1 DEF AloneInv
<1>3. CASE UNCHANGED <<job, hosts, store>>
  BY <1>1, <1>2, <1>3
<1>4. CASE Starts(j)
  BY <1>4, StartsMoved DEF AloneFits
<1>5. CASE Writes(j)
  <2>1. job[j].pc # "idle"
    BY <1>5, WritesMoved DEF Writes
  <2> QED BY <1>1, <1>2, <1>5, <2>1, AloneWritesKeeps DEF Writes
<1>6. CASE ListHosts(j)
  <2>1. \A c \in Cert, h \in Host : Named(c, h) => Match(c, h)
    BY DEF Named, Match
  <2>2. job[j].cert \in Cert
    BY DEF WorldType, Work
  <2>3. CASE job'[j] = Idle
    BY <2>3 DEF AloneFits, Idle
  <2>4. CASE job'[j] # Idle
    <3>1. /\ job'[j].cert = job[j].cert /\ UNCHANGED <<hosts, store>>
          /\ job'[j].kind = "sync" => job'[j].pc = "certs" /\
               \A h \in Host : hosts[h].up /\ Match(job[j].cert, h) => h \in job'[j].todo
          /\ \A h \in job'[j].todo : job'[j].copy[h] = hosts[h]
      BY <1>6, <2>4, ListHostsMoved
    <3> QED BY <2>1, <2>2, <3>1 DEF AloneFits
  <2> QED BY <2>3, <2>4
<1>7. CASE ListCerts(j)
  <2>1. UNCHANGED <<hosts, store>>
    BY <1>7 DEF ListCerts, npm
  <2>2. Existing(job[j].cert) = {} =>
          \A e \in 1..Len(store) : ~(store[e].own /\ NiceName(store[e].of) = NiceName(job[j].cert))
    BY DEF Existing, ByName
  <2> QED BY <1>2, <1>7, <2>1, <2>2, ListCertsMoved DEF AloneFits
<1>8. CASE CreateEntry(j)
  <2>1. UNCHANGED hosts
    BY <1>8 DEF CreateEntry
  <2> QED BY <1>2, <1>8, <2>1, CreateEntryMoved DEF AloneFits
<1>9. CASE Upload(j)
  BY <1>2, <1>9, UploadMoved, AloneUploadKeeps
<1>10. CASE Fails(j)
  <2>1. job'[j] = Idle
    BY <1>10, FailsMoved
  <2> QED BY <2>1 DEF AloneFits, Idle
<1> QED BY <1>3, <1>4, <1>5, <1>6, <1>7, <1>8, <1>9, <1>10, AloneSteps

-----------------------------------------------------------------------------
(* The theorems.                                                           *)

\* The type of the history.
Seen == alone \in [Job -> BOOLEAN]

\* The inductive invariant.
Inv == WorldType /\ Seen /\ NpmFits /\ AloneInv

LEMMA InitInv == Init => Inv
<1> SUFFICES ASSUME Init PROVE Inv
  OBVIOUS
<1>1. MaxVersion \in Nat /\ MaxEntry \in Nat /\ MaxStart \in Nat
  BY MirrorsAssumption
<1>2. store \in Seq(StoreEntry) /\ Len(store) = 0
  BY EmptySeq DEF Init
<1>3. \A h \in Host : /\ hosts[h] \in HostState /\ hosts[h].cert = 0 /\ ~hosts[h].auto
                      /\ hosts[h].config \in Rules
  <2> SUFFICES ASSUME NEW h \in Host
               PROVE  /\ hosts[h] \in HostState /\ hosts[h].cert = 0 /\ ~hosts[h].auto
                      /\ hosts[h].config \in Rules
    OBVIOUS
  <2> DEFINE x == [Absent EXCEPT !.up = TRUE, !.config = <<"rule">>]
  <2>1. hosts[h] = Absent \/ hosts[h] = x
    BY DEF Init
  <2>2. <<"rule">> \in Seq(Line)
    BY DEF Line
  <2>3. x \in HostState /\ x.cert = 0 /\ ~x.auto /\ x.config = <<"rule">>
    BY <2>2, AbsentType DEF Absent, HostState
  <2> HIDE DEF x
  <2>4. Absent.cert = 0 /\ ~Absent.auto /\ Absent.config = <<>>
    BY DEF Absent
  <2> QED BY <2>1, <2>3, <2>4, AbsentType DEF Rules
<1>4. hosts \in [Host -> HostState]
  BY <1>3 DEF Init
<1>5. \A h \in Host : HostFits(hosts[h], h, store, caFile)
  BY <1>2, <1>3 DEF HostFits, GoodConfig, Attached
<1>6. job \in [Job -> Work] /\ \A j \in Job : job[j] = Idle
  BY IdleType DEF Init
<1>7. \A j \in Job : WorkFits(job[j], store, caFile)
  BY <1>2, <1>6, IdleFits DEF Init
<1>8. material \in [Cert -> Version]
  BY <1>1 DEF Init, Version
<1>9. WorldType
  <2>1. started \in 0..MaxStart /\ reuploads \in BOOLEAN /\ caFile \in BOOLEAN
    <3>1. started = 0 /\ caFile = FALSE
      BY DEF Init
    <3>2. reuploads \in BOOLEAN
      BY Zenon DEF Init
    <3>3. started \in 0..MaxStart
      BY <1>1, <3>1
    <3>4. caFile \in BOOLEAN
      BY <3>1
    <3> QED BY <3>2, <3>3, <3>4, Zenon
  <2> QED BY <1>1, <1>2, <1>4, <1>6, <1>8, <2>1 DEF WorldType
<1>10. NpmFits
  BY <1>2, <1>5, <1>7 DEF NpmFits
<1>11. Seen /\ \A j \in Job : ~alone[j]
  BY DEF Init, Seen
<1>12. AloneInv
  BY <1>11 DEF AloneInv
<1> QED BY <1>9, <1>10, <1>11, <1>12 DEF Inv

LEMMA NextInv == Inv /\ [Next]_vars => Inv'
<1> SUFFICES ASSUME Inv, [Next]_vars PROVE Inv'
  OBVIOUS
<1>1. CASE Next
  <2>1. WorldType' /\ NpmFits'
    BY <1>1, StepKeeps DEF Inv, Next
  <2>2. Seen'
    BY <1>1, Zenon DEF Next, Observe, ByItself, Seen
  <2>3. AloneInv'
    BY <1>1, AloneKeeps DEF Inv, Next
  <2> QED BY <2>1, <2>2, <2>3 DEF Inv
<1>2. CASE UNCHANGED vars
  BY <1>2 DEF vars, Inv, WorldType, Seen, NpmFits, AloneInv
<1> QED BY <1>1, <1>2

\* The inductive invariant holds: what every theorem below rests on.
THEOREM Invariance == Spec => []Inv
  BY InitInv, NextInv, PTL DEF Spec

\* Every state has its types, and a write has a host to write.
THEOREM TypeCorrect == Spec => []TypeOK
<1>1. Inv => TypeOK
  <2> SUFFICES ASSUME Inv PROVE TypeOK
    OBVIOUS
  <2>1. \A e \in 1..Len(store) : store[e] \in StoreEntry
    BY ElementOfSeq DEF Inv, WorldType
  <2>2. \A j \in Job : job[j].pc = "write" => job[j].todo # {}
    BY DEF Inv, NpmFits, WorkFits, Shape
  <2> QED BY <2>1, <2>2 DEF Inv, WorldType, Seen, TypeOK
<1> QED BY <1>1, Invariance, PTL

\* However operations that write back old copies are interleaved, no host has the
\* client-certificate block twice, or without the CA at NPM (setHostMtls).
THEOREM GatedOnce == Spec => []OneGate
<1>1. Inv => OneGate
  <2> SUFFICES ASSUME Inv, NEW h \in Host
               PROVE  \/ hosts[h].config \in {<<>>, <<"rule">>}
                      \/ /\ hosts[h].config \in {<<"mark", "gate", "end">>, <<"rule", "mark", "gate", "end">>}
                         /\ caFile
    BY DEF OneGate
  <2>1. GoodConfig(hosts[h].config, caFile)
    BY DEF Inv, NpmFits, HostFits
  <2>2. <<>> \o Block = <<"mark", "gate", "end">> /\ <<"rule">> \o Block = <<"rule", "mark", "gate", "end">>
    <3>1. <<>> \o Block = Block
      BY ConcatEmptySeq DEF Block
    <3>2. <<"rule">> \o Block = <<"rule", "mark", "gate", "end">>
      <4> DEFINE s == <<"rule">>
                 t == <<"rule", "mark", "gate", "end">>
      <4>1. /\ s \in Seq(Line) /\ Len(s) = 1 /\ s[1] = "rule"
            /\ Block \in Seq(Line) /\ Len(Block) = 3
            /\ Block[1] = "mark" /\ Block[2] = "gate" /\ Block[3] = "end"
        BY DEF Line, Block
      <4>2. /\ t \in Seq(Line) /\ Len(t) = 4
            /\ t[1] = "rule" /\ t[2] = "mark" /\ t[3] = "gate" /\ t[4] = "end"
        BY DEF Line
      <4> HIDE DEF s, t
      <4>3. /\ s \o Block \in Seq(Line) /\ Len(s \o Block) = 4
            /\ \A i \in 1..4 : (s \o Block)[i] = IF i <= 1 THEN s[i] ELSE Block[i - 1]
        BY <4>1, ConcatProperties
      <4>4. \A i \in 1..4 : i = 1 \/ i = 2 \/ i = 3 \/ i = 4
        OBVIOUS
      <4>5. \A i \in 1..4 : (s \o Block)[i] = t[i]
        BY <4>1, <4>2, <4>3, <4>4
      <4>6. s \o Block = t
        BY <4>2, <4>3, <4>5, SeqEqual
      <4> QED BY <4>6 DEF s, t
    <3> QED BY <3>1, <3>2 DEF Block
  <2> QED BY <2>1, <2>2 DEF GoodConfig, Rules
<1> QED BY <1>1, Invariance, PTL

\* The entry of a host that a sync attached has files of a domain that names it.
LEMMA EntryOf ==
  ASSUME Inv, NEW h \in Host, hosts[h].auto, hosts[h].cert # 0,
         store[hosts[h].cert].files.version # 0
  PROVE  /\ store[hosts[h].cert].files.of \in Cert
         /\ \E c \in Cert : Domain[c] = Domain[store[hosts[h].cert].files.of] /\ Covers(c, h)
<1> DEFINE n == hosts[h].cert
<1>1. HostFits(hosts[h], h, store, caFile) /\ n \in Nat /\ Len(store) \in Nat
  BY LenProperties DEF Inv, NpmFits, WorldType, HostState, Entry
<1>2. n \in 1..Len(store)
  BY <1>1 DEF HostFits
<1>3. EntryFits(store[n]) /\ store[n] \in StoreEntry
  BY <1>2, ElementOfSeq DEF Inv, NpmFits, WorldType
<1>4. \E c \in Cert : Domain[c] = Domain[store[n].of] /\ Covers(c, h)
  BY <1>1 DEF HostFits, Attached
<1> QED BY <1>3, <1>4 DEF EntryFits, StoreEntry, Files

\* No upload takes an entry to another domain: a host that a sync gave its
\* certificate is served by one of a domain that names it (syncCertificateToNpm).
THEOREM DomainServed == Spec => []ServedByDomain
<1>1. Inv => ServedByDomain
  BY EntryOf DEF ServedByDomain
<1> QED BY <1>1, Invariance, PTL

\* No domain has both a certificate with the wildcard and one without.
OneKind == \A c, d \in Cert : Domain[c] = Domain[d] => (c \in Wild <=> d \in Wild)

\* Where that is so, a host a sync gave its certificate is served by one that
\* names it, whatever was issued and uploaded since.  Without it the run
\* mirrors_namesakes shows that it is not: hence the hypothesis.
THEOREM NamesServed == ASSUME OneKind PROVE Spec => []ServedCovers
<1>1. Inv => ServedCovers
  <2> SUFFICES ASSUME Inv, NEW h \in Host, hosts[h].auto, hosts[h].cert # 0,
                      store[hosts[h].cert].files.version # 0
               PROVE  Covers(store[hosts[h].cert].files.of, h)
    BY DEF ServedCovers
  <2> DEFINE d == store[hosts[h].cert].files.of
  <2>1. d \in Cert
    BY EntryOf
  <2>2. PICK c \in Cert : Domain[c] = Domain[d] /\ Covers(c, h)
    BY EntryOf
  <2> HIDE DEF d
  <2>3. c \in Wild <=> d \in Wild
    BY <2>1, <2>2 DEF OneKind
  <2>4. NamesOf(c) = NamesOf(d)
    BY <2>2, <2>3 DEF NamesOf
  <2>5. Covers(d, h)
    BY <2>2, <2>3, <2>4 DEF Covers
  <2> QED BY <2>5 DEF d
<1> QED BY <1>1, Invariance, PTL

-----------------------------------------------------------------------------

\* While it writes, a sync attaches or ends.
LEMMA SyncWrites ==
  ASSUME Inv, Step, NEW j \in Job, job[j].kind = "sync", job[j].pc = "write",
         job'[j] # job[j]
  PROVE  (\E h \in Host : Attach(j, h)) \/ UNCHANGED <<hosts, store>>
<1>1. WorldType /\ NpmFits
  BY DEF Inv
<1>2. CASE \E c \in Cert : Issue(c)
  BY <1>2 DEF Issue
<1>3. CASE \E h \in Host, e \in Entry, forced \in BOOLEAN : CreateHost(h, e, forced)
  BY <1>3 DEF CreateHost
<1>4. ASSUME NEW i \in Job, Moved(i) PROVE i = j
  BY <1>4 DEF Moved
<1>5. ASSUME NEW i \in Job, Starts(i) PROVE FALSE
  <2>1. i = j
    BY <1>1, <1>4, <1>5, StartsMoved
  <2>2. job[j].pc = "idle"
    BY <1>5, <2>1 DEF Starts, StartSync, StartExport, StartDelete, StartEdit, StartGate, Start
  <2> QED BY <2>2
<1>6. ASSUME NEW i \in Job, NEW h \in Host,
             Attach(i, h) \/ Edit(i, h) \/ Gate(i, h) \/ DeleteHost(i, h)
      PROVE  Attach(j, h)
  <2>1. i = j
    BY <1>1, <1>4, <1>6, WritesMoved
  <2> QED BY <1>6, <2>1 DEF Edit, Gate, DeleteHost
<1>7. ASSUME NEW i \in Job, ListHosts(i) \/ ListCerts(i) \/ Fails(i)
      PROVE  UNCHANGED <<hosts, store>>
  BY <1>7 DEF ListHosts, ListCerts, Fails, npm
<1>8. ASSUME NEW i \in Job, CreateEntry(i) \/ Upload(i) PROVE FALSE
  <2>1. i = j
    BY <1>1, <1>4, <1>8, CreateEntryMoved, UploadMoved
  <2> QED BY <1>8, <2>1 DEF CreateEntry, Upload
<1> QED BY <1>2, <1>3, <1>5, <1>6, <1>7, <1>8, StepCases DEF Writes

LEMMA AttachWrites ==
  ASSUME Inv, NEW j \in Job, NEW h \in Host, Attach(j, h)
  PROVE  /\ h \in job[j].todo /\ UNCHANGED store
         /\ hosts'[h].cert = job[j].entry
         /\ \A g \in Host : g # h => hosts'[g] = hosts[g]
         /\ job'[j] = Done(job[j], h)
<1> DEFINE y == [job[j].copy[h] EXCEPT !.cert = job[j].entry, !.auto = TRUE]
           z == [y EXCEPT !.forced = TRUE]
<1>1. job[j].copy[h] \in HostState
  BY DEF Inv, WorldType, Work
<1>2. hosts' = [hosts EXCEPT ![h] = z] /\ h \in job[j].todo /\ UNCHANGED store
  BY DEF Attach, Put
<1>3. z.cert = job[j].entry
  BY <1>1 DEF HostState
<1> HIDE DEF z
<1>4. job'[j] = Done(job[j], h)
  BY WritesMoved DEF Inv
<1> QED BY <1>2, <1>3, <1>4 DEF Inv, WorldType

\* A sync that ran alone takes the place of a host's certificate only for a host
\* that the certificate names itself: its copies are then the hosts as they are
\* (AloneFits).  Of a sync that overlaps with another operation it is not so.
THEOREM WildcardKeepsOthers == Spec => WildcardNeverReplaces
<1>1. Inv /\ [Next]_vars =>
        [\A h \in Host, j \in Job :
           /\ job[j].kind = "sync" /\ job[j].pc = "write" /\ job'[j] # job[j]
           /\ hosts'[h].cert # hosts[h].cert /\ hosts[h].cert # 0 /\ alone[j]
           => CoveredExactly(job[j].cert, h)]_vars
  <2> SUFFICES ASSUME Inv, Next, NEW h \in Host, NEW j \in Job,
                      job[j].kind = "sync", job[j].pc = "write", job'[j] # job[j],
                      hosts'[h].cert # hosts[h].cert, hosts[h].cert # 0, alone[j]
               PROVE  CoveredExactly(job[j].cert, h)
    OBVIOUS
  <2>1. PICK g \in Host : Attach(j, g)
    BY SyncWrites DEF Next
  <2>2. h = g /\ h \in job[j].todo
    BY <2>1, AttachWrites
  <2>3. CoveredExactly(job[j].cert, h) \/ job[j].copy[h].cert = 0
    BY <2>2 DEF Inv, NpmFits, WorkFits, Shape
  <2>4. job[j].copy[h] = hosts[h]
    BY <2>2 DEF Inv, AloneInv, AloneFits
  <2> QED BY <2>3, <2>4
<1> QED BY <1>1, Invariance, PTL DEF Spec, WildcardNeverReplaces

\* A sync that ran alone has every host of the certificate's own name on an entry
\* with the material it set out with, once it has written its last host.
THEOREM SyncsDeliver == Spec => SyncDelivers
<1>1. Inv /\ [Next]_vars =>
        [\A j \in Job :
           /\ job[j].kind = "sync" /\ job[j].pc = "write" /\ job'[j] = Idle
           /\ hosts' # hosts /\ alone[j] /\ \A i \in Job \ {j} : job[i].pc = "idle"
           => \A h \in Host : hosts'[h].up /\ HostNames[h][1] = Domain[job[j].cert] =>
                /\ hosts'[h].cert # 0
                /\ store[hosts'[h].cert].files = FilesOf(job[j])]_vars
  <2> SUFFICES ASSUME Inv, Next, NEW j \in Job, NEW h \in Host,
                      job[j].kind = "sync", job[j].pc = "write", job'[j] = Idle,
                      hosts' # hosts, alone[j],
                      hosts'[h].up, HostNames[h][1] = Domain[job[j].cert]
               PROVE  hosts'[h].cert # 0 /\ store[hosts'[h].cert].files = FilesOf(job[j])
    OBVIOUS
  <2> DEFINE w == job[j]
  <2>1. w # Idle
    BY DEF Idle
  <2>2. PICK g \in Host : Attach(j, g)
    BY <2>1, SyncWrites DEF Next
  <2>3. /\ g \in w.todo /\ hosts'[g].cert = w.entry /\ (h # g => hosts'[h] = hosts[h])
        /\ Done(w, g) = Idle
    BY <2>2, AttachWrites
  <2>4. w \in Work
    BY DEF Inv, WorldType
  <2>5. w.todo = {g}
    BY <2>3, <2>4 DEF Done, Work, Idle
  <2>6. /\ store[w.entry].files = FilesOf(w)
        /\ hosts[h].up /\ Named(w.cert, h) => h \in w.todo \/ hosts[h].cert = w.entry
    BY DEF Inv, AloneInv, AloneFits
  <2>7. hosts'[h].cert = w.entry
    BY <2>3, <2>5, <2>6 DEF Named
  <2>8. w.entry # 0
    BY DEF Inv, NpmFits, WorkFits, HasEntry
  <2> QED BY <2>6, <2>7, <2>8
<1> QED BY <1>1, Invariance, PTL DEF Spec, SyncDelivers

\* A sync that runs alone makes no second entry for a certificate: renewals
\* refresh in place (syncCertificateToNpm).
THEOREM NothingPilesUp == Spec => NoPileUp
<1>1. Inv /\ [Next]_vars =>
        [\A j \in Job :
           /\ job[j].kind = "sync" /\ job[j].pc = "create" /\ store' # store
           /\ alone[j] /\ \A i \in Job \ {j} : job[i].pc = "idle"
           => ByName(job[j].cert) = {}]_vars
  <2> SUFFICES ASSUME Inv, NEW j \in Job, job[j].kind = "sync", job[j].pc = "create",
                      alone[j]
               PROVE  ByName(job[j].cert) = {}
    OBVIOUS
  <2> QED BY DEF Inv, AloneInv, AloneFits, ByName
<1> QED BY <1>1, Invariance, PTL DEF Spec, NoPileUp
=============================================================================
