------------------------------- MODULE Health --------------------------------
(***************************************************************************)
(* The scores of services/health.ts and services/audit.ts, as functions of *)
(* what the checks look at: a certificate at a moment, and what resolvers  *)
(* and nameservers said of a domain.  Nothing here keeps state.            *)
(***************************************************************************)
EXTENDS Integers

\* Times are in hours.
Day == 24

\* What a check says costs: ok, warn or fail.
Penalty(status) == IF status = "fail" THEN 25 ELSE IF status = "warn" THEN 10 ELSE 0

\* scoreChecks; the upper clamp never bites.
Clamped(penalties) == IF penalties > 100 THEN 0 ELSE 100 - penalties

GradeFor(score) ==
  IF score >= 90 THEN "A" ELSE IF score >= 75 THEN "B"
  ELSE IF score >= 60 THEN "C" ELSE IF score >= 40 THEN "D" ELSE "F"

-----------------------------------------------------------------------------
(* scoreCertificate                                                        *)

\* dated: the row has an expiry date that can be read; issuedOn: no issue date, one
\* that cannot be read, or one that can.  key: a key that is strong, weak, of another
\* kind, or not there.  pem: the certificate is not there, cannot be parsed, is
\* signed with SHA-1 or with something better.
Certificate ==
  [dated : BOOLEAN, expires : Int, issuedOn : {"none", "garbled", "date"}, issued : Int,
   stored : BOOLEAN, key : {"strong", "weak", "odd", "none"}, pem : {"none", "garbled", "sha1", "good"},
   selfSigned : BOOLEAN, names : {"none", "wildcards", "apex"}]

Validity(c, now) ==
  IF ~c.dated THEN "warn"
  ELSE IF c.expires - now < 7 * Day THEN "fail"
  ELSE IF c.expires - now < 30 * Day THEN "warn" ELSE "ok"

\* None, or one more than a day ahead; one that cannot be read passes.
Issued(c, now) ==
  IF c.issuedOn = "none" \/ (c.issuedOn = "date" /\ c.issued - now > Day) THEN "warn" ELSE "ok"

MaterialCheck(c) == IF c.stored THEN "ok" ELSE "warn"

KeyCheck(c) ==
  IF c.key = "strong" THEN "ok" ELSE IF c.key = "weak" THEN "fail" ELSE "warn"

Signature(c) ==
  IF c.pem = "good" THEN "ok" ELSE IF c.pem = "sha1" THEN "fail" ELSE "warn"

\* Only a certificate that could be parsed has this check.
Chain(c) == IF c.pem \in {"sha1", "good"} /\ c.selfSigned THEN "warn" ELSE "ok"

Coverage(c) ==
  IF c.names = "none" THEN "fail" ELSE IF c.names = "wildcards" THEN "warn" ELSE "ok"

ScoreCertificate(c, now) ==
  Clamped(Penalty(Validity(c, now)) + Penalty(Issued(c, now)) + Penalty(MaterialCheck(c))
          + Penalty(KeyCheck(c)) + Penalty(Signature(c)) + Penalty(Chain(c))
          + Penalty(Coverage(c)))

-----------------------------------------------------------------------------
(* auditDomain                                                             *)

\* servers: how many the delegation names; reached: how many of them answered;
\* apex: none of the public resolvers has an address, some, or all that answered.
AuditedDomain ==
  [servers : Nat, reached : Nat, serialsDiffer : BOOLEAN,
   apex : {"none", "some", "all"}, answersDiffer : BOOLEAN, caa : BOOLEAN]

\* One failure for each nameserver that has no address or does not answer, and a
\* warning if others do.
SoaPenalty(d) ==
  25 * (d.servers - d.reached) +
  (IF d.reached > 0 /\ d.reached < d.servers THEN Penalty("warn") ELSE 0) +
  (IF d.reached > 1 /\ d.serialsDiffer THEN Penalty("warn") ELSE 0)

ApexPenalty(d) ==
  (IF d.apex = "none" THEN Penalty("fail") ELSE IF d.apex = "some" THEN Penalty("warn") ELSE 0) +
  (IF d.answersDiffer THEN Penalty("fail") ELSE 0)

CaaPenalty(d) == IF d.caa THEN 0 ELSE Penalty("warn")

\* Without a delegation the audit ends at its first check.
AuditDomain(d) ==
  IF d.servers = 0 THEN Clamped(Penalty("fail"))
  ELSE Clamped(SoaPenalty(d) + ApexPenalty(d) + CaaPenalty(d))

\* auditSweep notes an audit below this.
Noted(d) == AuditDomain(d) < 60
=============================================================================
