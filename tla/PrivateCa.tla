------------------------------ MODULE PrivateCa ------------------------------
(***************************************************************************)
(* The internal certificate authority: server/src/services/pki.ts, the ca  *)
(* and client_certificates tables of server/src/db.ts, and the minting of  *)
(* the server's own wildcard in server/src/services/serverIdentity.ts,     *)
(* which draws on the same serial counter.                                 *)
(*                                                                         *)
(* One Node process serves every request.  A database call is synchronous, *)
(* so it is one step; every await (key generation, key import, signing,    *)
(* CSR verification) is a point where other requests run.  A request is a  *)
(* program counter over those points.  A restart loses the requests and    *)
(* keeps the tables.                                                       *)
(***************************************************************************)
EXTENDS Naturals, Sequences

CONSTANTS
  Request,     \* slots for the requests in flight
  Tenant,
  Name,        \* valid subject names: a name NAME_RE refuses changes no state
  MaxSerial,   \* bound on the serial counter
  MaxKey       \* bound on the root keys ever generated

ASSUME SubjectsAssumption == Tenant # {} /\ Name # {}
ASSUME BoundsAssumption == MaxSerial \in Nat /\ MaxKey \in Nat

VARIABLES
  ca,          \* the ca row: the root key it holds, 0 when the table is empty
  keysMade,    \* root keys generated so far; a key is the number of its making
  serial,      \* ca.serial, the last serial handed out
  certs,       \* client_certificates, in order of their AUTOINCREMENT id
  minted,      \* signer and serial of the server certificates minted so far
  req          \* the requests

vars == <<ca, keysMade, serial, certs, minted, req>>

Kind == {"issue", "csr", "init", "mint"}

\* The awaits a request can be at.  A slot is otherwise idle, or keeps the
\* certificate its last request was answered with.
Waiting == {"verify", "makeCa", "keygen", "import", "sign"}
Ended   == {"idle", "issued"}

Row == [tenant: Tenant, name: Name, serial: Nat, signer: Nat,
        status: {"issued", "revoked"}]

Mint == [signer: Nat, serial: Nat, by: Request]

Req == [pc: Waiting \cup Ended, kind: Kind, tenant: Tenant, name: Name,
        ca: Nat, serial: Nat, row: Nat]

TypeOK ==
  /\ ca \in Nat /\ keysMade \in Nat /\ serial \in Nat
  /\ certs \in Seq(Row)
  /\ minted \subseteq Mint
  /\ req \in [Request -> Req]

-----------------------------------------------------------------------------
(* The tables.                                                             *)

\* findActiveClientCertificate: the issued row of a name in a tenant.
Active(t, n) ==
  \E i \in DOMAIN certs :
    certs[i].tenant = t /\ certs[i].name = n /\ certs[i].status = "issued"

\* Mutant of InsertCa: INSERT OR REPLACE.
InsertCaReplacing(k) == ca' = k /\ serial' = 0

\* createCa: INSERT OR IGNORE of the singleton row, its serial at 0.
InsertCa(k) ==
  IF ca = 0 THEN ca' = k /\ serial' = 0 ELSE UNCHANGED <<ca, serial>>

\* Mutant of NextSerial: counts the rows instead of incrementing a counter.
SerialFromRows == Len(certs) + 1

\* nextCaSerial: one transaction reads, increments and returns the counter.
NextSerial == serial + 1

\* Mutant of IndexAllows: no unique index, only the look-up before the awaits.
NoIndex(t, n) == TRUE

\* createClientCertificate, when the partial unique index on (tenant, name)
\* of the issued rows lets the INSERT through.
IndexAllows(t, n) == ~ Active(t, n)

-----------------------------------------------------------------------------
(* Requests.                                                               *)

SomeTenant == CHOOSE t \in Tenant : TRUE
SomeName == CHOOSE n \in Name : TRUE

\* A request as it arrives.  /pki/init and the minting of the server wildcard
\* have no subject: one of each stands in.
Arriving(kind, t, n) ==
  [pc |-> "idle", kind |-> kind, tenant |-> t, name |-> n, ca |-> 0, serial |-> 0, row |-> 0]

Idle == Arriving("init", SomeTenant, SomeName)

\* The request is over without a client certificate: it was refused, it
\* failed, or it asked for none.
End(r) == req' = [req EXCEPT ![r] = Idle]

\* How a request of this kind goes on once it holds the CA row.
WithCa(base, k) ==
  CASE base.kind \in {"issue", "mint"} -> [base EXCEPT !.pc = "keygen", !.ca = k]
    [] base.kind = "csr"               -> [base EXCEPT !.pc = "import", !.ca = k]
    [] base.kind = "init"              -> Idle

\* ensureCa up to its first await: an existing row is returned, otherwise a
\* root key is generated.
EnterEnsureCa(r, base) ==
  IF ca # 0
  THEN /\ req' = [req EXCEPT ![r] = WithCa(base, ca)]
       /\ UNCHANGED keysMade
  ELSE /\ keysMade < MaxKey
       /\ keysMade' = keysMade + 1
       /\ req' = [req EXCEPT ![r] = [base EXCEPT !.pc = "makeCa", !.ca = keysMade + 1]]

\* issueClientCertificate: a name that is already active is refused at once.
StartIssue(r, t, n) ==
  /\ req[r].pc \in Ended
  /\ IF Active(t, n)
     THEN End(r) /\ UNCHANGED keysMade
     ELSE EnterEnsureCa(r, Arriving("issue", t, n))
  /\ UNCHANGED <<ca, serial, certs, minted>>

\* enrollCsr: the CSR's signature is verified first, and the name is looked
\* up only after that await.
StartCsr(r, t, n) ==
  /\ req[r].pc \in Ended
  /\ req' = [req EXCEPT ![r] = [Arriving("csr", t, n) EXCEPT !.pc = "verify"]]
  /\ UNCHANGED <<ca, keysMade, serial, certs, minted>>

CsrVerified(r) ==
  /\ req[r].pc = "verify"
  /\ IF Active(req[r].tenant, req[r].name)
     THEN End(r) /\ UNCHANGED keysMade
     ELSE EnterEnsureCa(r, req[r])
  /\ UNCHANGED <<ca, serial, certs, minted>>

\* POST /pki/init, and the minting of the server wildcard: both begin with
\* ensureCa.
StartOther(r, kind) ==
  /\ req[r].pc \in Ended
  /\ EnterEnsureCa(r, Arriving(kind, SomeTenant, SomeName))
  /\ UNCHANGED <<ca, serial, certs, minted>>

\* Mutant of CaMade: goes on with the root it generated itself.
CaMadeOwnRoot(r) ==
  /\ req[r].pc = "makeCa"
  /\ InsertCa(req[r].ca)
  /\ req' = [req EXCEPT ![r] = WithCa(req[r], req[r].ca)]
  /\ UNCHANGED <<keysMade, certs, minted>>

\* The rest of ensureCa: store the generated root unless another request was
\* faster, and use the row that is in the table whoever wrote it.
CaMade(r) ==
  /\ req[r].pc = "makeCa"
  /\ InsertCa(req[r].ca)
  /\ req' = [req EXCEPT ![r] = WithCa(req[r], ca')]
  /\ UNCHANGED <<keysMade, certs, minted>>

\* The leaf's key pair is ready.  signAndStore looks the CA row up again;
\* issueWildcardServerCert goes on with the one it has.
KeyReady(r) ==
  /\ req[r].pc = "keygen"
  /\ req' = [req EXCEPT ![r].pc = "import",
                        ![r].ca = IF req[r].kind = "mint" THEN @ ELSE ca]
  /\ UNCHANGED <<ca, keysMade, serial, certs, minted>>

\* The CA key is imported: claim a serial.
ClaimSerial(r) ==
  /\ req[r].pc = "import"
  /\ NextSerial <= MaxSerial
  /\ serial' = NextSerial
  /\ req' = [req EXCEPT ![r].pc = "sign", ![r].serial = NextSerial]
  /\ UNCHANGED <<ca, keysMade, certs, minted>>

\* Mutant of StoreSigned: answers with the last row instead of the one inserted.
StoreSignedLastRow(r) ==
  /\ req[r].pc = "sign"
  /\ req[r].kind \in {"issue", "csr"}
  /\ IF IndexAllows(req[r].tenant, req[r].name)
     THEN /\ certs' = Append(certs, [tenant |-> req[r].tenant, name |-> req[r].name,
                                     serial |-> req[r].serial, signer |-> req[r].ca,
                                     status |-> "issued"])
          /\ req' = [req EXCEPT ![r].pc = "issued", ![r].row = Len(certs)]
     ELSE End(r) /\ UNCHANGED certs
  /\ UNCHANGED <<ca, keysMade, serial, minted>>

\* The leaf is signed: record it and answer.  A duplicate active name is
\* stopped by the index, and the request fails with its serial burnt.
StoreSigned(r) ==
  /\ req[r].pc = "sign"
  /\ req[r].kind \in {"issue", "csr"}
  /\ IF IndexAllows(req[r].tenant, req[r].name)
     THEN /\ certs' = Append(certs, [tenant |-> req[r].tenant, name |-> req[r].name,
                                     serial |-> req[r].serial, signer |-> req[r].ca,
                                     status |-> "issued"])
          /\ req' = [req EXCEPT ![r].pc = "issued", ![r].row = Len(certs) + 1]
     ELSE End(r) /\ UNCHANGED certs
  /\ UNCHANGED <<ca, keysMade, serial, minted>>

MintSigned(r) ==
  /\ req[r].pc = "sign"
  /\ req[r].kind = "mint"
  /\ minted' = minted \cup {[signer |-> req[r].ca, serial |-> req[r].serial, by |-> r]}
  /\ End(r)
  /\ UNCHANGED <<ca, keysMade, serial, certs>>

\* The awaited operation throws (a bad CSR, a key that does not import).
Fail(r) ==
  /\ req[r].pc \in Waiting
  /\ End(r)
  /\ UNCHANGED <<ca, keysMade, serial, certs, minted>>

\* Mutant of Revoke: a status outside the column's vocabulary.
RevokeMisspelt(i) ==
  /\ certs[i].status = "issued"
  /\ certs' = [certs EXCEPT ![i].status = "revoke"]
  /\ UNCHANGED <<ca, keysMade, serial, minted, req>>

\* revokeClientCertificate: a 404 or an already revoked row changes nothing.
Revoke(i) ==
  /\ certs[i].status = "issued"
  /\ certs' = [certs EXCEPT ![i].status = "revoked"]
  /\ UNCHANGED <<ca, keysMade, serial, minted, req>>

\* The process is killed and started again.
Restart ==
  /\ \E r \in Request : req[r].pc \in Waiting
  /\ req' = [r \in Request |-> IF req[r].pc \in Waiting THEN Idle ELSE req[r]]
  /\ UNCHANGED <<ca, keysMade, serial, certs, minted>>

-----------------------------------------------------------------------------
Init ==
  /\ ca = 0
  /\ keysMade = 0
  /\ serial = 0
  /\ certs = <<>>
  /\ minted = {}
  /\ req = [r \in Request |-> Idle]

Advance(r) ==
  \/ CsrVerified(r)
  \/ CaMade(r)
  \/ KeyReady(r)
  \/ ClaimSerial(r)
  \/ StoreSigned(r)
  \/ MintSigned(r)
  \/ Fail(r)

Next ==
  \/ \E r \in Request, t \in Tenant, n \in Name : StartIssue(r, t, n) \/ StartCsr(r, t, n)
  \/ \E r \in Request, kind \in {"init", "mint"} : StartOther(r, kind)
  \/ \E r \in Request : Advance(r)
  \/ \E i \in DOMAIN certs : Revoke(i)
  \/ Restart

Spec == Init /\ [][Next]_vars

-----------------------------------------------------------------------------
(* Properties.                                                             *)

\* One active certificate per tenant and name (docs/device-enrollment.md:174),
\* although the name is looked up several awaits before the row is inserted.
OneActivePerName ==
  \A i, j \in DOMAIN certs :
    /\ certs[i].status = "issued" /\ certs[j].status = "issued"
    /\ certs[i].tenant = certs[j].tenant /\ certs[i].name = certs[j].name
    => i = j

\* No two certificates the CA signed bear the same serial, whichever of the
\* three paths claimed it and in whatever order they finished.
SerialsUnique ==
  /\ \A i, j \in DOMAIN certs : certs[i].serial = certs[j].serial => i = j
  /\ \A m1, m2 \in minted : m1.serial = m2.serial => m1 = m2
  /\ \A i \in DOMAIN certs, m \in minted : certs[i].serial # m.serial

\* Every certificate on record or minted verifies against the root the portal
\* hands out, also when several first users generated a root concurrently.
SignedByTheRoot ==
  /\ \A i \in DOMAIN certs : certs[i].signer = ca
  /\ \A m \in minted : m.signer = ca

\* A caller told that its certificate was issued finds exactly that
\* certificate on record: its tenant, its name, the serial it was signed with.
AnswerIsOnRecord ==
  \A r \in Request :
    req[r].pc = "issued" =>
      /\ req[r].row \in DOMAIN certs
      /\ certs[req[r].row].tenant = req[r].tenant
      /\ certs[req[r].row].name = req[r].name
      /\ certs[req[r].row].serial = req[r].serial

\* The root is never replaced, the serial counter never goes back, and what
\* is on record stays: a row is only ever revoked, once.
KeepsHistory ==
  /\ ca # 0 => ca' = ca
  /\ serial' >= serial
  /\ \A i \in DOMAIN certs :
       /\ i \in DOMAIN certs'
       /\ \/ certs'[i] = certs[i]
          \/ /\ certs[i].status = "issued"
             /\ certs'[i] = [certs[i] EXCEPT !.status = "revoked"]

HistoryIsKept == [][KeepsHistory]_vars

\* What the tables look like to CredentialRegistry: the active credentials,
\* and the serials on record.
CredentialOf(row) ==
  [tenant |-> row.tenant, name |-> row.name, serial |-> row.serial, signer |-> row.signer]
Held == {CredentialOf(certs[i]) : i \in {j \in DOMAIN certs : certs[j].status = "issued"}}
Spent == {certs[i].serial : i \in DOMAIN certs}

Registry == INSTANCE CredentialRegistry WITH
  Serial <- 1..MaxSerial, Key <- 1..MaxKey, authority <- ca, held <- Held, spent <- Spent

\* The code's requests, run with all their interleavings, look to the tables
\* like the atomic grants and withdrawals of CredentialRegistry.
RegistrySpec == Registry!Spec
=============================================================================
