--------------------------- MODULE PrivateCaProofs ---------------------------
(***************************************************************************)
(* Proofs about PrivateCa for any number of requests, tenants and names    *)
(* and any bounds: type correctness, the safety invariants, the action     *)
(* property, and that it implements CredentialRegistry.                    *)
(*                                                                         *)
(* None of the invariants is inductive alone.  A certificate's signer is   *)
(* the root because every request that got past ensureCa holds the root    *)
(* (RootInv); serials on record differ because those still being signed    *)
(* differ from each other and from those on record (SerialInv).            *)
(***************************************************************************)
EXTENDS PrivateCa, SequenceTheorems, TLAPS

PastEnsureCa == {"keygen", "import", "sign"}

\* The root: generated before it is stored, held by every request past ensureCa.
RootInv ==
  /\ keysMade <= MaxKey
  /\ ca <= keysMade
  /\ ca = 0 => serial = 0
  /\ \A r \in Request : req[r].pc = "makeCa" => req[r].ca \in 1..keysMade
  /\ \A r \in Request : req[r].pc \in PastEnsureCa => req[r].ca = ca /\ ca # 0
  /\ \A i \in DOMAIN certs : certs[i].signer = ca /\ ca # 0
  /\ \A m \in minted : m.signer = ca /\ ca # 0

\* The serials: all drawn from the counter, no two alike, on record or in signing.
SerialInv ==
  /\ serial <= MaxSerial
  /\ \A r \in Request : req[r].pc = "sign" => req[r].serial \in 1..serial
  /\ \A i \in DOMAIN certs : certs[i].serial \in 1..serial
  /\ \A m \in minted : m.serial \in 1..serial
  /\ \A r, q \in Request :
       req[r].pc = "sign" /\ req[q].pc = "sign" /\ req[r].serial = req[q].serial => r = q
  /\ \A r \in Request, i \in DOMAIN certs :
       req[r].pc = "sign" => req[r].serial # certs[i].serial
  /\ \A r \in Request, m \in minted : req[r].pc = "sign" => req[r].serial # m.serial
  /\ SerialsUnique

IInv == TypeOK /\ RootInv /\ SerialInv /\ OneActivePerName /\ AnswerIsOnRecord

-----------------------------------------------------------------------------
\* A slot that is idle is well formed.
LEMMA IdleType == Idle \in Req /\ Idle.pc = "idle"
<1>1. SomeTenant \in Tenant /\ SomeName \in Name
  BY SubjectsAssumption DEF SomeTenant, SomeName
<1>2. QED
  BY <1>1 DEF Idle, Arriving, Req, Kind, Waiting, Ended

\* Moving a request on, to another point and with another number in one of
\* its fields, keeps it well formed.
LEMMA MovedTo ==
  ASSUME NEW q \in Req, NEW p \in Waiting \cup Ended, NEW k \in Nat
  PROVE  LET x == [q EXCEPT !.pc = p, !.ca = k]
             y == [q EXCEPT !.pc = p, !.serial = k]
             z == [q EXCEPT !.pc = p, !.row = k]
         IN x \in Req /\ y \in Req /\ z \in Req
BY DEF Req

\* How rows are changed: a revocation keeps the sequence, its length and
\* every field of every row but the status of one.
LEMMA RevokeRow ==
  ASSUME NEW s \in Seq(Row), NEW i \in DOMAIN s
  PROVE  LET t == [s EXCEPT ![i].status = "revoked"] IN
         /\ t \in Seq(Row)
         /\ DOMAIN t = DOMAIN s
         /\ \A j \in DOMAIN s :
              /\ t[j].tenant = s[j].tenant /\ t[j].name = s[j].name
              /\ t[j].serial = s[j].serial /\ t[j].signer = s[j].signer
              /\ t[j].status = IF j = i THEN "revoked" ELSE s[j].status
              /\ j # i => t[j] = s[j]
<1> DEFINE t == [s EXCEPT ![i].status = "revoked"]
<1>1. \A j \in DOMAIN s : s[j] \in Row
  BY ElementOfSeq, LenProperties
<1>2. DOMAIN t = DOMAIN s
  OBVIOUS
<1>3. \A j \in DOMAIN s : t[j] \in Row
  BY <1>1 DEF Row
<1>4. t \in Seq(Row)
  BY <1>2, <1>3, LenProperties, SeqDef
<1>5. QED
  BY <1>1, <1>2, <1>4 DEF Row

\* Every step of a request that touches neither the certificates nor the
\* counter: it moves one slot to a point where it has no serial.
LEMMA SlotStep ==
  ASSUME IInv, NEW r \in Request, NEW x \in Req,
         req' = [req EXCEPT ![r] = x],
         ca' \in Nat, ca # 0 => ca' = ca, ca' <= keysMade',
         keysMade' \in Nat, keysMade <= keysMade', keysMade' <= MaxKey,
         UNCHANGED <<serial, certs, minted>>,
         \/ x.pc \in {"idle", "verify"}
         \/ x.pc = "makeCa" /\ x.ca \in 1..keysMade'
         \/ x.pc \in {"keygen", "import"} /\ x.ca = ca' /\ ca' # 0
  PROVE  IInv'
<1>1. TypeOK'
  BY DEF IInv, TypeOK
<1>2. \A q \in Request : q # r => req'[q] = req[q]
  BY DEF IInv, TypeOK
<1>3. req'[r] = x
  BY DEF IInv, TypeOK
<1>4. RootInv'
  <2>1. (ca' = 0 => serial' = 0) /\ (ca' # 0 \/ ca = 0)
    BY DEF IInv, RootInv
  <2>2. \A q \in Request : req'[q].pc = "makeCa" => req'[q].ca \in 1..keysMade'
    BY <1>2, <1>3 DEF IInv, RootInv, TypeOK, Req
  <2>3. \A q \in Request : req'[q].pc \in PastEnsureCa => req'[q].ca = ca' /\ ca' # 0
    BY <1>2, <1>3 DEF IInv, RootInv, PastEnsureCa
  <2>4. QED
    BY <2>1, <2>2, <2>3 DEF IInv, RootInv
<1>5. SerialInv'
  BY <1>2, <1>3 DEF IInv, SerialInv, SerialsUnique
<1>6. OneActivePerName'
  BY DEF IInv, OneActivePerName
<1>7. AnswerIsOnRecord'
  BY <1>2, <1>3 DEF IInv, AnswerIsOnRecord
<1>8. QED
  BY <1>1, <1>4, <1>5, <1>6, <1>7 DEF IInv

\* Entering ensureCa is such a step, for a request that carries no serial.
LEMMA EnterStep ==
  ASSUME IInv, NEW r \in Request, NEW base \in Req,
         EnterEnsureCa(r, base), UNCHANGED <<ca, serial, certs, minted>>
  PROVE  IInv'
<1>0. ca \in Nat /\ keysMade \in Nat /\ keysMade <= MaxKey /\ ca <= keysMade
  BY DEF IInv, TypeOK, RootInv
<1>1. CASE ca # 0
  <2>1. WithCa(base, ca) \in Req
    BY <1>0, IdleType DEF WithCa, Req, Kind, Waiting
  <2>2. \/ WithCa(base, ca).pc = "idle"
        \/ WithCa(base, ca).pc \in {"keygen", "import"} /\ WithCa(base, ca).ca = ca
    BY IdleType DEF WithCa, Req, Kind
  <2>3. QED
    BY <1>0, <1>1, <2>1, <2>2, SlotStep DEF EnterEnsureCa
<1>2. CASE ca = 0
  <2> DEFINE k == keysMade + 1
             x == [base EXCEPT !.pc = "makeCa", !.ca = k]
  <2>1. k \in Nat /\ keysMade < k /\ "makeCa" \in Waiting \cup Ended
    BY <1>0 DEF Waiting
  <2>2. keysMade' = k /\ req' = [req EXCEPT ![r] = x]
    BY <1>2 DEF EnterEnsureCa
  <2>3. keysMade < MaxKey
    BY <1>2 DEF EnterEnsureCa
  <2>4. k <= MaxKey
    BY <1>0, <2>3, BoundsAssumption
  <2>5. x.pc = "makeCa" /\ x.ca = k
    BY DEF Req
  <2> HIDE DEF k
  <2>6. x \in Req
    BY <2>1, MovedTo
  <2> HIDE DEF x
  <2>7. x.ca \in 1..keysMade'
    BY <1>0, <2>1, <2>2, <2>5
  <2>8. /\ UNCHANGED <<serial, certs, minted>> /\ ca' \in Nat /\ (ca # 0 => ca' = ca)
        /\ ca' <= keysMade' /\ keysMade' \in Nat /\ keysMade <= keysMade' /\ keysMade' <= MaxKey
    BY <1>0, <2>1, <2>2, <2>4
  <2>9. QED
    BY <2>2, <2>5, <2>6, <2>7, <2>8, SlotStep
<1>3. QED
  BY <1>1, <1>2

\* Ending a request, which frees its slot, keeps the invariant.
LEMMA EndStep ==
  ASSUME IInv, NEW r \in Request, End(r), UNCHANGED <<ca, keysMade, serial, certs, minted>>
  PROVE  IInv'
<1>1. /\ ca' \in Nat /\ (ca # 0 => ca' = ca) /\ ca' <= keysMade'
      /\ keysMade' \in Nat /\ keysMade <= keysMade' /\ keysMade' <= MaxKey
  BY DEF IInv, TypeOK, RootInv
<1>2. req' = [req EXCEPT ![r] = Idle] /\ UNCHANGED <<serial, certs, minted>>
  BY DEF End
<1>3. QED
  BY <1>1, <1>2, IdleType, SlotStep

\* Claiming a serial keeps the invariant: the new number is above all others.
LEMMA ClaimSerialStep ==
  ASSUME IInv, NEW r \in Request, ClaimSerial(r)
  PROVE  IInv'
<1>1. TypeOK'
  <2> DEFINE x == [req[r] EXCEPT !.pc = "sign", !.serial = serial + 1]
  <2>0. req[r] \in Req /\ serial + 1 \in Nat /\ "sign" \in Waiting \cup Ended
    BY DEF IInv, TypeOK, Waiting
  <2>1. x \in Req
    BY <2>0, MovedTo
  <2>2. req' = [req EXCEPT ![r] = x]
    BY DEF ClaimSerial, NextSerial
  <2> HIDE DEF x
  <2>3. req' \in [Request -> Req]
    BY <2>1, <2>2 DEF IInv, TypeOK
  <2>4. QED
    BY <2>3 DEF IInv, TypeOK, ClaimSerial, NextSerial
<1>2. /\ \A q \in Request : q # r => req'[q] = req[q]
      /\ req'[r].pc = "sign" /\ req'[r].serial = serial + 1
      /\ req'[r].ca = req[r].ca /\ req[r].pc = "import"
      /\ serial' = serial + 1 /\ serial \in Nat /\ serial' <= MaxSerial
      /\ ca' = ca /\ keysMade' = keysMade /\ certs' = certs /\ minted' = minted
  BY DEF IInv, TypeOK, ClaimSerial, NextSerial, Req
<1>3. RootInv'
  BY <1>2 DEF IInv, RootInv, PastEnsureCa
<1>4. SerialInv'
  <2>1. \A i \in DOMAIN certs : certs[i].serial \in 1..serial
    BY DEF IInv, SerialInv
  <2>2. \A m \in minted : m.serial \in 1..serial
    BY DEF IInv, SerialInv
  <2>3. \A q \in Request : req[q].pc = "sign" => req[q].serial \in 1..serial
    BY DEF IInv, SerialInv
  <2>4. \A q \in Request : req'[q].pc = "sign" => req'[q].serial \in 1..serial'
    BY <1>2, <2>3
  <2>5. \A q, p \in Request :
          req'[q].pc = "sign" /\ req'[p].pc = "sign" /\ req'[q].serial = req'[p].serial => q = p
    BY <1>2, <2>3 DEF IInv, SerialInv
  <2>6. \A q \in Request, i \in DOMAIN certs' :
          req'[q].pc = "sign" => req'[q].serial # certs'[i].serial
    BY <1>2, <2>1 DEF IInv, SerialInv
  <2>7. \A q \in Request, m \in minted' : req'[q].pc = "sign" => req'[q].serial # m.serial
    BY <1>2, <2>2 DEF IInv, SerialInv
  <2>8. SerialsUnique'
    BY <1>2 DEF IInv, SerialInv, SerialsUnique
  <2>9. QED
    BY <1>2, <2>1, <2>2, <2>4, <2>5, <2>6, <2>7, <2>8 DEF SerialInv
<1>5. OneActivePerName'
  BY <1>2 DEF IInv, OneActivePerName
<1>6. AnswerIsOnRecord'
  BY <1>2 DEF IInv, AnswerIsOnRecord
<1>7. QED
  BY <1>1, <1>3, <1>4, <1>5, <1>6 DEF IInv

\* Recording a minted server certificate keeps the invariant.
LEMMA MintSignedStep ==
  ASSUME IInv, NEW r \in Request, MintSigned(r)
  PROVE  IInv'
<1> DEFINE new == [signer |-> req[r].ca, serial |-> req[r].serial, by |-> r]
<1>1. /\ req[r].pc = "sign" /\ minted' = minted \cup {new}
      /\ \A q \in Request : q # r => req'[q] = req[q]
      /\ req'[r] = Idle
      /\ UNCHANGED <<ca, keysMade, serial, certs>>
  BY DEF IInv, TypeOK, MintSigned, End
<1>2. TypeOK'
  BY IdleType DEF IInv, TypeOK, MintSigned, End, Req, Mint
<1>3. RootInv'
  BY <1>1, IdleType DEF IInv, RootInv, PastEnsureCa
<1>4. SerialInv'
  <2>1. \A q \in Request : req'[q].pc = "sign" => q # r /\ req'[q] = req[q]
    BY <1>1, IdleType
  <2>2. new.serial \in 1..serial
    BY <1>1 DEF IInv, SerialInv
  <2>3. \A m \in minted : m.serial # new.serial
    BY <1>1 DEF IInv, SerialInv
  <2>4. \A i \in DOMAIN certs : certs[i].serial # new.serial
    BY <1>1 DEF IInv, SerialInv
  <2>5. SerialsUnique'
    BY <1>1, <2>3, <2>4 DEF IInv, SerialInv, SerialsUnique
  <2>6. \A q \in Request, m \in minted' : req'[q].pc = "sign" => req'[q].serial # m.serial
    BY <1>1, <2>1 DEF IInv, SerialInv
  <2>7. QED
    BY <1>1, <2>1, <2>2, <2>5, <2>6 DEF IInv, SerialInv
<1>5. OneActivePerName'
  BY <1>1 DEF IInv, OneActivePerName
<1>6. AnswerIsOnRecord'
  BY <1>1, IdleType DEF IInv, AnswerIsOnRecord
<1>7. QED
  BY <1>2, <1>3, <1>4, <1>5, <1>6 DEF IInv

\* Storing a signed client certificate keeps the invariant: the index refuses
\* the only row that would break it.
LEMMA StoreSignedStep ==
  ASSUME IInv, NEW r \in Request, StoreSigned(r)
  PROVE  IInv'
<1>1. CASE ~ IndexAllows(req[r].tenant, req[r].name)
  BY <1>1, EndStep DEF StoreSigned
<1>2. CASE IndexAllows(req[r].tenant, req[r].name)
  <2> DEFINE new == [tenant |-> req[r].tenant, name |-> req[r].name,
                     serial |-> req[r].serial, signer |-> req[r].ca, status |-> "issued"]
             n == Len(certs)
  <2>1. /\ req[r].pc = "sign" /\ certs' = Append(certs, new)
        /\ req' = [req EXCEPT ![r].pc = "issued", ![r].row = n + 1]
        /\ UNCHANGED <<ca, keysMade, serial, minted>>
    BY <1>2 DEF StoreSigned
  <2>2. new \in Row /\ req[r] \in Req
    BY DEF IInv, TypeOK, Req, Row
  <2>3. /\ certs \in Seq(Row) /\ certs' \in Seq(Row) /\ n \in Nat
        /\ DOMAIN certs = 1..n /\ DOMAIN certs' = 1..(n + 1)
        /\ \A i \in 1..n : certs'[i] = certs[i]
        /\ certs'[n + 1] = new
    BY <2>1, <2>2, AppendProperties, LenProperties DEF IInv, TypeOK
  <2>4. /\ \A q \in Request : q # r => req'[q] = req[q]
        /\ req'[r].pc = "issued" /\ req'[r].row = n + 1
        /\ req'[r].tenant = req[r].tenant /\ req'[r].name = req[r].name
        /\ req'[r].serial = req[r].serial
    BY <2>1, <2>2 DEF IInv, TypeOK, Req
  <2> HIDE DEF n
  <2>5. TypeOK'
    <3> DEFINE x == [req[r] EXCEPT !.pc = "issued", !.row = n + 1]
    <3>0. n + 1 \in Nat /\ "issued" \in Waiting \cup Ended
      BY <2>3 DEF Ended
    <3>1. x \in Req
      BY <2>2, <3>0, MovedTo
    <3>2. req' = [req EXCEPT ![r] = x]
      BY <2>1
    <3> HIDE DEF x
    <3>3. req' \in [Request -> Req]
      BY <3>1, <3>2 DEF IInv, TypeOK
    <3>4. QED
      BY <2>1, <2>3, <3>3 DEF IInv, TypeOK
  <2>6. RootInv'
    <3>1. \A q \in Request : req'[q].pc \in PastEnsureCa \cup {"makeCa"} => req'[q] = req[q]
      BY <2>4 DEF PastEnsureCa
    <3>2. new.signer = ca /\ ca # 0
      BY <2>1 DEF IInv, RootInv, PastEnsureCa
    <3>3. \A i \in DOMAIN certs' : certs'[i].signer = ca /\ ca # 0
      BY <2>3, <3>2 DEF IInv, RootInv
    <3>4. QED
      BY <2>1, <3>1, <3>3 DEF IInv, RootInv
  <2>7. SerialInv'
    <3>1. \A q \in Request : req'[q].pc = "sign" => q # r /\ req'[q] = req[q]
      BY <2>4
    <3>2. new.serial \in 1..serial
      BY <2>1 DEF IInv, SerialInv
    <3>3. \A i \in 1..n : certs[i].serial # new.serial
      BY <2>1, <2>3 DEF IInv, SerialInv
    <3>4. \A m \in minted : m.serial # new.serial
      BY <2>1 DEF IInv, SerialInv
    <3>5. SerialsUnique'
      BY <2>1, <2>3, <3>3, <3>4 DEF IInv, SerialInv, SerialsUnique
    <3>6. \A q \in Request : req[q].pc = "sign" /\ q # r => req[q].serial # new.serial
      BY <2>1 DEF IInv, SerialInv
    <3>7. \A q \in Request, i \in DOMAIN certs' :
            req'[q].pc = "sign" => req'[q].serial # certs'[i].serial
      <4> SUFFICES ASSUME NEW q \in Request, NEW i \in 1..(n + 1), req'[q].pc = "sign"
                   PROVE  req'[q].serial # certs'[i].serial
        BY <2>3
      <4>1. CASE i = n + 1
        BY <4>1, <2>3, <3>1, <3>6
      <4>2. CASE i \in 1..n
        BY <4>2, <2>3, <3>1 DEF IInv, SerialInv
      <4>3. QED
        BY <4>1, <4>2, <2>3
    <3>8. \A i \in DOMAIN certs' : certs'[i].serial \in 1..serial
      BY <2>3, <3>2 DEF IInv, SerialInv
    <3>9. \A q, p \in Request :
            req'[q].pc = "sign" /\ req'[p].pc = "sign" /\ req'[q].serial = req'[p].serial => q = p
      BY <3>1 DEF IInv, SerialInv
    <3>10. \A q \in Request : req'[q].pc = "sign" => req'[q].serial \in 1..serial
      BY <3>1 DEF IInv, SerialInv
    <3>11. \A q \in Request, m \in minted : req'[q].pc = "sign" => req'[q].serial # m.serial
      BY <3>1 DEF IInv, SerialInv
    <3>12. serial' = serial /\ minted' = minted
      BY <2>1
    <3>13. serial <= MaxSerial /\ \A m \in minted : m.serial \in 1..serial
      BY DEF IInv, SerialInv
    <3> HIDE DEF new
    <3>14. QED
      BY <3>5, <3>7, <3>8, <3>9, <3>10, <3>11, <3>12, <3>13 DEF SerialInv
  <2>8. OneActivePerName'
    <3>1. \A i \in 1..n : ~ (/\ certs[i].tenant = new.tenant /\ certs[i].name = new.name
                             /\ certs[i].status = "issued")
      BY <1>2, <2>3 DEF IndexAllows, Active
    <3>2. QED
      BY <2>3, <3>1 DEF IInv, OneActivePerName
  <2>9. AnswerIsOnRecord'
    BY <2>3, <2>4 DEF IInv, AnswerIsOnRecord
  <2>10. QED
    BY <2>5, <2>6, <2>7, <2>8, <2>9 DEF IInv
<1>3. QED
  BY <1>1, <1>2

\* Revoking a certificate keeps the invariant.
LEMMA RevokeStep ==
  ASSUME IInv, NEW i \in DOMAIN certs, Revoke(i)
  PROVE  IInv'
<1>1. certs \in Seq(Row) /\ certs' = [certs EXCEPT ![i].status = "revoked"]
  BY DEF IInv, TypeOK, Revoke
<1>2. /\ certs' \in Seq(Row)
      /\ DOMAIN certs' = DOMAIN certs
      /\ \A j \in DOMAIN certs :
           /\ certs'[j].tenant = certs[j].tenant /\ certs'[j].name = certs[j].name
           /\ certs'[j].serial = certs[j].serial /\ certs'[j].signer = certs[j].signer
           /\ certs'[j].status = IF j = i THEN "revoked" ELSE certs[j].status
  BY <1>1, RevokeRow
<1>3. UNCHANGED <<ca, keysMade, serial, minted, req>>
  BY DEF Revoke
<1>4. TypeOK'
  BY <1>2, <1>3 DEF IInv, TypeOK
<1>5. RootInv'
  BY <1>2, <1>3 DEF IInv, RootInv
<1>6. SerialInv'
  BY <1>2, <1>3 DEF IInv, SerialInv, SerialsUnique
<1>7. OneActivePerName'
  BY <1>2 DEF IInv, OneActivePerName
<1>8. AnswerIsOnRecord'
  BY <1>2, <1>3 DEF IInv, AnswerIsOnRecord
<1>9. QED
  BY <1>4, <1>5, <1>6, <1>7, <1>8 DEF IInv

\* Losing every request under way keeps the invariant.
LEMMA RestartStep ==
  ASSUME IInv, Restart
  PROVE  IInv'
<1>1. /\ \A r \in Request : req'[r] = Idle \/ (req[r].pc \notin Waiting /\ req'[r] = req[r])
      /\ UNCHANGED <<ca, keysMade, serial, certs, minted>>
  BY DEF Restart
<1>2. \A r \in Request : req'[r].pc \in Waiting => req'[r] = req[r]
  BY <1>1, IdleType DEF Waiting
<1>3. TypeOK'
  BY <1>1, IdleType DEF IInv, TypeOK, Restart
<1>4. RootInv'
  BY <1>1, <1>2 DEF IInv, RootInv, PastEnsureCa, Waiting
<1>5. SerialInv'
  BY <1>1, <1>2 DEF IInv, SerialInv, SerialsUnique, Waiting
<1>6. OneActivePerName'
  BY <1>1 DEF IInv, OneActivePerName
<1>7. AnswerIsOnRecord'
  BY <1>1, IdleType DEF IInv, AnswerIsOnRecord
<1>8. QED
  BY <1>3, <1>4, <1>5, <1>6, <1>7 DEF IInv

-----------------------------------------------------------------------------
\* The inductive invariant holds initially.
LEMMA InitInv == Init => IInv
<1> SUFFICES ASSUME Init PROVE IInv
  OBVIOUS
<1>1. DOMAIN certs = {} /\ certs \in Seq(Row)
  BY DEF Init
<1>2. TypeOK
  BY <1>1, IdleType DEF Init, TypeOK
<1>3. RootInv
  BY <1>1, IdleType, BoundsAssumption DEF Init, RootInv, PastEnsureCa
<1>4. SerialInv
  BY <1>1, IdleType, BoundsAssumption DEF Init, SerialInv, SerialsUnique
<1>5. QED
  BY <1>1, <1>2, <1>3, <1>4, IdleType DEF IInv, Init, OneActivePerName, AnswerIsOnRecord

\* Every step keeps the inductive invariant.
LEMMA NextInv == IInv /\ [Next]_vars => IInv'
<1> SUFFICES ASSUME IInv, [Next]_vars PROVE IInv'
  OBVIOUS
<1>0. /\ ca \in Nat /\ keysMade \in Nat /\ keysMade <= MaxKey /\ ca <= keysMade
      /\ \A r \in Request : req[r] \in Req
  BY DEF IInv, TypeOK, RootInv
<1>1. ASSUME NEW r \in Request, NEW t \in Tenant, NEW n \in Name, StartIssue(r, t, n)
      PROVE IInv'
  <2>1. Arriving("issue", t, n) \in Req
    BY DEF Arriving, Req, Kind, Ended
  <2>2. QED
    BY <1>1, <2>1, EnterStep, EndStep DEF StartIssue
<1>2. ASSUME NEW r \in Request, NEW t \in Tenant, NEW n \in Name, StartCsr(r, t, n)
      PROVE IInv'
  <2> DEFINE x == [Arriving("csr", t, n) EXCEPT !.pc = "verify"]
  <2>1. x \in Req /\ x.pc = "verify"
    BY DEF Arriving, Req, Kind, Waiting
  <2>2. req' = [req EXCEPT ![r] = x]
    BY <1>2 DEF StartCsr
  <2>3. UNCHANGED <<ca, keysMade, serial, certs, minted>>
    BY <1>2 DEF StartCsr
  <2> HIDE DEF x
  <2>4. /\ ca' \in Nat /\ (ca # 0 => ca' = ca) /\ ca' <= keysMade'
        /\ keysMade' \in Nat /\ keysMade <= keysMade' /\ keysMade' <= MaxKey
    BY <1>0, <2>3
  <2>5. QED
    BY <2>1, <2>2, <2>3, <2>4, SlotStep
<1>3. ASSUME NEW r \in Request, NEW kind \in {"init", "mint"}, StartOther(r, kind)
      PROVE IInv'
  <2>1. Arriving(kind, SomeTenant, SomeName) \in Req
    BY SubjectsAssumption DEF Arriving, Req, Kind, Ended, SomeTenant, SomeName
  <2>2. QED
    BY <1>3, <2>1, EnterStep DEF StartOther
<1>4. ASSUME NEW r \in Request, CsrVerified(r)
      PROVE IInv'
  BY <1>0, <1>4, EnterStep, EndStep DEF CsrVerified
<1>5. ASSUME NEW r \in Request, CaMade(r)
      PROVE IInv'
  <2>1. /\ ca' \in Nat /\ ca' # 0 /\ (ca # 0 => ca' = ca) /\ ca' <= keysMade
        /\ serial' = serial
    BY <1>0, <1>5 DEF CaMade, InsertCa, IInv, RootInv
  <2> DEFINE x == WithCa(req[r], ca')
  <2>2. x \in Req
    BY <1>0, <2>1, IdleType DEF WithCa, Req, Kind, Waiting
  <2>3. x.pc = "idle" \/ (x.pc \in {"keygen", "import"} /\ x.ca = ca')
    BY <1>0, IdleType DEF WithCa, Req, Kind
  <2>4. /\ req' = [req EXCEPT ![r] = x]
        /\ UNCHANGED <<keysMade, certs, minted>>
    BY <1>5 DEF CaMade
  <2> HIDE DEF x
  <2>5. /\ UNCHANGED <<serial, certs, minted>>
        /\ ca' <= keysMade' /\ keysMade' \in Nat /\ keysMade <= keysMade' /\ keysMade' <= MaxKey
    BY <1>0, <2>1, <2>4
  <2>6. QED
    BY <2>1, <2>2, <2>3, <2>4, <2>5, SlotStep
<1>6. ASSUME NEW r \in Request, KeyReady(r)
      PROVE IInv'
  <2> DEFINE x == [req[r] EXCEPT !.pc = "import",
                                 !.ca = IF req[r].kind = "mint" THEN req[r].ca ELSE ca]
  <2>1. req[r].ca = ca /\ ca # 0
    BY <1>6 DEF KeyReady, IInv, RootInv, PastEnsureCa
  <2>2. x \in Req /\ x.pc = "import" /\ x.ca = ca
    BY <1>0, <2>1 DEF Req, Waiting
  <2>3. req' = [req EXCEPT ![r] = x]
    BY <1>6 DEF KeyReady
  <2>4. UNCHANGED <<ca, keysMade, serial, certs, minted>>
    BY <1>6 DEF KeyReady
  <2> HIDE DEF x
  <2>5. /\ ca' \in Nat /\ (ca # 0 => ca' = ca) /\ ca' <= keysMade' /\ x.ca = ca' /\ ca' # 0
        /\ keysMade' \in Nat /\ keysMade <= keysMade' /\ keysMade' <= MaxKey
    BY <1>0, <2>1, <2>2, <2>4
  <2>6. QED
    BY <2>2, <2>3, <2>4, <2>5, SlotStep
<1>7. ASSUME NEW r \in Request, ClaimSerial(r)
      PROVE IInv'
  BY <1>7, ClaimSerialStep
<1>8. ASSUME NEW r \in Request, StoreSigned(r)
      PROVE IInv'
  BY <1>8, StoreSignedStep
<1>9. ASSUME NEW r \in Request, MintSigned(r)
      PROVE IInv'
  BY <1>9, MintSignedStep
<1>10. ASSUME NEW r \in Request, Fail(r)
       PROVE IInv'
  BY <1>10, EndStep DEF Fail
<1>11. ASSUME NEW i \in DOMAIN certs, Revoke(i)
       PROVE IInv'
  BY <1>11, RevokeStep
<1>12. CASE Restart
  BY <1>12, RestartStep
<1>13. CASE UNCHANGED vars
  BY <1>13 DEF vars, IInv, TypeOK, RootInv, SerialInv, SerialsUnique, OneActivePerName,
               AnswerIsOnRecord
<1>14. QED
  BY <1>1, <1>2, <1>3, <1>4, <1>5, <1>6, <1>7, <1>8, <1>9, <1>10, <1>11, <1>12, <1>13
     DEF Next, Advance

\* The inductive invariant holds in every reachable state.
LEMMA Invariance == Spec => []IInv
  BY InitInv, NextInv, PTL DEF Spec

-----------------------------------------------------------------------------
(* The steps that change the certificate table, seen from outside.         *)

\* What StoreSigned does when the index lets the row through.
LEMMA StoredRow ==
  ASSUME IInv, NEW r \in Request, StoreSigned(r),
         IndexAllows(req[r].tenant, req[r].name)
  PROVE  \E new \in Row :
           /\ new.tenant = req[r].tenant /\ new.name = req[r].name
           /\ new.status = "issued" /\ new.signer = ca /\ ca # 0
           /\ new.serial \in 1..MaxSerial
           /\ \A i \in DOMAIN certs : certs[i].serial # new.serial
           /\ DOMAIN certs = 1..Len(certs) /\ DOMAIN certs' = 1..(Len(certs) + 1)
           /\ Len(certs) \in Nat
           /\ \A i \in DOMAIN certs : certs'[i] = certs[i]
           /\ certs'[Len(certs) + 1] = new
           /\ ca' = ca /\ serial' = serial
<1> DEFINE new == [tenant |-> req[r].tenant, name |-> req[r].name,
                   serial |-> req[r].serial, signer |-> req[r].ca, status |-> "issued"]
<1>1. req[r].pc = "sign" /\ certs' = Append(certs, new) /\ ca' = ca /\ serial' = serial
  BY DEF StoreSigned
<1>2. certs \in Seq(Row) /\ serial \in Nat
  BY DEF IInv, TypeOK
<1>3. new \in Row
  BY DEF IInv, TypeOK, Req, Row
<1>4. new.signer = ca /\ ca # 0
  BY <1>1 DEF IInv, RootInv, PastEnsureCa
<1>5. new.serial \in 1..serial /\ \A i \in DOMAIN certs : certs[i].serial # new.serial
  BY <1>1 DEF IInv, SerialInv
<1>6. new.serial \in 1..MaxSerial
  BY <1>2, <1>5, BoundsAssumption DEF IInv, SerialInv
<1>7. new.tenant = req[r].tenant /\ new.name = req[r].name /\ new.status = "issued"
  OBVIOUS
<1> HIDE DEF new
<1>8. /\ DOMAIN certs = 1..Len(certs) /\ DOMAIN certs' = 1..(Len(certs) + 1)
      /\ Len(certs) \in Nat
      /\ \A i \in DOMAIN certs : certs'[i] = certs[i]
      /\ certs'[Len(certs) + 1] = new
  BY <1>1, <1>2, <1>3, AppendProperties, LenProperties
<1>9. QED
  BY <1>1, <1>3, <1>4, <1>5, <1>6, <1>7, <1>8

\* A step of the program keeps the history.
LEMMA NextKeepsHistory == IInv /\ [Next]_vars => KeepsHistory
<1> SUFFICES ASSUME IInv, [Next]_vars PROVE KeepsHistory
  OBVIOUS
<1>0. serial \in Nat /\ ca \in Nat /\ certs \in Seq(Row)
  BY DEF IInv, TypeOK
<1>1. CASE UNCHANGED <<ca, serial, certs>>
  BY <1>0, <1>1 DEF KeepsHistory
<1>2. ASSUME NEW r \in Request, CaMade(r) PROVE KeepsHistory
  <2>1. (ca # 0 => ca' = ca) /\ serial' = serial /\ certs' = certs
    BY <1>2 DEF CaMade, InsertCa, IInv, RootInv
  <2>2. QED
    BY <1>0, <2>1 DEF KeepsHistory
<1>3. ASSUME NEW r \in Request, ClaimSerial(r) PROVE KeepsHistory
  <2>1. ca' = ca /\ serial' = serial + 1 /\ certs' = certs
    BY <1>3 DEF ClaimSerial, NextSerial
  <2>2. QED
    BY <1>0, <2>1 DEF KeepsHistory
<1>4. ASSUME NEW r \in Request, StoreSigned(r) PROVE KeepsHistory
  <2>1. CASE ~ IndexAllows(req[r].tenant, req[r].name)
    BY <1>1, <1>4, <2>1 DEF StoreSigned
  <2>2. CASE IndexAllows(req[r].tenant, req[r].name)
    BY <1>0, <1>4, <2>2, StoredRow DEF KeepsHistory
  <2>3. QED
    BY <2>1, <2>2
<1>5. ASSUME NEW i \in DOMAIN certs, Revoke(i) PROVE KeepsHistory
  <2>1. /\ ca' = ca /\ serial' = serial /\ certs[i].status = "issued"
        /\ certs' = [certs EXCEPT ![i].status = "revoked"]
    BY <1>5 DEF Revoke
  <2>2. DOMAIN certs' = DOMAIN certs /\ \A j \in DOMAIN certs : j # i => certs'[j] = certs[j]
    BY <1>0, <2>1, RevokeRow
  <2>3. certs'[i] = [certs[i] EXCEPT !.status = "revoked"]
    BY <2>1
  <2>4. QED
    BY <1>0, <2>1, <2>2, <2>3 DEF KeepsHistory
<1>6. QED
  BY <1>1, <1>2, <1>3, <1>4, <1>5
     DEF Next, Advance, vars, StartIssue, StartCsr, StartOther, CsrVerified, KeyReady, MintSigned,
         Fail, Restart

\* A step of the program is a step of the registry, or changes nothing it sees.
LEMMA NextRefines == IInv /\ [Next]_vars => [Registry!Next]_(Registry!vars)
<1> SUFFICES ASSUME IInv, [Next]_vars PROVE [Registry!Next]_(Registry!vars)
  OBVIOUS
<1>0. certs \in Seq(Row)
  BY DEF IInv, TypeOK
<1>1. CASE UNCHANGED <<ca, certs>>
  BY <1>1 DEF Registry!vars, Held, Spent
<1>2. ASSUME NEW r \in Request, CaMade(r) PROVE Registry!Next \/ UNCHANGED <<ca, certs>>
  <2>1. CASE ca # 0
    BY <1>2, <2>1 DEF CaMade, InsertCa
  <2>2. CASE ca = 0
    <3>1. ca' \in 1..MaxKey
      BY <1>2, <2>2, BoundsAssumption DEF CaMade, InsertCa, IInv, RootInv, TypeOK
    <3>2. Held' = Held /\ Spent' = Spent
      BY <1>2 DEF CaMade, Held, Spent
    <3>3. Registry!Establish
      BY <2>2, <3>1, <3>2 DEF Registry!Establish
    <3>4. QED
      BY <3>3 DEF Registry!Next
  <2>3. QED
    BY <2>1, <2>2
<1>3. ASSUME NEW r \in Request, StoreSigned(r) PROVE Registry!Next \/ UNCHANGED <<ca, certs>>
  <2>1. CASE ~ IndexAllows(req[r].tenant, req[r].name)
    BY <1>3, <2>1 DEF StoreSigned
  <2>2. CASE IndexAllows(req[r].tenant, req[r].name)
    <3>1. PICK new \in Row :
           /\ new.tenant = req[r].tenant /\ new.name = req[r].name
           /\ new.status = "issued" /\ new.signer = ca /\ ca # 0
           /\ new.serial \in 1..MaxSerial
           /\ \A i \in DOMAIN certs : certs[i].serial # new.serial
           /\ DOMAIN certs = 1..Len(certs) /\ DOMAIN certs' = 1..(Len(certs) + 1)
           /\ Len(certs) \in Nat
           /\ \A i \in DOMAIN certs : certs'[i] = certs[i]
           /\ certs'[Len(certs) + 1] = new
           /\ ca' = ca /\ serial' = serial
      BY <1>3, <2>2, StoredRow
    <3>2. new.tenant \in Tenant /\ new.name \in Name
      BY DEF Row
    <3>3. DOMAIN certs' = DOMAIN certs \cup {Len(certs) + 1} /\ Len(certs) + 1 \notin DOMAIN certs
      BY <3>1
    <3>4. Spent' = Spent \cup {new.serial} /\ new.serial \notin Spent
      BY <3>1, <3>3 DEF Spent
    <3>5. Held' = Held \cup {CredentialOf(new)}
      BY <3>1, <3>3 DEF Held
    <3>6. ~ \E h \in Held : h.tenant = new.tenant /\ h.name = new.name
      BY <2>2, <3>1 DEF Held, CredentialOf, IndexAllows, Active
    <3>7. CredentialOf(new) = [tenant |-> new.tenant, name |-> new.name,
                               serial |-> new.serial, signer |-> ca]
      BY <3>1 DEF CredentialOf
    <3>8. Registry!Grant(new.tenant, new.name, new.serial)
      BY <3>1, <3>4, <3>5, <3>6, <3>7 DEF Registry!Grant
    <3>9. QED
      BY <3>1, <3>2, <3>8 DEF Registry!Next
  <2>3. QED
    BY <2>1, <2>2
<1>4. ASSUME NEW i \in DOMAIN certs, Revoke(i) PROVE Registry!Next
  <2>1. /\ ca' = ca /\ certs[i].status = "issued"
        /\ certs' = [certs EXCEPT ![i].status = "revoked"]
    BY <1>4 DEF Revoke
  <2>2. /\ DOMAIN certs' = DOMAIN certs
        /\ \A j \in DOMAIN certs :
             /\ certs'[j].tenant = certs[j].tenant /\ certs'[j].name = certs[j].name
             /\ certs'[j].serial = certs[j].serial /\ certs'[j].signer = certs[j].signer
             /\ certs'[j].status = IF j = i THEN "revoked" ELSE certs[j].status
    BY <1>0, <2>1, RevokeRow
  <2>3. \A j \in DOMAIN certs : certs[j].serial = certs[i].serial => j = i
    BY DEF IInv, SerialInv, SerialsUnique
  <2>4. \A j \in DOMAIN certs : CredentialOf(certs'[j]) = CredentialOf(certs[j])
    BY <2>2 DEF CredentialOf
  <2>5. \A j \in DOMAIN certs : CredentialOf(certs[j]) = CredentialOf(certs[i]) => j = i
    BY <2>3 DEF CredentialOf
  <2>6. Held' = Held \ {CredentialOf(certs[i])}
    BY <2>2, <2>4, <2>5 DEF Held
  <2>7. Spent' = Spent
    BY <2>2 DEF Spent
  <2>8. CredentialOf(certs[i]) \in Held
    BY <2>1 DEF Held
  <2>9. Registry!Withdraw(CredentialOf(certs[i]))
    BY <2>1, <2>6, <2>7 DEF Registry!Withdraw
  <2>10. QED
    BY <2>8, <2>9 DEF Registry!Next
<1>5. QED
  BY <1>1, <1>2, <1>3, <1>4
     DEF Next, Advance, vars, StartIssue, StartCsr, StartOther, CsrVerified, KeyReady, ClaimSerial,
         MintSigned, Fail, Restart

-----------------------------------------------------------------------------
(* The theorems.                                                           *)

\* The tables and the requests have their types in every reachable state.
THEOREM TypeCorrect == Spec => []TypeOK
BY Invariance, PTL DEF IInv

\* At most one active client certificate per tenant and name.
THEOREM NamesUnique == Spec => []OneActivePerName
BY Invariance, PTL DEF IInv

\* No serial is borne by two certificates of the CA, client or server.
THEOREM SerialsDiffer == Spec => []SerialsUnique
<1>1. IInv => SerialsUnique
  BY DEF IInv, SerialInv
<1>2. QED
  BY <1>1, Invariance, PTL

\* Every certificate is signed by the root on record.
THEOREM OneRoot == Spec => []SignedByTheRoot
<1>1. IInv => SignedByTheRoot
  BY DEF IInv, RootInv, SignedByTheRoot
<1>2. QED
  BY <1>1, Invariance, PTL

\* An answered request finds its certificate on record.
THEOREM AnswersKept == Spec => []AnswerIsOnRecord
BY Invariance, PTL DEF IInv

\* The root is never replaced, the counter never goes back, rows only get revoked.
THEOREM HistoryKept == Spec => HistoryIsKept
BY Invariance, NextKeepsHistory, PTL DEF Spec, HistoryIsKept

\* The certificate service implements the atomic registry.
THEOREM Refinement == Spec => RegistrySpec
<1>1. Init => Registry!Init
  BY DEF Init, Registry!Init, Held, Spent
<1>2. QED
  BY <1>1, Invariance, NextRefines, PTL DEF Spec, RegistrySpec, Registry!Spec
=============================================================================
