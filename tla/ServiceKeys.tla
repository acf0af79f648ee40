----------------------------- MODULE ServiceKeys -----------------------------
(***************************************************************************)
(* The keys with which other stacks call: the table service_api_keys of    *)
(* server/src/db.ts, services/serviceAuth.ts, and the routes under         *)
(* /service/keys.  A key is looked up when a request comes in, and once     *)
(* more when the mail host asks what the key it was handed is.             *)
(***************************************************************************)
EXTENDS Integers, FiniteSets

CONSTANTS
  Key,
  Tenant,
  Bound,  \* [Key -> Tenant \cup {Anyone}]: tenant_id, or NULL
  Scopes  \* [Key -> scopes], a scope being a family and an action

Anyone == "anyone"
Bare(family) == <<family, "">>
All == Bare("*")

ASSUME ServiceKeysAssumption ==
  /\ Tenant # {} /\ Anyone \notin Tenant
  /\ Bound \in [Key -> Tenant \cup {Anyone}]
  /\ \A k \in Key : Scopes[k] # {}

VARIABLE keys \* the rows; a token is never handed out twice

\* A revoked row and one that is gone are refused alike.
KeyState == {"unused", "live", "ended"}

\* hasRequiredScope: any scope, one that is asked for, or its whole family.
HasRequiredScope(have, need) ==
  \/ need = {} \/ All \in have
  \/ \E r \in need : {r, <<r[1], "*">>, Bare(r[1])} \cap have # {}

\* requireServiceAuth.
Admits(k, need) == keys[k] = "live" /\ HasRequiredScope(Scopes[k], need)

\* serviceTenantId: the key's own tenant, or that of the header.
TenantsOf(k) == IF Bound[k] = Anyone THEN Tenant ELSE {Bound[k]}

CreateKey(k) ==
  /\ keys[k] = "unused"
  /\ keys' = [keys EXCEPT ![k] = "live"]

\* POST /service/keys/:id/revoke.
RevokeKey(k) ==
  /\ keys[k] = "live"
  /\ keys' = [keys EXCEPT ![k] = "ended"]

\* DELETE /service/keys/:id, of a revoked row too.
DeleteKey(k) ==
  /\ keys[k] # "unused"
  /\ keys' = [keys EXCEPT ![k] = "ended"]

KeysNext == \E k \in Key : CreateKey(k) \/ RevokeKey(k) \/ DeleteKey(k)
=============================================================================
