------------------------- MODULE CredentialRegistry -------------------------
(***************************************************************************)
(* What the internal PKI promises its users, with none of the asynchrony   *)
(* of the code: one authority, established once and for all; at most one   *)
(* active credential per tenant and name; a serial is spent by at most one *)
(* certificate, and a withdrawn credential never comes back.               *)
(* PrivateCa implements this specification.                                *)
(***************************************************************************)
EXTENDS Naturals

CONSTANTS
  Tenant, Name,
  Serial,      \* the serials there are
  Key          \* the root keys there could be; 0 is none of them

VARIABLES
  authority,   \* the signing key everything is trusted through, 0 before it exists
  held,        \* the active credentials: who holds which serial, signed by whom
  spent        \* every serial a recorded certificate bears

vars == <<authority, held, spent>>

Init ==
  /\ authority = 0
  /\ held = {}
  /\ spent = {}

\* The root key is chosen once.
Establish ==
  /\ authority = 0
  /\ authority' \in Key
  /\ UNCHANGED <<held, spent>>

\* A credential is granted under the established root, to a name that holds
\* none, with a serial no certificate bears.
Grant(t, n, s) ==
  /\ authority # 0
  /\ s \notin spent
  /\ ~ \E h \in held : h.tenant = t /\ h.name = n
  /\ held' = held \cup {[tenant |-> t, name |-> n, serial |-> s, signer |-> authority]}
  /\ spent' = spent \cup {s}
  /\ UNCHANGED authority

Withdraw(h) ==
  /\ held' = held \ {h}
  /\ UNCHANGED <<authority, spent>>

Next ==
  \/ Establish
  \/ \E t \in Tenant, n \in Name, s \in Serial : Grant(t, n, s)
  \/ \E h \in held : Withdraw(h)

Spec == Init /\ [][Next]_vars
=============================================================================
