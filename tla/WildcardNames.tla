---------------------------- MODULE WildcardNames ----------------------------
(***************************************************************************)
(* Certificates with a history of the names the server went by: an         *)
(* administrator's POST /server/identity and the reset of the lab domain   *)
(* at a restart (db.ts:436) leave one name for another, which may be one   *)
(* the server had before.                                                  *)
(***************************************************************************)
EXTENDS Certificates

VARIABLE former   \* the names the server has left, the present one among them
                  \* if it came back to it

namesVars == <<vars, former>>

\* A name is left when another takes its place.
Left == former' = IF apex' = apex THEN former ELSE former \cup {apex}

NamesSpec == /\ Init /\ former = {}
             /\ [][Next /\ Left]_namesVars

-----------------------------------------------------------------------------
\* A wildcard that is kept although it is for another name: this happens only to
\* a server that has come back to a name it had left.  For every other one, what
\* KeptWildcardCoversApex says is so, whichever jobs that set out under an older
\* name overwrite the row.
MissesOnlyOnReturn ==
  WildRow # 0 /\ Reusable(WildRow) /\ cert[WildRow].mat.subject # apex => apex \in former
=============================================================================
