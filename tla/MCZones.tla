------------------------------- MODULE MCZones -------------------------------
(* Instance of Zones for TLC: two tenants, one name of theirs and the apex,  *)
(* which stands before it in the list, of which one zone is read; a key that *)
(* provisions tenants, their mail and records for either.  The first tenant  *)
(* goes from the platform's resolver to its own and back.                    *)
EXTENDS Zones, TLC

CONSTANTS t1, home, own

MCBound == [k \in Key |-> Anyone]
MCScopes == [k \in Key |-> {<<"tenants", "*">>, Bare("mail"), Bare("dns")}]
MCOwn == [t \in Tenant |-> IF t = t1 THEN {home, own} ELSE {home}]
MCRank == [n \in Name |-> IF n \in Platform THEN 1 ELSE 2]
MCStanding == {<<home, "apex">>}
MCHeld == {<<"shop", t1>>}
CallSymmetry == Permutations(Call)
=============================================================================
