--------------------------- MODULE WildcardUpkeep ---------------------------
(***************************************************************************)
(* Certificates against the clock: a tick (a week) does not pass before the *)
(* orchestrator's interval timer, which fires every six hours (jobs.ts:144),*)
(* has once more taken ensureWildcardPki to its end, and minting does not   *)
(* fail.  Users, other sweeps, crashes, Technitium and the ACME server are  *)
(* as free as ever.                                                         *)
(***************************************************************************)
EXTENDS Certificates

VARIABLE swept   \* has the timer's sweep ensured the wildcard since the last tick?

upkeepVars == <<vars, swept>>

UpkeepInit == Init /\ swept = FALSE

\* The timer's sweep leaves ensureWildcardPki.
Ensured ==
  /\ task[Timer].pc \in {"ensure", "push"}
  /\ task'[Timer].pc = "upgrade"

UpkeepNext ==
  \/ /\ \/ \E t \in Task : Proceed(t)
        \/ Outside
     /\ swept' = (swept \/ Ensured)
  \/ /\ swept
     /\ Tick
     /\ swept' = FALSE

UpkeepSpec == UpkeepInit /\ [][UpkeepNext]_upkeepVars

-----------------------------------------------------------------------------
\* The certificate the server's wildcard row holds never expires, although it
\* is looked at only now and then, jobs overwrite it, rows come and go and the
\* identity changes in the middle of a sweep.
WildcardNeverExpires ==
  WildRow # 0 /\ cert[WildRow].mat # NoMaterial => cert[WildRow].mat.left > 0
=============================================================================
