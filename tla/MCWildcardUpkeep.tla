-------------------------- MODULE MCWildcardUpkeep --------------------------
(* Instance of WildcardUpkeep for TLC.                                     *)
EXTENDS WildcardUpkeep

MCApex == {1, 2}
\* The lab domain is changed, too, until the next boot.
MCLabToo == [a \in Apex |-> 1]
=============================================================================
