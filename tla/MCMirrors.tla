------------------------------ MODULE MCMirrors ------------------------------
(* Instances of Mirrors for TLC: a wildcard certificate for a zone and one  *)
(* for a host under it, that host, and a deeper one nothing covers; or two   *)
(* certificates for the zone, and a host at it and one under it.             *)
EXTENDS Mirrors, TLC

MCDomain == [c \in Cert |-> IF c = "app" THEN <<"us", "app">> ELSE <<"us">>]
MCHostNames == [h \in Host |-> CASE h = "zone" -> << <<"us">> >>
                                [] h = "app"  -> << <<"us", "app">> >>
                                [] h = "deep" -> << <<"us", "app", "x">> >>]
JobSymmetry == Permutations(Job)
=============================================================================
