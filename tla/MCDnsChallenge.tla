---------------------------- MODULE MCDnsChallenge ----------------------------
(* Instance of DnsChallenge for TLC: a tenant that uses the platform's        *)
(* resolver until it registers one of its own.                                *)
EXTENDS DnsChallenge, TLC

CONSTANTS t1, s1

MCOwn == t1 :> {s1}
OrderSymmetry == Permutations(Order)
=============================================================================
