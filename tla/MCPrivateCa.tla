----------------------------- MODULE MCPrivateCa -----------------------------
(* Instance of PrivateCa for TLC.                                          *)
EXTENDS PrivateCa, TLC

RequestSymmetry == Permutations(Request)
=============================================================================
