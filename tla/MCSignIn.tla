------------------------------ MODULE MCSignIn -------------------------------
(* Instance of SignIn for TLC: two browsers whose flows, exchanges and       *)
(* sessions overlap, and an account that joins and leaves the group of a     *)
(* tenant and the platform's.                                                *)
EXTENDS SignIn, TLC

BrowserSymmetry == Permutations(Browser)
=============================================================================
