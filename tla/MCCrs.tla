-------------------------------- MODULE MCCrs --------------------------------
(* Instances of Crs for TLC: home, a master that is its own master; a and b *)
(* the nodes that register with it.                                         *)
EXTENDS Crs

MCPair == {"home", "a"}
MCTrio == {"home", "a", "b"}
MCMaster == [n \in Node |-> "home"]
MCChain == [n \in Node |-> IF n = "b" THEN "a" ELSE "home"]
MCAuto == [n \in Node |-> IF n = "home" THEN "master" ELSE "auto"]
MCDomain == [n \in Node |-> IF n = "home" THEN 1 ELSE 0]

\* Two slots at a, or one at a and one at b.
MCTwoSlots == [t \in {"a1", "a2"} |-> "a"]
MCAll == [t \in {"a1", "b1"} |-> IF t = "a1" THEN "a" ELSE "b"]

MCDistinct == [n \in Node |-> CASE n = "home" -> 1 [] n = "a" -> 2 [] n = "b" -> 3]
MCMixed == [n \in Node |-> CASE n = "home" -> "master" [] n = "a" -> "slave" [] n = "b" -> "auto"]
MCOneId == [n \in Node |-> 1]
\* What peers register: server 1, under no lab domain or the second.
MCFirst == {<<1, 0, 0>>, <<1, 2, 2>>}

MCTail == {"b"}
MCAt == {"a"}
MCHome == {"home"}
MCNone == {}
=============================================================================
