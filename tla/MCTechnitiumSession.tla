------------------------- MODULE MCTechnitiumSession -------------------------
(* Instance of TechnitiumSession for TLC: the platform and one tenant log in *)
(* at servers of their own; a second tenant has a token there and a          *)
(* password, a third only a token for the platform's server.                 *)
EXTENDS TechnitiumSession, TLC

MCServerOf == [k \in Conn |-> IF k \in {"platform", "bare"} THEN "ns1" ELSE "ns2"]
CallSymmetry == Permutations(Call)
=============================================================================
