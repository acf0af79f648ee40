--------------------------- MODULE MCCertificates ---------------------------
(* Instances of Certificates for TLC.                                      *)
EXTENDS Certificates

MCOneApex == {1}
MCApex == {1, 2}
\* Only the server id is ever changed.
MCIdOnly == [a \in Apex |-> a]
=============================================================================
