--------------------------- MODULE MCSigningSetup ---------------------------
(* Two key pairs and two hash algorithms, and a few calls.                 *)
EXTENDS SigningSetup
=============================================================================
