-------------------------- MODULE MCCentralSigning --------------------------
(* The central thread with 2 sessions, 1 or 2 hashes and short buffers.    *)
EXTENDS CentralSigning, TLC

CONSTANTS s1, s2, h1, h2

MCSessions == {s1, s2}
OneSession == {s1}
MCHashes == {h1, h2}
OneHash == {h1}
OneSize == [s \in MCSessions |-> 1]
TwoSizes == [s \in MCSessions |-> IF s = s1 THEN 1 ELSE 2]
HashSymmetry == Permutations(MCHashes)

=============================================================================
