---------------------------- MODULE MCSeiSigning ----------------------------
(* One or two sessions that generate up to MaxSei SEIs each.               *)
EXTENDS SeiSigning

CONSTANTS s1, s2

OneSession == {s1}
TwoSessions == {s1, s2}
MCHashes == Sessions \X (1..MaxSei)
OneSize == [s \in Sessions |-> 1]

=============================================================================
