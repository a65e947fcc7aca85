---------------------------- MODULE MCGopSigner ----------------------------
(* Longer streams that nothing disturbs, and shorter ones with what else   *)
(* may happen and a hash list that overflows: the settings are changed and *)
(* the stream ends several times in the shortest.                          *)
EXTENDS GopSigner

Scenario(nalus, hashes, ends, happening) ==
  [maxNalus |-> nalus, maxHashes |-> hashes, maxEnds |-> ends, events |-> happening]

MCScenarios ==
  {Scenario(7, 8, 0, {"droplist"}),
   Scenario(5, 3, 1, AllEvents \ {"settings"}),
   Scenario(4, 2, 2, AllEvents)}

(* Two GOPs, and a signature for both. *)
TwoGops == {Scenario(6, 8, 0, {})}

=============================================================================
