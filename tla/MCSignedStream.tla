--------------------------- MODULE MCSignedStream ---------------------------
(* Longer streams that nothing happens to and that end up to twice,        *)
(* shorter ones with any two faults, streams whose certificates come in a  *)
(* SEI of their own, streams whose keys change, a long one whose GOP       *)
(* counter wraps around while a NAL Unit is lost, one that is only tuned   *)
(* in to late, one that loses a NAL Unit, and streams whose key changes,   *)
(* with and without losses.                                                *)
EXTENDS SignedStream

IorP == {"I", "P"}
Scenario(nalus, kinds, waiting, faultsOnTheWay, number, certificate, trustedOne) ==
  [maxNalus |-> nalus, maxHashes |-> 12, maxEnds |-> IF number = 0 THEN 2 ELSE 1,
   events |-> {"end"}, kinds |-> kinds, maxWaiting |-> waiting,
   faults |-> faultsOnTheWay, maxFaults |-> number,
   certificateSei |-> certificate, trusted |-> trustedOne]

FaultsOnTheWay == {"lose", "change", "delay", "late", "reset"}
IntactAndDamaged ==
  {Scenario(11, IorP, 2, {}, 0, FALSE, 1),
   Scenario(7, IorP, 1, FaultsOnTheWay, 2, FALSE, 1),
   Scenario(9, IorP, 2, {}, 0, TRUE, 1),
   Scenario(7, IorP, 1, FaultsOnTheWay, 1, TRUE, 1),
   Scenario(6, IorP, 1, {"lose", "newkey", "trust"}, 3, FALSE, 1),
   Scenario(20, {"I"}, 1, {"lose"}, 1, FALSE, 1)}
TunedInLate == {Scenario(9, IorP, 1, {"late"}, 1, FALSE, 1)}
LosesOne == {Scenario(9, IorP, 1, {"lose"}, 1, FALSE, 1)}

=============================================================================
