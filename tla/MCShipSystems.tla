---------------------------- MODULE MCShipSystems ----------------------------
(* A small class of ship for ShipSystems.                                  *)
EXTENDS ShipSystems

(* Whatever a tick looks at can be hit: the shield generator, the repair   *)
(* bay with its teams, and two sensors, which share a bucket.               *)
FrigateKind == <<"shield", "repair", "sensor", "sensor">>
FrigateDisabledBelow == <<2, 0, 2, 0>>
==============================================================================
