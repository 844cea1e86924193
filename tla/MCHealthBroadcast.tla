------------------------- MODULE MCHealthBroadcast -------------------------
(* The serialization lists of data/vanilla-1.1/ships, for HealthBroadcast. *)
EXTENDS HealthWindows

LOCAL B(n) == [format |-> "base", children |-> n]
LOCAL P(n) == [format |-> "powered", children |-> n]
LOCAL R(n) == [format |-> "power", children |-> n]

Sovereign == <<B(0), B(0), P(0), R(0), P(2), P(6), P(0), P(8), P(4), P(2), B(0)>>
KessokHeavy == <<B(0), R(0), P(2), P(2), P(8), P(2), P(0), B(0), P(0), P(0)>>
KessokLight == <<B(0), R(0), P(1), P(0), B(0), P(0), P(2), P(2), P(8), P(0)>>
Marauder == <<B(0), B(0), R(0), P(1), P(2), P(2), P(2), P(0), P(0), P(2)>>
CardFreighter == <<B(0), P(2), P(1), P(0), P(1), P(0), B(0), R(0)>>
Shuttle == <<B(0), P(2), R(0), P(0), B(0), P(1), P(0), P(2), P(1)>>

(* The akira and the nebula have the same list.                            *)
AllLists == {
  Sovereign, KessokHeavy, KessokLight, Marauder, CardFreighter, Shuttle,
  <<B(0), B(0), P(0), R(0), P(2), P(8), P(2), P(6), P(0), P(2), B(0)>>,
  <<B(0), B(0), P(0), R(0), P(2), P(8), P(2), P(4), P(0), B(0), P(2)>>,
  <<B(0), B(0), R(0), P(2), P(1), P(1), P(2), P(0), P(0), P(0)>>,
  <<B(0), R(0), P(3), P(0), B(0), P(0), P(2), P(3), P(7), P(1), P(2)>>,
  <<B(0), R(0), B(0), P(0), P(6), P(8), P(3), P(2), P(4), B(0), P(0)>>,
  <<B(0), B(0), R(0), P(4), P(1), P(2), P(1), P(0), P(0)>>,
  <<B(0), B(0), R(0), P(4), P(2), P(4), P(1), P(0), P(0), P(2)>>,
  <<B(0), B(0), R(0), P(1), P(2), P(3), P(2), P(2), P(0), P(0), P(0), P(2)>>,
  <<B(0), B(0), R(0), P(1), P(4), P(2), P(2), P(2), P(0), P(0), P(0), B(0), P(2)>>}

(* What the theorems on HealthBroadcast ask of the lists.                  *)
ASSUME VanillaLists == ListsFit /\ RoundInTime
=============================================================================
