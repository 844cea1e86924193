--------------------------- MODULE MCShipReplication ---------------------------
(* Instances of ShipReplication for TLC. *)
EXTENDS ShipReplication

Course(kinds, objects, joins, requests, duplicates) ==
  [kinds |-> kinds, objects |-> objects, joins |-> joins, requests |-> requests,
   duplicates |-> duplicates]

SomeCourses ==
  {Course({"ship"}, 1, 3, 0, 0),   \* three players, or one in another's slot
   Course({"ship"}, 2, 2, 0, 1),   \* new ships, and a message handled twice
   Course({"ship"}, 2, 2, 1, 0),   \* and requests that cross what happens
   Course(Creations, 2, 2, 0, 0)}  \* all that players create
=============================================================================
