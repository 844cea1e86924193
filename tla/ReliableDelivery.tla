------------------------- MODULE ReliableDelivery --------------------------
(***************************************************************************)
(* What the reliable channel to a peer promises: a message accepted for    *)
(* guaranteed delivery stays pending until the client has it or the        *)
(* connection is closed.  No sequence numbers, ACKs, retries or packets.   *)
(***************************************************************************)
CONSTANT Messages

VARIABLES
  open,        \* the connection exists
  accepted,    \* messages handed to the channel
  pending,     \* messages the channel still answers for
  delivered    \* messages the client has

vars == <<open, accepted, pending, delivered>>

Init ==
  /\ open = TRUE
  /\ accepted = {} /\ pending = {} /\ delivered = {}

(* A message is accepted for guaranteed delivery, or as best effort.       *)
Accept(m) ==
  /\ open /\ m \notin accepted
  /\ accepted' = accepted \cup {m}
  /\ pending' \in {pending, pending \cup {m}}
  /\ UNCHANGED <<open, delivered>>

(* Only what was accepted is delivered, possibly after the channel closed. *)
Deliver(m) ==
  /\ m \in accepted
  /\ delivered' = delivered \cup {m}
  /\ UNCHANGED <<open, accepted, pending>>

(* The channel forgets a message only when the client has it.              *)
Release(m) ==
  /\ m \in pending \cap delivered
  /\ pending' = pending \ {m}
  /\ UNCHANGED <<open, accepted, delivered>>

Close ==
  /\ open
  /\ open' = FALSE
  /\ pending' = {}
  /\ UNCHANGED <<accepted, delivered>>

Next ==
  \/ \E m \in Messages : Accept(m) \/ Deliver(m) \/ Release(m)
  \/ Close

Spec == Init /\ [][Next]_vars
=============================================================================
