--------------------------- MODULE MCPeerSession ---------------------------
(* Small instances of PeerSession: see the .cfg files.                     *)
EXTENDS PeerSession

CONSTANTS c1, c2, home

TwoClients == {c1, c2}

(* c1 and c2 share an IP. *)
SharedIp == [c \in Clients |-> home]

All(answer) == [r \in 0..Rounds |-> answer]
Honest == [c \in Clients |-> All("good")]

(* c1 is honest; c2's response to the final round is malformed.            *)
FinalMalformed == [c \in Clients |-> IF c = c2 THEN [All("good") EXCEPT ![Rounds] = "malformed"]
                                 ELSE All("good")]

============================================================================
