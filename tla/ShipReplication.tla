--------------------------- MODULE ShipReplication ---------------------------
(***************************************************************************)
(* Which ships there are, and which ones each client shows: creations are  *)
(* relayed and cached for late joiners, deaths, departures and restarts    *)
(* are announced, an object may be asked for, and what a client says is    *)
(* destroyed is passed on unread.                                          *)
(*                                                                         *)
(* A client's messages may be handled late, out of order and twice, since  *)
(* the server has no receive window; what the server sends arrives in      *)
(* order (see PeerSession).  Slots stand for the players in them, and how  *)
(* a player gets from its connection to the lobby is left to PeerSession.  *)
(***************************************************************************)
EXTENDS Integers, Sequences, SequencesExt

CONSTANTS
  MaxSlots,      \* human slots (BC_MAX_PLAYERS - 1)
  NoShip,        \* no object
  NotCached,     \* a peer whose spawn_len is 0
  MaxShips,      \* bound: objects that one player creates
  Courses        \* bounds, see course

(* Slot n - 1 of the game, that of peer n, has a range of object ids; its  *)
(* first one is that of bc_make_ship_id.                                   *)
Slots == 1..MaxSlots
ObjectIds == Slots \X (0..(MaxShips - 1))
FirstId(s) == <<s, 0>>

(* What may be created: a ship the server knows, by an ObjCreateTeam that  *)
(* it caches; one of a species the registry does not have; one too large   *)
(* for the cache; something that is no ship, by an ObjCreate.              *)
Creations == {"ship", "unknown", "large", "object"}

ASSUME ReplicationAssumption ==
  /\ MaxSlots \in Nat \ {0} /\ MaxShips \in Nat \ {0}
  /\ NoShip \notin ObjectIds
  /\ NotCached \notin [kind : Creations, owner : Slots, id : ObjectIds]
  /\ Courses \subseteq [kinds : SUBSET Creations, objects : 0..MaxShips, joins : Nat,
                        requests : Nat, duplicates : Nat]

VARIABLES
  peers,    \* each slot's player: "empty", "joining" or "lobby" and beyond
  ship,     \* ship.object_id of each slot, while has_ship
  wrecks,   \* slots whose ship is not alive
  objectId, \* object_id of each slot
  cache,    \* spawn_payload of each slot
  toServer, \* messages of each player on their way
  toClient, \* what is queued for each player or on its way, in order
  shows,    \* the ship of each slot that each player sees
  made,     \* objects each player has created
  odd,      \* history: slots that created something else than a known ship
            \* after their last one
  removed,  \* history: objects that a player has removed by a message since
            \* their last creation
  course    \* what is left of the bounds: the kinds and the number of objects
            \* a player creates, connections, self-destructs, restarts, objects
            \* asked for and destroyed, messages that are handled and stay

serverVars == <<peers, ship, wrecks, objectId, cache>>
vars == <<serverVars, toServer, toClient, shows, made, odd, removed, course>>

InLobby == {s \in Slots : peers[s] = "lobby"}
HasShip(s) == ship[s] # NoShip

Creation(s, id, kind) == [kind |-> kind, owner |-> s, id |-> id]
Created == {Creation(id[1], id, kind) : id \in ObjectIds, kind \in Creations}
Notice(kind, id) == [kind |-> kind, id |-> id]

Removals == {Notice(k, id) : k \in {"DestroyObj", "Exploding"}, id \in ObjectIds}

Messages == Created \cup Removals \cup {Notice("NotFound", id) : id \in ObjectIds}
Questions == {Notice("RequestObj", id) : id \in ObjectIds} \cup {[kind |-> "HostMsg"], [kind |-> "Restart"]}
Requests == Created \cup Removals \cup Questions

Init ==
  /\ peers = [s \in Slots |-> "empty"]
  /\ ship = [s \in Slots |-> NoShip]
  /\ wrecks = {}
  /\ objectId = [s \in Slots |-> NoShip]
  /\ cache = [s \in Slots |-> NotCached]
  /\ toServer = [s \in Slots |-> {}]
  /\ toClient = [s \in Slots |-> <<>>]
  /\ shows = [s \in Slots |-> [o \in Slots |-> NoShip]]
  /\ made = [s \in Slots |-> 0]
  /\ odd = {}
  /\ removed = {}
  /\ course \in Courses

----------------------------------------------------------------------------
(* Sending.                                                                *)

(* bc_send_to_all; bc_relay_to_others.                                     *)
ToAll(messages) ==
  [s \in Slots |-> IF s \in InLobby THEN toClient[s] \o messages ELSE toClient[s]]
ToOthers(sender, messages) == [ToAll(messages) EXCEPT ![sender] = toClient[sender]]

(* A message of the player in slot s is handled, perhaps not for the last  *)
(* time.                                                                   *)
Received(s, m) ==
  /\ peers[s] = "lobby" /\ m \in toServer[s]
  /\ \/ /\ toServer' = [toServer EXCEPT ![s] = @ \ {m}]
        /\ UNCHANGED course
     \/ /\ course.duplicates > 0
        /\ course' = [course EXCEPT !.duplicates = @ - 1]
        /\ UNCHANGED toServer

----------------------------------------------------------------------------
(* Joining and leaving.                                                    *)

(* A new player takes the first free slot, which is wiped.                 *)
Connect ==
  /\ course.joins > 0 /\ \E s \in Slots : peers[s] = "empty"
  /\ LET s == Min({i \in Slots : peers[i] = "empty"})
     IN /\ peers' = [peers EXCEPT ![s] = "joining"]
        /\ ship' = [ship EXCEPT ![s] = NoShip]
        /\ wrecks' = wrecks \ {s}
        /\ objectId' = [objectId EXCEPT ![s] = NoShip]
        /\ cache' = [cache EXCEPT ![s] = NotCached]
        /\ toServer' = [toServer EXCEPT ![s] = {}]
        /\ toClient' = [toClient EXCEPT ![s] = <<>>]
        /\ shows' = [shows EXCEPT ![s] = [o \in Slots |-> NoShip]]
        /\ made' = [made EXCEPT ![s] = 0]
  /\ course' = [course EXCEPT !.joins = @ - 1]
  /\ UNCHANGED <<odd, removed>>

(* Cached creations of the other players' ships, by slot.                  *)
Forwarded(s) ==
  LET others == {o \in InLobby \ {s} : HasShip(o) /\ cache[o] # NotCached}
      from[n \in 0..MaxSlots] ==
        IF n = 0 THEN <<>>
        ELSE IF n \in others THEN Append(from[n - 1], cache[n]) ELSE from[n - 1]
  IN from[MaxSlots]

(* send_settings_and_gameinit.                                             *)
EntersLobby(s) ==
  /\ peers[s] = "joining"
  /\ peers' = [peers EXCEPT ![s] = "lobby"]
  /\ toClient' = [toClient EXCEPT ![s] = @ \o Forwarded(s)]
  /\ UNCHANGED <<ship, wrecks, objectId, cache, toServer, shows, made, odd, removed, course>>

(* bc_handle_peer_disconnect.                                              *)
Disconnect(s) ==
  /\ peers[s] # "empty"
  /\ toClient' =
       [(IF s \in InLobby /\ HasShip(s)
           THEN ToOthers(s, <<Notice("DestroyObj", objectId[s])>>)
           ELSE toClient)
        EXCEPT ![s] = <<>>]
  /\ peers' = [peers EXCEPT ![s] = "empty"]
  /\ ship' = [ship EXCEPT ![s] = NoShip]
  /\ wrecks' = wrecks \ {s}
  /\ objectId' = [objectId EXCEPT ![s] = NoShip]
  /\ cache' = [cache EXCEPT ![s] = NotCached]
  /\ toServer' = [toServer EXCEPT ![s] = {}]
  /\ UNCHANGED <<shows, made, odd, removed, course>>

----------------------------------------------------------------------------
(* Handlers of the clients' messages.                                      *)

(* BC_OP_OBJ_CREATE_TEAM and BC_OP_OBJ_CREATE.                             *)
ObjCreate(s, m) ==
  /\ m \in Created /\ Received(s, m)
  /\ cache' = IF m.kind = "large" THEN cache ELSE [cache EXCEPT ![s] = m]
  /\ objectId' = [objectId EXCEPT ![s] = IF m.kind = "object" THEN FirstId(s) ELSE m.id]
  /\ IF m.kind \in {"ship", "large"}
       THEN /\ ship' = [ship EXCEPT ![s] = m.id]
            /\ wrecks' = wrecks \ {s}
       ELSE UNCHANGED <<ship, wrecks>>
  /\ odd' = IF m.kind = "ship" THEN odd \ {s} ELSE odd \cup {s}
  /\ removed' = removed \ {m.id}
  /\ toClient' = ToOthers(s, <<m>>)
  /\ UNCHANGED <<peers, shows, made>>

(* BC_OP_DESTROY_OBJ, and an explosion in a BC_OP_PYTHON_EVENT: passed on, *)
(* whosever object it is, and the server keeps the ship it has.            *)
DestroyObj(s, m) ==
  /\ m \in Removals /\ Received(s, m)
  /\ toClient' = ToOthers(s, <<m>>)
  /\ removed' = removed \cup {m.id}
  /\ UNCHANGED <<serverVars, shows, made, odd>>

(* A ship dies: everyone is told, and it is gone.                          *)
Dies(s) ==
  /\ toClient' = ToAll(<<Notice("Exploding", ship[s])>>)
  /\ ship' = [ship EXCEPT ![s] = NoShip]
  /\ UNCHANGED <<peers, wrecks, objectId, cache, shows, made, odd, removed>>

Alive(s) == HasShip(s) /\ s \notin wrecks

(* BC_OP_HOST_MSG, a self-destruct; without a living ship it is ignored.   *)
SelfDestruct(s) ==
  /\ Received(s, [kind |-> "HostMsg"])
  /\ IF Alive(s) THEN Dies(s)
     ELSE UNCHANGED <<serverVars, toClient, shows, made, odd, removed>>

(* Ships that are there, as the loop over the slots meets them.            *)
Destroyed ==
  LET upTo[n \in 0..MaxSlots] ==
        IF n = 0 THEN <<>>
        ELSE IF HasShip(n) THEN Append(upTo[n - 1], Notice("DestroyObj", ship[n]))
             ELSE upTo[n - 1]
  IN upTo[MaxSlots]

(* Slip: only the ships that live are destroyed.                           *)
RestartOfTheLiving(s) ==
  /\ Received(s, [kind |-> "Restart"])
  /\ IF s = 1
       THEN /\ toClient' = ToAll(SelectSeq(Destroyed, LAMBDA m : m.id[1] \notin wrecks))
            /\ ship' = [t \in Slots |-> NoShip]
            /\ wrecks' = {}
            /\ cache' = [t \in Slots |-> NotCached]
            /\ UNCHANGED <<peers, objectId>>
       ELSE UNCHANGED <<serverVars, toClient>>
  /\ UNCHANGED <<shows, made, odd, removed>>

(* BC_MSG_RESTART, of the first player: all ships go, and the round starts *)
(* over.                                                                   *)
Restart(s) ==
  /\ Received(s, [kind |-> "Restart"])
  /\ IF s = 1
       THEN /\ toClient' = ToAll(Destroyed)
            /\ ship' = [t \in Slots |-> NoShip]
            /\ wrecks' = {}
            /\ cache' = [t \in Slots |-> NotCached]
            /\ UNCHANGED <<peers, objectId>>
       ELSE UNCHANGED <<serverVars, toClient>>
  /\ UNCHANGED <<shows, made, odd, removed>>

(* BC_OP_REQUEST_OBJ: the object's slot is asked for whatever it has now.  *)
RequestObj(s, id) ==
  /\ Received(s, Notice("RequestObj", id))
  /\ LET owner == id[1]
         found == HasShip(owner) /\ cache[owner] # NotCached
     IN toClient' = [toClient EXCEPT
                       ![s] = Append(@, IF found THEN cache[owner] ELSE Notice("NotFound", id))]
  /\ UNCHANGED <<serverVars, shows, made, odd, removed>>

----------------------------------------------------------------------------
(* What the server does on its own.                                        *)

(* Lethal damage by a beam, a torpedo or a collision.                      *)
Killed(s) ==
  /\ Alive(s)
  /\ Dies(s)
  /\ UNCHANGED <<toServer, course>>

(* Lethal damage by a module: no one is told.                              *)
KilledByModule(s) ==
  /\ Alive(s)
  /\ wrecks' = wrecks \cup {s}
  /\ UNCHANGED <<peers, ship, objectId, cache, toServer, toClient, shows, made, odd, removed, course>>

----------------------------------------------------------------------------
(* The clients.                                                            *)

(* A ship replaces its owner's old one, and one that is destroyed or       *)
(* explodes goes.                                                          *)
Seen(view, m) ==
  CASE m.kind \in {"ship", "unknown", "large"} -> [view EXCEPT ![m.owner] = m.id]
    [] m.kind \in {"DestroyObj", "Exploding"} ->
         [o \in Slots |-> IF view[o] = m.id THEN NoShip ELSE view[o]]
    [] OTHER -> view

(* All that was queued since the last flush arrives.                       *)
ClientReceives(s) ==
  /\ peers[s] = "lobby" /\ toClient[s] # <<>>
  /\ shows' = [shows EXCEPT ![s] = FoldLeft(Seen, @, toClient[s])]
  /\ toClient' = [toClient EXCEPT ![s] = <<>>]
  /\ UNCHANGED <<serverVars, toServer, made, odd, removed, course>>

(* A player without a ship takes one; each object has an id of its own.    *)
ClientCreates(s, kind) ==
  /\ peers[s] = "lobby" /\ made[s] < course.objects /\ kind \in course.kinds
  /\ kind # "object" => shows[s][s] = NoShip
  /\ LET m == Creation(s, <<s, made[s]>>, kind)
     IN /\ toServer' = [toServer EXCEPT ![s] = @ \cup {m}]
        /\ shows' = [shows EXCEPT ![s] = Seen(@, m)]
  /\ made' = [made EXCEPT ![s] = @ + 1]
  /\ UNCHANGED <<serverVars, toClient, odd, removed, course>>

ClientAsks(s, m) ==
  /\ peers[s] = "lobby" /\ course.requests > 0
  /\ toServer' = [toServer EXCEPT ![s] = @ \cup {m}]
  /\ course' = [course EXCEPT !.requests = @ - 1]
  /\ UNCHANGED <<serverVars, toClient, shows, made, odd, removed>>

(* A player destroys an object, its own or another's.                      *)
ClientDestroys(s, m) ==
  /\ peers[s] = "lobby" /\ course.requests > 0
  /\ toServer' = [toServer EXCEPT ![s] = @ \cup {m}]
  /\ shows' = [shows EXCEPT ![s] = Seen(@, m)]
  /\ removed' = removed \cup {m.id}
  /\ course' = [course EXCEPT !.requests = @ - 1]
  /\ UNCHANGED <<serverVars, toClient, made, odd>>

----------------------------------------------------------------------------
Handlers(s) ==
  \/ \E m \in toServer[s] : ObjCreate(s, m) \/ DestroyObj(s, m)
  \/ SelfDestruct(s) \/ Restart(s)
  \/ \E id \in ObjectIds : RequestObj(s, id)

Next ==
  \/ Connect
  \/ \E s \in Slots :
       \/ EntersLobby(s) \/ Disconnect(s)
       \/ Handlers(s)
       \/ Killed(s) \/ KilledByModule(s)
       \/ ClientReceives(s)
       \/ \E kind \in Creations : ClientCreates(s, kind)
       \/ \E m \in Questions : ClientAsks(s, m)
       \/ \E m \in Removals : ClientDestroys(s, m)

Spec == Init /\ [][Next]_vars

----------------------------------------------------------------------------
(* What may be shown of a slot whose player creates known ships: its ship, *)
(* or nothing while a player has destroyed that ship without the server.   *)
MayShow(o) == {ship[o]} \cup (IF ship[o] \in removed THEN {NoShip} ELSE {})

(* join-flow.md: "This allows the late joiner to see all existing ships":  *)
(* once a client has received all, it shows exactly the ships the others   *)
(* have, whenever it joined, whoever died, left or came again with the     *)
(* same object ids, and whatever was handled late or twice.  A ship that a *)
(* player destroyed by a message of its own may be missing until it is     *)
(* created again, for the server has it still.  Players that create        *)
(* something else than ships the server knows are left out.                *)
ClientsShowTheShips ==
  \A s \in InLobby : toClient[s] = <<>> =>
    \A o \in Slots \ ({s} \cup odd) : shows[s][o] \in MayShow(o)
=============================================================================
