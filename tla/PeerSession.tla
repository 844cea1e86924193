---------------------------- MODULE PeerSession ----------------------------
(***************************************************************************)
(* Joining and leaving a server: the peer table, the checksum handshake,   *)
(* the messages that tell players of each other, and the disconnection     *)
(* paths, run by the server's single thread against several clients.       *)
(*                                                                         *)
(* A client is one address.  A player that comes back from a new port is   *)
(* another client with the same IpOf.  Slots are the human slots; slot 0,  *)
(* the dedicated server itself, has no client and is left out.             *)
(*                                                                         *)
(* The network delays, reorders and repeats a client's messages; the       *)
(* server has no receive window, so it handles every copy.  What it sends  *)
(* arrives in order: ReliableChannel models how losses are repaired.       *)
(***************************************************************************)
EXTENDS Integers, Sequences, FiniteSets, SequencesExt

CONSTANTS
  MaxSlots,      \* human slots (BC_MAX_PLAYERS - 1)
  Clients,       \* client addresses
  IpOf,          \* the IP of each client address
  NoClient,      \* the address of a slot that is empty
  Rounds,        \* BC_CHECKSUM_ROUNDS: regular rounds; the final one follows
  Answer,        \* what each client answers in each round, see Answers
  Manifest,      \* a manifest is loaded: regular rounds are validated
  RateSlots,     \* BC_CONNECT_RATE_SLOTS
  SamePort,      \* a restarted client may come back from the same address
  MaxDuplicates, \* bound: receptions that leave a copy on its way
  MaxSessions    \* bound: connection attempts of one client

(* A response is malformed, well formed with files that differ from the    *)
(* manifest, or good.                                                      *)
Answers == {"good", "wrong", "malformed"}

ASSUME PeerAssumption ==
  /\ MaxSlots \in Nat \ {0}
  /\ Rounds \in Nat \ {0} /\ RateSlots \in Nat
  /\ NoClient \notin Clients
  /\ DOMAIN IpOf = Clients
  /\ Answer \in [Clients -> [0..Rounds -> Answers]]
  /\ Manifest \in BOOLEAN /\ SamePort \in BOOLEAN
  /\ MaxDuplicates \in Nat /\ MaxSessions \in Nat

Slots == 1..MaxSlots

VARIABLES
  phase,         \* state of each slot
  addr,          \* address of each slot
  round,         \* checksum_round of each slot
  outbox,        \* queued, not yet flushed messages of each slot
  cooling,       \* g_connect_history: IPs within their cooldown, oldest first
  accepting,     \* g_accept_new_players
  c2s,           \* messages from each client on their way
  duplicates,    \* receptions so far that left a copy on its way
  s2c,           \* messages to each client on their way, in order
  mode,          \* where each client believes it is
  view,          \* slots on each client's player list
  sessions,      \* connection attempts of each client
  answered,      \* history: rounds whose response each slot's peer sent in
  failed         \* history: clients dropped for a checksum

serverVars == <<phase, addr, round, outbox, cooling, accepting, answered, failed>>
clientVars == <<mode, view, sessions>>
vars == <<serverVars, clientVars, c2s, s2c, duplicates>>

Phases == {"EMPTY", "CHECKSUMMING", "CHECKSUMMING_FINAL", "LOBBY", "IN_GAME"}
Modes == {"out", "joining", "ready", "playing"}

Notice(kind) == [kind |-> kind]
Request(n) == [kind |-> "ChecksumReq", n |-> n]
Response(n) == [kind |-> "ChecksumResp", n |-> n]
Roster(kind, slots) == [kind |-> kind, slots |-> slots]

(* Settings stands for 0x28, Settings, GameInit and the late-join data,    *)
(* flushed together.  Added and Removed are DeletePlayerUI with its two    *)
(* event codes; one Added carries all the slots announced in one handler.  *)
ServerMessages ==
  [kind : {"Connected", "Settings", "MissionInit", "BootPlayer"}]
    \cup [kind : {"ChecksumReq"}, n : 0..Rounds]
    \cup [kind : {"Added", "Removed"}, slots : SUBSET Slots]

ClientMessages ==
  [kind : {"Connect", "NewPlayerInGame", "Quit"}]
    \cup [kind : {"ChecksumResp"}, n : 0..Rounds]

Init ==
  /\ phase = [s \in Slots |-> "EMPTY"]
  /\ addr = [s \in Slots |-> NoClient]
  /\ round = [s \in Slots |-> 0]
  /\ outbox = [s \in Slots |-> <<>>]
  /\ cooling = <<>>
  /\ accepting = TRUE
  /\ c2s = [c \in Clients |-> {}]
  /\ duplicates = 0
  /\ s2c = [c \in Clients |-> <<>>]
  /\ mode = [c \in Clients |-> "out"]
  /\ view = [c \in Clients |-> {}]
  /\ sessions = [c \in Clients |-> 0]
  /\ answered = [s \in Slots |-> {}]
  /\ failed = {}

----------------------------------------------------------------------------
(* Sending and receiving.                                                  *)

InLobby(s) == phase[s] \in {"LOBBY", "IN_GAME"}
Occupies(s, c) == phase[s] # "EMPTY" /\ addr[s] = c
InGame == {s \in Slots : phase[s] = "IN_GAME"}

(* Slip: only peers that passed their handshake are found.                 *)
KnownInLobby(c) == \E s \in Slots : InLobby(s) /\ addr[s] = c

(* bc_peers_find finds a peer.                                             *)
Known(c) == \E s \in Slots : Occupies(s, c)

(* bc_peers_find: the first occupied slot with this address.               *)
IsPeer(s, c) == Occupies(s, c) /\ \A t \in 1..(s - 1) : ~ Occupies(t, c)

(* What is sent to a client that is gone waits, unacknowledged, for one    *)
(* that comes back to its address; if none can, it is lost.                *)
ToClient(c, messages) ==
  IF mode[c] = "out" /\ ~ SamePort THEN s2c ELSE [s2c EXCEPT ![c] = @ \o messages]

(* Slip: relayed to peers that are exactly in the lobby.                   *)
RelayedToLobby(s, m) ==
  [t \in Slots |-> IF t # s /\ phase[t] = "LOBBY" THEN Append(outbox[t], m) ELSE outbox[t]]

(* The outboxes after queueing messages for slot s, and message m for every *)
(* other slot in the lobby or in the game (bc_relay_to_others).             *)
Relayed(s, m) ==
  [t \in Slots |-> IF t # s /\ InLobby(t) THEN Append(outbox[t], m) ELSE outbox[t]]

(* Messages queued for slot s and flushed at once, after what was waiting. *)
SendAtOnce(s, messages) == ToClient(addr[s], outbox[s] \o messages)

(* A message is received, and perhaps will be once more.                   *)
Received(c, m) ==
  /\ m \in c2s[c]
  /\ \/ /\ c2s' = [c2s EXCEPT ![c] = @ \ {m}]
        /\ UNCHANGED duplicates
     \/ /\ duplicates < MaxDuplicates
        /\ duplicates' = duplicates + 1
        /\ UNCHANGED c2s

----------------------------------------------------------------------------
(* bc_handle_peer_disconnect: tell the others, note the IP, clear the slot. *)
Disconnect(s) ==
  /\ outbox' = [(IF InLobby(s) THEN Relayed(s, Roster("Removed", {s})) ELSE outbox)
                  EXCEPT ![s] = <<>>]
  /\ cooling' = IF RateSlots = 0 THEN <<>>
                ELSE Append(IF Len(cooling) < RateSlots THEN cooling ELSE Tail(cooling),
                            IpOf[addr[s]])
  /\ phase' = [phase EXCEPT ![s] = "EMPTY"]
  /\ addr' = [addr EXCEPT ![s] = NoClient]
  /\ round' = [round EXCEPT ![s] = 0]
  /\ answered' = [answered EXCEPT ![s] = {}]

(* bc_handle_connect for an address without a slot.  Within the cooldown   *)
(* the packet is dropped and the client sends it again: the message waits. *)
HandleConnect(c) ==
  /\ ~ Known(c)
  /\ IpOf[c] \notin ToSet(cooling)
  /\ Received(c, Notice("Connect"))
  /\ LET free == {s \in Slots : phase[s] = "EMPTY"}
     IN IF accepting /\ free # {}
        THEN \E s \in free :
               /\ \A t \in free : s <= t
               /\ phase' = [phase EXCEPT ![s] = "CHECKSUMMING"]
               /\ addr' = [addr EXCEPT ![s] = c]
               /\ s2c' = ToClient(c, <<Notice("Connected"), Request(0)>>)
        ELSE /\ s2c' = ToClient(c, <<Notice("BootPlayer")>>)
             /\ UNCHANGED <<phase, addr>>
  /\ UNCHANGED <<round, outbox, cooling, accepting, answered, failed, clientVars>>

(* A Connect of an address that has a slot (bc_handle_packet): the outbox  *)
(* is flushed and the Connect response sent again, nothing else.           *)
DuplicateConnect(c, s) ==
  /\ IsPeer(s, c)
  /\ Received(c, Notice("Connect"))
  /\ s2c' = ToClient(c, outbox[s] \o <<Notice("Connected")>>)
  /\ outbox' = [outbox EXCEPT ![s] = <<>>]
  /\ UNCHANGED <<phase, addr, round, cooling, accepting, answered, failed, clientVars>>

(* Slips: the number of the round is left out of the validation, or has    *)
(* been advanced before it.                                                *)
ValidatesAny(c, n, r) == Answer[c][n] = "good"
ValidatesLate(c, n, r) == n = r + 1 /\ Answer[c][n] = "good"

(* bc_checksum_response_validate against the directory of this round: the  *)
(* response of another round names other files and does not match it.      *)
Validates(c, n, r) == n = r /\ Answer[c][n] = "good"

(* The boot is queued, and the outbox it waits in cleared by Disconnect.   *)
FailChecksum(s) ==
  /\ Disconnect(s)
  /\ failed' = failed \cup {addr[s]}
  /\ UNCHANGED s2c

(* Slip: no final request.                                                 *)
NextRoundUnasked(s, n) ==
  /\ round' = [round EXCEPT ![s] = @ + 1]
  /\ phase' = IF round[s] + 1 < Rounds THEN phase
              ELSE [phase EXCEPT ![s] = "CHECKSUMMING_FINAL"]
  /\ s2c' = IF round[s] + 1 < Rounds THEN SendAtOnce(s, <<Request(round[s] + 1)>>) ELSE s2c
  /\ answered' = [answered EXCEPT ![s] = @ \cup {n}]
  /\ UNCHANGED <<addr, outbox, cooling, failed>>

(* The next request, or the final one after the last regular round.        *)
NextRound(s, n) ==
  /\ round' = [round EXCEPT ![s] = @ + 1]
  /\ phase' = IF round[s] + 1 < Rounds THEN phase
              ELSE [phase EXCEPT ![s] = "CHECKSUMMING_FINAL"]
  /\ s2c' = SendAtOnce(s, <<Request(round[s] + 1)>>)
  /\ outbox' = [outbox EXCEPT ![s] = <<>>]
  /\ answered' = [answered EXCEPT ![s] = @ \cup {n}]
  /\ UNCHANGED <<addr, cooling, failed>>

(* send_settings_and_gameinit *)
EnterLobby(s, n) ==
  /\ phase' = [phase EXCEPT ![s] = "LOBBY"]
  /\ s2c' = SendAtOnce(s, <<Notice("Settings")>>)
  /\ outbox' = [outbox EXCEPT ![s] = <<>>]
  /\ answered' = [answered EXCEPT ![s] = @ \cup {n}]
  /\ UNCHANGED <<addr, round, cooling, failed>>

(* bc_handle_checksum_response.  The number in the response is not looked  *)
(* at: a response is taken as one for the round the server is in, and the  *)
(* final one only has to be well formed.                                   *)
ChecksumResponse(c, s, n) ==
  /\ IsPeer(s, c)
  /\ Received(c, Response(n))
  /\ \/ /\ phase[s] = "CHECKSUMMING"
        /\ Manifest => Validates(c, n, round[s])
        /\ NextRound(s, n)
     \/ /\ phase[s] = "CHECKSUMMING"
        /\ Manifest /\ ~ Validates(c, n, round[s])
        /\ FailChecksum(s)
     \/ /\ phase[s] = "CHECKSUMMING_FINAL"
        /\ Answer[c][n] # "malformed"
        /\ EnterLobby(s, n)
     \/ /\ phase[s] = "CHECKSUMMING_FINAL"
        /\ Answer[c][n] = "malformed"
        /\ FailChecksum(s)
  /\ UNCHANGED <<accepting, clientVars>>

(* NewPlayerInGame of a peer in the lobby: the others learn of it, and it  *)
(* learns of itself and of everyone in the game.                           *)
NewPlayerInGame(c, s) ==
  /\ IsPeer(s, c) /\ InLobby(s)
  /\ Received(c, Notice("NewPlayerInGame"))
  /\ phase' = [phase EXCEPT ![s] = "IN_GAME"]
  /\ s2c' = SendAtOnce(s, <<Notice("MissionInit"), Roster("Added", InGame \cup {s})>>)
  /\ outbox' = [Relayed(s, Roster("Added", {s})) EXCEPT ![s] = <<>>]
  /\ UNCHANGED <<addr, round, cooling, accepting, answered, failed, clientVars>>

(* A Disconnect or ConnectACK packet: flush, then bc_handle_peer_disconnect. *)
HandleQuit(c, s) ==
  /\ IsPeer(s, c)
  /\ Received(c, Notice("Quit"))
  /\ s2c' = SendAtOnce(s, <<>>)
  /\ Disconnect(s)
  /\ UNCHANGED <<accepting, failed, clientVars>>

(* What the server drops: packets of unknown addresses, responses after    *)
(* the handshake, NewPlayerInGame before it has ended.                     *)
Ignored(c, m) ==
  /\ m \in c2s[c]
  /\ \/ ~ Known(c) /\ m.kind # "Connect"
     \/ \E s \in Slots :
          /\ IsPeer(s, c)
          /\ \/ m.kind = "ChecksumResp" /\ InLobby(s)
             \/ m.kind = "NewPlayerInGame" /\ ~ InLobby(s)
  /\ Received(c, m)
  /\ UNCHANGED <<serverVars, clientVars, s2c>>

(* Slip: only peers that passed their handshake are timed out.             *)
TimeoutInLobby(s) ==
  /\ InLobby(s)
  /\ Disconnect(s)
  /\ UNCHANGED <<accepting, failed, clientVars, c2s, s2c, duplicates>>

(* A peer from which nothing came for 30 seconds, or that exhausted its    *)
(* retries.  It may still be there, cut off by the network.                *)
Timeout(s) ==
  /\ phase[s] # "EMPTY"
  /\ Disconnect(s)
  /\ UNCHANGED <<accepting, failed, clientVars, c2s, s2c, duplicates>>

(* The tick ends by flushing every outbox.                                 *)
FlushTick ==
  /\ \E s \in Slots : outbox[s] # <<>>
  /\ s2c' = [c \in Clients |->
               IF Known(c) /\ (mode[c] # "out" \/ SamePort)
               THEN s2c[c] \o outbox[CHOOSE s \in Slots : Occupies(s, c)]
               ELSE s2c[c]]
  /\ outbox' = [s \in Slots |-> <<>>]
  /\ UNCHANGED <<phase, addr, round, cooling, accepting, answered, failed, clientVars, c2s,
                 duplicates>>

(* The oldest cooldown of two seconds ends.                                *)
CooldownEnds ==
  /\ cooling # <<>>
  /\ cooling' = Tail(cooling)
  /\ UNCHANGED <<phase, addr, round, outbox, accepting, answered, failed,
                 clientVars, c2s, s2c, duplicates>>

(* The game ends (a limit is reached); slot 1 may restart it.              *)
EndGame ==
  /\ accepting
  /\ accepting' = FALSE
  /\ UNCHANGED <<phase, addr, round, outbox, cooling, answered, failed,
                 clientVars, c2s, s2c, duplicates>>

RestartGame ==
  /\ ~ accepting
  /\ InLobby(1)
  /\ accepting' = TRUE
  /\ UNCHANGED <<phase, addr, round, outbox, cooling, answered, failed,
                 clientVars, c2s, s2c, duplicates>>

----------------------------------------------------------------------------
(* The clients.                                                            *)

ClientConnect(c) ==
  /\ mode[c] = "out" /\ sessions[c] < MaxSessions
  /\ SamePort \/ (~ Known(c) /\ c2s[c] = {})
  /\ mode' = [mode EXCEPT ![c] = "joining"]
  /\ view' = [view EXCEPT ![c] = {}]
  /\ sessions' = [sessions EXCEPT ![c] = @ + 1]
  /\ c2s' = [c2s EXCEPT ![c] = @ \cup {Notice("Connect")}]
  /\ s2c' = IF Known(c) THEN s2c ELSE [s2c EXCEPT ![c] = <<>>]
  /\ UNCHANGED <<serverVars, duplicates>>

(* A client answers each request, reports in after Settings, and starts    *)
(* its player list at MissionInit (it ignores DeletePlayerUI before).      *)
ClientReceive(c) ==
  /\ mode[c] # "out" /\ s2c[c] # <<>>
  /\ LET m == Head(s2c[c])
         replies == CASE m.kind = "ChecksumReq" -> {Response(m.n)}
                      [] m.kind = "Settings" -> {Notice("NewPlayerInGame")}
                      [] OTHER -> {}
     IN /\ c2s' = [c2s EXCEPT ![c] = @ \cup replies]
        /\ mode' = [mode EXCEPT ![c] =
                      CASE m.kind = "Settings" -> "ready"
                        [] m.kind = "MissionInit" -> "playing"
                        [] m.kind = "BootPlayer" -> "out"
                        [] OTHER -> @]
        /\ view' = [view EXCEPT ![c] =
                      CASE m.kind = "MissionInit" -> {}
                        [] mode[c] = "playing" /\ m.kind = "Added" -> @ \cup m.slots
                        [] mode[c] = "playing" /\ m.kind = "Removed" -> @ \ m.slots
                        [] OTHER -> @]
        /\ s2c' = [s2c EXCEPT ![c] = IF m.kind = "BootPlayer" THEN <<>> ELSE Tail(@)]
  /\ UNCHANGED <<serverVars, sessions, duplicates>>

(* A client leaves, with a word to the server or without.                  *)
ClientLeave(c, farewell) ==
  /\ mode[c] # "out"
  /\ mode' = [mode EXCEPT ![c] = "out"]
  /\ c2s' = [c2s EXCEPT ![c] = @ \cup farewell]
  /\ s2c' = IF SamePort THEN s2c ELSE [s2c EXCEPT ![c] = <<>>]
  /\ UNCHANGED <<serverVars, view, sessions, duplicates>>

ClientQuit(c) == ClientLeave(c, {Notice("Quit")})
ClientCrash(c) == ClientLeave(c, {})

ServerReceive(c) ==
  \/ HandleConnect(c)
  \/ \E s \in Slots : DuplicateConnect(c, s)
  \/ \E s \in Slots, n \in 0..Rounds : ChecksumResponse(c, s, n)
  \/ \E s \in Slots : NewPlayerInGame(c, s)
  \/ \E s \in Slots : HandleQuit(c, s)
  \/ \E m \in ClientMessages : Ignored(c, m)

Next ==
  \/ \E c \in Clients : ServerReceive(c)
  \/ \E s \in Slots : Timeout(s)
  \/ FlushTick
  \/ CooldownEnds
  \/ EndGame
  \/ RestartGame
  \/ \E c \in Clients :
       \/ ClientConnect(c)
       \/ ClientReceive(c)
       \/ ClientQuit(c)
       \/ ClientCrash(c)

Spec == Init /\ [][Next]_vars

(* Each main-loop turn receives what has arrived, ticks, and a peer of     *)
(* which nothing comes is timed out; a connected client answers.  Nobody   *)
(* has to connect, leave, end the game or restart it.                      *)
Silent(s) == phase[s] # "EMPTY" /\ mode[addr[s]] = "out" /\ c2s[addr[s]] = {}

FairSpec ==
  /\ Spec
  /\ WF_vars(FlushTick) /\ WF_vars(CooldownEnds)
  /\ \A c \in Clients : WF_vars(ServerReceive(c)) /\ WF_vars(ClientReceive(c))
  /\ \A s \in Slots : WF_vars(Silent(s) /\ Timeout(s))

----------------------------------------------------------------------------
TypeOK ==
  /\ phase \in [Slots -> Phases]
  /\ addr \in [Slots -> Clients \cup {NoClient}]
  /\ round \in [Slots -> 0..Rounds]
  /\ outbox \in [Slots -> Seq(ServerMessages)]
  /\ cooling \in Seq({IpOf[c] : c \in Clients}) /\ Len(cooling) <= RateSlots
  /\ accepting \in BOOLEAN
  /\ c2s \in [Clients -> SUBSET ClientMessages]
  /\ duplicates \in 0..MaxDuplicates
  /\ s2c \in [Clients -> Seq(ServerMessages)]
  /\ mode \in [Clients -> Modes]
  /\ view \in [Clients -> SUBSET Slots]
  /\ sessions \in [Clients -> 0..MaxSessions]
  /\ answered \in [Slots -> SUBSET (0..Rounds)]
  /\ failed \subseteq Clients

(* Whatever is lost, late or repeated, an address never holds two slots:   *)
(* bc_peers_find answers for one peer and every packet has one reader.     *)
OneSlotPerAddress ==
  \A s, t \in Slots : phase[s] # "EMPTY" /\ phase[t] # "EMPTY" /\ addr[s] = addr[t] => s = t

(* With a manifest, a peer is in the lobby only after a good response to   *)
(* every regular round, in this occupation of its slot: no reordered or    *)
(* repeated response counts for another round.                             *)
VerifiedInLobby ==
  \A s \in Slots :
    Manifest /\ InLobby(s) =>
      \A r \in 0..(Rounds - 1) : r \in answered[s] /\ Answer[addr[s]][r] = "good"

(* The strengthening the proofs use: checksum_round counts, in every       *)
(* occupied slot, the rounds answered so far.                              *)
HandshakeProgress ==
  \A s \in Slots :
    /\ phase[s] = "EMPTY" => round[s] = 0
    /\ phase[s] # "EMPTY" => addr[s] \in Clients
    /\ phase[s] = "CHECKSUMMING" => round[s] < Rounds
    /\ phase[s] \notin {"EMPTY", "CHECKSUMMING"} => round[s] = Rounds
    /\ Manifest /\ phase[s] # "EMPTY" =>
         \A r \in 0..(round[s] - 1) : r \in answered[s] /\ Answer[addr[s]][r] = "good"

IInv == TypeOK /\ OneSlotPerAddress /\ HandshakeProgress

(* A playing client to which nothing is on its way lists exactly the slots *)
(* in the game: joins and leaves that cross its own join are not missed,   *)
(* and none is left on the list.                                           *)
QuiescentRoster ==
  \A s \in Slots :
    LET c == addr[s]
    IN phase[s] = "IN_GAME" =>
         (mode[c] = "playing" /\ s2c[c] = <<>> /\ outbox[s] = <<>> => view[c] = InGame)

(* A client with good files is not dropped for a checksum.                 *)
OnlyBadClientsFail ==
  \A c \in failed : \E r \in 0..Rounds : Answer[c][r] # "good"

(* Every slot is freed or its player gets into the game, or out of it:     *)
(* no peer stays in the handshake, no absent player keeps a slot.          *)
HandshakeEnds ==
  \A s \in Slots, c \in Clients :
    (Occupies(s, c) /\ mode[c] \in {"joining", "ready"}) ~>
      (~ Occupies(s, c) \/ mode[c] \in {"playing", "out"})

GhostsAreReclaimed ==
  \A s \in Slots, c \in Clients :
    (Occupies(s, c) /\ mode[c] = "out") ~> (~ Occupies(s, c) \/ mode[c] # "out")
=============================================================================
