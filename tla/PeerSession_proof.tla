------------------------- MODULE PeerSession_proof -------------------------
(***************************************************************************)
(* Proofs about PeerSession for every number of slots, clients and rounds, *)
(* with or without a manifest, however many packets are repeated and       *)
(* however many times clients come back.                                   *)
(***************************************************************************)
EXTENDS PeerSession, FoldLemmas, SequenceTheorems

----------------------------------------------------------------------------
(* Messages and channels.                                                  *)

LEMMA MessageTypes ==
  /\ \A n \in 0..Rounds : Request(n) \in ServerMessages
  /\ \A k \in {"Connected", "Settings", "MissionInit", "BootPlayer"} :
       Notice(k) \in ServerMessages
  /\ \A k \in {"Added", "Removed"}, S \in SUBSET Slots : Roster(k, S) \in ServerMessages
  /\ \A n \in 0..Rounds : Response(n) \in ClientMessages
  /\ \A k \in {"Connect", "NewPlayerInGame", "Quit"} : Notice(k) \in ClientMessages
  BY DEF Request, Notice, Roster, Response, ServerMessages, ClientMessages

(* Sequences of messages are closed under the ways handlers build them.    *)
LEMMA SequenceTypes ==
  ASSUME NEW S, NEW s \in Seq(S)
  PROVE  /\ <<>> \in Seq(S)
         /\ \A e \in S : <<e>> \in Seq(S) /\ Append(s, e) \in Seq(S)
         /\ \A d, e \in S : <<d, e>> \in Seq(S)
         /\ \A t \in Seq(S) : s \o t \in Seq(S)
         /\ s # <<>> => Tail(s) \in Seq(S) /\ Head(s) \in S /\ Len(Tail(s)) = Len(s) - 1
  OBVIOUS

(* ToClient and SendAtOnce keep every channel a sequence of messages.      *)
LEMMA ChannelTypes ==
  ASSUME TypeOK, NEW c \in Clients, NEW m \in Seq(ServerMessages)
  PROVE  /\ ToClient(c, m) \in [Clients -> Seq(ServerMessages)]
         /\ \A s \in Slots : ToClient(c, outbox[s] \o m) \in [Clients -> Seq(ServerMessages)]
<1>1. \A t \in Seq(ServerMessages) : ToClient(c, t) \in [Clients -> Seq(ServerMessages)]
  <2>1. SUFFICES ASSUME NEW t \in Seq(ServerMessages)
                 PROVE  ToClient(c, t) \in [Clients -> Seq(ServerMessages)]
    OBVIOUS
  <2>2. s2c \in [Clients -> Seq(ServerMessages)] /\ s2c[c] \in Seq(ServerMessages)
    BY DEF TypeOK
  <2>3. s2c[c] \o t \in Seq(ServerMessages)
    BY <2>2, SequenceTypes
  <2>4. QED
    BY <2>2, <2>3 DEF ToClient
<1>2. \A s \in Slots : outbox[s] \o m \in Seq(ServerMessages)
  BY SequenceTypes DEF TypeOK
<1>3. QED
  BY <1>1, <1>2

(* Queueing a message for the others keeps every outbox one.               *)
LEMMA RelayTypes ==
  ASSUME TypeOK, NEW s \in Slots, NEW m \in ServerMessages
  PROVE  /\ Relayed(s, m) \in [Slots -> Seq(ServerMessages)]
         /\ [Relayed(s, m) EXCEPT ![s] = <<>>] \in [Slots -> Seq(ServerMessages)]
         /\ [outbox EXCEPT ![s] = <<>>] \in [Slots -> Seq(ServerMessages)]
<1>1. outbox \in [Slots -> Seq(ServerMessages)]
  BY DEF TypeOK
<1>2. \A t \in Slots : Append(outbox[t], m) \in Seq(ServerMessages)
  BY <1>1, SequenceTypes
<1>3. <<>> \in Seq(ServerMessages)
  OBVIOUS
<1>4. Relayed(s, m) \in [Slots -> Seq(ServerMessages)]
  BY <1>1, <1>2 DEF Relayed
<1>5. QED
  BY <1>1, <1>3, <1>4

(* A reception leaves messages and the bound on copies in place.           *)
LEMMA ReceivedTypes ==
  ASSUME TypeOK, NEW c \in Clients, NEW m, Received(c, m)
  PROVE  /\ c2s' \in [Clients -> SUBSET ClientMessages]
         /\ duplicates' \in 0..MaxDuplicates
<1>1. /\ c2s \in [Clients -> SUBSET ClientMessages]
      /\ duplicates \in 0..MaxDuplicates /\ MaxDuplicates \in Nat
  BY PeerAssumption DEF TypeOK
<1>2. \/ c2s' = [c2s EXCEPT ![c] = @ \ {m}] /\ duplicates' = duplicates
      \/ c2s' = c2s /\ duplicates < MaxDuplicates /\ duplicates' = duplicates + 1
  BY DEF Received
<1>3. c2s' \in [Clients -> SUBSET ClientMessages]
  <2>1. c2s[c] \ {m} \in SUBSET ClientMessages
    BY <1>1
  <2>2. QED
    BY <1>1, <1>2, <2>1
<1>4. duplicates' \in 0..MaxDuplicates
  BY <1>1, <1>2
<1>5. QED
  BY <1>3, <1>4

----------------------------------------------------------------------------
(* The invariant holds initially.                                          *)
LEMMA InitInvariant ==
  ASSUME Init
  PROVE  IInv
<1>1. TypeOK
  <2>1. /\ <<>> \in Seq(ServerMessages) /\ <<>> \in Seq({IpOf[c] : c \in Clients})
        /\ Len(<<>>) = 0
    OBVIOUS
  <2>2. QED
    BY <2>1, PeerAssumption DEF Init, TypeOK, Phases, Modes
<1>2. OneSlotPerAddress
  BY DEF Init, OneSlotPerAddress
<1>3. HandshakeProgress
  BY PeerAssumption DEF Init, HandshakeProgress
<1>4. QED
  BY <1>1, <1>2, <1>3 DEF IInv

----------------------------------------------------------------------------
(* bc_handle_peer_disconnect, on whichever path it is reached.             *)
LEMMA DisconnectTypes ==
  ASSUME IInv, NEW s \in Slots, phase[s] # "EMPTY", Disconnect(s)
  PROVE  /\ phase' \in [Slots -> Phases]
         /\ addr' \in [Slots -> Clients \cup {NoClient}]
         /\ round' \in [Slots -> 0..Rounds]
         /\ outbox' \in [Slots -> Seq(ServerMessages)]
         /\ cooling' \in Seq({IpOf[c] : c \in Clients}) /\ Len(cooling') <= RateSlots
         /\ answered' \in [Slots -> SUBSET (0..Rounds)]
<1> DEFINE Ips == {IpOf[c] : c \in Clients}
<1>1. phase' \in [Slots -> Phases] /\ addr' \in [Slots -> Clients \cup {NoClient}]
  BY DEF IInv, TypeOK, Disconnect, Phases
<1>2. round' \in [Slots -> 0..Rounds] /\ answered' \in [Slots -> SUBSET (0..Rounds)]
  BY PeerAssumption DEF IInv, TypeOK, Disconnect
<1>3. outbox' \in [Slots -> Seq(ServerMessages)]
  <2>1. Roster("Removed", {s}) \in ServerMessages
    BY MessageTypes
  <2>2. QED
    BY <2>1, RelayTypes DEF IInv, Disconnect
<1>4. cooling' \in Seq(Ips) /\ Len(cooling') <= RateSlots
  <2>1. IpOf[addr[s]] \in Ips
    BY DEF IInv, HandshakeProgress
  <2>2. cooling \in Seq(Ips) /\ Len(cooling) <= RateSlots /\ RateSlots \in Nat
    BY PeerAssumption DEF IInv, TypeOK
  <2>3. CASE RateSlots = 0
    BY <2>2, <2>3 DEF Disconnect
  <2>4. CASE RateSlots # 0 /\ Len(cooling) < RateSlots
    <3>1. cooling' = Append(cooling, IpOf[addr[s]])
      BY <2>4 DEF Disconnect
    <3>2. QED
      BY <2>1, <2>2, <2>4, <3>1
  <2>5. CASE RateSlots # 0 /\ ~ (Len(cooling) < RateSlots)
    <3>1. cooling' = Append(Tail(cooling), IpOf[addr[s]])
      BY <2>5 DEF Disconnect
    <3>2. Len(cooling) = RateSlots /\ cooling # <<>>
      BY <2>2, <2>5
    <3>3. Tail(cooling) \in Seq(Ips) /\ Len(Tail(cooling)) = RateSlots - 1
      BY <2>2, <3>2
    <3>4. QED
      BY <2>1, <2>2, <3>1, <3>3
  <2>6. QED
    BY <2>3, <2>4, <2>5
<1>5. QED
  BY <1>1, <1>2, <1>3, <1>4

LEMMA DisconnectKeepsOrder ==
  ASSUME IInv, NEW s \in Slots, Disconnect(s)
  PROVE  OneSlotPerAddress' /\ HandshakeProgress'
<1>1. OneSlotPerAddress'
  BY DEF IInv, TypeOK, OneSlotPerAddress, Disconnect
<1>2. HandshakeProgress'
  BY PeerAssumption DEF IInv, TypeOK, HandshakeProgress, Disconnect
<1>3. QED
  BY <1>1, <1>2

----------------------------------------------------------------------------
(* Connections.                                                            *)

(* A new peer takes a slot no other slot has the address of.               *)
LEMMA HandleConnectInvariant ==
  ASSUME IInv, NEW c \in Clients, HandleConnect(c)
  PROVE  IInv'
<1>1. /\ UNCHANGED <<round, outbox, cooling, accepting, answered, failed>>
      /\ UNCHANGED <<mode, view, sessions>>
      /\ Received(c, Notice("Connect")) /\ ~ Known(c)
  BY DEF HandleConnect, clientVars
<1>2. c2s' \in [Clients -> SUBSET ClientMessages] /\ duplicates' \in 0..MaxDuplicates
  BY <1>1, ReceivedTypes DEF IInv
<1>3. s2c' \in [Clients -> Seq(ServerMessages)]
  <2>1. Notice("Connected") \in ServerMessages /\ Request(0) \in ServerMessages
        /\ Notice("BootPlayer") \in ServerMessages
    BY MessageTypes, PeerAssumption
  <2>2. <<Notice("Connected"), Request(0)>> \in Seq(ServerMessages)
        /\ <<Notice("BootPlayer")>> \in Seq(ServerMessages)
    BY <2>1
  <2>3. \/ s2c' = ToClient(c, <<Notice("Connected"), Request(0)>>)
        \/ s2c' = ToClient(c, <<Notice("BootPlayer")>>)
    BY DEF HandleConnect
  <2>4. QED
    BY <2>2, <2>3, ChannelTypes DEF IInv
<1>4. CASE UNCHANGED <<phase, addr>>
  BY <1>1, <1>2, <1>3, <1>4
     DEF IInv, TypeOK, OneSlotPerAddress, HandshakeProgress
<1>5. CASE \E s \in Slots : /\ phase[s] = "EMPTY"
                            /\ phase' = [phase EXCEPT ![s] = "CHECKSUMMING"]
                            /\ addr' = [addr EXCEPT ![s] = c]
  <2>1. PICK s \in Slots : /\ phase[s] = "EMPTY"
                           /\ phase' = [phase EXCEPT ![s] = "CHECKSUMMING"]
                           /\ addr' = [addr EXCEPT ![s] = c]
    BY <1>5
  <2>2. TypeOK'
    BY <1>1, <1>2, <1>3, <2>1 DEF IInv, TypeOK, Phases
  <2>3. OneSlotPerAddress'
    BY <1>1, <2>1 DEF IInv, TypeOK, OneSlotPerAddress, Known, Occupies
  <2>4. HandshakeProgress'
    BY <1>1, <2>1, PeerAssumption DEF IInv, TypeOK, HandshakeProgress
  <2>5. QED
    BY <2>2, <2>3, <2>4 DEF IInv
<1>6. QED
  BY <1>4, <1>5 DEF HandleConnect

(* Steps that keep the slots, and leave well-typed messages on their way,  *)
(* keep the invariant.                                                     *)
LEMMA SlotsKept ==
  ASSUME IInv, UNCHANGED <<phase, addr, round, answered>>, TypeOK'
  PROVE  IInv'
  BY DEF IInv, OneSlotPerAddress, HandshakeProgress

LEMMA DuplicateConnectInvariant ==
  ASSUME IInv, NEW c \in Clients, NEW s \in Slots, DuplicateConnect(c, s)
  PROVE  IInv'
<1>1. c2s' \in [Clients -> SUBSET ClientMessages] /\ duplicates' \in 0..MaxDuplicates
  BY ReceivedTypes DEF IInv, DuplicateConnect
<1>2. s2c' \in [Clients -> Seq(ServerMessages)]
  <2>1. <<Notice("Connected")>> \in Seq(ServerMessages)
    BY MessageTypes
  <2>2. QED
    BY <2>1, ChannelTypes DEF IInv, DuplicateConnect
<1>3. outbox' \in [Slots -> Seq(ServerMessages)]
  BY RelayTypes, MessageTypes DEF IInv, TypeOK, DuplicateConnect
<1>4. UNCHANGED <<phase, addr, round, cooling, accepting, answered, failed, mode, view, sessions>>
  BY DEF DuplicateConnect, clientVars
<1>5. TypeOK'
  BY <1>1, <1>2, <1>3, <1>4 DEF IInv, TypeOK
<1>6. QED
  BY <1>4, <1>5, SlotsKept

----------------------------------------------------------------------------
(* Checksum responses.                                                     *)

(* A flush of slot s with more messages leaves a sequence in each channel. *)
LEMMA FlushTypes ==
  ASSUME IInv, NEW s \in Slots, phase[s] # "EMPTY", NEW m \in Seq(ServerMessages)
  PROVE  /\ SendAtOnce(s, m) \in [Clients -> Seq(ServerMessages)]
         /\ [outbox EXCEPT ![s] = <<>>] \in [Slots -> Seq(ServerMessages)]
<1>1. addr[s] \in Clients
  BY DEF IInv, HandshakeProgress
<1>2. SendAtOnce(s, m) \in [Clients -> Seq(ServerMessages)]
  BY <1>1, ChannelTypes DEF IInv, SendAtOnce
<1>3. QED
  BY <1>2, RelayTypes, MessageTypes DEF IInv

(* A good response advances checksum_round over the round it answers; it   *)
(* is the only step that does, and it asks for the next one.               *)
LEMMA NextRoundInvariant ==
  ASSUME IInv, NEW c \in Clients, NEW s \in Slots, NEW n \in 0..Rounds,
         Occupies(s, c), Received(c, Response(n)), phase[s] = "CHECKSUMMING",
         Manifest => Validates(c, n, round[s]), NextRound(s, n),
         UNCHANGED <<accepting, mode, view, sessions>>
  PROVE  IInv'
<1> USE DEF IInv
<1>1. c2s' \in [Clients -> SUBSET ClientMessages] /\ duplicates' \in 0..MaxDuplicates
  BY ReceivedTypes
<1>2. round[s] \in 0..(Rounds - 1) /\ round[s] + 1 \in 0..Rounds /\ Rounds \in Nat \ {0}
  BY PeerAssumption DEF TypeOK, HandshakeProgress
<1>3. s2c' \in [Clients -> Seq(ServerMessages)] /\ outbox' \in [Slots -> Seq(ServerMessages)]
  <2>1. Request(round[s] + 1) \in ServerMessages
    BY <1>2, MessageTypes
  <2>2. <<Request(round[s] + 1)>> \in Seq(ServerMessages)
    BY <2>1
  <2>3. QED
    BY <2>2, FlushTypes DEF NextRound
<1>4. /\ phase' \in [Slots -> Phases] /\ round' \in [Slots -> 0..Rounds]
      /\ answered' \in [Slots -> SUBSET (0..Rounds)]
  BY <1>2 DEF TypeOK, NextRound, Phases
<1>5. UNCHANGED <<addr, cooling, failed>>
  BY DEF NextRound
<1>6. TypeOK'
  BY <1>1, <1>3, <1>4, <1>5 DEF TypeOK
<1>7. \A t \in Slots : phase'[t] # "EMPTY" <=> phase[t] # "EMPTY"
  BY DEF NextRound, TypeOK
<1>8. OneSlotPerAddress'
  BY <1>5, <1>7 DEF OneSlotPerAddress
<1>9. HandshakeProgress'
  <2>1. \A t \in Slots : t # s => /\ phase'[t] = phase[t] /\ round'[t] = round[t]
                                  /\ answered'[t] = answered[t]
    BY DEF NextRound, TypeOK
  <2>2. /\ round'[s] = round[s] + 1 /\ answered'[s] = answered[s] \cup {n}
        /\ phase'[s] = IF round[s] + 1 < Rounds THEN "CHECKSUMMING"
                       ELSE "CHECKSUMMING_FINAL"
    BY DEF NextRound, TypeOK
  <2>3. addr[s] = c
    BY DEF Occupies
  <2>4. Manifest => \A r \in 0..((round[s] + 1) - 1) :
                      r \in answered'[s] /\ Answer[c][r] = "good"
    BY <1>2, <2>2, <2>3 DEF HandshakeProgress, Validates
  <2>5. QED
    BY <1>2, <1>5, <2>1, <2>2, <2>3, <2>4 DEF HandshakeProgress
<1>10. QED
  BY <1>6, <1>8, <1>9

(* The lobby is entered from the final round, when every regular round has *)
(* been counted.                                                           *)
LEMMA EnterLobbyInvariant ==
  ASSUME IInv, NEW c \in Clients, NEW s \in Slots, NEW n \in 0..Rounds,
         Received(c, Response(n)), phase[s] = "CHECKSUMMING_FINAL", EnterLobby(s, n),
         UNCHANGED <<accepting, mode, view, sessions>>
  PROVE  IInv'
<1> USE DEF IInv
<1>1. c2s' \in [Clients -> SUBSET ClientMessages] /\ duplicates' \in 0..MaxDuplicates
  BY ReceivedTypes
<1>2. s2c' \in [Clients -> Seq(ServerMessages)] /\ outbox' \in [Slots -> Seq(ServerMessages)]
  <2>1. <<Notice("Settings")>> \in Seq(ServerMessages)
    BY MessageTypes
  <2>2. QED
    BY <2>1, FlushTypes DEF EnterLobby
<1>3. phase' \in [Slots -> Phases] /\ answered' \in [Slots -> SUBSET (0..Rounds)]
  BY DEF TypeOK, EnterLobby, Phases
<1>4. UNCHANGED <<addr, round, cooling, failed>>
  BY DEF EnterLobby
<1>5. TypeOK'
  BY <1>1, <1>2, <1>3, <1>4 DEF TypeOK
<1>6. OneSlotPerAddress'
  BY <1>4 DEF OneSlotPerAddress, EnterLobby, TypeOK
<1>7. HandshakeProgress'
  BY <1>4 DEF HandshakeProgress, EnterLobby, TypeOK
<1>8. QED
  BY <1>5, <1>6, <1>7

(* A slot cleared by bc_handle_peer_disconnect leaves the invariant, given *)
(* well-typed channels.                                                    *)
LEMMA DisconnectInvariant ==
  ASSUME IInv, NEW s \in Slots, phase[s] # "EMPTY", Disconnect(s),
         c2s' \in [Clients -> SUBSET ClientMessages], duplicates' \in 0..MaxDuplicates,
         s2c' \in [Clients -> Seq(ServerMessages)], failed' \subseteq Clients,
         UNCHANGED <<accepting, mode, view, sessions>>
  PROVE  IInv'
<1>1. TypeOK'
  BY DisconnectTypes DEF IInv, TypeOK
<1>2. QED
  BY <1>1, DisconnectKeepsOrder DEF IInv

LEMMA ChecksumResponseInvariant ==
  ASSUME IInv, NEW c \in Clients, NEW s \in Slots, NEW n \in 0..Rounds,
         ChecksumResponse(c, s, n)
  PROVE  IInv'
<1>1. /\ Occupies(s, c) /\ Received(c, Response(n))
      /\ UNCHANGED <<accepting, mode, view, sessions>>
  BY DEF ChecksumResponse, IsPeer, clientVars
<1>2. CASE /\ phase[s] = "CHECKSUMMING"
           /\ Manifest => Validates(c, n, round[s])
           /\ NextRound(s, n)
  BY <1>1, <1>2, NextRoundInvariant
<1>3. CASE phase[s] = "CHECKSUMMING_FINAL" /\ EnterLobby(s, n)
  BY <1>1, <1>3, EnterLobbyInvariant
<1>4. CASE phase[s] # "EMPTY" /\ FailChecksum(s)
  <2>1. /\ c2s' \in [Clients -> SUBSET ClientMessages] /\ duplicates' \in 0..MaxDuplicates
    BY <1>1, ReceivedTypes DEF IInv
  <2>2. s2c' \in [Clients -> Seq(ServerMessages)] /\ failed' \subseteq Clients
    BY <1>4 DEF IInv, TypeOK, HandshakeProgress, FailChecksum
  <2>3. QED
    BY <1>1, <1>4, <2>1, <2>2, DisconnectInvariant DEF FailChecksum
<1>5. QED
  BY <1>2, <1>3, <1>4 DEF ChecksumResponse

----------------------------------------------------------------------------
(* In and out of the game.                                                 *)

LEMMA NewPlayerInGameInvariant ==
  ASSUME IInv, NEW c \in Clients, NEW s \in Slots, NewPlayerInGame(c, s)
  PROVE  IInv'
<1> USE DEF IInv
<1>1. c2s' \in [Clients -> SUBSET ClientMessages] /\ duplicates' \in 0..MaxDuplicates
  BY ReceivedTypes DEF NewPlayerInGame
<1>2. InLobby(s) /\ phase[s] # "EMPTY"
  BY DEF NewPlayerInGame, InLobby
<1>3. s2c' \in [Clients -> Seq(ServerMessages)]
  <2>1. InGame \cup {s} \in SUBSET Slots
    BY DEF InGame
  <2>2. <<Notice("MissionInit"), Roster("Added", InGame \cup {s})>> \in Seq(ServerMessages)
    BY <2>1, MessageTypes
  <2>3. QED
    BY <1>2, <2>2, FlushTypes DEF NewPlayerInGame
<1>4. outbox' \in [Slots -> Seq(ServerMessages)]
  <2>1. Roster("Added", {s}) \in ServerMessages
    BY MessageTypes
  <2>2. QED
    BY <2>1, RelayTypes DEF NewPlayerInGame
<1>5. UNCHANGED <<addr, round, cooling, accepting, answered, failed, mode, view, sessions>>
  BY DEF NewPlayerInGame, clientVars
<1>6. phase' = [phase EXCEPT ![s] = "IN_GAME"] /\ phase \in [Slots -> Phases]
  BY DEF NewPlayerInGame, TypeOK
<1>7. TypeOK'
  BY <1>1, <1>3, <1>4, <1>5, <1>6 DEF TypeOK, Phases
<1>8. OneSlotPerAddress'
  BY <1>2, <1>5, <1>6 DEF OneSlotPerAddress
<1>9. HandshakeProgress'
  BY <1>2, <1>5, <1>6 DEF HandshakeProgress, InLobby
<1>10. QED
  BY <1>7, <1>8, <1>9

LEMMA HandleQuitInvariant ==
  ASSUME IInv, NEW c \in Clients, NEW s \in Slots, HandleQuit(c, s)
  PROVE  IInv'
<1>1. c2s' \in [Clients -> SUBSET ClientMessages] /\ duplicates' \in 0..MaxDuplicates
  BY ReceivedTypes DEF IInv, HandleQuit
<1>2. phase[s] # "EMPTY" /\ Disconnect(s)
  BY DEF HandleQuit, IsPeer, Occupies
<1>3. s2c' \in [Clients -> Seq(ServerMessages)]
  <2>1. <<>> \in Seq(ServerMessages)
    OBVIOUS
  <2>2. QED
    BY <1>2, <2>1, FlushTypes DEF HandleQuit
<1>4. failed' \subseteq Clients /\ UNCHANGED <<accepting, mode, view, sessions>>
  BY DEF IInv, TypeOK, HandleQuit, clientVars
<1>5. QED
  BY <1>1, <1>2, <1>3, <1>4, DisconnectInvariant

LEMMA TimeoutInvariant ==
  ASSUME IInv, NEW s \in Slots, Timeout(s)
  PROVE  IInv'
<1>1. /\ phase[s] # "EMPTY" /\ Disconnect(s)
      /\ UNCHANGED <<accepting, mode, view, sessions, failed, c2s, s2c, duplicates>>
  BY DEF Timeout, clientVars
<1>2. QED
  BY <1>1, DisconnectInvariant DEF IInv, TypeOK

----------------------------------------------------------------------------
(* The tick, and the clients.                                              *)

LEMMA IgnoredInvariant ==
  ASSUME IInv, NEW c \in Clients, NEW m \in ClientMessages, Ignored(c, m)
  PROVE  IInv'
<1>1. c2s' \in [Clients -> SUBSET ClientMessages] /\ duplicates' \in 0..MaxDuplicates
  BY ReceivedTypes DEF IInv, Ignored
<1>2. UNCHANGED <<phase, addr, round, outbox, cooling, accepting, answered, failed,
                  mode, view, sessions, s2c>>
  BY DEF Ignored, serverVars, clientVars
<1>3. QED
  BY <1>1, <1>2, SlotsKept DEF IInv, TypeOK

LEMMA FlushTickInvariant ==
  ASSUME IInv, FlushTick
  PROVE  IInv'
<1>1. /\ s2c \in [Clients -> Seq(ServerMessages)]
      /\ outbox \in [Slots -> Seq(ServerMessages)]
  BY DEF IInv, TypeOK
<1>2. s2c' \in [Clients -> Seq(ServerMessages)]
  <2>1. SUFFICES ASSUME NEW c \in Clients
                 PROVE  s2c'[c] \in Seq(ServerMessages)
    BY DEF FlushTick
  <2>2. CASE ~ Known(c)
    BY <1>1, <2>2 DEF FlushTick
  <2>3. CASE Known(c)
    <3> DEFINE peer == CHOOSE s \in Slots : Occupies(s, c)
    <3>1. peer \in Slots
      BY <2>3 DEF Known
    <3>2. s2c[c] \o outbox[peer] \in Seq(ServerMessages)
      BY <1>1, <3>1, SequenceTypes
    <3>3. s2c'[c] \in {s2c[c], s2c[c] \o outbox[peer]}
      BY DEF FlushTick
    <3>4. QED
      BY <1>1, <3>2, <3>3
  <2>4. QED
    BY <2>2, <2>3
<1>3. outbox' \in [Slots -> Seq(ServerMessages)]
  BY DEF FlushTick
<1>4. UNCHANGED <<phase, addr, round, cooling, accepting, answered, failed, mode, view,
                  sessions, c2s, duplicates>>
  BY DEF FlushTick, clientVars
<1>5. QED
  BY <1>2, <1>3, <1>4, SlotsKept DEF IInv, TypeOK

LEMMA CooldownEndsInvariant ==
  ASSUME IInv, CooldownEnds
  PROVE  IInv'
<1> DEFINE Ips == {IpOf[c] : c \in Clients}
<1>1. cooling' \in Seq(Ips) /\ Len(cooling') <= RateSlots
  <2>1. cooling \in Seq(Ips) /\ Len(cooling) <= RateSlots /\ cooling # <<>>
        /\ RateSlots \in Nat
    BY PeerAssumption DEF IInv, TypeOK, CooldownEnds
  <2>2. Tail(cooling) \in Seq(Ips) /\ Len(Tail(cooling)) = Len(cooling) - 1
    BY <2>1, SequenceTypes
  <2>3. QED
    BY <2>1, <2>2 DEF CooldownEnds
<1>2. UNCHANGED <<phase, addr, round, outbox, accepting, answered, failed, mode, view,
                  sessions, c2s, s2c, duplicates>>
  BY DEF CooldownEnds, clientVars
<1>3. QED
  BY <1>1, <1>2, SlotsKept DEF IInv, TypeOK

LEMMA GameInvariant ==
  ASSUME IInv, EndGame \/ RestartGame
  PROVE  IInv'
<1>1. /\ UNCHANGED <<phase, addr, round, outbox, cooling, answered, failed, mode, view,
                     sessions, c2s, s2c, duplicates>>
      /\ accepting' \in BOOLEAN
  BY DEF EndGame, RestartGame, clientVars
<1>2. QED
  BY <1>1, SlotsKept DEF IInv, TypeOK

LEMMA ClientConnectInvariant ==
  ASSUME IInv, NEW c \in Clients, ClientConnect(c)
  PROVE  IInv'
<1> USE DEF IInv, TypeOK
<1>1. mode' \in [Clients -> Modes] /\ view' \in [Clients -> SUBSET Slots]
  BY DEF ClientConnect, Modes
<1>2. sessions' \in [Clients -> 0..MaxSessions]
  BY PeerAssumption DEF ClientConnect
<1>3. c2s' \in [Clients -> SUBSET ClientMessages]
  BY MessageTypes DEF ClientConnect
<1>4. s2c' \in [Clients -> Seq(ServerMessages)]
  <2>1. <<>> \in Seq(ServerMessages)
    OBVIOUS
  <2>2. QED
    BY <2>1 DEF ClientConnect
<1>5. UNCHANGED <<phase, addr, round, outbox, cooling, accepting, answered, failed, duplicates>>
  BY DEF ClientConnect, serverVars
<1>6. QED
  BY <1>1, <1>2, <1>3, <1>4, <1>5, SlotsKept

LEMMA ClientLeaveInvariant ==
  ASSUME IInv, NEW c \in Clients, ClientQuit(c) \/ ClientCrash(c)
  PROVE  IInv'
<1> USE DEF IInv, TypeOK
<1>1. PICK farewell \in SUBSET ClientMessages : ClientLeave(c, farewell)
  BY MessageTypes DEF ClientQuit, ClientCrash
<1>2. mode' \in [Clients -> Modes]
  BY <1>1 DEF ClientLeave, Modes
<1>3. c2s' \in [Clients -> SUBSET ClientMessages]
  BY <1>1 DEF ClientLeave
<1>4. s2c' \in [Clients -> Seq(ServerMessages)]
  <2>1. <<>> \in Seq(ServerMessages)
    OBVIOUS
  <2>2. QED
    BY <1>1, <2>1 DEF ClientLeave
<1>5. UNCHANGED <<phase, addr, round, outbox, cooling, accepting, answered, failed, duplicates,
                  view, sessions>>
  BY <1>1 DEF ClientLeave, serverVars
<1>6. QED
  BY <1>2, <1>3, <1>4, <1>5, SlotsKept

(* What a client reads, and answers, is a message.                         *)
LEMMA ClientReceiveInvariant ==
  ASSUME IInv, NEW c \in Clients, ClientReceive(c)
  PROVE  IInv'
<1> DEFINE m == Head(s2c[c])
           replies == CASE m.kind = "ChecksumReq" -> {Response(m.n)}
                        [] m.kind = "Settings" -> {Notice("NewPlayerInGame")}
                        [] OTHER -> {}
<1>1. /\ s2c \in [Clients -> Seq(ServerMessages)] /\ s2c[c] # <<>>
      /\ c2s \in [Clients -> SUBSET ClientMessages]
      /\ mode \in [Clients -> Modes] /\ view \in [Clients -> SUBSET Slots]
  BY DEF IInv, TypeOK, ClientReceive
<1>2. m \in ServerMessages /\ Tail(s2c[c]) \in Seq(ServerMessages)
  BY <1>1, SequenceTypes
<1>3. /\ m.kind = "ChecksumReq" => m.n \in 0..Rounds
      /\ m.kind \in {"Added", "Removed"} => m.slots \in SUBSET Slots
  BY <1>2 DEF ServerMessages
<1>4. c2s' \in [Clients -> SUBSET ClientMessages]
  <2>1. replies \in SUBSET ClientMessages
    BY <1>3, MessageTypes
  <2>2. c2s' = [c2s EXCEPT ![c] = @ \cup replies]
    BY DEF ClientReceive
  <2>3. QED
    BY <1>1, <2>1, <2>2
<1>5. mode' \in [Clients -> Modes]
  BY <1>1 DEF ClientReceive, Modes
<1>6. view' \in [Clients -> SUBSET Slots]
  <2> DEFINE read == CASE m.kind = "MissionInit" -> {}
                       [] mode[c] = "playing" /\ m.kind = "Added" -> view[c] \cup m.slots
                       [] mode[c] = "playing" /\ m.kind = "Removed" -> view[c] \ m.slots
                       [] OTHER -> view[c]
  <2>1. read \in SUBSET Slots
    BY <1>1, <1>3
  <2>2. view' = [view EXCEPT ![c] = read]
    BY <1>1 DEF ClientReceive
  <2>3. QED
    BY <1>1, <2>1, <2>2
<1>7. s2c' \in [Clients -> Seq(ServerMessages)]
  <2>1. <<>> \in Seq(ServerMessages)
    OBVIOUS
  <2>2. s2c' = [s2c EXCEPT ![c] = IF m.kind = "BootPlayer" THEN <<>> ELSE Tail(s2c[c])]
    BY <1>1 DEF ClientReceive
  <2>3. QED
    BY <1>1, <1>2, <2>1, <2>2
<1>8. UNCHANGED <<phase, addr, round, outbox, cooling, accepting, answered, failed, sessions,
                  duplicates>>
  BY DEF ClientReceive, serverVars
<1>9. QED
  BY <1>4, <1>5, <1>6, <1>7, <1>8, SlotsKept DEF IInv, TypeOK

----------------------------------------------------------------------------
(* The theorems.                                                           *)

LEMMA ServerReceiveInvariant ==
  ASSUME IInv, NEW c \in Clients, ServerReceive(c)
  PROVE  IInv'
  BY HandleConnectInvariant, DuplicateConnectInvariant, ChecksumResponseInvariant,
     NewPlayerInGameInvariant, HandleQuitInvariant, IgnoredInvariant DEF ServerReceive

(* Every step keeps the invariant.                                         *)
LEMMA StepInvariant ==
  ASSUME IInv, [Next]_vars
  PROVE  IInv'
<1>1. CASE \E c \in Clients : ServerReceive(c)
  BY <1>1, ServerReceiveInvariant
<1>2. CASE \E s \in Slots : Timeout(s)
  BY <1>2, TimeoutInvariant
<1>3. CASE FlushTick
  BY <1>3, FlushTickInvariant
<1>4. CASE CooldownEnds
  BY <1>4, CooldownEndsInvariant
<1>5. CASE EndGame \/ RestartGame
  BY <1>5, GameInvariant
<1>6. CASE \E c \in Clients : ClientConnect(c)
  BY <1>6, ClientConnectInvariant
<1>7. CASE \E c \in Clients : ClientReceive(c)
  BY <1>7, ClientReceiveInvariant
<1>8. CASE \E c \in Clients : ClientQuit(c) \/ ClientCrash(c)
  BY <1>8, ClientLeaveInvariant
<1>9. CASE UNCHANGED vars
  BY <1>9, SlotsKept DEF vars, serverVars, clientVars, IInv, TypeOK
<1>10. QED
  BY <1>1, <1>2, <1>3, <1>4, <1>5, <1>6, <1>7, <1>8, <1>9 DEF Next

LEMMA InvariantHolds == Spec => []IInv
  BY InitInvariant, StepInvariant, PTL DEF Spec

(* The session's variables keep their types: round counters and cooldown   *)
(* records within the arrays they index, and only known messages sent.     *)
THEOREM SessionTypeCorrect == Spec => []TypeOK
<1>1. IInv => TypeOK
  BY DEF IInv
<1>2. QED
  BY <1>1, InvariantHolds, PTL

(* No address ever holds two slots, however its packets are repeated or    *)
(* reordered and however it leaves and returns (bc_peers_add is only       *)
(* reached when bc_peers_find found nothing).                              *)
THEOREM UniqueSlot == Spec => []OneSlotPerAddress
<1>1. IInv => OneSlotPerAddress
  BY DEF IInv
<1>2. QED
  BY <1>1, InvariantHolds, PTL

(* With a manifest no peer is let into the lobby but after a good response *)
(* to every regular round during this occupation of its slot.              *)
THEOREM VerifiedEntry == Spec => []VerifiedInLobby
<1>1. IInv => VerifiedInLobby
  BY PeerAssumption DEF IInv, HandshakeProgress, VerifiedInLobby, InLobby
<1>2. QED
  BY <1>1, InvariantHolds, PTL

----------------------------------------------------------------------------
(* Asking and answering, if the network repeats nothing and who comes back *)
(* comes from another port: a client has one question or one answer under  *)
(* way, and it is the one the server is at.                                *)

Asks(m) == m.kind = "ChecksumReq"
Quiet(seq) == \A i \in DOMAIN seq : ~ Asks(seq[i])
AsksOnce(seq) == \A i, j \in DOMAIN seq : Asks(seq[i]) /\ Asks(seq[j]) => i = j
AsksFor(seq, n) == \A i \in DOMAIN seq : Asks(seq[i]) => seq[i].n = n

Replies(mail) == {m \in mail : m.kind = "ChecksumResp"}

TakesTurns ==
  \A c \in Clients :
    /\ AsksOnce(s2c[c])
    /\ \A m, r \in Replies(c2s[c]) : m = r
    /\ Quiet(s2c[c]) \/ Replies(c2s[c]) = {}

InStep ==
  \A s \in Slots : phase[s] = "CHECKSUMMING" =>
    /\ AsksFor(s2c[addr[s]], round[s])
    /\ \A m \in Replies(c2s[addr[s]]) : m.n = round[s]

(* Who asks to be let in has nothing of an earlier stay under way.         *)
StartsAnew ==
  \A c \in Clients : Notice("Connect") \in c2s[c] =>
    ~ Known(c) /\ Quiet(s2c[c]) /\ Replies(c2s[c]) = {}

OutboxesQuiet == \A s \in Slots : Quiet(outbox[s])

TurnInv == TakesTurns /\ InStep /\ StartsAnew /\ OutboxesQuiet /\ OnlyBadClientsFail

OnceEach == MaxDuplicates = 0 /\ ~ SamePort

LEMMA QuietFacts ==
  ASSUME NEW a \in Seq(ServerMessages), NEW b \in Seq(ServerMessages), Quiet(b)
  PROVE  /\ Quiet(a) => Quiet(a \o b) /\ AsksOnce(a)
         /\ AsksOnce(a) => AsksOnce(a \o b)
         /\ \A n : AsksFor(a, n) => AsksFor(a \o b, n)
<1>1. /\ Len(a) \in Nat /\ Len(b) \in Nat /\ Len(a \o b) = Len(a) + Len(b)
      /\ DOMAIN a = 1..Len(a) /\ DOMAIN b = 1..Len(b) /\ DOMAIN (a \o b) = 1..(Len(a) + Len(b))
  OBVIOUS
<1>2. ASSUME NEW i \in DOMAIN (a \o b), Asks((a \o b)[i])
      PROVE  i \in DOMAIN a /\ (a \o b)[i] = a[i]
  <2>1. CASE i <= Len(a)
    BY <1>1, <2>1
  <2>2. CASE i > Len(a)
    <3>1. i - Len(a) \in DOMAIN b /\ (a \o b)[i] = b[i - Len(a)]
      BY <1>1, <2>2
    <3>2. QED
      BY <1>2, <3>1 DEF Quiet
  <2>3. QED
    BY <1>1, <2>1, <2>2
<1>3. QED
  BY <1>2 DEF Quiet, AsksOnce, AsksFor

(* A request that follows what asks nothing is the only one.               *)
LEMMA AskedLast ==
  ASSUME NEW a \in Seq(ServerMessages), NEW b \in Seq(ServerMessages),
         NEW n \in 0..Rounds, Quiet(a), Quiet(b)
  PROVE  /\ AsksOnce(a \o (b \o <<Request(n)>>)) /\ AsksFor(a \o (b \o <<Request(n)>>), n)
<1> DEFINE c == a \o b
           d == a \o (b \o <<Request(n)>>)
<1>1. Request(n) \in ServerMessages /\ Request(n).n = n
  BY MessageTypes DEF Request
<1>2. c \in Seq(ServerMessages) /\ Quiet(c) /\ d = Append(c, Request(n))
  BY <1>1, QuietFacts
<1> HIDE DEF c, d
<1>3. /\ DOMAIN d = 1..(Len(c) + 1) /\ Len(c) \in Nat /\ DOMAIN c = 1..Len(c)
      /\ d[Len(c) + 1] = Request(n) /\ \A i \in 1..Len(c) : d[i] = c[i]
  BY <1>1, <1>2
<1>4. ASSUME NEW i \in DOMAIN d, Asks(d[i]) PROVE i = Len(c) + 1
  BY <1>2, <1>3, <1>4 DEF Quiet
<1>5. QED
  BY <1>1, <1>3, <1>4 DEF AsksOnce, AsksFor, d

(* What is left when the first message has been read.                      *)
LEMMA TailAsks ==
  ASSUME NEW a \in Seq(ServerMessages), a # <<>>
  PROVE  /\ Quiet(a) => Quiet(Tail(a)) /\ ~ Asks(Head(a))
         /\ AsksOnce(a) => AsksOnce(Tail(a)) /\ (Asks(Head(a)) => Quiet(Tail(a)))
         /\ \A n : AsksFor(a, n) => AsksFor(Tail(a), n) /\ (Asks(Head(a)) => Head(a).n = n)
<1>1. /\ Len(a) \in Nat /\ Len(a) > 0 /\ DOMAIN a = 1..Len(a) /\ Head(a) = a[1]
      /\ DOMAIN Tail(a) = 1..(Len(a) - 1) /\ \A i \in 1..(Len(a) - 1) : Tail(a)[i] = a[i + 1]
  OBVIOUS
<1>2. 1 \in DOMAIN a /\ \A i \in DOMAIN Tail(a) : i + 1 \in DOMAIN a /\ i + 1 # 1
  BY <1>1
<1>3. QED
  BY <1>1, <1>2 DEF Quiet, AsksOnce, AsksFor

LEMMA NothingAsks == Quiet(<<>>) /\ AsksOnce(<<>>) /\ \A n : AsksFor(<<>>, n)
  BY DEF Quiet, AsksOnce, AsksFor

LEMMA NoticesAreQuiet ==
  /\ \A k \in {"Connected", "Settings", "MissionInit", "BootPlayer"} : Quiet(<<Notice(k)>>)
  /\ \A k \in {"Added", "Removed"} : \A S : Quiet(<<Roster(k, S)>>)
  BY DEF Quiet, Asks, Notice, Roster

LEMMA TurnStart ==
  ASSUME Init
  PROVE  TurnInv
  BY NothingAsks DEF Init, TurnInv, TakesTurns, InStep, StartsAnew, OutboxesQuiet,
     OnlyBadClientsFail, Replies

SentQuietly ==
  \A c \in Clients : \E b \in Seq(ServerMessages) :
    Quiet(b) /\ s2c'[c] \in {s2c[c], s2c[c] \o b}

(* Steps of the server that send only what asks nothing, and move no slot  *)
(* to another round.                                                       *)
LEMMA TurnKept ==
  ASSUME IInv, TurnInv,
         \A c \in Clients : c2s'[c] \subseteq c2s[c],
         SentQuietly,
         \A s \in Slots : phase'[s] = "CHECKSUMMING" =>
           phase[s] = "CHECKSUMMING" /\ round'[s] = round[s] /\ addr'[s] = addr[s],
         \A s \in Slots, c \in Clients : Occupies(s, c)' => Occupies(s, c),
         OutboxesQuiet', OnlyBadClientsFail'
  PROVE  TurnInv'
<1>1. \A c \in Clients : s2c[c] \in Seq(ServerMessages)
  BY DEF IInv, TypeOK
<1>2. \A c \in Clients : Replies(c2s'[c]) \subseteq Replies(c2s[c])
  BY DEF Replies
<1>3. \A c \in Clients : /\ Quiet(s2c[c]) => Quiet(s2c'[c])
                         /\ AsksOnce(s2c[c]) => AsksOnce(s2c'[c])
                         /\ \A n : AsksFor(s2c[c], n) => AsksFor(s2c'[c], n)
  BY <1>1, QuietFacts DEF SentQuietly
<1>4. TakesTurns'
  BY <1>2, <1>3 DEF TurnInv, TakesTurns
<1>5. InStep'
  <2>1. SUFFICES ASSUME NEW s \in Slots, phase'[s] = "CHECKSUMMING"
                 PROVE  /\ AsksFor(s2c'[addr'[s]], round'[s])
                        /\ \A m \in Replies(c2s'[addr'[s]]) : m.n = round'[s]
    BY DEF InStep
  <2>2. /\ phase[s] = "CHECKSUMMING" /\ round'[s] = round[s] /\ addr'[s] = addr[s]
        /\ addr[s] \in Clients
    BY <2>1 DEF IInv, HandshakeProgress
  <2>3. AsksFor(s2c[addr[s]], round[s]) /\ \A m \in Replies(c2s[addr[s]]) : m.n = round[s]
    BY <2>2 DEF TurnInv, InStep
  <2>4. QED
    BY <1>2, <1>3, <2>2, <2>3
<1>6. StartsAnew'
  <2>1. \A c \in Clients : Known(c)' => Known(c)
    BY DEF Known
  <2>2. QED
    BY <1>2, <1>3, <2>1 DEF TurnInv, StartsAnew
<1>7. QED
  BY <1>4, <1>5, <1>6 DEF TurnInv

LEMMA SendsQuietly ==
  ASSUME IInv, NEW c \in Clients, NEW b \in Seq(ServerMessages), Quiet(b), s2c' = ToClient(c, b)
  PROVE  SentQuietly
<1>1. s2c \in [Clients -> Seq(ServerMessages)]
  BY DEF IInv, TypeOK
<1>2. \A d \in Clients : s2c'[d] \in {s2c[d], s2c[d] \o b}
  BY <1>1 DEF ToClient
<1>3. QED
  BY <1>2 DEF SentQuietly

LEMMA SendsNothing ==
  ASSUME s2c' = s2c
  PROVE  SentQuietly
<1>1. <<>> \in Seq(ServerMessages) /\ Quiet(<<>>)
  BY NothingAsks
<1>2. QED
  BY <1>1 DEF SentQuietly

(* What waits for a slot, with a notice after it.                          *)
LEMMA OutboxAndNotice ==
  ASSUME IInv, OutboxesQuiet, NEW s \in Slots, NEW b \in Seq(ServerMessages), Quiet(b)
  PROVE  outbox[s] \o b \in Seq(ServerMessages) /\ Quiet(outbox[s] \o b)
<1>1. outbox[s] \in Seq(ServerMessages) /\ Quiet(outbox[s])
  BY DEF IInv, TypeOK, OutboxesQuiet
<1>2. QED
  BY <1>1, QuietFacts

LEMMA RelaysQuietly ==
  ASSUME IInv, OutboxesQuiet, NEW s \in Slots, NEW k \in {"Added", "Removed"}
  PROVE  \A t \in Slots : /\ Quiet(Relayed(s, Roster(k, {s}))[t])
                          /\ Quiet([Relayed(s, Roster(k, {s})) EXCEPT ![s] = <<>>][t])
                          /\ Quiet([outbox EXCEPT ![s] = <<>>][t])
<1> DEFINE m == Roster(k, {s})
<1>1. m \in ServerMessages /\ Quiet(<<m>>) /\ <<m>> \in Seq(ServerMessages)
  BY MessageTypes, NoticesAreQuiet
<1>2. \A t \in Slots : outbox[t] \in Seq(ServerMessages) /\ Quiet(outbox[t])
  BY DEF IInv, TypeOK, OutboxesQuiet
<1>3. outbox \in [Slots -> Seq(ServerMessages)]
  BY DEF IInv, TypeOK
<1> HIDE DEF m
<1>4. \A t \in Slots : Append(outbox[t], m) = outbox[t] \o <<m>>
  BY <1>1, <1>2
<1>5. \A t \in Slots : Quiet(Append(outbox[t], m))
  BY <1>1, <1>2, <1>4, QuietFacts
<1>6. \A t \in Slots : Quiet(Relayed(s, m)[t])
  BY <1>2, <1>5 DEF Relayed
<1>7. DOMAIN Relayed(s, m) = Slots
  BY DEF Relayed
<1>8. QED
  BY <1>2, <1>3, <1>6, <1>7, NothingAsks DEF m

LEMMA ReceivedOnce ==
  ASSUME IInv, OnceEach, NEW c \in Clients, NEW m, Received(c, m)
  PROVE  /\ c2s' = [c2s EXCEPT ![c] = @ \ {m}] /\ m \in c2s[c]
         /\ c2s'[c] = c2s[c] \ {m} /\ \A d \in Clients : c2s'[d] \subseteq c2s[d]
<1>1. duplicates \in 0..0 /\ c2s \in [Clients -> SUBSET ClientMessages]
  BY DEF IInv, TypeOK, OnceEach
<1>2. ~ (duplicates < MaxDuplicates)
  BY <1>1 DEF OnceEach
<1>3. QED
  BY <1>1, <1>2 DEF Received

(* A slot that is cleared, on whichever path.                              *)
LEMMA TurnDisconnect ==
  ASSUME IInv, TurnInv, NEW s \in Slots, Disconnect(s), SentQuietly,
         \A c \in Clients : c2s'[c] \subseteq c2s[c], OnlyBadClientsFail'
  PROVE  TurnInv'
<1>1. OutboxesQuiet'
  <2>1. \A t \in Slots : Quiet(outbox'[t])
    <3>1. CASE InLobby(s)
      BY <3>1, RelaysQuietly DEF Disconnect, TurnInv
    <3>2. CASE ~ InLobby(s)
      BY <3>2, RelaysQuietly DEF Disconnect, TurnInv
    <3>3. QED
      BY <3>1, <3>2
  <2>2. QED
    BY <2>1 DEF OutboxesQuiet
<1>2. \A t \in Slots : phase'[t] = "CHECKSUMMING" =>
        phase[t] = "CHECKSUMMING" /\ round'[t] = round[t] /\ addr'[t] = addr[t]
  BY DEF Disconnect, IInv, TypeOK
<1>3. \A t \in Slots, c \in Clients : Occupies(t, c)' => Occupies(t, c)
  BY DEF Disconnect, IInv, TypeOK, Occupies
<1>4. QED
  BY <1>1, <1>2, <1>3, TurnKept

LEMMA TurnTimeout ==
  ASSUME IInv, TurnInv, NEW s \in Slots, Timeout(s)
  PROVE  TurnInv'
<1>1. Disconnect(s) /\ c2s' = c2s /\ s2c' = s2c /\ failed' = failed
  BY DEF Timeout
<1>2. OnlyBadClientsFail'
  BY <1>1 DEF TurnInv, OnlyBadClientsFail
<1>3. QED
  BY <1>1, <1>2, SendsNothing, TurnDisconnect

LEMMA TurnQuit ==
  ASSUME IInv, TurnInv, OnceEach, NEW c \in Clients, NEW s \in Slots, HandleQuit(c, s)
  PROVE  TurnInv'
<1>1. /\ Disconnect(s) /\ failed' = failed /\ Received(c, Notice("Quit"))
      /\ s2c' = ToClient(addr[s], outbox[s] \o <<>>) /\ addr[s] = c
  BY DEF HandleQuit, SendAtOnce, IsPeer, Occupies
<1>2. <<>> \in Seq(ServerMessages)
  OBVIOUS
<1>3. SentQuietly
  BY <1>1, <1>2, OutboxAndNotice, NothingAsks, SendsQuietly DEF TurnInv
<1>4. OnlyBadClientsFail'
  BY <1>1 DEF TurnInv, OnlyBadClientsFail
<1>5. QED
  BY <1>1, <1>3, <1>4, ReceivedOnce, TurnDisconnect

(* Steps of the server that clear no slot and start no round.              *)
LEMMA TurnSlotsKept ==
  ASSUME IInv, TurnInv, SentQuietly, OutboxesQuiet',
         \A c \in Clients : c2s'[c] \subseteq c2s[c],
         UNCHANGED <<addr, round, failed>>,
         \A s \in Slots : phase'[s] = "CHECKSUMMING" => phase[s] = "CHECKSUMMING",
         \A s \in Slots : phase'[s] # "EMPTY" => phase[s] # "EMPTY"
  PROVE  TurnInv'
<1>1. OnlyBadClientsFail'
  BY DEF TurnInv, OnlyBadClientsFail
<1>2. \A s \in Slots, c \in Clients : Occupies(s, c)' => Occupies(s, c)
  BY DEF Occupies
<1>3. QED
  BY <1>1, <1>2, TurnKept

LEMMA OneOutboxEmptied ==
  ASSUME IInv, OutboxesQuiet, NEW s \in Slots, outbox' = [outbox EXCEPT ![s] = <<>>]
  PROVE  OutboxesQuiet'
<1>1. \A t \in Slots : Quiet(outbox'[t])
  BY RelaysQuietly
<1>2. QED
  BY <1>1 DEF OutboxesQuiet

LEMMA TurnDuplicateConnect ==
  ASSUME IInv, TurnInv, OnceEach, NEW c \in Clients, NEW s \in Slots, DuplicateConnect(c, s)
  PROVE  TurnInv'
<1>1. /\ Received(c, Notice("Connect")) /\ UNCHANGED <<phase, addr, round, failed>>
      /\ s2c' = ToClient(c, outbox[s] \o <<Notice("Connected")>>)
      /\ outbox' = [outbox EXCEPT ![s] = <<>>]
  BY DEF DuplicateConnect
<1>2. Quiet(<<Notice("Connected")>>) /\ <<Notice("Connected")>> \in Seq(ServerMessages)
  BY MessageTypes, NoticesAreQuiet
<1>3. SentQuietly
  BY <1>1, <1>2, OutboxAndNotice, SendsQuietly DEF TurnInv
<1>4. OutboxesQuiet'
  BY <1>1, OneOutboxEmptied DEF TurnInv
<1>5. QED
  BY <1>1, <1>3, <1>4, ReceivedOnce, TurnSlotsKept

LEMMA TurnNewPlayer ==
  ASSUME IInv, TurnInv, OnceEach, NEW c \in Clients, NEW s \in Slots, NewPlayerInGame(c, s)
  PROVE  TurnInv'
<1> DEFINE b == <<Notice("MissionInit"), Roster("Added", InGame \cup {s})>>
<1>1. /\ Received(c, Notice("NewPlayerInGame")) /\ UNCHANGED <<addr, round, failed>>
      /\ s2c' = ToClient(addr[s], outbox[s] \o b) /\ addr[s] = c
      /\ outbox' = [Relayed(s, Roster("Added", {s})) EXCEPT ![s] = <<>>]
      /\ phase' = [phase EXCEPT ![s] = "IN_GAME"] /\ phase[s] # "EMPTY"
  BY DEF NewPlayerInGame, SendAtOnce, IsPeer, Occupies
<1>2. b \in Seq(ServerMessages) /\ Quiet(b)
  <2>1. InGame \cup {s} \in SUBSET Slots
    BY DEF InGame
  <2>2. b \in Seq(ServerMessages)
    BY <2>1, MessageTypes
  <2>3. QED
    BY <2>2 DEF Quiet, Asks, Notice, Roster
<1> HIDE DEF b
<1>3. SentQuietly
  BY <1>1, <1>2, OutboxAndNotice, SendsQuietly DEF TurnInv
<1>4. OutboxesQuiet'
  <2>1. \A t \in Slots : Quiet(outbox'[t])
    BY <1>1, RelaysQuietly DEF TurnInv
  <2>2. QED
    BY <2>1 DEF OutboxesQuiet
<1>5. /\ \A t \in Slots : phase'[t] = "CHECKSUMMING" => phase[t] = "CHECKSUMMING"
      /\ \A t \in Slots : phase'[t] # "EMPTY" => phase[t] # "EMPTY"
  BY <1>1 DEF IInv, TypeOK
<1>6. QED
  BY <1>1, <1>3, <1>4, <1>5, ReceivedOnce, TurnSlotsKept

LEMMA TurnFlushTick ==
  ASSUME IInv, TurnInv, FlushTick
  PROVE  TurnInv'
<1>1. SentQuietly
  <2>1. SUFFICES ASSUME NEW c \in Clients
                 PROVE  \E b \in Seq(ServerMessages) : Quiet(b) /\ s2c'[c] \in {s2c[c], s2c[c] \o b}
    BY DEF SentQuietly
  <2>2. CASE ~ Known(c)
    <3>1. s2c'[c] = s2c[c] /\ <<>> \in Seq(ServerMessages)
      BY <2>2 DEF FlushTick
    <3>2. QED
      BY <3>1, NothingAsks
  <2>3. CASE Known(c)
    <3> DEFINE peer == CHOOSE s \in Slots : Occupies(s, c)
    <3>1. peer \in Slots
      BY <2>3 DEF Known
    <3>2. s2c'[c] \in {s2c[c], s2c[c] \o outbox[peer]}
      BY DEF FlushTick
    <3>3. outbox[peer] \in Seq(ServerMessages) /\ Quiet(outbox[peer])
      BY <3>1 DEF IInv, TypeOK, TurnInv, OutboxesQuiet
    <3> HIDE DEF peer
    <3>4. QED
      BY <3>2, <3>3
  <2>4. QED
    BY <2>2, <2>3
<1>2. OutboxesQuiet'
  BY NothingAsks DEF FlushTick, OutboxesQuiet
<1>3. UNCHANGED <<phase, addr, round, failed, c2s>>
  BY DEF FlushTick
<1>4. QED
  BY <1>1, <1>2, <1>3, TurnSlotsKept

LEMMA TurnIdle ==
  ASSUME IInv, TurnInv, UNCHANGED <<phase, addr, round, outbox, failed, s2c>>,
         \A c \in Clients : c2s'[c] \subseteq c2s[c]
  PROVE  TurnInv'
<1>1. OutboxesQuiet'
  BY DEF TurnInv, OutboxesQuiet
<1>2. QED
  BY <1>1, SendsNothing, TurnSlotsKept

LEMMA TurnIgnored ==
  ASSUME IInv, TurnInv, OnceEach, NEW c \in Clients, NEW m \in ClientMessages, Ignored(c, m)
  PROVE  TurnInv'
<1>1. Received(c, m) /\ UNCHANGED <<phase, addr, round, outbox, failed, s2c>>
  BY DEF Ignored, serverVars
<1>2. QED
  BY <1>1, ReceivedOnce, TurnIdle

LEMMA Pairs ==
  ASSUME NEW S, NEW x \in S, NEW y \in S
  PROVE  <<x>> \o <<y>> = <<x, y>>
<1> DEFINE a == <<x>> \o <<y>>
           b == <<x, y>>
<1>1. <<x>> \in Seq(S) /\ <<y>> \in Seq(S) /\ b \in Seq(S)
  OBVIOUS
<1>2. a \in Seq(S) /\ Len(a) = 2 /\ Len(b) = 2
  BY <1>1
<1>3. a[1] = x /\ a[2] = y /\ b[1] = x /\ b[2] = y
  BY <1>1
<1> HIDE DEF a, b
<1>4. \A i \in 1..2 : a[i] = b[i]
  BY <1>3
<1>5. QED
  BY <1>1, <1>2, <1>4, SeqEqual DEF a, b

(* A new peer is asked for the first round, and nothing else.              *)
LEMMA TurnConnect ==
  ASSUME IInv, TurnInv, OnceEach, NEW c \in Clients, HandleConnect(c)
  PROVE  TurnInv'
<1>1. /\ Received(c, Notice("Connect")) /\ ~ Known(c)
      /\ UNCHANGED <<round, outbox, failed>>
  BY DEF HandleConnect
<1>2. /\ c2s'[c] = c2s[c] \ {Notice("Connect")} /\ Notice("Connect") \in c2s[c]
      /\ \A d \in Clients : c2s'[d] \subseteq c2s[d]
      /\ \A d \in Clients : d # c => c2s'[d] = c2s[d]
  BY <1>1, ReceivedOnce DEF IInv, TypeOK
<1>3. CASE UNCHANGED <<phase, addr>> /\ s2c' = ToClient(c, <<Notice("BootPlayer")>>)
  <2>1. Quiet(<<Notice("BootPlayer")>>) /\ <<Notice("BootPlayer")>> \in Seq(ServerMessages)
    BY MessageTypes, NoticesAreQuiet
  <2>2. SentQuietly
    BY <1>3, <2>1, SendsQuietly
  <2>3. OutboxesQuiet'
    BY <1>1 DEF TurnInv, OutboxesQuiet
  <2>4. QED
    BY <1>1, <1>2, <1>3, <2>2, <2>3, TurnSlotsKept
<1>4. CASE \E s \in Slots : /\ phase[s] = "EMPTY"
                            /\ phase' = [phase EXCEPT ![s] = "CHECKSUMMING"]
                            /\ addr' = [addr EXCEPT ![s] = c]
                            /\ s2c' = ToClient(c, <<Notice("Connected"), Request(0)>>)
  <2>1. PICK s \in Slots : /\ phase[s] = "EMPTY"
                           /\ phase' = [phase EXCEPT ![s] = "CHECKSUMMING"]
                           /\ addr' = [addr EXCEPT ![s] = c]
                           /\ s2c' = ToClient(c, <<Notice("Connected"), Request(0)>>)
    BY <1>4
  <2>2. Quiet(s2c[c]) /\ Replies(c2s[c]) = {} /\ round[s] = 0
    BY <1>2, <2>1 DEF TurnInv, StartsAnew, IInv, HandshakeProgress
  <2>3. Replies(c2s'[c]) = {} /\ \A d \in Clients : Replies(c2s'[d]) \subseteq Replies(c2s[d])
    BY <1>2, <2>2 DEF Replies
  <2>4. /\ s2c \in [Clients -> Seq(ServerMessages)] /\ addr \in [Slots -> Clients \cup {NoClient}]
        /\ phase \in [Slots -> Phases]
    BY DEF IInv, TypeOK
  <2>5. AsksOnce(s2c'[c]) /\ AsksFor(s2c'[c], 0)
    <3>1. /\ <<Notice("Connected")>> \in Seq(ServerMessages) /\ Quiet(<<Notice("Connected")>>)
          /\ 0 \in 0..Rounds
      BY MessageTypes, NoticesAreQuiet, PeerAssumption
    <3>2. <<Notice("Connected")>> \o <<Request(0)>> = <<Notice("Connected"), Request(0)>>
      <4>1. Notice("Connected") \in ServerMessages /\ Request(0) \in ServerMessages
        BY <3>1, MessageTypes
      <4>2. QED
        BY <4>1, Pairs
    <3>3. \/ s2c'[c] = s2c[c]
          \/ s2c'[c] = s2c[c] \o <<Notice("Connected"), Request(0)>>
      BY <2>1, <2>4 DEF ToClient
    <3>4. AsksOnce(s2c[c]) /\ AsksFor(s2c[c], 0)
      BY <2>2 DEF Quiet, AsksOnce, AsksFor
    <3>5. s2c[c] \in Seq(ServerMessages)
      BY <2>4
    <3>6. /\ AsksOnce(s2c[c] \o (<<Notice("Connected")>> \o <<Request(0)>>))
          /\ AsksFor(s2c[c] \o (<<Notice("Connected")>> \o <<Request(0)>>), 0)
      BY <2>2, <3>1, <3>5, AskedLast
    <3>7. QED
      BY <3>2, <3>3, <3>4, <3>6
  <2>6. \A d \in Clients : d # c => s2c'[d] = s2c[d]
    BY <2>1, <2>4 DEF ToClient
  <2>7. TakesTurns'
    BY <2>3, <2>5, <2>6 DEF TurnInv, TakesTurns
  <2>8. InStep'
    <3>1. ASSUME NEW t \in Slots, phase'[t] = "CHECKSUMMING"
          PROVE  /\ AsksFor(s2c'[addr'[t]], round'[t])
                 /\ \A m \in Replies(c2s'[addr'[t]]) : m.n = round'[t]
      <4>1. CASE t = s
        <5>1. addr'[t] = c /\ round'[t] = 0
          BY <1>1, <2>1, <2>2, <2>4, <4>1
        <5>2. QED
          BY <2>3, <2>5, <5>1
      <4>2. CASE t # s
        <5>1. phase[t] = "CHECKSUMMING" /\ addr'[t] = addr[t] /\ round'[t] = round[t]
          BY <1>1, <2>1, <2>4, <3>1, <4>2
        <5>2. addr[t] \in Clients /\ addr[t] # c
          BY <1>1, <5>1 DEF IInv, HandshakeProgress, Known, Occupies
        <5>3. AsksFor(s2c[addr[t]], round[t]) /\ \A m \in Replies(c2s[addr[t]]) : m.n = round[t]
          BY <5>1 DEF TurnInv, InStep
        <5>4. QED
          BY <2>3, <2>6, <5>1, <5>2, <5>3
      <4>3. QED
        BY <4>1, <4>2
    <3>2. QED
      BY <3>1 DEF InStep
  <2>9. StartsAnew'
    <3>1. ASSUME NEW d \in Clients, Notice("Connect") \in c2s'[d]
          PROVE  ~ Known(d)' /\ Quiet(s2c'[d]) /\ Replies(c2s'[d]) = {}
      <4>1. d # c /\ Notice("Connect") \in c2s[d]
        BY <1>2, <3>1
      <4>2. ~ Known(d) /\ Quiet(s2c[d]) /\ Replies(c2s[d]) = {}
        BY <4>1 DEF TurnInv, StartsAnew
      <4>3. ~ Known(d)'
        BY <2>1, <2>4, <4>1, <4>2 DEF Known, Occupies
      <4>4. QED
        BY <2>3, <2>6, <4>1, <4>2, <4>3
    <3>2. QED
      BY <3>1 DEF StartsAnew
  <2>10. QED
    BY <1>1, <2>7, <2>8, <2>9 DEF TurnInv, OutboxesQuiet, OnlyBadClientsFail
<1>5. QED
  BY <1>3, <1>4 DEF HandleConnect

(* A response that is taken for the round it answers: the next question    *)
(* follows it, and nothing else is under way.                              *)
LEMMA TurnNextRound ==
  ASSUME IInv, TurnInv, OnceEach, NEW c \in Clients, NEW s \in Slots, NEW n \in 0..Rounds,
         Occupies(s, c), Received(c, Response(n)), phase[s] = "CHECKSUMMING", NextRound(s, n)
  PROVE  TurnInv'
<1>1. /\ Response(n) \in c2s[c] /\ c2s'[c] = c2s[c] \ {Response(n)}
      /\ \A d \in Clients : c2s'[d] \subseteq c2s[d]
  BY ReceivedOnce
<1>2. /\ round' = [round EXCEPT ![s] = round[s] + 1] /\ UNCHANGED <<addr, failed>>
      /\ s2c' = ToClient(c, outbox[s] \o <<Request(round[s] + 1)>>)
      /\ outbox' = [outbox EXCEPT ![s] = <<>>]
      /\ phase' = IF round[s] + 1 < Rounds THEN phase
                  ELSE [phase EXCEPT ![s] = "CHECKSUMMING_FINAL"]
      /\ addr[s] = c
  BY DEF NextRound, SendAtOnce, Occupies
<1>3. /\ s2c \in [Clients -> Seq(ServerMessages)] /\ outbox \in [Slots -> Seq(ServerMessages)]
      /\ phase \in [Slots -> Phases] /\ round \in [Slots -> 0..Rounds]
      /\ round[s] + 1 \in 0..Rounds
  BY PeerAssumption DEF IInv, TypeOK, HandshakeProgress
<1>4. Response(n) \in Replies(c2s[c])
  BY <1>1 DEF Replies, Response
<1>5. Quiet(s2c[c]) /\ Replies(c2s'[c]) = {}
  BY <1>1, <1>4 DEF TurnInv, TakesTurns, Replies
<1>6. \A d \in Clients : Replies(c2s'[d]) \subseteq Replies(c2s[d])
  BY <1>1 DEF Replies
<1>7. AsksOnce(s2c'[c]) /\ AsksFor(s2c'[c], round'[s])
  <2>1. outbox[s] \in Seq(ServerMessages) /\ Quiet(outbox[s]) /\ s2c[c] \in Seq(ServerMessages)
    BY <1>3 DEF TurnInv, OutboxesQuiet
  <2>2. /\ AsksOnce(s2c[c] \o (outbox[s] \o <<Request(round[s] + 1)>>))
        /\ AsksFor(s2c[c] \o (outbox[s] \o <<Request(round[s] + 1)>>), round[s] + 1)
    BY <1>3, <1>5, <2>1, AskedLast
  <2>3. \/ s2c'[c] = s2c[c]
        \/ s2c'[c] = s2c[c] \o (outbox[s] \o <<Request(round[s] + 1)>>)
    BY <1>2, <1>3 DEF ToClient
  <2>4. AsksOnce(s2c[c]) /\ AsksFor(s2c[c], round[s] + 1)
    BY <1>5 DEF Quiet, AsksOnce, AsksFor
  <2>5. round'[s] = round[s] + 1
    BY <1>2, <1>3
  <2>6. QED
    BY <2>2, <2>3, <2>4, <2>5
<1>8. \A d \in Clients : d # c => s2c'[d] = s2c[d]
  BY <1>2, <1>3 DEF ToClient
<1>9. TakesTurns'
  BY <1>5, <1>6, <1>7, <1>8 DEF TurnInv, TakesTurns
<1>10. InStep'
  <2>1. ASSUME NEW t \in Slots, phase'[t] = "CHECKSUMMING"
        PROVE  /\ AsksFor(s2c'[addr'[t]], round'[t])
               /\ \A m \in Replies(c2s'[addr'[t]]) : m.n = round'[t]
    <3>1. CASE t = s
      BY <1>2, <1>5, <1>7, <3>1
    <3>2. CASE t # s
      <4>1. phase[t] = "CHECKSUMMING" /\ addr'[t] = addr[t] /\ round'[t] = round[t]
        BY <1>2, <1>3, <2>1, <3>2
      <4>2. addr[t] \in Clients /\ addr[t] # c
        BY <1>2, <3>2, <4>1 DEF IInv, HandshakeProgress, OneSlotPerAddress
      <4>3. AsksFor(s2c[addr[t]], round[t]) /\ \A m \in Replies(c2s[addr[t]]) : m.n = round[t]
        BY <4>1 DEF TurnInv, InStep
      <4>4. QED
        BY <1>6, <1>8, <4>1, <4>2, <4>3
    <3>3. QED
      BY <3>1, <3>2
  <2>2. QED
    BY <2>1 DEF InStep
<1>11. StartsAnew'
  <2>1. ASSUME NEW d \in Clients, Notice("Connect") \in c2s'[d]
        PROVE  ~ Known(d)' /\ Quiet(s2c'[d]) /\ Replies(c2s'[d]) = {}
    <3>1. ~ Known(d) /\ Quiet(s2c[d]) /\ Replies(c2s[d]) = {}
      BY <1>1, <2>1 DEF TurnInv, StartsAnew
    <3>2. d # c
      BY <3>1 DEF Known
    <3>3. ~ Known(d)'
      BY <1>2, <1>3, <3>1 DEF Known, Occupies
    <3>4. QED
      BY <1>6, <1>8, <3>1, <3>2, <3>3
  <2>2. QED
    BY <2>1 DEF StartsAnew
<1>12. OutboxesQuiet'
  BY <1>2, OneOutboxEmptied DEF TurnInv
<1>13. QED
  BY <1>2, <1>9, <1>10, <1>11, <1>12 DEF TurnInv, OnlyBadClientsFail

LEMMA TurnEnterLobby ==
  ASSUME IInv, TurnInv, OnceEach, NEW c \in Clients, NEW s \in Slots, NEW n \in 0..Rounds,
         Occupies(s, c), Received(c, Response(n)), EnterLobby(s, n)
  PROVE  TurnInv'
<1>1. /\ UNCHANGED <<addr, round, failed>> /\ phase' = [phase EXCEPT ![s] = "LOBBY"]
      /\ s2c' = ToClient(c, outbox[s] \o <<Notice("Settings")>>)
      /\ outbox' = [outbox EXCEPT ![s] = <<>>] /\ phase[s] # "EMPTY"
  BY DEF EnterLobby, SendAtOnce, Occupies
<1>2. Quiet(<<Notice("Settings")>>) /\ <<Notice("Settings")>> \in Seq(ServerMessages)
  BY MessageTypes, NoticesAreQuiet
<1>3. SentQuietly
  BY <1>1, <1>2, OutboxAndNotice, SendsQuietly DEF TurnInv
<1>4. OutboxesQuiet'
  BY <1>1, OneOutboxEmptied DEF TurnInv
<1>5. /\ \A t \in Slots : phase'[t] = "CHECKSUMMING" => phase[t] = "CHECKSUMMING"
      /\ \A t \in Slots : phase'[t] # "EMPTY" => phase[t] # "EMPTY"
  BY <1>1 DEF IInv, TypeOK
<1>6. QED
  BY <1>1, <1>3, <1>4, <1>5, ReceivedOnce, TurnSlotsKept

(* A response that fails is one for this round, so its files are not good. *)
LEMMA TurnFails ==
  ASSUME IInv, TurnInv, OnceEach, NEW c \in Clients, NEW s \in Slots, NEW n \in 0..Rounds,
         Occupies(s, c), Received(c, Response(n)), FailChecksum(s),
         \/ phase[s] = "CHECKSUMMING" /\ ~ Validates(c, n, round[s])
         \/ Answer[c][n] = "malformed"
  PROVE  TurnInv'
<1>1. Disconnect(s) /\ failed' = failed \cup {c} /\ s2c' = s2c /\ addr[s] = c
  BY DEF FailChecksum, Occupies
<1>2. Response(n) \in Replies(c2s[c]) /\ Response(n).n = n
  BY ReceivedOnce DEF Replies, Response
<1>3. Answer[c][n] # "good"
  <2>1. CASE phase[s] = "CHECKSUMMING" /\ ~ Validates(c, n, round[s])
    BY <1>1, <1>2, <2>1 DEF TurnInv, InStep, Validates
  <2>2. CASE Answer[c][n] = "malformed"
    BY <2>2
  <2>3. QED
    BY <2>1, <2>2
<1>4. OnlyBadClientsFail'
  BY <1>1, <1>3 DEF TurnInv, OnlyBadClientsFail
<1>5. QED
  BY <1>1, <1>4, ReceivedOnce, SendsNothing, TurnDisconnect

LEMMA TurnResponse ==
  ASSUME IInv, TurnInv, OnceEach, NEW c \in Clients, NEW s \in Slots, NEW n \in 0..Rounds,
         ChecksumResponse(c, s, n)
  PROVE  TurnInv'
<1>1. Occupies(s, c) /\ Received(c, Response(n))
  BY DEF ChecksumResponse, IsPeer
<1>2. CASE phase[s] = "CHECKSUMMING" /\ NextRound(s, n)
  BY <1>1, <1>2, TurnNextRound
<1>3. CASE /\ FailChecksum(s)
           /\ \/ phase[s] = "CHECKSUMMING" /\ ~ Validates(c, n, round[s])
              \/ Answer[c][n] = "malformed"
  BY <1>1, <1>3, TurnFails
<1>4. CASE EnterLobby(s, n)
  BY <1>1, <1>4, TurnEnterLobby
<1>5. QED
  BY <1>2, <1>3, <1>4 DEF ChecksumResponse

(* Steps of a client move no slot.                                         *)
LEMMA TurnClients ==
  ASSUME IInv, TurnInv, UNCHANGED serverVars, TakesTurns', StartsAnew',
         \A d \in Clients : Known(d) =>
           /\ \A n : AsksFor(s2c[d], n) /\ (\A m \in Replies(c2s[d]) : m.n = n)
                => AsksFor(s2c'[d], n) /\ (\A m \in Replies(c2s'[d]) : m.n = n)
  PROVE  TurnInv'
<1>1. UNCHANGED <<phase, addr, round, outbox, failed>>
  BY DEF serverVars
<1>2. InStep'
  <2>1. ASSUME NEW s \in Slots, phase'[s] = "CHECKSUMMING"
        PROVE  /\ AsksFor(s2c'[addr'[s]], round'[s])
               /\ \A m \in Replies(c2s'[addr'[s]]) : m.n = round'[s]
    <3>1. phase[s] = "CHECKSUMMING" /\ addr[s] \in Clients /\ addr'[s] = addr[s]
          /\ round'[s] = round[s]
      BY <1>1, <2>1 DEF IInv, HandshakeProgress
    <3>2. Known(addr[s])
      BY <3>1 DEF Known, Occupies
    <3>3. AsksFor(s2c[addr[s]], round[s]) /\ \A m \in Replies(c2s[addr[s]]) : m.n = round[s]
      BY <3>1 DEF TurnInv, InStep
    <3>4. QED
      BY <3>1, <3>2, <3>3
  <2>2. QED
    BY <2>1 DEF InStep
<1>3. QED
  BY <1>1, <1>2 DEF TurnInv, OutboxesQuiet, OnlyBadClientsFail

LEMMA TurnClientConnect ==
  ASSUME IInv, TurnInv, OnceEach, NEW c \in Clients, ClientConnect(c)
  PROVE  TurnInv'
<1>1. /\ ~ Known(c) /\ c2s[c] = {} /\ UNCHANGED serverVars
      /\ c2s' = [c2s EXCEPT ![c] = {} \cup {Notice("Connect")}]
      /\ s2c' = [s2c EXCEPT ![c] = <<>>]
  BY DEF ClientConnect, OnceEach
<1>2. /\ c2s \in [Clients -> SUBSET ClientMessages] /\ s2c \in [Clients -> Seq(ServerMessages)]
  BY DEF IInv, TypeOK
<1>3. /\ c2s'[c] = {Notice("Connect")} /\ s2c'[c] = <<>>
      /\ \A d \in Clients : d # c => c2s'[d] = c2s[d] /\ s2c'[d] = s2c[d]
  BY <1>1, <1>2
<1>4. Replies(c2s'[c]) = {}
  BY <1>3 DEF Replies, Notice
<1>5. TakesTurns'
  BY <1>3, <1>4, NothingAsks DEF TurnInv, TakesTurns
<1>6. StartsAnew'
  <2>1. \A d \in Clients : Known(d)' = Known(d)
    BY <1>1 DEF Known, Occupies, serverVars
  <2>2. QED
    BY <1>1, <1>3, <1>4, <2>1, NothingAsks DEF TurnInv, StartsAnew
<1>7. QED
  BY <1>1, <1>3, <1>5, <1>6, TurnClients

LEMMA TurnLeave ==
  ASSUME IInv, TurnInv, OnceEach, NEW c \in Clients, ClientQuit(c) \/ ClientCrash(c)
  PROVE  TurnInv'
<1>1. PICK farewell \in {{}, {Notice("Quit")}} : ClientLeave(c, farewell)
  BY DEF ClientQuit, ClientCrash
<1>2. /\ c2s' = [c2s EXCEPT ![c] = c2s[c] \cup farewell] /\ UNCHANGED serverVars
      /\ s2c' = [s2c EXCEPT ![c] = <<>>]
  BY <1>1 DEF ClientLeave, OnceEach
<1>3. /\ c2s \in [Clients -> SUBSET ClientMessages] /\ s2c \in [Clients -> Seq(ServerMessages)]
  BY DEF IInv, TypeOK
<1>4. /\ c2s'[c] = c2s[c] \cup farewell /\ s2c'[c] = <<>>
      /\ \A d \in Clients : d # c => c2s'[d] = c2s[d] /\ s2c'[d] = s2c[d]
  BY <1>2, <1>3
<1>5. Replies(c2s'[c]) = Replies(c2s[c]) /\ Notice("Connect") \notin farewell
  BY <1>4 DEF Replies, Notice
<1>6. TakesTurns'
  BY <1>4, <1>5, NothingAsks DEF TurnInv, TakesTurns
<1>7. StartsAnew'
  <2>1. \A d \in Clients : Known(d)' = Known(d)
    BY <1>2 DEF Known, Occupies, serverVars
  <2>2. QED
    BY <1>4, <1>5, <2>1, NothingAsks DEF TurnInv, StartsAnew
<1>8. QED
  BY <1>2, <1>4, <1>5, <1>6, <1>7, NothingAsks, TurnClients

(* A question is answered when it is read, and is then no longer there.    *)
LEMMA TurnReceive ==
  ASSUME IInv, TurnInv, OnceEach, NEW c \in Clients, ClientReceive(c)
  PROVE  TurnInv'
<1> DEFINE m == Head(s2c[c])
           replies == CASE m.kind = "ChecksumReq" -> {Response(m.n)}
                        [] m.kind = "Settings" -> {Notice("NewPlayerInGame")}
                        [] OTHER -> {}
           rest == IF m.kind = "BootPlayer" THEN <<>> ELSE Tail(s2c[c])
<1>1. /\ s2c \in [Clients -> Seq(ServerMessages)] /\ s2c[c] # <<>>
      /\ c2s \in [Clients -> SUBSET ClientMessages] /\ UNCHANGED serverVars
  BY DEF IInv, TypeOK, ClientReceive
<1>2. /\ c2s' = [c2s EXCEPT ![c] = c2s[c] \cup replies]
      /\ s2c' = [s2c EXCEPT ![c] = rest]
  BY <1>1 DEF ClientReceive
<1>3. /\ Quiet(s2c[c]) => Quiet(rest) /\ ~ Asks(m)
      /\ AsksOnce(s2c[c]) => AsksOnce(rest) /\ (Asks(m) => Quiet(rest))
      /\ \A n : AsksFor(s2c[c], n) => AsksFor(rest, n) /\ (Asks(m) => m.n = n)
  BY <1>1, TailAsks, NothingAsks
<1>4. /\ Asks(m) => Replies(replies) = {Response(m.n)}
      /\ ~ Asks(m) => Replies(replies) = {}
      /\ Notice("Connect") \notin replies /\ Response(m.n).n = m.n
  BY DEF Asks, Replies, Response, Notice
<1> HIDE DEF m, replies, rest
<1>5. /\ c2s'[c] = c2s[c] \cup replies /\ s2c'[c] = rest
      /\ \A d \in Clients : d # c => c2s'[d] = c2s[d] /\ s2c'[d] = s2c[d]
  BY <1>1, <1>2
<1>6. Replies(c2s'[c]) = Replies(c2s[c]) \cup Replies(replies)
  BY <1>5 DEF Replies
<1>7. TakesTurns'
  <2>1. /\ AsksOnce(s2c[c]) /\ \A p, q \in Replies(c2s[c]) : p = q
        /\ Quiet(s2c[c]) \/ Replies(c2s[c]) = {}
    BY DEF TurnInv, TakesTurns
  <2>2. /\ AsksOnce(s2c'[c]) /\ \A p, q \in Replies(c2s'[c]) : p = q
        /\ Quiet(s2c'[c]) \/ Replies(c2s'[c]) = {}
    BY <1>3, <1>4, <1>5, <1>6, <2>1
  <2>3. QED
    BY <1>5, <2>2 DEF TurnInv, TakesTurns
<1>8. StartsAnew'
  <2>1. \A d \in Clients : Known(d)' = Known(d)
    BY <1>1 DEF Known, Occupies, serverVars
  <2>2. QED
    BY <1>3, <1>4, <1>5, <1>6, <2>1 DEF TurnInv, StartsAnew
<1>9. QED
  BY <1>1, <1>3, <1>4, <1>5, <1>6, <1>7, <1>8, TurnClients

LEMMA TurnStep ==
  ASSUME IInv, TurnInv, OnceEach, [Next]_vars
  PROVE  TurnInv'
<1>1. CASE \E c \in Clients : ServerReceive(c)
  BY <1>1, TurnConnect, TurnDuplicateConnect, TurnResponse, TurnNewPlayer, TurnQuit, TurnIgnored
  DEF ServerReceive
<1>2. CASE \E s \in Slots : Timeout(s)
  BY <1>2, TurnTimeout
<1>3. CASE FlushTick
  BY <1>3, TurnFlushTick
<1>4. CASE CooldownEnds \/ EndGame \/ RestartGame \/ UNCHANGED vars
  BY <1>4, TurnIdle DEF CooldownEnds, EndGame, RestartGame, vars, serverVars, clientVars
<1>5. CASE \E c \in Clients : ClientConnect(c)
  BY <1>5, TurnClientConnect
<1>6. CASE \E c \in Clients : ClientReceive(c)
  BY <1>6, TurnReceive
<1>7. CASE \E c \in Clients : ClientQuit(c) \/ ClientCrash(c)
  BY <1>7, TurnLeave
<1>8. QED
  BY <1>1, <1>2, <1>3, <1>4, <1>5, <1>6, <1>7 DEF Next

(* If the network repeats nothing and no one is back at its old address,   *)
(* a response is always to the round the server is in, and a client is     *)
(* dropped for its own files only.  Either of the two can make the server  *)
(* take a response for another round's.                                    *)
THEOREM GoodFilesAreAccepted ==
  ASSUME OnceEach
  PROVE  Spec => []OnlyBadClientsFail
<1>1. Init => TurnInv
  BY TurnStart
<1>2. IInv /\ TurnInv /\ [Next]_vars => TurnInv'
  BY TurnStep
<1>3. TurnInv => OnlyBadClientsFail
  BY DEF TurnInv
<1>4. QED
  BY <1>1, <1>2, <1>3, InvariantHolds, PTL DEF Spec

----------------------------------------------------------------------------
(* The player lists.  What a client makes of the messages that are on      *)
(* their way to it is a run through its states: it waits for MissionInit,  *)
(* plays with a list of slots, or is gone.                                 *)

Waiting == [at |-> "waiting", view |-> {}]
Gone == [at |-> "gone", view |-> {}]
Playing(slots) == [at |-> "playing", view |-> slots]
States == [at : {"waiting", "playing", "gone"}, view : SUBSET Slots]

(* ClientReceive, of its player list and its mode.                         *)
Heard(st, m) ==
  IF st.at = "gone" THEN st
  ELSE CASE m.kind = "BootPlayer" -> Gone
         [] m.kind = "Settings" -> Waiting
         [] m.kind = "MissionInit" -> Playing({})
         [] st.at = "playing" /\ m.kind = "Added" -> Playing(st.view \cup m.slots)
         [] st.at = "playing" /\ m.kind = "Removed" -> Playing(st.view \ m.slots)
         [] OTHER -> st

HearsRun(start, seq, v) ==
  /\ v \in [0..Len(seq) -> States] /\ v[0] = start
  /\ \A i \in 1..Len(seq) : v[i] = Heard(v[i - 1], seq[i])

Lists(st, who) == st.at = "playing" => st.view = who

(* In the end it has the list who, if it plays.                            *)
Hears(start, seq, who) ==
  \E v : HearsRun(start, seq, v) /\ Lists(v[Len(seq)], who)

LEMMA StateTypes ==
  /\ Waiting \in States /\ Gone \in States
  /\ \A S \in SUBSET Slots : Playing(S) \in States
  BY DEF States, Waiting, Gone, Playing

LEMMA PlayingStates ==
  ASSUME NEW st \in States, st.at = "playing"
  PROVE  st = Playing(st.view)
  BY DEF States, Playing

LEMMA HeardKinds ==
  ASSUME NEW st, NEW m
  PROVE  /\ st.at = "gone" => Heard(st, m) = st
         /\ st.at # "gone" =>
              /\ m.kind = "BootPlayer" => Heard(st, m) = Gone
              /\ m.kind = "Settings" => Heard(st, m) = Waiting
              /\ m.kind = "MissionInit" => Heard(st, m) = Playing({})
              /\ m.kind \in {"Connected", "ChecksumReq"} => Heard(st, m) = st
         /\ st.at = "waiting" /\ m.kind \in {"Added", "Removed"} => Heard(st, m) = st
         /\ st.at = "playing" =>
              /\ m.kind = "Added" => Heard(st, m) = Playing(st.view \cup m.slots)
              /\ m.kind = "Removed" => Heard(st, m) = Playing(st.view \ m.slots)
<1>1. CASE st.at = "gone"
  BY <1>1 DEF Heard
<1>2. CASE st.at # "gone"
  BY <1>2 DEF Heard
<1>3. QED
  BY <1>1, <1>2

LEMMA HeardWaiting ==
  ASSUME NEW m
  PROVE  /\ m.kind = "BootPlayer" => Heard(Waiting, m) = Gone
         /\ m.kind = "Settings" => Heard(Waiting, m) = Waiting
         /\ m.kind = "MissionInit" => Heard(Waiting, m) = Playing({})
         /\ m.kind \in {"Connected", "ChecksumReq", "Added", "Removed"} =>
              Heard(Waiting, m) = Waiting
  BY DEF Heard, Waiting

LEMMA HeardPlaying ==
  ASSUME NEW S, NEW m
  PROVE  /\ m.kind = "BootPlayer" => Heard(Playing(S), m) = Gone
         /\ m.kind = "Settings" => Heard(Playing(S), m) = Waiting
         /\ m.kind = "MissionInit" => Heard(Playing(S), m) = Playing({})
         /\ m.kind \in {"Connected", "ChecksumReq"} => Heard(Playing(S), m) = Playing(S)
         /\ m.kind = "Added" => Heard(Playing(S), m) = Playing(S \cup m.slots)
         /\ m.kind = "Removed" => Heard(Playing(S), m) = Playing(S \ m.slots)
  BY DEF Heard, Playing

LEMMA ServerMessageKinds ==
  ASSUME NEW m \in ServerMessages
  PROVE  /\ m.kind \in {"Connected", "Settings", "MissionInit", "BootPlayer", "ChecksumReq",
                        "Added", "Removed"}
         /\ m.kind \in {"Added", "Removed"} => m.slots \in SUBSET Slots
  BY DEF ServerMessages

LEMMA HeardTypes ==
  ASSUME NEW st \in States, NEW m \in ServerMessages
  PROVE  Heard(st, m) \in States
<1>1. st.at \in {"waiting", "playing", "gone"} /\ st.view \in SUBSET Slots
  BY DEF States
<1>2. m.kind \in {"Added", "Removed"} =>
        st.view \cup m.slots \in SUBSET Slots /\ st.view \ m.slots \in SUBSET Slots
  BY <1>1, ServerMessageKinds
<1>3. QED
  BY <1>1, <1>2, ServerMessageKinds, HeardKinds, StateTypes

LEMMA SomeRun ==
  ASSUME NEW start \in States, NEW seq \in Seq(ServerMessages)
  PROVE  \E v : HearsRun(start, seq, v)
<1> DEFINE n == Len(seq)
           step == [a \in (1..n) \X States |-> Heard(a[2], seq[a[1]])]
<1>1. n \in Nat /\ \A i \in 1..n : seq[i] \in ServerMessages
  OBVIOUS
<1>2. step \in [(1..n) \X States -> States]
  BY <1>1, HeardTypes
<1>3. \A i \in 1..n, st \in States : step[<<i, st>>] = Heard(st, seq[i])
  OBVIOUS
<1> HIDE DEF step
<1>4. PICK h \in [SUBSET (1..n) -> States], v \in [0..n -> States] :
        FoldRun(n, States, start, step, h, v)
  BY <1>1, <1>2, FoldRuns
<1>5. v[0] = start /\ \A i \in 1..n : v[i] = step[<<i, v[i - 1]>>]
  BY <1>4 DEF FoldRun, Runs
<1>6. \A i \in 1..n : v[i - 1] \in States
  BY <1>1
<1>7. QED
  BY <1>3, <1>4, <1>5, <1>6 DEF HearsRun

(* One message more.                                                       *)
Longer(seq, m, v) ==
  [i \in 0..(Len(seq) + 1) |-> IF i <= Len(seq) THEN v[i] ELSE Heard(v[Len(seq)], m)]

LEMMA RunOneMore ==
  ASSUME NEW start \in States, NEW seq \in Seq(ServerMessages), NEW m \in ServerMessages,
         NEW v, HearsRun(start, seq, v)
  PROVE  /\ HearsRun(start, Append(seq, m), Longer(seq, m, v))
         /\ Longer(seq, m, v)[Len(Append(seq, m))] = Heard(v[Len(seq)], m)
<1> DEFINE n == Len(seq)
           w == Longer(seq, m, v)
<1>1. /\ n \in Nat /\ Len(Append(seq, m)) = n + 1
      /\ \A i \in 1..n : Append(seq, m)[i] = seq[i]
      /\ Append(seq, m)[n + 1] = m
  OBVIOUS
<1>2. v \in [0..n -> States] /\ v[0] = start /\ \A i \in 1..n : v[i] = Heard(v[i - 1], seq[i])
  BY DEF HearsRun
<1>3. v[n] \in States /\ Heard(v[n], m) \in States
  BY <1>1, <1>2, HeardTypes
<1>4. w = [i \in 0..(n + 1) |-> IF i <= n THEN v[i] ELSE Heard(v[n], m)]
  BY Zenon DEF Longer
<1> HIDE DEF n, w
<1>5. w \in [0..(n + 1) -> States] /\ w[0] = start /\ w[n + 1] = Heard(v[n], m)
  BY <1>1, <1>2, <1>3, <1>4
<1>6. ASSUME NEW i \in 1..(n + 1)
      PROVE  w[i] = Heard(w[i - 1], Append(seq, m)[i])
  <2>1. CASE i = n + 1
    <3>1. w[i - 1] = v[n]
      BY <1>1, <1>4, <2>1
    <3>2. QED
      BY <1>1, <1>5, <2>1, <3>1
  <2>2. CASE i # n + 1
    <3>1. i \in 1..n /\ w[i] = v[i] /\ w[i - 1] = v[i - 1]
      BY <1>1, <1>4, <2>2
    <3>2. QED
      BY <1>1, <1>2, <3>1
  <2>3. QED
    BY <2>1, <2>2
<1>7. QED
  BY <1>1, <1>5, <1>6 DEF HearsRun, n, w

(* What is told the others of a join or a leave changes all lists as it    *)
(* changes the game; what else is sent to a player changes none.           *)
LEMMA HearsMore ==
  ASSUME NEW start \in States, NEW seq \in Seq(ServerMessages), NEW m \in ServerMessages,
         NEW who, NEW then, Hears(start, seq, who),
         \/ m.kind \in {"Connected", "Settings", "ChecksumReq", "BootPlayer"} /\ then = who
         \/ m.kind = "Added" /\ then = who \cup m.slots
         \/ m.kind = "Removed" /\ then = who \ m.slots
  PROVE  Hears(start, Append(seq, m), then)
<1>1. PICK v : HearsRun(start, seq, v) /\ Lists(v[Len(seq)], who)
  BY DEF Hears
<1>2. v[Len(seq)] \in States
  <2>1. Len(seq) \in 0..Len(seq)
    OBVIOUS
  <2>2. QED
    BY <1>1, <2>1 DEF HearsRun
<1> DEFINE st == v[Len(seq)]
<1>3. st \in States /\ Lists(st, who)
  BY <1>1, <1>2
<1> HIDE DEF st
<1>4. Lists(Heard(st, m), then)
  <2>1. CASE st.at = "gone"
    BY <2>1, HeardKinds DEF Lists
  <2>2. CASE st.at = "waiting"
    <3>1. m.kind \in {"Connected", "ChecksumReq", "Added", "Removed"} => Heard(st, m) = st
      BY <2>2, HeardKinds
    <3>2. m.kind = "Settings" => Heard(st, m) = Waiting
      BY <2>2, HeardKinds
    <3>3. m.kind = "BootPlayer" => Heard(st, m) = Gone
      BY <2>2, HeardKinds
    <3>4. QED
      BY <2>2, <3>1, <3>2, <3>3 DEF Lists, Gone, Waiting
  <2>3. CASE st.at = "playing"
    <3>1. st = Playing(who)
      BY <1>3, <2>3, PlayingStates DEF Lists
    <3>2. /\ m.kind \in {"Connected", "ChecksumReq"} => Heard(st, m) = Playing(who)
          /\ m.kind = "Added" => Heard(st, m) = Playing(who \cup m.slots)
          /\ m.kind = "Removed" => Heard(st, m) = Playing(who \ m.slots)
          /\ m.kind = "Settings" => Heard(st, m) = Waiting
          /\ m.kind = "BootPlayer" => Heard(st, m) = Gone
      BY <3>1, HeardPlaying
    <3>3. \/ Heard(st, m) = Playing(then) \/ Heard(st, m) = Waiting \/ Heard(st, m) = Gone
      BY <3>2
    <3>4. QED
      BY <3>3 DEF Lists, Gone, Waiting, Playing
  <2>4. QED
    BY <1>3, <2>1, <2>2, <2>3 DEF States
<1>5. QED
  BY <1>1, <1>4, RunOneMore DEF Hears, st

(* A player that is let into the game is sent the whole list.              *)
LEMMA HearsAll ==
  ASSUME NEW start \in States, NEW seq \in Seq(ServerMessages), NEW who \in SUBSET Slots,
         NEW m \in ServerMessages, m.kind = "MissionInit",
         NEW a \in ServerMessages, a.kind = "Added", a.slots = who
  PROVE  Hears(start, Append(Append(seq, m), a), who)
<1>1. PICK v : HearsRun(start, seq, v)
  BY SomeRun
<1>2. HearsRun(start, Append(seq, m), Longer(seq, m, v))
  BY <1>1, RunOneMore
<1>3. v[Len(seq)] \in States
  <2>1. Len(seq) \in 0..Len(seq)
    OBVIOUS
  <2>2. QED
    BY <1>1, <2>1 DEF HearsRun
<1>4. Longer(seq, m, v)[Len(Append(seq, m))] = Heard(v[Len(seq)], m)
  BY <1>1, RunOneMore
<1>5. Lists(Heard(v[Len(seq)], m), {})
  <2> DEFINE st == v[Len(seq)]
  <2>1. st \in States
    BY <1>3
  <2> HIDE DEF st
  <2>2. st.at = "gone" \/ Heard(st, m) = Playing({})
    BY HeardKinds
  <2>3. Lists(Heard(st, m), {})
    BY <2>2, HeardKinds DEF Lists, Playing
  <2>4. QED
    BY <2>3 DEF st
<1>6. Hears(start, Append(seq, m), {})
  BY <1>2, <1>4, <1>5 DEF Hears
<1>7. Append(seq, m) \in Seq(ServerMessages) /\ who = {} \cup a.slots
  OBVIOUS
<1>8. QED
  BY <1>6, <1>7, HearsMore

(* One message is read.                                                    *)
LEMMA HearsRest ==
  ASSUME NEW start \in States, NEW seq \in Seq(ServerMessages), seq # <<>>,
         NEW who, Hears(start, seq, who)
  PROVE  Hears(Heard(start, Head(seq)), Tail(seq), who)
<1> DEFINE n == Len(seq)
<1>1. PICK v : HearsRun(start, seq, v) /\ Lists(v[n], who)
  BY DEF Hears
<1>2. /\ n \in Nat /\ n > 0 /\ Len(Tail(seq)) = n - 1 /\ Head(seq) = seq[1]
      /\ \A i \in 1..(n - 1) : Tail(seq)[i] = seq[i + 1]
  OBVIOUS
<1>3. v \in [0..n -> States] /\ v[0] = start /\ \A i \in 1..n : v[i] = Heard(v[i - 1], seq[i])
  BY <1>1 DEF HearsRun
<1> HIDE DEF n
<1> DEFINE w == [i \in 0..(n - 1) |-> v[i + 1]]
<1>4. w \in [0..(n - 1) -> States] /\ w[n - 1] = v[n] /\ w[0] = v[1]
  BY <1>2, <1>3
<1>5. v[1] = Heard(start, Head(seq))
  BY <1>2, <1>3
<1>6. ASSUME NEW i \in 1..(n - 1) PROVE w[i] = Heard(w[i - 1], Tail(seq)[i])
  <2>1. i + 1 \in 1..n /\ (i + 1) - 1 = i /\ w[i] = v[i + 1] /\ w[i - 1] = v[i]
    BY <1>2
  <2>2. v[i + 1] = Heard(v[(i + 1) - 1], seq[i + 1])
    BY <1>3, <2>1
  <2>3. QED
    BY <1>2, <2>1, <2>2
<1> HIDE DEF w
<1>7. HearsRun(Heard(start, Head(seq)), Tail(seq), w)
  BY <1>2, <1>4, <1>5, <1>6 DEF HearsRun
<1>8. QED
  BY <1>1, <1>2, <1>4, <1>7 DEF Hears

(* Who waits has no list until it plays.                                   *)
LEMMA HearsNothing ==
  ASSUME NEW seq \in Seq(ServerMessages), NEW who,
         \A i \in DOMAIN seq : seq[i].kind \in {"Added", "Removed"}
  PROVE  Hears(Waiting, seq, who)
<1> DEFINE w == [i \in 0..Len(seq) |-> Waiting]
<1>1. Len(seq) \in Nat /\ DOMAIN seq = 1..Len(seq)
  OBVIOUS
<1>2. \A i \in 1..Len(seq) : Heard(Waiting, seq[i]) = Waiting
  BY <1>1, HeardWaiting
<1>3. \A i \in 1..Len(seq) : w[i] = Waiting /\ w[i - 1] = Waiting
  BY <1>1
<1>4. w \in [0..Len(seq) -> States] /\ w[0] = Waiting /\ w[Len(seq)] = Waiting
  BY <1>1, StateTypes
<1> HIDE DEF w
<1>5. HearsRun(Waiting, seq, w)
  BY <1>2, <1>3, <1>4 DEF HearsRun
<1>6. Lists(Waiting, who)
  BY DEF Lists, Waiting
<1>7. QED
  BY <1>4, <1>5, <1>6 DEF Hears

(* A list that is begun later is the same, or not begun.                   *)
LEMMA HearsLater ==
  ASSUME NEW start \in States, start.at # "gone", NEW seq \in Seq(ServerMessages), NEW who,
         Hears(start, seq, who)
  PROVE  Hears(Waiting, seq, who)
<1> DEFINE n == Len(seq)
           Resets(i) == \E j \in 1..i : seq[j].kind \in {"MissionInit", "Settings"}
<1>1. PICK v : HearsRun(start, seq, v) /\ Lists(v[n], who)
  BY DEF Hears
<1>2. n \in Nat /\ \A i \in 1..n : seq[i] \in ServerMessages
  OBVIOUS
<1>3. v \in [0..n -> States] /\ v[0] = start /\ \A i \in 1..n : v[i] = Heard(v[i - 1], seq[i])
  BY <1>1 DEF HearsRun
<1> HIDE DEF n
<1> DEFINE w == [i \in 0..n |-> IF v[i].at = "gone" \/ Resets(i) THEN v[i] ELSE Waiting]
<1>4. w \in [0..n -> States] /\ w[0] = Waiting
  BY <1>2, <1>3, StateTypes
<1>5. ASSUME NEW i \in 1..n PROVE w[i] = Heard(w[i - 1], seq[i])
  <2>1. /\ i - 1 \in 0..n /\ i \in 0..n /\ v[i - 1] \in States /\ v[i] = Heard(v[i - 1], seq[i])
        /\ seq[i] \in ServerMessages
    BY <1>2, <1>3
  <2>2. /\ w[i] = IF v[i].at = "gone" \/ Resets(i) THEN v[i] ELSE Waiting
        /\ w[i - 1] = IF v[i - 1].at = "gone" \/ Resets(i - 1) THEN v[i - 1] ELSE Waiting
    BY <2>1
  <2>3. Resets(i) <=> Resets(i - 1) \/ seq[i].kind \in {"MissionInit", "Settings"}
    <3>1. 1..i = 1..(i - 1) \cup {i}
      BY <1>2
    <3>2. QED
      BY <3>1
  <2> HIDE DEF w, Resets
  <2>4. CASE v[i - 1].at = "gone"
    <3>1. v[i] = v[i - 1]
      BY <2>1, <2>4, HeardKinds
    <3>2. QED
      BY <2>1, <2>2, <2>4, <3>1
  <2>5. CASE v[i - 1].at # "gone" /\ Resets(i - 1)
    BY <2>1, <2>2, <2>3, <2>5
  <2>6. CASE v[i - 1].at # "gone" /\ ~ Resets(i - 1)
    <3>1. w[i - 1] = Waiting /\ Waiting.at = "waiting"
      BY <2>2, <2>6 DEF Waiting
    <3>2. CASE seq[i].kind \in {"MissionInit", "Settings"}
      <4> DEFINE m == seq[i]
                 st == v[i - 1]
      <4> HIDE DEF m, st
      <4>0. Heard(Waiting, m) = Heard(st, m)
        BY <2>6, <3>2, HeardKinds, HeardWaiting DEF m, st
      <4>1. Heard(Waiting, seq[i]) = Heard(v[i - 1], seq[i])
        BY <4>0 DEF m, st
      <4>2. QED
        BY <2>1, <2>2, <2>3, <3>1, <3>2, <4>1
    <3>3. CASE seq[i].kind = "BootPlayer"
      <4>1. Heard(Waiting, seq[i]) = Gone
        BY <3>3, HeardWaiting
      <4>0. Heard(v[i - 1], seq[i]) = Gone
        BY <2>6, <3>3, HeardKinds
      <4>2. QED
        BY <2>1, <2>2, <3>1, <4>0, <4>1 DEF Gone
    <3>4. CASE seq[i].kind \in {"Connected", "ChecksumReq", "Added", "Removed"}
      <4>1. Heard(Waiting, seq[i]) = Waiting
        BY <3>4, HeardWaiting
      <4>2. v[i].at # "gone"
        <5>1. CASE v[i - 1].at = "waiting"
          <6>1. Heard(v[i - 1], seq[i]) = v[i - 1]
            BY <3>4, <5>1, HeardKinds
          <6>2. QED
            BY <2>1, <5>1, <6>1
        <5>2. CASE v[i - 1].at = "playing"
          <6>1. v[i - 1] = Playing(v[i - 1].view)
            BY <2>1, <5>2, PlayingStates
          <6> DEFINE V == v[i - 1].view
                     m == seq[i]
          <6>4. Heard(Playing(V), m) \in {Playing(V), Playing(V \cup m.slots), Playing(V \ m.slots)}
            <7> HIDE DEF V
            <7>1. m.kind \in {"Connected", "ChecksumReq", "Added", "Removed"}
              BY <3>4
            <7> HIDE DEF m
            <7>2. QED
              BY <7>1, HeardPlaying
          <6>2. \E S : Heard(v[i - 1], seq[i]) = Playing(S)
            BY <6>1, <6>4
          <6>3. QED
            BY <2>1, <6>2 DEF Playing
        <5>3. QED
          BY <2>1, <2>6, <5>1, <5>2 DEF States
      <4>3. QED
        BY <2>2, <2>3, <2>6, <3>1, <3>4, <4>1, <4>2
    <3>5. QED
      BY <2>1, <3>2, <3>3, <3>4, ServerMessageKinds
  <2>7. QED
    BY <2>4, <2>5, <2>6
<1>6. Lists(w[n], who)
  <2>1. n \in 0..n
    BY <1>2
  <2>2. w[n] \in {v[n], Waiting}
    BY <2>1
  <2> HIDE DEF w
  <2>3. QED
    BY <1>1, <2>2 DEF Lists, Waiting
<1> HIDE DEF w
<1>7. QED
  BY <1>4, <1>5, <1>6 DEF Hears, HearsRun, n

(* The list a client has now, and all that is on its way to it.            *)
Start(c) == IF mode[c] = "playing" THEN Playing(view[c]) ELSE Waiting
Mail(s) == s2c[addr[s]] \o outbox[s]

SlotWillList(s) == phase[s] = "IN_GAME" => Hears(Start(addr[s]), Mail(s), InGame)
WillList == \A s \in Slots : SlotWillList(s)

OnlyRosters ==
  \A s \in Slots : \A i \in DOMAIN outbox[s] : outbox[s][i].kind \in {"Added", "Removed"}
OutHasNothing == ~ SamePort => \A c \in Clients : mode[c] = "out" => s2c[c] = <<>>

RosterInv == WillList /\ OnlyRosters /\ OutHasNothing

LEMMA RosterTypes ==
  ASSUME IInv, NEW s \in Slots, phase[s] = "IN_GAME"
  PROVE  /\ addr[s] \in Clients /\ Start(addr[s]) \in States /\ Start(addr[s]).at # "gone"
         /\ s2c[addr[s]] \in Seq(ServerMessages) /\ outbox[s] \in Seq(ServerMessages)
         /\ Mail(s) \in Seq(ServerMessages) /\ InGame \in SUBSET Slots
<1>1. addr[s] \in Clients
  BY DEF IInv, HandshakeProgress
<1>2. /\ s2c[addr[s]] \in Seq(ServerMessages) /\ outbox[s] \in Seq(ServerMessages)
      /\ view[addr[s]] \in SUBSET Slots
  BY <1>1 DEF IInv, TypeOK
<1>3. Start(addr[s]) \in States
  BY <1>2, StateTypes DEF Start
<1>4. Start(addr[s]).at # "gone"
  BY DEF Start, Playing, Waiting
<1>5. Mail(s) \in Seq(ServerMessages)
  BY <1>2, SequenceTypes DEF Mail
<1>6. QED
  BY <1>1, <1>2, <1>3, <1>4, <1>5 DEF InGame

ClientUnmoved(c) == mode'[c] = mode[c] /\ view'[c] = view[c]

(* Nothing happens to a player.                                            *)
LEMMA ListUnmoved ==
  ASSUME WillList, NEW s \in Slots, phase'[s] = "IN_GAME" => phase[s] = "IN_GAME",
         addr'[s] = addr[s], ClientUnmoved(addr[s]), Mail(s)' = Mail(s), InGame' = InGame
  PROVE  SlotWillList(s)'
<1>1. Start(addr[s])' = Start(addr[s])
  BY DEF Start, ClientUnmoved
<1>2. QED
  BY <1>1 DEF WillList, SlotWillList

(* A player is sent one message more.                                      *)
LEMMA ListMore ==
  ASSUME IInv, WillList, NEW s \in Slots, phase'[s] = "IN_GAME" => phase[s] = "IN_GAME",
         addr'[s] = addr[s], ClientUnmoved(addr[s]), NEW m \in ServerMessages,
         Mail(s)' = Append(Mail(s), m),
         \/ m.kind \in {"Connected", "Settings", "ChecksumReq", "BootPlayer"} /\ InGame' = InGame
         \/ m.kind = "Added" /\ InGame' = InGame \cup m.slots
         \/ m.kind = "Removed" /\ InGame' = InGame \ m.slots
  PROVE  SlotWillList(s)'
<1>1. SUFFICES ASSUME phase'[s] = "IN_GAME" PROVE Hears(Start(addr[s])', Mail(s)', InGame')
  BY DEF SlotWillList
<1>2. Start(addr[s])' = Start(addr[s])
  BY DEF Start, ClientUnmoved
<1>3. /\ Start(addr[s]) \in States /\ Mail(s) \in Seq(ServerMessages)
      /\ Hears(Start(addr[s]), Mail(s), InGame)
  BY <1>1, RosterTypes DEF WillList, SlotWillList
<1>4. Hears(Start(addr[s]), Append(Mail(s), m), InGame')
  BY <1>3, HearsMore
<1>5. QED
  BY <1>2, <1>4

(* A player that has left, and that nothing or only rosters wait for.      *)
LEMMA ListNone ==
  ASSUME NEW s \in Slots, mode'[addr'[s]] # "playing",
         Mail(s)' \in Seq(ServerMessages),
         \A i \in DOMAIN Mail(s)' : Mail(s)'[i].kind \in {"Added", "Removed"}
  PROVE  SlotWillList(s)'
<1>1. Start(addr[s])' = Waiting
  BY DEF Start
<1>2. Hears(Waiting, Mail(s)', InGame')
  BY HearsNothing
<1>3. QED
  BY <1>1, <1>2 DEF SlotWillList

LEMMA ListEmpty ==
  ASSUME NEW s \in Slots, mode'[addr'[s]] # "playing", Mail(s)' = <<>>
  PROVE  SlotWillList(s)'
<1>1. <<>> \in Seq(ServerMessages) /\ DOMAIN <<>> = {}
  OBVIOUS
<1>2. Mail(s)' \in Seq(ServerMessages) /\ DOMAIN Mail(s)' = {}
  BY Zenon, <1>1
<1>3. QED
  BY <1>2, ListNone

(* Of what is sent, the lists, the outboxes and the absent.                *)
LEMMA RosterBy ==
  ASSUME \A s \in Slots : SlotWillList(s)', OnlyRosters', OutHasNothing'
  PROVE  RosterInv'
  BY DEF RosterInv, WillList

LEMMA RosterStart ==
  ASSUME Init
  PROVE  RosterInv
  BY DEF Init, RosterInv, WillList, SlotWillList, OnlyRosters, OutHasNothing

LEMMA SentToOne ==
  ASSUME IInv, NEW c \in Clients, NEW b, s2c' = ToClient(c, b)
  PROVE  /\ \A d \in Clients : d # c => s2c'[d] = s2c[d]
         /\ mode[c] = "out" /\ ~ SamePort => s2c' = s2c
         /\ mode[c] # "out" \/ SamePort => s2c'[c] = s2c[c] \o b
<1>1. s2c \in [Clients -> Seq(ServerMessages)]
  BY DEF IInv, TypeOK
<1>2. QED
  BY <1>1 DEF ToClient

LEMMA SentToTheAbsent ==
  ASSUME IInv, OutHasNothing, NEW c \in Clients, NEW b, s2c' = ToClient(c, b), mode' = mode
  PROVE  OutHasNothing'
  BY SentToOne DEF OutHasNothing

LEMMA MailAndOne ==
  ASSUME NEW a \in Seq(ServerMessages), NEW b \in Seq(ServerMessages), NEW m \in ServerMessages
  PROVE  (a \o (b \o <<m>>)) \o <<>> = Append(a \o b, m) /\ a \o Append(b, m) = Append(a \o b, m)
  OBVIOUS

LEMMA MailAndTwo ==
  ASSUME NEW a \in Seq(ServerMessages), NEW b \in Seq(ServerMessages), NEW m \in ServerMessages,
         NEW r \in ServerMessages
  PROVE  (a \o (b \o <<m, r>>)) \o <<>> = Append(Append(a \o b, m), r)
<1>1. <<m>> \o <<r>> = <<m, r>> /\ <<m>> \in Seq(ServerMessages) /\ <<r>> \in Seq(ServerMessages)
  BY Pairs
<1>2. a \o (b \o (<<m>> \o <<r>>)) = Append(Append(a \o b, m), r)
  BY <1>1
<1>3. Append(Append(a \o b, m), r) \in Seq(ServerMessages)
  OBVIOUS
<1>4. a \o (b \o <<m, r>>) = Append(Append(a \o b, m), r)
  BY Zenon, <1>1, <1>2
<1>5. \A z \in Seq(ServerMessages) : z \o <<>> = z
  OBVIOUS
<1>6. QED
  BY Zenon, <1>3, <1>4, <1>5

LEMMA NoMail ==
  ASSUME NEW b \in Seq(ServerMessages)
  PROVE  <<>> \o <<>> = <<>> /\ <<>> \o b = b /\ b \o <<>> = b /\ <<>> \in Seq(ServerMessages)
  OBVIOUS

(* What becomes of what waits for a player and of b, sent together.        *)
LEMMA MailSent ==
  ASSUME IInv, RosterInv, NEW s \in Slots, phase[s] = "IN_GAME" \/ InLobby(s), NEW b,
         s2c' = ToClient(addr[s], outbox[s] \o b), outbox'[s] = <<>>, addr'[s] = addr[s]
  PROVE  \/ Mail(s)' = (s2c[addr[s]] \o (outbox[s] \o b)) \o <<>>
         \/ Mail(s)' = <<>> /\ mode[addr[s]] = "out"
<1>1. addr[s] \in Clients
  BY DEF IInv, HandshakeProgress, InLobby
<1>2. CASE mode[addr[s]] # "out" \/ SamePort
  <2>1. s2c'[addr[s]] = s2c[addr[s]] \o (outbox[s] \o b)
    BY <1>1, <1>2, SentToOne
  <2>2. QED
    BY Zenon, <2>1 DEF Mail
<1>3. CASE mode[addr[s]] = "out" /\ ~ SamePort
  <2>1. s2c'[addr[s]] = <<>>
    BY <1>1, <1>3, SentToOne DEF RosterInv, OutHasNothing
  <2>2. <<>> \o <<>> = <<>>
    OBVIOUS
  <2>3. QED
    BY Zenon, <1>3, <2>1, <2>2 DEF Mail
<1>4. QED
  BY <1>2, <1>3

(* Steps of the server that leave the game, the clients and the outboxes   *)
(* of the others as they are, and send to one client.                      *)
LEMMA RosterOthers ==
  ASSUME IInv, RosterInv, NEW c \in Clients, NEW b, s2c' = ToClient(c, b), UNCHANGED <<mode, view>>,
         InGame' = InGame, NEW t \in Slots, phase'[t] = "IN_GAME" => phase[t] = "IN_GAME",
         phase[t] = "IN_GAME" => addr[t] # c, addr'[t] = addr[t] \/ phase'[t] # "IN_GAME",
         outbox'[t] = outbox[t]
  PROVE  SlotWillList(t)'
<1>1. SUFFICES ASSUME phase'[t] = "IN_GAME" PROVE SlotWillList(t)'
  BY DEF SlotWillList
<1>2. addr[t] \in Clients /\ addr[t] # c /\ addr'[t] = addr[t]
  BY <1>1, RosterTypes
<1>3. s2c'[addr[t]] = s2c[addr[t]]
  BY <1>2, SentToOne
<1>4. Mail(t)' = Mail(t) /\ ClientUnmoved(addr[t])
  BY <1>2, <1>3 DEF Mail, ClientUnmoved
<1>5. QED
  BY <1>1, <1>2, <1>4, ListUnmoved DEF RosterInv

LEMMA OnlyRostersKept ==
  ASSUME OnlyRosters, IInv, NEW s \in Slots, outbox' = [outbox EXCEPT ![s] = <<>>]
  PROVE  OnlyRosters'
<1>1. outbox \in [Slots -> Seq(ServerMessages)]
  BY DEF IInv, TypeOK
<1>2. \A t \in Slots : t # s => outbox'[t] = outbox[t]
  BY <1>1
<1>3. outbox'[s] = <<>>
  BY <1>1
<1>4. QED
  BY <1>2, <1>3 DEF OnlyRosters

LEMMA RosterConnect ==
  ASSUME IInv, RosterInv, NEW c \in Clients, HandleConnect(c)
  PROVE  RosterInv'
<1>1. ~ Known(c) /\ UNCHANGED <<outbox, mode, view>>
  BY DEF HandleConnect, clientVars
<1>2. PICK b : s2c' = ToClient(c, b)
  BY DEF HandleConnect
<1>3. /\ \A t \in Slots : phase'[t] = "IN_GAME" <=> phase[t] = "IN_GAME"
      /\ \A t \in Slots : phase[t] = "IN_GAME" => addr'[t] = addr[t]
  BY DEF HandleConnect, IInv, TypeOK
<1>4. InGame' = InGame
  BY <1>3 DEF InGame
<1>5. \A t \in Slots : phase[t] = "IN_GAME" => addr[t] # c
  BY <1>1 DEF Known, Occupies
<1>6. \A t \in Slots : SlotWillList(t)'
  BY <1>1, <1>2, <1>3, <1>4, <1>5, RosterOthers
<1>7. OutHasNothing'
  BY <1>1, <1>2, SentToTheAbsent DEF RosterInv
<1>8. OnlyRosters'
  BY <1>1 DEF RosterInv, OnlyRosters
<1>9. QED
  BY <1>6, <1>7, <1>8, RosterBy

(* What a player has waiting for it is sent, and a word after it.          *)
LEMMA RosterDuplicateConnect ==
  ASSUME IInv, RosterInv, NEW c \in Clients, NEW s \in Slots, DuplicateConnect(c, s)
  PROVE  RosterInv'
<1> DEFINE m == Notice("Connected")
<1>1. /\ UNCHANGED <<phase, addr, mode, view>> /\ Occupies(s, c)
      /\ s2c' = ToClient(c, outbox[s] \o <<m>>)
      /\ outbox' = [outbox EXCEPT ![s] = <<>>]
  BY DEF DuplicateConnect, clientVars, IsPeer
<1>2. m \in ServerMessages /\ m.kind = "Connected"
  BY MessageTypes DEF Notice
<1> HIDE DEF m
<1>3. InGame' = InGame /\ outbox \in [Slots -> Seq(ServerMessages)]
  BY <1>1 DEF InGame, IInv, TypeOK
<1>4. ASSUME NEW t \in Slots PROVE SlotWillList(t)'
  <2>1. CASE t # s
    <3>1. phase[t] = "IN_GAME" => addr[t] # c
      BY <1>1, <2>1 DEF IInv, OneSlotPerAddress, Occupies
    <3>2. outbox'[t] = outbox[t]
      BY <1>1, <1>3, <2>1
    <3>3. QED
      BY <1>1, <1>3, <3>1, <3>2, RosterOthers
  <2>2. CASE t = s /\ phase[s] = "IN_GAME"
    <3>1. addr[s] = c /\ outbox'[s] = <<>> /\ addr'[s] = c
      BY <1>1, <1>3 DEF Occupies
    <3>2. s2c[c] \in Seq(ServerMessages) /\ outbox[s] \in Seq(ServerMessages)
      BY <2>2, <3>1, RosterTypes
    <3>3. \/ Mail(s)' = (s2c[c] \o (outbox[s] \o <<m>>)) \o <<>>
          \/ Mail(s)' = <<>> /\ mode[c] = "out"
      BY <1>1, <2>2, <3>1, MailSent
    <3>4. CASE Mail(s)' = (s2c[c] \o (outbox[s] \o <<m>>)) \o <<>>
      <4> DEFINE a == s2c[c]
                 o == outbox[s]
      <4>1. a \in Seq(ServerMessages) /\ o \in Seq(ServerMessages)
        BY <3>2
      <4> HIDE DEF a, o
      <4>2. (a \o (o \o <<m>>)) \o <<>> = Append(a \o o, m)
        BY <1>2, <4>1, MailAndOne
      <4>3. Mail(s)' = Append(Mail(s), m)
        BY Zenon, <3>1, <3>4, <4>2 DEF Mail, a, o
      <4>4. QED
        BY <1>1, <1>2, <1>3, <2>2, <3>1, <4>3, ListMore DEF ClientUnmoved, RosterInv
    <3>5. CASE Mail(s)' = <<>> /\ mode[c] = "out"
      BY <1>1, <2>2, <3>1, <3>5, ListEmpty
    <3>6. QED
      BY <3>3, <3>4, <3>5
  <2>3. CASE t = s /\ phase[s] # "IN_GAME"
    BY <1>1, <2>3 DEF SlotWillList
  <2>4. QED
    BY <2>1, <2>2, <2>3
<1>5. OutHasNothing'
  BY <1>1, SentToTheAbsent DEF RosterInv
<1>6. OnlyRosters'
  BY <1>1, OnlyRostersKept DEF RosterInv
<1>7. QED
  BY <1>4, <1>5, <1>6, RosterBy

(* The handshake goes on.                                                  *)
LEMMA RosterHandshake ==
  ASSUME IInv, RosterInv, NEW s \in Slots, phase[s] # "EMPTY", phase[s] # "IN_GAME", NEW b,
         s2c' = ToClient(addr[s], b), outbox' = [outbox EXCEPT ![s] = <<>>],
         NEW p \in Phases, p # "IN_GAME", phase' \in {phase, [phase EXCEPT ![s] = p]},
         UNCHANGED <<addr, mode, view>>
  PROVE  RosterInv'
<1>1. /\ phase \in [Slots -> Phases] /\ outbox \in [Slots -> Seq(ServerMessages)]
      /\ addr[s] \in Clients
  BY DEF IInv, TypeOK, HandshakeProgress
<1>2. \A t \in Slots : phase'[t] = "IN_GAME" <=> phase[t] = "IN_GAME"
  BY <1>1
<1>3. InGame' = InGame
  BY <1>2 DEF InGame
<1>4. ASSUME NEW t \in Slots PROVE SlotWillList(t)'
  <2>1. CASE t # s
    <3>1. phase[t] = "IN_GAME" => addr[t] # addr[s]
      BY <2>1 DEF IInv, OneSlotPerAddress
    <3>2. outbox'[t] = outbox[t]
      BY <1>1, <2>1
    <3>3. QED
      BY <1>1, <1>2, <1>3, <3>1, <3>2, RosterOthers
  <2>2. CASE t = s
    BY <1>2, <2>2 DEF SlotWillList
  <2>3. QED
    BY <2>1, <2>2
<1>5. QED
  BY <1>1, <1>4, OnlyRostersKept, SentToTheAbsent, RosterBy DEF RosterInv

LEMMA RostersRelayed ==
  ASSUME IInv, OnlyRosters, NEW s \in Slots, NEW k \in {"Added", "Removed"},
         outbox' = [(IF InLobby(s) THEN Relayed(s, Roster(k, {s})) ELSE outbox) EXCEPT ![s] = <<>>]
  PROVE  /\ outbox'[s] = <<>>
         /\ \A t \in Slots : t # s =>
              outbox'[t] = IF InLobby(s) /\ InLobby(t) THEN Append(outbox[t], Roster(k, {s}))
                           ELSE outbox[t]
         /\ OnlyRosters'
<1> DEFINE m == Roster(k, {s})
<1>1. outbox \in [Slots -> Seq(ServerMessages)] /\ DOMAIN Relayed(s, m) = Slots
  BY DEF IInv, TypeOK, Relayed
<1>2. m \in ServerMessages /\ m.kind \in {"Added", "Removed"}
  BY MessageTypes DEF Roster
<1> HIDE DEF m
<1>3. outbox'[s] = <<>>
  BY <1>1 DEF m
<1>4. \A t \in Slots : t # s =>
        outbox'[t] = IF InLobby(s) /\ InLobby(t) THEN Append(outbox[t], m) ELSE outbox[t]
  BY <1>1 DEF Relayed, m
<1>5. ASSUME NEW t \in Slots, NEW i \in DOMAIN outbox'[t]
      PROVE  outbox'[t][i].kind \in {"Added", "Removed"}
  <2>1. CASE t = s
    BY <1>3, <1>5, <2>1
  <2>2. CASE outbox'[t] = outbox[t]
    BY <1>5, <2>2 DEF OnlyRosters
  <2>3. CASE outbox'[t] = Append(outbox[t], m)
    <3> DEFINE o == outbox[t]
    <3>1. o \in Seq(ServerMessages)
      BY <1>1
    <3>2. \A j \in DOMAIN o : o[j].kind \in {"Added", "Removed"}
      BY DEF OnlyRosters
    <3> HIDE DEF o
    <3>3. \A j \in DOMAIN Append(o, m) :
            Append(o, m)[j] = m \/ (j \in DOMAIN o /\ Append(o, m)[j] = o[j])
      BY <1>2, <3>1
    <3>4. \A j \in DOMAIN Append(o, m) : Append(o, m)[j].kind \in {"Added", "Removed"}
      BY <1>2, <3>2, <3>3
    <3>5. QED
      BY <1>5, <2>3, <3>4 DEF o
  <2>4. QED
    BY <1>4, <2>1, <2>2, <2>3
<1>6. QED
  BY <1>3, <1>4, <1>5 DEF OnlyRosters, m

(* The others learn of a join or a leave.                                  *)
LEMMA RosterTold ==
  ASSUME IInv, RosterInv, NEW s \in Slots, InLobby(s), NEW k \in {"Added", "Removed"},
         NEW t \in Slots, t # s, s2c'[addr[t]] = s2c[addr[t]], UNCHANGED <<mode, view>>,
         phase'[t] = phase[t], addr'[t] = addr[t],
         outbox'[t] = IF InLobby(t) THEN Append(outbox[t], Roster(k, {s})) ELSE outbox[t],
         InGame' = IF k = "Added" THEN InGame \cup {s} ELSE InGame \ {s}
  PROVE  SlotWillList(t)'
<1>1. SUFFICES ASSUME phase[t] = "IN_GAME" PROVE SlotWillList(t)'
  BY DEF SlotWillList
<1> DEFINE m == Roster(k, {s})
           a == s2c[addr[t]]
           o == outbox[t]
<1>2. m \in ServerMessages /\ m.kind = k /\ m.slots = {s}
  BY MessageTypes DEF Roster
<1>3. a \in Seq(ServerMessages) /\ o \in Seq(ServerMessages)
  BY <1>1, RosterTypes
<1>4. outbox'[t] = Append(o, m)
  BY <1>1 DEF InLobby
<1> HIDE DEF m, a, o
<1>5. a \o Append(o, m) = Append(a \o o, m)
  BY <1>2, <1>3, MailAndOne
<1>6. Mail(t)' = Append(Mail(t), m)
  BY Zenon, <1>4, <1>5 DEF Mail, a, o
<1>7. /\ k = "Added" => InGame' = InGame \cup m.slots
      /\ k = "Removed" => InGame' = InGame \ m.slots
  BY <1>2
<1>8. QED
  BY <1>1, <1>2, <1>6, <1>7, ListMore DEF ClientUnmoved, RosterInv

(* A join: the player is sent the game that it joins.                      *)
LEMMA RosterNewPlayer ==
  ASSUME IInv, RosterInv, NEW c \in Clients, NEW s \in Slots, NewPlayerInGame(c, s)
  PROVE  RosterInv'
<1> DEFINE m == Notice("MissionInit")
           r == Roster("Added", InGame \cup {s})
<1>1. /\ UNCHANGED <<addr, mode, view>> /\ addr[s] = c /\ InLobby(s)
      /\ s2c' = ToClient(addr[s], outbox[s] \o <<m, r>>)
      /\ outbox' = [(IF InLobby(s) THEN Relayed(s, Roster("Added", {s})) ELSE outbox)
                      EXCEPT ![s] = <<>>]
      /\ phase' = [phase EXCEPT ![s] = "IN_GAME"]
  BY DEF NewPlayerInGame, clientVars, SendAtOnce, IsPeer, Occupies
<1>2. InGame \cup {s} \in SUBSET Slots
  BY DEF InGame
<1>3. /\ m \in ServerMessages /\ m.kind = "MissionInit"
      /\ r \in ServerMessages /\ r.kind = "Added" /\ r.slots = InGame \cup {s}
  BY <1>2, MessageTypes DEF Notice, Roster
<1> HIDE DEF m, r
<1>4. /\ phase \in [Slots -> Phases] /\ phase'[s] = "IN_GAME"
      /\ \A t \in Slots : t # s => phase'[t] = phase[t]
  BY <1>1 DEF IInv, TypeOK
<1>5. InGame' = InGame \cup {s}
  BY <1>4 DEF InGame
<1>6. /\ outbox'[s] = <<>> /\ OnlyRosters'
      /\ \A t \in Slots : t # s =>
           outbox'[t] = IF InLobby(t) THEN Append(outbox[t], Roster("Added", {s})) ELSE outbox[t]
  BY <1>1, RostersRelayed DEF RosterInv
<1>7. ASSUME NEW t \in Slots, t # s PROVE SlotWillList(t)'
  <2>1. CASE phase[t] = "IN_GAME"
    <3>1. addr[t] \in Clients /\ addr[t] # c
      BY <1>1, <1>7, <2>1 DEF IInv, HandshakeProgress, OneSlotPerAddress, InLobby
    <3>2. s2c'[addr[t]] = s2c[addr[t]]
      BY <1>1, <3>1, SentToOne
    <3>3. QED
      BY <1>1, <1>4, <1>5, <1>6, <1>7, <3>2, RosterTold
  <2>2. CASE phase[t] # "IN_GAME"
    BY <1>4, <1>7, <2>2 DEF SlotWillList
  <2>3. QED
    BY <2>1, <2>2
<1>8. SlotWillList(s)'
  <2> DEFINE a == s2c[c]
             o == outbox[s]
  <2>1. a \in Seq(ServerMessages) /\ o \in Seq(ServerMessages) /\ view[c] \in SUBSET Slots
    BY DEF IInv, TypeOK
  <2>2. Start(c) \in States
    BY <2>1, StateTypes DEF Start
  <2>3. \/ Mail(s)' = (s2c[c] \o (outbox[s] \o <<m, r>>)) \o <<>>
        \/ Mail(s)' = <<>> /\ mode[c] = "out"
    BY <1>1, <1>6, MailSent
  <2> HIDE DEF a, o
  <2>4. CASE Mail(s)' = (s2c[c] \o (outbox[s] \o <<m, r>>)) \o <<>>
    <3>1. /\ (a \o (o \o <<m, r>>)) \o <<>> = Append(Append(a \o o, m), r)
          /\ a \o o \in Seq(ServerMessages)
      BY <1>3, <2>1, MailAndTwo
    <3>2. Mail(s)' = Append(Append(a \o o, m), r)
      BY Zenon, <2>4, <3>1 DEF a, o
    <3>3. Hears(Start(c), Append(Append(a \o o, m), r), InGame \cup {s})
      BY <1>2, <1>3, <2>2, <3>1, HearsAll
    <3>4. Start(addr[s])' = Start(c)
      BY <1>1 DEF Start
    <3>5. QED
      BY Zenon, <1>5, <3>2, <3>3, <3>4 DEF SlotWillList
  <2>5. CASE Mail(s)' = <<>> /\ mode[c] = "out"
    BY <1>1, <2>5, ListEmpty
  <2>6. QED
    BY <2>3, <2>4, <2>5
<1>9. OutHasNothing'
  BY <1>1, SentToTheAbsent DEF RosterInv
<1>10. QED
  BY <1>6, <1>7, <1>8, <1>9, RosterBy

(* A leave, on whichever path.                                             *)
LEMMA RosterDisconnect ==
  ASSUME IInv, RosterInv, NEW s \in Slots, phase[s] # "EMPTY", Disconnect(s),
         \A c \in Clients : c # addr[s] => s2c'[c] = s2c[c],
         UNCHANGED <<mode, view>>, OutHasNothing'
  PROVE  RosterInv'
<1>1. /\ phase' = [phase EXCEPT ![s] = "EMPTY"] /\ addr' = [addr EXCEPT ![s] = NoClient]
      /\ outbox' = [(IF InLobby(s) THEN Relayed(s, Roster("Removed", {s})) ELSE outbox)
                      EXCEPT ![s] = <<>>]
  BY DEF Disconnect
<1>2. /\ OnlyRosters'
      /\ \A t \in Slots : t # s =>
           outbox'[t] = IF InLobby(s) /\ InLobby(t) THEN Append(outbox[t], Roster("Removed", {s}))
                        ELSE outbox[t]
  BY <1>1, RostersRelayed DEF RosterInv
<1>3. /\ phase'[s] = "EMPTY"
      /\ \A t \in Slots : t # s => phase'[t] = phase[t] /\ addr'[t] = addr[t]
  BY <1>1 DEF IInv, TypeOK
<1>4. InGame' = InGame \ {s}
  BY <1>3 DEF InGame
<1>5. ASSUME NEW t \in Slots, t # s, phase[t] = "IN_GAME" PROVE SlotWillList(t)'
  <2>1. addr[t] \in Clients /\ addr[t] # addr[s]
    BY <1>5 DEF IInv, HandshakeProgress, OneSlotPerAddress
  <2>2. s2c'[addr[t]] = s2c[addr[t]]
    BY <2>1
  <2>3. CASE InLobby(s)
    BY <1>2, <1>3, <1>4, <1>5, <2>2, <2>3, RosterTold
  <2>4. CASE ~ InLobby(s)
    <3>1. InGame' = InGame
      BY <1>4, <2>4 DEF InGame, InLobby
    <3>2. outbox'[t] = outbox[t] /\ addr'[t] = addr[t] /\ phase'[t] = phase[t]
      BY <1>2, <1>3, <1>5, <2>4
    <3>3. Mail(t)' = Mail(t) /\ ClientUnmoved(addr[t])
      BY <2>2, <3>2 DEF Mail, ClientUnmoved
    <3>4. QED
      BY <3>1, <3>2, <3>3, ListUnmoved DEF RosterInv
  <2>5. QED
    BY <2>3, <2>4
<1>6. \A t \in Slots : SlotWillList(t)'
  BY <1>3, <1>5 DEF SlotWillList
<1>7. QED
  BY <1>2, <1>6, RosterBy

LEMMA RosterDropped ==
  ASSUME IInv, RosterInv, NEW s \in Slots, phase[s] # "EMPTY", Disconnect(s),
         UNCHANGED <<mode, view, s2c>>
  PROVE  RosterInv'
<1>1. OutHasNothing'
  BY DEF RosterInv, OutHasNothing
<1>2. QED
  BY <1>1, RosterDisconnect

LEMMA RosterTimeout ==
  ASSUME IInv, RosterInv, NEW s \in Slots, Timeout(s)
  PROVE  RosterInv'
  BY RosterDropped DEF Timeout, clientVars

LEMMA RosterQuit ==
  ASSUME IInv, RosterInv, NEW c \in Clients, NEW s \in Slots, HandleQuit(c, s)
  PROVE  RosterInv'
<1>1. /\ phase[s] # "EMPTY" /\ addr[s] = c /\ Disconnect(s) /\ UNCHANGED <<mode, view>>
      /\ s2c' = ToClient(c, outbox[s] \o <<>>)
  BY DEF HandleQuit, IsPeer, Occupies, SendAtOnce, clientVars
<1>2. OutHasNothing' /\ \A d \in Clients : d # c => s2c'[d] = s2c[d]
  BY <1>1, SentToOne, SentToTheAbsent DEF RosterInv
<1>3. QED
  BY <1>1, <1>2, RosterDisconnect

LEMMA RosterResponse ==
  ASSUME IInv, RosterInv, NEW c \in Clients, NEW s \in Slots, NEW n \in 0..Rounds,
         ChecksumResponse(c, s, n)
  PROVE  RosterInv'
<1>1. phase[s] \in {"CHECKSUMMING", "CHECKSUMMING_FINAL"} /\ UNCHANGED clientVars
  BY DEF ChecksumResponse
<1>2. CASE FailChecksum(s)
  BY <1>1, <1>2, RosterDropped DEF FailChecksum, clientVars
<1>3. CASE NextRound(s, n)
  <2>1. phase' \in {phase, [phase EXCEPT ![s] = "CHECKSUMMING_FINAL"]}
    BY <1>3 DEF NextRound
  <2>2. /\ s2c' = ToClient(addr[s], outbox[s] \o <<Request(round[s] + 1)>>)
        /\ outbox' = [outbox EXCEPT ![s] = <<>>] /\ UNCHANGED <<addr, mode, view>>
    BY <1>1, <1>3 DEF NextRound, SendAtOnce, clientVars
  <2>3. QED
    BY <1>1, <2>1, <2>2, RosterHandshake DEF Phases
<1>4. CASE EnterLobby(s, n)
  <2>1. phase' \in {phase, [phase EXCEPT ![s] = "LOBBY"]}
    BY <1>4 DEF EnterLobby
  <2>2. /\ s2c' = ToClient(addr[s], outbox[s] \o <<Notice("Settings")>>)
        /\ outbox' = [outbox EXCEPT ![s] = <<>>] /\ UNCHANGED <<addr, mode, view>>
    BY <1>1, <1>4 DEF EnterLobby, SendAtOnce, clientVars
  <2>3. QED
    BY <1>1, <2>1, <2>2, RosterHandshake DEF Phases
<1>5. QED
  BY <1>2, <1>3, <1>4 DEF ChecksumResponse

LEMMA RosterIdle ==
  ASSUME RosterInv, UNCHANGED <<phase, addr, outbox, mode, view, s2c>>
  PROVE  RosterInv'
<1>1. InGame' = InGame
  BY DEF InGame
<1>2. \A t \in Slots : Mail(t)' = Mail(t) /\ ClientUnmoved(addr[t])
  BY DEF Mail, ClientUnmoved
<1>3. \A t \in Slots : SlotWillList(t)'
  BY <1>1, <1>2, ListUnmoved DEF RosterInv
<1>4. QED
  BY <1>3, RosterBy DEF RosterInv, OnlyRosters, OutHasNothing

(* A flush moves what waits; it is lost to who is gone for good.           *)
LEMMA RosterFlush ==
  ASSUME IInv, RosterInv, FlushTick
  PROVE  RosterInv'
<1>1. UNCHANGED <<phase, addr, mode, view>> /\ \A t \in Slots : outbox'[t] = <<>>
  BY DEF FlushTick, clientVars
<1>2. InGame' = InGame
  BY <1>1 DEF InGame
<1>3. ASSUME NEW t \in Slots, phase[t] = "IN_GAME" PROVE SlotWillList(t)'
  <2> DEFINE c == addr[t]
  <2>1. c \in Clients /\ s2c[c] \in Seq(ServerMessages) /\ outbox[t] \in Seq(ServerMessages)
    BY <1>3, RosterTypes
  <2>2. Occupies(t, c) /\ \A s \in Slots : Occupies(s, c) => s = t
    BY <1>3 DEF Occupies, IInv, OneSlotPerAddress
  <2> HIDE DEF c
  <2>3. Known(c) /\ (CHOOSE s \in Slots : Occupies(s, c)) = t
    BY <2>2 DEF Known
  <2>4. CASE mode[c] # "out" \/ SamePort
    <3>1. s2c'[c] = s2c[c] \o outbox[t]
      BY <2>1, <2>3, <2>4 DEF FlushTick
    <3> DEFINE a == s2c[c] \o outbox[t]
    <3>2. a \in Seq(ServerMessages)
      BY <2>1
    <3> HIDE DEF a
    <3>3. a \o <<>> = a
      BY <3>2
    <3>4. Mail(t)' = Mail(t)
      BY Zenon, <1>1, <3>1, <3>3 DEF Mail, a, c
    <3>5. QED
      BY <1>1, <1>2, <1>3, <3>4, ListUnmoved DEF ClientUnmoved, RosterInv
  <2>5. CASE mode[c] = "out" /\ ~ SamePort
    <3>1. s2c'[c] = <<>>
      BY <2>1, <2>5 DEF FlushTick, RosterInv, OutHasNothing
    <3>2. Mail(t)' = <<>>
      <4>1. <<>> \o <<>> = <<>>
        OBVIOUS
      <4>2. QED
        BY Zenon, <1>1, <3>1, <4>1 DEF Mail, c
    <3>3. QED
      BY <1>1, <2>5, <3>2, ListEmpty DEF c
  <2>6. QED
    BY <2>4, <2>5
<1>4. \A t \in Slots : SlotWillList(t)'
  BY <1>1, <1>3 DEF SlotWillList
<1>5. OutHasNothing'
  BY <1>1 DEF RosterInv, OutHasNothing, FlushTick
<1>6. OnlyRosters'
  BY <1>1 DEF OnlyRosters
<1>7. QED
  BY <1>4, <1>5, <1>6, RosterBy

(* Steps of one client: what it means for that client's own slot.          *)
LEMMA RosterClient ==
  ASSUME IInv, RosterInv, UNCHANGED serverVars, NEW c \in Clients,
         \A d \in Clients : d # c => s2c'[d] = s2c[d] /\ ClientUnmoved(d),
         \A t \in Slots : phase[t] = "IN_GAME" /\ addr[t] = c => SlotWillList(t)',
         mode'[c] = "out" /\ ~ SamePort => s2c'[c] = <<>>
  PROVE  RosterInv'
<1>1. UNCHANGED <<phase, addr, outbox>>
  BY DEF serverVars
<1>2. InGame' = InGame
  BY <1>1 DEF InGame
<1>3. ASSUME NEW t \in Slots, phase[t] = "IN_GAME", addr[t] # c PROVE SlotWillList(t)'
  <2>1. addr[t] \in Clients
    BY <1>3, RosterTypes
  <2>2. Mail(t)' = Mail(t) /\ ClientUnmoved(addr[t])
    BY <1>1, <1>3, <2>1 DEF Mail
  <2>3. QED
    BY <1>1, <1>2, <1>3, <2>2, ListUnmoved DEF RosterInv
<1>4. \A t \in Slots : SlotWillList(t)'
  BY <1>1, <1>3 DEF SlotWillList
<1>5. OutHasNothing'
  <2>1. \A d \in Clients : d # c => mode'[d] = mode[d] /\ s2c'[d] = s2c[d]
    BY DEF ClientUnmoved
  <2>2. QED
    BY <2>1 DEF RosterInv, OutHasNothing
<1>6. QED
  BY <1>1, <1>4, <1>5, RosterBy DEF RosterInv, OnlyRosters

(* Nothing but what waits in its slot is on its way to who has just left.  *)
LEMMA ListOutbox ==
  ASSUME IInv, OnlyRosters, NEW t \in Slots, mode'[addr'[t]] # "playing", s2c'[addr'[t]] = <<>>,
         outbox'[t] = outbox[t]
  PROVE  SlotWillList(t)'
<1> DEFINE o == outbox[t]
<1>1. o \in Seq(ServerMessages) /\ \A i \in DOMAIN o : o[i].kind \in {"Added", "Removed"}
  BY DEF IInv, TypeOK, OnlyRosters
<1> HIDE DEF o
<1>2. <<>> \o o = o
  BY <1>1
<1>3. Mail(t)' = o
  BY Zenon, <1>2 DEF Mail, o
<1>4. /\ Mail(t)' \in Seq(ServerMessages)
      /\ \A i \in DOMAIN Mail(t)' : Mail(t)'[i].kind \in {"Added", "Removed"}
  BY Zenon, <1>1, <1>3
<1>5. QED
  BY <1>4, ListNone

LEMMA RosterClientConnect ==
  ASSUME IInv, RosterInv, NEW c \in Clients, ClientConnect(c)
  PROVE  RosterInv'
<1>1. /\ UNCHANGED serverVars /\ mode[c] = "out"
      /\ mode' = [mode EXCEPT ![c] = "joining"] /\ view' = [view EXCEPT ![c] = {}]
      /\ s2c' = IF Known(c) THEN s2c ELSE [s2c EXCEPT ![c] = <<>>]
  BY DEF ClientConnect
<1>2. mode'[c] = "joining" /\ \A d \in Clients : d # c => s2c'[d] = s2c[d] /\ ClientUnmoved(d)
  BY <1>1 DEF IInv, TypeOK, ClientUnmoved
<1>3. ASSUME NEW t \in Slots, phase[t] = "IN_GAME", addr[t] = c PROVE SlotWillList(t)'
  <2>1. Known(c)
    BY <1>3 DEF Known, Occupies
  <2>2. UNCHANGED <<phase, addr, outbox, s2c>>
    BY <1>1, <2>1 DEF serverVars
  <2>3. Mail(t)' = Mail(t) /\ InGame' = InGame
    BY <2>2 DEF Mail, InGame
  <2>4. Start(addr[t])' = Start(addr[t])
    BY <1>1, <1>2, <1>3, <2>2 DEF Start
  <2>5. QED
    BY <1>3, <2>3, <2>4 DEF RosterInv, WillList, SlotWillList
<1>4. QED
  BY <1>1, <1>2, <1>3, RosterClient

LEMMA RosterLeave ==
  ASSUME IInv, RosterInv, NEW c \in Clients, NEW farewell, ClientLeave(c, farewell)
  PROVE  RosterInv'
<1>1. /\ UNCHANGED serverVars /\ mode[c] # "out" /\ mode' = [mode EXCEPT ![c] = "out"]
      /\ view' = view /\ s2c' = IF SamePort THEN s2c ELSE [s2c EXCEPT ![c] = <<>>]
  BY DEF ClientLeave
<1>2. /\ mode'[c] = "out" /\ \A d \in Clients : d # c => s2c'[d] = s2c[d] /\ ClientUnmoved(d)
      /\ ~ SamePort => s2c'[c] = <<>>
  BY <1>1 DEF IInv, TypeOK, ClientUnmoved
<1>3. ASSUME NEW t \in Slots, phase[t] = "IN_GAME", addr[t] = c PROVE SlotWillList(t)'
  <2>1. UNCHANGED <<phase, addr, outbox>>
    BY <1>1 DEF serverVars
  <2>2. CASE ~ SamePort
    BY <1>2, <1>3, <2>1, <2>2, ListOutbox DEF RosterInv
  <2>3. CASE SamePort
    <3>1. Mail(t)' = Mail(t) /\ InGame' = InGame
      BY <1>1, <2>1, <2>3 DEF Mail, InGame
    <3>2. /\ Start(addr[t]) \in States /\ Start(addr[t]).at # "gone"
          /\ Mail(t) \in Seq(ServerMessages) /\ Hears(Start(addr[t]), Mail(t), InGame)
      BY <1>3, RosterTypes DEF RosterInv, WillList, SlotWillList
    <3>3. Hears(Waiting, Mail(t), InGame)
      BY <3>2, HearsLater
    <3>4. Start(addr[t])' = Waiting
      BY <1>2, <1>3, <2>1 DEF Start
    <3>5. QED
      BY Zenon, <3>1, <3>3, <3>4 DEF SlotWillList
  <2>4. QED
    BY <2>2, <2>3
<1>4. QED
  BY <1>1, <1>2, <1>3, RosterClient

(* A message is read: the run of the client is one step shorter.           *)
LEMMA RosterReceive ==
  ASSUME IInv, RosterInv, NEW c \in Clients, ClientReceive(c)
  PROVE  RosterInv'
<1> DEFINE m == Head(s2c[c])
           rest == IF m.kind = "BootPlayer" THEN <<>> ELSE Tail(s2c[c])
           to == CASE m.kind = "Settings" -> "ready"
                   [] m.kind = "MissionInit" -> "playing"
                   [] m.kind = "BootPlayer" -> "out"
                   [] OTHER -> mode[c]
           list == CASE m.kind = "MissionInit" -> {}
                     [] mode[c] = "playing" /\ m.kind = "Added" -> view[c] \cup m.slots
                     [] mode[c] = "playing" /\ m.kind = "Removed" -> view[c] \ m.slots
                     [] OTHER -> view[c]
<1>1. /\ s2c \in [Clients -> Seq(ServerMessages)] /\ s2c[c] # <<>> /\ UNCHANGED serverVars
      /\ mode \in [Clients -> Modes] /\ view \in [Clients -> SUBSET Slots] /\ mode[c] # "out"
  BY DEF IInv, TypeOK, ClientReceive
<1>2. /\ s2c' = [s2c EXCEPT ![c] = rest] /\ mode' = [mode EXCEPT ![c] = to]
      /\ view' = [view EXCEPT ![c] = list]
  BY <1>1 DEF ClientReceive
<1>3. m \in ServerMessages
  BY <1>1
<1>4. Start(c) \in States
  BY <1>1, StateTypes DEF Start
<1>5. m.kind # "BootPlayer" => rest = Tail(s2c[c])
  OBVIOUS
<1>6. m.kind = "BootPlayer" => rest = <<>> /\ to = "out"
  OBVIOUS
<1>7. m.kind # "BootPlayer" =>
        to # "out" /\ (IF to = "playing" THEN Playing(list) ELSE Waiting) = Heard(Start(c), m)
  <2> HIDE DEF m
  <2>1. m.kind # "BootPlayer" => to # "out"
    BY <1>1
  <2>2. CASE mode[c] = "playing"
    <3>1. Start(c) = Playing(view[c])
      BY <2>2 DEF Start
    <3>2. QED
      BY <1>3, <2>1, <2>2, <3>1, HeardPlaying, ServerMessageKinds
  <2>3. CASE mode[c] # "playing"
    <3>1. Start(c) = Waiting
      BY <2>3 DEF Start
    <3>2. QED
      BY <1>3, <2>1, <2>3, <3>1, HeardWaiting, ServerMessageKinds
  <2>4. QED
    BY <2>2, <2>3
<1> HIDE DEF m, rest, to, list
<1>8. /\ s2c'[c] = rest /\ mode'[c] = to /\ view'[c] = list
      /\ \A d \in Clients : d # c => s2c'[d] = s2c[d] /\ ClientUnmoved(d)
  BY <1>1, <1>2 DEF ClientUnmoved
<1>9. ASSUME NEW t \in Slots, phase[t] = "IN_GAME", addr[t] = c PROVE SlotWillList(t)'
  <2>1. UNCHANGED <<phase, addr, outbox>> /\ InGame' = InGame
    BY <1>1 DEF serverVars, InGame
  <2>2. CASE m.kind = "BootPlayer"
    BY <1>6, <1>8, <1>9, <2>1, <2>2, ListOutbox DEF RosterInv
  <2>3. CASE m.kind # "BootPlayer"
    <3> DEFINE a == s2c[c]
               o == outbox[t]
    <3>1. /\ a \in Seq(ServerMessages) /\ o \in Seq(ServerMessages) /\ a # <<>>
          /\ Hears(Start(c), a \o o, InGame)
      BY <1>1, <1>9, RosterTypes DEF RosterInv, WillList, SlotWillList, Mail
    <3>2. m = Head(a) /\ rest = Tail(a)
      BY <1>5, <2>3 DEF m
    <3> HIDE DEF a, o
    <3>3. /\ a \o o \in Seq(ServerMessages) /\ a \o o # <<>> /\ Head(a \o o) = Head(a)
          /\ Tail(a \o o) = Tail(a) \o o
      <4>1. a \o o \in Seq(ServerMessages) /\ a \o o # <<>> /\ Head(a \o o) = Head(a)
        BY <3>1
      <4>2. Tail(a \o o) = Tail(a) \o o
        BY <3>1
      <4>3. QED
        BY <4>1, <4>2
    <3>4. Hears(Heard(Start(c), m), Tail(a) \o o, InGame)
      BY <1>4, <3>1, <3>2, <3>3, HearsRest
    <3>5. Mail(t)' = Tail(a) \o o
      BY Zenon, <1>8, <1>9, <2>1, <3>2 DEF Mail, o
    <3>6. Start(addr[t])' = Heard(Start(c), m)
      BY <1>7, <1>8, <1>9, <2>1, <2>3 DEF Start
    <3>7. QED
      BY Zenon, <2>1, <3>4, <3>5, <3>6 DEF SlotWillList
  <2>4. QED
    BY <2>2, <2>3
<1>10. mode'[c] = "out" /\ ~ SamePort => s2c'[c] = <<>>
  BY <1>6, <1>7, <1>8
<1>11. QED
  BY <1>1, <1>8, <1>9, <1>10, RosterClient

LEMMA RosterStep ==
  ASSUME IInv, RosterInv, [Next]_vars
  PROVE  RosterInv'
<1>1. CASE \E c \in Clients : ServerReceive(c)
  <2>1. \A c \in Clients, m \in ClientMessages : Ignored(c, m) => RosterInv'
    BY RosterIdle DEF Ignored, serverVars, clientVars
  <2>2. QED
    BY <1>1, <2>1, RosterConnect, RosterDuplicateConnect, RosterResponse, RosterNewPlayer,
       RosterQuit
    DEF ServerReceive
<1>2. CASE \E s \in Slots : Timeout(s)
  BY <1>2, RosterTimeout
<1>3. CASE FlushTick
  BY <1>3, RosterFlush
<1>4. CASE CooldownEnds \/ EndGame \/ RestartGame \/ UNCHANGED vars
  BY <1>4, RosterIdle DEF CooldownEnds, EndGame, RestartGame, vars, serverVars, clientVars
<1>5. CASE \E c \in Clients : ClientConnect(c)
  BY <1>5, RosterClientConnect
<1>6. CASE \E c \in Clients : ClientReceive(c)
  BY <1>6, RosterReceive
<1>7. CASE \E c \in Clients : ClientQuit(c) \/ ClientCrash(c)
  BY <1>7, RosterLeave DEF ClientQuit, ClientCrash
<1>8. QED
  BY <1>1, <1>2, <1>3, <1>4, <1>5, <1>6, <1>7 DEF Next

LEMMA RosterHolds ==
  ASSUME IInv, RosterInv
  PROVE  QuiescentRoster
<1>1. SUFFICES ASSUME NEW s \in Slots, phase[s] = "IN_GAME", mode[addr[s]] = "playing",
                      s2c[addr[s]] = <<>>, outbox[s] = <<>>
               PROVE  view[addr[s]] = InGame
  BY DEF QuiescentRoster
<1>2. Start(addr[s]) = Playing(view[addr[s]])
  BY <1>1 DEF Start
<1>3. Mail(s) = <<>> \o <<>>
  BY Zenon, <1>1 DEF Mail
<1>4. <<>> \o <<>> = <<>> /\ Len(<<>>) = 0
  OBVIOUS
<1>5. Hears(Playing(view[addr[s]]), <<>>, InGame)
  BY Zenon, <1>1, <1>2, <1>3, <1>4 DEF RosterInv, WillList, SlotWillList
<1>6. PICK v : HearsRun(Playing(view[addr[s]]), <<>>, v) /\ Lists(v[0], InGame)
  BY <1>4, <1>5 DEF Hears
<1>7. v[0] = Playing(view[addr[s]])
  BY <1>6 DEF HearsRun
<1>8. QED
  BY <1>6, <1>7 DEF Lists, Playing

(* Whoever joins, leaves or is timed out while a player's own join is on   *)
(* its way, with packets repeated and players back at their old addresses: *)
(* once everything has reached a player, it lists who is in the game.      *)
THEOREM PlayersKnowTheGame == Spec => []QuiescentRoster
<1>1. Init => RosterInv
  BY RosterStart
<1>2. IInv /\ RosterInv /\ [Next]_vars => RosterInv'
  BY RosterStep
<1>3. IInv /\ RosterInv => QuiescentRoster
  BY RosterHolds
<1>4. QED
  BY <1>1, <1>2, <1>3, InvariantHolds, PTL DEF Spec
=============================================================================
