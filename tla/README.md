# Verification of the OpenBC server

This directory holds TLA+ models of the [OpenBC](../src) dedicated server for
Star Trek: Bridge Commander, the TLC configurations that check them on small
instances, and proofs, checked by TLAPS, of theorems about them for every
instance. `PROJECT.json` lists the runs, the theorems, and the source lines that
each definition translates.

To check a configuration: `tlc -config ReliableChannel.cfg MCReliableChannel`.
To check the proofs of a module: `tlapm ReliableChannel_proof.tla`.

## 1. The system

The server is one C process with one thread. Its main loop (`src/server/main.c`)
drains the UDP socket, hands each packet to `bc_handle_packet`
(`server_dispatch.c`), and every 33 ms runs a tick: the simulation of each ship,
torpedoes, game timers, a flush of every peer's outbox; a health broadcast on every
third tick, retransmission and timeouts on every thirtieth. So there are no data races, and a handler or a tick is one
atomic step. What is concurrent is everything else: up to seven human clients,
each with its own idea of the session, joined by a network that loses, delays,
repeats and reorders datagrams; master servers at the other end of the same network;
and, inside one step, the code of loaded modules, which calls back into the event bus
and the engine's API.

| Component | Source | State | Operations | Correct when |
|---|---|---|---|---|
| Reliable delivery | `network/reliable.c`, `network/transport.c`, `server_send.c` | per peer: sequence counter, 16-entry retransmit queue, 512-byte outbox | queue, flush, acknowledge, retransmit each 2 s, drop after 8 retries | an acknowledgement releases only what was received; a message that is accepted is delivered or its peer dropped |
| Fragment reassembly | `network/transport.c`, `server_dispatch.c` | per peer: buffer, expected and received counts | receive, reset | what is dispatched is a message that was sent; the buffer never overflows |
| Peer table and handshake | `network/peer.c`, `server_handshake.c`, `protocol/handshake.c` | 8 slots with phase, address, checksum round; connect history; join gate | Connect, checksum rounds, lobby, NewPlayerInGame, Disconnect, timeout | an address has one slot; only verified peers get in; every handshake ends; players agree on who is there |
| Match scoring | `server_dispatch.c`, `server_handshake.c` | scores by slot and by peer, team scores, damage ledger, reconnect cache, game-ended flag | damage, kill, self-destruct, torpedo hit, connect, restore, disconnect, end, restart | every kill is one loss; credit goes to who earned it; the limit ends the game; scores survive reconnection |
| Ship combat state | `shared/game/combat.c`, `ship_power.c`, `ship_state.c` | hull, 6 facings, subsystems, repair queue, cloak, battery | damage, tick, cloak, self-destruct, spawn | the queue is sound and makes progress; shields and cloak respect each other |
| Health broadcast | `ship_power.c`, `main.c`, `server_dispatch.c` | a cursor per ship | a window each tick, windows after damage, a full burst | every entry is told to every client within a second |
| Event bus | `event_bus.c` | per event: sorted handlers, pending changes, depth | subscribe, unsubscribe, fire, cancel | no handler is skipped, repeated or lost, whatever handlers do |
| Module loader and API | `module_loader.c` | loaded modules and their libraries | load, fail, shut down, close; send, relay, score, damage | a module that took its handlers back before its library was closed is never called again; what a module sends or gives reaches the player it was meant for |
| Ship replication | `server_dispatch.c`, `server_handshake.c`, `server_send.c` | per slot: ship, object id, cached creation; per client: the ships it shows | create, request, destroy, die, restart, join late, leave | every client shows the ships there are, unless a player's message destroyed them |
| Main loop | `main.c` | what has been opened, timers, data modes | start-up and its failures, the ticks, shutdown | everything is released; players get their last messages, then the notice |
| Master servers and GameSpy | `network/master.c`, `network/gamespy.c`, `main.c` | per master: enabled, verified, last heartbeat | probe, heartbeat, challenge, query, state change, farewell | masters list the server while it runs, with the players there are, and no longer |
| Configuration | `config.c`, `main.c` | the settings | defaults, file, arguments | the command line wins |
| Packet framing, cipher, buffers | `network/transport.c`, `network/cipher.c`, `protocol/buffer.c`, `network/client_transport.c` | bytes of a packet, of a bit group | build, encrypt, decrypt, parse, write, read | what is written is what is read |
| Torpedo tracker | `torpedo_tracker.c` | torpedoes in flight | fire, hit, expire | part of match scoring |
| Movement, checksums, most builders and parsers, logging, sockets, client backends, tools | see `PROJECT.json` | | | not modelled, see section 9 |

How they interact: `bc_handle_packet` finds the slot of a packet's address in the
peer table, gives acknowledgements to the retransmit queue, fragments to the
reassembly buffer, checksum responses to the handshake, and everything else, once
the peer is in the lobby, to `handle_game_message`, which changes ships and scores
and relays. Everything that is sent goes through `bc_queue_reliable` or the outbox.
Leaving (`bc_handle_peer_disconnect`) touches every component: it saves the score,
clears the ledger's rows, tells the others and the masters, and empties the slot with
its queues. Modules run only inside the loader's calls, and the bus calls them; they
reach players through the same outboxes as the game.

What makes it hard: repeated and late packets against a handshake that has moved on;
slots that are freed and taken again while torpedoes, ledger rows, saved scores and
packets still name them; byte-sized numbers and lengths; fixed-size queues; lists
that change while they are walked; a millisecond clock that starts over; several views of
one state (scores kept twice, two health windows behind one cursor, a ship in the server's
table, in its cache and at each client, a roster at the masters). `PROJECT.json` lists each such hazard at its
line with the properties that guard it.

## 2. The modules and the order they were built in

| Order | Module | Models | Composed with |
|---|---|---|---|
| 1 | `ReliableDelivery` | the abstract promise of a reliable channel | |
| 1 | `ReliableChannel` | the channel as the code builds it, network and client included | instantiates `ReliableDelivery` |
| 1 | `ReliableChannel_proof` | theorems about the channel | |
| 3 | `FoldLemmas` | induction on numbers and finite sets, sums, folds | extends no model |
| 2 | `PeerSession` | peer table, handshake, rosters, leaving, timeouts, and the clients | |
| 2 | `PeerSession_proof` | theorems about slots, the handshake, checksums, player lists | extends `FoldLemmas` |
| 3 | `MatchScoring` | damage ledger, scores, limits, reconnect cache, torpedoes in flight | |
| 3 | `MatchScoring_proof` | theorems about scores, ledger, limit, the end of a game, reconnecting | extends `FoldLemmas` |
| 4 | `EventBus` | subscriptions and nested fires | |
| 4 | `ServerConfig` | defaults, configuration file, arguments | |
| 4 | `ModuleLoader` | loading and unloading, whose code calls the bus | extends `EventBus`, `ServerConfig` |
| 4 | `MasterServers` | the masters' list, heartbeats and answers, and the masters | extends `ServerConfig` |
| 4 | `ServerLifecycle` | `main` from its arguments to its exit, players' mail and points, all of the above at work together | extends `ModuleLoader`, `MasterServers` |
| 4 | `ServerLifecycle_proof` | theorems about masters, mail, shutdown and release, the bus and closed code, the command line | extends `FoldLemmas` |
| 5 | `ShipSystems` | shields, hull, subsystems, repair queue, cloak, battery | |
| 5 | `ShipSystems_proof` | theorems about the levels, the repair queue, shields under cloak; the health windows and their bytes | extends `HealthWindows`, `FoldLemmas` |
| 5 | `ShipReplication` | the ships, their cached creations, and what each client shows | |
| 5 | `ShipReplication_proof` | theorem: clients show the ships there are | extends `FoldLemmas` |
| 5 | `HealthBroadcast` | the round-robin windows | |
| 5 | `BitBuffer` | bytes and groups of bits, written and read | |
| 5 | `HealthWindows` | the bytes of a health window and their reader | extends `HealthBroadcast`, `BitBuffer` |
| 6 | `FragmentReassembly` | the client's groups of fragments and the server's buffer | |
| 6 | `FragmentReassembly_proof` | theorems: the buffer's bound, whole messages | |
| 6 | `PacketFraming` | the bytes of packets, the cipher, the parser | |

Modules named `MC...` hold nothing but the values of constants for TLC. The models are
joined at narrow places, and each takes of the others what it needs: `PeerSession`
takes from `ReliableChannel` that what the server sends arrives in order or the peer is
dropped; `MatchScoring`, `ShipReplication` and `ServerLifecycle` take from `PeerSession` that a
player connects, reaches the lobby and leaves, and `ShipReplication` that what the server
sends arrives in order; `HealthBroadcast`, `ShipSystems` and `ShipReplication` take ships
spawned, hit and destroyed at any time, whoever did it. `ServerLifecycle` is the one
composition: loader, bus, settings, masters and the players' slots share one next-state
relation. `MCFragmentReassembly` also evaluates `PacketFraming`, which has no state: the
fragments and everything else travel in its packets.

In every module an action is one handler or one tick, with all that it calls. Definitions
named as a *slip* in their comment are what a plausible mistake in the code would have
made of the definition after them; no specification uses them.

## 3. The models and the code

**ReliableChannel.** One connected peer (`bc_peer_t`). `queue` is `reliable_out`, keyed by
the full number of the message; `outbox` is `bc_outbox_t`; `seqOut` is `reliable_seq_out`.
`QueueReliable` is `bc_queue_reliable`: number, `Track` (`bc_reliable_add`), `Enqueue` (add
to the outbox, flush and try again). `ServerAck` is `bc_reliable_ack`, which compares a
byte with a 16-bit number; `ByteMod` is 256. `HousekeepingTick` is the thirtieth tick of
the main loop: drop a peer out of retries, else retransmit what is overdue and flush.
`FlushTick` is the other ticks, `PeerGone` every other way a peer is removed. Time is the
number of housekeeping passes since an entry was sent. The network holds whatever was
ever sent and forces nothing. The histories (`tracked`, `framed`, `ackSeen`) are read by
properties only.

**PeerSession.** Slots 1 to 7 of `g_peers` (slot 0 is the server itself); the clients are
addresses, two of which may share an IP. `HandleConnect` is `bc_handle_connect` with its
rate limit, its refusal when full or after the end of a game, and the first checksum
request. `ChecksumResponse` is `bc_handle_checksum_response`: which round a response
belongs to is not read, so it is taken for the current one; what it does then depends on
the manifest. `NewPlayerInGame`, `HandleQuit`, `Timeout`, `DuplicateConnect`, `Ignored`
are the other branches of `bc_handle_packet`, `Disconnect` is
`bc_handle_peer_disconnect`, part of each action that removes a peer. `FlushTick`,
`CooldownEnds`, `EndGame` and `RestartGame` are the tick and the match as seen from here.
The client (external) answers requests, reports in after Settings, keeps a player list from
MissionInit on, may leave or crash at any time. A packet that is received may stay to be
received once more (`MaxDuplicates`).

**MatchScoring.** The parallel arrays `g_player_*` are `board`, the copy in each peer is
`mirror`. A hit is computed on a record of the variables it may change, in the order of the
code: `RecordDamage`, `ProcessKill` (`process_ship_kill`: nothing once the game has ended;
death, kill, points from the ledger, teams, limit), then the ship is removed. Beams do their
damage in the packet that reports them; a torpedo flies on its own, naming its shooter by
slot; in a collision both ships are struck one after the other. `Connect`, `Keepalive`
(naming and `bc_try_restore_reconnect_score`), `Disconnect` (saving), `TimeUp` and
`Restart` are what happens to players and rounds. How much a hit takes and whether it
kills is any choice: `ShipSystems` has the combat code.

**EventBus.** One list per event with its pending additions and removals, and the stack of
fires that have not returned: a handler is the code between a `Fire` and its
`HandlerReturns`, and may do anything to the bus meanwhile. `Flushed` is
`flush_removals` then `flush_additions`. `made` numbers the subscriptions and
`kept` holds those not given up since.

**ServerConfig.** `Defaults`, `FromFile` (`process_toml`: ranges and list lengths), `Applied`
and `ReadOption` (the arguments of `main`, left to right); `Effective` is their composition.
A file is a function on the keys it has; `Begun` is what its keys and the defaults make,
before the arguments. `CommandLineWinsFor` says what should come out, without reading the
arguments in order.

**ModuleLoader.** `obc_module_loader_init` one entry at a time and
`obc_module_loader_shutdown` in reverse; between a call into a library and its return
`ModuleCode` is any use of the bus by the module whose code is running. Nothing makes a module
unsubscribe before it is closed, and one without a shutdown callback has no call in which it
could: `CloseLibrary` closes it as it is, and the history `leftBehind` remembers those that had
handlers on the lists. A call into a library that is closed may find its code still there, or end
the server; the model has the first, and the second is a behaviour that stops.

**MasterServers.** `entries` is `bc_master_list_t`, without the names that did not resolve.
`MakeList`, `Probe`, `AnswerMaster`, `MasterTick`, `StateChanged` and `MasterShutdown` are
`bc_master_init_defaults`, `bc_master_probe`, the branches of `bc_handle_gamespy` for a master,
`bc_master_tick`, `bc_master_statechanged` and `bc_master_shutdown`. Time is seconds modulo
`ClockPeriod`, with unsigned subtraction (`Since`). The masters are external: they may
challenge or query who sends a heartbeat, list whose status they have, forget, and show a
list from an earlier run. One datagram at most is under way in each direction; a newer one
replaces it, and any may be lost.

**ServerLifecycle.** `phase` follows `main`: data, network, masters, probe, engine (loader,
main loop, unloading), last flush, notice to the players, farewell to the masters, close.
Every early return is an action of its own (`NetInitFails`, `BindFails`, `ModulesFail`, a
manifest that cannot be read in `LoadData`). A `machine` is what the server finds: its file and
arguments, which data are there and readable, which masters' names resolve to which
addresses, and what its modules do through the API. `outbox` and `credit` hold, in place of
contents, for whom the contents were queued or given: the player in the slot, or no one.

**HealthBroadcast.** One ship's list of any class of `data/vanilla-1.1/ships`, and one
entry, any, that is followed. `Written` and `WindowSize` count bytes as
`bc_ship_build_health_update` does, bit groups included, for the owner's and the others'
version. `Broadcast` is the third tick, `Hit` the window after damage, `DestructBurst` the
whole cycle; a window may be lost. `HealthWindows` builds the bytes of those windows with
`BitBuffer` (`bc_buffer_t`, whose bits are put into a byte before those written since) and
reads them as a client must, which knows the ship's class and nothing else. Its buffer has
no end: a window ends at the first entry, from the second on, that brings it to ten bytes, and an entry
has at most twelve children (`BC_SS_MAX_CHILDREN`), so that it has 31 bytes at most, of the
128 there are (`ship_power.c:34`).

**ShipReplication.** `ship`, `wrecks`, `objectId` and `cache` are what the server knows of the
ship of each slot; `shows` is what each client shows. `ObjCreate`, `DestroyObj`, `SelfDestruct`,
`Restart`, `RequestObj` are the handlers, `Forwarded` what a late joiner is sent, `Killed` any death
with a notice and `KilledByModule` one without. `DestroyObj` passes on what a player says is
destroyed or exploding, its own ship or another's, and leaves the server's ship as it is; the history
`removed` has those objects until they are created again. A player's messages may be handled in
any order, and twice. `odd` marks the players whose last creation was no ship the server knows: what the
code does with those is modelled, and the property leaves them out (section 8).

**ShipSystems.** One ship. `Strike` is `bc_combat_apply_damage` and the repair events of
`server_dispatch.c`; `Tick` is the ship's part of the simulation tick in its order: reactor
(once a second), shields, cloak, repair, automatic additions. Geometry (which facing,
which subsystems) and rounding are choices. Weapon charge, torpedo reload and tractor
beams are left out: nothing modelled reads them.

**FragmentReassembly.** The client's groups and the server's single buffer, as
`bc_fragment_receive` fills it: fragments are appended as they come. The total that a
fragment other than the first is taken to announce is one of its data bytes, any number.

**PacketFraming.** `Bytes` is a message as `bc_outbox_add_...`, the `bc_transport_build_...` and
the client's builders put it into a packet; `Parsed` is `bc_transport_parse` with its limits;
`Encrypted` and `Decrypted` are the cipher, in words of 16 bits, which are all that reach
a byte.

## 4. The runs

Ten runs pass; two show where the code does not do what the repository says of it.

| Run | Instance | Shows |
|---|---|---|
| `reliable_delivery` | queue 2, outbox 2, 2 retries, 4 messages, byte of 4 values, all sizes; `FairSpec` | late, repeated and reordered ACKs release only what they acknowledge, nothing that can be framed is lost in a full outbox, the channel refines `ReliableDelivery`, and every tracked message is received or its peer dropped |
| `ack_after_wrap` (violation) | byte of 2 values, 3 messages | once numbers exceed the byte, an ACK releases nothing |
| `peer_session` | 2 clients behind one IP, 2 slots, 2 rounds and the final one, manifest, one repeated packet | one slot per address, nobody unverified in the lobby, player lists settle |
| `peer_fair` | 2 clients, 1 slot, 2 sessions each, one client with a malformed final answer; `FairSpec` | handshakes end, slots of absent players are freed, good files are never refused when no packet is repeated |
| `peer_resent_response` (violation) | one repeated packet | a response resent by the client fails its next round |
| `match` | 2 players, 2 slots, kills to 2, a torpedo tube, 3 ships in a round | the copies of the scores agree, the ledger is current, the limit ends the game, no kill is counted twice or after the end, reconnecting loses nothing |
| `match_teams` | 1 name, 2 slots, teams, score limit 1, players back before their old slot is freed | a lost ship counts once for teams |
| `ship` | 4 subsystems (generator, repair bay, two sensors of one bucket), 2 facings, 2 teams; `FairSpec` | the repair queue stays sound, shields are left alone under cloak, decloaking ends, repair goes on |
| `health` | all 15 different lists of the 16 classes, real budget, 1 hit, 1 loss, 2 ships | every entry reaches the owner within a second and the others if it reaches them at all; a self-destruct is shown whole; a client reads in each of the windows what was put there |
| `lifecycle` | 8 machines: a busy bus, meddling modules, one master, two names of one master, 4 odd starts; 2 human slots, 2 joins; command lines of up to 3 options | from start to exit: the command line wins, no closed library is called but those that left handlers behind, no subscription is lost or skipped, mail and points are the player's, masters are told in time, of every change and of the end, and come to list the server, and all is released |
| `ship_replication` | 3 slots, 2 objects each, 4 courses (see below) | a client that has received everything shows the ships there are, but for those that a player's message destroyed |
| `fragments` | messages of 3, 2, 3 fragments, buffer of 4, 2 groups resent, 1 fragment lost; `FairSpec`; packets of up to 3 messages, lengths 250 to 253, counters 0, 1 and 255 | whole messages only, all of them, until a loss; packets of all kinds of messages, with counters that fit a byte, are read as they were built, through the cipher |

*Why the bounds are enough.* Capacities are set to the smallest values at which a full
queue, a full outbox, a wrap, a shared slot or a nested fire occurs with something else
in progress; what is counted up (messages, sessions, ships, subscriptions) is
bounded just above the number that the longest of those needs. Two players and two slots
are enough for a slot to change hands while a torpedo, a ledger row or a saved score
still names it; `match` needs three ships for a player to be killed, come back and be
killed again. The lists in `health` are the real ones and so is the budget.

`lifecycle` splits the questions over machines, since what the modules do does not depend on
what the masters do. *BusyModules* has four entries (a library with a shutdown callback, one
without, a script, another library) and handlers of the first and the last; one event,
as lists of different events share only the stack; lists of 2, fires 2 deep, 4
subscriptions, so that a list is full with changes pending. *MeddlingModules* have two
players come and go under modules that send to, and score for, any slot. *OneMaster* may show
any earlier list and *SharedAddress* gives two names one address. A heartbeat is due after 2
seconds and the clock starts over after 4, so every position of a wrap between two
heartbeats occurs; a pass is one second late at most. The theorem about heartbeats is for
all values. The other four machines fail, or go without, at each step that reads data.
`CommandLineWins` is evaluated for all command lines of up to three options out of ten
(two masters, and two values of an option that is repeated) over five files.

The courses of `ship_replication` bound what all players do together: three players with a
ship each; two with two ships each and a message handled twice, or a request,
self-destruct, restart or destruction by message that crosses anything; and two who create anything at all.

The packets of `fragments` are all those of up to three messages of any kind with lengths
about the longest that can be framed (251 and 252 are the first that a reliable and an
unreliable message cannot have), and of two with short payloads, one of which looks like
a message. A byte goes through the cipher in the same way wherever it is; the ten bytes
of its key have been fed several times over.

*Settings that narrow a run.* `GhostsLinger` is FALSE in `match`: with it,
`ScoreSurvives` fails (section 8). `SamePort` is FALSE in the session's runs: a client
that comes back from its old port to a slot that has not timed out is never greeted
(section 8), so the liveness properties do not hold of it; the theorems do not assume it.
`InOrder` is TRUE in `fragments`; `OnlyWholeMessages` promises nothing otherwise, and
`BufferBounded` is proved for both. `odd` in `ship_replication` is explained in section 8.

Deadlock is not checked in runs whose behaviours really end: every bound of what clients
and players do is then used up, or the server has exited. The ship never stops, and its
run checks it.

## 5. Fairness

- *The tick recurs* (`HousekeepingTick`, `FlushTick`, `CooldownEnds`, `Tick`, `SecondTick`): the
  main loop runs until the server stops and its branches depend on time alone.
- *What has arrived is received* (`ServerReceive`, `Receive`): the loop drains the socket
  before each tick. Fairness is per client, not per message: a client's packet may wait
  behind others, and nothing is promised for one that the network loses; where a loss
  matters the model has it as an action (`Lose`, `ClientCrash`).
- *A client that stays answers* (`ClientReceive`): a client that does not is one that
  crashed, which needs no fairness and may happen at any time.
- *A silent peer times out* (`Silent(s) /\ Timeout(s)`): `last_recv_time` is compared on
  each housekeeping pass. `Timeout` of a peer that is not silent is possible too.
- *A master that is sent the same kind of datagram again and again receives one, and the
  server one of its answers* (strong fairness in `ServerLifecycle`, per kind): the network loses
  datagrams, each of them if it likes, but not all of them. That the server sends again is not assumed:
  it is what `bc_master_tick` must do for `EventuallyListed` to hold.

Nobody is obliged to connect, leave, end a game, restart it, fire, resend or stop the server.
`ReliableChannel` assumes nothing of network or client: `DeliveredOrDropped` holds
because retries run out.

## 6. What is proved

The theorems hold for every value of the constants that the modules' assumptions
admit: any number of clients, slots and rounds, any queue and outbox sizes, any number of
repeated packets, with or without a manifest, clients from their old ports included. Four
name a hypothesis besides (`OnceEach`, `RoomForAll`, `ListsFit`, `RoundInTime`), given below.

`ReliableChannel_proof` (assumes `ConstantsAssumption`):
`TypeCorrect`, `NoFalseRelease`, `NoAckedRetransmission`, `NoFramedLoss`, and `Refinement`
(the channel implements `ReliableDelivery`). The inductive invariant `IInv` adds `Numbered` to the
properties: whatever is acknowledged was received, was on the wire, could be framed, and
has a number below `seqOut`. Without it an ACK, or a number given again after the
slot has been emptied, could be of a message that was never sent; with it the byte of an
ACK, while numbers are below `ByteMod`, is the number itself. Each action has a lemma;
the refinement takes each action to a step of `ReliableDelivery` or a stutter.

`PeerSession_proof` (assumes `PeerAssumption`): `SessionTypeCorrect`, `UniqueSlot`,
`VerifiedEntry`. `VerifiedInLobby` is not inductive: a response lets a peer in by what is
in `round`, not by what was answered. `HandshakeProgress` ties them: in each occupied slot
the rounds below `checksum_round` have been answered, well if there is a manifest; a peer
past the regular rounds has the count at its maximum; an empty slot has it at zero.
`UniqueSlot` needs that `Connect` takes a slot only for an unknown address.

- `PlayersKnowTheGame`. `QuiescentRoster` speaks of a player that has read everything; the
  invariant must speak of one that has not. `WillList` does: what is on its way to a player in
  the game, and what waits in its outbox behind it, read in order, leaves it with the list of who is
  in the game, if it plays at all (`Hears`: there is a run of the client's states, waiting, playing
  or gone, through those messages). A join or a leave adds one message to that mail and the same
  slot to the game; a joining player is sent the whole list; a flush moves mail and does not
  change it; a client that leaves while it can still come back from its old port reads the same
  mail from the start of a list or not at all (`HearsLater`). It also takes that outboxes hold nothing
  but joins and leaves (`OnlyRosters`) and that nothing is under way to who is gone for
  good (`OutHasNothing`). It holds with repeated packets, with and without old ports.
- `GoodFilesAreAccepted`, under `OnceEach`: the network repeats no packet of a client, and who
  comes back does so from another port. `TurnInv`: a client has one request or one response
  under way, never both, and it is of the round its slot is in; who asks to be let in
  has nothing of an earlier stay under way. Then a response that does not match the manifest is
  one to the right question. The hypothesis is needed: run `peer_resent_response` shows a client
  with good files dropped for a repeated response, since the server does not look at the
  round that a response names. Without repeats but from the old port, the same comes of a
  response sent in the client's earlier stay.

`FragmentReassembly_proof` (assumes `FragmentAssumption`): `BufferBounded`, `WholeMessages`.
Whatever is lost, reordered, repeated or misread as a total, and however large, the buffer
and every message put together in it stay within the buffer's size. In order and without
loss, only whole messages come out: `Streamed` says that the buffer and the network are one
stream of groups, each piece followed by the next of its group and each last piece by the
first of another. `OnlyWholeMessages` alone says nothing of what is still to arrive.

*Induction.* A sum over players, a list of masters read name by name, a queue that is filtered
and what a client makes of its mail are all folds, and what a fold computes is known by
induction only. The library's induction theorems take an operator and cannot be used;
`FoldLemmas` does without: a nonempty set of subsets of a finite set has a minimal member, hence
a nonempty set of numbers a smallest, and a claim that failed somewhere would fail at a
smallest place and not before it. From that come, for the recursive functions by which the community
modules define their folds, that the function exists (`FoldRuns`: a fold is the last of a run
of values, each made from the one before) and that sums behave: the sum of a set with one member
changed, of a union, of a function that is bounded. The proofs of the models then
speak of runs (`AddingsRun`, `SeeingsRun`, `Keeping`) and never of the folds themselves.

`MatchScoring_proof` (assumes `MatchAssumption`, `NoEntryAssumption`), for any number of slots,
names, tubes and saved scores, any limit, with and without teams:

- `TallyAgrees`. Every path (beams, late torpedoes, mutual collisions, connects, restores,
  disconnects, restarts) leaves the two copies of the numbers of every connected player
  equal. Its invariant `IInv` adds the types of the two boards, the ledger and the cache: that
  whoever has no points keeps the old number is arithmetic on them.
- `NothingIsOwedToTheGone`, `LimitIsNeverPassed`, `KillsHaveTheirLosses`,
  `TeamKillsHaveTheirLosses`. They share the invariant `CInv`. Two of its parts are not among the
  properties: ships and classes belong to players who are there (`PlayTypes`), and the *saved*
  scores are below the limit while the game is on (`SavedWithinLimit`), without which a restored
  score could pass it with no kill. The counts are sums over the slots and the cache; a kill adds one to one
  term and takes one ship, a reconnect moves a term from one sum to the other.
- `NothingCountsAfterEnd`, a property of steps, from the same invariant.
- `ScoresOutliveSlots`. It assumes `RoomForAll`: no player is back before its old slot is free,
  and the cache has a place for every name. The code ensures neither (section 8: the score of a
  ghost, a full cache), and without either the property fails. `NamedOnce` is what it
  needs: a name is in one slot, or in one entry of the cache, and never in both.

`ShipReplication_proof` (assumes `ReplicationAssumption`): `EveryoneSeesTheShips`. The property
speaks of a client that has received everything; that is not inductive, since the step that
receives the last message would have to know it. `WillShow` says of every client at every moment what it will
show once it has received what is on its way (`Pending`, a fold of its mail over what it
shows): the ships of the others, as the server has them, or nothing in place of one that is `removed`. `ShipsAreKnown` adds that the
cached creation and the object id of a slot with a ship are that ship's, and `OutsideIsBare` that a
player outside the lobby has neither ship nor mail, and one that is joining shows nothing. Each handler then has one lemma: what it queues for
everyone changes the fold by just what it changes in the table.

`ShipSystems_proof` (assumes `ShipAssumption`): `ShipStaysSound`, `FacingsRestUnderCloak`, for any
class of ship and any damage. `ShipIsSound` is inductive as it stands, but only because
what the facings absorb together is at most the damage, what recharging draws from the backup
battery is at most its grant (both are sums, bounded term by term), and filtering the
repair queue and adding to it keep its members distinct and in need of repair (`QueueOf`).

The same module has the theorems about the health windows (`HealthBroadcast` and
`HealthWindows`; assume `HealthAssumption`), for any lists of entries and any budget:

- `OwnerToldInTime`, under `ListsFit`: no list has more entries than two for each broadcast of a
  second. The loader cuts lists off after 16 (`ship_data.c:133`) and a second has 10 broadcasts.
  How long an entry has waited is not enough to know when its turn comes. `OwnerWaits` ties it to the cursor:
  twice the broadcasts missed, and the way from the cursor to the entry, are together
  less than the list, since the cursor moves to where the owner's window ended and a window
  that ends before the list does has two entries at least.
- `OwnerToldOfDestruct`, without a hypothesis: the windows of a full cycle, each from where the
  one before ended, pass over every entry before the cursor is back, or before there have been
  two more than the list has entries, whichever ends the cycle.
- `OthersToldInTime`, under `RoundInTime`: from the start of a list the cursor comes by few enough
  places for a second to hold them all. The others' windows are shorter than the steps of the
  cursor, so that what they reach depends on where it stops. `RemoteWaits` says that, if the windows
  from any later stop reach the entry, those from a stop before the end of the second do; with
  one stop more than there are places, one of them would be a place a second time. The number of places depends on the
  widths of the entries; TLC evaluates `ListsFit` and `RoundInTime` for the lists of all
  sixteen classes.
- `EveryWindowReadsBack`. The byte of a group of bits is written before, and completed after, bytes
  of other entries, so what has been written is not yet what will be read. `Becomes` says what
  all later writing leaves of a buffer: every byte but the open group, which grows. Going
  back from the last byte, every buffer of a window becomes that window (`WrittenIsKept`);
  going forward, a reader that is as far as the writer was is still so after one entry more, and
  has been told what was written (`ReadInStep`). `RunGoes` has the length, and the bits
  of the open group, agree with what `Written` counts.

`ServerLifecycle_proof` (assumes `LifecycleAssumption`, `MastersAssumption`, `LoaderAssumption`,
`BusAssumption`, `ConfigAssumption`), for any lists of modules, masters, files and arguments:

- `HeartbeatsAreTimely`. The history `idle` counts seconds; the code knows two readings of a
  clock that starts over. `BeatsInv` ties them: both readings are within the period
  (`Clocked`), and idle time is their difference by unsigned subtraction (`Measured`). That
  the period is at least twice the interval, and a pass at most the period less the interval
  late, is what keeps a heartbeat that is overdue from looking recent.
- `MailIsForThePlayer`. `SlotIsClean` is preserved because `Connect` wipes what modules left for
  nobody; `MailInv` adds that modules are done when the end is near, and the types that
  make a slot's set one of "player" and "nobody".
- `NothingWaitsAtTheEnd`. Between the last flush and the notice nothing may be queued:
  `NothingWaits` says so of the phases after the flush, and needs that module code no longer
  runs then.
- `EverythingIsReleased`. The libraries open are those loaded and the one being called
  (`OpenIsLoaded`), whichever load or callback fails; what is held is known by phase
  (`HeldByPhase`).
- `MastersKnowTheRoster`, `NobodyListsTheGone`. `ShownInv` is about every moment, not only the quiet ones:
  a status on its way has the current roster, and what a master does not show is on its way in some
  form, a heartbeat that makes it call, its call, or the answer (`NewsInv`); after the farewell
  nothing else is under way (`GoneInv`). `ListInv` knows the list as a fold
  over the names that main read: every address is one that a name resolved to.
- `SubscriptionsSurvive`, `FiresSeeTheirLists`. `BusInv` adds what the properties leave out:
  no number is used twice, additions put off are newer than all that is on the list, and who is not given up
  survives the removals put off (`EventsOk`); nothing on the list under a fire is newer than the
  fire (`StackOk`); and changes are put off only while a fire of that event is on the stack
  (`PutOffInFires`), which is why flushing them cannot move a subscriber that is being called.
- `ClosedCodeWasLeftBehind`, without a hypothesis on the modules. `CodeInv` says that
  whoever is on a list or waits to be is of an open library or of one left behind (`OwnersAreKnown`),
  that whoever the loader calls is open, and that modules were loaded once and in order
  (`LoadedInOrder`), so that closing the last one closes no other. That no closed code runs
  at all is not true (section 8: closed libraries).
- `CommandLineDecidesAll`, for any arguments and any file. What was read of the arguments
  depends on how many words each option before took, and a value may look like an option. The proof
  speaks of the readings of all prefixes (`ReadingsRun`): `SingleRead` says which
  option has decided a setting so far, and `MastersRead` at which place of the list each
  host of a `--master` is, while there is room. The definition it is compared with finds the
  same options by looking at the whole list of arguments at once.

The assumptions on constants are of three kinds: capacities and periods are positive, or
related as the code's own numbers are; what is not a value (`NoEntry`, `NotCached`, `NoName`,
`NoShip`) is not one of the values; and the inputs that a run enumerates (machines, courses,
damages) are of the shape the code reads.

## 7. What is only model-checked

- *Liveness* (`DeliveredOrDropped`, `HandshakeEnds`, `GhostsAreReclaimed`, `DecloakEnds`,
  `RepairGoesOn`, `AllAssembled`, `EventuallyListed`): TLAPS has no rules for fairness here.
- *The bytes of packets* (`WireRoundTrip`): an evaluation over bounded inputs of the builders,
  the cipher and the parser, with counters that fit a byte (of later ones one byte is sent: see
  `ack_after_wrap`); the cipher is made of bitwise operators, of which the provers know
  nothing.

Every other invariant and action property of the runs that pass is stated by a theorem.

## 8. Observations

Two disagreements are shown by runs (`ack_after_wrap`, `peer_resent_response`) and listed
in `PROJECT.json`. Others were met while modelling; the models do as the code does, and no
run states the contrary:

- *Ships destroyed by message.* `docs/architecture/server-authority.md:126`: "Server decides who dies
  (DestroyObject `0x14` + Explosion `0x29` are server-to-client)". A player's DestroyObj is relayed
  unread, whoever's object it names (`server_dispatch.c:1327`), and `tests/test_battle.c:506-531` relies
  on it; so is an explosion in a PythonEvent (`server_dispatch.c:917`). The server keeps the ship,
  answers for it and sends it to whoever joins later, so that players disagree on it until
  it is created again. `ClientsShowTheShips` excepts it for that long (`MayShow`). With the
  exception taken out, TLC finds a player who no longer shows a ship that the server has, one
  step after such a message; without such messages the exception is empty.
- *Closed libraries.* A comment in `main.c` (line 1031): "shutdown callbacks may fire events". The loader
  leaves the handlers of a library that it closes on the bus (`module_loader.c:724` and `760`), and
  an event fired by a later callback calls them. Nothing asks a module to unsubscribe, and
  the first of `docs/modding/dll-module-guide.md:17-27` has no callback to do it in.
  `OnlyLeftBehindRunClosed` is what holds all the same: a module that has taken its handlers back
  before it is closed is never called again. Without `leftBehind` in it TLC finds a library that is
  closed with a handler on the list, and is called when the callback of an earlier one fires.
- *A message too long to frame is retried.* `include/openbc/reliable.h` lines 8-11: peers are
  dropped "that fail to ACK after 8 retries". A payload of 251 to 512 bytes is tracked
  (`bc_reliable_add`) and refused by the outbox (`transport.c:225`), so it is never sent and
  its peer is dropped for not acknowledging it.
- *The boot is not sent.* `docs/network-flows/join-flow.md:101`: a failed round "sends a
  BootPlayer". It is queued in an outbox that the next statement clears
  (`server_handshake.c:648`): `FailChecksum` sends nothing.
- *A skipped round.* Without a manifest one response, repeated by the network, passes two
  rounds (`server_handshake.c:617`); `VerifiedInLobby` is about servers with a manifest.
- *The final round.* Its response is accepted whatever it holds, if well formed
  (`server_handshake.c:577`).
- *Back from the same port.* A `Connect` from an address whose slot has not timed out is
  answered as a duplicate, and no checksum request follows (`server_dispatch.c:1972`).
- *Number of players.* `docs/modding/toml-reference.md:12` has `max_players` as a maximum;
  the code advertises it and gives out every slot of the table (`peer.c:28`).
- *Score of a ghost.* `docs/planning/gamemode-system.md:126` promises scores back to a player who reconnects; one
  who is back before the old slot has timed out has nothing restored
  (`server_handshake.c:62`).
- *Torpedoes and slots.* If the shooter leaves and another player takes the slot before the
  torpedo hits, that player is credited (`server_dispatch.c:723`).
- *A second ship.* `tests/test_security_identity.c:214`: a change of team "while ship is
  active should be ignored". The player's team is kept, the ship's is not
  (`server_dispatch.c:1284`), and it is the ship's that `Disconnect` saves.
- *Unsubscribing what was just subscribed.* `include/openbc/event_bus.h:84-85` calls it
  deferred; removals are applied before additions, so it stays subscribed
  (`event_bus.c:271`).
- *Health for the others.* `07-round-robin-timing.md:21`: every ship is synced within a
  second. The shared cursor moves with the owner's windows, which hold more entries
  (`main.c:885`); for most classes, the shuttle among them, some entries are never in a window
  for the others. Always covered are Sovereign, both Kessok, Marauder and the freighter.
- *Repair teams.* `docs/game-systems/repair-system.md:59`: a destroyed subsystem "does NOT
  consume a repair team slot". It does (`combat.c:833`); `RepairGoesOn` excepts it (`Blocked`).
- *What a hit queues.* `repair-system.md:96`: all that is damaged. The first of each bucket
  only (`server_dispatch.c:303`).
- *Shields without a generator.* `docs/game-systems/shield-system.md:204`: no recharge. Facings
  that still hold are recharged from the backup battery (`combat.c:438`).
- *Fragments.* `docs/bugs/fragmented-reliable-ack-bug.md:7`: duplicates are ignored. They
  are appended (`transport.c:374`), so after one loss a resent group is put together out of
  step; `OnlyWholeMessages` holds until then.
- *The simulation's period.* A comment in `main.c` gives it as 100 ms; it runs on every tick.
- *Settings.* Of what `config.c` reads, nothing uses `difficulty`, `respawn_time`,
  `gamespy_enabled`, `lan_discovery`, `heartbeat_interval`, `mode_file` and the mod packs. The port
  of the command line is taken modulo 65536 where the file's is checked, and a `--master` beyond
  the list's capacity leaves its value to be read as an argument of its own, which is ignored.
- *A full reconnect cache.* The comment at `server_handshake.c:43` says that the oldest entry is
  overwritten; it is the first, whatever its age (`EntryFor`). No run fills the cache.
- *An end without farewell.* If a module fails to load, the masters that the probe has
  told are not told of the end: `GoodbyeUnlists` is about servers that have started.
- *Two names of one address.* The first entry of the list is marked verified, both are sent
  heartbeats; nothing but the log depends on it.
- *Modules and the game.* The engine fires no event of its own. A module that adds to a score
  changes one of the two copies and no limit is looked at (`module_loader.c:441`); damage by
  a module can leave a ship dead and in its slot, which `ShipReplication` has as a wreck.
- *Ships the server does not know.* A creation by ObjCreate, of a species the registry lacks,
  or too large for the cache, changes the object id or the cached creation of its player but
  not the ship, so late joiners may be sent another object than the one that is relayed, and
  a leaver's ship may stay with the others. In relay-only mode there are only such ships.
- *A creation handled late.* An ObjCreateTeam received again after its ship died revives the
  ship on the server, and for everyone: the model agrees with itself, and no text
  promises that it should not.
- *Bit groups.* `src/shared/protocol/buffer.c:100` has a group finalized by the next write that is not of
  a bit; it stays open until five bits are in it or the writer ends it, which the
  windows' writers do.
- *Acknowledgements of fragments.* They have five bytes and the parser takes four, so that
  one before the end of a packet shifts what follows (`Readable` leaves it out).
- *Records of a session.* A leaver's record is looked for by the connect time of its peer
  (`server_handshake.c:359`), which is taken from the clock a moment earlier than the
  record's; one that is a millisecond apart is never closed. Only statistics read it.
- *No log file.* "CLI always wins" (`main.c`), but `--no-log-file` does not undo a log
  file named in the configuration (`main.c:325`).

## 9. What is not modelled

- *Ship movement and geometry, the flight of a torpedo, weapon charge and reload*:
  floating point; what decides anything of it (whether a hit occurs, which facing, how
  much) is a choice in the models.
- *Checksums, hashes and the manifest, TOML and JSON parsing*: functions of bytes without
  control; their outcome (a good or a bad answer, a file that is read or not, a list that is
  read) is an input of the models.
- *Builders and parsers of single messages*: a record of fields in, bytes out; modelled where
  order or width is at stake (packets, bit groups, health windows). Compressed floats are
  arithmetic on reals.
- *Logging, statistics, the console, the tools and the client backends*: nothing that is
  modelled depends on them.
- *Sockets*: the network of the models loses, repeats and reorders.
- *The module API's getters*, which change nothing, and its functions that move, repair or respawn
  a ship, which write single fields of a ship the models leave to choices.
- *Packets of several messages* as steps of the session: each message is a step there.
- *The clock in retransmission and timeouts*: those models count passes. When a peer is dropped in the
  retransmission pass (`main.c:749`), the notices for later slots are stamped with a newer
  clock than the `now` of the tick (`main.c:730`), and if that is a millisecond later, the unsigned
  difference makes them overdue in the same pass (`main.c:755`): sent at once, a retry the less.

## 10. The plan from here

1. Proofs: `WireRoundTrip` without the cipher, that is, that the parser finds every message of a
   packet of any messages that fit it.
2. The clock, with `ReliableChannel`'s retries and the 30 s timeout.
3. A smaller reconnect cache than players in `match`.
4. Packets of several messages in `PeerSession`: a message that removes the peer before the
   rest of its packet is handled (`server_dispatch.c:2029`).

As the models grow, deeper properties replace shallower ones rather than being added to
them.
