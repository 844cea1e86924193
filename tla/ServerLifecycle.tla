--------------------------- MODULE ServerLifecycle ---------------------------
(***************************************************************************)
(* main, from its arguments to its exit: data is loaded, sockets opened,   *)
(* master servers told, modules loaded; then the main loop; then modules   *)
(* are unloaded, players and masters told, and everything is closed.       *)
(*                                                                         *)
(* The components meet here: modules call the engine through their API,    *)
(* players come and go, and the masters are told of each change.  A player *)
(* is what the others see of it: joining, or in the lobby or beyond; the   *)
(* session itself is PeerSession's.                                        *)
(***************************************************************************)
EXTENDS ModuleLoader, MasterServers

CONSTANTS
  Files,      \* configuration files
  Arguments,  \* command lines: sequences of options
  Machines,   \* what the server finds when it is started, see machine
  MaxStep     \* bound: seconds between two passes of the once-a-second work

ASSUME LifecycleAssumption ==
  /\ MaxStep \in 1..(ClockPeriod - Interval)
  /\ \A m \in Machines : m.file \in Files /\ m.options \in Arguments
  /\ \A options \in Arguments : options \in Seq({options[i] : i \in DOMAIN options})
  /\ \A m \in Machines :
       LET names == DOMAIN m.addressOf
       IN /\ m.addressOf \in [names -> Addresses \cup {Unresolved}]
          /\ {DefaultMasters, Effective(m.file, m.options).masters} \subseteq Seq(names)

VARIABLES
  machine,  \* file, options: read by main, see ServerConfig;
            \* manifests, sets, jsons: the .json files in manifests/, the data
            \* sets and the .json files in data/, each "good" or "bad";
            \* addressOf: what the lookup of each master's name gives;
            \* api: what its modules do, of "bus", "mail" and "points";
            \* joins: a bound, the players that connect in one behaviour;
            \* shown: what the masters may show from an earlier run
  phase,    \* where main is
  held,     \* what it must release: "log", "net" and the sockets
  modes,    \* g_manifest_loaded and g_registry_loaded, as a set
  peers,    \* each slot's player: "empty", "joining" or "lobby"
  outbox,   \* what waits in each slot's outbox, by whom it was queued for
  credit,   \* points that modules gave each slot, by whom they were given to
  told,     \* history: slots whose player was told of the shutdown
  joins     \* players that have connected, a bound

mainVars == <<phase, held, modes>>
rosterVars == <<peers, outbox, credit, told, joins>>
vars == <<engineVars, mastersVars, mainVars, rosterVars, machine, settings>>

Phases == {"data", "network", "masters", "probing", "engine", "telling", "leaving",
           "closing", "exited"}
Slots == 1..(MaxSlots - 1)

(* Mail and points are queued for the player in the slot, or for no one.   *)
Present(s) == peers[s] # "empty"
ForWhom(s) == IF Present(s) THEN "player" ELSE "nobody"
Players == Cardinality({s \in Slots : Present(s)})

Init ==
  /\ machine \in Machines
  /\ settings = Effective(machine.file, machine.options)
  /\ LoaderInit
  /\ MastersInit(machine.shown)
  /\ phase = "data"
  /\ held = {"log"}
  /\ modes = {}
  /\ peers = [s \in Slots |-> "empty"]
  /\ outbox = [s \in Slots |-> {}]
  /\ credit = [s \in Slots |-> {}]
  /\ told = {}
  /\ joins = 0

Exit(released) ==
  /\ held' = held \ released
  /\ phase' = "exited"

----------------------------------------------------------------------------
(* Start-up.                                                               *)

(* The path given, or that of the only file there is.                      *)
ManifestPath ==
  CASE settings.manifest # NoPath -> settings.manifest
    [] settings.manifest = NoPath /\ Len(machine.manifests) = 1 -> machine.manifests[1]
    [] OTHER -> NoPath

RegistryPath ==
  CASE settings.registry # NoPath -> settings.registry
    [] settings.registry = NoPath /\ Len(machine.sets) = 1 -> machine.sets[1]
    [] settings.registry = NoPath /\ machine.sets = <<>> /\ Len(machine.jsons) = 1
         -> machine.jsons[1]
    [] OTHER -> NoPath

(* Without a manifest the server is permissive, without a registry it only *)
(* relays; a manifest that cannot be read ends it.                         *)
LoadData ==
  /\ phase = "data"
  /\ IF ManifestPath = "bad" THEN Exit({"log"}) /\ UNCHANGED modes
     ELSE /\ phase' = "network"
          /\ modes' = (IF ManifestPath = "good" THEN {"manifest"} ELSE {})
                      \cup (IF RegistryPath = "good" THEN {"registry"} ELSE {})
          /\ UNCHANGED held
  /\ UNCHANGED <<engineVars, mastersVars, rosterVars>>

NetInitFails ==
  /\ phase = "network" /\ held = {"log"}
  /\ Exit({"log"})
  /\ UNCHANGED <<engineVars, mastersVars, rosterVars, modes>>

NetInit ==
  /\ phase = "network" /\ held = {"log"}
  /\ held' = {"log", "net"}
  /\ UNCHANGED <<engineVars, mastersVars, rosterVars, phase, modes>>

BindFails ==
  /\ phase = "network" /\ "net" \in held
  /\ Exit({"net", "log"})
  /\ UNCHANGED <<engineVars, mastersVars, rosterVars, modes>>

(* The socket for queries is opened if it is not the game's own port, and  *)
(* the server does without it if that fails.                               *)
OpenSockets ==
  /\ phase = "network" /\ "net" \in held
  /\ \E query \in SUBSET {"query"} :
       /\ settings.port = 6500 => query = {}
       /\ held' = held \cup {"game"} \cup query
  /\ phase' = "masters"
  /\ UNCHANGED <<engineVars, mastersVars, rosterVars, modes>>

ListMasters ==
  /\ phase = "masters" /\ entries = <<>>
  /\ MakeList(machine.addressOf)
  /\ phase' = IF entries' = <<>> THEN "engine" ELSE "masters"
  /\ UNCHANGED <<engineVars, rosterVars, held, modes>>

ProbeMasters ==
  /\ phase = "masters" /\ entries # <<>>
  /\ Probe
  /\ phase' = "probing"
  /\ UNCHANGED <<engineVars, rosterVars, held, modes>>

(* All have registered the server, or three seconds are over.              *)
ProbeEnds ==
  /\ phase = "probing"
  /\ phase' = "engine"
  /\ UNCHANGED <<engineVars, mastersVars, rosterVars, held, modes>>

(* A master is answered by the probe, and by the main loop.                *)
Serving == phase = "engine" /\ stage = "running"
Answers(a) ==
  /\ phase = "probing" \/ Serving
  /\ AnswerMaster(a, Players)
  /\ UNCHANGED <<engineVars, rosterVars, mainVars>>

----------------------------------------------------------------------------
(* The engine's modules, and what they do through the API.  The bus is     *)
(* theirs; mail and points go to any slot, or to those in the lobby.       *)

Queue(slots) ==
  outbox' = [s \in Slots |-> outbox[s] \cup (IF s \in slots THEN {ForWhom(s)} ELSE {})]
InLobby == {s \in Slots : peers[s] = "lobby"}

ModuleSends ==
  /\ "mail" \in machine.api /\ calling # Engine
  /\ (\E s \in Slots : Queue({s})) \/ Queue(InLobby)
  /\ UNCHANGED <<engineVars, mastersVars, mainVars, peers, credit, told, joins>>

(* score_add; score_reset_all.                                             *)
ModuleScores ==
  /\ "points" \in machine.api /\ calling # Engine
  /\ \/ \E s \in Slots : credit' = [credit EXCEPT ![s] = @ \cup {ForWhom(s)}]
     \/ credit' = [s \in Slots |-> {}]
  /\ UNCHANGED <<engineVars, mastersVars, mainVars, peers, outbox, told, joins>>

EngineStep ==
  /\ phase = "engine"
  /\ Loader \/ ("bus" \in machine.api /\ ModuleCode)
  /\ UNCHANGED <<mastersVars, mainVars, rosterVars>>

(* Module loading failed: the masters are not told.                        *)
ModulesFail ==
  /\ phase = "engine" /\ stage = "stopped" /\ next \in Modules
  /\ Exit({"query", "game", "net", "log"})
  /\ UNCHANGED <<engineVars, mastersVars, rosterVars, modes>>

----------------------------------------------------------------------------
(* The main loop.                                                          *)

(* Slip: the slot keeps what its outbox holds.                             *)
ConnectKeepingMail ==
  /\ Serving /\ joins < machine.joins /\ Players < MaxSlots - 1
  /\ LET s == Min({i \in Slots : ~Present(i)})
     IN /\ peers' = [peers EXCEPT ![s] = "joining"]
        /\ credit' = [credit EXCEPT ![s] = {}]
  /\ joins' = joins + 1
  /\ StateChanged
  /\ UNCHANGED <<engineVars, mainVars, outbox, told>>

(* bc_handle_connect, to a new address: the slot is wiped.                 *)
Connect ==
  /\ Serving /\ joins < machine.joins /\ Players < MaxSlots - 1
  /\ LET s == Min({i \in Slots : ~Present(i)})
     IN /\ peers' = [peers EXCEPT ![s] = "joining"]
        /\ outbox' = [outbox EXCEPT ![s] = {}]
        /\ credit' = [credit EXCEPT ![s] = {}]
  /\ joins' = joins + 1
  /\ StateChanged
  /\ UNCHANGED <<engineVars, mainVars, told>>

EntersLobby(s) ==
  /\ Serving /\ peers[s] = "joining"
  /\ peers' = [peers EXCEPT ![s] = "lobby"]
  /\ Queue({s})
  /\ UNCHANGED <<engineVars, mastersVars, mainVars, credit, told, joins>>

(* The game sends and relays messages to those in the lobby and beyond.    *)
GameSends ==
  /\ Serving /\ InLobby # {}
  /\ Queue(InLobby)
  /\ UNCHANGED <<engineVars, mastersVars, mainVars, peers, credit, told, joins>>

(* Slip: the masters are not told that a player left.                      *)
DisconnectQuietly(s) ==
  /\ Serving /\ Present(s)
  /\ peers' = [peers EXCEPT ![s] = "empty"]
  /\ outbox' = [t \in Slots |->
                  IF t = s THEN {}
                  ELSE outbox[t] \cup (IF {s, t} \subseteq InLobby THEN {"player"} ELSE {})]
  /\ credit' = [credit EXCEPT ![s] = {}]
  /\ UNCHANGED <<engineVars, mastersVars, mainVars, told, joins>>

(* bc_handle_peer_disconnect: the others are told, the slot is wiped, and  *)
(* the points of the slot become those the peer's own record holds.        *)
Disconnect(s) ==
  /\ Serving /\ Present(s)
  /\ peers' = [peers EXCEPT ![s] = "empty"]
  /\ outbox' = [t \in Slots |->
                  IF t = s THEN {}
                  ELSE outbox[t] \cup (IF {s, t} \subseteq InLobby THEN {"player"} ELSE {})]
  /\ credit' = [credit EXCEPT ![s] = {}]
  /\ StateChanged
  /\ UNCHANGED <<engineVars, mainVars, told, joins>>

(* Slip: what waits for a player that is still joining is left.            *)
DeliveredInLobby == [s \in Slots |-> IF s \in InLobby THEN {} ELSE outbox[s]]

(* bc_flush_peer for every player.                                         *)
Delivered == [s \in Slots |-> IF Present(s) THEN {} ELSE outbox[s]]

Tick ==
  /\ Serving
  /\ outbox' = Delivered
  /\ UNCHANGED <<engineVars, mastersVars, mainVars, peers, credit, told, joins>>

(* Every thirtieth tick.                                                   *)
SecondTick(d) ==
  /\ Serving
  /\ outbox' = Delivered
  /\ MasterTick(d)
  /\ UNCHANGED <<engineVars, mainVars, peers, credit, told, joins>>

----------------------------------------------------------------------------
(* Shutdown, after the modules and the bus.                                *)
Unloaded == phase = "engine" /\ stage = "stopped" /\ next \notin Modules

FinalFlush ==
  /\ Unloaded
  /\ outbox' = Delivered
  /\ phase' = "telling"
  /\ UNCHANGED <<engineVars, mastersVars, held, modes, peers, credit, told, joins>>

(* Every player is sent a notice and its slot is marked empty.             *)
TellPlayers ==
  /\ phase = "telling"
  /\ told' = {s \in Slots : Present(s)}
  /\ peers' = [s \in Slots |-> "empty"]
  /\ phase' = "leaving"
  /\ UNCHANGED <<engineVars, mastersVars, held, modes, outbox, credit, joins>>

LeaveMasters ==
  /\ phase = "leaving"
  /\ MasterShutdown
  /\ phase' = "closing"
  /\ UNCHANGED <<engineVars, rosterVars, held, modes>>

CloseAll ==
  /\ phase = "closing"
  /\ Exit({"query", "game", "net", "log"})
  /\ UNCHANGED <<engineVars, mastersVars, rosterVars, modes>>

----------------------------------------------------------------------------
MastersAct == MasterSide /\ UNCHANGED <<engineVars, mainVars, rosterVars>>

StartUp ==
  \/ LoadData \/ NetInitFails \/ NetInit \/ BindFails \/ OpenSockets
  \/ ListMasters \/ ProbeMasters \/ ProbeEnds

MainLoop ==
  \/ Connect \/ GameSends \/ Tick
  \/ \E s \in Slots : EntersLobby(s) \/ Disconnect(s)
  \/ \E d \in 1..MaxStep : SecondTick(d)
  \/ \E a \in Addresses : Answers(a)

ModuleSteps == EngineStep \/ ModuleSends \/ ModuleScores

Shutdown == ModulesFail \/ FinalFlush \/ TellPlayers \/ LeaveMasters \/ CloseAll

Next ==
  /\ StartUp \/ MainLoop \/ ModuleSteps \/ Shutdown \/ MastersAct
  /\ UNCHANGED <<machine, settings>>

(* The loop ticks as long as it runs, and a master that is sent the same   *)
(* kind of datagram again and again receives one, and its answers come     *)
(* back: the network loses datagrams, but not all of them.                 *)
Fairness ==
  /\ WF_vars((\E d \in 1..MaxStep : SecondTick(d)) /\ UNCHANGED <<machine, settings>>)
  /\ \A a \in Addresses :
       /\ \A call \in {"secure", "query"} :
            SF_vars(fromMaster[a] = call /\ Answers(a) /\ UNCHANGED <<machine, settings>>)
       /\ \A hears \in {"heartbeat", "validate", "status"} :
            SF_vars(/\ toMaster[a].kind = hears /\ MasterHears(a)
                    /\ UNCHANGED <<engineVars, mainVars, rosterVars, machine, settings>>)

Spec == Init /\ [][Next]_vars /\ Fairness

----------------------------------------------------------------------------
(* main.c: "CLI always wins" over the configuration file, whatever file    *)
(* and arguments main may have read when it goes on to load data.          *)
CommandLineWins ==
  phase = "data" =>
    \A file \in Files, options \in Arguments : CommandLineWinsFor(file, options)

(* No master in use waits longer than the interval for a heartbeat, also   *)
(* when the millisecond clock starts over.                                 *)
BeatsAreTimely ==
  phase = "engine" => \A i \in InUse : idle[i] < Interval

(* Once nothing is under way and nothing was lost, a master that lists the *)
(* server shows the players that are there: every change of the roster is  *)
(* followed by news, whatever query or answer it crossed.                  *)
NewsReachesMasters ==
  \A a \in AddressesInUse :
    Serving /\ toMaster[a] = Nothing /\ fromMaster[a] = "nothing" /\ a \notin missed
      => listing[a] \in {Unlisted, Players}

(* main.c: "Unregister from master servers": after a shutdown no master    *)
(* whose last datagrams arrived shows a server that is gone, whether or    *)
(* not the server knew that it was listed.                                 *)
GoodbyeUnlists ==
  phase = "exited" /\ next \notin Modules =>
    \A i \in DOMAIN entries :
      LET a == entries[i].address
      IN toMaster[a] = Nothing /\ a \notin missed => listing[a] = Unlisted

(* What waits for a player was queued for that player, and the points of   *)
(* its slot were given to it: a module may address any slot, and one that  *)
(* was empty then is wiped before someone takes it.                        *)
SlotIsClean ==
  \A s \in Slots : Present(s) => "nobody" \notin outbox[s] \cup credit[s]

(* main.c: "Flush all pending outbox data before sending shutdown": no one *)
(* is told of the shutdown while a message waits for it, the last ones of  *)
(* the modules' shutdown callbacks included.                               *)
LastWordsSent == \A s \in told : outbox[s] = {}

(* However the server ends, it has released what it acquired.              *)
NothingHeld == phase = "exited" => held = {} /\ opened = {}

(* A master in use gets to list the server, or it stops, although each     *)
(* datagram may be lost and a master forget what it knew.                  *)
EventuallyListed ==
  \A a \in Addresses :
    (Serving /\ a \in AddressesInUse) ~> (listing[a] # Unlisted \/ ~Serving)
=============================================================================
