---------------------------- MODULE MatchScoring ----------------------------
(***************************************************************************)
(* The match: who is credited for damage and kills, how a score outlives   *)
(* its player's slot, and when the game ends and restarts.                 *)
(*                                                                         *)
(* Everything runs in the server's thread, one packet or one tick at a     *)
(* time.  What makes it hard is that credit is kept by slot: torpedoes in  *)
(* flight, the damage ledger, and scores outlive the ship, and some the    *)
(* player, they belong to, while slots are freed and taken again.          *)
(*                                                                         *)
(* The handshake is PeerSession's: here a player connects in one step.  A  *)
(* hit takes some points of shield and hull and may kill: how much, and    *)
(* from which facing, is the combat code's.                                *)
(***************************************************************************)
EXTENDS Integers, FiniteSets, Functions

CONSTANTS
  MaxSlots,        \* human slots (BC_MAX_PLAYERS - 1)
  Names,           \* player names
  NoName,          \* the name of a peer that has not sent one
  TeamMode,        \* g_team_mode
  UseScoreLimit,   \* g_use_score_limit: the limit is on scores, not on kills
  Limit,           \* g_frag_limit, in the unit the mode compares; 0 is none
  DamagePerPoint,  \* damage that makes one point of score
  Losses,          \* shield and hull points one hit may take
  CacheSize,       \* entries of g_reconnect_scores
  Tubes,           \* BC_MAX_TORPEDOES
  NoEntry,         \* an unused entry of the cache or of the torpedo table
  GhostsLinger,    \* a player may return before its old slot is timed out
  MaxSpawns,       \* bound: ships created in one round
  MaxDamage        \* bound: damage of one attacker on one ship in the ledger

ASSUME MatchAssumption ==
  /\ MaxSlots \in Nat \ {0} /\ CacheSize \in Nat \ {0} /\ Tubes \in Nat
  /\ NoName \notin Names
  /\ TeamMode \in BOOLEAN /\ UseScoreLimit \in BOOLEAN /\ GhostsLinger \in BOOLEAN
  /\ Limit \in Nat /\ DamagePerPoint \in Nat \ {0}
  /\ Losses \subseteq Nat
  /\ MaxSpawns \in Nat /\ MaxDamage \in Nat

(* An entry of the cache that is in use is not an unused one.              *)
ASSUME NoEntryAssumption ==
  NoEntry \notin [name : Names, tally : [score : Int, kills : Nat, deaths : Nat],
                  team : Nat, oldSlot : Nat]

Slots == 1..MaxSlots
Teams == 0..1
NoTeam == 255
Nobody == 0

VARIABLES
  occupied,   \* slots with a peer
  name,       \* name of each slot's peer
  ships,      \* slots with a ship that is alive
  classed,    \* slots whose class_index is set: had a ship in this round
  shipTeam,   \* team of each slot's ship
  team,       \* g_player_teams
  board,      \* g_player_scores, g_player_kills, g_player_deaths
  mirror,     \* the same numbers in each peer's record
  ledger,     \* g_damage_ledger[target][attacker]: shield and hull damage
  teamBoard,  \* g_team_scores, g_team_kills
  saved,      \* g_reconnect_scores
  torpedoes,  \* g_torpedoes
  ended,      \* g_game_ended; new players are accepted exactly while it is false
  spawns      \* ships created so far in this round

playerVars == <<occupied, name>>
shipVars == <<classed, shipTeam, team, spawns>>
scoreVars == <<board, mirror, ledger, teamBoard, ended, ships>>
vars == <<playerVars, shipVars, scoreVars, saved, torpedoes>>

Zero == [score |-> 0, kills |-> 0, deaths |-> 0]
ZeroTeam == [score |-> 0, kills |-> 0]
Undamaged == [a \in Slots |-> 0]

Init ==
  /\ occupied = {}
  /\ name = [s \in Slots |-> NoName]
  /\ ships = {}
  /\ classed = {}
  /\ shipTeam = [s \in Slots |-> NoTeam]
  /\ team = [s \in Slots |-> NoTeam]
  /\ board = [s \in Slots |-> Zero]
  /\ mirror = [s \in Slots |-> Zero]
  /\ ledger = [t \in Slots |-> Undamaged]
  /\ teamBoard = [t \in Teams |-> ZeroTeam]
  /\ saved = [i \in 1..CacheSize |-> NoEntry]
  /\ torpedoes = [i \in 1..Tubes |-> NoEntry]
  /\ ended = FALSE
  /\ spawns = 0

----------------------------------------------------------------------------
(* Scoring.  A game is the record of the variables a hit may change.       *)

Game == [board |-> board, mirror |-> mirror, ledger |-> ledger,
         teamBoard |-> teamBoard, ended |-> ended, ships |-> ships]

Becomes(game) ==
  /\ board' = game.board
  /\ mirror' = game.mirror
  /\ ledger' = game.ledger
  /\ teamBoard' = game.teamBoard
  /\ ended' = game.ended
  /\ ships' = game.ships

SameTeam(a, b) == team[a] # NoTeam /\ team[a] = team[b]

(* Damage to a team mate counts against the attacker.                      *)
RecordDamage(game, attacker, target, loss) ==
  IF attacker = Nobody THEN game
  ELSE LET damage == IF TeamMode /\ SameTeam(attacker, target) THEN - loss ELSE loss
       IN [game EXCEPT !.ledger[target][attacker] = @ + damage]

(* The cast to i32 rounds towards zero.                                    *)
Points(damage) ==
  IF damage >= 0 THEN damage \div DamagePerPoint ELSE - ((- damage) \div DamagePerPoint)

(* check_limit_after_kill                                                  *)
LimitReached(players, teams) ==
  /\ Limit > 0
  /\ \E one \in IF TeamMode THEN Range(teams) ELSE Range(players) :
       (IF UseScoreLimit THEN one.score ELSE one.kills) >= Limit

(* The team that gets the kill: the killer's, or, when a ship blew itself  *)
(* up, the one its player is not in.                                       *)
FraggingTeam(killer, victim, selfDestruct) ==
  CASE killer # Nobody -> IF SameTeam(killer, victim) THEN NoTeam ELSE team[killer]
    [] killer = Nobody /\ selfDestruct ->
         LET own == IF team[victim] = NoTeam THEN shipTeam[victim] ELSE team[victim]
         IN IF own \in Teams THEN 1 - own ELSE NoTeam
    [] OTHER -> NoTeam

(* Slip: only the victim's record is brought up to date.                   *)
SyncedVictim(killer, victim, points) == {victim} \cap occupied

(* sync_peer_score_slot, for everyone whose numbers change.                *)
Synced(killer, victim, points) ==
  ({victim, killer} \cup {a \in Slots : points[a] # 0}) \cap occupied

(* A death, a kill for who struck last unless it is a team mate, and       *)
(* points for everyone who did damage.                                     *)
Score(game, killer, victim, selfDestruct) ==
  LET points == [a \in Slots |-> Points(game.ledger[victim][a])]
      frag == killer # Nobody /\ ~ (TeamMode /\ SameTeam(killer, victim))
      scored == [s \in Slots |->
        [score |-> game.board[s].score + points[s],
         kills |-> game.board[s].kills + (IF frag /\ s = killer THEN 1 ELSE 0),
         deaths |-> game.board[s].deaths + (IF s = victim THEN 1 ELSE 0)]]
      teams == [t \in Teams |->
        [score |-> game.teamBoard[t].score
                     + SumFunctionOnSet(points, {a \in Slots : team[a] = t}),
         kills |-> game.teamBoard[t].kills
                     + (IF FraggingTeam(killer, victim, selfDestruct) = t THEN 1 ELSE 0)]]
  IN [game EXCEPT
        !.board = scored,
        !.mirror = [s \in Slots |-> IF s \in Synced(killer, victim, points)
                                   THEN scored[s] ELSE @[s]],
        !.teamBoard = IF TeamMode THEN teams ELSE @,
        !.ledger[victim] = Undamaged]

CheckLimit(game) == [game EXCEPT !.ended = LimitReached(game.board, game.teamBoard)]

(* Slips: kills still count when the game has ended; the limit is compared *)
(* with the numbers before this kill; the ship is not taken away.          *)
ProcessKillAlways(game, killer, victim, selfDestruct) ==
  CheckLimit(Score(game, killer, victim, selfDestruct))
ProcessKillCheckFirst(game, killer, victim, selfDestruct) ==
  IF game.ended THEN game ELSE Score(CheckLimit(game), killer, victim, selfDestruct)

(* process_ship_kill                                                       *)
ProcessKill(game, killer, victim, selfDestruct) ==
  IF game.ended THEN game ELSE CheckLimit(Score(game, killer, victim, selfDestruct))

KillLeavesShip(game, killer, victim, selfDestruct) ==
  ProcessKill(game, killer, victim, selfDestruct)

(* The ship is gone whether or not its loss still counts.                  *)
Kill(game, killer, victim, selfDestruct) ==
  [ProcessKill(game, killer, victim, selfDestruct) EXCEPT !.ships = @ \ {victim}]

(* A hit takes shield and hull from a ship, and may be its last.           *)
Hit(game, attacker, target, loss, last) ==
  LET hit == RecordDamage(game, attacker, target, loss)
  IN IF last THEN Kill(hit, attacker, target, FALSE) ELSE hit

(* Bound: what an attacker has done to one ship.                           *)
Bounded(game) ==
  \A t, a \in Slots : game.ledger[t][a] \in (- MaxDamage)..MaxDamage

Struck(game) ==
  /\ Bounded(game)
  /\ Becomes(game)
  /\ UNCHANGED <<playerVars, shipVars, saved>>

----------------------------------------------------------------------------
(* Combat.                                                                 *)

(* BeamFire: the damage is done while the packet is handled.               *)
BeamFire(shooter, target, loss, last) ==
  /\ shooter \in ships /\ target \in ships /\ shooter # target
  /\ Struck(Hit(Game, shooter, target, loss, last))
  /\ UNCHANGED torpedoes

(* TorpedoFire: the torpedo flies on its own from here, and knows its      *)
(* shooter by slot only.                                                   *)
TorpedoFire(shooter, target) ==
  /\ shooter \in ships /\ target \in ships /\ shooter # target
  /\ \E i \in 1..Tubes :
       /\ torpedoes[i] = NoEntry
       /\ \A j \in 1..(i - 1) : torpedoes[j] # NoEntry
       /\ torpedoes' = [torpedoes EXCEPT ![i] = [shooter |-> shooter, target |-> target]]
  /\ UNCHANGED <<playerVars, shipVars, scoreVars, saved>>

(* bc_torpedo_hit_callback: no damage is done for a shooter without class. *)
TorpedoHit(i, loss, last) ==
  /\ torpedoes[i] # NoEntry /\ torpedoes[i].target \in ships
  /\ torpedoes' = [torpedoes EXCEPT ![i] = NoEntry]
  /\ Struck(IF torpedoes[i].shooter \in classed
            THEN Hit(Game, torpedoes[i].shooter, torpedoes[i].target, loss, last)
            ELSE Game)

TorpedoExpires(i) ==
  /\ torpedoes[i] # NoEntry
  /\ torpedoes' = [torpedoes EXCEPT ![i] = NoEntry]
  /\ UNCHANGED <<playerVars, shipVars, scoreVars, saved>>

(* CollisionEffect between two ships, reported by the target's player: the *)
(* target is struck first, then the source, and each is credited with what *)
(* it did to the other; but the source's death to the target only if the   *)
(* target still flies.                                                     *)
CollideShips(source, target, loss, last, sourceLoss, sourceLast) ==
  /\ source \in ships /\ target \in ships /\ source # target
  /\ LET first == Hit(Game, source, target, loss, last)
         second == RecordDamage(first, target, source, sourceLoss)
         killer == IF target \in first.ships THEN target ELSE Nobody
     IN Struck(IF sourceLast THEN Kill(second, killer, source, FALSE) ELSE second)
  /\ UNCHANGED torpedoes

(* CollisionEffect with what is nobody's ship: no ledger, no credit.       *)
CollideAlone(s) ==
  /\ s \in ships
  /\ Struck(Kill(Game, Nobody, s, FALSE))
  /\ UNCHANGED torpedoes

(* HostMsg                                                                 *)
SelfDestruct(s) ==
  /\ s \in ships
  /\ Struck(Kill(Game, Nobody, s, TRUE))
  /\ UNCHANGED torpedoes

----------------------------------------------------------------------------
(* Ships and teams.                                                        *)

(* ObjCreateTeam: the player's team is set by its first ship; a ship sent  *)
(* while one is alive replaces it, team included.                          *)
ObjCreateTeam(s, t) ==
  /\ s \in occupied /\ spawns < MaxSpawns
  /\ spawns' = spawns + 1
  /\ team' = IF s \in ships THEN team ELSE [team EXCEPT ![s] = t]
  /\ shipTeam' = [shipTeam EXCEPT ![s] = t]
  /\ ships' = ships \cup {s}
  /\ classed' = classed \cup {s}
  /\ UNCHANGED <<playerVars, board, mirror, ledger, teamBoard, ended, saved, torpedoes>>

(* TeamMessage, from any peer: it names the player whose team it sets.     *)
TeamMessage(s, t) ==
  /\ TeamMode /\ occupied # {}
  /\ team' = [team EXCEPT ![s] = t]
  /\ shipTeam' = IF s \in ships THEN [shipTeam EXCEPT ![s] = t] ELSE shipTeam
  /\ UNCHANGED <<playerVars, classed, spawns, scoreVars, saved, torpedoes>>

----------------------------------------------------------------------------
(* Players.                                                                *)

(* Slip: the damage to s is cleared, the damage it did is not.             *)
LedgerWithoutRow(s) == [ledger EXCEPT ![s] = Undamaged]

(* The ledger without the damage done by s and to s.                       *)
LedgerWithout(s) ==
  [t \in Slots |-> IF t = s THEN Undamaged ELSE [ledger[t] EXCEPT ![s] = 0]]

(* bc_handle_connect: the first free slot, cleared.                        *)
Connect(s) ==
  /\ ~ ended
  /\ s \notin occupied /\ \A t \in 1..(s - 1) : t \in occupied
  /\ occupied' = occupied \cup {s}
  /\ board' = [board EXCEPT ![s] = Zero]
  /\ mirror' = [mirror EXCEPT ![s] = Zero]
  /\ team' = [team EXCEPT ![s] = NoTeam]
  /\ ledger' = LedgerWithout(s)
  /\ UNCHANGED <<name, ships, classed, shipTeam, spawns, teamBoard, ended, saved, torpedoes>>

Entries(n) == {i \in 1..CacheSize : saved[i] # NoEntry /\ saved[i].name = n}

(* Slips: the old slot is cleared whoever is there now; the entry stays.   *)
LeftBehindAnyway(s, i) == {saved[i].oldSlot} \ {s}
EntryKept(i) == saved

(* The old slot of entry i, if nobody has taken it since.                  *)
LeftBehind(s, i) == {saved[i].oldSlot} \ (occupied \cup {s})

EntryUsed(i) == [saved EXCEPT ![i] = NoEntry]

(* bc_try_restore_reconnect_score: the entry's numbers go to slot s, and   *)
(* what its old slot still shows is cleared.                               *)
Restore(s, i) ==
  LET left == LeftBehind(s, i)
  IN /\ board' = [t \in Slots |-> IF t = s THEN saved[i].tally
                                 ELSE IF t \in left THEN Zero ELSE board[t]]
     /\ mirror' = [mirror EXCEPT ![s] = saved[i].tally]
     /\ team' = [t \in Slots |-> IF t = s THEN saved[i].team
                                ELSE IF t \in left THEN NoTeam ELSE team[t]]
     /\ ledger' = [t \in Slots |-> IF t \in left THEN Undamaged
                                  ELSE [a \in Slots |-> IF a \in left THEN 0 ELSE ledger[t][a]]]
     /\ saved' = EntryUsed(i)

(* The first keepalive names the peer and brings back what it left behind. *)
Keepalive(s, n) ==
  /\ s \in occupied /\ name[s] = NoName
  /\ GhostsLinger \/ \A t \in occupied : name[t] # n
  /\ name' = [name EXCEPT ![s] = n]
  /\ IF Entries(n) = {}
     THEN UNCHANGED <<board, mirror, team, ledger, saved>>
     ELSE \E i \in Entries(n) : Restore(s, i)
  /\ UNCHANGED <<occupied, ships, classed, shipTeam, spawns, teamBoard, ended, torpedoes>>

(* reserve_reconnect_score_slot: the entry of that name, the first unused  *)
(* one, or the first.                                                      *)
EntryFor(n) ==
  LET unused == {i \in 1..CacheSize : saved[i] = NoEntry}
      candidates == IF Entries(n) # {} THEN Entries(n)
                    ELSE IF unused # {} THEN unused ELSE 1..CacheSize
  IN CHOOSE i \in candidates : \A j \in candidates : i <= j

(* bc_handle_peer_disconnect: the peer's numbers are saved under its name, *)
(* and stay in the slot until it is taken again.                           *)
Disconnect(s) ==
  LET own == IF s \in ships THEN shipTeam[s] ELSE team[s]
  IN /\ s \in occupied
     /\ board' = [board EXCEPT ![s] = mirror[s]]
     /\ team' = [team EXCEPT ![s] = own]
     /\ saved' = IF name[s] = NoName THEN saved
                 ELSE [saved EXCEPT ![EntryFor(name[s])] =
                         [name |-> name[s], tally |-> mirror[s], team |-> own, oldSlot |-> s]]
     /\ ledger' = LedgerWithout(s)
     /\ occupied' = occupied \ {s}
     /\ name' = [name EXCEPT ![s] = NoName]
     /\ ships' = ships \ {s}
     /\ classed' = classed \ {s}
     /\ shipTeam' = [shipTeam EXCEPT ![s] = NoTeam]
     /\ mirror' = [mirror EXCEPT ![s] = Zero]
     /\ UNCHANGED <<spawns, teamBoard, ended, torpedoes>>

----------------------------------------------------------------------------
(* The round.                                                              *)

TimeUp ==
  /\ ~ ended
  /\ ended' = TRUE
  /\ UNCHANGED <<playerVars, shipVars, board, mirror, ledger, teamBoard, ships, saved, torpedoes>>

(* RestartGame, from slot 1: reset_round_for_restart.                      *)
Restart ==
  /\ 1 \in occupied
  /\ Becomes([board |-> [s \in Slots |-> Zero], mirror |-> [s \in Slots |-> Zero],
              ledger |-> [t \in Slots |-> Undamaged],
              teamBoard |-> [t \in Teams |-> ZeroTeam], ended |-> FALSE, ships |-> {}])
  /\ saved' = [i \in 1..CacheSize |-> NoEntry]
  /\ torpedoes' = [i \in 1..Tubes |-> NoEntry]
  /\ team' = [s \in Slots |-> NoTeam]
  /\ classed' = {}
  /\ spawns' = 0
  /\ UNCHANGED <<playerVars, shipTeam>>

Combat ==
  \/ \E s, t \in Slots, loss \in Losses, last \in BOOLEAN : BeamFire(s, t, loss, last)
  \/ \E s, t \in Slots : TorpedoFire(s, t)
  \/ \E i \in 1..Tubes, loss \in Losses, last \in BOOLEAN : TorpedoHit(i, loss, last)
  \/ \E i \in 1..Tubes : TorpedoExpires(i)
  \/ \E s, t \in Slots, loss, sourceLoss \in Losses, last, sourceLast \in BOOLEAN :
       CollideShips(s, t, loss, last, sourceLoss, sourceLast)
  \/ \E s \in Slots : CollideAlone(s)
  \/ \E s \in Slots : SelfDestruct(s)

Players ==
  \/ \E s \in Slots : Connect(s)
  \/ \E s \in Slots, n \in Names : Keepalive(s, n)
  \/ \E s \in Slots : Disconnect(s)
  \/ \E s \in Slots, t \in IF TeamMode THEN Teams ELSE {0} : ObjCreateTeam(s, t)
  \/ \E s \in Slots, t \in Teams : TeamMessage(s, t)

Next == Combat \/ Players \/ TimeUp \/ Restart

Spec == Init /\ [][Next]_vars

----------------------------------------------------------------------------
(* What is counted of a player: a PlayerScore, and its mirror.             *)
Tally == [score : Int, kills : Nat, deaths : Nat]

(* The two copies of a player's numbers agree whenever a packet or a tick  *)
(* has been handled: a disconnect, which reads the peer's copy, saves what *)
(* the server-wide one has counted.                                        *)
TallyMirrored == \A s \in occupied : mirror[s] = board[s]

(* While the game is on, damage is owed only for a ship that still flies,  *)
(* and only to a player who is still there: nothing is left to be credited *)
(* to the next ship or the next player of a slot.                          *)
LedgerIsCurrent ==
  ~ ended => \A t, a \in Slots : ledger[t][a] # 0 => t \in ships /\ a \in occupied

(* A game that goes on has no player or team at the limit, through kills,  *)
(* restored scores and scores left behind in empty slots.                  *)
LimitEndsGame == ~ ended => ~ LimitReached(board, teamBoard)

(* Every kill that anyone has to show, in a slot or saved, is a ship lost  *)
(* in this round: reconnecting multiplies none, a loss counts once.        *)
KillsAreLosses ==
  LET inSlots == [s \in Slots |-> board[s].kills]
      kept == [i \in 1..CacheSize |-> IF saved[i] = NoEntry THEN 0 ELSE saved[i].tally.kills]
  IN SumFunctionOnSet(inSlots, occupied) + SumFunction(kept)
       <= spawns - Cardinality(ships)

(* The same for the kills of the two teams.                                *)
TeamKillsAreLosses ==
  SumFunction([t \in Teams |-> teamBoard[t].kills]) <= spawns - Cardinality(ships)

(* What is on record for a player.                                         *)
Records(n) ==
  {mirror[s] : s \in {t \in occupied : name[t] = n}} \cup {saved[i].tally : i \in Entries(n)}

(* gamemode-system.md: a player's "scoring entries are preserved": until a *)
(* restart, no step lowers the kills or deaths on record for a name.       *)
ScoreSurvives ==
  [][Restart \/ \A n \in Names : \A old \in Records(n) :
       \E new \in Records(n)' : new.kills >= old.kills /\ new.deaths >= old.deaths]_vars

(* Once the game has ended no hit, late torpedo or collision counts.       *)
FrozenAfterEnd ==
  [][ended /\ ended' =>
       /\ teamBoard' = teamBoard
       /\ \A s \in occupied \cap occupied' : name[s] # NoName => board'[s] = board[s]]_vars
=============================================================================
