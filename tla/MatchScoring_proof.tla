------------------------- MODULE MatchScoring_proof -------------------------
(***************************************************************************)
(* Proofs about MatchScoring for any number of slots, names, torpedoes and *)
(* saved scores, any limit, with and without teams.                        *)
(***************************************************************************)
EXTENDS MatchScoring, FoldLemmas

(* What the proof needs to know of the variables' types: the numbers are   *)
(* numbers.  Sums over players, and so the team scores, are left out.      *)
NumberTypes ==
  /\ occupied \subseteq Slots
  /\ board \in [Slots -> Tally] /\ mirror \in [Slots -> Tally]
  /\ ledger \in [Slots -> [Slots -> Int]]
  /\ DOMAIN saved = 1..CacheSize
  /\ \A i \in 1..CacheSize : saved[i] # NoEntry => saved[i].tally \in Tally
  /\ torpedoes \in [1..Tubes -> {NoEntry} \cup [shooter : Slots, target : Slots]]

IInv == NumberTypes /\ TallyMirrored

(* The same of the record on which a hit is computed.                      *)
GameFields == {"board", "mirror", "ledger", "teamBoard", "ended", "ships"}

GameTypes(game) ==
  /\ DOMAIN game = GameFields
  /\ game.board \in [Slots -> Tally] /\ game.mirror \in [Slots -> Tally]
  /\ game.ledger \in [Slots -> [Slots -> Int]]

Mirrored(game) == \A s \in occupied : game.mirror[s] = game.board[s]

Sound(game) == GameTypes(game) /\ Mirrored(game)

LEMMA ZeroTypes ==
  /\ Zero \in Tally
  /\ Undamaged \in [Slots -> Int]
  BY DEF Zero, Tally, Undamaged

LEMMA PointsType ==
  ASSUME NEW damage \in Int
  PROVE  Points(damage) \in Int
<1>1. DamagePerPoint \in Nat \ {0}
  BY MatchAssumption
<1>2. \A n \in Int : n \div DamagePerPoint \in Int
  BY <1>1
<1>3. QED
  BY <1>2 DEF Points

(***************************************************************************)
(* The steps of a hit, in the order of the code.                           *)
(***************************************************************************)
LEMMA RecordDamageSound ==
  ASSUME NEW game, Sound(game), NEW attacker \in Slots \cup {Nobody},
         NEW target \in Slots, NEW loss \in Losses
  PROVE  Sound(RecordDamage(game, attacker, target, loss))
<1>1. CASE attacker = Nobody
  BY <1>1 DEF RecordDamage
<1>2. CASE attacker # Nobody
  <2> DEFINE damage == IF TeamMode /\ SameTeam(attacker, target) THEN - loss ELSE loss
             hit == [game EXCEPT !.ledger[target][attacker] = @ + damage]
  <2>1. damage \in Int /\ attacker \in Slots
    BY <1>2, MatchAssumption
  <2>2. DOMAIN game = GameFields /\ game.ledger \in [Slots -> [Slots -> Int]]
    BY DEF Sound, GameTypes
  <2>3. /\ hit.board = game.board /\ hit.mirror = game.mirror /\ DOMAIN hit = GameFields
        /\ hit.ledger = [game.ledger EXCEPT ![target][attacker] = @ + damage]
    BY <2>2 DEF GameFields
  <2>4. hit.ledger \in [Slots -> [Slots -> Int]]
    BY <2>1, <2>2, <2>3
  <2>5. RecordDamage(game, attacker, target, loss) = hit
    BY <1>2 DEF RecordDamage
  <2> HIDE DEF hit, damage
  <2>6. QED
    BY <2>3, <2>4, <2>5 DEF Sound, GameTypes, Mirrored
<1>3. QED
  BY <1>1, <1>2

(* Who is not brought up to date has neither died, killed nor scored, and  *)
(* keeps its numbers.                                                      *)
LEMMA ScoreSound ==
  ASSUME occupied \subseteq Slots, NEW game, Sound(game),
         NEW killer \in Slots \cup {Nobody}, NEW victim \in Slots, NEW selfDestruct
  PROVE  Sound(Score(game, killer, victim, selfDestruct))
<1> DEFINE points == [a \in Slots |-> Points(game.ledger[victim][a])]
           frag == killer # Nobody /\ ~ (TeamMode /\ SameTeam(killer, victim))
           scored == [s \in Slots |->
             [score |-> game.board[s].score + points[s],
              kills |-> game.board[s].kills + (IF frag /\ s = killer THEN 1 ELSE 0),
              deaths |-> game.board[s].deaths + (IF s = victim THEN 1 ELSE 0)]]
           after == Score(game, killer, victim, selfDestruct)
<1>1. /\ DOMAIN game = GameFields
      /\ game.board \in [Slots -> Tally] /\ game.mirror \in [Slots -> Tally]
      /\ game.ledger \in [Slots -> [Slots -> Int]]
      /\ \A s \in occupied : game.mirror[s] = game.board[s]
  BY DEF Sound, GameTypes, Mirrored
<1>2. points \in [Slots -> Int]
  BY <1>1, PointsType
<1>3. scored \in [Slots -> Tally]
  <2> HIDE DEF points, frag
  <2>1. ASSUME NEW s \in Slots
        PROVE  scored[s] \in Tally
    <3>1. /\ game.board[s].score \in Int /\ game.board[s].kills \in Nat
          /\ game.board[s].deaths \in Nat /\ points[s] \in Int
      BY <1>1, <1>2 DEF Tally
    <3>2. QED
      BY <3>1 DEF Tally
  <2>2. QED
    BY <2>1
<1>4. ASSUME NEW s \in Slots, s \notin {victim, killer}, points[s] = 0
      PROVE  scored[s] = game.board[s]
  <2> HIDE DEF points, frag
  <2>1. game.board[s] \in Tally
    BY <1>1
  <2>2. /\ game.board[s].score \in Int /\ game.board[s].kills \in Nat
        /\ game.board[s].deaths \in Nat
        /\ game.board[s] = [score |-> game.board[s].score, kills |-> game.board[s].kills,
                            deaths |-> game.board[s].deaths]
    BY <2>1 DEF Tally
  <2>3. scored[s] = [score |-> game.board[s].score, kills |-> game.board[s].kills,
                     deaths |-> game.board[s].deaths]
    BY <1>4, <2>2
  <2>4. QED
    BY <2>2, <2>3
<1>5. /\ DOMAIN after = GameFields
      /\ after.board = scored
      /\ after.mirror = [s \in Slots |-> IF s \in Synced(killer, victim, points)
                                        THEN scored[s] ELSE game.mirror[s]]
      /\ after.ledger = [game.ledger EXCEPT ![victim] = Undamaged]
  BY <1>1 DEF Score, GameFields
<1> HIDE DEF points, frag, scored, after
<1>6. after.mirror \in [Slots -> Tally]
  BY <1>1, <1>3, <1>5
<1>7. after.ledger \in [Slots -> [Slots -> Int]]
  BY <1>1, <1>5, ZeroTypes
<1>8. ASSUME NEW s \in occupied
      PROVE  after.mirror[s] = after.board[s]
  <2>1. s \in Slots
    OBVIOUS
  <2>2. CASE s \in Synced(killer, victim, points)
    BY <1>5, <2>1, <2>2
  <2>3. CASE s \notin Synced(killer, victim, points)
    <3>1. s \notin {victim, killer} /\ points[s] = 0
      BY <2>1, <2>3 DEF Synced
    <3>2. QED
      BY <1>1, <1>4, <1>5, <2>1, <2>3, <3>1
  <2>4. QED
    BY <2>2, <2>3
<1>9. QED
  BY <1>3, <1>5, <1>6, <1>7, <1>8 DEF Sound, GameTypes, Mirrored, after

LEMMA KillSound ==
  ASSUME occupied \subseteq Slots, NEW game, Sound(game),
         NEW killer \in Slots \cup {Nobody}, NEW victim \in Slots, NEW selfDestruct
  PROVE  Sound(Kill(game, killer, victim, selfDestruct))
<1> DEFINE scored == Score(game, killer, victim, selfDestruct)
           limited == CheckLimit(scored)
           killed == ProcessKill(game, killer, victim, selfDestruct)
<1>1. Sound(scored)
  BY ScoreSound
<1> HIDE DEF scored
<1>2. Sound(limited)
  BY <1>1 DEF CheckLimit, Sound, GameTypes, GameFields, Mirrored
<1>3. Sound(killed)
  BY <1>2 DEF ProcessKill, scored
<1> HIDE DEF killed
<1>4. Sound([killed EXCEPT !.ships = @ \ {victim}])
  BY <1>3 DEF Sound, GameTypes, GameFields, Mirrored
<1>5. QED
  BY <1>4 DEF Kill, killed

LEMMA HitSound ==
  ASSUME occupied \subseteq Slots, NEW game, Sound(game),
         NEW attacker \in Slots \cup {Nobody}, NEW target \in Slots,
         NEW loss \in Losses, NEW last \in BOOLEAN
  PROVE  Sound(Hit(game, attacker, target, loss, last))
  BY RecordDamageSound, KillSound DEF Hit

LEMMA GameSound ==
  ASSUME IInv
  PROVE  Sound(Game) /\ occupied \subseteq Slots
  BY DEF IInv, NumberTypes, TallyMirrored, Sound, GameTypes, GameFields, Mirrored, Game

(* What a sound game becomes is a sound state.                             *)
LEMMA StruckInvariant ==
  ASSUME IInv, NEW game, Sound(game), Struck(game),
         torpedoes' \in [1..Tubes -> {NoEntry} \cup [shooter : Slots, target : Slots]]
  PROVE  IInv'
<1>1. /\ board' = game.board /\ mirror' = game.mirror /\ ledger' = game.ledger
      /\ occupied' = occupied /\ saved' = saved
  BY DEF Struck, Becomes, playerVars
<1>2. NumberTypes'
  BY <1>1 DEF IInv, NumberTypes, Sound, GameTypes
<1>3. TallyMirrored'
  BY <1>1 DEF TallyMirrored, Sound, Mirrored
<1>4. QED
  BY <1>2, <1>3 DEF IInv

----------------------------------------------------------------------------
(* The actions                                                             *)

LEMMA InitInvariant ==
  ASSUME Init
  PROVE  IInv
<1>1. NumberTypes
  BY ZeroTypes DEF Init, NumberTypes
<1>2. TallyMirrored
  BY DEF Init, TallyMirrored
<1>3. QED
  BY <1>1, <1>2 DEF IInv

LEMMA CombatInvariant ==
  ASSUME IInv, Combat
  PROVE  IInv'
<1>1. /\ Sound(Game) /\ occupied \subseteq Slots /\ Losses \subseteq Nat
      /\ torpedoes \in [1..Tubes -> {NoEntry} \cup [shooter : Slots, target : Slots]]
  BY GameSound, MatchAssumption DEF IInv, NumberTypes
<1>2. ASSUME NEW s \in Slots, NEW t \in Slots, NEW loss \in Losses, NEW last \in BOOLEAN,
             BeamFire(s, t, loss, last)
      PROVE  IInv'
  <2>1. Sound(Hit(Game, s, t, loss, last))
    BY <1>1, HitSound
  <2>2. QED
    BY <1>1, <1>2, <2>1, StruckInvariant DEF BeamFire
<1>3. ASSUME NEW s \in Slots, NEW t \in Slots, TorpedoFire(s, t)
      PROVE  IInv'
  <2>1. torpedoes' \in [1..Tubes -> {NoEntry} \cup [shooter : Slots, target : Slots]]
    BY <1>1, <1>3 DEF TorpedoFire
  <2>2. UNCHANGED <<occupied, board, mirror, ledger, saved>>
    BY <1>3 DEF TorpedoFire, playerVars, scoreVars
  <2>3. QED
    BY <2>1, <2>2 DEF IInv, NumberTypes, TallyMirrored
<1>4. ASSUME NEW i \in 1..Tubes, NEW loss \in Losses, NEW last \in BOOLEAN,
             TorpedoHit(i, loss, last)
      PROVE  IInv'
  <2>1. torpedoes[i] \in [shooter : Slots, target : Slots]
    BY <1>1, <1>4 DEF TorpedoHit
  <2>2. torpedoes' \in [1..Tubes -> {NoEntry} \cup [shooter : Slots, target : Slots]]
    BY <1>1, <1>4 DEF TorpedoHit
  <2>3. Sound(Hit(Game, torpedoes[i].shooter, torpedoes[i].target, loss, last))
    BY <1>1, <2>1, HitSound
  <2>4. Sound(IF torpedoes[i].shooter \in classed
              THEN Hit(Game, torpedoes[i].shooter, torpedoes[i].target, loss, last) ELSE Game)
    BY <1>1, <2>3
  <2>5. QED
    BY <1>4, <2>2, <2>4, StruckInvariant DEF TorpedoHit
<1>5. ASSUME NEW i \in 1..Tubes, TorpedoExpires(i)
      PROVE  IInv'
  <2>1. torpedoes' \in [1..Tubes -> {NoEntry} \cup [shooter : Slots, target : Slots]]
    BY <1>1, <1>5 DEF TorpedoExpires
  <2>2. UNCHANGED <<occupied, board, mirror, ledger, saved>>
    BY <1>5 DEF TorpedoExpires, playerVars, scoreVars
  <2>3. QED
    BY <2>1, <2>2 DEF IInv, NumberTypes, TallyMirrored
<1>6. ASSUME NEW s \in Slots, NEW t \in Slots, NEW loss \in Losses, NEW own \in Losses,
             NEW last \in BOOLEAN, NEW ownLast \in BOOLEAN,
             CollideShips(s, t, loss, last, own, ownLast)
      PROVE  IInv'
  <2> DEFINE first == Hit(Game, s, t, loss, last)
             second == RecordDamage(first, t, s, own)
             killer == IF t \in first.ships THEN t ELSE Nobody
             game == IF ownLast THEN Kill(second, killer, s, FALSE) ELSE second
  <2>1. Sound(first)
    BY <1>1, HitSound
  <2>2. Struck(game) /\ torpedoes' = torpedoes
    BY <1>6 DEF CollideShips
  <2> HIDE DEF first
  <2>3. Sound(second)
    BY <2>1, RecordDamageSound
  <2> HIDE DEF second
  <2>4. killer \in Slots \cup {Nobody}
    OBVIOUS
  <2> HIDE DEF killer
  <2>5. Sound(game)
    BY <1>1, <2>3, <2>4, KillSound
  <2> HIDE DEF game
  <2>6. QED
    BY <1>1, <2>2, <2>5, StruckInvariant
<1>7. ASSUME NEW s \in Slots, NEW selfDestruct \in BOOLEAN,
             Struck(Kill(Game, Nobody, s, selfDestruct)), UNCHANGED torpedoes
      PROVE  IInv'
  <2>1. Sound(Kill(Game, Nobody, s, selfDestruct))
    BY <1>1, KillSound
  <2>2. QED
    BY <1>1, <1>7, <2>1, StruckInvariant
<1>8. ASSUME NEW s \in Slots, CollideAlone(s) \/ SelfDestruct(s)
      PROVE  IInv'
  BY <1>7, <1>8 DEF CollideAlone, SelfDestruct
<1>9. QED
  BY <1>2, <1>3, <1>4, <1>5, <1>6, <1>8 DEF Combat

LEMMA LedgerWithoutType ==
  ASSUME ledger \in [Slots -> [Slots -> Int]], NEW s \in Slots
  PROVE  LedgerWithout(s) \in [Slots -> [Slots -> Int]]
  BY ZeroTypes DEF LedgerWithout

LEMMA ConnectInvariant ==
  ASSUME IInv, NEW s \in Slots, Connect(s)
  PROVE  IInv'
<1>1. /\ occupied' = occupied \cup {s} /\ saved' = saved /\ torpedoes' = torpedoes
      /\ board' = [board EXCEPT ![s] = Zero] /\ mirror' = [mirror EXCEPT ![s] = Zero]
      /\ ledger' = LedgerWithout(s)
  BY DEF Connect
<1>2. LedgerWithout(s) \in [Slots -> [Slots -> Int]]
  BY LedgerWithoutType DEF IInv, NumberTypes
<1>3. NumberTypes'
  BY <1>1, <1>2, ZeroTypes DEF IInv, NumberTypes
<1>4. TallyMirrored'
  BY <1>1 DEF IInv, NumberTypes, TallyMirrored
<1>5. QED
  BY <1>3, <1>4 DEF IInv

(* A restored score goes to both copies; an old slot that is cleared is    *)
(* nobody's.                                                               *)
LEMMA KeepaliveInvariant ==
  ASSUME IInv, NEW s \in Slots, NEW n \in Names, Keepalive(s, n)
  PROVE  IInv'
<1>1. occupied' = occupied /\ torpedoes' = torpedoes
  BY DEF Keepalive
<1>2. CASE UNCHANGED <<board, mirror, team, ledger, saved>>
  BY <1>1, <1>2 DEF IInv, NumberTypes, TallyMirrored
<1>3. ASSUME NEW i \in Entries(n), Restore(s, i)
      PROVE  IInv'
  <2> DEFINE left == LeftBehind(s, i)
  <2>1. i \in 1..CacheSize /\ saved[i] # NoEntry /\ saved[i].tally \in Tally
    BY <1>3 DEF Entries, IInv, NumberTypes
  <2>2. left \cap (occupied \cup {s}) = {}
    BY DEF LeftBehind
  <2>3. /\ board' = [t \in Slots |-> IF t = s THEN saved[i].tally
                                     ELSE IF t \in left THEN Zero ELSE board[t]]
        /\ mirror' = [mirror EXCEPT ![s] = saved[i].tally]
        /\ ledger' = [t \in Slots |-> IF t \in left THEN Undamaged
                        ELSE [a \in Slots |-> IF a \in left THEN 0 ELSE ledger[t][a]]]
        /\ saved' = [saved EXCEPT ![i] = NoEntry]
    BY <1>3 DEF Restore, EntryUsed
  <2> HIDE DEF left
  <2>4. /\ board' \in [Slots -> Tally] /\ mirror' \in [Slots -> Tally]
        /\ ledger' \in [Slots -> [Slots -> Int]]
    <3>1. /\ board \in [Slots -> Tally] /\ mirror \in [Slots -> Tally]
          /\ ledger \in [Slots -> [Slots -> Int]]
      BY DEF IInv, NumberTypes
    <3>2. board' \in [Slots -> Tally]
      BY <2>1, <2>3, <3>1, ZeroTypes
    <3>3. mirror' \in [Slots -> Tally]
      BY <2>1, <2>3, <3>1
    <3>4. \A t \in Slots : [a \in Slots |-> IF a \in left THEN 0 ELSE ledger[t][a]] \in [Slots -> Int]
      BY <3>1
    <3>5. ledger' \in [Slots -> [Slots -> Int]]
      BY <2>3, <3>4, ZeroTypes
    <3>6. QED
      BY <3>2, <3>3, <3>5
  <2>5. /\ DOMAIN saved' = 1..CacheSize
        /\ \A j \in 1..CacheSize : saved'[j] # NoEntry => saved'[j].tally \in Tally
    BY <2>1, <2>3 DEF IInv, NumberTypes
  <2>6. NumberTypes'
    BY <1>1, <2>4, <2>5 DEF IInv, NumberTypes
  <2>7. TallyMirrored'
    BY <1>1, <2>2, <2>3 DEF IInv, NumberTypes, TallyMirrored
  <2>8. QED
    BY <2>6, <2>7 DEF IInv
<1>4. QED
  BY <1>2, <1>3 DEF Keepalive

LEMMA DisconnectInvariant ==
  ASSUME IInv, NEW s \in Slots, Disconnect(s)
  PROVE  IInv'
<1> DEFINE own == IF s \in ships THEN shipTeam[s] ELSE team[s]
           entry == [name |-> name[s], tally |-> mirror[s], team |-> own, oldSlot |-> s]
<1>1. /\ occupied' = occupied \ {s} /\ torpedoes' = torpedoes
      /\ board' = [board EXCEPT ![s] = mirror[s]] /\ mirror' = [mirror EXCEPT ![s] = Zero]
      /\ ledger' = LedgerWithout(s)
      /\ saved' = IF name[s] = NoName THEN saved
                  ELSE [saved EXCEPT ![EntryFor(name[s])] = entry]
  BY DEF Disconnect
<1>2. entry.tally \in Tally
  BY DEF IInv, NumberTypes
<1> HIDE DEF entry
<1>3. /\ DOMAIN saved' = 1..CacheSize
      /\ \A j \in 1..CacheSize : saved'[j] # NoEntry => saved'[j].tally \in Tally
  BY <1>1, <1>2 DEF IInv, NumberTypes
<1>4. ledger' \in [Slots -> [Slots -> Int]]
  BY <1>1, LedgerWithoutType DEF IInv, NumberTypes
<1>5. NumberTypes'
  BY <1>1, <1>3, <1>4, ZeroTypes DEF IInv, NumberTypes
<1>6. TallyMirrored'
  BY <1>1 DEF IInv, NumberTypes, TallyMirrored
<1>7. QED
  BY <1>5, <1>6 DEF IInv

LEMMA RestartInvariant ==
  ASSUME IInv, Restart
  PROVE  IInv'
<1>1. /\ occupied' = occupied
      /\ board' = [s \in Slots |-> Zero] /\ mirror' = [s \in Slots |-> Zero]
      /\ ledger' = [t \in Slots |-> Undamaged]
      /\ saved' = [i \in 1..CacheSize |-> NoEntry]
      /\ torpedoes' = [i \in 1..Tubes |-> NoEntry]
  BY DEF Restart, Becomes, playerVars
<1>2. NumberTypes'
  BY <1>1, ZeroTypes DEF IInv, NumberTypes
<1>3. TallyMirrored'
  BY <1>1 DEF IInv, NumberTypes, TallyMirrored
<1>4. QED
  BY <1>2, <1>3 DEF IInv

LEMMA InductiveInvariant == Spec => []IInv
<1>1. IInv /\ [Next]_vars => IInv'
  <2> SUFFICES ASSUME IInv, [Next]_vars PROVE IInv'
    OBVIOUS
  <2>1. CASE Combat
    BY <2>1, CombatInvariant
  <2>2. ASSUME NEW s \in Slots, Connect(s)
        PROVE  IInv'
    BY <2>2, ConnectInvariant
  <2>3. ASSUME NEW s \in Slots, NEW n \in Names, Keepalive(s, n)
        PROVE  IInv'
    BY <2>3, KeepaliveInvariant
  <2>4. ASSUME NEW s \in Slots, Disconnect(s)
        PROVE  IInv'
    BY <2>4, DisconnectInvariant
  <2>5. CASE UNCHANGED <<occupied, board, mirror, ledger, saved, torpedoes>>
    BY <2>5 DEF IInv, NumberTypes, TallyMirrored
  <2>6. ASSUME NEW s \in Slots, NEW t, ObjCreateTeam(s, t) \/ TeamMessage(s, t)
        PROVE  IInv'
    BY <2>5, <2>6 DEF ObjCreateTeam, TeamMessage, playerVars, scoreVars
  <2>7. CASE TimeUp
    BY <2>5, <2>7 DEF TimeUp, playerVars
  <2>8. CASE Restart
    BY <2>8, RestartInvariant
  <2>9. CASE UNCHANGED vars
    BY <2>5, <2>9 DEF vars, playerVars, scoreVars
  <2>10. QED
    BY <2>1, <2>2, <2>3, <2>4, <2>6, <2>7, <2>8, <2>9 DEF Next, Players
<1>2. QED
  BY <1>1, InitInvariant, PTL DEF Spec

(* Every path that changes a score (process_ship_kill, connecting,         *)
(* restoring, leaving, restarting) writes both copies of it: the server's  *)
(* and the peer's, which is the one a disconnect saves.                    *)
THEOREM TallyAgrees == Spec => []TallyMirrored
<1>1. IInv => TallyMirrored
  BY DEF IInv
<1>2. QED
  BY <1>1, InductiveInvariant, PTL

----------------------------------------------------------------------------
(* Credit: the ledger, the limit and the kills                             *)

TeamTally == [score : Int, kills : Nat]

(* Ships and classes belong to players who are there.                      *)
PlayTypes ==
  /\ ships \subseteq occupied /\ classed \subseteq occupied
  /\ teamBoard \in [Teams -> TeamTally]
  /\ spawns \in Nat

Reaches(one) == Limit > 0 /\ (IF UseScoreLimit THEN one.score ELSE one.kills) >= Limit

(* What will be restored does not end the game either.                     *)
SavedWithinLimit ==
  ~ ended /\ ~ TeamMode =>
    \A i \in 1..CacheSize : saved[i] # NoEntry => ~ Reaches(saved[i].tally)

SlotKills(players) == SumFunctionOnSet([s \in Slots |-> players[s].kills], occupied)
SavedKills(i) == IF saved[i] = NoEntry THEN 0 ELSE saved[i].tally.kills
CacheEntries == 1..CacheSize
KeptKills == SumFunctionOnSet([i \in CacheEntries |-> SavedKills(i)], CacheEntries)
TeamKills(teams) == SumFunctionOnSet([t \in Teams |-> teams[t].kills], Teams)

(* The properties, of the record on which a hit is computed.               *)
Current(game) ==
  ~ game.ended => \A t, a \in Slots :
    game.ledger[t][a] # 0 => t \in game.ships /\ a \in occupied

Within(game) == ~ game.ended => ~ LimitReached(game.board, game.teamBoard)

Lost(game) == spawns - Cardinality(game.ships)

Counted(game) ==
  /\ SlotKills(game.board) + KeptKills <= Lost(game)
  /\ TeamKills(game.teamBoard) <= Lost(game)

Credited(game) ==
  /\ game.ships \subseteq occupied /\ game.teamBoard \in [Teams -> TeamTally]
  /\ Current(game) /\ Within(game) /\ Counted(game)
  /\ ended => game.ended

KillsCounted ==
  /\ SlotKills(board) + KeptKills <= spawns - Cardinality(ships)
  /\ TeamKills(teamBoard) <= spawns - Cardinality(ships)

CInv ==
  /\ IInv /\ PlayTypes /\ SavedWithinLimit
  /\ LedgerIsCurrent /\ LimitEndsGame /\ KillsCounted

LEMMA SlotsFinite ==
  /\ \A R \in SUBSET Slots : IsFiniteSet(R) /\ Cardinality(R) \in Nat
  /\ IsFiniteSet(CacheEntries) /\ IsFiniteSet(Teams)
<1>1. IsFiniteSet(Slots) /\ IsFiniteSet(CacheEntries) /\ IsFiniteSet(Teams)
  <2>1. MaxSlots \in Int /\ CacheSize \in Int
    BY MatchAssumption
  <2>2. ASSUME NEW n \in Int PROVE IsFiniteSet(1..n)
    BY FS_Interval
  <2>3. IsFiniteSet({0} \cup {1})
    BY FS_Singleton, OneMore
  <2>4. IsFiniteSet(Slots) /\ IsFiniteSet(CacheEntries)
    BY <2>1, <2>2 DEF Slots, CacheEntries
  <2>5. IsFiniteSet(Teams)
    <3>1. Teams = {0} \cup {1}
      BY DEF Teams
    <3>2. QED
      BY <2>3, <3>1
  <2>6. QED
    BY <2>4, <2>5
<1>2. QED
  BY <1>1, FS_Subset, FS_CardinalityType

LEMMA LimitReachedBy ==
  ASSUME NEW players \in [Slots -> Tally], NEW teams \in [Teams -> TeamTally]
  PROVE  LimitReached(players, teams) <=>
           IF TeamMode THEN \E t \in Teams : Reaches(teams[t])
           ELSE \E s \in Slots : Reaches(players[s])
  BY DEF LimitReached, Reaches, Range

OnlyDamage(game, hit, attacker, target) ==
  /\ hit.board = game.board /\ hit.teamBoard = game.teamBoard
  /\ hit.ended = game.ended /\ hit.ships = game.ships
  /\ \A t, a \in Slots : ~ (t = target /\ a = attacker) =>
       hit.ledger[t][a] = game.ledger[t][a]

LEMMA RecordDamageEffect ==
  ASSUME NEW game, GameTypes(game), NEW attacker \in Slots \cup {Nobody},
         NEW target \in Slots, NEW loss \in Losses
  PROVE  OnlyDamage(game, RecordDamage(game, attacker, target, loss), attacker, target)
<1>1. CASE attacker = Nobody
  BY <1>1 DEF RecordDamage, OnlyDamage
<1>2. CASE attacker # Nobody
  <2> DEFINE damage == IF TeamMode /\ SameTeam(attacker, target) THEN - loss ELSE loss
             hit == [game EXCEPT !.ledger[target][attacker] = @ + damage]
  <2>1. DOMAIN game = GameFields /\ game.ledger \in [Slots -> [Slots -> Int]]
    BY DEF GameTypes
  <2>2. /\ hit.board = game.board /\ hit.teamBoard = game.teamBoard
        /\ hit.ended = game.ended /\ hit.ships = game.ships
        /\ hit.ledger = [game.ledger EXCEPT ![target][attacker] = @ + damage]
    BY <2>1 DEF GameFields
  <2>3. RecordDamage(game, attacker, target, loss) = hit
    BY <1>2 DEF RecordDamage
  <2> HIDE DEF hit, damage
  <2>4. \A t, a \in Slots : ~ (t = target /\ a = attacker) =>
          hit.ledger[t][a] = game.ledger[t][a]
    BY <2>1, <2>2
  <2>5. OnlyDamage(game, hit, attacker, target)
    BY <2>2, <2>4 DEF OnlyDamage
  <2>6. QED
    BY <2>3, <2>5
<1>3. QED
  BY <1>1, <1>2

(* What a death may add to the numbers.                                    *)
OneKill(game, after, killer) ==
  /\ \A s \in Slots :
       /\ after.board[s].kills \in {game.board[s].kills, game.board[s].kills + 1}
       /\ s # killer => after.board[s].kills = game.board[s].kills
       /\ after.board[s].deaths >= game.board[s].deaths
  /\ \E one : \A t \in Teams :
       after.teamBoard[t].kills \in
         {game.teamBoard[t].kills, game.teamBoard[t].kills + (IF t = one THEN 1 ELSE 0)}

Scored(game, after, killer, victim) ==
  /\ DOMAIN after = GameFields
  /\ after.ended = game.ended /\ after.ships = game.ships
  /\ after.ledger = [game.ledger EXCEPT ![victim] = Undamaged]
  /\ after.teamBoard \in [Teams -> TeamTally]
  /\ OneKill(game, after, killer)

LEMMA ScoreEffect ==
  ASSUME NEW game, GameTypes(game), game.teamBoard \in [Teams -> TeamTally],
         NEW killer \in Slots \cup {Nobody}, NEW victim \in Slots, NEW selfDestruct
  PROVE  Scored(game, Score(game, killer, victim, selfDestruct), killer, victim)
<1> DEFINE points == [a \in Slots |-> Points(game.ledger[victim][a])]
           frag == killer # Nobody /\ ~ (TeamMode /\ SameTeam(killer, victim))
           team_(t) == SumFunctionOnSet(points, {a \in Slots : team[a] = t})
           one == FraggingTeam(killer, victim, selfDestruct)
           scored == [s \in Slots |->
             [score |-> game.board[s].score + points[s],
              kills |-> game.board[s].kills + (IF frag /\ s = killer THEN 1 ELSE 0),
              deaths |-> game.board[s].deaths + (IF s = victim THEN 1 ELSE 0)]]
           teams == [t \in Teams |->
             [score |-> game.teamBoard[t].score + team_(t),
              kills |-> game.teamBoard[t].kills + (IF one = t THEN 1 ELSE 0)]]
           after == Score(game, killer, victim, selfDestruct)
<1>1. /\ DOMAIN game = GameFields
      /\ game.board \in [Slots -> Tally]
      /\ game.ledger \in [Slots -> [Slots -> Int]]
  BY DEF GameTypes
<1>2. points \in [Slots -> Int]
  BY <1>1, PointsType
<1> HIDE DEF points
<1>3. \A t \in Teams : team_(t) \in Int
  BY <1>2, SlotsFinite, SumStep
<1>4. /\ DOMAIN after = GameFields
      /\ after.board = scored /\ after.ended = game.ended /\ after.ships = game.ships
      /\ after.ledger = [game.ledger EXCEPT ![victim] = Undamaged]
      /\ after.teamBoard = IF TeamMode THEN teams ELSE game.teamBoard
  BY <1>1 DEF Score, GameFields, points
<1> HIDE DEF team_, frag, one, after
<1>5. \A s \in Slots :
        /\ game.board[s].kills \in Nat /\ game.board[s].deaths \in Nat
        /\ scored[s].kills = game.board[s].kills + (IF frag /\ s = killer THEN 1 ELSE 0)
        /\ scored[s].deaths = game.board[s].deaths + (IF s = victim THEN 1 ELSE 0)
  BY <1>1 DEF Tally
<1>6. teams \in [Teams -> TeamTally]
  BY <1>3 DEF TeamTally
<1>7. \A t \in Teams :
        /\ game.teamBoard[t].kills \in Nat
        /\ teams[t].kills = game.teamBoard[t].kills + (IF t = one THEN 1 ELSE 0)
  BY DEF TeamTally
<1> HIDE DEF teams, scored
<1>8. \A s \in Slots :
        /\ after.board[s].kills \in {game.board[s].kills, game.board[s].kills + 1}
        /\ s # killer => after.board[s].kills = game.board[s].kills
        /\ after.board[s].deaths >= game.board[s].deaths
  BY <1>4, <1>5
<1>9. \A t \in Teams :
        after.teamBoard[t].kills \in
          {game.teamBoard[t].kills, game.teamBoard[t].kills + (IF t = one THEN 1 ELSE 0)}
  BY <1>4, <1>7
<1>10. OneKill(game, after, killer)
  BY <1>8, <1>9 DEF OneKill
<1>11. Scored(game, after, killer, victim)
  BY <1>4, <1>6, <1>10 DEF Scored
<1>12. QED
  BY <1>11 DEF after

(* A lost ship makes room for one kill, of one player and of one team.     *)
LEMMA KillCounted ==
  ASSUME IInv, PlayTypes,
         NEW game, GameTypes(game), Credited(game), NEW after,
         NEW killer, NEW victim \in game.ships,
         after.ships = game.ships \ {victim},
         after.board \in [Slots -> Tally], after.teamBoard \in [Teams -> TeamTally],
         OneKill(game, after, killer)
  PROVE  Counted(after)
<1> DEFINE before == [s \in Slots |-> game.board[s].kills]
           now == [s \in Slots |-> after.board[s].kills]
           teamBefore == [t \in Teams |-> game.teamBoard[t].kills]
           teamNow == [t \in Teams |-> after.teamBoard[t].kills]
<1>1. /\ occupied \subseteq Slots /\ game.ships \subseteq occupied
      /\ IsFiniteSet(occupied) /\ IsFiniteSet(game.ships) /\ IsFiniteSet(Teams)
  BY SlotsFinite DEF IInv, NumberTypes, Credited
<1>2. Lost(after) = Lost(game) + 1 /\ Lost(game) \in Int
  <2>1. /\ Cardinality(game.ships \ {victim}) = Cardinality(game.ships) - 1
        /\ Cardinality(game.ships) \in Nat
    BY <1>1, OneLess
  <2>2. Cardinality(after.ships) = Cardinality(game.ships \ {victim})
    BY Zenon
  <2> DEFINE left == Cardinality(after.ships)
             were == Cardinality(game.ships)
  <2>3. left = were - 1 /\ were \in Nat
    BY <2>1, <2>2, Zenon
  <2> HIDE DEF left, were
  <2>4. spawns \in Nat
    BY DEF PlayTypes
  <2>5. spawns - left = (spawns - were) + 1 /\ spawns - were \in Int
    BY <2>3, <2>4
  <2>6. QED
    BY <2>5 DEF Lost, left, were
<1>3. /\ \A s \in occupied : before[s] \in Nat /\ now[s] \in Nat
      /\ \A s \in occupied : now[s] = before[s] \/ (s = killer /\ now[s] = before[s] + 1)
  BY <1>1 DEF GameTypes, Tally, OneKill
<1>4. /\ SumFunctionOnSet(before, occupied) \in Int /\ SumFunctionOnSet(now, occupied) \in Int
      /\ SumFunctionOnSet(now, occupied) <= SumFunctionOnSet(before, occupied) + 1
  <2> HIDE DEF now, before
  <2>1. GrownAt(occupied, before, now, killer)
    BY <1>3 DEF GrownAt
  <2>2. QED
    BY <1>1, <2>1, SumGrown
<1>5. PICK one : \A t \in Teams :
        after.teamBoard[t].kills \in
          {game.teamBoard[t].kills, game.teamBoard[t].kills + (IF t = one THEN 1 ELSE 0)}
  BY DEF OneKill
<1>6. GrownAt(Teams, teamBefore, teamNow, one)
  <2>1. \A t \in Teams : game.teamBoard[t].kills \in Nat
    BY DEF Credited, TeamTally
  <2>2. QED
    BY <1>5, <2>1 DEF GrownAt
<1>7. /\ SumFunctionOnSet(teamBefore, Teams) \in Int /\ SumFunctionOnSet(teamNow, Teams) \in Int
      /\ SumFunctionOnSet(teamNow, Teams) <= SumFunctionOnSet(teamBefore, Teams) + 1
  <2> HIDE DEF teamNow, teamBefore
  <2>1. QED
    BY <1>1, <1>6, SumGrown
<1>8. KeptKills \in Int
  <2>1. ASSUME NEW i \in CacheEntries PROVE SavedKills(i) \in Int
    <3>1. saved[i] # NoEntry => saved[i].tally.kills \in Nat
      BY DEF IInv, NumberTypes, Tally, CacheEntries
    <3>2. QED
      BY <3>1 DEF SavedKills
  <2>2. QED
    BY <2>1, SlotsFinite, SumStep DEF KeptKills
<1>9. /\ SlotKills(game.board) = SumFunctionOnSet(before, occupied)
      /\ SlotKills(after.board) = SumFunctionOnSet(now, occupied)
      /\ TeamKills(game.teamBoard) = SumFunctionOnSet(teamBefore, Teams)
      /\ TeamKills(after.teamBoard) = SumFunctionOnSet(teamNow, Teams)
  BY DEF SlotKills, TeamKills
<1> HIDE DEF now, before, teamNow, teamBefore
<1>10. SlotKills(after.board) + KeptKills <= Lost(after)
  BY <1>2, <1>4, <1>8, <1>9 DEF Credited, Counted
<1>11. TeamKills(after.teamBoard) <= Lost(after)
  BY <1>2, <1>7, <1>9 DEF Credited, Counted
<1>12. QED
  BY <1>10, <1>11 DEF Counted

LEMMA KillCredited ==
  ASSUME IInv, PlayTypes,
         NEW game, Sound(game), Credited(game),
         NEW killer \in Slots \cup {Nobody}, NEW victim \in game.ships, NEW selfDestruct
  PROVE  Credited(Kill(game, killer, victim, selfDestruct))
<1> DEFINE scored == Score(game, killer, victim, selfDestruct)
           limited == CheckLimit(scored)
           killed == ProcessKill(game, killer, victim, selfDestruct)
           after == Kill(game, killer, victim, selfDestruct)
<1>1. /\ occupied \subseteq Slots /\ victim \in Slots
      /\ GameTypes(game) /\ game.teamBoard \in [Teams -> TeamTally]
      /\ game.ships \subseteq occupied
  BY DEF IInv, NumberTypes, Credited, Sound
<1>2. DOMAIN killed = GameFields
  <2>1. DOMAIN scored = GameFields
    BY <1>1, ScoreEffect DEF Scored
  <2> HIDE DEF scored
  <2>2. DOMAIN limited = GameFields
    BY <2>1 DEF CheckLimit
  <2>3. QED
    BY <1>1, <2>2 DEF ProcessKill, GameTypes, scored
<1>3. /\ after.board = killed.board /\ after.teamBoard = killed.teamBoard
      /\ after.ended = killed.ended /\ after.ledger = killed.ledger
      /\ after.ships = killed.ships \ {victim}
  <2> HIDE DEF killed
  <2>1. after = [killed EXCEPT !.ships = @ \ {victim}]
    BY DEF Kill, killed
  <2>2. QED
    BY <1>2, <2>1 DEF GameFields
<1>4. Sound(after)
  BY <1>1, KillSound
<1>5. CASE game.ended
  <2>1. killed = game
    BY <1>5 DEF ProcessKill
  <2> HIDE DEF killed, after
  <2>2. after.board \in [Slots -> Tally]
    BY <1>4 DEF Sound, GameTypes
  <2>3. OneKill(game, after, killer)
    <3>1. after.board = game.board /\ after.teamBoard = game.teamBoard
      BY <1>3, <2>1
    <3>2. /\ \A s \in Slots : game.board[s].deaths \in Nat
          /\ \A t \in Teams : game.teamBoard[t].kills \in Nat
      BY <1>1 DEF GameTypes, Tally, TeamTally
    <3>3. QED
      BY <3>1, <3>2 DEF OneKill
  <2>4. Counted(after)
    BY <1>1, <1>3, <2>1, <2>2, <2>3, KillCounted
  <2>5. Current(after) /\ Within(after)
    BY <1>3, <1>5, <2>1 DEF Current, Within
  <2>6. Credited(after)
    BY <1>1, <1>3, <2>1, <2>4, <2>5 DEF Credited
  <2>7. QED
    BY <2>6 DEF after
<1>6. CASE ~ game.ended
  <2>1. /\ DOMAIN scored = GameFields
        /\ scored.ended = game.ended /\ scored.ships = game.ships
        /\ scored.ledger = [game.ledger EXCEPT ![victim] = Undamaged]
        /\ scored.teamBoard \in [Teams -> TeamTally]
        /\ OneKill(game, scored, killer)
    BY <1>1, ScoreEffect DEF Scored
  <2>2. killed = limited
    BY <1>6 DEF ProcessKill
  <2> HIDE DEF scored, killed, after
  <2>3. /\ killed.board = scored.board /\ killed.teamBoard = scored.teamBoard
        /\ killed.ships = game.ships /\ killed.ledger = scored.ledger
        /\ killed.ended = LimitReached(scored.board, scored.teamBoard)
    BY <2>1, <2>2 DEF CheckLimit, GameFields
  <2>4. after.board \in [Slots -> Tally]
    BY <1>4 DEF Sound, GameTypes
  <2>5. Within(after)
    BY <1>3, <2>3 DEF Within
  <2>6. Current(after)
    <3>1. SUFFICES ASSUME NEW t \in Slots, NEW a \in Slots, after.ledger[t][a] # 0
                   PROVE  t \in after.ships /\ a \in occupied
      BY DEF Current
    <3>2. after.ledger = [game.ledger EXCEPT ![victim] = Undamaged]
          /\ game.ledger \in [Slots -> [Slots -> Int]]
      BY <1>1, <1>3, <2>1, <2>3 DEF GameTypes
    <3>3. t # victim /\ game.ledger[t][a] # 0
      BY <1>1, <3>1, <3>2 DEF Undamaged
    <3>4. t \in game.ships /\ a \in occupied
      BY <1>6, <3>3 DEF Credited, Current
    <3>5. QED
      BY <1>3, <2>3, <3>3, <3>4
  <2>7. Counted(after)
    <3>1. after.ships = game.ships \ {victim} /\ after.teamBoard = scored.teamBoard
          /\ after.board = scored.board
      BY <1>3, <2>3
    <3>2. /\ \A s \in Slots : after.board[s] = scored.board[s]
          /\ \A t \in Teams : after.teamBoard[t] = scored.teamBoard[t]
      BY <3>1
    <3>3. OneKill(game, after, killer)
      <4>1. PICK one : \A t \in Teams :
              scored.teamBoard[t].kills \in
                {game.teamBoard[t].kills, game.teamBoard[t].kills + (IF t = one THEN 1 ELSE 0)}
        BY <2>1 DEF OneKill
      <4>2. \A t \in Teams :
              after.teamBoard[t].kills \in
                {game.teamBoard[t].kills, game.teamBoard[t].kills + (IF t = one THEN 1 ELSE 0)}
        BY <3>2, <4>1
      <4>3. \A s \in Slots :
              /\ after.board[s].kills \in {game.board[s].kills, game.board[s].kills + 1}
              /\ s # killer => after.board[s].kills = game.board[s].kills
              /\ after.board[s].deaths >= game.board[s].deaths
        BY <2>1, <3>2 DEF OneKill
      <4>4. QED
        BY <4>2, <4>3 DEF OneKill
    <3>4. QED
      BY <1>1, <2>1, <2>4, <3>1, <3>3, KillCounted
  <2>8. /\ after.ships \subseteq occupied /\ after.teamBoard \in [Teams -> TeamTally]
        /\ ended => after.ended
    BY <1>1, <1>3, <1>6, <2>1, <2>3 DEF Credited
  <2>9. Credited(after)
    BY <2>5, <2>6, <2>7, <2>8 DEF Credited
  <2>10. QED
    BY <2>9 DEF after
<1>7. QED
  BY <1>5, <1>6

LEMMA RecordDamageCredited ==
  ASSUME IInv, PlayTypes, NEW game, Sound(game), Credited(game),
         NEW attacker \in occupied \cup {Nobody}, NEW target \in game.ships, NEW loss \in Losses
  PROVE  Credited(RecordDamage(game, attacker, target, loss))
<1> DEFINE hit == RecordDamage(game, attacker, target, loss)
<1>1. /\ occupied \subseteq Slots /\ target \in Slots /\ GameTypes(game)
      /\ attacker \in Slots \cup {Nobody}
  BY DEF IInv, NumberTypes, Credited, Sound
<1>2. CASE attacker = Nobody
  BY <1>2 DEF RecordDamage
<1>3. CASE attacker \in occupied
  <2>1. OnlyDamage(game, hit, attacker, target)
    BY <1>1, RecordDamageEffect
  <2> HIDE DEF hit
  <2>2. Current(hit)
    BY <1>1, <1>3, <2>1 DEF Credited, Current, OnlyDamage
  <2>3. Within(hit) /\ Counted(hit)
    BY <2>1, Zenon DEF Credited, Within, Counted, Lost, OnlyDamage
  <2>4. /\ hit.ships \subseteq occupied /\ hit.teamBoard \in [Teams -> TeamTally]
        /\ ended => hit.ended
    BY <2>1 DEF Credited, OnlyDamage
  <2>5. Credited(hit)
    BY <2>2, <2>3, <2>4 DEF Credited
  <2>6. QED
    BY <2>5 DEF hit
<1>4. QED
  BY <1>2, <1>3

LEMMA HitCredited ==
  ASSUME IInv, PlayTypes, NEW game, Sound(game), Credited(game),
         NEW attacker \in occupied \cup {Nobody}, NEW target \in game.ships,
         NEW loss \in Losses, NEW last \in BOOLEAN
  PROVE  Credited(Hit(game, attacker, target, loss, last))
<1> DEFINE hit == RecordDamage(game, attacker, target, loss)
<1>1. attacker \in Slots \cup {Nobody} /\ target \in Slots
  BY DEF IInv, NumberTypes, Credited
<1>2. Sound(hit) /\ Credited(hit) /\ hit.ships = game.ships
  BY <1>1, RecordDamageSound, RecordDamageCredited, RecordDamageEffect DEF Sound, OnlyDamage
<1> HIDE DEF hit
<1>3. Credited(Kill(hit, attacker, target, FALSE))
  BY <1>1, <1>2, KillCredited
<1>4. QED
  BY <1>2, <1>3 DEF Hit, hit

(* A hit takes no ship but its target.                                     *)
LEMMA HitLeavesOthers ==
  ASSUME occupied \subseteq Slots, NEW game, Sound(game), game.teamBoard \in [Teams -> TeamTally],
         NEW attacker \in Slots \cup {Nobody}, NEW target \in Slots,
         NEW loss \in Losses, NEW last \in BOOLEAN, NEW s \in game.ships, s # target
  PROVE  s \in Hit(game, attacker, target, loss, last).ships
<1> DEFINE hit == RecordDamage(game, attacker, target, loss)
           scored == Score(hit, attacker, target, FALSE)
           killed == ProcessKill(hit, attacker, target, FALSE)
<1>1. /\ Sound(hit) /\ GameTypes(hit) /\ hit.ships = game.ships
      /\ hit.teamBoard \in [Teams -> TeamTally]
  BY RecordDamageSound, RecordDamageEffect DEF OnlyDamage, Sound
<1> HIDE DEF hit
<1>2. DOMAIN scored = GameFields /\ scored.ships = game.ships
  <2>1. Scored(hit, scored, attacker, target)
    BY <1>1, ScoreEffect
  <2>2. QED
    BY <1>1, <2>1 DEF Scored
<1> HIDE DEF scored
<1>3. DOMAIN killed = GameFields /\ killed.ships = game.ships
  BY <1>1, <1>2 DEF ProcessKill, CheckLimit, GameFields, Sound, GameTypes, scored
<1> HIDE DEF killed
<1>4. s \in Kill(hit, attacker, target, FALSE).ships
  <2>1. Kill(hit, attacker, target, FALSE) = [killed EXCEPT !.ships = @ \ {target}]
    BY DEF Kill, killed
  <2>2. QED
    BY <1>3, <2>1 DEF GameFields
<1>5. QED
  BY <1>1, <1>4 DEF Hit, hit

LEMMA GameCredited ==
  ASSUME CInv
  PROVE  Sound(Game) /\ Credited(Game) /\ Game.ships = ships
<1>1. Sound(Game)
  BY GameSound DEF CInv
<1>2. /\ Game.ships = ships /\ Game.teamBoard = teamBoard /\ Game.ended = ended
      /\ Game.ledger = ledger /\ Game.board = board
  BY DEF Game
<1>3. Current(Game) /\ Within(Game)
  BY <1>2 DEF Current, Within, CInv, LedgerIsCurrent, LimitEndsGame
<1>4. Counted(Game)
  BY <1>2 DEF Counted, Lost, CInv, KillsCounted
<1>5. QED
  BY <1>1, <1>2, <1>3, <1>4 DEF Credited, CInv, PlayTypes

LEMMA StruckCredit ==
  ASSUME CInv, NEW game, Sound(game), Credited(game), Struck(game),
         torpedoes' \in [1..Tubes -> {NoEntry} \cup [shooter : Slots, target : Slots]]
  PROVE  CInv'
<1>1. /\ board' = game.board /\ ledger' = game.ledger /\ ships' = game.ships
      /\ teamBoard' = game.teamBoard /\ ended' = game.ended
      /\ occupied' = occupied /\ saved' = saved /\ classed' = classed /\ spawns' = spawns
  BY DEF Struck, Becomes, playerVars, shipVars
<1>2. IInv'
  BY StruckInvariant DEF CInv
<1>3. PlayTypes'
  BY <1>1 DEF CInv, PlayTypes, Credited
<1>4. SavedWithinLimit'
  BY <1>1 DEF CInv, SavedWithinLimit, Reaches, Credited
<1>5. LedgerIsCurrent'
  BY <1>1 DEF Credited, Current, LedgerIsCurrent
<1>6. LimitEndsGame'
  BY <1>1 DEF Credited, Within, LimitEndsGame, LimitReached
<1>7. KillsCounted'
  <2>1. SlotKills(board)' = SlotKills(game.board) /\ TeamKills(teamBoard)' = TeamKills(game.teamBoard)
    BY <1>1 DEF SlotKills, TeamKills
  <2>2. KeptKills' = KeptKills
    BY <1>1 DEF KeptKills, SavedKills
  <2>3. (spawns - Cardinality(ships))' = Lost(game)
    BY <1>1, Zenon DEF Lost
  <2>4. QED
    BY <2>1, <2>2, <2>3 DEF Credited, Counted, KillsCounted
<1>8. QED
  BY <1>2, <1>3, <1>4, <1>5, <1>6, <1>7 DEF CInv

LEMMA CombatCredit ==
  ASSUME CInv, Combat
  PROVE  CInv'
<1> DEFINE TorpedoTypes == [1..Tubes -> {NoEntry} \cup [shooter : Slots, target : Slots]]
<1>1. /\ IInv /\ PlayTypes
      /\ Sound(Game) /\ Credited(Game) /\ Game.ships = ships
      /\ ships \subseteq occupied /\ classed \subseteq occupied /\ occupied \subseteq Slots
      /\ torpedoes \in TorpedoTypes
  BY GameCredited DEF CInv, PlayTypes, IInv, NumberTypes
<1>2. ASSUME NEW s \in Slots, NEW t \in Slots, NEW loss \in Losses, NEW last \in BOOLEAN,
             BeamFire(s, t, loss, last)
      PROVE  CInv'
  <2>1. s \in occupied /\ t \in Game.ships
    BY <1>1, <1>2 DEF BeamFire
  <2>2. Sound(Hit(Game, s, t, loss, last)) /\ Credited(Hit(Game, s, t, loss, last))
    BY <1>1, <2>1, HitSound, HitCredited
  <2>3. QED
    BY <1>1, <1>2, <2>2, StruckCredit DEF BeamFire
<1>3. ASSUME UNCHANGED <<playerVars, shipVars, scoreVars, saved>>, torpedoes' \in TorpedoTypes
      PROVE  CInv'
  <2>1. UNCHANGED <<occupied, name, classed, team, spawns, board, mirror, ledger, teamBoard, ended, ships, saved>>
    BY <1>3 DEF playerVars, shipVars, scoreVars
  <2>2. IInv' /\ PlayTypes'
    BY <2>1, <1>3 DEF CInv, IInv, NumberTypes, TallyMirrored, PlayTypes
  <2>3. SavedWithinLimit' /\ LedgerIsCurrent' /\ LimitEndsGame'
    BY <2>1 DEF CInv, SavedWithinLimit, Reaches, LedgerIsCurrent, LimitEndsGame, LimitReached
  <2>4. KillsCounted'
    BY <2>1 DEF CInv, KillsCounted, SlotKills, KeptKills, SavedKills, TeamKills
  <2>5. QED
    BY <2>2, <2>3, <2>4 DEF CInv
<1>4. ASSUME NEW s \in Slots, NEW t \in Slots, TorpedoFire(s, t)
      PROVE  CInv'
  <2>1. torpedoes' \in TorpedoTypes
    BY <1>1, <1>4 DEF TorpedoFire
  <2>2. QED
    BY <1>3, <1>4, <2>1 DEF TorpedoFire
<1>5. ASSUME NEW i \in 1..Tubes, TorpedoExpires(i)
      PROVE  CInv'
  <2>1. torpedoes' \in TorpedoTypes
    BY <1>1, <1>5 DEF TorpedoExpires
  <2>2. QED
    BY <1>3, <1>5, <2>1 DEF TorpedoExpires
<1>6. ASSUME NEW i \in 1..Tubes, NEW loss \in Losses, NEW last \in BOOLEAN,
             TorpedoHit(i, loss, last)
      PROVE  CInv'
  <2> DEFINE shooter == torpedoes[i].shooter
             target == torpedoes[i].target
             hit == Hit(Game, shooter, target, loss, last)
             game == IF shooter \in classed THEN hit ELSE Game
  <2>1. torpedoes' \in TorpedoTypes
    BY <1>1, <1>6 DEF TorpedoHit
  <2>2. target \in Game.ships /\ shooter \in Slots /\ target \in Slots
    BY <1>1, <1>6 DEF TorpedoHit
  <2>3. Struck(game)
    BY <1>6 DEF TorpedoHit
  <2> HIDE DEF shooter, target
  <2>4. ASSUME shooter \in classed
        PROVE  Sound(hit) /\ Credited(hit)
    <3>1. shooter \in occupied
      BY <1>1, <2>4
    <3>2. QED
      BY <1>1, <2>2, <3>1, HitSound, HitCredited
  <2>5. Sound(game) /\ Credited(game)
    BY <1>1, <2>4
  <2> HIDE DEF game
  <2>6. QED
    BY <2>1, <2>3, <2>5, StruckCredit
<1>7. ASSUME NEW s \in Slots, NEW t \in Slots, NEW loss \in Losses, NEW own \in Losses,
             NEW last \in BOOLEAN, NEW ownLast \in BOOLEAN,
             CollideShips(s, t, loss, last, own, ownLast)
      PROVE  CInv'
  <2> DEFINE first == Hit(Game, s, t, loss, last)
             second == RecordDamage(first, t, s, own)
             killer == IF t \in first.ships THEN t ELSE Nobody
             game == IF ownLast THEN Kill(second, killer, s, FALSE) ELSE second
  <2>1. s \in ships /\ t \in ships /\ s # t /\ Struck(game) /\ torpedoes' = torpedoes
    BY <1>7 DEF CollideShips
  <2>2. Sound(first) /\ Credited(first)
    BY <1>1, <2>1, HitSound, HitCredited
  <2>3. s \in first.ships
    <3>1. s \in Game.ships /\ Game.teamBoard \in [Teams -> TeamTally]
      BY <1>1, <2>1 DEF Credited
    <3>2. QED
      BY <1>1, <2>1, <3>1, HitLeavesOthers
  <2> HIDE DEF first
  <2>4. Sound(second) /\ Credited(second) /\ second.ships = first.ships
    BY <1>1, <2>1, <2>2, <2>3, RecordDamageSound, RecordDamageCredited, RecordDamageEffect
       DEF Sound, OnlyDamage
  <2> HIDE DEF second
  <2>5. killer \in Slots \cup {Nobody}
    OBVIOUS
  <2> HIDE DEF killer
  <2>6. Sound(game) /\ Credited(game)
    BY <1>1, <2>3, <2>4, <2>5, KillSound, KillCredited
  <2> HIDE DEF game
  <2>7. QED
    BY <1>1, <2>1, <2>6, StruckCredit
<1>8. ASSUME NEW s \in ships, NEW selfDestruct \in BOOLEAN,
             Struck(Kill(Game, Nobody, s, selfDestruct)), UNCHANGED torpedoes
      PROVE  CInv'
  <2>1. s \in Slots /\ s \in Game.ships /\ Nobody \in Slots \cup {Nobody}
    BY <1>1
  <2>2. Sound(Kill(Game, Nobody, s, selfDestruct)) /\ Credited(Kill(Game, Nobody, s, selfDestruct))
    BY <1>1, <2>1, KillSound, KillCredited
  <2>3. QED
    BY <1>1, <1>8, <2>2, StruckCredit
<1>9. ASSUME NEW s \in Slots, CollideAlone(s) \/ SelfDestruct(s)
      PROVE  CInv'
  BY <1>8, <1>9 DEF CollideAlone, SelfDestruct
<1>10. QED
  BY <1>2, <1>4, <1>5, <1>6, <1>7, <1>9 DEF Combat

----------------------------------------------------------------------------
(* What players do to the credit                                           *)

SlotKill == [s \in Slots |-> board[s].kills]
Kept == [i \in CacheEntries |-> SavedKills(i)]

(* All these numbers are natural, and so are their sums.                   *)
LEMMA KillTypes ==
  ASSUME IInv
  PROVE  /\ occupied \subseteq Slots /\ IsFiniteSet(occupied) /\ IsFiniteSet(CacheEntries)
         /\ \A s \in Slots : SlotKill[s] \in Int /\ SlotKill[s] >= 0
         /\ \A i \in CacheEntries : Kept[i] \in Int /\ Kept[i] >= 0
         /\ SlotKills(board) = SumFunctionOnSet(SlotKill, occupied)
         /\ KeptKills = SumFunctionOnSet(Kept, CacheEntries)
         /\ SlotKills(board) \in Int /\ KeptKills \in Int
<1>1. occupied \subseteq Slots /\ IsFiniteSet(occupied) /\ IsFiniteSet(CacheEntries)
  BY SlotsFinite DEF IInv, NumberTypes
<1>2. ASSUME NEW s \in Slots PROVE SlotKill[s] \in Int /\ SlotKill[s] >= 0
  BY DEF SlotKill, IInv, NumberTypes, Tally
<1>3. ASSUME NEW i \in CacheEntries PROVE Kept[i] \in Int /\ Kept[i] >= 0
  <2>1. saved[i] # NoEntry => saved[i].tally.kills \in Nat
    BY DEF IInv, NumberTypes, Tally, CacheEntries
  <2>2. QED
    BY <2>1 DEF SavedKills, Kept
<1>4. /\ SlotKills(board) = SumFunctionOnSet(SlotKill, occupied)
      /\ KeptKills = SumFunctionOnSet(Kept, CacheEntries)
  BY DEF SlotKills, SlotKill, KeptKills, Kept
<1>5. SumFunctionOnSet(SlotKill, occupied) \in Int
  BY <1>1, <1>2, SumStep
<1>6. SumFunctionOnSet(Kept, CacheEntries) \in Int
  BY <1>1, <1>3, SumStep
<1>7. QED
  BY <1>1, <1>2, <1>3, <1>4, <1>5, <1>6

LEMMA ZeroReaches == ~ Reaches(Zero) /\ ~ Reaches(ZeroTeam)
  BY MatchAssumption DEF Reaches, Zero, ZeroTeam

LEMMA NoneReaches ==
  ASSUME CInv, ~ ended
  PROVE  IF TeamMode THEN \A t \in Teams : ~ Reaches(teamBoard[t])
         ELSE \A s \in Slots : ~ Reaches(board[s])
  BY LimitReachedBy DEF CInv, IInv, NumberTypes, PlayTypes, LimitEndsGame

(* The limit, when nobody's new numbers reach it.                          *)
LEMMA LimitStays ==
  ASSUME CInv, IInv', PlayTypes', teamBoard' = teamBoard, ended' = ended,
         ~ ended /\ ~ TeamMode => \A s \in Slots : board'[s] = board[s] \/ ~ Reaches(board'[s])
  PROVE  LimitEndsGame'
<1>1. SUFFICES ASSUME ~ ended PROVE ~ LimitReached(board', teamBoard')
  BY DEF LimitEndsGame, LimitReached
<1>2. board' \in [Slots -> Tally] /\ teamBoard' \in [Teams -> TeamTally]
  BY DEF IInv, NumberTypes, PlayTypes
<1>3. CASE TeamMode
  BY <1>1, <1>2, <1>3, NoneReaches, LimitReachedBy
<1>4. CASE ~ TeamMode
  <2>1. \A s \in Slots : ~ Reaches(board'[s])
    BY <1>1, <1>4, NoneReaches
  <2>2. QED
    BY <1>2, <1>4, <2>1, LimitReachedBy
<1>5. QED
  BY <1>3, <1>4

LEMMA LedgerWithoutCurrent ==
  ASSUME CInv, NEW s \in Slots, ledger' = LedgerWithout(s), ended' = ended,
         ships \ {s} \subseteq ships', occupied \ {s} \subseteq occupied'
  PROVE  LedgerIsCurrent'
<1>1. SUFFICES ASSUME ~ ended, NEW t \in Slots, NEW a \in Slots, ledger'[t][a] # 0
               PROVE  t \in ships' /\ a \in occupied'
  BY DEF LedgerIsCurrent
<1>2. ledger \in [Slots -> [Slots -> Int]]
  BY DEF CInv, IInv, NumberTypes
<1>3. t # s /\ a # s /\ ledger[t][a] # 0
  BY <1>1, <1>2 DEF LedgerWithout, Undamaged
<1>4. t \in ships /\ a \in occupied
  BY <1>1, <1>3 DEF CInv, LedgerIsCurrent
<1>5. QED
  BY <1>3, <1>4

LEMMA ConnectCredit ==
  ASSUME CInv, NEW s \in Slots, Connect(s)
  PROVE  CInv'
<1>1. /\ s \notin occupied /\ occupied' = occupied \cup {s} /\ ships' = ships /\ classed' = classed
      /\ board' = [board EXCEPT ![s] = Zero] /\ ledger' = LedgerWithout(s)
      /\ teamBoard' = teamBoard /\ ended' = ended /\ spawns' = spawns /\ saved' = saved
  BY DEF Connect
<1>2. IInv'
  BY ConnectInvariant DEF CInv
<1>3. PlayTypes'
  BY <1>1 DEF CInv, PlayTypes
<1>4. SavedWithinLimit'
  BY <1>1 DEF CInv, SavedWithinLimit, Reaches
<1>5. LedgerIsCurrent'
  BY <1>1, LedgerWithoutCurrent
<1>6. LimitEndsGame'
  <2>1. \A t \in Slots : board'[t] = board[t] \/ ~ Reaches(board'[t])
    BY <1>1, ZeroReaches DEF CInv, IInv, NumberTypes
  <2>2. QED
    BY <1>1, <1>2, <1>3, <2>1, LimitStays
<1>7. KillsCounted'
  <2>1. /\ IInv /\ occupied \subseteq Slots /\ IsFiniteSet(occupied)
        /\ \A t \in Slots : SlotKill[t] \in Int
    BY KillTypes DEF CInv
  <2>2. /\ SlotKill'[s] = 0
        /\ \A t \in occupied : SlotKill'[t] = SlotKill[t]
    BY <1>1, <2>1 DEF SlotKill, Zero, IInv, NumberTypes
  <2>3. SumFunctionOnSet(SlotKill', occupied \cup {s})
          = SlotKill'[s] + SumFunctionOnSet(SlotKill', occupied)
    <3>1. SlotKill'[s] \in Int /\ \A t \in occupied : SlotKill'[t] \in Int
      BY <2>1, <2>2
    <3>2. QED
      BY <1>1, <2>1, <3>1, SumWith
  <2>4. SumFunctionOnSet(SlotKill', occupied) = SumFunctionOnSet(SlotKill, occupied)
    BY <2>1, <2>2, SumAgrees
  <2>5. SumFunctionOnSet(SlotKill, occupied) \in Int
    BY <2>1, SumStep
  <2>6. SumFunctionOnSet(SlotKill', occupied \cup {s}) = SumFunctionOnSet(SlotKill, occupied)
    BY <2>2, <2>3, <2>4, <2>5
  <2>7. SumFunctionOnSet(SlotKill', occupied') = SumFunctionOnSet(SlotKill, occupied)
    BY <1>1, <2>6, Zenon
  <2>8. SlotKills(board)' = SlotKills(board)
    BY <2>7 DEF SlotKills, SlotKill
  <2>9. KeptKills' = KeptKills /\ TeamKills(teamBoard)' = TeamKills(teamBoard)
    BY <1>1 DEF KeptKills, SavedKills, TeamKills
  <2>10. (spawns - Cardinality(ships))' = spawns - Cardinality(ships)
    BY <1>1, Zenon
  <2>11. QED
    BY <2>8, <2>9, <2>10 DEF CInv, KillsCounted
<1>8. QED
  BY <1>2, <1>3, <1>4, <1>5, <1>6, <1>7 DEF CInv

(* A restored score leaves the cache as it enters a slot.                  *)
LEMMA RestoreCredit ==
  ASSUME CInv, NEW s \in occupied, NEW n \in Names, NEW i \in Entries(n), Restore(s, i),
         IInv', UNCHANGED <<occupied, ships, classed, spawns, teamBoard, ended>>
  PROVE  CInv'
<1> DEFINE left == LeftBehind(s, i)
           tally == saved[i].tally
<1>1. /\ i \in 1..CacheSize /\ i \in CacheEntries /\ saved[i] # NoEntry /\ tally \in Tally
      /\ s \in Slots /\ IInv /\ DOMAIN saved = 1..CacheSize
      /\ board \in [Slots -> Tally] /\ ledger \in [Slots -> [Slots -> Int]]
  BY DEF Entries, CInv, IInv, NumberTypes, CacheEntries
<1>2. left \cap (occupied \cup {s}) = {}
  BY DEF LeftBehind
<1>3. /\ board' = [t \in Slots |-> IF t = s THEN tally
                                   ELSE IF t \in left THEN Zero ELSE board[t]]
      /\ ledger' = [t \in Slots |-> IF t \in left THEN Undamaged
                      ELSE [a \in Slots |-> IF a \in left THEN 0 ELSE ledger[t][a]]]
      /\ saved' = [saved EXCEPT ![i] = NoEntry]
  BY DEF Restore, EntryUsed
<1>4. PlayTypes'
  BY DEF CInv, PlayTypes
<1>5. SavedWithinLimit'
  BY <1>1, <1>3 DEF CInv, SavedWithinLimit, Reaches
<1> HIDE DEF left
<1>6. LedgerIsCurrent'
  <2>1. SUFFICES ASSUME ~ ended, NEW t \in Slots, NEW a \in Slots, ledger'[t][a] # 0
                 PROVE  t \in ships /\ a \in occupied
    BY DEF LedgerIsCurrent
  <2>2. ledger[t][a] # 0
    BY <1>1, <1>3, <2>1 DEF Undamaged
  <2>3. QED
    BY <2>1, <2>2 DEF CInv, LedgerIsCurrent
<1>7. LimitEndsGame'
  <2>1. ~ ended /\ ~ TeamMode => ~ Reaches(tally)
    BY <1>1 DEF CInv, SavedWithinLimit
  <2>2. \A t \in Slots : board'[t] = board[t] \/ board'[t] = Zero \/ board'[t] = tally
    BY <1>3
  <2> HIDE DEF tally
  <2>3. ~ ended /\ ~ TeamMode => \A t \in Slots : board'[t] = board[t] \/ ~ Reaches(board'[t])
    BY <2>1, <2>2, ZeroReaches
  <2>4. QED
    BY <1>4, <2>3, LimitStays
<1>8. KillsCounted'
  <2>1. /\ IsFiniteSet(occupied) /\ IsFiniteSet(CacheEntries) /\ occupied \subseteq Slots
        /\ \A t \in Slots : SlotKill[t] \in Int /\ SlotKill[t] >= 0
        /\ \A j \in CacheEntries : Kept[j] \in Int
        /\ SlotKills(board) = SumFunctionOnSet(SlotKill, occupied)
        /\ KeptKills = SumFunctionOnSet(Kept, CacheEntries)
        /\ SlotKills(board) \in Int /\ KeptKills \in Int
    BY <1>1, KillTypes
  <2>2. /\ SlotKill'[s] = tally.kills /\ tally.kills \in Int
        /\ \A t \in occupied : t # s => SlotKill'[t] = SlotKill[t]
    BY <1>1, <1>2, <1>3, <2>1 DEF SlotKill, Tally
  <2>3. /\ Kept[i] = tally.kills /\ Kept'[i] = 0
        /\ \A j \in CacheEntries : j # i => Kept'[j] = Kept[j]
    BY <1>1, <1>3 DEF Kept, SavedKills, CacheEntries
  <2> HIDE DEF tally
  <2>4. SumFunctionOnSet(SlotKill', occupied)
          = SumFunctionOnSet(SlotKill, occupied) - SlotKill[s] + SlotKill'[s]
    <3>1. SameBut(occupied, SlotKill, SlotKill', s) /\ SlotKill'[s] \in Int
      BY <2>1, <2>2 DEF SameBut
    <3>2. QED
      BY <2>1, <3>1, SumChangedAt
  <2>5. SumFunctionOnSet(Kept', CacheEntries)
          = SumFunctionOnSet(Kept, CacheEntries) - Kept[i] + Kept'[i]
    <3>1. SameBut(CacheEntries, Kept, Kept', i) /\ Kept'[i] \in Int
      BY <2>1, <2>3 DEF SameBut
    <3>2. QED
      BY <1>1, <2>1, <3>1, SumChangedAt
  <2>6. /\ SlotKills(board)' = SlotKills(board) - SlotKill[s] + tally.kills
        /\ KeptKills' = KeptKills - tally.kills + 0
    <3>1. /\ SlotKills(board)' = SumFunctionOnSet(SlotKill', occupied)
          /\ KeptKills' = SumFunctionOnSet(Kept', CacheEntries)
      BY DEF SlotKills, SlotKill, KeptKills, Kept
    <3>2. QED
      BY <2>1, <2>2, <2>3, <2>4, <2>5, <3>1
  <2>7. SlotKill[s] \in Int /\ SlotKill[s] >= 0
    BY <1>1, <2>1
  <2>8. (SlotKills(board) + KeptKills)' <= SlotKills(board) + KeptKills
        /\ (SlotKills(board) + KeptKills)' \in Int
    BY <2>1, <2>2, <2>6, <2>7
  <2>9. TeamKills(teamBoard)' = TeamKills(teamBoard)
        /\ (spawns - Cardinality(ships))' = spawns - Cardinality(ships)
    BY Zenon DEF TeamKills
  <2>10. spawns - Cardinality(ships) \in Int
    BY <2>1, SlotsFinite DEF CInv, PlayTypes
  <2>11. QED
    BY <2>1, <2>8, <2>9, <2>10 DEF CInv, KillsCounted
<1>9. QED
  BY <1>4, <1>5, <1>6, <1>7, <1>8 DEF CInv

LEMMA KeepaliveCredit ==
  ASSUME CInv, NEW s \in Slots, NEW n \in Names, Keepalive(s, n)
  PROVE  CInv'
<1>1. IInv'
  BY KeepaliveInvariant DEF CInv
<1>2. s \in occupied /\ UNCHANGED <<occupied, ships, classed, spawns, teamBoard, ended>>
  BY DEF Keepalive
<1>3. CASE UNCHANGED <<board, mirror, team, ledger, saved>>
  <2>1. PlayTypes' /\ SavedWithinLimit' /\ LedgerIsCurrent' /\ LimitEndsGame'
    BY <1>2, <1>3 DEF CInv, PlayTypes, SavedWithinLimit, Reaches, LedgerIsCurrent,
                      LimitEndsGame, LimitReached
  <2>2. KillsCounted'
    BY <1>2, <1>3 DEF CInv, KillsCounted, SlotKills, KeptKills, SavedKills, TeamKills
  <2>3. QED
    BY <1>1, <2>1, <2>2 DEF CInv
<1>4. CASE \E i \in Entries(n) : Restore(s, i)
  BY <1>1, <1>2, <1>4, RestoreCredit
<1>5. QED
  BY <1>3, <1>4 DEF Keepalive

LEMMA EntryForType ==
  ASSUME NEW n
  PROVE  /\ EntryFor(n) \in 1..CacheSize
         /\ Entries(n) # {} => EntryFor(n) \in Entries(n)
         /\ Entries(n) = {} /\ (\E i \in 1..CacheSize : saved[i] = NoEntry) =>
              saved[EntryFor(n)] = NoEntry
<1> DEFINE unused == {i \in 1..CacheSize : saved[i] = NoEntry}
           candidates == IF Entries(n) # {} THEN Entries(n)
                         ELSE IF unused # {} THEN unused ELSE 1..CacheSize
<1>1. candidates \subseteq 1..CacheSize /\ candidates \in SUBSET Nat /\ candidates # {}
  BY MatchAssumption DEF Entries
<1>2. EntryFor(n) = CHOOSE i \in candidates : \A j \in candidates : i <= j
  BY DEF EntryFor
<1>3. /\ Entries(n) # {} => candidates = Entries(n)
      /\ Entries(n) = {} /\ unused # {} => candidates = unused
  OBVIOUS
<1> HIDE DEF candidates
<1>4. \E i \in candidates : \A j \in candidates : i <= j
  BY <1>1, Smallest
<1>5. EntryFor(n) \in candidates
  BY <1>2, <1>4
<1>6. QED
  BY <1>1, <1>3, <1>5

LEMMA DisconnectCredit ==
  ASSUME CInv, NEW s \in Slots, Disconnect(s)
  PROVE  CInv'
<1> DEFINE own == IF s \in ships THEN shipTeam[s] ELSE team[s]
           entry == [name |-> name[s], tally |-> mirror[s], team |-> own, oldSlot |-> s]
           e == EntryFor(name[s])
<1>1. /\ s \in occupied /\ occupied' = occupied \ {s} /\ ships' = ships \ {s}
      /\ classed' = classed \ {s} /\ spawns' = spawns
      /\ board' = [board EXCEPT ![s] = mirror[s]]
      /\ ledger' = LedgerWithout(s) /\ teamBoard' = teamBoard /\ ended' = ended
      /\ saved' = IF name[s] = NoName THEN saved ELSE [saved EXCEPT ![e] = entry]
  BY DEF Disconnect
<1>2. /\ IInv /\ mirror[s] = board[s] /\ board \in [Slots -> Tally]
      /\ DOMAIN saved = 1..CacheSize /\ e \in 1..CacheSize /\ e \in CacheEntries
  BY <1>1, EntryForType DEF CInv, IInv, NumberTypes, TallyMirrored, CacheEntries
<1>3. board' = board /\ entry.tally = board[s]
  BY <1>1, <1>2
<1> HIDE DEF entry, e, own
<1>4. IInv'
  BY DisconnectInvariant DEF CInv
<1>5. PlayTypes'
  BY <1>1 DEF CInv, PlayTypes
<1>6. SavedWithinLimit'
  <2>1. SUFFICES ASSUME ~ ended, ~ TeamMode, NEW j \in 1..CacheSize, saved'[j] # NoEntry
                 PROVE  ~ Reaches(saved'[j].tally)
    BY <1>1 DEF SavedWithinLimit, Reaches
  <2>2. CASE saved'[j] = saved[j]
    BY <2>1, <2>2 DEF CInv, SavedWithinLimit
  <2>3. CASE saved'[j] = entry
    BY <1>3, <2>1, <2>3, NoneReaches
  <2>4. QED
    BY <1>1, <1>2, <2>2, <2>3
<1>7. LedgerIsCurrent'
  BY <1>1, LedgerWithoutCurrent
<1>8. LimitEndsGame'
  BY <1>1, <1>3, <1>4, <1>5, LimitStays
<1>9. KillsCounted'
  <2>1. /\ IsFiniteSet(occupied) /\ IsFiniteSet(CacheEntries) /\ occupied \subseteq Slots
        /\ \A t \in Slots : SlotKill[t] \in Int /\ SlotKill[t] >= 0
        /\ \A j \in CacheEntries : Kept[j] \in Int /\ Kept[j] >= 0
        /\ SlotKills(board) = SumFunctionOnSet(SlotKill, occupied)
        /\ KeptKills = SumFunctionOnSet(Kept, CacheEntries)
        /\ SlotKills(board) \in Int /\ KeptKills \in Int
    BY <1>2, KillTypes
  <2>2. SumFunctionOnSet(SlotKill, occupied)
          = SlotKill[s] + SumFunctionOnSet(SlotKill, occupied \ {s})
    BY <1>1, <2>1, SumSplit
  <2>3. SlotKills(board)' = SumFunctionOnSet(SlotKill, occupied \ {s})
    BY <1>1, <1>3, Zenon DEF SlotKills, SlotKill
  <2>4. SumFunctionOnSet(SlotKill, occupied \ {s}) \in Int
    <3>1. IsFiniteSet(occupied \ {s}) /\ \A t \in occupied \ {s} : SlotKill[t] \in Int
      BY <2>1, FS_RemoveElement
    <3>2. QED
      BY <3>1, SumStep
  <2>5. KeptKills' = SumFunctionOnSet(Kept', CacheEntries)
    BY DEF KeptKills, Kept
  <2>6. KeptKills' <= KeptKills + SlotKill[s] /\ KeptKills' \in Int
    <3>1. CASE saved' = saved
      <4>1. KeptKills' = KeptKills
        BY <3>1 DEF KeptKills, SavedKills
      <4>2. QED
        BY <2>1, <4>1
    <3>2. CASE saved' = [saved EXCEPT ![e] = entry]
      <4>1. entry # NoEntry => Kept'[e] = SlotKill[s]
        BY <1>2, <1>3, <3>2 DEF Kept, SavedKills, CacheEntries, SlotKill
      <4>2. entry = NoEntry => Kept'[e] = 0
        BY <1>2, <3>2 DEF Kept, SavedKills, CacheEntries
      <4>3. \A j \in CacheEntries : j # e => Kept'[j] = Kept[j]
        BY <1>2, <3>2 DEF Kept, SavedKills, CacheEntries
      <4>4. Kept'[e] \in Int /\ Kept'[e] <= SlotKill[s] /\ SlotKill[s] \in Int
        BY <2>1, <4>1, <4>2
      <4>5. SumFunctionOnSet(Kept', CacheEntries)
              = SumFunctionOnSet(Kept, CacheEntries) - Kept[e] + Kept'[e]
        <5>1. SameBut(CacheEntries, Kept, Kept', e)
          BY <2>1, <4>3 DEF SameBut
        <5>2. QED
          BY <1>2, <2>1, <4>4, <5>1, SumChangedAt
      <4>6. Kept[e] \in Int /\ Kept[e] >= 0
        BY <1>2, <2>1
      <4>7. QED
        BY <2>1, <2>5, <4>4, <4>5, <4>6
    <3>3. QED
      BY <1>1, <3>1, <3>2
  <2>7. SlotKills(board)' + KeptKills' <= SlotKills(board) + KeptKills
    BY <1>1, <2>1, <2>2, <2>3, <2>4, <2>6
  <2>8. spawns - Cardinality(ships) \in Int /\ spawns - Cardinality(ships) <= spawns' - Cardinality(ships')
    <3>1. IsFiniteSet(ships) /\ Cardinality(ships) \in Nat
      BY <2>1, SlotsFinite DEF CInv, PlayTypes
    <3>2. Cardinality(ships \ {s}) <= Cardinality(ships) /\ Cardinality(ships \ {s}) \in Nat
      BY <3>1, OneLess, FewerLess
    <3>3. Cardinality(ships') = Cardinality(ships \ {s})
      BY <1>1, Zenon
    <3>4. spawns \in Nat
      BY DEF CInv, PlayTypes
    <3> DEFINE was == Cardinality(ships)
               is == Cardinality(ships \ {s})
    <3> HIDE DEF was, is
    <3>5. was \in Nat /\ is \in Nat /\ is <= was
      BY <3>1, <3>2 DEF was, is
    <3>6. spawns - was \in Int /\ spawns - was <= spawns - is
      BY <3>4, <3>5
    <3>7. QED
      BY <1>1, <3>3, <3>6, Zenon DEF was, is
  <2>9. TeamKills(teamBoard)' = TeamKills(teamBoard) /\ TeamKills(teamBoard) \in Int
    <3>1. \A t \in Teams : [u \in Teams |-> teamBoard[u].kills][t] \in Int
      BY DEF CInv, PlayTypes, TeamTally
    <3>2. TeamKills(teamBoard) \in Int
      BY <3>1, SlotsFinite, SumStep DEF TeamKills
    <3>3. QED
      BY <1>1, <3>2 DEF TeamKills
  <2>10. SlotKills(board) + KeptKills <= spawns - Cardinality(ships)
         /\ TeamKills(teamBoard) <= spawns - Cardinality(ships)
    BY DEF CInv, KillsCounted
  <2>11. spawns' - Cardinality(ships') \in Int
    <3>1. ships' \in SUBSET Slots /\ spawns' \in Nat
      BY <1>4, <1>5 DEF PlayTypes, IInv, NumberTypes
    <3>2. Cardinality(ships') \in Nat
      BY <3>1, SlotsFinite
    <3>3. QED
      BY <3>1, <3>2
  <2>12. QED
    BY <2>1, <2>3, <2>4, <2>6, <2>7, <2>8, <2>9, <2>10, <2>11 DEF KillsCounted
<1>10. QED
  BY <1>4, <1>5, <1>6, <1>7, <1>8, <1>9 DEF CInv

LEMMA TeamKillsType ==
  ASSUME PlayTypes
  PROVE  TeamKills(teamBoard) \in Int
<1>1. \A t \in Teams : [u \in Teams |-> teamBoard[u].kills][t] \in Int
  BY DEF PlayTypes, TeamTally
<1>2. QED
  BY <1>1, SlotsFinite, SumStep DEF TeamKills

(* A round begins with nothing counted.                                    *)
LEMMA NothingCounted ==
  ASSUME IInv', board' = [s \in Slots |-> Zero], teamBoard' = [t \in Teams |-> ZeroTeam],
         saved' = [i \in 1..CacheSize |-> NoEntry], ships' = {}, spawns' = 0
  PROVE  KillsCounted'
<1>1. /\ \A s \in occupied' : SlotKill'[s] = 0
      /\ \A i \in CacheEntries : Kept'[i] = 0
      /\ \A t \in Teams : [u \in Teams |-> teamBoard'[u].kills][t] = 0
  BY DEF IInv, NumberTypes, SlotKill, Kept, SavedKills, CacheEntries, Zero, ZeroTeam
<1>2. IsFiniteSet(occupied') /\ IsFiniteSet(CacheEntries) /\ IsFiniteSet(Teams)
  BY SlotsFinite DEF IInv, NumberTypes
<1>3. SumFunctionOnSet(SlotKill', occupied') = 0
  BY <1>1, <1>2, SumZero
<1>4. SumFunctionOnSet(Kept', CacheEntries) = 0
  BY <1>1, <1>2, SumZero
<1>5. SumFunctionOnSet([u \in Teams |-> teamBoard'[u].kills], Teams) = 0
  BY <1>1, <1>2, SumZero
<1>6. SlotKills(board)' = 0 /\ KeptKills' = 0 /\ TeamKills(teamBoard)' = 0
  BY <1>3, <1>4, <1>5 DEF SlotKills, SlotKill, KeptKills, Kept, TeamKills
<1>7. Cardinality(ships') = 0
  BY FS_EmptySet, Zenon
<1>8. QED
  BY <1>6, <1>7 DEF KillsCounted

LEMMA ObjCreateTeamCredit ==
  ASSUME CInv, NEW s \in Slots, NEW t, ObjCreateTeam(s, t)
  PROVE  CInv'
<1>1. /\ s \in occupied /\ spawns' = spawns + 1
      /\ ships' = ships \cup {s} /\ classed' = classed \cup {s}
      /\ UNCHANGED <<occupied, name, board, mirror, ledger, teamBoard, ended, saved, torpedoes>>
  BY DEF ObjCreateTeam, playerVars
<1>2. IInv'
  BY <1>1 DEF CInv, IInv, NumberTypes, TallyMirrored
<1>3. PlayTypes' /\ SavedWithinLimit' /\ LedgerIsCurrent' /\ LimitEndsGame'
  BY <1>1 DEF CInv, PlayTypes, SavedWithinLimit, Reaches, LedgerIsCurrent,
              LimitEndsGame, LimitReached
<1>4. KillsCounted'
  <2>1. /\ SlotKills(board)' = SlotKills(board) /\ KeptKills' = KeptKills
        /\ TeamKills(teamBoard)' = TeamKills(teamBoard)
    BY <1>1 DEF SlotKills, KeptKills, SavedKills, TeamKills
  <2> DEFINE was == Cardinality(ships)
             is == Cardinality(ships \cup {s})
  <2>2. was \in Nat /\ (is = was \/ is = was + 1)
    <3>1. IsFiniteSet(ships)
      BY SlotsFinite DEF CInv, PlayTypes, IInv, NumberTypes
    <3>2. QED
      BY <3>1, OneMore
  <2>3. Cardinality(ships') = is
    BY <1>1, Zenon
  <2> HIDE DEF was, is
  <2>4. spawns \in Nat /\ spawns - was <= spawns + 1 - is /\ spawns - was \in Int /\ spawns + 1 - is \in Int
    BY <2>2 DEF CInv, PlayTypes
  <2>5. SlotKills(board) \in Int /\ KeptKills \in Int /\ TeamKills(teamBoard) \in Int
    BY KillTypes, TeamKillsType DEF CInv, PlayTypes
  <2>6. SlotKills(board) + KeptKills <= spawns - was /\ TeamKills(teamBoard) <= spawns - was
    BY DEF CInv, KillsCounted, was
  <2>7. SlotKills(board)' + KeptKills' <= spawns' - is /\ TeamKills(teamBoard)' <= spawns' - is
    <3>1. spawns' - is = spawns + 1 - is
      <4>1. spawns' = spawns + 1 /\ spawns \in Int
        BY <1>1, <2>4
      <4>2. is \in Int
        BY <2>2
      <4>3. QED
        BY <4>1, <4>2
    <3>2. SlotKills(board) + KeptKills <= spawns + 1 - is /\ TeamKills(teamBoard) <= spawns + 1 - is
      BY <2>4, <2>5, <2>6
    <3>3. QED
      BY <2>1, <3>1, <3>2, Zenon
  <2>8. QED
    BY <2>3, <2>7, Zenon DEF KillsCounted
<1>5. QED
  BY <1>2, <1>3, <1>4 DEF CInv

LEMMA RestartCredit ==
  ASSUME CInv, Restart
  PROVE  CInv'
<1>1. /\ occupied' = occupied
      /\ board' = [s \in Slots |-> Zero] /\ ledger' = [t \in Slots |-> Undamaged]
      /\ teamBoard' = [t \in Teams |-> ZeroTeam] /\ ended' = FALSE /\ ships' = {}
      /\ classed' = {} /\ spawns' = 0
      /\ saved' = [i \in 1..CacheSize |-> NoEntry]
  BY DEF Restart, Becomes, playerVars
<1>2. IInv'
  BY RestartInvariant DEF CInv
<1>3. PlayTypes'
  BY <1>1 DEF PlayTypes, ZeroTeam, TeamTally
<1>4. SavedWithinLimit' /\ LedgerIsCurrent'
  BY <1>1 DEF SavedWithinLimit, LedgerIsCurrent, Undamaged
<1>5. LimitEndsGame'
  <2>1. board' \in [Slots -> Tally] /\ teamBoard' \in [Teams -> TeamTally]
    BY <1>2, <1>3 DEF IInv, NumberTypes, PlayTypes
  <2>2. (\A s \in Slots : ~ Reaches(board'[s])) /\ (\A t \in Teams : ~ Reaches(teamBoard'[t]))
    BY <1>1, ZeroReaches
  <2>3. ~ LimitReached(board', teamBoard')
    BY <2>1, <2>2, LimitReachedBy
  <2>4. QED
    BY <2>3 DEF LimitEndsGame, LimitReached
<1>6. KillsCounted'
  BY <1>1, <1>2, NothingCounted
<1>7. QED
  BY <1>2, <1>3, <1>4, <1>5, <1>6 DEF CInv

LEMMA InitCredit ==
  ASSUME Init
  PROVE  CInv
<1>1. IInv
  BY InitInvariant
<1>2. PlayTypes /\ SavedWithinLimit /\ LedgerIsCurrent
  BY DEF Init, PlayTypes, ZeroTeam, TeamTally, SavedWithinLimit, LedgerIsCurrent, Undamaged
<1>3. LimitEndsGame
  <2>1. board \in [Slots -> Tally] /\ teamBoard \in [Teams -> TeamTally]
    BY <1>1, <1>2 DEF IInv, NumberTypes, PlayTypes
  <2>2. (\A s \in Slots : ~ Reaches(board[s])) /\ (\A t \in Teams : ~ Reaches(teamBoard[t]))
    BY ZeroReaches DEF Init
  <2>3. QED
    BY <2>1, <2>2, LimitReachedBy DEF LimitEndsGame
<1>4. KillsCounted
  <2>1. /\ \A s \in occupied : SlotKill[s] = 0
        /\ \A i \in CacheEntries : Kept[i] = 0
        /\ \A t \in Teams : [u \in Teams |-> teamBoard[u].kills][t] = 0
    BY DEF Init, SlotKill, Kept, SavedKills, CacheEntries, Zero, ZeroTeam
  <2>2. IsFiniteSet(occupied) /\ IsFiniteSet(CacheEntries) /\ IsFiniteSet(Teams)
    BY SlotsFinite, FS_EmptySet DEF Init
  <2>3. SlotKills(board) = 0 /\ KeptKills = 0 /\ TeamKills(teamBoard) = 0
    BY <2>1, <2>2, SumZero DEF SlotKills, SlotKill, KeptKills, Kept, TeamKills
  <2>4. Cardinality(ships) = 0 /\ spawns = 0
    BY FS_EmptySet, Zenon DEF Init
  <2>5. QED
    BY <2>3, <2>4 DEF KillsCounted
<1>5. QED
  BY <1>1, <1>2, <1>3, <1>4 DEF CInv

LEMMA CreditInvariant == Spec => []CInv
<1>1. CInv /\ [Next]_vars => CInv'
  <2> SUFFICES ASSUME CInv, [Next]_vars PROVE CInv'
    OBVIOUS
  <2>1. CASE Combat
    BY <2>1, CombatCredit
  <2>2. ASSUME NEW s \in Slots, Connect(s)
        PROVE  CInv'
    BY <2>2, ConnectCredit
  <2>3. ASSUME NEW s \in Slots, NEW n \in Names, Keepalive(s, n)
        PROVE  CInv'
    BY <2>3, KeepaliveCredit
  <2>4. ASSUME NEW s \in Slots, Disconnect(s)
        PROVE  CInv'
    BY <2>4, DisconnectCredit
  <2>5. ASSUME NEW s \in Slots, NEW t, ObjCreateTeam(s, t)
        PROVE  CInv'
    BY <2>5, ObjCreateTeamCredit
  <2>6. CASE /\ UNCHANGED <<occupied, classed, spawns, board, mirror, ledger,
                            teamBoard, ships, saved, torpedoes>>
             /\ ended' = ended \/ ended' = TRUE
    <3>1. IInv' /\ PlayTypes' /\ SavedWithinLimit' /\ LedgerIsCurrent' /\ LimitEndsGame'
      BY <2>6 DEF CInv, IInv, NumberTypes, TallyMirrored, PlayTypes, SavedWithinLimit,
                  Reaches, LedgerIsCurrent, LimitEndsGame, LimitReached
    <3>2. KillsCounted'
      BY <2>6 DEF CInv, KillsCounted, SlotKills, KeptKills, SavedKills, TeamKills
    <3>3. QED
      BY <3>1, <3>2 DEF CInv
  <2>7. ASSUME NEW s \in Slots, NEW t, TeamMessage(s, t)
        PROVE  CInv'
    BY <2>6, <2>7 DEF TeamMessage, playerVars, scoreVars
  <2>8. CASE TimeUp
    BY <2>6, <2>8 DEF TimeUp, playerVars, shipVars
  <2>9. CASE Restart
    BY <2>9, RestartCredit
  <2>10. CASE UNCHANGED vars
    BY <2>6, <2>10 DEF vars, playerVars, shipVars, scoreVars
  <2>11. QED
    BY <2>1, <2>2, <2>3, <2>4, <2>5, <2>7, <2>8, <2>9, <2>10 DEF Next, Players
<1>2. QED
  BY <1>1, InitCredit, PTL DEF Spec

(* Whatever was owed for a ship or to a player goes with it: a kill, a     *)
(* disconnect and a restart each clear their part of the ledger, and a     *)
(* torpedo or a collision adds only to what flies and who is there.        *)
THEOREM NothingIsOwedToTheGone == Spec => []LedgerIsCurrent
<1>1. CInv => LedgerIsCurrent
  BY DEF CInv
<1>2. QED
  BY <1>1, CreditInvariant, PTL

(* The limit is compared after every kill, and no other change of a score  *)
(* can reach it: what was saved before the end was below it, too.          *)
THEOREM LimitIsNeverPassed == Spec => []LimitEndsGame
<1>1. CInv => LimitEndsGame
  BY DEF CInv
<1>2. QED
  BY <1>1, CreditInvariant, PTL

LEMMA CountsAreLosses ==
  ASSUME CInv
  PROVE  KillsAreLosses /\ TeamKillsAreLosses
<1>1. KillsCounted
  BY DEF CInv
<1> DEFINE inSlots == [s \in Slots |-> board[s].kills]
           kept == [i \in 1..CacheSize |-> IF saved[i] = NoEntry THEN 0 ELSE saved[i].tally.kills]
           ofTeams == [t \in Teams |-> teamBoard[t].kills]
<1>2. SumFunctionOnSet(inSlots, occupied) = SlotKills(board)
  BY DEF SlotKills
<1>3. SumFunction(kept) = KeptKills
  <2>1. SumFunction(kept) = SumFunctionOnSet(kept, DOMAIN kept)
    BY DEF SumFunction
  <2>2. DOMAIN kept = CacheEntries
    BY DEF CacheEntries
  <2>3. KeptKills = SumFunctionOnSet(kept, CacheEntries)
    BY DEF KeptKills, SavedKills, CacheEntries
  <2> HIDE DEF kept
  <2>4. QED
    BY <2>1, <2>2, <2>3, Zenon
<1>4. SumFunction(ofTeams) = TeamKills(teamBoard)
  <2>1. SumFunction(ofTeams) = SumFunctionOnSet(ofTeams, DOMAIN ofTeams)
    BY DEF SumFunction
  <2>2. DOMAIN ofTeams = Teams
    OBVIOUS
  <2>3. TeamKills(teamBoard) = SumFunctionOnSet(ofTeams, Teams)
    BY DEF TeamKills
  <2> HIDE DEF ofTeams
  <2>4. QED
    BY <2>1, <2>2, <2>3, Zenon
<1> HIDE DEF inSlots, kept, ofTeams
<1>5. SumFunctionOnSet(inSlots, occupied) + SumFunction(kept) <= spawns - Cardinality(ships)
  BY <1>1, <1>2, <1>3 DEF KillsCounted
<1>6. SumFunction(ofTeams) <= spawns - Cardinality(ships)
  BY <1>1, <1>4 DEF KillsCounted
<1>7. QED
  BY <1>5, <1>6 DEF KillsAreLosses, TeamKillsAreLosses, inSlots, kept, ofTeams

(* Every kill on record, of the players who are there and of those who     *)
(* left, has its own ship that was lost in this round: a reconnect moves   *)
(* the count of a name and never copies it.                                *)
THEOREM KillsHaveTheirLosses == Spec => []KillsAreLosses
<1>1. CInv => KillsAreLosses
  BY CountsAreLosses
<1>2. QED
  BY <1>1, CreditInvariant, PTL

(* The same of the kills of the teams, which count whoever made them and   *)
(* are kept when he leaves.                                                *)
THEOREM TeamKillsHaveTheirLosses == Spec => []TeamKillsAreLosses
<1>1. CInv => TeamKillsAreLosses
  BY CountsAreLosses
<1>2. QED
  BY <1>1, CreditInvariant, PTL

----------------------------------------------------------------------------
(* What a hit does to the numbers on record                                *)

Follows(game) ==
  /\ \A s \in Slots : /\ game.board[s].kills >= board[s].kills
                      /\ game.board[s].deaths >= board[s].deaths
  /\ ended => game.ended /\ game.board = board /\ game.teamBoard = teamBoard

LEMMA KillFollows ==
  ASSUME CInv, NEW game, Sound(game), Follows(game), game.teamBoard \in [Teams -> TeamTally],
         NEW killer \in Slots \cup {Nobody}, NEW victim \in Slots, NEW selfDestruct
  PROVE  Follows(Kill(game, killer, victim, selfDestruct))
<1> DEFINE scored == Score(game, killer, victim, selfDestruct)
           limited == CheckLimit(scored)
           killed == ProcessKill(game, killer, victim, selfDestruct)
           after == Kill(game, killer, victim, selfDestruct)
<1>1. /\ GameTypes(game) /\ DOMAIN game = GameFields /\ game.board \in [Slots -> Tally]
      /\ board \in [Slots -> Tally]
  BY DEF Sound, GameTypes, CInv, IInv, NumberTypes
<1>2. Scored(game, scored, killer, victim)
  BY <1>1, ScoreEffect
<1> HIDE DEF scored
<1>3. DOMAIN killed = GameFields
  BY <1>1, <1>2 DEF ProcessKill, CheckLimit, Scored, scored
<1>4. /\ after.board = killed.board /\ after.teamBoard = killed.teamBoard
      /\ after.ended = killed.ended
  <2> HIDE DEF killed
  <2>1. after = [killed EXCEPT !.ships = @ \ {victim}]
    BY DEF Kill, killed
  <2>2. QED
    BY <1>3, <2>1 DEF GameFields
<1>5. CASE game.ended
  <2>1. killed = game
    BY <1>5 DEF ProcessKill
  <2> HIDE DEF killed, after
  <2>2. Follows(after)
    BY <1>4, <2>1 DEF Follows
  <2>3. QED
    BY <2>2 DEF after
<1>6. CASE ~ game.ended
  <2>1. killed = limited
    BY <1>6 DEF ProcessKill, scored
  <2> HIDE DEF killed, after
  <2>2. after.board = scored.board
    BY <1>2, <1>4, <2>1 DEF CheckLimit, Scored, GameFields
  <2>3. ~ ended
    BY <1>6 DEF Follows
  <2>4. ASSUME NEW s \in Slots
        PROVE  /\ after.board[s].kills >= board[s].kills
               /\ after.board[s].deaths >= board[s].deaths
    <3>1. /\ game.board[s].kills \in Nat /\ game.board[s].deaths \in Nat
          /\ board[s].kills \in Nat /\ board[s].deaths \in Nat
      BY <1>1 DEF Tally
    <3>2. /\ scored.board[s].kills \in {game.board[s].kills, game.board[s].kills + 1}
          /\ scored.board[s].deaths >= game.board[s].deaths
      BY <1>2 DEF Scored, OneKill
    <3>3. /\ game.board[s].kills >= board[s].kills
          /\ game.board[s].deaths >= board[s].deaths
      BY DEF Follows
    <3>4. Score(game, killer, victim, selfDestruct).board[s].deaths \in Int
      <4>1. Sound(scored)
        BY ScoreSound DEF CInv, IInv, NumberTypes, scored
      <4>2. scored.board[s] \in Tally
        BY <4>1 DEF Sound, GameTypes
      <4>3. QED
        BY <4>2 DEF scored, Tally
    <3>5. QED
      BY <2>2, <3>1, <3>2, <3>3, <3>4 DEF scored
  <2>5. Follows(after)
    BY <2>3, <2>4 DEF Follows
  <2>6. QED
    BY <2>5 DEF after
<1>7. QED
  BY <1>5, <1>6

LEMMA RecordDamageFollows ==
  ASSUME NEW game, GameTypes(game), Follows(game), NEW attacker \in Slots \cup {Nobody},
         NEW target \in Slots, NEW loss \in Losses
  PROVE  /\ Follows(RecordDamage(game, attacker, target, loss))
         /\ RecordDamage(game, attacker, target, loss).teamBoard = game.teamBoard
<1> DEFINE hit == RecordDamage(game, attacker, target, loss)
<1>1. OnlyDamage(game, hit, attacker, target)
  BY RecordDamageEffect
<1> HIDE DEF hit
<1>2. Follows(hit) /\ hit.teamBoard = game.teamBoard
  BY <1>1 DEF Follows, OnlyDamage
<1>3. QED
  BY <1>2 DEF hit

LEMMA HitFollows ==
  ASSUME CInv, NEW game, Sound(game), Follows(game), game.teamBoard \in [Teams -> TeamTally],
         NEW attacker \in Slots \cup {Nobody}, NEW target \in Slots,
         NEW loss \in Losses, NEW last \in BOOLEAN
  PROVE  Follows(Hit(game, attacker, target, loss, last))
<1> DEFINE hit == RecordDamage(game, attacker, target, loss)
<1>1. Sound(hit) /\ Follows(hit) /\ hit.teamBoard \in [Teams -> TeamTally]
  BY RecordDamageSound, RecordDamageFollows DEF Sound
<1> HIDE DEF hit
<1>2. Follows(Kill(hit, attacker, target, FALSE))
  BY <1>1, KillFollows
<1>3. QED
  BY <1>1, <1>2 DEF Hit, hit

(* What combat changes of the state: no name, no place, no saved score.    *)
CombatStep ==
  /\ UNCHANGED <<occupied, name, saved>>
  /\ \A s \in Slots : /\ board'[s].kills >= board[s].kills
                      /\ board'[s].deaths >= board[s].deaths
  /\ ended => board' = board /\ teamBoard' = teamBoard

LEMMA StruckStep ==
  ASSUME NEW game, Follows(game), Struck(game)
  PROVE  CombatStep
  BY DEF Follows, Struck, Becomes, CombatStep, playerVars

LEMMA CombatSteps ==
  ASSUME CInv, Combat
  PROVE  CombatStep
<1>1. /\ IInv /\ Sound(Game) /\ Credited(Game) /\ ships \subseteq Slots
      /\ Game.teamBoard \in [Teams -> TeamTally] /\ Game.ships = ships
      /\ torpedoes \in [1..Tubes -> {NoEntry} \cup [shooter : Slots, target : Slots]]
      /\ board \in [Slots -> Tally] /\ occupied \subseteq Slots
  BY GameCredited DEF CInv, PlayTypes, IInv, NumberTypes, Credited
<1>2. \A s \in Slots : board[s].kills >= board[s].kills /\ board[s].deaths >= board[s].deaths
  BY <1>1 DEF Tally
<1>3. Follows(Game)
  BY <1>2 DEF Follows, Game
<1>4. ASSUME NEW s \in Slots, NEW t \in Slots, NEW loss \in Losses, NEW last \in BOOLEAN,
             BeamFire(s, t, loss, last)
      PROVE  CombatStep
  <2>1. Follows(Hit(Game, s, t, loss, last))
    BY <1>1, <1>3, HitFollows
  <2>2. QED
    BY <1>4, <2>1, StruckStep DEF BeamFire
<1>5. CASE UNCHANGED <<playerVars, scoreVars, saved>>
  BY <1>2, <1>5 DEF CombatStep, playerVars, scoreVars
<1>6. ASSUME NEW i, NEW s, NEW t, TorpedoFire(s, t) \/ TorpedoExpires(i)
      PROVE  CombatStep
  BY <1>5, <1>6 DEF TorpedoFire, TorpedoExpires
<1>7. ASSUME NEW i \in 1..Tubes, NEW loss \in Losses, NEW last \in BOOLEAN,
             TorpedoHit(i, loss, last)
      PROVE  CombatStep
  <2>1. torpedoes[i] \in [shooter : Slots, target : Slots]
    BY <1>1, <1>7 DEF TorpedoHit
  <2>2. Follows(Hit(Game, torpedoes[i].shooter, torpedoes[i].target, loss, last))
    BY <1>1, <1>3, <2>1, HitFollows
  <2>3. Follows(IF torpedoes[i].shooter \in classed
                THEN Hit(Game, torpedoes[i].shooter, torpedoes[i].target, loss, last) ELSE Game)
    BY <1>3, <2>2
  <2>4. QED
    BY <1>7, <2>3, StruckStep DEF TorpedoHit
<1>8. ASSUME NEW s \in Slots, NEW t \in Slots, NEW loss \in Losses, NEW own \in Losses,
             NEW last \in BOOLEAN, NEW ownLast \in BOOLEAN,
             CollideShips(s, t, loss, last, own, ownLast)
      PROVE  CombatStep
  <2> DEFINE first == Hit(Game, s, t, loss, last)
             second == RecordDamage(first, t, s, own)
             killer == IF t \in first.ships THEN t ELSE Nobody
             game == IF ownLast THEN Kill(second, killer, s, FALSE) ELSE second
  <2>1. s \in ships /\ t \in ships /\ Struck(game)
    BY <1>8 DEF CollideShips
  <2>2. Sound(first) /\ Follows(first) /\ Credited(first)
    <3>1. s \in occupied /\ t \in Game.ships /\ PlayTypes
      BY <1>1, <2>1 DEF CInv, PlayTypes
    <3>2. QED
      BY <1>1, <1>3, <3>1, HitSound, HitFollows, HitCredited
  <2> HIDE DEF first
  <2>3. Sound(second) /\ Follows(second) /\ second.teamBoard \in [Teams -> TeamTally]
    BY <2>2, RecordDamageSound, RecordDamageFollows DEF Sound, Credited
  <2> HIDE DEF second
  <2>4. killer \in Slots \cup {Nobody}
    OBVIOUS
  <2> HIDE DEF killer
  <2>5. Follows(game)
    BY <2>3, <2>4, KillFollows
  <2> HIDE DEF game
  <2>6. QED
    BY <2>1, <2>5, StruckStep
<1>9. ASSUME NEW s \in Slots, NEW selfDestruct \in BOOLEAN,
             Struck(Kill(Game, Nobody, s, selfDestruct))
      PROVE  CombatStep
  <2>1. Follows(Kill(Game, Nobody, s, selfDestruct))
    BY <1>1, <1>3, KillFollows
  <2>2. QED
    BY <1>9, <2>1, StruckStep
<1>10. ASSUME NEW s \in Slots, CollideAlone(s) \/ SelfDestruct(s)
       PROVE  CombatStep
  BY <1>9, <1>10 DEF CollideAlone, SelfDestruct
<1>11. QED
  BY <1>4, <1>6, <1>7, <1>8, <1>10 DEF Combat

Frozen ==
  ended /\ ended' =>
    /\ teamBoard' = teamBoard
    /\ \A s \in occupied \cap occupied' : name[s] # NoName => board'[s] = board[s]

(* process_ship_kill returns at once when the game has ended; what still   *)
(* moves scores then, joining, leaving and being named, moves them only in *)
(* slots that are taken, given up or not yet named.                        *)
THEOREM NothingCountsAfterEnd == Spec => FrozenAfterEnd
<1>1. CInv /\ [Next]_vars => Frozen
  <2> SUFFICES ASSUME CInv, [Next]_vars, ended, ended' PROVE Frozen
    BY DEF Frozen
  <2>1. occupied \subseteq Slots /\ board \in [Slots -> Tally]
    BY DEF CInv, IInv, NumberTypes
  <2>2. CASE Combat
    BY <2>2, CombatSteps DEF CombatStep, Frozen
  <2>3. ASSUME NEW s \in Slots, Connect(s)
        PROVE  Frozen
    BY <2>3 DEF Connect
  <2>4. ASSUME NEW s \in Slots, NEW n \in Names, Keepalive(s, n)
        PROVE  Frozen
    <3>1. teamBoard' = teamBoard /\ occupied' = occupied /\ name[s] = NoName
      BY <2>4 DEF Keepalive
    <3>2. CASE UNCHANGED <<board, mirror, team, ledger, saved>>
      BY <3>1, <3>2 DEF Frozen
    <3>3. ASSUME NEW i \in Entries(n), Restore(s, i)
          PROVE  Frozen
      BY <2>1, <3>1, <3>3 DEF Restore, LeftBehind, Frozen
    <3>4. QED
      BY <2>4, <3>2, <3>3 DEF Keepalive
  <2>5. ASSUME NEW s \in Slots, Disconnect(s)
        PROVE  Frozen
    BY <2>1, <2>5 DEF Disconnect, Frozen
  <2>6. CASE UNCHANGED <<occupied, board, teamBoard>>
    BY <2>6 DEF Frozen
  <2>7. ASSUME NEW s \in Slots, NEW t, ObjCreateTeam(s, t) \/ TeamMessage(s, t)
        PROVE  Frozen
    BY <2>6, <2>7 DEF ObjCreateTeam, TeamMessage, playerVars, scoreVars
  <2>8. CASE TimeUp \/ Restart
    BY <2>8 DEF TimeUp, Restart, Becomes
  <2>9. CASE UNCHANGED vars
    BY <2>6, <2>9 DEF vars, playerVars, scoreVars
  <2>10. QED
    BY <2>2, <2>3, <2>4, <2>5, <2>7, <2>8, <2>9 DEF Next, Players
<1>2. Spec => [][Frozen]_vars
  BY <1>1, CreditInvariant, PTL DEF Spec
<1>3. QED
  BY <1>2, PTL DEF FrozenAfterEnd, Frozen

----------------------------------------------------------------------------
(* What is on record for a name                                            *)

(* A name is in one place, a slot or the cache, and there once.            *)
NamedOnce ==
  /\ name \in [Slots -> Names \cup {NoName}]
  /\ \A s \in Slots \ occupied : name[s] = NoName
  /\ \A s, t \in Slots : name[s] = name[t] /\ name[s] # NoName => s = t
  /\ \A i \in 1..CacheSize : saved[i] # NoEntry => saved[i].name \in Names
  /\ \A i, j \in 1..CacheSize :
       saved[i] # NoEntry /\ saved[j] # NoEntry /\ saved[i].name = saved[j].name => i = j
  /\ \A s \in Slots : name[s] # NoName => Entries(name[s]) = {}

(* The cache has a place for every name.                                   *)
RoomForAll == ~ GhostsLinger /\ IsFiniteSet(Names) /\ Cardinality(Names) <= CacheSize

Grows(n) ==
  \A old \in Records(n) : \E new \in Records(n)' :
    new.kills >= old.kills /\ new.deaths >= old.deaths

SInv == CInv /\ NamedOnce

(* A team is a number, so that an entry in use is not taken for an unused  *)
(* one.                                                                    *)
TeamTypes ==
  /\ team \in [Slots -> Nat] /\ shipTeam \in [Slots -> Nat]
  /\ \A i \in 1..CacheSize : saved[i] # NoEntry => saved[i].team \in Nat

LEMMA TeamsStayTyped ==
  ASSUME CInv, TeamTypes, [Next]_vars
  PROVE  TeamTypes'
<1>1. NoTeam \in Nat /\ DOMAIN saved = 1..CacheSize /\ Teams \subseteq Nat /\ 0 \in Nat
  BY DEF NoTeam, Teams, CInv, IInv, NumberTypes
<1>2. CASE UNCHANGED <<team, shipTeam, saved>>
  BY <1>2 DEF TeamTypes
<1>3. CASE Combat
  <2>1. ASSUME NEW game, Struck(game)
        PROVE  UNCHANGED <<team, shipTeam, saved>>
    BY <2>1 DEF Struck, shipVars
  <2>2. ASSUME NEW i, NEW s, NEW t, TorpedoFire(s, t) \/ TorpedoExpires(i)
        PROVE  UNCHANGED <<team, shipTeam, saved>>
    BY <2>2 DEF TorpedoFire, TorpedoExpires, shipVars
  <2>3. ASSUME NEW i, NEW s, NEW t, NEW loss, NEW last, NEW own, NEW ownLast,
               \/ BeamFire(s, t, loss, last) \/ TorpedoHit(i, loss, last)
               \/ CollideShips(s, t, loss, last, own, ownLast)
               \/ CollideAlone(s) \/ SelfDestruct(s)
        PROVE  \E game : Struck(game)
    BY <2>3 DEF BeamFire, TorpedoHit, CollideShips, CollideAlone, SelfDestruct
  <2>4. QED
    BY <1>2, <1>3, <2>1, <2>2, <2>3 DEF Combat
<1>4. ASSUME NEW s \in Slots, Connect(s)
      PROVE  TeamTypes'
  BY <1>1, <1>4 DEF Connect, TeamTypes
<1>5. ASSUME NEW s \in Slots, NEW n \in Names, Keepalive(s, n)
      PROVE  TeamTypes'
  <2>1. shipTeam' = shipTeam
    BY <1>5 DEF Keepalive
  <2>2. ASSUME NEW i \in Entries(n), Restore(s, i)
        PROVE  TeamTypes'
    <3>1. saved[i].team \in Nat
      BY DEF TeamTypes, Entries
    <3>2. /\ team' = [t \in Slots |-> IF t = s THEN saved[i].team
                                     ELSE IF t \in LeftBehind(s, i) THEN NoTeam ELSE team[t]]
          /\ saved' = [saved EXCEPT ![i] = NoEntry]
      BY <2>2 DEF Restore, EntryUsed
    <3>3. QED
      BY <1>1, <2>1, <3>1, <3>2 DEF TeamTypes
  <2>3. QED
    BY <1>2, <1>5, <2>1, <2>2 DEF Keepalive
<1>6. ASSUME NEW s \in Slots, Disconnect(s)
      PROVE  TeamTypes'
  <2> DEFINE own == IF s \in ships THEN shipTeam[s] ELSE team[s]
             entry == [name |-> name[s], tally |-> mirror[s], team |-> own, oldSlot |-> s]
  <2>1. /\ team' = [team EXCEPT ![s] = own] /\ shipTeam' = [shipTeam EXCEPT ![s] = NoTeam]
        /\ saved' = IF name[s] = NoName THEN saved ELSE [saved EXCEPT ![EntryFor(name[s])] = entry]
    BY <1>6 DEF Disconnect
  <2>2. own \in Nat /\ entry.team = own
    BY DEF TeamTypes
  <2> HIDE DEF own, entry
  <2>3. QED
    BY <1>1, <2>1, <2>2 DEF TeamTypes
<1>7. ASSUME NEW s \in Slots, NEW t \in Nat, ObjCreateTeam(s, t) \/ TeamMessage(s, t)
      PROVE  TeamTypes'
  BY <1>7 DEF ObjCreateTeam, TeamMessage, TeamTypes
<1>8. CASE TimeUp
  BY <1>2, <1>8 DEF TimeUp, shipVars
<1>9. CASE Restart
  BY <1>1, <1>9 DEF Restart, TeamTypes
<1>10. QED
  BY <1>1, <1>2, <1>3, <1>4, <1>5, <1>6, <1>7, <1>8, <1>9
     DEF Next, Players, vars, shipVars

NamesNotSaved ==
  \A s \in Slots : name[s] # NoName =>
    \A i \in 1..CacheSize : saved[i] # NoEntry => saved[i].name # name[s]

LEMMA OnceNamed ==
  ASSUME NamesNotSaved',
         /\ name' \in [Slots -> Names \cup {NoName}]
         /\ \A s \in Slots \ occupied' : name'[s] = NoName
         /\ \A s, t \in Slots : name'[s] = name'[t] /\ name'[s] # NoName => s = t,
         /\ \A i \in 1..CacheSize : saved'[i] # NoEntry => saved'[i].name \in Names
         /\ \A i, j \in 1..CacheSize :
              saved'[i] # NoEntry /\ saved'[j] # NoEntry /\ saved'[i].name = saved'[j].name => i = j
  PROVE  NamedOnce'
<1>1. \A s \in Slots : name'[s] # NoName =>
        {i \in 1..CacheSize : saved'[i] # NoEntry /\ saved'[i].name = name'[s]} = {}
  BY DEF NamesNotSaved
<1>2. QED
  BY <1>1 DEF NamedOnce, Entries

LEMMA FreeEntry ==
  ASSUME RoomForAll, SInv, NEW n \in Names, Entries(n) = {}
  PROVE  \E i \in 1..CacheSize : saved[i] = NoEntry
<1>1. SUFFICES ASSUME \A i \in 1..CacheSize : saved[i] # NoEntry PROVE FALSE
  OBVIOUS
<1> DEFINE others == Names \ {n}
           f == [i \in CacheEntries |-> saved[i].name]
<1>2. f \in [CacheEntries -> others]
  BY <1>1 DEF SInv, NamedOnce, Entries, CacheEntries
<1>3. /\ IsFiniteSet(others) /\ Cardinality(others) = Cardinality(Names) - 1
      /\ Cardinality(Names) \in Nat /\ Cardinality(others) \in Nat
  BY FS_RemoveElement, OneLess DEF RoomForAll
<1>4. IsFiniteSet(CacheEntries) /\ Cardinality(CacheEntries) = CacheSize /\ CacheSize \in Nat
  <2>1. CacheSize \in Nat
    BY MatchAssumption
  <2>2. IsFiniteSet(1..CacheSize) /\ Cardinality(1..CacheSize) = CacheSize
    BY <2>1, FS_Interval
  <2>3. QED
    BY <2>1, <2>2 DEF CacheEntries
<1>5. Cardinality(others) < Cardinality(CacheEntries)
  BY <1>3, <1>4 DEF RoomForAll
<1> HIDE DEF others, f
<1>6. \E i, j \in CacheEntries : i # j /\ f[i] = f[j]
  BY <1>2, <1>3, <1>4, <1>5, FS_PigeonHole
<1>7. PICK i, j \in CacheEntries : i # j /\ saved[i].name = saved[j].name
  BY <1>6 DEF f
<1>8. QED
  BY <1>1, <1>7 DEF SInv, NamedOnce, CacheEntries

LEMMA NamesStay ==
  ASSUME SInv, CInv', UNCHANGED <<occupied, name, saved>>
  PROVE  SInv'
  BY DEF SInv, NamedOnce, Entries

LEMMA RecordsGrow ==
  ASSUME SInv, SInv', UNCHANGED <<occupied, name, saved>>, NEW n \in Names,
         \A s \in Slots : /\ board'[s].kills >= board[s].kills
                          /\ board'[s].deaths >= board[s].deaths
  PROVE  Grows(n)
<1>1. SUFFICES ASSUME NEW old \in Records(n)
               PROVE  \E new \in Records(n)' : new.kills >= old.kills /\ new.deaths >= old.deaths
  BY DEF Grows
<1>2. /\ occupied \subseteq Slots
      /\ \A s \in occupied : mirror[s] = board[s] /\ mirror'[s] = board'[s]
      /\ \A i \in 1..CacheSize : saved[i] # NoEntry => saved[i].tally \in Tally
  BY DEF SInv, CInv, IInv, NumberTypes, TallyMirrored
<1>3. CASE \E s \in occupied : name[s] = n /\ old = mirror[s]
  <2>1. PICK s \in occupied : name[s] = n /\ old = mirror[s]
    BY <1>3
  <2>2. mirror'[s] \in Records(n)'
    BY <2>1 DEF Records
  <2>3. mirror'[s].kills >= old.kills /\ mirror'[s].deaths >= old.deaths
    BY <1>2, <2>1
  <2>4. QED
    BY <2>2, <2>3
<1>4. CASE \E i \in Entries(n) : old = saved[i].tally
  <2>1. PICK i \in Entries(n) : old = saved[i].tally
    BY <1>4
  <2>2. old \in Records(n)'
    BY <2>1 DEF Records, Entries
  <2>3. old \in Tally
    BY <1>2, <2>1 DEF Entries
  <2>4. QED
    BY <2>2, <2>3 DEF Tally
<1>5. QED
  BY <1>1, <1>3, <1>4 DEF Records

(* What is still on record, exactly, need not have grown.                  *)
LEMMA RecordsKept ==
  ASSUME SInv, NEW n \in Names, Records(n) \subseteq Records(n)'
  PROVE  Grows(n)
<1>1. Records(n) \subseteq Tally
  BY DEF Records, Entries, SInv, CInv, IInv, NumberTypes
<1>2. QED
  BY <1>1 DEF Grows, Tally

LEMMA ConnectNames ==
  ASSUME SInv, NEW s \in Slots, Connect(s)
  PROVE  SInv' /\ \A n \in Names : Grows(n)
<1>1. /\ s \notin occupied /\ occupied' = occupied \cup {s} /\ name' = name /\ saved' = saved
      /\ mirror' = [mirror EXCEPT ![s] = Zero]
  BY DEF Connect
<1>2. CInv'
  BY ConnectCredit DEF SInv
<1>3. SInv'
  BY <1>1, <1>2 DEF SInv, NamedOnce, Entries
<1>4. \A t \in occupied : mirror'[t] = mirror[t]
  BY <1>1 DEF SInv, CInv, IInv, NumberTypes
<1>5. \A n \in Names : Records(n) \subseteq Records(n)'
  BY <1>1, <1>4 DEF Records, Entries
<1>6. QED
  BY <1>3, <1>5, RecordsKept

LEMMA KeepaliveNames ==
  ASSUME RoomForAll, SInv, NEW s \in Slots, NEW m \in Names, Keepalive(s, m)
  PROVE  SInv' /\ \A n \in Names : Grows(n)
<1>1. /\ s \in occupied /\ name[s] = NoName /\ occupied' = occupied
      /\ \A t \in occupied : name[t] # m
      /\ name' = [name EXCEPT ![s] = m]
  BY DEF Keepalive, RoomForAll
<1>2. /\ name \in [Slots -> Names \cup {NoName}] /\ NoName \notin Names /\ occupied \subseteq Slots
      /\ \A t \in Slots \ occupied : name[t] = NoName
      /\ mirror \in [Slots -> Tally] /\ DOMAIN saved = 1..CacheSize
  BY MatchAssumption DEF SInv, NamedOnce, CInv, IInv, NumberTypes
<1>3. CInv'
  BY KeepaliveCredit DEF SInv
<1>4. /\ name' \in [Slots -> Names \cup {NoName}]
      /\ \A t \in Slots \ occupied' : name'[t] = NoName
      /\ \A t, u \in Slots : name'[t] = name'[u] /\ name'[t] # NoName => t = u
  BY <1>1, <1>2 DEF SInv, NamedOnce
<1>5. CASE Entries(m) = {} /\ UNCHANGED <<mirror, saved>>
  <2>1. SInv'
    BY <1>1, <1>2, <1>3, <1>4, <1>5 DEF SInv, NamedOnce, Entries
  <2>2. \A n \in Names : Records(n) \subseteq Records(n)'
    BY <1>1, <1>2, <1>5 DEF Records, Entries
  <2>3. QED
    BY <2>1, <2>2, RecordsKept
<1>6. ASSUME NEW i \in Entries(m), Restore(s, i)
      PROVE  SInv' /\ \A n \in Names : Grows(n)
  <2>1. /\ i \in 1..CacheSize /\ saved[i] # NoEntry /\ saved[i].name = m
        /\ mirror' = [mirror EXCEPT ![s] = saved[i].tally]
        /\ saved' = [saved EXCEPT ![i] = NoEntry]
    BY <1>6 DEF Entries, Restore, EntryUsed
  <2>2. /\ Entries(m)' = {}
        /\ \A n \in Names \ {m} : Entries(n)' = Entries(n)
    BY <1>2, <2>1 DEF SInv, NamedOnce, Entries
  <2>3. NamesNotSaved'
    <3>1. SUFFICES ASSUME NEW t \in Slots, name'[t] # NoName,
                          NEW j \in 1..CacheSize, saved'[j] # NoEntry
                   PROVE  saved'[j].name # name'[t]
      BY DEF NamesNotSaved
    <3>2. CASE t = s
      BY <1>1, <1>2, <2>2, <3>1, <3>2 DEF Entries
    <3>3. CASE t # s
      <4>1. name'[t] = name[t] /\ name[t] \in Names /\ t \in occupied
        BY <1>1, <1>2, <3>1, <3>3
      <4>2. name[t] # m /\ Entries(name[t]) = {}
        BY <1>1, <4>1, <3>1 DEF SInv, NamedOnce
      <4>3. QED
        BY <2>2, <3>1, <4>1, <4>2 DEF Entries
    <3>4. QED
      BY <3>2, <3>3
  <2>4. /\ \A j \in 1..CacheSize : saved'[j] # NoEntry => saved'[j].name \in Names
        /\ \A j, k \in 1..CacheSize :
             saved'[j] # NoEntry /\ saved'[k] # NoEntry /\ saved'[j].name = saved'[k].name => j = k
    BY <1>2, <2>1 DEF SInv, NamedOnce
  <2>5. SInv'
    BY <1>1, <1>2, <1>3, <1>4, <2>3, <2>4, OnceNamed DEF SInv
  <2>6. ASSUME NEW n \in Names
        PROVE  Records(n) \subseteq Records(n)'
    <3>1. SUFFICES ASSUME NEW old \in Records(n) PROVE old \in Records(n)'
      OBVIOUS
    <3>2. CASE \E t \in occupied : name[t] = n /\ old = mirror[t]
      <4>1. PICK t \in occupied : name[t] = n /\ old = mirror[t]
        BY <3>2
      <4>2. t # s /\ t \in occupied' /\ name'[t] = n /\ mirror'[t] = old
        BY <1>1, <1>2, <2>1, <4>1
      <4>3. QED
        BY <4>2 DEF Records
    <3>3. CASE \E j \in Entries(n) : old = saved[j].tally
      <4>1. PICK j \in Entries(n) : old = saved[j].tally
        BY <3>3
      <4>2. CASE n = m
        <5>1. j = i
          BY <2>1, <4>1, <4>2 DEF SInv, NamedOnce, Entries
        <5>2. s \in occupied' /\ name'[s] = n /\ mirror'[s] = old
          BY <1>1, <1>2, <2>1, <4>1, <4>2, <5>1
        <5>3. QED
          BY <5>2 DEF Records
      <4>3. CASE n # m
        <5>1. j \in Entries(n)' /\ saved'[j] = saved[j]
          BY <1>2, <2>1, <4>1, <4>3 DEF Entries
        <5>2. QED
          BY <4>1, <5>1 DEF Records
      <4>4. QED
        BY <4>2, <4>3
    <3>4. QED
      BY <3>1, <3>2, <3>3 DEF Records
  <2>7. QED
    BY <2>5, <2>6, RecordsKept
<1>7. QED
  BY <1>5, <1>6 DEF Keepalive

LEMMA DisconnectNames ==
  ASSUME RoomForAll, SInv, TeamTypes, NEW s \in Slots, Disconnect(s)
  PROVE  SInv' /\ \A n \in Names : Grows(n)
<1> DEFINE m == name[s]
           e == EntryFor(m)
           own == IF s \in ships THEN shipTeam[s] ELSE team[s]
           entry == [name |-> m, tally |-> mirror[s], team |-> own, oldSlot |-> s]
<1>1. /\ s \in occupied /\ occupied' = occupied \ {s}
      /\ name' = [name EXCEPT ![s] = NoName] /\ mirror' = [mirror EXCEPT ![s] = Zero]
      /\ saved' = IF m = NoName THEN saved ELSE [saved EXCEPT ![e] = entry]
  BY DEF Disconnect
<1>2. /\ name \in [Slots -> Names \cup {NoName}] /\ NoName \notin Names /\ occupied \subseteq Slots
      /\ \A t \in Slots \ occupied : name[t] = NoName
      /\ \A t \in Slots : name[t] = m /\ m # NoName => t = s
      /\ mirror \in [Slots -> Tally] /\ DOMAIN saved = 1..CacheSize
  BY MatchAssumption DEF SInv, NamedOnce, CInv, IInv, NumberTypes
<1>3. entry.name = m /\ entry.tally = mirror[s]
  OBVIOUS
<1>4. CInv'
  BY DisconnectCredit DEF SInv
<1>5. /\ name' \in [Slots -> Names \cup {NoName}]
      /\ \A t \in Slots \ occupied' : name'[t] = NoName
      /\ \A t, u \in Slots : name'[t] = name'[u] /\ name'[t] # NoName => t = u
      /\ \A t \in Slots : name'[t] # NoName => t # s /\ name'[t] = name[t] /\ name[t] # m
  BY <1>1, <1>2 DEF SInv, NamedOnce
<1>6. \A t \in occupied' : mirror'[t] = mirror[t] /\ name'[t] = name[t] /\ t \in occupied
  BY <1>1, <1>2
<1>7. CASE m = NoName
  <2>1. saved' = saved
    BY <1>1, <1>7
  <2>2. SInv'
    BY <1>4, <1>5, <2>1 DEF SInv, NamedOnce, Entries
  <2>3. \A n \in Names : Records(n) \subseteq Records(n)'
    BY <1>1, <1>2, <1>6, <1>7, <2>1 DEF Records, Entries
  <2>4. QED
    BY <2>2, <2>3, RecordsKept
<1>8. CASE m # NoName
  <2>1. m \in Names /\ Entries(m) = {}
    BY <1>2, <1>8 DEF SInv, NamedOnce
  <2>2. e \in 1..CacheSize /\ saved[e] = NoEntry
    BY <2>1, FreeEntry, EntryForType
  <2>3. saved' = [saved EXCEPT ![e] = entry]
    BY <1>1, <1>8
  <2> HIDE DEF e, entry
  <2>4. /\ saved'[e] = entry
        /\ \A j \in 1..CacheSize : j # e => saved'[j] = saved[j]
    BY <1>2, <2>2, <2>3
  <2>5. \A j \in 1..CacheSize : saved[j] # NoEntry => j # e /\ saved[j].name # m
    BY <2>1, <2>2 DEF Entries
  <2>6. /\ \A j \in 1..CacheSize : saved'[j] # NoEntry => saved'[j].name \in Names
        /\ \A j, k \in 1..CacheSize :
             saved'[j] # NoEntry /\ saved'[k] # NoEntry /\ saved'[j].name = saved'[k].name => j = k
    BY <1>3, <2>1, <2>4, <2>5 DEF SInv, NamedOnce
  <2>7. NamesNotSaved'
    <3>1. SUFFICES ASSUME NEW t \in Slots, name'[t] # NoName,
                          NEW j \in 1..CacheSize, saved'[j] # NoEntry
                   PROVE  saved'[j].name # name'[t]
      BY DEF NamesNotSaved
    <3>2. name'[t] = name[t] /\ name[t] # m /\ Entries(name[t]) = {}
      BY <1>5, <3>1 DEF SInv, NamedOnce
    <3>3. QED
      BY <1>3, <2>4, <3>1, <3>2 DEF Entries
  <2>8. SInv'
    BY <1>4, <1>5, <2>6, <2>7, OnceNamed DEF SInv
  <2>9. ASSUME NEW n \in Names
        PROVE  Records(n) \subseteq Records(n)'
    <3>1. SUFFICES ASSUME NEW old \in Records(n) PROVE old \in Records(n)'
      OBVIOUS
    <3>2. CASE \E t \in occupied : name[t] = n /\ old = mirror[t]
      <4>1. PICK t \in occupied : name[t] = n /\ old = mirror[t]
        BY <3>2
      <4>2. CASE t = s
        <5>1. entry # NoEntry => e \in Entries(n)' /\ saved'[e].tally = old
          BY <1>3, <2>2, <2>4, <4>1, <4>2 DEF Entries
        <5>2. entry # NoEntry
          <6>1. own \in Nat /\ s \in Nat
            BY DEF TeamTypes, Slots
          <6>2. mirror[s] \in Tally
            BY <1>2
          <6>3. entry \in [name : Names, tally : Tally, team : Nat, oldSlot : Nat]
            BY <2>1, <6>1, <6>2 DEF entry
          <6>4. QED
            BY <6>3, NoEntryAssumption DEF Tally
        <5>3. QED
          BY <5>1, <5>2 DEF Records
      <4>3. CASE t # s
        <5>1. t \in occupied' /\ name'[t] = n /\ mirror'[t] = old
          BY <1>1, <1>2, <4>1, <4>3
        <5>2. QED
          BY <5>1 DEF Records
      <4>4. QED
        BY <4>2, <4>3
    <3>3. CASE \E j \in Entries(n) : old = saved[j].tally
      <4>1. PICK j \in Entries(n) : old = saved[j].tally
        BY <3>3
      <4>2. j \in Entries(n)' /\ saved'[j] = saved[j]
        BY <2>4, <2>5, <4>1 DEF Entries
      <4>3. QED
        BY <4>1, <4>2 DEF Records
    <3>4. QED
      BY <3>1, <3>2, <3>3 DEF Records
  <2>10. QED
    BY <2>8, <2>9, RecordsKept
<1>9. QED
  BY <1>7, <1>8

LEMMA OtherNames ==
  ASSUME SInv, CInv', UNCHANGED <<occupied, name, saved, mirror>>
  PROVE  SInv' /\ \A n \in Names : Grows(n)
<1>1. SInv'
  BY NamesStay
<1>2. \A n \in Names : Records(n) \subseteq Records(n)'
  BY DEF Records, Entries
<1>3. QED
  BY <1>1, <1>2, RecordsKept

LEMMA RestartNames ==
  ASSUME SInv, Restart
  PROVE  SInv'
<1>1. CInv'
  BY RestartCredit DEF SInv
<1>2. UNCHANGED <<occupied, name>> /\ saved' = [i \in 1..CacheSize |-> NoEntry]
  BY DEF Restart, playerVars
<1>3. QED
  BY <1>1, <1>2 DEF SInv, NamedOnce, Entries

LEMMA NamesStep ==
  ASSUME RoomForAll, SInv, TeamTypes, [Next]_vars, CInv'
  PROVE  SInv' /\ (Restart \/ \A n \in Names : Grows(n))
<1>1. CASE Combat
  <2>1. CombatStep
    BY <1>1, CombatSteps DEF SInv
  <2>2. SInv'
    BY <2>1, NamesStay DEF CombatStep
  <2>3. QED
    BY <2>1, <2>2, RecordsGrow DEF CombatStep
<1>2. ASSUME NEW s \in Slots, Connect(s)
      PROVE  SInv' /\ \A n \in Names : Grows(n)
  BY <1>2, ConnectNames
<1>3. ASSUME NEW s \in Slots, NEW m \in Names, Keepalive(s, m)
      PROVE  SInv' /\ \A n \in Names : Grows(n)
  BY <1>3, KeepaliveNames
<1>4. ASSUME NEW s \in Slots, Disconnect(s)
      PROVE  SInv' /\ \A n \in Names : Grows(n)
  BY <1>4, DisconnectNames
<1>5. CASE UNCHANGED <<occupied, name, saved, mirror>>
  BY <1>5, OtherNames
<1>6. ASSUME NEW s \in Slots, NEW t, ObjCreateTeam(s, t) \/ TeamMessage(s, t)
      PROVE  UNCHANGED <<occupied, name, saved, mirror>>
  BY <1>6 DEF ObjCreateTeam, TeamMessage, playerVars, scoreVars
<1>7. CASE TimeUp
  BY <1>5, <1>7 DEF TimeUp, playerVars
<1>8. CASE Restart
  BY <1>8, RestartNames
<1>9. CASE UNCHANGED vars
  BY <1>5, <1>9 DEF vars, playerVars, scoreVars
<1>10. QED
  BY <1>1, <1>2, <1>3, <1>4, <1>5, <1>6, <1>7, <1>8, <1>9 DEF Next, Players

(* A player that leaves is in the cache until it is back, and back it has  *)
(* its entry's numbers.  This takes what the server does not enforce: a    *)
(* place in the cache for every name, and no player back before its old    *)
(* slot has been freed.                                                    *)
THEOREM ScoresOutliveSlots ==
  ASSUME RoomForAll
  PROVE  Spec => ScoreSurvives
<1>1. Init => SInv /\ TeamTypes
  <2> SUFFICES ASSUME Init PROVE SInv /\ TeamTypes
    OBVIOUS
  <2>1. CInv
    BY InitCredit
  <2>2. QED
    BY <2>1 DEF Init, SInv, NamedOnce, Entries, TeamTypes, NoTeam
<1>2. CInv' /\ SInv /\ TeamTypes /\ [Next]_vars
        => SInv' /\ TeamTypes' /\ (Restart \/ \A n \in Names : Grows(n))
  <2> SUFFICES ASSUME CInv', SInv, TeamTypes, [Next]_vars
               PROVE  SInv' /\ TeamTypes' /\ (Restart \/ \A n \in Names : Grows(n))
    OBVIOUS
  <2>1. TeamTypes'
    BY TeamsStayTyped DEF SInv
  <2>2. QED
    BY <2>1, NamesStep
<1>3. Spec => [][Restart \/ \A n \in Names : Grows(n)]_vars
  BY <1>1, <1>2, CreditInvariant, PTL DEF Spec
<1>4. QED
  BY <1>3, PTL DEF ScoreSurvives, Grows
=============================================================================
