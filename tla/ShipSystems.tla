----------------------------- MODULE ShipSystems -----------------------------
(***************************************************************************)
(* The state the server keeps of one ship in the battle: hull, shield      *)
(* facings, subsystems, repair queue, cloak and backup battery, under      *)
(* weapon hits, collisions, the owner's cloak and self-destruct messages   *)
(* and the server's tick.                                                  *)
(*                                                                         *)
(* One unit of damage, of repair, of charge stands for what the class      *)
(* gives; a tick is one unit of time (a long one is several in a row with  *)
(* no message between them).  Where the shape of the ship decides which    *)
(* subsystems a blast reaches or how a share is rounded, any choice the    *)
(* totals admit is taken.                                                  *)
(***************************************************************************)
EXTENDS Integers, Sequences, FiniteSets, FiniteSetsExt, SequencesExt

CONSTANTS
  Kind,           \* the type of each subsystem of the class, in its order
  DisabledBelow,  \* hit points under which each is disabled, 0 if never
  MaxHp,          \* hit points of a whole subsystem
  HullMax,        \* hit points of a whole hull
  Facings,        \* shield facings
  ShieldMax,      \* hit points of a whole facing
  Recharge,       \* what a facing regains in a tick
  Teams,          \* num_repair_teams
  MaxBackup,      \* backup_battery_limit
  PowerOutput,    \* what a whole reactor yields in a second
  CanCloak,       \* the class has a cloaking device
  CloakTicks,     \* ticks of BC_CLOAK_TRANSITION_TIME
  Damages         \* damage a hit may carry, a blast in equal parts to all facings

Subsystems == DOMAIN Kind
Kinds == {"power", "shield", "phaser", "pulse_weapon", "repair", "cloak", "sensor"}

ASSUME ShipAssumption ==
  /\ Kind \in Seq(Kinds)
  /\ DisabledBelow \in [Subsystems -> 0..MaxHp]
  /\ {MaxHp, HullMax, Cardinality(Facings), Teams, CloakTicks} \subseteq Nat \ {0}
  /\ {ShieldMax, Recharge, MaxBackup, PowerOutput} \subseteq Nat
  /\ IsFiniteSet(Facings)
  /\ CanCloak \in BOOLEAN
  /\ Damages \subseteq Nat \ {0}
  /\ \A d \in Damages : d % Cardinality(Facings) = 0

VARIABLES
  alive,   \* the owner has a ship, and it is alive
  hull,
  shield,  \* hit points of each facing
  hp,      \* hit points of each subsystem
  queue,   \* repair_queue
  cloak,   \* cloak_state
  timer,   \* cloak_timer
  backup   \* backup_battery

vars == <<alive, hull, shield, hp, queue, cloak, timer, backup>>

Full == [f \in Facings |-> ShieldMax]
Whole == [s \in Subsystems |-> MaxHp]

(* Before the owner has a ship; what the variables hold has no effect.     *)
Init ==
  /\ alive = FALSE
  /\ hull = HullMax
  /\ shield = Full
  /\ hp = Whole
  /\ queue = <<>>
  /\ cloak = "decloaked" /\ timer = 0
  /\ backup = MaxBackup

(* ObjCreateTeam: the owner's ship, a first one or another in its place.   *)
Spawn ==
  /\ alive' = TRUE
  /\ hull' = HullMax
  /\ shield' = Full
  /\ hp' = Whole
  /\ queue' = <<>>
  /\ cloak' = "decloaked" /\ timer' = 0
  /\ backup' = MaxBackup

----------------------------------------------------------------------------
(* The class                                                               *)

Least(a, b) == IF a <= b THEN a ELSE b
Total(f) == SumFunction(f)

(* The first subsystem of a type decides for the ship; a class without one *)
(* is served as if it were whole.                                          *)
Down(kind) ==
  LET of == {s \in Subsystems : Kind[s] = kind}
  IN  of # {} /\ hp[Min(of)] = 0

(* Subsystems of one bucket share one repair event per hit.                *)
Bucket(s) == IF Kind[s] \in {"cloak", "sensor"} THEN "other" ELSE Kind[s]

(* The subsystems of a set, in the order of the class                      *)
InOrder ==
  [set \in SUBSET Subsystems |->
     LET upTo[n \in 0..Len(Kind)] ==
           IF n = 0 THEN <<>>
           ELSE IF n \in set THEN Append(upTo[n - 1], n) ELSE upTo[n - 1]
     IN upTo[Len(Kind)]]

(* The slip that does not look for what is queued already.                 *)
EnqueuedAgain(q, set) == q \o InOrder[set]

(* bc_repair_add for each of a set, in the order of the class              *)
Enqueued(q, set) == q \o InOrder[set \ ToSet(q)]

(* The first of each bucket that the hit left worse and that is not queued *)
FirstOfBuckets(set) ==
  {s \in set : ~ \E t \in set : t < s /\ Bucket(t) = Bucket(s)}

Damaged(after) ==
  {s \in Subsystems : after[s] < hp[s]} \ ToSet(queue)

----------------------------------------------------------------------------
(* Damage                                                                  *)

(* The facings a hit meets share it: all of them a blast, one of them a    *)
(* directed hit.  None absorbs while the ship is not fully decloaked.      *)
Absorbing(d, met) ==
  IF cloak # "decloaked" THEN shield
  ELSE [g \in Facings |->
          IF g \in met THEN shield[g] - Least(d \div Cardinality(met), shield[g])
          ELSE shield[g]]

(* What is queued for a ship that dies of a collision, without regard to   *)
(* the buckets.                                                            *)
DeathRepairs(after) == {s \in Subsystems : after[s] < MaxHp}

(* bc_combat_apply_damage: what passes the shields is absorbed by each     *)
(* subsystem reached, on its own, and the hull takes what they left.       *)
Strike(d, met, reached, collided) ==
  LET after == Absorbing(d, met)
      overflow == d - Total([g \in met |-> shield[g] - after[g]])
      left == [s \in Subsystems |->
                 IF s \in reached THEN hp[s] - Least(overflow, hp[s]) ELSE hp[s]]
      toHull == overflow - Total([s \in reached |-> hp[s] - left[s]])
      hurt == Enqueued(queue, FirstOfBuckets(Damaged(left)))
  IN  /\ shield' = after
      /\ hp' = left
      /\ hull' = IF toHull > 0 THEN hull - Least(toHull, hull) ELSE hull
      /\ alive' = (hull' > 0)
      /\ queue' = IF alive' \/ ~ collided THEN hurt
                  ELSE Enqueued(hurt, DeathRepairs(left))
      /\ UNCHANGED <<cloak, timer, backup>>

(* A phaser or pulse beam: directed, and it reaches no subsystem.          *)
Beam ==
  alive /\ \E d \in Damages, f \in Facings : Strike(d, {f}, {}, FALSE)

(* A torpedo with a radius is a blast; one without is like a beam.         *)
Torpedo ==
  /\ alive
  /\ \E d \in Damages :
       \/ \E reached \in SUBSET Subsystems : Strike(d, Facings, reached, FALSE)
       \/ \E f \in Facings : Strike(d, {f}, {}, FALSE)

(* This ship's part of an accepted CollisionEffect: directed, with a       *)
(* radius.                                                                 *)
Collision ==
  /\ alive
  /\ \E d \in Damages, f \in Facings, reached \in SUBSET Subsystems :
       Strike(d, {f}, reached, TRUE)

(* HostMsg: every subsystem destroyed, one event per bucket, ship gone.    *)
SelfDestruct ==
  LET none == [s \in Subsystems |-> 0]
  IN  /\ alive
      /\ hp' = none
      /\ hull' = 0
      /\ queue' = Enqueued(queue, FirstOfBuckets(Damaged(none)))
      /\ alive' = FALSE
      /\ UNCHANGED <<shield, cloak, timer, backup>>

----------------------------------------------------------------------------
(* The cloaking device                                                     *)

StartCloak ==
  /\ alive /\ CanCloak
  /\ cloak = "decloaked"
  /\ ~ Down("cloak")
  /\ cloak' = "cloaking"
  /\ timer' = CloakTicks
  /\ UNCHANGED <<alive, hull, shield, hp, queue, backup>>

(* The slip that starts the way back again on every StopCloak.             *)
StopCloakAgain ==
  /\ alive
  /\ cloak # "decloaked"
  /\ cloak' = "decloaking"
  /\ timer' = CloakTicks
  /\ UNCHANGED <<alive, hull, shield, hp, queue, backup>>

StopCloak ==
  /\ alive
  /\ cloak \in {"cloaking", "cloaked"}
  /\ cloak' = "decloaking"
  /\ timer' = CloakTicks
  /\ UNCHANGED <<alive, hull, shield, hp, queue, backup>>

(* bc_cloak_tick on facings `sh`.  The device is starved when it gets less *)
(* than half the power it asks for: the reactor is worn, or the tick long. *)
CloakTick(starved, sh) ==
  IF cloak \in {"cloaking", "decloaking"} /\ timer > 1 THEN
    /\ timer' = timer - 1
    /\ shield' = sh /\ UNCHANGED cloak
  ELSE IF cloak = "cloaked" /\ starved THEN
    /\ cloak' = "decloaking" /\ timer' = CloakTicks
    /\ shield' = sh
  ELSE
    /\ cloak' = CASE cloak = "cloaking" -> "cloaked"
                  [] cloak = "decloaking" -> "decloaked"
                  [] OTHER -> cloak
    /\ timer' = 0
    /\ shield' = IF cloak = "decloaking"
                 THEN [f \in Facings |-> Max({sh[f], 1})] ELSE sh

----------------------------------------------------------------------------
(* The reactor and the shields                                             *)

(* The main battery is never drawn on, so what the reactor yields each     *)
(* second overflows to the backup; a worn reactor yields a part of it.     *)
Yield(second) ==
  IF ~ second \/ Down("power") THEN {0} ELSE 1..PowerOutput

(* What the facings `on` may hold after a tick that gives `granted`: each  *)
(* its own recharge unless the grant was cut, and nothing is lost while    *)
(* one of them has room.                                                   *)
Recharged(on, granted) ==
  LET room == Cardinality(on) * ShieldMax - SumFunctionOnSet(shield, on)
      due == IF granted = Cardinality(on) * Recharge THEN Recharge ELSE 0
  IN  {sh \in [Facings -> 0..ShieldMax] :
         /\ \A f \in on : sh[f] >= Least(ShieldMax, shield[f] + due)
         /\ \A f \in Facings \ on : sh[f] = shield[f]
         /\ Total(sh) - Total(shield) = Least(granted, room)}

(* The slip that charges a cloaked ship's shields.                         *)
ShieldTickCloaked(power) ==
  Recharged(Facings, Cardinality(Facings) * Recharge)

(* bc_combat_shield_tick: nothing while not decloaked.  Without its        *)
(* generator the ship tops up only facings that still hold, from `power`   *)
(* of the backup battery.                                                  *)
ShieldTick(power) ==
  LET holding == {f \in Facings : shield[f] \in 1..(ShieldMax - 1)}
  IN  IF cloak # "decloaked" THEN {shield}
      ELSE IF Down("shield")
      THEN Recharged(holding, Least(Cardinality(holding) * Recharge, power))
      ELSE Recharged(Facings, Cardinality(Facings) * Recharge)

----------------------------------------------------------------------------
(* Repair                                                                  *)

(* The entries the teams stand at, destroyed ones among them               *)
AtWork(q) == {q[i] : i \in 1..Least(Len(q), Teams)}

(* The slip that stops at the first destroyed one.                         *)
MendsUpToDestroyed ==
  IF Down("repair") THEN {}
  ELSE {queue[i] : i \in {j \in 1..Least(Len(queue), Teams) :
                            \A k \in 1..j : hp[queue[k]] > 0}}

Mends ==
  IF Down("repair") THEN {} ELSE {s \in AtWork(queue) : hp[s] > 0}

Mended == [s \in Subsystems |->
             IF s \in Mends THEN Least(MaxHp, hp[s] + 1) ELSE hp[s]]

(* bc_repair_tick: entries made whole leave the queue.                     *)
StillQueued(after) ==
  LET whole == {s \in Mends : after[s] = MaxHp}
      upTo[n \in 0..Len(queue)] ==
        IF n = 0 THEN <<>>
        ELSE IF queue[n] \in whole THEN upTo[n - 1] ELSE Append(upTo[n - 1], queue[n])
  IN upTo[Len(queue)]

(* bc_repair_auto_queue: disabled subsystems that are not destroyed        *)
AutoQueued(after) ==
  {s \in Subsystems : 0 < after[s] /\ after[s] < DisabledBelow[s]}

(* The server's tick for this ship, in the order of the main loop          *)
Tick ==
  /\ alive
  /\ \E second, starved \in BOOLEAN :
       \E yield \in Yield(second) :
         LET power == Least(MaxBackup, backup + yield)
         IN  \E sh \in ShieldTick(power) :
               /\ backup' = IF Down("shield")
                            THEN power - (Total(sh) - Total(shield)) ELSE power
               /\ CloakTick(starved, sh)
  /\ hp' = Mended
  /\ queue' = Enqueued(StillQueued(hp'), AutoQueued(hp'))
  /\ UNCHANGED <<alive, hull>>

Next ==
  \/ Beam \/ Torpedo \/ Collision
  \/ SelfDestruct \/ Spawn
  \/ StartCloak \/ StopCloak
  \/ Tick

Spec == Init /\ [][Next]_vars

(* The main loop ticks every ship thirty times a second.                   *)
FairSpec == Spec /\ WF_vars(Tick)

----------------------------------------------------------------------------
(* Properties                                                              *)

TypeOK ==
  /\ alive \in BOOLEAN
  /\ hull \in 0..HullMax
  /\ shield \in [Facings -> 0..Max({1, ShieldMax})]
  /\ hp \in [Subsystems -> 0..MaxHp]
  /\ queue \in Seq(Subsystems)
  /\ cloak \in {"decloaked", "cloaking", "cloaked", "decloaking"}
  /\ timer \in 0..CloakTicks
  /\ backup \in 0..MaxBackup

(* What is queued needs repair and is queued once, so the queue never      *)
(* outgrows its BC_MAX_SUBSYSTEMS places, whatever the order in which      *)
(* hits, ticks and deaths add to it.                                       *)
QueueIsSound ==
  /\ \A i \in DOMAIN queue : hp[queue[i]] < MaxHp
  /\ IsInjective(queue)

(* Every level keeps its range, the shields' and the hull's under any      *)
(* damage, and the repair queue is sound.                                  *)
ShipIsSound == TypeOK /\ QueueIsSound

(* While the ship is anything but decloaked its facings keep what they     *)
(* hold: they neither absorb nor recharge until it is decloaked again.     *)
ShieldsKeptUnderCloak ==
  [][alive /\ cloak # "decloaked" /\ cloak' # "decloaked"
       => shield' = shield]_vars

(* A ship that began to decloak is decloaked again or gone, however often  *)
(* its owner repeats StopCloak.                                            *)
DecloakEnds == (cloak = "decloaking") ~> (cloak = "decloaked" \/ ~ alive)

Peace == <>[][\A s \in Subsystems : hp'[s] >= hp[s]]_vars

(* Damaged, not destroyed, queued, and the repair bay is not destroyed     *)
Waiting(s) == /\ alive /\ ~ Down("repair")
              /\ s \in ToSet(queue) /\ hp[s] > 0

(* Destroyed entries hold all the teams.                                   *)
Blocked == /\ Len(queue) >= Teams
           /\ \A t \in AtWork(queue) : hp[t] = 0

(* Once hits end, everything queued that is not destroyed is made whole    *)
(* unless destroyed entries hold all the repair teams.                     *)
RepairGoesOn ==
  Peace => \A s \in Subsystems : []<>(~ Waiting(s) \/ Blocked)
==============================================================================
