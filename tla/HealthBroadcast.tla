--------------------------- MODULE HealthBroadcast ---------------------------
(***************************************************************************)
(* What clients are told of the condition of one ship's subsystems: the    *)
(* round-robin health update, ten times a second, the extra windows sent   *)
(* after damage, and the burst of a self-destruct.                         *)
(*                                                                         *)
(* A window is a run of entries of the ship's list.  It comes in two       *)
(* versions, for the ship's owner and for everyone else; the second has a  *)
(* byte more for each powered entry.  The model follows one entry, any.    *)
(***************************************************************************)
EXTENDS Integers, Sequences, FiniteSets, FiniteSetsExt

CONSTANTS
  Lists,      \* the serialization list of each ship class in the registry
  Budget,     \* bytes after which a window ends (10)
  SyncTicks,  \* broadcasts in a second (10)
  MaxHits,    \* bound: windows sent after damage
  MaxLost,    \* bound: windows lost on their way
  MaxSpawns   \* bound: ships spawned

(* The formats of an entry: it alone, with a power setting, the reactor.   *)
Formats == {"base", "powered", "power"}

ASSUME HealthAssumption ==
  /\ \A of \in Lists : /\ Len(of) > 0
                       /\ of \in Seq([format : Formats, children : Nat])
  /\ Budget \in Nat /\ SyncTicks \in Nat
  /\ MaxHits \in Nat /\ MaxLost \in Nat /\ MaxSpawns \in Nat

Observers == {"owner", "remote"}
NoShip == <<>>

VARIABLES
  list,    \* the class's list while the ship is alive, or NoShip
  cursor,  \* subsys_rr_idx
  watch,   \* the entry that is followed
  worn,    \* its condition differs from that of a new ship
  stale,   \* whether the condition has changed since each observer last heard it
  unsent,  \* broadcasts since it was in a window for each observer
  hits,    \* windows sent after damage so far
  lost,    \* windows lost so far
  spawns   \* ships spawned so far

counts == <<hits, lost, spawns>>
healthVars == <<list, cursor, watch, worn, stale, unsent, counts>>

Entries(of) == 0..(Len(of) - 1)

HealthInit ==
  /\ list = NoShip
  /\ cursor = 0
  /\ watch = 0
  /\ worn = FALSE
  /\ stale = [o \in Observers |-> FALSE]
  /\ unsent = [o \in Observers |-> 0]
  /\ hits = 0 /\ lost = 0 /\ spawns = 0

----------------------------------------------------------------------------
(* bc_ship_build_health_update                                             *)

(* Bytes written, and values in the current bit group, after k entries of  *)
(* list of: a powered entry adds a bit to a group of up to five.           *)
Written(of, start, observer) ==
  LET entry(k) == of[((start + k - 1) % Len(of)) + 1]
      written[k \in 0..Len(of)] ==
        IF k = 0 THEN [bytes |-> 1, bits |-> 0]
        ELSE LET before == written[k - 1]
                 plain == before.bytes + 1 + entry(k).children
                 group == IF before.bits \in {0, 5} THEN 1 ELSE 0
                 setting == IF observer = "remote" THEN 1 ELSE 0
             IN CASE entry(k).format = "powered" ->
                       [bytes |-> plain + group + setting,
                        bits |-> IF group = 1 THEN 1 ELSE before.bits + 1]
                  [] entry(k).format = "power" -> [bytes |-> plain + 2, bits |-> 0]
                  [] OTHER -> [bytes |-> plain, bits |-> 0]
  IN written

(* The window ends with the list, or, from its second entry on, when the   *)
(* budget is used up.                                                      *)
WindowSize ==
  [of \in Lists |-> [start \in Entries(of) |-> [observer \in Observers |->
     LET written == Written(of, start, observer)
     IN Min({Len(of)} \cup {k \in 2..Len(of) : written[k].bytes >= Budget})]]]

InWindow(entry, start, observer) ==
  (entry - start) % Len(list) < WindowSize[list][start][observer]

(* Slip: the cursor is left one entry too far.                             *)
NextCursorSkipping(of, start) == (start + WindowSize[of][start]["owner"] + 1) % Len(of)

(* Where the owner's version ended; it moves the cursor for both.          *)
NextCursor(of, start) == (start + WindowSize[of][start]["owner"]) % Len(of)

(* The starts of the windows of a full cycle (send_health_update_full_cycle): *)
(* it ends when it is back at its first start, or after two more windows   *)
(* than the list has entries.                                              *)
FullCycle ==
  [of \in Lists |-> [first \in Entries(of) |->
     LET at[k \in 0..(Len(of) + 1)] ==
           IF k = 0 THEN first ELSE NextCursor(of, at[k - 1])
         back == {k \in 1..(Len(of) + 1) : at[k] \in {first, at[k - 1]}}
     IN {at[k] : k \in 0..(Min(back \cup {Len(of) + 2}) - 1)}]]

----------------------------------------------------------------------------
(* A window for each observer was sent from each of starts; an observer in *)
(* misses did not get those it was sent.                                   *)
Sent(starts, misses, changed) ==
  LET covers(o) == \E start \in starts : InWindow(watch, start, o)
  IN /\ lost + Cardinality(misses) <= MaxLost
     /\ lost' = lost + Cardinality(misses)
     /\ stale' = [o \in Observers |-> (stale[o] \/ changed) /\ ~ (covers(o) /\ o \notin misses)]

(* Slip: the cursor is not moved.                                          *)
BroadcastInPlace ==
  /\ list # NoShip
  /\ \E misses \in SUBSET Observers : Sent({cursor}, misses, FALSE)
  /\ unsent' = [o \in Observers |-> IF InWindow(watch, cursor, o) THEN 0
                                    ELSE Min({unsent[o] + 1, SyncTicks})]
  /\ UNCHANGED <<list, cursor, watch, worn, hits, spawns>>

(* The periodic update, every third tick.                                  *)
Broadcast ==
  /\ list # NoShip
  /\ \E misses \in SUBSET Observers : Sent({cursor}, misses, FALSE)
  /\ unsent' = [o \in Observers |-> IF InWindow(watch, cursor, o) THEN 0
                                    ELSE Min({unsent[o] + 1, SyncTicks})]
  /\ cursor' = NextCursor(list, cursor)
  /\ UNCHANGED <<list, watch, worn, hits, spawns>>

(* Damage, perhaps to the entry: a window from where the cursor is, which  *)
(* does not move (send_health_update_immediate).                           *)
Hit ==
  /\ list # NoShip
  /\ hits < MaxHits
  /\ \E changed \in BOOLEAN, misses \in SUBSET Observers :
       /\ Sent({cursor}, misses, changed)
       /\ worn' = (worn \/ changed)
  /\ hits' = hits + 1
  /\ UNCHANGED <<list, cursor, watch, unsent, spawns>>

(* Repair, in full or in part, without a window of its own.                *)
Repaired ==
  /\ list # NoShip /\ worn
  /\ worn' \in BOOLEAN
  /\ stale' = [o \in Observers |-> TRUE]
  /\ UNCHANGED <<list, cursor, watch, unsent, counts>>

(* A client that joins is shown the ship as it was spawned.                *)
Joined ==
  /\ list # NoShip
  /\ worn /\ ~ stale["remote"]
  /\ stale' = [stale EXCEPT !["remote"] = TRUE]
  /\ UNCHANGED <<list, cursor, watch, worn, unsent, counts>>

(* The ship is destroyed, or its player leaves: nothing more is sent.      *)
Lost ==
  /\ list # NoShip
  /\ list' = NoShip
  /\ UNCHANGED <<cursor, watch, worn, stale, unsent, counts>>

(* Slip: the burst is built after the ship is marked dead, and is empty.   *)
DestructBurstTooLate ==
  /\ list # NoShip
  /\ worn' = TRUE
  /\ stale' = [o \in Observers |-> TRUE]
  /\ list' = NoShip
  /\ UNCHANGED <<cursor, watch, unsent, counts>>

(* Every subsystem is zeroed and a full cycle sent before the ship is lost. *)
DestructBurst ==
  /\ list # NoShip
  /\ worn' = TRUE
  /\ \E misses \in SUBSET Observers : Sent(FullCycle[list][cursor], misses, TRUE)
  /\ list' = NoShip
  /\ UNCHANGED <<cursor, watch, unsent, hits, spawns>>

(* A new ship, of any class, also while the old one is alive.  Clients get *)
(* all of its state with it.                                               *)
NewShip ==
  /\ spawns < MaxSpawns
  /\ spawns' = spawns + 1
  /\ list' \in Lists
  /\ watch' \in Entries(list')
  /\ cursor' = 0
  /\ worn' = FALSE
  /\ stale' = [o \in Observers |-> FALSE]
  /\ unsent' = [o \in Observers |-> 0]
  /\ UNCHANGED <<hits, lost>>

HealthNext ==
  Broadcast \/ Hit \/ Repaired \/ Joined \/ Lost \/ DestructBurst \/ NewShip

HealthSpec == HealthInit /\ [][HealthNext]_healthVars

----------------------------------------------------------------------------
(* What the bounds of a second rest on.                                    *)

(* A list of at most two entries for each broadcast of a second: the       *)
(* loader cuts a list off after sixteen (BC_SS_MAX_ENTRIES).               *)
ListsFit == \A of \in Lists : Len(of) <= 2 * SyncTicks

(* Entries that the cursor, once among them, does not leave.               *)
IsRound(of, round) == 0 \in round /\ \A c \in round : NextCursor(of, c) \in round

(* The cursor starts few enough different windows of a class for a second  *)
(* to hold them all; so it is of every class of data/vanilla-1.1/ships.    *)
RoundInTime ==
  \A of \in Lists : \E round \in SUBSET Entries(of) :
    IsRound(of, round) /\ Cardinality(round) <= SyncTicks

----------------------------------------------------------------------------
(* Every entry is in a window for the ship's owner within a second,        *)
(* whatever windows are sent in between.                                   *)
OwnerSynced == list # NoShip => unsent["owner"] < SyncTicks

(* The same for everyone else, of an entry that is in a window to come:    *)
(* the cursor is moved by the owner's windows, which are longer, and       *)
(* passes over the same entries of some classes every time.                *)
RemoteSyncedIfCovered ==
  list # NoShip /\ (\E start \in FullCycle[list][cursor] : InWindow(watch, start, "remote"))
    => unsent["remote"] < SyncTicks

(* server_dispatch.c: the owner's bars "drain immediately": unless it is   *)
(* lost, the burst tells the owner of every entry.                         *)
OwnerSeesDestruct ==
  [][list # NoShip /\ DestructBurst /\ lost' = lost => ~ stale'["owner"]]_healthVars
=============================================================================
