---------------------------- MODULE MasterServers ----------------------------
(***************************************************************************)
(* The master servers that list the game server: heartbeats to them, their *)
(* challenges and status queries, and the answers.                         *)
(*                                                                         *)
(* A master server is not part of this program; MasterHears... is what the *)
(* program expects of it.  Datagrams are lost: at most one is under way in *)
(* each direction, and a newer one overtakes and replaces an older one.    *)
(* Masters are told apart by their IP address, as the code does it.        *)
(***************************************************************************)
EXTENDS ServerConfig, FiniteSets

CONSTANTS
  DefaultMasters, \* bc_default_masters: names used when none is configured
  Addresses,    \* IP addresses of master servers
  Unresolved,   \* what the lookup of a name gives when it fails
  Interval,     \* BC_MASTER_HEARTBEAT_INTERVAL, in passes of a second (60)
  ClockPeriod   \* the clock counts modulo this (2^32 milliseconds)

ASSUME MastersAssumption ==
  /\ Unresolved \notin Addresses
  /\ Interval \in Nat \ {0}
  /\ ClockPeriod \in Nat /\ ClockPeriod >= 2 * Interval

VARIABLES
  entries,     \* the list: for each master whose name was resolved its address,
               \* whether it is enabled and verified, and its last_beat
  clock,       \* bc_ms_now(), in seconds
  idle,        \* history: seconds since the last heartbeat to each entry
  toMaster,    \* the datagram under way to each address
  fromMaster,  \* the datagram under way from each address
  listing,     \* external: the players each master shows for us, or Unlisted
  missed       \* history: addresses that lost a datagram, or never had news

mastersVars == <<entries, clock, idle, toMaster, fromMaster, listing, missed>>

Unlisted == -1

(* Datagrams to a master, and what a master sends.                         *)
Nothing == [kind |-> "nothing"]
Heartbeat == [kind |-> "heartbeat"]   \* with or without "statechanged"
Goodbye == [kind |-> "final"]
Validate == [kind |-> "validate"]
Status(players) == [kind |-> "status", players |-> players]

(* A list left from an earlier run of the server may still be shown.       *)
MastersInit(oldListings) ==
  /\ entries = <<>>
  /\ clock \in {0, ClockPeriod - 1}
  /\ idle = <<>>
  /\ toMaster = [a \in Addresses |-> Nothing]
  /\ fromMaster = [a \in Addresses |-> "nothing"]
  /\ listing \in [Addresses -> oldListings]
  /\ missed = Addresses

----------------------------------------------------------------------------
(* Unsigned subtraction, and the passing of time.                          *)
Since(now, then) == IF now >= then THEN now - then ELSE now - then + ClockPeriod
Later(now, d) == IF now + d >= ClockPeriod THEN now + d - ClockPeriod ELSE now + d

(* Entries that are in use, all of them or those with an address.          *)
InUse == {i \in DOMAIN entries : entries[i].enabled}
InUseAt(a) == {i \in InUse : entries[i].address = a}
AddressesInUse == {entries[i].address : i \in InUse}

(* bc_master_add: a name that does not resolve takes no place, and what    *)
(* does not fit is left out.                                               *)
MasterAdd(list, a) ==
  IF Len(list) >= MaxMasters \/ a = Unresolved THEN list
  ELSE Append(list, [address |-> a, enabled |-> TRUE, verified |-> FALSE, last_beat |-> 0])

Listed(addresses) == FoldLeft(MasterAdd, <<>>, addresses)

(* What is under way once data is sent to the addresses as.                *)
Sent(as, data) == [a \in Addresses |-> IF a \in as THEN data ELSE toMaster[a]]

(* bc_master_mark_verified, and bc_master_record_status_check for what is  *)
(* used of it: the first entry with the address.                           *)
Verified(a) ==
  IF InUseAt(a) = {} THEN entries
  ELSE [entries EXCEPT ![Min(InUseAt(a))].verified = TRUE]

----------------------------------------------------------------------------
(* main: the names of the masters to be told.                              *)
MasterNames ==
  CASE settings.no_master -> <<>>
    [] settings.masters # <<>> -> settings.masters
    [] OTHER -> DefaultMasters

(* main, and bc_master_init_defaults: the list, from what the lookup of    *)
(* each name gives.                                                        *)
MakeList(addressOf) ==
  /\ entries' = Listed([i \in DOMAIN MasterNames |-> addressOf[MasterNames[i]]])
  /\ idle' = [i \in DOMAIN entries' |-> 0]
  /\ UNCHANGED <<clock, toMaster, fromMaster, listing, missed>>

(* bc_master_probe: the first heartbeats.                                  *)
Probe ==
  /\ entries' = [i \in DOMAIN entries |-> [entries[i] EXCEPT !.last_beat = clock]]
  /\ idle' = [i \in DOMAIN entries |-> 0]
  /\ toMaster' = Sent(AddressesInUse, Heartbeat)
  /\ UNCHANGED <<clock, fromMaster, listing, missed>>

(* bc_handle_gamespy, and the polling of bc_master_probe, for a datagram   *)
(* of a master: a challenge is validated, a query is answered.             *)
AnswerMaster(a, players) ==
  /\ fromMaster[a] # "nothing"
  /\ toMaster' = Sent({a}, IF fromMaster[a] = "secure" THEN Validate ELSE Status(players))
  /\ fromMaster' = [fromMaster EXCEPT ![a] = "nothing"]
  /\ entries' = Verified(a)
  /\ UNCHANGED <<clock, idle, listing, missed>>

(* Slip: the difference is not taken modulo the clock's period.            *)
DueWithoutWrap(now) == {i \in InUse : now >= entries[i].last_beat + Interval}

(* Slip: an entry that is registered needs no further heartbeat.           *)
DueUntilVerified(now) ==
  {i \in InUse : ~entries[i].verified /\ Since(now, entries[i].last_beat) >= Interval}

Due(now) == {i \in InUse : Since(now, entries[i].last_beat) >= Interval}

(* bc_master_tick, d seconds after the last one.                           *)
MasterTick(d) ==
  LET now == Later(clock, d)
  IN /\ clock' = now
     /\ entries' = [i \in DOMAIN entries |->
                      IF i \in Due(now) THEN [entries[i] EXCEPT !.last_beat = now] ELSE entries[i]]
     /\ idle' = [i \in DOMAIN entries |->
                   IF i \in Due(now) THEN 0 ELSE IF idle[i] + d > Interval THEN Interval
                                                 ELSE idle[i] + d]
     /\ toMaster' = Sent({entries[i].address : i \in Due(now)}, Heartbeat)
     /\ UNCHANGED <<fromMaster, listing, missed>>

(* bc_master_statechanged.  There is news: what was missed before it does  *)
(* not matter to those it is sent to.                                      *)
StateChanged ==
  /\ toMaster' = Sent(AddressesInUse, Heartbeat)
  /\ missed' = missed \ AddressesInUse
  /\ UNCHANGED <<entries, clock, idle, fromMaster, listing>>

(* Slip: only masters that registered the server are told.                 *)
MasterShutdownVerified ==
  /\ toMaster' = Sent({entries[i].address : i \in {j \in InUse : entries[j].verified}}, Goodbye)
  /\ entries' = [i \in DOMAIN entries |-> [entries[i] EXCEPT !.enabled = FALSE]]
  /\ missed' = missed \ AddressesInUse
  /\ UNCHANGED <<clock, idle, fromMaster, listing>>

(* bc_master_shutdown.                                                     *)
MasterShutdown ==
  /\ toMaster' = Sent(AddressesInUse, Goodbye)
  /\ entries' = [i \in DOMAIN entries |-> [entries[i] EXCEPT !.enabled = FALSE]]
  /\ missed' = missed \ AddressesInUse
  /\ UNCHANGED <<clock, idle, fromMaster, listing>>

----------------------------------------------------------------------------
(* A master server that hears of a server it does not list may challenge   *)
(* it or ask for its status at once; it lists what it has the status of.   *)

MasterHearsHeartbeat(a) ==
  /\ toMaster[a].kind = "heartbeat"
  /\ toMaster' = [toMaster EXCEPT ![a] = Nothing]
  /\ \E call \in {"secure", "query"} :
       /\ listing[a] # Unlisted => call = "query"
       /\ fromMaster' = [fromMaster EXCEPT ![a] = call]
  /\ UNCHANGED <<entries, clock, idle, listing, missed>>

MasterHearsValidate(a) ==
  /\ toMaster[a].kind = "validate"
  /\ toMaster' = [toMaster EXCEPT ![a] = Nothing]
  /\ fromMaster' = [fromMaster EXCEPT ![a] = "query"]
  /\ UNCHANGED <<entries, clock, idle, listing, missed>>

MasterHearsStatus(a) ==
  /\ toMaster[a].kind = "status"
  /\ toMaster' = [toMaster EXCEPT ![a] = Nothing]
  /\ listing' = [listing EXCEPT ![a] = toMaster[a].players]
  /\ missed' = missed \ {a}
  /\ UNCHANGED <<entries, clock, idle, fromMaster>>

MasterHearsGoodbye(a) ==
  /\ toMaster[a].kind = "final"
  /\ toMaster' = [toMaster EXCEPT ![a] = Nothing]
  /\ listing' = [listing EXCEPT ![a] = Unlisted]
  /\ UNCHANGED <<entries, clock, idle, fromMaster, missed>>

(* A master drops a server from its list, or is itself restarted.          *)
MasterForgets(a) ==
  /\ listing[a] # Unlisted
  /\ listing' = [listing EXCEPT ![a] = Unlisted]
  /\ UNCHANGED <<entries, clock, idle, toMaster, fromMaster, missed>>

LoseDatagram(a) ==
  /\ toMaster[a] # Nothing \/ fromMaster[a] # "nothing"
  /\ \/ toMaster' = [toMaster EXCEPT ![a] = Nothing] /\ UNCHANGED fromMaster
     \/ fromMaster' = [fromMaster EXCEPT ![a] = "nothing"] /\ UNCHANGED toMaster
  /\ missed' = missed \cup {a}
  /\ UNCHANGED <<entries, clock, idle, listing>>

MasterHears(a) ==
  \/ MasterHearsHeartbeat(a) \/ MasterHearsValidate(a)
  \/ MasterHearsStatus(a) \/ MasterHearsGoodbye(a)

MasterSide == \E a \in Addresses : MasterHears(a) \/ MasterForgets(a) \/ LoseDatagram(a)
=============================================================================
