---------------------------- MODULE HealthWindows ----------------------------
(***************************************************************************)
(* The bytes of a health window: HealthBroadcast counts them, and a client *)
(* has to find the entries in them again.                                  *)
(***************************************************************************)
EXTENDS HealthBroadcast, BitBuffer

(* Bytes that tell an entry and its children, or settings, apart.          *)
Condition(k, child) == <<2, k, child>>
Setting(k, part) == <<3, k, part>>

EntryAt(of, start, k) == of[((start + k - 1) % Len(of)) + 1]

Conditions(entry, k) == [c \in 1..(entry.children + 1) |-> Condition(k, c - 1)]

(* Entry k of the window: its condition and its children's, and a powered  *)
(* entry's setting, which its owner is not told, or the batteries.         *)
WriteEntry(buf, entry, k, observer) ==
  LET told == WriteBytes(buf, Conditions(entry, k))
  IN CASE entry.format = "powered" ->
            IF observer = "owner" THEN WriteBit(told, 0)
            ELSE WriteBytes(WriteBit(told, 1), <<Setting(k, 1)>>)
       [] entry.format = "power" ->
            WriteBytes(EndGroup(told), <<Setting(k, 1), Setting(k, 2)>>)
       [] OTHER -> EndGroup(told)

(* bc_ship_build_health_update, up to its end condition.                   *)
Window(of, start, observer) ==
  LET upTo[k \in 0..WindowSize[of][start][observer]] ==
        IF k = 0 THEN WriteBytes(EmptyBuffer, <<start>>)
        ELSE WriteEntry(upTo[k - 1], EntryAt(of, start, k), k, observer)
  IN upTo[WindowSize[of][start][observer]].data

(* The client knows the ship's class: it reads entry after entry, and what *)
(* it was told is a list.                                                  *)
ReadMore(before, n) ==
  LET r == ReadBytes(before.reader, n) IN [reader |-> r, told |-> before.told \o r.value]

ReadEntry(before, entry) ==
  LET read == ReadMore(before, entry.children + 1)
      bit == ReadBit(read.reader)
      after == [reader |-> bit, told |-> read.told]
  IN CASE entry.format = "powered" -> IF bit.value = 1 THEN ReadMore(after, 1) ELSE after
       [] entry.format = "power" -> ReadMore(read, 2)
       [] OTHER -> read

ReadWindow(of, data, entries) ==
  LET first == ReadBytes(Reader(data), 1)
      upTo[k \in 0..entries] ==
        IF k = 0 THEN [reader |-> first, told |-> <<>>]
        ELSE ReadEntry(upTo[k - 1], EntryAt(of, first.value[1], k))
  IN upTo[entries]

(* What a client should be told of entry k.                                *)
Facts(entry, k, observer) ==
  Conditions(entry, k)
    \o (CASE entry.format = "power" -> <<Setting(k, 1), Setting(k, 2)>>
          [] entry.format = "powered" /\ observer = "remote" -> <<Setting(k, 1)>>
          [] OTHER -> <<>>)

AllFacts(of, start, observer) ==
  LET upTo[k \in 0..WindowSize[of][start][observer]] ==
        IF k = 0 THEN <<>> ELSE upTo[k - 1] \o Facts(EntryAt(of, start, k), k, observer)
  IN upTo[WindowSize[of][start][observer]]

(* ship_power.c: "Consecutive Powered entries share their has_power_data   *)
(* bits": in every window of every class the client finds each entry's     *)
(* conditions and settings, and no byte is left over, although the bits of *)
(* a group are in a byte that comes before other entries; and the window   *)
(* is as long as the count that ended it.                                  *)
WindowsReadBack ==
  spawns = 0 =>
    \A of \in Lists, observer \in Observers : \A start \in Entries(of) :
      LET size == WindowSize[of][start][observer]
          data == Window(of, start, observer)
          read == ReadWindow(of, data, size)
      IN /\ Len(data) = Written(of, start, observer)[size].bytes
         /\ AtEnd(read.reader)
         /\ read.told = AllFacts(of, start, observer)
=============================================================================
