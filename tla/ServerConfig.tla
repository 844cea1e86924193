----------------------------- MODULE ServerConfig -----------------------------
(***************************************************************************)
(* The settings of the server: built-in defaults, then the configuration   *)
(* file, then the command line, read from left to right.                   *)
(*                                                                         *)
(* A file is a function from the keys it has to their values; an option of *)
(* the command line is a record with its name and its value.  Names of     *)
(* modules and paths are model values or strings that are only compared.   *)
(***************************************************************************)
EXTENDS Integers, Sequences, SequencesExt

CONSTANTS
  MaxMasters,   \* BC_MAX_MASTERS and OBC_CFG_MASTERS_MAX (16)
  MaxModules,   \* OBC_CFG_MODULES_MAX (16)
  MaxSlots      \* BC_MAX_PLAYERS (9): slot 0 is the server's own

ASSUME ConfigAssumption ==
  /\ MaxMasters \in Nat \ {0} /\ MaxModules \in Nat /\ MaxSlots \in Nat \ {0, 1}

VARIABLE settings  \* the settings in force; they do not change once main has read them

NoPath == ""

Ports == 65536  \* the values of a uint16_t

Defaults ==
  [port |-> 22101, max_players |-> 6, system |-> 1, time_limit |-> -1,
   manifest |-> NoPath, registry |-> NoPath,
   masters |-> <<>>, no_master |-> FALSE, modules |-> <<>>]

AtMost(n, seq) == SubSeq(seq, 1, IF Len(seq) < n THEN Len(seq) ELSE n)

(* process_toml: a key that is absent, or a number out of its range, leaves *)
(* the setting as it is; lists keep their first entries.                    *)
FromFile(file) ==
  [key \in DOMAIN Defaults |->
     IF \/ key \notin DOMAIN file
        \/ key = "port" /\ file[key] \notin 1..(Ports - 1)
        \/ key = "system" /\ file[key] \notin 1..9
     THEN Defaults[key]
     ELSE CASE key = "masters" -> AtMost(MaxMasters, file[key])
            [] key = "modules" -> AtMost(MaxModules, file[key])
            [] OTHER -> file[key]]

Clamp(low, high, n) == IF n < low THEN low ELSE IF n > high THEN high ELSE n

(* What main makes of the file's settings before it reads its arguments.   *)
Applied(s) == [s EXCEPT !.max_players = Clamp(1, MaxSlots, @),
                        !.system = Clamp(1, 9, @)]

(* Slip: the masters of the command line are added to those of the file.   *)
ReadMasterAdding(s, host) == [s EXCEPT !.masters = AtMost(MaxMasters, Append(@, host))]

(* The first --master replaces the masters of the file, the others are     *)
(* added while there is room.                                              *)
ReadMaster(s, host) ==
  [s EXCEPT !.cli_master_seen = TRUE,
            !.masters = AtMost(MaxMasters, IF s.cli_master_seen THEN Append(@, host)
                                                                ELSE <<host>>)]

(* One argument of main.                                                   *)
ReadOption(s, option) ==
  CASE option.name = "--master" -> ReadMaster(s, option.value)
    [] option.name = "--no-master" -> [s EXCEPT !.no_master = TRUE]
    [] option.name = "-p" -> [s EXCEPT !.port = option.value % Ports]
    [] option.name = "--max" -> [s EXCEPT !.max_players = Clamp(1, MaxSlots, option.value)]
    [] option.name = "--system" -> [s EXCEPT !.system = Clamp(1, 9, option.value)]
    [] option.name = "--time-limit" -> [s EXCEPT !.time_limit = option.value]
    [] option.name = "--data" -> [s EXCEPT !.registry = option.value]
    [] option.name = "--manifest" -> [s EXCEPT !.manifest = option.value]
    [] OTHER -> s

(* What main has before it reads its arguments.                            *)
Begun(file) ==
  LET given == Applied(FromFile(file))
  IN [port |-> given.port, max_players |-> given.max_players, system |-> given.system,
      time_limit |-> given.time_limit, manifest |-> given.manifest,
      registry |-> given.registry, masters |-> given.masters, no_master |-> given.no_master,
      modules |-> given.modules, cli_master_seen |-> FALSE]

(* The settings main starts with, given the file it finds (an empty        *)
(* function if there is none, or none that parses) and its arguments.      *)
Effective(file, options) ==
  LET final == FoldLeft(ReadOption, Begun(file), options)
  IN [key \in DOMAIN Defaults |-> final[key]]

----------------------------------------------------------------------------
(* What the arguments say of a setting, without reading them in order.     *)
OptionOf ==
  [port |-> "-p", max_players |-> "--max", system |-> "--system", registry |-> "--data",
   time_limit |-> "--time-limit", manifest |-> "--manifest", masters |-> "--master"]

(* The options that name a setting.                                        *)
Naming(options, key) == {i \in DOMAIN options : options[i].name = OptionOf[key]}

(* The values of a setting that main takes as they are.                    *)
Accepts(key, v) ==
  /\ key = "port" => v \in 0..(Ports - 1)
  /\ key = "max_players" => v \in 1..MaxSlots
  /\ key = "system" => v \in 1..9

(* main.c: "CLI always wins", whatever the file holds: the last option that *)
(* names a setting decides it, the masters of the command line are all in   *)
(* use, in their order, as far as there is room, and those of the file are  *)
(* not.                                                                     *)
CommandLineWinsFor(file, options) ==
  LET result == Effective(file, options)
      hosts == Naming(options, "masters")
      nth(i) == Cardinality({j \in hosts : j <= i})
  IN /\ \A key \in DOMAIN OptionOf \ {"masters"} :
          Naming(options, key) # {} =>
            LET last == options[Max(Naming(options, key))].value
            IN Accepts(key, last) => result[key] = last
     /\ hosts # {} =>
          /\ Len(result.masters) = Min({MaxMasters, Cardinality(hosts)})
          /\ \A i \in hosts :
               nth(i) <= MaxMasters => result.masters[nth(i)] = options[i].value
=============================================================================
