-------------------------- MODULE MCServerLifecycle --------------------------
(* Instances of ServerLifecycle for TLC. *)
EXTENDS ServerLifecycle

CONSTANTS e1, h1, h2, a1

OneEvent == {e1}
TwoHandlers == {h1, h2}
TwoPriorities == {50, 100}
Owners == (h1 :> 1) @@ (h2 :> 4)

OneAddress == {a1}
TwoDefaults == <<"u", "default">>

Option(name, value) == [name |-> name, value |-> value]

(* Files with and without masters, with values out of range, and none.     *)
NoFile == [key \in {} |-> 0]
SomeMasters == [masters |-> <<"x", "y", "z">>, port |-> 70000, system |-> 3]
TwoModules == [modules |-> <<"lua", "withShutdown">>]
FourModules == [modules |-> <<"withShutdown", "plain", "lua", "withShutdown">>]
QueryPort == [port |-> 6500, max_players |-> 99, manifest |-> "bad"]
SomeFiles == {NoFile, SomeMasters, TwoModules, FourModules, QueryPort}

Options ==
  {Option("--master", "x"), Option("--master", "u"), Option("--max", 12), Option("--max", 2),
   Option("-p", 6500), Option("-p", 65537), Option("--system", 4), Option("--data", "bad"),
   Option("--manifest", "good"), Option("--no-master", TRUE)}
ShortArguments == UNION {[1..n -> Options] : n \in 0..3}

Plain ==
  [file |-> NoFile, options |-> <<Option("--no-master", TRUE)>>, manifests |-> <<>>, sets |-> <<>>,
   jsons |-> <<>>, addressOf |-> [n \in {"x", "y", "z", "u", "default"} |-> Unresolved],
   api |-> {}, joins |-> 0, shown |-> {Unlisted}]

(* The bus in full use, by a module between others.                        *)
BusyModules ==
  [Plain EXCEPT !.file = FourModules, !.api = {"bus"}]

(* Modules that address slots, and players who take them.                  *)
MeddlingModules ==
  [Plain EXCEPT !.file = TwoModules, !.api = {"mail", "points"}, !.joins = 2]

(* One master, which may know the server from before.                      *)
OneMaster ==
  [Plain EXCEPT !.options = <<>>, !.addressOf["default"] = a1, !.joins = 2,
                !.shown = {Unlisted, 1}]

(* Two names of one address.                                               *)
SharedAddress ==
  [Plain EXCEPT !.file = SomeMasters, !.options = <<>>,
                !.addressOf["x"] = a1, !.addressOf["y"] = a1, !.joins = 1]

(* Starts that fail, or that go on without something.                      *)
OddStarts ==
  {[Plain EXCEPT !.manifests = <<"bad">>],
   [Plain EXCEPT !.manifests = <<"bad", "good">>, !.sets = <<"good">>, !.jsons = <<"bad">>],
   [Plain EXCEPT !.file = QueryPort, !.options = <<Option("--manifest", "good")>>,
                 !.jsons = <<"good">>],
   [Plain EXCEPT !.options = <<Option("--data", "bad"), Option("--no-master", TRUE)>>]}

AllMachines == {BusyModules, MeddlingModules, OneMaster, SharedAddress} \cup OddStarts
=============================================================================
