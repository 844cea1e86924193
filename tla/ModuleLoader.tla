----------------------------- MODULE ModuleLoader -----------------------------
(***************************************************************************)
(* Loading modules and unloading them: the loader opens a library, calls   *)
(* its load function, and at the end its shutdown callback, then closes    *)
(* it.  What a module does in those calls, and in its event handlers, goes *)
(* through the event bus, whose lists outlive the libraries.               *)
(*                                                                         *)
(* Modules are loaded in the order of the configuration.  The engine fires *)
(* no event of its own, so module code runs only inside a load function or *)
(* a shutdown callback, or in handlers that those fire.                    *)
(***************************************************************************)
EXTENDS EventBus, ServerConfig

CONSTANT OwnerOf  \* the module whose code each handler is

(* What an entry of the configuration names: a Lua script, or a library,   *)
(* with a shutdown callback or without one.                                *)
Libraries == {"lua", "plain", "withShutdown"}

Modules == DOMAIN settings.modules
Engine == 0

ASSUME LoaderAssumption == OwnerOf \in [Handlers -> 1..MaxModules]

VARIABLES
  stage,      \* what the server is doing with its modules
  next,       \* the next entry to load
  loaded,     \* loader->modules: those loaded and not yet shut down
  opened,     \* modules whose library is open
  calling,    \* the module whose load function or callback runs, or Engine
  leftBehind  \* history: modules that were closed with handlers on the lists

loaderVars == <<stage, next, loaded, opened, calling, leftBehind>>
engineVars == <<busVars, loaderVars>>

Stages == {"loading", "running", "stopping", "stopped"}

LoaderInit ==
  /\ BusInit
  /\ stage = "loading"
  /\ next = 1
  /\ loaded = <<>>
  /\ opened = {}
  /\ calling = Engine
  /\ leftBehind = {}

----------------------------------------------------------------------------
(* obc_module_loader_init, one entry at a time.                            *)

(* Slip: the loader returns its error at once.                             *)
RejectBrokenAtOnce ==
  /\ stage = "loading" /\ calling = Engine /\ next \in Modules
  /\ settings.modules[next] # "lua"
  /\ stage' = "stopped"
  /\ UNCHANGED <<busVars, next, loaded, opened, calling, leftBehind>>

SkipLua ==
  /\ stage = "loading" /\ calling = Engine /\ next \in Modules
  /\ settings.modules[next] = "lua"
  /\ next' = next + 1
  /\ UNCHANGED <<busVars, stage, loaded, opened, calling, leftBehind>>

(* Not a library that can be opened and called: no path, a path that is    *)
(* rejected, a missing file or a missing entry point.                      *)
RejectBroken ==
  /\ stage = "loading" /\ calling = Engine /\ next \in Modules
  /\ settings.modules[next] # "lua"
  /\ stage' = "stopping"
  /\ UNCHANGED <<busVars, next, loaded, opened, calling, leftBehind>>

CallLoad ==
  /\ stage = "loading" /\ calling = Engine /\ next \in Modules
  /\ settings.modules[next] # "lua"
  /\ opened' = opened \cup {next}
  /\ calling' = next
  /\ UNCHANGED <<busVars, stage, next, loaded, leftBehind>>

(* Every list is free of the handlers of module m.                         *)
Unsubscribed(m) ==
  \A e \in Events : \A s \in ToSet(subs[e] \o adding[e]) : OwnerOf[s.fn] # m

(* dl_close: nobody asks what the library has left on the lists.           *)
CloseLibrary(m) ==
  /\ opened' = opened \ {m}
  /\ leftBehind' = leftBehind \cup (IF Unsubscribed(m) THEN {} ELSE {m})

LoadSucceeds ==
  /\ stage = "loading" /\ calling # Engine /\ stack = <<>>
  /\ loaded' = Append(loaded, next)
  /\ next' = next + 1
  /\ calling' = Engine
  /\ UNCHANGED <<busVars, stage, opened, leftBehind>>

(* Slip: the entry is counted although its library is closed.              *)
LoadFailsCounted ==
  /\ stage = "loading" /\ calling # Engine /\ stack = <<>>
  /\ CloseLibrary(next)
  /\ loaded' = Append(loaded, next)
  /\ stage' = "stopping"
  /\ calling' = Engine
  /\ UNCHANGED <<busVars, next>>

(* The library is closed and the loader gives up; the entry's shutdown     *)
(* callback is not called.                                                 *)
LoadFails ==
  /\ stage = "loading" /\ calling # Engine /\ stack = <<>>
  /\ CloseLibrary(next)
  /\ stage' = "stopping"
  /\ calling' = Engine
  /\ UNCHANGED <<busVars, next, loaded>>

AllLoaded ==
  /\ stage = "loading" /\ calling = Engine /\ next \notin Modules
  /\ stage' = "running"
  /\ UNCHANGED <<busVars, next, loaded, opened, calling, leftBehind>>

Stop ==
  /\ stage = "running"
  /\ stage' = "stopping"
  /\ UNCHANGED <<busVars, next, loaded, opened, calling, leftBehind>>

----------------------------------------------------------------------------
(* obc_module_loader_shutdown, the last loaded module first.               *)

CallShutdown ==
  /\ stage = "stopping" /\ calling = Engine /\ loaded # <<>>
  /\ settings.modules[Last(loaded)] = "withShutdown"
  /\ calling' = Last(loaded)
  /\ UNCHANGED <<busVars, stage, next, loaded, opened, leftBehind>>

Close(m) ==
  /\ CloseLibrary(m)
  /\ loaded' = Front(loaded)
  /\ calling' = Engine
  /\ UNCHANGED <<busVars, stage, next>>

ShutdownReturns ==
  /\ stage = "stopping" /\ calling # Engine /\ stack = <<>>
  /\ Close(calling)

CloseWithoutShutdown ==
  /\ stage = "stopping" /\ calling = Engine /\ loaded # <<>>
  /\ settings.modules[Last(loaded)] = "plain"
  /\ Close(Last(loaded))

(* main: the bus is shut down after the loader.                            *)
Stopped ==
  /\ stage = "stopping" /\ calling = Engine /\ loaded = <<>>
  /\ stage' = "stopped"
  /\ Reset
  /\ UNCHANGED <<next, loaded, opened, calling, leftBehind>>

----------------------------------------------------------------------------
(* The module whose code runs: that of the innermost handler, if any.      *)
Running ==
  IF stack = <<>> THEN calling
  ELSE LET top == Last(stack) IN OwnerOf[subs[top.event][top.at].fn]

(* A module subscribes and unsubscribes its own functions, when and if it  *)
(* likes.  A call into a library that is closed is undefined: the code may *)
(* still be there and run, as here, or the server ends with the call.      *)
ModuleCode ==
  /\ calling # Engine
  /\ \/ \E e \in Events, fn \in Handlers, p \in Priorities :
          OwnerOf[fn] = Running /\ Subscribe(e, fn, p)
     \/ \E e \in Events, fn \in Handlers : OwnerOf[fn] = Running /\ Unsubscribe(e, fn)
     \/ \E e \in Events : Fire(e)
     \/ \E cancelled \in BOOLEAN : HandlerReturns(cancelled)
  /\ UNCHANGED loaderVars

Loader ==
  \/ SkipLua \/ RejectBroken \/ CallLoad \/ LoadSucceeds \/ LoadFails \/ AllLoaded
  \/ Stop
  \/ CallShutdown \/ ShutdownReturns \/ CloseWithoutShutdown \/ Stopped

----------------------------------------------------------------------------
(* main.c: "shutdown callbacks may fire events", and what these call back  *)
(* must be there.  The loader calls open libraries only, and of those that *)
(* are closed the bus calls none but those that were closed with handlers  *)
(* on the lists: a module that takes its handlers back in time is not      *)
(* called again, whether its load failed half-way, or others leave theirs  *)
(* behind or fire in their own shutdown.                                   *)
OnlyLeftBehindRunClosed ==
  /\ calling # Engine => calling \in opened
  /\ stack # <<>> => Running \in opened \cup leftBehind
=============================================================================
