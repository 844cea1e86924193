------------------------------- MODULE EventBus -------------------------------
(***************************************************************************)
(* The event bus of the plugin engine: an ordered list of subscribers for  *)
(* each event, fired by calling them one after another.                    *)
(*                                                                         *)
(* There is one thread and no queue: a handler runs inside the fire that   *)
(* called it, and before it returns it may call the bus in any way, so     *)
(* fires nest.  The stack of running fires is the state that makes changes *)
(* of a list unsafe; the bus defers them until the outermost fire of that  *)
(* event is over.                                                          *)
(***************************************************************************)
EXTENDS Integers, Sequences, FiniteSets, SequencesExt

CONSTANTS
  Events,        \* event names
  Handlers,      \* handler functions
  Priorities,    \* priorities in use; the bus clamps them to 0..255
  MaxEvents,     \* OBC_EVENT_MAX_EVENTS (128)
  MaxSubs,       \* OBC_EVENT_MAX_SUBS (64)
  MaxFireDepth,  \* OBC_EVENT_MAX_FIRE_DEPTH (8)
  MaxMade        \* bound: subscriptions accepted in one behaviour

ASSUME BusAssumption ==
  /\ Priorities \subseteq 0..255
  /\ MaxEvents \in Nat \ {0} /\ MaxSubs \in Nat \ {0} /\ MaxFireDepth \in Nat \ {0}
  /\ MaxMade \in Nat

VARIABLES
  known,     \* events with an entry in g_events
  subs,      \* active subscribers of each event, in the order they are called
  adding,    \* add_pending of each event
  removing,  \* remove_pending of each event
  stack,     \* fires that have not returned, outermost first
  made,      \* history: subscriptions accepted so far; the last one's number
  kept       \* history: the numbers of those not given up since

busVars == <<known, subs, adding, removing, stack, made, kept>>

(* A subscription carries its number, which is history.                    *)
Subscription == [fn : Handlers, priority : Priorities, number : 1..MaxMade]

(* A fire that is calling subscriber at of its event.  since and running   *)
(* are history: the subscriptions accepted when the outermost fire of this *)
(* event began, and the number of the one being called.                    *)
Frame == [event : Events, at : 1..MaxSubs, since : 0..MaxMade, running : 1..MaxMade]

BusInit ==
  /\ known = {}
  /\ subs = [e \in Events |-> <<>>]
  /\ adding = [e \in Events |-> <<>>]
  /\ removing = [e \in Events |-> <<>>]
  /\ stack = <<>>
  /\ made = 0
  /\ kept = [e \in Events |-> {}]

----------------------------------------------------------------------------
(* fire_depth                                                              *)
Fires(frames, e) == {i \in DOMAIN frames : frames[i].event = e}
FireDepth(e) == Cardinality(Fires(stack, e))

(* insert_sub: before the first subscriber with a greater priority value.  *)
InsertSub(list, sub) ==
  LET later == {i \in DOMAIN list : list[i].priority > sub.priority}
  IN InsertAt(list, Min(later \cup {Len(list) + 1}), sub)

(* remove_sub: the first one with this function, if there is one.          *)
RemoveSub(list, fn) ==
  LET mine == {i \in DOMAIN list : list[i].fn = fn}
  IN IF mine = {} THEN list
     ELSE RemoveAt(list, Min(mine))

(* Slip: additions are flushed first.                                      *)
FlushedAdditionsFirst(list, removals, additions) ==
  FoldLeft(RemoveSub, FoldLeft(InsertSub, list, additions), removals)

(* flush_removals, then flush_additions: there is room for every addition. *)
Flushed(list, removals, additions) ==
  FoldLeft(InsertSub, FoldLeft(RemoveSub, list, removals), additions)

----------------------------------------------------------------------------

(* obc_event_subscribe.  It returns -1 and changes nothing when the table  *)
(* of events or the event's list is full.                                  *)
Subscribe(e, fn, priority) ==
  LET sub == [fn |-> fn, priority |-> priority, number |-> made + 1]
  IN /\ made < MaxMade
     /\ e \in known \/ Cardinality(known) < MaxEvents
     /\ Len(subs[e]) + Len(adding[e]) < MaxSubs
     /\ known' = known \cup {e}
     /\ IF FireDepth(e) > 0
        THEN /\ adding' = [adding EXCEPT ![e] = Append(@, sub)]
             /\ UNCHANGED subs
        ELSE /\ subs' = [subs EXCEPT ![e] = InsertSub(@, sub)]
             /\ UNCHANGED adding
     /\ made' = made + 1
     /\ kept' = [kept EXCEPT ![e] = @ \cup {sub.number}]
     /\ UNCHANGED <<removing, stack>>

(* What is kept when the first subscription of fn to e is given up.        *)
KeptWithout(e, fn) ==
  LET all == subs[e] \o adding[e]
      mine == {i \in DOMAIN all : all[i].fn = fn /\ all[i].number \in kept[e]}
  IN IF mine = {} THEN kept ELSE [kept EXCEPT ![e] = @ \ {all[Min(mine)].number}]

(* obc_event_unsubscribe.  A removal for which there is no room is lost.   *)
Unsubscribe(e, fn) ==
  /\ e \in known
  /\ IF FireDepth(e) > 0
     THEN /\ removing' = IF Len(removing[e]) < MaxSubs
                         THEN [removing EXCEPT ![e] = Append(@, fn)] ELSE removing
          /\ UNCHANGED subs
     ELSE /\ subs' = [subs EXCEPT ![e] = RemoveSub(@, fn)]
          /\ UNCHANGED removing
  /\ kept' = KeptWithout(e, fn)
  /\ UNCHANGED <<known, adding, stack, made>>

(* obc_event_fire calls the first subscriber.  Without one, or when fires  *)
(* of this event are nested too deep, it returns and changes nothing.      *)
Fire(e) ==
  /\ e \in known /\ subs[e] # <<>>
  /\ FireDepth(e) < MaxFireDepth
  /\ LET outer == {stack[i].since : i \in Fires(stack, e)}
         since == IF outer = {} THEN made ELSE CHOOSE n \in outer : TRUE
     IN stack' = Append(stack, [event |-> e, at |-> 1, since |-> since,
                                running |-> subs[e][1].number])
  /\ UNCHANGED <<known, subs, adding, removing, made, kept>>

(* Slip: every fire that returns flushes, not only the outermost.          *)
FireReturnsFlushing ==
  LET e == Last(stack).event
  IN /\ stack' = Front(stack)
     /\ subs' = [subs EXCEPT ![e] = Flushed(@, removing[e], adding[e])]
     /\ removing' = [removing EXCEPT ![e] = <<>>]
     /\ adding' = [adding EXCEPT ![e] = <<>>]
     /\ UNCHANGED <<known, made, kept>>

(* The innermost fire is over; the outermost one of its event flushes.     *)
FireReturns ==
  LET e == Last(stack).event
  IN /\ stack' = Front(stack)
     /\ IF FireDepth(e) = 1
        THEN /\ subs' = [subs EXCEPT ![e] = Flushed(@, removing[e], adding[e])]
             /\ removing' = [removing EXCEPT ![e] = <<>>]
             /\ adding' = [adding EXCEPT ![e] = <<>>]
        ELSE UNCHANGED <<subs, removing, adding>>
     /\ UNCHANGED <<known, made, kept>>

(* The running handler returns, and may have cancelled the event.  The     *)
(* other latch, suppress_relay, is only passed on to who fired.            *)
HandlerReturns(cancelled) ==
  /\ stack # <<>>
  /\ LET top == Last(stack)
         after == [top EXCEPT !.at = @ + 1,
                              !.running = subs[top.event][top.at + 1].number]
     IN IF cancelled \/ top.at = Len(subs[top.event])
        THEN FireReturns
        ELSE /\ stack' = [stack EXCEPT ![Len(stack)] = after]
             /\ UNCHANGED <<known, subs, adding, removing, made, kept>>

(* obc_event_bus_init and obc_event_bus_shutdown, refused during a fire.   *)
Reset ==
  /\ stack = <<>>
  /\ known' = {}
  /\ subs' = [e \in Events |-> <<>>]
  /\ adding' = [e \in Events |-> <<>>]
  /\ removing' = [e \in Events |-> <<>>]
  /\ kept' = [e \in Events |-> {}]
  /\ UNCHANGED <<stack, made>>

----------------------------------------------------------------------------
(* Subscribers are called by priority, and those of one priority in the    *)
(* order in which they subscribed, whether or not that was during a fire.  *)
DispatchOrder ==
  \A e \in Events : \A i, j \in DOMAIN subs[e] :
    i < j => \/ subs[e][i].priority < subs[e][j].priority
             \/ /\ subs[e][i].priority = subs[e][j].priority
                /\ subs[e][i].number < subs[e][j].number

(* A subscription that was accepted and not given up since is active or    *)
(* waits to be: no removal queued before it takes it, and the list never   *)
(* lacks the room for it when it is inserted.                              *)
AcceptedIsKept ==
  \A e \in Events :
    kept[e] \subseteq {s.number : s \in ToSet(subs[e] \o adding[e])}

(* What the bus makes of its subscriptions: its lists are ordered, and no  *)
(* accepted one is lost to a change that a running fire put off.           *)
SubscriptionsAreKept == DispatchOrder /\ AcceptedIsKept

(* The list under a running fire does not change: every fire on the stack  *)
(* still finds at its place the subscriber it is calling.                  *)
RunningIsListed ==
  \A i \in DOMAIN stack :
    LET f == stack[i]
    IN f.at \in DOMAIN subs[f.event] /\ subs[f.event][f.at].number = f.running

(* event_bus.h: a subscription made during a fire "will not run in that    *)
(* same cycle", however deep the fires of that event are nested.           *)
NotInItsOwnCycle == \A i \in DOMAIN stack : stack[i].running <= stack[i].since

(* What a running fire sees of the lists that its handlers change.         *)
FireSeesItsList == RunningIsListed /\ NotInItsOwnCycle
=============================================================================
