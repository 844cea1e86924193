------------------------ MODULE ServerLifecycle_proof ------------------------
(***************************************************************************)
(* Proofs about ServerLifecycle for any number of masters, modules and     *)
(* slots, any interval and period of the clock, any files and arguments,   *)
(* and any network.                                                        *)
(***************************************************************************)
EXTENDS ServerLifecycle, FoldLemmas, SequenceTheorems

----------------------------------------------------------------------------
(* The list of masters, from the names that main found.                    *)

(* main read its arguments and the file once.                              *)
MachineRead ==
  machine \in Machines /\ settings = Effective(machine.file, machine.options)

LEMMA MachineStart == Init => MachineRead
  BY DEF Init, MachineRead

LEMMA MachineStep ==
  ASSUME MachineRead, [Next]_vars
  PROVE  MachineRead'
  BY DEF MachineRead, Next, vars

AddingRun(A, list, seq, v) ==
  /\ v \in [0..Len(seq) -> A] /\ v[0] = list
  /\ \A i \in 1..Len(seq) : v[i] = MasterAdd(v[i - 1], seq[i])
  /\ FoldLeft(MasterAdd, list, seq) = v[Len(seq)]

LEMMA AddingsRun ==
  ASSUME NEW A, NEW list \in A, NEW seq, Len(seq) \in Nat, DOMAIN seq = 1..Len(seq),
         \A l \in A, i \in 1..Len(seq) : MasterAdd(l, seq[i]) \in A
  PROVE  \E v : AddingRun(A, list, seq, v)
<1> DEFINE n == Len(seq)
           step == [a \in (1..n) \X A |-> MasterAdd(a[2], seq[a[1]])]
           Defines(iter) ==
             iter = [s \in SUBSET (1..n) |->
                       IF s = {} THEN list
                       ELSE MasterAdd(iter[s \ {Greatest(s)}], seq[Greatest(s)])]
<1>1. FoldLeft(MasterAdd, list, seq) = (CHOOSE iter : Defines(iter))[1..n]
  BY DEF FoldLeft, MapThenFoldSet, Max, Greatest
<1>2. step \in [(1..n) \X A -> A] /\ \A i \in 1..n, l \in A : step[<<i, l>>] = MasterAdd(l, seq[i])
  OBVIOUS
<1> HIDE DEF step
<1>3. PICK h \in [SUBSET (1..n) -> A], v \in [0..n -> A] : FoldRun(n, A, list, step, h, v)
  BY <1>2, FoldRuns
<1>4. \A s \in (SUBSET (1..n)) \ {{}} : Greatest(s) \in s /\ s \ {Greatest(s)} \in SUBSET (1..n)
  BY GreatestUpto
<1>5. Defines(h)
  <2>1. ASSUME NEW s \in SUBSET (1..n)
        PROVE  h[s] = IF s = {} THEN list
                      ELSE MasterAdd(h[s \ {Greatest(s)}], seq[Greatest(s)])
    <3>1. CASE s = {}
      BY <1>3, <3>1 DEF FoldRun, FoldedBy
    <3>2. CASE s # {}
      <4>1. h[s] = step[<<Greatest(s), h[s \ {Greatest(s)}]>>]
        BY <1>3, <3>2 DEF FoldRun
      <4>2. Greatest(s) \in 1..n /\ h[s \ {Greatest(s)}] \in A
        BY <1>4, <3>2
      <4>3. QED
        BY <1>2, <3>2, <4>1, <4>2
    <3>3. QED
      BY <3>1, <3>2
  <2>2. QED
    BY <2>1
<1>6. ASSUME NEW iter, Defines(iter)
      PROVE  iter[1..n] = v[n]
  <2>1. FoldedBy(n, A, list, step, iter)
    <3>1. iter[{}] = list
      BY <1>6
    <3>2. ASSUME NEW s \in (SUBSET (1..n)) \ {{}}, iter[s \ {Greatest(s)}] \in A
          PROVE  iter[s] = step[<<Greatest(s), iter[s \ {Greatest(s)}]>>]
      <4>1. Greatest(s) \in 1..n
        BY <1>4
      <4>2. iter[s] = MasterAdd(iter[s \ {Greatest(s)}], seq[Greatest(s)])
        BY <1>6
      <4>3. QED
        BY <1>2, <3>2, <4>1, <4>2
    <3>3. QED
      BY <3>1, <3>2 DEF FoldedBy
  <2> HIDE DEF Defines
  <2>2. QED
    BY <1>3, <2>1, FoldsAgree
<1> HIDE DEF Defines
<1>7. Defines(CHOOSE iter : Defines(iter))
  BY <1>5
<1>8. FoldLeft(MasterAdd, list, seq) = v[n]
  BY <1>1, <1>6, <1>7
<1>9. v[0] = list /\ \A i \in 1..n : v[i] = MasterAdd(v[i - 1], seq[i])
  <2>1. v[0] = list /\ \A i \in 1..n : v[i] = step[<<i, v[i - 1]>>]
    BY <1>3 DEF FoldRun, Runs
  <2>2. \A i \in 1..n : v[i - 1] \in A
    OBVIOUS
  <2>3. QED
    BY <1>2, <2>1, <2>2
<1>10. QED
  BY <1>8, <1>9 DEF AddingRun

(* What bc_master_add appends.                                             *)
NewEntries == [address : Addresses, enabled : {TRUE}, verified : {FALSE}, last_beat : {0}]

LEMMA ListedFacts ==
  ASSUME NEW f \in Seq(Addresses \cup {Unresolved})
  PROVE  Listed(f) \in Seq(NewEntries)
<1> DEFINE A == Seq(NewEntries)
<1>1. /\ Len(f) \in Nat /\ DOMAIN f = 1..Len(f)
      /\ \A i \in 1..Len(f) : f[i] \in Addresses \cup {Unresolved}
  OBVIOUS
<1>2. ASSUME NEW l \in A, NEW i \in 1..Len(f) PROVE MasterAdd(l, f[i]) \in A
  <2>1. CASE Len(l) >= MaxMasters \/ f[i] = Unresolved
    BY <2>1 DEF MasterAdd
  <2>2. CASE ~ (Len(l) >= MaxMasters \/ f[i] = Unresolved)
    <3> DEFINE e == [address |-> f[i], enabled |-> TRUE, verified |-> FALSE, last_beat |-> 0]
    <3>1. e \in NewEntries
      BY <1>1, <2>2 DEF NewEntries
    <3>2. MasterAdd(l, f[i]) = Append(l, e)
      BY <2>2 DEF MasterAdd
    <3> HIDE DEF e
    <3>3. QED
      BY <3>1, <3>2
  <2>3. QED
    BY <2>1, <2>2
<1>3. <<>> \in A
  OBVIOUS
<1> HIDE DEF A
<1>4. PICK v : AddingRun(A, <<>>, f, v)
  BY <1>1, <1>2, <1>3, AddingsRun
<1>5. FoldLeft(MasterAdd, <<>>, f) \in A
  BY <1>1, <1>4 DEF AddingRun
<1>6. QED
  BY <1>5 DEF Listed, A

LEMMA MadeList ==
  ASSUME MachineRead, MakeList(machine.addressOf)
  PROVE  entries' \in Seq(NewEntries)
<1> DEFINE names == DOMAIN machine.addressOf
           found == Addresses \cup {Unresolved}
           f == [i \in DOMAIN MasterNames |-> machine.addressOf[MasterNames[i]]]
<1>1. /\ machine.addressOf \in [names -> found]
      /\ DefaultMasters \in Seq(names) /\ settings.masters \in Seq(names)
  BY LifecycleAssumption DEF MachineRead
<1>2. MasterNames \in Seq(names)
  BY <1>1 DEF MasterNames
<1> HIDE DEF names, found
<1>3. /\ Len(MasterNames) \in Nat /\ DOMAIN MasterNames = 1..Len(MasterNames)
      /\ \A i \in 1..Len(MasterNames) : MasterNames[i] \in names
  BY <1>2
<1>4. f \in Seq(found)
  BY <1>1, <1>3
<1>5. entries' = Listed(f)
  BY DEF MakeList
<1> HIDE DEF f
<1>6. QED
  BY <1>4, <1>5, ListedFacts DEF found

----------------------------------------------------------------------------
(* Heartbeats: the clock may start over between two of them.               *)

IsEntry(r) ==
  /\ r = [address |-> r.address, enabled |-> r.enabled, verified |-> r.verified,
          last_beat |-> r.last_beat]
  /\ r.last_beat \in 0..(ClockPeriod - 1)

Clocked ==
  /\ clock \in 0..(ClockPeriod - 1)
  /\ \A i \in DOMAIN entries : IsEntry(entries[i])

(* The unsigned difference the code computes is the time that has passed.  *)
Measured ==
  phase \in {"probing", "engine"} =>
    \A i \in InUse : /\ idle[i] \in 0..(Interval - 1)
                     /\ Since(clock, entries[i].last_beat) = idle[i]

BeatsInv == Clocked /\ Measured

LEMMA Times ==
  /\ Interval \in Nat \ {0} /\ ClockPeriod \in Nat /\ ClockPeriod >= 2 * Interval
  /\ \A d \in 1..MaxStep : d \in Nat /\ d <= ClockPeriod - Interval
  BY MastersAssumption, LifecycleAssumption

LEMMA BeatRecorded ==
  ASSUME NEW r, IsEntry(r), NEW now \in 0..(ClockPeriod - 1)
  PROVE  /\ IsEntry([r EXCEPT !.last_beat = now])
         /\ [r EXCEPT !.last_beat = now].last_beat = now
         /\ [r EXCEPT !.last_beat = now].enabled = r.enabled
  BY DEF IsEntry

LEMMA Marked ==
  ASSUME NEW r, IsEntry(r), NEW b \in BOOLEAN
  PROVE  IsEntry([r EXCEPT !.enabled = b])
  BY DEF IsEntry

(* A step that leaves list, clock and history alone.                       *)
LEMMA BeatsKept ==
  ASSUME BeatsInv, UNCHANGED <<entries, clock, idle>>,
         phase' \in {"probing", "engine"} => phase \in {"probing", "engine"}
  PROVE  BeatsInv'
  BY DEF BeatsInv, Clocked, Measured, InUse

LEMMA BeatsStart == Init => BeatsInv
<1>1. ASSUME Init PROVE BeatsInv
  <2>1. entries = <<>> /\ clock \in {0, ClockPeriod - 1} /\ phase = "data"
    BY <1>1 DEF Init, MastersInit
  <2>2. clock \in 0..(ClockPeriod - 1)
    BY <2>1, Times
  <2>3. QED
    BY <2>1, <2>2 DEF BeatsInv, Clocked, Measured
<1>2. QED
  BY <1>1

LEMMA ListMastersBeats ==
  ASSUME MachineRead, BeatsInv, ListMasters
  PROVE  BeatsInv'
<1>1. clock' = clock
  BY DEF ListMasters, MakeList
<1>2. ASSUME NEW i \in DOMAIN entries' PROVE IsEntry(entries'[i])
  <2>1. entries'[i] \in NewEntries
    BY <1>2, MadeList DEF ListMasters
  <2>2. 0 \in 0..(ClockPeriod - 1)
    BY Times
  <2>3. QED
    BY <2>1, <2>2 DEF NewEntries, IsEntry
<1>3. phase' \in {"probing", "engine"} => InUse' = {}
  BY DEF ListMasters, InUse
<1>4. QED
  BY <1>1, <1>2, <1>3 DEF BeatsInv, Clocked, Measured, IsEntry

LEMMA ProbeBeats ==
  ASSUME BeatsInv, ProbeMasters
  PROVE  BeatsInv'
<1>1. /\ entries' = [i \in DOMAIN entries |-> [entries[i] EXCEPT !.last_beat = clock]]
      /\ idle' = [i \in DOMAIN entries |-> 0]
      /\ clock' = clock /\ clock \in 0..(ClockPeriod - 1)
  BY DEF ProbeMasters, Probe, BeatsInv, Clocked
<1>2. ASSUME NEW i \in DOMAIN entries
      PROVE  IsEntry(entries'[i]) /\ entries'[i].last_beat = clock /\ idle'[i] = 0
  BY <1>1, BeatRecorded DEF BeatsInv, Clocked
<1>3. Since(clock, clock) = 0 /\ 0 \in 0..(Interval - 1)
  BY <1>1, Times DEF Since
<1>4. QED
  BY <1>1, <1>2, <1>3 DEF BeatsInv, Clocked, Measured, InUse, Since, IsEntry

LEMMA AnswerBeats ==
  ASSUME BeatsInv, NEW a \in Addresses, Answers(a)
  PROVE  BeatsInv'
<1>1. UNCHANGED <<clock, idle, phase>> /\ entries' = Verified(a)
  BY DEF Answers, AnswerMaster, mainVars
<1>2. DOMAIN entries' = DOMAIN entries
  BY <1>1 DEF Verified
<1>3. ASSUME NEW i \in DOMAIN entries
      PROVE  /\ IsEntry(entries'[i])
             /\ entries'[i].last_beat = entries[i].last_beat
             /\ entries'[i].enabled = entries[i].enabled
  <2>1. IsEntry(entries[i])
    BY DEF BeatsInv, Clocked
  <2>2. entries'[i] = entries[i] \/ entries'[i] = [entries[i] EXCEPT !.verified = TRUE]
    BY <1>1 DEF Verified
  <2>3. QED
    BY <2>1, <2>2 DEF IsEntry
<1>4. QED
  BY <1>1, <1>2, <1>3 DEF BeatsInv, Clocked, Measured, InUse, IsEntry

(* The step that needs the bound on the time between two passes: a clock   *)
(* that starts over does not reach the last heartbeat again.               *)
LEMMA TimePasses ==
  ASSUME NEW now \in 0..(ClockPeriod - 1), NEW then \in 0..(ClockPeriod - 1),
         NEW d \in 1..MaxStep, Since(now, then) < Interval
  PROVE  /\ Later(now, d) \in 0..(ClockPeriod - 1)
         /\ Since(Later(now, d), then) = Since(now, then) + d
  BY Times DEF Since, Later

LEMMA LaterType ==
  ASSUME NEW now \in 0..(ClockPeriod - 1), NEW d \in 1..MaxStep
  PROVE  Later(now, d) \in 0..(ClockPeriod - 1)
  BY Times DEF Later

LEMMA TickBeats ==
  ASSUME BeatsInv, NEW d \in 1..MaxStep, SecondTick(d)
  PROVE  BeatsInv'
<1> DEFINE now == Later(clock, d)
<1>1. /\ clock' = now /\ phase = "engine" /\ phase' = phase
      /\ entries' = [i \in DOMAIN entries |->
                       IF i \in Due(now) THEN [entries[i] EXCEPT !.last_beat = now] ELSE entries[i]]
      /\ idle' = [i \in DOMAIN entries |->
                    IF i \in Due(now) THEN 0 ELSE IF idle[i] + d > Interval THEN Interval
                                                  ELSE idle[i] + d]
  BY DEF SecondTick, MasterTick, Serving, mainVars
<1>2. now \in 0..(ClockPeriod - 1) /\ clock \in 0..(ClockPeriod - 1)
  BY LaterType DEF BeatsInv, Clocked
<1>3. ASSUME NEW i \in DOMAIN entries
      PROVE  /\ IsEntry(entries'[i])
             /\ entries'[i].enabled = entries[i].enabled
             /\ entries'[i].last_beat = IF i \in Due(now) THEN now ELSE entries[i].last_beat
  <2>1. IsEntry(entries[i])
    BY DEF BeatsInv, Clocked
  <2>2. QED
    BY <1>1, <1>2, <2>1, BeatRecorded
<1>4. ASSUME NEW i \in InUse'
      PROVE  /\ idle'[i] \in 0..(Interval - 1)
             /\ Since(clock', entries'[i].last_beat) = idle'[i]
  <2>1. i \in DOMAIN entries /\ i \in InUse
    BY <1>1, <1>3, <1>4 DEF InUse
  <2>2. /\ idle[i] \in 0..(Interval - 1) /\ Since(clock, entries[i].last_beat) = idle[i]
        /\ entries[i].last_beat \in 0..(ClockPeriod - 1)
    BY <1>1, <2>1 DEF BeatsInv, Clocked, Measured, IsEntry
  <2>3. Since(now, entries[i].last_beat) = idle[i] + d
    BY <1>2, <2>2, TimePasses, Times
  <2>4. CASE i \in Due(now)
    <3>1. idle'[i] = 0 /\ entries'[i].last_beat = now
      BY <1>1, <1>3, <2>1, <2>4
    <3>2. Since(now, now) = 0
      BY <1>2 DEF Since
    <3>3. QED
      BY <1>1, <3>1, <3>2, Times
  <2>5. CASE i \notin Due(now)
    <3>1. ~ (Since(now, entries[i].last_beat) >= Interval)
      BY <2>1, <2>5 DEF Due
    <3>2. idle[i] + d < Interval /\ idle[i] + d \in Nat
      BY <2>2, <2>3, <3>1, Times
    <3>3. idle'[i] = idle[i] + d /\ entries'[i].last_beat = entries[i].last_beat
      BY <1>1, <1>3, <2>1, <2>5, <3>2, Times
    <3>4. QED
      BY <1>1, <2>3, <3>2, <3>3, Times
  <2>6. QED
    BY <2>4, <2>5
<1>5. DOMAIN entries' = DOMAIN entries
  BY <1>1
<1>6. QED
  BY <1>1, <1>2, <1>3, <1>4, <1>5 DEF BeatsInv, Clocked, Measured, IsEntry, Since

LEMMA BeatsStep ==
  ASSUME MachineRead, BeatsInv, [Next]_vars
  PROVE  BeatsInv'
<1>1. CASE UNCHANGED vars
  BY <1>1, BeatsKept DEF vars, mastersVars, mainVars
<1>2. CASE StartUp
  <2>1. CASE LoadData
    BY <2>1, BeatsKept DEF LoadData, Exit, mastersVars
  <2>2. CASE NetInitFails \/ NetInit \/ BindFails \/ OpenSockets
    BY <2>2, BeatsKept DEF NetInitFails, NetInit, BindFails, OpenSockets, Exit, mastersVars
  <2>3. CASE ListMasters
    BY <2>3, ListMastersBeats
  <2>4. CASE ProbeMasters
    BY <2>4, ProbeBeats
  <2>5. CASE ProbeEnds
    BY <2>5, BeatsKept DEF ProbeEnds, mastersVars
  <2>6. QED
    BY <1>2, <2>1, <2>2, <2>3, <2>4, <2>5 DEF StartUp
<1>3. CASE MainLoop
  <2>1. CASE Connect \/ \E s \in Slots : Disconnect(s)
    BY <2>1, BeatsKept DEF Connect, Disconnect, StateChanged, mainVars
  <2>2. CASE GameSends \/ Tick \/ \E s \in Slots : EntersLobby(s)
    BY <2>2, BeatsKept DEF GameSends, Tick, EntersLobby, mastersVars, mainVars
  <2>3. CASE \E d \in 1..MaxStep : SecondTick(d)
    BY <2>3, TickBeats
  <2>4. CASE \E a \in Addresses : Answers(a)
    BY <2>4, AnswerBeats
  <2>5. QED
    BY <1>3, <2>1, <2>2, <2>3, <2>4 DEF MainLoop
<1>4. CASE ModuleSteps
  BY <1>4, BeatsKept DEF ModuleSteps, EngineStep, ModuleSends, ModuleScores, mastersVars, mainVars
<1>5. CASE Shutdown
  <2>1. CASE ModulesFail \/ FinalFlush \/ TellPlayers \/ CloseAll
    BY <2>1, BeatsKept DEF ModulesFail, FinalFlush, TellPlayers, CloseAll, Exit, mastersVars
  <2>2. CASE LeaveMasters
    <3>1. /\ entries' = [i \in DOMAIN entries |-> [entries[i] EXCEPT !.enabled = FALSE]]
          /\ clock' = clock /\ phase' = "closing"
      BY <2>2 DEF LeaveMasters, MasterShutdown
    <3>2. ASSUME NEW i \in DOMAIN entries PROVE IsEntry(entries'[i])
      BY <3>1, Marked DEF BeatsInv, Clocked
    <3>3. QED
      BY <3>1, <3>2 DEF BeatsInv, Clocked, Measured, IsEntry
  <2>3. QED
    BY <1>5, <2>1, <2>2 DEF Shutdown
<1>6. CASE MastersAct
  BY <1>6, BeatsKept
  DEF MastersAct, MasterSide, MasterHears, MasterHearsHeartbeat, MasterHearsValidate,
      MasterHearsStatus, MasterHearsGoodbye, MasterForgets, LoseDatagram, mainVars
<1>7. QED
  BY <1>1, <1>2, <1>3, <1>4, <1>5, <1>6 DEF Next

(* No master in use waits longer than the interval for a heartbeat,        *)
(* whenever bc_ms_now starts over, as long as the passes of the once-a-    *)
(* second work are not further apart than the rest of the clock's period.  *)
THEOREM HeartbeatsAreTimely == Spec => []BeatsAreTimely
<1>1. BeatsInv => BeatsAreTimely
  BY Times DEF BeatsInv, Measured, BeatsAreTimely
<1>2. QED
  BY <1>1, MachineStart, MachineStep, BeatsStart, BeatsStep, PTL DEF Spec

----------------------------------------------------------------------------
(* Mail: a module may address any slot at any time its code runs.          *)

RosterType ==
  /\ peers \in [Slots -> {"empty", "joining", "lobby"}]
  /\ outbox \in [Slots -> SUBSET {"player", "nobody"}]
  /\ credit \in [Slots -> SUBSET {"player", "nobody"}]

(* No module code runs before the engine is reached or after it stopped.   *)
ModulesAreDone == phase # "engine" \/ stage = "stopped" => calling = Engine

Late == {"leaving", "closing", "exited"}

(* What FinalFlush leaves empty stays empty until the players are told,    *)
(* and after that.                                                         *)
NothingWaits ==
  /\ phase \notin Late => told = {}
  /\ phase = "telling" => \A s \in Slots : Present(s) => outbox[s] = {}
  /\ told \subseteq Slots

MailInv == RosterType /\ ModulesAreDone /\ NothingWaits /\ SlotIsClean /\ LastWordsSent

LEMMA MailStart == Init => MailInv
  BY DEF Init, LoaderInit, MailInv, RosterType, ModulesAreDone, NothingWaits, SlotIsClean,
         LastWordsSent, Present, Late

(* A step of main that leaves the players, their mail and the modules      *)
(* alone.                                                                  *)
LEMMA MailKept ==
  ASSUME MailInv, UNCHANGED <<rosterVars, stage, calling>>,
         \/ phase' = phase
         \/ /\ phase' # "telling"
            /\ phase \in Late => phase' \in Late
            /\ phase = "engine" => stage = "stopped"
  PROVE  MailInv'
<1>1. UNCHANGED <<peers, outbox, credit, told, stage, calling>>
  BY DEF rosterVars
<1>2. RosterType' /\ SlotIsClean' /\ LastWordsSent'
  BY <1>1 DEF MailInv, RosterType, SlotIsClean, LastWordsSent, Present
<1>3. ModulesAreDone'
  BY <1>1 DEF MailInv, ModulesAreDone
<1>4. NothingWaits'
  BY <1>1 DEF MailInv, NothingWaits, Present
<1>5. QED
  BY <1>2, <1>3, <1>4 DEF MailInv

(* A step while modules or the loop run: nobody has been told yet.         *)
LEMMA MailInEngine ==
  ASSUME MailInv, UNCHANGED <<phase, stage, calling, told>>, phase = "engine",
         RosterType', SlotIsClean'
  PROVE  MailInv'
<1>1. told = {}
  BY DEF MailInv, NothingWaits, Late
<1>2. QED
  BY <1>1 DEF MailInv, ModulesAreDone, NothingWaits, LastWordsSent, Late

(* Queued for a player that is there: whatever waits for it is its own.    *)
LEMMA QueueIsClean ==
  ASSUME RosterType, SlotIsClean, NEW slots \in SUBSET Slots, Queue(slots),
         peers' \in [Slots -> {"empty", "joining", "lobby"}],
         \A s \in Slots : peers'[s] # "empty" => Present(s), UNCHANGED credit
  PROVE  RosterType' /\ SlotIsClean'
<1>1. \A s \in Slots :
        outbox'[s] = outbox[s] \cup (IF s \in slots THEN {ForWhom(s)} ELSE {})
  BY DEF Queue
<1>2. outbox' \in [Slots -> SUBSET {"player", "nobody"}]
  BY DEF RosterType, Queue, ForWhom
<1>3. \A s \in Slots : Present(s) => "nobody" \notin outbox'[s]
  BY <1>1 DEF SlotIsClean, ForWhom
<1>4. QED
  BY <1>2, <1>3 DEF RosterType, SlotIsClean, Present

LEMMA DeliveredIsClean ==
  ASSUME RosterType, SlotIsClean, outbox' = Delivered, UNCHANGED <<peers, credit>>
  PROVE  /\ RosterType' /\ SlotIsClean'
         /\ \A s \in Slots : Present(s) => outbox'[s] = {}
  BY DEF RosterType, SlotIsClean, Delivered, Present

LEMMA StartUpMail ==
  ASSUME MailInv, StartUp
  PROVE  MailInv'
<1>1. UNCHANGED <<rosterVars, stage, calling>>
  BY DEF StartUp, LoadData, NetInitFails, NetInit, BindFails, OpenSockets, ListMasters,
         ProbeMasters, ProbeEnds, engineVars, loaderVars
<1>2. phase \in {"data", "network", "masters", "probing"}
  BY DEF StartUp, LoadData, NetInitFails, NetInit, BindFails, OpenSockets, ListMasters,
         ProbeMasters, ProbeEnds
<1>3. phase' \in {"data", "network", "masters", "probing", "engine", "exited"}
  BY <1>2 DEF StartUp, LoadData, NetInitFails, NetInit, BindFails, OpenSockets, ListMasters,
         ProbeMasters, ProbeEnds, Exit
<1>4. QED
  BY <1>1, <1>2, <1>3, MailKept DEF Late

LEMMA ConnectMail ==
  ASSUME MailInv, Connect
  PROVE  MailInv'
<1>1. PICK s : /\ peers' = [peers EXCEPT ![s] = "joining"]
               /\ outbox' = [outbox EXCEPT ![s] = {}]
               /\ credit' = [credit EXCEPT ![s] = {}]
  BY DEF Connect
<1>2. RosterType' /\ SlotIsClean'
  BY <1>1 DEF MailInv, RosterType, SlotIsClean, Present
<1>3. UNCHANGED <<phase, stage, calling, told>> /\ phase = "engine"
  BY DEF Connect, Serving, engineVars, loaderVars, mainVars
<1>4. QED
  BY <1>2, <1>3, MailInEngine

LEMMA DisconnectMail ==
  ASSUME MailInv, NEW s \in Slots, Disconnect(s)
  PROVE  MailInv'
<1>1. /\ peers' = [peers EXCEPT ![s] = "empty"]
      /\ credit' = [credit EXCEPT ![s] = {}]
      /\ \A t \in Slots : outbox'[t] \subseteq outbox[t] \cup {"player"}
      /\ outbox' \in [Slots -> SUBSET {"player", "nobody"}]
  BY DEF Disconnect, MailInv, RosterType
<1>2. RosterType'
  BY <1>1 DEF MailInv, RosterType
<1>3. SlotIsClean'
  BY <1>1 DEF MailInv, RosterType, SlotIsClean, Present
<1>4. UNCHANGED <<phase, stage, calling, told>> /\ phase = "engine"
  BY DEF Disconnect, Serving, engineVars, loaderVars, mainVars
<1>5. QED
  BY <1>2, <1>3, <1>4, MailInEngine

LEMMA MainLoopMail ==
  ASSUME MailInv, MainLoop
  PROVE  MailInv'
<1>1. CASE Connect
  BY <1>1, ConnectMail
<1>2. CASE \E s \in Slots : Disconnect(s)
  BY <1>2, DisconnectMail
<1>3. CASE GameSends \/ \E s \in Slots : EntersLobby(s)
  <2>1. PICK slots \in SUBSET Slots : Queue(slots)
    <3>1. InLobby \in SUBSET Slots
      BY DEF InLobby
    <3>2. QED
      BY <1>3, <3>1 DEF GameSends, EntersLobby
  <2>2. /\ peers' \in [Slots -> {"empty", "joining", "lobby"}]
        /\ \A s \in Slots : peers'[s] # "empty" => Present(s)
    BY <1>3 DEF GameSends, EntersLobby, MailInv, RosterType, Present
  <2>3. UNCHANGED <<phase, stage, calling, told, credit>> /\ phase = "engine"
    BY <1>3 DEF GameSends, EntersLobby, Serving, engineVars, loaderVars, mainVars
  <2>4. QED
    BY <2>1, <2>2, <2>3, QueueIsClean, MailInEngine DEF MailInv
<1>4. CASE Tick \/ \E d \in 1..MaxStep : SecondTick(d)
  <2>1. outbox' = Delivered /\ UNCHANGED <<peers, credit>>
    BY <1>4 DEF Tick, SecondTick
  <2>2. UNCHANGED <<phase, stage, calling, told>> /\ phase = "engine"
    BY <1>4 DEF Tick, SecondTick, Serving, engineVars, loaderVars, mainVars
  <2>3. QED
    BY <2>1, <2>2, DeliveredIsClean, MailInEngine DEF MailInv
<1>5. CASE \E a \in Addresses : Answers(a)
  BY <1>5, MailKept DEF Answers, engineVars, loaderVars, mainVars
<1>6. QED
  BY <1>1, <1>2, <1>3, <1>4, <1>5 DEF MainLoop

(* A module can only be reached while the engine calls it.                 *)
LEMMA ModuleMail ==
  ASSUME MailInv, ModuleSteps
  PROVE  MailInv'
<1>1. CASE EngineStep
  <2>1. UNCHANGED rosterVars /\ phase' = phase /\ phase = "engine"
    BY <1>1 DEF EngineStep, mainVars
  <2>2. stage' = "stopped" => calling' = Engine
    <3>1. CASE Loader
      BY <2>1, <3>1
      DEF Loader, SkipLua, RejectBroken, CallLoad, LoadSucceeds, LoadFails, AllLoaded, Stop,
          CallShutdown, ShutdownReturns, CloseWithoutShutdown, Close, CloseLibrary, Stopped, MailInv,
          ModulesAreDone
    <3>2. CASE ModuleCode
      BY <2>1, <3>2 DEF ModuleCode, loaderVars, MailInv, ModulesAreDone
    <3>3. QED
      BY <1>1, <3>1, <3>2 DEF EngineStep
  <2>3. UNCHANGED <<peers, outbox, credit, told>>
    BY <2>1 DEF rosterVars
  <2>4. RosterType' /\ SlotIsClean' /\ NothingWaits' /\ LastWordsSent'
    BY <2>1, <2>3 DEF MailInv, RosterType, SlotIsClean, NothingWaits, LastWordsSent, Present
  <2>5. QED
    BY <2>1, <2>2, <2>4 DEF MailInv, ModulesAreDone
<1>2. CASE ModuleSends
  <2>1. PICK slots \in SUBSET Slots : Queue(slots)
    <3>1. InLobby \in SUBSET Slots
      BY DEF InLobby
    <3>2. QED
      BY <1>2, <3>1 DEF ModuleSends
  <2>2. UNCHANGED <<peers, phase, stage, calling, told, credit>> /\ calling # Engine
    BY <1>2 DEF ModuleSends, engineVars, loaderVars, mainVars
  <2>3. phase = "engine"
    BY <2>2 DEF MailInv, ModulesAreDone
  <2>4. RosterType' /\ SlotIsClean'
    BY <2>1, <2>2, QueueIsClean DEF MailInv, RosterType, Present
  <2>5. QED
    BY <2>2, <2>3, <2>4, MailInEngine
<1>3. CASE ModuleScores
  <2>1. /\ UNCHANGED <<peers, outbox, phase, stage, calling, told>> /\ calling # Engine
        /\ credit' \in [Slots -> SUBSET {"player", "nobody"}]
        /\ \A s \in Slots : Present(s) => credit'[s] \subseteq credit[s] \cup {"player"}
    BY <1>3
    DEF ModuleScores, engineVars, loaderVars, mainVars, MailInv, RosterType, ForWhom
  <2>2. phase = "engine"
    BY <2>1 DEF MailInv, ModulesAreDone
  <2>3. RosterType' /\ SlotIsClean'
    BY <2>1 DEF MailInv, RosterType, SlotIsClean, Present
  <2>4. QED
    BY <2>1, <2>2, <2>3, MailInEngine
<1>4. QED
  BY <1>1, <1>2, <1>3 DEF ModuleSteps

LEMMA ShutdownMail ==
  ASSUME MailInv, Shutdown
  PROVE  MailInv'
<1>1. CASE ModulesFail \/ LeaveMasters \/ CloseAll
  BY <1>1, MailKept
  DEF ModulesFail, LeaveMasters, CloseAll, Exit, engineVars, loaderVars, Late
<1>2. CASE FinalFlush
  <2>1. /\ outbox' = Delivered /\ UNCHANGED <<peers, credit, told, calling>>
        /\ phase = "engine" /\ phase' = "telling" /\ calling = Engine
    BY <1>2 DEF FinalFlush, Unloaded, engineVars, loaderVars, MailInv, ModulesAreDone
  <2>2. /\ RosterType' /\ SlotIsClean'
        /\ \A s \in Slots : Present(s) => outbox'[s] = {}
    BY <2>1, DeliveredIsClean DEF MailInv
  <2>3. told = {}
    BY <2>1 DEF MailInv, NothingWaits, Late
  <2>4. QED
    BY <2>1, <2>2, <2>3 DEF MailInv, ModulesAreDone, NothingWaits, LastWordsSent, Present
<1>3. CASE TellPlayers
  <2>1. /\ told' = {s \in Slots : Present(s)} /\ peers' = [s \in Slots |-> "empty"]
        /\ UNCHANGED <<outbox, credit, calling, stage>>
        /\ phase = "telling" /\ phase' = "leaving"
    BY <1>3 DEF TellPlayers, engineVars, loaderVars
  <2>2. RosterType' /\ SlotIsClean'
    BY <2>1 DEF MailInv, RosterType, SlotIsClean, Present
  <2>3. LastWordsSent' /\ NothingWaits' /\ ModulesAreDone'
    BY <2>1 DEF MailInv, NothingWaits, LastWordsSent, ModulesAreDone, Late
  <2>4. QED
    BY <2>2, <2>3 DEF MailInv
<1>4. QED
  BY <1>1, <1>2, <1>3 DEF Shutdown

LEMMA MailStep ==
  ASSUME MailInv, [Next]_vars
  PROVE  MailInv'
<1>1. CASE UNCHANGED vars
  BY <1>1, MailKept DEF vars, rosterVars, mainVars, engineVars, loaderVars
<1>2. CASE MastersAct
  BY <1>2, MailKept DEF MastersAct, mainVars, engineVars, loaderVars
<1>3. QED
  BY <1>1, <1>2, StartUpMail, MainLoopMail, ModuleMail, ShutdownMail DEF Next

LEMMA MailHolds == Spec => []MailInv
  BY MailStart, MailStep, PTL DEF Spec

(* Whatever slots modules address, empty ones included, no player gets     *)
(* mail or points that were meant for no one: bc_handle_connect wipes the  *)
(* slot before anyone is in it.                                            *)
THEOREM MailIsForThePlayer == Spec => []SlotIsClean
<1>1. MailInv => SlotIsClean
  BY DEF MailInv
<1>2. QED
  BY <1>1, MailHolds, PTL

(* Nobody is told of the shutdown while a message waits in its outbox: no  *)
(* module code runs after the final flush, and the flush misses no one.    *)
THEOREM NothingWaitsAtTheEnd == Spec => []LastWordsSent
<1>1. MailInv => LastWordsSent
  BY DEF MailInv
<1>2. QED
  BY <1>1, MailHolds, PTL

----------------------------------------------------------------------------
(* What is acquired is released.                                           *)

(* An open library is one of those loaded, or the one being loaded, which  *)
(* is closed again if that fails.                                          *)
OpenIsLoaded ==
  /\ loaded \in Seq(Nat) /\ next \in Nat \ {0}
  /\ stage \in {"loading", "running", "stopping", "stopped"}
  /\ IF stage = "loading" /\ calling # Engine THEN opened \subseteq ToSet(loaded) \cup {next}
                                              ELSE opened \subseteq ToSet(loaded)
  /\ stage = "running" => calling = Engine
  /\ stage = "stopping" /\ calling # Engine => loaded # <<>> /\ calling = Last(loaded)
  /\ stage = "stopped" => opened = {}

HeldByPhase ==
  /\ held \subseteq {"log", "net", "game", "query"}
  /\ phase = "data" => held = {"log"}
  /\ phase = "network" => held \subseteq {"log", "net"}
  /\ phase = "exited" => held = {}
  /\ phase # "engine" => opened = {}

HeldInv == OpenIsLoaded /\ HeldByPhase

LEMMA HeldStart == Init => HeldInv
  BY DEF Init, LoaderInit, HeldInv, OpenIsLoaded, HeldByPhase

LEMMA HeldKept ==
  ASSUME HeldInv, UNCHANGED <<loaderVars, phase, held>>
  PROVE  HeldInv'
  BY DEF HeldInv, OpenIsLoaded, HeldByPhase, loaderVars

LEMMA MainHeld ==
  ASSUME HeldInv, StartUp \/ Shutdown
  PROVE  HeldInv'
<1>1. OpenIsLoaded' /\ opened' = opened
  BY DEF StartUp, LoadData, NetInitFails, NetInit, BindFails, OpenSockets, ListMasters,
         ProbeMasters, ProbeEnds, Shutdown, ModulesFail, FinalFlush, TellPlayers, LeaveMasters,
         CloseAll, engineVars, loaderVars, HeldInv, OpenIsLoaded
<1>2. CASE StartUp
  <2>1. opened = {} /\ held \subseteq {"log", "net", "game", "query"}
    BY <1>2
    DEF StartUp, LoadData, NetInitFails, NetInit, BindFails, OpenSockets, ListMasters,
        ProbeMasters, ProbeEnds, HeldInv, HeldByPhase
  <2>2. CASE LoadData \/ NetInitFails \/ NetInit \/ BindFails
    BY <1>1, <2>1, <2>2
    DEF LoadData, NetInitFails, NetInit, BindFails, Exit, HeldInv, HeldByPhase
  <2>3. CASE OpenSockets
    <3>1. PICK query \in SUBSET {"query"} : held' = held \cup {"game"} \cup query
      BY <2>3 DEF OpenSockets
    <3>2. phase' = "masters"
      BY <2>3 DEF OpenSockets
    <3>3. QED
      BY <1>1, <2>1, <3>1, <3>2 DEF HeldInv, HeldByPhase
  <2>4. CASE ListMasters \/ ProbeMasters \/ ProbeEnds
    BY <1>1, <2>1, <2>4 DEF ListMasters, ProbeMasters, ProbeEnds, HeldInv, HeldByPhase
  <2>5. QED
    BY <1>2, <2>2, <2>3, <2>4 DEF StartUp
<1>3. CASE Shutdown
  <2>1. opened = {} /\ held \subseteq {"log", "net", "game", "query"}
    BY <1>3
    DEF Shutdown, ModulesFail, FinalFlush, Unloaded, TellPlayers, LeaveMasters, CloseAll,
        HeldInv, HeldByPhase, OpenIsLoaded
  <2>2. held' \subseteq held /\ (phase' = "exited" => held' = {})
        /\ phase' \notin {"data", "network"}
    BY <1>3, <2>1
    DEF Shutdown, ModulesFail, FinalFlush, TellPlayers, LeaveMasters, CloseAll, Exit
  <2>3. QED
    BY <1>1, <2>1, <2>2 DEF HeldInv, HeldByPhase
<1>4. QED
  BY <1>2, <1>3

LEMMA LastLoaded ==
  ASSUME NEW seq \in Seq(Nat), seq # <<>>
  PROVE  Front(seq) \in Seq(Nat) /\ ToSet(seq) = ToSet(Front(seq)) \cup {Last(seq)}
<1>1. Len(seq) \in Nat \ {0} /\ DOMAIN seq = 1..Len(seq) /\ \A i \in 1..Len(seq) : seq[i] \in Nat
  OBVIOUS
<1>2. /\ SubSeq(seq, 1, Len(seq) - 1) \in Seq(Nat)
      /\ Len(SubSeq(seq, 1, Len(seq) - 1)) = Len(seq) - 1
      /\ \A i \in 1..(Len(seq) - 1) : SubSeq(seq, 1, Len(seq) - 1)[i] = seq[i]
  BY <1>1
<1>3. /\ Front(seq) \in Seq(Nat) /\ Len(Front(seq)) = Len(seq) - 1
      /\ \A i \in 1..(Len(seq) - 1) : Front(seq)[i] = seq[i]
      /\ Last(seq) = seq[Len(seq)]
  BY <1>2 DEF Front, Last
<1>4. DOMAIN Front(seq) = 1..(Len(seq) - 1)
  BY <1>1, <1>3
<1>5. 1..Len(seq) = 1..(Len(seq) - 1) \cup {Len(seq)}
  BY <1>1
<1>6. ToSet(seq) = {seq[i] : i \in 1..(Len(seq) - 1)} \cup {Last(seq)}
  BY <1>1, <1>3, <1>5 DEF ToSet
<1>7. ToSet(Front(seq)) = {seq[i] : i \in 1..(Len(seq) - 1)}
  BY <1>3, <1>4 DEF ToSet
<1>8. QED
  BY <1>3, <1>6, <1>7

LEMMA OneMoreLoaded ==
  ASSUME NEW seq \in Seq(Nat), NEW m \in Nat
  PROVE  Append(seq, m) \in Seq(Nat) /\ ToSet(Append(seq, m)) = ToSet(seq) \cup {m}
<1>1. /\ Append(seq, m) \in Seq(Nat) /\ Len(seq) \in Nat /\ DOMAIN seq = 1..Len(seq)
      /\ Len(Append(seq, m)) = Len(seq) + 1 /\ Append(seq, m)[Len(seq) + 1] = m
      /\ \A i \in 1..Len(seq) : Append(seq, m)[i] = seq[i]
  OBVIOUS
<1>2. DOMAIN Append(seq, m) = 1..(Len(seq) + 1)
  BY <1>1
<1>3. QED
  BY <1>1, <1>2 DEF ToSet

LEMMA NothingLoaded == <<>> \in Seq(Nat) /\ ToSet(<<>>) = {}
  BY DEF ToSet

LEMMA LoaderHeld ==
  ASSUME HeldInv, phase = "engine", Loader, UNCHANGED <<phase, held>>
  PROVE  HeldInv'
<1>1. SUFFICES OpenIsLoaded'
  BY DEF HeldInv, HeldByPhase
<1>2. CASE SkipLua \/ RejectBroken \/ AllLoaded
  BY <1>2 DEF SkipLua, RejectBroken, AllLoaded, HeldInv, OpenIsLoaded
<1>3. CASE CallLoad
  <2>1. next # Engine
    BY DEF HeldInv, OpenIsLoaded, Engine
  <2>2. QED
    BY <1>3, <2>1 DEF CallLoad, HeldInv, OpenIsLoaded
<1>4. CASE LoadSucceeds
  BY <1>4, OneMoreLoaded DEF LoadSucceeds, HeldInv, OpenIsLoaded
<1>5. CASE LoadFails
  BY <1>5 DEF LoadFails, CloseLibrary, HeldInv, OpenIsLoaded
<1>6. CASE Stop
  BY <1>6 DEF Stop, HeldInv, OpenIsLoaded
<1>7. CASE CallShutdown
  BY <1>7 DEF CallShutdown, HeldInv, OpenIsLoaded
<1>8. CASE ShutdownReturns \/ CloseWithoutShutdown
  <2>1. /\ loaded # <<>> /\ loaded \in Seq(Nat)
        /\ opened' = opened \ {Last(loaded)} /\ loaded' = Front(loaded)
        /\ calling' = Engine /\ stage = "stopping" /\ stage' = stage /\ next' = next
    BY <1>8 DEF ShutdownReturns, CloseWithoutShutdown, Close, CloseLibrary, HeldInv, OpenIsLoaded
  <2>2. QED
    BY <2>1, LastLoaded DEF HeldInv, OpenIsLoaded
<1>9. CASE Stopped
  BY <1>9, NothingLoaded DEF Stopped, HeldInv, OpenIsLoaded
<1>10. QED
  BY <1>2, <1>3, <1>4, <1>5, <1>6, <1>7, <1>8, <1>9 DEF Loader

LEMMA HeldStep ==
  ASSUME HeldInv, [Next]_vars
  PROVE  HeldInv'
<1>1. CASE UNCHANGED vars \/ MastersAct \/ MainLoop
  BY <1>1, HeldKept
  DEF vars, MastersAct, MainLoop, Connect, GameSends, Tick, EntersLobby, Disconnect, SecondTick,
      Answers, engineVars, mainVars
<1>2. CASE StartUp \/ Shutdown
  BY <1>2, MainHeld
<1>3. CASE ModuleSteps
  <2>1. CASE EngineStep
    BY <2>1, HeldKept, LoaderHeld DEF EngineStep, ModuleCode, mainVars
  <2>2. CASE ModuleSends \/ ModuleScores
    BY <2>2, HeldKept DEF ModuleSends, ModuleScores, engineVars, mainVars
  <2>3. QED
    BY <1>3, <2>1, <2>2 DEF ModuleSteps
<1>4. QED
  BY <1>1, <1>2, <1>3 DEF Next

(* Every exit of main, from a start-up that failed half-way as from a      *)
(* shutdown, has closed what was opened: sockets, network, log and every   *)
(* library, those loaded before the module that failed included.           *)
THEOREM EverythingIsReleased == Spec => []NothingHeld
<1>1. HeldInv => NothingHeld
  BY DEF HeldInv, HeldByPhase, NothingHeld
<1>2. QED
  BY <1>1, HeldStart, HeldStep, PTL DEF Spec

----------------------------------------------------------------------------
(* What the masters show.                                                  *)

(* The list keeps its addresses, and all its entries are in use until the  *)
(* server leaves.                                                          *)
SameMasters ==
  /\ DOMAIN entries' = DOMAIN entries
  /\ \A i \in DOMAIN entries : /\ entries'[i].address = entries[i].address
                               /\ entries'[i].enabled = entries[i].enabled

ListInv ==
  /\ DOMAIN toMaster = Addresses /\ DOMAIN fromMaster = Addresses /\ DOMAIN listing = Addresses
  /\ \A i \in DOMAIN entries : entries[i].address \in Addresses
  /\ phase \in {"data", "network"} => entries = <<>>
  /\ phase \notin {"closing", "exited"} => \A i \in DOMAIN entries : entries[i].enabled

(* What has not been missed is shown, or on its way in some form: a        *)
(* heartbeat that makes the master call, its call, or the answer.          *)
NewsAt(a) ==
  /\ toMaster[a].kind = "status" => toMaster[a].players = Players
  /\ a \notin missed =>
       \/ listing[a] \in {Unlisted, Players}
       \/ toMaster[a].kind \in {"heartbeat", "validate", "status"}
       \/ fromMaster[a] # "nothing"

NewsInv == phase \in {"probing", "engine"} => \A a \in AddressesInUse : NewsAt(a)

(* A master that heard the goodbye shows nothing, or has yet to hear it.   *)
GoneAt(a) ==
  /\ toMaster[a] \in {Nothing, Goodbye}
  /\ toMaster[a] = Nothing /\ a \notin missed => listing[a] = Unlisted

GoneInv ==
  phase \in {"closing", "exited"} /\ next \notin Modules =>
    \A i \in DOMAIN entries : GoneAt(entries[i].address)

ShownInv == ListInv /\ NewsInv /\ GoneInv

LEMMA InUseFacts ==
  ASSUME ListInv
  PROVE  /\ AddressesInUse \subseteq Addresses
         /\ AddressesInUse \subseteq {entries[i].address : i \in DOMAIN entries}
         /\ phase \notin {"closing", "exited"} =>
              AddressesInUse = {entries[i].address : i \in DOMAIN entries}
  BY DEF ListInv, AddressesInUse, InUse

LEMMA SameInUse ==
  ASSUME SameMasters
  PROVE  AddressesInUse' = AddressesInUse
<1>1. InUse' = InUse
  BY DEF SameMasters, InUse
<1>2. \A i \in InUse : entries'[i].address = entries[i].address
  BY DEF SameMasters, InUse
<1>3. QED
  BY <1>1, <1>2 DEF AddressesInUse

LEMMA ShownStart == Init => ShownInv
<1> SUFFICES ASSUME Init PROVE ShownInv
  OBVIOUS
<1>1. /\ phase = "data" /\ entries = <<>>
      /\ DOMAIN toMaster = Addresses /\ DOMAIN fromMaster = Addresses /\ DOMAIN listing = Addresses
  BY DEF Init, MastersInit
<1>2. QED
  BY <1>1 DEF ShownInv, ListInv, NewsInv, GoneInv

(* What has no part in it: the phases go on, the masters are left alone.   *)
LEMMA ShownKept ==
  ASSUME ShownInv, UNCHANGED mastersVars,
         Players' = Players \/ phase' \notin {"probing", "engine"},
         phase' \in {"data", "network"} => phase \in {"data", "network"},
         phase' \in {"probing", "engine"} => phase \in {"probing", "engine"},
         phase' \in {"closing", "exited"} /\ next' \notin Modules' =>
           entries = <<>> \/ (phase \in {"closing", "exited"} /\ next \notin Modules)
                          \/ phase' = phase,
         phase \in {"closing", "exited"} => phase' \in {"closing", "exited"},
         UNCHANGED <<next, settings>> \/ phase \notin {"closing", "exited"}
  PROVE  ShownInv'
<1>1. UNCHANGED <<entries, toMaster, fromMaster, listing, missed>>
  BY DEF mastersVars
<1>2. ListInv'
  BY <1>1 DEF ShownInv, ListInv
<1>3. NewsInv'
  BY <1>1 DEF ShownInv, NewsInv, NewsAt, AddressesInUse, InUse
<1>4. GoneInv'
  BY <1>1 DEF ShownInv, GoneInv, GoneAt, Modules
<1>5. QED
  BY <1>2, <1>3, <1>4 DEF ShownInv

LEMMA ListMastersShown ==
  ASSUME MachineRead, ShownInv, ListMasters
  PROVE  ShownInv'
<1>1. /\ entries' \in Seq(NewEntries) /\ phase = "masters"
      /\ phase' \in {"masters", "engine"} /\ (phase' = "engine" => entries' = <<>>)
      /\ UNCHANGED <<toMaster, fromMaster, listing>>
  BY MadeList DEF ListMasters, MakeList
<1>2. \A i \in DOMAIN entries' : entries'[i] \in NewEntries
  BY <1>1
<1>3. ListInv'
  BY <1>1, <1>2 DEF ShownInv, ListInv, NewEntries
<1>4. NewsInv'
  BY <1>1 DEF NewsInv, AddressesInUse, InUse
<1>5. GoneInv'
  BY <1>1 DEF GoneInv
<1>6. QED
  BY <1>3, <1>4, <1>5 DEF ShownInv

LEMMA ProbeShown ==
  ASSUME BeatsInv, ShownInv, ProbeMasters
  PROVE  ShownInv'
<1>1. /\ entries' = [i \in DOMAIN entries |-> [entries[i] EXCEPT !.last_beat = clock]]
      /\ toMaster' = Sent(AddressesInUse, Heartbeat)
      /\ UNCHANGED <<fromMaster, listing>> /\ phase' = "probing" /\ phase = "masters"
  BY DEF ProbeMasters, Probe
<1>2. SameMasters
  <2>1. ASSUME NEW i \in DOMAIN entries
        PROVE  entries'[i].address = entries[i].address /\ entries'[i].enabled = entries[i].enabled
    BY <1>1 DEF BeatsInv, Clocked, IsEntry
  <2>2. QED
    BY <1>1, <2>1 DEF SameMasters
<1>3. ListInv'
  BY <1>1, <1>2 DEF ShownInv, ListInv, SameMasters, Sent
<1>4. \A a \in AddressesInUse' : toMaster'[a] = Heartbeat
  BY <1>1, <1>2, SameInUse, InUseFacts DEF ShownInv, Sent
<1>5. NewsInv'
  BY <1>4 DEF NewsInv, NewsAt, Heartbeat
<1>6. QED
  BY <1>1, <1>3, <1>5 DEF ShownInv, GoneInv

(* A player came or left: all masters in use are sent a heartbeat.         *)
LEMMA ChangeShown ==
  ASSUME ShownInv, StateChanged, phase = "engine", phase' = phase
  PROVE  ShownInv'
<1>1. toMaster' = Sent(AddressesInUse, Heartbeat) /\ UNCHANGED <<entries, fromMaster, listing>>
  BY DEF StateChanged
<1>2. SameMasters
  BY <1>1 DEF SameMasters
<1>3. ListInv'
  BY <1>1 DEF ShownInv, ListInv, Sent
<1>4. \A a \in AddressesInUse' : toMaster'[a] = Heartbeat
  BY <1>1, <1>2, SameInUse, InUseFacts DEF ShownInv, Sent
<1>5. NewsInv'
  BY <1>4 DEF NewsInv, NewsAt, Heartbeat
<1>6. QED
  BY <1>3, <1>5 DEF ShownInv, GoneInv

LEMMA AnswerShown ==
  ASSUME BeatsInv, ShownInv, NEW b \in Addresses, Answers(b)
  PROVE  ShownInv'
<1> DEFINE answer == IF fromMaster[b] = "secure" THEN Validate ELSE Status(Players)
<1>1. /\ toMaster' = Sent({b}, answer) /\ fromMaster' = [fromMaster EXCEPT ![b] = "nothing"]
      /\ entries' = Verified(b) /\ UNCHANGED <<listing, missed, peers, phase>>
      /\ phase \in {"probing", "engine"}
  BY DEF Answers, AnswerMaster, rosterVars, mainVars, Serving
<1>2. SameMasters
  <2>1. ASSUME NEW i \in DOMAIN entries
        PROVE  entries'[i].address = entries[i].address /\ entries'[i].enabled = entries[i].enabled
    <3>1. entries'[i] = entries[i] \/ entries'[i] = [entries[i] EXCEPT !.verified = TRUE]
      BY <1>1 DEF Verified
    <3>2. IsEntry(entries[i])
      BY DEF BeatsInv, Clocked
    <3>3. QED
      BY <3>1, <3>2 DEF IsEntry
  <2>2. QED
    BY <1>1, <2>1 DEF SameMasters, Verified
<1>3. answer.kind \in {"validate", "status"} /\ (answer.kind = "status" => answer.players = Players)
  BY DEF Validate, Status
<1> HIDE DEF answer
<1>4. ListInv'
  BY <1>1, <1>2 DEF ShownInv, ListInv, SameMasters, Sent
<1>5. Players' = Players
  BY <1>1 DEF Players, Present
<1>6. ASSUME NEW a \in AddressesInUse' PROVE NewsAt(a)'
  <2>1. a \in AddressesInUse /\ a \in Addresses
    BY <1>2, SameInUse, InUseFacts DEF ShownInv
  <2>2. NewsAt(a)
    BY <1>1, <2>1 DEF ShownInv, NewsInv
  <2>3. CASE a = b
    <3>1. toMaster'[a] = answer
      BY <1>1, <2>1, <2>3 DEF Sent
    <3>2. QED
      BY <1>3, <1>5, <3>1 DEF NewsAt
  <2>4. CASE a # b
    <3>1. toMaster'[a] = toMaster[a] /\ fromMaster'[a] = fromMaster[a]
      BY <1>1, <2>1, <2>4 DEF Sent
    <3>2. QED
      BY <1>1, <1>5, <2>2, <3>1 DEF NewsAt
  <2>5. QED
    BY <2>3, <2>4
<1>7. QED
  BY <1>1, <1>4, <1>6 DEF ShownInv, NewsInv, GoneInv

LEMMA TickShown ==
  ASSUME BeatsInv, ShownInv, NEW d \in 1..MaxStep, SecondTick(d)
  PROVE  ShownInv'
<1> DEFINE now == Later(clock, d)
           late == {entries[i].address : i \in Due(now)}
<1>1. /\ entries' = [i \in DOMAIN entries |->
                       IF i \in Due(now) THEN [entries[i] EXCEPT !.last_beat = now] ELSE entries[i]]
      /\ toMaster' = Sent(late, Heartbeat)
      /\ UNCHANGED <<fromMaster, listing, missed, peers, phase>> /\ phase = "engine"
  BY DEF SecondTick, MasterTick, mainVars, Serving
<1>2. SameMasters
  <2>1. ASSUME NEW i \in DOMAIN entries
        PROVE  entries'[i].address = entries[i].address /\ entries'[i].enabled = entries[i].enabled
    <3>1. entries'[i] = entries[i] \/ entries'[i] = [entries[i] EXCEPT !.last_beat = now]
      BY <1>1
    <3>2. IsEntry(entries[i])
      BY DEF BeatsInv, Clocked
    <3>3. QED
      BY <3>1, <3>2 DEF IsEntry
  <2>2. QED
    BY <1>1, <2>1 DEF SameMasters
<1> HIDE DEF late, now
<1>3. ListInv'
  BY <1>1, <1>2 DEF ShownInv, ListInv, SameMasters, Sent
<1>4. Players' = Players
  BY <1>1 DEF Players, Present
<1>5. ASSUME NEW a \in AddressesInUse' PROVE NewsAt(a)'
  <2>1. a \in AddressesInUse /\ a \in Addresses
    BY <1>2, SameInUse, InUseFacts DEF ShownInv
  <2>2. NewsAt(a)
    BY <1>1, <2>1 DEF ShownInv, NewsInv
  <2>3. toMaster'[a] = Heartbeat \/ toMaster'[a] = toMaster[a]
    BY <1>1, <2>1 DEF Sent
  <2>4. QED
    BY <1>1, <1>4, <2>2, <2>3 DEF NewsAt, Heartbeat
<1>6. QED
  BY <1>1, <1>3, <1>5 DEF ShownInv, NewsInv, GoneInv

LEMMA LeaveShown ==
  ASSUME BeatsInv, ShownInv, LeaveMasters
  PROVE  ShownInv'
<1>1. /\ toMaster' = Sent(AddressesInUse, Goodbye)
      /\ entries' = [i \in DOMAIN entries |-> [entries[i] EXCEPT !.enabled = FALSE]]
      /\ UNCHANGED <<fromMaster, listing>> /\ phase = "leaving" /\ phase' = "closing"
  BY DEF LeaveMasters, MasterShutdown
<1>2. \A i \in DOMAIN entries : entries'[i].address = entries[i].address
  BY <1>1 DEF BeatsInv, Clocked, IsEntry
<1>3. ListInv'
  BY <1>1, <1>2 DEF ShownInv, ListInv, Sent
<1>4. \A i \in DOMAIN entries' : toMaster'[entries'[i].address] = Goodbye
  BY <1>1, <1>2, InUseFacts DEF ShownInv, ListInv, Sent
<1>5. GoneInv'
  BY <1>4 DEF GoneInv, GoneAt, Goodbye, Nothing
<1>6. QED
  BY <1>1, <1>3, <1>5 DEF ShownInv, NewsInv

(* The masters and the network: each step is about one address.            *)
LEMMA WireShown ==
  ASSUME ShownInv, MastersAct, UNCHANGED settings
  PROVE  ShownInv'
<1>1. UNCHANGED <<entries, peers, phase, next, settings>>
  BY DEF MastersAct, MasterSide, MasterHears, MasterHearsHeartbeat, MasterHearsValidate,
         MasterHearsStatus, MasterHearsGoodbye, MasterForgets, LoseDatagram, engineVars,
         loaderVars, mainVars, rosterVars
<1>2. PICK b \in Addresses : MasterHears(b) \/ MasterForgets(b) \/ LoseDatagram(b)
  BY DEF MastersAct, MasterSide
<1>3. ListInv'
  BY <1>1, <1>2
  DEF ShownInv, ListInv, MasterHears, MasterHearsHeartbeat, MasterHearsValidate,
      MasterHearsStatus, MasterHearsGoodbye, MasterForgets, LoseDatagram
<1>4. Players' = Players /\ AddressesInUse' = AddressesInUse
  BY <1>1 DEF Players, Present, AddressesInUse, InUse
<1>5. ASSUME NEW a \in Addresses, a # b
      PROVE  /\ UNCHANGED <<toMaster[a], fromMaster[a], listing[a]>>
             /\ a \in missed <=> a \in missed'
  BY <1>2, <1>5
  DEF ShownInv, ListInv, MasterHears, MasterHearsHeartbeat, MasterHearsValidate,
      MasterHearsStatus, MasterHearsGoodbye, MasterForgets, LoseDatagram
<1>6. DOMAIN toMaster = Addresses /\ DOMAIN fromMaster = Addresses /\ DOMAIN listing = Addresses
  BY DEF ShownInv, ListInv
<1>7. ASSUME NewsAt(b) PROVE NewsAt(b)'
  <2>1. CASE MasterHearsHeartbeat(b)
    BY <1>4, <1>6, <1>7, <2>1 DEF MasterHearsHeartbeat, NewsAt, Nothing
  <2>2. CASE MasterHearsValidate(b)
    BY <1>4, <1>6, <1>7, <2>2 DEF MasterHearsValidate, NewsAt, Nothing
  <2>3. CASE MasterHearsStatus(b)
    BY <1>4, <1>6, <1>7, <2>3 DEF MasterHearsStatus, NewsAt, Nothing
  <2>4. CASE MasterHearsGoodbye(b)
    BY <1>4, <1>6, <1>7, <2>4 DEF MasterHearsGoodbye, NewsAt, Nothing
  <2>5. CASE MasterForgets(b)
    BY <1>4, <1>6, <1>7, <2>5 DEF MasterForgets, NewsAt
  <2>6. CASE LoseDatagram(b)
    BY <1>4, <1>6, <1>7, <2>6 DEF LoseDatagram, NewsAt, Nothing
  <2>7. QED
    BY <1>2, <2>1, <2>2, <2>3, <2>4, <2>5, <2>6 DEF MasterHears
<1>8. ASSUME GoneAt(b) PROVE GoneAt(b)'
  <2>1. CASE MasterHearsHeartbeat(b) \/ MasterHearsValidate(b) \/ MasterHearsStatus(b)
    BY <1>8, <2>1
    DEF MasterHearsHeartbeat, MasterHearsValidate, MasterHearsStatus, GoneAt, Nothing, Goodbye
  <2>2. CASE MasterHearsGoodbye(b) \/ MasterForgets(b) \/ LoseDatagram(b)
    BY <1>6, <1>8, <2>2 DEF MasterHearsGoodbye, MasterForgets, LoseDatagram, GoneAt
  <2>3. QED
    BY <1>2, <2>1, <2>2 DEF MasterHears
<1>9. NewsInv'
  <2>1. SUFFICES ASSUME phase \in {"probing", "engine"}, NEW a \in AddressesInUse PROVE NewsAt(a)'
    BY <1>1, <1>4 DEF NewsInv
  <2>2. NewsAt(a) /\ a \in Addresses
    BY <2>1, InUseFacts DEF ShownInv, NewsInv
  <2>3. QED
    BY <1>4, <1>5, <1>7, <2>2 DEF NewsAt
<1>10. GoneInv'
  <2>1. SUFFICES ASSUME phase \in {"closing", "exited"}, next \notin Modules,
                        NEW i \in DOMAIN entries
                 PROVE  GoneAt(entries[i].address)'
    BY <1>1 DEF GoneInv, Modules
  <2>2. GoneAt(entries[i].address) /\ entries[i].address \in Addresses
    BY <2>1 DEF ShownInv, GoneInv, ListInv
  <2>3. QED
    BY <1>1, <1>5, <1>8, <2>2 DEF GoneAt
<1>11. QED
  BY <1>3, <1>9, <1>10 DEF ShownInv

(* To enter the lobby changes no player's presence.                        *)
LEMMA SamePlayers ==
  /\ UNCHANGED peers => Players' = Players
  /\ \A s \in Slots : RosterType /\ EntersLobby(s) => Players' = Players
<1>1. UNCHANGED peers => Players' = Players
  BY DEF Players, Present
<1>2. ASSUME NEW s \in Slots, RosterType, EntersLobby(s) PROVE Players' = Players
  <2>1. \A t \in Slots : peers'[t] # "empty" <=> peers[t] # "empty"
    BY <1>2 DEF EntersLobby, RosterType
  <2>2. {t \in Slots : peers'[t] # "empty"} = {t \in Slots : peers[t] # "empty"}
    BY <2>1
  <2>3. QED
    BY <2>2, Zenon DEF Players, Present
<1>3. QED
  BY <1>1, <1>2

LEMMA ShownStep ==
  ASSUME MachineRead, BeatsInv, MailInv, ShownInv, [Next]_vars
  PROVE  ShownInv'
<1>1. UNCHANGED settings
  BY DEF Next, vars
<1>2. CASE UNCHANGED vars
  <2>1. UNCHANGED <<mastersVars, peers, phase, next, settings>>
    BY <1>2 DEF vars, mainVars, rosterVars, engineVars, loaderVars
  <2>2. QED
    BY <2>1, SamePlayers, ShownKept
<1>3. CASE StartUp
  <2>1. CASE ListMasters
    BY <2>1, ListMastersShown
  <2>2. CASE ProbeMasters
    BY <2>2, ProbeShown
  <2>3. CASE LoadData \/ NetInitFails \/ NetInit \/ BindFails \/ OpenSockets
    <3>1. UNCHANGED <<mastersVars, peers, next>> /\ phase \in {"data", "network"}
          /\ phase' \in {"network", "masters", "exited"}
      BY <2>3
      DEF LoadData, NetInitFails, NetInit, BindFails, OpenSockets, Exit, engineVars, loaderVars,
          rosterVars
    <3>2. entries = <<>>
      BY <3>1 DEF ShownInv, ListInv
    <3>3. QED
      BY <1>1, <3>1, <3>2, SamePlayers, ShownKept
  <2>4. CASE ProbeEnds
    <3>1. UNCHANGED <<mastersVars, peers, next>> /\ phase = "probing" /\ phase' = "engine"
      BY <2>4 DEF ProbeEnds, engineVars, loaderVars, rosterVars
    <3>2. QED
      BY <1>1, <3>1, SamePlayers, ShownKept
  <2>5. QED
    BY <1>3, <2>1, <2>2, <2>3, <2>4 DEF StartUp
<1>4. CASE MainLoop
  <2>1. CASE Connect \/ \E s \in Slots : Disconnect(s)
    BY <2>1, ChangeShown DEF Connect, Disconnect, Serving, mainVars
  <2>2. CASE GameSends \/ Tick \/ \E s \in Slots : EntersLobby(s)
    <3>1. UNCHANGED mastersVars /\ phase = "engine" /\ phase' = phase
      BY <2>2 DEF GameSends, Tick, EntersLobby, Serving, mainVars
    <3>2. Players' = Players
      BY <2>2, SamePlayers DEF GameSends, Tick, MailInv
    <3>3. QED
      BY <3>1, <3>2, ShownKept
  <2>3. CASE \E d \in 1..MaxStep : SecondTick(d)
    BY <2>3, TickShown
  <2>4. CASE \E a \in Addresses : Answers(a)
    BY <2>4, AnswerShown
  <2>5. QED
    BY <1>4, <2>1, <2>2, <2>3, <2>4 DEF MainLoop
<1>5. CASE ModuleSteps
  <2>1. CASE EngineStep
    <3>1. UNCHANGED <<mastersVars, peers>> /\ phase = "engine" /\ phase' = phase
      BY <2>1 DEF EngineStep, mainVars, rosterVars
    <3>2. QED
      BY <3>1, SamePlayers, ShownKept
  <2>2. CASE ModuleSends \/ ModuleScores
    <3>1. UNCHANGED <<mastersVars, peers, phase, next>>
      BY <2>2 DEF ModuleSends, ModuleScores, mainVars, engineVars, loaderVars
    <3>2. QED
      BY <1>1, <3>1, SamePlayers, ShownKept
  <2>3. QED
    BY <1>5, <2>1, <2>2 DEF ModuleSteps
<1>6. CASE Shutdown
  <2>1. CASE LeaveMasters
    BY <2>1, LeaveShown
  <2>2. CASE ModulesFail
    <3>1. UNCHANGED <<mastersVars, peers, next>> /\ phase = "engine" /\ phase' = "exited"
          /\ next \in Modules
      BY <2>2 DEF ModulesFail, Exit, engineVars, loaderVars, rosterVars
    <3>2. next' \in Modules'
      BY <1>1, <3>1 DEF Modules
    <3>3. QED
      BY <1>1, <3>1, <3>2, SamePlayers, ShownKept
  <2>3. CASE FinalFlush \/ TellPlayers
    <3>1. UNCHANGED <<mastersVars, next>> /\ phase \in {"engine", "telling"}
          /\ phase' \in {"telling", "leaving"}
      BY <2>3 DEF FinalFlush, Unloaded, TellPlayers, engineVars, loaderVars
    <3>2. QED
      BY <1>1, <3>1, ShownKept
  <2>4. CASE CloseAll
    <3>1. UNCHANGED <<mastersVars, next>> /\ phase = "closing" /\ phase' = "exited"
      BY <2>4 DEF CloseAll, Exit, engineVars, loaderVars
    <3>2. next' \notin Modules' => next \notin Modules
      BY <1>1, <3>1 DEF Modules
    <3>3. QED
      BY <1>1, <3>1, <3>2, ShownKept
  <2>5. QED
    BY <1>6, <2>1, <2>2, <2>3, <2>4 DEF Shutdown
<1>7. CASE MastersAct
  BY <1>1, <1>7, WireShown
<1>8. QED
  BY <1>2, <1>3, <1>4, <1>5, <1>6, <1>7 DEF Next

LEMMA ShownHolds == Spec => []ShownInv
<1>1. Init => MachineRead /\ BeatsInv /\ MailInv /\ ShownInv
  BY MachineStart, BeatsStart, MailStart, ShownStart
<1>2. MachineRead /\ BeatsInv /\ MailInv /\ ShownInv /\ [Next]_vars
        => (MachineRead /\ BeatsInv /\ MailInv /\ ShownInv)'
  BY MachineStep, BeatsStep, MailStep, ShownStep
<1>3. QED
  BY <1>1, <1>2, PTL DEF Spec

(* Whatever a change of the roster crosses, queries, answers or heartbeats *)
(* that it overtakes, a master that missed nothing and has nothing to hear *)
(* shows the players that are there.                                       *)
THEOREM MastersKnowTheRoster == Spec => []NewsReachesMasters
<1>1. ASSUME ShownInv PROVE NewsReachesMasters
  <2>1. SUFFICES ASSUME NEW a \in AddressesInUse, Serving, toMaster[a] = Nothing,
                        fromMaster[a] = "nothing", a \notin missed
                 PROVE  listing[a] \in {Unlisted, Players}
    BY DEF NewsReachesMasters
  <2>2. NewsAt(a)
    BY <1>1, <2>1 DEF ShownInv, NewsInv, Serving
  <2>3. toMaster[a].kind = "nothing"
    BY <2>1 DEF Nothing
  <2>4. QED
    BY <2>1, <2>2, <2>3 DEF NewsAt
<1>2. QED
  BY <1>1, ShownHolds, PTL

(* After a shutdown every address of the list was sent the goodbye last,   *)
(* verified or not, so no master that missed nothing shows the server.     *)
THEOREM NobodyListsTheGone == Spec => []GoodbyeUnlists
<1>1. ShownInv => GoodbyeUnlists
  BY DEF ShownInv, GoneInv, GoneAt, GoodbyeUnlists
<1>2. QED
  BY <1>1, ShownHolds, PTL

----------------------------------------------------------------------------
(* The lists of the event bus.  A list is a sequence of subscriptions in   *)
(* the order of their priorities and, within one, of their numbers.        *)

(* The subscriptions made while m had been accepted.                       *)
Subs(m) == [fn : Handlers, priority : Priorities, number : 1..m]

Before(s, t) ==
  \/ s.priority < t.priority
  \/ s.priority = t.priority /\ s.number < t.number

Ordered(list) == \A i, j \in DOMAIN list : i < j => Before(list[i], list[j])

(* Facts of a concatenation, for both of its parts at once.                *)
Joins(A, s, t, both) ==
  /\ both \in Seq(A) /\ Len(both) = Len(s) + Len(t)
  /\ \A i \in 1..(Len(s) + Len(t)) : both[i] = IF i <= Len(s) THEN s[i] ELSE t[i - Len(s)]

LEMMA Joined ==
  ASSUME NEW A, NEW s \in Seq(A), NEW t \in Seq(A)
  PROVE  Joins(A, s, t, s \o t)
  BY DEF Joins

LEMMA Numbers ==
  ASSUME NEW m \in Nat, NEW sub \in Subs(m)
  PROVE  sub.priority \in Nat /\ sub.number \in Nat
<1>1. sub.priority \in 0..255 /\ sub.number \in 1..m
  BY BusAssumption DEF Subs
<1>2. QED
  BY <1>1

(* RemoveAt takes one place out and moves those behind it up.              *)
LEMMA WithoutOne ==
  ASSUME NEW A, NEW list \in Seq(A), NEW p \in 1..Len(list)
  PROVE  /\ RemoveAt(list, p) \in Seq(A) /\ Len(RemoveAt(list, p)) = Len(list) - 1
         /\ \A i \in 1..(Len(list) - 1) :
              RemoveAt(list, p)[i] = IF i < p THEN list[i] ELSE list[i + 1]
<1> DEFINE head == SubSeq(list, 1, p - 1)
           tail == SubSeq(list, p + 1, Len(list))
<1>1. /\ head \in Seq(A) /\ Len(head) = p - 1 /\ \A i \in 1..(p - 1) : head[i] = list[i]
      /\ tail \in Seq(A) /\ Len(tail) = Len(list) - p
      /\ \A i \in 1..(Len(list) - p) : tail[i] = list[i + p]
  OBVIOUS
<1>2. RemoveAt(list, p) = head \o tail
  BY DEF RemoveAt
<1> HIDE DEF head, tail
<1>3. /\ head \o tail \in Seq(A) /\ Len(head \o tail) = Len(list) - 1
      /\ \A i \in 1..(Len(list) - 1) :
           (head \o tail)[i] = IF i <= p - 1 THEN head[i] ELSE tail[i - (p - 1)]
  <2>1. Joins(A, head, tail, head \o tail)
    BY <1>1, Joined
  <2>2. (p - 1) + (Len(list) - p) = Len(list) - 1
    OBVIOUS
  <2>3. QED
    BY <1>1, <2>1, <2>2 DEF Joins
<1>4. ASSUME NEW i \in 1..(Len(list) - 1)
      PROVE  (head \o tail)[i] = IF i < p THEN list[i] ELSE list[i + 1]
  <2>1. CASE i < p
    BY <1>1, <1>3, <2>1
  <2>2. CASE ~ (i < p)
    <3>1. i - (p - 1) \in 1..(Len(list) - p) /\ (i - (p - 1)) + p = i + 1 /\ ~ (i <= p - 1)
      BY <2>2
    <3>2. tail[i - (p - 1)] = list[(i - (p - 1)) + p]
      BY <1>1, <3>1
    <3>3. QED
      BY <1>3, <2>2, <3>1, <3>2
  <2>3. QED
    BY <2>1, <2>2
<1>5. QED
  BY <1>2, <1>3, <1>4

(* InsertAt puts one in and moves those behind it down.                    *)
LEMMA WithOne ==
  ASSUME NEW A, NEW list \in Seq(A), NEW p \in 1..(Len(list) + 1), NEW e \in A
  PROVE  /\ InsertAt(list, p, e) \in Seq(A) /\ Len(InsertAt(list, p, e)) = Len(list) + 1
         /\ \A i \in 1..(Len(list) + 1) :
              InsertAt(list, p, e)[i] = IF i < p THEN list[i] ELSE IF i = p THEN e ELSE list[i - 1]
<1> DEFINE head == SubSeq(list, 1, p - 1)
           tail == SubSeq(list, p, Len(list))
           one == <<e>>
<1>1. /\ head \in Seq(A) /\ Len(head) = p - 1 /\ \A i \in 1..(p - 1) : head[i] = list[i]
      /\ tail \in Seq(A) /\ Len(tail) = Len(list) - p + 1
      /\ \A i \in 1..(Len(list) - p + 1) : tail[i] = list[i + p - 1]
      /\ one \in Seq(A) /\ Len(one) = 1 /\ one[1] = e
  OBVIOUS
<1>2. InsertAt(list, p, e) = head \o one \o tail
  BY DEF InsertAt
<1> HIDE DEF head, tail, one
<1>3. /\ head \o one \in Seq(A) /\ Len(head \o one) = p
      /\ \A i \in 1..p : (head \o one)[i] = IF i < p THEN list[i] ELSE e
  <2>1. /\ head \o one \in Seq(A) /\ Len(head \o one) = p
        /\ \A i \in 1..p : (head \o one)[i] = IF i <= p - 1 THEN head[i] ELSE one[i - (p - 1)]
    <3>1. Joins(A, head, one, head \o one)
      BY <1>1, Joined
    <3>2. (p - 1) + 1 = p
      OBVIOUS
    <3>3. QED
      BY <1>1, <3>1, <3>2 DEF Joins
  <2>2. \A i \in 1..p : ~ (i <= p - 1) => i - (p - 1) = 1
    OBVIOUS
  <2>3. QED
    BY <1>1, <2>1, <2>2
<1> DEFINE all == head \o one \o tail
<1>4. /\ all \in Seq(A) /\ Len(all) = Len(list) + 1
      /\ \A i \in 1..(Len(list) + 1) :
           all[i] = IF i <= p THEN (head \o one)[i] ELSE tail[i - p]
  <2>1. Joins(A, head \o one, tail, all)
    BY <1>1, <1>3, Joined
  <2>2. p + (Len(list) - p + 1) = Len(list) + 1
    OBVIOUS
  <2> HIDE DEF all
  <2>3. QED
    BY <1>1, <1>3, <2>1, <2>2 DEF Joins
<1> HIDE DEF all
<1>5. ASSUME NEW i \in 1..(Len(list) + 1)
      PROVE  all[i] = IF i < p THEN list[i] ELSE IF i = p THEN e ELSE list[i - 1]
  <2>1. CASE i <= p
    <3>1. i \in 1..p /\ (i < p \/ i = p)
      BY <2>1
    <3>2. all[i] = (head \o one)[i]
      BY <1>4, <2>1
    <3>3. (head \o one)[i] = IF i < p THEN list[i] ELSE e
      BY <1>3, <3>1
    <3>4. QED
      BY <3>1, <3>2, <3>3
  <2>2. CASE ~ (i <= p)
    <3>1. i - p \in 1..(Len(list) - p + 1) /\ (i - p) + p - 1 = i - 1
      BY <2>2
    <3>2. tail[i - p] = list[(i - p) + p - 1]
      BY <1>1, <3>1
    <3>3. QED
      BY <1>4, <2>2, <3>1, <3>2
  <2>3. QED
    BY <2>1, <2>2
<1>6. QED
  BY <1>2, <1>4, <1>5 DEF all

(* The first subscriber with a property, in a list.                        *)
LEMMA FirstOf ==
  ASSUME NEW n \in Nat, NEW R \in SUBSET (1..n), R # {}
  PROVE  Min(R) \in R /\ \A j \in R : Min(R) <= j
<1>1. R \in SUBSET Nat
  OBVIOUS
<1>2. \E i \in R : \A j \in R : i <= j
  BY <1>1, Smallest
<1>3. QED
  BY <1>2 DEF Min

(* remove_sub leaves an ordered list without the first subscription of fn. *)
LEMMA RemoveSubSet ==
  ASSUME NEW m \in Nat, NEW list \in Seq(Subs(m)), Ordered(list), NEW fn
  PROVE  /\ RemoveSub(list, fn) \in Seq(Subs(m)) /\ Ordered(RemoveSub(list, fn))
         /\ ToSet(RemoveSub(list, fn)) =
              {s \in ToSet(list) : s.fn = fn => \E t \in ToSet(list) : t.fn = fn /\ Before(t, s)}
<1> DEFINE mine == {i \in DOMAIN list : list[i].fn = fn}
           n == Len(list)
           p == Min(mine)
           left == RemoveAt(list, p)
<1>1. /\ n \in Nat /\ DOMAIN list = 1..n /\ mine \in SUBSET (1..n)
      /\ \A i \in 1..n : list[i].priority \in Nat /\ list[i].number \in Nat
  BY Numbers
<1>2. CASE mine = {}
  <2>1. RemoveSub(list, fn) = list
    BY <1>2 DEF RemoveSub
  <2>2. \A s \in ToSet(list) : s.fn # fn
    BY <1>2 DEF ToSet
  <2>3. QED
    BY <2>1, <2>2
<1>3. CASE mine # {}
  <2>1. RemoveSub(list, fn) = left
    BY <1>3 DEF RemoveSub
  <2>2. p \in 1..n /\ list[p].fn = fn /\ \A j \in 1..n : list[j].fn = fn => p <= j
    BY <1>1, <1>3, FirstOf
  <2> HIDE DEF p, mine, left
  <2>3. /\ left \in Seq(Subs(m)) /\ Len(left) = n - 1 /\ DOMAIN left = 1..(n - 1)
        /\ \A i \in 1..(n - 1) : left[i] = IF i < p THEN list[i] ELSE list[i + 1]
    BY <2>2, WithoutOne DEF left
  <2>4. Ordered(left)
    <3>1. SUFFICES ASSUME NEW i \in 1..(n - 1), NEW j \in 1..(n - 1), i < j
                   PROVE  Before(left[i], left[j])
      BY <2>3 DEF Ordered
    <3>2. PICK k \in 1..n, l \in 1..n : k < l /\ left[i] = list[k] /\ left[j] = list[l]
      <4>1. CASE j < p
        <5>1. left[i] = list[i] /\ left[j] = list[j] /\ i \in 1..n /\ j \in 1..n
          BY <1>1, <2>2, <2>3, <3>1, <4>1
        <5>2. QED
          BY <3>1, <5>1
      <4>2. CASE ~ (j < p) /\ i < p
        <5>1. left[i] = list[i] /\ left[j] = list[j + 1] /\ i < j + 1 /\ i \in 1..n /\ j + 1 \in 1..n
          BY <1>1, <2>2, <2>3, <3>1, <4>2
        <5>2. QED
          BY <5>1
      <4>3. CASE ~ (j < p) /\ ~ (i < p)
        <5>1. left[i] = list[i + 1] /\ left[j] = list[j + 1] /\ i + 1 < j + 1
              /\ i + 1 \in 1..n /\ j + 1 \in 1..n
          BY <1>1, <2>2, <2>3, <3>1, <4>3
        <5>2. QED
          BY <5>1
      <4>4. QED
        BY <4>1, <4>2, <4>3
    <3>3. QED
      BY <1>1, <3>2 DEF Ordered
  <2>5. ASSUME NEW s
        PROVE  s \in ToSet(left) <=> \E j \in 1..n : j # p /\ s = list[j]
    <3>1. ASSUME s \in ToSet(left) PROVE \E j \in 1..n : j # p /\ s = list[j]
      <4>1. PICK i \in 1..(n - 1) : s = left[i]
        BY <2>3, <3>1 DEF ToSet
      <4>2. i \in 1..n /\ i + 1 \in 1..n /\ (i < p => i # p) /\ (~ (i < p) => i + 1 # p)
        BY <1>1, <2>2
      <4>3. QED
        BY <2>3, <4>1, <4>2
    <3>2. ASSUME NEW j \in 1..n, j # p, s = list[j] PROVE s \in ToSet(left)
      <4>1. CASE j < p
        <5>1. j \in 1..(n - 1)
          BY <1>1, <2>2, <4>1
        <5>2. left[j] = s
          BY <2>3, <3>2, <4>1, <5>1
        <5>3. QED
          BY <2>3, <5>1, <5>2 DEF ToSet
      <4>2. CASE ~ (j < p)
        <5>1. j - 1 \in 1..(n - 1) /\ ~ (j - 1 < p) /\ (j - 1) + 1 = j
          BY <1>1, <2>2, <3>2, <4>2
        <5>2. left[j - 1] = s
          BY <2>3, <3>2, <5>1
        <5>3. QED
          BY <2>3, <5>1, <5>2 DEF ToSet
      <4>3. QED
        BY <4>1, <4>2
    <3>3. QED
      BY <3>1, <3>2
  <2>6. ASSUME NEW j \in 1..n
        PROVE  j # p <=> (list[j].fn = fn => \E k \in 1..n : list[k].fn = fn /\ Before(list[k], list[j]))
    <3>1. CASE j = p
      <4>1. ASSUME NEW k \in 1..n, list[k].fn = fn, Before(list[k], list[j]) PROVE FALSE
        <5>1. p <= k
          BY <2>2, <4>1
        <5>2. CASE k = p
          BY <1>1, <3>1, <4>1, <5>2 DEF Before
        <5>3. CASE p < k
          <6>1. Before(list[p], list[k])
            BY <1>1, <2>2, <5>3 DEF Ordered
          <6>2. QED
            BY <1>1, <2>2, <3>1, <4>1, <6>1 DEF Before
        <5>4. QED
          BY <1>1, <2>2, <5>1, <5>2, <5>3
      <4>2. QED
        BY <2>2, <3>1, <4>1
    <3>2. CASE j # p /\ list[j].fn = fn
      <4>1. p < j
        BY <1>1, <2>2, <3>2
      <4>2. Before(list[p], list[j])
        BY <1>1, <2>2, <4>1 DEF Ordered
      <4>3. QED
        BY <2>2, <3>2, <4>2
    <3>3. QED
      BY <3>1, <3>2
  <2>7. ToSet(list) = {list[j] : j \in 1..n}
    BY <1>1 DEF ToSet
  <2> DEFINE rest == {s \in ToSet(list) :
                        s.fn = fn => \E t \in ToSet(list) : t.fn = fn /\ Before(t, s)}
  <2>8. ASSUME NEW s PROVE s \in ToSet(left) <=> s \in rest
    <3>1. ASSUME s \in ToSet(left) PROVE s \in rest
      <4>1. PICK j \in 1..n : j # p /\ s = list[j]
        BY <2>5, <3>1
      <4>2. QED
        BY <2>6, <2>7, <4>1
    <3>2. ASSUME s \in rest PROVE s \in ToSet(left)
      <4>1. PICK j \in 1..n : s = list[j]
        BY <2>7, <3>2
      <4>2. j # p
        BY <2>6, <2>7, <3>2, <4>1
      <4>3. QED
        BY <2>5, <4>1, <4>2
    <3>3. QED
      BY <3>1, <3>2
  <2> HIDE DEF rest
  <2>9. ToSet(left) = rest
    BY <2>8
  <2>10. QED
    BY <2>1, <2>3, <2>4, <2>9 DEF rest
<1>4. QED
  BY <1>2, <1>3

LEMMA InsertSubType ==
  ASSUME NEW m \in Nat, NEW list \in Seq(Subs(m)), NEW sub \in Subs(m)
  PROVE  InsertSub(list, sub) \in Seq(Subs(m))
<1> DEFINE n == Len(list)
           R == {i \in DOMAIN list : list[i].priority > sub.priority} \cup {n + 1}
<1>1. n + 1 \in Nat /\ R \in SUBSET (1..(n + 1)) /\ R # {}
  OBVIOUS
<1>2. InsertSub(list, sub) = InsertAt(list, Min(R), sub)
  BY DEF InsertSub
<1> HIDE DEF R
<1>3. Min(R) \in 1..(n + 1)
  BY <1>1, FirstOf
<1>4. QED
  BY <1>2, <1>3, WithOne

(* insert_sub of a newer subscription leaves an ordered list with it.      *)
LEMMA InsertSubSet ==
  ASSUME NEW m \in Nat, NEW list \in Seq(Subs(m)), Ordered(list), NEW sub \in Subs(m),
         \A s \in ToSet(list) : s.number < sub.number
  PROVE  /\ InsertSub(list, sub) \in Seq(Subs(m)) /\ Ordered(InsertSub(list, sub))
         /\ ToSet(InsertSub(list, sub)) = ToSet(list) \cup {sub}
<1> DEFINE later == {i \in DOMAIN list : list[i].priority > sub.priority}
           n == Len(list)
           R == later \cup {n + 1}
           p == Min(R)
           longer == InsertAt(list, p, sub)
<1>1. /\ n \in Nat /\ DOMAIN list = 1..n /\ R \in SUBSET (1..(n + 1)) /\ R # {}
      /\ \A i \in 1..n : list[i].priority \in Nat /\ list[i].number \in Nat
      /\ sub.priority \in Nat /\ sub.number \in Nat
  BY Numbers
<1>2. InsertSub(list, sub) = longer
  BY DEF InsertSub
<1>3. /\ p \in 1..(n + 1)
      /\ \A i \in 1..n : i < p => list[i].priority <= sub.priority
      /\ p <= n => list[p].priority > sub.priority
  <2>1. n + 1 \in Nat
    BY <1>1
  <2> HIDE DEF p
  <2>2. p \in R /\ \A j \in R : p <= j
    <3> HIDE DEF R
    <3> QED
      BY <1>1, <2>1, FirstOf DEF p
  <2>3. p \in 1..(n + 1) /\ (p <= n => p \in later) /\ \A i \in 1..n : i < p => i \notin later
    <3>1. p \in 1..(n + 1)
      BY <1>1, <2>2
    <3>2. \A i \in later : p <= i
      BY <2>2
    <3> HIDE DEF later
    <3>3. QED
      BY <1>1, <2>2, <3>1, <3>2
  <2>4. QED
    BY <1>1, <2>3
<1> HIDE DEF p, R, later, longer
<1>4. /\ longer \in Seq(Subs(m)) /\ Len(longer) = n + 1 /\ DOMAIN longer = 1..(n + 1)
      /\ \A i \in 1..(n + 1) :
           longer[i] = IF i < p THEN list[i] ELSE IF i = p THEN sub ELSE list[i - 1]
  BY <1>3, WithOne DEF longer
<1>5. \A i \in 1..n : list[i].number < sub.number
  BY <1>1 DEF ToSet
<1>6. \A i \in 1..n : i < p => Before(list[i], sub)
  BY <1>1, <1>3, <1>5 DEF Before
<1>7. \A i \in 1..n : p <= i => Before(sub, list[i])
  <2>1. SUFFICES ASSUME NEW i \in 1..n, p <= i PROVE list[i].priority > sub.priority
    BY <1>1 DEF Before
  <2>2. CASE i = p
    BY <1>3, <2>2
  <2>3. CASE p < i
    <3>1. p \in 1..n /\ i \in 1..n
      BY <1>1, <1>3, <2>3
    <3>2. Before(list[p], list[i])
      BY <1>1, <2>3, <3>1 DEF Ordered
    <3>3. QED
      BY <1>1, <1>3, <3>1, <3>2 DEF Before
  <2>4. QED
    BY <1>1, <1>3, <2>1, <2>2, <2>3
<1>8. Ordered(longer)
  <2>1. SUFFICES ASSUME NEW i \in 1..(n + 1), NEW j \in 1..(n + 1), i < j
                 PROVE  Before(longer[i], longer[j])
    BY <1>4 DEF Ordered
  <2>2. CASE j < p
    <3>1. i \in 1..n /\ j \in 1..n /\ longer[i] = list[i] /\ longer[j] = list[j]
      BY <1>1, <1>3, <1>4, <2>1, <2>2
    <3>2. QED
      BY <1>1, <2>1, <3>1 DEF Ordered
  <2>3. CASE j = p
    <3>1. i \in 1..n /\ i < p /\ longer[i] = list[i] /\ longer[j] = sub
      BY <1>1, <1>3, <1>4, <2>1, <2>3
    <3>2. QED
      BY <1>6, <3>1
  <2>4. CASE p < j /\ i < p
    <3>1. i \in 1..n /\ j - 1 \in 1..n /\ i < j - 1 /\ longer[i] = list[i] /\ longer[j] = list[j - 1]
      BY <1>1, <1>3, <1>4, <2>1, <2>4
    <3>2. QED
      BY <1>1, <3>1 DEF Ordered
  <2>5. CASE p < j /\ i = p
    <3>1. j - 1 \in 1..n /\ p <= j - 1 /\ longer[i] = sub /\ longer[j] = list[j - 1]
      BY <1>1, <1>3, <1>4, <2>1, <2>5
    <3>2. QED
      BY <1>7, <3>1
  <2>6. CASE p < i
    <3>1. i - 1 \in 1..n /\ j - 1 \in 1..n /\ i - 1 < j - 1
          /\ longer[i] = list[i - 1] /\ longer[j] = list[j - 1]
      BY <1>1, <1>3, <1>4, <2>1, <2>6
    <3>2. QED
      BY <1>1, <3>1 DEF Ordered
  <2>7. QED
    BY <1>1, <1>3, <2>1, <2>2, <2>3, <2>4, <2>5, <2>6
<1>9. ASSUME NEW s PROVE s \in ToSet(longer) <=> s \in ToSet(list) \cup {sub}
  <2>1. ASSUME s \in ToSet(longer) PROVE s \in ToSet(list) \cup {sub}
    <3>1. PICK i \in 1..(n + 1) : s = longer[i]
      BY <1>4, <2>1 DEF ToSet
    <3>2. s = sub \/ \E j \in 1..n : s = list[j]
      <4>1. CASE i < p
        BY <1>1, <1>3, <1>4, <3>1, <4>1
      <4>2. CASE i = p
        BY <1>1, <1>3, <1>4, <3>1, <4>2
      <4>3. CASE p < i
        <5>1. i - 1 \in 1..n /\ s = list[i - 1]
          BY <1>1, <1>3, <1>4, <3>1, <4>3
        <5>2. QED
          BY <5>1
      <4>4. QED
        BY <1>1, <1>3, <4>1, <4>2, <4>3
    <3>3. QED
      BY <1>1, <3>2 DEF ToSet
  <2>2. ASSUME s = sub PROVE s \in ToSet(longer)
    <3>1. p \in 1..(n + 1) /\ longer[p] = sub
      BY <1>3, <1>4
    <3>2. QED
      BY <1>4, <2>2, <3>1 DEF ToSet
  <2>3. ASSUME NEW j \in 1..n, s = list[j] PROVE s \in ToSet(longer)
    <3>1. CASE j < p
      <4>1. j \in 1..(n + 1) /\ longer[j] = s
        BY <1>1, <1>4, <2>3, <3>1
      <4>2. QED
        BY <1>4, <4>1 DEF ToSet
    <3>2. CASE p <= j
      <4>1. j + 1 \in 1..(n + 1) /\ ~ (j + 1 < p) /\ j + 1 # p /\ (j + 1) - 1 = j
        BY <1>1, <1>3, <2>3, <3>2
      <4>2. longer[j + 1] = s
        BY <1>4, <2>3, <4>1
      <4>3. QED
        BY <1>4, <4>1, <4>2 DEF ToSet
    <3>3. QED
      BY <1>1, <1>3, <3>1, <3>2
  <2>4. QED
    BY <1>1, <2>1, <2>2, <2>3 DEF ToSet
<1>10. ToSet(longer) = ToSet(list) \cup {sub}
  BY <1>9
<1>11. QED
  BY <1>2, <1>4, <1>8, <1>10

----------------------------------------------------------------------------
(* The folds of the two                                                    *)

(* v holds the list after each of the removals, or of the additions below. *)
RemovalRun(A, list, seq, v) ==
  /\ v \in [0..Len(seq) -> A] /\ v[0] = list
  /\ \A i \in 1..Len(seq) : v[i] = RemoveSub(v[i - 1], seq[i])
  /\ FoldLeft(RemoveSub, list, seq) = v[Len(seq)]

LEMMA RemovalsRun ==
  ASSUME NEW A, NEW list \in A, NEW seq, Len(seq) \in Nat, DOMAIN seq = 1..Len(seq),
         \A l \in A, i \in 1..Len(seq) : RemoveSub(l, seq[i]) \in A
  PROVE  \E v : RemovalRun(A, list, seq, v)
<1> DEFINE n == Len(seq)
           step == [a \in (1..n) \X A |-> RemoveSub(a[2], seq[a[1]])]
           Defines(iter) ==
             iter = [s \in SUBSET (1..n) |->
                       IF s = {} THEN list
                       ELSE RemoveSub(iter[s \ {Greatest(s)}], seq[Greatest(s)])]
<1>1. FoldLeft(RemoveSub, list, seq) = (CHOOSE iter : Defines(iter))[1..n]
  BY DEF FoldLeft, MapThenFoldSet, Max, Greatest
<1>2. step \in [(1..n) \X A -> A] /\ \A i \in 1..n, l \in A : step[<<i, l>>] = RemoveSub(l, seq[i])
  OBVIOUS
<1> HIDE DEF step
<1>3. PICK h \in [SUBSET (1..n) -> A], v \in [0..n -> A] : FoldRun(n, A, list, step, h, v)
  BY <1>2, FoldRuns
<1>4. \A s \in (SUBSET (1..n)) \ {{}} : Greatest(s) \in s /\ s \ {Greatest(s)} \in SUBSET (1..n)
  BY GreatestUpto
<1>5. Defines(h)
  <2>1. ASSUME NEW s \in SUBSET (1..n)
        PROVE  h[s] = IF s = {} THEN list
                      ELSE RemoveSub(h[s \ {Greatest(s)}], seq[Greatest(s)])
    <3>1. CASE s = {}
      BY <1>3, <3>1 DEF FoldRun, FoldedBy
    <3>2. CASE s # {}
      <4>1. h[s] = step[<<Greatest(s), h[s \ {Greatest(s)}]>>]
        BY <1>3, <3>2 DEF FoldRun
      <4>2. Greatest(s) \in 1..n /\ h[s \ {Greatest(s)}] \in A
        BY <1>4, <3>2
      <4>3. QED
        BY <1>2, <3>2, <4>1, <4>2
    <3>3. QED
      BY <3>1, <3>2
  <2>2. QED
    BY <2>1
<1>6. ASSUME NEW iter, Defines(iter)
      PROVE  iter[1..n] = v[n]
  <2>1. FoldedBy(n, A, list, step, iter)
    <3>1. iter[{}] = list
      BY <1>6
    <3>2. ASSUME NEW s \in (SUBSET (1..n)) \ {{}}, iter[s \ {Greatest(s)}] \in A
          PROVE  iter[s] = step[<<Greatest(s), iter[s \ {Greatest(s)}]>>]
      <4>1. Greatest(s) \in 1..n
        BY <1>4
      <4>2. iter[s] = RemoveSub(iter[s \ {Greatest(s)}], seq[Greatest(s)])
        BY <1>6
      <4>3. QED
        BY <1>2, <3>2, <4>1, <4>2
    <3>3. QED
      BY <3>1, <3>2 DEF FoldedBy
  <2> HIDE DEF Defines
  <2>2. QED
    BY <1>3, <2>1, FoldsAgree
<1> HIDE DEF Defines
<1>7. Defines(CHOOSE iter : Defines(iter))
  BY <1>5
<1>8. FoldLeft(RemoveSub, list, seq) = v[n]
  BY <1>1, <1>6, <1>7
<1>9. v[0] = list /\ \A i \in 1..n : v[i] = RemoveSub(v[i - 1], seq[i])
  <2>1. v[0] = list /\ \A i \in 1..n : v[i] = step[<<i, v[i - 1]>>]
    BY <1>3 DEF FoldRun, Runs
  <2>2. \A i \in 1..n : v[i - 1] \in A
    OBVIOUS
  <2>3. QED
    BY <1>2, <2>1, <2>2
<1>10. QED
  BY <1>8, <1>9 DEF RemovalRun

InsertionRun(A, list, seq, v) ==
  /\ v \in [0..Len(seq) -> A] /\ v[0] = list
  /\ \A i \in 1..Len(seq) : v[i] = InsertSub(v[i - 1], seq[i])
  /\ FoldLeft(InsertSub, list, seq) = v[Len(seq)]

LEMMA InsertionsRun ==
  ASSUME NEW A, NEW list \in A, NEW seq, Len(seq) \in Nat, DOMAIN seq = 1..Len(seq),
         \A l \in A, i \in 1..Len(seq) : InsertSub(l, seq[i]) \in A
  PROVE  \E v : InsertionRun(A, list, seq, v)
<1> DEFINE n == Len(seq)
           step == [a \in (1..n) \X A |-> InsertSub(a[2], seq[a[1]])]
           Defines(iter) ==
             iter = [s \in SUBSET (1..n) |->
                       IF s = {} THEN list
                       ELSE InsertSub(iter[s \ {Greatest(s)}], seq[Greatest(s)])]
<1>1. FoldLeft(InsertSub, list, seq) = (CHOOSE iter : Defines(iter))[1..n]
  BY DEF FoldLeft, MapThenFoldSet, Max, Greatest
<1>2. step \in [(1..n) \X A -> A] /\ \A i \in 1..n, l \in A : step[<<i, l>>] = InsertSub(l, seq[i])
  OBVIOUS
<1> HIDE DEF step
<1>3. PICK h \in [SUBSET (1..n) -> A], v \in [0..n -> A] : FoldRun(n, A, list, step, h, v)
  BY <1>2, FoldRuns
<1>4. \A s \in (SUBSET (1..n)) \ {{}} : Greatest(s) \in s /\ s \ {Greatest(s)} \in SUBSET (1..n)
  BY GreatestUpto
<1>5. Defines(h)
  <2>1. ASSUME NEW s \in SUBSET (1..n)
        PROVE  h[s] = IF s = {} THEN list
                      ELSE InsertSub(h[s \ {Greatest(s)}], seq[Greatest(s)])
    <3>1. CASE s = {}
      BY <1>3, <3>1 DEF FoldRun, FoldedBy
    <3>2. CASE s # {}
      <4>1. h[s] = step[<<Greatest(s), h[s \ {Greatest(s)}]>>]
        BY <1>3, <3>2 DEF FoldRun
      <4>2. Greatest(s) \in 1..n /\ h[s \ {Greatest(s)}] \in A
        BY <1>4, <3>2
      <4>3. QED
        BY <1>2, <3>2, <4>1, <4>2
    <3>3. QED
      BY <3>1, <3>2
  <2>2. QED
    BY <2>1
<1>6. ASSUME NEW iter, Defines(iter)
      PROVE  iter[1..n] = v[n]
  <2>1. FoldedBy(n, A, list, step, iter)
    <3>1. iter[{}] = list
      BY <1>6
    <3>2. ASSUME NEW s \in (SUBSET (1..n)) \ {{}}, iter[s \ {Greatest(s)}] \in A
          PROVE  iter[s] = step[<<Greatest(s), iter[s \ {Greatest(s)}]>>]
      <4>1. Greatest(s) \in 1..n
        BY <1>4
      <4>2. iter[s] = InsertSub(iter[s \ {Greatest(s)}], seq[Greatest(s)])
        BY <1>6
      <4>3. QED
        BY <1>2, <3>2, <4>1, <4>2
    <3>3. QED
      BY <3>1, <3>2 DEF FoldedBy
  <2> HIDE DEF Defines
  <2>2. QED
    BY <1>3, <2>1, FoldsAgree
<1> HIDE DEF Defines
<1>7. Defines(CHOOSE iter : Defines(iter))
  BY <1>5
<1>8. FoldLeft(InsertSub, list, seq) = v[n]
  BY <1>1, <1>6, <1>7
<1>9. v[0] = list /\ \A i \in 1..n : v[i] = InsertSub(v[i - 1], seq[i])
  <2>1. v[0] = list /\ \A i \in 1..n : v[i] = step[<<i, v[i - 1]>>]
    BY <1>3 DEF FoldRun, Runs
  <2>2. \A i \in 1..n : v[i - 1] \in A
    OBVIOUS
  <2>3. QED
    BY <1>2, <2>1, <2>2
<1>10. QED
  BY <1>8, <1>9 DEF InsertionRun

Removed(list, removals) == FoldLeft(RemoveSub, list, removals)

(* What the list of an event may be.                                       *)
SubLists(m) == {l \in Seq(Subs(m)) : Ordered(l)}

LEMMA RemovedFacts ==
  ASSUME NEW m \in Nat, NEW list \in SubLists(m), NEW removals, Len(removals) \in Nat,
         DOMAIN removals = 1..Len(removals)
  PROVE  Removed(list, removals) \in SubLists(m) /\ ToSet(Removed(list, removals)) \subseteq ToSet(list)
<1> DEFINE A == {l \in SubLists(m) : ToSet(l) \subseteq ToSet(list)}
<1>1. list \in A
  OBVIOUS
<1>2. \A l \in A, i \in 1..Len(removals) : RemoveSub(l, removals[i]) \in A
  <2>1. SUFFICES ASSUME NEW l \in A, NEW i \in 1..Len(removals)
                 PROVE  RemoveSub(l, removals[i]) \in A
    OBVIOUS
  <2> DEFINE left == RemoveSub(l, removals[i])
  <2>2. /\ left \in Seq(Subs(m)) /\ Ordered(left)
        /\ ToSet(left) = {s \in ToSet(l) : s.fn = removals[i] =>
                            \E t \in ToSet(l) : t.fn = removals[i] /\ Before(t, s)}
    BY RemoveSubSet DEF SubLists
  <2> HIDE DEF left
  <2>3. ToSet(left) \subseteq ToSet(l)
    BY <2>2
  <2>4. left \in A
    BY <2>2, <2>3 DEF SubLists
  <2>5. QED
    BY <2>4 DEF left
<1> HIDE DEF A
<1>3. PICK v : RemovalRun(A, list, removals, v)
  BY <1>1, <1>2, RemovalsRun
<1>4. Removed(list, removals) \in A
  BY <1>3 DEF RemovalRun, Removed
<1>5. QED
  BY <1>4 DEF A

LEMMA RemovedNothing ==
  ASSUME NEW list
  PROVE  Removed(list, <<>>) = list
<1>1. \A l \in {list}, i \in 1..Len(<<>>) : RemoveSub(l, <<>>[i]) \in {list}
  OBVIOUS
<1>2. PICK v : RemovalRun({list}, list, <<>>, v)
  <2>1. list \in {list} /\ Len(<<>>) \in Nat /\ DOMAIN <<>> = 1..Len(<<>>)
    OBVIOUS
  <2>2. QED
    BY <1>1, <2>1, RemovalsRun
<1>3. QED
  BY <1>2 DEF RemovalRun, Removed

(* One more removal is put off: it is the last one of the flush.           *)
LEMMA RemovedMore ==
  ASSUME NEW m \in Nat, NEW list \in SubLists(m), NEW removals \in Seq(Handlers), NEW fn \in Handlers
  PROVE  Removed(list, Append(removals, fn)) = RemoveSub(Removed(list, removals), fn)
<1> DEFINE A == SubLists(m)
           n == Len(removals)
           longer == Append(removals, fn)
<1>1. \A l \in A : \A f : RemoveSub(l, f) \in A
  <2>1. SUFFICES ASSUME NEW l \in A, NEW f PROVE RemoveSub(l, f) \in A
    OBVIOUS
  <2>2. RemoveSub(l, f) \in Seq(Subs(m)) /\ Ordered(RemoveSub(l, f))
    BY RemoveSubSet DEF SubLists
  <2>3. QED
    BY <2>2 DEF SubLists
<1>2. /\ n \in Nat /\ DOMAIN removals = 1..n
      /\ Len(longer) = n + 1 /\ DOMAIN longer = 1..(n + 1) /\ longer[n + 1] = fn
      /\ \A i \in 1..n : longer[i] = removals[i]
  OBVIOUS
<1> HIDE DEF A, n, longer
<1>3. PICK v : RemovalRun(A, list, removals, v)
  BY <1>1, <1>2, RemovalsRun DEF n, A
<1>4. PICK w : RemovalRun(A, list, longer, w)
  <2>1. Len(longer) \in Nat /\ DOMAIN longer = 1..Len(longer)
    BY <1>2
  <2>2. \A l \in A, i \in 1..Len(longer) : RemoveSub(l, longer[i]) \in A
    BY <1>1
  <2>3. list \in A
    BY DEF A
  <2>4. QED
    BY <2>1, <2>2, <2>3, RemovalsRun
<1>5. /\ v[0] = list /\ w[0] = list
      /\ \A i \in 1..n : v[i] = RemoveSub(v[i - 1], removals[i])
      /\ \A i \in 1..(n + 1) : w[i] = RemoveSub(w[i - 1], longer[i])
      /\ Removed(list, removals) = v[n] /\ Removed(list, longer) = w[n + 1]
  BY <1>2, <1>3, <1>4 DEF RemovalRun, Removed, n
<1> DEFINE T == {i \in Nat : w[i] = v[i]}
<1>6. 0 \in T /\ T \in SUBSET Nat
  BY <1>5
<1>7. ASSUME NEW i \in 1..n, i - 1 \in T PROVE i \in T
  <2>1. i \in 1..(n + 1) /\ longer[i] = removals[i]
    BY <1>2
  <2>2. w[i] = RemoveSub(w[i - 1], removals[i]) /\ v[i] = RemoveSub(v[i - 1], removals[i])
    BY <1>5, <2>1
  <2>3. w[i] = v[i]
    BY <1>7, <2>2
  <2>4. QED
    BY <1>2, <2>3
<1> HIDE DEF T
<1>8. n \in T
  <2>1. \A i \in 0..n : i \in T
    BY <1>2, <1>6, <1>7, InductUpto
  <2>2. QED
    BY <1>2, <2>1
<1>9. w[n] = v[n]
  BY <1>8 DEF T
<1>10. n + 1 \in 1..(n + 1) /\ (n + 1) - 1 = n
  BY <1>2
<1>11. w[n + 1] = RemoveSub(w[(n + 1) - 1], fn)
  BY <1>2, <1>5, <1>10
<1>12. QED
  BY <1>5, <1>9, <1>10, <1>11 DEF longer

(* Additions in the order in which they were accepted.                     *)
Rising(additions) == \A i, j \in DOMAIN additions : i < j => additions[i].number < additions[j].number

(* They are newer than all that is active.                                 *)
Follow(additions, list) ==
  \A i \in DOMAIN additions : \A s \in ToSet(list) : s.number < additions[i].number

LEMMA InsertedFacts ==
  ASSUME NEW m \in Nat, NEW list \in SubLists(m), NEW additions \in Seq(Subs(m)),
         Rising(additions), Follow(additions, list)
  PROVE  /\ FoldLeft(InsertSub, list, additions) \in SubLists(m)
         /\ ToSet(FoldLeft(InsertSub, list, additions)) = ToSet(list) \cup ToSet(additions)
<1> DEFINE n == Len(additions)
           Has(k, l) == ToSet(l) = ToSet(list) \cup {additions[j] : j \in 1..k}
<1>1. n \in Nat /\ DOMAIN additions = 1..n /\ \A i \in 1..n : additions[i] \in Subs(m)
  OBVIOUS
<1>2. \A l \in Seq(Subs(m)), i \in 1..n : InsertSub(l, additions[i]) \in Seq(Subs(m))
  BY <1>1, InsertSubType
<1>3. PICK v : InsertionRun(Seq(Subs(m)), list, additions, v)
  <2>1. list \in Seq(Subs(m))
    BY DEF SubLists
  <2>2. QED
    BY <1>1, <1>2, <2>1, InsertionsRun
<1>4. /\ v[0] = list /\ v \in [0..n -> Seq(Subs(m))]
      /\ \A i \in 1..n : v[i] = InsertSub(v[i - 1], additions[i])
      /\ FoldLeft(InsertSub, list, additions) = v[n]
  BY <1>3 DEF InsertionRun
<1> HIDE DEF n, Has
<1> DEFINE T == {i \in 0..n : v[i] \in SubLists(m) /\ Has(i, v[i])}
<1>5. 0 \in T /\ T \in SUBSET Nat
  <2>1. 1..0 = {}
    OBVIOUS
  <2>2. Has(0, list)
    BY <2>1 DEF Has
  <2>3. QED
    BY <1>1, <1>4, <2>2
<1>6. ASSUME NEW i \in 1..n, i - 1 \in T PROVE i \in T
  <2> DEFINE l == v[i - 1]
             sub == additions[i]
  <2>1. l \in SubLists(m) /\ Has(i - 1, l) /\ sub \in Subs(m) /\ i - 1 \in 0..n /\ i \in 0..n
    BY <1>1, <1>6
  <2>2. v[i] = InsertSub(l, sub)
    BY <1>4
  <2>3. \A j \in 1..(i - 1) : additions[j].number < sub.number
    <3>1. \A j \in 1..(i - 1) : j \in 1..n /\ j < i
      BY <1>1
    <3>2. QED
      BY <1>1, <3>1 DEF Rising
  <2>4. \A s \in ToSet(list) : s.number < sub.number
    BY <1>1 DEF Follow
  <2> HIDE DEF l, sub
  <2>5. \A s \in ToSet(l) : s.number < sub.number
    BY <2>1, <2>3, <2>4 DEF Has
  <2>6. /\ v[i] \in SubLists(m) /\ ToSet(v[i]) = ToSet(l) \cup {sub}
    BY <2>1, <2>2, <2>5, InsertSubSet DEF SubLists
  <2>7. {additions[j] : j \in 1..i} = {additions[j] : j \in 1..(i - 1)} \cup {sub}
    <3>1. 1..i = (1..(i - 1)) \cup {i}
      BY <1>1
    <3>2. QED
      BY <3>1 DEF sub
  <2>8. Has(i, v[i])
    BY <2>1, <2>6, <2>7 DEF Has
  <2>9. QED
    BY <2>1, <2>6, <2>8
<1> HIDE DEF T
<1>7. n \in T
  <2>1. n \in Nat
    BY <1>1
  <2>2. \A i \in 1..n : i - 1 \in T => i \in T
    BY <1>6
  <2>3. \A i \in 0..n : i \in T
    BY <1>5, <2>1, <2>2, InductUpto
  <2>4. QED
    BY <2>1, <2>3
<1>8. v[n] \in SubLists(m) /\ Has(n, v[n])
  BY <1>7 DEF T
<1>9. ToSet(additions) = {additions[j] : j \in 1..n}
  BY <1>1 DEF ToSet
<1>10. QED
  BY <1>4, <1>8, <1>9 DEF Has

(* flush_removals and flush_additions keep the order and lose no addition. *)
LEMMA FlushedFacts ==
  ASSUME NEW m \in Nat, NEW list \in SubLists(m), NEW removals \in Seq(Handlers),
         NEW additions \in Seq(Subs(m)), Rising(additions), Follow(additions, list)
  PROVE  /\ Flushed(list, removals, additions) \in SubLists(m)
         /\ ToSet(Flushed(list, removals, additions))
              = ToSet(Removed(list, removals)) \cup ToSet(additions)
<1> DEFINE left == Removed(list, removals)
<1>1. Len(removals) \in Nat /\ DOMAIN removals = 1..Len(removals)
  OBVIOUS
<1>2. left \in SubLists(m) /\ ToSet(left) \subseteq ToSet(list)
  BY <1>1, RemovedFacts
<1>3. Flushed(list, removals, additions) = FoldLeft(InsertSub, left, additions)
  BY DEF Flushed, Removed
<1> HIDE DEF left
<1>4. Follow(additions, left)
  BY <1>2 DEF Follow
<1>5. QED
  BY <1>2, <1>3, <1>4, InsertedFacts DEF left

----------------------------------------------------------------------------
(* One event: its subscribers, what is put off, and what is kept           *)

(* All that are not given up survive the removals that are put off.        *)
EventOk(m, list, adds, rems, keeps) ==
  /\ list \in SubLists(m) /\ adds \in Seq(Subs(m)) /\ rems \in Seq(Handlers)
  /\ \A s, t \in ToSet(list) : s.number = t.number => s = t
  /\ Rising(adds) /\ Follow(adds, list)
  /\ \A s \in ToSet(list) : s.number \in keeps => s \in ToSet(Removed(list, rems))
  /\ \A n \in keeps : \E s \in ToSet(list) \cup ToSet(adds) : s.number = n

LEMMA Members ==
  ASSUME NEW A, NEW list \in Seq(A)
  PROVE  /\ ToSet(list) \subseteq A /\ ToSet(list) = {list[i] : i \in 1..Len(list)}
         /\ Len(list) \in Nat /\ DOMAIN list = 1..Len(list)
  BY DEF ToSet

LEMMA NoMembers == ToSet(<<>>) = {}
  BY DEF ToSet

LEMMA OneMoreMember ==
  ASSUME NEW A, NEW list \in Seq(A), NEW e \in A
  PROVE  ToSet(Append(list, e)) = ToSet(list) \cup {e}
<1>1. /\ Append(list, e) \in Seq(A) /\ Len(list) \in Nat /\ DOMAIN list = 1..Len(list)
      /\ Len(Append(list, e)) = Len(list) + 1 /\ Append(list, e)[Len(list) + 1] = e
      /\ \A i \in 1..Len(list) : Append(list, e)[i] = list[i]
  OBVIOUS
<1>2. DOMAIN Append(list, e) = 1..(Len(list) + 1)
  BY <1>1
<1>3. QED
  BY <1>1, <1>2 DEF ToSet

LEMMA NothingYet ==
  ASSUME NEW m \in Nat
  PROVE  EventOk(m, <<>>, <<>>, <<>>, {})
  BY NoMembers DEF EventOk, SubLists, Ordered, Rising, Follow

(* One more subscription is accepted.                                      *)
LEMMA SubsGrow ==
  ASSUME NEW m \in Nat
  PROVE  /\ Subs(m) \subseteq Subs(m + 1) /\ SubLists(m) \subseteq SubLists(m + 1)
         /\ Seq(Subs(m)) \subseteq Seq(Subs(m + 1))
<1>1. Subs(m) \subseteq Subs(m + 1)
  <2>1. 1..m \subseteq 1..(m + 1)
    OBVIOUS
  <2>2. QED
    BY <2>1 DEF Subs
<1>2. Seq(Subs(m)) \subseteq Seq(Subs(m + 1))
  BY <1>1
<1>3. QED
  BY <1>1, <1>2 DEF SubLists

LEMMA OkGrows ==
  ASSUME NEW m \in Nat, NEW list, NEW adds, NEW rems, NEW keeps,
         EventOk(m, list, adds, rems, keeps)
  PROVE  EventOk(m + 1, list, adds, rems, keeps)
  BY SubsGrow DEF EventOk

(* obc_event_subscribe during a fire of the event: the addition is put     *)
(* off.                                                                    *)
LEMMA OkAdded ==
  ASSUME NEW m \in Nat, NEW list, NEW adds, NEW rems, NEW keeps,
         EventOk(m, list, adds, rems, keeps), NEW sub \in Subs(m + 1), sub.number = m + 1
  PROVE  EventOk(m + 1, list, Append(adds, sub), rems, keeps \cup {m + 1})
<1> DEFINE longer == Append(adds, sub)
           n == Len(adds)
<1>1. /\ list \in SubLists(m + 1) /\ list \in SubLists(m) /\ list \in Seq(Subs(m))
      /\ adds \in Seq(Subs(m)) /\ adds \in Seq(Subs(m + 1)) /\ rems \in Seq(Handlers)
  BY SubsGrow DEF EventOk, SubLists
<1>2. /\ n \in Nat /\ DOMAIN adds = 1..n
      /\ longer \in Seq(Subs(m + 1)) /\ Len(longer) = n + 1 /\ DOMAIN longer = 1..(n + 1)
      /\ longer[n + 1] = sub /\ \A i \in 1..n : longer[i] = adds[i]
  BY <1>1
<1>3. ToSet(longer) = ToSet(adds) \cup {sub}
  BY <1>1, OneMoreMember
<1> HIDE DEF longer, n
<1>4. \A s \in ToSet(list) \cup ToSet(adds) : s.number \in 1..m
  <2>1. ToSet(list) \subseteq Subs(m) /\ ToSet(adds) \subseteq Subs(m)
    BY <1>1, Members
  <2>2. QED
    BY <2>1 DEF Subs
<1>5. \A i \in 1..n : adds[i].number \in 1..m
  BY <1>2, <1>4 DEF ToSet
<1>6. Rising(longer)
  <2>1. SUFFICES ASSUME NEW i \in 1..(n + 1), NEW j \in 1..(n + 1), i < j
                 PROVE  longer[i].number < longer[j].number
    BY <1>2 DEF Rising
  <2>2. i \in 1..n /\ longer[i] = adds[i]
    BY <1>2, <2>1
  <2>3. CASE j = n + 1
    BY <1>2, <1>5, <2>2, <2>3
  <2>4. CASE j # n + 1
    <3>1. j \in 1..n /\ longer[j] = adds[j]
      BY <1>2, <2>4
    <3>2. QED
      BY <1>2, <2>1, <2>2, <3>1 DEF EventOk, Rising
  <2>5. QED
    BY <2>3, <2>4
<1>7. Follow(longer, list)
  <2>1. SUFFICES ASSUME NEW i \in 1..(n + 1), NEW s \in ToSet(list)
                 PROVE  s.number < longer[i].number
    BY <1>2 DEF Follow
  <2>2. CASE i = n + 1
    BY <1>2, <1>4, <2>2
  <2>3. CASE i # n + 1
    <3>1. i \in 1..n /\ longer[i] = adds[i]
      BY <1>2, <2>3
    <3>2. QED
      BY <1>2, <3>1 DEF EventOk, Follow
  <2>4. QED
    BY <2>2, <2>3
<1>8. \A s \in ToSet(list) : s.number # m + 1
  BY <1>4
<1>9. EventOk(m + 1, list, longer, rems, keeps \cup {m + 1})
  BY <1>1, <1>2, <1>3, <1>6, <1>7, <1>8 DEF EventOk
<1>10. QED
  BY <1>9 DEF longer

(* obc_event_subscribe at another time.                                    *)
LEMMA OkInserted ==
  ASSUME NEW m \in Nat, NEW list, NEW keeps, EventOk(m, list, <<>>, <<>>, keeps),
         NEW sub \in Subs(m + 1), sub.number = m + 1
  PROVE  EventOk(m + 1, InsertSub(list, sub), <<>>, <<>>, keeps \cup {m + 1})
<1>1. list \in SubLists(m) /\ list \in Seq(Subs(m + 1)) /\ Ordered(list)
  BY SubsGrow DEF EventOk, SubLists
<1>2. \A s \in ToSet(list) : s.number \in 1..m
  <2>1. ToSet(list) \subseteq Subs(m)
    BY <1>1, Members DEF SubLists
  <2>2. QED
    BY <2>1 DEF Subs
<1> DEFINE longer == InsertSub(list, sub)
<1>3. /\ longer \in Seq(Subs(m + 1)) /\ Ordered(longer)
      /\ ToSet(longer) = ToSet(list) \cup {sub}
  BY <1>1, <1>2, InsertSubSet
<1> HIDE DEF longer
<1>4. /\ longer \in SubLists(m + 1) /\ <<>> \in Seq(Subs(m + 1)) /\ <<>> \in Seq(Handlers)
      /\ Rising(<<>>) /\ Follow(<<>>, longer)
  BY <1>3 DEF SubLists, Rising, Follow
<1>5. \A s, t \in ToSet(longer) : s.number = t.number => s = t
  BY <1>2, <1>3 DEF EventOk
<1>6. \A n \in keeps \cup {m + 1} : \E s \in ToSet(longer) : s.number = n
  BY <1>3, NoMembers DEF EventOk
<1>7. EventOk(m + 1, longer, <<>>, <<>>, keeps \cup {m + 1})
  BY <1>4, <1>5, <1>6, RemovedNothing DEF EventOk
<1>8. QED
  BY <1>7 DEF longer

(* The outermost fire returns: what it put off takes effect, and no        *)
(* subscription that is kept is lost.                                      *)
LEMMA OkFlushed ==
  ASSUME NEW m \in Nat, NEW list, NEW adds, NEW rems, NEW keeps,
         EventOk(m, list, adds, rems, keeps)
  PROVE  EventOk(m, Flushed(list, rems, adds), <<>>, <<>>, keeps)
<1> DEFINE flushed == Flushed(list, rems, adds)
           left == Removed(list, rems)
<1>1. /\ list \in SubLists(m) /\ adds \in Seq(Subs(m)) /\ rems \in Seq(Handlers)
      /\ Len(rems) \in Nat /\ DOMAIN rems = 1..Len(rems) /\ Rising(adds) /\ Follow(adds, list)
  BY DEF EventOk
<1>2. flushed \in SubLists(m) /\ ToSet(flushed) = ToSet(left) \cup ToSet(adds)
  BY <1>1, FlushedFacts
<1>3. ToSet(left) \subseteq ToSet(list)
  BY <1>1, RemovedFacts
<1> HIDE DEF flushed, left
<1>4. \A s, t \in ToSet(adds) : s.number = t.number => s = t
  <2>1. SUFFICES ASSUME NEW i \in 1..Len(adds), NEW j \in 1..Len(adds),
                        adds[i].number = adds[j].number
                 PROVE  i = j
    BY <1>1, Members
  <2>2. Len(adds) \in Nat /\ DOMAIN adds = 1..Len(adds) /\ adds[i] \in Subs(m) /\ adds[j] \in Subs(m)
    BY <1>1
  <2>3. adds[i].number \in Nat /\ adds[j].number \in Nat
    BY <2>2, Numbers
  <2>4. ~ (i < j) /\ ~ (j < i)
    BY <1>1, <2>1, <2>2, <2>3 DEF Rising
  <2>5. QED
    BY <2>2, <2>4
<1>5. ASSUME NEW s \in ToSet(list), NEW t \in ToSet(adds) PROVE s.number # t.number
  <2>1. s.number \in Nat /\ t.number \in Nat
    BY <1>1, Members, Numbers DEF SubLists
  <2>2. s.number < t.number
    BY <1>1 DEF Follow, ToSet
  <2>3. QED
    BY <2>1, <2>2
<1>6. \A s, t \in ToSet(flushed) : s.number = t.number => s = t
  BY <1>2, <1>3, <1>4, <1>5 DEF EventOk
<1>7. \A n \in keeps : \E s \in ToSet(flushed) : s.number = n
  BY <1>2 DEF EventOk, left
<1>8. <<>> \in Seq(Subs(m)) /\ <<>> \in Seq(Handlers) /\ Rising(<<>>) /\ Follow(<<>>, flushed)
  BY DEF Rising, Follow
<1>9. EventOk(m, flushed, <<>>, <<>>, keeps)
  BY <1>2, <1>6, <1>7, <1>8, RemovedNothing, NoMembers DEF EventOk
<1>10. QED
  BY <1>9 DEF flushed

(* What is kept when the first subscription of fn that is kept is given    *)
(* up: KeptWithout, of one event.                                          *)
Keeping(list, adds, keeps, fn) ==
  LET all == list \o adds
      mine == {i \in DOMAIN all : all[i].fn = fn /\ all[i].number \in keeps}
  IN IF mine = {} THEN keeps ELSE keeps \ {all[Min(mine)].number}

LEMMA KeepingFacts ==
  ASSUME NEW m \in Nat, NEW list \in SubLists(m), NEW adds \in Seq(Subs(m)), NEW keeps, NEW fn
  PROVE  /\ Keeping(list, adds, keeps, fn) \subseteq keeps
         /\ \A s \in ToSet(list) : s.fn = fn /\ s.number \in Keeping(list, adds, keeps, fn) =>
              \E t \in ToSet(list) : t.fn = fn /\ t.number \in keeps /\ Before(t, s)
<1> DEFINE all == list \o adds
           mine == {i \in DOMAIN all : all[i].fn = fn /\ all[i].number \in keeps}
           p == Min(mine)
<1>1. Keeping(list, adds, keeps, fn) = IF mine = {} THEN keeps ELSE keeps \ {all[p].number}
  BY DEF Keeping
<1>2. Joins(Subs(m), list, adds, all)
  BY Joined DEF SubLists
<1>3. /\ Len(list) \in Nat /\ DOMAIN list = 1..Len(list) /\ Len(adds) \in Nat
      /\ DOMAIN all = 1..(Len(list) + Len(adds))
      /\ \A i \in 1..Len(list) : all[i] = list[i] /\ i \in DOMAIN all
  <2> HIDE DEF all
  <2> QED
    BY <1>2 DEF Joins, SubLists
<1> HIDE DEF all, p
<1>4. SUFFICES ASSUME NEW s \in ToSet(list), s.fn = fn, s.number \in Keeping(list, adds, keeps, fn)
               PROVE  \E t \in ToSet(list) : t.fn = fn /\ t.number \in keeps /\ Before(t, s)
  BY <1>1
<1>5. PICK j \in 1..Len(list) : s = list[j]
  BY <1>3 DEF ToSet
<1>6. j \in mine /\ s.number # all[p].number
  BY <1>1, <1>3, <1>4, <1>5
<1>7. p \in mine /\ p <= j
  <2>1. Len(list) + Len(adds) \in Nat /\ mine \in SUBSET (1..(Len(list) + Len(adds))) /\ mine # {}
    BY <1>3, <1>6
  <2>2. j \in mine
    BY <1>6
  <2> HIDE DEF mine
  <2>3. QED
    BY <2>1, <2>2, FirstOf DEF p
<1>8. p \in 1..Len(list) /\ all[p] = list[p] /\ p # j
  BY <1>3, <1>5, <1>6, <1>7
<1>9. Before(list[p], list[j])
  BY <1>3, <1>7, <1>8 DEF SubLists, Ordered
<1>10. QED
  BY <1>3, <1>5, <1>7, <1>8, <1>9 DEF ToSet

(* obc_event_unsubscribe during a fire of the event: the removal is put    *)
(* off, or lost when there is no room for it.                              *)
LEMMA OkGivenUp ==
  ASSUME NEW m \in Nat, NEW list, NEW adds, NEW rems, NEW keeps, NEW fn \in Handlers,
         EventOk(m, list, adds, rems, keeps)
  PROVE  /\ EventOk(m, list, adds, Append(rems, fn), Keeping(list, adds, keeps, fn))
         /\ EventOk(m, list, adds, rems, Keeping(list, adds, keeps, fn))
<1> DEFINE left == Removed(list, rems)
           fewer == Keeping(list, adds, keeps, fn)
<1>1. /\ list \in SubLists(m) /\ adds \in Seq(Subs(m)) /\ rems \in Seq(Handlers)
      /\ Len(rems) \in Nat /\ DOMAIN rems = 1..Len(rems)
  BY DEF EventOk
<1>2. /\ fewer \subseteq keeps
      /\ \A s \in ToSet(list) : s.fn = fn /\ s.number \in fewer =>
           \E t \in ToSet(list) : t.fn = fn /\ t.number \in keeps /\ Before(t, s)
  BY <1>1, KeepingFacts
<1> HIDE DEF fewer
<1>3. /\ left \in SubLists(m)
      /\ \A s \in ToSet(list) : s.number \in keeps => s \in ToSet(left)
  BY <1>1, RemovedFacts DEF EventOk
<1>4. ToSet(RemoveSub(left, fn)) =
        {s \in ToSet(left) : s.fn = fn => \E t \in ToSet(left) : t.fn = fn /\ Before(t, s)}
  BY <1>3, RemoveSubSet DEF SubLists
<1>5. Removed(list, Append(rems, fn)) = RemoveSub(left, fn) /\ Append(rems, fn) \in Seq(Handlers)
  BY <1>1, RemovedMore
<1> HIDE DEF left
<1>6. \A s \in ToSet(list) : s.number \in fewer => s \in ToSet(RemoveSub(left, fn))
  BY <1>2, <1>3, <1>4
<1>7. /\ EventOk(m, list, adds, Append(rems, fn), fewer)
      /\ EventOk(m, list, adds, rems, fewer)
  BY <1>2, <1>5, <1>6 DEF EventOk
<1>8. QED
  BY <1>7 DEF fewer

(* obc_event_unsubscribe at another time.                                  *)
LEMMA OkRemoved ==
  ASSUME NEW m \in Nat, NEW list, NEW keeps, NEW fn \in Handlers,
         EventOk(m, list, <<>>, <<>>, keeps)
  PROVE  EventOk(m, RemoveSub(list, fn), <<>>, <<>>, Keeping(list, <<>>, keeps, fn))
<1> DEFINE left == RemoveSub(list, fn)
           fewer == Keeping(list, <<>>, keeps, fn)
<1>1. list \in SubLists(m) /\ <<>> \in Seq(Subs(m)) /\ <<>> \in Seq(Handlers)
  BY DEF EventOk
<1>2. /\ left \in SubLists(m)
      /\ ToSet(left) = {s \in ToSet(list) : s.fn = fn =>
                          \E t \in ToSet(list) : t.fn = fn /\ Before(t, s)}
  BY <1>1, RemoveSubSet DEF SubLists
<1>3. /\ fewer \subseteq keeps
      /\ \A s \in ToSet(list) : s.fn = fn /\ s.number \in fewer =>
           \E t \in ToSet(list) : t.fn = fn /\ t.number \in keeps /\ Before(t, s)
  BY <1>1, KeepingFacts
<1> HIDE DEF left, fewer
<1>4. ASSUME NEW n \in fewer PROVE \E s \in ToSet(left) : s.number = n
  <2>1. PICK s \in ToSet(list) : s.number = n
    BY <1>3, NoMembers DEF EventOk
  <2>2. s \in ToSet(left)
    BY <1>2, <1>3, <2>1
  <2>3. QED
    BY <2>1, <2>2
<1>5. /\ \A s, t \in ToSet(left) : s.number = t.number => s = t
      /\ Rising(<<>>) /\ Follow(<<>>, left)
  BY <1>2 DEF EventOk, Rising, Follow
<1>6. EventOk(m, left, <<>>, <<>>, fewer)
  BY <1>1, <1>2, <1>4, <1>5, RemovedNothing DEF EventOk
<1>7. QED
  BY <1>6 DEF left, fewer

----------------------------------------------------------------------------
(* The bus                                                                 *)

Frames == [event : Events, at : Nat, since : Nat, running : Nat]

(* A fire finds the subscriber it calls at its place, and nothing on its   *)
(* list is newer than its outermost fire.                                  *)
FrameOk(f, list) ==
  /\ f.at \in DOMAIN list /\ list[f.at].number = f.running
  /\ \A s \in ToSet(list) : s.number <= f.since

StackOk ==
  /\ stack \in Seq(Frames)
  /\ \A i \in DOMAIN stack : FrameOk(stack[i], subs[stack[i].event])

(* Changes are put off only while a fire of the event runs.                *)
PutOffInFires ==
  \A e \in Events : Fires(stack, e) = {} => adding[e] = <<>> /\ removing[e] = <<>>

EventsOk ==
  /\ made \in Nat
  /\ DOMAIN subs = Events /\ DOMAIN adding = Events
  /\ DOMAIN removing = Events /\ DOMAIN kept = Events
  /\ \A e \in Events : EventOk(made, subs[e], adding[e], removing[e], kept[e])

BusInv == EventsOk /\ StackOk /\ PutOffInFires

LEMMA Depth ==
  ASSUME NEW F, NEW frames \in Seq(F), NEW e
  PROVE  /\ IsFiniteSet(Fires(frames, e)) /\ Cardinality(Fires(frames, e)) \in Nat
         /\ Cardinality(Fires(frames, e)) > 0 <=> Fires(frames, e) # {}
<1>1. Len(frames) \in Nat /\ Fires(frames, e) \subseteq 1..Len(frames)
  BY DEF Fires
<1>2. IsFiniteSet(1..Len(frames))
  BY <1>1, FS_Interval
<1>3. IsFiniteSet(Fires(frames, e))
  BY <1>1, <1>2, FS_Subset
<1>4. Cardinality(Fires(frames, e)) \in Nat
  BY <1>3, FS_CardinalityType
<1>5. Cardinality(Fires(frames, e)) = 0 <=> Fires(frames, e) = {}
  BY <1>3, FS_EmptySet
<1>6. QED
  BY <1>3, <1>4, <1>5

(* A fire that is the only one of its event is the innermost of all when   *)
(* it returns.                                                             *)
LEMMA Outermost ==
  ASSUME NEW F, NEW frames \in Seq(F), frames # <<>>,
         Cardinality(Fires(frames, Last(frames).event)) = 1
  PROVE  Fires(frames, Last(frames).event) = {Len(frames)}
<1> DEFINE R == Fires(frames, Last(frames).event)
<1>1. Len(frames) \in R
  BY DEF Fires, Last
<1>2. IsFiniteSet(R)
  BY Depth
<1> HIDE DEF R
<1>3. /\ Cardinality(R \ {Len(frames)}) = Cardinality(R) - 1
      /\ IsFiniteSet(R \ {Len(frames)})
  BY <1>1, <1>2, FS_RemoveElement
<1>4. Cardinality(R \ {Len(frames)}) = 0
  BY <1>3 DEF R
<1>5. R \ {Len(frames)} = {}
  BY <1>3, <1>4, FS_EmptySet
<1>6. R = {Len(frames)}
  BY <1>1, <1>5
<1>7. QED
  BY <1>6 DEF R

LEMMA BusStart == BusInit => BusInv
<1> SUFFICES ASSUME BusInit PROVE BusInv
  OBVIOUS
<1>1. EventsOk
  BY NothingYet DEF BusInit, EventsOk
<1>2. StackOk /\ PutOffInFires
  BY DEF BusInit, StackOk, PutOffInFires
<1>3. QED
  BY <1>1, <1>2 DEF BusInv

LEMMA BusKept ==
  ASSUME BusInv, UNCHANGED busVars
  PROVE  BusInv'
  BY DEF busVars, BusInv, EventsOk, StackOk, PutOffInFires, Fires

LEMMA ResetBus ==
  ASSUME BusInv, Reset
  PROVE  BusInv'
<1>1. EventsOk'
  BY NothingYet DEF Reset, BusInv, EventsOk
<1>2. StackOk' /\ PutOffInFires'
  BY DEF Reset, BusInv, StackOk, PutOffInFires
<1>3. QED
  BY <1>1, <1>2 DEF BusInv

LEMMA SubscribeBus ==
  ASSUME BusInv, NEW e \in Events, NEW fn \in Handlers, NEW p \in Priorities, Subscribe(e, fn, p)
  PROVE  BusInv'
<1> DEFINE sub == [fn |-> fn, priority |-> p, number |-> made + 1]
<1>1. /\ stack \in Seq(Frames) /\ made \in Nat /\ made' = made + 1
      /\ stack' = stack /\ removing' = removing
      /\ kept' = [kept EXCEPT ![e] = @ \cup {made + 1}]
      /\ \/ FireDepth(e) > 0 /\ adding' = [adding EXCEPT ![e] = Append(@, sub)] /\ subs' = subs
         \/ ~ (FireDepth(e) > 0) /\ subs' = [subs EXCEPT ![e] = InsertSub(@, sub)] /\ adding' = adding
  BY DEF Subscribe, BusInv, EventsOk, StackOk
<1>2. sub \in Subs(made + 1) /\ sub.number = made + 1
  <2>1. made + 1 \in 1..(made + 1)
    BY <1>1
  <2>2. QED
    BY <2>1 DEF Subs
<1>3. FireDepth(e) > 0 <=> Fires(stack, e) # {}
  BY <1>1, Depth DEF FireDepth
<1> HIDE DEF sub
<1>4. ASSUME NEW o \in Events \ {e}
      PROVE  EventOk(made', subs'[o], adding'[o], removing'[o], kept'[o])
  <2>1. EventOk(made + 1, subs[o], adding[o], removing[o], kept[o])
    BY <1>1, OkGrows DEF BusInv, EventsOk
  <2>2. UNCHANGED <<subs[o], adding[o], removing[o], kept[o]>>
    BY <1>1 DEF BusInv, EventsOk
  <2>3. QED
    BY <1>1, <2>1, <2>2
<1>5. CASE FireDepth(e) > 0
  <2>1. adding' = [adding EXCEPT ![e] = Append(@, sub)] /\ subs' = subs
    BY <1>1, <1>5
  <2>2. EventOk(made + 1, subs[e], Append(adding[e], sub), removing[e], kept[e] \cup {made + 1})
    BY <1>1, <1>2, OkAdded DEF BusInv, EventsOk
  <2>3. EventOk(made', subs'[e], adding'[e], removing'[e], kept'[e])
    BY <1>1, <2>1, <2>2 DEF BusInv, EventsOk
  <2>4. EventsOk'
    BY <1>1, <1>4, <2>1, <2>3 DEF BusInv, EventsOk
  <2>5. StackOk'
    BY <1>1, <2>1 DEF BusInv, StackOk
  <2>6. PutOffInFires'
    BY <1>1, <1>3, <1>5, <2>1 DEF BusInv, PutOffInFires, EventsOk, Fires
  <2>7. QED
    BY <2>4, <2>5, <2>6 DEF BusInv
<1>6. CASE ~ (FireDepth(e) > 0)
  <2>1. subs' = [subs EXCEPT ![e] = InsertSub(@, sub)] /\ adding' = adding
    BY <1>1, <1>6
  <2>2. Fires(stack, e) = {} /\ adding[e] = <<>> /\ removing[e] = <<>>
    BY <1>3, <1>6 DEF BusInv, PutOffInFires
  <2>3. EventOk(made + 1, InsertSub(subs[e], sub), <<>>, <<>>, kept[e] \cup {made + 1})
    <3>1. EventOk(made, subs[e], <<>>, <<>>, kept[e])
      BY <2>2 DEF BusInv, EventsOk
    <3>2. QED
      BY <1>1, <1>2, <3>1, OkInserted
  <2>4. EventOk(made', subs'[e], adding'[e], removing'[e], kept'[e])
    BY <1>1, <2>1, <2>2, <2>3 DEF BusInv, EventsOk
  <2>5. EventsOk'
    BY <1>1, <1>4, <2>1, <2>4 DEF BusInv, EventsOk
  <2>6. StackOk'
    <3>1. ASSUME NEW i \in DOMAIN stack PROVE stack[i].event \in Events /\ stack[i].event # e
      <4>1. stack[i] \in Frames
        BY <1>1
      <4>2. i \notin Fires(stack, e)
        BY <2>2
      <4>3. QED
        BY <4>1, <4>2 DEF Fires, Frames
    <3>2. QED
      BY <1>1, <2>1, <3>1 DEF BusInv, StackOk, EventsOk
  <2>7. PutOffInFires'
    BY <1>1, <2>1 DEF BusInv, PutOffInFires, Fires
  <2>8. QED
    BY <2>5, <2>6, <2>7 DEF BusInv
<1>7. QED
  BY <1>5, <1>6

LEMMA UnsubscribeBus ==
  ASSUME BusInv, NEW e \in Events, NEW fn \in Handlers, Unsubscribe(e, fn)
  PROVE  BusInv'
<1>1. /\ stack \in Seq(Frames) /\ made \in Nat /\ made' = made
      /\ stack' = stack /\ adding' = adding /\ kept' = KeptWithout(e, fn)
      /\ \/ /\ FireDepth(e) > 0 /\ subs' = subs
            /\ \/ removing' = [removing EXCEPT ![e] = Append(@, fn)]
               \/ removing' = removing
         \/ ~ (FireDepth(e) > 0) /\ subs' = [subs EXCEPT ![e] = RemoveSub(@, fn)]
            /\ removing' = removing
  BY DEF Unsubscribe, BusInv, EventsOk, StackOk
<1>2. /\ DOMAIN kept' = Events /\ kept'[e] = Keeping(subs[e], adding[e], kept[e], fn)
      /\ \A o \in Events \ {e} : kept'[o] = kept[o]
  <2> DEFINE all == subs[e] \o adding[e]
             mine == {i \in DOMAIN all : all[i].fn = fn /\ all[i].number \in kept[e]}
  <2>1. DOMAIN kept = Events
    BY DEF BusInv, EventsOk
  <2>2. /\ KeptWithout(e, fn) =
             IF mine = {} THEN kept ELSE [kept EXCEPT ![e] = @ \ {all[Min(mine)].number}]
        /\ Keeping(subs[e], adding[e], kept[e], fn) =
             IF mine = {} THEN kept[e] ELSE kept[e] \ {all[Min(mine)].number}
    BY DEF KeptWithout, Keeping
  <2> HIDE DEF mine, all
  <2>3. QED
    BY <1>1, <2>1, <2>2
<1>3. FireDepth(e) > 0 <=> Fires(stack, e) # {}
  BY <1>1, Depth DEF FireDepth
<1>4. ASSUME NEW o \in Events \ {e}
      PROVE  EventOk(made', subs'[o], adding'[o], removing'[o], kept'[o])
  <2>1. UNCHANGED <<subs[o], adding[o], removing[o], kept[o]>>
    BY <1>1, <1>2 DEF BusInv, EventsOk
  <2>2. QED
    BY <1>1, <2>1 DEF BusInv, EventsOk
<1>5. EventOk(made, subs[e], adding[e], removing[e], kept[e])
  BY DEF BusInv, EventsOk
<1>6. CASE FireDepth(e) > 0
  <2>1. /\ subs' = subs
        /\ \/ removing' = [removing EXCEPT ![e] = Append(@, fn)]
           \/ removing' = removing
    BY <1>1, <1>6
  <2>2. EventOk(made', subs'[e], adding'[e], removing'[e], kept'[e])
    <3>1. kept'[e] = Keeping(subs[e], adding[e], kept[e], fn)
      BY <1>2 DEF BusInv, EventsOk
    <3>2. removing'[e] = Append(removing[e], fn) \/ removing'[e] = removing[e]
      BY <2>1 DEF BusInv, EventsOk
    <3>3. /\ EventOk(made, subs[e], adding[e], Append(removing[e], fn), kept'[e])
          /\ EventOk(made, subs[e], adding[e], removing[e], kept'[e])
      BY <1>1, <1>5, <3>1, OkGivenUp
    <3>4. QED
      BY <1>1, <2>1, <3>2, <3>3
  <2>3. EventsOk'
    BY <1>1, <1>2, <1>4, <2>1, <2>2 DEF BusInv, EventsOk
  <2>4. StackOk'
    BY <1>1, <2>1 DEF BusInv, StackOk
  <2>5. PutOffInFires'
    BY <1>1, <1>3, <1>6, <2>1 DEF BusInv, PutOffInFires, EventsOk, Fires
  <2>6. QED
    BY <2>3, <2>4, <2>5 DEF BusInv
<1>7. CASE ~ (FireDepth(e) > 0)
  <2>1. subs' = [subs EXCEPT ![e] = RemoveSub(@, fn)] /\ removing' = removing
    BY <1>1, <1>7
  <2>2. Fires(stack, e) = {} /\ adding[e] = <<>> /\ removing[e] = <<>>
    BY <1>3, <1>7 DEF BusInv, PutOffInFires
  <2>3. EventOk(made, RemoveSub(subs[e], fn), <<>>, <<>>, Keeping(subs[e], <<>>, kept[e], fn))
    <3>1. EventOk(made, subs[e], <<>>, <<>>, kept[e])
      BY <1>5, <2>2
    <3>2. QED
      BY <1>1, <3>1, OkRemoved
  <2>4. EventOk(made', subs'[e], adding'[e], removing'[e], kept'[e])
    BY <1>1, <1>2, <2>1, <2>2, <2>3 DEF BusInv, EventsOk
  <2>5. EventsOk'
    BY <1>1, <1>2, <1>4, <2>1, <2>4 DEF BusInv, EventsOk
  <2>6. StackOk'
    <3>1. ASSUME NEW i \in DOMAIN stack PROVE stack[i].event \in Events /\ stack[i].event # e
      <4>1. stack[i] \in Frames
        BY <1>1
      <4>2. i \notin Fires(stack, e)
        BY <2>2
      <4>3. QED
        BY <4>1, <4>2 DEF Fires, Frames
    <3>2. QED
      BY <1>1, <2>1, <3>1 DEF BusInv, StackOk, EventsOk
  <2>7. PutOffInFires'
    BY <1>1, <2>1 DEF BusInv, PutOffInFires, Fires
  <2>8. QED
    BY <2>5, <2>6, <2>7 DEF BusInv
<1>8. QED
  BY <1>6, <1>7

LEMMA FireBus ==
  ASSUME BusInv, NEW e \in Events, Fire(e)
  PROVE  BusInv'
<1> DEFINE outer == {stack[i].since : i \in Fires(stack, e)}
           since == IF outer = {} THEN made ELSE CHOOSE n \in outer : TRUE
           frame == [event |-> e, at |-> 1, since |-> since, running |-> subs[e][1].number]
           n == Len(stack)
<1>1. /\ stack' = Append(stack, frame) /\ subs[e] # <<>>
      /\ UNCHANGED <<subs, adding, removing, made, kept>>
  BY DEF Fire
<1>2. /\ stack \in Seq(Frames) /\ made \in Nat /\ n \in Nat /\ DOMAIN stack = 1..n
      /\ subs[e] \in Seq(Subs(made))
  BY DEF BusInv, StackOk, EventsOk, EventOk, SubLists
<1>3. /\ 1 \in DOMAIN subs[e] /\ subs[e][1].number \in Nat
      /\ \A s \in ToSet(subs[e]) : s.number \in 1..made
  <2>1. 1 \in DOMAIN subs[e] /\ subs[e][1] \in Subs(made) /\ ToSet(subs[e]) \subseteq Subs(made)
    BY <1>1, <1>2, Members
  <2>2. QED
    BY <1>2, <2>1 DEF Subs
<1>4. since \in Nat /\ \A s \in ToSet(subs[e]) : s.number <= since
  <2>1. CASE outer = {}
    BY <1>2, <1>3, <2>1
  <2>2. CASE outer # {}
    <3>1. since \in outer
      BY <2>2
    <3>2. PICK i \in DOMAIN stack : stack[i].event = e /\ since = stack[i].since
      BY <3>1 DEF Fires
    <3>3. stack[i] \in Frames /\ FrameOk(stack[i], subs[e])
      BY <1>2, <3>2 DEF BusInv, StackOk
    <3>4. QED
      BY <3>2, <3>3 DEF FrameOk, Frames
  <2>3. QED
    BY <2>1, <2>2
<1> HIDE DEF since, outer
<1>5. frame \in Frames /\ frame.event = e /\ FrameOk(frame, subs[e])
  BY <1>3, <1>4 DEF Frames, FrameOk
<1> HIDE DEF frame
<1>6. /\ stack' \in Seq(Frames) /\ DOMAIN stack' = 1..(n + 1) /\ stack'[n + 1] = frame
      /\ \A i \in 1..n : stack'[i] = stack[i]
  BY <1>1, <1>2, <1>5
<1>7. StackOk'
  <2>1. ASSUME NEW i \in 1..(n + 1) PROVE FrameOk(stack'[i], subs[stack'[i].event])
    <3>1. CASE i = n + 1
      BY <1>5, <1>6, <3>1
    <3>2. CASE i # n + 1
      BY <1>2, <1>6, <3>2 DEF BusInv, StackOk
    <3>3. QED
      BY <3>1, <3>2
  <2>2. QED
    BY <1>1, <1>6, <2>1 DEF StackOk
<1>8. PutOffInFires'
  <2>1. \A o : Fires(stack, o) \subseteq Fires(stack', o)
    BY <1>2, <1>6 DEF Fires
  <2>2. QED
    BY <1>1, <2>1 DEF BusInv, PutOffInFires
<1>9. EventsOk'
  BY <1>1 DEF BusInv, EventsOk
<1>10. QED
  BY <1>7, <1>8, <1>9 DEF BusInv

LEMMA FireReturnsBus ==
  ASSUME BusInv, stack # <<>>, FireReturns
  PROVE  BusInv'
<1> DEFINE e == Last(stack).event
           n == Len(stack)
<1>1. /\ stack' = Front(stack) /\ UNCHANGED <<made, kept>>
      /\ \/ /\ FireDepth(e) = 1
            /\ subs' = [subs EXCEPT ![e] = Flushed(@, removing[e], adding[e])]
            /\ removing' = [removing EXCEPT ![e] = <<>>]
            /\ adding' = [adding EXCEPT ![e] = <<>>]
         \/ FireDepth(e) # 1 /\ UNCHANGED <<subs, removing, adding>>
  BY DEF FireReturns
<1>2. /\ stack \in Seq(Frames) /\ made \in Nat /\ n \in Nat \ {0} /\ DOMAIN stack = 1..n
      /\ e \in Events /\ e = stack[n].event
  <2>1. /\ stack \in Seq(Frames) /\ made \in Nat
    BY DEF BusInv, StackOk, EventsOk
  <2>2. n \in Nat \ {0} /\ DOMAIN stack = 1..n /\ n \in DOMAIN stack /\ Last(stack) = stack[n]
    BY <2>1 DEF Last
  <2>3. stack[n] \in Frames
    BY <2>1, <2>2
  <2>4. QED
    BY <2>1, <2>2, <2>3 DEF Frames
<1> HIDE DEF e, n
<1>3. /\ stack' \in Seq(Frames) /\ DOMAIN stack' = 1..(n - 1)
      /\ \A i \in 1..(n - 1) : stack'[i] = stack[i]
  BY <1>1, <1>2 DEF Front, n
<1>4. CASE FireDepth(e) = 1
  <2>1. /\ subs' = [subs EXCEPT ![e] = Flushed(@, removing[e], adding[e])]
        /\ removing' = [removing EXCEPT ![e] = <<>>]
        /\ adding' = [adding EXCEPT ![e] = <<>>]
    BY <1>1, <1>4
  <2>2. Fires(stack, e) = {n}
    BY <1>2, <1>4, Outermost DEF FireDepth, e, n
  <2>3. EventOk(made, Flushed(subs[e], removing[e], adding[e]), <<>>, <<>>, kept[e])
    BY <1>2, OkFlushed DEF BusInv, EventsOk
  <2>4. EventsOk'
    <3>1. ASSUME NEW o \in Events
          PROVE  EventOk(made', subs'[o], adding'[o], removing'[o], kept'[o])
      <4>1. CASE o = e
        BY <1>1, <2>1, <2>3, <4>1 DEF BusInv, EventsOk
      <4>2. CASE o # e
        BY <1>1, <2>1, <4>2 DEF BusInv, EventsOk
      <4>3. QED
        BY <4>1, <4>2
    <3>2. QED
      BY <1>1, <2>1, <3>1 DEF BusInv, EventsOk
  <2>5. ASSUME NEW i \in 1..(n - 1)
        PROVE  i \in 1..n /\ stack[i].event \in Events \ {e}
    <3>1. i \in 1..n /\ i # n
      BY <1>2
    <3>2. i \notin Fires(stack, e)
      BY <2>2, <3>1
    <3>3. stack[i] \in Frames
      BY <1>2, <3>1
    <3>4. QED
      BY <1>2, <3>1, <3>2, <3>3 DEF Fires, Frames
  <2>6. StackOk'
    <3>1. ASSUME NEW i \in 1..(n - 1) PROVE FrameOk(stack[i], subs'[stack[i].event])
      <4>1. subs'[stack[i].event] = subs[stack[i].event]
        BY <2>1, <2>5 DEF BusInv, EventsOk
      <4>2. QED
        BY <1>2, <2>5, <4>1 DEF BusInv, StackOk
    <3>2. QED
      BY <1>3, <3>1 DEF StackOk
  <2>7. PutOffInFires'
    <3>1. ASSUME NEW o \in Events, o # e, Fires(stack', o) = {}
          PROVE  adding'[o] = <<>> /\ removing'[o] = <<>>
      <4>1. Fires(stack, o) = {}
        BY <1>2, <1>3, <3>1 DEF Fires
      <4>2. QED
        BY <2>1, <3>1, <4>1 DEF BusInv, PutOffInFires, EventsOk
    <3>2. QED
      BY <2>1, <3>1 DEF PutOffInFires, BusInv, EventsOk
  <2>8. QED
    BY <2>4, <2>6, <2>7 DEF BusInv
<1>5. CASE FireDepth(e) # 1
  <2>1. UNCHANGED <<subs, removing, adding>>
    BY <1>1, <1>5
  <2>2. EventsOk'
    BY <1>1, <2>1 DEF BusInv, EventsOk
  <2>3. StackOk'
    BY <1>2, <1>3, <2>1 DEF BusInv, StackOk
  <2>4. Fires(stack', e) # {}
    <3> DEFINE R == Fires(stack, e)
    <3>1. n \in R
      BY <1>2 DEF Fires
    <3>2. Cardinality(R) # 1
      BY <1>5 DEF FireDepth
    <3>3. R # {n}
      BY <3>2, FS_Singleton
    <3>4. PICK i \in R : i # n
      BY <3>1, <3>3
    <3>5. i \in 1..(n - 1) /\ stack[i].event = e
      BY <1>2, <3>4 DEF Fires
    <3>6. QED
      BY <1>3, <3>5 DEF Fires
  <2>5. PutOffInFires'
    <3>1. ASSUME NEW o \in Events, o # e, Fires(stack', o) = {}
          PROVE  Fires(stack, o) = {}
      BY <1>2, <1>3, <3>1 DEF Fires
    <3>2. QED
      BY <2>1, <2>4, <3>1 DEF BusInv, PutOffInFires
  <2>6. QED
    BY <2>2, <2>3, <2>5 DEF BusInv
<1>6. QED
  BY <1>4, <1>5

(* The fire goes on to the next subscriber.                                *)
LEMMA NextFrame ==
  ASSUME NEW f \in Frames, NEW r \in Nat
  PROVE  LET g == [f EXCEPT !.at = @ + 1, !.running = r]
         IN g \in Frames /\ g.event = f.event /\ g.at = f.at + 1 /\ g.since = f.since /\ g.running = r
<1> DEFINE g == [f EXCEPT !.at = @ + 1, !.running = r]
<1>1. PICK e \in Events, a \in Nat, n \in Nat, c \in Nat :
        f = [event |-> e, at |-> a, since |-> n, running |-> c]
  BY DEF Frames
<1>2. g = [event |-> e, at |-> a + 1, since |-> n, running |-> r]
  <2>1. [f EXCEPT !.at = a + 1] = [event |-> e, at |-> a + 1, since |-> n, running |-> c]
    BY <1>1
  <2>2. f.at = a
    BY <1>1
  <2>3. g = [[event |-> e, at |-> a + 1, since |-> n, running |-> c] EXCEPT !.running = r]
    BY <2>1, <2>2
  <2>4. QED
    BY <2>3
<1> HIDE DEF g
<1>3. g \in Frames /\ g.event = e /\ g.at = a + 1 /\ g.since = n /\ g.running = r
  BY <1>2 DEF Frames
<1>4. g \in Frames /\ g.event = f.event /\ g.at = f.at + 1 /\ g.since = f.since /\ g.running = r
  BY <1>1, <1>3
<1>5. QED
  BY <1>4 DEF g

LEMMA HandlerReturnsBus ==
  ASSUME BusInv, NEW cancelled, HandlerReturns(cancelled)
  PROVE  BusInv'
<1> DEFINE top == Last(stack)
           e == top.event
           n == Len(stack)
           after == [top EXCEPT !.at = @ + 1, !.running = subs[e][top.at + 1].number]
<1>1. stack # <<>>
  BY DEF HandlerReturns
<1>2. CASE FireReturns
  BY <1>1, <1>2, FireReturnsBus
<1>3. CASE ~ FireReturns
  <2>1. /\ top.at # Len(subs[e])
        /\ stack' = [stack EXCEPT ![Len(stack)] = after]
        /\ UNCHANGED <<known, subs, adding, removing, made, kept>>
    BY <1>3 DEF HandlerReturns
  <2>2. /\ stack \in Seq(Frames) /\ n \in Nat \ {0} /\ DOMAIN stack = 1..n /\ top = stack[n]
        /\ top \in Frames /\ n \in DOMAIN stack
    BY <1>1 DEF BusInv, StackOk, Last
  <2>3. /\ FrameOk(top, subs[e]) /\ e \in Events /\ made \in Nat
        /\ subs[e] \in Seq(Subs(made))
    BY <2>2 DEF BusInv, StackOk, Frames, EventsOk, EventOk, SubLists
  <2>4. /\ top.at + 1 \in DOMAIN subs[e] /\ top.at \in Nat
        /\ subs[e][top.at + 1].number \in Nat
    <3>1. /\ Len(subs[e]) \in Nat /\ DOMAIN subs[e] = 1..Len(subs[e]) /\ top.at \in 1..Len(subs[e])
      BY <2>3 DEF FrameOk
    <3>2. top.at + 1 \in 1..Len(subs[e])
      BY <2>1, <3>1
    <3>3. subs[e][top.at + 1] \in Subs(made)
      BY <2>3, <3>1, <3>2
    <3>4. QED
      BY <2>3, <3>1, <3>2, <3>3, Numbers
  <2>5. /\ after \in Frames /\ after.event = e /\ after.at = top.at + 1 /\ after.since = top.since
        /\ after.running = subs[e][top.at + 1].number
    BY <2>2, <2>4, NextFrame
  <2>6. stack' = [stack EXCEPT ![n] = after]
    BY <2>1
  <2>7. FrameOk(after, subs[e])
    BY <2>3, <2>4, <2>5 DEF FrameOk
  <2> HIDE DEF after, n, e
  <2>8. /\ stack' \in Seq(Frames) /\ DOMAIN stack' = 1..n /\ stack'[n] = after
        /\ \A i \in 1..n : i # n => stack'[i] = stack[i]
    BY <2>2, <2>5, <2>6
  <2>9. StackOk'
    <3>1. ASSUME NEW i \in 1..n PROVE FrameOk(stack'[i], subs[stack'[i].event])
      <4>1. CASE i = n
        BY <2>5, <2>7, <2>8, <4>1
      <4>2. CASE i # n
        BY <2>2, <2>8, <4>2 DEF BusInv, StackOk
      <4>3. QED
        BY <4>1, <4>2
    <3>2. QED
      BY <2>1, <2>8, <3>1 DEF StackOk
  <2>10. \A o : Fires(stack', o) = Fires(stack, o)
    BY <2>2, <2>5, <2>8 DEF Fires, e
  <2>11. EventsOk' /\ PutOffInFires'
    BY <2>1, <2>10 DEF BusInv, EventsOk, PutOffInFires
  <2>12. QED
    BY <2>9, <2>11 DEF BusInv
<1>4. QED
  BY <1>2, <1>3

LEMMA JoinedMembers ==
  ASSUME NEW A, NEW s \in Seq(A), NEW t \in Seq(A)
  PROVE  ToSet(s \o t) = ToSet(s) \cup ToSet(t)
<1> DEFINE both == s \o t
<1>1. Joins(A, s, t, both)
  BY Joined
<1> HIDE DEF both
<1>2. /\ DOMAIN s = 1..Len(s) /\ DOMAIN t = 1..Len(t) /\ DOMAIN both = 1..(Len(s) + Len(t))
      /\ Len(s) \in Nat /\ Len(t) \in Nat
  BY <1>1 DEF Joins
<1>3. \A i \in DOMAIN both : both[i] \in ToSet(s) \cup ToSet(t)
  <2>1. SUFFICES ASSUME NEW i \in 1..(Len(s) + Len(t)) PROVE both[i] \in ToSet(s) \cup ToSet(t)
    BY <1>2
  <2>2. CASE i <= Len(s)
    <3>1. both[i] = s[i] /\ i \in 1..Len(s)
      BY <1>1, <1>2, <2>2 DEF Joins
    <3>2. QED
      BY <1>2, <3>1 DEF ToSet
  <2>3. CASE ~ (i <= Len(s))
    <3>1. both[i] = t[i - Len(s)] /\ i - Len(s) \in 1..Len(t)
      BY <1>1, <1>2, <2>3 DEF Joins
    <3>2. QED
      BY <1>2, <3>1 DEF ToSet
  <2>4. QED
    BY <2>2, <2>3
<1>4. \A i \in 1..Len(s) : i \in DOMAIN both /\ both[i] = s[i]
  BY <1>1, <1>2 DEF Joins
<1>5. \A i \in 1..Len(t) : \E j \in DOMAIN both : both[j] = t[i]
  <2>1. SUFFICES ASSUME NEW i \in 1..Len(t) PROVE \E j \in DOMAIN both : both[j] = t[i]
    OBVIOUS
  <2>2. /\ Len(s) + i \in 1..(Len(s) + Len(t)) /\ ~ (Len(s) + i <= Len(s))
        /\ (Len(s) + i) - Len(s) = i
    BY <1>2
  <2>3. both[Len(s) + i] = t[i]
    BY <1>1, <2>2 DEF Joins
  <2>4. QED
    BY <1>2, <2>2, <2>3
<1>6. ToSet(both) = ToSet(s) \cup ToSet(t)
  <2>1. ToSet(both) \subseteq ToSet(s) \cup ToSet(t)
    BY <1>3 DEF ToSet
  <2>2. ToSet(s) \subseteq ToSet(both)
    BY <1>2, <1>4 DEF ToSet
  <2>3. ToSet(t) \subseteq ToSet(both)
    BY <1>2, <1>5 DEF ToSet
  <2>4. QED
    BY <2>1, <2>2, <2>3
<1>7. QED
  BY <1>6 DEF both

LEMMA BusKeepsItsWord ==
  ASSUME BusInv
  PROVE  SubscriptionsAreKept /\ FireSeesItsList
<1>1. DispatchOrder
  BY DEF BusInv, EventsOk, EventOk, SubLists, Ordered, Before, DispatchOrder
<1>2. AcceptedIsKept
  <2>1. SUFFICES ASSUME NEW e \in Events, NEW n \in kept[e]
                 PROVE  n \in {s.number : s \in ToSet(subs[e] \o adding[e])}
    BY DEF AcceptedIsKept
  <2>2. PICK s \in ToSet(subs[e]) \cup ToSet(adding[e]) : s.number = n
    BY DEF BusInv, EventsOk, EventOk
  <2>3. subs[e] \in Seq(Subs(made)) /\ adding[e] \in Seq(Subs(made))
    BY DEF BusInv, EventsOk, EventOk, SubLists
  <2>4. ToSet(subs[e] \o adding[e]) = ToSet(subs[e]) \cup ToSet(adding[e])
    BY <2>3, JoinedMembers
  <2>5. QED
    BY <2>2, <2>4
<1>3. FireSeesItsList
  <2>1. SUFFICES ASSUME NEW i \in DOMAIN stack
                 PROVE  /\ stack[i].at \in DOMAIN subs[stack[i].event]
                        /\ subs[stack[i].event][stack[i].at].number = stack[i].running
                        /\ stack[i].running <= stack[i].since
    BY DEF FireSeesItsList, RunningIsListed, NotInItsOwnCycle
  <2>2. FrameOk(stack[i], subs[stack[i].event])
    BY DEF BusInv, StackOk
  <2>3. subs[stack[i].event][stack[i].at] \in ToSet(subs[stack[i].event])
    BY <2>2 DEF FrameOk, ToSet
  <2>4. QED
    BY <2>2, <2>3 DEF FrameOk
<1>4. QED
  BY <1>1, <1>2, <1>3 DEF SubscriptionsAreKept

LEMMA LastInserted ==
  ASSUME NEW m \in Nat, NEW list \in SubLists(m), NEW sub \in Subs(m + 1), sub.number = m + 1
  PROVE  ToSet(InsertSub(list, sub)) = ToSet(list) \cup {sub}
<1>1. list \in Seq(Subs(m + 1)) /\ Ordered(list) /\ ToSet(list) \subseteq Subs(m)
  BY SubsGrow, Members DEF SubLists
<1>2. \A s \in ToSet(list) : s.number < sub.number
  BY <1>1 DEF Subs
<1>3. QED
  BY <1>1, <1>2, InsertSubSet

(* Whom the bus may call for e, at once or after the fires that run.       *)
OnList(e) == ToSet(subs[e]) \cup ToSet(adding[e])

LEMMA Listing ==
  ASSUME BusInv, NEW e \in Events
  PROVE  /\ made \in Nat /\ EventOk(made, subs[e], adding[e], removing[e], kept[e])
         /\ subs[e] \in SubLists(made) /\ subs[e] \in Seq(Subs(made))
         /\ adding[e] \in Seq(Subs(made)) /\ Ordered(subs[e])
         /\ DOMAIN subs = Events /\ DOMAIN adding = Events
  BY DEF BusInv, EventsOk, EventOk, SubLists

(* What the calls of a module add to the lists is its own.                 *)
LEMMA OnListBySubscribe ==
  ASSUME BusInv, NEW e \in Events, NEW fn \in Handlers, NEW p \in Priorities,
         Subscribe(e, fn, p), NEW o \in Events, NEW s \in OnList(o)'
  PROVE  s \in OnList(o) \/ s.fn = fn
<1> DEFINE sub == [fn |-> fn, priority |-> p, number |-> made + 1]
<1>1. \/ adding' = [adding EXCEPT ![e] = Append(@, sub)] /\ subs' = subs
      \/ subs' = [subs EXCEPT ![e] = InsertSub(@, sub)] /\ adding' = adding
  BY DEF Subscribe
<1>2. sub \in Subs(made + 1) /\ sub.number = made + 1 /\ sub.fn = fn /\ made \in Nat
  <2>1. made + 1 \in 1..(made + 1) /\ made \in Nat
    BY Listing
  <2>2. QED
    BY <2>1 DEF Subs
<1> HIDE DEF sub
<1>3. CASE o # e
  <2>1. subs'[o] = subs[o] /\ adding'[o] = adding[o]
    BY <1>1, <1>3, Listing
  <2>2. QED
    BY <2>1 DEF OnList
<1>4. CASE o = e
  <2>1. CASE adding' = [adding EXCEPT ![e] = Append(@, sub)] /\ subs' = subs
    <3>1. ToSet(Append(adding[e], sub)) = ToSet(adding[e]) \cup {sub}
      <4>1. adding[e] \in Seq(Subs(made + 1))
        BY <1>2, Listing, SubsGrow
      <4>2. QED
        BY <1>2, <4>1, OneMoreMember
    <3>2. adding'[e] = Append(adding[e], sub) /\ subs'[e] = subs[e]
      BY <2>1, Listing
    <3>3. QED
      BY <1>2, <1>4, <3>1, <3>2 DEF OnList
  <2>2. CASE subs' = [subs EXCEPT ![e] = InsertSub(@, sub)] /\ adding' = adding
    <3>1. ToSet(InsertSub(subs[e], sub)) = ToSet(subs[e]) \cup {sub}
      BY <1>2, Listing, LastInserted
    <3>2. subs'[e] = InsertSub(subs[e], sub) /\ adding'[e] = adding[e]
      BY <2>2, Listing
    <3>3. QED
      BY <1>2, <1>4, <3>1, <3>2 DEF OnList
  <2>3. QED
    BY <1>1, <2>1, <2>2
<1>5. QED
  BY <1>3, <1>4

LEMMA OnListByUnsubscribe ==
  ASSUME BusInv, NEW e \in Events, NEW fn \in Handlers, Unsubscribe(e, fn),
         NEW o \in Events, NEW s \in OnList(o)'
  PROVE  s \in OnList(o)
<1>1. adding' = adding /\ (subs' = subs \/ subs' = [subs EXCEPT ![e] = RemoveSub(@, fn)])
  BY DEF Unsubscribe
<1>2. ToSet(RemoveSub(subs[e], fn)) \subseteq ToSet(subs[e])
  BY Listing, RemoveSubSet
<1>3. subs'[o] = subs[o] \/ (o = e /\ subs'[o] = RemoveSub(subs[e], fn))
  BY <1>1, Listing
<1>4. QED
  BY <1>1, <1>2, <1>3 DEF OnList

LEMMA OnListByReturn ==
  ASSUME BusInv, NEW cancelled, HandlerReturns(cancelled), NEW o \in Events, NEW s \in OnList(o)'
  PROVE  s \in OnList(o)
<1> DEFINE e == Last(stack).event
<1>1. \/ UNCHANGED <<subs, adding>>
      \/ /\ subs' = [subs EXCEPT ![e] = Flushed(@, removing[e], adding[e])]
         /\ adding' = [adding EXCEPT ![e] = <<>>]
  BY DEF HandlerReturns, FireReturns
<1> HIDE DEF e
<1>2. CASE UNCHANGED <<subs, adding>> \/ o # e
  <2>1. subs'[o] = subs[o] /\ adding'[o] = adding[o]
    BY <1>1, <1>2, Listing
  <2>2. QED
    BY <2>1 DEF OnList
<1>3. CASE o = e /\ ~ UNCHANGED <<subs, adding>>
  <2>1. subs'[o] = Flushed(subs[o], removing[o], adding[o]) /\ adding'[o] = <<>>
    BY <1>1, <1>3, Listing
  <2>2. /\ removing[o] \in Seq(Handlers) /\ Rising(adding[o]) /\ Follow(adding[o], subs[o])
        /\ Len(removing[o]) \in Nat /\ DOMAIN removing[o] = 1..Len(removing[o])
    BY Listing DEF EventOk
  <2>3. ToSet(Flushed(subs[o], removing[o], adding[o]))
          = ToSet(Removed(subs[o], removing[o])) \cup ToSet(adding[o])
    BY <2>2, Listing, FlushedFacts
  <2>4. ToSet(Removed(subs[o], removing[o])) \subseteq ToSet(subs[o])
    BY <2>2, Listing, RemovedFacts
  <2>5. QED
    BY <2>1, <2>3, <2>4, NoMembers DEF OnList
<1>4. QED
  BY <1>2, <1>3

LEMMA ModuleCodeBus ==
  ASSUME BusInv, ModuleCode
  PROVE  BusInv'
  BY SubscribeBus, UnsubscribeBus, FireBus, HandlerReturnsBus DEF ModuleCode

LEMMA BusStep ==
  ASSUME BusInv, [Next]_vars
  PROVE  BusInv'
<1>1. CASE EngineStep
  <2>1. CASE Stopped
    BY <2>1, ResetBus DEF Stopped
  <2>2. CASE Loader /\ ~ Stopped
    BY <2>2, BusKept
    DEF Loader, SkipLua, RejectBroken, CallLoad, LoadSucceeds, LoadFails, AllLoaded, Stop,
        CallShutdown, ShutdownReturns, CloseWithoutShutdown, Close
  <2>3. CASE ModuleCode
    BY <2>3, ModuleCodeBus
  <2>4. QED
    BY <1>1, <2>1, <2>2, <2>3 DEF EngineStep
<1>2. CASE UNCHANGED vars \/ StartUp \/ Shutdown \/ MastersAct
  BY <1>2, BusKept
  DEF vars, engineVars, MastersAct, StartUp, LoadData, NetInitFails, NetInit, BindFails,
      OpenSockets, ListMasters, ProbeMasters, ProbeEnds, Shutdown, ModulesFail, FinalFlush,
      TellPlayers, LeaveMasters, CloseAll
<1>3. CASE MainLoop \/ ModuleSends \/ ModuleScores
  BY <1>3, BusKept
  DEF engineVars, MainLoop, Connect, GameSends, Tick, EntersLobby, Disconnect, SecondTick,
      Answers, ModuleSends, ModuleScores
<1>4. QED
  BY <1>1, <1>2, <1>3 DEF Next, ModuleSteps

LEMMA BusHolds == Spec => []BusInv
<1>1. Init => BusInv
  BY BusStart DEF Init, LoaderInit
<1>2. QED
  BY <1>1, BusStep, PTL DEF Spec

(* Whatever modules subscribe and unsubscribe inside nested fires, the     *)
(* lists stay ordered and no subscription that was accepted is lost to a   *)
(* removal or an addition that a fire put off.                             *)
THEOREM SubscriptionsSurvive == Spec => []SubscriptionsAreKept
<1>1. BusInv => SubscriptionsAreKept
  BY BusKeepsItsWord
<1>2. QED
  BY <1>1, BusHolds, PTL

(* However fires nest, each one still finds the subscriber it is calling   *)
(* at its place, and calls none that subscribed since it began.            *)
THEOREM FiresSeeTheirLists == Spec => []FireSeesItsList
<1>1. BusInv => FireSeesItsList
  BY BusKeepsItsWord
<1>2. QED
  BY <1>1, BusHolds, PTL

----------------------------------------------------------------------------
(* Whose code runs.                                                        *)

(* Every handler that the bus may call is code of an open library, or of   *)
(* one that was closed with handlers on the lists.                         *)
MayBeCalled(m) == m \in opened \cup leftBehind
OwnersAreKnown == \A e \in Events : \A s \in OnList(e) : MayBeCalled(OwnerOf[s.fn])

(* Modules are loaded once, in the order of their entries.                 *)
LoadedInOrder ==
  /\ \A i, j \in DOMAIN loaded : i < j => loaded[i] < loaded[j]
  /\ \A i \in DOMAIN loaded : loaded[i] \in opened /\ loaded[i] < next

(* The engine calls one open module at a time; events are only fired in    *)
(* such a call.                                                            *)
CallIsOpen ==
  /\ calling # Engine => calling \in opened
  /\ stage = "loading" /\ calling # Engine => calling = next
  /\ stack # <<>> => calling # Engine

CodeInv == OwnersAreKnown /\ LoadedInOrder /\ CallIsOpen

LEMMA LoadedFacts ==
  ASSUME HeldInv, CodeInv
  PROVE  /\ loaded \in Seq(Nat) /\ next \in Nat \ {0} /\ Len(loaded) \in Nat
         /\ DOMAIN loaded = 1..Len(loaded)
         /\ \A i \in 1..Len(loaded) : loaded[i] \in opened /\ loaded[i] \in Nat /\ loaded[i] < next
<1>1. loaded \in Seq(Nat) /\ next \in Nat \ {0}
  BY DEF HeldInv, OpenIsLoaded
<1>2. /\ DOMAIN loaded = 1..Len(loaded) /\ Len(loaded) \in Nat
      /\ \A i \in 1..Len(loaded) : loaded[i] \in Nat
  BY <1>1
<1>3. QED
  BY <1>1, <1>2 DEF CodeInv, LoadedInOrder

(* The loader goes on, or stops, and calls nobody.                         *)
LEMMA NobodyIsCalled ==
  ASSUME HeldInv, CodeInv, UNCHANGED <<busVars, loaded, opened, calling, leftBehind>>,
         calling = Engine, next' = next \/ next' = next + 1
  PROVE  CodeInv'
<1>1. \A i \in DOMAIN loaded : loaded[i] < next'
  BY LoadedFacts
<1>2. LoadedInOrder'
  BY <1>1 DEF CodeInv, LoadedInOrder
<1>3. OwnersAreKnown' /\ CallIsOpen'
  BY DEF CodeInv, OwnersAreKnown, MayBeCalled, OnList, CallIsOpen, busVars
<1>4. QED
  BY <1>2, <1>3 DEF CodeInv

LEMMA CallLoadCode ==
  ASSUME HeldInv, CodeInv, CallLoad
  PROVE  CodeInv'
  BY DEF CallLoad, CodeInv, OwnersAreKnown, MayBeCalled, OnList, LoadedInOrder, CallIsOpen, busVars

LEMMA LoadSucceedsCode ==
  ASSUME HeldInv, CodeInv, LoadSucceeds
  PROVE  CodeInv'
<1> DEFINE n == Len(loaded)
           longer == Append(loaded, next)
<1>1. /\ loaded' = longer /\ next' = next + 1 /\ calling' = Engine /\ stack' = <<>>
      /\ UNCHANGED <<busVars, opened, leftBehind>> /\ next \in opened
  BY DEF LoadSucceeds, busVars, CodeInv, CallIsOpen
<1>2. /\ n \in Nat /\ next \in Nat
      /\ \A i \in 1..n : loaded[i] \in opened /\ loaded[i] \in Nat /\ loaded[i] < next
      /\ \A i, j \in 1..n : i < j => loaded[i] < loaded[j]
  BY LoadedFacts DEF CodeInv, LoadedInOrder
<1>3. /\ Len(longer) = n + 1 /\ longer \in Seq(Nat) /\ longer[n + 1] = next
      /\ \A i \in 1..n : longer[i] = loaded[i]
  BY LoadedFacts
<1>4. DOMAIN longer = 1..(n + 1)
  BY <1>2, <1>3
<1> HIDE DEF n, longer
<1>5. ASSUME NEW i \in 1..(n + 1)
      PROVE  longer[i] \in opened /\ longer[i] < next + 1
             /\ (i \in 1..n => longer[i] < next /\ longer[i] = loaded[i])
             /\ (i \notin 1..n => longer[i] = next /\ i = n + 1)
  BY <1>1, <1>2, <1>3
<1>6. \A i, j \in 1..(n + 1) : i < j => longer[i] < longer[j]
  <2>1. SUFFICES ASSUME NEW i \in 1..(n + 1), NEW j \in 1..(n + 1), i < j
                 PROVE  longer[i] < longer[j]
    OBVIOUS
  <2>2. i \in 1..n
    BY <1>2, <2>1
  <2>3. QED
    BY <1>2, <1>5, <2>1, <2>2
<1>7. LoadedInOrder'
  BY <1>1, <1>4, <1>5, <1>6 DEF LoadedInOrder
<1>8. OwnersAreKnown' /\ CallIsOpen'
  BY <1>1 DEF CodeInv, OwnersAreKnown, MayBeCalled, OnList, CallIsOpen, busVars
<1>9. QED
  BY <1>7, <1>8 DEF CodeInv

(* A library that is closed is off the lists, or one of those left behind. *)
LEMMA CloseLibraryCode ==
  ASSUME BusInv, CodeInv, UNCHANGED busVars, NEW m, CloseLibrary(m)
  PROVE  OwnersAreKnown'
<1>1. opened' = opened \ {m} /\ leftBehind \subseteq leftBehind'
      /\ (~ Unsubscribed(m) => m \in leftBehind')
  BY DEF CloseLibrary
<1>2. ASSUME NEW e \in Events, NEW s \in OnList(e), OwnerOf[s.fn] = m
      PROVE  ~ Unsubscribed(m)
  <2>1. ToSet(subs[e] \o adding[e]) = OnList(e)
    BY Listing, JoinedMembers DEF OnList
  <2>2. QED
    BY <1>2, <2>1 DEF Unsubscribed
<1>3. ASSUME NEW e \in Events, NEW s \in OnList(e)
      PROVE  MayBeCalled(OwnerOf[s.fn])'
  <2>1. OwnerOf[s.fn] \in opened \cup leftBehind
    BY DEF CodeInv, OwnersAreKnown, MayBeCalled
  <2>2. QED
    BY <1>1, <1>2, <2>1 DEF MayBeCalled
<1>4. QED
  BY <1>3 DEF OwnersAreKnown, OnList, busVars

LEMMA LoadFailsCode ==
  ASSUME BusInv, HeldInv, CodeInv, LoadFails
  PROVE  CodeInv'
<1>1. /\ CloseLibrary(next) /\ UNCHANGED <<busVars, next, loaded>> /\ calling' = Engine
      /\ calling = next /\ stack = <<>> /\ opened' = opened \ {next}
  BY DEF LoadFails, CodeInv, CallIsOpen, CloseLibrary
<1>2. OwnersAreKnown'
  BY <1>1, CloseLibraryCode
<1>3. \A i \in 1..Len(loaded) : loaded[i] # next
  BY LoadedFacts
<1>4. LoadedInOrder'
  BY <1>1, <1>3, LoadedFacts DEF CodeInv, LoadedInOrder
<1>5. CallIsOpen'
  BY <1>1 DEF CodeInv, CallIsOpen, busVars
<1>6. QED
  BY <1>2, <1>4, <1>5 DEF CodeInv

(* The last loaded module is closed: the others stay open.                 *)
LEMMA CloseCode ==
  ASSUME BusInv, HeldInv, CodeInv, loaded # <<>>, Close(Last(loaded)), stack = <<>>
  PROVE  CodeInv'
<1> DEFINE n == Len(loaded)
           left == Front(loaded)
<1>1. /\ opened' = opened \ {Last(loaded)} /\ loaded' = left /\ calling' = Engine
      /\ UNCHANGED <<busVars, stage, next>> /\ CloseLibrary(Last(loaded))
  BY DEF Close, CloseLibrary
<1>2. OwnersAreKnown'
  BY <1>1, CloseLibraryCode
<1>3. /\ n \in Nat \ {0} /\ Last(loaded) = loaded[n] /\ n \in 1..n
      /\ \A i \in 1..n : loaded[i] \in opened /\ loaded[i] \in Nat /\ loaded[i] < next
      /\ \A i, j \in 1..n : i < j => loaded[i] < loaded[j]
  BY LoadedFacts DEF CodeInv, LoadedInOrder, Last
<1>4. DOMAIN left = 1..(n - 1) /\ \A i \in 1..(n - 1) : left[i] = loaded[i]
  BY <1>3, LoadedFacts DEF Front
<1> HIDE DEF n, left
<1>5. \A i \in 1..(n - 1) : i \in 1..n /\ i < n /\ left[i] = loaded[i] /\ loaded[i] # loaded[n]
  BY <1>3, <1>4
<1>6. LoadedInOrder'
  BY <1>1, <1>3, <1>4, <1>5 DEF LoadedInOrder
<1>7. CallIsOpen'
  BY <1>1 DEF CodeInv, CallIsOpen, busVars
<1>8. QED
  BY <1>2, <1>6, <1>7 DEF CodeInv

LEMMA LoaderCode ==
  ASSUME BusInv, HeldInv, CodeInv, Loader
  PROVE  CodeInv'
<1>1. CASE SkipLua \/ RejectBroken \/ AllLoaded \/ Stop
  <2>1. calling = Engine
    BY <1>1 DEF SkipLua, RejectBroken, AllLoaded, Stop, HeldInv, OpenIsLoaded
  <2>2. QED
    BY <1>1, <2>1, NobodyIsCalled DEF SkipLua, RejectBroken, AllLoaded, Stop
<1>2. CASE CallShutdown
  <2>1. /\ calling' = Last(loaded) /\ UNCHANGED <<busVars, stage, next, loaded, opened, leftBehind>>
        /\ stage = "stopping" /\ loaded # <<>>
    BY <1>2 DEF CallShutdown
  <2>2. Last(loaded) \in opened
    BY <2>1, LoadedFacts DEF Last
  <2>3. calling = Engine
    BY <1>2 DEF CallShutdown
  <2>4. QED
    BY <2>1, <2>2, <2>3
    DEF CodeInv, OwnersAreKnown, MayBeCalled, OnList, LoadedInOrder, CallIsOpen, busVars
<1>3. CASE ShutdownReturns
  <2>1. /\ loaded # <<>> /\ Close(Last(loaded)) /\ stack = <<>>
    BY <1>3 DEF ShutdownReturns, HeldInv, OpenIsLoaded
  <2>2. QED
    BY <2>1, CloseCode
<1>4. CASE CloseWithoutShutdown
  <2>1. /\ loaded # <<>> /\ Close(Last(loaded)) /\ calling = Engine
    BY <1>4 DEF CloseWithoutShutdown
  <2>2. stack = <<>>
    BY <2>1 DEF CodeInv, CallIsOpen
  <2>3. QED
    BY <2>1, <2>2, CloseCode
<1>5. CASE Stopped
  <2>1. /\ \A e \in Events : subs'[e] = <<>> /\ adding'[e] = <<>>
        /\ stack' = stack /\ stack = <<>> /\ UNCHANGED <<next, loaded, opened, calling, leftBehind>>
        /\ calling = Engine
    BY <1>5 DEF Stopped, Reset
  <2>2. OwnersAreKnown'
    BY <2>1, NoMembers DEF OwnersAreKnown, MayBeCalled, OnList
  <2>3. QED
    BY <2>1, <2>2 DEF CodeInv, LoadedInOrder, CallIsOpen
<1>6. QED
  BY <1>1, <1>2, <1>3, <1>4, <1>5, CallLoadCode, LoadSucceedsCode, LoadFailsCode DEF Loader

(* The innermost handler is on its list.                                   *)
LEMMA RunningIsKnown ==
  ASSUME BusInv, CodeInv
  PROVE  calling # Engine => MayBeCalled(Running)
<1>1. SUFFICES ASSUME calling # Engine PROVE MayBeCalled(Running)
  OBVIOUS
<1>2. CASE stack = <<>>
  BY <1>1, <1>2 DEF Running, CodeInv, CallIsOpen, MayBeCalled
<1>3. CASE stack # <<>>
  <2> DEFINE top == Last(stack)
  <2>1. stack \in Seq(Frames) /\ Len(stack) \in DOMAIN stack /\ top = stack[Len(stack)]
    BY <1>3 DEF BusInv, StackOk, Last
  <2>2. top.event \in Events /\ FrameOk(top, subs[top.event])
    <3>1. top \in Frames
      BY <2>1
    <3> HIDE DEF top
    <3>2. FrameOk(top, subs[top.event])
      BY <2>1 DEF BusInv, StackOk
    <3>3. QED
      BY <3>1, <3>2 DEF Frames
  <2>3. subs[top.event][top.at] \in OnList(top.event)
    BY <2>2 DEF FrameOk, OnList, ToSet
  <2>4. QED
    BY <1>3, <2>2, <2>3 DEF Running, CodeInv, OwnersAreKnown
<1>4. QED
  BY <1>2, <1>3

LEMMA ModuleCodeCode ==
  ASSUME BusInv, CodeInv, ModuleCode
  PROVE  CodeInv'
<1>1. calling # Engine /\ UNCHANGED loaderVars /\ MayBeCalled(Running)
  BY RunningIsKnown DEF ModuleCode
<1>2. ASSUME NEW o \in Events, NEW s \in OnList(o)'
      PROVE  s \in OnList(o) \/ OwnerOf[s.fn] = Running
  <2>1. CASE \E e \in Events, fn \in Handlers, p \in Priorities :
               OwnerOf[fn] = Running /\ Subscribe(e, fn, p)
    BY <2>1, OnListBySubscribe
  <2>2. CASE \E e \in Events, fn \in Handlers : Unsubscribe(e, fn)
    BY <2>2, OnListByUnsubscribe
  <2>3. CASE \E e \in Events : Fire(e)
    BY <2>3 DEF Fire, OnList
  <2>4. CASE \E cancelled \in BOOLEAN : HandlerReturns(cancelled)
    BY <2>4, OnListByReturn
  <2>5. QED
    BY <2>1, <2>2, <2>3, <2>4 DEF ModuleCode
<1>3. ASSUME NEW o \in Events, NEW s \in OnList(o)'
      PROVE  MayBeCalled(OwnerOf[s.fn])
  <2>1. CASE s \in OnList(o)
    BY <2>1 DEF CodeInv, OwnersAreKnown
  <2>2. CASE OwnerOf[s.fn] = Running
    BY <1>1, <2>2
  <2>3. QED
    BY <1>2, <2>1, <2>2
<1>4. OwnersAreKnown'
  BY <1>1, <1>3 DEF OwnersAreKnown, MayBeCalled, loaderVars
<1>5. QED
  BY <1>1, <1>4 DEF CodeInv, LoadedInOrder, CallIsOpen, loaderVars

LEMMA CodeKept ==
  ASSUME CodeInv, UNCHANGED engineVars
  PROVE  CodeInv'
  BY DEF CodeInv, OwnersAreKnown, MayBeCalled, OnList, LoadedInOrder, CallIsOpen, engineVars, busVars, loaderVars

LEMMA CodeStep ==
  ASSUME BusInv, HeldInv, CodeInv, [Next]_vars
  PROVE  CodeInv'
<1>1. CASE EngineStep
  BY <1>1, LoaderCode, ModuleCodeCode DEF EngineStep
<1>2. CASE UNCHANGED vars \/ StartUp \/ Shutdown \/ MastersAct
  BY <1>2, CodeKept
  DEF vars, MastersAct, StartUp, LoadData, NetInitFails, NetInit, BindFails,
      OpenSockets, ListMasters, ProbeMasters, ProbeEnds, Shutdown, ModulesFail, FinalFlush,
      TellPlayers, LeaveMasters, CloseAll
<1>3. CASE MainLoop \/ ModuleSends \/ ModuleScores
  BY <1>3, CodeKept
  DEF MainLoop, Connect, GameSends, Tick, EntersLobby, Disconnect, SecondTick,
      Answers, ModuleSends, ModuleScores
<1>4. QED
  BY <1>1, <1>2, <1>3 DEF Next, ModuleSteps

LEMMA CodeStart ==
  ASSUME Init
  PROVE  CodeInv
<1>1. /\ \A e \in Events : subs[e] = <<>> /\ adding[e] = <<>>
      /\ stack = <<>> /\ loaded = <<>> /\ calling = Engine
  BY DEF Init, LoaderInit, BusInit
<1>2. OwnersAreKnown /\ LoadedInOrder /\ CallIsOpen
  BY <1>1, NoMembers DEF OwnersAreKnown, OnList, LoadedInOrder, CallIsOpen
<1>3. QED
  BY <1>2 DEF CodeInv

(* For any modules, with any handlers: the loader calls no library that    *)
(* is closed, and the bus calls none that had taken its handlers back      *)
(* before it was closed, although others leave theirs on the lists, load   *)
(* functions fail half-way and shutdown callbacks fire events.             *)
THEOREM ClosedCodeWasLeftBehind == Spec => []OnlyLeftBehindRunClosed
<1>1. Init => BusInv /\ HeldInv /\ CodeInv
  BY CodeStart, HeldStart, BusStart DEF Init, LoaderInit
<1>2. BusInv /\ HeldInv /\ CodeInv /\ [Next]_vars => (BusInv /\ HeldInv /\ CodeInv)'
  BY CodeStep, BusStep, HeldStep
<1>3. BusInv /\ HeldInv /\ CodeInv => OnlyLeftBehindRunClosed
  BY RunningIsKnown DEF OnlyLeftBehindRunClosed, MayBeCalled, CodeInv, CallIsOpen
<1>4. QED
  BY <1>1, <1>2, <1>3, PTL DEF Spec

----------------------------------------------------------------------------
(* The command line: what each option makes of the settings, and what the  *)
(* whole of them makes of them.                                            *)

(* What main makes of an option for a setting that has one value.          *)
Value(key, v) ==
  CASE key = "port" -> v % Ports
    [] key = "max_players" -> Clamp(1, MaxSlots, v)
    [] key = "system" -> Clamp(1, 9, v)
    [] OTHER -> v

Fields == DOMAIN Defaults \cup {"cli_master_seen"}

(* The settings that have one value.                                       *)
Single == DOMAIN OptionOf \ {"masters"}

(* Whatever the settings and the arguments may hold.                       *)
Hosts(options) == {options[i].value : i \in DOMAIN options}

Held(options, start) ==
  Hosts(options) \cup Seq(Hosts(options)) \cup BOOLEAN \cup {start[f] : f \in Fields}
    \cup {Value(key, v) : key \in Single, v \in Hosts(options)}

Readings(options, start) ==
  {s \in [Fields -> Held(options, start)] :
     /\ s.cli_master_seen \in BOOLEAN
     /\ s.cli_master_seen => s.masters \in Seq(Hosts(options))}

LEMMA FieldNames ==
  /\ DOMAIN Defaults = {"port", "max_players", "system", "time_limit", "manifest", "registry",
                        "masters", "no_master", "modules"}
  /\ DOMAIN OptionOf = {"port", "max_players", "system", "registry", "time_limit", "manifest",
                        "masters"}
  /\ Fields = DOMAIN Defaults \cup {"cli_master_seen"}
  /\ Single = {"port", "max_players", "system", "registry", "time_limit", "manifest"}
  BY DEF Defaults, OptionOf, Fields, Single

LEMMA AtMostFacts ==
  ASSUME NEW H, NEW seq \in Seq(H), NEW n \in Nat
  PROVE  /\ AtMost(n, seq) \in Seq(H)
         /\ Len(AtMost(n, seq)) = IF Len(seq) < n THEN Len(seq) ELSE n
         /\ \A i \in 1..Len(seq) : i <= n => AtMost(n, seq)[i] = seq[i]
  BY DEF AtMost

(* The masters after another one.                                          *)
More(s, host) ==
  AtMost(MaxMasters, IF s.cli_master_seen THEN Append(s.masters, host) ELSE <<host>>)

LEMMA MasterMade ==
  ASSUME NEW s, DOMAIN s = Fields, NEW host
  PROVE  /\ ReadMaster(s, host) = [f \in Fields |-> ReadMaster(s, host)[f]]
         /\ ReadMaster(s, host).cli_master_seen = TRUE
         /\ ReadMaster(s, host).masters = More(s, host)
         /\ \A f \in Fields \ {"cli_master_seen", "masters"} : ReadMaster(s, host)[f] = s[f]
<1> DEFINE m == More(s, host)
<1>1. ReadMaster(s, host) = [s EXCEPT !.cli_master_seen = TRUE, !.masters = m]
  BY Zenon DEF ReadMaster, More
<1>2. "cli_master_seen" \in Fields /\ "masters" \in Fields
  BY FieldNames
<1> HIDE DEF m
<1>3. QED
  BY <1>1, <1>2 DEF m

(* What each option changes.                                               *)
LEMMA OptionMade ==
  ASSUME NEW s, NEW o
  PROVE  /\ o.name = "--master" => ReadOption(s, o) = ReadMaster(s, o.value)
         /\ o.name = "--no-master" => ReadOption(s, o) = [s EXCEPT !.no_master = TRUE]
         /\ o.name = "-p" => ReadOption(s, o) = [s EXCEPT !.port = o.value % Ports]
         /\ o.name = "--max" =>
              ReadOption(s, o) = [s EXCEPT !.max_players = Clamp(1, MaxSlots, o.value)]
         /\ o.name = "--system" => ReadOption(s, o) = [s EXCEPT !.system = Clamp(1, 9, o.value)]
         /\ o.name = "--time-limit" => ReadOption(s, o) = [s EXCEPT !.time_limit = o.value]
         /\ o.name = "--data" => ReadOption(s, o) = [s EXCEPT !.registry = o.value]
         /\ o.name = "--manifest" => ReadOption(s, o) = [s EXCEPT !.manifest = o.value]
         /\ o.name \notin {"--master", "--no-master", "-p", "--max", "--system", "--time-limit",
                          "--data", "--manifest"} => ReadOption(s, o) = s
  BY DEF ReadOption

(* A setting that has one value changes at the options that name it, and   *)
(* at no other.                                                            *)
LEMMA OptionRead ==
  ASSUME NEW s, DOMAIN s = Fields, NEW o, NEW key \in Single
  PROVE  ReadOption(s, o)[key] = IF o.name = OptionOf[key] THEN Value(key, o.value) ELSE s[key]
<1> DEFINE r == ReadOption(s, o)
<1>1. key \in {"port", "max_players", "system", "registry", "time_limit", "manifest"}
  BY FieldNames
<1>2. {"port", "max_players", "system", "registry", "time_limit", "manifest"} \subseteq DOMAIN s
  BY FieldNames
<1>3. CASE o.name = "--master"
  <2>1. ReadOption(s, o) = ReadMaster(s, o.value)
    BY <1>3, OptionMade
  <2>2. key \in Fields \ {"cli_master_seen", "masters"} /\ o.name # OptionOf[key]
    BY <1>1, <1>2, <1>3 DEF OptionOf
  <2>3. \A f \in Fields \ {"cli_master_seen", "masters"} : ReadMaster(s, o.value)[f] = s[f]
    BY MasterMade
  <2>4. QED
    BY <2>1, <2>2, <2>3
<1>4. CASE o.name = "--no-master"
  BY <1>1, <1>2, <1>4, OptionMade DEF OptionOf, Value
<1>5. CASE o.name = "-p"
  BY <1>1, <1>2, <1>5, OptionMade DEF OptionOf, Value
<1>6. CASE o.name = "--max"
  BY <1>1, <1>2, <1>6, OptionMade DEF OptionOf, Value
<1>7. CASE o.name = "--system"
  BY <1>1, <1>2, <1>7, OptionMade DEF OptionOf, Value
<1>8. CASE o.name = "--time-limit"
  BY <1>1, <1>2, <1>8, OptionMade DEF OptionOf, Value
<1>9. CASE o.name = "--data"
  BY <1>1, <1>2, <1>9, OptionMade DEF OptionOf, Value
<1>10. CASE o.name = "--manifest"
  BY <1>1, <1>2, <1>10, OptionMade DEF OptionOf, Value
<1>11. CASE o.name \notin {"--master", "--no-master", "-p", "--max", "--system", "--time-limit",
                          "--data", "--manifest"}
  BY <1>1, <1>2, <1>11, OptionMade DEF OptionOf
<1>12. QED
  BY <1>3, <1>4, <1>5, <1>6, <1>7, <1>8, <1>9, <1>10, <1>11

(* The masters change at --master and at no other option.                  *)
LEMMA MasterRead ==
  ASSUME NEW s, s = [f \in Fields |-> s[f]], NEW o
  PROVE  /\ ReadOption(s, o) = [f \in Fields |-> ReadOption(s, o)[f]]
         /\ o.name # "--master" => /\ ReadOption(s, o).masters = s.masters
                                   /\ ReadOption(s, o).cli_master_seen = s.cli_master_seen
         /\ o.name = "--master" =>
              /\ ReadOption(s, o).cli_master_seen = TRUE
              /\ ReadOption(s, o).masters = More(s, o.value)
<1>1. DOMAIN s = Fields /\ "masters" \in Fields /\ "cli_master_seen" \in Fields
  BY FieldNames
<1>2. CASE o.name = "--master"
  <2>1. ReadOption(s, o) = ReadMaster(s, o.value)
    BY <1>2, OptionMade
  <2> DEFINE r == ReadMaster(s, o.value)
  <2>2. DOMAIN s = Fields
    BY <1>1
  <2>3. r = [f \in Fields |-> r[f]]
    BY <2>2, MasterMade, Zenon
  <2>4. r.cli_master_seen = TRUE
    BY <2>2, MasterMade
  <2>5. r.masters = More(s, o.value)
    <3> DEFINE h == o.value
    <3> HIDE DEF h
    <3>1. ReadMaster(s, h).masters = More(s, h)
      BY <2>2, MasterMade
    <3>2. QED
      BY <3>1 DEF h
  <2> HIDE DEF r
  <2>6. ReadOption(s, o) = r
    BY <2>1 DEF r
  <2>7. QED
    BY <1>2, <2>3, <2>4, <2>5, <2>6
<1>3. CASE o.name = "--no-master"
  BY <1>1, <1>3, OptionMade
<1>4. CASE o.name = "-p"
  BY <1>1, <1>4, OptionMade
<1>5. CASE o.name = "--max"
  BY <1>1, <1>5, OptionMade
<1>6. CASE o.name = "--system"
  BY <1>1, <1>6, OptionMade
<1>7. CASE o.name = "--time-limit"
  BY <1>1, <1>7, OptionMade
<1>8. CASE o.name = "--data"
  BY <1>1, <1>8, OptionMade
<1>9. CASE o.name = "--manifest"
  BY <1>1, <1>9, OptionMade
<1>10. CASE o.name \notin {"--master", "--no-master", "-p", "--max", "--system", "--time-limit",
                          "--data", "--manifest"}
  BY <1>1, <1>10, OptionMade
<1>11. QED
  BY <1>2, <1>3, <1>4, <1>5, <1>6, <1>7, <1>8, <1>9, <1>10

LEMMA RestRead ==
  ASSUME NEW s, DOMAIN s = Fields, NEW o
  PROVE  /\ ReadOption(s, o)["modules"] = s["modules"]
         /\ o.name # "--no-master" => ReadOption(s, o)["no_master"] = s["no_master"]
         /\ o.name = "--no-master" => ReadOption(s, o)["no_master"] = TRUE
<1>1. {"no_master", "modules"} \subseteq DOMAIN s
  BY FieldNames
<1>2. {"no_master", "modules"} \subseteq Fields \ {"masters", "cli_master_seen"}
  BY FieldNames
<1>3. CASE o.name = "--master"
  <2>1. \A f \in Fields \ {"cli_master_seen", "masters"} : ReadMaster(s, o.value)[f] = s[f]
    BY MasterMade
  <2>2. ReadOption(s, o) = ReadMaster(s, o.value)
    BY <1>3, OptionMade
  <2>3. QED
    BY <1>2, <1>3, <2>1, <2>2
<1>4. CASE o.name = "--no-master"
  BY <1>1, <1>4, OptionMade
<1>5. CASE o.name = "-p"
  BY <1>1, <1>5, OptionMade
<1>6. CASE o.name = "--max"
  BY <1>1, <1>6, OptionMade
<1>7. CASE o.name = "--system"
  BY <1>1, <1>7, OptionMade
<1>8. CASE o.name = "--time-limit"
  BY <1>1, <1>8, OptionMade
<1>9. CASE o.name = "--data"
  BY <1>1, <1>9, OptionMade
<1>10. CASE o.name = "--manifest"
  BY <1>1, <1>10, OptionMade
<1>11. CASE o.name \notin {"--master", "--no-master", "-p", "--max", "--system", "--time-limit",
                          "--data", "--manifest"}
  BY <1>11, OptionMade
<1>12. QED
  BY <1>3, <1>4, <1>5, <1>6, <1>7, <1>8, <1>9, <1>10, <1>11

(* No option makes anything else of the settings than a reading.           *)
LEMMA ValuesHeld ==
  ASSUME NEW options, NEW start, start = [f \in Fields |-> start[f]],
         NEW s \in Readings(options, start), NEW i \in DOMAIN options
  PROVE  ReadOption(s, options[i]) \in Readings(options, start)
<1> DEFINE o == options[i]
           H == Hosts(options)
           W == Held(options, start)
           r == ReadOption(s, o)
<1>1. /\ s \in [Fields -> W] /\ s.cli_master_seen \in BOOLEAN
      /\ s.cli_master_seen => s.masters \in Seq(H)
  BY DEF Readings
<1>2. s = [f \in Fields |-> s[f]]
  BY <1>1
<1>3. DOMAIN s = Fields
  BY <1>1
<1>4. o.value \in H
  BY DEF Hosts
<1>5. /\ H \subseteq W /\ Seq(H) \subseteq W /\ BOOLEAN \subseteq W
      /\ \A key \in Single, v \in H : Value(key, v) \in W
  BY DEF Held
<1> HIDE DEF H, W, o
<1>6. Fields = Single \cup {"masters", "cli_master_seen", "no_master", "modules"}
  BY FieldNames
<1>7. /\ r = [f \in Fields |-> r[f]]
      /\ o.name # "--master" => r.masters = s.masters /\ r.cli_master_seen = s.cli_master_seen
      /\ o.name = "--master" => r.cli_master_seen = TRUE /\ r.masters = More(s, o.value)
  BY <1>2, MasterRead
<1>8. \A key \in Single : r[key] \in W
  <2>1. ASSUME NEW key \in Single PROVE r[key] \in W
    <3>1. r[key] = IF o.name = OptionOf[key] THEN Value(key, o.value) ELSE s[key]
      BY <1>2, OptionRead
    <3>2. key \in Fields
      BY <1>6
    <3>3. QED
      BY <1>1, <1>4, <1>5, <3>1, <3>2
  <2>2. QED
    BY <2>1
<1>9. r["no_master"] \in W /\ r["modules"] \in W
  <2>1. r["modules"] = s["modules"]
    BY <1>3, RestRead
  <2>2. CASE o.name # "--no-master"
    <3>1. r["no_master"] = s["no_master"]
      BY <1>3, <2>2, RestRead
    <3>2. QED
      BY <1>1, <1>6, <2>1, <3>1
  <2>3. CASE o.name = "--no-master"
    <3>1. r["no_master"] = TRUE
      BY <1>3, <2>3, RestRead
    <3>2. TRUE \in W
      BY <1>5
    <3>3. r["no_master"] \in W
      BY <3>1, <3>2, Zenon
    <3>4. QED
      BY <1>1, <1>6, <2>1, <3>3
  <2>4. QED
    BY <2>2, <2>3
<1>10. o.name = "--master" => r.masters \in Seq(H)
  <2>1. ASSUME o.name = "--master" PROVE r.masters \in Seq(H)
    <3> DEFINE q == IF s.cli_master_seen THEN Append(s.masters, o.value) ELSE <<o.value>>
    <3>1. q \in Seq(H)
      BY <1>1, <1>4
    <3>2. r.masters = AtMost(MaxMasters, q)
      BY <1>7, <2>1 DEF More
    <3> HIDE DEF q
    <3>3. QED
      BY <3>1, <3>2, AtMostFacts, ConfigAssumption
  <2>2. QED
    BY <2>1
<1> HIDE DEF r
<1>11. r.cli_master_seen \in BOOLEAN /\ (r.cli_master_seen => r.masters \in Seq(H))
  BY <1>1, <1>7, <1>10
<1>12. r["masters"] \in W /\ r["cli_master_seen"] \in W
  BY <1>1, <1>5, <1>6, <1>7, <1>10, <1>11
<1>13. \A f \in Fields : r[f] \in W
  BY <1>6, <1>8, <1>9, <1>12
<1>14. r \in [Fields -> W]
  BY <1>7, <1>13
<1>15. QED
  BY <1>11, <1>14 DEF Readings, H, W, r, o

(* v is the run of the arguments: the settings before and after each       *)
(* option.                                                                 *)
ReadingRun(A, start, seq, v) ==
  /\ v \in [0..Len(seq) -> A] /\ v[0] = start
  /\ \A i \in 1..Len(seq) : v[i] = ReadOption(v[i - 1], seq[i])
  /\ FoldLeft(ReadOption, start, seq) = v[Len(seq)]

(* What FoldLeft makes of the arguments is the end of a run, an option at  *)
(* a time.                                                                 *)
LEMMA ReadingsRun ==
  ASSUME NEW A, NEW start \in A, NEW seq, Len(seq) \in Nat, DOMAIN seq = 1..Len(seq),
         \A l \in A, i \in 1..Len(seq) : ReadOption(l, seq[i]) \in A
  PROVE  \E v : ReadingRun(A, start, seq, v)
<1> DEFINE n == Len(seq)
           step == [a \in (1..n) \X A |-> ReadOption(a[2], seq[a[1]])]
           Defines(iter) ==
             iter = [s \in SUBSET (1..n) |->
                       IF s = {} THEN start
                       ELSE ReadOption(iter[s \ {Greatest(s)}], seq[Greatest(s)])]
<1>1. FoldLeft(ReadOption, start, seq) = (CHOOSE iter : Defines(iter))[1..n]
  BY DEF FoldLeft, MapThenFoldSet, Max, Greatest
<1>2. step \in [(1..n) \X A -> A] /\ \A i \in 1..n, l \in A : step[<<i, l>>] = ReadOption(l, seq[i])
  OBVIOUS
<1> HIDE DEF step
<1>3. PICK h \in [SUBSET (1..n) -> A], v \in [0..n -> A] : FoldRun(n, A, start, step, h, v)
  BY <1>2, FoldRuns
<1>4. \A s \in (SUBSET (1..n)) \ {{}} : Greatest(s) \in s /\ s \ {Greatest(s)} \in SUBSET (1..n)
  BY GreatestUpto
<1>5. Defines(h)
  <2>1. ASSUME NEW s \in SUBSET (1..n)
        PROVE  h[s] = IF s = {} THEN start
                      ELSE ReadOption(h[s \ {Greatest(s)}], seq[Greatest(s)])
    <3>1. CASE s = {}
      BY <1>3, <3>1 DEF FoldRun, FoldedBy
    <3>2. CASE s # {}
      <4>1. h[s] = step[<<Greatest(s), h[s \ {Greatest(s)}]>>]
        BY <1>3, <3>2 DEF FoldRun
      <4>2. Greatest(s) \in 1..n /\ h[s \ {Greatest(s)}] \in A
        BY <1>4, <3>2
      <4>3. QED
        BY <1>2, <3>2, <4>1, <4>2
    <3>3. QED
      BY <3>1, <3>2
  <2>2. QED
    BY <2>1
<1>6. ASSUME NEW iter, Defines(iter)
      PROVE  iter[1..n] = v[n]
  <2>1. FoldedBy(n, A, start, step, iter)
    <3>1. iter[{}] = start
      BY <1>6
    <3>2. ASSUME NEW s \in (SUBSET (1..n)) \ {{}}, iter[s \ {Greatest(s)}] \in A
          PROVE  iter[s] = step[<<Greatest(s), iter[s \ {Greatest(s)}]>>]
      <4>1. Greatest(s) \in 1..n
        BY <1>4
      <4>2. iter[s] = ReadOption(iter[s \ {Greatest(s)}], seq[Greatest(s)])
        BY <1>6
      <4>3. QED
        BY <1>2, <3>2, <4>1, <4>2
    <3>3. QED
      BY <3>1, <3>2 DEF FoldedBy
  <2> HIDE DEF Defines
  <2>2. QED
    BY <1>3, <2>1, FoldsAgree
<1> HIDE DEF Defines
<1>7. Defines(CHOOSE iter : Defines(iter))
  BY <1>5
<1>8. FoldLeft(ReadOption, start, seq) = v[n]
  BY <1>1, <1>6, <1>7
<1>9. v[0] = start /\ \A i \in 1..n : v[i] = ReadOption(v[i - 1], seq[i])
  <2>1. v[0] = start /\ \A i \in 1..n : v[i] = step[<<i, v[i - 1]>>]
    BY <1>3 DEF FoldRun, Runs
  <2>2. \A i \in 1..n : v[i - 1] \in A
    OBVIOUS
  <2>3. QED
    BY <1>2, <2>1, <2>2
<1>10. QED
  BY <1>8, <1>9 DEF ReadingRun

----------------------------------------------------------------------------
(* The options up to the k-th that name a setting.                         *)
NamedBy(options, key, k) == {i \in 1..k : options[i].name = OptionOf[key]}

(* The last of them.                                                       *)
Decides(options, key, k, i) ==
  i \in NamedBy(options, key, k) /\ \A j \in NamedBy(options, key, k) : j <= i

(* The last option that names a setting decides it.                        *)
SingleRead(options, key, k, s) ==
  NamedBy(options, key, k) # {} =>
    \E i \in 1..k : Decides(options, key, k, i) /\ s[key] = Value(key, options[i].value)

(* The place of a host among those of the command line.                    *)
Place(options, i) == Cardinality(NamedBy(options, "masters", i))

(* The masters of the command line are at their places, as far as there is *)
(* room.                                                                   *)
MastersRead(options, k, s) ==
  /\ s.cli_master_seen <=> NamedBy(options, "masters", k) # {}
  /\ NamedBy(options, "masters", k) # {} =>
       /\ Len(s.masters) = IF Place(options, k) < MaxMasters THEN Place(options, k) ELSE MaxMasters
       /\ \A i \in NamedBy(options, "masters", k) :
            Place(options, i) <= MaxMasters => s.masters[Place(options, i)] = options[i].value

LEMMA NamedStep ==
  ASSUME NEW options, NEW key, NEW k \in Nat, k > 0
  PROVE  /\ options[k].name = OptionOf[key] =>
              NamedBy(options, key, k) = NamedBy(options, key, k - 1) \cup {k}
         /\ options[k].name # OptionOf[key] =>
              NamedBy(options, key, k) = NamedBy(options, key, k - 1)
         /\ \A i \in NamedBy(options, key, k - 1) : i \in 1..(k - 1)
         /\ \A i \in NamedBy(options, key, k) : i \in 1..k
         /\ k \notin NamedBy(options, key, k - 1)
<1>1. 1..k = 1..(k - 1) \cup {k} /\ k \notin 1..(k - 1)
  OBVIOUS
<1>2. QED
  BY <1>1 DEF NamedBy

(* One more option, and a setting that has one value: the last option that *)
(* names it still decides.                                                 *)
LEMMA SingleStep ==
  ASSUME NEW options, NEW k \in Nat, k > 0, NEW key \in Single, NEW s, DOMAIN s = Fields,
         SingleRead(options, key, k - 1, s)
  PROVE  SingleRead(options, key, k, ReadOption(s, options[k]))
<1> DEFINE o == options[k]
           r == ReadOption(s, o)
<1>1. r[key] = IF o.name = OptionOf[key] THEN Value(key, o.value) ELSE s[key]
  BY OptionRead
<1> HIDE DEF r
<1>2. CASE o.name = OptionOf[key]
  <2>1. NamedBy(options, key, k) = NamedBy(options, key, k - 1) \cup {k}
    BY <1>2, NamedStep
  <2>2. Decides(options, key, k, k)
    BY <2>1, NamedStep DEF Decides
  <2>3. r[key] = Value(key, o.value) /\ k \in 1..k
    BY <1>1, <1>2
  <2>4. QED
    BY <2>2, <2>3 DEF SingleRead, r
<1>3. CASE o.name # OptionOf[key]
  <2>1. NamedBy(options, key, k) = NamedBy(options, key, k - 1) /\ r[key] = s[key]
    BY <1>1, <1>3, NamedStep
  <2>2. \A i : Decides(options, key, k - 1, i) => Decides(options, key, k, i)
    BY <2>1 DEF Decides
  <2>3. 1..(k - 1) \subseteq 1..k
    OBVIOUS
  <2>4. QED
    BY <2>1, <2>2, <2>3 DEF SingleRead, r
<1>4. QED
  BY <1>2, <1>3

LEMMA Places ==
  ASSUME NEW options, NEW k \in Nat
  PROVE  /\ IsFiniteSet(NamedBy(options, "masters", k)) /\ Place(options, k) \in Nat
         /\ Place(options, k) = 0 <=> NamedBy(options, "masters", k) = {}
         /\ k > 0 => Place(options, k) = IF options[k].name = "--master"
                                          THEN Place(options, k - 1) + 1 ELSE Place(options, k - 1)
<1>1. \A n \in Nat : IsFiniteSet(NamedBy(options, "masters", n))
  <2>1. \A n \in Nat : IsFiniteSet(1..n) /\ NamedBy(options, "masters", n) \subseteq 1..n
    BY FS_Interval DEF NamedBy
  <2>2. QED
    BY <2>1, FS_Subset
<1>2. /\ Place(options, k) \in Nat
      /\ Place(options, k) = 0 <=> NamedBy(options, "masters", k) = {}
  BY <1>1, FS_CardinalityType, FS_EmptySet DEF Place
<1>3. ASSUME k > 0
      PROVE  Place(options, k) = IF options[k].name = "--master"
                                 THEN Place(options, k - 1) + 1 ELSE Place(options, k - 1)
  <2> DEFINE S == NamedBy(options, "masters", k - 1)
  <2>1. OptionOf["masters"] = "--master" /\ k - 1 \in Nat
    BY <1>3 DEF OptionOf
  <2>2. IsFiniteSet(S) /\ k \notin S
    BY <1>1, <1>3, <2>1, NamedStep
  <2>3. CASE options[k].name = "--master"
    <3>1. NamedBy(options, "masters", k) = S \cup {k}
      BY <1>3, <2>1, <2>3, NamedStep
    <3> HIDE DEF S
    <3>2. Cardinality(S \cup {k}) = Cardinality(S) + 1
      BY <2>2, OneMore
    <3>3. QED
      BY <2>3, <3>1, <3>2 DEF Place, S
  <2>4. CASE options[k].name # "--master"
    <3>1. NamedBy(options, "masters", k) = S
      BY <1>3, <2>1, <2>4, NamedStep
    <3>2. QED
      BY <2>4, <3>1 DEF Place
  <2>5. QED
    BY <2>3, <2>4
<1>4. QED
  BY <1>1, <1>2, <1>3

(* No host comes before the first place or after the last.                 *)
LEMMA PlacesInOrder ==
  ASSUME NEW options, NEW k \in Nat, NEW i \in NamedBy(options, "masters", k)
  PROVE  Place(options, i) \in 1..Place(options, k)
<1>1. i \in 1..k /\ i \in Nat /\ options[i].name = OptionOf["masters"]
  BY DEF NamedBy
<1>2. NamedBy(options, "masters", i) \subseteq NamedBy(options, "masters", k)
  BY <1>1 DEF NamedBy
<1>3. i \in NamedBy(options, "masters", i)
  BY <1>1 DEF NamedBy
<1>4. IsFiniteSet(NamedBy(options, "masters", k)) /\ Place(options, k) \in Nat
  BY Places
<1>5. Place(options, i) \in Nat /\ Place(options, i) # 0
  BY <1>1, <1>3, Places
<1>6. Place(options, i) <= Place(options, k)
  BY <1>2, <1>4, FS_Subset DEF Place
<1>7. QED
  BY <1>4, <1>5, <1>6

(* One more option, and the masters: each host read so far is at its       *)
(* place.                                                                  *)
LEMMA MastersStep ==
  ASSUME NEW options, NEW k \in Nat, k > 0, NEW H, options[k].value \in H,
         NEW s, s = [f \in Fields |-> s[f]], s.cli_master_seen \in BOOLEAN,
         s.cli_master_seen => s.masters \in Seq(H), MastersRead(options, k - 1, s)
  PROVE  MastersRead(options, k, ReadOption(s, options[k]))
<1> DEFINE o == options[k]
           r == ReadOption(s, o)
           before == NamedBy(options, "masters", k - 1)
           named == NamedBy(options, "masters", k)
           v == o.value
           p == Place(options, k - 1)
<1>1. OptionOf["masters"] = "--master" /\ k - 1 \in Nat /\ MaxMasters \in Nat /\ MaxMasters > 0
  BY ConfigAssumption DEF OptionOf
<1>2. /\ o.name # "--master" => r.masters = s.masters /\ r.cli_master_seen = s.cli_master_seen
      /\ o.name = "--master" => r.cli_master_seen = TRUE /\ r.masters = More(s, v)
  BY MasterRead
<1>3. p \in Nat /\ (p = 0 <=> before = {})
  BY <1>1, Places
<1>4. Place(options, k) = IF o.name = "--master" THEN p + 1 ELSE p
  BY Places
<1>5. /\ o.name = "--master" => named = before \cup {k}
      /\ o.name # "--master" => named = before
  <2>1. o.name = OptionOf["masters"] => named = before \cup {k}
    BY NamedStep
  <2>2. o.name # OptionOf["masters"] => named = before
    BY NamedStep
  <2>3. QED
    BY <1>1, <2>1, <2>2, Zenon
<1>6. /\ s.cli_master_seen <=> before # {}
      /\ before # {} => /\ Len(s.masters) = IF p < MaxMasters THEN p ELSE MaxMasters
                        /\ \A i \in before : Place(options, i) <= MaxMasters
                                               => s.masters[Place(options, i)] = options[i].value
  BY DEF MastersRead
<1>7. \A i \in before : Place(options, i) \in 1..p
  BY <1>1, PlacesInOrder
<1> HIDE DEF before, named, o, p, v, r
<1>8. CASE o.name # "--master"
  <2>1. named = before /\ Place(options, k) = p
    BY <1>4, <1>5, <1>8
  <2>2. r.masters = s.masters /\ r.cli_master_seen = s.cli_master_seen
    BY <1>2, <1>8
  <2>3. /\ r.cli_master_seen <=> before # {}
        /\ before # {} => /\ Len(r.masters) = IF p < MaxMasters THEN p ELSE MaxMasters
                          /\ \A i \in before : Place(options, i) <= MaxMasters
                                                 => r.masters[Place(options, i)] = options[i].value
    BY <1>6, <2>2, Zenon
  <2>4. QED
    BY <2>1, <2>3, Zenon DEF MastersRead, r, o, named, before, p
<1>9. CASE o.name = "--master" /\ before = {}
  <2>1. named = {k} /\ Place(options, k) = 1
    BY <1>3, <1>4, <1>5, <1>9
  <2>2. r.cli_master_seen = TRUE /\ r.masters = AtMost(MaxMasters, <<v>>)
    BY <1>2, <1>6, <1>9 DEF More
  <2>3. v \in H
    BY DEF v, o
  <2>4. <<v>> \in Seq(H) /\ Len(<<v>>) = 1 /\ <<v>>[1] = v
    BY <2>3
  <2> DEFINE one == <<v>>
             m == AtMost(MaxMasters, one)
  <2> HIDE DEF one
  <2>5. /\ Len(m) = IF Len(one) < MaxMasters THEN Len(one) ELSE MaxMasters
        /\ \A i \in 1..Len(one) : i <= MaxMasters => m[i] = one[i]
    <3>1. one \in Seq(H)
      BY <2>4 DEF one
    <3>2. QED
      BY <1>1, <3>1, AtMostFacts
  <2> HIDE DEF m
  <2>6. Len(one) = 1 /\ one[1] = v
    BY <2>4, Zenon DEF one
  <2>7. Len(m) = 1 /\ m[1] = v
    <3>1. Len(m) = 1
      BY <1>1, <2>5, <2>6
    <3>2. 1 \in 1..Len(one) /\ 1 <= MaxMasters
      BY <1>1, <2>6
    <3>3. QED
      BY <2>5, <2>6, <3>1, <3>2
  <2>8. r.masters = m
    BY <2>2 DEF m, one
  <2>9. Len(r.masters) = 1 /\ r.masters[1] = v
    BY <2>7, <2>8, Zenon
  <2>10. Len(r.masters) = IF Place(options, k) < MaxMasters THEN Place(options, k) ELSE MaxMasters
    BY <1>1, <2>1, <2>9
  <2>11. \A i \in named : Place(options, i) <= MaxMasters
                            => r.masters[Place(options, i)] = options[i].value
    <3>1. \A i \in named : i = k
      BY <2>1
    <3>2. r.masters[Place(options, k)] = options[k].value
      BY <2>1, <2>9 DEF v, o
    <3>3. QED
      BY <3>1, <3>2, Zenon
  <2>12. named # {}
    BY <2>1
  <2>13. QED
    BY <2>2, <2>10, <2>11, <2>12 DEF MastersRead, r, o, named
<1>10. CASE o.name = "--master" /\ before # {}
  <2> DEFINE m == s.masters
             q == Append(m, v)
             w == AtMost(MaxMasters, q)
  <2>1. s.cli_master_seen
    BY <1>6, <1>10
  <2>2. m \in Seq(H) /\ v \in H
    BY <2>1 DEF v, o
  <2>3. Len(m) = (IF p < MaxMasters THEN p ELSE MaxMasters)
    BY <1>6, <1>10
  <2>4. r.cli_master_seen = TRUE /\ r.masters = w
    BY <1>2, <1>10, <2>1 DEF More
  <2>5. \A i \in before : Place(options, i) <= MaxMasters => m[Place(options, i)] = options[i].value
    BY <1>6, <1>10
  <2> HIDE DEF m
  <2>6. /\ q \in Seq(H) /\ Len(q) = Len(m) + 1 /\ Len(m) \in Nat /\ q[Len(m) + 1] = v
        /\ \A i \in 1..Len(m) : q[i] = m[i]
    BY <2>2
  <2> HIDE DEF q
  <2>7. /\ Len(w) = IF Len(q) < MaxMasters THEN Len(q) ELSE MaxMasters
        /\ \A i \in 1..Len(q) : i <= MaxMasters => w[i] = q[i]
    BY <1>1, <2>6, AtMostFacts
  <2> HIDE DEF w
  <2>8. Place(options, k) = p + 1
    BY <1>4, <1>10
  <2>9. Len(w) = IF p + 1 < MaxMasters THEN p + 1 ELSE MaxMasters
    BY <1>1, <1>3, <2>3, <2>6, <2>7
  <2>10. ASSUME NEW i \in before, Place(options, i) <= MaxMasters
         PROVE  w[Place(options, i)] = options[i].value
    <3>1. Place(options, i) \in 1..p
      BY <1>7
    <3> DEFINE n == Place(options, i)
    <3>2. m[n] = options[i].value /\ n <= MaxMasters
      BY <2>5, <2>10
    <3> HIDE DEF n
    <3>3. n \in 1..p
      BY <3>1 DEF n
    <3>4. n \in 1..Len(m) /\ n \in 1..Len(q)
      BY <1>1, <1>3, <2>3, <2>6, <3>2, <3>3
    <3>5. w[n] = m[n]
      BY <2>6, <2>7, <3>2, <3>4
    <3>6. QED
      BY <3>2, <3>5 DEF n
  <2>11. ASSUME p + 1 <= MaxMasters PROVE w[p + 1] = v
    <3>1. Len(m) = p /\ p + 1 \in 1..Len(q)
      BY <1>1, <1>3, <2>3, <2>6, <2>11
    <3>2. q[p + 1] = v
      BY <2>6, <3>1
    <3>3. QED
      BY <2>7, <2>11, <3>1, <3>2
  <2>12. \A i \in named : Place(options, i) <= MaxMasters
                            => r.masters[Place(options, i)] = options[i].value
    <3>1. ASSUME NEW i \in named, Place(options, i) <= MaxMasters
          PROVE  w[Place(options, i)] = options[i].value
      <4>1. CASE i \in before
        BY <2>10, <3>1, <4>1
      <4>2. CASE i = k
        <5>1. Place(options, i) = p + 1 /\ p + 1 <= MaxMasters
          BY <2>8, <3>1, <4>2
        <5>2. w[p + 1] = v
          BY <2>11, <5>1
        <5>3. QED
          BY <4>2, <5>1, <5>2 DEF v, o
      <4>3. QED
        BY <1>5, <1>10, <4>1, <4>2
    <3>2. QED
      BY <2>4, <3>1, Zenon
  <2>13. Len(r.masters) = IF p + 1 < MaxMasters THEN p + 1 ELSE MaxMasters
    BY <2>4, <2>9, Zenon
  <2>14. named # {}
    BY <1>5, <1>10
  <2>15. QED
    BY <2>4, <2>8, <2>12, <2>13, <2>14 DEF MastersRead, r, o, named
<1>11. QED
  BY <1>8, <1>9, <1>10

(* What is said of the settings after the first k options.                 *)
Read(options, k, s) ==
  MastersRead(options, k, s) /\ \A key \in Single : SingleRead(options, key, k, s)

LEMMA NothingRead ==
  ASSUME NEW options, NEW s, s.cli_master_seen = FALSE
  PROVE  Read(options, 0, s)
<1>1. \A key : NamedBy(options, key, 0) = {}
  BY DEF NamedBy
<1>2. \A key \in Single : SingleRead(options, key, 0, s)
  BY <1>1 DEF SingleRead
<1>3. MastersRead(options, 0, s)
  BY <1>1, Zenon DEF MastersRead
<1>4. QED
  BY <1>2, <1>3 DEF Read

LEMMA OneRead ==
  ASSUME NEW options, NEW start, start = [f \in Fields |-> start[f]],
         NEW k \in DOMAIN options, k \in Nat, k > 0,
         NEW s \in Readings(options, start), Read(options, k - 1, s)
  PROVE  Read(options, k, ReadOption(s, options[k]))
<1> DEFINE H == Hosts(options)
<1>1. /\ DOMAIN s = Fields /\ s = [f \in Fields |-> s[f]] /\ s.cli_master_seen \in BOOLEAN
      /\ s.cli_master_seen => s.masters \in Seq(H)
  BY DEF Readings
<1>2. options[k].value \in H
  BY DEF Hosts
<1> HIDE DEF H
<1>3. MastersRead(options, k - 1, s) /\ \A key \in Single : SingleRead(options, key, k - 1, s)
  BY DEF Read
<1>4. MastersRead(options, k, ReadOption(s, options[k]))
  BY <1>1, <1>2, <1>3, MastersStep
<1>5. \A key \in Single : SingleRead(options, key, k, ReadOption(s, options[k]))
  BY <1>1, <1>3, SingleStep
<1>6. QED
  BY <1>4, <1>5 DEF Read

(* What is said of every prefix of the arguments is true of all of them.   *)
LEMMA AllRead ==
  ASSUME NEW options, Len(options) \in Nat, DOMAIN options = 1..Len(options),
         NEW start, start = [f \in Fields |-> start[f]], start.cli_master_seen = FALSE
  PROVE  Read(options, Len(options), FoldLeft(ReadOption, start, options))
<1> DEFINE n == Len(options)
           A == Readings(options, start)
<1>1. start \in A
  <2>1. \A f \in Fields : start[f] \in Held(options, start)
    BY DEF Held
  <2>2. start \in [Fields -> Held(options, start)]
    BY <2>1
  <2>3. QED
    BY <2>2 DEF Readings
<1>2. \A s \in A, i \in DOMAIN options : ReadOption(s, options[i]) \in A
  BY ValuesHeld
<1>3. \A s \in A, i \in DOMAIN options :
        i \in Nat /\ i > 0 /\ Read(options, i - 1, s) => Read(options, i, ReadOption(s, options[i]))
  BY OneRead
<1> HIDE DEF A
<1>4. PICK v : ReadingRun(A, start, options, v)
  BY <1>1, <1>2, ReadingsRun
<1>5. /\ v \in [0..n -> A] /\ v[0] = start
      /\ \A i \in 1..n : v[i] = ReadOption(v[i - 1], options[i])
      /\ FoldLeft(ReadOption, start, options) = v[n]
  BY <1>4 DEF ReadingRun
<1> DEFINE T == {i \in 0..n : Read(options, i, v[i])}
<1>6. 0 \in T
  <2>1. Read(options, 0, v[0])
    BY <1>5, NothingRead
  <2>2. QED
    BY <2>1
<1>7. ASSUME NEW i \in 1..n, i - 1 \in T PROVE i \in T
  <2>1. v[i - 1] \in A /\ Read(options, i - 1, v[i - 1])
    BY <1>5, <1>7
  <2>2. Read(options, i, ReadOption(v[i - 1], options[i]))
    BY <1>3, <2>1
  <2>3. Read(options, i, v[i])
    BY <1>5, <2>2
  <2>4. QED
    BY <2>3
<1>8. \A i \in 0..n : i \in T
  <2>1. T \in SUBSET Nat
    OBVIOUS
  <2> HIDE DEF T
  <2>2. QED
    BY <1>6, <1>7, <2>1, InductUpto
<1>9. Read(options, n, v[n])
  BY <1>8
<1>10. QED
  BY <1>5, <1>9

LEMMA GreatestDecides ==
  ASSUME NEW options, NEW key, NEW n \in Nat, NEW i, Decides(options, key, n, i)
  PROVE  Max(NamedBy(options, key, n)) = i
<1> DEFINE S == NamedBy(options, key, n)
<1>1. i \in S /\ (\A j \in S : i >= j) /\ S \subseteq 1..n
  BY DEF Decides, NamedBy
<1> HIDE DEF S
<1>2. \A x \in S : (\A y \in S : x >= y) => x = i
  BY <1>1
<1>3. QED
  BY <1>1, <1>2 DEF Max, S

LEMMA SmallerOf ==
  ASSUME NEW m \in Nat, NEW n \in Nat
  PROVE  Min({m, n}) = IF n < m THEN n ELSE m
  BY DEF Min

LEMMA Clamped ==
  ASSUME NEW low \in Nat, NEW high \in Nat, NEW n \in low..high
  PROVE  Clamp(low, high, n) = n
  BY DEF Clamp

LEMMA SmallRemainder ==
  ASSUME NEW n \in Nat, NEW v \in Nat, v < n
  PROVE  v % n = v
  OBVIOUS

LEMMA AcceptedAsIs ==
  ASSUME NEW key \in Single, NEW v, Accepts(key, v)
  PROVE  Value(key, v) = v
<1>1. MaxSlots \in Nat
  BY ConfigAssumption
<1>2. CASE key = "max_players"
  <2>1. Value(key, v) = Clamp(1, MaxSlots, v) /\ v \in 1..MaxSlots
    BY <1>2 DEF Value, Accepts
  <2>2. QED
    BY <1>1, <2>1, Clamped
<1>3. CASE key = "system"
  <2>1. Value(key, v) = Clamp(1, 9, v) /\ v \in 1..9
    BY <1>3 DEF Value, Accepts
  <2>2. QED
    BY <2>1, Clamped
<1>4. CASE key = "port"
  <2>1. Value(key, v) = v % Ports /\ v \in 0..(Ports - 1)
    BY <1>4 DEF Value, Accepts
  <2>2. Ports \in Nat
    BY DEF Ports
  <2>3. v \in Nat /\ v < Ports
    BY <2>1, <2>2
  <2>4. QED
    BY <2>1, <2>2, <2>3, SmallRemainder
<1>5. CASE key \notin {"max_players", "system", "port"}
  BY <1>5 DEF Value
<1>6. QED
  BY <1>2, <1>3, <1>4, <1>5

(* The last option that names a setting decides it and the masters of the  *)
(* command line are all in use as far as there is room, for every file and *)
(* every sequence of arguments.                                            *)
LEMMA CommandLineDecides ==
  ASSUME NEW file, NEW options, Len(options) \in Nat, DOMAIN options = 1..Len(options)
  PROVE  CommandLineWinsFor(file, options)
<1> DEFINE n == Len(options)
           start == Begun(file)
           final == FoldLeft(ReadOption, start, options)
           result == Effective(file, options)
<1>1. start = [f \in Fields |-> start[f]] /\ start.cli_master_seen = FALSE
  <2>1. DOMAIN start = Fields
    BY FieldNames DEF Begun
  <2>2. start = [f \in DOMAIN start |-> start[f]]
    BY DEF Begun
  <2>3. start.cli_master_seen = FALSE
    BY DEF Begun
  <2> HIDE DEF start
  <2>4. QED
    BY <2>1, <2>2, <2>3, Zenon
<1>2. Read(options, n, final)
  <2> HIDE DEF start
  <2>1. QED
    BY <1>1, AllRead
<1>3. result = [key \in DOMAIN Defaults |-> final[key]]
  BY DEF Effective
<1> HIDE DEF start, final, result
<1>4. \A key \in DOMAIN OptionOf : result[key] = final[key]
  BY <1>3, FieldNames
<1>5. MastersRead(options, n, final) /\ \A key \in Single : SingleRead(options, key, n, final)
  BY <1>2 DEF Read
<1>6. \A key : Naming(options, key) = NamedBy(options, key, n)
  BY DEF Naming, NamedBy
<1>7. ASSUME NEW key \in Single, Naming(options, key) # {}
      PROVE  result[key] = Value(key, options[Max(Naming(options, key))].value)
  <2>1. PICK i \in 1..n : /\ Decides(options, key, n, i)
                          /\ final[key] = Value(key, options[i].value)
    BY <1>5, <1>6, <1>7 DEF SingleRead
  <2>2. Max(Naming(options, key)) = i
    BY <1>6, <2>1, GreatestDecides
  <2>3. key \in DOMAIN OptionOf
    BY DEF Single
  <2>4. QED
    BY <1>4, <2>1, <2>2, <2>3
<1>8. MaxMasters \in Nat /\ MaxSlots \in Nat
  BY ConfigAssumption
<1>9. ASSUME Naming(options, "masters") # {}
      PROVE  /\ Len(result.masters) = Min({MaxMasters, Cardinality(Naming(options, "masters"))})
             /\ \A i \in Naming(options, "masters") :
                  LET nth == Cardinality({j \in Naming(options, "masters") : j <= i})
                  IN nth <= MaxMasters => result.masters[nth] = options[i].value
  <2> DEFINE N == NamedBy(options, "masters", n)
  <2>1. Naming(options, "masters") = N /\ result.masters = final.masters
    BY <1>4, <1>6, FieldNames
  <2>2. /\ Len(final.masters) = IF Place(options, n) < MaxMasters THEN Place(options, n)
                                ELSE MaxMasters
        /\ \A i \in N : Place(options, i) <= MaxMasters
                          => final.masters[Place(options, i)] = options[i].value
    BY <1>5, <1>9, <2>1 DEF MastersRead
  <2>3. Place(options, n) \in Nat /\ Place(options, n) = Cardinality(N)
    BY Places DEF Place
  <2>4. Len(result.masters) = Min({MaxMasters, Cardinality(N)})
    BY <1>8, <2>1, <2>2, <2>3, SmallerOf
  <2>5. \A i \in N : Place(options, i) = Cardinality({j \in N : j <= i})
    <3>1. ASSUME NEW i \in N PROVE {j \in N : j <= i} = NamedBy(options, "masters", i)
      BY DEF NamedBy
    <3>2. QED
      BY <3>1 DEF Place
  <2> HIDE DEF N
  <2>6. QED
    BY <2>1, <2>2, <2>4, <2>5
<1>10. ASSUME NEW key \in DOMAIN OptionOf \ {"masters"}, Naming(options, key) # {},
              Accepts(key, options[Max(Naming(options, key))].value)
       PROVE  result[key] = options[Max(Naming(options, key))].value
  <2> DEFINE last == options[Max(Naming(options, key))].value
  <2>1. key \in Single
    BY DEF Single
  <2>2. result[key] = Value(key, last) /\ Accepts(key, last)
    BY <1>7, <1>10, <2>1
  <2> HIDE DEF last
  <2>3. Value(key, last) = last
    BY <2>1, <2>2, AcceptedAsIs
  <2>4. QED
    BY <2>2, <2>3, Zenon DEF last
<1>11. QED
  BY <1>9, <1>10, Zenon DEF CommandLineWinsFor, result

(* Whatever file main finds and whatever arguments it is given, the last   *)
(* option that names a setting decides it, and the masters of the command  *)
(* line take the place of those of the file.                               *)
THEOREM CommandLineDecidesAll == Spec => []CommandLineWins
<1>1. \A options \in Arguments : Len(options) \in Nat /\ DOMAIN options = 1..Len(options)
  <2>1. \A options \in Arguments : options \in Seq({options[i] : i \in DOMAIN options})
    BY LifecycleAssumption
  <2>2. ASSUME NEW S, NEW options \in Seq(S)
        PROVE  Len(options) \in Nat /\ DOMAIN options = 1..Len(options)
    OBVIOUS
  <2>3. QED
    BY <2>1, <2>2, Zenon
<1>2. CommandLineWins
  BY <1>1, CommandLineDecides DEF CommandLineWins
<1>3. QED
  BY <1>2, PTL
=============================================================================
