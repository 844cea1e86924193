------------------------ MODULE ShipReplication_proof ------------------------
(***************************************************************************)
(* Every client that has received all shows the ships there are, but for   *)
(* those that players have destroyed by messages of their own, for any     *)
(* number of slots and objects.                                            *)
(*                                                                         *)
(* What a client will show is a fold of what is on its way to it.  The     *)
(* argument is about that fold: it is right at every moment, and not only  *)
(* when nothing is on the way.                                             *)
(***************************************************************************)
EXTENDS ShipReplication, FoldLemmas, SequenceTheorems

Owned(id, o) == id \in ObjectIds /\ id[1] = o
ShipOf(id, o) == id = NoShip \/ Owned(id, o)
Views == {view \in [Slots -> ObjectIds \cup {NoShip}] : \A o \in Slots : ShipOf(view[o], o)}

NoShips == [o \in Slots |-> NoShip]

----------------------------------------------------------------------------
(* The inductive invariant.                                                *)

PeersOk == peers \in [Slots -> {"empty", "joining", "lobby"}]

(* Everyone has objects of its own range only, and an object_id while it   *)
(* has a ship.                                                             *)
ShipsOk ==
  /\ ship \in [Slots -> ObjectIds \cup {NoShip}] /\ objectId \in [Slots -> ObjectIds \cup {NoShip}]
  /\ \A o \in Slots : ShipOf(ship[o], o) /\ ShipOf(objectId[o], o)
  /\ \A o \in Slots : HasShip(o) => objectId[o] # NoShip

CacheOk ==
  /\ cache \in [Slots -> Created \cup {NotCached}]
  /\ \A o \in Slots : cache[o] = NotCached \/ (cache[o] \in Created /\ cache[o].owner = o)

MailOk ==
  /\ toServer \in [Slots -> SUBSET Requests]
  /\ \A s \in Slots : \A m \in toServer[s] : m \in Created => m.owner = s

SentOk == toClient \in [Slots -> Seq(Messages)]

ShownOk == shows \in [Slots -> Views]

BoundsOk ==
  /\ made \in [Slots -> Nat]
  /\ course \in [kinds : SUBSET Creations, objects : 0..MaxShips, joins : Nat,
                 requests : Nat, duplicates : Nat]

TypesOk == PeersOk /\ ShipsOk /\ CacheOk /\ MailOk /\ SentOk /\ ShownOk /\ BoundsOk

(* Who is not in the lobby has no ship and is sent nothing, and who has    *)
(* just come shows nothing.                                                *)
OutsideIsBare ==
  \A s \in Slots :
    /\ peers[s] # "lobby" => ship[s] = NoShip /\ toClient[s] = <<>>
    /\ peers[s] = "joining" => shows[s] = NoShips

(* What is cached and what is announced on leaving is the ship.            *)
Known(o) ==
  /\ objectId[o] = ship[o]
  /\ cache[o] # NotCached /\ cache[o].id = ship[o] /\ cache[o].kind # "object"
ShipsAreKnown == \A o \in Slots \ odd : HasShip(o) => Known(o)

Pending(s) == FoldLeft(Seen, shows[s], toClient[s])

(* What a client will show once it has received all.                       *)
WillShow == \A s \in InLobby : \A o \in Slots \ ({s} \cup odd) : Pending(s)[o] \in MayShow(o)

RestOk == OutsideIsBare /\ ShipsAreKnown /\ WillShow
ReplInv == TypesOk /\ RestOk

----------------------------------------------------------------------------
(* Folds of what a client sees: a fold runs through views.                 *)

SeeingRun(A, view, seq, v) ==
  /\ v \in [0..Len(seq) -> A] /\ v[0] = view
  /\ \A i \in 1..Len(seq) : v[i] = Seen(v[i - 1], seq[i])
  /\ FoldLeft(Seen, view, seq) = v[Len(seq)]

LEMMA SeeingsRun ==
  ASSUME NEW A, NEW view \in A, NEW seq, Len(seq) \in Nat, DOMAIN seq = 1..Len(seq),
         \A l \in A, i \in 1..Len(seq) : Seen(l, seq[i]) \in A
  PROVE  \E v : SeeingRun(A, view, seq, v)
<1> DEFINE n == Len(seq)
           step == [a \in (1..n) \X A |-> Seen(a[2], seq[a[1]])]
           Defines(iter) ==
             iter = [s \in SUBSET (1..n) |->
                       IF s = {} THEN view
                       ELSE Seen(iter[s \ {Greatest(s)}], seq[Greatest(s)])]
<1>1. FoldLeft(Seen, view, seq) = (CHOOSE iter : Defines(iter))[1..n]
  BY DEF FoldLeft, MapThenFoldSet, Max, Greatest
<1>2. step \in [(1..n) \X A -> A] /\ \A i \in 1..n, l \in A : step[<<i, l>>] = Seen(l, seq[i])
  OBVIOUS
<1> HIDE DEF step
<1>3. PICK h \in [SUBSET (1..n) -> A], v \in [0..n -> A] : FoldRun(n, A, view, step, h, v)
  BY <1>2, FoldRuns
<1>4. \A s \in (SUBSET (1..n)) \ {{}} : Greatest(s) \in s /\ s \ {Greatest(s)} \in SUBSET (1..n)
  BY GreatestUpto
<1>5. Defines(h)
  <2>1. ASSUME NEW s \in SUBSET (1..n)
        PROVE  h[s] = IF s = {} THEN view
                      ELSE Seen(h[s \ {Greatest(s)}], seq[Greatest(s)])
    <3>1. CASE s = {}
      BY <1>3, <3>1 DEF FoldRun, FoldedBy
    <3>2. CASE s # {}
      <4>1. h[s] = step[<<Greatest(s), h[s \ {Greatest(s)}]>>]
        BY <1>3, <3>2 DEF FoldRun
      <4>2. Greatest(s) \in 1..n /\ h[s \ {Greatest(s)}] \in A
        BY <1>4, <3>2
      <4>3. QED
        BY <1>2, <3>2, <4>1, <4>2
    <3>3. QED
      BY <3>1, <3>2
  <2>2. QED
    BY <2>1
<1>6. ASSUME NEW iter, Defines(iter)
      PROVE  iter[1..n] = v[n]
  <2>1. FoldedBy(n, A, view, step, iter)
    <3>1. iter[{}] = view
      BY <1>6
    <3>2. ASSUME NEW s \in (SUBSET (1..n)) \ {{}}, iter[s \ {Greatest(s)}] \in A
          PROVE  iter[s] = step[<<Greatest(s), iter[s \ {Greatest(s)}]>>]
      <4>1. Greatest(s) \in 1..n
        BY <1>4
      <4>2. iter[s] = Seen(iter[s \ {Greatest(s)}], seq[Greatest(s)])
        BY <1>6
      <4>3. QED
        BY <1>2, <3>2, <4>1, <4>2
    <3>3. QED
      BY <3>1, <3>2 DEF FoldedBy
  <2> HIDE DEF Defines
  <2>2. QED
    BY <1>3, <2>1, FoldsAgree
<1> HIDE DEF Defines
<1>7. Defines(CHOOSE iter : Defines(iter))
  BY <1>5
<1>8. FoldLeft(Seen, view, seq) = v[n]
  BY <1>1, <1>6, <1>7
<1>9. v[0] = view /\ \A i \in 1..n : v[i] = Seen(v[i - 1], seq[i])
  <2>1. v[0] = view /\ \A i \in 1..n : v[i] = step[<<i, v[i - 1]>>]
    BY <1>3 DEF FoldRun, Runs
  <2>2. \A i \in 1..n : v[i - 1] \in A
    OBVIOUS
  <2>3. QED
    BY <1>2, <2>1, <2>2
<1>10. QED
  BY <1>8, <1>9 DEF SeeingRun


(* What a message is about.                                                *)
LEMMA MessageFacts ==
  ASSUME NEW m \in Messages
  PROVE  \/ /\ m.kind \in {"ship", "unknown", "large"} /\ m \in Created
            /\ m.owner \in Slots /\ Owned(m.id, m.owner)
         \/ m.kind \in {"DestroyObj", "Exploding"} /\ m.id \in ObjectIds
         \/ m.kind \in {"object", "NotFound"}
  BY DEF Messages, Removals, Created, Creation, Creations, Notice, ObjectIds, Owned

LEMMA SeenKinds ==
  ASSUME NEW view, NEW m
  PROVE  /\ m.kind \in {"ship", "unknown", "large"} => Seen(view, m) = [view EXCEPT ![m.owner] = m.id]
         /\ m.kind \in {"DestroyObj", "Exploding"} =>
              Seen(view, m) = [o \in Slots |-> IF view[o] = m.id THEN NoShip ELSE view[o]]
         /\ m.kind \in {"object", "NotFound"} => Seen(view, m) = view
  BY DEF Seen

LEMMA SeenTyped ==
  ASSUME NEW view \in Views, NEW m \in Messages
  PROVE  Seen(view, m) \in Views
<1>1. CASE m.kind \in {"ship", "unknown", "large"}
  BY <1>1, MessageFacts, SeenKinds DEF Views, ShipOf, Owned
<1>2. CASE m.kind \in {"DestroyObj", "Exploding"}
  BY <1>2, SeenKinds DEF Views, ShipOf
<1>3. CASE m.kind \in {"object", "NotFound"}
  BY <1>3, SeenKinds
<1>4. QED
  BY <1>1, <1>2, <1>3, MessageFacts

(* What is shown of one slot depends on nothing else that is shown.        *)
LEMMA SeenApart ==
  ASSUME NEW view \in Views, NEW other \in Views, NEW m \in Messages,
         NEW o \in Slots, view[o] = other[o]
  PROVE  Seen(view, m)[o] = Seen(other, m)[o]
<1>1. CASE m.kind \in {"ship", "unknown", "large"}
  BY <1>1, MessageFacts, SeenKinds DEF Views
<1>2. CASE m.kind \in {"DestroyObj", "Exploding"}
  BY <1>2, SeenKinds
<1>3. CASE m.kind \in {"object", "NotFound"}
  BY <1>3, SeenKinds
<1>4. QED
  BY <1>1, <1>2, <1>3, MessageFacts

LEMMA ViewRun ==
  ASSUME NEW view \in Views, NEW seq \in Seq(Messages)
  PROVE  \E v : SeeingRun(Views, view, seq, v)
<1>1. Len(seq) \in Nat /\ DOMAIN seq = 1..Len(seq) /\ \A i \in 1..Len(seq) : seq[i] \in Messages
  OBVIOUS
<1>2. \A l \in Views, i \in 1..Len(seq) : Seen(l, seq[i]) \in Views
  BY <1>1, SeenTyped
<1>3. QED
  BY <1>1, <1>2, SeeingsRun

LEMMA FoldTyped ==
  ASSUME NEW view \in Views, NEW seq \in Seq(Messages)
  PROVE  FoldLeft(Seen, view, seq) \in Views
<1>1. PICK v : SeeingRun(Views, view, seq, v)
  BY ViewRun
<1>2. Len(seq) \in 0..Len(seq)
  OBVIOUS
<1>3. QED
  BY <1>1, <1>2 DEF SeeingRun

LEMMA FoldOfNothing ==
  ASSUME NEW view \in Views
  PROVE  FoldLeft(Seen, view, <<>>) = view
<1>1. <<>> \in Seq(Messages) /\ Len(<<>>) = 0
  OBVIOUS
<1>2. PICK v : SeeingRun(Views, view, <<>>, v)
  BY <1>1, ViewRun
<1>3. QED
  BY <1>1, <1>2 DEF SeeingRun

LEMMA FoldApart ==
  ASSUME NEW view \in Views, NEW other \in Views, NEW seq \in Seq(Messages),
         NEW o \in Slots, view[o] = other[o]
  PROVE  FoldLeft(Seen, view, seq)[o] = FoldLeft(Seen, other, seq)[o]
<1>1. PICK v : SeeingRun(Views, view, seq, v)
  BY ViewRun
<1>2. PICK w : SeeingRun(Views, other, seq, w)
  BY ViewRun
<1> DEFINE T == {i \in 0..Len(seq) : v[i][o] = w[i][o]}
<1>3. Len(seq) \in Nat /\ \A i \in 1..Len(seq) : seq[i] \in Messages
  OBVIOUS
<1>4. 0 \in T
  BY <1>1, <1>2, <1>3 DEF SeeingRun
<1>5. ASSUME NEW i \in 1..Len(seq), i - 1 \in T PROVE i \in T
  <2>1. i - 1 \in 0..Len(seq) /\ i \in 0..Len(seq)
    BY <1>3
  <2>2. v[i - 1] \in Views /\ w[i - 1] \in Views
    BY <1>1, <1>2, <2>1 DEF SeeingRun
  <2>3. v[i] = Seen(v[i - 1], seq[i]) /\ w[i] = Seen(w[i - 1], seq[i])
    BY <1>1, <1>2 DEF SeeingRun
  <2>4. QED
    BY <1>3, <1>5, <2>1, <2>2, <2>3, SeenApart
<1>6. T \in SUBSET Nat
  OBVIOUS
<1> HIDE DEF T
<1>7. Len(seq) \in T
  <2>1. \A i \in 0..Len(seq) : i \in T
    BY <1>3, <1>4, <1>5, <1>6, InductUpto
  <2>2. QED
    BY <1>3, <2>1
<1>8. QED
  BY <1>1, <1>2, <1>7 DEF SeeingRun, T

LEMMA FoldConcat ==
  ASSUME NEW view \in Views, NEW first \in Seq(Messages), NEW then \in Seq(Messages)
  PROVE  FoldLeft(Seen, view, first \o then) = FoldLeft(Seen, FoldLeft(Seen, view, first), then)
<1> DEFINE both == first \o then
           k == Len(first)
           n == Len(then)
<1>1. /\ k \in Nat /\ n \in Nat /\ both \in Seq(Messages) /\ Len(both) = k + n
      /\ \A i \in 1..k : both[i] = first[i]
      /\ \A i \in 1..n : both[k + i] = then[i]
  OBVIOUS
<1> HIDE DEF both, k, n
<1>2. PICK v : SeeingRun(Views, view, both, v)
  BY <1>1, ViewRun
<1>3. PICK u : SeeingRun(Views, view, first, u)
  BY ViewRun
<1>4. PICK w : SeeingRun(Views, FoldLeft(Seen, view, first), then, w)
  BY FoldTyped, ViewRun
<1>5. \A i \in 0..k : v[i] = u[i]
  <2> DEFINE T == {i \in 0..k : v[i] = u[i]}
  <2>1. 0 \in T /\ T \in SUBSET Nat
    BY <1>1, <1>2, <1>3 DEF SeeingRun
  <2>2. ASSUME NEW i \in 1..k, i - 1 \in T PROVE i \in T
    <3>1. i \in 1..Len(both) /\ i \in 1..Len(first) /\ i \in 0..k
      BY <1>1 DEF k
    <3>2. v[i] = Seen(v[i - 1], both[i]) /\ u[i] = Seen(u[i - 1], first[i])
      BY <1>2, <1>3, <3>1 DEF SeeingRun
    <3>3. QED
      BY <1>1, <2>2, <3>1, <3>2
  <2> HIDE DEF T
  <2>3. \A i \in 0..k : i \in T
    BY <1>1, <2>1, <2>2, InductUpto
  <2>4. QED
    BY <2>3 DEF T
<1>6. \A i \in 0..n : v[k + i] = w[i]
  <2> DEFINE T == {i \in 0..n : v[k + i] = w[i]}
  <2>1. T \in SUBSET Nat
    OBVIOUS
  <2>2. 0 \in T
    <3>1. v[k] = u[k] /\ u[k] = FoldLeft(Seen, view, first) /\ w[0] = FoldLeft(Seen, view, first)
      BY <1>1, <1>3, <1>4, <1>5 DEF SeeingRun, k
    <3>2. k + 0 = k /\ 0 \in 0..n
      BY <1>1
    <3>3. QED
      BY <3>1, <3>2
  <2>3. ASSUME NEW i \in 1..n, i - 1 \in T PROVE i \in T
    <3>1. k + i \in 1..Len(both) /\ i \in 1..Len(then) /\ i \in 0..n /\ (k + i) - 1 = k + (i - 1)
      BY <1>1 DEF n
    <3>2. v[k + i] = Seen(v[(k + i) - 1], both[k + i]) /\ w[i] = Seen(w[i - 1], then[i])
      BY <1>2, <1>4, <3>1 DEF SeeingRun
    <3>3. v[k + (i - 1)] = w[i - 1]
      BY <2>3
    <3>4. QED
      BY <1>1, <3>1, <3>2, <3>3
  <2> HIDE DEF T
  <2>4. \A i \in 0..n : i \in T
    BY <1>1, <2>1, <2>2, <2>3, InductUpto
  <2>5. QED
    BY <2>4 DEF T
<1>7. v[k + n] = w[n]
  BY <1>1, <1>6
<1>8. QED
  BY <1>1, <1>2, <1>4, <1>7 DEF SeeingRun, both, n

LEMMA FoldAppend ==
  ASSUME NEW view \in Views, NEW seq \in Seq(Messages), NEW m \in Messages
  PROVE  FoldLeft(Seen, view, Append(seq, m)) = Seen(FoldLeft(Seen, view, seq), m)
<1> DEFINE after == FoldLeft(Seen, view, seq)
<1>1. <<m>> \in Seq(Messages) /\ Append(seq, m) = seq \o <<m>>
  OBVIOUS
<1>2. FoldLeft(Seen, view, seq \o <<m>>) = FoldLeft(Seen, after, <<m>>)
  BY <1>1, FoldConcat
<1>3. after \in Views
  BY FoldTyped
<1> HIDE DEF after
<1>4. FoldLeft(Seen, after, <<m>>) = Seen(after, m)
  <2>1. PICK v : SeeingRun(Views, after, <<m>>, v)
    BY <1>1, <1>3, ViewRun
  <2>2. Len(<<m>>) = 1 /\ <<m>>[1] = m /\ 1 \in 1..1 /\ 1 - 1 = 0
    OBVIOUS
  <2>3. QED
    BY <2>1, <2>2 DEF SeeingRun
<1>5. QED
  BY <1>1, <1>2, <1>4 DEF after

----------------------------------------------------------------------------
(* What a joining player is sent.                                          *)

LEMMA SlotFacts ==
  /\ MaxSlots \in Nat /\ MaxSlots >= 1 /\ Slots = 1..MaxSlots
  /\ \A id \in ObjectIds : id # NoShip /\ id[1] \in Slots /\ Owned(id, id[1])
  /\ MaxShips \in Nat
  BY ReplicationAssumption DEF Slots, ObjectIds, Owned

Others(s) == {o \in InLobby \ {s} : HasShip(o) /\ cache[o] # NotCached}

ForwardRun(s, from) ==
  /\ from \in [0..MaxSlots -> Seq(Messages)] /\ from[0] = <<>>
  /\ \A n \in Slots :
       from[n] = IF n \in Others(s) THEN Append(from[n - 1], cache[n]) ELSE from[n - 1]
  /\ Forwarded(s) = from[MaxSlots]

LEMMA ForwardsRun ==
  ASSUME NEW s \in Slots, CacheOk
  PROVE  \E from : ForwardRun(s, from)
<1> DEFINE A == Seq(Messages)
           step == [a \in (1..MaxSlots) \X A |->
                      IF a[1] \in Others(s) THEN Append(a[2], cache[a[1]]) ELSE a[2]]
           Defines(from) ==
             from = [n \in 0..MaxSlots |->
                       IF n = 0 THEN <<>>
                       ELSE IF n \in Others(s) THEN Append(from[n - 1], cache[n]) ELSE from[n - 1]]
<1>1. Forwarded(s) = (CHOOSE from : Defines(from))[MaxSlots]
  BY DEF Forwarded, Others
<1>2. \A n \in Others(s) : n \in Slots /\ cache[n] \in Messages
  BY DEF Others, InLobby, CacheOk, Messages
<1>3. step \in [(1..MaxSlots) \X A -> A] /\ <<>> \in A
  BY <1>2
<1>31. \A n \in 1..MaxSlots, q \in A :
         step[<<n, q>>] = IF n \in Others(s) THEN Append(q, cache[n]) ELSE q
  OBVIOUS
<1> HIDE DEF step
<1>4. PICK h \in [SUBSET (1..MaxSlots) -> A], v \in [0..MaxSlots -> A] :
        FoldRun(MaxSlots, A, <<>>, step, h, v)
  BY <1>3, SlotFacts, FoldRuns
<1>5. v[0] = <<>> /\ \A n \in 1..MaxSlots : v[n] = step[<<n, v[n - 1]>>] /\ v[n - 1] \in A
  BY <1>4, SlotFacts DEF FoldRun, Runs
<1>6. \A n \in 1..MaxSlots :
        v[n] = IF n \in Others(s) THEN Append(v[n - 1], cache[n]) ELSE v[n - 1]
  BY <1>5, <1>31
<1>7. Defines(v)
  <2>1. ASSUME NEW n \in 0..MaxSlots
        PROVE  v[n] = IF n = 0 THEN <<>>
                      ELSE IF n \in Others(s) THEN Append(v[n - 1], cache[n]) ELSE v[n - 1]
    <3>1. n = 0 \/ n \in 1..MaxSlots
      BY SlotFacts
    <3>2. CASE n = 0
      BY <3>2, <1>5
    <3>3. CASE n # 0
      BY <3>1, <3>3, <1>6
    <3>4. QED
      BY <3>2, <3>3
  <2>2. v = [n \in 0..MaxSlots |-> v[n]]
    BY <1>4
  <2>3. QED
    BY <2>1, <2>2
<1> DEFINE from == CHOOSE f : Defines(f)
<1> HIDE DEF Defines
<1>8. Defines(from)
  BY <1>7
<1> HIDE DEF from
<1>9. /\ from[0] = <<>>
      /\ \A n \in 1..MaxSlots :
           from[n] = IF n \in Others(s) THEN Append(from[n - 1], cache[n]) ELSE from[n - 1]
  <2>1. from = [n \in 0..MaxSlots |->
                  IF n = 0 THEN <<>>
                  ELSE IF n \in Others(s) THEN Append(from[n - 1], cache[n]) ELSE from[n - 1]]
    BY <1>8 DEF Defines
  <2>2. 0 \in 0..MaxSlots
    BY SlotFacts
  <2>3. from[0] = <<>>
    BY <2>1, <2>2
  <2>4. ASSUME NEW n \in 1..MaxSlots
        PROVE  from[n] = IF n \in Others(s) THEN Append(from[n - 1], cache[n]) ELSE from[n - 1]
    <3>1. n \in 0..MaxSlots /\ n # 0
      BY SlotFacts
    <3>2. QED
      BY <2>1, <3>1
  <2>5. QED
    BY <2>3, <2>4
<1>10. \A n \in 0..MaxSlots : from[n] \in A
  <2> DEFINE T == {n \in 0..MaxSlots : from[n] \in A}
  <2>1. T \in SUBSET Nat /\ 0 \in T
    <3>1. 0 \in 0..MaxSlots /\ 0..MaxSlots \in SUBSET Nat
      BY SlotFacts
    <3>2. from[0] \in A
      BY <1>3, <1>9
    <3> HIDE DEF A
    <3>3. QED
      BY <3>1, <3>2
  <2>2. ASSUME NEW n \in 1..MaxSlots, n - 1 \in T PROVE n \in T
    <3>1. n \in 0..MaxSlots /\ from[n - 1] \in A
      BY <2>2, SlotFacts
    <3>2. n \in Others(s) => Append(from[n - 1], cache[n]) \in A
      BY <1>2, <3>1
    <3>3. from[n] \in A
      <4> HIDE DEF A
      <4> QED
        BY <1>9, <3>1, <3>2
    <3>4. QED
      BY <3>1, <3>3
  <2> HIDE DEF T
  <2>3. \A n \in 0..MaxSlots : n \in T
    BY <2>1, <2>2, SlotFacts, InductUpto
  <2>4. QED
    BY <2>3 DEF T
<1>11. from \in [0..MaxSlots -> A]
  <2>1. DOMAIN from = 0..MaxSlots /\ from = [n \in 0..MaxSlots |-> from[n]]
    BY <1>8 DEF Defines
  <2>2. QED
    BY <1>10, <2>1
<1>12. Forwarded(s) = from[MaxSlots]
  BY <1>1 DEF from
<1>13. QED
  BY <1>9, <1>11, <1>12, SlotFacts DEF ForwardRun

(* What a message does to what is shown of a slot.                         *)
Says(m, o, x) ==
  IF m.kind \in {"ship", "unknown", "large"} THEN IF m.owner = o THEN m.id ELSE x
  ELSE IF m.kind \in {"DestroyObj", "Exploding"} THEN IF x = m.id THEN NoShip ELSE x
  ELSE x

LEMMA SeenAt ==
  ASSUME NEW view \in Views, NEW m \in Messages, NEW o \in Slots
  PROVE  Seen(view, m)[o] = Says(m, o, view[o])
<1>1. view \in [Slots -> ObjectIds \cup {NoShip}]
  BY DEF Views
<1>2. CASE m.kind \in {"ship", "unknown", "large"}
  BY <1>1, <1>2, MessageFacts, SeenKinds DEF Says
<1>3. CASE m.kind \in {"DestroyObj", "Exploding"}
  BY <1>3, SeenKinds DEF Says
<1>4. CASE m.kind \in {"object", "NotFound"}
  BY <1>4, SeenKinds DEF Says
<1>5. QED
  BY <1>2, <1>3, <1>4, MessageFacts

Forwards(s, o) == o \in Others(s) /\ cache[o].kind # "object"

LEMMA ForwardedShows ==
  ASSUME NEW s \in Slots, CacheOk, NEW view \in Views, NEW o \in Slots
  PROVE  /\ Forwarded(s) \in Seq(Messages)
         /\ FoldLeft(Seen, view, Forwarded(s))[o] =
              IF Forwards(s, o) THEN cache[o].id ELSE view[o]
<1>1. PICK from : ForwardRun(s, from)
  BY ForwardsRun
<1> DEFINE Shown(n) == FoldLeft(Seen, view, from[n])
           Told(n) == IF o <= n /\ Forwards(s, o) THEN cache[o].id ELSE view[o]
           T == {n \in 0..MaxSlots : Shown(n)[o] = Told(n)}
<1>2. \A n \in 0..MaxSlots : from[n] \in Seq(Messages) /\ Shown(n) \in Views
  BY <1>1, FoldTyped DEF ForwardRun
<1>3. o \in 1..MaxSlots
  BY SlotFacts
<1>4. Shown(0)[o] = Told(0)
  <2>1. Shown(0) = view
    BY <1>1, FoldOfNothing DEF ForwardRun
  <2>2. Told(0) = view[o]
    BY <1>3
  <2>3. QED
    BY <2>1, <2>2
<1> HIDE DEF Shown
<1>5. ASSUME NEW n \in 1..MaxSlots, Shown(n - 1)[o] = Told(n - 1)
      PROVE  Shown(n)[o] = Told(n)
  <2>1. n \in Slots /\ n - 1 \in 0..MaxSlots /\ o \in Int /\ n \in Int
    BY <1>3, SlotFacts
  <2>2. CASE n \notin Others(s)
    <3>1. Shown(n) = Shown(n - 1)
      BY <1>1, <2>1, <2>2 DEF ForwardRun, Shown
    <3>2. Told(n) = Told(n - 1)
      BY <2>1, <2>2 DEF Forwards
    <3>3. QED
      BY <1>5, <3>1, <3>2
  <2>3. CASE n \in Others(s)
    <3>1. from[n] = Append(from[n - 1], cache[n])
      BY <1>1, <2>1, <2>3 DEF ForwardRun
    <3>2. cache[n] \in Created /\ cache[n].owner = n /\ cache[n] \in Messages
      BY <2>1, <2>3 DEF Others, CacheOk, Messages
    <3>3. Shown(n) = Seen(Shown(n - 1), cache[n])
      BY <1>2, <2>1, <3>1, <3>2, FoldAppend DEF Shown
    <3>4. Shown(n)[o] = Says(cache[n], o, Shown(n - 1)[o])
      BY <1>2, <2>1, <3>2, <3>3, SeenAt
    <3>5. cache[n].kind \in Creations
      BY <3>2 DEF Created, Creation
    <3>6. CASE n # o
      <4>1. Told(n) = Told(n - 1)
        BY <2>1, <3>6
      <4>2. Says(cache[n], o, Shown(n - 1)[o]) = Shown(n - 1)[o]
        BY <3>2, <3>5, <3>6 DEF Says, Creations
      <4>3. QED
        BY <1>5, <3>4, <4>1, <4>2
    <3>7. CASE n = o
      <4>1. Told(n) = IF cache[o].kind # "object" THEN cache[o].id ELSE view[o]
        BY <2>1, <2>3, <3>7 DEF Forwards
      <4>2. Told(n - 1) = view[o]
        BY <2>1, <3>7
      <4>3. Says(cache[n], o, Shown(n - 1)[o]) =
              IF cache[o].kind # "object" THEN cache[o].id ELSE Shown(n - 1)[o]
        BY <3>2, <3>5, <3>7 DEF Says, Creations
      <4> HIDE DEF Told
      <4>4. QED
        BY <1>5, <3>4, <4>1, <4>2, <4>3
    <3>8. QED
      BY <3>6, <3>7
  <2>4. QED
    BY <2>2, <2>3
<1> HIDE DEF Told
<1>6. MaxSlots \in T
  <2>1. T \in SUBSET Nat /\ 0 \in T
    BY <1>4, SlotFacts
  <2>2. \A n \in 1..MaxSlots : n - 1 \in T => n \in T
    BY <1>5, SlotFacts
  <2> HIDE DEF T
  <2>3. \A n \in 0..MaxSlots : n \in T
    BY <2>1, <2>2, SlotFacts, InductUpto
  <2>4. QED
    BY <2>3, SlotFacts
<1>7. Shown(MaxSlots)[o] = IF Forwards(s, o) THEN cache[o].id ELSE view[o]
  <2>1. o <= MaxSlots
    BY <1>3, SlotFacts
  <2>2. QED
    BY <1>6, <2>1 DEF Told
<1>8. Forwarded(s) = from[MaxSlots] /\ MaxSlots \in 0..MaxSlots
  BY <1>1, SlotFacts DEF ForwardRun
<1>9. QED
  BY <1>2, <1>7, <1>8 DEF Shown

----------------------------------------------------------------------------
(* What everyone is sent when the round starts over.                       *)

DestroyRun(upTo) ==
  /\ upTo \in [0..MaxSlots -> Seq(Messages)] /\ upTo[0] = <<>>
  /\ \A n \in Slots :
       upTo[n] = IF HasShip(n) THEN Append(upTo[n - 1], Notice("DestroyObj", ship[n])) ELSE upTo[n - 1]
  /\ Destroyed = upTo[MaxSlots]

LEMMA DestroysRun ==
  ASSUME ShipsOk
  PROVE  \E upTo : DestroyRun(upTo)
<1> DEFINE A == Seq(Messages)
           step == [a \in (1..MaxSlots) \X A |->
                      IF HasShip(a[1]) THEN Append(a[2], Notice("DestroyObj", ship[a[1]])) ELSE a[2]]
           Defines(upTo) ==
             upTo = [n \in 0..MaxSlots |->
                       IF n = 0 THEN <<>>
                       ELSE IF HasShip(n) THEN Append(upTo[n - 1], Notice("DestroyObj", ship[n]))
                            ELSE upTo[n - 1]]
<1>1. Destroyed = (CHOOSE upTo : Defines(upTo))[MaxSlots]
  BY DEF Destroyed
<1>2. \A n \in 1..MaxSlots : HasShip(n) => Notice("DestroyObj", ship[n]) \in Messages
  BY SlotFacts DEF ShipsOk, HasShip, Messages, Removals
<1>3. step \in [(1..MaxSlots) \X A -> A] /\ <<>> \in A
  BY <1>2
<1>31. \A n \in 1..MaxSlots, q \in A :
         step[<<n, q>>] = IF HasShip(n) THEN Append(q, Notice("DestroyObj", ship[n])) ELSE q
  OBVIOUS
<1> HIDE DEF step
<1>4. PICK h \in [SUBSET (1..MaxSlots) -> A], v \in [0..MaxSlots -> A] :
        FoldRun(MaxSlots, A, <<>>, step, h, v)
  BY <1>3, SlotFacts, FoldRuns
<1>5. v[0] = <<>> /\ \A n \in 1..MaxSlots : v[n] = step[<<n, v[n - 1]>>] /\ v[n - 1] \in A
  <2>1. Runs(MaxSlots, A, <<>>, step, v)
    BY <1>4, Zenon DEF FoldRun
  <2> HIDE DEF A
  <2>2. v[0] = <<>> /\ \A n \in 1..MaxSlots : v[n] = step[<<n, v[n - 1]>>]
    BY <2>1, Zenon DEF Runs
  <2>3. \A n \in 1..MaxSlots : n - 1 \in 0..MaxSlots
    BY SlotFacts
  <2>4. \A n \in 1..MaxSlots : v[n - 1] \in A
    BY <1>4, <2>3
  <2>5. QED
    BY <2>2, <2>4, Zenon
<1>6. \A n \in 1..MaxSlots :
        v[n] = IF HasShip(n) THEN Append(v[n - 1], Notice("DestroyObj", ship[n])) ELSE v[n - 1]
  BY <1>5, <1>31
<1>7. Defines(v)
  <2>1. ASSUME NEW n \in 0..MaxSlots
        PROVE  v[n] = IF n = 0 THEN <<>>
                      ELSE IF HasShip(n) THEN Append(v[n - 1], Notice("DestroyObj", ship[n]))
                           ELSE v[n - 1]
    <3>1. n = 0 \/ n \in 1..MaxSlots
      BY SlotFacts
    <3>2. CASE n = 0
      BY <3>2, <1>5
    <3>3. CASE n # 0
      BY <3>1, <3>3, <1>6
    <3>4. QED
      BY <3>2, <3>3
  <2>2. v = [n \in 0..MaxSlots |-> v[n]]
    BY <1>4
  <2>3. QED
    BY <2>1, <2>2
<1> DEFINE upTo == CHOOSE f : Defines(f)
<1> HIDE DEF Defines
<1>8. Defines(upTo)
  BY <1>7
<1> HIDE DEF upTo
<1>9. /\ upTo[0] = <<>>
      /\ \A n \in 1..MaxSlots :
           upTo[n] = IF HasShip(n) THEN Append(upTo[n - 1], Notice("DestroyObj", ship[n]))
                     ELSE upTo[n - 1]
  <2>1. upTo = [n \in 0..MaxSlots |->
                  IF n = 0 THEN <<>>
                  ELSE IF HasShip(n) THEN Append(upTo[n - 1], Notice("DestroyObj", ship[n]))
                       ELSE upTo[n - 1]]
    BY <1>8 DEF Defines
  <2>2. 0 \in 0..MaxSlots
    BY SlotFacts
  <2>3. upTo[0] = <<>>
    BY <2>1, <2>2
  <2>4. ASSUME NEW n \in 1..MaxSlots
        PROVE  upTo[n] = IF HasShip(n) THEN Append(upTo[n - 1], Notice("DestroyObj", ship[n]))
                         ELSE upTo[n - 1]
    <3>1. n \in 0..MaxSlots /\ n # 0
      BY SlotFacts
    <3>2. QED
      BY <2>1, <3>1
  <2>5. QED
    BY <2>3, <2>4
<1>10. \A n \in 0..MaxSlots : upTo[n] \in A
  <2> DEFINE T == {n \in 0..MaxSlots : upTo[n] \in A}
  <2>1. T \in SUBSET Nat /\ 0 \in T
    <3>1. 0 \in 0..MaxSlots /\ 0..MaxSlots \in SUBSET Nat
      BY SlotFacts
    <3>2. upTo[0] \in A
      BY <1>3, <1>9
    <3> HIDE DEF A
    <3>3. QED
      BY <3>1, <3>2
  <2>2. ASSUME NEW n \in 1..MaxSlots, n - 1 \in T PROVE n \in T
    <3>1. n \in 0..MaxSlots /\ upTo[n - 1] \in A
      BY <2>2, SlotFacts
    <3>2. HasShip(n) => Append(upTo[n - 1], Notice("DestroyObj", ship[n])) \in A
      BY <1>2, <3>1
    <3>3. upTo[n] \in A
      <4> HIDE DEF A
      <4> QED
        BY <1>9, <3>1, <3>2
    <3>4. QED
      BY <3>1, <3>3
  <2> HIDE DEF T
  <2>3. \A n \in 0..MaxSlots : n \in T
    BY <2>1, <2>2, SlotFacts, InductUpto
  <2>4. QED
    BY <2>3 DEF T
<1>11. upTo \in [0..MaxSlots -> A]
  <2>1. DOMAIN upTo = 0..MaxSlots /\ upTo = [n \in 0..MaxSlots |-> upTo[n]]
    BY <1>8 DEF Defines
  <2>2. QED
    BY <1>10, <2>1
<1>12. Destroyed = upTo[MaxSlots]
  BY <1>1 DEF upTo
<1>13. QED
  BY <1>9, <1>11, <1>12, SlotFacts DEF DestroyRun

LEMMA DestroyedShows ==
  ASSUME ShipsOk, NEW view \in Views, NEW o \in Slots
  PROVE  /\ Destroyed \in Seq(Messages)
         /\ FoldLeft(Seen, view, Destroyed)[o] =
              IF HasShip(o) /\ view[o] = ship[o] THEN NoShip ELSE view[o]
<1>1. PICK upTo : DestroyRun(upTo)
  BY DestroysRun
<1> DEFINE Shown(n) == FoldLeft(Seen, view, upTo[n])
           Gone(n) == o <= n /\ HasShip(o) /\ view[o] = ship[o]
           Told(n) == IF Gone(n) THEN NoShip ELSE view[o]
           T == {n \in 0..MaxSlots : Shown(n)[o] = Told(n)}
<1>2. \A n \in 0..MaxSlots : upTo[n] \in Seq(Messages) /\ Shown(n) \in Views
  BY <1>1, FoldTyped DEF DestroyRun
<1>3. o \in 1..MaxSlots
  BY SlotFacts
<1>4. Shown(0)[o] = Told(0)
  <2>1. Shown(0) = view
    BY <1>1, FoldOfNothing DEF DestroyRun
  <2>2. Told(0) = view[o]
    BY <1>3
  <2>3. QED
    BY <2>1, <2>2
<1> HIDE DEF Shown
<1>5. ASSUME NEW n \in 1..MaxSlots, Shown(n - 1)[o] = Told(n - 1)
      PROVE  Shown(n)[o] = Told(n)
  <2>1. n \in Slots /\ n - 1 \in 0..MaxSlots /\ o \in Int /\ n \in Int
    BY <1>3, SlotFacts
  <2>2. CASE ~ HasShip(n)
    <3>1. Shown(n) = Shown(n - 1)
      BY <1>1, <2>1, <2>2 DEF DestroyRun, Shown
    <3>2. Told(n) = Told(n - 1)
      BY <2>1, <2>2
    <3>3. QED
      BY <1>5, <3>1, <3>2
  <2>3. CASE HasShip(n)
    <3> DEFINE m == Notice("DestroyObj", ship[n])
    <3>1. upTo[n] = Append(upTo[n - 1], m)
      BY <1>1, <2>1, <2>3 DEF DestroyRun
    <3>2. ship[n] \in ObjectIds /\ ship[n][1] = n /\ m \in Messages
      BY <2>1, <2>3 DEF HasShip, ShipsOk, ShipOf, Owned, Messages, Removals
    <3>21. m.kind = "DestroyObj" /\ m.id = ship[n]
      BY DEF Notice
    <3> HIDE DEF m
    <3>3. Shown(n) = Seen(Shown(n - 1), m)
      BY <1>2, <2>1, <3>1, <3>2, FoldAppend DEF Shown
    <3>4. Shown(n)[o] = Says(m, o, Shown(n - 1)[o])
      BY <1>2, <2>1, <3>2, <3>3, SeenAt
    <3>5. Shown(n)[o] = IF Told(n - 1) = ship[n] THEN NoShip ELSE Told(n - 1)
      BY <1>5, <3>4, <3>21 DEF Says
    <3>6. CASE n # o
      <4>1. Told(n) = Told(n - 1)
        BY <2>1, <3>6
      <4>2. Told(n - 1) # ship[n]
        <5>1. view[o] = NoShip \/ view[o][1] = o
          BY DEF Views, ShipOf, Owned
        <5>2. ship[n] # NoShip /\ ship[n][1] # o
          BY <3>2, <3>6, SlotFacts
        <5>3. QED
          BY <5>1, <5>2
      <4>3. QED
        BY <3>5, <4>1, <4>2
    <3>7. CASE n = o
      <4>1. Told(n) = IF view[o] = ship[o] THEN NoShip ELSE view[o]
        BY <2>1, <2>3, <3>7
      <4>2. Told(n - 1) = view[o]
        BY <2>1, <3>7
      <4> HIDE DEF Told
      <4>3. QED
        BY <3>5, <3>7, <4>1, <4>2
    <3>8. QED
      BY <3>6, <3>7
  <2>4. QED
    BY <2>2, <2>3
<1> HIDE DEF Told
<1>6. MaxSlots \in T
  <2>1. T \in SUBSET Nat /\ 0 \in T
    BY <1>4, SlotFacts
  <2>2. \A n \in 1..MaxSlots : n - 1 \in T => n \in T
    BY <1>5, SlotFacts
  <2> HIDE DEF T
  <2>3. \A n \in 0..MaxSlots : n \in T
    BY <2>1, <2>2, SlotFacts, InductUpto
  <2>4. QED
    BY <2>3, SlotFacts
<1>7. Shown(MaxSlots)[o] = IF HasShip(o) /\ view[o] = ship[o] THEN NoShip ELSE view[o]
  <2>1. o <= MaxSlots
    BY <1>3, SlotFacts
  <2>2. QED
    BY <1>6, <2>1 DEF Told
<1>8. Destroyed = upTo[MaxSlots] /\ MaxSlots \in 0..MaxSlots
  BY <1>1, SlotFacts DEF DestroyRun
<1>9. QED
  BY <1>2, <1>7, <1>8 DEF Shown

----------------------------------------------------------------------------
(* Types.                                                                  *)

LEMMA NoShipsFacts == NoShips \in Views /\ \A o \in Slots : NoShips[o] = NoShip
  BY DEF NoShips, Views, ShipOf

LEMMA TypesStart == Init => TypesOk
<1> SUFFICES ASSUME Init PROVE TypesOk
  OBVIOUS
<1>1. PeersOk /\ ShipsOk /\ CacheOk /\ MailOk
  BY DEF Init, PeersOk, ShipsOk, ShipOf, HasShip, CacheOk, MailOk
<1>2. SentOk
  BY DEF Init, SentOk
<1>3. ShownOk
  BY NoShipsFacts DEF Init, ShownOk, NoShips
<1>4. BoundsOk
  BY ReplicationAssumption DEF Init, BoundsOk
<1>5. QED
  BY <1>1, <1>2, <1>3, <1>4 DEF TypesOk

(* Sending.                                                                *)
LEMMA SendingFacts ==
  ASSUME SentOk, NEW messages \in Seq(Messages)
  PROVE  /\ ToAll(messages) \in [Slots -> Seq(Messages)]
         /\ \A s \in Slots : ToAll(messages)[s] =
              IF s \in InLobby THEN toClient[s] \o messages ELSE toClient[s]
         /\ \A t \in Slots :
              /\ ToOthers(t, messages) \in [Slots -> Seq(Messages)]
              /\ \A s \in Slots : ToOthers(t, messages)[s] =
                   IF s \in InLobby /\ s # t THEN toClient[s] \o messages ELSE toClient[s]
<1>1. \A s \in Slots : toClient[s] \in Seq(Messages) /\ toClient[s] \o messages \in Seq(Messages)
  BY DEF SentOk
<1>2. /\ ToAll(messages) \in [Slots -> Seq(Messages)]
      /\ \A s \in Slots : ToAll(messages)[s] =
           IF s \in InLobby THEN toClient[s] \o messages ELSE toClient[s]
  BY <1>1 DEF ToAll
<1> DEFINE all == ToAll(messages)
<1> HIDE DEF all
<1>3. ASSUME NEW t \in Slots
      PROVE  /\ ToOthers(t, messages) \in [Slots -> Seq(Messages)]
             /\ \A s \in Slots : ToOthers(t, messages)[s] =
                  IF s \in InLobby /\ s # t THEN toClient[s] \o messages ELSE toClient[s]
  <2>1. ToOthers(t, messages) = [all EXCEPT ![t] = toClient[t]]
    BY DEF ToOthers, all
  <2>2. all \in [Slots -> Seq(Messages)]
    BY <1>2 DEF all
  <2>3. ToOthers(t, messages) \in [Slots -> Seq(Messages)]
    BY <1>1, <2>1, <2>2
  <2>4. \A s \in Slots : ToOthers(t, messages)[s] = IF s = t THEN toClient[t] ELSE all[s]
    BY <2>1, <2>2
  <2>5. QED
    BY <1>2, <2>3, <2>4 DEF all
<1>4. QED
  BY <1>2, <1>3

LEMMA OneMessage ==
  ASSUME NEW m \in Messages
  PROVE  <<m>> \in Seq(Messages)
  OBVIOUS

LEMMA NoticesAreMessages ==
  ASSUME NEW id \in ObjectIds
  PROVE  /\ Notice("DestroyObj", id) \in Messages /\ Notice("Exploding", id) \in Messages
         /\ Notice("NotFound", id) \in Messages
  BY DEF Messages, Removals

LEMMA FirstFree ==
  ASSUME Connect
  PROVE  \E s \in Slots :
           /\ s = Min({i \in Slots : peers[i] = "empty"}) /\ peers[s] = "empty"
<1> DEFINE T == {i \in Slots : peers[i] = "empty"}
<1>1. T # {} /\ T \in SUBSET Nat
  BY SlotFacts DEF Connect
<1> HIDE DEF T
<1>2. \E s \in T : \A i \in T : s <= i
  BY <1>1, Smallest
<1>3. Min(T) \in T
  BY <1>2 DEF Min
<1>4. QED
  BY <1>3 DEF T

(* What a handled message leaves as it was.                                *)
LEMMA ReceivedFacts ==
  ASSUME MailOk, BoundsOk, NEW s \in Slots, NEW m, Received(s, m)
  PROVE  MailOk' /\ peers[s] = "lobby" /\ m \in toServer[s] /\ course'.objects = course.objects
         /\ course' \in [kinds : SUBSET Creations, objects : 0..MaxShips, joins : Nat,
                         requests : Nat, duplicates : Nat]
<1>1. peers[s] = "lobby" /\ m \in toServer[s]
  BY DEF Received
<1>2. MailOk'
  BY DEF Received, MailOk
<1>3. /\ course'.objects = course.objects
      /\ course' \in [kinds : SUBSET Creations, objects : 0..MaxShips, joins : Nat,
                      requests : Nat, duplicates : Nat]
  BY DEF Received, BoundsOk
<1>4. QED
  BY <1>1, <1>2, <1>3

LEMMA CreatedFacts ==
  ASSUME NEW m \in Created
  PROVE  /\ m \in Messages /\ m.kind \in Creations /\ m.owner \in Slots
         /\ Owned(m.id, m.owner) /\ m.id # NoShip /\ m # NotCached
<1>1. /\ m \in Messages /\ m.kind \in Creations /\ m.owner \in Slots
      /\ Owned(m.id, m.owner) /\ m.id # NoShip
  BY SlotFacts DEF Created, Creation, Messages, ObjectIds, Owned
<1>2. m # NotCached
  BY ReplicationAssumption DEF Created, Creation, ObjectIds
<1>3. QED
  BY <1>1, <1>2

LEMMA RunsOfNotices ==
  ASSUME ShipsOk, NEW o \in Slots
  PROVE  /\ HasShip(o) => Owned(ship[o], o) /\ Notice("Exploding", ship[o]) \in Messages
         /\ HasShip(o) => Owned(objectId[o], o) /\ Notice("DestroyObj", objectId[o]) \in Messages
  BY NoticesAreMessages DEF ShipsOk, ShipOf, Owned, HasShip

ShipsKept == ship' = ship /\ objectId' = objectId
LEMMA ShipsStay ==
  ASSUME ShipsOk, ShipsKept
  PROVE  ShipsOk'
  BY DEF ShipsOk, ShipsKept, HasShip

(* A slot is wiped, or its ship is gone.                                   *)
LEMMA ShipsGo ==
  ASSUME ShipsOk, NEW s \in Slots, ship' = [ship EXCEPT ![s] = NoShip],
         objectId' = objectId \/ objectId' = [objectId EXCEPT ![s] = NoShip]
  PROVE  ShipsOk'
  BY DEF ShipsOk, HasShip, ShipOf

LEMMA TypesConnect ==
  ASSUME TypesOk, Connect
  PROVE  TypesOk'
<1>1. PICK s \in Slots :
        /\ s = Min({i \in Slots : peers[i] = "empty"}) /\ peers[s] = "empty"
  BY FirstFree
<1>2. /\ peers' = [peers EXCEPT ![s] = "joining"]
      /\ ship' = [ship EXCEPT ![s] = NoShip] /\ objectId' = [objectId EXCEPT ![s] = NoShip]
      /\ cache' = [cache EXCEPT ![s] = NotCached]
      /\ toServer' = [toServer EXCEPT ![s] = {}]
      /\ toClient' = [toClient EXCEPT ![s] = <<>>]
      /\ shows' = [shows EXCEPT ![s] = NoShips]
      /\ made' = [made EXCEPT ![s] = 0]
      /\ course.joins > 0 /\ course' = [course EXCEPT !.joins = @ - 1]
  BY <1>1 DEF Connect, NoShips
<1>3. PeersOk'
  BY <1>2 DEF TypesOk, PeersOk
<1>4. ShipsOk'
  BY <1>2, ShipsGo DEF TypesOk
<1>5. CacheOk'
  BY <1>2 DEF TypesOk, CacheOk
<1>6. MailOk'
  BY <1>2 DEF TypesOk, MailOk
<1>7. SentOk'
  BY <1>2 DEF TypesOk, SentOk
<1>8. ShownOk'
  BY <1>2, NoShipsFacts DEF TypesOk, ShownOk
<1>9. BoundsOk'
  <2>1. made' \in [Slots -> Nat]
    BY <1>2 DEF TypesOk, BoundsOk
  <2>2. /\ course \in [kinds : SUBSET Creations, objects : 0..MaxShips, joins : Nat,
                       requests : Nat, duplicates : Nat]
        /\ course.joins - 1 \in Nat
    BY <1>2 DEF TypesOk, BoundsOk
  <2>3. course' \in [kinds : SUBSET Creations, objects : 0..MaxShips, joins : Nat,
                     requests : Nat, duplicates : Nat]
    BY <1>2, <2>2
  <2>4. QED
    BY <2>1, <2>3 DEF BoundsOk
<1>10. QED
  BY <1>3, <1>4, <1>5, <1>6, <1>7, <1>8, <1>9 DEF TypesOk

LEMMA TypesEntersLobby ==
  ASSUME TypesOk, NEW s \in Slots, EntersLobby(s)
  PROVE  TypesOk'
<1>1. PeersOk'
  BY DEF TypesOk, PeersOk, EntersLobby
<1>2. ShipsOk' /\ CacheOk' /\ MailOk' /\ ShownOk' /\ BoundsOk'
  BY ShipsStay DEF TypesOk, EntersLobby, ShipsKept, CacheOk, MailOk, ShownOk, BoundsOk
<1>3. SentOk'
  <2>1. Forwarded(s) \in Seq(Messages)
    BY NoShipsFacts, ForwardedShows DEF TypesOk
  <2> DEFINE more == Forwarded(s)
  <2>2. toClient' = [toClient EXCEPT ![s] = toClient[s] \o more] /\ SentOk
    BY DEF EntersLobby, TypesOk, SentOk
  <2> HIDE DEF more
  <2>3. more \in Seq(Messages)
    BY <2>1 DEF more
  <2>4. QED
    BY <2>2, <2>3 DEF SentOk
<1>4. QED
  BY <1>1, <1>2, <1>3 DEF TypesOk

(* What leaving sends, before the slot is wiped.                           *)
LEMMA LeavingFacts ==
  ASSUME TypesOk, NEW s \in Slots, Disconnect(s)
  PROVE  /\ toClient' \in [Slots -> Seq(Messages)] /\ toClient'[s] = <<>>
         /\ \A t \in Slots \ {s} : toClient'[t] =
              IF t \in InLobby /\ s \in InLobby /\ HasShip(s)
                THEN toClient[t] \o <<Notice("DestroyObj", objectId[s])>> ELSE toClient[t]
<1> DEFINE told == ToOthers(s, <<Notice("DestroyObj", objectId[s])>>)
           sent == IF s \in InLobby /\ HasShip(s) THEN told ELSE toClient
<1>1. toClient' = [sent EXCEPT ![s] = <<>>]
  BY DEF Disconnect
<1>2. CASE s \in InLobby /\ HasShip(s)
  <2>1. Notice("DestroyObj", objectId[s]) \in Messages /\ SentOk
    BY <1>2, RunsOfNotices DEF TypesOk
  <2>2. <<Notice("DestroyObj", objectId[s])>> \in Seq(Messages)
    BY <2>1, OneMessage
  <2>3. /\ told \in [Slots -> Seq(Messages)]
        /\ \A t \in Slots : told[t] =
             IF t \in InLobby /\ t # s THEN toClient[t] \o <<Notice("DestroyObj", objectId[s])>>
             ELSE toClient[t]
    BY <2>1, <2>2, SendingFacts
  <2> HIDE DEF told
  <2>4. sent = told
    BY <1>2
  <2> HIDE DEF sent
  <2>5. QED
    BY <1>1, <1>2, <2>3, <2>4
<1>3. CASE ~ (s \in InLobby /\ HasShip(s))
  <2>1. sent = toClient /\ toClient \in [Slots -> Seq(Messages)]
    BY <1>3 DEF TypesOk, SentOk
  <2> HIDE DEF sent
  <2>2. QED
    BY <1>1, <1>3, <2>1
<1>4. QED
  BY <1>2, <1>3

LEMMA TypesDisconnect ==
  ASSUME TypesOk, NEW s \in Slots, Disconnect(s)
  PROVE  TypesOk'
<1>1. PeersOk' /\ CacheOk' /\ MailOk' /\ ShownOk' /\ BoundsOk'
  BY DEF TypesOk, PeersOk, CacheOk, MailOk, ShownOk, BoundsOk, Disconnect
<1>2. ShipsOk'
  BY ShipsGo DEF TypesOk, Disconnect
<1>3. SentOk'
  BY LeavingFacts DEF SentOk
<1>4. QED
  BY <1>1, <1>2, <1>3 DEF TypesOk

LEMMA TypesObjCreate ==
  ASSUME TypesOk, NEW s \in Slots, NEW m \in toServer[s], ObjCreate(s, m)
  PROVE  TypesOk' /\ m.owner = s
<1>1. m \in Created /\ Received(s, m) /\ m.owner = s
  BY DEF ObjCreate, TypesOk, MailOk
<1>2. /\ m \in Messages /\ m.kind \in Creations /\ m.owner \in Slots
      /\ Owned(m.id, s) /\ m.id # NoShip
  BY <1>1, CreatedFacts
<1>3. MailOk' /\ BoundsOk'
  BY <1>1, ReceivedFacts DEF TypesOk, BoundsOk, ObjCreate
<1>4. PeersOk' /\ ShownOk'
  BY DEF ObjCreate, TypesOk, PeersOk, ShownOk
<1>5. CacheOk'
  BY <1>1 DEF ObjCreate, TypesOk, CacheOk
<1>6. ShipsOk'
  <2>1. Owned(FirstId(s), s) /\ FirstId(s) # NoShip
    BY ReplicationAssumption DEF FirstId, Owned, ObjectIds
  <2> DEFINE id == IF m.kind = "object" THEN FirstId(s) ELSE m.id
  <2>2. Owned(id, s) /\ id # NoShip /\ objectId' = [objectId EXCEPT ![s] = id]
    BY <1>2, <2>1 DEF ObjCreate
  <2> HIDE DEF id
  <2>3. ship' = ship \/ ship' = [ship EXCEPT ![s] = m.id]
    BY DEF ObjCreate
  <2>4. QED
    BY <1>2, <2>2, <2>3 DEF TypesOk, ShipsOk, ShipOf, Owned, HasShip
<1>7. SentOk'
  <2>1. toClient' = ToOthers(s, <<m>>) /\ SentOk
    BY DEF ObjCreate, TypesOk
  <2>2. QED
    BY <1>2, <2>1, OneMessage, SendingFacts DEF SentOk
<1>8. QED
  BY <1>1, <1>3, <1>4, <1>5, <1>6, <1>7 DEF TypesOk

LEMMA TypesDestroyObj ==
  ASSUME TypesOk, NEW s \in Slots, NEW m, DestroyObj(s, m)
  PROVE  TypesOk'
<1>1. m \in Removals /\ Received(s, m) /\ toClient' = ToOthers(s, <<m>>)
  BY DEF DestroyObj
<1>2. MailOk' /\ BoundsOk'
  BY <1>1, ReceivedFacts DEF DestroyObj, TypesOk, BoundsOk
<1>3. PeersOk' /\ ShownOk' /\ CacheOk' /\ ShipsOk'
  BY ShipsStay DEF DestroyObj, serverVars, TypesOk, PeersOk, ShownOk, CacheOk, ShipsKept
<1>4. m \in Messages /\ SentOk
  BY <1>1 DEF Messages, TypesOk
<1>5. SentOk'
  BY <1>1, <1>4, OneMessage, SendingFacts DEF SentOk
<1>6. QED
  BY <1>2, <1>3, <1>5 DEF TypesOk

LEMMA TypesDies ==
  ASSUME TypesOk, NEW s \in Slots, HasShip(s), Dies(s)
  PROVE  PeersOk' /\ ShipsOk' /\ CacheOk' /\ ShownOk' /\ SentOk' /\ made' = made
<1>1. PeersOk' /\ CacheOk' /\ ShownOk' /\ made' = made
  BY DEF Dies, TypesOk, PeersOk, CacheOk, ShownOk
<1>2. ShipsOk'
  BY ShipsGo DEF Dies, TypesOk
<1>3. SentOk'
  <2>1. <<Notice("Exploding", ship[s])>> \in Seq(Messages)
    BY RunsOfNotices, OneMessage DEF TypesOk
  <2>2. toClient' = ToAll(<<Notice("Exploding", ship[s])>>) /\ SentOk
    BY DEF Dies, TypesOk
  <2>3. QED
    BY <2>1, <2>2, SendingFacts DEF SentOk
<1>4. QED
  BY <1>1, <1>2, <1>3

LEMMA TypesSelfDestruct ==
  ASSUME TypesOk, NEW s \in Slots, SelfDestruct(s)
  PROVE  TypesOk'
<1> DEFINE m == [kind |-> "HostMsg"]
<1>1. Received(s, m)
  BY DEF SelfDestruct
<1> HIDE DEF m
<1>3. PeersOk' /\ ShipsOk' /\ CacheOk' /\ ShownOk' /\ SentOk' /\ made' = made
  <2>1. CASE Alive(s)
    BY <2>1, TypesDies DEF SelfDestruct, Alive
  <2>2. CASE ~ Alive(s)
    BY <2>2, ShipsStay DEF SelfDestruct, serverVars, TypesOk, PeersOk, CacheOk, ShownOk, SentOk, ShipsKept
  <2>3. QED
    BY <2>1, <2>2
<1>4. MailOk' /\ BoundsOk'
  BY <1>1, <1>3, ReceivedFacts DEF TypesOk, BoundsOk
<1>5. QED
  BY <1>3, <1>4 DEF TypesOk

LEMMA TypesRestart ==
  ASSUME TypesOk, NEW s \in Slots, Restart(s)
  PROVE  TypesOk'
<1> DEFINE m == [kind |-> "Restart"]
<1>1. Received(s, m)
  BY DEF Restart
<1> HIDE DEF m
<1>2. MailOk' /\ BoundsOk'
  BY <1>1, ReceivedFacts DEF Restart, TypesOk, BoundsOk
<1>3. PeersOk' /\ ShownOk' /\ CacheOk'
  BY DEF Restart, serverVars, TypesOk, PeersOk, ShownOk, CacheOk
<1>4. ShipsOk'
  <2>1. CASE s = 1
    BY <2>1 DEF Restart, TypesOk, ShipsOk, HasShip, ShipOf
  <2>2. CASE s # 1
    BY <2>2, ShipsStay DEF Restart, serverVars, TypesOk, ShipsKept
  <2>3. QED
    BY <2>1, <2>2
<1>5. SentOk'
  <2>1. Destroyed \in Seq(Messages) /\ SentOk
    BY NoShipsFacts, DestroyedShows DEF TypesOk
  <2>2. toClient' = ToAll(Destroyed) \/ toClient' = toClient
    BY DEF Restart
  <2>3. QED
    BY <2>1, <2>2, SendingFacts DEF SentOk
<1>6. QED
  BY <1>2, <1>3, <1>4, <1>5 DEF TypesOk

(* What a request is answered with.                                        *)
Answer(id) ==
  IF HasShip(id[1]) /\ cache[id[1]] # NotCached THEN cache[id[1]] ELSE Notice("NotFound", id)

LEMMA AnswerFacts ==
  ASSUME TypesOk, NEW s \in Slots, NEW id \in ObjectIds, RequestObj(s, id)
  PROVE  /\ Answer(id) \in Messages
         /\ toClient' = [toClient EXCEPT ![s] = Append(toClient[s], Answer(id))]
<1>1. id[1] \in Slots
  BY SlotFacts
<1>2. Answer(id) \in Messages
  BY <1>1, NoticesAreMessages, CreatedFacts DEF TypesOk, CacheOk, Answer
<1>3. toClient' = [toClient EXCEPT ![s] = Append(toClient[s], Answer(id))]
  BY DEF RequestObj, Answer, TypesOk, SentOk
<1>4. QED
  BY <1>2, <1>3

LEMMA TypesRequestObj ==
  ASSUME TypesOk, NEW s \in Slots, NEW id \in ObjectIds, RequestObj(s, id)
  PROVE  TypesOk'
<1> DEFINE m == Notice("RequestObj", id)
<1>1. Received(s, m)
  BY DEF RequestObj
<1> HIDE DEF m
<1>2. MailOk' /\ BoundsOk'
  BY <1>1, ReceivedFacts DEF RequestObj, TypesOk, BoundsOk
<1>3. PeersOk' /\ ShownOk' /\ CacheOk' /\ ShipsOk'
  BY ShipsStay DEF RequestObj, serverVars, TypesOk, PeersOk, ShownOk, CacheOk, ShipsKept
<1>4. SentOk'
  <2>1. /\ Answer(id) \in Messages /\ SentOk
        /\ toClient' = [toClient EXCEPT ![s] = Append(toClient[s], Answer(id))]
    BY AnswerFacts DEF TypesOk
  <2> DEFINE answer == Answer(id)
  <2> HIDE DEF answer
  <2>2. answer \in Messages /\ toClient' = [toClient EXCEPT ![s] = Append(toClient[s], answer)]
    BY <2>1 DEF answer
  <2>3. Append(toClient[s], answer) \in Seq(Messages)
    BY <2>1, <2>2 DEF SentOk
  <2>4. QED
    BY <2>1, <2>2, <2>3 DEF SentOk
<1>5. QED
  BY <1>2, <1>3, <1>4 DEF TypesOk

LEMMA TypesKilled ==
  ASSUME TypesOk, NEW s \in Slots, Killed(s)
  PROVE  TypesOk'
<1>1. PeersOk' /\ ShipsOk' /\ CacheOk' /\ ShownOk' /\ SentOk' /\ made' = made
  BY TypesDies DEF Killed, Alive
<1>2. MailOk' /\ BoundsOk'
  BY <1>1 DEF Killed, TypesOk, MailOk, BoundsOk
<1>3. QED
  BY <1>1, <1>2 DEF TypesOk

LEMMA TypesReceives ==
  ASSUME TypesOk, NEW s \in Slots, ClientReceives(s)
  PROVE  TypesOk' /\ shows' = [shows EXCEPT ![s] = Pending(s)] /\ Pending(s) \in Views
<1>1. PeersOk' /\ ShipsOk' /\ CacheOk' /\ MailOk' /\ BoundsOk'
  BY ShipsStay DEF ClientReceives, serverVars, TypesOk, PeersOk, CacheOk, MailOk, BoundsOk, ShipsKept
<1>2. SentOk'
  BY DEF ClientReceives, TypesOk, SentOk
<1>3. shows' = [shows EXCEPT ![s] = Pending(s)] /\ Pending(s) \in Views
  BY FoldTyped DEF ClientReceives, TypesOk, SentOk, ShownOk, Pending
<1>4. ShownOk'
  BY <1>3 DEF TypesOk, ShownOk
<1>5. QED
  BY <1>1, <1>2, <1>3, <1>4 DEF TypesOk

LEMMA TypesCreates ==
  ASSUME TypesOk, NEW s \in Slots, NEW kind \in Creations, ClientCreates(s, kind)
  PROVE  /\ TypesOk'
         /\ \A t \in Slots, o \in Slots \ {s} : shows'[t][o] = shows[t][o]
<1> DEFINE m == Creation(s, <<s, made[s]>>, kind)
<1>1. made[s] \in 0..(MaxShips - 1)
  BY SlotFacts DEF ClientCreates, TypesOk, BoundsOk
<1>2. m \in Created /\ m \in Messages /\ m.owner = s
  BY <1>1 DEF Created, Creation, Messages, ObjectIds
<1>3. /\ toServer' = [toServer EXCEPT ![s] = @ \cup {m}]
      /\ shows' = [shows EXCEPT ![s] = Seen(shows[s], m)]
      /\ made' = [made EXCEPT ![s] = @ + 1]
  BY DEF ClientCreates, TypesOk, ShownOk
<1> HIDE DEF m
<1>4. PeersOk' /\ ShipsOk' /\ CacheOk' /\ SentOk' /\ BoundsOk'
  BY <1>3, ShipsStay
     DEF ClientCreates, serverVars, TypesOk, PeersOk, CacheOk, SentOk, BoundsOk, ShipsKept
<1>5. MailOk'
  BY <1>2, <1>3 DEF TypesOk, MailOk, Requests
<1>6. Seen(shows[s], m) \in Views
  BY <1>2, SeenTyped DEF TypesOk, ShownOk
<1>7. ShownOk'
  BY <1>3, <1>6 DEF TypesOk, ShownOk
<1>8. ASSUME NEW t \in Slots, NEW o \in Slots \ {s} PROVE shows'[t][o] = shows[t][o]
  <2>1. Seen(shows[s], m)[o] = Says(m, o, shows[s][o])
    BY <1>2, SeenAt DEF TypesOk, ShownOk
  <2>2. Says(m, o, shows[s][o]) = shows[s][o]
    BY <1>2, CreatedFacts DEF Says, Creations
  <2>3. QED
    BY <1>3, <2>1, <2>2 DEF TypesOk, ShownOk
<1>9. QED
  BY <1>4, <1>5, <1>7, <1>8 DEF TypesOk

LEMMA RequestFacts ==
  /\ Requests = Created \cup Removals \cup Questions
  /\ Created \cap (Removals \cup Questions) = {}
  /\ \A m \in Removals : m \in Messages /\ m.id \in ObjectIds /\ m.kind \in {"DestroyObj", "Exploding"}
<1>1. \A m \in Created : m.kind \in {"ship", "unknown", "large", "object"}
  BY CreatedFacts DEF Creations
<1>2. \A m \in Removals : m \in Messages /\ m.id \in ObjectIds /\ m.kind \in {"DestroyObj", "Exploding"}
  BY DEF Removals, Notice, Messages
<1>3. \A m \in Questions : m.kind \in {"RequestObj", "HostMsg", "Restart"}
  BY DEF Questions, Notice
<1>4. QED
  BY <1>1, <1>2, <1>3 DEF Requests

(* A client shows no more than before.                                     *)
LEMMA TypesDestroys ==
  ASSUME TypesOk, NEW s \in Slots, NEW m \in Removals, ClientDestroys(s, m)
  PROVE  /\ TypesOk' /\ shows' = [shows EXCEPT ![s] = Seen(shows[s], m)]
         /\ \A o \in Slots : shows'[s][o] = Says(m, o, shows[s][o])
<1>1. PeersOk' /\ ShipsOk' /\ CacheOk' /\ SentOk'
  BY ShipsStay DEF ClientDestroys, serverVars, TypesOk, PeersOk, CacheOk, SentOk, ShipsKept
<1>2. MailOk'
  BY RequestFacts DEF ClientDestroys, TypesOk, MailOk
<1>3. BoundsOk'
  BY DEF ClientDestroys, TypesOk, BoundsOk
<1>4. /\ shows' = [shows EXCEPT ![s] = Seen(shows[s], m)] /\ shows \in [Slots -> Views]
      /\ m \in Messages
  BY RequestFacts DEF ClientDestroys, TypesOk, ShownOk
<1>5. Seen(shows[s], m) \in Views
  BY <1>4, SeenTyped
<1>6. ShownOk'
  BY <1>4, <1>5 DEF ShownOk
<1>7. \A o \in Slots : shows'[s][o] = Says(m, o, shows[s][o])
  BY <1>4, SeenAt
<1>8. QED
  BY <1>1, <1>2, <1>3, <1>4, <1>6, <1>7 DEF TypesOk

LEMMA TypesAsks ==
  ASSUME TypesOk, NEW s \in Slots, NEW m \in Questions, ClientAsks(s, m)
  PROVE  TypesOk'
<1>1. PeersOk' /\ ShipsOk' /\ CacheOk' /\ SentOk' /\ ShownOk'
  BY ShipsStay DEF ClientAsks, serverVars, TypesOk, PeersOk, CacheOk, SentOk, ShownOk, ShipsKept
<1>2. MailOk'
  BY RequestFacts DEF ClientAsks, TypesOk, MailOk
<1>3. BoundsOk'
  BY DEF ClientAsks, TypesOk, BoundsOk
<1>4. QED
  BY <1>1, <1>2, <1>3 DEF TypesOk

LEMMA TypesByModule ==
  ASSUME TypesOk, NEW s \in Slots, KilledByModule(s)
  PROVE  TypesOk'
  BY ShipsStay
     DEF KilledByModule, TypesOk, PeersOk, ShipsKept, CacheOk, MailOk, SentOk, ShownOk, BoundsOk

LEMMA TypesStutter ==
  ASSUME TypesOk, UNCHANGED vars
  PROVE  TypesOk'
  BY ShipsStay
     DEF vars, serverVars, TypesOk, PeersOk, ShipsKept, CacheOk, MailOk, SentOk, ShownOk, BoundsOk

----------------------------------------------------------------------------
(* Steps.                                                                  *)

LEMMA PendingTyped ==
  ASSUME TypesOk, NEW s \in Slots
  PROVE  Pending(s) \in Views
  BY FoldTyped DEF TypesOk, ShownOk, SentOk, Pending

LEMMA PendingMore ==
  ASSUME TypesOk, NEW s \in Slots, NEW o \in Slots, NEW m \in Messages
  PROVE  /\ FoldLeft(Seen, shows[s], toClient[s] \o <<m>>)[o] = Says(m, o, Pending(s)[o])
         /\ FoldLeft(Seen, shows[s], Append(toClient[s], m))[o] = Says(m, o, Pending(s)[o])
<1>1. shows[s] \in Views /\ toClient[s] \in Seq(Messages)
  BY DEF TypesOk, ShownOk, SentOk
<1>2. toClient[s] \o <<m>> = Append(toClient[s], m)
  BY <1>1
<1>3. FoldLeft(Seen, shows[s], Append(toClient[s], m)) = Seen(Pending(s), m)
  BY <1>1, FoldAppend DEF Pending
<1>4. Seen(Pending(s), m)[o] = Says(m, o, Pending(s)[o])
  BY PendingTyped, SeenAt
<1>5. QED
  BY <1>2, <1>3, <1>4

(* A message about one slot leaves what is shown of the others.            *)
About(m, t) ==
  \/ m.kind \in {"DestroyObj", "Exploding"} /\ Owned(m.id, t)
  \/ m \in Created /\ m.owner = t
  \/ m.kind \in {"object", "NotFound"}

LEMMA SaysNothing ==
  ASSUME NEW view \in Views, NEW o \in Slots, NEW t \in Slots, o # t, NEW m, About(m, t)
  PROVE  Says(m, o, view[o]) = view[o]
<1>1. view[o] = NoShip \/ view[o][1] = o
  BY DEF Views, ShipOf, Owned
<1>2. CASE m.kind \in {"DestroyObj", "Exploding"} /\ Owned(m.id, t)
  BY <1>1, <1>2, SlotFacts DEF Says, Owned
<1>3. CASE m \in Created /\ m.owner = t
  BY <1>3, CreatedFacts DEF Says, Creations
<1>4. CASE m.kind \in {"object", "NotFound"}
  BY <1>4 DEF Says
<1>5. QED
  BY <1>2, <1>3, <1>4 DEF About

LEMMA NoticeFacts ==
  ASSUME NEW kind, NEW id, NEW o, kind \in {"DestroyObj", "Exploding"}
  PROVE  /\ Notice(kind, id).kind = kind /\ Notice(kind, id).id = id
         /\ Says(Notice(kind, id), o, id) = NoShip
         /\ \A x : x # id => Says(Notice(kind, id), o, x) = x
         /\ Says(Notice(kind, id), o, NoShip) = NoShip
         /\ \A t : Owned(id, t) => About(Notice(kind, id), t)
  BY DEF Notice, Says, About

(* The statement of one client and one slot.                               *)
Right(s, o) ==
  s \in InLobby /\ o # s /\ o \notin odd => Pending(s)[o] \in MayShow(o)

LEMMA WillShowRight == WillShow <=> \A s, o \in Slots : Right(s, o)
  BY DEF WillShow, Right, InLobby

LEMMA MayShowFacts ==
  ASSUME NEW o, NEW x
  PROVE  x \in MayShow(o) <=> x = ship[o] \/ (x = NoShip /\ ship[o] \in removed)
  BY DEF MayShow

(* The ship stays, and what was destroyed.                                 *)
LEMMA MayShowStays ==
  ASSUME NEW o, NEW x, x \in MayShow(o), ship'[o] = ship[o],
         ship[o] \in removed => ship[o] \in removed'
  PROVE  x \in MayShow(o)'
  BY DEF MayShow

(* The ship goes, and a message says so.                                   *)
LEMMA MayShowGone ==
  ASSUME NEW o, NEW x, x \in MayShow(o), NEW m,
         Says(m, o, ship[o]) = NoShip, Says(m, o, NoShip) = NoShip, ship'[o] = NoShip
  PROVE  Says(m, o, x) \in MayShow(o)'
  BY DEF MayShow

LEMMA RightStays ==
  ASSUME NEW s \in Slots, NEW o \in Slots, Right(s, o),
         shows'[s] = shows[s], toClient'[s] = toClient[s], ship'[o] = ship[o],
         s \in InLobby' => s \in InLobby, o \in odd => o \in odd', removed \subseteq removed'
  PROVE  Right(s, o)'
<1>1. Pending(s)' = Pending(s)
  BY DEF Pending
<1>2. QED
  BY <1>1, MayShowStays DEF Right

(* Nothing of this changed.                                                *)
RestKept ==
  /\ peers' = peers /\ ship' = ship /\ objectId' = objectId /\ cache' = cache
  /\ toClient' = toClient /\ odd' = odd /\ removed' = removed
LEMMA RestStays ==
  ASSUME RestOk, RestKept, shows' = shows
  PROVE  RestOk'
<1>1. OutsideIsBare' /\ ShipsAreKnown'
  BY DEF RestOk, RestKept, OutsideIsBare, ShipsAreKnown, Known, HasShip
<1>2. ASSUME NEW s \in Slots, NEW o \in Slots PROVE Right(s, o)'
  BY RightStays, WillShowRight DEF RestOk, RestKept, InLobby
<1>3. WillShow'
  BY <1>2, WillShowRight DEF WillShow, Right, InLobby
<1>4. QED
  BY <1>1, <1>3 DEF RestOk

LEMMA RestStart == Init => RestOk
<1> SUFFICES ASSUME Init PROVE RestOk
  OBVIOUS
<1>1. OutsideIsBare /\ ShipsAreKnown
  BY DEF Init, OutsideIsBare, NoShips, ShipsAreKnown, HasShip
<1>2. WillShow
  BY DEF Init, WillShow, InLobby
<1>3. QED
  BY <1>1, <1>2 DEF RestOk

LEMMA RestConnect ==
  ASSUME TypesOk, RestOk, Connect
  PROVE  RestOk'
<1>1. PICK s \in Slots :
        /\ s = Min({i \in Slots : peers[i] = "empty"}) /\ peers[s] = "empty"
  BY FirstFree
<1>2. /\ peers' = [peers EXCEPT ![s] = "joining"]
      /\ ship' = [ship EXCEPT ![s] = NoShip] /\ objectId' = [objectId EXCEPT ![s] = NoShip]
      /\ cache' = [cache EXCEPT ![s] = NotCached]
      /\ toClient' = [toClient EXCEPT ![s] = <<>>]
      /\ shows' = [shows EXCEPT ![s] = NoShips] /\ odd' = odd /\ removed' = removed
  BY <1>1 DEF Connect, NoShips
<1>3. /\ peers \in [Slots -> {"empty", "joining", "lobby"}]
      /\ ship \in [Slots -> ObjectIds \cup {NoShip}] /\ objectId \in [Slots -> ObjectIds \cup {NoShip}]
      /\ DOMAIN cache = Slots /\ DOMAIN toClient = Slots /\ DOMAIN shows = Slots
  BY DEF TypesOk, PeersOk, ShipsOk, CacheOk, SentOk, ShownOk
<1>4. OutsideIsBare'
  BY <1>2, <1>3 DEF RestOk, OutsideIsBare
<1>5. ShipsAreKnown'
  BY <1>2, <1>3 DEF RestOk, ShipsAreKnown, Known, HasShip
<1>6. ship[s] = NoShip
  BY <1>1 DEF RestOk, OutsideIsBare
<1>7. ASSUME NEW t \in Slots, NEW o \in Slots PROVE Right(t, o)'
  <2>1. CASE t = s
    BY <1>2, <1>3, <2>1 DEF Right, InLobby
  <2>2. CASE t # s
    <3>1. shows'[t] = shows[t] /\ toClient'[t] = toClient[t] /\ ship'[o] = ship[o]
      BY <1>2, <1>3, <1>6, <2>2
    <3>2. (t \in InLobby' => t \in InLobby) /\ (o \in odd => o \in odd') /\ removed \subseteq removed'
      BY <1>2, <1>3 DEF InLobby
    <3>3. QED
      BY <3>1, <3>2, RightStays, WillShowRight DEF RestOk
  <2>3. QED
    BY <2>1, <2>2
<1>8. WillShow'
  BY <1>7 DEF WillShow, Right, InLobby
<1>9. QED
  BY <1>4, <1>5, <1>8 DEF RestOk

LEMMA RestEntersLobby ==
  ASSUME TypesOk, RestOk, NEW s \in Slots, EntersLobby(s)
  PROVE  RestOk'
<1>1. /\ peers[s] = "joining" /\ peers' = [peers EXCEPT ![s] = "lobby"]
      /\ toClient' = [toClient EXCEPT ![s] = toClient[s] \o Forwarded(s)]
      /\ ship' = ship /\ objectId' = objectId /\ cache' = cache /\ shows' = shows /\ odd' = odd
      /\ removed' = removed
  BY DEF EntersLobby, TypesOk, SentOk
<1>2. DOMAIN peers = Slots /\ DOMAIN toClient = Slots
  BY DEF TypesOk, PeersOk, SentOk
<1>3. OutsideIsBare'
  BY <1>1, <1>2 DEF RestOk, OutsideIsBare
<1>4. ShipsAreKnown'
  BY <1>1 DEF RestOk, ShipsAreKnown, Known, HasShip
<1>5. ASSUME NEW t \in Slots, NEW o \in Slots PROVE Right(t, o)'
  <2>1. CASE t # s
    BY <1>1, <1>2, <2>1, RightStays, WillShowRight DEF RestOk, InLobby
  <2>2. CASE t = s
    <3>1. SUFFICES ASSUME o # s, o \notin odd PROVE Pending(s)'[o] = ship[o]
      BY <1>1, <2>2, MayShowFacts DEF Right, MayShow
    <3>2. toClient[s] = <<>> /\ shows[s] = NoShips
      BY <1>1 DEF RestOk, OutsideIsBare
    <3>3. Forwarded(s) \in Seq(Messages)
      BY NoShipsFacts, ForwardedShows DEF TypesOk
    <3>4. toClient'[s] = Forwarded(s)
      <4> DEFINE more == Forwarded(s)
      <4> HIDE DEF more
      <4>1. more \in Seq(Messages) /\ toClient'[s] = toClient[s] \o more
        BY <1>1, <1>2, <3>3 DEF more
      <4>2. <<>> \o more = more
        BY <4>1
      <4>3. QED
        BY <3>2, <4>1, <4>2 DEF more
    <3>5. Pending(s)' = FoldLeft(Seen, NoShips, Forwarded(s))
      BY <1>1, <3>2, <3>4 DEF Pending
    <3>6. Pending(s)'[o] = IF Forwards(s, o) THEN cache[o].id ELSE NoShip
      BY <3>5, NoShipsFacts, ForwardedShows DEF TypesOk
    <3>7. CASE HasShip(o)
      <4>0. Known(o) /\ o \in InLobby
        <5>1. Known(o)
          BY <3>1, <3>7 DEF RestOk, ShipsAreKnown
        <5>2. peers[o] = "lobby"
          BY <3>7 DEF RestOk, OutsideIsBare, HasShip
        <5>3. QED
          BY <5>1, <5>2 DEF InLobby
      <4>1. Known(o) /\ cache[o] # NotCached /\ o \in InLobby
        BY <4>0 DEF Known
      <4>2. Forwards(s, o) /\ cache[o].id = ship[o]
        BY <3>1, <3>7, <4>1 DEF Forwards, Others, Known
      <4>3. QED
        BY <3>6, <4>2
    <3>8. CASE ~ HasShip(o)
      BY <3>6, <3>8 DEF Forwards, Others, HasShip
    <3>9. QED
      BY <3>7, <3>8
  <2>3. QED
    BY <2>1, <2>2
<1>6. WillShow'
  BY <1>5 DEF WillShow, Right, InLobby
<1>7. QED
  BY <1>3, <1>4, <1>6 DEF RestOk

LEMMA RestDisconnect ==
  ASSUME TypesOk, RestOk, NEW s \in Slots, Disconnect(s)
  PROVE  RestOk'
<1>1. /\ peers' = [peers EXCEPT ![s] = "empty"] /\ ship' = [ship EXCEPT ![s] = NoShip]
      /\ objectId' = [objectId EXCEPT ![s] = NoShip] /\ cache' = [cache EXCEPT ![s] = NotCached]
      /\ shows' = shows /\ odd' = odd /\ removed' = removed
  BY DEF Disconnect
<1>2. /\ DOMAIN peers = Slots /\ DOMAIN ship = Slots /\ DOMAIN objectId = Slots
      /\ DOMAIN cache = Slots
  BY DEF TypesOk, PeersOk, ShipsOk, CacheOk
<1>3. OutsideIsBare'
  <2>1. ASSUME NEW t \in Slots
        PROVE  /\ peers'[t] # "lobby" => ship'[t] = NoShip /\ toClient'[t] = <<>>
               /\ peers'[t] = "joining" => shows'[t] = NoShips
    <3>1. CASE t = s
      BY <1>1, <1>2, <3>1, LeavingFacts
    <3>2. CASE t # s
      BY <1>1, <1>2, <3>2, LeavingFacts DEF RestOk, OutsideIsBare, InLobby
    <3>3. QED
      BY <3>1, <3>2
  <2>2. QED
    BY <2>1 DEF OutsideIsBare
<1>4. ShipsAreKnown'
  BY <1>1, <1>2 DEF RestOk, ShipsAreKnown, Known, HasShip
<1>5. ASSUME NEW t \in Slots, NEW o \in Slots PROVE Right(t, o)'
  <2>1. CASE t = s
    BY <1>1, <1>2, <2>1 DEF Right, InLobby
  <2>2. CASE t # s /\ ~ (t \in InLobby /\ s \in InLobby /\ HasShip(s))
    <3>1. toClient'[t] = toClient[t] /\ (t \in InLobby' => t \in InLobby)
      BY <1>1, <1>2, <2>2, LeavingFacts DEF InLobby
    <3>2. CASE t \notin InLobby
      BY <3>1, <3>2 DEF Right
    <3>3. CASE t \in InLobby
      <4>1. ship[s] = NoShip
        BY <2>2, <3>3 DEF RestOk, OutsideIsBare, HasShip, InLobby
      <4>2. ship'[o] = ship[o]
        BY <1>1, <1>2, <4>1
      <4>3. QED
        BY <1>1, <3>1, <4>2, RightStays, WillShowRight DEF RestOk
    <3>4. QED
      BY <3>2, <3>3
  <2>3. CASE t # s /\ t \in InLobby /\ s \in InLobby /\ HasShip(s)
    <3> DEFINE m == Notice("DestroyObj", objectId[s])
    <3>1. Owned(objectId[s], s) /\ m \in Messages
      BY <2>3, RunsOfNotices DEF TypesOk
    <3>2. toClient'[t] = toClient[t] \o <<m>>
      BY <2>3, LeavingFacts
    <3>3. About(m, s)
      BY <3>1, NoticeFacts
    <3>4. Says(m, o, objectId[s]) = NoShip /\ Says(m, o, NoShip) = NoShip
      BY NoticeFacts
    <3> HIDE DEF m
    <3>5. Pending(t)'[o] = Says(m, o, Pending(t)[o])
      BY <1>1, <3>1, <3>2, PendingMore DEF Pending
    <3>6. SUFFICES ASSUME o # t, o \notin odd PROVE Pending(t)'[o] \in MayShow(o)'
      BY <1>1 DEF Right
    <3>7. Pending(t)[o] \in MayShow(o)
      BY <2>3, <3>6 DEF RestOk, WillShow
    <3>8. CASE o # s
      <4>1. Pending(t)'[o] = Pending(t)[o]
        BY <3>3, <3>5, <3>8, PendingTyped, SaysNothing
      <4>2. QED
        BY <1>1, <1>2, <3>7, <3>8, <4>1, MayShowStays
    <3>9. CASE o = s
      <4>1. objectId[s] = ship[s]
        BY <2>3, <3>6, <3>9 DEF RestOk, ShipsAreKnown, Known
      <4>2. ship'[o] = NoShip
        BY <1>1, <1>2, <3>9
      <4>3. QED
        BY <3>4, <3>5, <3>7, <3>9, <4>1, <4>2, MayShowGone
    <3>10. QED
      BY <3>8, <3>9
  <2>4. QED
    BY <2>1, <2>2, <2>3
<1>6. WillShow'
  BY <1>5 DEF WillShow, Right, InLobby
<1>7. QED
  BY <1>3, <1>4, <1>6 DEF RestOk

LEMMA RestObjCreate ==
  ASSUME TypesOk, RestOk, NEW s \in Slots, NEW m \in toServer[s], ObjCreate(s, m)
  PROVE  RestOk'
<1>1. m \in Created /\ m.owner = s /\ peers[s] = "lobby"
  BY TypesObjCreate DEF ObjCreate, Received
<1>2. m \in Messages /\ m.kind \in Creations /\ m # NotCached /\ m.id # NoShip
  BY <1>1, CreatedFacts
<1>3. /\ peers' = peers /\ shows' = shows
      /\ toClient' = ToOthers(s, <<m>>)
      /\ odd' = IF m.kind = "ship" THEN odd \ {s} ELSE odd \cup {s}
      /\ m.kind = "ship" => /\ ship' = [ship EXCEPT ![s] = m.id]
                            /\ objectId' = [objectId EXCEPT ![s] = m.id]
                            /\ cache' = [cache EXCEPT ![s] = m]
      /\ cache' = cache \/ cache' = [cache EXCEPT ![s] = m]
      /\ ship' = ship \/ ship' = [ship EXCEPT ![s] = m.id]
      /\ removed' = removed \ {m.id}
  BY DEF ObjCreate
<1>31. \E id : objectId' = [objectId EXCEPT ![s] = id]
  BY DEF ObjCreate
<1>4. /\ DOMAIN ship = Slots /\ DOMAIN objectId = Slots /\ DOMAIN cache = Slots
  BY DEF TypesOk, ShipsOk, CacheOk
<1>5. \A t \in Slots : toClient'[t] =
        IF t \in InLobby /\ t # s THEN toClient[t] \o <<m>> ELSE toClient[t]
  <2>1. <<m>> \in Seq(Messages) /\ SentOk
    BY <1>2, OneMessage DEF TypesOk
  <2> DEFINE sent == ToOthers(s, <<m>>)
  <2>2. \A t \in Slots : sent[t] = IF t \in InLobby /\ t # s THEN toClient[t] \o <<m>> ELSE toClient[t]
    BY <2>1, SendingFacts
  <2>3. toClient' = sent
    BY <1>3
  <2> HIDE DEF sent
  <2>4. QED
    BY <2>2, <2>3
<1>6. OutsideIsBare'
  BY <1>1, <1>3, <1>4, <1>5 DEF RestOk, OutsideIsBare, InLobby
<1>7. ShipsAreKnown'
  <2>1. ASSUME NEW o \in Slots, o \notin odd', ship'[o] # NoShip
        PROVE  /\ objectId'[o] = ship'[o]
               /\ cache'[o] # NotCached /\ cache'[o].id = ship'[o] /\ cache'[o].kind # "object"
    <3>1. CASE o = s
      <4>1. m.kind = "ship"
        BY <1>3, <2>1, <3>1
      <4>2. QED
        BY <1>2, <1>3, <1>4, <3>1, <4>1
    <3>2. CASE o # s
      <4>1. objectId'[o] = objectId[o] /\ ship'[o] = ship[o] /\ cache'[o] = cache[o] /\ o \notin odd
        BY <1>3, <1>31, <1>4, <2>1, <3>2
      <4>2. QED
        BY <2>1, <4>1 DEF RestOk, ShipsAreKnown, Known, HasShip
    <3>3. QED
      BY <3>1, <3>2
  <2>2. QED
    BY <2>1 DEF ShipsAreKnown, Known, HasShip
(* Another's ship is not the one that is created.                          *)
<1>71. ASSUME NEW o \in Slots, o # s, NEW x \in MayShow(o)
       PROVE  x \in MayShow(o)'
  <2>1. ship'[o] = ship[o]
    BY <1>3, <1>4, <1>71
  <2>2. ship[o] # m.id
    <3>1. m.id \in ObjectIds /\ m.id[1] = s
      BY <1>1, CreatedFacts DEF Owned
    <3>2. ship[o] = NoShip \/ ship[o][1] = o
      BY DEF TypesOk, ShipsOk, ShipOf, Owned
    <3>3. QED
      BY <1>2, <1>71, <3>1, <3>2
  <2>3. ship[o] \in removed => ship[o] \in removed'
    BY <1>3, <2>2
  <2>4. QED
    BY <1>71, <2>1, <2>3, MayShowStays
<1>8. ASSUME NEW t \in Slots, NEW o \in Slots PROVE Right(t, o)'
  <2>1. SUFFICES ASSUME t \in InLobby, o # t, o \notin odd' PROVE Pending(t)'[o] \in MayShow(o)'
    BY <1>3 DEF Right, InLobby
  <2>2. CASE t = s
    <3>1. Pending(t)' = Pending(t)
      BY <1>3, <1>5, <2>2 DEF Pending
    <3>2. o # s /\ o \notin odd
      BY <1>3, <2>1, <2>2
    <3>3. Pending(t)[o] \in MayShow(o)
      BY <2>1, <3>2 DEF RestOk, WillShow
    <3>4. QED
      BY <1>71, <3>1, <3>2, <3>3
  <2>3. CASE t # s
    <3>1. Pending(t)'[o] = Says(m, o, Pending(t)[o])
      BY <1>2, <1>3, <1>5, <2>1, <2>3, PendingMore DEF Pending
    <3>2. CASE o = s
      <4>1. m.kind = "ship"
        BY <1>3, <2>1, <3>2
      <4>2. Pending(t)'[o] = ship'[o]
        BY <1>1, <1>3, <1>4, <3>1, <3>2, <4>1 DEF Says
      <4>3. QED
        BY <4>2 DEF MayShow
    <3>3. CASE o # s
      <4>1. o \notin odd /\ About(m, s)
        BY <1>1, <1>3, <2>1, <3>3 DEF About
      <4>2. Pending(t)[o] \in MayShow(o)
        BY <2>1, <4>1 DEF RestOk, WillShow
      <4>3. Pending(t)'[o] = Pending(t)[o]
        BY <3>1, <3>3, <4>1, PendingTyped, SaysNothing
      <4>4. QED
        BY <1>71, <3>3, <4>2, <4>3
    <3>4. QED
      BY <3>2, <3>3
  <2>4. QED
    BY <2>2, <2>3
<1>9. WillShow'
  BY <1>8 DEF WillShow, Right, InLobby
<1>10. QED
  BY <1>6, <1>7, <1>9 DEF RestOk

LEMMA RestDies ==
  ASSUME TypesOk, RestOk, NEW s \in Slots, HasShip(s), Dies(s)
  PROVE  RestOk'
<1> DEFINE m == Notice("Exploding", ship[s])
<1>1. /\ peers' = peers /\ shows' = shows /\ objectId' = objectId /\ cache' = cache /\ odd' = odd
      /\ ship' = [ship EXCEPT ![s] = NoShip] /\ toClient' = ToAll(<<m>>) /\ removed' = removed
  BY DEF Dies
<1>2. DOMAIN ship = Slots
  BY DEF TypesOk, ShipsOk
<1>3. Owned(ship[s], s) /\ m \in Messages
  BY RunsOfNotices DEF TypesOk
<1>4. About(m, s) /\ \A o \in Slots : Says(m, o, ship[s]) = NoShip /\ Says(m, o, NoShip) = NoShip
  <2>1. \A o \in Slots : Says(m, o, ship[s]) = NoShip /\ Says(m, o, NoShip) = NoShip
    BY NoticeFacts
  <2>2. About(m, s)
    BY <1>3, NoticeFacts
  <2>3. QED
    BY <2>1, <2>2
<1> HIDE DEF m
<1>5. \A t \in Slots : toClient'[t] = IF t \in InLobby THEN toClient[t] \o <<m>> ELSE toClient[t]
  BY <1>1, <1>3, OneMessage, SendingFacts DEF TypesOk
<1>6. OutsideIsBare'
  BY <1>1, <1>2, <1>5 DEF RestOk, OutsideIsBare, InLobby
<1>7. ShipsAreKnown'
  BY <1>1, <1>2 DEF RestOk, ShipsAreKnown, Known, HasShip
<1>8. ASSUME NEW t \in Slots, NEW o \in Slots PROVE Right(t, o)'
  <2>1. SUFFICES ASSUME t \in InLobby, o # t, o \notin odd PROVE Pending(t)'[o] \in MayShow(o)'
    BY <1>1 DEF Right, InLobby
  <2>2. Pending(t)'[o] = Says(m, o, Pending(t)[o])
    BY <1>1, <1>3, <1>5, <2>1, PendingMore DEF Pending
  <2>3. Pending(t)[o] \in MayShow(o)
    BY <2>1 DEF RestOk, WillShow
  <2>4. CASE o = s
    <3>1. ship'[o] = NoShip /\ Says(m, o, ship[o]) = NoShip /\ Says(m, o, NoShip) = NoShip
      BY <1>1, <1>2, <1>4, <2>4
    <3>2. QED
      BY <2>2, <2>3, <3>1, MayShowGone
  <2>5. CASE o # s
    <3>1. Pending(t)'[o] = Pending(t)[o]
      BY <1>4, <2>2, <2>5, PendingTyped, SaysNothing
    <3>2. QED
      BY <1>1, <1>2, <2>3, <2>5, <3>1, MayShowStays
  <2>6. QED
    BY <2>4, <2>5
<1>9. WillShow'
  BY <1>8 DEF WillShow, Right, InLobby
<1>10. QED
  BY <1>6, <1>7, <1>9 DEF RestOk

LEMMA RestSelfDestruct ==
  ASSUME TypesOk, RestOk, NEW s \in Slots, SelfDestruct(s)
  PROVE  RestOk'
<1>1. CASE Alive(s)
  BY <1>1, RestDies DEF SelfDestruct, Alive
<1>2. CASE ~ Alive(s)
  BY <1>2, RestStays DEF SelfDestruct, serverVars, RestKept
<1>3. QED
  BY <1>1, <1>2

LEMMA RestRestart ==
  ASSUME TypesOk, RestOk, NEW s \in Slots, Restart(s)
  PROVE  RestOk'
<1>1. CASE s # 1
  BY <1>1, RestStays DEF Restart, serverVars, RestKept
<1>2. CASE s = 1
  <2>1. /\ peers' = peers /\ shows' = shows /\ odd' = odd /\ removed' = removed
        /\ ship' = [t \in Slots |-> NoShip] /\ toClient' = ToAll(Destroyed)
    BY <1>2 DEF Restart
  <2>2. Destroyed \in Seq(Messages)
    BY NoShipsFacts, DestroyedShows DEF TypesOk
  <2>3. \A t \in Slots : toClient'[t] =
          IF t \in InLobby THEN toClient[t] \o Destroyed ELSE toClient[t]
    BY <2>1, <2>2, SendingFacts DEF TypesOk
  <2>4. OutsideIsBare' /\ ShipsAreKnown'
    BY <2>1, <2>3 DEF RestOk, OutsideIsBare, ShipsAreKnown, InLobby, HasShip
  <2>5. ASSUME NEW t \in Slots, NEW o \in Slots PROVE Right(t, o)'
    <3>1. SUFFICES ASSUME t \in InLobby, o # t, o \notin odd PROVE Pending(t)'[o] = NoShip
      BY <2>1 DEF Right, InLobby, MayShow
    <3>2. shows[t] \in Views /\ toClient[t] \in Seq(Messages)
      BY DEF TypesOk, ShownOk, SentOk
    <3>3. Pending(t)' = FoldLeft(Seen, Pending(t), Destroyed)
      BY <2>1, <2>2, <2>3, <3>1, <3>2, FoldConcat DEF Pending
    <3>4. (Pending(t)[o] = ship[o] \/ Pending(t)[o] = NoShip) /\ Pending(t) \in Views
      BY <3>1, PendingTyped, MayShowFacts DEF RestOk, WillShow
    <3>5. Pending(t)'[o] = IF HasShip(o) /\ Pending(t)[o] = ship[o] THEN NoShip ELSE Pending(t)[o]
      BY <3>3, <3>4, DestroyedShows DEF TypesOk
    <3>6. QED
      BY <3>4, <3>5 DEF HasShip
  <2>6. WillShow'
    BY <2>5 DEF WillShow, Right, InLobby
  <2>7. QED
    BY <2>4, <2>6 DEF RestOk
<1>3. QED
  BY <1>1, <1>2

LEMMA RestRequestObj ==
  ASSUME TypesOk, RestOk, NEW s \in Slots, NEW id \in ObjectIds, RequestObj(s, id)
  PROVE  RestOk'
<1> DEFINE m == Answer(id)
<1>1. m \in Messages /\ toClient' = [toClient EXCEPT ![s] = Append(toClient[s], m)]
  BY AnswerFacts
<1>2. /\ peers' = peers /\ ship' = ship /\ objectId' = objectId /\ cache' = cache
      /\ shows' = shows /\ odd' = odd /\ removed' = removed /\ peers[s] = "lobby"
  BY DEF RequestObj, serverVars, Received
<1>3. id[1] \in Slots
  BY SlotFacts
<1>4. About(m, id[1]) /\ (id[1] \notin odd => \A x : Says(m, id[1], x) \in {x, ship[id[1]]})
  <2>1. CASE HasShip(id[1]) /\ cache[id[1]] # NotCached
    <3>1. m = cache[id[1]] /\ m \in Created /\ m.owner = id[1] /\ m.kind \in Creations
      BY <1>3, <2>1, CreatedFacts DEF Answer, TypesOk, CacheOk
    <3>2. id[1] \notin odd => m.id = ship[id[1]]
      BY <1>3, <2>1, <3>1 DEF RestOk, ShipsAreKnown, Known
    <3> HIDE DEF m
    <3>3. QED
      BY <3>1, <3>2 DEF About, Says, Creations
  <2>2. CASE ~ (HasShip(id[1]) /\ cache[id[1]] # NotCached)
    BY <2>2 DEF Answer, Notice, About, Says
  <2>3. QED
    BY <2>1, <2>2
<1> HIDE DEF m
<1>5. DOMAIN toClient = Slots
  BY DEF TypesOk, SentOk
<1>6. OutsideIsBare' /\ ShipsAreKnown'
  BY <1>1, <1>2, <1>5 DEF RestOk, OutsideIsBare, ShipsAreKnown, Known, HasShip
<1>7. ASSUME NEW t \in Slots, NEW o \in Slots PROVE Right(t, o)'
  <2>1. CASE t # s
    BY <1>1, <1>2, <1>5, <2>1, RightStays, WillShowRight DEF RestOk, InLobby
  <2>2. CASE t = s
    <3>1. SUFFICES ASSUME o # s, o \notin odd PROVE Pending(s)'[o] \in MayShow(o)
      BY <1>2, <2>2 DEF Right, MayShow
    <3>2. Pending(s)'[o] = Says(m, o, Pending(s)[o])
      BY <1>1, <1>2, <1>5, PendingMore DEF Pending
    <3>3. Pending(s)[o] \in MayShow(o)
      BY <1>2, <3>1 DEF RestOk, WillShow, InLobby
    <3>4. CASE o = id[1]
      <4>1. Pending(s)'[o] \in {Pending(s)[o], ship[o]}
        BY <1>4, <3>1, <3>2, <3>4
      <4>2. QED
        BY <3>3, <4>1, MayShowFacts
    <3>5. CASE o # id[1]
      BY <1>3, <1>4, <3>2, <3>3, <3>5, PendingTyped, SaysNothing
    <3>6. QED
      BY <3>4, <3>5
  <2>3. QED
    BY <2>1, <2>2
<1>8. WillShow'
  BY <1>7 DEF WillShow, Right, InLobby
<1>9. QED
  BY <1>6, <1>8 DEF RestOk

LEMMA RestReceives ==
  ASSUME TypesOk, RestOk, NEW s \in Slots, ClientReceives(s)
  PROVE  RestOk'
<1>1. /\ peers' = peers /\ ship' = ship /\ objectId' = objectId /\ cache' = cache /\ odd' = odd
      /\ peers[s] = "lobby" /\ toClient' = [toClient EXCEPT ![s] = <<>>] /\ removed' = removed
      /\ shows' = [shows EXCEPT ![s] = Pending(s)] /\ Pending(s) \in Views
  BY TypesReceives DEF ClientReceives, serverVars
<1>2. DOMAIN toClient = Slots /\ DOMAIN shows = Slots
  BY DEF TypesOk, SentOk, ShownOk
<1>3. OutsideIsBare' /\ ShipsAreKnown'
  BY <1>1, <1>2 DEF RestOk, OutsideIsBare, ShipsAreKnown, Known, HasShip
<1>4. ASSUME NEW t \in Slots, NEW o \in Slots PROVE Right(t, o)'
  <2>1. CASE t # s
    BY <1>1, <1>2, <2>1, RightStays, WillShowRight DEF RestOk, InLobby
  <2>2. CASE t = s
    <3>1. shows'[s] = Pending(s) /\ toClient'[s] = <<>>
      BY <1>1, <1>2
    <3>2. Pending(s)' = Pending(s)
      BY <1>1, <3>1, FoldOfNothing DEF Pending
    <3>3. QED
      BY <1>1, <2>2, <3>2, WillShowRight DEF RestOk, Right, InLobby, MayShow
  <2>3. QED
    BY <2>1, <2>2
<1>5. WillShow'
  BY <1>4 DEF WillShow, Right, InLobby
<1>6. QED
  BY <1>3, <1>5 DEF RestOk

LEMMA RestCreates ==
  ASSUME TypesOk, RestOk, NEW s \in Slots, NEW kind \in Creations, ClientCreates(s, kind)
  PROVE  RestOk'
<1>1. /\ peers' = peers /\ ship' = ship /\ objectId' = objectId /\ cache' = cache /\ odd' = odd
      /\ toClient' = toClient /\ peers[s] = "lobby" /\ removed' = removed
      /\ \A t \in Slots \ {s} : shows'[t] = shows[t]
  BY DEF ClientCreates, serverVars, TypesOk, ShownOk
<1>2. OutsideIsBare' /\ ShipsAreKnown'
  BY <1>1 DEF RestOk, OutsideIsBare, ShipsAreKnown, Known, HasShip
<1>3. ASSUME NEW t \in Slots, NEW o \in Slots PROVE Right(t, o)'
  <2>1. CASE t # s
    BY <1>1, <2>1, RightStays, WillShowRight DEF RestOk, InLobby
  <2>2. CASE t = s
    <3>1. SUFFICES ASSUME o # s, o \notin odd PROVE Pending(s)'[o] \in MayShow(o)
      BY <1>1, <2>2 DEF Right, MayShow
    <3>2. shows[s] \in Views /\ shows'[s] \in Views /\ shows'[s][o] = shows[s][o]
      BY <3>1, TypesCreates DEF TypesOk, ShownOk
    <3>3. Pending(s)'[o] = Pending(s)[o]
      BY <1>1, <3>2, FoldApart DEF Pending, TypesOk, SentOk
    <3>4. QED
      BY <1>1, <3>1, <3>3 DEF RestOk, WillShow, InLobby
  <2>3. QED
    BY <2>1, <2>2
<1>4. WillShow'
  BY <1>3 DEF WillShow, Right, InLobby
<1>5. QED
  BY <1>2, <1>4 DEF RestOk

(* A message from a client may take a ship from what others will show.     *)
LEMMA RestDestroyObj ==
  ASSUME TypesOk, RestOk, NEW s \in Slots, NEW m, DestroyObj(s, m)
  PROVE  RestOk'
<1>1. /\ m \in Messages /\ m.id \in ObjectIds /\ m.kind \in {"DestroyObj", "Exploding"}
      /\ peers' = peers /\ ship' = ship /\ objectId' = objectId /\ cache' = cache
      /\ shows' = shows /\ odd' = odd /\ removed' = removed \cup {m.id}
      /\ toClient' = ToOthers(s, <<m>>)
  BY RequestFacts DEF DestroyObj, serverVars
<1>2. \A t \in Slots : toClient'[t] =
        IF t \in InLobby /\ t # s THEN toClient[t] \o <<m>> ELSE toClient[t]
  <2>1. <<m>> \in Seq(Messages) /\ SentOk
    BY <1>1, OneMessage DEF TypesOk
  <2> DEFINE sent == ToOthers(s, <<m>>)
  <2>2. \A t \in Slots : sent[t] = IF t \in InLobby /\ t # s THEN toClient[t] \o <<m>> ELSE toClient[t]
    BY <2>1, SendingFacts
  <2>3. toClient' = sent
    BY <1>1
  <2> HIDE DEF sent
  <2>4. QED
    BY <2>2, <2>3
<1>3. OutsideIsBare' /\ ShipsAreKnown'
  BY <1>1, <1>2 DEF RestOk, OutsideIsBare, ShipsAreKnown, Known, HasShip, InLobby
<1>4. ASSUME NEW t \in Slots, NEW o \in Slots PROVE Right(t, o)'
  <2>1. CASE ~ (t \in InLobby /\ t # s)
    BY <1>1, <1>2, <2>1, RightStays, WillShowRight DEF RestOk, InLobby
  <2>2. CASE t \in InLobby /\ t # s
    <3>1. SUFFICES ASSUME o # t, o \notin odd PROVE Pending(t)'[o] \in MayShow(o)'
      BY <1>1, <2>2 DEF Right
    <3>2. Pending(t)'[o] = Says(m, o, Pending(t)[o])
      BY <1>1, <1>2, <2>2, PendingMore DEF Pending
    <3>3. Pending(t)[o] \in MayShow(o)
      BY <2>2, <3>1 DEF RestOk, WillShow
    <3>4. Says(m, o, Pending(t)[o]) = IF Pending(t)[o] = m.id THEN NoShip ELSE Pending(t)[o]
      BY <1>1 DEF Says
    <3>5. QED
      BY <1>1, <3>2, <3>3, <3>4 DEF MayShow
  <2>3. QED
    BY <2>1, <2>2
<1>5. WillShow'
  BY <1>4 DEF WillShow, Right, InLobby
<1>6. QED
  BY <1>3, <1>5 DEF RestOk

(* Who shows nothing of a slot shows nothing of it later, or the same as   *)
(* the one who shows its ship.                                             *)
LEMMA FoldFewer ==
  ASSUME NEW view \in Views, NEW other \in Views, NEW seq \in Seq(Messages),
         NEW o \in Slots, NEW id, id # NoShip, view[o] = id, other[o] = NoShip
  PROVE  \/ FoldLeft(Seen, other, seq)[o] = FoldLeft(Seen, view, seq)[o]
         \/ FoldLeft(Seen, other, seq)[o] = NoShip /\ FoldLeft(Seen, view, seq)[o] = id
<1>1. PICK v : SeeingRun(Views, view, seq, v)
  BY ViewRun
<1>2. PICK w : SeeingRun(Views, other, seq, w)
  BY ViewRun
<1> DEFINE Fewer(i) == w[i][o] = v[i][o] \/ (w[i][o] = NoShip /\ v[i][o] = id)
           T == {i \in 0..Len(seq) : Fewer(i)}
<1>3. Len(seq) \in Nat /\ \A i \in 1..Len(seq) : seq[i] \in Messages
  OBVIOUS
<1>4. 0 \in T
  BY <1>1, <1>2, <1>3 DEF SeeingRun
<1>5. ASSUME NEW i \in 1..Len(seq), i - 1 \in T PROVE i \in T
  <2>1. i - 1 \in 0..Len(seq) /\ i \in 0..Len(seq) /\ seq[i] \in Messages
    BY <1>3
  <2>2. v[i - 1] \in Views /\ w[i - 1] \in Views
    BY <1>1, <1>2, <2>1 DEF SeeingRun
  <2>3. v[i] = Seen(v[i - 1], seq[i]) /\ w[i] = Seen(w[i - 1], seq[i])
    BY <1>1, <1>2 DEF SeeingRun
  <2>4. v[i][o] = Says(seq[i], o, v[i - 1][o]) /\ w[i][o] = Says(seq[i], o, w[i - 1][o])
    BY <2>1, <2>2, <2>3, SeenAt
  <2>5. Fewer(i - 1)
    BY <1>5
  <2>6. Fewer(i)
    BY <2>4, <2>5 DEF Says
  <2>7. QED
    BY <2>1, <2>6
<1>6. T \in SUBSET Nat
  OBVIOUS
<1>7. Fewer(Len(seq))
  <2> HIDE DEF Fewer
  <2>1. \A i \in 1..Len(seq) : i - 1 \in T => i \in T
    BY <1>5
  <2>2. \A i \in 0..Len(seq) : i \in T
    <3> HIDE DEF T
    <3> QED BY <1>3, <1>4, <1>6, <2>1, InductUpto
  <2>3. QED
    BY <1>3, <2>2
<1>8. QED
  BY <1>1, <1>2, <1>7 DEF SeeingRun

LEMMA RestDestroys ==
  ASSUME TypesOk, RestOk, NEW s \in Slots, NEW m \in Removals, ClientDestroys(s, m)
  PROVE  RestOk'
<1>1. /\ m.id \in ObjectIds /\ m.id # NoShip /\ m.kind \in {"DestroyObj", "Exploding"}
      /\ peers' = peers /\ ship' = ship /\ objectId' = objectId /\ cache' = cache
      /\ odd' = odd /\ removed' = removed \cup {m.id} /\ toClient' = toClient
      /\ peers[s] = "lobby" /\ \A t \in Slots \ {s} : shows'[t] = shows[t]
  BY RequestFacts, SlotFacts DEF ClientDestroys, serverVars, TypesOk, ShownOk
<1>2. OutsideIsBare' /\ ShipsAreKnown'
  BY <1>1 DEF RestOk, OutsideIsBare, ShipsAreKnown, Known, HasShip
<1>3. ASSUME NEW t \in Slots, NEW o \in Slots PROVE Right(t, o)'
  <2>1. CASE t # s
    BY <1>1, <2>1, RightStays, WillShowRight DEF RestOk, InLobby
  <2>2. CASE t = s
    <3>1. SUFFICES ASSUME o # s, o \notin odd PROVE Pending(s)'[o] \in MayShow(o)'
      BY <1>1, <2>2 DEF Right
    <3>2. /\ shows[s] \in Views /\ shows'[s] \in Views /\ toClient[s] \in Seq(Messages)
          /\ shows'[s][o] = IF shows[s][o] = m.id THEN NoShip ELSE shows[s][o]
      BY <1>1, TypesDestroys DEF TypesOk, ShownOk, SentOk, Says
    <3>3. Pending(s)[o] \in MayShow(o)
      BY <1>1, <3>1 DEF RestOk, WillShow, InLobby
    <3>4. \/ Pending(s)'[o] = Pending(s)[o]
          \/ Pending(s)'[o] = NoShip /\ Pending(s)[o] = m.id
      <4>1. Pending(s)' = FoldLeft(Seen, shows'[s], toClient[s])
        BY <1>1 DEF Pending
      <4>2. CASE shows[s][o] = m.id
        BY <1>1, <3>2, <4>1, <4>2, FoldFewer DEF Pending
      <4>3. CASE shows[s][o] # m.id
        BY <3>2, <4>1, <4>3, FoldApart DEF Pending
      <4>4. QED
        BY <4>2, <4>3
    <3>5. QED
      BY <1>1, <3>3, <3>4 DEF MayShow
  <2>3. QED
    BY <2>1, <2>2
<1>4. WillShow'
  BY <1>3 DEF WillShow, Right, InLobby
<1>5. QED
  BY <1>2, <1>4 DEF RestOk

----------------------------------------------------------------------------
LEMMA ReplInvStep ==
  ASSUME ReplInv, [Next]_vars
  PROVE  ReplInv'
<1>0. TypesOk /\ RestOk
  BY DEF ReplInv
<1>1. CASE Connect
  BY <1>0, <1>1, TypesConnect, RestConnect DEF ReplInv
<1>2. ASSUME NEW s \in Slots, EntersLobby(s) \/ Disconnect(s) PROVE TypesOk' /\ RestOk'
  BY <1>0, <1>2, TypesEntersLobby, RestEntersLobby, TypesDisconnect, RestDisconnect
<1>3. ASSUME NEW s \in Slots, Handlers(s) PROVE TypesOk' /\ RestOk'
  <2>1. ASSUME NEW m \in toServer[s], ObjCreate(s, m) PROVE TypesOk' /\ RestOk'
    BY <1>0, <2>1, TypesObjCreate, RestObjCreate
  <2>2. CASE SelfDestruct(s)
    BY <1>0, <2>2, TypesSelfDestruct, RestSelfDestruct
  <2>3. CASE Restart(s)
    BY <1>0, <2>3, TypesRestart, RestRestart
  <2>4. ASSUME NEW id \in ObjectIds, RequestObj(s, id) PROVE TypesOk' /\ RestOk'
    BY <1>0, <2>4, TypesRequestObj, RestRequestObj
  <2>5. ASSUME NEW m \in toServer[s], DestroyObj(s, m) PROVE TypesOk' /\ RestOk'
    BY <1>0, <2>5, TypesDestroyObj, RestDestroyObj
  <2>6. QED
    BY <1>3, <2>1, <2>2, <2>3, <2>4, <2>5 DEF Handlers
<1>4. ASSUME NEW s \in Slots, Killed(s) PROVE TypesOk' /\ RestOk'
  BY <1>0, <1>4, TypesKilled, RestDies DEF Killed, Alive
<1>5. ASSUME NEW s \in Slots, KilledByModule(s) PROVE TypesOk' /\ RestOk'
  BY <1>0, <1>5, TypesByModule, RestStays DEF KilledByModule, RestKept
<1>6. ASSUME NEW s \in Slots, ClientReceives(s) PROVE TypesOk' /\ RestOk'
  BY <1>0, <1>6, TypesReceives, RestReceives
<1>7. ASSUME NEW s \in Slots, NEW kind \in Creations, ClientCreates(s, kind) PROVE TypesOk' /\ RestOk'
  BY <1>0, <1>7, TypesCreates, RestCreates
<1>8. ASSUME NEW s \in Slots, NEW m \in Questions, ClientAsks(s, m) PROVE TypesOk' /\ RestOk'
  BY <1>0, <1>8, TypesAsks, RestStays DEF ClientAsks, serverVars, RestKept
<1>9. CASE UNCHANGED vars
  BY <1>0, <1>9, TypesStutter, RestStays DEF vars, serverVars, RestKept, ReplInv
<1>10. ASSUME NEW s \in Slots, NEW m \in Removals, ClientDestroys(s, m) PROVE TypesOk' /\ RestOk'
  BY <1>0, <1>10, TypesDestroys, RestDestroys
<1>11. QED
  BY <1>1, <1>2, <1>3, <1>4, <1>5, <1>6, <1>7, <1>8, <1>9, <1>10 DEF Next, ReplInv

(* Every client that has received all that was sent shows exactly the      *)
(* ships of the others, whenever it joined, and whatever was handled late  *)
(* or twice; only a ship that a player destroyed by a message, which the   *)
(* server passes on and keeps the ship, may be missing.                    *)
THEOREM EveryoneSeesTheShips == Spec => []ClientsShowTheShips
<1>1. Init => ReplInv
  BY TypesStart, RestStart DEF ReplInv
<1>2. ReplInv /\ [Next]_vars => ReplInv'
  BY ReplInvStep
<1>3. ReplInv => ClientsShowTheShips
  <2>1. ASSUME TypesOk, RestOk, NEW s \in InLobby, toClient[s] = <<>>,
               NEW o \in Slots \ ({s} \cup odd)
        PROVE  shows[s][o] \in MayShow(o)
    <3>1. Pending(s) = shows[s]
      BY <2>1, FoldOfNothing DEF Pending, TypesOk, ShownOk, InLobby
    <3>2. QED
      BY <2>1, <3>1 DEF RestOk, WillShow
  <2>2. QED
    BY <2>1 DEF ClientsShowTheShips, ReplInv
<1>4. QED
  BY <1>1, <1>2, <1>3, PTL DEF Spec
=============================================================================
