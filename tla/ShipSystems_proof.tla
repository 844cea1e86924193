------------------------- MODULE ShipSystems_proof -------------------------
(***************************************************************************)
(* The levels of any class of ship keep their ranges under any damage, its *)
(* repair queue holds each subsystem in need of repair at most once, and   *)
(* its facings keep what they hold until it is decloaked.  Clients are     *)
(* told of its condition in time, and find it in the bytes of any window,  *)
(* of any list of entries.                                                 *)
(***************************************************************************)
EXTENDS ShipSystems, HealthWindows, FoldLemmas, SequenceTheorems

LEMMA ClassFacts ==
  /\ Len(Kind) \in Nat /\ Subsystems = 1..Len(Kind) /\ IsFiniteSet(Subsystems)
  /\ DisabledBelow \in [Subsystems -> 0..MaxHp]
  /\ MaxHp \in Nat /\ MaxHp > 0 /\ HullMax \in Nat /\ HullMax > 0
  /\ Teams \in Nat /\ CloakTicks \in Nat /\ CloakTicks > 0
  /\ ShieldMax \in Nat /\ Recharge \in Nat /\ MaxBackup \in Nat /\ PowerOutput \in Nat
  /\ IsFiniteSet(Facings) /\ Cardinality(Facings) \in Nat /\ Cardinality(Facings) > 0
  /\ \A d \in Damages : d \in Nat /\ d > 0
<1>1. Len(Kind) \in Nat /\ Subsystems = 1..Len(Kind)
  BY ShipAssumption DEF Subsystems
<1>2. IsFiniteSet(Subsystems)
  BY <1>1, FS_Interval
<1>3. QED
  BY <1>1, <1>2, ShipAssumption

----------------------------------------------------------------------------
(* Sequences that are picked out of others.                                *)

(* A run through a sequence that keeps the members of a set.               *)
Keeping(seq, keep, f) ==
  f = [n \in 0..Len(seq) |->
         IF n = 0 THEN <<>>
         ELSE IF seq[n] \in keep THEN Append(f[n - 1], seq[n]) ELSE f[n - 1]]

LEMMA KeepingExists ==
  ASSUME NEW S, NEW seq \in Seq(S), NEW keep
  PROVE  \E f : Keeping(seq, keep, f)
<1> DEFINE A == Seq(S)
           l == Len(seq)
           step == [a \in (1..l) \X A |->
                      IF seq[a[1]] \in keep THEN Append(a[2], seq[a[1]]) ELSE a[2]]
<1>1. l \in Nat /\ \A n \in 1..l : seq[n] \in S
  OBVIOUS
<1>2. step \in [(1..l) \X A -> A] /\ <<>> \in A
  BY <1>1
<1>3. \A n \in 1..l, q \in A :
        step[<<n, q>>] = IF seq[n] \in keep THEN Append(q, seq[n]) ELSE q
  OBVIOUS
<1> HIDE DEF step, l
<1>4. PICK h \in [SUBSET (1..l) -> A], v \in [0..l -> A] : FoldRun(l, A, <<>>, step, h, v)
  BY <1>1, <1>2, FoldRuns
<1>5. v[0] = <<>> /\ \A n \in 1..l : v[n] = step[<<n, v[n - 1]>>] /\ v[n - 1] \in A
  BY <1>1, <1>4 DEF FoldRun, Runs
<1>6. \A n \in 1..l : v[n] = IF seq[n] \in keep THEN Append(v[n - 1], seq[n]) ELSE v[n - 1]
  BY <1>3, <1>5
<1>7. ASSUME NEW n \in 0..l
      PROVE  v[n] = IF n = 0 THEN <<>>
                    ELSE IF seq[n] \in keep THEN Append(v[n - 1], seq[n]) ELSE v[n - 1]
  <2>1. n = 0 \/ n \in 1..l
    BY <1>1
  <2>2. CASE n = 0
    BY <1>5, <2>2
  <2>3. CASE n # 0
    BY <1>6, <2>1, <2>3
  <2>4. QED
    BY <2>2, <2>3
<1>8. v = [n \in 0..l |-> v[n]]
  BY <1>4
<1>9. Keeping(seq, keep, v)
  BY <1>7, <1>8 DEF Keeping, l
<1>10. QED
  BY <1>9

(* A sequence of distinct subsystems of a set.                             *)
QueueOf(q, A) == q \in Seq(Subsystems) /\ (\A i \in 1..Len(q) : q[i] \in A) /\ IsInjective(q)

Distinct(q) == \A i, j \in 1..Len(q) : q[i] = q[j] => i = j

LEMMA InjectiveIsDistinct ==
  ASSUME NEW q \in Seq(Subsystems)
  PROVE  IsInjective(q) <=> Distinct(q)
  BY DEF IsInjective, Distinct

(* What is kept of the first n.                                            *)
KeptOf(seq, keep, n, q) ==
  /\ q \in Seq(Subsystems) /\ Distinct(q)
  /\ \A i \in 1..Len(q) : q[i] \in keep /\ \E j \in 1..n : q[i] = seq[j]

LEMMA KeepingKeeps ==
  ASSUME NEW seq \in Seq(Subsystems), Distinct(seq), NEW keep, NEW f, Keeping(seq, keep, f)
  PROVE  KeptOf(seq, keep, Len(seq), f[Len(seq)])
<1> DEFINE l == Len(seq)
           T == {n \in 0..l : KeptOf(seq, keep, n, f[n])}
<1>1. l \in Nat /\ \A n \in 1..l : seq[n] \in Subsystems
  OBVIOUS
<1>2. /\ f[0] = <<>>
      /\ \A n \in 1..l : f[n] = IF seq[n] \in keep THEN Append(f[n - 1], seq[n]) ELSE f[n - 1]
  <2>1. f[0] = <<>>
    <3>1. 0 \in 0..Len(seq)
      BY <1>1
    <3>2. QED
      BY <3>1 DEF Keeping
  <2>2. ASSUME NEW n \in 1..l
        PROVE  f[n] = IF seq[n] \in keep THEN Append(f[n - 1], seq[n]) ELSE f[n - 1]
    <3>1. n \in 0..Len(seq) /\ n # 0
      BY <1>1
    <3>2. QED
      BY <3>1 DEF Keeping
  <2>3. QED
    BY <2>1, <2>2
<1> HIDE DEF l
<1>3. 0 \in T /\ T \in SUBSET Nat
  <2>1. KeptOf(seq, keep, 0, f[0])
    BY <1>2 DEF KeptOf, Distinct
  <2>2. QED
    BY <1>1, <2>1
<1>4. ASSUME NEW n \in 1..l, n - 1 \in T PROVE n \in T
  <2> DEFINE q == f[n - 1]
  <2>1. n \in 0..l /\ n - 1 \in 0..l /\ n \in Int
    BY <1>1
  <2>2. KeptOf(seq, keep, n - 1, q)
    BY <1>4
  <2> HIDE DEF q
  <2>3. CASE seq[n] \notin keep
    <3>1. f[n] = q
      BY <1>2, <2>3 DEF q
    <3>2. KeptOf(seq, keep, n, f[n])
      BY <2>1, <2>2, <3>1 DEF KeptOf
    <3>3. QED
      BY <2>1, <3>2
  <2>4. CASE seq[n] \in keep
    <3>1. f[n] = Append(q, seq[n])
      BY <1>2, <2>4 DEF q
    <3>2. q \in Seq(Subsystems) /\ Len(q) \in Nat /\ seq[n] \in Subsystems
      BY <1>1, <2>2 DEF KeptOf
    <3> DEFINE r == Append(q, seq[n])
    <3>3. /\ r \in Seq(Subsystems) /\ Len(r) = Len(q) + 1 /\ r[Len(r)] = seq[n]
          /\ \A i \in 1..Len(q) : r[i] = q[i]
      BY <3>2
    <3> HIDE DEF r
    <3>4. ASSUME NEW i \in 1..Len(r)
          PROVE  r[i] \in keep /\ \E j \in 1..n : r[i] = seq[j]
      <4>1. CASE i \in 1..Len(q)
        BY <2>1, <2>2, <3>3, <4>1 DEF KeptOf
      <4>2. CASE i = Len(r)
        BY <2>1, <2>4, <3>3, <4>2
      <4>3. QED
        BY <3>2, <3>3, <4>1, <4>2
    <3>5. ASSUME NEW i \in 1..Len(q) PROVE q[i] # seq[n]
      <4>1. PICK j \in 1..(n - 1) : q[i] = seq[j]
        BY <2>2 DEF KeptOf
      <4>2. j \in 1..Len(seq) /\ n \in 1..Len(seq) /\ j # n
        BY <1>1, <2>1 DEF l
      <4>3. QED
        BY <4>1, <4>2 DEF Distinct
    <3>6. Distinct(r)
      <4>1. ASSUME NEW i \in 1..Len(r), NEW j \in 1..Len(r), r[i] = r[j] PROVE i = j
        <5>1. (i \in 1..Len(q) \/ i = Len(r)) /\ (j \in 1..Len(q) \/ j = Len(r))
          BY <3>2, <3>3
        <5>2. CASE i \in 1..Len(q) /\ j \in 1..Len(q)
          BY <2>2, <3>3, <4>1, <5>2 DEF KeptOf, Distinct
        <5>3. CASE i = Len(r) /\ j \in 1..Len(q)
          BY <3>3, <3>5, <4>1, <5>3
        <5>4. CASE j = Len(r) /\ i \in 1..Len(q)
          BY <3>3, <3>5, <4>1, <5>4
        <5>5. QED
          BY <5>1, <5>2, <5>3, <5>4
      <4>2. QED
        BY <4>1 DEF Distinct
    <3>7. KeptOf(seq, keep, n, f[n])
      BY <3>1, <3>3, <3>4, <3>6 DEF KeptOf, r
    <3>8. QED
      BY <2>1, <3>7
  <2>5. QED
    BY <2>3, <2>4
<1> HIDE DEF T
<1>5. \A n \in 0..l : n \in T
  BY <1>1, <1>3, <1>4, InductUpto
<1>6. l \in 0..l
  BY <1>1
<1>7. QED
  BY <1>5, <1>6 DEF T, l

LEMMA InOrderFacts ==
  ASSUME NEW set \in SUBSET Subsystems
  PROVE  QueueOf(InOrder[set], set)
<1> DEFINE seq == [s \in Subsystems |-> s]
           Defines(f) == f = [n \in 0..Len(Kind) |->
                                IF n = 0 THEN <<>>
                                ELSE IF n \in set THEN Append(f[n - 1], n) ELSE f[n - 1]]
<1>1. InOrder[set] = (CHOOSE f : Defines(f))[Len(Kind)]
  BY DEF InOrder
<1>2. seq \in Seq(Subsystems) /\ Len(seq) = Len(Kind) /\ Distinct(seq)
      /\ \A n \in 1..Len(Kind) : seq[n] = n
  <2>1. seq \in Seq(Subsystems) /\ Len(seq) = Len(Kind)
    BY ClassFacts
  <2>2. \A n \in 1..Len(Kind) : seq[n] = n
    BY ClassFacts
  <2> HIDE DEF seq
  <2>3. Distinct(seq)
    BY <2>1, <2>2 DEF Distinct
  <2>4. QED
    BY <2>1, <2>2, <2>3
<1> HIDE DEF seq
<1>3. ASSUME NEW f PROVE Defines(f) <=> Keeping(seq, set, f)
  <2> DEFINE one == [n \in 0..Len(Kind) |->
                       IF n = 0 THEN <<>> ELSE IF n \in set THEN Append(f[n - 1], n) ELSE f[n - 1]]
             two == [n \in 0..Len(seq) |->
                       IF n = 0 THEN <<>>
                       ELSE IF seq[n] \in set THEN Append(f[n - 1], seq[n]) ELSE f[n - 1]]
  <2>1. \A n \in 0..Len(Kind) : n # 0 => seq[n] = n
    BY <1>2, ClassFacts
  <2>2. one = two
    BY <1>2, <2>1
  <2> HIDE DEF one, two
  <2>3. (Defines(f) <=> f = one) /\ (Keeping(seq, set, f) <=> f = two)
    BY DEF one, two, Keeping
  <2>4. QED
    BY <2>2, <2>3
<1> DEFINE g == CHOOSE f : Defines(f)
<1> HIDE DEF Defines
<1>4. Defines(g)
  BY <1>2, <1>3, KeepingExists
<1> HIDE DEF g
<1>5. KeptOf(seq, set, Len(Kind), g[Len(Kind)])
  BY <1>2, <1>3, <1>4, KeepingKeeps
<1>6. InOrder[set] = g[Len(Kind)]
  BY <1>1 DEF g
<1>7. QED
  BY <1>5, <1>6, InjectiveIsDistinct DEF KeptOf, QueueOf

LEMMA StillQueuedFacts ==
  ASSUME NEW A, QueueOf(queue, A), NEW after
  PROVE  QueueOf(StillQueued(after), {s \in A : ~ (s \in Mends /\ after[s] = MaxHp)})
<1> DEFINE whole == {s \in Mends : after[s] = MaxHp}
           keep == {s \in A : s \notin whole}
           Defines(f) == f = [n \in 0..Len(queue) |->
                                IF n = 0 THEN <<>>
                                ELSE IF queue[n] \in whole THEN f[n - 1]
                                     ELSE Append(f[n - 1], queue[n])]
<1>1. StillQueued(after) = (CHOOSE f : Defines(f))[Len(queue)]
  BY DEF StillQueued
<1> HIDE DEF whole
<1>2. queue \in Seq(Subsystems) /\ Distinct(queue) /\ \A n \in 1..Len(queue) : queue[n] \in A
  BY InjectiveIsDistinct DEF QueueOf
<1>3. ASSUME NEW f PROVE Defines(f) <=> Keeping(queue, keep, f)
  <2> DEFINE one == [n \in 0..Len(queue) |->
                       IF n = 0 THEN <<>>
                       ELSE IF queue[n] \in whole THEN f[n - 1] ELSE Append(f[n - 1], queue[n])]
             two == [n \in 0..Len(queue) |->
                       IF n = 0 THEN <<>>
                       ELSE IF queue[n] \in keep THEN Append(f[n - 1], queue[n]) ELSE f[n - 1]]
  <2>1. \A n \in 0..Len(queue) : n # 0 => (queue[n] \in keep <=> queue[n] \notin whole)
    BY <1>2
  <2> HIDE DEF keep
  <2>2. one = two
    BY <2>1
  <2> HIDE DEF one, two
  <2>3. (Defines(f) <=> f = one) /\ (Keeping(queue, keep, f) <=> f = two)
    BY DEF one, two, Keeping
  <2>4. QED
    BY <2>2, <2>3
<1> DEFINE g == CHOOSE f : Defines(f)
<1> HIDE DEF Defines, keep
<1>4. Defines(g)
  BY <1>2, <1>3, KeepingExists
<1> HIDE DEF g
<1>5. KeptOf(queue, keep, Len(queue), g[Len(queue)])
  BY <1>2, <1>3, <1>4, KeepingKeeps
<1>6. StillQueued(after) = g[Len(queue)]
  BY <1>1 DEF g
<1>7. QueueOf(StillQueued(after), keep)
  BY <1>5, <1>6, InjectiveIsDistinct DEF KeptOf, QueueOf
<1>8. keep = {s \in A : ~ (s \in Mends /\ after[s] = MaxHp)}
  BY DEF keep, whole
<1>9. QED
  BY <1>7, <1>8, Zenon

LEMMA EnqueuedFacts ==
  ASSUME NEW A, NEW q, QueueOf(q, A), NEW set \in SUBSET Subsystems, set \subseteq A
  PROVE  QueueOf(Enqueued(q, set), A)
<1> DEFINE new == set \ ToSet(q)
           more == InOrder[new]
<1>1. new \in SUBSET Subsystems /\ new \subseteq A
  OBVIOUS
<1>2. \A i \in 1..Len(q) : q[i] \notin new
  BY DEF ToSet, QueueOf
<1> HIDE DEF new
<1>3. QueueOf(more, new)
  BY <1>1, InOrderFacts
<1> HIDE DEF more
<1>4. Distinct(q) /\ Distinct(more)
  BY <1>3, InjectiveIsDistinct DEF QueueOf
<1> DEFINE r == q \o more
<1>5. /\ q \in Seq(Subsystems) /\ more \in Seq(Subsystems) /\ Len(q) \in Nat /\ Len(more) \in Nat
      /\ (\A i \in 1..Len(q) : q[i] \in A) /\ (\A i \in 1..Len(more) : more[i] \in new)
  BY <1>3 DEF QueueOf
<1>6. /\ r \in Seq(Subsystems) /\ Len(r) = Len(q) + Len(more)
      /\ \A i \in 1..Len(q) : r[i] = q[i]
      /\ \A i \in 1..Len(r) : i \notin 1..Len(q) =>
           i - Len(q) \in 1..Len(more) /\ r[i] = more[i - Len(q)]
  BY <1>5
<1> HIDE DEF r
<1>7. \A i \in 1..Len(r) : r[i] \in A
  BY <1>1, <1>5, <1>6
<1>8. ASSUME NEW i \in 1..Len(r), NEW j \in 1..Len(r), r[i] = r[j] PROVE i = j
  <2>1. CASE i \in 1..Len(q) /\ j \in 1..Len(q)
    BY <1>4, <1>6, <1>8, <2>1 DEF Distinct
  <2>2. CASE i \in 1..Len(q) /\ j \notin 1..Len(q)
    BY <1>2, <1>5, <1>6, <1>8, <2>2
  <2>3. CASE i \notin 1..Len(q) /\ j \in 1..Len(q)
    BY <1>2, <1>5, <1>6, <1>8, <2>3
  <2>4. CASE i \notin 1..Len(q) /\ j \notin 1..Len(q)
    <3> DEFINE a == i - Len(q)
               b == j - Len(q)
    <3>1. /\ a \in 1..Len(more) /\ r[i] = more[a]
          /\ b \in 1..Len(more) /\ r[j] = more[b]
      BY <1>6, <2>4
    <3> HIDE DEF a, b
    <3>2. a = b
      BY <1>4, <1>8, <3>1 DEF Distinct
    <3>3. i - Len(q) = j - Len(q)
      BY <3>2 DEF a, b
    <3>4. QED
      BY <1>5, <1>6, <3>3
  <2>5. QED
    BY <2>1, <2>2, <2>3, <2>4
<1>9. Distinct(r)
  BY <1>8 DEF Distinct
<1>10. Enqueued(q, set) = r
  BY DEF Enqueued, r, more, new
<1>11. QED
  BY <1>6, <1>7, <1>9, <1>10, InjectiveIsDistinct DEF QueueOf

----------------------------------------------------------------------------
(* Hits.                                                                   *)

ShieldTop == Max({1, ShieldMax})

LEMMA ShieldTopFacts ==
  ShieldTop \in Nat /\ ShieldTop >= 1 /\ ShieldTop >= ShieldMax
<1>1. \E x \in {1, ShieldMax} : \A y \in {1, ShieldMax} : x >= y
  BY ClassFacts
<1>2. Max({1, ShieldMax}) \in {1, ShieldMax} /\ \A y \in {1, ShieldMax} : Max({1, ShieldMax}) >= y
  BY <1>1 DEF Max
<1>3. QED
  BY <1>2, ClassFacts DEF ShieldTop

LEMMA AtLeastOne ==
  ASSUME NEW n \in Nat
  PROVE  Max({n, 1}) \in Nat /\ (Max({n, 1}) = n \/ Max({n, 1}) = 1)
<1>1. \E x \in {n, 1} : \A y \in {n, 1} : x >= y
  OBVIOUS
<1>2. QED
  BY <1>1 DEF Max

LEMMA TotalIsSum == \A f : Total(f) = SumFunctionOnSet(f, DOMAIN f)
  BY DEF Total, SumFunction

(* Subsystems that need repair.                                            *)
Broken == {s \in Subsystems : hp[s] < MaxHp}

LEMMA SoundQueue ==
  ASSUME hp \in [Subsystems -> 0..MaxHp]
  PROVE  queue \in Seq(Subsystems) /\ QueueIsSound <=> QueueOf(queue, Broken)
<1>1. ASSUME queue \in Seq(Subsystems)
      PROVE  DOMAIN queue = 1..Len(queue) /\ \A i \in 1..Len(queue) : queue[i] \in Subsystems
  BY <1>1
<1>2. QED
  BY <1>1 DEF QueueIsSound, QueueOf, Broken

LEMMA ShareFacts ==
  ASSUME NEW d \in Nat, NEW n \in Nat, n > 0
  PROVE  d \div n \in Nat /\ n * (d \div n) <= d
  OBVIOUS

(* What the shields absorb is a part of the damage.                        *)
LEMMA AbsorbingFacts ==
  ASSUME TypeOK, NEW d \in Damages, NEW met \in SUBSET Facings, met # {}
  PROVE  /\ Absorbing(d, met) \in [Facings -> 0..ShieldTop]
         /\ d - Total([g \in met |-> shield[g] - Absorbing(d, met)[g]]) \in Nat
<1> DEFINE after == Absorbing(d, met)
           n == Cardinality(met)
           taken == [g \in met |-> shield[g] - after[g]]
<1>1. IsFiniteSet(met) /\ n \in Nat /\ n > 0
  BY ClassFacts, FS_Subset, FS_CardinalityType, FS_EmptySet
<1>2. d \in Nat /\ d \div n \in Nat /\ n * (d \div n) <= d
  <2>1. d \in Nat
    BY ClassFacts
  <2> HIDE DEF n
  <2>2. QED
    BY <1>1, <2>1, ShareFacts
<1>4. shield \in [Facings -> 0..ShieldTop]
  BY DEF TypeOK, ShieldTop
<1>3. \A g \in Facings : shield[g] \in Nat /\ shield[g] <= ShieldTop
  BY <1>4, ShieldTopFacts
<1> DEFINE share == d \div n
<1>5. /\ after = IF cloak # "decloaked" THEN shield
                 ELSE [g \in Facings |-> IF g \in met THEN shield[g] - Least(share, shield[g])
                                         ELSE shield[g]]
  BY DEF Absorbing
<1> HIDE DEF after, share
<1>6. share \in Nat
  BY <1>2 DEF share
<1>7. ASSUME NEW g \in Facings
      PROVE  /\ after[g] \in Nat /\ after[g] <= shield[g]
             /\ g \in met => shield[g] - after[g] <= share
  <2> DEFINE part == Least(share, shield[g])
  <2>1. shield[g] \in Nat
    BY <1>3
  <2>2. part \in Int /\ part <= share /\ part <= shield[g] /\ (part = share \/ part = shield[g])
    BY <1>6, <2>1 DEF Least
  <2>3. after[g] = shield[g] \/ (g \in met /\ after[g] = shield[g] - part)
        \/ (g \notin met /\ after[g] = shield[g])
    BY <1>5
  <2> HIDE DEF part
  <2>4. QED
    BY <1>6, <2>1, <2>2, <2>3
<1>8. after \in [Facings -> 0..ShieldTop]
  <2>1. DOMAIN after = Facings /\ after = [g \in Facings |-> after[g]]
    BY <1>4, <1>5
  <2>2. \A g \in Facings : after[g] \in 0..ShieldTop
    BY <1>3, <1>7, ShieldTopFacts
  <2>3. QED
    BY <2>1, <2>2
<1>9. Total(taken) \in Int /\ Total(taken) <= d
  <2>1. \A g \in met : taken[g] \in Int /\ taken[g] <= share
    BY <1>3, <1>7
  <2>2. DOMAIN taken = met
    OBVIOUS
  <2> HIDE DEF taken, n
  <2>3. /\ SumFunctionOnSet(taken, met) \in Int
        /\ SumFunctionOnSet(taken, met) <= Cardinality(met) * share
    BY <1>1, <1>6, <2>1, SumBounded
  <2>4. Cardinality(met) * share <= d /\ Cardinality(met) * share \in Int
    BY <1>1, <1>2, <1>6 DEF n, share
  <2>5. QED
    BY <1>2, <2>2, <2>3, <2>4, TotalIsSum
<1>10. d - Total(taken) \in Nat
  <2> HIDE DEF taken
  <2> QED
    BY <1>2, <1>9
<1>11. QED
  BY <1>8, <1>10 DEF after

LEMMA DamagedFacts ==
  ASSUME TypeOK, NEW left \in [Subsystems -> 0..MaxHp], \A s \in Subsystems : left[s] <= hp[s]
  PROVE  /\ FirstOfBuckets(Damaged(left)) \in SUBSET Subsystems
         /\ FirstOfBuckets(Damaged(left)) \subseteq {s \in Subsystems : left[s] < MaxHp}
         /\ Broken \subseteq {s \in Subsystems : left[s] < MaxHp}
<1>1. \A s \in Subsystems : left[s] \in 0..MaxHp /\ hp[s] \in 0..MaxHp
  BY DEF TypeOK
<1>2. FirstOfBuckets(Damaged(left)) \subseteq Damaged(left)
  BY DEF FirstOfBuckets
<1>3. Damaged(left) \subseteq {s \in Subsystems : left[s] < MaxHp}
  BY <1>1, ClassFacts DEF Damaged
<1>4. Broken \subseteq {s \in Subsystems : left[s] < MaxHp}
  BY <1>1, ClassFacts DEF Broken
<1>5. QED
  BY <1>2, <1>3, <1>4

LEMMA QueueGrows ==
  ASSUME NEW q, NEW A, NEW B, QueueOf(q, A), A \subseteq B
  PROVE  QueueOf(q, B)
  BY DEF QueueOf

(* The queue after a hit.                                                  *)
LEMMA HurtFacts ==
  ASSUME TypeOK, QueueIsSound,
         NEW left \in [Subsystems -> 0..MaxHp], \A s \in Subsystems : left[s] <= hp[s]
  PROVE  LET below == {s \in Subsystems : left[s] < MaxHp}
             hurt == Enqueued(queue, FirstOfBuckets(Damaged(left)))
         IN  QueueOf(hurt, below) /\ QueueOf(Enqueued(hurt, DeathRepairs(left)), below)
<1> DEFINE below == {s \in Subsystems : left[s] < MaxHp}
           hurt == Enqueued(queue, FirstOfBuckets(Damaged(left)))
<1>1. QueueOf(queue, below)
  BY DamagedFacts, SoundQueue, QueueGrows DEF TypeOK
<1>2. QueueOf(hurt, below)
  <2> DEFINE set == FirstOfBuckets(Damaged(left))
  <2>1. set \in SUBSET Subsystems /\ set \subseteq below
    BY DamagedFacts
  <2> HIDE DEF set, below
  <2>2. QueueOf(Enqueued(queue, set), below)
    BY <1>1, <2>1, EnqueuedFacts
  <2>3. QED
    BY <2>2 DEF set
<1> HIDE DEF hurt
<1>3. QueueOf(Enqueued(hurt, DeathRepairs(left)), below)
  <2>1. DeathRepairs(left) = below /\ below \in SUBSET Subsystems
    BY DEF DeathRepairs
  <2> HIDE DEF below
  <2>2. QED
    BY <1>2, <2>1, EnqueuedFacts
<1>4. QED
  BY <1>2, <1>3 DEF hurt

LEMMA StrikeStep ==
  ASSUME ShipIsSound, NEW d \in Damages, NEW met \in SUBSET Facings, met # {},
         NEW reached \in SUBSET Subsystems, NEW collided \in BOOLEAN,
         Strike(d, met, reached, collided)
  PROVE  ShipIsSound'
<1>0. TypeOK /\ QueueIsSound
  BY DEF ShipIsSound
<1> DEFINE after == Absorbing(d, met)
           overflow == d - Total([g \in met |-> shield[g] - after[g]])
           left == [s \in Subsystems |->
                      IF s \in reached THEN hp[s] - Least(overflow, hp[s]) ELSE hp[s]]
           toHull == overflow - Total([s \in reached |-> hp[s] - left[s]])
           hurt == Enqueued(queue, FirstOfBuckets(Damaged(left)))
<1>1. /\ shield' = after
      /\ hp' = left
      /\ hull' = IF toHull > 0 THEN hull - Least(toHull, hull) ELSE hull
      /\ alive' = (hull' > 0)
      /\ queue' = IF alive' \/ ~ collided THEN hurt ELSE Enqueued(hurt, DeathRepairs(left))
      /\ UNCHANGED <<cloak, timer, backup>>
  BY DEF Strike
<1>2. after \in [Facings -> 0..ShieldTop] /\ overflow \in Nat
  BY <1>0, AbsorbingFacts
<1> HIDE DEF after, overflow
<1>3. \A s \in Subsystems : hp[s] \in 0..MaxHp /\ hp[s] \in Nat /\ MaxHp \in Nat
  BY <1>0, ClassFacts DEF TypeOK
<1>4. ASSUME NEW s \in Subsystems PROVE left[s] \in Nat /\ left[s] <= hp[s]
  <2> DEFINE part == Least(overflow, hp[s])
  <2>1. hp[s] \in Nat
    BY <1>3
  <2>2. part \in Int /\ part <= hp[s] /\ (part = overflow \/ part = hp[s])
    BY <1>2, <2>1 DEF Least
  <2>3. left[s] = hp[s] \/ left[s] = hp[s] - part
    OBVIOUS
  <2> HIDE DEF part, left
  <2>4. QED
    BY <1>2, <2>1, <2>2, <2>3
<1>5. left \in [Subsystems -> 0..MaxHp]
  <2>1. \A s \in Subsystems : left[s] \in 0..MaxHp
    <3> HIDE DEF left
    <3> QED
      BY <1>3, <1>4
  <2>2. left = [s \in Subsystems |-> left[s]]
    OBVIOUS
  <2> HIDE DEF left
  <2>3. QED
    BY <2>1, <2>2
<1> HIDE DEF left
<1>6. toHull \in Int
  <2> DEFINE damage == [s \in reached |-> hp[s] - left[s]]
  <2>0. IsFiniteSet(reached)
    BY ClassFacts, FS_Subset
  <2>1. IsFiniteSet(reached) /\ \A s \in reached : damage[s] \in Int
    BY <1>3, <1>4, <2>0
  <2>2. DOMAIN damage = reached
    OBVIOUS
  <2> HIDE DEF damage
  <2>3. Total(damage) \in Int
    BY <2>1, <2>2, TotalIsSum, SumStep
  <2>4. QED
    BY <1>2, <2>3 DEF damage
<1> HIDE DEF toHull
<1>7. hull' \in 0..HullMax
  <2>1. hull \in 0..HullMax /\ HullMax \in Nat /\ hull \in Nat
    BY <1>0, ClassFacts DEF TypeOK
  <2>2. CASE toHull > 0
    <3> DEFINE part == Least(toHull, hull)
    <3>1. part \in Int /\ part <= hull /\ (part = toHull \/ part = hull)
      BY <1>6, <2>1 DEF Least
    <3> HIDE DEF part
    <3>2. hull' = hull - part
      BY <1>1, <2>2 DEF part
    <3>3. QED
      BY <2>1, <2>2, <3>1, <3>2, <1>6
  <2>3. QED
    BY <1>1, <2>1, <2>2
<1>8. QueueOf(queue', {s \in Subsystems : left[s] < MaxHp})
  BY <1>0, <1>1, <1>4, <1>5, HurtFacts
<1>9. queue' \in Seq(Subsystems) /\ QueueIsSound'
  <2>1. QueueOf(queue', Broken')
    BY <1>1, <1>8 DEF Broken
  <2>2. QED
    BY <1>1, <1>5, <2>1 DEF QueueOf, QueueIsSound, Broken
<1>10. alive' \in BOOLEAN
  BY <1>1
<1>11. TypeOK'
  BY <1>0, <1>1, <1>2, <1>5, <1>7, <1>9, <1>10 DEF TypeOK, ShieldTop
<1>12. QED
  BY <1>9, <1>11 DEF ShipIsSound

----------------------------------------------------------------------------
(* The other operations of the battle.                                     *)

LEMMA Bounds ==
  /\ 0 \in 0..HullMax /\ HullMax \in 0..HullMax
  /\ 0 \in 0..CloakTicks /\ MaxBackup \in 0..MaxBackup
  BY ClassFacts

LEMMA SoundStart == Init => ShipIsSound
<1> SUFFICES ASSUME Init PROVE ShipIsSound
  OBVIOUS
<1>1. queue \in Seq(Subsystems) /\ QueueIsSound
  BY DEF Init, QueueIsSound, IsInjective
<1>2. shield \in [Facings -> 0..ShieldTop]
  BY ShieldTopFacts, ClassFacts DEF Init, Full
<1>3. hp \in [Subsystems -> 0..MaxHp]
  BY ClassFacts DEF Init, Whole
<1>4. QED
  <2>1. TypeOK
    <3>1. /\ alive \in BOOLEAN /\ hull \in 0..HullMax /\ timer \in 0..CloakTicks
          /\ backup \in 0..MaxBackup /\ cloak \in {"decloaked", "cloaking", "cloaked", "decloaking"}
      BY Bounds DEF Init
    <3>2. QED
      BY <1>1, <1>2, <1>3, <3>1 DEF TypeOK, ShieldTop
  <2>2. QED
    BY <1>1, <2>1 DEF ShipIsSound

LEMMA SpawnStep ==
  ASSUME Spawn
  PROVE  ShipIsSound'
<1>1. queue' \in Seq(Subsystems) /\ QueueIsSound'
  BY DEF Spawn, QueueIsSound, IsInjective
<1>2. shield' \in [Facings -> 0..ShieldTop]
  BY ShieldTopFacts, ClassFacts DEF Spawn, Full
<1>3. hp' \in [Subsystems -> 0..MaxHp]
  BY ClassFacts DEF Spawn, Whole
<1>4. QED
  <2>1. TypeOK'
    <3>1. /\ alive' \in BOOLEAN /\ hull' \in 0..HullMax /\ timer' \in 0..CloakTicks
          /\ backup' \in 0..MaxBackup
          /\ cloak' \in {"decloaked", "cloaking", "cloaked", "decloaking"}
      BY Bounds DEF Spawn
    <3>2. QED
      BY <1>1, <1>2, <1>3, <3>1 DEF TypeOK, ShieldTop
  <2>2. QED
    BY <1>1, <2>1 DEF ShipIsSound

LEMMA HitStep ==
  ASSUME ShipIsSound, Beam \/ Torpedo \/ Collision
  PROVE  ShipIsSound'
<1>1. Facings \in SUBSET Facings /\ Facings # {}
  BY ClassFacts, FS_EmptySet
<1>2. \A f \in Facings : {f} \in SUBSET Facings /\ {f} # {}
  OBVIOUS
<1>3. {} \in SUBSET Subsystems /\ TRUE \in BOOLEAN /\ FALSE \in BOOLEAN
  OBVIOUS
<1>4. CASE Beam
  BY <1>2, <1>3, <1>4, StrikeStep DEF Beam
<1>5. CASE Torpedo
  <2>1. PICK d \in Damages :
          \/ \E reached \in SUBSET Subsystems : Strike(d, Facings, reached, FALSE)
          \/ \E f \in Facings : Strike(d, {f}, {}, FALSE)
    BY <1>5 DEF Torpedo
  <2>2. CASE \E reached \in SUBSET Subsystems : Strike(d, Facings, reached, FALSE)
    BY <1>1, <1>3, <2>2, StrikeStep
  <2>3. CASE \E f \in Facings : Strike(d, {f}, {}, FALSE)
    BY <1>2, <1>3, <2>3, StrikeStep
  <2>4. QED
    BY <2>1, <2>2, <2>3
<1>6. CASE Collision
  BY <1>2, <1>3, <1>6, StrikeStep DEF Collision
<1>7. QED
  BY <1>4, <1>5, <1>6

LEMMA SelfDestructStep ==
  ASSUME ShipIsSound, SelfDestruct
  PROVE  ShipIsSound'
<1> DEFINE none == [s \in Subsystems |-> 0]
<1>0. TypeOK /\ QueueIsSound
  BY DEF ShipIsSound
<1>1. none \in [Subsystems -> 0..MaxHp] /\ \A s \in Subsystems : none[s] <= hp[s]
  BY <1>0, ClassFacts DEF TypeOK
<1>2. /\ hp' = none /\ hull' = 0 /\ alive' = FALSE
      /\ queue' = Enqueued(queue, FirstOfBuckets(Damaged(none)))
      /\ UNCHANGED <<shield, cloak, timer, backup>>
  BY DEF SelfDestruct
<1> HIDE DEF none
<1>3. QueueOf(queue', {s \in Subsystems : none[s] < MaxHp})
  BY <1>0, <1>1, <1>2, HurtFacts
<1>4. queue' \in Seq(Subsystems) /\ QueueIsSound'
  <2>1. QueueOf(queue', Broken')
    BY <1>2, <1>3 DEF Broken
  <2>2. QED
    BY <1>1, <1>2, <2>1 DEF QueueOf, QueueIsSound, Broken
<1>5. TypeOK'
  <2>1. hull' \in 0..HullMax /\ alive' \in BOOLEAN
    BY <1>2, Bounds
  <2>2. QED
    BY <1>0, <1>1, <1>2, <1>4, <2>1 DEF TypeOK
<1>6. QED
  BY <1>4, <1>5 DEF ShipIsSound

LEMMA CloakStep ==
  ASSUME ShipIsSound, StartCloak \/ StopCloak
  PROVE  ShipIsSound'
<1>1. /\ UNCHANGED <<alive, hull, shield, hp, queue, backup>>
      /\ timer' = CloakTicks /\ cloak' \in {"cloaking", "decloaking"}
  BY DEF StartCloak, StopCloak
<1>2. CloakTicks \in 0..CloakTicks
  BY ClassFacts
<1>3. TypeOK'
  BY <1>1, <1>2 DEF ShipIsSound, TypeOK
<1>4. QueueIsSound'
  BY <1>1 DEF ShipIsSound, QueueIsSound
<1>5. QED
  BY <1>3, <1>4 DEF ShipIsSound

----------------------------------------------------------------------------
(* The tick.                                                               *)

(* What the facings gain is granted, and no less than nothing.             *)
Gains(sh, power) ==
  /\ sh \in [Facings -> 0..ShieldTop]
  /\ Total(sh) - Total(shield) \in 0..power

LEMMA ShieldTotal ==
  ASSUME NEW sh \in [Facings -> 0..ShieldTop]
  PROVE  Total(sh) \in Int
<1>1. DOMAIN sh = Facings /\ \A f \in Facings : sh[f] \in Int
  BY ShieldTopFacts
<1>2. QED
  BY <1>1, ClassFacts, TotalIsSum, SumStep

LEMMA RechargedFacts ==
  ASSUME TypeOK, NEW on \in SUBSET Facings, NEW granted, NEW sh \in Recharged(on, granted)
  PROVE  sh \in [Facings -> 0..ShieldTop]
<1>1. sh \in [Facings -> 0..ShieldMax]
  BY DEF Recharged
<1>2. 0..ShieldMax \subseteq 0..ShieldTop
  BY ShieldTopFacts, ClassFacts
<1>3. QED
  BY <1>1, <1>2

(* Of the facings that hold and are not full.                              *)
LEMMA HoldingGains ==
  ASSUME TypeOK, NEW power \in Nat,
         NEW on \in SUBSET Facings, \A f \in on : shield[f] \in 1..(ShieldMax - 1),
         NEW sh \in Recharged(on, Least(Cardinality(on) * Recharge, power))
  PROVE  Gains(sh, power)
<1> DEFINE n == Cardinality(on)
           sum == SumFunctionOnSet(shield, on)
           room == n * ShieldMax - sum
           granted == Least(n * Recharge, power)
<1>1. IsFiniteSet(on) /\ n \in Nat
  BY ClassFacts, FS_Subset, FS_CardinalityType
<1>2. sum \in Int /\ sum <= n * ShieldMax
  <2>1. \A f \in on : shield[f] \in Int /\ shield[f] <= ShieldMax
    BY ClassFacts
  <2>2. ShieldMax \in Int
    BY ClassFacts
  <2>3. QED
    BY <1>1, <2>1, <2>2, SumBounded
<1>3. n * ShieldMax \in Int /\ n * Recharge \in Nat
  BY <1>1, ClassFacts
<1>4. Total(sh) - Total(shield) = Least(granted, room)
  BY DEF Recharged
<1> HIDE DEF n, sum
<1>5. room \in Nat
  BY <1>2, <1>3
<1>6. granted \in Nat /\ granted <= power
  <2> DEFINE asked == n * Recharge
  <2>1. asked \in Nat
    BY <1>3
  <2> HIDE DEF asked
  <2>2. Least(asked, power) \in Nat /\ Least(asked, power) <= power
    BY <2>1 DEF Least
  <2>3. QED
    BY <2>2 DEF asked
<1> HIDE DEF granted, room
<1>7. Least(granted, room) \in Nat /\ Least(granted, room) <= power
  BY <1>5, <1>6 DEF Least
<1>8. QED
  BY <1>4, <1>7, RechargedFacts DEF Gains, granted, n

LEMMA ShieldTickFacts ==
  ASSUME TypeOK, NEW power \in Nat, NEW sh \in ShieldTick(power)
  PROVE  /\ sh \in [Facings -> 0..ShieldTop]
         /\ Down("shield") => Total(sh) - Total(shield) \in 0..power
         /\ cloak # "decloaked" => sh = shield
<1>1. shield \in [Facings -> 0..ShieldTop]
  BY DEF TypeOK, ShieldTop
<1>2. CASE cloak # "decloaked"
  <2>1. sh = shield
    BY <1>2 DEF ShieldTick
  <2>2. Total(sh) - Total(shield) = 0
    BY <1>1, <2>1, ShieldTotal
  <2>3. QED
    BY <1>1, <2>1, <2>2
<1>3. CASE cloak = "decloaked" /\ Down("shield")
  <2> DEFINE on == {f \in Facings : shield[f] \in 1..(ShieldMax - 1)}
  <2>1. sh \in Recharged(on, Least(Cardinality(on) * Recharge, power))
    BY <1>3 DEF ShieldTick
  <2>2. on \in SUBSET Facings /\ \A f \in on : shield[f] \in 1..(ShieldMax - 1)
    OBVIOUS
  <2> HIDE DEF on
  <2>3. Gains(sh, power)
    BY <2>1, <2>2, HoldingGains
  <2>4. QED
    BY <1>3, <2>3 DEF Gains
<1>4. CASE cloak = "decloaked" /\ ~ Down("shield")
  <2>1. sh \in Recharged(Facings, Cardinality(Facings) * Recharge)
    BY <1>4 DEF ShieldTick
  <2>2. QED
    BY <1>4, <2>1, RechargedFacts
<1>5. QED
  BY <1>2, <1>3, <1>4

LEMMA CloakTickFacts ==
  ASSUME TypeOK, NEW starved \in BOOLEAN, NEW sh \in [Facings -> 0..ShieldTop],
         CloakTick(starved, sh)
  PROVE  /\ shield' \in [Facings -> 0..ShieldTop] /\ timer' \in 0..CloakTicks
         /\ cloak' \in {"decloaked", "cloaking", "cloaked", "decloaking"}
         /\ (cloak = "decloaking" /\ cloak' = "decloaked") \/ shield' = sh
<1>1. timer \in 0..CloakTicks /\ cloak \in {"decloaked", "cloaking", "cloaked", "decloaking"}
      /\ CloakTicks \in Nat
  BY ClassFacts DEF TypeOK
<1>2. CASE cloak \in {"cloaking", "decloaking"} /\ timer > 1
  BY <1>1, <1>2 DEF CloakTick
<1>3. CASE ~ (cloak \in {"cloaking", "decloaking"} /\ timer > 1) /\ cloak = "cloaked" /\ starved
  BY <1>1, <1>3 DEF CloakTick
<1>4. CASE ~ (cloak \in {"cloaking", "decloaking"} /\ timer > 1) /\ ~ (cloak = "cloaked" /\ starved)
  <2>1. /\ cloak' = CASE cloak = "cloaking" -> "cloaked"
                      [] cloak = "decloaking" -> "decloaked"
                      [] OTHER -> cloak
        /\ timer' = 0
        /\ shield' = IF cloak = "decloaking"
                     THEN [f \in Facings |-> Max({sh[f], 1})] ELSE sh
    BY <1>4 DEF CloakTick
  <2>2. \A f \in Facings : Max({sh[f], 1}) \in 0..ShieldTop
    <3>1. ASSUME NEW f \in Facings PROVE Max({sh[f], 1}) \in 0..ShieldTop
      <4>1. sh[f] \in Nat /\ sh[f] <= ShieldTop
        BY ShieldTopFacts
      <4>2. Max({sh[f], 1}) \in Nat /\ (Max({sh[f], 1}) = sh[f] \/ Max({sh[f], 1}) = 1)
        BY <4>1, AtLeastOne
      <4>3. QED
        BY <4>1, <4>2, ShieldTopFacts
    <3>2. QED
      BY <3>1
  <2>3. shield' \in [Facings -> 0..ShieldTop]
    BY <2>1, <2>2
  <2>4. /\ cloak' \in {"decloaked", "cloaking", "cloaked", "decloaking"}
        /\ cloak = "decloaking" => cloak' = "decloaked"
    BY <1>1, <2>1
  <2>5. QED
    BY <1>1, <2>1, <2>3, <2>4
<1>5. QED
  BY <1>2, <1>3, <1>4

(* What the teams have mended and is not whole stays in the queue.         *)
LEMMA MendedFacts ==
  ASSUME ShipIsSound
  PROVE  LET below == {s \in Subsystems : Mended[s] < MaxHp}
         IN  /\ Mended \in [Subsystems -> 0..MaxHp]
             /\ QueueOf(Enqueued(StillQueued(Mended), AutoQueued(Mended)), below)
<1> DEFINE below == {s \in Subsystems : Mended[s] < MaxHp}
<1>0. TypeOK /\ QueueIsSound
  BY DEF ShipIsSound
<1>1. \A s \in Subsystems : hp[s] \in 0..MaxHp /\ hp[s] \in Nat /\ MaxHp \in Nat
  BY <1>0, ClassFacts DEF TypeOK
<1>2. ASSUME NEW s \in Subsystems
      PROVE  /\ Mended[s] \in 0..MaxHp
             /\ s \notin Mends => Mended[s] = hp[s]
  <2>1. Mended[s] = IF s \in Mends THEN Least(MaxHp, hp[s] + 1) ELSE hp[s]
    BY DEF Mended
  <2>2. Least(MaxHp, hp[s] + 1) \in 0..MaxHp
    BY <1>1 DEF Least
  <2>3. QED
    BY <1>1, <2>1, <2>2
<1>3. Mended \in [Subsystems -> 0..MaxHp]
  BY <1>2 DEF Mended
<1> DEFINE kept == {s \in Broken : ~ (s \in Mends /\ Mended[s] = MaxHp)}
<1>4. QueueOf(StillQueued(Mended), kept)
  BY <1>0, SoundQueue, StillQueuedFacts DEF TypeOK
<1>5. kept \subseteq below
  <2>1. ASSUME NEW s \in Broken, ~ (s \in Mends /\ Mended[s] = MaxHp) PROVE Mended[s] < MaxHp
    <3>1. s \in Subsystems /\ hp[s] < MaxHp
      BY DEF Broken
    <3>2. QED
      BY <1>1, <1>2, <2>1, <3>1
  <2>2. QED
    BY <2>1 DEF Broken
<1>6. AutoQueued(Mended) \in SUBSET Subsystems /\ AutoQueued(Mended) \subseteq below
  <2>1. ASSUME NEW s \in Subsystems, Mended[s] < DisabledBelow[s] PROVE Mended[s] < MaxHp
    <3>1. DisabledBelow[s] \in 0..MaxHp /\ MaxHp \in Nat
      BY ClassFacts
    <3>2. Mended[s] \in 0..MaxHp
      BY <1>2
    <3>3. QED
      BY <2>1, <3>1, <3>2
  <2>2. QED
    BY <2>1 DEF AutoQueued
<1> DEFINE q == StillQueued(Mended)
           set == AutoQueued(Mended)
<1>7. QueueOf(q, below)
  <2> HIDE DEF q, kept, below
  <2>1. QueueOf(q, kept)
    BY <1>4 DEF q
  <2>2. QED
    BY <1>5, <2>1, QueueGrows
<1>8. set \in SUBSET Subsystems /\ set \subseteq below
  BY <1>6
<1> HIDE DEF q, set, below
<1>9. QueueOf(Enqueued(q, set), below)
  BY <1>7, <1>8, EnqueuedFacts
<1>10. QED
  BY <1>3, <1>9 DEF q, set, below

LEMMA TickStep ==
  ASSUME ShipIsSound, Tick
  PROVE  ShipIsSound'
<1>0. TypeOK /\ QueueIsSound
  BY DEF ShipIsSound
<1>1. PICK starved \in BOOLEAN, yield \in Nat :
        LET power == Least(MaxBackup, backup + yield)
        IN \E sh \in ShieldTick(power) :
             /\ backup' = IF Down("shield") THEN power - (Total(sh) - Total(shield)) ELSE power
             /\ CloakTick(starved, sh)
  <2>1. PICK second \in BOOLEAN, starved \in BOOLEAN :
          \E yield \in Yield(second) :
            LET power == Least(MaxBackup, backup + yield)
            IN  \E sh \in ShieldTick(power) :
                  /\ backup' = IF Down("shield") THEN power - (Total(sh) - Total(shield)) ELSE power
                  /\ CloakTick(starved, sh)
    BY DEF Tick
  <2>2. \A y \in Yield(second) : y \in Nat
    BY ClassFacts DEF Yield
  <2>3. QED
    BY <2>1, <2>2
<1> DEFINE power == Least(MaxBackup, backup + yield)
<1>2. power \in Nat /\ power <= MaxBackup /\ MaxBackup \in Nat
  <2>1. backup \in Nat /\ MaxBackup \in Nat
    BY <1>0, ClassFacts DEF TypeOK
  <2>2. QED
    BY <2>1 DEF Least
<1>3. PICK sh \in ShieldTick(power) :
        /\ CloakTick(starved, sh)
        /\ backup' = IF Down("shield") THEN power - (Total(sh) - Total(shield)) ELSE power
  BY <1>1
<1> HIDE DEF power
<1>4. /\ sh \in [Facings -> 0..ShieldTop]
      /\ Down("shield") => Total(sh) - Total(shield) \in 0..power
  BY <1>0, <1>2, <1>3, ShieldTickFacts
<1>5. backup' \in 0..MaxBackup
  <2> DEFINE used == Total(sh) - Total(shield)
  <2>1. /\ Down("shield") => used \in 0..power
        /\ backup' = IF Down("shield") THEN power - used ELSE power
    BY <1>3, <1>4
  <2> HIDE DEF used
  <2>2. CASE Down("shield")
    <3>1. used \in 0..power /\ backup' = power - used
      BY <2>1, <2>2
    <3>2. QED
      BY <1>2, <3>1
  <2>3. CASE ~ Down("shield")
    <3>1. backup' = power
      BY <2>1, <2>3
    <3>2. QED
      BY <1>2, <3>1
  <2>4. QED
    BY <2>2, <2>3
<1>6. /\ shield' \in [Facings -> 0..ShieldTop] /\ timer' \in 0..CloakTicks
      /\ cloak' \in {"decloaked", "cloaking", "cloaked", "decloaking"}
  BY <1>0, <1>3, <1>4, CloakTickFacts
<1>7. /\ hp' = Mended /\ queue' = Enqueued(StillQueued(Mended), AutoQueued(Mended))
      /\ alive' = alive /\ hull' = hull
  BY DEF Tick
<1>8. hp' \in [Subsystems -> 0..MaxHp] /\ QueueOf(queue', Broken')
  BY <1>7, MendedFacts DEF Broken
<1>9. queue' \in Seq(Subsystems) /\ QueueIsSound'
  BY <1>8 DEF QueueOf, QueueIsSound, Broken
<1>10. TypeOK'
  BY <1>0, <1>5, <1>6, <1>7, <1>8, <1>9 DEF TypeOK, ShieldTop
<1>11. QED
  BY <1>9, <1>10 DEF ShipIsSound

----------------------------------------------------------------------------
LEMMA SoundStep ==
  ASSUME ShipIsSound, [Next]_vars
  PROVE  ShipIsSound'
<1>1. CASE UNCHANGED vars
  BY <1>1 DEF vars, ShipIsSound, TypeOK, QueueIsSound
<1>2. QED
  BY <1>1, HitStep, SelfDestructStep, SpawnStep, CloakStep, TickStep DEF Next

(* Under any damage, and whatever the order of hits, ticks and deaths, no  *)
(* level leaves its range, and the repair queue holds only what needs      *)
(* repair, and that once.                                                  *)
THEOREM ShipStaysSound == Spec => []ShipIsSound
<1>1. Init => ShipIsSound
  BY SoundStart
<1>2. ShipIsSound /\ [Next]_vars => ShipIsSound'
  BY SoundStep
<1>3. QED
  BY <1>1, <1>2, PTL DEF Spec

(* A hit takes nothing from the facings of a ship that is not decloaked.   *)
LEMMA StrikeKeepsShields ==
  ASSUME cloak # "decloaked", NEW d, NEW met, NEW reached, NEW collided,
         Strike(d, met, reached, collided)
  PROVE  shield' = shield
  BY DEF Strike, Absorbing

LEMMA ShieldsStep ==
  ASSUME ShipIsSound, [Next]_vars, cloak # "decloaked", cloak' # "decloaked"
  PROVE  shield' = shield
<1>1. CASE Beam \/ Torpedo \/ Collision
  BY <1>1, StrikeKeepsShields DEF Beam, Torpedo, Collision
<1>2. CASE SelfDestruct \/ Spawn \/ StartCloak \/ StopCloak \/ UNCHANGED vars
  BY <1>2 DEF SelfDestruct, Spawn, StartCloak, StopCloak, vars
<1>3. CASE Tick
  <2>1. PICK starved \in BOOLEAN : \E power : \E sh \in ShieldTick(power) : CloakTick(starved, sh)
    BY <1>3 DEF Tick
  <2>2. PICK sh : sh = shield /\ CloakTick(starved, sh)
    BY <2>1 DEF ShieldTick
  <2>3. CASE shield' = sh
    BY <2>2, <2>3
  <2>4. CASE cloak = "decloaking" /\ cloak' = "decloaked"
    BY <2>4
  <2>5. shield \in [Facings -> 0..ShieldTop]
    BY DEF ShipIsSound, TypeOK, ShieldTop
  <2>6. QED
    BY <2>2, <2>3, <2>4, <2>5, CloakTickFacts DEF ShipIsSound
<1>4. QED
  BY <1>1, <1>2, <1>3 DEF Next

(* Until a ship is decloaked again its facings keep what they hold.        *)
THEOREM FacingsRestUnderCloak == Spec => ShieldsKeptUnderCloak
<1>1. ShipIsSound /\ [Next]_vars =>
        [alive /\ cloak # "decloaked" /\ cloak' # "decloaked" => shield' = shield]_vars
  BY ShieldsStep
<1>2. QED
  BY <1>1, ShipStaysSound, PTL DEF Spec, ShieldsKeptUnderCloak

----------------------------------------------------------------------------
(* What clients are told of the ship: the windows of HealthBroadcast.      *)

LEMMA LeastIn ==
  ASSUME NEW S \in SUBSET Nat, S # {}
  PROVE  Min(S) \in S /\ \A y \in S : Min(S) <= y
  BY Smallest DEF Min

LEMMA LessOfTwo ==
  ASSUME NEW m \in Nat, NEW n \in Nat
  PROVE  Min({m, n}) \in Nat /\ Min({m, n}) <= m /\ Min({m, n}) <= n
<1>1. {m, n} \in SUBSET Nat /\ {m, n} # {}
  OBVIOUS
<1>2. Min({m, n}) \in {m, n} /\ \A y \in {m, n} : Min({m, n}) <= y
  BY <1>1, LeastIn
<1>3. QED
  BY <1>2

LEMMA ListFacts ==
  SyncTicks \in Nat /\ \A of \in Lists : Len(of) \in Nat /\ Len(of) > 0
  BY HealthAssumption

(* A window has at least two entries, unless the list has one.             *)
LEMMA SizeFits ==
  ASSUME NEW of \in Lists, NEW c \in Entries(of), NEW o \in Observers
  PROVE  /\ Len(of) \in Nat /\ Len(of) > 0
         /\ WindowSize[of][c][o] \in 1..Len(of)
         /\ WindowSize[of][c][o] = Len(of) \/ WindowSize[of][c][o] >= 2
<1>1. Len(of) \in Nat /\ Len(of) > 0
  BY ListFacts
<1> DEFINE written == Written(of, c, o)
           S == {Len(of)} \cup {k \in 2..Len(of) : written[k].bytes >= Budget}
<1>2. WindowSize[of][c][o] = Min(S)
  BY DEF WindowSize
<1> HIDE DEF written
<1>3. S \in SUBSET Nat /\ S # {}
  BY <1>1
<1>4. \A s \in S : s = Len(of) \/ s \in 2..Len(of)
  OBVIOUS
<1> HIDE DEF S
<1>5. Min(S) \in S
  BY <1>3, LeastIn
<1>6. QED
  BY <1>1, <1>2, <1>4, <1>5

(* How far on from c the entry w is in a list of n.                        *)
From(n, w, c) == (w - c) % n

LEMMA FromStep ==
  ASSUME NEW n \in Nat, n > 0, NEW w \in 0..(n - 1), NEW c \in 0..(n - 1), NEW s \in 1..n
  PROVE  /\ From(n, w, c) \in 0..(n - 1)
         /\ (c + s) % n \in 0..(n - 1)
         /\ From(n, w, c) >= s => From(n, w, (c + s) % n) = From(n, w, c) - s
<1>1. From(n, w, c) = IF w >= c THEN w - c ELSE w - c + n
  BY DEF From
<1>2. (c + s) % n = IF c + s >= n THEN c + s - n ELSE c + s
  OBVIOUS
<1> DEFINE d == (c + s) % n
<1>3. d \in 0..(n - 1)
  BY <1>2
<1>4. From(n, w, d) = IF w >= d THEN w - d ELSE w - d + n
  <2> HIDE DEF d
  <2> QED
    BY <1>3 DEF From
<1>5. QED
  BY <1>1, <1>2, <1>3, <1>4

Covered(of, w, c, o) == From(Len(of), w, c) < WindowSize[of][c][o]

(* A window that does not reach an entry brings the cursor closer to it.   *)
LEMMA Closer ==
  ASSUME NEW of \in Lists, NEW c \in Entries(of), NEW w \in Entries(of)
  PROVE  /\ NextCursor(of, c) \in Entries(of)
         /\ From(Len(of), w, c) \in 0..(Len(of) - 1)
         /\ ~ Covered(of, w, c, "owner") =>
              /\ From(Len(of), w, NextCursor(of, c)) < From(Len(of), w, c)
              /\ From(Len(of), w, NextCursor(of, c)) <= From(Len(of), w, c) - 2
<1> DEFINE n == Len(of)
           s == WindowSize[of][c]["owner"]
<1>1. "owner" \in Observers
  BY DEF Observers
<1>2. n \in Nat /\ n > 0 /\ s \in 1..n /\ (s = n \/ s >= 2)
  BY <1>1, SizeFits
<1>3. w \in 0..(n - 1) /\ c \in 0..(n - 1)
  BY DEF Entries
<1>4. NextCursor(of, c) = (c + s) % n
  BY DEF NextCursor
<1>5. Covered(of, w, c, "owner") <=> From(n, w, c) < s
  BY DEF Covered
<1>6. Entries(of) = 0..(n - 1)
  BY DEF Entries
<1> HIDE DEF n, s
<1>7. /\ From(n, w, c) \in 0..(n - 1) /\ (c + s) % n \in 0..(n - 1)
      /\ From(n, w, c) >= s => From(n, w, (c + s) % n) = From(n, w, c) - s
  BY <1>2, <1>3, FromStep
<1> DEFINE d == (c + s) % n
           far == From(n, w, c)
<1>8. far >= s => From(n, w, d) < far /\ From(n, w, d) <= far - 2
  <2> HIDE DEF d
  <2> QED
    BY <1>2, <1>7 DEF d
<1>9. QED
  BY <1>2, <1>4, <1>5, <1>6, <1>7, <1>8 DEF n, s

----------------------------------------------------------------------------
(* The full cycle                                                          *)

WalkOf(of, first, at) ==
  at = [k \in 0..(Len(of) + 1) |-> IF k = 0 THEN first ELSE NextCursor(of, at[k - 1])]

FullWalk(of, first) == CHOOSE at : WalkOf(of, first, at)

LEMMA WalkExists ==
  ASSUME NEW of \in Lists, NEW first \in Entries(of)
  PROVE  WalkOf(of, first, FullWalk(of, first))
<1> DEFINE n == Len(of) + 1
           A == Entries(of)
           step == [p \in (1..n) \X A |-> NextCursor(of, p[2])]
<1>1. n \in Nat
  BY ListFacts
<1>2. \A c \in A : NextCursor(of, c) \in A
  BY Closer
<1>3. step \in [(1..n) \X A -> A] /\ \A i \in 1..n, c \in A : step[<<i, c>>] = NextCursor(of, c)
  BY <1>2
<1> HIDE DEF step, n, A
<1>4. PICK h \in [SUBSET (1..n) -> A], v \in [0..n -> A] : FoldRun(n, A, first, step, h, v)
  BY <1>1, <1>3, FoldRuns DEF A
<1>5. v[0] = first /\ \A i \in 1..n : v[i] = NextCursor(of, v[i - 1])
  <2>1. v[0] = first /\ \A i \in 1..n : v[i] = step[<<i, v[i - 1]>>] /\ v[i - 1] \in A
    BY <1>1, <1>4 DEF FoldRun, Runs
  <2>2. QED
    BY <1>3, <2>1
<1>6. v = [k \in 0..n |-> v[k]]
  OBVIOUS
<1>7. \A k \in 0..n : v[k] = IF k = 0 THEN first ELSE NextCursor(of, v[k - 1])
  BY <1>1, <1>5
<1>8. v = [k \in 0..n |-> IF k = 0 THEN first ELSE NextCursor(of, v[k - 1])]
  BY <1>6, <1>7
<1>9. WalkOf(of, first, v)
  BY <1>8 DEF WalkOf, n
<1>10. QED
  BY <1>9 DEF FullWalk

(* A walk of the cursor through n windows.                                 *)
Walks(of, n, v) ==
  v \in [0..n -> Entries(of)] /\ \A i \in 1..n : v[i] = NextCursor(of, v[i - 1])

LEMMA FullWalks ==
  ASSUME NEW of \in Lists, NEW first \in Entries(of)
  PROVE  Walks(of, Len(of) + 1, FullWalk(of, first)) /\ FullWalk(of, first)[0] = first
<1> DEFINE n == Len(of) + 1
           at == FullWalk(of, first)
<1>1. n \in Nat
  BY ListFacts
<1>2. at = [k \in 0..n |-> IF k = 0 THEN first ELSE NextCursor(of, at[k - 1])]
  BY WalkExists DEF WalkOf
<1> HIDE DEF at, n
<1>3. at[0] = first /\ \A i \in 1..n : at[i] = NextCursor(of, at[i - 1])
  BY <1>1, <1>2
<1> DEFINE T == {k \in Nat : at[k] \in Entries(of)}
<1>4. 0 \in T /\ \A i \in 1..n : i - 1 \in T => i \in T
  <2>1. \A c \in Entries(of) : NextCursor(of, c) \in Entries(of)
    BY Closer
  <2>2. QED
    BY <1>1, <1>3, <2>1
<1>5. T \in SUBSET Nat
  OBVIOUS
<1> HIDE DEF T
<1>6. \A k \in 0..n : k \in T
  BY <1>1, <1>4, <1>5, InductUpto
<1>7. \A k \in 0..n : at[k] \in Entries(of)
  BY <1>6 DEF T
<1>8. at \in [0..n -> Entries(of)]
  <2>1. at = [k \in 0..n |-> at[k]]
    BY <1>2
  <2>2. QED
    BY <1>7, <2>1
<1>9. QED
  BY <1>3, <1>8 DEF Walks, at, n

Ends(of, first) ==
  LET at == FullWalk(of, first)
      back == {k \in 1..(Len(of) + 1) : at[k] \in {first, at[k - 1]}}
  IN Min(back \cup {Len(of) + 2})

LEMMA CycleStarts ==
  ASSUME NEW of \in Lists, NEW first \in Entries(of)
  PROVE  FullCycle[of][first] = {FullWalk(of, first)[k] : k \in 0..(Ends(of, first) - 1)}
  BY DEF FullCycle, FullWalk, WalkOf, Ends

LEMMA CycleEnds ==
  ASSUME NEW of \in Lists, NEW first \in Entries(of)
  PROVE  /\ Ends(of, first) \in 1..(Len(of) + 2)
         /\ Ends(of, first) = Len(of) + 2
              \/ FullWalk(of, first)[Ends(of, first)] = first
              \/ FullWalk(of, first)[Ends(of, first)] = FullWalk(of, first)[Ends(of, first) - 1]
<1> DEFINE at == FullWalk(of, first)
           back == {k \in 1..(Len(of) + 1) : at[k] \in {first, at[k - 1]}}
           S == back \cup {Len(of) + 2}
<1>1. Len(of) \in Nat
  BY ListFacts
<1>2. Ends(of, first) = Min(S)
  BY DEF Ends
<1> HIDE DEF at
<1>3. S \in SUBSET Nat /\ S # {}
  BY <1>1
<1>4. \A k \in S : k \in 1..(Len(of) + 2) /\ (k = Len(of) + 2 \/ at[k] = first \/ at[k] = at[k - 1])
  BY <1>1
<1> HIDE DEF S
<1>5. Min(S) \in S
  BY <1>3, LeastIn
<1>6. QED
  BY <1>2, <1>4, <1>5 DEF at

(* No entry is missed by the windows that the owner is sent in a full      *)
(* cycle, of any list and from any start: while an entry is missed, the    *)
(* cursor comes closer to it, so that it is neither back nor at a stand.   *)
LEMMA CycleCovers ==
  ASSUME NEW of \in Lists, NEW first \in Entries(of), NEW w \in Entries(of)
  PROVE  \E start \in FullCycle[of][first] : Covered(of, w, start, "owner")
<1> DEFINE at == FullWalk(of, first)
           m == Ends(of, first)
           l == Len(of)
           far(c) == From(l, w, c)
<1>1. SUFFICES ASSUME \A k \in 0..(m - 1) : ~ Covered(of, w, at[k], "owner") PROVE FALSE
  BY CycleStarts
<1>2. l \in Nat /\ l > 0
  BY ListFacts
<1>3. /\ m \in 1..(l + 2)
      /\ m = l + 2 \/ at[m] = first \/ at[m] = at[m - 1]
  BY CycleEnds
<1>4. Walks(of, l + 1, at) /\ at[0] = first
  BY FullWalks
<1> HIDE DEF at, m, l, far
<1>5. \A c \in Entries(of) : far(c) \in 0..(l - 1)
  BY Closer DEF far, l
<1>6. ASSUME NEW k \in 0..(m - 1), k <= l
      PROVE  /\ at[k] \in Entries(of) /\ at[k + 1] \in Entries(of)
             /\ far(at[k + 1]) < far(at[k])
  <2>1. k \in 0..(l + 1) /\ k + 1 \in 1..(l + 1) /\ (k + 1) - 1 = k /\ k + 1 \in 0..(l + 1)
    BY <1>2, <1>3, <1>6
  <2>2. at[k] \in Entries(of) /\ at[k + 1] \in Entries(of)
    BY <1>4, <2>1 DEF Walks
  <2>3. at[k + 1] = NextCursor(of, at[k])
    BY <1>4, <2>1 DEF Walks
  <2>4. far(NextCursor(of, at[k])) < far(at[k])
    BY <1>1, <2>2, Closer DEF far, l
  <2>5. QED
    BY <2>2, <2>3, <2>4
<1> DEFINE n == IF m = l + 2 THEN l + 1 ELSE m
           T == {k \in Nat : at[k] \in Entries(of) /\ far(at[k]) <= far(first) - k}
<1>7. n \in Nat /\ n <= l + 1 /\ n <= m
  BY <1>2, <1>3
<1>8. first \in Entries(of) /\ far(first) \in 0..(l - 1)
  BY <1>5
<1>9. 0 \in T
  BY <1>4, <1>8
<1>10. ASSUME NEW i \in 1..n, i - 1 \in T PROVE i \in T
  <2>1. i - 1 \in 0..(m - 1) /\ i - 1 <= l /\ (i - 1) + 1 = i
    BY <1>3, <1>2, <1>7
  <2>2. at[i] \in Entries(of) /\ far(at[i]) < far(at[i - 1]) /\ at[i - 1] \in Entries(of)
    <3> DEFINE k == i - 1
    <3>1. k \in 0..(m - 1) /\ k <= l /\ k + 1 = i
      BY <2>1
    <3> HIDE DEF k
    <3>2. at[k] \in Entries(of) /\ at[k + 1] \in Entries(of) /\ far(at[k + 1]) < far(at[k])
      BY <1>6, <3>1
    <3>3. QED
      BY <3>1, <3>2 DEF k
  <2>3. far(at[i]) \in Int /\ far(at[i - 1]) \in Int /\ far(first) \in Int
    BY <1>5, <1>8, <2>2
  <2>4. far(at[i - 1]) <= far(first) - (i - 1)
    BY <1>10
  <2>5. far(at[i]) <= far(first) - i /\ i \in Nat
    BY <2>2, <2>3, <2>4, <1>7
  <2>6. QED
    BY <2>2, <2>5
<1>11. T \in SUBSET Nat
  OBVIOUS
<1> HIDE DEF T
<1>12. \A k \in 0..n : k \in T
  BY <1>7, <1>9, <1>10, <1>11, InductUpto
<1>13. at[n] \in Entries(of) /\ far(at[n]) <= far(first) - n
  BY <1>12, <1>7 DEF T
<1>14. CASE m = l + 2
  <2> HIDE DEF n
  <2>1. far(at[n]) \in 0..(l - 1) /\ n = l + 1
    BY <1>5, <1>13, <1>14 DEF n
  <2>2. QED
    BY <1>2, <1>8, <1>13, <2>1
<1>15. CASE m # l + 2 /\ at[m] = first
  <2>1. n = m /\ m > 0
    BY <1>3, <1>15
  <2>2. QED
    BY <1>3, <1>8, <1>13, <1>15, <2>1
<1>16. CASE m # l + 2 /\ at[m] = at[m - 1]
  <2> DEFINE k == m - 1
  <2>1. k \in 0..(m - 1) /\ k <= l /\ k + 1 = m
    BY <1>2, <1>3, <1>16
  <2> HIDE DEF k
  <2>2. at[k] \in Entries(of) /\ far(at[k + 1]) < far(at[k])
    BY <1>6, <2>1
  <2>3. at[k + 1] = at[k] /\ far(at[k]) \in Int
    BY <1>5, <1>16, <2>1, <2>2 DEF k
  <2>4. QED
    BY <2>2, <2>3
<1>17. QED
  BY <1>3, <1>14, <1>15, <1>16

----------------------------------------------------------------------------
(* The state                                                               *)

Typed ==
  /\ list \in Lists \cup {NoShip}
  /\ list # NoShip => cursor \in Entries(list) /\ watch \in Entries(list)
  /\ unsent \in [Observers -> 0..SyncTicks]
  /\ stale \in [Observers -> BOOLEAN]
  /\ hits \in Nat /\ lost \in Nat /\ spawns \in Nat

LEMMA TypedInit == HealthInit => Typed
  BY ListFacts DEF HealthInit, Typed, Observers, NoShip

(* What Sent leaves.                                                       *)
LEMMA SentTyped ==
  ASSUME Typed, NEW starts, NEW misses \in SUBSET Observers, NEW changed \in BOOLEAN,
         Sent(starts, misses, changed)
  PROVE  /\ lost' \in Nat /\ stale' \in [Observers -> BOOLEAN]
         /\ lost' = lost => misses = {}
<1>1. IsFiniteSet(Observers)
  <2>1. IsFiniteSet({"owner"}) /\ IsFiniteSet({"owner"} \cup {"remote"})
    BY FS_Singleton, FS_AddElement
  <2>2. Observers = {"owner"} \cup {"remote"}
    BY DEF Observers
  <2>3. QED
    BY <2>1, <2>2
<1>2. IsFiniteSet(misses)
  BY <1>1, FS_Subset
<1>3. Cardinality(misses) \in Nat /\ (Cardinality(misses) = 0 <=> misses = {})
  BY <1>2, FS_CardinalityType, FS_EmptySet
<1>4. lost \in Nat /\ lost' = lost + Cardinality(misses)
  BY DEF Typed, Sent
<1>5. stale' \in [Observers -> BOOLEAN]
  BY DEF Typed, Sent
<1>6. QED
  BY <1>3, <1>4, <1>5

(* What a broadcast does to the counts of broadcasts.                      *)
LEMMA BroadcastUnsent ==
  ASSUME Typed, Broadcast, NEW o \in Observers
  PROVE  /\ list \in Lists /\ cursor \in Entries(list) /\ watch \in Entries(list)
         /\ unsent[o] \in Nat /\ unsent'[o] \in 0..SyncTicks
         /\ Covered(list, watch, cursor, o) => unsent'[o] = 0
         /\ unsent'[o] <= unsent[o] + 1
<1>1. list \in Lists /\ cursor \in Entries(list) /\ watch \in Entries(list)
  BY DEF Typed, Broadcast
<1>2. unsent[o] \in 0..SyncTicks /\ SyncTicks \in Nat
  BY ListFacts DEF Typed
<1>3. InWindow(watch, cursor, o) = Covered(list, watch, cursor, o)
  BY DEF InWindow, Covered, From
<1>4. unsent'[o] = IF Covered(list, watch, cursor, o) THEN 0 ELSE Min({unsent[o] + 1, SyncTicks})
  BY <1>3 DEF Broadcast
<1> DEFINE m == Min({unsent[o] + 1, SyncTicks})
<1>5. m \in Nat /\ m <= unsent[o] + 1 /\ m <= SyncTicks
  BY <1>2, LessOfTwo
<1> HIDE DEF m
<1>6. QED
  BY <1>1, <1>2, <1>4, <1>5 DEF m

LEMMA TypedNext ==
  ASSUME Typed, [HealthNext]_healthVars
  PROVE  Typed'
<1>1. CASE Broadcast
  <2>1. PICK misses \in SUBSET Observers : Sent({cursor}, misses, FALSE)
    BY <1>1 DEF Broadcast
  <2>2. lost' \in Nat /\ stale' \in [Observers -> BOOLEAN]
    BY <2>1, SentTyped
  <2>3. unsent' \in [Observers -> 0..SyncTicks]
    <3>1. \A o \in Observers : unsent'[o] \in 0..SyncTicks
      BY <1>1, BroadcastUnsent
    <3>2. unsent' = [o \in Observers |-> unsent'[o]]
      BY <1>1 DEF Broadcast
    <3>3. QED
      BY <3>1, <3>2
  <2>4. list \in Lists /\ cursor' \in Entries(list)
    BY <1>1, Closer DEF Broadcast, Typed
  <2>5. QED
    BY <1>1, <2>2, <2>3, <2>4 DEF Broadcast, Typed
<1>2. CASE Hit
  <2>1. PICK changed \in BOOLEAN, misses \in SUBSET Observers : Sent({cursor}, misses, changed)
    BY <1>2 DEF Hit
  <2>2. lost' \in Nat /\ stale' \in [Observers -> BOOLEAN]
    BY <2>1, SentTyped
  <2>3. QED
    BY <1>2, <2>2 DEF Hit, Typed
<1>3. CASE Repaired
  BY <1>3 DEF Repaired, Typed, counts
<1>4. CASE Joined
  BY <1>4 DEF Joined, Typed, counts
<1>5. CASE Lost
  BY <1>5 DEF Lost, Typed, counts
<1>6. CASE DestructBurst
  <2>1. PICK misses \in SUBSET Observers : Sent(FullCycle[list][cursor], misses, TRUE)
    BY <1>6 DEF DestructBurst
  <2>2. lost' \in Nat /\ stale' \in [Observers -> BOOLEAN]
    BY <2>1, SentTyped
  <2>3. QED
    BY <1>6, <2>2 DEF DestructBurst, Typed
<1>7. CASE NewShip
  <2>1. list' \in Lists /\ Len(list') \in Nat /\ Len(list') > 0
    BY <1>7, ListFacts DEF NewShip
  <2>2. cursor' \in Entries(list') /\ watch' \in Entries(list')
    BY <1>7, <2>1 DEF NewShip, Entries
  <2>3. unsent' \in [Observers -> 0..SyncTicks] /\ stale' \in [Observers -> BOOLEAN]
    BY <1>7, ListFacts DEF NewShip
  <2>4. QED
    BY <1>7, <2>1, <2>2, <2>3 DEF NewShip, Typed
<1>8. CASE UNCHANGED healthVars
  BY <1>8 DEF Typed, healthVars, counts
<1>9. QED
  BY <1>1, <1>2, <1>3, <1>4, <1>5, <1>6, <1>7, <1>8 DEF HealthNext

----------------------------------------------------------------------------
(* The owner                                                               *)

(* The burst of a self-destruct that is not lost tells the owner of every  *)
(* entry, of any list of entries of any size.                              *)
THEOREM OwnerToldOfDestruct == HealthSpec => OwnerSeesDestruct
<1>1. ASSUME Typed, list # NoShip, DestructBurst, lost' = lost
      PROVE  ~ stale'["owner"]
  <2>1. list \in Lists /\ cursor \in Entries(list) /\ watch \in Entries(list)
    BY <1>1 DEF Typed
  <2>2. PICK misses \in SUBSET Observers : Sent(FullCycle[list][cursor], misses, TRUE)
    BY <1>1 DEF DestructBurst
  <2>3. misses = {} /\ "owner" \in Observers
    BY <1>1, <2>2, SentTyped DEF Observers
  <2>4. PICK start \in FullCycle[list][cursor] : Covered(list, watch, start, "owner")
    BY <1>1, <2>1, CycleCovers
  <2>5. InWindow(watch, start, "owner")
    BY <2>4 DEF InWindow, Covered, From
  <2>6. QED
    BY <2>2, <2>3, <2>5 DEF Sent
<1>2. Typed /\ [HealthNext]_healthVars
        => [list # NoShip /\ DestructBurst /\ lost' = lost => ~ stale'["owner"]]_healthVars
  BY <1>1
<1>3. HealthInit => Typed
  BY TypedInit
<1>4. Typed /\ [HealthNext]_healthVars => Typed'
  BY TypedNext
<1>5. QED
  BY <1>2, <1>3, <1>4, PTL DEF HealthSpec, OwnerSeesDestruct

(* The cursor is an entry closer for every half window that was sent       *)
(* without the entry, for a window that does not reach it is of two.       *)
OwnerWaits ==
  list # NoShip => 2 * unsent["owner"] + From(Len(list), watch, cursor) <= Len(list) - 1

LEMMA OwnerWaitsNext ==
  ASSUME Typed, OwnerWaits, [HealthNext]_healthVars
  PROVE  OwnerWaits'
<1> "owner" \in Observers
  BY DEF Observers
<1>1. CASE Broadcast
  <2>1. /\ list \in Lists /\ cursor \in Entries(list) /\ watch \in Entries(list)
        /\ unsent["owner"] \in Nat /\ unsent'["owner"] \in 0..SyncTicks
        /\ Covered(list, watch, cursor, "owner") => unsent'["owner"] = 0
        /\ unsent'["owner"] <= unsent["owner"] + 1
    BY <1>1, BroadcastUnsent
  <2> DEFINE next == NextCursor(list, cursor)
             a == From(Len(list), watch, cursor)
             b == From(Len(list), watch, next)
  <2>2. next \in Entries(list) /\ a \in 0..(Len(list) - 1)
    BY <2>1, Closer
  <2>3. b \in 0..(Len(list) - 1) /\ Len(list) \in Nat /\ SyncTicks \in Nat
    <3> HIDE DEF next
    <3> QED
      BY <2>1, <2>2, Closer, ListFacts
  <2>4. ~ Covered(list, watch, cursor, "owner") => b <= a - 2
    BY <2>1, Closer
  <2>5. list' = list /\ watch' = watch /\ cursor' = next /\ list # NoShip
    BY <1>1 DEF Broadcast
  <2>6. 2 * unsent["owner"] + a <= Len(list) - 1
    BY <2>5 DEF OwnerWaits
  <2> DEFINE n == Len(list)
             u == unsent["owner"]
             v == unsent'["owner"]
  <2> HIDE DEF a, b, next, n, u, v
  <2>7. 2 * v + b <= n - 1
    <3>1. /\ n \in Nat /\ u \in Nat /\ v \in Nat /\ a \in Nat /\ b \in Nat /\ b <= n - 1
          /\ v <= u + 1 /\ 2 * u + a <= n - 1
      BY <2>1, <2>2, <2>3, <2>6 DEF n, u, v
    <3>2. v = 0 \/ b <= a - 2
      BY <2>1, <2>4 DEF v
    <3>3. QED
      BY <3>1, <3>2
  <2>8. From(Len(list'), watch', cursor') = b
    BY <2>5 DEF b
  <2>9. QED
    BY <2>5, <2>7, <2>8 DEF OwnerWaits, n, v
<1>2. CASE NewShip
  <2>1. list' \in Lists /\ cursor' = 0 /\ watch' \in Entries(list') /\ unsent'["owner"] = 0
    BY <1>2 DEF NewShip
  <2>2. cursor' \in Entries(list')
    BY <2>1, ListFacts DEF Entries
  <2>3. From(Len(list'), watch', cursor') \in 0..(Len(list') - 1) /\ Len(list') \in Nat
    BY <2>1, <2>2, Closer, ListFacts
  <2>4. QED
    BY <2>1, <2>3 DEF OwnerWaits
<1>3. CASE UNCHANGED <<list, cursor, watch, unsent>>
  BY <1>3 DEF OwnerWaits
<1>4. CASE list' = NoShip
  BY <1>4 DEF OwnerWaits
<1>5. QED
  BY <1>1, <1>2, <1>3, <1>4
     DEF HealthNext, Hit, Repaired, Joined, Lost, DestructBurst, healthVars, counts

(* Each entry of any list that the loader admits, of any formats and       *)
(* sizes, is told to the ship's owner within a second, whatever is hit,    *)
(* lost and spawned.                                                       *)
THEOREM OwnerToldInTime ==
  ASSUME ListsFit
  PROVE  HealthSpec => []OwnerSynced
<1>1. HealthInit => Typed /\ OwnerWaits
  BY TypedInit DEF HealthInit, OwnerWaits
<1>2. Typed /\ OwnerWaits /\ [HealthNext]_healthVars => (Typed /\ OwnerWaits)'
  BY TypedNext, OwnerWaitsNext
<1>3. ASSUME Typed, OwnerWaits PROVE OwnerSynced
  <2>1. SUFFICES ASSUME list # NoShip PROVE unsent["owner"] < SyncTicks
    BY DEF OwnerSynced
  <2>2. list \in Lists /\ cursor \in Entries(list) /\ watch \in Entries(list)
    BY <1>3, <2>1 DEF Typed
  <2>3. Len(list) \in Nat /\ Len(list) <= 2 * SyncTicks
    BY <2>2, ListFacts DEF ListsFit
  <2>4. From(Len(list), watch, cursor) \in 0..(Len(list) - 1)
    BY <2>2, Closer
  <2>5. unsent["owner"] \in Nat /\ SyncTicks \in Nat
    BY <1>3, ListFacts DEF Typed, Observers
  <2>6. 2 * unsent["owner"] + From(Len(list), watch, cursor) <= Len(list) - 1
    BY <1>3, <2>1 DEF OwnerWaits
  <2>7. QED
    BY <2>3, <2>4, <2>5, <2>6
<1>4. QED
  BY <1>1, <1>2, <1>3, PTL DEF HealthSpec

----------------------------------------------------------------------------
(* Everyone else                                                           *)

Round(of) ==
  CHOOSE round \in SUBSET Entries(of) : IsRound(of, round) /\ Cardinality(round) <= SyncTicks

(* The windows sent from c on reach the entry w, the j-th after the next.  *)
Reaching(of, c, w, j, v) ==
  Walks(of, j, v) /\ v[0] = c /\ Covered(of, w, v[j], "remote")

Reaches(of, c, w, j) == \E v : Reaching(of, c, w, j, v)

LEMMA RoundFacts ==
  ASSUME RoundInTime, NEW of \in Lists
  PROVE  /\ IsRound(of, Round(of)) /\ Cardinality(Round(of)) <= SyncTicks
         /\ IsFiniteSet(Round(of))
<1>1. \E round \in SUBSET Entries(of) : IsRound(of, round) /\ Cardinality(round) <= SyncTicks
  BY DEF RoundInTime
<1>2. /\ IsRound(of, Round(of)) /\ Cardinality(Round(of)) <= SyncTicks
      /\ Round(of) \in SUBSET Entries(of)
  BY <1>1, Zenon DEF Round
<1>3. IsFiniteSet(Entries(of))
  BY ListFacts, FS_Interval DEF Entries
<1>4. QED
  BY <1>2, <1>3, FS_Subset

LEMMA WalkStaysInRound ==
  ASSUME NEW of \in Lists, NEW round, IsRound(of, round), NEW j \in Nat, NEW v,
         Walks(of, j, v), v[0] \in round
  PROVE  \A i \in 0..j : v[i] \in round
<1> DEFINE T == {i \in Nat : v[i] \in round}
<1>1. 0 \in T /\ \A i \in 1..j : i - 1 \in T => i \in T
  BY DEF IsRound, Walks
<1>2. T \in SUBSET Nat
  OBVIOUS
<1> HIDE DEF T
<1>3. \A i \in 0..j : i \in T
  BY <1>1, <1>2, InductUpto
<1>4. QED
  BY <1>3 DEF T

(* A walk that comes to the same cursor twice can do without what is       *)
(* between.                                                                *)
LEMMA ShorterWalk ==
  ASSUME NEW of \in Lists, NEW c, NEW w, NEW j \in Nat, NEW v, Reaching(of, c, w, j, v),
         NEW a \in 0..j, NEW b \in 0..j, a < b, v[a] = v[b]
  PROVE  Reaches(of, c, w, j - (b - a)) /\ j - (b - a) \in Nat
<1> DEFINE d == b - a
           n == j - d
           u == [i \in 0..n |-> IF i <= a THEN v[i] ELSE v[i + d]]
<1>1. d \in Nat /\ d > 0 /\ n \in Nat /\ a <= n /\ a + d = b /\ n + d = j
  OBVIOUS
<1>2. v \in [0..j -> Entries(of)] /\ \A i \in 1..j : v[i] = NextCursor(of, v[i - 1])
  BY DEF Reaching, Walks
<1> HIDE DEF d, n
<1>3. u \in [0..n -> Entries(of)]
  BY <1>1, <1>2
<1>4. ASSUME NEW i \in 1..n PROVE u[i] = NextCursor(of, u[i - 1])
  <2>1. CASE i <= a
    <3>1. i - 1 \in 0..n /\ i - 1 <= a /\ i \in 0..n /\ i \in 1..j
      BY <1>1, <2>1
    <3>2. u[i] = v[i] /\ u[i - 1] = v[i - 1]
      BY <2>1, <3>1
    <3>3. QED
      BY <1>2, <3>1, <3>2
  <2>2. CASE i > a
    <3> DEFINE e == i + d
    <3>1. i - 1 \in 0..n /\ i \in 0..n /\ e \in 1..j /\ e - 1 = (i - 1) + d
      BY <1>1, <2>2
    <3>2. u[i] = v[e]
      BY <1>1, <2>2, <3>1
    <3>3. u[i - 1] = v[e - 1]
      <4>1. CASE i - 1 = a
        <5>1. u[i - 1] = v[a] /\ e - 1 = b
          BY <1>1, <3>1, <4>1
        <5>2. QED
          BY <5>1
      <4>2. CASE i - 1 # a
        <5>1. ~ (i - 1 <= a)
          BY <1>1, <2>2, <4>2
        <5>2. u[i - 1] = v[(i - 1) + d]
          BY <3>1, <5>1
        <5>3. QED
          BY <3>1, <5>2
      <4>3. QED
        BY <4>1, <4>2
    <3> HIDE DEF e, u
    <3>4. v[e] = NextCursor(of, v[e - 1])
      BY <1>2, <3>1
    <3>5. QED
      BY <3>2, <3>3, <3>4
  <2>3. QED
    BY <1>1, <2>1, <2>2
<1>5. u[0] = c
  BY <1>1 DEF Reaching
<1>6. u[n] = v[j]
  <2>1. CASE n = a
    <3>1. j = b /\ u[n] = v[a]
      BY <1>1, <2>1
    <3>2. QED
      BY <3>1
  <2>2. CASE n # a
    BY <1>1, <2>2
  <2>3. QED
    BY <2>1, <2>2
<1> HIDE DEF u
<1>7. Reaching(of, c, w, n, u)
  BY <1>3, <1>4, <1>5, <1>6 DEF Reaching, Walks
<1>8. QED
  BY <1>1, <1>7 DEF Reaches, n, d

(* From within the round, an entry is reached within as many windows as    *)
(* the round has, or not at all.                                           *)
LEMMA ReachedInTime ==
  ASSUME RoundInTime, NEW of \in Lists, NEW c \in Round(of), NEW w,
         NEW k \in Nat, Reaches(of, c, w, k)
  PROVE  \E j \in Nat : Reaches(of, c, w, j) /\ j <= SyncTicks - 1
<1> DEFINE T == {j \in Nat : Reaches(of, c, w, j)}
<1>1. T \in SUBSET Nat /\ T # {}
  OBVIOUS
<1>2. PICK j \in T : \A i \in T : j <= i
  BY <1>1, Smallest
<1>3. PICK v : Reaching(of, c, w, j, v)
  BY <1>2 DEF Reaches
<1>4. IsRound(of, Round(of)) /\ Cardinality(Round(of)) <= SyncTicks /\ IsFiniteSet(Round(of))
  BY RoundFacts
<1>5. \A i \in 0..j : v[i] \in Round(of)
  <2>1. Walks(of, j, v) /\ v[0] \in Round(of) /\ j \in Nat
    BY <1>2, <1>3 DEF Reaching
  <2>2. QED
    BY <1>4, <2>1, WalkStaysInRound
<1>6. v \in [0..j -> Round(of)]
  BY <1>3, <1>5 DEF Reaching, Walks
<1>7. ASSUME NEW a \in 0..j, NEW b \in 0..j, a < b, v[a] = v[b] PROVE FALSE
  <2>1. Reaches(of, c, w, j - (b - a)) /\ j - (b - a) \in Nat
    BY <1>2, <1>3, <1>7, ShorterWalk
  <2>2. j - (b - a) \in T /\ j - (b - a) < j
    BY <1>2, <1>7, <2>1
  <2>3. QED
    BY <1>2, <2>2
<1>8. Cardinality(0..j) = j + 1 /\ IsFiniteSet(0..j)
  BY <1>2, FS_Interval
<1>9. Cardinality(Round(of)) \in Nat /\ SyncTicks \in Nat
  BY <1>4, FS_CardinalityType, ListFacts
<1>10. ASSUME Cardinality(Round(of)) < Cardinality(0..j) PROVE FALSE
  <2>1. \E a, b \in 0..j : a # b /\ v[a] = v[b]
    BY <1>4, <1>6, <1>8, <1>10, FS_PigeonHole
  <2>2. PICK a \in 0..j, b \in 0..j : a # b /\ v[a] = v[b]
    BY <2>1
  <2>3. a < b \/ b < a
    BY <1>2, <2>2
  <2>4. QED
    BY <1>7, <2>2, <2>3
<1>11. j <= SyncTicks - 1
  BY <1>2, <1>4, <1>8, <1>9, <1>10
<1>12. QED
  BY <1>2, <1>11

(* A walk with a window before it, and one without its first.              *)
LEMMA LongerWalk ==
  ASSUME NEW of \in Lists, NEW c \in Entries(of), NEW w, NEW j \in Nat,
         Reaches(of, NextCursor(of, c), w, j)
  PROVE  Reaches(of, c, w, j + 1)
<1>1. PICK v : Reaching(of, NextCursor(of, c), w, j, v)
  BY DEF Reaches
<1> DEFINE u == [i \in 0..(j + 1) |-> IF i = 0 THEN c ELSE v[i - 1]]
<1>2. /\ v \in [0..j -> Entries(of)] /\ \A i \in 1..j : v[i] = NextCursor(of, v[i - 1])
      /\ v[0] = NextCursor(of, c) /\ Covered(of, w, v[j], "remote")
  BY <1>1 DEF Reaching, Walks
<1>3. u \in [0..(j + 1) -> Entries(of)]
  <2>1. \A i \in 0..(j + 1) : i = 0 \/ i - 1 \in 0..j
    OBVIOUS
  <2>2. QED
    BY <1>2, <2>1
<1>4. u[0] = c /\ u[j + 1] = v[j]
  OBVIOUS
<1>5. ASSUME NEW i \in 1..(j + 1) PROVE u[i] = NextCursor(of, u[i - 1])
  <2>1. u[i] = v[i - 1] /\ i - 1 \in 0..j
    OBVIOUS
  <2>2. CASE i = 1
    <3>1. u[i - 1] = c /\ u[i] = v[0]
      BY <2>2
    <3> HIDE DEF u
    <3>2. QED
      BY <1>2, <3>1
  <2>3. CASE i # 1
    <3> DEFINE e == i - 1
    <3>1. e \in 1..j /\ u[e] = v[e - 1]
      BY <2>3
    <3> HIDE DEF u, e
    <3>2. v[e] = NextCursor(of, v[e - 1])
      BY <1>2, <3>1
    <3>3. QED
      BY <2>1, <3>1, <3>2 DEF e
  <2>4. QED
    BY <2>2, <2>3
<1> HIDE DEF u
<1>6. Reaching(of, c, w, j + 1, u)
  <2>1. \A i \in 1..(j + 1) : u[i] = NextCursor(of, u[i - 1])
    BY <1>5
  <2>2. Covered(of, w, u[j + 1], "remote")
    BY <1>2, <1>4
  <2>3. QED
    BY <1>3, <1>4, <2>1, <2>2 DEF Reaching, Walks
<1>7. QED
  BY <1>6 DEF Reaches

LEMMA WalkFromNext ==
  ASSUME NEW of \in Lists, NEW c \in Entries(of), NEW w, NEW j \in Nat,
         Reaches(of, c, w, j), ~ Covered(of, w, c, "remote")
  PROVE  j - 1 \in Nat /\ Reaches(of, NextCursor(of, c), w, j - 1)
<1>1. PICK v : Reaching(of, c, w, j, v)
  BY DEF Reaches
<1>2. /\ v \in [0..j -> Entries(of)] /\ \A i \in 1..j : v[i] = NextCursor(of, v[i - 1])
      /\ v[0] = c /\ Covered(of, w, v[j], "remote")
  BY <1>1 DEF Reaching, Walks
<1>3. j # 0
  BY <1>2
<1> DEFINE n == j - 1
           u == [i \in 0..n |-> v[i + 1]]
<1>4. n \in Nat /\ n + 1 = j
  BY <1>3
<1> HIDE DEF n
<1>5. u \in [0..n -> Entries(of)]
  BY <1>2, <1>4
<1>6. u[0] = NextCursor(of, c) /\ u[n] = v[j]
  <2>1. u[0] = v[1] /\ u[n] = v[n + 1] /\ 1 \in 1..j
    BY <1>4
  <2>2. v[1] = NextCursor(of, v[1 - 1])
    BY <1>2, <2>1
  <2>3. v[1 - 1] = c
    BY <1>2
  <2> HIDE DEF u
  <2>4. QED
    BY <1>4, <2>1, <2>2, <2>3
<1>7. ASSUME NEW i \in 1..n PROVE u[i] = NextCursor(of, u[i - 1])
  <2> DEFINE e == i + 1
  <2>1. u[i] = v[e] /\ u[i - 1] = v[e - 1] /\ e \in 1..j
    <3>1. i - 1 \in 0..n /\ (i - 1) + 1 = e - 1 /\ i \in 0..n /\ e \in 1..j
      BY <1>4
    <3>2. QED
      BY <3>1
  <2> HIDE DEF u, e
  <2>2. QED
    BY <1>2, <2>1
<1> HIDE DEF u
<1>8. Reaching(of, NextCursor(of, c), w, n, u)
  BY <1>2, <1>5, <1>6, <1>7 DEF Reaching, Walks
<1>9. QED
  BY <1>4, <1>8 DEF Reaches, n

(* The starts of a full cycle are reached by a walk.                       *)
LEMMA CycleWalks ==
  ASSUME NEW of \in Lists, NEW c \in Entries(of), NEW w,
         NEW start \in FullCycle[of][c], Covered(of, w, start, "remote")
  PROVE  \E j \in Nat : Reaches(of, c, w, j)
<1> DEFINE at == FullWalk(of, c)
           n == Len(of) + 1
<1>1. PICK k \in 0..(Ends(of, c) - 1) : start = at[k]
  BY CycleStarts
<1>2. n \in Nat /\ k \in 0..n
  BY ListFacts, CycleEnds
<1>3. Walks(of, n, at) /\ at[0] = c
  BY FullWalks
<1> HIDE DEF at, n
<1> DEFINE v == [i \in 0..k |-> at[i]]
<1>4. Walks(of, k, v) /\ v[0] = c /\ v[k] = start
  BY <1>1, <1>2, <1>3 DEF Walks
<1> HIDE DEF v
<1>5. Reaching(of, c, w, k, v) /\ k \in Nat
  BY <1>2, <1>4 DEF Reaching
<1>6. QED
  BY <1>5 DEF Reaches

(* The windows sent without the entry and those until it is sent are       *)
(* together fewer than a second has.                                       *)
InTime(j) == Reaches(list, cursor, watch, j) /\ unsent["remote"] + j <= SyncTicks - 1

RemoteWaits ==
  list # NoShip =>
    /\ cursor \in Round(list)
    /\ (\E k \in Nat : Reaches(list, cursor, watch, k)) => \E j \in Nat : InTime(j)

LEMMA RemoteWaitsNext ==
  ASSUME RoundInTime, Typed, RemoteWaits, [HealthNext]_healthVars
  PROVE  RemoteWaits'
<1> "remote" \in Observers
  BY DEF Observers
<1>1. CASE Broadcast
  <2>1. /\ list \in Lists /\ cursor \in Entries(list) /\ watch \in Entries(list)
        /\ unsent["remote"] \in Nat /\ unsent'["remote"] \in 0..SyncTicks
        /\ Covered(list, watch, cursor, "remote") => unsent'["remote"] = 0
        /\ unsent'["remote"] <= unsent["remote"] + 1
    BY <1>1, BroadcastUnsent
  <2> DEFINE next == NextCursor(list, cursor)
  <2>2. list' = list /\ watch' = watch /\ cursor' = next /\ list # NoShip
    BY <1>1 DEF Broadcast
  <2>3. SyncTicks \in Nat
    BY ListFacts
  <2>4. next \in Round(list)
    BY <2>1, <2>2, RoundFacts DEF RemoteWaits, IsRound
  <2>5. ASSUME NEW k \in Nat, Reaches(list, next, watch, k)
        PROVE  \E j \in Nat : /\ Reaches(list, next, watch, j)
                             /\ unsent'["remote"] + j <= SyncTicks - 1
    <3>1. CASE Covered(list, watch, cursor, "remote")
      <4>1. PICK j \in Nat : Reaches(list, next, watch, j) /\ j <= SyncTicks - 1
        BY <2>1, <2>4, <2>5, ReachedInTime
      <4>2. unsent'["remote"] = 0
        BY <2>1, <3>1
      <4>3. unsent'["remote"] + j <= SyncTicks - 1
        BY <4>1, <4>2
      <4>4. QED
        BY <4>1, <4>3
    <3>2. CASE ~ Covered(list, watch, cursor, "remote")
      <4>1. Reaches(list, cursor, watch, k + 1)
        BY <2>1, <2>5, LongerWalk
      <4>2. PICK j \in Nat : InTime(j)
        BY <2>2, <4>1 DEF RemoteWaits
      <4>3. j - 1 \in Nat /\ Reaches(list, next, watch, j - 1)
        BY <2>1, <3>2, <4>2, WalkFromNext DEF InTime
      <4>4. unsent["remote"] + j <= SyncTicks - 1
        BY <4>2 DEF InTime
      <4> DEFINE u == unsent["remote"]
                 v == unsent'["remote"]
      <4> HIDE DEF u, v
      <4>5. u \in Nat /\ v \in Nat /\ v <= u + 1 /\ u + j <= SyncTicks - 1
        BY <2>1, <2>3, <4>4 DEF u, v
      <4>6. v + (j - 1) <= SyncTicks - 1
        BY <2>3, <4>5
      <4>7. QED
        BY <4>3, <4>6 DEF v
    <3>3. QED
      BY <3>1, <3>2
  <2> HIDE DEF next
  <2>6. QED
    BY <2>2, <2>4, <2>5 DEF RemoteWaits, InTime
<1>2. CASE NewShip
  <2>1. list' \in Lists /\ cursor' = 0 /\ unsent'["remote"] = 0
    BY <1>2 DEF NewShip
  <2>2. cursor' \in Round(list')
    BY <2>1, RoundFacts DEF IsRound
  <2>3. ASSUME NEW k \in Nat, Reaches(list', cursor', watch', k)
        PROVE  \E j \in Nat : /\ Reaches(list', cursor', watch', j)
                             /\ unsent'["remote"] + j <= SyncTicks - 1
    <3>1. PICK j \in Nat : Reaches(list', cursor', watch', j) /\ j <= SyncTicks - 1
      BY <2>1, <2>2, <2>3, ReachedInTime
    <3>2. QED
      BY <2>1, <3>1
  <2>4. QED
    BY <2>2, <2>3 DEF RemoteWaits, InTime
<1>3. CASE UNCHANGED <<list, cursor, watch, unsent>>
  BY <1>3 DEF RemoteWaits, InTime
<1>4. CASE list' = NoShip
  BY <1>4 DEF RemoteWaits
<1>5. QED
  BY <1>1, <1>2, <1>3, <1>4
     DEF HealthNext, Hit, Repaired, Joined, Lost, DestructBurst, healthVars, counts

(* Each entry that the windows for everyone else will reach is in one      *)
(* within a second, of any list whose windows start at few enough entries. *)
THEOREM OthersToldInTime ==
  ASSUME RoundInTime
  PROVE  HealthSpec => []RemoteSyncedIfCovered
<1>1. HealthInit => Typed /\ RemoteWaits
  BY TypedInit DEF HealthInit, RemoteWaits
<1>2. Typed /\ RemoteWaits /\ [HealthNext]_healthVars => (Typed /\ RemoteWaits)'
  BY TypedNext, RemoteWaitsNext
<1>3. ASSUME Typed, RemoteWaits PROVE RemoteSyncedIfCovered
  <2>1. SUFFICES ASSUME list # NoShip, NEW start \in FullCycle[list][cursor],
                        InWindow(watch, start, "remote")
                 PROVE  unsent["remote"] < SyncTicks
    BY DEF RemoteSyncedIfCovered
  <2>2. list \in Lists /\ cursor \in Entries(list)
    BY <1>3, <2>1 DEF Typed
  <2>3. Covered(list, watch, start, "remote")
    BY <2>1 DEF InWindow, Covered, From
  <2>4. \E k \in Nat : Reaches(list, cursor, watch, k)
    BY <2>2, <2>3, CycleWalks
  <2>5. PICK j \in Nat : InTime(j)
    BY <1>3, <2>1, <2>4 DEF RemoteWaits
  <2>6. unsent["remote"] \in Nat /\ SyncTicks \in Nat
    BY <1>3, ListFacts DEF Typed, Observers
  <2>7. QED
    BY <2>5, <2>6 DEF InTime
<1>4. QED
  BY <1>1, <1>2, <1>3, PTL DEF HealthSpec

----------------------------------------------------------------------------
(* The bytes of the windows.  A buffer as its writers leave it has, after  *)
(* a powered entry, the number of its last group's bits in count and the   *)
(* group's place in bookmark; what is written next leaves what is before it *)
(* as it is, but that group, which grows.  So each step of the writer is   *)
(* undone by one step of a reader that has read all before it, and knows   *)
(* the group of which it has not read all.                                 *)
BitGroups == Seq({0, 1})

(* The bytes and groups of the windows.                                    *)
Octets ==
  Nat \cup BitGroups \cup {<<2, k, child>> : k \in Nat, child \in Nat}
    \cup {<<3, k, part>> : k \in Nat, part \in Nat}

Open(buf) == buf.count \in 1..(GroupSize - 1)

(* A buffer as its writers leave it.                                       *)
Well(buf) ==
  /\ buf \in [data : Seq(Octets), count : 0..GroupSize, bookmark : Nat]
  /\ buf.count # 0 => /\ buf.bookmark \in 1..Len(buf.data)
                      /\ buf.data[buf.bookmark] \in BitGroups
                      /\ Len(buf.data[buf.bookmark]) = buf.count

Grows(g, h) ==
  h \in BitGroups /\ Len(g) <= Len(h) /\ \A j \in 1..Len(g) : h[j] = g[j]

(* all is what becomes of the bytes of buf: more come after them, and the  *)
(* group that is open grows.                                               *)
Becomes(buf, all) ==
  /\ Len(buf.data) <= Len(all)
  /\ \A i \in 1..Len(buf.data) : ~ (Open(buf) /\ i = buf.bookmark) => all[i] = buf.data[i]
  /\ Open(buf) => Grows(buf.data[buf.bookmark], all[buf.bookmark])

(* A reader of all that has read what was written so far.                  *)
InStep(buf, all, r) ==
  /\ DOMAIN r = {"data", "pos", "count", "bookmark", "value"}
  /\ r.data = all /\ r.pos = Len(buf.data)
  /\ Open(buf) => r.bookmark = buf.bookmark /\ r.count = Len(all[buf.bookmark]) - buf.count
  /\ ~ Open(buf) => r.count = 0

BytesPass(buf, nb, bytes) ==
  \A all \in Seq(Octets) : Becomes(nb, all) =>
    /\ Becomes(buf, all)
    /\ \A r : InStep(buf, all, r) => /\ ReadBytes(r, Len(bytes)).value = bytes
                                     /\ InStep(nb, all, ReadBytes(r, Len(bytes)))

BitPass(buf, nb, bit) ==
  \A all \in Seq(Octets) : Becomes(nb, all) =>
    /\ Becomes(buf, all)
    /\ \A r : InStep(buf, all, r) => ReadBit(r).value = bit /\ InStep(nb, all, ReadBit(r))

EndPass(buf, nb) ==
  \A all \in Seq(Octets) : Becomes(nb, all) =>
    /\ Becomes(buf, all)
    /\ \A r : InStep(buf, all, r) => InStep(nb, all, r)

(* Bytes are read as they were written, whatever comes after them.         *)
LEMMA BytesStep ==
  ASSUME NEW buf, Well(buf), NEW bytes \in Seq(Octets)
  PROVE  /\ Well(WriteBytes(buf, bytes))
         /\ WriteBytes(buf, bytes).count = buf.count
         /\ Len(WriteBytes(buf, bytes).data) = Len(buf.data) + Len(bytes)
         /\ BytesPass(buf, WriteBytes(buf, bytes), bytes)
<1> DEFINE nb == WriteBytes(buf, bytes)
           L == Len(buf.data)
           n == Len(bytes)
<1>1. /\ buf.data \in Seq(Octets) /\ buf.count \in 0..GroupSize /\ buf.bookmark \in Nat
      /\ DOMAIN buf = {"data", "count", "bookmark"}
      /\ L \in Nat /\ n \in Nat
  BY DEF Well
<1>2. /\ buf.data \o bytes \in Seq(Octets) /\ Len(buf.data \o bytes) = L + n
      /\ \A i \in 1..L : (buf.data \o bytes)[i] = buf.data[i]
      /\ \A i \in 1..n : (buf.data \o bytes)[L + i] = bytes[i]
  BY <1>1, ConcatProperties
<1>3. /\ nb.data = buf.data \o bytes /\ nb.count = buf.count /\ nb.bookmark = buf.bookmark
      /\ nb \in [data : Seq(Octets), count : 0..GroupSize, bookmark : Nat]
  BY <1>1, <1>2 DEF WriteBytes, Well
<1>4. buf.count # 0 => /\ buf.bookmark \in 1..L
                       /\ buf.data[buf.bookmark] \in BitGroups
                       /\ Len(buf.data[buf.bookmark]) = buf.count
  BY DEF Well
<1> HIDE DEF nb, L, n
<1>5. /\ nb.data \in Seq(Octets) /\ Len(nb.data) = L + n
      /\ \A i \in 1..L : nb.data[i] = buf.data[i]
      /\ \A i \in 1..n : nb.data[L + i] = bytes[i]
  BY <1>2, <1>3
<1>6. Well(nb)
  <2>1. nb.count # 0 => /\ nb.bookmark \in 1..Len(nb.data)
                        /\ nb.data[nb.bookmark] \in BitGroups
                        /\ Len(nb.data[nb.bookmark]) = nb.count
    BY <1>1, <1>3, <1>4, <1>5
  <2>2. QED
    BY <1>3, <2>1 DEF Well
<1>7. (Open(nb) <=> Open(buf)) /\ (Open(buf) => buf.bookmark \in 1..L)
  BY <1>3, <1>4 DEF Open
<1>8. ASSUME NEW all \in Seq(Octets), Becomes(nb, all)
      PROVE  /\ Becomes(buf, all)
             /\ \A r : InStep(buf, all, r) => /\ ReadBytes(r, n).value = bytes
                                              /\ InStep(nb, all, ReadBytes(r, n))
  <2>1. /\ L + n <= Len(all) /\ Len(all) \in Nat
        /\ \A i \in 1..(L + n) : ~ (Open(buf) /\ i = buf.bookmark) => all[i] = nb.data[i]
        /\ Open(buf) => Grows(nb.data[buf.bookmark], all[buf.bookmark])
    <3>1. /\ Len(nb.data) <= Len(all) /\ Len(all) \in Nat
          /\ \A i \in 1..Len(nb.data) : ~ (Open(nb) /\ i = nb.bookmark) => all[i] = nb.data[i]
          /\ Open(nb) => Grows(nb.data[nb.bookmark], all[nb.bookmark])
      BY <1>8 DEF Becomes
    <3>2. Len(nb.data) = L + n /\ nb.bookmark = buf.bookmark /\ (Open(nb) <=> Open(buf))
      BY <1>3, <1>5, <1>7
    <3>3. QED
      BY <3>1, <3>2, Zenon
  <2>2. Becomes(buf, all)
    <3>1. Len(buf.data) <= Len(all)
      BY <1>1, <2>1 DEF L
    <3>2. \A i \in 1..L : ~ (Open(buf) /\ i = buf.bookmark) => all[i] = buf.data[i]
      BY <1>1, <1>5, <2>1
    <3>3. Open(buf) => Grows(buf.data[buf.bookmark], all[buf.bookmark])
      BY <1>5, <1>7, <2>1
    <3>4. QED
      BY <3>1, <3>2, <3>3 DEF Becomes, L
  <2>3. \A i \in 1..n : all[L + i] = bytes[i]
    <3>1. ASSUME NEW i \in 1..n PROVE all[L + i] = bytes[i]
      <4>1. L + i \in 1..(L + n) /\ L + i \notin 1..L
        BY <1>1
      <4>2. ~ (Open(buf) /\ L + i = buf.bookmark)
        BY <1>7, <4>1
      <4>3. QED
        BY <1>5, <2>1, <4>1, <4>2
    <3>2. QED
      BY <3>1
  <2>4. SubSeq(all, L + 1, L + n) = bytes
    <3> DEFINE sub == SubSeq(all, L + 1, L + n)
    <3>1. sub \in Seq(Octets) /\ Len(sub) = n /\ \A i \in 1..n : sub[i] = all[L + i]
      BY <1>1, <2>1
    <3> HIDE DEF sub
    <3>2. \A i \in 1..Len(sub) : sub[i] = bytes[i]
      BY <2>3, <3>1
    <3>3. Len(sub) = Len(bytes)
      BY <3>1 DEF n
    <3>4. sub = bytes
      BY <3>1, <3>2, <3>3, SeqEqual
    <3>5. QED
      BY <3>4 DEF sub
  <2>5. ASSUME NEW r, InStep(buf, all, r)
        PROVE  ReadBytes(r, n).value = bytes /\ InStep(nb, all, ReadBytes(r, n))
    <3> DEFINE q == ReadBytes(r, n)
    <3>1. /\ DOMAIN r = {"data", "pos", "count", "bookmark", "value"}
          /\ r.data = all /\ r.pos = L
      BY <2>5 DEF InStep, L
    <3>2. /\ DOMAIN q = DOMAIN r /\ q.data = all /\ q.pos = L + n
          /\ q.count = r.count /\ q.bookmark = r.bookmark
          /\ q.value = SubSeq(all, L + 1, L + n)
      BY <3>1 DEF ReadBytes
    <3> HIDE DEF q
    <3>3. /\ Open(buf) => r.bookmark = buf.bookmark /\ r.count = Len(all[buf.bookmark]) - buf.count
          /\ ~ Open(buf) => r.count = 0
      BY <2>5 DEF InStep
    <3>4. /\ Open(nb) => q.bookmark = nb.bookmark /\ q.count = Len(all[nb.bookmark]) - nb.count
          /\ ~ Open(nb) => q.count = 0
      BY <1>3, <1>7, <3>2, <3>3
    <3>5. InStep(nb, all, q)
      BY <1>5, <3>1, <3>2, <3>4 DEF InStep
    <3>6. QED
      BY <2>4, <3>2, <3>5 DEF q
  <2>6. QED
    BY <2>2, <2>5
<1>9. BytesPass(buf, nb, bytes)
  BY <1>8 DEF BytesPass, n
<1>10. QED
  BY <1>3, <1>5, <1>6, <1>9, Zenon DEF nb, L, n

(* The end of a group changes no byte.                                     *)
LEMMA EndStep ==
  ASSUME NEW buf, Well(buf)
  PROVE  /\ Well(EndGroup(buf))
         /\ EndGroup(buf).count = 0 /\ EndGroup(buf).data = buf.data
         /\ EndPass(buf, EndGroup(buf))
<1> DEFINE nb == EndGroup(buf)
           b == buf.bookmark
<1>1. /\ nb \in [data : Seq(Octets), count : 0..GroupSize, bookmark : Nat]
      /\ nb.count = 0 /\ nb.data = buf.data /\ nb.bookmark = b
      /\ buf.data \in Seq(Octets) /\ buf.count \in 0..GroupSize
  BY DEF EndGroup, Well, GroupSize
<1>2. buf.count # 0 => /\ b \in 1..Len(buf.data) /\ buf.data[b] \in BitGroups
                       /\ Len(buf.data[b]) = buf.count
  BY DEF Well
<1> HIDE DEF nb, b
<1>3. ~ Open(nb) /\ (Open(buf) => buf.count # 0)
  BY <1>1 DEF Open
<1>4. Well(nb)
  BY <1>1 DEF Well
<1>5. ASSUME NEW all \in Seq(Octets), Becomes(nb, all)
      PROVE  /\ Becomes(buf, all)
             /\ \A r : InStep(buf, all, r) => InStep(nb, all, r)
  <2>1. Len(buf.data) <= Len(all) /\ \A i \in 1..Len(buf.data) : all[i] = buf.data[i]
    BY <1>1, <1>3, <1>5 DEF Becomes
  <2>2. Open(buf) => all[b] = buf.data[b] /\ Grows(buf.data[b], all[b])
    BY <1>2, <1>3, <2>1 DEF Grows, BitGroups
  <2>3. Becomes(buf, all)
    BY <2>1, <2>2 DEF Becomes, b
  <2>4. ASSUME NEW r, InStep(buf, all, r)
        PROVE  InStep(nb, all, r)
    <3>1. /\ DOMAIN r = {"data", "pos", "count", "bookmark", "value"}
          /\ r.data = all /\ r.pos = Len(nb.data)
      BY <1>1, <2>4 DEF InStep
    <3>2. r.count = 0
      <4>1. CASE Open(buf)
        <5>1. r.count = Len(all[b]) - buf.count
          BY <2>4, <4>1 DEF InStep, b
        <5>2. Len(all[b]) = buf.count /\ buf.count \in Nat
          BY <1>1, <1>2, <1>3, <2>2, <4>1
        <5>3. QED
          BY <5>1, <5>2
      <4>2. CASE ~ Open(buf)
        BY <2>4, <4>2 DEF InStep
      <4>3. QED
        BY <4>1, <4>2
    <3>3. QED
      BY <1>3, <3>1, <3>2 DEF InStep
  <2>5. QED
    BY <2>3, <2>4
<1>6. EndPass(buf, nb)
  BY <1>5 DEF EndPass
<1>7. QED
  BY <1>1, <1>4, <1>6, Zenon DEF nb

LEMMA GroupsAreOctets == BitGroups \subseteq Octets
  BY DEF Octets

LEMMA OctetsJoin ==
  ASSUME NEW s \in Seq(Octets), NEW t \in Seq(Octets), NEW u \in Seq(Octets)
  PROVE  (s \o t) \o u = s \o (t \o u)
  BY ConcatAssociative

(* A bit is read as it was written, also when its group has grown since.   *)
LEMMA BitStep ==
  ASSUME NEW buf, Well(buf), NEW bit \in {0, 1}
  PROVE  /\ Well(WriteBit(buf, bit))
         /\ WriteBit(buf, bit).count = IF buf.count \in {0, GroupSize} THEN 1 ELSE buf.count + 1
         /\ Len(WriteBit(buf, bit).data) =
              Len(buf.data) + (IF buf.count \in {0, GroupSize} THEN 1 ELSE 0)
         /\ BitPass(buf, WriteBit(buf, bit), bit)
<1> DEFINE nb == WriteBit(buf, bit)
           b == buf.bookmark
           c == buf.count
           d == buf.data
           L == Len(d)
<1>1. /\ d \in Seq(Octets) /\ c \in 0..GroupSize /\ b \in Nat /\ L \in Nat
      /\ buf = [data |-> d, count |-> c, bookmark |-> b]
  BY DEF Well
<1>2. c # 0 => b \in 1..L /\ d[b] \in BitGroups /\ Len(d[b]) = c
  BY DEF Well
<1>3. (Open(buf) <=> c \in 1..4) /\ GroupSize = 5
  BY DEF Open, GroupSize
<1>4. CASE c \in 1..4
  <2> DEFINE g == Append(d[b], bit)
  <2>1. b \in 1..L /\ d[b] \in BitGroups /\ Len(d[b]) = c /\ d[b] \in Octets
    BY <1>2, <1>4, GroupsAreOctets
  <2>2. /\ g \in BitGroups /\ Len(g) = c + 1 /\ g[c + 1] = bit
        /\ \A j \in 1..c : g[j] = d[b][j]
    BY <1>4, <2>1 DEF BitGroups
  <2>3. nb = [buf EXCEPT !.data[b] = g, !.count = c + 1]
    BY <1>4 DEF WriteBit, GroupSize
  <2> HIDE DEF g
  <2>4. nb = [data |-> [d EXCEPT ![b] = g], count |-> c + 1, bookmark |-> b]
    BY <1>1, <2>3
  <2> DEFINE e == [d EXCEPT ![b] = g]
  <2>5. e \in Seq(Octets) /\ Len(e) = L /\ e[b] = g /\ \A i \in 1..L : i # b => e[i] = d[i]
    <3>1. g \in Octets
      BY <2>2, GroupsAreOctets
    <3>2. QED
      BY <1>1, <2>1, <3>1
  <2> HIDE DEF e
  <2>6. nb.data = e /\ nb.count = c + 1 /\ nb.bookmark = b /\ c + 1 \in 2..5
    BY <1>4, <2>4 DEF e
  <2>7. Well(nb)
    <3>1. nb \in [data : Seq(Octets), count : 0..GroupSize, bookmark : Nat]
      BY <1>1, <1>3, <1>4, <2>4, <2>5 DEF e
    <3> HIDE DEF nb
    <3>2. nb.bookmark \in 1..Len(nb.data) /\ nb.data[nb.bookmark] \in BitGroups
      BY <2>1, <2>2, <2>5, <2>6
    <3>3. Len(nb.data[nb.bookmark]) = nb.count
      BY <2>2, <2>5, <2>6
    <3>4. QED
      BY <3>1, <3>2, <3>3 DEF Well
  <2> HIDE DEF nb, b, c, d, L
  <2>8. (Open(nb) <=> c + 1 \in 1..4) /\ Open(buf)
    BY <1>3, <1>4, <2>6 DEF Open
  <2>9. ASSUME NEW all \in Seq(Octets), Becomes(nb, all)
        PROVE  /\ Becomes(buf, all)
               /\ \A r : InStep(buf, all, r) =>
                    ReadBit(r).value = bit /\ InStep(nb, all, ReadBit(r))
    <3>1. /\ L <= Len(all)
          /\ \A i \in 1..L : ~ (Open(nb) /\ i = b) => all[i] = e[i]
          /\ Open(nb) => Grows(g, all[b])
      BY <2>5, <2>6, <2>9 DEF Becomes
    <3>2. Grows(g, all[b])
      <4>1. CASE Open(nb)
        BY <3>1, <4>1
      <4>2. CASE ~ Open(nb)
        <5>1. all[b] = g
          BY <2>1, <2>5, <3>1, <4>2
        <5>2. QED
          BY <2>2, <5>1 DEF Grows, BitGroups
      <4>3. QED
        BY <4>1, <4>2
    <3> DEFINE h == all[b]
    <3>3. /\ h \in BitGroups /\ Len(h) \in Nat /\ c + 1 <= Len(h) /\ h[c + 1] = bit
          /\ \A j \in 1..c : h[j] = d[b][j]
      <4>1. h \in BitGroups /\ Len(g) <= Len(h) /\ \A j \in 1..Len(g) : h[j] = g[j]
        BY <3>2 DEF Grows
      <4>2. Len(h) \in Nat
        BY <4>1 DEF BitGroups
      <4> HIDE DEF h
      <4>3. QED
        BY <1>4, <2>2, <4>1, <4>2
    <3>4. ~ Open(nb) => Len(h) = c + 1
      BY <2>1, <2>2, <2>5, <3>1
    <3> HIDE DEF h
    <3>5. Becomes(buf, all)
      <4>1. Grows(d[b], h)
        BY <1>4, <2>1, <3>3 DEF Grows
      <4>2. \A i \in 1..L : i # b => all[i] = d[i]
        BY <2>5, <3>1
      <4>3. QED
        BY <2>8, <3>1, <4>1, <4>2 DEF Becomes, d, b, L, h
    <3>6. ASSUME NEW r, InStep(buf, all, r)
          PROVE  ReadBit(r).value = bit /\ InStep(nb, all, ReadBit(r))
      <4> DEFINE q == ReadBit(r)
      <4>1. /\ DOMAIN r = {"data", "pos", "count", "bookmark", "value"}
            /\ r.data = all /\ r.pos = L /\ r.bookmark = b /\ r.count = Len(h) - c
        BY <2>8, <3>6 DEF InStep, d, b, c, L, h
      <4>2. r.count # 0 /\ Len(h) - r.count + 1 = c + 1
        BY <1>4, <3>3, <4>1
      <4>3. q = [r EXCEPT !.count = r.count - 1, !.value = h[c + 1]]
        BY <4>1, <4>2 DEF ReadBit, h
      <4>4. /\ DOMAIN q = DOMAIN r /\ q.data = all /\ q.pos = L /\ q.bookmark = b
            /\ q.count = r.count - 1 /\ q.value = bit
        BY <3>3, <4>1, <4>3
      <4> HIDE DEF q
      <4>5. q.count = Len(h) - (c + 1)
        BY <1>4, <3>3, <4>1, <4>4
      <4>6. ~ Open(nb) => q.count = 0
        BY <1>4, <3>4, <4>5
      <4>7. InStep(nb, all, q)
        BY <2>5, <2>6, <4>1, <4>4, <4>5, <4>6 DEF InStep, h
      <4>8. QED
        BY <4>4, <4>7 DEF q
    <3>7. QED
      BY <3>5, <3>6
  <2>10. /\ nb.count = IF c \in {0, GroupSize} THEN 1 ELSE c + 1
         /\ Len(nb.data) = L + (IF c \in {0, GroupSize} THEN 1 ELSE 0)
    <3>1. c \notin {0, GroupSize}
      BY <1>3, <1>4
    <3>2. L + 0 = L
      BY <1>1
    <3>3. QED
      BY <2>5, <2>6, <3>1, <3>2
  <2>11. BitPass(buf, nb, bit)
    BY <2>9 DEF BitPass
  <2>12. QED
    BY <2>7, <2>10, <2>11, Zenon DEF nb, c, d, L
<1>5. CASE c \in {0, 5}
  <2> DEFINE e == Append(d, <<bit>>)
  <2>1. c \notin 1..(GroupSize - 1)
    BY <1>3, <1>5
  <2>2. nb = [data |-> e, count |-> 1, bookmark |-> L + 1]
    BY <2>1 DEF WriteBit
  <2>3. <<bit>> \in BitGroups /\ Len(<<bit>>) = 1 /\ <<bit>>[1] = bit
    BY DEF BitGroups
  <2>4. /\ e \in Seq(Octets) /\ Len(e) = L + 1 /\ e[L + 1] = <<bit>>
        /\ \A i \in 1..L : e[i] = d[i]
    <3> DEFINE g == <<bit>>
    <3>1. g \in Octets
      BY <2>3, GroupsAreOctets
    <3> HIDE DEF g
    <3>2. e = Append(d, g)
      BY DEF g, e
    <3>3. /\ Append(d, g) \in Seq(Octets) /\ Len(Append(d, g)) = L + 1
          /\ Append(d, g)[L + 1] = g /\ \A i \in 1..L : Append(d, g)[i] = d[i]
      BY <1>1, <3>1, AppendProperties
    <3>4. QED
      BY <3>2, <3>3, Zenon DEF g
  <2> HIDE DEF e
  <2>5. nb.data = e /\ nb.count = 1 /\ nb.bookmark = L + 1
    BY <2>2
  <2>6. Well(nb)
    <3>1. nb \in [data : Seq(Octets), count : 0..GroupSize, bookmark : Nat]
      BY <1>1, <1>3, <2>2, <2>4
    <3> HIDE DEF nb
    <3>2. nb.bookmark \in 1..Len(nb.data)
      BY <1>1, <2>4, <2>5
    <3>3. nb.data[nb.bookmark] = <<bit>>
      BY <2>4, <2>5
    <3>4. QED
      BY <2>3, <2>5, <3>1, <3>2, <3>3 DEF Well
  <2> HIDE DEF nb, b, c, d, L
  <2>7. Open(nb) /\ ~ Open(buf)
    BY <1>3, <1>5, <2>5 DEF Open
  <2>8. ASSUME NEW all \in Seq(Octets), Becomes(nb, all)
        PROVE  /\ Becomes(buf, all)
               /\ \A r : InStep(buf, all, r) =>
                    ReadBit(r).value = bit /\ InStep(nb, all, ReadBit(r))
    <3>1. /\ L + 1 <= Len(all) /\ Len(all) \in Nat
          /\ \A i \in 1..(L + 1) : i # L + 1 => all[i] = e[i]
          /\ Grows(<<bit>>, all[L + 1])
      BY <2>4, <2>5, <2>7, <2>8 DEF Becomes
    <3> DEFINE h == all[L + 1]
    <3>2. h \in BitGroups /\ Len(h) \in Nat /\ 1 <= Len(h) /\ h[1] = bit
      <4>1. /\ h \in BitGroups /\ Len(<<bit>>) <= Len(h)
            /\ \A j \in 1..Len(<<bit>>) : h[j] = <<bit>>[j]
        BY <3>1 DEF Grows
      <4>2. Len(h) \in Nat
        BY <4>1 DEF BitGroups
      <4> HIDE DEF h
      <4>3. QED
        BY <2>3, <4>1, <4>2
    <3> HIDE DEF h
    <3>3. Becomes(buf, all)
      <4>1. \A i \in 1..L : all[i] = d[i]
        BY <1>1, <2>4, <3>1
      <4>2. L <= Len(all)
        BY <1>1, <3>1
      <4>3. QED
        BY <2>7, <4>1, <4>2 DEF Becomes, d, L
    <3>4. ASSUME NEW r, InStep(buf, all, r)
          PROVE  ReadBit(r).value = bit /\ InStep(nb, all, ReadBit(r))
      <4> DEFINE q == ReadBit(r)
      <4>1. /\ DOMAIN r = {"data", "pos", "count", "bookmark", "value"}
            /\ r.data = all /\ r.pos = L /\ r.count = 0
        BY <2>7, <3>4 DEF InStep, d, L
      <4>2. q = [r EXCEPT !.pos = L + 1, !.bookmark = L + 1, !.count = Len(h) - 1, !.value = h[1]]
        BY <4>1 DEF ReadBit, h
      <4>3. /\ DOMAIN q = DOMAIN r /\ q.data = all /\ q.pos = L + 1 /\ q.bookmark = L + 1
            /\ q.count = Len(h) - 1 /\ q.value = bit
        BY <3>2, <4>1, <4>2
      <4> HIDE DEF q
      <4>4. InStep(nb, all, q)
        BY <2>4, <2>5, <2>7, <4>1, <4>3 DEF InStep, h
      <4>5. QED
        BY <4>3, <4>4 DEF q
    <3>5. QED
      BY <3>3, <3>4
  <2>9. BitPass(buf, nb, bit)
    BY <2>8 DEF BitPass
  <2>10. /\ nb.count = IF c \in {0, GroupSize} THEN 1 ELSE c + 1
         /\ Len(nb.data) = L + (IF c \in {0, GroupSize} THEN 1 ELSE 0)
    BY <1>3, <1>5, <2>4, <2>5
  <2>11. QED
    BY <2>6, <2>9, <2>10, Zenon DEF nb, c, d, L
<1>6. QED
  BY <1>1, <1>3, <1>4, <1>5

(* What is written of an entry.                                            *)
LEMMA FactsTyped ==
  ASSUME NEW entry \in [format : Formats, children : Nat], NEW k \in Nat
  PROVE  /\ Conditions(entry, k) \in Seq(Octets)
         /\ Len(Conditions(entry, k)) = entry.children + 1
         /\ <<Setting(k, 1)>> \in Seq(Octets) /\ Len(<<Setting(k, 1)>>) = 1
         /\ <<Setting(k, 1), Setting(k, 2)>> \in Seq(Octets)
         /\ Len(<<Setting(k, 1), Setting(k, 2)>>) = 2
         /\ BitGroups \subseteq Octets
<1> DEFINE n == entry.children + 1
<1>1. n \in Nat
  OBVIOUS
<1>2. Setting(k, 1) \in Octets /\ Setting(k, 2) \in Octets
  BY DEF Setting, Octets
<1>3. \A c \in 1..n : Condition(k, c - 1) \in Octets
  BY DEF Condition, Octets
<1>4. Conditions(entry, k) = [c \in 1..n |-> Condition(k, c - 1)]
  BY DEF Conditions
<1> HIDE DEF n
<1>5. Conditions(entry, k) \in Seq(Octets) /\ Len(Conditions(entry, k)) = n
  BY <1>1, <1>3, <1>4
<1>6. BitGroups \subseteq Octets
  BY DEF Octets
<1> DEFINE one == Setting(k, 1)
           two == Setting(k, 2)
<1> HIDE DEF one, two
<1>7. <<one>> \in Seq(Octets) /\ <<one, two>> \in Seq(Octets)
  BY <1>2 DEF one, two
<1>8. Len(<<one>>) = 1 /\ Len(<<one, two>>) = 2
  OBVIOUS
<1>9. QED
  BY <1>5, <1>6, <1>7, <1>8 DEF n, one, two

(* What the writing of an entry has to do with the reading of it.          *)
Reads(buf, nb, all, entry, facts) ==
  \A before : before.told \in Seq(Octets) /\ InStep(buf, all, before.reader) =>
    /\ InStep(nb, all, ReadEntry(before, entry).reader)
    /\ ReadEntry(before, entry).told = before.told \o facts

MorePass(nb, all, before, bytes) ==
  /\ InStep(nb, all, ReadMore(before, Len(bytes)).reader)
  /\ ReadMore(before, Len(bytes)).told = before.told \o bytes

LEMMA MoreRead ==
  ASSUME NEW buf, Well(buf), NEW bytes \in Seq(Octets), NEW all \in Seq(Octets),
         Becomes(WriteBytes(buf, bytes), all), NEW before, InStep(buf, all, before.reader)
  PROVE  MorePass(WriteBytes(buf, bytes), all, before, bytes)
<1> DEFINE r == before.reader
           n == Len(bytes)
<1>1. ReadMore(before, n).reader = ReadBytes(r, n)
  BY DEF ReadMore
<1>2. ReadMore(before, n).told = before.told \o ReadBytes(r, n).value
  BY DEF ReadMore
<1>3. Becomes(buf, all) /\ \A q : InStep(buf, all, q) =>
                             /\ ReadBytes(q, n).value = bytes
                             /\ InStep(WriteBytes(buf, bytes), all, ReadBytes(q, n))
  <2>1. BytesPass(buf, WriteBytes(buf, bytes), bytes)
    BY BytesStep
  <2>2. QED
    BY <2>1 DEF BytesPass
<1> HIDE DEF r, n
<1>4. InStep(buf, all, r)
  BY DEF r
<1>5. ReadBytes(r, n).value = bytes /\ InStep(WriteBytes(buf, bytes), all, ReadBytes(r, n))
  BY <1>3, <1>4
<1>6. QED
  BY <1>1, <1>2, <1>5, Zenon DEF MorePass, n

(* The bytes of an entry's setting or batteries and of the groups it opens. *)
Extra(entry, observer, count) ==
  IF entry.format = "powered"
  THEN (IF count \in {0, GroupSize} THEN 1 ELSE 0) + (IF observer = "remote" THEN 1 ELSE 0)
  ELSE IF entry.format = "power" THEN 2 ELSE 0

CountAfter(entry, count) ==
  IF entry.format = "powered" THEN IF count \in {0, GroupSize} THEN 1 ELSE count + 1 ELSE 0

(* An entry: how long it is, and that it is read as it was written.        *)
LEMMA EntryStep ==
  ASSUME NEW buf, Well(buf), NEW entry \in [format : Formats, children : Nat],
         NEW k \in Nat, NEW observer \in Observers
  PROVE  LET nb == WriteEntry(buf, entry, k, observer)
         IN /\ Well(nb)
            /\ nb.count = CountAfter(entry, buf.count)
            /\ Len(nb.data) = Len(buf.data) + entry.children + 1 + Extra(entry, observer, buf.count)
            /\ \A all \in Seq(Octets) : Becomes(nb, all) =>
                 Becomes(buf, all) /\ Reads(buf, nb, all, entry, Facts(entry, k, observer))
<1> DEFINE nb == WriteEntry(buf, entry, k, observer)
           conds == Conditions(entry, k)
           first == WriteBytes(buf, conds)
           n == entry.children + 1
           one == <<Setting(k, 1)>>
           two == <<Setting(k, 1), Setting(k, 2)>>
<1>1. /\ conds \in Seq(Octets) /\ Len(conds) = n /\ n \in Nat
      /\ one \in Seq(Octets) /\ Len(one) = 1 /\ two \in Seq(Octets) /\ Len(two) = 2
      /\ BitGroups \subseteq Octets
  BY FactsTyped
<1>2. /\ Well(first) /\ first.count = buf.count
      /\ Len(first.data) = Len(buf.data) + n
  BY <1>1, BytesStep
<1>3. /\ Len(buf.data) \in Nat /\ buf.count \in Nat
      /\ entry.children \in Nat /\ n = entry.children + 1
  BY DEF Well
<1>4. entry.format \in {"base", "powered", "power"} /\ observer \in {"owner", "remote"}
  BY DEF Formats, Observers
<1>5. /\ entry.format = "powered" /\ observer = "owner" => nb = WriteBit(first, 0)
      /\ entry.format = "powered" /\ observer = "remote" =>
           nb = WriteBytes(WriteBit(first, 1), one)
      /\ entry.format = "power" => nb = WriteBytes(EndGroup(first), two)
      /\ entry.format = "base" => nb = EndGroup(first)
  BY DEF WriteEntry
<1>6. /\ entry.format = "powered" /\ observer = "owner" =>
           Facts(entry, k, observer) = conds \o <<>>
      /\ entry.format = "powered" /\ observer = "remote" =>
           Facts(entry, k, observer) = conds \o one
      /\ entry.format = "power" => Facts(entry, k, observer) = conds \o two
      /\ entry.format = "base" => Facts(entry, k, observer) = conds \o <<>>
  BY DEF Facts
<1>7. conds \o <<>> = conds
  BY <1>1, ConcatEmptySeq
<1> HIDE DEF nb, conds, first, one, two, n
<1>8. ASSUME NEW before
      PROVE  LET read == ReadMore(before, n)
                 bit == ReadBit(read.reader)
                 after == [reader |-> bit, told |-> read.told]
             IN /\ entry.format = "powered" /\ bit.value = 1 =>
                     ReadEntry(before, entry) = ReadMore(after, 1)
                /\ entry.format = "powered" /\ bit.value = 0 => ReadEntry(before, entry) = after
                /\ entry.format = "power" => ReadEntry(before, entry) = ReadMore(read, 2)
                /\ entry.format = "base" => ReadEntry(before, entry) = read
  BY DEF ReadEntry, n
<1>9. ASSUME NEW all \in Seq(Octets), Becomes(first, all)
      PROVE  /\ Becomes(buf, all)
             /\ \A before : InStep(buf, all, before.reader) =>
                  /\ InStep(first, all, ReadMore(before, n).reader)
                  /\ ReadMore(before, n).told = before.told \o conds
  <2>1. Becomes(buf, all)
    <3>1. BytesPass(buf, first, conds)
      BY <1>1, BytesStep DEF first
    <3>2. QED
      BY <1>9, <3>1 DEF BytesPass
  <2>2. ASSUME NEW before, InStep(buf, all, before.reader)
        PROVE  /\ InStep(first, all, ReadMore(before, n).reader)
               /\ ReadMore(before, n).told = before.told \o conds
    <3>1. Becomes(WriteBytes(buf, conds), all)
      BY <1>9 DEF first
    <3>2. conds \in Seq(Octets) /\ Len(conds) = n
      BY <1>1
    <3>3. MorePass(WriteBytes(buf, conds), all, before, conds)
      BY <2>2, <3>1, <3>2, MoreRead
    <3>4. QED
      BY <3>2, <3>3, Zenon DEF MorePass, first
  <2>3. QED
    BY <2>1, <2>2
<1>10. CASE entry.format = "base"
  <2>1. /\ Well(nb) /\ nb.count = 0 /\ nb.data = first.data
        /\ \A all \in Seq(Octets) : Becomes(nb, all) =>
             Becomes(first, all) /\ \A r : InStep(first, all, r) => InStep(nb, all, r)
    <3>1. nb = EndGroup(first)
      BY <1>5, <1>10
    <3>2. Well(nb) /\ nb.count = 0 /\ nb.data = first.data /\ EndPass(first, nb)
      BY <1>2, <3>1, EndStep
    <3>3. QED
      BY <3>2 DEF EndPass
  <2>2. ASSUME NEW all \in Seq(Octets), Becomes(nb, all)
        PROVE  Becomes(buf, all) /\ Reads(buf, nb, all, entry, conds)
    <3>1. Becomes(first, all) /\ \A r : InStep(first, all, r) => InStep(nb, all, r)
      BY <2>1, <2>2
    <3>2. ASSUME NEW before, InStep(buf, all, before.reader)
          PROVE  /\ InStep(nb, all, ReadEntry(before, entry).reader)
                 /\ ReadEntry(before, entry).told = before.told \o conds
      <4>1. ReadEntry(before, entry) = ReadMore(before, n)
        BY <1>8, <1>10
      <4>2. /\ InStep(first, all, ReadMore(before, n).reader)
            /\ ReadMore(before, n).told = before.told \o conds
        BY <1>9, <3>1, <3>2
      <4>3. QED
        BY <3>1, <4>1, <4>2
    <3>3. Reads(buf, nb, all, entry, conds)
      BY <3>2 DEF Reads
    <3>4. QED
      BY <1>9, <3>1, <3>3
  <2>3. Extra(entry, observer, buf.count) = 0 /\ CountAfter(entry, buf.count) = 0
    BY <1>10 DEF Extra, CountAfter
  <2>4. Len(nb.data) = Len(buf.data) + entry.children + 1 + 0
    <3>1. Len(nb.data) = Len(first.data)
      BY <2>1
    <3>2. QED
      BY <1>2, <1>3, <3>1
  <2>5. Facts(entry, k, observer) = conds
    BY <1>6, <1>7, <1>10
  <2>6. QED
    BY <2>1, <2>2, <2>3, <2>4, <2>5, Zenon DEF nb
<1>11. CASE entry.format = "power"
  <2> DEFINE m == EndGroup(first)
  <2>1. /\ Well(m) /\ m.count = 0 /\ m.data = first.data
        /\ \A all \in Seq(Octets) : Becomes(m, all) =>
             Becomes(first, all) /\ \A r : InStep(first, all, r) => InStep(m, all, r)
    <3> HIDE DEF m
    <3>1. m = EndGroup(first)
      BY DEF m
    <3>2. Well(m) /\ m.count = 0 /\ m.data = first.data /\ EndPass(first, m)
      BY <1>2, <3>1, EndStep
    <3>3. QED
      BY <3>2 DEF EndPass
  <2> HIDE DEF m
  <2>2. nb = WriteBytes(m, two)
    BY <1>5, <1>11 DEF m
  <2>3. /\ Well(nb) /\ nb.count = 0 /\ Len(nb.data) = Len(m.data) + 2
        /\ \A all \in Seq(Octets) : Becomes(nb, all) => Becomes(m, all)
    <3>1. /\ Well(nb) /\ nb.count = m.count /\ Len(nb.data) = Len(m.data) + Len(two)
          /\ BytesPass(m, nb, two)
      BY <1>1, <2>1, <2>2, BytesStep
    <3>2. \A all \in Seq(Octets) : Becomes(nb, all) => Becomes(m, all)
      BY <3>1 DEF BytesPass
    <3>3. QED
      BY <1>1, <2>1, <3>1, <3>2
  <2>4. ASSUME NEW all \in Seq(Octets), Becomes(nb, all)
        PROVE  Becomes(buf, all) /\ Reads(buf, nb, all, entry, conds \o two)
    <3>1. Becomes(m, all)
      BY <2>3, <2>4
    <3>2. Becomes(first, all) /\ \A r : InStep(first, all, r) => InStep(m, all, r)
      BY <2>1, <3>1
    <3>3. ASSUME NEW before, before.told \in Seq(Octets), InStep(buf, all, before.reader)
          PROVE  /\ InStep(nb, all, ReadEntry(before, entry).reader)
                 /\ ReadEntry(before, entry).told = before.told \o (conds \o two)
      <4> DEFINE read == ReadMore(before, n)
      <4>1. ReadEntry(before, entry) = ReadMore(read, 2)
        BY <1>8, <1>11
      <4>2. InStep(first, all, read.reader) /\ read.told = before.told \o conds
        BY <1>9, <3>2, <3>3
      <4> HIDE DEF read
      <4>3. InStep(m, all, read.reader) /\ Becomes(WriteBytes(m, two), all)
        BY <2>2, <2>4, <3>2, <4>2
      <4>4. /\ InStep(WriteBytes(m, two), all, ReadMore(read, Len(two)).reader)
            /\ ReadMore(read, Len(two)).told = read.told \o two
        <5>1. Well(m) /\ two \in Seq(Octets)
          BY <1>1, <2>1
        <5>2. MorePass(WriteBytes(m, two), all, read, two)
          BY <4>3, <5>1, MoreRead
        <5>3. QED
          BY <5>2 DEF MorePass
      <4>5. (before.told \o conds) \o two = before.told \o (conds \o two)
        <5> DEFINE t == before.told
        <5>1. t \in Seq(Octets)
          BY <3>3
        <5> HIDE DEF t
        <5>2. (t \o conds) \o two = t \o (conds \o two)
          BY <1>1, <5>1, OctetsJoin
        <5>3. QED
          BY <5>2 DEF t
      <4>6. Len(two) = 2
        BY <1>1
      <4>7. QED
        BY <2>2, <4>1, <4>2, <4>4, <4>5, <4>6, Zenon
    <3>4. Reads(buf, nb, all, entry, conds \o two)
      BY <3>3 DEF Reads
    <3>5. QED
      BY <1>9, <3>2, <3>4
  <2>5. Extra(entry, observer, buf.count) = 2 /\ CountAfter(entry, buf.count) = 0
    BY <1>11 DEF Extra, CountAfter
  <2>6. Len(nb.data) = Len(buf.data) + entry.children + 1 + 2
    <3>1. Len(nb.data) = Len(m.data) + 2
      BY <2>3
    <3>2. Len(m.data) = Len(first.data)
      BY <2>1
    <3>3. QED
      BY <1>2, <1>3, <3>1, <3>2
  <2>7. Facts(entry, k, observer) = conds \o two
    BY <1>6, <1>11
  <2>8. QED
    BY <2>3, <2>4, <2>5, <2>6, <2>7, Zenon DEF nb
<1>12. CASE entry.format = "powered" /\ observer = "owner"
  <2>1. /\ Well(nb)
        /\ nb.count = IF first.count \in {0, GroupSize} THEN 1 ELSE first.count + 1
        /\ Len(nb.data) = Len(first.data) + (IF first.count \in {0, GroupSize} THEN 1 ELSE 0)
        /\ \A all \in Seq(Octets) : Becomes(nb, all) =>
             /\ Becomes(first, all)
             /\ \A r : InStep(first, all, r) => ReadBit(r).value = 0 /\ InStep(nb, all, ReadBit(r))
    <3>1. nb = WriteBit(first, 0)
      BY <1>5, <1>12
    <3>2. /\ Well(nb) /\ BitPass(first, nb, 0)
          /\ nb.count = IF first.count \in {0, GroupSize} THEN 1 ELSE first.count + 1
          /\ Len(nb.data) = Len(first.data) + (IF first.count \in {0, GroupSize} THEN 1 ELSE 0)
      BY <1>2, <3>1, BitStep
    <3>3. QED
      BY <3>2 DEF BitPass
  <2>2. ASSUME NEW all \in Seq(Octets), Becomes(nb, all)
        PROVE  Becomes(buf, all) /\ Reads(buf, nb, all, entry, conds)
    <3>1. /\ Becomes(first, all)
          /\ \A r : InStep(first, all, r) => ReadBit(r).value = 0 /\ InStep(nb, all, ReadBit(r))
      BY <2>1, <2>2
    <3>2. ASSUME NEW before, InStep(buf, all, before.reader)
          PROVE  /\ InStep(nb, all, ReadEntry(before, entry).reader)
                 /\ ReadEntry(before, entry).told = before.told \o conds
      <4> DEFINE read == ReadMore(before, n)
                 after == [reader |-> ReadBit(read.reader), told |-> read.told]
      <4>1. InStep(first, all, read.reader) /\ read.told = before.told \o conds
        BY <1>9, <3>1, <3>2
      <4>2. ReadBit(read.reader).value = 0 /\ InStep(nb, all, ReadBit(read.reader))
        BY <3>1, <4>1
      <4>3. ReadEntry(before, entry) = after
        BY <1>8, <1>12, <4>2
      <4>4. after.reader = ReadBit(read.reader) /\ after.told = read.told
        OBVIOUS
      <4> HIDE DEF read, after
      <4>5. QED
        BY <4>1, <4>2, <4>3, <4>4, Zenon
    <3>3. Reads(buf, nb, all, entry, conds)
      BY <3>2 DEF Reads
    <3>4. QED
      BY <1>9, <3>1, <3>3
  <2>3. /\ Extra(entry, observer, buf.count) = IF buf.count \in {0, GroupSize} THEN 1 ELSE 0
        /\ CountAfter(entry, buf.count) =
             IF buf.count \in {0, GroupSize} THEN 1 ELSE buf.count + 1
    BY <1>12 DEF Extra, CountAfter
  <2>4. Len(nb.data) = Len(buf.data) + entry.children + 1 + Extra(entry, observer, buf.count)
    <3> DEFINE group == IF buf.count \in {0, GroupSize} THEN 1 ELSE 0
    <3>1. first.count = buf.count /\ Len(first.data) = Len(buf.data) + n
      BY <1>2
    <3>2. Len(nb.data) = Len(first.data) + group
      BY <2>1, <3>1
    <3>3. group \in Nat /\ Extra(entry, observer, buf.count) = group
      BY <2>3
    <3> HIDE DEF group
    <3>4. QED
      BY <1>3, <3>1, <3>2, <3>3
  <2>5. Facts(entry, k, observer) = conds
    BY <1>6, <1>7, <1>12
  <2>6. nb.count = CountAfter(entry, buf.count)
    BY <1>2, <2>1, <2>3
  <2>7. QED
    BY <2>1, <2>2, <2>4, <2>5, <2>6, Zenon DEF nb
<1>13. CASE entry.format = "powered" /\ observer = "remote"
  <2> DEFINE m == WriteBit(first, 1)
  <2>1. /\ Well(m)
        /\ m.count = IF first.count \in {0, GroupSize} THEN 1 ELSE first.count + 1
        /\ Len(m.data) = Len(first.data) + (IF first.count \in {0, GroupSize} THEN 1 ELSE 0)
        /\ \A all \in Seq(Octets) : Becomes(m, all) =>
             /\ Becomes(first, all)
             /\ \A r : InStep(first, all, r) => ReadBit(r).value = 1 /\ InStep(m, all, ReadBit(r))
    <3> HIDE DEF m
    <3>1. m = WriteBit(first, 1)
      BY DEF m
    <3>2. /\ Well(m) /\ BitPass(first, m, 1)
          /\ m.count = IF first.count \in {0, GroupSize} THEN 1 ELSE first.count + 1
          /\ Len(m.data) = Len(first.data) + (IF first.count \in {0, GroupSize} THEN 1 ELSE 0)
      BY <1>2, <3>1, BitStep
    <3>3. QED
      BY <3>2 DEF BitPass
  <2> HIDE DEF m
  <2>2. nb = WriteBytes(m, one)
    BY <1>5, <1>13 DEF m
  <2>3. /\ Well(nb) /\ nb.count = m.count /\ Len(nb.data) = Len(m.data) + 1
        /\ \A all \in Seq(Octets) : Becomes(nb, all) => Becomes(m, all)
    <3>1. /\ Well(nb) /\ nb.count = m.count /\ Len(nb.data) = Len(m.data) + Len(one)
          /\ BytesPass(m, nb, one)
      BY <1>1, <2>1, <2>2, BytesStep
    <3>2. \A all \in Seq(Octets) : Becomes(nb, all) => Becomes(m, all)
      BY <3>1 DEF BytesPass
    <3>3. QED
      BY <1>1, <2>1, <3>1, <3>2
  <2>4. ASSUME NEW all \in Seq(Octets), Becomes(nb, all)
        PROVE  Becomes(buf, all) /\ Reads(buf, nb, all, entry, conds \o one)
    <3>1. Becomes(m, all)
      BY <2>3, <2>4
    <3>2. /\ Becomes(first, all)
          /\ \A r : InStep(first, all, r) => ReadBit(r).value = 1 /\ InStep(m, all, ReadBit(r))
      BY <2>1, <3>1
    <3>3. ASSUME NEW before, before.told \in Seq(Octets), InStep(buf, all, before.reader)
          PROVE  /\ InStep(nb, all, ReadEntry(before, entry).reader)
                 /\ ReadEntry(before, entry).told = before.told \o (conds \o one)
      <4> DEFINE read == ReadMore(before, n)
                 after == [reader |-> ReadBit(read.reader), told |-> read.told]
      <4>1. InStep(first, all, read.reader) /\ read.told = before.told \o conds
        BY <1>9, <3>2, <3>3
      <4>2. ReadBit(read.reader).value = 1 /\ InStep(m, all, ReadBit(read.reader))
        BY <3>2, <4>1
      <4>3. ReadEntry(before, entry) = ReadMore(after, 1)
        BY <1>8, <1>13, <4>2
      <4>4. after.reader = ReadBit(read.reader) /\ after.told = read.told
        OBVIOUS
      <4> HIDE DEF read, after
      <4>5. InStep(m, all, after.reader) /\ Becomes(WriteBytes(m, one), all)
        BY <2>2, <2>4, <4>2, <4>4
      <4>6. /\ InStep(WriteBytes(m, one), all, ReadMore(after, Len(one)).reader)
            /\ ReadMore(after, Len(one)).told = after.told \o one
        <5>1. Well(m) /\ one \in Seq(Octets)
          BY <1>1, <2>1
        <5>2. MorePass(WriteBytes(m, one), all, after, one)
          BY <4>5, <5>1, MoreRead
        <5>3. QED
          BY <5>2 DEF MorePass
      <4>7. (before.told \o conds) \o one = before.told \o (conds \o one)
        <5> DEFINE t == before.told
        <5>1. t \in Seq(Octets)
          BY <3>3
        <5> HIDE DEF t
        <5>2. (t \o conds) \o one = t \o (conds \o one)
          BY <1>1, <5>1, OctetsJoin
        <5>3. QED
          BY <5>2 DEF t
      <4>8. Len(one) = 1
        BY <1>1
      <4>9. QED
        BY <2>2, <4>1, <4>3, <4>4, <4>6, <4>7, <4>8, Zenon
    <3>4. Reads(buf, nb, all, entry, conds \o one)
      BY <3>3 DEF Reads
    <3>5. QED
      BY <1>9, <3>2, <3>4
  <2>5. /\ Extra(entry, observer, buf.count) =
             (IF buf.count \in {0, GroupSize} THEN 1 ELSE 0) + 1
        /\ CountAfter(entry, buf.count) =
             IF buf.count \in {0, GroupSize} THEN 1 ELSE buf.count + 1
    BY <1>13 DEF Extra, CountAfter
  <2>6. Len(nb.data) = Len(buf.data) + entry.children + 1 + Extra(entry, observer, buf.count)
    <3> DEFINE group == IF buf.count \in {0, GroupSize} THEN 1 ELSE 0
    <3>1. first.count = buf.count /\ Len(first.data) = Len(buf.data) + n
      BY <1>2
    <3>2. Len(m.data) = Len(first.data) + group
      BY <2>1, <3>1
    <3>3. Len(nb.data) = Len(m.data) + 1
      BY <2>3
    <3>4. group \in Nat /\ Extra(entry, observer, buf.count) = group + 1
      BY <2>5
    <3> HIDE DEF group
    <3> DEFINE all == Len(nb.data)
               old == Len(buf.data)
               more == Extra(entry, observer, buf.count)
               children == entry.children
    <3>5. /\ old \in Nat /\ children \in Nat /\ group \in Nat
          /\ n = children + 1 /\ more = group + 1
      BY <1>3, <3>4
    <3>6. all = old + n + group + 1
      BY <1>3, <3>1, <3>2, <3>3, <3>4
    <3> HIDE DEF all, old, more, children
    <3>7. all = old + children + 1 + more
      BY <3>5, <3>6
    <3>8. QED
      BY <3>7 DEF all, old, more, children
  <2>7. Facts(entry, k, observer) = conds \o one
    BY <1>6, <1>13
  <2>8. nb.count = CountAfter(entry, buf.count)
    BY <1>2, <2>1, <2>3, <2>5
  <2>9. QED
    BY <2>3, <2>4, <2>6, <2>7, <2>8, Zenon DEF nb
<1>14. QED
  BY <1>4, <1>10, <1>11, <1>12, <1>13

(* One more entry, counted as Written counts it.                           *)
Measure(before, entry, observer) ==
  LET plain == before.bytes + 1 + entry.children
      group == IF before.bits \in {0, 5} THEN 1 ELSE 0
      setting == IF observer = "remote" THEN 1 ELSE 0
  IN CASE entry.format = "powered" -> [bytes |-> plain + group + setting,
                                       bits |-> IF group = 1 THEN 1 ELSE before.bits + 1]
       [] entry.format = "power" -> [bytes |-> plain + 2, bits |-> 0]
       [] OTHER -> [bytes |-> plain, bits |-> 0]

(* The count of the bytes is of the bytes that are written.                *)
LEMMA MeasureFacts ==
  ASSUME NEW entry \in [format : Formats, children : Nat], NEW observer \in Observers,
         NEW before, before.bytes \in Nat, before.bits \in Nat
  PROVE  /\ Measure(before, entry, observer).bytes =
              before.bytes + entry.children + 1 + Extra(entry, observer, before.bits)
         /\ Measure(before, entry, observer).bits = CountAfter(entry, before.bits)
<1> DEFINE bytes == before.bytes
           bits == before.bits
           children == entry.children
           group == IF bits \in {0, 5} THEN 1 ELSE 0
           setting == IF observer = "remote" THEN 1 ELSE 0
<1>1. bytes \in Nat /\ bits \in Nat /\ children \in Nat /\ group \in Nat /\ setting \in Nat
  OBVIOUS
<1>2. entry.format \in {"base", "powered", "power"}
  BY DEF Formats
<1>3. CASE entry.format = "powered"
  <2>1. Measure(before, entry, observer) =
          [bytes |-> bytes + 1 + children + group + setting,
           bits |-> IF group = 1 THEN 1 ELSE bits + 1]
    BY <1>3 DEF Measure
  <2>2. Extra(entry, observer, bits) = group + setting
    BY <1>3 DEF Extra, GroupSize
  <2>3. CountAfter(entry, bits) = IF group = 1 THEN 1 ELSE bits + 1
    BY <1>3 DEF CountAfter, GroupSize
  <2> HIDE DEF bytes, bits, children, group, setting
  <2>4. bytes + children + 1 + (group + setting) = bytes + 1 + children + group + setting
    BY <1>1
  <2>5. /\ Measure(before, entry, observer).bytes = bytes + 1 + children + group + setting
        /\ Measure(before, entry, observer).bits = IF group = 1 THEN 1 ELSE bits + 1
    BY <2>1
  <2>6. QED
    BY <2>2, <2>3, <2>4, <2>5 DEF bytes, bits, children
<1>4. CASE entry.format = "power"
  BY <1>1, <1>4 DEF Measure, Extra, CountAfter
<1>5. CASE entry.format = "base"
  BY <1>1, <1>5 DEF Measure, Extra, CountAfter
<1>6. QED
  BY <1>2, <1>3, <1>4, <1>5

LEMMA EntryTyped ==
  ASSUME NEW of \in Lists, NEW start \in Entries(of), NEW k \in Nat, k > 0
  PROVE  EntryAt(of, start, k) \in [format : Formats, children : Nat]
<1> DEFINE n == Len(of)
<1>1. of \in Seq([format : Formats, children : Nat]) /\ n \in Nat /\ n > 0
  <2>1. of \in Seq([format : Formats, children : Nat])
    BY HealthAssumption
  <2>2. QED
    BY <2>1, ListFacts
<1>2. start \in 0..(n - 1)
  BY DEF Entries
<1> HIDE DEF n
<1>3. start + k - 1 \in Nat
  BY <1>2
<1>4. (start + k - 1) % n \in 0..(n - 1)
  BY <1>1, <1>3
<1>5. ((start + k - 1) % n) + 1 \in 1..n
  BY <1>1, <1>4
<1>6. of[((start + k - 1) % n) + 1] \in [format : Formats, children : Nat]
  BY <1>1, <1>5, ElementOfSeq DEF n
<1>7. QED
  BY <1>6 DEF EntryAt, n

----------------------------------------------------------------------------
(* The functions by which a window is written, read, counted and described, *)
(* entry by entry, all at once.                                            *)

FirstRead(data) == ReadBytes(Reader(data), 1)

Opening(start, data) ==
  [buf |-> WriteBytes(EmptyBuffer, <<start>>),
   read |-> [reader |-> FirstRead(data), told |-> <<>>],
   facts |-> <<>>, size |-> [bytes |-> 1, bits |-> 0]]

Another(of, start, observer, data, k, x) ==
  [buf |-> WriteEntry(x.buf, EntryAt(of, start, k), k, observer),
   read |-> ReadEntry(x.read, EntryAt(of, FirstRead(data).value[1], k)),
   facts |-> x.facts \o Facts(EntryAt(of, start, k), k, observer),
   size |-> Measure(x.size, EntryAt(of, start, k), observer)]

WindowRun(of, start, observer, data, n, w) ==
  /\ w[0] = Opening(start, data)
  /\ \A k \in 1..n : w[k] = Another(of, start, observer, data, k, w[k - 1])

LEMMA WindowRuns ==
  ASSUME NEW of, NEW start, NEW observer, NEW data, NEW n \in Nat
  PROVE  \E w : WindowRun(of, start, observer, data, n, w)
<1> DEFINE T == {m \in Nat : \E w : WindowRun(of, start, observer, data, m, w)}
<1>1. 0 \in T
  <2> DEFINE w == [k \in 0..0 |-> Opening(start, data)]
  <2>1. WindowRun(of, start, observer, data, 0, w)
    BY DEF WindowRun
  <2> HIDE DEF w
  <2>2. QED
    BY <2>1
<1>2. ASSUME NEW m \in T PROVE m + 1 \in T
  <2>1. PICK w : WindowRun(of, start, observer, data, m, w)
    BY <1>2
  <2> DEFINE x == Another(of, start, observer, data, m + 1, w[m])
             v == [k \in 0..(m + 1) |-> IF k = m + 1 THEN x ELSE w[k]]
  <2>2. /\ m \in Nat /\ w[0] = Opening(start, data)
        /\ \A k \in 1..m : w[k] = Another(of, start, observer, data, k, w[k - 1])
    BY <2>1 DEF WindowRun
  <2> HIDE DEF x
  <2>3. v[m + 1] = x /\ \A k \in 0..m : v[k] = w[k]
    BY <2>2
  <2> HIDE DEF v
  <2>4. v[0] = Opening(start, data)
    BY <2>2, <2>3
  <2>5. ASSUME NEW k \in 1..(m + 1)
        PROVE  v[k] = Another(of, start, observer, data, k, v[k - 1])
    <3>1. CASE k = m + 1
      <4>1. k - 1 = m /\ v[m] = w[m]
        BY <2>2, <2>3, <3>1
      <4>2. QED
        BY <2>3, <3>1, <4>1 DEF x
    <3>2. CASE k # m + 1
      <4>1. k \in 1..m /\ k - 1 \in 0..m /\ k \in 0..m
        BY <2>2, <3>2
      <4>2. QED
        BY <2>2, <2>3, <4>1
    <3>3. QED
      BY <3>1, <3>2
  <2>6. WindowRun(of, start, observer, data, m + 1, v)
    BY <2>3, <2>4, <2>5 DEF WindowRun
  <2>7. QED
    BY <2>2, <2>6
<1>3. T = Nat
  <2>1. T \in SUBSET Nat
    OBVIOUS
  <2> HIDE DEF T
  <2>2. QED
    BY <1>1, <1>2, <2>1, Induct
<1>4. QED
  BY <1>3

LEMMA OpeningFields ==
  ASSUME NEW start, NEW data
  PROVE  /\ Opening(start, data).buf = WriteBytes(EmptyBuffer, <<start>>)
         /\ Opening(start, data).read = [reader |-> FirstRead(data), told |-> <<>>]
         /\ Opening(start, data).facts = <<>>
         /\ Opening(start, data).size = [bytes |-> 1, bits |-> 0]
<1> DEFINE b == WriteBytes(EmptyBuffer, <<start>>)
           r == [reader |-> FirstRead(data), told |-> <<>>]
           s == [bytes |-> 1, bits |-> 0]
<1>1. Opening(start, data) = [buf |-> b, read |-> r, facts |-> <<>>, size |-> s]
  BY Zenon DEF Opening
<1> HIDE DEF b, r, s
<1>2. /\ Opening(start, data).buf = b /\ Opening(start, data).read = r
      /\ Opening(start, data).facts = <<>> /\ Opening(start, data).size = s
  BY <1>1
<1>3. QED
  BY <1>2 DEF b, r, s

LEMMA AnotherFields ==
  ASSUME NEW of, NEW start, NEW observer, NEW data, NEW k, NEW x
  PROVE  /\ Another(of, start, observer, data, k, x).buf =
              WriteEntry(x.buf, EntryAt(of, start, k), k, observer)
         /\ Another(of, start, observer, data, k, x).read =
              ReadEntry(x.read, EntryAt(of, FirstRead(data).value[1], k))
         /\ Another(of, start, observer, data, k, x).facts =
              x.facts \o Facts(EntryAt(of, start, k), k, observer)
         /\ Another(of, start, observer, data, k, x).size =
              Measure(x.size, EntryAt(of, start, k), observer)
<1> DEFINE b == WriteEntry(x.buf, EntryAt(of, start, k), k, observer)
           r == ReadEntry(x.read, EntryAt(of, FirstRead(data).value[1], k))
           f == x.facts \o Facts(EntryAt(of, start, k), k, observer)
           s == Measure(x.size, EntryAt(of, start, k), observer)
           y == Another(of, start, observer, data, k, x)
<1>1. y = [buf |-> b, read |-> r, facts |-> f, size |-> s]
  BY Zenon DEF Another
<1> HIDE DEF b, r, f, s, y
<1>2. y.buf = b /\ y.read = r /\ y.facts = f /\ y.size = s
  BY <1>1
<1>3. QED
  BY <1>2 DEF b, r, f, s, y

(* Two runs that start alike and step alike are one.                       *)
Alike(f, g, n) == f[0] = g[0] /\ \A k \in 1..n : f[k - 1] = g[k - 1] => f[k] = g[k]

LEMMA SameSteps ==
  ASSUME NEW n \in Nat, NEW f, NEW g, Alike(f, g, n)
  PROVE  \A m \in 0..n : f[m] = g[m]
<1> DEFINE T == {k \in 0..n : f[k] = g[k]}
<1>1. T \in SUBSET Nat /\ 0 \in T
  BY DEF Alike
<1>2. \A k \in 1..n : k - 1 \in T => k \in T
  BY DEF Alike
<1> HIDE DEF T
<1>3. \A m \in 0..n : m \in T
  BY <1>1, <1>2, InductUpto
<1>4. QED
  BY <1>3 DEF T

(* What is written is the last buffer of the run.                          *)
LEMMA WriterRuns ==
  ASSUME NEW of, NEW start, NEW observer, NEW data, NEW n \in Nat,
         n = WindowSize[of][start][observer],
         NEW w, WindowRun(of, start, observer, data, n, w)
  PROVE  Window(of, start, observer) = w[n].buf.data
<1> DEFINE First == WriteBytes(EmptyBuffer, <<start>>)
           Step(x, k) == WriteEntry(x, EntryAt(of, start, k), k, observer)
           Defines(f) == f = [k \in 0..n |-> IF k = 0 THEN First ELSE Step(f[k - 1], k)]
           g == [k \in 0..n |-> w[k].buf]
<1>1. w[0].buf = First
  <2>1. w[0] = Opening(start, data)
    BY DEF WindowRun
  <2>2. QED
    BY <2>1, OpeningFields
<1>2. ASSUME NEW k \in 1..n PROVE w[k].buf = Step(w[k - 1].buf, k)
  <2>1. w[k] = Another(of, start, observer, data, k, w[k - 1])
    BY DEF WindowRun
  <2> DEFINE x == w[k - 1]
  <2>2. w[k].buf = Another(of, start, observer, data, k, x).buf
    BY Zenon, <2>1
  <2> HIDE DEF WindowRun, x
  <2>3. Another(of, start, observer, data, k, x).buf = Step(x.buf, k)
    BY AnotherFields
  <2>4. QED
    BY Zenon, <2>2, <2>3 DEF x
<1>3. Defines(g)
  <2> HIDE DEF First, Step
  <2>1. ASSUME NEW k \in 0..n
        PROVE  w[k].buf = IF k = 0 THEN First ELSE Step(g[k - 1], k)
    <3>1. CASE k = 0
      BY <1>1, <3>1
    <3>2. CASE k # 0
      <4>1. k \in 1..n /\ k - 1 \in 0..n
        BY <3>2
      <4>2. g[k - 1] = w[k - 1].buf
        BY <4>1
      <4>3. QED
        BY <1>2, <3>2, <4>1, <4>2
    <3>3. QED
      BY <3>1, <3>2
  <2>2. QED
    BY Zenon, <2>1
<1>4. ASSUME NEW f, Defines(f) PROVE \A m \in 0..n : f[m] = w[m].buf
  <2> HIDE DEF First, Step
  <2>1. f[0] = First /\ \A k \in 1..n : f[k] = Step(f[k - 1], k)
    <3>1. 0 \in 0..n /\ \A k \in 1..n : k \in 0..n /\ k # 0
      OBVIOUS
    <3>2. QED
      BY <1>4, <3>1
  <2>2. g[0] = First /\ \A k \in 1..n : g[k] = Step(g[k - 1], k)
    <3>1. 0 \in 0..n /\ \A k \in 1..n : k \in 0..n /\ k # 0
      OBVIOUS
    <3>2. QED
      BY <1>3, <3>1
  <2> HIDE DEF Defines, g
  <2>3. Alike(f, g, n)
    BY <2>1, <2>2 DEF Alike
  <2>4. \A m \in 0..n : f[m] = g[m]
    BY <2>3, SameSteps
  <2>5. QED
    BY <2>4 DEF g
<1>5. Window(of, start, observer) = (CHOOSE f : Defines(f))[n].data
  BY Zenon DEF Window
<1> HIDE DEF Defines, g, First, Step
<1>6. Defines(CHOOSE f : Defines(f))
  BY <1>3
<1>7. QED
  BY <1>4, <1>5, <1>6

(* What a client should be told is the last list of the run.               *)
LEMMA FactsRun ==
  ASSUME NEW of, NEW start, NEW observer, NEW data, NEW n \in Nat,
         n = WindowSize[of][start][observer],
         NEW w, WindowRun(of, start, observer, data, n, w)
  PROVE  AllFacts(of, start, observer) = w[n].facts
<1> DEFINE First == <<>>
           Step(x, k) == x \o Facts(EntryAt(of, start, k), k, observer)
           Defines(f) == f = [k \in 0..n |-> IF k = 0 THEN First ELSE Step(f[k - 1], k)]
           g == [k \in 0..n |-> w[k].facts]
<1>1. w[0].facts = First
  <2>1. w[0] = Opening(start, data)
    BY DEF WindowRun
  <2>2. QED
    BY <2>1, OpeningFields
<1>2. ASSUME NEW k \in 1..n PROVE w[k].facts = Step(w[k - 1].facts, k)
  <2>1. w[k] = Another(of, start, observer, data, k, w[k - 1])
    BY DEF WindowRun
  <2> DEFINE x == w[k - 1]
  <2>2. w[k].facts = Another(of, start, observer, data, k, x).facts
    BY Zenon, <2>1
  <2> HIDE DEF WindowRun, x
  <2>3. Another(of, start, observer, data, k, x).facts = Step(x.facts, k)
    BY AnotherFields
  <2>4. QED
    BY Zenon, <2>2, <2>3 DEF x
<1>3. Defines(g)
  <2> HIDE DEF First, Step
  <2>1. ASSUME NEW k \in 0..n
        PROVE  w[k].facts = IF k = 0 THEN First ELSE Step(g[k - 1], k)
    <3>1. CASE k = 0
      BY <1>1, <3>1
    <3>2. CASE k # 0
      <4>1. k \in 1..n /\ k - 1 \in 0..n
        BY <3>2
      <4>2. g[k - 1] = w[k - 1].facts
        BY <4>1
      <4>3. QED
        BY <1>2, <3>2, <4>1, <4>2
    <3>3. QED
      BY <3>1, <3>2
  <2>2. QED
    BY Zenon, <2>1
<1>4. ASSUME NEW f, Defines(f) PROVE \A m \in 0..n : f[m] = w[m].facts
  <2> HIDE DEF First, Step
  <2>1. f[0] = First /\ \A k \in 1..n : f[k] = Step(f[k - 1], k)
    <3>1. 0 \in 0..n /\ \A k \in 1..n : k \in 0..n /\ k # 0
      OBVIOUS
    <3>2. QED
      BY <1>4, <3>1
  <2>2. g[0] = First /\ \A k \in 1..n : g[k] = Step(g[k - 1], k)
    <3>1. 0 \in 0..n /\ \A k \in 1..n : k \in 0..n /\ k # 0
      OBVIOUS
    <3>2. QED
      BY <1>3, <3>1
  <2> HIDE DEF Defines, g
  <2>3. Alike(f, g, n)
    BY <2>1, <2>2 DEF Alike
  <2>4. \A m \in 0..n : f[m] = g[m]
    BY <2>3, SameSteps
  <2>5. QED
    BY <2>4 DEF g
<1>5. AllFacts(of, start, observer) = (CHOOSE f : Defines(f))[n]
  BY Zenon DEF AllFacts
<1> HIDE DEF Defines, g, First, Step
<1>6. Defines(CHOOSE f : Defines(f))
  BY <1>3
<1>7. QED
  BY <1>4, <1>5, <1>6

(* What is read is the last reading of the run.                            *)
LEMMA ReaderRuns ==
  ASSUME NEW of, NEW start, NEW observer, NEW data, NEW n \in Nat,
         NEW w, WindowRun(of, start, observer, data, n, w)
  PROVE  ReadWindow(of, data, n) = w[n].read
<1> DEFINE First == [reader |-> FirstRead(data), told |-> <<>>]
           Step(x, k) == ReadEntry(x, EntryAt(of, FirstRead(data).value[1], k))
           Defines(f) == f = [k \in 0..n |-> IF k = 0 THEN First ELSE Step(f[k - 1], k)]
           g == [k \in 0..n |-> w[k].read]
<1>1. w[0].read = First
  <2>1. w[0] = Opening(start, data)
    BY DEF WindowRun
  <2>2. QED
    BY <2>1, OpeningFields
<1>2. ASSUME NEW k \in 1..n PROVE w[k].read = Step(w[k - 1].read, k)
  <2>1. w[k] = Another(of, start, observer, data, k, w[k - 1])
    BY DEF WindowRun
  <2> DEFINE x == w[k - 1]
  <2>2. w[k].read = Another(of, start, observer, data, k, x).read
    BY Zenon, <2>1
  <2> HIDE DEF WindowRun, x
  <2>3. Another(of, start, observer, data, k, x).read = Step(x.read, k)
    BY AnotherFields
  <2>4. QED
    BY Zenon, <2>2, <2>3 DEF x
<1>3. Defines(g)
  <2> HIDE DEF First, Step
  <2>1. ASSUME NEW k \in 0..n
        PROVE  w[k].read = IF k = 0 THEN First ELSE Step(g[k - 1], k)
    <3>1. CASE k = 0
      BY <1>1, <3>1
    <3>2. CASE k # 0
      <4>1. k \in 1..n /\ k - 1 \in 0..n
        BY <3>2
      <4>2. g[k - 1] = w[k - 1].read
        BY <4>1
      <4>3. QED
        BY <1>2, <3>2, <4>1, <4>2
    <3>3. QED
      BY <3>1, <3>2
  <2>2. QED
    BY Zenon, <2>1
<1>4. ASSUME NEW f, Defines(f) PROVE \A m \in 0..n : f[m] = w[m].read
  <2> HIDE DEF First, Step
  <2>1. f[0] = First /\ \A k \in 1..n : f[k] = Step(f[k - 1], k)
    <3>1. 0 \in 0..n /\ \A k \in 1..n : k \in 0..n /\ k # 0
      OBVIOUS
    <3>2. QED
      BY <1>4, <3>1
  <2>2. g[0] = First /\ \A k \in 1..n : g[k] = Step(g[k - 1], k)
    <3>1. 0 \in 0..n /\ \A k \in 1..n : k \in 0..n /\ k # 0
      OBVIOUS
    <3>2. QED
      BY <1>3, <3>1
  <2> HIDE DEF Defines, g
  <2>3. Alike(f, g, n)
    BY <2>1, <2>2 DEF Alike
  <2>4. \A m \in 0..n : f[m] = g[m]
    BY <2>3, SameSteps
  <2>5. QED
    BY <2>4 DEF g
<1>5. ReadWindow(of, data, n) = (CHOOSE f : Defines(f))[n]
  BY Zenon DEF ReadWindow, FirstRead
<1> HIDE DEF Defines, g, First, Step
<1>6. Defines(CHOOSE f : Defines(f))
  BY <1>3
<1>7. QED
  BY <1>4, <1>5, <1>6

(* What is counted is all of the run.                                      *)
Counts(of, start, observer, m, w) == Written(of, start, observer)[m] = w[m].size

LEMMA WrittenRuns ==
  ASSUME NEW of, NEW start, NEW observer, NEW data, Len(of) \in Nat, NEW m \in 0..Len(of),
         NEW w, WindowRun(of, start, observer, data, Len(of), w)
  PROVE  Counts(of, start, observer, m, w)
<1> DEFINE n == Len(of)
           First == [bytes |-> 1, bits |-> 0]
           Step(x, k) == Measure(x, EntryAt(of, start, k), observer)
           Defines(f) == f = [k \in 0..n |-> IF k = 0 THEN First ELSE Step(f[k - 1], k)]
           g == [k \in 0..n |-> w[k].size]
<1>1. w[0].size = First
  <2>1. w[0] = Opening(start, data)
    BY DEF WindowRun
  <2>2. QED
    BY <2>1, OpeningFields
<1>2. ASSUME NEW k \in 1..n PROVE w[k].size = Step(w[k - 1].size, k)
  <2>1. w[k] = Another(of, start, observer, data, k, w[k - 1])
    BY DEF WindowRun
  <2> DEFINE x == w[k - 1]
  <2>2. w[k].size = Another(of, start, observer, data, k, x).size
    BY Zenon, <2>1
  <2> HIDE DEF WindowRun, x
  <2>3. Another(of, start, observer, data, k, x).size = Step(x.size, k)
    BY AnotherFields
  <2>4. QED
    BY Zenon, <2>2, <2>3 DEF x
<1>3. Defines(g)
  <2> HIDE DEF First, Step
  <2>1. ASSUME NEW k \in 0..n
        PROVE  w[k].size = IF k = 0 THEN First ELSE Step(g[k - 1], k)
    <3>1. CASE k = 0
      BY <1>1, <3>1
    <3>2. CASE k # 0
      <4>1. k \in 1..n /\ k - 1 \in 0..n
        BY <3>2
      <4>2. g[k - 1] = w[k - 1].size
        BY <4>1
      <4>3. QED
        BY <1>2, <3>2, <4>1, <4>2
    <3>3. QED
      BY <3>1, <3>2
  <2>2. QED
    BY Zenon, <2>1
<1>4. ASSUME NEW f, Defines(f) PROVE \A j \in 0..n : f[j] = w[j].size
  <2> HIDE DEF First, Step
  <2>1. f[0] = First /\ \A k \in 1..n : f[k] = Step(f[k - 1], k)
    <3>1. 0 \in 0..n /\ \A k \in 1..n : k \in 0..n /\ k # 0
      OBVIOUS
    <3>2. QED
      BY <1>4, <3>1
  <2>2. g[0] = First /\ \A k \in 1..n : g[k] = Step(g[k - 1], k)
    <3>1. 0 \in 0..n /\ \A k \in 1..n : k \in 0..n /\ k # 0
      OBVIOUS
    <3>2. QED
      BY <1>3, <3>1
  <2> HIDE DEF Defines, g
  <2>3. Alike(f, g, n)
    BY <2>1, <2>2 DEF Alike
  <2>4. \A j \in 0..n : f[j] = g[j]
    BY <2>3, SameSteps
  <2>5. QED
    BY <2>4 DEF g
<1>5. Written(of, start, observer) = (CHOOSE f : Defines(f))
  BY DEF Written, Measure, EntryAt
<1> HIDE DEF Defines, g, First, Step, n
<1>6. Defines(CHOOSE f : Defines(f))
  BY <1>3
<1>7. QED
  BY <1>4, <1>5, <1>6 DEF n, Counts

----------------------------------------------------------------------------
(* A window as it is written: its buffer is well, and as long as counted.  *)
Goes(x) ==
  /\ Well(x.buf) /\ x.size.bytes \in Nat /\ x.size.bits \in Nat
  /\ x.buf.count = x.size.bits /\ Len(x.buf.data) = x.size.bytes

LEMMA OpeningGoes ==
  ASSUME NEW start \in Nat, NEW data
  PROVE  Goes(Opening(start, data)) /\ Well(EmptyBuffer)
<1> DEFINE b == WriteBytes(EmptyBuffer, <<start>>)
           x == Opening(start, data)
<1>1. Well(EmptyBuffer) /\ EmptyBuffer.count = 0 /\ Len(EmptyBuffer.data) = 0
  BY DEF Well, EmptyBuffer, GroupSize
<1>2. <<start>> \in Seq(Octets) /\ Len(<<start>>) = 1
  <2>1. start \in Octets
    BY DEF Octets
  <2>2. QED
    BY <2>1
<1>3. Well(b) /\ b.count = 0 /\ Len(b.data) = 1
  <2> DEFINE bytes == <<start>>
             none == EmptyBuffer
  <2>1. Well(none) /\ none.count = 0 /\ Len(none.data) = 0
    BY <1>1
  <2>2. bytes \in Seq(Octets) /\ Len(bytes) = 1
    BY <1>2
  <2> HIDE DEF bytes, none
  <2>3. /\ Well(WriteBytes(none, bytes)) /\ WriteBytes(none, bytes).count = none.count
        /\ Len(WriteBytes(none, bytes).data) = Len(none.data) + Len(bytes)
    BY <2>1, <2>2, BytesStep
  <2>4. QED
    BY <2>1, <2>2, <2>3 DEF bytes, none
<1>4. x.buf = b /\ x.size = [bytes |-> 1, bits |-> 0]
  BY OpeningFields
<1> HIDE DEF b, x
<1>5. x.size.bytes = 1 /\ x.size.bits = 0
  BY <1>4
<1>6. Goes(x)
  BY <1>3, <1>4, <1>5 DEF Goes
<1>7. QED
  BY <1>1, <1>6 DEF x

(* all holds what was written before y and lets it be read.                *)
Leads(x, y, entry, facts) ==
  \A all \in Seq(Octets) : Becomes(y.buf, all) =>
    Becomes(x.buf, all) /\ Reads(x.buf, y.buf, all, entry, facts)

LEMMA AnotherGoes ==
  ASSUME NEW of \in Lists, NEW start \in Entries(of), NEW observer \in Observers, NEW data,
         NEW k \in Nat, k > 0, NEW x, Goes(x)
  PROVE  /\ Goes(Another(of, start, observer, data, k, x))
         /\ Leads(x, Another(of, start, observer, data, k, x), EntryAt(of, start, k),
                  Facts(EntryAt(of, start, k), k, observer))
<1> DEFINE y == Another(of, start, observer, data, k, x)
           e == EntryAt(of, start, k)
           buf == x.buf
           size == x.size
           nb == WriteEntry(buf, e, k, observer)
           more == Measure(size, e, observer)
           facts == Facts(e, k, observer)
<1>1. e \in [format : Formats, children : Nat]
  BY EntryTyped
<1>2. y.buf = nb /\ y.size = more
  BY AnotherFields
<1> HIDE DEF y, e
<1>3. /\ Well(buf) /\ size.bytes \in Nat /\ size.bits \in Nat
      /\ buf.count = size.bits /\ Len(buf.data) = size.bytes
  BY DEF Goes
<1> HIDE DEF buf, size
<1>4. /\ Well(nb) /\ nb.count = CountAfter(e, buf.count)
      /\ Len(nb.data) = Len(buf.data) + e.children + 1 + Extra(e, observer, buf.count)
      /\ \A all \in Seq(Octets) : Becomes(nb, all) =>
           Becomes(buf, all) /\ Reads(buf, nb, all, e, facts)
  BY <1>1, <1>3, EntryStep
<1>5. /\ more.bytes = size.bytes + e.children + 1 + Extra(e, observer, size.bits)
      /\ more.bits = CountAfter(e, size.bits)
  BY <1>1, <1>3, MeasureFacts
<1>6. more.bytes \in Nat /\ more.bits \in Nat
  BY <1>1, <1>3, <1>5 DEF Extra, CountAfter, GroupSize
<1> HIDE DEF nb, more, facts
<1>7. Goes(y)
  BY <1>2, <1>3, <1>4, <1>5, <1>6 DEF Goes
<1>8. Leads(x, y, e, facts)
  BY <1>2, <1>4, Zenon DEF Leads, buf
<1>9. QED
  BY <1>7, <1>8 DEF y, e, facts

(* So it is of every window, entry after entry.                            *)
LEMMA RunGoes ==
  ASSUME NEW of \in Lists, NEW start \in Entries(of), NEW observer \in Observers, NEW data,
         NEW n \in Nat, NEW w, WindowRun(of, start, observer, data, n, w)
  PROVE  \A k \in 0..n : Goes(w[k])
<1> DEFINE T == {k \in 0..n : Goes(w[k])}
<1>1. T \in SUBSET Nat
  OBVIOUS
<1>2. 0 \in T
  <2>1. w[0] = Opening(start, data) /\ start \in Nat
    BY DEF WindowRun, Entries
  <2>2. Goes(w[0])
    BY <2>1, OpeningGoes
  <2>3. QED
    BY <2>2
<1>3. ASSUME NEW k \in 1..n, k - 1 \in T PROVE k \in T
  <2> DEFINE x == w[k - 1]
  <2>1. w[k] = Another(of, start, observer, data, k, x) /\ Goes(x)
    BY <1>3 DEF WindowRun
  <2> HIDE DEF x
  <2>2. Goes(Another(of, start, observer, data, k, x))
    BY <2>1, AnotherGoes
  <2>3. QED
    BY <2>1, <2>2
<1> HIDE DEF T
<1>4. \A k \in 0..n : k \in T
  BY <1>1, <1>2, <1>3, InductUpto
<1>5. QED
  BY <1>4 DEF T

(* What was written stays what becomes of it to the last.                  *)
LEMMA WrittenIsKept ==
  ASSUME NEW of \in Lists, NEW start \in Entries(of), NEW observer \in Observers, NEW data,
         NEW n \in Nat, NEW w, WindowRun(of, start, observer, data, n, w),
         NEW all \in Seq(Octets), all = w[n].buf.data
  PROVE  \A k \in 0..n : Becomes(w[k].buf, all)
<1> DEFINE T == {i \in 0..n : Becomes(w[n - i].buf, all)}
<1>1. T \in SUBSET Nat
  OBVIOUS
<1>2. 0 \in T
  <2> DEFINE last == w[n].buf
  <2>1. Goes(w[n])
    BY RunGoes
  <2>2. Well(last) /\ all = last.data
    BY <2>1 DEF Goes
  <2> HIDE DEF last
  <2>3. Becomes(last, all)
    BY <2>2 DEF Becomes, Well, Grows, Open
  <2>4. n - 0 = n /\ 0 \in 0..n
    OBVIOUS
  <2>5. QED
    BY <2>3, <2>4 DEF last
<1>3. ASSUME NEW i \in 1..n, i - 1 \in T PROVE i \in T
  <2> DEFINE k == n - (i - 1)
             x == w[k - 1]
  <2>1. k \in 1..n /\ k \in Nat /\ k > 0 /\ k - 1 \in 0..n /\ k - 1 = n - i
    OBVIOUS
  <2>2. Becomes(w[k].buf, all)
    BY <1>3
  <2> HIDE DEF k
  <2>3. w[k] = Another(of, start, observer, data, k, x)
    BY <2>1 DEF WindowRun
  <2>4. Goes(x)
    BY <2>1, RunGoes
  <2> HIDE DEF x
  <2>5. Leads(x, w[k], EntryAt(of, start, k), Facts(EntryAt(of, start, k), k, observer))
    BY <2>1, <2>3, <2>4, AnotherGoes
  <2>6. Becomes(x.buf, all)
    BY <2>2, <2>5 DEF Leads
  <2>7. x = w[n - i]
    BY <2>1 DEF x
  <2>8. QED
    BY <2>6, <2>7
<1> HIDE DEF T
<1>4. \A i \in 0..n : i \in T
  BY <1>1, <1>2, <1>3, InductUpto
<1>5. ASSUME NEW k \in 0..n PROVE Becomes(w[k].buf, all)
  <2>1. n - k \in 0..n /\ n - (n - k) = k
    OBVIOUS
  <2>2. n - k \in T
    BY <1>4, <2>1
  <2>3. QED
    BY <2>1, <2>2 DEF T
<1>6. QED
  BY <1>5

(* The client knows where the window starts.                               *)
LEMMA StartIsRead ==
  ASSUME NEW start \in Nat, NEW data \in Seq(Octets),
         Becomes(WriteBytes(EmptyBuffer, <<start>>), data)
  PROVE  /\ FirstRead(data).value = <<start>>
         /\ InStep(WriteBytes(EmptyBuffer, <<start>>), data, FirstRead(data))
<1> DEFINE nb == WriteBytes(EmptyBuffer, <<start>>)
<1>1. <<start>> \in Seq(Octets) /\ Len(<<start>>) = 1
  <2>1. start \in Octets
    BY DEF Octets
  <2>2. QED
    BY <2>1
<1>2. BytesPass(EmptyBuffer, nb, <<start>>)
  BY <1>1, BytesStep, OpeningGoes
<1>3. InStep(EmptyBuffer, data, Reader(data))
  BY DEF InStep, EmptyBuffer, Reader, Open, GroupSize
<1>4. /\ ReadBytes(Reader(data), Len(<<start>>)).value = <<start>>
      /\ InStep(nb, data, ReadBytes(Reader(data), Len(<<start>>)))
  BY <1>2, <1>3 DEF BytesPass
<1>5. QED
  BY <1>1, <1>4 DEF FirstRead

LEMMA FactsAreOctets ==
  ASSUME NEW entry \in [format : Formats, children : Nat], NEW k \in Nat, NEW observer
  PROVE  Facts(entry, k, observer) \in Seq(Octets)
<1> DEFINE c == Conditions(entry, k)
           one == <<Setting(k, 1)>>
           two == <<Setting(k, 1), Setting(k, 2)>>
<1>1. c \in Seq(Octets) /\ one \in Seq(Octets) /\ two \in Seq(Octets) /\ <<>> \in Seq(Octets)
  BY FactsTyped
<1>2. Facts(entry, k, observer) \in {c \o two, c \o one, c \o <<>>}
  BY DEF Facts
<1> HIDE DEF c, one, two
<1>3. c \o two \in Seq(Octets) /\ c \o one \in Seq(Octets) /\ c \o <<>> \in Seq(Octets)
  BY <1>1
<1>4. QED
  BY <1>2, <1>3

(* The client has read, and was told, all that was written so far.         *)
Follows(x, all) ==
  /\ InStep(x.buf, all, x.read.reader)
  /\ x.read.told = x.facts /\ x.facts \in Seq(Octets)

(* After each entry.                                                       *)
LEMMA ReadInStep ==
  ASSUME NEW of \in Lists, NEW start \in Entries(of), NEW observer \in Observers,
         NEW data \in Seq(Octets), NEW n \in Nat, NEW w,
         WindowRun(of, start, observer, data, n, w), data = w[n].buf.data
  PROVE  \A k \in 0..n : Follows(w[k], data)
<1> DEFINE T == {k \in 0..n : Follows(w[k], data)}
<1>1. T \in SUBSET Nat
  OBVIOUS
<1>2. /\ \A k \in 0..n : Becomes(w[k].buf, data) /\ Goes(w[k])
      /\ start \in Nat /\ w[0] = Opening(start, data)
      /\ 0 \in 0..n
  <2>1. \A k \in 0..n : Becomes(w[k].buf, data)
    BY WrittenIsKept
  <2>2. \A k \in 0..n : Goes(w[k])
    BY RunGoes
  <2>3. start \in Nat /\ w[0] = Opening(start, data) /\ 0 \in 0..n
    BY DEF WindowRun, Entries
  <2>4. QED
    BY <2>1, <2>2, <2>3
<1>3. w[0].buf = WriteBytes(EmptyBuffer, <<start>>)
  BY <1>2, OpeningFields
<1>4. /\ FirstRead(data).value = <<start>>
      /\ InStep(w[0].buf, data, FirstRead(data))
  BY <1>2, <1>3, StartIsRead
<1>5. 0 \in T
  <2>1. w[0].read = [reader |-> FirstRead(data), told |-> <<>>] /\ w[0].facts = <<>>
    <3>1. /\ Opening(start, data).read = [reader |-> FirstRead(data), told |-> <<>>]
          /\ Opening(start, data).facts = <<>>
      BY Zenon, OpeningFields
    <3>2. QED
      BY Zenon, <1>2, <3>1
  <2>2. w[0].read.reader = FirstRead(data) /\ w[0].read.told = <<>>
    BY <2>1
  <2>3. Follows(w[0], data)
    BY <1>4, <2>1, <2>2 DEF Follows
  <2>4. QED
    BY <1>2, <2>3
<1>6. ASSUME NEW k \in 1..n, k - 1 \in T PROVE k \in T
  <2> DEFINE x == w[k - 1]
             y == w[k]
             e == EntryAt(of, start, k)
             facts == Facts(e, k, observer)
             before == x.read
  <2>1. y = Another(of, start, observer, data, k, x)
    BY DEF WindowRun
  <2>2. /\ Goes(x) /\ Follows(x, data) /\ Becomes(y.buf, data) /\ k \in Nat /\ k > 0
    BY <1>2, <1>6
  <2> HIDE DEF x, y
  <2>3. /\ y.buf = WriteEntry(x.buf, e, k, observer)
        /\ y.read = ReadEntry(x.read, EntryAt(of, FirstRead(data).value[1], k))
        /\ y.facts = x.facts \o facts
    BY <2>1, AnotherFields
  <2>4. FirstRead(data).value[1] = start
    BY <1>4
  <2>5. y.read = ReadEntry(before, e)
    BY <2>3, <2>4, Zenon
  <2>6. Leads(x, y, e, facts)
    BY <2>1, <2>2, AnotherGoes
  <2>7. facts \in Seq(Octets)
    BY <2>2, EntryTyped, FactsAreOctets
  <2> HIDE DEF e, facts
  <2>8. Reads(x.buf, y.buf, data, e, facts)
    BY <2>2, <2>6 DEF Leads
  <2>9. before.told \in Seq(Octets) /\ InStep(x.buf, data, before.reader) /\ before.told = x.facts
    BY <2>2 DEF Follows
  <2> HIDE DEF before
  <2>10. /\ InStep(y.buf, data, ReadEntry(before, e).reader)
         /\ ReadEntry(before, e).told = before.told \o facts
    BY <2>8, <2>9 DEF Reads
  <2>11. x.facts \o facts \in Seq(Octets)
    BY <2>7, <2>9
  <2>12. Follows(y, data)
    BY <2>3, <2>5, <2>9, <2>10, <2>11, Zenon DEF Follows
  <2>13. QED
    BY <2>12 DEF y
<1> HIDE DEF T
<1>7. \A k \in 0..n : k \in T
  BY <1>1, <1>5, <1>6, InductUpto
<1>8. QED
  BY <1>7 DEF T

(* One window.                                                             *)
LEMMA WindowReadsBack ==
  ASSUME NEW of \in Lists, NEW start \in Entries(of), NEW observer \in Observers,
         NEW n, n = WindowSize[of][start][observer],
         NEW data, data = Window(of, start, observer)
  PROVE  /\ Len(data) = Written(of, start, observer)[n].bytes
         /\ AtEnd(ReadWindow(of, data, n).reader)
         /\ ReadWindow(of, data, n).told = AllFacts(of, start, observer)
<1> DEFINE all == Len(of)
<1>1. n \in 1..all /\ all \in Nat /\ n \in Nat
  <2>1. /\ Len(of) \in Nat /\ WindowSize[of][start][observer] \in 1..Len(of)
    BY SizeFits
  <2>2. QED
    BY <2>1
<1>2. PICK w : WindowRun(of, start, observer, data, all, w)
  BY <1>1, WindowRuns
<1>3. WindowRun(of, start, observer, data, n, w)
  <2>1. 1..n \subseteq 1..all
    BY <1>1
  <2>2. QED
    BY <1>2, <2>1 DEF WindowRun
<1>4. data = w[n].buf.data
  BY <1>1, <1>3, WriterRuns
<1>5. Goes(w[n]) /\ n \in 0..n
  <2>1. \A k \in 0..n : Goes(w[k])
    BY <1>1, <1>3, RunGoes
  <2>2. n \in 0..n
    BY <1>1
  <2>3. QED
    BY <2>1, <2>2
<1>6. data \in Seq(Octets) /\ Len(data) = w[n].size.bytes
  BY <1>4, <1>5 DEF Goes, Well
<1>7. Follows(w[n], data)
  BY <1>1, <1>3, <1>4, <1>5, <1>6, ReadInStep
<1>8. Written(of, start, observer)[n] = w[n].size
  <2>1. n \in 0..Len(of) /\ Len(of) \in Nat /\ WindowRun(of, start, observer, data, Len(of), w)
    BY <1>1, <1>2
  <2>2. Counts(of, start, observer, n, w)
    BY <2>1, WrittenRuns
  <2>3. QED
    BY <2>2 DEF Counts
<1>9. ReadWindow(of, data, n) = w[n].read /\ AllFacts(of, start, observer) = w[n].facts
  BY <1>1, <1>3, ReaderRuns, FactsRun
<1>10. InStep(w[n].buf, data, w[n].read.reader) /\ w[n].read.told = w[n].facts
  BY <1>7 DEF Follows
<1>11. AtEnd(w[n].read.reader)
  BY <1>4, <1>10 DEF InStep, AtEnd
<1>12. QED
  BY <1>6, <1>8, <1>9, <1>10, <1>11, Zenon

(* ship_power.c, bc_ship_build_health_update: for every class, budget and  *)
(* start, a client that knows the class finds each entry's conditions and  *)
(* settings in the window, no byte is left over, and the window is as long *)
(* as the count that ended it.                                             *)
THEOREM EveryWindowReadsBack == HealthSpec => []WindowsReadBack
<1>1. ASSUME NEW of \in Lists, NEW observer \in Observers, NEW start \in Entries(of)
      PROVE  LET size == WindowSize[of][start][observer]
                 data == Window(of, start, observer)
                 read == ReadWindow(of, data, size)
             IN /\ Len(data) = Written(of, start, observer)[size].bytes
                /\ AtEnd(read.reader)
                /\ read.told = AllFacts(of, start, observer)
  <2> DEFINE size == WindowSize[of][start][observer]
             data == Window(of, start, observer)
  <2>1. size = WindowSize[of][start][observer] /\ data = Window(of, start, observer)
    OBVIOUS
  <2> HIDE DEF size, data
  <2>2. /\ Len(data) = Written(of, start, observer)[size].bytes
        /\ AtEnd(ReadWindow(of, data, size).reader)
        /\ ReadWindow(of, data, size).told = AllFacts(of, start, observer)
    BY <2>1, WindowReadsBack
  <2>3. QED
    BY Zenon, <2>2 DEF size, data
<1>2. WindowsReadBack
  BY Zenon, <1>1 DEF WindowsReadBack
<1>3. QED
  BY <1>2, PTL
=============================================================================
