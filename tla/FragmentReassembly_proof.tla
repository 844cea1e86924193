---------------------- MODULE FragmentReassembly_proof ----------------------
(***************************************************************************)
(* Proofs about FragmentReassembly for every list of messages, every size  *)
(* of the buffer, any number of losses and of groups sent again, and both  *)
(* kinds of network.                                                       *)
(***************************************************************************)
EXTENDS FragmentReassembly, TLAPS

(* What the constants say of one message.                                  *)
LEMMA PiecesType ==
  /\ Messages = 1..Len(Pieces) /\ Len(Pieces) \in Nat
  /\ BufSize \in Nat \ {0}
  /\ \A m \in Messages : Pieces[m] \in 2..BufSize
  BY FragmentAssumption DEF Messages

LEMMA GroupType ==
  ASSUME NEW m \in Messages
  PROVE  /\ Group(m) \in Seq(Fragments) /\ Len(Group(m)) = Pieces[m]
         /\ \A i \in 1..Pieces[m] : Group(m)[i] = [msg |-> m, idx |-> i - 1]
<1>1. Pieces[m] \in 2..BufSize /\ BufSize \in Nat
  BY PiecesType
<1>2. \A i \in 1..Pieces[m] : [msg |-> m, idx |-> i - 1] \in Fragments
  BY <1>1 DEF Fragments
<1>3. QED
  BY <1>1, <1>2 DEF Group

LEMMA FragmentType ==
  ASSUME NEW frag \in Fragments
  PROVE  /\ frag.msg \in Messages /\ frag.idx \in 0..(BufSize - 1)
         /\ frag = [msg |-> frag.msg, idx |-> frag.idx]
  BY DEF Fragments

LEMMA Concatenation ==
  ASSUME NEW S, NEW s \in Seq(S), NEW t \in Seq(S)
  PROVE  /\ s \o t \in Seq(S) /\ Len(s \o t) = Len(s) + Len(t)
         /\ \A i \in 1..Len(s) : (s \o t)[i] = s[i]
         /\ \A i \in 1..Len(t) : (s \o t)[Len(s) + i] = t[i]
<1>1. Len(s) \in Nat /\ Len(t) \in Nat
  OBVIOUS
<1>2. s \o t \in Seq(S) /\ Len(s \o t) = Len(s) + Len(t)
  OBVIOUS
<1>3. ASSUME NEW i \in 1..Len(s)
      PROVE  (s \o t)[i] = s[i]
  BY <1>1
<1>4. ASSUME NEW i \in 1..Len(t)
      PROVE  (s \o t)[Len(s) + i] = t[i]
  <2>1. Len(s) + i \in 1..(Len(s) + Len(t)) /\ ~ (Len(s) + i <= Len(s))
    BY <1>1
  <2>2. (Len(s) + i) - Len(s) = i
    BY <1>1
  <2>3. QED
    BY <1>1, <2>1, <2>2
<1>5. QED
  BY <1>2, <1>3, <1>4

LEMMA NothingBuffered ==
  /\ <<>> \in Seq(Fragments) /\ Len(<<>>) = 0
  OBVIOUS

(* A network without one of its fragments.                                 *)
LEMMA RemoveAtType ==
  ASSUME NEW s \in Seq(Fragments), NEW i \in DOMAIN s
  PROVE  RemoveAt(s, i) \in Seq(Fragments)
<1>1. i \in 1..Len(s) /\ Len(s) \in Nat
  OBVIOUS
<1>2. SubSeq(s, 1, i - 1) \in Seq(Fragments)
  BY <1>1
<1>3. SubSeq(s, i + 1, Len(s)) \in Seq(Fragments)
  BY <1>1
<1>4. QED
  BY <1>2, <1>3 DEF RemoveAt

LEMMA RemoveFirstType ==
  ASSUME NEW s \in Seq(Fragments), s # <<>>
  PROVE  /\ Len(RemoveAt(s, 1)) = Len(s) - 1
         /\ \A i \in 1..(Len(s) - 1) : RemoveAt(s, 1)[i] = s[i + 1]
<1>1. Len(s) \in Nat \ {0}
  OBVIOUS
<1>2. SubSeq(s, 1, 0) = <<>>
  BY <1>1
<1>3. RemoveAt(s, 1) = SubSeq(s, 2, Len(s))
  BY <1>1, <1>2 DEF RemoveAt
<1>4. QED
  BY <1>1, <1>3

LEMMA InitInvariant ==
  ASSUME Init
  PROVE  IInv
<1>1. <<>> \in Seq(Fragments) /\ Len(<<>>) = 0 /\ DOMAIN <<>> = {}
  OBVIOUS
<1>2. TypeOK
  <2>1. /\ 0 \in 0..Len(Pieces) /\ 0 \in 0..(BufSize + 1) /\ 0 <= BufSize
        /\ 0 \in 0..MaxLost /\ 0 \in 0..MaxResent
    BY FragmentAssumption, PiecesType
  <2>2. /\ sent = 0 /\ network = <<>> /\ active = FALSE /\ expected = 0 /\ buf = <<>>
        /\ assembled = {} /\ lost = 0 /\ resent = 0
    BY DEF Init
  <2>3. active \in BOOLEAN /\ (active <=> buf # <<>>) /\ (active => Len(buf) < expected)
    BY <2>2
  <2>4. Len(buf) <= BufSize /\ network \in Seq(Fragments) /\ buf \in Seq(Fragments)
    BY <1>1, <2>1, <2>2
  <2>5. QED
    BY <2>1, <2>2, <2>3, <2>4 DEF TypeOK
<1>3. OnlyWholeMessages
  BY DEF Init, OnlyWholeMessages
<1>4. Streamed
  BY <1>1 DEF Init, Streamed
<1>5. QED
  BY <1>2, <1>3, <1>4 DEF IInv

(***************************************************************************)
(* A group that joins what is on its way, of a message sent by then.       *)
(***************************************************************************)
LEMMA GroupJoins ==
  ASSUME IInv, NEW m \in Messages, m \in 1..sent', sent' \in sent..Len(Pieces),
         network' = network \o Group(m),
         UNCHANGED <<active, expected, buf, assembled, lost>>,
         resent' \in 0..MaxResent
  PROVE  IInv'
<1>1. /\ network \in Seq(Fragments) /\ buf \in Seq(Fragments) /\ sent \in 0..Len(Pieces)
      /\ Len(network) \in Nat /\ Len(Pieces) \in Nat
  BY PiecesType DEF IInv, TypeOK
<1>2. Pieces[m] \in 2..BufSize /\ BufSize \in Nat
  BY PiecesType
<1>3. /\ network' \in Seq(Fragments) /\ Len(network') = Len(network) + Pieces[m]
      /\ \A i \in 1..Len(network) : network'[i] = network[i]
      /\ \A i \in 1..Pieces[m] : network'[Len(network) + i] = [msg |-> m, idx |-> i - 1]
  <2>1. /\ Group(m) \in Seq(Fragments) /\ Len(Group(m)) = Pieces[m]
        /\ \A i \in 1..Pieces[m] : Group(m)[i] = [msg |-> m, idx |-> i - 1]
    BY GroupType
  <2>2. QED
    <3>1. /\ network \o Group(m) \in Seq(Fragments)
          /\ Len(network \o Group(m)) = Len(network) + Len(Group(m))
          /\ \A i \in 1..Len(network) : (network \o Group(m))[i] = network[i]
          /\ \A i \in 1..Len(Group(m)) :
               (network \o Group(m))[Len(network) + i] = Group(m)[i]
      BY <1>1, <2>1, Concatenation
    <3>2. QED
      BY <2>1, <3>1
<1>4. TypeOK'
  BY <1>1, <1>3 DEF IInv, TypeOK
<1>5. OnlyWholeMessages'
  BY <1>1 DEF IInv, OnlyWholeMessages
<1>6. ASSUME InOrder, lost = 0
      PROVE  Streamed'
  <2>1. Streamed
    BY <1>6 DEF IInv
  <2>2. ASSUME NEW i \in DOMAIN network'
        PROVE  /\ network'[i].msg \in 1..sent' /\ network'[i].idx < Pieces[network'[i].msg]
               /\ IF i = Len(network') THEN IsLast(network'[i])
                  ELSE FollowedBy(network'[i], network'[i + 1])
    <3>1. i \in 1..(Len(network) + Pieces[m])
      BY <1>3
    <3>2. CASE i < Len(network)
      <4>1. /\ i \in DOMAIN network /\ i # Len(network) /\ i # Len(network')
            /\ network'[i] = network[i] /\ network'[i + 1] = network[i + 1]
        <5>1. i \in 1..Len(network) /\ i + 1 \in 1..Len(network)
          BY <1>1, <1>2, <3>1, <3>2
        <5>2. i # Len(network')
          BY <1>1, <1>2, <1>3, <3>2
        <5>3. QED
          BY <1>1, <1>3, <3>2, <5>1, <5>2
      <4>2. /\ network[i].msg \in 1..sent /\ network[i].idx < Pieces[network[i].msg]
            /\ FollowedBy(network[i], network[i + 1])
        BY <2>1, <4>1 DEF Streamed
      <4>3. QED
        BY <1>1, <4>1, <4>2
    <3>3. CASE i = Len(network)
      <4>1. network'[i] = network[i] /\ network'[i + 1] = [msg |-> m, idx |-> 0]
        BY <1>1, <1>2, <1>3, <3>1, <3>3
      <4>2. /\ network[i].msg \in 1..sent /\ network[i].idx < Pieces[network[i].msg]
            /\ IsLast(network[i])
        BY <1>1, <2>1, <3>1, <3>3 DEF Streamed
      <4>3. QED
        BY <1>1, <1>2, <1>3, <3>3, <4>1, <4>2 DEF FollowedBy, IsLast
    <3>4. CASE i > Len(network)
      <4>1. PICK k \in 1..Pieces[m] : i = Len(network) + k
        <5>1. i - Len(network) \in 1..Pieces[m] /\ i = Len(network) + (i - Len(network))
          BY <1>1, <1>2, <3>1, <3>4
        <5>2. QED
          BY <5>1
      <4>2. network'[i] = [msg |-> m, idx |-> k - 1]
        BY <1>3, <4>1
      <4>3. CASE k = Pieces[m]
        <5>1. i = Len(network') /\ network'[i].msg = m /\ network'[i].idx = Pieces[m] - 1
          BY <1>1, <1>2, <1>3, <4>1, <4>2, <4>3
        <5>2. QED
          BY <1>1, <1>2, <5>1 DEF IsLast
      <4>4. CASE k # Pieces[m]
        <5>1. k + 1 \in 1..Pieces[m] /\ i + 1 = Len(network) + (k + 1) /\ i # Len(network')
          BY <1>1, <1>2, <1>3, <4>1, <4>4
        <5>2. network'[i + 1] = [msg |-> m, idx |-> (k + 1) - 1]
          BY <1>3, <5>1
        <5>3. QED
          BY <1>1, <1>2, <4>1, <4>2, <4>4, <5>1, <5>2 DEF FollowedBy, IsLast
      <4>5. QED
        BY <4>3, <4>4
    <3>5. QED
      BY <1>1, <3>1, <3>2, <3>3, <3>4
  <2>3. network' # <<>>
    BY <1>1, <1>2, <1>3
  <2>4. CASE active
    <3>1. network # <<>> /\ network'[1] = network[1]
      BY <1>1, <1>3, <2>1, <2>4 DEF Streamed
    <3>2. PICK k \in 1..sent : /\ expected = Pieces[k]
                               /\ \A i \in DOMAIN buf : buf[i] = [msg |-> k, idx |-> i - 1]
      BY <2>1, <2>4 DEF Streamed
    <3>3. k \in 1..sent' /\ expected' = expected /\ buf' = buf /\ active' = active
      BY <1>1, <3>2
    <3>4. FollowedBy(buf'[Len(buf')], network'[1])
      BY <2>1, <2>4, <3>1, <3>3 DEF Streamed
    <3>5. QED
      <4>1. \E p \in 1..sent' : /\ expected' = Pieces[p]
                                 /\ \A i \in DOMAIN buf' : buf'[i] = [msg |-> p, idx |-> i - 1]
        BY <3>2, <3>3
      <4>2. QED
        <5>1. \A i \in DOMAIN network' :
                /\ network'[i].msg \in 1..sent' /\ network'[i].idx < Pieces[network'[i].msg]
                /\ IF i = Len(network') THEN IsLast(network'[i])
                   ELSE FollowedBy(network'[i], network'[i + 1])
          BY <2>2
        <5>2. active'
          BY <2>4, <3>3
        <5>3. QED
          BY <2>3, <3>4, <4>1, <5>1, <5>2, Zenon DEF Streamed
  <2>5. CASE ~ active
    <3>1. network'[1].idx = 0
      <4>1. CASE network = <<>>
        <5>1. Len(network) = 0 /\ 1 \in 1..Pieces[m]
          BY <1>2, <4>1
        <5>2. network'[Len(network) + 1] = [msg |-> m, idx |-> 1 - 1]
          BY <1>3, <5>1
        <5>3. Len(network) + 1 = 1 /\ 1 - 1 = 0
          BY <5>1
        <5>4. network'[1] = [msg |-> m, idx |-> 0]
          BY <5>2, <5>3
        <5>5. QED
          BY <5>4
      <4>2. CASE network # <<>>
        BY <1>1, <1>3, <2>1, <2>5, <4>2 DEF Streamed
      <4>3. QED
        BY <4>1, <4>2
    <3>2. QED
      BY <2>2, <2>5, <3>1 DEF Streamed
  <2>6. QED
    BY <2>4, <2>5
<1>7. QED
  BY <1>4, <1>5, <1>6 DEF IInv

LEMMA LoseInvariant ==
  ASSUME IInv, Lose
  PROVE  IInv'
<1>1. PICK i \in DOMAIN network : network' = RemoveAt(network, i)
  BY DEF Lose
<1>2. network' \in Seq(Fragments) /\ lost' \in 1..MaxLost /\ MaxLost \in Nat
  BY <1>1, RemoveAtType, FragmentAssumption DEF Lose, IInv, TypeOK
<1>3. TypeOK'
  BY <1>2 DEF Lose, IInv, TypeOK
<1>4. QED
  BY <1>2, <1>3 DEF IInv, OnlyWholeMessages

----------------------------------------------------------------------------
(* Receiving, on any network                                               *)

(* What TypeOK says of the buffer and of what was put together in it.      *)
BufferTypes ==
  /\ active \in BOOLEAN /\ expected \in 0..(BufSize + 1)
  /\ buf \in Seq(Fragments) /\ Len(buf) <= BufSize
  /\ active <=> buf # <<>>
  /\ active => Len(buf) < expected
  /\ \A pieces \in assembled : pieces \in Seq(Fragments) /\ Len(pieces) \in 2..BufSize

LEMMA ResetTypes ==
  ASSUME ResetBuffer,
         \A pieces \in assembled' : pieces \in Seq(Fragments) /\ Len(pieces) \in 2..BufSize
  PROVE  BufferTypes'
<1>1. BufSize \in Nat
  BY PiecesType
<1>2. active' = FALSE /\ expected' = 0 /\ buf' = <<>>
  BY DEF ResetBuffer
<1>3. buf' \in Seq(Fragments) /\ Len(buf') <= BufSize
  BY <1>1, <1>2, NothingBuffered
<1>4. active' \in BOOLEAN /\ (active' <=> buf' # <<>>) /\ (active' => Len(buf') < expected')
  BY <1>2
<1>5. expected' \in 0..(BufSize + 1)
  BY <1>1, <1>2
<1>6. QED
  BY <1>3, <1>4, <1>5 DEF BufferTypes

LEMMA GatheredTypes ==
  ASSUME TypeOK, NEW pieces \in Seq(Fragments), NEW total \in 0..(BufSize + 1),
         Len(pieces) \in 1..BufSize, Complete(pieces, total) => Len(pieces) >= 2,
         Gathered(pieces, total)
  PROVE  BufferTypes'
<1>1. BufSize \in Nat
  BY PiecesType
<1>2. CASE Complete(pieces, total)
  <2>1. ResetBuffer /\ assembled' = assembled \cup {pieces}
    BY <1>2 DEF Gathered
  <2>2. Len(pieces) \in 2..BufSize
    BY <1>1, <1>2
  <2>3. QED
    BY <2>1, <2>2, ResetTypes DEF TypeOK
<1>3. CASE ~ Complete(pieces, total)
  <2>1. active' = TRUE /\ expected' = total /\ buf' = pieces /\ assembled' = assembled
    BY <1>3 DEF Gathered
  <2>2. pieces # <<>>
    BY NothingBuffered
  <2>3. Len(pieces) < total
    BY <1>1, <1>3 DEF Complete
  <2>4. active' \in BOOLEAN /\ (active' <=> buf' # <<>>) /\ (active' => Len(buf') < expected')
    BY <2>1, <2>2, <2>3
  <2>5. Len(buf') <= BufSize /\ expected' \in 0..(BufSize + 1) /\ buf' \in Seq(Fragments)
    BY <1>1, <2>1
  <2>6. QED
    BY <2>1, <2>4, <2>5 DEF BufferTypes, TypeOK
<1>4. QED
  BY <1>2, <1>3

LEMMA ReceiveTypes ==
  ASSUME TypeOK, Receive
  PROVE  TypeOK'
<1>1. PICK i \in DOMAIN network :
        /\ FirstFragment(network[i]) \/ NextFragment(network[i])
        /\ network' = RemoveAt(network, i)
  BY DEF Receive
<1> DEFINE frag == network[i]
<1>2. frag \in Fragments /\ network' \in Seq(Fragments)
  BY <1>1, RemoveAtType DEF TypeOK
<1>3. BufSize \in Nat \ {0} /\ Len(Pieces) \in Nat
  BY PiecesType
<1>4. BufferTypes'
  <2>1. CASE ResetBuffer /\ UNCHANGED assembled
    BY <2>1, ResetTypes DEF TypeOK
  <2>2. CASE FirstFragment(frag)
    <3>1. PICK total \in TotalRead(frag) :
            IF total < 2 THEN ResetBuffer /\ UNCHANGED assembled
            ELSE Gathered(<<frag>>, total)
      BY <2>2 DEF FirstFragment
    <3>2. total \in 0..(BufSize + 1)
      BY <1>2, <1>3, PiecesType, FragmentType DEF TotalRead
    <3>3. <<frag>> \in Seq(Fragments) /\ Len(<<frag>>) = 1
      BY <1>2
    <3>4. Complete(<<frag>>, total) => total < 2
      BY <3>2, <3>3, <1>3 DEF Complete
    <3>5. CASE total < 2
      BY <2>1, <3>1, <3>5
    <3>6. CASE ~ (total < 2)
      <4>1. Gathered(<<frag>>, total) /\ Len(<<frag>>) \in 1..BufSize
        BY <1>3, <3>1, <3>3, <3>6
      <4>2. QED
        BY <3>2, <3>3, <3>4, <3>6, <4>1, GatheredTypes
    <3>7. QED
      BY <3>5, <3>6
  <2>3. CASE NextFragment(frag)
    <3>1. /\ active /\ Len(buf) \in 1..BufSize /\ expected \in 0..(BufSize + 1)
          /\ Append(buf, frag) \in Seq(Fragments) /\ Len(Append(buf, frag)) = Len(buf) + 1
      BY <1>2, <1>3, <2>3 DEF NextFragment, TypeOK
    <3>2. CASE Len(buf) = BufSize
      BY <2>1, <2>3, <3>2 DEF NextFragment
    <3>3. CASE Len(buf) # BufSize
      <4>1. Gathered(Append(buf, frag), expected) /\ Len(Append(buf, frag)) \in 2..BufSize
        BY <1>3, <2>3, <3>1, <3>3 DEF NextFragment
      <4>2. Len(Append(buf, frag)) \in 1..BufSize /\ Len(Append(buf, frag)) >= 2
        BY <1>3, <4>1
      <4>3. QED
        BY <3>1, <4>1, <4>2, GatheredTypes
    <3>4. QED
      BY <3>2, <3>3
  <2>4. QED
    BY <1>1, <2>2, <2>3
<1>5. QED
  BY <1>2, <1>4 DEF Receive, TypeOK, BufferTypes

----------------------------------------------------------------------------
(* Receiving, while the stream is whole                                    *)

(* What is left of the stream when its first fragment is taken off.        *)
LEMMA StreamAdvances ==
  ASSUME TypeOK, Streamed, network # <<>>, network' = RemoveAt(network, 1), sent' = sent
  PROVE  /\ \A i \in DOMAIN network' :
              /\ network'[i].msg \in 1..sent' /\ network'[i].idx < Pieces[network'[i].msg]
              /\ IF i = Len(network') THEN IsLast(network'[i])
                 ELSE FollowedBy(network'[i], network'[i + 1])
         /\ IF network' = <<>> THEN IsLast(network[1])
            ELSE FollowedBy(network[1], network'[1])
<1>1. network \in Seq(Fragments) /\ Len(network) \in Nat \ {0}
  BY DEF TypeOK
<1>2. /\ network' \in Seq(Fragments) /\ Len(network') = Len(network) - 1
      /\ \A i \in 1..(Len(network) - 1) : network'[i] = network[i + 1]
  BY <1>1, RemoveAtType, RemoveFirstType
<1>3. ASSUME NEW i \in DOMAIN network'
      PROVE  /\ network'[i].msg \in 1..sent' /\ network'[i].idx < Pieces[network'[i].msg]
             /\ IF i = Len(network') THEN IsLast(network'[i])
                ELSE FollowedBy(network'[i], network'[i + 1])
  <2>1. i \in 1..(Len(network) - 1) /\ i + 1 \in DOMAIN network
    BY <1>1, <1>2
  <2>2. /\ network[i + 1].msg \in 1..sent /\ network[i + 1].idx < Pieces[network[i + 1].msg]
        /\ IF i + 1 = Len(network) THEN IsLast(network[i + 1])
           ELSE FollowedBy(network[i + 1], network[(i + 1) + 1])
    BY <2>1 DEF Streamed
  <2>3. QED
    BY <1>1, <1>2, <2>1, <2>2
<1>4. IF network' = <<>> THEN IsLast(network[1]) ELSE FollowedBy(network[1], network'[1])
  <2>1. 1 \in DOMAIN network /\ (network' = <<>> <=> Len(network) = 1)
    BY <1>1, <1>2
  <2>2. IF 1 = Len(network) THEN IsLast(network[1]) ELSE FollowedBy(network[1], network[1 + 1])
    BY <2>1 DEF Streamed
  <2>3. QED
    BY <1>1, <1>2, <2>1, <2>2
<1>5. QED
  BY <1>3, <1>4

(* The buffer holds pieces of one message from its first on, the last of   *)
(* them the head of the network until now.                                 *)
LEMMA GatheredFromStream ==
  ASSUME TypeOK, OnlyWholeMessages, Streamed, InOrder, lost = 0,
         network # <<>>, network' = RemoveAt(network, 1),
         UNCHANGED <<sent, lost, resent>>,
         NEW m \in 1..sent, NEW pieces \in Seq(Fragments), Len(pieces) \in 1..Pieces[m],
         \A i \in DOMAIN pieces : pieces[i] = [msg |-> m, idx |-> i - 1],
         pieces[Len(pieces)] = network[1],
         Gathered(pieces, Pieces[m])
  PROVE  OnlyWholeMessages' /\ Streamed'
<1>1. m \in Messages /\ Pieces[m] \in 2..BufSize /\ sent \in Nat
  BY PiecesType DEF TypeOK
<1>2. network[1] = [msg |-> m, idx |-> Len(pieces) - 1]
  BY <1>1
<1>3. CASE Complete(pieces, Pieces[m])
  <2>1. Len(pieces) = Pieces[m]
    BY <1>1, <1>3 DEF Complete
  <2>2. pieces = Group(m)
    BY <1>1, <2>1, GroupType
  <2>3. OnlyWholeMessages'
    BY <1>3, <2>2 DEF Gathered, OnlyWholeMessages
  <2>4. IsLast(network[1])
    BY <1>1, <1>2, <2>1 DEF IsLast
  <2>5. network' # <<>> => network'[1].idx = 0
    BY <2>4, StreamAdvances DEF FollowedBy
  <2>6. ~ active'
    BY <1>3 DEF Gathered, ResetBuffer
  <2>7. QED
    BY <2>3, <2>5, <2>6, StreamAdvances DEF Streamed
<1>4. CASE ~ Complete(pieces, Pieces[m])
  <2>1. active' = TRUE /\ expected' = Pieces[m] /\ buf' = pieces /\ assembled' = assembled
    BY <1>4 DEF Gathered
  <2>2. ~ IsLast(network[1])
    BY <1>1, <1>2, <1>4 DEF IsLast, Complete
  <2>3. network' # <<>> /\ FollowedBy(network[1], network'[1])
    BY <2>2, StreamAdvances
  <2>4. Streamed'
    BY <2>1, <2>3, StreamAdvances DEF Streamed
  <2>5. QED
    BY <2>1, <2>4 DEF OnlyWholeMessages
<1>5. QED
  BY <1>3, <1>4

LEMMA ReceiveInvariant ==
  ASSUME IInv, Receive
  PROVE  IInv'
<1>1. TypeOK'
  BY ReceiveTypes DEF IInv
<1>2. ASSUME InOrder, lost = 0
      PROVE  OnlyWholeMessages' /\ Streamed'
  <2>1. TypeOK /\ OnlyWholeMessages /\ Streamed
    BY <1>2 DEF IInv
  <2>2. /\ network # <<>> /\ network' = RemoveAt(network, 1)
        /\ FirstFragment(network[1]) \/ NextFragment(network[1])
        /\ UNCHANGED <<sent, lost, resent>>
    BY <1>2 DEF Receive
  <2>3. /\ 1 \in DOMAIN network /\ network[1] \in Fragments
        /\ network[1].msg \in 1..sent /\ network[1].idx < Pieces[network[1].msg]
        /\ BufSize \in Nat \ {0} /\ sent \in 0..Len(Pieces)
    BY <2>1, <2>2, PiecesType DEF TypeOK, Streamed
  <2>4. CASE FirstFragment(network[1])
    <3> DEFINE m == network[1].msg
    <3>1. network[1] = [msg |-> m, idx |-> 0]
      BY <2>1, <2>2, <2>3, <2>4, FragmentType DEF FirstFragment, Streamed
    <3>2. Pieces[m] \in 2..BufSize
      BY <2>3, PiecesType
    <3>3. Gathered(<<network[1]>>, Pieces[m])
      BY <2>3, <2>4, <3>1, <3>2 DEF FirstFragment, TotalRead
    <3>4. /\ <<network[1]>> \in Seq(Fragments) /\ Len(<<network[1]>>) = 1
          /\ \A i \in DOMAIN <<network[1]>> : <<network[1]>>[i] = [msg |-> m, idx |-> i - 1]
      BY <2>3, <3>1
    <3>5. /\ Len(<<network[1]>>) \in 1..Pieces[m]
          /\ <<network[1]>>[Len(<<network[1]>>)] = network[1]
      BY <3>2, <3>4
    <3>6. QED
      BY <1>2, <2>1, <2>2, <2>3, <3>3, <3>4, <3>5, GatheredFromStream
  <2>5. CASE NextFragment(network[1])
    <3>1. /\ active /\ Len(buf) \in 1..BufSize /\ buf \in Seq(Fragments)
          /\ Len(buf) < expected
      BY <2>1, <2>3, <2>5 DEF NextFragment, TypeOK
    <3>2. PICK m \in 1..sent : /\ expected = Pieces[m]
                               /\ \A i \in DOMAIN buf : buf[i] = [msg |-> m, idx |-> i - 1]
      BY <2>1, <3>1 DEF Streamed
    <3>3. Pieces[m] \in 2..BufSize
      BY <2>3, <3>2, PiecesType
    <3>4. buf[Len(buf)] = [msg |-> m, idx |-> Len(buf) - 1]
      BY <3>1, <3>2
    <3>5. network[1] = [msg |-> m, idx |-> Len(buf)]
      BY <2>1, <3>1, <3>2, <3>3, <3>4 DEF Streamed, FollowedBy, IsLast
    <3> DEFINE pieces == Append(buf, network[1])
    <3>6. /\ pieces \in Seq(Fragments) /\ Len(pieces) = Len(buf) + 1
          /\ pieces[Len(pieces)] = network[1]
          /\ \A i \in DOMAIN pieces : pieces[i] = [msg |-> m, idx |-> i - 1]
      BY <2>3, <3>1, <3>2, <3>5
    <3>7. Gathered(pieces, Pieces[m]) /\ Len(pieces) \in 1..Pieces[m]
      BY <2>5, <3>1, <3>2, <3>3, <3>6 DEF NextFragment
    <3>8. QED
      BY <1>2, <2>1, <2>2, <3>2, <3>6, <3>7, GatheredFromStream
  <2>6. QED
    BY <2>2, <2>4, <2>5
<1>3. lost' = lost
  BY DEF Receive
<1>4. QED
  BY <1>1, <1>2, <1>3 DEF IInv, OnlyWholeMessages

LEMMA InductiveInvariant == Spec => []IInv
<1>1. IInv /\ [Next]_vars => IInv'
  <2> SUFFICES ASSUME IInv, [Next]_vars PROVE IInv'
    OBVIOUS
  <2>1. CASE Send
    <3>1. sent + 1 \in Messages /\ sent \in Nat /\ Len(Pieces) \in Nat
      BY <2>1, PiecesType DEF Send, IInv, TypeOK
    <3>2. sent + 1 \in 1..sent' /\ sent' \in sent..Len(Pieces) /\ resent' \in 0..MaxResent
      BY <2>1, <3>1 DEF Send, IInv, TypeOK
    <3>3. QED
      BY <2>1, <3>1, <3>2, GroupJoins DEF Send
  <2>2. CASE Resend
    <3>1. PICK m \in 1..sent : network' = network \o Group(m)
      BY <2>2 DEF Resend
    <3>2. /\ m \in Messages /\ m \in 1..sent' /\ sent' \in sent..Len(Pieces)
          /\ resent' \in 0..MaxResent
      BY <2>2, <3>1, PiecesType, FragmentAssumption DEF Resend, IInv, TypeOK
    <3>3. QED
      BY <2>2, <3>1, <3>2, GroupJoins DEF Resend
  <2>3. CASE Lose
    BY <2>3, LoseInvariant
  <2>4. CASE Receive
    BY <2>4, ReceiveInvariant
  <2>5. CASE UNCHANGED vars
    BY <2>5 DEF vars, IInv, TypeOK, OnlyWholeMessages, Streamed
  <2>6. QED
    BY <2>1, <2>2, <2>3, <2>4, <2>5 DEF Next
<1>2. QED
  BY <1>1, InitInvariant, PTL DEF Spec

(* Whatever the network does, bc_fragment_receive keeps its buffer, and    *)
(* what it puts together, within the size of the buffer.                   *)
THEOREM BufferBounded == Spec => []TypeOK
<1>1. IInv => TypeOK
  BY DEF IInv
<1>2. QED
  BY <1>1, InductiveInvariant, PTL

(* While no fragment is lost or passes another, what bc_fragment_receive   *)
(* puts together is a message the client sent, whole and in order, however *)
(* often and wherever groups are sent again.                               *)
THEOREM WholeMessages == Spec => []OnlyWholeMessages
<1>1. IInv => OnlyWholeMessages
  BY DEF IInv
<1>2. QED
  BY <1>1, InductiveInvariant, PTL
=============================================================================
