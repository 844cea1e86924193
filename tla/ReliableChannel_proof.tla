----------------------- MODULE ReliableChannel_proof -----------------------
(***************************************************************************)
(* Proofs about ReliableChannel for every queue size, retry limit, byte    *)
(* width, outbox capacity and number of messages.                          *)
(***************************************************************************)
EXTENDS ReliableChannel, FiniteSetTheorems, TLAPS

(* A number below the modulus is its own wire byte.                        *)
LEMMA FitsByte ==
  ASSUME NEW n \in Nat, n < ByteMod
  PROVE  WireByte(n) = n
  BY ConstantsAssumption DEF WireByte

(* The set of messages of a behaviour is finite, and so is any part of it. *)
LEMMA PartsAreFinite ==
  ASSUME NEW S, S \subseteq Seqs
  PROVE  IsFiniteSet(S) /\ Cardinality(S) \in Nat
<1>1. 0 \in Int /\ MaxSeq - 1 \in Int
  BY ConstantsAssumption
<1>2. IsFiniteSet(Seqs)
  BY <1>1, FS_Interval DEF Seqs
<1>3. QED
  BY <1>2, FS_Subset, FS_CardinalityType

(* Flushing part of the messages keeps the wire within the numbered ones.  *)
LEMMA OutboxElements ==
  ASSUME NEW S, NEW s \in Seq(S)
  PROVE  ToSet(s) \subseteq S
  BY DEF ToSet

(* Appending adds exactly one message to an outbox.                        *)
LEMMA AppendElements ==
  ASSUME NEW S, NEW s \in Seq(S), NEW e \in S
  PROVE  /\ Append(s, e) \in Seq(S)
         /\ Len(Append(s, e)) = Len(s) + 1
         /\ ToSet(Append(s, e)) = ToSet(s) \cup {e}
<1>1. /\ Append(s, e) \in Seq(S)
      /\ Len(Append(s, e)) = Len(s) + 1
  OBVIOUS
<1>2. ToSet(Append(s, e)) \subseteq ToSet(s) \cup {e}
  BY DEF ToSet
<1>3. ToSet(s) \subseteq ToSet(Append(s, e))
  <2>1. SUFFICES ASSUME NEW i \in DOMAIN s
                 PROVE  s[i] \in ToSet(Append(s, e))
    BY DEF ToSet
  <2>2. i \in DOMAIN Append(s, e) /\ Append(s, e)[i] = s[i]
    OBVIOUS
  <2>3. QED
    BY <2>2 DEF ToSet
<1>4. e \in ToSet(Append(s, e))
  <2>1. Len(s) + 1 \in DOMAIN Append(s, e) /\ Append(s, e)[Len(s) + 1] = e
    OBVIOUS
  <2>2. QED
    BY <2>1 DEF ToSet
<1>5. QED
  BY <1>1, <1>2, <1>3, <1>4

(* The empty outbox, and an outbox of one message.                         *)
LEMMA EmptyOutbox == <<>> \in Seq(Seqs) /\ Len(<<>>) = 0 /\ ToSet(<<>>) = {}
  BY DEF ToSet

LEMMA SingletonOutbox ==
  ASSUME NEW n \in Seqs
  PROVE  /\ Append(<<>>, n) \in Seq(Seqs)
         /\ Len(Append(<<>>, n)) = 1
         /\ ToSet(Append(<<>>, n)) = {n}
<1>1. Append(<<>>, n) = <<n>>
  OBVIOUS
<1>2. <<n>> \in Seq(Seqs) /\ Len(<<n>>) = 1
  OBVIOUS
<1>3. ToSet(<<n>>) = {n}
  BY DEF ToSet
<1>4. QED
  BY <1>1, <1>2, <1>3

----------------------------------------------------------------------------
(* Numbering a message and giving it a retransmit entry keeps the queue    *)
(* well formed; the new domain is the old one, or the old one and seqOut.  *)
LEMMA TrackEffect ==
  ASSUME TypeOK, NEW size \in SizeClasses, seqOut < MaxSeq, Track(seqOut, size)
  PROVE  /\ \/ DOMAIN queue' = DOMAIN queue /\ tracked' = tracked
            \/ /\ DOMAIN queue' = DOMAIN queue \cup {seqOut}
               /\ tracked' = tracked \cup {seqOut}
         /\ DOMAIN queue' \subseteq Seqs /\ tracked' \subseteq Seqs
         /\ Cardinality(DOMAIN queue') <= QueueSize
         /\ \A n \in DOMAIN queue' : queue'[n] \in Entry
<1>. USE ConstantsAssumption
<1>1. seqOut \in Seqs
  BY DEF TypeOK, Seqs
<1>2. CASE CanTrack(size)
  <2>1. /\ queue' = [m \in DOMAIN queue \cup {seqOut} |->
                       IF m = seqOut THEN NewEntry ELSE queue[m]]
        /\ tracked' = tracked \cup {seqOut}
    BY <1>2 DEF Track
  <2>2. DOMAIN queue' = DOMAIN queue \cup {seqOut}
    BY <2>1
  <2>3. Cardinality(DOMAIN queue') <= QueueSize
    <3>1. IsFiniteSet(DOMAIN queue) /\ Cardinality(DOMAIN queue) \in Nat
      BY PartsAreFinite DEF TypeOK
    <3>2. Cardinality(DOMAIN queue) < QueueSize
      BY <1>2 DEF CanTrack
    <3>3. Cardinality(DOMAIN queue \cup {seqOut}) =
            IF seqOut \in DOMAIN queue THEN Cardinality(DOMAIN queue)
            ELSE Cardinality(DOMAIN queue) + 1
      BY <3>1, FS_AddElement
    <3>4. QED
      BY <2>2, <3>1, <3>2, <3>3, PartsAreFinite, <1>1 DEF TypeOK
  <2>4. NewEntry \in Entry
    BY DEF NewEntry, Entry, MustBeOverdue
  <2>5. \A n \in DOMAIN queue' : queue'[n] \in Entry
    BY <2>1, <2>4 DEF TypeOK
  <2>6. QED
    BY <1>1, <2>1, <2>2, <2>3, <2>5 DEF TypeOK
<1>3. CASE ~ CanTrack(size)
  BY <1>3 DEF Track, TypeOK
<1>4. QED
  BY <1>2, <1>3

(* Queueing keeps the outbox within its capacity, and what it held is      *)
(* still there or on the wire.                                             *)
LEMMA EnqueueEffect ==
  ASSUME TypeOK, NEW size \in SizeClasses, seqOut < MaxSeq, Enqueue(seqOut, size)
  PROVE  /\ outbox' \in Seq(Seqs) /\ Len(outbox') <= OutboxCap
         /\ toClient \subseteq toClient' /\ toClient' \subseteq Seqs
         /\ toClient' \subseteq toClient \cup ToSet(outbox)
         /\ ToSet(outbox) \subseteq ToSet(outbox') \cup toClient'
         /\ framed' \subseteq framed \cup {seqOut}
         /\ seqOut \in framed' \ framed => seqOut \in ToSet(outbox')
         /\ framed \subseteq framed'
         /\ ToSet(outbox') \subseteq ToSet(outbox) \cup (framed' \cap {seqOut})
<1>. USE ConstantsAssumption, EmptyOutbox
<1>1. seqOut \in Seqs
  BY DEF TypeOK, Seqs
<1>2. ToSet(outbox) \subseteq Seqs
  BY OutboxElements DEF TypeOK
<1>. DEFINE fits == size = "framed" /\ Len(outbox) < OutboxCap
<1>3. CASE fits
  <2>1. /\ outbox' = Append(outbox, seqOut) /\ toClient' = toClient
        /\ framed' = framed \cup {seqOut}
    BY <1>3 DEF Enqueue
  <2>2. QED
    BY <1>1, <1>2, <1>3, <2>1, AppendElements DEF TypeOK
<1>4. CASE ~ fits /\ size = "framed"
  <2>1. /\ outbox' = Append(<<>>, seqOut)
        /\ toClient' = toClient \cup ToSet(outbox)
        /\ framed' = framed \cup {seqOut}
    BY <1>4 DEF Enqueue
  <2>2. /\ Append(<<>>, seqOut) \in Seq(Seqs)
        /\ Len(Append(<<>>, seqOut)) = 1
        /\ ToSet(Append(<<>>, seqOut)) = {seqOut}
    BY <1>1, SingletonOutbox
  <2>3. outbox' \in Seq(Seqs) /\ Len(outbox') <= OutboxCap
    BY <2>1, <2>2
  <2>4. ToSet(outbox') = {seqOut}
    BY <2>1, <2>2
  <2>5. QED
    BY <1>1, <1>2, <2>1, <2>3, <2>4 DEF TypeOK
<1>5. CASE size # "framed"
  <2>1. /\ outbox' = <<>> /\ toClient' = toClient \cup ToSet(outbox)
        /\ framed' = framed
    BY <1>5 DEF Enqueue
  <2>2. QED
    BY <1>2, <2>1 DEF TypeOK
<1>6. QED
  BY <1>3, <1>4, <1>5

----------------------------------------------------------------------------
(* Type correctness, for every value of the constants.                     *)
LEMMA TypeInit == Init => TypeOK
<1>1. Init => Cardinality(DOMAIN queue) <= QueueSize
  BY ConstantsAssumption, FS_EmptySet DEF Init
<1>2. QED
  BY <1>1, ConstantsAssumption, EmptyOutbox DEF Init, TypeOK

LEMMA DropPeerType ==
  ASSUME TypeOK, DropPeer, UNCHANGED toClient
  PROVE  TypeOK'
<1>1. DOMAIN queue' = {} /\ Cardinality(DOMAIN queue') = 0
  BY FS_EmptySet DEF DropPeer
<1>2. /\ Cardinality(DOMAIN queue') <= QueueSize
      /\ DOMAIN queue' \subseteq Seqs
      /\ \A n \in DOMAIN queue' : queue'[n] \in Entry
      /\ seqOut' \in 0..MaxSeq
  BY <1>1, ConstantsAssumption DEF DropPeer
<1>3. outbox' \in Seq(Seqs) /\ Len(outbox') <= OutboxCap
  BY ConstantsAssumption, EmptyOutbox DEF DropPeer
<1>4. QED
  BY <1>2, <1>3 DEF DropPeer, TypeOK

LEMMA HousekeepingEffect ==
  ASSUME TypeOK, ~ TimedOut,
         NEW overdue \in SUBSET DOMAIN queue,
         {n \in DOMAIN queue : queue[n].age >= MustBeOverdue} \subseteq overdue,
         Retransmit(overdue)
  PROVE  /\ DOMAIN queue' = DOMAIN queue
         /\ \A n \in DOMAIN queue' : queue'[n] \in Entry
<1>. USE ConstantsAssumption
<1>1. DOMAIN queue' = DOMAIN queue
  BY DEF Retransmit
<1>2. ASSUME NEW n \in DOMAIN queue
      PROVE  queue'[n] \in Entry
  <2>1. queue[n] \in [retries : 0..MaxRetries, age : 0..2] /\ ~ (queue[n].retries >= MaxRetries)
    BY DEF TypeOK, Entry, MustBeOverdue, TimedOut
  <2>2. CASE n \in overdue
    <3>1. queue'[n] = [retries |-> queue[n].retries + 1, age |-> 0]
      BY <2>2 DEF Retransmit
    <3>2. QED
      BY <2>1, <3>1 DEF Entry, MustBeOverdue
  <2>3. CASE n \notin overdue
    <3>1. queue'[n] = [queue[n] EXCEPT !.age = @ + 1]
      BY <2>3 DEF Retransmit
    <3>2. ~ (queue[n].age >= 2)
      BY <2>3 DEF MustBeOverdue
    <3>3. QED
      BY <2>1, <3>1, <3>2 DEF Entry, MustBeOverdue
  <2>4. QED
    BY <2>2, <2>3
<1>3. QED
  BY <1>1, <1>2

LEMMA TypeStep == TypeOK /\ [Next]_vars => TypeOK'
<1>. SUFFICES ASSUME TypeOK, [Next]_vars PROVE TypeOK'
  OBVIOUS
<1>. USE ConstantsAssumption
<1>o. ToSet(outbox) \subseteq Seqs
  BY OutboxElements DEF TypeOK
<1>1. ASSUME NEW size \in Sizes, QueueReliable(size) PROVE TypeOK'
  <2>1. /\ size \in SizeClasses /\ seqOut < MaxSeq
        /\ Track(seqOut, size) /\ Enqueue(seqOut, size)
        /\ seqOut' = seqOut + 1
        /\ UNCHANGED <<connected, received, ackSeen>>
    BY <1>1 DEF QueueReliable
  <2>2. seqOut \in Seqs /\ seqOut' \in 0..MaxSeq
    BY <2>1 DEF TypeOK, Seqs
  <2>3. /\ DOMAIN queue' \subseteq Seqs /\ tracked' \subseteq Seqs
        /\ Cardinality(DOMAIN queue') <= QueueSize
        /\ \A n \in DOMAIN queue' : queue'[n] \in Entry
    BY <2>1, TrackEffect
  <2>4. /\ outbox' \in Seq(Seqs) /\ Len(outbox') <= OutboxCap
        /\ toClient' \subseteq Seqs /\ framed' \subseteq framed \cup {seqOut}
    BY <2>1, EnqueueEffect
  <2>5. QED
    BY <2>1, <2>2, <2>3, <2>4 DEF TypeOK
<1>2. CASE FlushTick
  BY <1>2, <1>o, EmptyOutbox DEF FlushTick, TypeOK
<1>3. ASSUME NEW n \in toClient, ClientReceive(n) PROVE TypeOK'
  BY <1>3 DEF ClientReceive, TypeOK
<1>4. ASSUME NEW n \in received, ServerAck(n) PROVE TypeOK'
  <2>1. DOMAIN queue' \subseteq DOMAIN queue /\ \A m \in DOMAIN queue' : queue'[m] = queue[m]
    BY <1>4 DEF ServerAck
  <2>2. IsFiniteSet(DOMAIN queue) /\ Cardinality(DOMAIN queue) \in Nat
    BY PartsAreFinite DEF TypeOK
  <2>3. Cardinality(DOMAIN queue') <= Cardinality(DOMAIN queue)
    BY <2>1, <2>2, FS_Subset
  <2>4. Cardinality(DOMAIN queue') \in Nat
    BY <2>1, PartsAreFinite DEF TypeOK
  <2>5. Cardinality(DOMAIN queue') <= QueueSize
    BY <2>2, <2>3, <2>4 DEF TypeOK
  <2>6. QED
    BY <1>4, <2>1, <2>5 DEF ServerAck, TypeOK
<1>5. CASE HousekeepingTick
  <2>1. CASE TimedOut /\ DropPeer /\ UNCHANGED toClient
    BY <2>1, DropPeerType
  <2>2. ASSUME ~ TimedOut,
               NEW overdue \in SUBSET {n \in DOMAIN queue : queue[n].age >= MayBeOverdue},
               {n \in DOMAIN queue : queue[n].age >= MustBeOverdue} \subseteq overdue,
               Retransmit(overdue),
               toClient' = toClient \cup (overdue \cap framed) \cup ToSet(outbox),
               outbox' = <<>>,
               UNCHANGED <<connected, seqOut, received, tracked, framed, ackSeen>>
        PROVE  TypeOK'
    <3>1. overdue \in SUBSET DOMAIN queue
      OBVIOUS
    <3>2. /\ DOMAIN queue' = DOMAIN queue
          /\ \A n \in DOMAIN queue' : queue'[n] \in Entry
      BY <2>2, <3>1, HousekeepingEffect
    <3>3. QED
      BY <2>2, <3>2, <1>o, EmptyOutbox DEF TypeOK
  <2>3. QED
    BY <1>5, <2>1, <2>2 DEF HousekeepingTick
<1>6. CASE PeerGone
  BY <1>6, DropPeerType DEF PeerGone
<1>7. CASE UNCHANGED vars
  BY <1>7 DEF vars, TypeOK
<1>8. QED
  BY <1>1, <1>2, <1>3, <1>4, <1>5, <1>6, <1>7 DEF Next

THEOREM TypeCorrect == Spec => []TypeOK
<1>1. QED
  BY TypeInit, TypeStep, PTL DEF Spec

----------------------------------------------------------------------------
(* The counters and histories stay in step: lemmas for the safety theorem. *)
LEMMA IInvInit == Init => IInv
<1>. SUFFICES ASSUME Init PROVE IInv
  OBVIOUS
<1>1. TypeOK
  BY TypeInit
<1>2. Numbered
  BY EmptyOutbox DEF Init, Numbered
<1>3. ReleasedOnlyIfReceived /\ AckedIsReleased /\ FramedIsQueuedOrSent
  BY DEF Init, ReleasedOnlyIfReceived, AckedIsReleased, FramedIsQueuedOrSent
<1>4. QED
  BY <1>1, <1>2, <1>3 DEF IInv

(* A removed peer's channel promises nothing more.                         *)
LEMMA IInvDrop ==
  ASSUME IInv, DropPeer, UNCHANGED toClient
  PROVE  IInv'
<1>1. TypeOK'
  BY DropPeerType DEF IInv
<1>2. connected' = FALSE
  BY DEF DropPeer
<1>3. Numbered'
  BY <1>2, EmptyOutbox DEF IInv, Numbered, DropPeer
<1>4. QED
  BY <1>1, <1>2, <1>3
     DEF IInv, ReleasedOnlyIfReceived, AckedIsReleased, FramedIsQueuedOrSent

(* The next message has a number of its own, so it is neither received nor *)
(* acknowledged, and it is tracked only with an entry.                     *)
LEMMA IInvQueue ==
  ASSUME IInv, NEW size \in Sizes, QueueReliable(size)
  PROVE  IInv'
<1>. USE ConstantsAssumption
<1>1. TypeOK'
  BY TypeStep DEF IInv, Next
<1>2. /\ size \in SizeClasses /\ seqOut < MaxSeq
      /\ Track(seqOut, size) /\ Enqueue(seqOut, size)
      /\ connected /\ connected' /\ seqOut' = seqOut + 1
      /\ UNCHANGED <<received, ackSeen>>
  BY DEF QueueReliable
<1>3. seqOut \in Nat
  BY DEF IInv, TypeOK
<1>4. /\ \/ DOMAIN queue' = DOMAIN queue /\ tracked' = tracked
         \/ /\ DOMAIN queue' = DOMAIN queue \cup {seqOut}
            /\ tracked' = tracked \cup {seqOut}
  BY <1>2, TrackEffect DEF IInv
<1>5. /\ toClient \subseteq toClient'
      /\ toClient' \subseteq toClient \cup ToSet(outbox)
      /\ ToSet(outbox) \subseteq ToSet(outbox') \cup toClient'
      /\ framed' \subseteq framed \cup {seqOut}
      /\ seqOut \in framed' \ framed => seqOut \in ToSet(outbox')
      /\ framed \subseteq framed'
      /\ ToSet(outbox') \subseteq ToSet(outbox) \cup (framed' \cap {seqOut})
  BY <1>2, EnqueueEffect DEF IInv
<1>6. 0..seqOut = 0..(seqOut - 1) \cup {seqOut} /\ seqOut' - 1 = seqOut
  BY <1>2, <1>3
<1>7. Numbered'
  <2>1. ackSeen' \subseteq received' /\ received' \subseteq toClient'
    BY <1>2, <1>5 DEF IInv, Numbered
  <2>2. toClient' \cup ToSet(outbox') \subseteq framed'
    BY <1>5 DEF IInv, Numbered
  <2>3. tracked' \cup framed' \subseteq 0..(seqOut' - 1)
    BY <1>2, <1>4, <1>5, <1>6 DEF IInv, Numbered
  <2>4. DOMAIN queue' \subseteq tracked'
    BY <1>2, <1>4 DEF IInv, Numbered
  <2>5. QED
    BY <2>1, <2>2, <2>3, <2>4 DEF Numbered
<1>8. ReleasedOnlyIfReceived'
  BY <1>2, <1>3, <1>4 DEF IInv, ReleasedOnlyIfReceived
<1>9. AckedIsReleased'
  <2>1. seqOut \notin ackSeen
    BY <1>2, <1>3 DEF IInv, Numbered
  <2>2. QED
    BY <2>1, <1>2, <1>3, <1>4 DEF IInv, AckedIsReleased
<1>10. FramedIsQueuedOrSent'
  BY <1>2, <1>5 DEF IInv, FramedIsQueuedOrSent
<1>11. QED
  BY <1>1, <1>7, <1>8, <1>9, <1>10 DEF IInv

(* While numbers fit the byte, an ACK of n releases n and nothing else.    *)
LEMMA IInvAck ==
  ASSUME IInv, NEW n \in received, ServerAck(n)
  PROVE  IInv'
<1>. USE ConstantsAssumption
<1>1. TypeOK'
  BY TypeStep DEF IInv, Next
<1>2. /\ connected /\ ackSeen' = ackSeen \cup {n}
      /\ DOMAIN queue' = {k \in DOMAIN queue : ~ AckMatches(k, WireByte(n))}
      /\ UNCHANGED <<connected, seqOut, outbox, toClient, received, tracked, framed>>
  BY DEF ServerAck
<1>3. n \in 0..(seqOut - 1) /\ seqOut \in Nat
  BY <1>2 DEF IInv, Numbered, TypeOK
<1>4. seqOut <= ByteMod => DOMAIN queue' = DOMAIN queue \ {n}
  <2>. SUFFICES ASSUME seqOut <= ByteMod
                PROVE  DOMAIN queue' = DOMAIN queue \ {n}
    OBVIOUS
  <2>1. WireByte(n) = n
    BY <1>3, FitsByte
  <2>2. QED
    BY <1>2, <2>1 DEF AckMatches
<1>5. Numbered'
  BY <1>2 DEF IInv, Numbered
<1>6. ReleasedOnlyIfReceived'
  BY <1>2, <1>4 DEF IInv, ReleasedOnlyIfReceived
<1>7. AckedIsReleased'
  BY <1>2, <1>4 DEF IInv, AckedIsReleased
<1>8. FramedIsQueuedOrSent'
  BY <1>2 DEF IInv, FramedIsQueuedOrSent
<1>9. QED
  BY <1>1, <1>5, <1>6, <1>7, <1>8 DEF IInv

(* Steps that move messages towards the client keep every entry and every  *)
(* promise: the outbox goes to the wire, the wire to the client.           *)
LEMMA IInvSend ==
  ASSUME IInv, TypeOK', connected,
         DOMAIN queue' = DOMAIN queue,
         toClient \cup ToSet(outbox) \subseteq toClient',
         toClient' \subseteq toClient \cup ToSet(outbox) \cup framed,
         outbox' = <<>>,
         UNCHANGED <<connected, seqOut, received, tracked, framed, ackSeen>>
  PROVE  IInv'
<1>1. Numbered'
  <2>1. ToSet(outbox') = {}
    BY EmptyOutbox
  <2>2. toClient' \subseteq framed'
    BY DEF IInv, Numbered
  <2>3. ackSeen' \subseteq received' /\ received' \subseteq toClient'
    BY DEF IInv, Numbered
  <2>4. QED
    BY <2>1, <2>2, <2>3 DEF IInv, Numbered
<1>2. ReleasedOnlyIfReceived' /\ AckedIsReleased'
  BY DEF IInv, ReleasedOnlyIfReceived, AckedIsReleased
<1>3. FramedIsQueuedOrSent'
  BY DEF IInv, FramedIsQueuedOrSent
<1>4. QED
  BY <1>1, <1>2, <1>3 DEF IInv

LEMMA IInvStep == IInv /\ [Next]_vars => IInv'
<1>. SUFFICES ASSUME IInv, [Next]_vars PROVE IInv'
  OBVIOUS
<1>t. TypeOK'
  BY TypeStep DEF IInv
<1>1. ASSUME NEW size \in Sizes, QueueReliable(size) PROVE IInv'
  BY <1>1, IInvQueue
<1>2. CASE FlushTick
  BY <1>2, <1>t, IInvSend DEF FlushTick
<1>3. ASSUME NEW n \in toClient, ClientReceive(n) PROVE IInv'
  BY <1>3, <1>t DEF ClientReceive, IInv, Numbered, ReleasedOnlyIfReceived,
                    AckedIsReleased, FramedIsQueuedOrSent
<1>4. ASSUME NEW n \in received, ServerAck(n) PROVE IInv'
  BY <1>4, IInvAck
<1>5. CASE HousekeepingTick
  <2>1. CASE TimedOut /\ DropPeer /\ UNCHANGED toClient
    BY <2>1, IInvDrop
  <2>2. ASSUME NEW overdue \in SUBSET DOMAIN queue, connected,
               Retransmit(overdue),
               toClient' = toClient \cup (overdue \cap framed) \cup ToSet(outbox),
               outbox' = <<>>,
               UNCHANGED <<connected, seqOut, received, tracked, framed, ackSeen>>
        PROVE  IInv'
    <3>1. DOMAIN queue' = DOMAIN queue
      BY <2>2 DEF Retransmit
    <3>2. QED
      BY <2>2, <3>1, <1>t, IInvSend
  <2>3. QED
    BY <1>5, <2>1, <2>2 DEF HousekeepingTick
<1>6. CASE PeerGone
  BY <1>6, IInvDrop DEF PeerGone
<1>7. CASE UNCHANGED vars
  BY <1>7, <1>t DEF vars, IInv, Numbered, ReleasedOnlyIfReceived,
                    AckedIsReleased, FramedIsQueuedOrSent
<1>8. QED
  BY <1>1, <1>2, <1>3, <1>4, <1>5, <1>6, <1>7 DEF Next

LEMMA InductiveInvariant == Spec => []IInv
<1>1. QED
  BY IInvInit, IInvStep, PTL DEF Spec

(* bc_reliable_ack never releases a message the client does not have, as   *)
(* long as the counter fits the wire byte.                                 *)
THEOREM NoFalseRelease == Spec => []ReleasedOnlyIfReceived
<1>1. IInv => ReleasedOnlyIfReceived
  BY DEF IInv
<1>2. QED
  BY <1>1, InductiveInvariant, PTL

(* A message whose ACK arrived is out of the retransmit queue for good, as *)
(* long as the counter fits the wire byte.                                 *)
THEOREM NoAckedRetransmission == Spec => []AckedIsReleased
<1>1. IInv => AckedIsReleased
  BY DEF IInv
<1>2. QED
  BY <1>1, InductiveInvariant, PTL

(* bc_queue_reliable loses no message that can be framed, whatever the     *)
(* sizes of the queue and of the outbox.                                   *)
THEOREM NoFramedLoss == Spec => []FramedIsQueuedOrSent
<1>1. IInv => FramedIsQueuedOrSent
  BY DEF IInv
<1>2. QED
  BY <1>1, InductiveInvariant, PTL

----------------------------------------------------------------------------
(* The channel implements ReliableDelivery as long as it sends no more     *)
(* messages than the wire byte can number.                                 *)

LEMMA RefinementInit == Init => Delivery!Init
  BY DEF Init, Delivery!Init

LEMMA DropRefines ==
  ASSUME connected, DropPeer
  PROVE  Delivery!Close
  BY DEF DropPeer, Delivery!Close

LEMMA QueueRefines ==
  ASSUME IInv, NEW size \in Sizes, QueueReliable(size)
  PROVE  [Delivery!Next]_(Delivery!vars)
<1>. USE ConstantsAssumption
<1>1. /\ size \in SizeClasses /\ seqOut < MaxSeq
      /\ Track(seqOut, size) /\ Enqueue(seqOut, size)
      /\ connected /\ UNCHANGED <<connected, received>>
  BY DEF QueueReliable
<1>2. seqOut \in Seqs /\ seqOut \notin tracked \cup framed
  BY <1>1 DEF IInv, TypeOK, Numbered, Seqs
<1>3. \/ DOMAIN queue' = DOMAIN queue /\ tracked' = tracked
      \/ /\ DOMAIN queue' = DOMAIN queue \cup {seqOut}
         /\ tracked' = tracked \cup {seqOut}
  BY <1>1, TrackEffect DEF IInv
<1>4. framed' \in {framed, framed \cup {seqOut}}
  BY <1>1 DEF Enqueue
<1>5. CASE tracked' = tracked /\ framed' = framed
  BY <1>1, <1>3, <1>5, <1>2 DEF Delivery!vars
<1>6. CASE tracked' # tracked \/ framed' # framed
  <2>1. tracked' \cup framed' = (tracked \cup framed) \cup {seqOut}
    BY <1>3, <1>4, <1>6
  <2>2. Delivery!Accept(seqOut)
    BY <1>1, <1>2, <1>3, <2>1 DEF Delivery!Accept
  <2>3. QED
    BY <1>2, <2>2 DEF Delivery!Next
<1>7. QED
  BY <1>5, <1>6

LEMMA AckRefines ==
  ASSUME IInv, MaxSeq <= ByteMod, NEW n \in received, ServerAck(n)
  PROVE  [Delivery!Next]_(Delivery!vars)
<1>. USE ConstantsAssumption
<1>1. /\ connected
      /\ DOMAIN queue' = {k \in DOMAIN queue : ~ AckMatches(k, WireByte(n))}
      /\ UNCHANGED <<connected, received, tracked, framed>>
  BY DEF ServerAck
<1>2. n \in Seqs /\ n \in Nat /\ n < ByteMod
  BY DEF IInv, TypeOK, Seqs
<1>3. DOMAIN queue' = DOMAIN queue \ {n}
  BY <1>1, <1>2, FitsByte DEF AckMatches
<1>4. CASE n \in DOMAIN queue
  <2>1. Delivery!Release(n)
    BY <1>1, <1>3, <1>4 DEF Delivery!Release
  <2>2. QED
    BY <1>2, <2>1 DEF Delivery!Next
<1>5. CASE n \notin DOMAIN queue
  BY <1>1, <1>3, <1>5 DEF Delivery!vars
<1>6. QED
  BY <1>4, <1>5

LEMMA RefinementStep ==
  ASSUME MaxSeq <= ByteMod, IInv, [Next]_vars
  PROVE  [Delivery!Next]_(Delivery!vars)
<1>1. ASSUME NEW size \in Sizes, QueueReliable(size)
      PROVE  [Delivery!Next]_(Delivery!vars)
  BY <1>1, QueueRefines
<1>2. CASE FlushTick
  BY <1>2 DEF FlushTick, Delivery!vars
<1>3. ASSUME NEW n \in toClient, ClientReceive(n)
      PROVE  [Delivery!Next]_(Delivery!vars)
  <2>1. n \in Seqs /\ n \in tracked \cup framed
    BY DEF IInv, TypeOK, Numbered
  <2>2. Delivery!Deliver(n)
    BY <1>3, <2>1 DEF ClientReceive, Delivery!Deliver
  <2>3. QED
    BY <2>1, <2>2 DEF Delivery!Next
<1>4. ASSUME NEW n \in received, ServerAck(n)
      PROVE  [Delivery!Next]_(Delivery!vars)
  BY <1>4, AckRefines
<1>5. CASE HousekeepingTick
  <2>1. CASE DropPeer
    BY <1>5, <2>1, DropRefines DEF HousekeepingTick, Delivery!Next
  <2>2. ASSUME NEW overdue \in SUBSET DOMAIN queue, Retransmit(overdue),
               UNCHANGED <<connected, seqOut, received, tracked, framed, ackSeen>>
        PROVE  UNCHANGED Delivery!vars
    BY <2>2 DEF Retransmit, Delivery!vars
  <2>3. QED
    BY <1>5, <2>1, <2>2 DEF HousekeepingTick
<1>6. CASE PeerGone
  BY <1>6, DropRefines DEF PeerGone, Delivery!Next
<1>7. CASE UNCHANGED vars
  BY <1>7 DEF vars, Delivery!vars
<1>8. QED
  BY <1>1, <1>2, <1>3, <1>4, <1>5, <1>6, <1>7 DEF Next

(* As long as every number fits the wire byte, the channel with its        *)
(* numbers, ACKs, retries and packets refines ReliableDelivery.            *)
THEOREM Refinement ==
  ASSUME MaxSeq <= ByteMod
  PROVE  Spec => RefinesDelivery
<1>1. IInv /\ [Next]_vars => [Delivery!Next]_(Delivery!vars)
  BY RefinementStep
<1>2. QED
  BY <1>1, RefinementInit, InductiveInvariant, PTL DEF Spec, RefinesDelivery, Delivery!Spec
=============================================================================
