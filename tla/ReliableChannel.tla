-------------------------- MODULE ReliableChannel --------------------------
(***************************************************************************)
(* The reliable channel from the server to one connected peer: sequence    *)
(* counter, retransmit queue and outbox of a bc_peer_t, the UDP network in *)
(* both directions, and the client that acknowledges what it receives.     *)
(*                                                                         *)
(* A message is identified by its full sequence number (the u16            *)
(* reliable_seq_out it was given).  Only seq & 0xFF travels on the wire,   *)
(* in the reliable header and back in the ACK; ByteMod stands for 256.      *)
(*                                                                         *)
(* The network may lose, delay, duplicate and reorder: toClient holds      *)
(* every message ever put on the wire, a reception does not remove it, and *)
(* nothing forces a reception.  The client acknowledges every reception,   *)
(* so an ACK of each received message may arrive at any later time, any    *)
(* number of times, or never.                                              *)
(***************************************************************************)
EXTENDS Integers, Sequences, FiniteSets, SequencesExt

CONSTANTS
  QueueSize,     \* BC_RELIABLE_QUEUE_SIZE: retransmit entries of a peer (16)
  MaxRetries,    \* BC_RELIABLE_MAX_RETRIES (8)
  ByteMod,        \* number of values of the wire sequence byte (256)
  OutboxCap,     \* messages that fit a 512-byte outbox
  Sizes,         \* payload size classes the server sends, see SizeClasses
  MaxSeq         \* bound: messages sent in one behaviour

(***************************************************************************)
(* What a payload length means to the two layers it passes through:        *)
(* "framed" fits the one-byte length of a frame (up to 250 bytes),         *)
(* "tracked" only the retransmit entry (251..512), "oversize" neither.     *)
(***************************************************************************)
SizeClasses == {"framed", "tracked", "oversize"}

ASSUME ConstantsAssumption ==
  /\ QueueSize \in Nat /\ MaxRetries \in Nat
  /\ ByteMod \in Nat \ {0}
  /\ OutboxCap \in Nat \ {0}
  /\ Sizes \subseteq SizeClasses
  /\ MaxSeq \in Nat

VARIABLES
  connected,     \* the peer slot is occupied
  seqOut,        \* reliable_seq_out: number of the next reliable message
  queue,         \* reliable_out: entries waiting for an ACK, by message
  outbox,        \* framed messages not yet flushed, in order
  toClient,      \* messages ever put on the wire
  received,      \* messages the client has received (and acknowledged)
  tracked,       \* history: messages that got a retransmit entry
  framed,        \* history: messages whose payload fits a frame
  ackSeen        \* history: messages of which an ACK reached the server

vars == <<connected, seqOut, queue, outbox, toClient, received,
          tracked, framed, ackSeen>>

Seqs == 0..(MaxSeq - 1)

(***************************************************************************)
(* An entry's age counts the housekeeping passes since it was last sent.   *)
(* Passes are 30 ticks (about one second) apart, so 2000 ms may or may not *)
(* have elapsed at the second pass and have elapsed at the third.          *)
(***************************************************************************)
MayBeOverdue  == 1
MustBeOverdue == 2
Entry == [retries : 0..MaxRetries, age : 0..MustBeOverdue]
NewEntry == [retries |-> 0, age |-> 0]

WireByte(n) == n % ByteMod

Init ==
  /\ connected = TRUE
  /\ seqOut = 0
  /\ queue = <<>>
  /\ outbox = <<>>
  /\ toClient = {} /\ received = {}
  /\ tracked = {} /\ framed = {} /\ ackSeen = {}

----------------------------------------------------------------------------
(* bc_reliable_add: a free entry and a payload of at most 512 bytes.       *)
CanTrack(size) ==
  /\ size # "oversize"
  /\ Cardinality(DOMAIN queue) < QueueSize

Track(n, size) ==
  IF CanTrack(size)
  THEN /\ queue' = [m \in DOMAIN queue \cup {n} |->
                      IF m = n THEN NewEntry ELSE queue[m]]
       /\ tracked' = tracked \cup {n}
  ELSE UNCHANGED <<queue, tracked>>

(* Slip: a full outbox is flushed, but the message is not added again.     *)
EnqueueWithoutSecondAttempt(n, size) ==
  LET fits == size = "framed" /\ Len(outbox) < OutboxCap
  IN /\ outbox' = IF fits THEN Append(outbox, n) ELSE <<>>
     /\ toClient' = IF fits THEN toClient ELSE toClient \cup ToSet(outbox)
     /\ framed' = IF size = "framed" THEN framed \cup {n} ELSE framed

(* bc_outbox_add_reliable, bc_flush_peer and the second attempt: a message *)
(* that does not fit the outbox flushes it first; one that cannot be       *)
(* framed flushes it and is then dropped.                                  *)
Enqueue(n, size) ==
  LET fits == size = "framed" /\ Len(outbox) < OutboxCap
      kept == IF fits THEN outbox ELSE <<>>
  IN /\ outbox' = IF size = "framed" THEN Append(kept, n) ELSE kept
     /\ toClient' = IF fits THEN toClient ELSE toClient \cup ToSet(outbox)
     /\ framed' = IF size = "framed" THEN framed \cup {n} ELSE framed

(* bc_queue_reliable: number, track and enqueue one message.               *)
QueueReliable(size) ==
  /\ connected
  /\ seqOut < MaxSeq
  /\ seqOut' = seqOut + 1
  /\ Track(seqOut, size)
  /\ Enqueue(seqOut, size)
  /\ UNCHANGED <<connected, received, ackSeen>>

(* The end of every tick flushes every outbox (bc_flush_peer).             *)
FlushTick ==
  /\ connected
  /\ outbox # <<>>
  /\ toClient' = toClient \cup ToSet(outbox)
  /\ outbox' = <<>>
  /\ UNCHANGED <<connected, seqOut, queue, received, tracked, framed, ackSeen>>

----------------------------------------------------------------------------
(* The client receives a message and acknowledges it.                      *)
ClientReceive(n) ==
  /\ n \in toClient \ received
  /\ received' = received \cup {n}
  /\ UNCHANGED <<connected, seqOut, queue, outbox, toClient, tracked, framed,
                 ackSeen>>

(* Slips: an ACK taken as cumulative, and one taken as naming the next     *)
(* message expected.                                                       *)
AckMatchesUpTo(m, byte) == m <= byte
AckMatchesBefore(m, byte) == m + 1 = byte

(* bc_reliable_ack compares the byte of the ACK with the full 16-bit       *)
(* number of each entry.                                                   *)
AckMatches(m, byte) == m = byte

(* The server receives an ACK of message n: the first match is released.   *)
ServerAck(n) ==
  /\ connected
  /\ n \in received
  /\ ackSeen' = ackSeen \cup {n}
  /\ queue' = [m \in {k \in DOMAIN queue : ~ AckMatches(k, WireByte(n))} |->
                 queue[m]]
  /\ UNCHANGED <<connected, seqOut, outbox, toClient, received, tracked, framed>>

----------------------------------------------------------------------------
(* bc_reliable_check_timeout *)
TimedOut == \E n \in DOMAIN queue : queue[n].retries >= MaxRetries

(* bc_peers_remove zeroes the slot: queue, outbox and counters are gone.   *)
DropPeer ==
  /\ connected' = FALSE
  /\ seqOut' = 0
  /\ queue' = <<>>
  /\ outbox' = <<>>
  /\ UNCHANGED <<received, tracked, framed, ackSeen>>

(* Slip: a message sent again is not counted as a retry.                   *)
RetransmitUncounted(overdue) ==
  queue' = [n \in DOMAIN queue |->
              IF n \in overdue THEN [queue[n] EXCEPT !.age = 0]
              ELSE [queue[n] EXCEPT !.age = @ + 1]]

(* bc_reliable_check_retransmit until it returns -1: every overdue entry   *)
(* is retried once and, if it can be framed, sent again.                   *)
Retransmit(overdue) ==
  queue' = [n \in DOMAIN queue |->
              IF n \in overdue
              THEN [retries |-> queue[n].retries + 1, age |-> 0]
              ELSE [queue[n] EXCEPT !.age = @ + 1]]

(* A housekeeping pass: dead peers are dropped, overdue messages are sent  *)
(* again, and the tick it belongs to ends by flushing the outbox.          *)
HousekeepingTick ==
  /\ connected
  /\ \/ /\ TimedOut
        /\ DropPeer
        /\ UNCHANGED toClient
     \/ /\ ~ TimedOut
        /\ \E overdue \in SUBSET {n \in DOMAIN queue : queue[n].age >= MayBeOverdue} :
             /\ {n \in DOMAIN queue : queue[n].age >= MustBeOverdue} \subseteq overdue
             /\ Retransmit(overdue)
             /\ toClient' = toClient \cup (overdue \cap framed) \cup ToSet(outbox)
        /\ outbox' = <<>>
        /\ UNCHANGED <<connected, seqOut, received, tracked, framed, ackSeen>>

(* The peer is removed for a reason outside this channel: it quit, it was  *)
(* silent for 30 seconds, or its handshake failed.                         *)
PeerGone ==
  /\ connected
  /\ DropPeer
  /\ UNCHANGED toClient

Next ==
  \/ \E size \in Sizes : QueueReliable(size)
  \/ FlushTick
  \/ \E n \in toClient : ClientReceive(n)
  \/ \E n \in received : ServerAck(n)
  \/ HousekeepingTick
  \/ PeerGone

Spec == Init /\ [][Next]_vars

(* The main loop ticks for ever: a housekeeping pass always comes.  Nothing *)
(* is assumed of the network or of the client.                             *)
FairSpec == Spec /\ WF_vars(HousekeepingTick)

----------------------------------------------------------------------------
(* Type correctness; an outbox never holds more than fits one packet.      *)
TypeOK ==
  /\ connected \in BOOLEAN
  /\ seqOut \in 0..MaxSeq
  /\ DOMAIN queue \subseteq Seqs
  /\ Cardinality(DOMAIN queue) <= QueueSize
  /\ \A n \in DOMAIN queue : queue[n] \in Entry
  /\ outbox \in Seq(Seqs) /\ Len(outbox) <= OutboxCap
  /\ toClient \subseteq Seqs /\ received \subseteq Seqs
  /\ tracked \subseteq Seqs /\ framed \subseteq Seqs /\ ackSeen \subseteq Seqs

(* As long as the counter fits the wire byte, a message leaves the         *)
(* retransmit queue (bc_reliable_ack) only if the client has received it:  *)
(* late, duplicated and reordered ACKs never release another message.      *)
ReleasedOnlyIfReceived ==
  connected /\ seqOut <= ByteMod => tracked \subseteq received \cup DOMAIN queue

(* As long as the counter fits the wire byte, a message of which an ACK    *)
(* has reached bc_reliable_ack is never retransmitted nor counted against  *)
(* the peer again.                                                         *)
AckedIsReleased ==
  connected /\ seqOut <= ByteMod => DOMAIN queue \cap ackSeen = {}

(* bc_queue_reliable loses no message that can be framed, even when the    *)
(* outbox or the retransmit queue is full: it waits in the outbox or has   *)
(* been sent.                                                              *)
FramedIsQueuedOrSent ==
  connected => framed \subseteq ToSet(outbox) \cup toClient

(* The strengthening the proofs use: an ACK was seen only of a received    *)
(* message, which was on the wire, which could be framed; every message    *)
(* anywhere has a number already given; every entry is of a tracked one.   *)
Numbered ==
  /\ ackSeen \subseteq received /\ received \subseteq toClient
  /\ toClient \cup ToSet(outbox) \subseteq framed
  /\ connected =>
       /\ tracked \cup framed \subseteq 0..(seqOut - 1)
       /\ DOMAIN queue \subseteq tracked

IInv ==
  /\ TypeOK /\ Numbered
  /\ ReleasedOnlyIfReceived /\ AckedIsReleased /\ FramedIsQueuedOrSent

(* A tracked message is received, or the peer is dropped: the housekeeping *)
(* pass leaves no message waiting for ever, whatever the network does.     *)
DeliveredOrDropped ==
  \A n \in Seqs :
    n \in DOMAIN queue ~> (n \in received \/ ~ connected \/ seqOut > ByteMod)

(* transport-layer.md: "when ACK arrives, removes the message from the     *)
(* queue", for every message and not only for those whose number fits the  *)
(* wire byte that bc_reliable_ack is given.                                *)
AckRemovesMessage == connected => DOMAIN queue \cap ackSeen = {}

----------------------------------------------------------------------------
(* What the channel promises, independently of how: see ReliableDelivery.  *)
Delivery == INSTANCE ReliableDelivery WITH
  Messages <- Seqs,
  open     <- connected,
  accepted <- tracked \cup framed,
  pending  <- DOMAIN queue,
  delivered <- received

(* The channel refines ReliableDelivery: a message leaves the retransmit   *)
(* queue only delivered, or with the connection, whatever is lost,         *)
(* duplicated or late.  True while every number fits the wire byte.        *)
RefinesDelivery == Delivery!Spec
=============================================================================
