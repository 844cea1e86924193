------------------------ MODULE MCFragmentReassembly ------------------------
(* Instances of FragmentReassembly for TLC, and the packets the fragments  *)
(* and all other messages travel in.                                       *)
EXTENDS FragmentReassembly, PacketFraming

(* The checksum responses of rounds 2 and 255 and a short one.             *)
ThreeMessages == <<3, 2, 3>>

(* Payloads: none, one that looks like a message, and lengths about those  *)
(* of the longest message; counters up to the largest that the one byte    *)
(* holds that is sent of them.                                             *)
Zeros(n) == [i \in 1..n |-> 0]
ShortPayloads == {<<>>, <<255, 128, 33>>, <<Game, 4, 0, 1>>}
LongPayloads == {Zeros(n) : n \in 250..253}
Counters == {0, 1, 255}

Sendable(payloads) ==
  [kind : {"unreliable", "keepalive"}, payload : payloads]
    \cup [kind : {"reliable"}, seq : Counters, payload : payloads]
    \cup [kind : {"ack"}, seq : {0, 65280}, flags : {0, 2}]
    \cup [kind : {"fragment_ack"}, seq : {256}, index : {1}]

Outbox(messages) == FoldLeft(Added, EmptyOutbox, messages)

(* What one side puts into a packet is what the other reads in it, in the  *)
(* same order and through the cipher: a message that does not fit leaves   *)
(* no trace, no length is cut, and while its counter fits a byte the       *)
(* acknowledgement of what was read names what was sent.  Later counters   *)
(* are cut and named wrongly: see AckRemovesMessage of ReliableChannel.    *)
WireRoundTrip ==
  sent = 0 =>
    /\ \A messages \in [1..3 -> Sendable(LongPayloads \cup {<<Game, 4, 0, 1>>})] :
         LET outbox == Outbox(messages)
         IN Readable(outbox.added) => ReadsBack(Flushed(outbox), outbox.added)
    /\ \A m1, m2 \in Sendable(ShortPayloads) :
         LET outbox == Outbox(<<m1, m2>>)
         IN Readable(outbox.added) =>
              ReadsBack(Decrypted(Encrypted(Flushed(outbox))), outbox.added)
    /\ \A m \in Sendable(ShortPayloads) :
         /\ ReadsBack(Decrypted(Encrypted(ClientPacket(1, m))), <<m>>)
         /\ ReadsBack(Decrypted(Encrypted(ServerPacket(m))), <<m>>)
         /\ m.kind = "reliable" => AckNames(m)
=============================================================================
