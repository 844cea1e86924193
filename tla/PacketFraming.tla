---------------------------- MODULE PacketFraming ----------------------------
(***************************************************************************)
(* A packet: the messages put into it, its bytes, the cipher they pass     *)
(* through on their way, and what the other side reads in them.            *)
(*                                                                         *)
(* A message has a kind, the fields its kind has of seq, flags, index and  *)
(* payload, and bytes are numbers.  Both sides have this code: the server  *)
(* fills an outbox, the client puts each message into a packet of its own. *)
(***************************************************************************)
EXTENDS Integers, Sequences, SequencesExt, Bitwise

MaxPacket == 512    \* BC_MAX_PACKET_SIZE
MaxMessage == 255   \* the length of a message is one byte
MaxRead == 32       \* messages that bc_packet_t has room for

----------------------------------------------------------------------------
(* Messages as bytes.                                                      *)

Game == 50          \* BC_TRANSPORT_RELIABLE, 0x32, also for unreliable ones
Ack == 1            \* BC_TRANSPORT_ACK
Keepalive == 0      \* BC_TRANSPORT_KEEPALIVE

(* Of a counter its low byte is sent; an acknowledgement carries the high  *)
(* byte of the seq that was read, see Read.                                *)
Bytes(m) ==
  CASE m.kind = "unreliable" -> <<Game, 3 + Len(m.payload), 0>> \o m.payload
    [] m.kind = "reliable" -> <<Game, 5 + Len(m.payload), 128, m.seq % 256, 0>> \o m.payload
    [] m.kind = "ack" -> <<Ack, m.seq \div 256, 0, m.flags>>
    [] m.kind = "fragment_ack" -> <<Ack, m.seq \div 256, 0, 1, m.index>>
    [] m.kind = "keepalive" -> <<Keepalive, 2 + Len(m.payload)>> \o m.payload

Fits(used, bytes) == used + Len(bytes) <= MaxPacket /\ Len(bytes) <= MaxMessage

(* bc_outbox_add_...: a message that does not fit leaves no trace.         *)
EmptyOutbox == [buf |-> <<>>, added |-> <<>>]

Added(outbox, m) ==
  IF Fits(2 + Len(outbox.buf), Bytes(m))
  THEN [buf |-> outbox.buf \o Bytes(m), added |-> Append(outbox.added, m)]
  ELSE outbox

(* bc_outbox_flush_to_buf.                                                 *)
Flushed(outbox) == <<1, Len(outbox.added) % 256>> \o outbox.buf

(* bc_client_build_..., of a message that fits; the direction is 2 + slot. *)
ClientPacket(slot, m) == <<2 + slot, 1>> \o Bytes(m)

(* bc_transport_build_...: a message that the server sends again, or at once. *)
ServerPacket(m) == <<1, 1>> \o Bytes(m)

----------------------------------------------------------------------------
(* bc_transport_parse.                                                     *)

Malformed == [at |-> 0, read |-> <<>>]

(* What a message is to be read as, whose counter fits the byte.           *)
Read(m) ==
  CASE m.kind = "unreliable" -> [type |-> Game, flags |-> 0, seq |-> 0, payload |-> m.payload]
    [] m.kind = "reliable" ->
         [type |-> Game, flags |-> 128, seq |-> m.seq * 256, payload |-> m.payload]
    [] m.kind = "ack" -> [type |-> Ack, flags |-> m.flags, seq |-> m.seq \div 256, payload |-> <<>>]
    [] m.kind = "fragment_ack" ->
         [type |-> Ack, flags |-> 1, seq |-> m.seq \div 256, payload |-> <<>>]
    [] m.kind = "keepalive" -> [type |-> Keepalive, flags |-> 0, seq |-> 0, payload |-> m.payload]

(* The message at offset at of a packet, if its bytes are all there, and   *)
(* the rest; an acknowledgement has four bytes whatever its flags.         *)
ReadNext(packet, at, read) ==
  LET byte(i) == packet[at + i + 1]
      left == Len(packet) - at
      word == byte(1) + 256 * byte(2)
      reliable == word >= 32768
      size == IF byte(0) = Game THEN word % 8192 ELSE byte(1)
      header == CASE byte(0) # Game -> 2 [] reliable -> 5 [] OTHER -> 3
      message ==
        [type |-> byte(0),
         flags |-> IF byte(0) = Game THEN word \div 256 ELSE 0,
         seq |-> IF byte(0) = Game /\ reliable THEN 256 * byte(3) + byte(4) ELSE 0,
         payload |-> SubSeq(packet, at + header + 1, at + size)]
      acked == [type |-> Ack, flags |-> byte(3), seq |-> byte(1), payload |-> <<>>]
  IN CASE byte(0) = Ack ->
            IF left < 4 THEN Malformed
            ELSE [at |-> at + 4, read |-> Append(read, acked)]
       [] byte(0) = Game /\ left < 3 -> Malformed
       [] byte(0) \notin {Ack, Game} /\ left < 2 -> Malformed
       [] OTHER ->
            IF size < header \/ size > left THEN Malformed
            ELSE [at |-> at + size, read |-> Append(read, message)]

(* As many as the packet says, while there are bytes and room.             *)
Parsed(packet) ==
  LET from[n \in 0..MaxRead] ==
        IF n = 0 THEN [at |-> 2, read |-> <<>>]
        ELSE LET before == from[n - 1]
             IN IF n > packet[2] \/ before.at >= Len(packet) \/ before = Malformed
                THEN before
                ELSE ReadNext(packet, before.at, before.read)
  IN from[MaxRead]

----------------------------------------------------------------------------
(* The cipher.  Only the low 16 bits of its words reach a byte, and sums,  *)
(* products and exclusive ors keep to them, so words are modulo 2^16.      *)

Word == 65536
Key == <<65, 108, 98, 121, 82, 117, 108, 101, 115, 33>>  \* "AlbyRules!"

CipherReset == [key |-> Key, carry |-> 0, sum |-> 0, out |-> <<>>]

(* cipher_prng_step for word i of the key, in the round that started with  *)
(* state s: word is the last key word, mask the exclusive or of all.       *)
PrngStep(key, s, i) ==
  LET pair == 256 * key[2 * i + 1] + key[2 * i + 2]
      kw == IF i = 0 THEN pair ELSE pair ^^ s.word
      cross == (kw * 346) % Word
      sum == (s.carry + (((s.sum + i) * 20021) % Word) + cross) % Word
      word == (kw * 20021 + 1) % Word
  IN [carry |-> cross, sum |-> sum, word |-> word, mask |-> s.mask ^^ (sum ^^ word)]

(* cipher_key_schedule.                                                    *)
KeySchedule(s) ==
  FoldLeft(LAMBDA t, i : PrngStep(s.key, t, i),
           [carry |-> s.carry, sum |-> s.sum, word |-> 0, mask |-> 0], <<0, 1, 2, 3, 4>>)

(* One byte: what comes out of it, and the clear byte the key is fed.      *)
Feed(s, t, out, clear) ==
  [key |-> [j \in 1..10 |-> s.key[j] ^^ clear], carry |-> t.carry, sum |-> t.sum,
   out |-> Append(s.out, out)]
Mask(t) == (t.mask % 256) ^^ (t.mask \div 256)

EncryptByte(s, byte) == LET t == KeySchedule(s) IN Feed(s, t, byte ^^ Mask(t), byte)

(* Slip: the key is fed what came in.                                      *)
DecryptByteFeedingIn(s, byte) == LET t == KeySchedule(s) IN Feed(s, t, byte ^^ Mask(t), byte)

DecryptByte(s, byte) ==
  LET t == KeySchedule(s) IN Feed(s, t, byte ^^ Mask(t), byte ^^ Mask(t))

(* alby_cipher_encrypt, alby_cipher_decrypt: the first byte stays clear.   *)
Encrypted(packet) == <<packet[1]>> \o FoldLeft(EncryptByte, CipherReset, Tail(packet)).out
Decrypted(packet) == <<packet[1]>> \o FoldLeft(DecryptByte, CipherReset, Tail(packet)).out

----------------------------------------------------------------------------
(* What is read in a packet is what was put into it, in that order.        *)
ReadsBack(packet, messages) ==
  Parsed(packet).read = [i \in DOMAIN messages |-> Read(messages[i])]

(* The byte more that a fragment's acknowledgement has is passed over at   *)
(* the end of a packet only, and a packet is read up to MaxRead messages.  *)
Readable(messages) ==
  /\ Len(messages) <= MaxRead
  /\ \A i \in 1..(Len(messages) - 1) : messages[i].kind # "fragment_ack"

(* The acknowledgement of a message that was read names its counter, which *)
(* a larger counter than the byte holds never is.                          *)
AckNames(m) ==
  LET ack == [kind |-> "ack", seq |-> Read(m).seq, flags |-> 0]
  IN Read(ack).seq = m.seq
=============================================================================
