------------------------------ MODULE BitBuffer ------------------------------
(***************************************************************************)
(* bc_buffer_t: bytes, and bits that share a byte, written and read in the *)
(* same order.  Up to five bits go into one byte, three bits of which are  *)
(* their number; bytes that are written in between do not end the group.   *)
(*                                                                         *)
(* A byte of bits is the sequence of its bits, so its number is its length. *)
(***************************************************************************)
EXTENDS Integers, Sequences

GroupSize == 5

(* data: its bytes; count: bits in the open group, or still to be read of  *)
(* it; bookmark: the group's place; pos: what has been read.               *)
EmptyBuffer == [data |-> <<>>, count |-> 0, bookmark |-> 0]

WriteBytes(buf, bytes) == [buf EXCEPT !.data = @ \o bytes]

(* Slip: only the first group sets the bookmark.                           *)
WriteBitAtFirstGroup(buf, bit) ==
  IF buf.count \in 1..(GroupSize - 1)
  THEN [buf EXCEPT !.data[buf.bookmark] = Append(@, bit), !.count = @ + 1]
  ELSE [data |-> Append(buf.data, <<bit>>), count |-> 1,
        bookmark |-> IF buf.bookmark = 0 THEN Len(buf.data) + 1 ELSE buf.bookmark]

WriteBit(buf, bit) ==
  IF buf.count \in 1..(GroupSize - 1)
  THEN [buf EXCEPT !.data[buf.bookmark] = Append(@, bit), !.count = @ + 1]
  ELSE [data |-> Append(buf.data, <<bit>>), count |-> 1, bookmark |-> Len(buf.data) + 1]

(* What writers do to end a group: its next bit starts another.            *)
EndGroup(buf) == [buf EXCEPT !.count = 0]

(* Reading: value is what is read last.                                    *)
Reader(data) == [data |-> data, pos |-> 0, count |-> 0, bookmark |-> 0, value |-> <<>>]
AtEnd(r) == r.pos = Len(r.data)

ReadBytes(r, n) ==
  [r EXCEPT !.pos = @ + n, !.value = SubSeq(r.data, r.pos + 1, r.pos + n)]

ReadBit(r) ==
  IF r.count = 0
  THEN LET group == r.data[r.pos + 1]
       IN [r EXCEPT !.pos = @ + 1, !.bookmark = r.pos + 1,
                    !.count = Len(group) - 1, !.value = group[1]]
  ELSE LET group == r.data[r.bookmark]
       IN [r EXCEPT !.count = @ - 1, !.value = group[Len(group) - r.count + 1]]
=============================================================================
