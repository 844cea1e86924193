------------------------- MODULE FragmentReassembly -------------------------
(***************************************************************************)
(* How the server puts the fragments of a client's large messages together *)
(* again.  The stock client sends the fragments of a message as a group,   *)
(* and as it matches no acknowledgement to a fragment it sends the whole   *)
(* group again every other second (docs/bugs/fragmented-reliable-ack-bug). *)
(*                                                                         *)
(* A piece of the buffer is the fragment it came from; its bytes are left  *)
(* out.  Messages that are no fragments pass by the buffer and are too.    *)
(***************************************************************************)
EXTENDS Integers, Sequences, SequencesExt

CONSTANTS
  Pieces,    \* the number of fragments of each message the client sends
  BufSize,   \* pieces that fit BC_FRAGMENT_BUF_SIZE
  InOrder,   \* the network keeps the order
  MaxLost,   \* bound: fragments lost on the way
  MaxResent  \* bound: groups sent again

Messages == DOMAIN Pieces

ASSUME FragmentAssumption ==
  /\ Pieces \in Seq(2..BufSize)
  /\ BufSize \in Nat \ {0}
  /\ InOrder \in BOOLEAN
  /\ MaxLost \in Nat /\ MaxResent \in Nat

Fragments == {[msg |-> m, idx |-> i] : m \in Messages, i \in 0..(BufSize - 1)}

VARIABLES
  sent,       \* messages the client has sent, in the order of Pieces
  network,    \* fragments on their way to the server
  active,     \* a message is being put together
  expected,   \* frags_expected
  buf,        \* its fragments so far; frags_received is their number
  assembled,  \* what was dispatched as a message
  lost,       \* fragments lost so far
  resent      \* groups sent again so far

vars == <<sent, network, active, expected, buf, assembled, lost, resent>>

Group(m) == [i \in 1..Pieces[m] |-> [msg |-> m, idx |-> i - 1]]

Init ==
  /\ sent = 0
  /\ network = <<>>
  /\ active = FALSE /\ expected = 0 /\ buf = <<>>
  /\ assembled = {}
  /\ lost = 0 /\ resent = 0

----------------------------------------------------------------------------
(* The client                                                              *)

Send ==
  /\ sent < Len(Pieces)
  /\ sent' = sent + 1
  /\ network' = network \o Group(sent + 1)
  /\ UNCHANGED <<active, expected, buf, assembled, lost, resent>>

Resend ==
  /\ resent < MaxResent
  /\ \E m \in 1..sent : network' = network \o Group(m)
  /\ resent' = resent + 1
  /\ UNCHANGED <<sent, active, expected, buf, assembled, lost>>

Lose ==
  /\ lost < MaxLost
  /\ \E i \in DOMAIN network : network' = RemoveAt(network, i)
  /\ lost' = lost + 1
  /\ UNCHANGED <<sent, active, expected, buf, assembled, resent>>

----------------------------------------------------------------------------
(* bc_fragment_receive                                                     *)

ResetBuffer == active' = FALSE /\ expected' = 0 /\ buf' = <<>>

(* The total that a first fragment carries; in its place any other carries *)
(* a byte of its data.                                                     *)
TotalRead(frag) ==
  IF frag.idx = 0 THEN {Pieces[frag.msg]} ELSE 0..(BufSize + 1)

(* The slip that counts the first fragment twice.                          *)
CompleteEarly(pieces, total) == Len(pieces) + 1 >= total

(* The slip that waits for one fragment more than there are.               *)
CompleteLate(pieces, total) == Len(pieces) > total

Complete(pieces, total) == Len(pieces) >= total

(* Put together: the message is dispatched and the buffer reset.           *)
Gathered(pieces, total) ==
  IF Complete(pieces, total)
  THEN ResetBuffer /\ assembled' = assembled \cup {pieces}
  ELSE /\ active' = TRUE /\ expected' = total /\ buf' = pieces
       /\ UNCHANGED assembled

(* The first fragment to arrive opens the buffer, whichever it is; a total *)
(* under two is an error.                                                  *)
FirstFragment(frag) ==
  /\ ~ active
  /\ \E total \in TotalRead(frag) :
       IF total < 2 THEN ResetBuffer /\ UNCHANGED assembled
       ELSE Gathered(<<frag>>, total)

(* Any other is put at the end, whichever it is, while there is room.      *)
(* Neither its index nor its message is looked at.                         *)
NextFragment(frag) ==
  /\ active
  /\ IF Len(buf) = BufSize THEN ResetBuffer /\ UNCHANGED assembled
     ELSE Gathered(Append(buf, frag), expected)

Receive ==
  \E i \in DOMAIN network :
    /\ InOrder => i = 1
    /\ FirstFragment(network[i]) \/ NextFragment(network[i])
    /\ network' = RemoveAt(network, i)
    /\ UNCHANGED <<sent, lost, resent>>

Next == Send \/ Resend \/ Lose \/ Receive

Spec == Init /\ [][Next]_vars

(* The client sends what it has and the server polls its socket.           *)
FairSpec == Spec /\ WF_vars(Send) /\ WF_vars(Receive)

----------------------------------------------------------------------------
(* Properties                                                              *)

(* Whatever arrives, and whatever is misread as a total, neither the       *)
(* buffer nor a message put together in it is ever larger than the buffer. *)
TypeOK ==
  /\ sent \in 0..Len(Pieces)
  /\ network \in Seq(Fragments)
  /\ active \in BOOLEAN
  /\ expected \in 0..(BufSize + 1)
  /\ buf \in Seq(Fragments) /\ Len(buf) <= BufSize
  /\ active <=> buf # <<>>
  /\ active => Len(buf) < expected
  /\ \A pieces \in assembled : /\ pieces \in Seq(Fragments)
                                /\ Len(pieces) \in 2..BufSize
  /\ lost \in 0..MaxLost /\ resent \in 0..MaxResent

(* Until the network loses a fragment or swaps two, what is dispatched is  *)
(* a message that the client sent, all its fragments in order and none of  *)
(* another, with groups sent again before, between and after.              *)
OnlyWholeMessages ==
  InOrder /\ lost = 0 => assembled \subseteq {Group(m) : m \in 1..sent}

(* The strengthening the proofs use: until a fragment is lost or passes    *)
(* another, what is in the buffer and what is on its way form one stream,  *)
(* in which every group is followed by the start of another.               *)
IsLast(frag) == frag.idx + 1 = Pieces[frag.msg]

FollowedBy(frag, after) ==
  IF IsLast(frag) THEN after.idx = 0
  ELSE after = [msg |-> frag.msg, idx |-> frag.idx + 1]

Streamed ==
  /\ \A i \in DOMAIN network :
       /\ network[i].msg \in 1..sent /\ network[i].idx < Pieces[network[i].msg]
       /\ IF i = Len(network) THEN IsLast(network[i])
          ELSE FollowedBy(network[i], network[i + 1])
  /\ IF active
     THEN /\ \E m \in 1..sent :
               /\ expected = Pieces[m]
               /\ \A i \in DOMAIN buf : buf[i] = [msg |-> m, idx |-> i - 1]
          /\ network # <<>> /\ FollowedBy(buf[Len(buf)], network[1])
     ELSE network # <<>> => network[1].idx = 0

IInv == TypeOK /\ OnlyWholeMessages /\ (InOrder /\ lost = 0 => Streamed)

(* Until then, too, every message is dispatched in the end.                *)
AllAssembled ==
  InOrder => \A m \in Messages : <>(Group(m) \in assembled \/ lost > 0)
=============================================================================
