--------------------------------- MODULE Slip ---------------------------------
(***************************************************************************)
(* teletraffic::Slip (slip.cpp): Send() turns a packet into characters     *)
(* that end in END, and Recv() turns them back.  Inside of a packet END is *)
(* sent as ESC ESC_END and ESC as ESC ESC_ESC.                             *)
(*                                                                         *)
(* The line between the two is outside.  It keeps the order of characters, *)
(* so a character is received in the step that sends it.  It may lose one  *)
(* (a write() that fails, which send_char() reports to nobody) or add one: *)
(* noise, or a read() that fails, after which Recv() takes what is in the  *)
(* memory for a character.                                                 *)
(***************************************************************************)
EXTENDS Integers, Sequences

CONSTANTS
  Plain,              \* the bytes other than the four special ones
  END, ESC, ESC_END, ESC_ESC,
  Packets,            \* the packets that are sent
  Size                \* len, the room that Recv() has

Bytes == Plain \cup {END, ESC, ESC_END, ESC_ESC}

ASSUME SlipAssumption ==
  /\ Packets \subseteq Seq(Bytes)
  /\ Size \in Nat \ {0}
  /\ END # ESC /\ END # ESC_END /\ END # ESC_ESC
  /\ ESC # ESC_END /\ ESC # ESC_ESC /\ ESC_END # ESC_ESC
  /\ Plain \cap {END, ESC, ESC_END, ESC_ESC} = {}

VARIABLES
  at,        \* Send(): "idle", or at the "first" END, a "byte", its "second"
             \* character, or the "last" END
  packet,    \* p, the packet being sent
  sent,      \* the bytes of it that are through
  received,  \* Recv(): p and received, the bytes so far
  escaped,   \* Recv() is at its second recv_char()
  returned,  \* what Recv() has returned during this Send(), or <<>>
  line       \* what has become of the line, see PacketLine

sender   == <<at, packet, sent>>
receiver == <<received, escaped, returned>>
vars     == <<sender, receiver, line>>

Init ==
  /\ at = "idle" /\ packet = <<>> /\ sent = 0
  /\ received = <<>> /\ escaped = FALSE /\ returned = <<>>
  /\ line = "clean"

-----------------------------------------------------------------------------
(* Recv() gets the character c.  The receiver calls it again and again.    *)

Store(c) == received' = IF Len(received) < Size THEN Append(received, c) ELSE received

\* Mutant: without a case for ESC_ESC.
UnescapedEnd(c) == IF c = ESC_END THEN END ELSE c

\* The character that an escaped c stands for.
Unescaped(c) == IF c = ESC_END THEN END ELSE IF c = ESC_ESC THEN ESC ELSE c

\* Mutant: a packet of one byte is ignored as well.
RecvEndLong ==
  /\ received' = <<>>
  /\ returned' = IF Len(received) <= 1 THEN returned ELSE received
  /\ UNCHANGED escaped

\* An END without data is ignored.
RecvEnd ==
  /\ received' = <<>>
  /\ returned' = IF received = <<>> THEN returned ELSE received
  /\ UNCHANGED escaped

Recv(c) ==
  \/ escaped /\ Store(Unescaped(c)) /\ escaped' = FALSE /\ UNCHANGED returned
  \/ ~escaped /\ c = END /\ RecvEnd
  \/ ~escaped /\ c = ESC /\ escaped' = TRUE /\ UNCHANGED <<received, returned>>
  \/ ~escaped /\ c \notin {END, ESC} /\ Store(c) /\ UNCHANGED <<escaped, returned>>

-----------------------------------------------------------------------------
(* Send(): each step calls send_char() once.                               *)

Data == packet[sent + 1]
Stuffed == Data \in {END, ESC}

Char ==
  CASE at \in {"first", "last"} -> END
    [] at = "byte"   -> IF Stuffed THEN ESC ELSE Data
    [] at = "second" -> IF Data = END THEN ESC_END ELSE ESC_ESC

NextByte(n) == at' = IF n < Len(packet) THEN "byte" ELSE "last"

\* The place in Send() after the character.
Advance ==
  /\ \/ at = "first" /\ NextByte(0) /\ UNCHANGED sent
     \/ at = "byte" /\ Stuffed /\ at' = "second" /\ UNCHANGED sent
     \/ at = "byte" /\ ~Stuffed /\ sent' = sent + 1 /\ NextByte(sent + 1)
     \/ at = "second" /\ sent' = sent + 1 /\ NextByte(sent + 1)
     \/ at = "last" /\ at' = "idle" /\ UNCHANGED sent
  /\ UNCHANGED packet

\* This END puts the receiver in step again.
Repaired == <<at, line>> \in {<<"first", "flushing">>, <<"last", "mending">>}

LineAtSend ==
  IF line = "clean" THEN "clean" ELSE IF escaped THEN "mending" ELSE "flushing"

\* Mutant: without the END in front.
SendUnflushed ==
  /\ at = "idle"
  /\ packet' \in Packets
  /\ at' = IF packet' = <<>> THEN "last" ELSE "byte"
  /\ sent' = 0
  /\ returned' = <<>>
  /\ line' = LineAtSend
  /\ UNCHANGED <<received, escaped>>

Send ==
  /\ at = "idle"
  /\ at' = "first"
  /\ packet' \in Packets
  /\ sent' = 0
  /\ returned' = <<>>
  /\ line' = LineAtSend
  /\ UNCHANGED <<received, escaped>>

SendChar ==
  /\ at # "idle"
  /\ Recv(Char)
  /\ Advance
  /\ line' = IF Repaired THEN "clean" ELSE line

Lose ==
  /\ at # "idle"
  /\ Advance
  /\ line' = "dirty"
  /\ UNCHANGED receiver

Noise ==
  /\ \E c \in Bytes : Recv(c)
  /\ line' = "dirty"
  /\ UNCHANGED sender

-----------------------------------------------------------------------------
Next == Send \/ SendChar \/ Lose \/ Noise

Spec == Init /\ [][Next]_vars

\* The sending thread goes on.
FairSpec == Spec /\ WF_vars(at # "idle" /\ (SendChar \/ Lose))

-----------------------------------------------------------------------------
Places == {"idle", "first", "byte", "second", "last"}

TypeOK ==
  /\ at \in Places
  /\ packet \in Seq(Bytes)
  /\ sent \in 0 .. Len(packet)
  /\ at \in {"byte", "second"} => sent < Len(packet)
  /\ received \in Seq(Bytes) /\ Len(received) <= Size
  /\ escaped \in BOOLEAN
  /\ returned \in Seq(Bytes) /\ Len(returned) <= Size
  /\ line \in {"clean", "flushing", "mending", "dirty"}

(* Slip is a line of packets that repairs itself.  The END that Send()     *)
(* begins with does what its comment says, unless the noise ends in an     *)
(* ESC: this swallows the END, and the packet is lost, but no other.       *)
Line == INSTANCE PacketLine WITH sending <- at # "idle", Received <- Seq(Bytes)
RepairsItself == Line!Spec

(* While the line is clean the receiver has exactly the bytes that are     *)
(* through, as far as it has room for them, whatever bytes these are.      *)
InStep ==
  line = "clean" =>
    /\ escaped <=> at = "second"
    /\ IF at \in {"idle", "first"}
         THEN received = <<>>
         ELSE received = [i \in 1 .. (IF sent < Size THEN sent ELSE Size) |-> packet[i]]

(* Recv() does not wait for ever: a packet that is sent on a clean line is *)
(* returned, or there is a fault.                                          *)
PacketsGetThrough ==
  at = "first" /\ line = "clean" /\ packet # <<>> ~>
    returned = Line!Truncate(packet) \/ line = "dirty"
=============================================================================
