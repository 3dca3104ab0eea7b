------------------------------ MODULE PacketLine ------------------------------
(***************************************************************************)
(* What Slip makes of a line that loses and invents characters: a line of  *)
(* packets that repairs itself.  While it is "clean", what is received is  *)
(* what was sent, as far as the receiver has room for it.  A fault makes   *)
(* it "dirty", and Recv() may return anything.  The next packet either     *)
(* flushes the line and arrives, or mends it and is lost; the one after it *)
(* arrives in any case, if there is no other fault.                        *)
(***************************************************************************)
EXTENDS Integers, Sequences

CONSTANTS
  Packets,    \* what may be sent
  Received,   \* what may be received
  Size        \* the bytes that the receiver has room for

VARIABLES
  sending,    \* Send() is in progress
  packet,     \* its packet
  returned,   \* what Recv() has returned last during this Send(), or <<>>
  line        \* "clean", "flushing", "mending" or "dirty"

vars == <<sending, packet, returned, line>>

Truncate(p) == [i \in 1 .. (IF Len(p) < Size THEN Len(p) ELSE Size) |-> p[i]]

Init ==
  /\ sending = FALSE
  /\ packet = <<>>
  /\ returned = <<>>
  /\ line = "clean"

Begin ==
  /\ ~sending
  /\ sending' = TRUE
  /\ packet' \in Packets
  /\ returned' = <<>>
  /\ IF line = "clean" THEN line' = "clean" ELSE line' \in {"flushing", "mending"}

\* Before the first byte of a packet: what was there before is received.
Flush ==
  /\ sending
  /\ line = "flushing"
  /\ line' = "clean"
  /\ returned' \in Received
  /\ UNCHANGED <<sending, packet>>

\* Only while the line is not clean something else than the packet comes.
Junk ==
  /\ sending
  /\ line \in {"mending", "dirty"}
  /\ returned' \in Received
  /\ UNCHANGED <<sending, packet, line>>

\* An empty packet is not received.
End ==
  /\ sending
  /\ line # "flushing"
  /\ sending' = FALSE
  /\ IF line = "clean"
       THEN returned' = IF packet = <<>> THEN returned ELSE Truncate(packet)
       ELSE returned' \in Received
  /\ line' = IF line = "dirty" THEN "dirty" ELSE "clean"
  /\ UNCHANGED packet

Fault ==
  /\ line' = "dirty"
  /\ returned' \in Received
  /\ sending' \in {sending, FALSE}
  /\ UNCHANGED packet

Next == Begin \/ Flush \/ Junk \/ End \/ Fault

Spec == Init /\ [][Next]_vars
=============================================================================
