-------------------------------- MODULE MCSlip --------------------------------
(***************************************************************************)
(* Slip for TLC: all packets of up to two of the special bytes, and two    *)
(* that are too long for the receiver.                                     *)
(***************************************************************************)
EXTENDS Slip

MCPackets ==
  UNION {[1 .. n -> Bytes] : n \in 0 .. 2}
    \cup {<<ESC, ESC_END, END>>, <<END, ESC_ESC, ESC>>}
=============================================================================
