--------------------------- MODULE MCTeletrafficRx ---------------------------
(***************************************************************************)
(* TeletrafficRx for TLC.  With two slots the ring wraps and a reader of   *)
(* the last two windows makes more than one access; with two packets one   *)
(* can be in a window, or in an overwritten one, while another is counted. *)
(* An int of three bits holds the bytes of one packet and not of two.      *)
(***************************************************************************)
EXTENDS TeletrafficRx

CONSTANT Length   \* of every packet

MCLengths == {Length}

\* The windows from packet f to packet t.
MCWindow ==
  {[bytes |-> AsInt(Length * (t - f)), packets |-> AsInt(t - f),
    from |-> [bytes |-> Length * f, packets |-> f], to |-> [bytes |-> Length * t, packets |-> t]] :
      f, t \in 0 .. MaxPackets}
=============================================================================
