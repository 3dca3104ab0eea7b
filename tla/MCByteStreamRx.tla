--------------------------- MODULE MCByteStreamRx ---------------------------
(***************************************************************************)
(* ByteStreamRx for TLC: finite with the bounds on bytes and connections.  *)
(***************************************************************************)
EXTENDS ByteStreamRx
=============================================================================
