--------------------------- MODULE MCByteStreamTx ---------------------------
(***************************************************************************)
(* ByteStreamTx for TLC.  A block is larger than the send buffer, so that  *)
(* write() has to wait for the peer; the counts wrap after a few blocks;   *)
(* descriptor 1 is free, as in a program that has closed its output.       *)
(***************************************************************************)
EXTENDS ByteStreamTx

MCDescriptors == {1, 3}
=============================================================================
