--------------------------- MODULE MCTeletrafficTx ---------------------------
(***************************************************************************)
(* TeletrafficTx for TLC.  With two observers one can overwrite the copy   *)
(* that the other refers to; with two packets a refused frame can come     *)
(* before, or after, one that is sent.                                     *)
(***************************************************************************)
EXTENDS TeletrafficTx

CONSTANTS eth, m

MCNames == {eth}
MCMacs  == {m}
=============================================================================
