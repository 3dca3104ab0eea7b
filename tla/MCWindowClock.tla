---------------------------- MODULE MCWindowClock ----------------------------
(***************************************************************************)
(* WindowClock for TLC: a duration of four is too long for an int, and     *)
(* three windows of two, or one that is too long and others before and     *)
(* after it, fit into the time.                                            *)
(***************************************************************************)
EXTENDS WindowClock
=============================================================================
