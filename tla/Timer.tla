-------------------------------- MODULE Timer --------------------------------
(***************************************************************************)
(* What the stopwatch of stopwatch.cpp shows: a count that goes with the   *)
(* time while it runs, and begins at zero with each Start(), as "since the *)
(* last Start()" in stopwatch.h says.  Lines 58 and 59 of stopwatch.h have *)
(* Start() go on from the old count; the run clock_restart is about that.  *)
(***************************************************************************)
EXTENDS Naturals

VARIABLES
  count,     \* the count that it shows
  running    \* it runs

vars == <<count, running>>

Init == count = 0 /\ running = FALSE

Advance == running /\ count' > count /\ UNCHANGED running
Start   == ~running /\ running' = TRUE /\ count' = 0
Stop    == running' = FALSE /\ UNCHANGED count
Reset   == count' = 0 /\ UNCHANGED running

Next == Advance \/ Start \/ Stop \/ Reset

Spec == Init /\ [][Next]_vars
=============================================================================
