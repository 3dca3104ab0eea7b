------------------------------ MODULE Stopwatch ------------------------------
(***************************************************************************)
(* Stopwatch (stopwatch.cpp), on a clock that never goes back              *)
(* (CLOCK_MONOTONIC_RAW).  Its calls are actions that leave the clock      *)
(* alone: each of them reads it once at the most, and a stopwatch is used  *)
(* by one thread.  time1_ is left out, it is never read before it is set.  *)
(***************************************************************************)
EXTENDS Integers

CONSTANTS
  Milli,      \* the microseconds of a millisecond, 1000 in the code
  MaxTime     \* bound: the last moment

ASSUME StopwatchAssumption == Milli \in Nat \ {0} /\ MaxTime \in Nat

VARIABLES
  now,                       \* the clock, Timestamp()
  time0,                     \* time0_, the moment it counts from
  is_running,                \* is_running_
  elapsed_us, elapsed_ms     \* elapsed_us_ and elapsed_ms_

watch == <<time0, is_running, elapsed_us, elapsed_ms>>

StopwatchInit ==
  /\ now = 0
  /\ time0 = now
  /\ is_running = FALSE
  /\ elapsed_us = 0
  /\ elapsed_ms = 0

Tick == now < MaxTime /\ now' = now + 1

\* What ElapsedMicroseconds() returns.
Elapsed == IF is_running THEN now - time0 ELSE elapsed_us

ElapsedMicroseconds ==
  /\ elapsed_us' = Elapsed
  /\ UNCHANGED <<time0, is_running, elapsed_ms>>

ElapsedMilliseconds ==
  /\ elapsed_us' = Elapsed
  /\ elapsed_ms' = IF is_running THEN elapsed_us' \div Milli ELSE elapsed_ms
  /\ UNCHANGED <<time0, is_running>>

Start ==
  /\ is_running' = TRUE
  /\ IF is_running
       THEN UNCHANGED <<time0, elapsed_us, elapsed_ms>>
       ELSE time0' = now /\ elapsed_us' = 0 /\ elapsed_ms' = 0

\* Mutant: a stopwatch that stands is stopped once more.
StopAgain ==
  /\ is_running' = FALSE
  /\ elapsed_us' = now - time0
  /\ elapsed_ms' = elapsed_us' \div Milli
  /\ UNCHANGED time0

Stop ==
  /\ is_running' = FALSE
  /\ elapsed_us' = Elapsed
  /\ elapsed_ms' = IF is_running THEN elapsed_us' \div Milli ELSE elapsed_ms
  /\ UNCHANGED time0

\* Mutant: it goes on counting from the same moment.
ResetElapsed ==
  /\ elapsed_us' = 0 /\ elapsed_ms' = 0
  /\ UNCHANGED <<time0, is_running>>

Reset ==
  /\ time0' = now /\ elapsed_us' = 0 /\ elapsed_ms' = 0
  /\ UNCHANGED is_running

-----------------------------------------------------------------------------
StopwatchTypeOK ==
  /\ now \in 0 .. MaxTime
  /\ time0 \in 0 .. now
  /\ is_running \in BOOLEAN
  /\ elapsed_us \in 0 .. now - time0
  /\ elapsed_ms \in 0 .. elapsed_us

(* Microseconds and milliseconds of a stopwatch that stands are the same   *)
(* time, although the one is read without the other while it runs.         *)
MillisecondsFollow == ~is_running => elapsed_ms = elapsed_us \div Milli

(* A stopwatch that has been stopped is started again "without res*etting  *)
(* the elapsed count" (stopwatch.h:59).  The code sets it to zero.         *)
RestartGoesOn == [][~is_running /\ is_running' => Elapsed' >= Elapsed]_watch

(* Whoever calls it, and in whatever order, a stopwatch shows a Timer.     *)
Shown == INSTANCE Timer WITH count <- Elapsed, running <- is_running
ShowsTheTime == Shown!Spec
=============================================================================
