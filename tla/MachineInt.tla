----------------------------- MODULE MachineInt -----------------------------
(***************************************************************************)
(* An int.  Both receivers count and measure in 64 bits (uint64_t), and    *)
(* struct Window of TeletrafficRx keeps the results in int fields: the     *)
(* assignments of teletraffic_rx.cpp:209-211 take the value modulo 2^32    *)
(* into the range of an int (g++ defines it so).                           *)
(***************************************************************************)
EXTENDS Integers

CONSTANT
  IntRange    \* the number of values of an int, 2^32 in the code

ASSUME IntAssumption == IntRange \in Nat \ {0} /\ IntRange % 2 = 0

AsInt(n) ==
  LET low == n % IntRange IN IF 2 * low < IntRange THEN low ELSE low - IntRange

\* An int can hold n.
FitsInt(n) == 2 * n < IntRange
=============================================================================
