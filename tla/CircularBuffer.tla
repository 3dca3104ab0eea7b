--------------------------- MODULE CircularBuffer ---------------------------
(***************************************************************************)
(* teletraffic::CircularBuffer<T> (circular_buffer.h), the store of the    *)
(* measurement windows of the two receivers.  It is not synchronised: an   *)
(* action is a call, and whoever shares the buffer has to take a lock.     *)
(***************************************************************************)
EXTENDS Integers, Sequences

CONSTANTS
  Capacity,   \* m_capacity
  Value,      \* the elements that are pushed
  Default     \* what T's default constructor makes

ASSUME CapacityAssumption == Capacity \in Nat \ {0}   \* assert(capacity > 0)

VARIABLES
  buffer,     \* m_buffer
  next,       \* m_next: the slot the next Push() writes
  count       \* m_count

ring == <<buffer, next, count>>

Slots == 0 .. Capacity - 1

BufferInit ==
  /\ buffer = [s \in Slots |-> Default]
  /\ next = 0
  /\ count = 0

\* Mutant: m_next is compared with the capacity before it is incremented.
PushWrapsLate(v) ==
  /\ buffer' = [buffer EXCEPT ![next] = v]
  /\ next' = IF next = Capacity THEN 0 ELSE next + 1
  /\ count' = IF count < Capacity THEN count + 1 ELSE count

Push(v) ==
  /\ buffer' = [buffer EXCEPT ![next] = v]
  /\ next' = IF next + 1 = Capacity THEN 0 ELSE next + 1
  /\ count' = IF count < Capacity THEN count + 1 ELSE count

Clear ==
  /\ next' = 0
  /\ count' = 0
  /\ UNCHANGED buffer

\* operator[] asserts idx < m_count and then reads this slot.
\* Mutant: it reads the slot the next Push() writes.
SlotAhead(i) == LET r == next - i IN IF r < 0 THEN r + Capacity ELSE r

Slot(i) == LET r == next - i - 1 IN IF r < 0 THEN r + Capacity ELSE r

Get(i) == buffer[Slot(i)]

\* At(idx) throws std::out_of_range, or reads the same slot.
AtThrows(i) == i < count

BufferNext == Clear \/ \E v \in Value : Push(v)

BufferSpec == BufferInit /\ [][BufferNext]_ring

-----------------------------------------------------------------------------
(* Types; the bounds on next are what keeps Push() inside m_buffer.        *)
BufferTypeOK ==
  /\ buffer \in [Slots -> Value \cup {Default}]
  /\ next \in Slots
  /\ count \in 0 .. Capacity

(* Element [i] is the value pushed i pushes ago, for every i below Size(), *)
(* through any number of wrap-arounds and Clear()s.                        *)
R == INSTANCE RecentValues WITH recent <- [i \in 1 .. count |-> Get(i - 1)]

KeepsTheMostRecent == R!Spec
=============================================================================
