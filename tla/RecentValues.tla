---------------------------- MODULE RecentValues ----------------------------
(***************************************************************************)
(* What a CircularBuffer promises: it remembers the last Capacity values   *)
(* pushed since the last Clear(), the newest first ("[0] es el último      *)
(* elemento introducido, [1] es el penúltimo", circular_buffer.h).         *)
(***************************************************************************)
EXTENDS Integers, Sequences

CONSTANTS Capacity, Value

VARIABLE recent    \* recent[i+1] is element [i]

Init == recent = <<>>

Push(v) ==
  recent' = SubSeq(<<v>> \o recent, 1,
                   IF Len(recent) < Capacity THEN Len(recent) + 1 ELSE Capacity)

Clear == recent' = <<>>

Next == Clear \/ \E v \in Value : Push(v)

Spec == Init /\ [][Next]_recent
=============================================================================
