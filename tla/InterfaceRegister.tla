-------------------------- MODULE InterfaceRegister --------------------------
(***************************************************************************)
(* What netif_table.h promises of the table of network interfaces, which   *)
(* all threads of the process share: NetworkInterfaceTableUpdate() replaces *)
(* the whole table by the complete list of one moment, and                 *)
(* NetworkInterfaceTableCopy() gives the caller the whole table.  Each of  *)
(* them takes place at once.  What the header says of interfaces that are  *)
(* DOWN (line 115) is not part of it: the code lists them, too.            *)
(***************************************************************************)
CONSTANTS
  Threads,   \* the threads that call
  Tables,    \* the tables that an update can write
  Empty      \* the table before the first update

VARIABLES
  table,     \* the table of the process
  copy       \* the copy that each thread has made last

vars == <<table, copy>>

Init ==
  /\ table = Empty
  /\ copy = [t \in Threads |-> Empty]

Update ==
  /\ table' \in Tables
  /\ UNCHANGED copy

Copy(t) ==
  /\ copy' = [copy EXCEPT ![t] = table]
  /\ UNCHANGED table

Next == Update \/ \E t \in Threads : Copy(t)

Spec == Init /\ [][Next]_vars
=============================================================================
