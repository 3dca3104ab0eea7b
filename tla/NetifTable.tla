------------------------------ MODULE NetifTable ------------------------------
(***************************************************************************)
(* The table of network interfaces (netif_table.cpp), one per process, and *)
(* the two functions that any thread may call on it.                       *)
(* NetworkInterfaceTableUpdate() asks the kernel for a list of addresses   *)
(* before it takes the lock, and then fills the table entry by entry under *)
(* it.  The list has an entry per interface and address family; several    *)
(* entries of one interface are put together in one row of the table.      *)
(*                                                                         *)
(* The kernel is outside: Readings are the lists it may give, and it may   *)
(* fail.  mac stands for the physical address and the statistics of a row, *)
(* ip for the IPv4 address, the netmask and the flags; they come together. *)
(***************************************************************************)
EXTENDS Integers, Sequences

CONSTANTS
  Threads,     \* the threads that call these functions
  Names,       \* the names of the interfaces
  Values,      \* the addresses
  Invalid,     \* what an address is that was never set
  Readings,    \* the lists that getifaddrs() may return
  MaxReadings  \* bound: the successful calls of getifaddrs()

Families == {"packet", "inet", "inet6"}

\* addressed: ifa_addr is not NULL.
Entry == [name : Names, family : Families, addressed : BOOLEAN, value : Values]

ASSUME NetifAssumption ==
  /\ Readings \subseteq Seq(Entry)
  /\ "free" \notin Threads
  /\ MaxReadings \in Nat

VARIABLES
  s_table,    \* s_table
  s_lock,     \* s_lock: the thread that holds it, or "free"
  update,     \* where each thread is in its NetworkInterfaceTableUpdate()
  last,       \* what has become of its last one, see Lasts
  copy,       \* the table that each thread has copied last
  readings    \* the lists that the kernel has given so far

vars == <<s_table, s_lock, update, last, copy, readings>>

Row     == [mac : Values \cup {Invalid}, ip : Values \cup {Invalid}]
NoRow   == [mac |-> Invalid, ip |-> Invalid]
Tables  == UNION {[ns -> Row] : ns \in SUBSET Names}
NoTable == [n \in {} |-> NoRow]

\* list: what the kernel has given; filled: the entries that are in the table.
Updating == [at : {"none", "lock", "fill"}, list : Seq(Entry), filled : Nat]
At(place, list, filled) == [at |-> place, list |-> list, filled |-> filled]

\* "failed": it returned 1, or there was none.  "alone": no other thread has
\* been updating since the list was read.  "shared": another has.
Lasts == {"failed", "alone", "shared"}

Init ==
  /\ s_table = NoTable
  /\ s_lock = "free"
  /\ update = [t \in Threads |-> At("none", <<>>, 0)]
  /\ last = [t \in Threads |-> "failed"]
  /\ copy = [t \in Threads |-> NoTable]
  /\ readings = <<>>

-----------------------------------------------------------------------------
(* NetworkInterfaceTableUpdate().                                          *)
\* Mutant: the table is emptied first.
ReadFailsEmptied(t) ==
  /\ update[t].at = "none"
  /\ s_lock = "free"
  /\ last' = [last EXCEPT ![t] = "failed"]
  /\ s_table' = NoTable
  /\ UNCHANGED <<s_lock, update, copy, readings>>

\* getifaddrs() fails ...
ReadFails(t) ==
  /\ update[t].at = "none"
  /\ last' = [last EXCEPT ![t] = "failed"]
  /\ UNCHANGED <<s_table, s_lock, update, copy, readings>>

\* ... or gives a list, before the lock is taken.
ReadInterfaces(t) ==
  /\ update[t].at = "none"
  /\ Len(readings) < MaxReadings
  /\ \E list \in Readings :
       /\ update' = [update EXCEPT ![t] = At("lock", list, 0)]
       /\ readings' = Append(readings, list)
  /\ last' = [u \in Threads |->
       IF u = t THEN IF \A v \in Threads \ {t} : update[v].at = "none" THEN "alone" ELSE "shared"
       ELSE IF last[u] = "alone" THEN "shared" ELSE last[u]]
  /\ UNCHANGED <<s_table, s_lock, copy>>

\* Mutant: the rows of the update before are kept.
LockTableKeeps(t) ==
  /\ update[t].at = "lock"
  /\ s_lock = "free"
  /\ s_lock' = t
  /\ update' = [update EXCEPT ![t] = At("fill", update[t].list, 0)]
  /\ UNCHANGED <<s_table, last, copy, readings>>

LockTable(t) ==
  /\ update[t].at = "lock"
  /\ s_lock = "free"
  /\ s_lock' = t
  /\ s_table' = NoTable
  /\ update' = [update EXCEPT ![t] = At("fill", update[t].list, 0)]
  /\ UNCHANGED <<last, copy, readings>>

\* What an entry says of its interface.  The row is made if there is none.
Known(table, n) == IF n \in DOMAIN table THEN table[n] ELSE NoRow

Entered(table, e) ==
  [n \in DOMAIN table \cup {e.name} |->
     IF n # e.name THEN table[n]
     ELSE [mac |-> IF e.family = "packet" THEN e.value ELSE Known(table, n).mac,
           ip  |-> IF e.family = "inet"   THEN e.value ELSE Known(table, n).ip]]

\* Mutant: an entry without an address is not passed over.
FillTableStuck(t) ==
  LET filled == update[t].filled
      e      == update[t].list[filled + 1] IN
  /\ update[t].at = "fill"
  /\ filled < Len(update[t].list)
  /\ s_table' = IF e.addressed THEN Entered(s_table, e) ELSE s_table
  /\ update' = [update EXCEPT ![t] = At("fill", update[t].list, IF e.addressed THEN filled + 1 ELSE filled)]
  /\ UNCHANGED <<s_lock, last, copy, readings>>

FillTable(t) ==
  LET filled == update[t].filled
      e      == update[t].list[filled + 1] IN
  /\ update[t].at = "fill"
  /\ filled < Len(update[t].list)
  /\ s_table' = IF e.addressed THEN Entered(s_table, e) ELSE s_table
  /\ update' = [update EXCEPT ![t] = At("fill", update[t].list, filled + 1)]
  /\ UNCHANGED <<s_lock, last, copy, readings>>

UnlockTable(t) ==
  /\ update[t].at = "fill"
  /\ update[t].filled = Len(update[t].list)
  /\ s_lock' = "free"
  /\ update' = [update EXCEPT ![t] = At("none", update[t].list, update[t].filled)]
  /\ UNCHANGED <<s_table, last, copy, readings>>

-----------------------------------------------------------------------------
(* NetworkInterfaceTableCopy().                                            *)
\* Mutant: without the lock.
CopyTableUnlocked(t) ==
  /\ update[t].at = "none"
  /\ copy' = [copy EXCEPT ![t] = s_table]
  /\ UNCHANGED <<s_table, s_lock, update, last, readings>>

CopyTable(t) ==
  /\ update[t].at = "none"
  /\ s_lock = "free"
  /\ copy' = [copy EXCEPT ![t] = s_table]
  /\ UNCHANGED <<s_table, s_lock, update, last, readings>>

UpdateGoesOn(t) == LockTable(t) \/ FillTable(t) \/ UnlockTable(t)

Next ==
  \E t \in Threads : ReadFails(t) \/ ReadInterfaces(t) \/ UpdateGoesOn(t) \/ CopyTable(t)

Spec == Init /\ [][Next]_vars

\* Strong fairness: the mutex is not kept from a thread for ever by others that
\* take it again and again.
FairSpec == Spec /\ \A t \in Threads : SF_vars(UpdateGoesOn(t))

-----------------------------------------------------------------------------
TypeOK ==
  /\ s_table \in Tables
  /\ s_lock \in Threads \cup {"free"}
  /\ update \in [Threads -> Updating]
  /\ \A t \in Threads : update[t].at = "fill" <=> s_lock = t
  /\ \A t \in Threads : update[t].filled <= Len(update[t].list)
  /\ last \in [Threads -> Lasts]
  /\ copy \in [Threads -> Tables]
  /\ readings \in Seq(Readings)

(* The table that a list describes: each interface has a row, with the     *)
(* last of its addresses of each family.                                   *)
Named(list, k, n) == \E i \in 1 .. k : list[i].addressed /\ list[i].name = n
Entries(list, k, n, family) ==
  {i \in 1 .. k : list[i].addressed /\ list[i].name = n /\ list[i].family = family}
Latest(list, k, n, family) ==
  LET given == Entries(list, k, n, family) IN
  IF given = {} THEN Invalid
  ELSE list[CHOOSE i \in given : \A j \in given : j <= i].value
Described(list, k) ==
  [n \in {m \in Names : Named(list, k, m)} |->
     [mac |-> Latest(list, k, n, "packet"), ip |-> Latest(list, k, n, "inet")]]

(* The table as the other threads will find it: an update has taken place  *)
(* when it has the lock.                                                   *)
Settled ==
  IF s_lock = "free" THEN s_table
  ELSE Described(update[s_lock].list, Len(update[s_lock].list))

Register == INSTANCE InterfaceRegister WITH
  Tables <- {Described(list, Len(list)) : list \in Readings},
  Empty  <- NoTable,
  table  <- Settled

-----------------------------------------------------------------------------
(* Copy and update take place at once, although the table is filled entry  *)
(* by entry: no copy is half an update or a mixture of two.                *)
AtomicTable == Register!Spec

(* A thread that was the only one to update finds what it has read.  (An   *)
(* update that overlaps may put an older list over a newer one: the list   *)
(* is read before the lock is taken.)                                      *)
OwnUpdateIsSeen ==
  \A t \in Threads : last[t] = "alone" /\ update[t].at = "none" =>
    Settled = Described(update[t].list, Len(update[t].list))

(* Updates that fail or overlap do not lose an interface: after a thread's *)
(* own update the table has every interface that is in all lists so far.   *)
PresentIsListed ==
  \A t \in Threads : last[t] # "failed" /\ update[t].at = "none" =>
    \A n \in Names :
      (\A i \in 1 .. Len(readings) : Named(readings[i], Len(readings[i]), n)) =>
        n \in DOMAIN Settled

(* Every update returns, although others lock the table in between.        *)
UpdatesReturn == \A t \in Threads : update[t].at # "none" ~> update[t].at = "none"
=============================================================================
