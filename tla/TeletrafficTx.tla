---------------------------- MODULE TeletrafficTx -----------------------------
(***************************************************************************)
(* teletraffic::TeletrafficTx (teletraffic_tx.cpp): the service that sends *)
(* numbered Ethernet frames as fast as it can, and the statistics that any *)
(* thread of the application may ask for.  The callbacks are called as     *)
(* ServiceLifecycle says, and the table of interfaces in which the         *)
(* constructor and ServiceInitialize() look theirs up is an                *)
(* InterfaceRegister, which NetifTable implements.                         *)
(*                                                                         *)
(* libpcap is outside: the device may not open, may not be an Ethernet     *)
(* device, and may refuse any frame.  Of the frame only its sequence       *)
(* number is kept.                                                         *)
(***************************************************************************)
EXTENDS Integers, Sequences

CONSTANTS
  Names, Macs,       \* the names of the interfaces, their physical addresses
  Interface,         \* source_.interface
  Zeroes,            \* 00:00:00:00:00:00
  Unset,             \* an address that was not yet set
  Observers,         \* the threads that call Stats()
  MaxPackets         \* bound: the frames that are sent or refused

ASSUME TxAssumption ==
  /\ Interface \in Names
  /\ "free" \notin Observers
  /\ MaxPackets \in Nat

VARIABLES
  table, copy,             \* the table of interfaces, and the copies of it
  phase, running, asked,   \* the life cycle
  step,                    \* where the constructor or the callback is
  source_mac,              \* source_.source_mac
  txdev,                   \* txdev_: "NULL", "open" or "closed"
  buffers,                 \* errbuf_ and pkt_sent_: "allocated" or "freed"
  number,                  \* *pkt_count_p: the sequence number in the frame
  pkt_count, error_count,  \* pkt_count, error_count
  wire,                    \* the sequence numbers of the frames that were sent
  lock,                    \* lock_: the thread that holds it, or "free"
  st, st_copy,             \* st_ and st_copy_: sent_packet_count
  observer                 \* what each observer is doing

netif  == <<table, copy>>
life   == <<phase, running, asked>>
sender == <<txdev, buffers, number, pkt_count, error_count, wire>>
stats  == <<lock, st, st_copy, observer>>
vars   == <<netif, life, step, source_mac, sender, stats>>

L == INSTANCE ServiceLifecycle

\* The table gives each interface its physical address.  Left out are those
\* that have none (mac_address_valid is false): the constructor does not ask
\* and copies what is in mac_address.  Only one thread of this object looks
\* at the table.
Tables  == UNION {[ns -> Macs] : ns \in SUBSET Names}
NoTable == [n \in {} |-> Unset]
T == INSTANCE InterfaceRegister WITH Threads <- {Interface}, Empty <- NoTable

\* taken: the count that Stats() has copied for it; seen: the one it has read
\* last through the reference.
Observer == [at : {"idle", "copy", "reference"}, taken : Nat, seen : Nat]
Observing(at, taken, seen) == [at |-> at, taken |-> taken, seen |-> seen]

\* The constructor is given no source_mac and looks for one.  Until
\* ServiceInitialize() the counters have no value; nobody reads them.
Init ==
  /\ T!Init
  /\ L!Init
  /\ step = "update"
  /\ source_mac = Unset
  /\ txdev = "NULL"
  /\ buffers = "allocated"
  /\ number = 0 /\ pkt_count = 0 /\ error_count = 0
  /\ wire = <<>>
  /\ lock = "free"
  /\ st = 0 /\ st_copy = 0
  /\ observer = [o \in Observers |-> Observing("idle", 0, 0)]

-----------------------------------------------------------------------------
(* The lookup of the interface, in the constructor or ServiceInitialize(): *)
(* NetworkInterfaceTableUpdate(), whose result is not looked at, ...       *)

LookupUpdates ==
  /\ step = "update"
  /\ T!Update \/ UNCHANGED netif
  /\ step' = "copy"
  /\ UNCHANGED <<life, source_mac, sender, stats>>

\* ... NetworkInterfaceTableCopy(), ...
LookupCopies ==
  /\ step = "copy"
  /\ T!Copy(Interface)
  /\ step' = "find"
  /\ UNCHANGED <<life, source_mac, sender, stats>>

\* ... and find().  The copy is a local variable.
Seen  == copy[Interface]
Found == Interface \in DOMAIN Seen

LookupEnds ==
  /\ step = "find"
  /\ step' = "none"
  /\ copy' = [copy EXCEPT ![Interface] = NoTable]
  /\ UNCHANGED table

\* Other services and the application update the table, too.
OtherUpdates ==
  /\ T!Update
  /\ UNCHANGED <<life, step, source_mac, sender, stats>>

-----------------------------------------------------------------------------
(* The constructor.  Nobody has the object before it is done.              *)
Constructing == running = "none" /\ step # "none"

Constructed ==
  /\ Constructing
  /\ LookupEnds
  /\ source_mac' = IF Found THEN Seen[Interface] ELSE Zeroes
  /\ UNCHANGED <<life, sender, stats>>

Ask ==
  /\ ~Constructing
  /\ \E q \in L!Requests : L!Ask(q)
  /\ UNCHANGED <<netif, step, source_mac, sender, stats>>

Lifecycle ==
  /\ \/ L!BeginStart \/ L!EndStart
     \/ L!BeginStop  \/ L!EndStop
     \/ L!Close      \/ L!BeginFinalize
  /\ UNCHANGED <<netif, step, source_mac, sender, stats>>

-----------------------------------------------------------------------------
(* ServiceInitialize().                                                    *)
BeginInitialize ==
  /\ L!BeginInitialize
  /\ step' = "update"
  /\ UNCHANGED <<netif, source_mac, sender, stats>>

\* The interface is not there, ifconfig or pcap_open_live fails ...
NoDevice ==
  /\ running = "Initialize"
  /\ LookupEnds
  /\ L!EndInitialize
  /\ phase' = "failed"
  /\ UNCHANGED <<source_mac, sender, stats>>

\* ... or it is not an Ethernet device, and stays open ...
BadDevice ==
  /\ running = "Initialize"
  /\ LookupEnds
  /\ Found
  /\ L!EndInitialize
  /\ phase' = "failed"
  /\ txdev' = "open"
  /\ UNCHANGED <<source_mac, buffers, number, pkt_count, error_count, wire, stats>>

\* Mutant: a device that cannot be opened is not noticed.
InitializedAnyway ==
  /\ running = "Initialize"
  /\ LookupEnds
  /\ Found
  /\ L!EndInitialize
  /\ phase' = "stopped"
  /\ number' = 0 /\ pkt_count' = 0 /\ error_count' = 0
  /\ UNCHANGED <<source_mac, txdev, buffers, wire, stats>>

\* ... or the frame is made and all is well.
Initialized ==
  /\ running = "Initialize"
  /\ LookupEnds
  /\ Found
  /\ L!EndInitialize
  /\ phase' = "stopped"
  /\ txdev' = "open"
  /\ number' = 0 /\ pkt_count' = 0 /\ error_count' = 0
  /\ UNCHANGED <<source_mac, buffers, wire, stats>>

-----------------------------------------------------------------------------
(* ServiceIteration().                                                     *)
BeginIteration ==
  /\ pkt_count < MaxPackets
  /\ L!BeginIteration
  /\ number' = pkt_count
  /\ step' = "inject"
  /\ UNCHANGED <<netif, source_mac, txdev, buffers, pkt_count, error_count, wire, stats>>

\* pcap_inject sends the frame ...
Inject ==
  /\ step = "inject"
  /\ wire' = Append(wire, number)
  /\ pkt_count' = pkt_count + 1
  /\ step' = "publish"
  /\ UNCHANGED <<netif, life, source_mac, txdev, buffers, number, error_count, stats>>

\* Mutant: a refused frame does not use up its number ...
InjectFailsUncounted ==
  /\ step = "inject"
  /\ error_count' = error_count + 1
  /\ step' = "publish"
  /\ UNCHANGED <<netif, life, source_mac, txdev, buffers, number, pkt_count, wire, stats>>

\* ... or does not.
InjectFails ==
  /\ step = "inject"
  /\ error_count' = error_count + 1
  /\ pkt_count' = pkt_count + 1
  /\ step' = "publish"
  /\ UNCHANGED <<netif, life, source_mac, txdev, buffers, number, wire, stats>>

Publish ==
  /\ step = "publish"
  /\ lock = "free"
  /\ st' = pkt_count
  /\ step' = "none"
  /\ L!EndIteration
  /\ UNCHANGED <<netif, source_mac, sender, lock, st_copy, observer>>

\* ServiceFinalize().
Finalized ==
  /\ L!EndFinalize
  /\ txdev' = IF txdev = "NULL" THEN "NULL" ELSE "closed"
  /\ buffers' = "freed"
  /\ UNCHANGED <<netif, step, source_mac, number, pkt_count, error_count, wire, stats>>

-----------------------------------------------------------------------------
(* Stats(): lock, copy st_ to st_copy_, unlock, return a reference to      *)
(* st_copy_.                                                               *)
\* Mutant: without the lock.
StatsBeginUnlocked(o) ==
  /\ observer[o].at # "copy"
  /\ observer' = [observer EXCEPT ![o] = Observing("copy", st, observer[o].seen)]
  /\ UNCHANGED <<lock, st, st_copy>>

StatsBegin(o) ==
  /\ observer[o].at # "copy"
  /\ lock = "free"
  /\ lock' = o
  /\ observer' = [observer EXCEPT ![o] = Observing("copy", st, observer[o].seen)]
  /\ UNCHANGED <<st, st_copy>>

StatsEnd(o) ==
  /\ observer[o].at = "copy"
  /\ st_copy' = observer[o].taken
  /\ lock' = "free"
  /\ observer' = [observer EXCEPT ![o] = Observing("reference", observer[o].taken, observer[o].seen)]
  /\ UNCHANGED st

\* The caller reads sent_packet_count through the reference, without the lock.
ReadStats(o) ==
  /\ observer[o].at = "reference"
  /\ observer' = [observer EXCEPT ![o] = Observing("reference", observer[o].taken, st_copy)]
  /\ UNCHANGED <<lock, st, st_copy>>

Observes(o) ==
  /\ ~Constructing
  /\ StatsBegin(o) \/ StatsEnd(o) \/ ReadStats(o)
  /\ UNCHANGED <<netif, life, step, source_mac, sender>>

-----------------------------------------------------------------------------
ServiceStep ==
  \/ LookupUpdates \/ LookupCopies \/ Constructed
  \/ Lifecycle
  \/ BeginInitialize \/ NoDevice \/ BadDevice \/ Initialized
  \/ BeginIteration \/ Inject \/ InjectFails \/ Publish
  \/ Finalized

Next ==
  \/ Ask
  \/ ServiceStep
  \/ OtherUpdates
  \/ \E o \in Observers : Observes(o)

Spec == Init /\ [][Next]_vars

-----------------------------------------------------------------------------
TypeOK ==
  /\ table \in Tables /\ copy \in [{Interface} -> Tables]
  /\ L!TypeOK
  /\ step \in {"none", "update", "copy", "find", "inject", "publish"}
  /\ running = "Iteration" <=> step \in {"inject", "publish"}
  /\ source_mac \in Macs \cup {Unset, Zeroes}
  /\ txdev \in {"NULL", "open", "closed"}
  /\ buffers \in {"allocated", "freed"}
  /\ number \in Nat /\ pkt_count \in 0 .. MaxPackets /\ error_count \in Nat
  /\ wire \in Seq(Nat)
  /\ lock \in Observers \cup {"free"}
  /\ st \in Nat /\ st_copy \in Nat
  /\ observer \in [Observers -> Observer]

(* A frame is sent with a device that is open and out of a buffer that is  *)
(* not freed.                                                              *)
SendsWhatItHas == running = "Iteration" => txdev = "open" /\ buffers = "allocated"

(* The receiver can count what was lost on the way by the gaps in the      *)
(* sequence numbers: no number is used twice, they increase, and those     *)
(* that are missing at the source are exactly the refused frames.          *)
NumbersTellTheLoss ==
  /\ \A i \in 1 .. Len(wire) : wire[i] < pkt_count
  /\ \A i, j \in 1 .. Len(wire) : i < j => wire[i] < wire[j]
  /\ Len(wire) + error_count = pkt_count

(* Through the reference that Stats() returns an observer never sees less  *)
(* than it has seen before, nor less than the count at its own call,       *)
(* although the copy it refers to is overwritten for others at any time;   *)
(* and it sees no more than what was sent or refused.                      *)
StatsAreCurrent ==
  /\ \A o \in Observers : observer[o].seen <= st_copy
  /\ \A o \in Observers : observer[o].at = "reference" => observer[o].taken <= st_copy
  /\ st_copy <= st /\ st <= pkt_count

=============================================================================
