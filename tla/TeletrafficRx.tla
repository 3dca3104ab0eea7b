---------------------------- MODULE TeletrafficRx ----------------------------
(***************************************************************************)
(* teletraffic::TeletrafficRx (teletraffic_rx.cpp): the service that       *)
(* counts the Ethernet frames of one protocol and closes a measurement     *)
(* window every window_duration_.  It extends the windows and the readers  *)
(* of WindowStore by the five callbacks of the service thread; those are   *)
(* called as ServiceLifecycle says, which ServiceThread implements.        *)
(*                                                                         *)
(* Time is kept only as far as the code looks at it: watch is "over" when  *)
(* more than window_duration_ has gone by since the last Reset().  Rates   *)
(* are left out: a window has the packets and bytes they are computed      *)
(* from, as the ints they are kept in.                                     *)
(*                                                                         *)
(* recv_bytes, mark and the fields from and to of a window are history:    *)
(* how much had been received in all when a window began and ended.  The   *)
(* code does not have them; with them a window can be compared with what   *)
(* really came in while it lasted.                                         *)
(***************************************************************************)
EXTENDS WindowStore, MachineInt

CONSTANTS
  Lengths,      \* the lengths of the frames on the wire, header_.len
  MaxPackets    \* bound: the frames that arrive in a behaviour

ASSUME RxAssumption == Lengths \subseteq Nat \ {0} /\ MaxPackets \in Nat

VARIABLES
  phase, running, asked,   \* the life cycle
  step,                    \* where the callback is
  rxdev,                   \* rxdev_: "NULL" or an "open" capture
  watch,                   \* watch_: "stopped", "running" or "over"
  bytes, packets,          \* bytes_, packets_: the window being measured
  recv_packet_count,       \* st_.recv_packet_count
  recv_bytes,              \* history: the bytes of those packets
  mark                     \* history: Received when the current window began

life    == <<phase, running, asked>>
current == <<bytes, packets>>
total   == <<recv_packet_count, recv_bytes>>
vars    == <<store, life, step, rxdev, watch, current, total, mark>>

L == INSTANCE ServiceLifecycle

Totals  == [bytes : Nat, packets : Nat]
Nothing == [bytes |-> 0, packets |-> 0]

\* All that was received so far.
Received == [bytes |-> recv_bytes, packets |-> recv_packet_count]

MeasuredWindows == [bytes : Int, packets : Int, from : Totals, to : Totals]
NoTraffic       == [bytes |-> 0, packets |-> 0, from |-> Nothing, to |-> Nothing]

Init ==
  /\ StoreInit
  /\ L!Init
  /\ step = "none"
  /\ rxdev = "NULL"
  /\ watch = "stopped"
  /\ bytes = 0
  /\ packets = 0
  /\ recv_packet_count = 0
  /\ recv_bytes = 0
  /\ mark = Nothing

-----------------------------------------------------------------------------
(* The application, the clock, and callbacks that do nothing here.         *)

Ask ==
  /\ \E q \in L!Requests : L!Ask(q)
  /\ UNCHANGED <<store, step, rxdev, watch, current, total, mark>>

Tick ==
  /\ watch = "running"
  /\ watch' = "over"
  /\ UNCHANGED <<store, life, step, rxdev, current, total, mark>>

\* ServiceStart() and ServiceStop() are empty; the rest begins or goes on
\* as the service thread wants.
Lifecycle ==
  /\ \/ L!BeginInitialize
     \/ L!BeginStart \/ L!EndStart
     \/ L!BeginStop  \/ L!EndStop
     \/ L!Close      \/ L!BeginFinalize
  /\ UNCHANGED <<store, step, rxdev, watch, current, total, mark>>

-----------------------------------------------------------------------------
(* ServiceInitialize().  It gives up before the capture is opened (no such *)
(* interface, ifconfig or pcap_open_live fails), ...                       *)
NoDevice ==
  /\ L!EndInitialize
  /\ phase' = "failed"
  /\ UNCHANGED <<store, step, rxdev, watch, current, total, mark>>

\* ... or after (not an Ethernet device, no direction, no filter) ...
BadDevice ==
  /\ L!EndInitialize
  /\ phase' = "failed"
  /\ rxdev' = "open"
  /\ UNCHANGED <<store, step, watch, current, total, mark>>

\* ... or succeeds.
\* Mutant: a capture that cannot be opened is not noticed.
InitializedAnyway ==
  /\ L!EndInitialize
  /\ phase' = "stopped"
  /\ watch' = "running"
  /\ UNCHANGED <<store, step, rxdev, current, total, mark>>

Initialized ==
  /\ L!EndInitialize
  /\ phase' = "stopped"
  /\ rxdev' = "open"
  /\ watch' = "running"
  /\ UNCHANGED <<store, step, current, total, mark>>

-----------------------------------------------------------------------------
(* ServiceIteration().                                                     *)

BeginIteration ==
  /\ L!BeginIteration
  /\ step' = "sniff"
  /\ UNCHANGED <<store, rxdev, watch, current, total, mark>>

\* pcap_next returns a frame, or NULL after 10 ms.
Sniff ==
  /\ step = "sniff"
  /\ \/ recv_packet_count < MaxPackets /\ step' = "count"
     \/ step' = "window"
  /\ UNCHANGED <<store, life, rxdev, watch, current, total, mark>>

CountPacket ==
  /\ step = "count"
  /\ lock = "free"
  /\ recv_packet_count' = recv_packet_count + 1
  /\ packets' = packets + 1
  /\ \E len \in Lengths : bytes' = bytes + len /\ recv_bytes' = recv_bytes + len
  /\ step' = "window"
  /\ UNCHANGED <<store, life, rxdev, watch, mark>>

\* us = watch_.ElapsedMicroseconds(); the window is over or it is not.
CheckWindow ==
  /\ step = "window"
  /\ IF watch = "over"
       THEN step' = "push" /\ UNCHANGED life
       ELSE step' = "none" /\ L!EndIteration
  /\ UNCHANGED <<store, rxdev, watch, current, total, mark>>

\* Window w: 64 bits go into int fields.
Closed == [bytes |-> AsInt(bytes), packets |-> AsInt(packets), from |-> mark, to |-> Received]

\* Mutant: the packets of a window are counted in the next one, too.
PushWindowKeeps ==
  /\ step = "push"
  /\ LockedPush(Closed)
  /\ L!EndIteration
  /\ step' = "none"
  /\ watch' = "running"
  /\ bytes' = 0
  /\ mark' = Received
  /\ UNCHANGED <<rxdev, packets, total>>

\* Mutant: the window is pushed without the lock.
PushWindowUnlocked ==
  /\ step = "push"
  /\ Push(Closed)
  /\ L!EndIteration
  /\ step' = "none"
  /\ watch' = "running"
  /\ bytes' = 0
  /\ packets' = 0
  /\ mark' = Received
  /\ UNCHANGED <<lock, reader, rxdev, total>>

\* Mutant: the stopwatch is not reset.
PushWindowNoReset ==
  /\ step = "push"
  /\ LockedPush(Closed)
  /\ L!EndIteration
  /\ step' = "none"
  /\ bytes' = 0
  /\ packets' = 0
  /\ mark' = Received
  /\ UNCHANGED <<rxdev, watch, total>>

PushWindow ==
  /\ step = "push"
  /\ LockedPush(Closed)
  /\ L!EndIteration
  /\ step' = "none"
  /\ watch' = "running"
  /\ bytes' = 0
  /\ packets' = 0
  /\ mark' = Received
  /\ UNCHANGED <<rxdev, total>>

\* ServiceFinalize().
Finalized ==
  /\ L!EndFinalize
  /\ rxdev' = "NULL"
  /\ UNCHANGED <<store, step, watch, current, total, mark>>

-----------------------------------------------------------------------------
ReaderActs(r) ==
  /\ ReaderCall(r) \/ WindowCount(r) \/ ReaderStep(r)
  /\ UNCHANGED <<life, step, rxdev, watch, current, total, mark>>

ServiceStep ==
  \/ Lifecycle
  \/ NoDevice \/ BadDevice \/ Initialized
  \/ BeginIteration \/ Sniff \/ CountPacket \/ CheckWindow \/ PushWindow
  \/ Finalized

Next ==
  \/ Ask
  \/ Tick
  \/ ServiceStep
  \/ \E r \in Readers : ReaderActs(r)

Spec == Init /\ [][Next]_vars

\* Strong fairness: the mutex is not kept from the service thread for ever
\* by readers that take it again and again.
Fairness ==
  /\ SF_vars(ServiceStep)
  /\ \A r \in Readers : SF_vars(ReaderActs(r) /\ reader[r].at # "idle")

FairSpec == Spec /\ Fairness

-----------------------------------------------------------------------------
(* Types, and what the callback's steps say of the life cycle.             *)
TypeOK ==
  /\ StoreTypeOK
  /\ L!TypeOK
  /\ step \in {"none", "sniff", "count", "window", "push"}
  /\ step # "none" <=> running = "Iteration"
  /\ rxdev \in {"NULL", "open"}
  /\ watch \in {"stopped", "running", "over"}
  /\ bytes \in Nat /\ packets \in Nat /\ Received \in Totals /\ mark \in Totals

(* ServiceIteration() asserts that rxdev_ is not NULL.                     *)
SniffsAnOpenDevice == running = "Iteration" => rxdev = "open"

(* Every packet and every byte received is in exactly one window, the one  *)
(* being measured included: a window begins where the one before it ends,  *)
(* the first with the first packet (as long as it is not overwritten), and *)
(* the numbers of each are those of what came in from its beginning to its *)
(* end, if an int can hold them.                                           *)
Tells(w) ==
  LET in == [bytes   |-> w.to.bytes - w.from.bytes,
             packets |-> w.to.packets - w.from.packets] IN
  /\ FitsInt(in.bytes) => w.bytes = in.bytes
  /\ FitsInt(in.packets) => w.packets = in.packets

Begin(i) == IF i < 0 THEN mark ELSE Get(i).from

EveryPacketInOneWindow ==
  /\ bytes = recv_bytes - mark.bytes
  /\ packets = recv_packet_count - mark.packets
  /\ \A i \in 0 .. count - 1 : Tells(Get(i)) /\ Get(i).to = Begin(i - 1)
  /\ count < Capacity => Begin(count - 1) = Nothing

(* A window ends although no packet comes: while the service is started, a *)
(* window whose time is over is closed.                                    *)
WindowsEnd == watch = "over" /\ phase = "started" ~> watch # "over" \/ phase # "started"

(* Every call for a rate returns.                                          *)
RatesReturn == \A r \in Readers : reader[r].at # "idle" ~> reader[r].at = "idle"
=============================================================================
