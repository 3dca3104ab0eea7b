------------------------- MODULE TeletrafficTx_proofs -------------------------
(***************************************************************************)
(* TeletrafficTx for any number of observers and of frames: what is sent,  *)
(* what is counted, and what Stats() shows of it.                          *)
(***************************************************************************)
EXTENDS TeletrafficTx, TLAPS

-----------------------------------------------------------------------------
(* The inductive invariant.  Where the constructor and the callbacks are,  *)
(* and what the service has in each phase.                                 *)
PlaceOK ==
  /\ running = "Iteration" => phase = "started"
  /\ running = "Initialize" => phase = "new"
  /\ running = "none" /\ step # "none" => phase = "new"
  /\ running \notin {"none", "Initialize", "Iteration"} => step = "none"
  /\ running \in {"Start", "Stop"} => phase \in {"stopped", "started"}
  /\ running = "Finalize" => phase = "closing"

HasOK ==
  /\ phase \in {"stopped", "started"} => txdev = "open"
  /\ phase # "finalized" => buffers = "allocated"

(* No frame was sent before ServiceInitialize(); the one that is about to  *)
(* be sent has a number that no other had.                                 *)
CountOK ==
  /\ phase \in {"new", "failed"} => wire = <<>> /\ pkt_count = 0 /\ error_count = 0 /\ st = 0
  /\ step = "inject" => number = pkt_count /\ pkt_count < MaxPackets
  /\ st <= pkt_count
  /\ NumbersTellTheLoss

(* An observer that copies holds the lock, so the count that it has taken  *)
(* is still that of st_.                                                   *)
ObserverOK ==
  /\ st_copy <= st
  /\ \A o \in Observers :
       /\ observer[o].at = "copy" => lock = o /\ observer[o].taken = st
       /\ observer[o].at = "reference" => observer[o].taken <= st_copy
       /\ observer[o].seen <= st_copy

IInv == TypeOK /\ PlaceOK /\ HasOK /\ CountOK /\ ObserverOK

LEMMA InitEstablishes == Init => IInv
<1> SUFFICES ASSUME Init PROVE IInv
  OBVIOUS
<1>1. NoTable \in Tables
  BY DEF NoTable, Tables
<1>2. Observing("idle", 0, 0) \in Observer
  BY DEF Observing, Observer
<1>3. TypeOK
  BY <1>1, <1>2, TxAssumption DEF Init, T!Init, L!Init, L!TypeOK, L!Phases, L!Callbacks, TypeOK
<1>4. PlaceOK /\ HasOK /\ CountOK
  BY TxAssumption DEF Init, L!Init, PlaceOK, HasOK, CountOK, NumbersTellTheLoss
<1>5. ObserverOK
  BY DEF Init, ObserverOK, Observing
<1> QED
  BY <1>3, <1>4, <1>5 DEF IInv

-----------------------------------------------------------------------------
(* Steps of the lookup.                                                    *)
LEMMA LookupStep ==
  ASSUME IInv, LookupUpdates \/ LookupCopies \/ Constructed
  PROVE  IInv'
<1> USE DEF IInv
<1>1. T!Update => table' \in Tables /\ copy' = copy
  BY DEF T!Update
<1>2. T!Copy(Interface) => table' = table /\ copy' \in [{Interface} -> Tables]
  BY DEF T!Copy, TypeOK
<1>3. NoTable \in Tables
  BY DEF NoTable, Tables
<1>4. Found => Seen[Interface] \in Macs
  BY DEF Found, Seen, TypeOK, Tables
<1>5. TypeOK'
  <2>1. CASE LookupUpdates
    BY <2>1, <1>1 DEF LookupUpdates, TypeOK, netif, life, sender, stats, L!TypeOK
  <2>2. CASE LookupCopies
    BY <2>2, <1>2 DEF LookupCopies, TypeOK, life, sender, stats, L!TypeOK
  <2>3. CASE Constructed
    BY <2>3, <1>3, <1>4 DEF Constructed, LookupEnds, TypeOK, life, sender, stats, L!TypeOK
  <2> QED
    BY <2>1, <2>2, <2>3
<1>6. (PlaceOK /\ HasOK /\ CountOK /\ ObserverOK)'
  BY DEF LookupUpdates, LookupCopies, Constructed, Constructing, LookupEnds, life, sender, stats,
         TypeOK, PlaceOK, HasOK, CountOK, NumbersTellTheLoss, ObserverOK
<1> QED
  BY <1>5, <1>6

(* Steps of the life cycle, and of other services.                         *)
LEMMA LifecycleStep ==
  ASSUME IInv, Ask \/ Lifecycle \/ OtherUpdates \/ BeginInitialize
  PROVE  IInv'
<1> USE DEF IInv, L!TypeOK, L!Phases, L!Callbacks, L!Requests
<1>1. CASE Ask
  BY <1>1 DEF Ask, Constructing, L!Ask, netif, sender, stats,
     TypeOK, PlaceOK, HasOK, CountOK, NumbersTellTheLoss, ObserverOK
<1>2. CASE Lifecycle
  <2>1. TypeOK'
    BY <1>2 DEF Lifecycle, netif, sender, stats, TypeOK, L!BeginStart, L!EndStart, L!BeginStop, L!EndStop, L!Close, L!BeginFinalize, L!Begin, L!End
  <2>2. (PlaceOK /\ HasOK /\ CountOK /\ ObserverOK)'
    BY <1>2 DEF Lifecycle, sender, stats, TypeOK, PlaceOK, HasOK, CountOK, NumbersTellTheLoss, ObserverOK, L!BeginStart, L!EndStart, L!BeginStop, L!EndStop, L!Close, L!BeginFinalize, L!Begin, L!End
  <2> QED
    BY <2>1, <2>2
<1>3. CASE OtherUpdates
  BY <1>3 DEF OtherUpdates, T!Update, life, sender, stats,
     TypeOK, PlaceOK, HasOK, CountOK, NumbersTellTheLoss, ObserverOK
<1>4. CASE BeginInitialize
  BY <1>4 DEF BeginInitialize, L!BeginInitialize, L!Begin, netif, sender, stats,
     TypeOK, PlaceOK, HasOK, CountOK, NumbersTellTheLoss, ObserverOK
<1> QED
  BY <1>1, <1>2, <1>3, <1>4

LEMMA InitializeStep ==
  ASSUME IInv, NoDevice \/ BadDevice \/ Initialized
  PROVE  IInv'
<1> USE DEF IInv, L!TypeOK, L!Phases, L!Callbacks, L!EndInitialize, L!End, LookupEnds
<1>1. NoTable \in Tables
  BY DEF NoTable, Tables
<1>2. TypeOK'
  BY <1>1, TxAssumption DEF NoDevice, BadDevice, Initialized, sender, stats, TypeOK
<1>3. (PlaceOK /\ HasOK /\ CountOK /\ ObserverOK)'
  BY TxAssumption DEF NoDevice, BadDevice, Initialized, sender, stats,
     TypeOK, PlaceOK, HasOK, CountOK, NumbersTellTheLoss, ObserverOK
<1> QED
  BY <1>2, <1>3

-----------------------------------------------------------------------------
LEMMA IterationStep ==
  ASSUME IInv, BeginIteration \/ Inject \/ InjectFails \/ Publish
  PROVE  IInv'
<1> USE DEF IInv, L!TypeOK, L!Phases, L!Callbacks
<1>1. CASE BeginIteration
  BY <1>1, TxAssumption DEF BeginIteration, L!BeginIteration, L!Begin, netif, stats,
     TypeOK, PlaceOK, HasOK, CountOK, NumbersTellTheLoss, ObserverOK
<1>2. CASE Inject
  <2>1. /\ wire \in Seq(Nat) /\ number \in Nat /\ wire' = Append(wire, number)
        /\ number = pkt_count /\ pkt_count' = pkt_count + 1 /\ pkt_count < MaxPackets
        /\ step = "inject" /\ phase = "started" /\ error_count' = error_count
    BY <1>2 DEF Inject, TypeOK, CountOK, PlaceOK
  <2>2. /\ wire' \in Seq(Nat) /\ Len(wire') = Len(wire) + 1 /\ wire'[Len(wire) + 1] = number
        /\ \A i \in 1 .. Len(wire) : wire'[i] = wire[i]
    BY <2>1
  <2>3. NumbersTellTheLoss'
    <3>1. Len(wire) \in Nat /\ pkt_count \in Nat /\ error_count \in Nat
      BY <2>1, TxAssumption DEF TypeOK
    <3>2. /\ \A i \in 1 .. Len(wire) : wire[i] \in Nat /\ wire[i] < pkt_count
          /\ \A i, j \in 1 .. Len(wire) : i < j => wire[i] < wire[j]
          /\ Len(wire) + error_count = pkt_count
      BY <2>1 DEF CountOK, NumbersTellTheLoss
    <3>3. \A i \in 1 .. Len(wire') : i \in 1 .. Len(wire) \/ i = Len(wire) + 1
      BY <2>2, <3>1
    <3>4. \A i \in 1 .. Len(wire') : wire'[i] < pkt_count'
      BY <2>1, <2>2, <3>1, <3>2, <3>3
    <3>5. \A i, j \in 1 .. Len(wire') : i < j => wire'[i] < wire'[j]
      BY <2>1, <2>2, <3>1, <3>2, <3>3
    <3> QED
      BY <2>1, <2>2, <3>1, <3>2, <3>4, <3>5 DEF NumbersTellTheLoss
  <2>4. TypeOK'
    BY <1>2, <2>1, <2>2, TxAssumption DEF Inject, netif, life, stats, TypeOK
  <2>5. (PlaceOK /\ HasOK /\ ObserverOK)'
    BY <1>2, <2>1 DEF Inject, life, stats, TypeOK, PlaceOK, HasOK, ObserverOK
  <2>6. CountOK'
    BY <1>2, <2>1, <2>3, TxAssumption DEF Inject, life, stats, TypeOK, CountOK
  <2> QED
    BY <2>4, <2>5, <2>6
<1>3. CASE InjectFails
  BY <1>3, TxAssumption DEF InjectFails, netif, life, stats,
     TypeOK, PlaceOK, HasOK, CountOK, NumbersTellTheLoss, ObserverOK
<1>4. CASE Publish
  <2>1. TypeOK'
    BY <1>4, TxAssumption DEF Publish, L!EndIteration, L!End, netif, sender, TypeOK
  <2>2. (PlaceOK /\ HasOK /\ CountOK)'
    BY <1>4, TxAssumption DEF Publish, L!EndIteration, L!End, sender, TypeOK, PlaceOK, HasOK, CountOK, NumbersTellTheLoss
  <2>3. ObserverOK'
    BY <1>4, TxAssumption DEF Publish, sender, TypeOK, CountOK, ObserverOK
  <2> QED
    BY <2>1, <2>2, <2>3
<1> QED
  BY <1>1, <1>2, <1>3, <1>4

LEMMA FinalizeStep ==
  ASSUME IInv, Finalized
  PROVE  IInv'
BY DEF IInv, Finalized, L!EndFinalize, L!End, L!TypeOK, L!Phases, L!Callbacks, netif, stats,
   TypeOK, PlaceOK, HasOK, CountOK, NumbersTellTheLoss, ObserverOK

(* A step of one observer leaves what the others have taken alone.         *)
LEMMA ObserverStep ==
  ASSUME IInv, NEW o \in Observers, Observes(o)
  PROVE  IInv'
<1> USE DEF IInv
<1>1. UNCHANGED <<netif, life, step, source_mac, sender>> /\ (StatsBegin(o) \/ StatsEnd(o) \/ ReadStats(o))
  BY DEF Observes
<1>2. observer \in [Observers -> Observer] /\ st \in Nat /\ st_copy \in Nat /\ observer[o] \in Observer
  BY DEF TypeOK
<1>3. ASSUME NEW at \in {"idle", "copy", "reference"}, NEW taken \in Nat, NEW seen \in Nat
      PROVE  /\ Observing(at, taken, seen) \in Observer
             /\ Observing(at, taken, seen).at = at
             /\ Observing(at, taken, seen).taken = taken
             /\ Observing(at, taken, seen).seen = seen
  BY DEF Observing, Observer
<1>4. observer[o].taken \in Nat /\ observer[o].seen \in Nat
  BY <1>2 DEF Observer
<1>5. (PlaceOK /\ HasOK /\ CountOK)'
  <2>1. st' = st
    BY <1>1 DEF StatsBegin, StatsEnd, ReadStats
  <2> QED
    BY <1>1, <2>1 DEF life, sender, PlaceOK, HasOK, CountOK, NumbersTellTheLoss
<1>6. CASE StatsBegin(o)
  <2> DEFINE x == Observing("copy", st, observer[o].seen)
  <2>1. x \in Observer /\ x.at = "copy" /\ x.taken = st /\ x.seen = observer[o].seen
    BY <1>2, <1>3, <1>4
  <2> HIDE DEF x
  <2>2. observer' = [observer EXCEPT ![o] = x] /\ lock = "free" /\ lock' = o /\ st' = st /\ st_copy' = st_copy
    BY <1>6 DEF StatsBegin, x
  <2>3. TypeOK'
    BY <1>1, <1>2, <2>1, <2>2 DEF TypeOK, netif, life, sender, L!TypeOK
  <2>4. ObserverOK'
    BY <1>2, <2>1, <2>2, TxAssumption DEF ObserverOK
  <2> QED
    BY <1>5, <2>3, <2>4
<1>7. CASE StatsEnd(o)
  <2> DEFINE x == Observing("reference", observer[o].taken, observer[o].seen)
  <2>1. x \in Observer /\ x.at = "reference" /\ x.taken = observer[o].taken /\ x.seen = observer[o].seen
    BY <1>3, <1>4
  <2> HIDE DEF x
  <2>2. observer' = [observer EXCEPT ![o] = x] /\ lock' = "free" /\ st' = st /\ st_copy' = observer[o].taken
        /\ observer[o].at = "copy"
    BY <1>7 DEF StatsEnd, x
  <2>3. TypeOK'
    BY <1>1, <1>2, <1>4, <2>1, <2>2 DEF TypeOK, netif, life, sender, L!TypeOK
  <2>4. st_copy' = st /\ lock = o
    BY <2>2 DEF ObserverOK
  <2>5. ASSUME NEW u \in Observers
        PROVE  /\ observer[u].at \in {"idle", "copy", "reference"}
               /\ observer[u].taken \in Nat /\ observer[u].seen \in Nat
               /\ observer'[u] = IF u = o THEN x ELSE observer[u]
    BY <1>2, <2>2 DEF Observer
  <2>6. ObserverOK'
    BY <1>2, <2>1, <2>2, <2>4, <2>5 DEF ObserverOK
  <2> QED
    BY <1>5, <2>3, <2>6
<1>8. CASE ReadStats(o)
  <2> DEFINE x == Observing("reference", observer[o].taken, st_copy)
  <2>1. x \in Observer /\ x.at = "reference" /\ x.taken = observer[o].taken /\ x.seen = st_copy
    BY <1>2, <1>3, <1>4
  <2> HIDE DEF x
  <2>2. observer' = [observer EXCEPT ![o] = x] /\ lock' = lock /\ st' = st /\ st_copy' = st_copy
        /\ observer[o].at = "reference"
    BY <1>8 DEF ReadStats, x
  <2>3. TypeOK'
    BY <1>1, <1>2, <2>1, <2>2 DEF TypeOK, netif, life, sender, L!TypeOK
  <2>4. ObserverOK'
    BY <1>2, <2>1, <2>2 DEF ObserverOK
  <2> QED
    BY <1>5, <2>3, <2>4
<1> QED
  BY <1>1, <1>6, <1>7, <1>8

-----------------------------------------------------------------------------
LEMMA Invariant == Spec => []IInv
<1>1. IInv /\ UNCHANGED vars => IInv'
  BY DEF IInv, vars, netif, life, sender, stats, TypeOK, L!TypeOK, PlaceOK, HasOK, CountOK, NumbersTellTheLoss, ObserverOK
<1>2. IInv /\ [Next]_vars => IInv'
  BY <1>1, LookupStep, LifecycleStep, InitializeStep, IterationStep, FinalizeStep, ObserverStep
     DEF Next, ServiceStep
<1> QED
  BY InitEstablishes, <1>2, PTL DEF Spec

(* Types, for any observers, interfaces and number of frames.              *)
THEOREM TypeCorrect == Spec => []TypeOK
BY Invariant, PTL DEF IInv

(* No frame is sent with a device that is not open, or from a buffer that  *)
(* ServiceFinalize() has freed.                                            *)
THEOREM SendsSafely == Spec => []SendsWhatItHas
<1>1. IInv => SendsWhatItHas
  BY DEF IInv, PlaceOK, HasOK, SendsWhatItHas
<1> QED
  BY <1>1, Invariant, PTL

(* The sequence numbers of the frames tell a receiver what was lost.       *)
THEOREM NumbersHold == Spec => []NumbersTellTheLoss
<1>1. IInv => NumbersTellTheLoss
  BY DEF IInv, CountOK
<1> QED
  BY <1>1, Invariant, PTL

(* For any number of observers that share the one copy of the statistics,  *)
(* none ever sees less than before.                                        *)
THEOREM StatsHold == Spec => []StatsAreCurrent
<1>1. IInv => StatsAreCurrent
  BY DEF IInv, CountOK, ObserverOK, StatsAreCurrent
<1> QED
  BY <1>1, Invariant, PTL
=============================================================================
