------------------------ MODULE TeletrafficRx_proofs -------------------------
(***************************************************************************)
(* The CircularBuffer of the windows, which keeps the most recent ones,    *)
(* whatever its capacity; the readers of the windows, who never abort, see *)
(* one state of them and get those they were told of; and TeletrafficRx,   *)
(* whose capture is open while it is used and which counts every packet in *)
(* one window: for any number of readers, windows and packets.             *)
(***************************************************************************)
EXTENDS TeletrafficRx, TLAPS

-----------------------------------------------------------------------------
(* The CircularBuffer.                                                     *)

(* Types; the bounds on next are what keeps Push() inside of m_buffer, for *)
(* any capacity and any kind of element.                                   *)
THEOREM BufferTypeCorrect == BufferSpec => []BufferTypeOK
<1> USE CapacityAssumption DEF BufferTypeOK, Slots
<1>1. BufferInit => BufferTypeOK
  BY DEF BufferInit
<1>2. BufferTypeOK /\ [BufferNext]_ring => BufferTypeOK'
  BY DEF BufferNext, ring, Push, Clear
<1> QED
  BY <1>1, <1>2, PTL DEF BufferSpec

(* The slot of element [i] lies inside m_buffer, and two elements never    *)
(* share one.                                                              *)
LEMMA SlotsInRange ==
  ASSUME BufferTypeOK, NEW i \in 0 .. count - 1
  PROVE  /\ Slot(i) \in Slots
         /\ \A j \in 0 .. count - 1 : Slot(i) = Slot(j) => i = j
BY CapacityAssumption DEF BufferTypeOK, Slots, Slot

(* A Push() makes v element [0], and moves each other element that is kept *)
(* one place up.                                                           *)
LEMMA PushShifts ==
  ASSUME BufferTypeOK, NEW v, Push(v), NEW i \in 0 .. count' - 1
  PROVE  Get(i)' = IF i = 0 THEN v ELSE Get(i - 1)
<1> USE CapacityAssumption DEF BufferTypeOK, Slots
<1>1. CASE i = 0
  <2>1. Slot(i)' = next
    BY <1>1 DEF Slot, Push
  <2> QED
    BY <1>1, <2>1 DEF Get, Push
<1>2. CASE i # 0
  <2>1. Slot(i)' = Slot(i - 1)
    BY <1>2 DEF Slot, Push
  <2>2. Slot(i - 1) # next /\ Slot(i - 1) \in Slots
    BY <1>2 DEF Slot, Push
  <2> QED
    BY <1>2, <2>1, <2>2 DEF Get, Push
<1> QED
  BY <1>1, <1>2

LEMMA PushStep ==
  ASSUME BufferTypeOK, NEW v, Push(v)
  PROVE  R!Push(v)
<1> DEFINE old  == [i \in 1 .. count |-> Get(i - 1)]
           kept == IF count < Capacity THEN count + 1 ELSE Capacity
<1>1. kept \in Nat /\ kept <= count + 1 /\ count' = kept /\ count \in Nat
  BY CapacityAssumption DEF BufferTypeOK, Push
<1>2. old \in Seq(Value \cup {Default}) /\ Len(old) = count
  <2>1. ASSUME NEW i \in 1 .. count PROVE Get(i - 1) \in Value \cup {Default}
    BY CapacityAssumption DEF BufferTypeOK, Slots, Slot, Get
  <2> QED
    BY <1>1, <2>1
<1>3. SubSeq(<<v>> \o old, 1, kept) = [i \in 1 .. kept |-> IF i = 1 THEN v ELSE old[i - 1]]
  BY <1>1, <1>2
<1>4. \A i \in 1 .. kept : Get(i - 1)' = IF i = 1 THEN v ELSE old[i - 1]
  <2> TAKE i \in 1 .. kept
  <2>1. i - 1 \in 0 .. count' - 1
    BY <1>1
  <2>2. Get(i - 1)' = IF i - 1 = 0 THEN v ELSE Get(i - 1 - 1)
    BY <2>1, PushShifts
  <2> QED
    BY <1>1, <2>2
<1> HIDE DEF kept
<1>5. [i \in 1 .. count' |-> Get(i - 1)'] = SubSeq(<<v>> \o old, 1, kept)
  BY <1>1, <1>3, <1>4
<1> QED
  BY <1>2, <1>5 DEF R!Push, kept

(* Element [i] is the value pushed i pushes ago, whatever the capacity.    *)
THEOREM ImplementsRecentValues == BufferSpec => KeepsTheMostRecent
<1>1. BufferInit => R!Init
  BY DEF BufferInit, R!Init
<1>2. BufferTypeOK /\ [BufferNext]_ring => [R!Next]_([i \in 1 .. count |-> Get(i - 1)])
  <2> SUFFICES ASSUME BufferTypeOK, [BufferNext]_ring
               PROVE  [R!Next]_([i \in 1 .. count |-> Get(i - 1)])
    OBVIOUS
  <2>1. ASSUME NEW v \in Value, Push(v) PROVE R!Next
    BY <2>1, PushStep DEF R!Next
  <2>2. CASE Clear
    BY <2>2 DEF Clear, R!Clear, R!Next
  <2>3. CASE UNCHANGED ring
    BY <2>3 DEF ring, Get, Slot
  <2> QED
    BY <2>1, <2>2, <2>3 DEF BufferNext
<1> QED
  BY <1>1, <1>2, BufferTypeCorrect, PTL DEF BufferSpec, R!Spec, KeepsTheMostRecent

-----------------------------------------------------------------------------
(* The readers.  A reader between two accesses, and no other, holds the    *)
(* lock; it has not gone past the windows it asked for, and they exist.    *)
(* Nothing takes windows away, so those that it counted are still there.   *)

Reading(r) == reader[r].at \in {"assert", "read"}

HoldsLock(r) == Reading(r) <=> lock = r

InRange(r) ==
  /\ reader[r].first \in {0, reader[r].last}
  /\ ~Reading(r) => reader[r].got = <<>>
  /\ Reading(r) => Index(r) <= reader[r].last /\ reader[r].last < count

Faithful(r) ==
  Reading(r) =>
    \A k \in 1 .. Len(reader[r].got) : reader[r].got[k] = Get(reader[r].first + k - 1)

Counted(r) ==
  /\ reader[r].size <= count
  /\ reader[r].nan => reader[r].last >= reader[r].size

ReaderOK(r) ==
  reader[r].at # "aborted" /\ HoldsLock(r) /\ InRange(r) /\ Faithful(r) /\ Counted(r)

StoreInv == StoreTypeOK /\ \A r \in Readers : ReaderOK(r)

Elements == Value \cup {Default}

LEMMA ViewsAreSequences ==
  \A g : g \in Views <=> g \in Seq(Elements) /\ Len(g) <= Capacity
BY DEF Views, Elements

LEMMA EmptyView == <<>> \in Views
<1>1. <<>> \in Seq(Elements) /\ Len(<<>>) = 0
  OBVIOUS
<1>2. Len(<<>>) <= Capacity
  BY <1>1, CapacityAssumption
<1> QED
  BY <1>1, <1>2, ViewsAreSequences

(* A step of reader r leaves the other readers alone: while one of them    *)
(* reads, r neither takes nor frees the lock.                              *)
LEMMA OneReader ==
  ASSUME StoreInv, NEW r \in Readers, NEW x \in Reader,
         reader' = [reader EXCEPT ![r] = x],
         UNCHANGED ring,
         \/ lock' = lock
         \/ lock = "free" /\ lock' = r
         \/ lock = r /\ lock' = "free",
         ReaderOK(r)'
  PROVE  StoreInv'
<1>1. StoreTypeOK'
  BY DEF StoreInv, StoreTypeOK, ring, BufferTypeOK
<1>2. ASSUME NEW s \in Readers, s # r PROVE ReaderOK(s)'
  <2>1. reader'[s] = reader[s] /\ buffer' = buffer /\ next' = next /\ count' = count
    BY <1>2 DEF StoreInv, StoreTypeOK, ring
  <2>2. HoldsLock(s)'
    BY <1>2, <2>1, ReadersAssumption DEF StoreInv, ReaderOK, HoldsLock, Reading
  <2> QED
    BY <1>2, <2>1, <2>2
    DEF StoreInv, ReaderOK, InRange, Faithful, Counted, Reading, Index, Get, Slot
<1> QED
  BY <1>1, <1>2 DEF StoreInv

LEMMA IdleReader ==
  ASSUME NEW last \in Indexes, NEW nan \in BOOLEAN, NEW size \in 0 .. Capacity
  PROVE  Idle(last, nan, size) \in Reader
<1>1. 0 \in Indexes
  BY CapacityAssumption DEF Indexes
<1> QED
  BY <1>1, EmptyView DEF Idle, Reader

(* A call that is over leaves its reader without the lock.                 *)
LEMMA CallEnds ==
  ASSUME StoreInv, NEW r \in Readers, NEW last \in Indexes, NEW nan \in BOOLEAN, NEW size \in 0 .. count,
         reader' = [reader EXCEPT ![r] = Idle(last, nan, size)],
         nan => last >= size,
         UNCHANGED ring,
         lock \in {r, "free"}, lock' = "free"
  PROVE  StoreInv'
<1> DEFINE x == Idle(last, nan, size)
<1>1. size \in 0 .. Capacity /\ size <= count
  BY CapacityAssumption DEF StoreInv, StoreTypeOK, BufferTypeOK
<1>2. x \in Reader
  BY <1>1, IdleReader
<1>3. reader'[r] = x /\ count' = count
  BY DEF StoreInv, StoreTypeOK, ring
<1>4. /\ x.at = "idle" /\ x.first = 0 /\ x.last = last /\ x.got = <<>> /\ x.nan = nan /\ x.size = size
  BY DEF Idle
<1> HIDE DEF x
<1>5. ReaderOK(r)'
  BY <1>1, <1>3, <1>4, ReadersAssumption DEF ReaderOK, HoldsLock, InRange, Faithful, Counted, Reading
<1> QED
  BY <1>2, <1>5, OneReader DEF x

LEMMA CallRateOK ==
  ASSUME StoreInv, NEW r \in Readers, NEW i \in Indexes, NEW j \in Indexes, CallRate(r, i, j)
  PROVE  StoreInv'
<1> DEFINE x == Busy("lock", i, j, <<>>, reader[r].size)
<1>1. reader[r] \in Reader /\ ReaderOK(r)
  BY DEF StoreInv, StoreTypeOK
<1>2. x \in Reader
  <2>1. reader[r].size \in 0 .. Capacity
    BY <1>1 DEF Reader
  <2> QED
    BY <2>1, EmptyView DEF Busy, Reader
<1>3. reader' = [reader EXCEPT ![r] = x] /\ reader'[r] = x
  BY DEF CallRate, StoreInv, StoreTypeOK
<1>4. /\ x.at = "lock" /\ x.first = i /\ x.last = j /\ x.got = <<>> /\ x.nan = FALSE
      /\ x.size = reader[r].size
  BY DEF Busy
<1> HIDE DEF x
<1>5. ReaderOK(r)'
  BY <1>1, <1>3, <1>4 DEF CallRate, ring, ReaderOK, HoldsLock, InRange, Faithful, Counted, Reading
<1> QED
  BY <1>2, <1>3, <1>5, OneReader DEF CallRate

LEMMA TooFewOK ==
  ASSUME StoreInv, NEW r \in Readers, TooFew(r)
  PROVE  StoreInv'
<1>1. reader[r] \in Reader /\ Counted(r) /\ count \in Nat
  BY CapacityAssumption DEF StoreInv, StoreTypeOK, ReaderOK, BufferTypeOK
<1>2. /\ reader[r].last \in Indexes /\ reader[r].size \in 0 .. count
      /\ reader[r].last >= reader[r].size
  BY <1>1, CapacityAssumption DEF TooFew, Counted, Reader, Indexes
<1>3. reader' = [reader EXCEPT ![r] = Idle(reader[r].last, TRUE, reader[r].size)]
  BY DEF TooFew
<1> QED
  BY <1>2, <1>3, CallEnds DEF TooFew

LEMMA WindowCountOK ==
  ASSUME StoreInv, NEW r \in Readers, WindowCount(r)
  PROVE  StoreInv'
<1>1. 0 \in Indexes /\ count \in 0 .. count
  BY CapacityAssumption DEF Indexes, StoreInv, StoreTypeOK, BufferTypeOK
<1> QED
  BY <1>1, CallEnds DEF WindowCount, WindowSize

LEMMA EnoughOK ==
  ASSUME StoreInv, NEW r \in Readers, Enough(r)
  PROVE  StoreInv'
<1> DEFINE x == [reader[r] EXCEPT !.at = "assert"]
<1>1. reader[r] \in Reader /\ ReaderOK(r)
  BY DEF StoreInv, StoreTypeOK
<1>2. x \in Reader
  BY <1>1 DEF Reader
<1>3. reader' = [reader EXCEPT ![r] = x] /\ reader'[r] = x
  BY DEF Enough, StoreInv, StoreTypeOK
<1>4. /\ x.at = "assert" /\ x.first = reader[r].first /\ x.last = reader[r].last
      /\ x.got = reader[r].got /\ x.nan = reader[r].nan /\ x.size = reader[r].size
  BY <1>1 DEF Reader
<1>5. /\ reader[r].got = <<>> /\ reader[r].first \in {0, reader[r].last}
      /\ reader[r].first \in Nat /\ reader[r].last \in Nat
      /\ reader[r].last < count
  BY <1>1, CapacityAssumption DEF Enough, ReaderOK, InRange, Reading, Reader, Indexes
<1> HIDE DEF x
<1>6. count' = count /\ lock' = r
  BY DEF Enough, ring
<1>7. HoldsLock(r)' /\ Counted(r)'
  BY <1>1, <1>3, <1>4, <1>6 DEF ReaderOK, HoldsLock, Counted, Reading
<1>8. InRange(r)' /\ Faithful(r)'
  <2>1. reader'[r].got = <<>> /\ Len(reader'[r].got) = 0
    BY <1>3, <1>4, <1>5
  <2>2. Index(r)' = reader[r].first
    BY <1>3, <1>4, <1>5, <2>1 DEF Index
  <2> QED
    BY <1>3, <1>4, <1>5, <1>6, <2>1, <2>2 DEF InRange, Faithful, Reading
<1>9. ReaderOK(r)'
  BY <1>3, <1>4, <1>7, <1>8 DEF ReaderOK
<1> QED
  BY <1>2, <1>3, <1>9, OneReader DEF Enough

LEMMA AssertOK ==
  ASSUME StoreInv, NEW r \in Readers, Assert(r)
  PROVE  StoreInv'
<1> DEFINE x == [reader[r] EXCEPT !.at = "read"]
<1>1. reader[r] \in Reader /\ ReaderOK(r)
  BY DEF StoreInv, StoreTypeOK
<1>2. x \in Reader
  BY <1>1 DEF Reader
<1>3. Index(r) < count
  <2>1. Len(reader[r].got) \in Nat
    BY <1>1, ViewsAreSequences DEF Reader
  <2> QED
    BY <1>1, <2>1, CapacityAssumption
    DEF Assert, ReaderOK, InRange, Reading, Index, Reader, Indexes, StoreInv, StoreTypeOK, BufferTypeOK
<1>4. reader' = [reader EXCEPT ![r] = x] /\ reader'[r] = x
  BY <1>3 DEF Assert, StoreInv, StoreTypeOK
<1>5. /\ x.at = "read" /\ x.first = reader[r].first /\ x.last = reader[r].last
      /\ x.got = reader[r].got /\ x.nan = reader[r].nan /\ x.size = reader[r].size
  BY <1>1 DEF Reader
<1> HIDE DEF x
<1>6. ReaderOK(r)'
  BY <1>1, <1>4, <1>5
  DEF Assert, ring, ReaderOK, HoldsLock, InRange, Faithful, Counted, Reading, Index, Get, Slot
<1> QED
  BY <1>2, <1>4, <1>6, OneReader DEF Assert

LEMMA ReadWindowOK ==
  ASSUME StoreInv, NEW r \in Readers, ReadWindow(r)
  PROVE  StoreInv'
<1> DEFINE w   == Get(Index(r))
           got == reader[r].got
<1>1. reader[r] \in Reader /\ ReaderOK(r) /\ Reading(r)
  BY DEF StoreInv, StoreTypeOK, ReadWindow, Reading
<1>2. /\ got \in Seq(Elements) /\ Len(got) \in Nat /\ Len(got) <= Capacity
      /\ reader[r].first \in Nat /\ reader[r].last \in Nat /\ count \in 0 .. Capacity
  BY <1>1, ViewsAreSequences, CapacityAssumption DEF Reader, Indexes, StoreInv, StoreTypeOK, BufferTypeOK
<1>3. /\ reader[r].first + Len(got) <= reader[r].last /\ reader[r].last < count
      /\ reader[r].first \in {0, reader[r].last}
  BY <1>1 DEF ReaderOK, InRange, Index
<1>4. Index(r) = reader[r].first + Len(got)
  BY DEF Index
<1> HIDE DEF got
<1>5. CASE Index(r) = reader[r].last
  <2>1. reader' = [reader EXCEPT ![r] = Idle(0, FALSE, reader[r].size)] /\ lock' = "free" /\ lock = r
    BY <1>1, <1>5 DEF ReadWindow, ReaderOK, HoldsLock
  <2>2. 0 \in Indexes /\ reader[r].size \in 0 .. count
    BY <1>1, <1>2, CapacityAssumption DEF Indexes, Reader, ReaderOK, Counted
  <2> QED
    BY <2>1, <2>2, CallEnds DEF ReadWindow
<1>6. CASE Index(r) # reader[r].last
  <2> DEFINE x == Busy("assert", reader[r].first, reader[r].last, Append(got, w), reader[r].size)
  <2>1. w \in Elements
    <3>1. buffer \in [0 .. Capacity - 1 -> Elements] /\ next \in 0 .. Capacity - 1
      BY DEF BufferTypeOK, Slots, StoreInv, StoreTypeOK, Elements
    <3>2. Index(r) \in 0 .. Capacity - 1
      BY <1>2, <1>3, <1>4, CapacityAssumption
    <3>3. Slot(Index(r)) \in 0 .. Capacity - 1
      BY <3>1, <3>2, CapacityAssumption DEF Slot
    <3> QED
      BY <3>1, <3>3 DEF Get
  <2>2. Len(got) + 1 <= Capacity /\ reader[r].first + (Len(got) + 1) <= reader[r].last
    BY <1>2, <1>3, <1>6, <1>4, CapacityAssumption
  <2>3. /\ Append(got, w) \in Seq(Elements)
        /\ Len(Append(got, w)) = Len(got) + 1
        /\ \A k \in 1 .. Len(got) + 1 : Append(got, w)[k] = IF k = Len(got) + 1 THEN w ELSE got[k]
    BY <1>2, <2>1
  <2>4. Append(got, w) \in Views
    BY <1>2, <2>2, <2>3, ViewsAreSequences
  <2>5. x \in Reader
    BY <1>1, <2>4 DEF Busy, Reader
  <2>6. /\ x.at = "assert" /\ x.first = reader[r].first /\ x.last = reader[r].last
        /\ x.got = Append(got, w) /\ x.nan = FALSE /\ x.size = reader[r].size
    BY DEF Busy
  <2>7. /\ reader' = [reader EXCEPT ![r] = x] /\ reader'[r] = x
        /\ lock' = lock /\ buffer' = buffer /\ next' = next /\ count' = count
    BY <1>6 DEF got, ReadWindow, ring, StoreInv, StoreTypeOK
  <2> HIDE DEF x
  <2>8. HoldsLock(r)' /\ Counted(r)'
    BY <1>1, <2>6, <2>7 DEF ReaderOK, HoldsLock, Counted, Reading
  <2>9. InRange(r)'
    BY <1>3, <2>2, <2>3, <2>6, <2>7 DEF InRange, Reading, Index
  <2>10. Faithful(r)'
    <3>1. ASSUME NEW k \in 1 .. Len(got) + 1
          PROVE  Append(got, w)[k] = Get(reader[r].first + k - 1)
      <4>1. CASE k = Len(got) + 1
        <5>1. reader[r].first + k - 1 = Index(r)
          BY <1>2, <1>4, <4>1
        <5> QED
          BY <1>2, <2>3, <4>1, <5>1
      <4>2. CASE k # Len(got) + 1
        <5>1. k \in 1 .. Len(got)
          BY <1>2, <4>2
        <5> QED
          BY <1>1, <2>3, <4>2, <5>1 DEF got, ReaderOK, Faithful
      <4> QED
        BY <4>1, <4>2
    <3>2. \A i : Get(i)' = Get(i)
      BY <2>7 DEF Get, Slot
    <3>3. /\ reader'[r].got = Append(got, w) /\ reader'[r].first = reader[r].first
          /\ Len(reader'[r].got) = Len(got) + 1
      BY <2>3, <2>6, <2>7
    <3> QED
      BY <3>1, <3>2, <3>3 DEF Faithful
  <2>11. ReaderOK(r)'
    BY <2>6, <2>7, <2>8, <2>9, <2>10 DEF ReaderOK
  <2> QED
    BY <2>5, <2>7, <2>11, OneReader DEF ReadWindow
<1> QED
  BY <1>5, <1>6

LEMMA ReaderKeepsStore ==
  ASSUME StoreInv, NEW r \in Readers, ReaderActs(r)
  PROVE  StoreInv'
BY CallRateOK, TooFewOK, WindowCountOK, EnoughOK, AssertOK, ReadWindowOK
DEF ReaderActs, ReaderCall, ReaderStep

(* A window is pushed while nobody reads, and none is taken away.          *)
LEMMA PushKeepsStore ==
  ASSUME StoreInv, NEW w \in Value, LockedPush(w)
  PROVE  StoreInv'
<1>1. StoreTypeOK'
  BY CapacityAssumption DEF StoreInv, StoreTypeOK, LockedPush, Push, BufferTypeOK, Slots
<1>2. count \in Nat /\ count' \in Nat /\ count' >= count
  BY CapacityAssumption DEF StoreInv, StoreTypeOK, LockedPush, Push, BufferTypeOK
<1>3. ASSUME NEW r \in Readers PROVE ReaderOK(r)'
  <2>1. reader' = reader /\ lock' = lock /\ ReaderOK(r) /\ reader[r] \in Reader
    BY DEF LockedPush, StoreInv, StoreTypeOK
  <2>2. ~Reading(r)
    BY <2>1, ReadersAssumption DEF LockedPush, ReaderOK, HoldsLock
  <2>3. Counted(r)'
    BY <1>2, <2>1 DEF ReaderOK, Counted, Reader
  <2> QED
    BY <2>1, <2>2, <2>3 DEF ReaderOK, HoldsLock, InRange, Faithful, Reading
<1> QED
  BY <1>1, <1>3 DEF StoreInv

-----------------------------------------------------------------------------
(* The whole service.  The windows it pushes are Windows.                  *)

ServiceTypeOK ==
  /\ L!TypeOK
  /\ step \in {"none", "sniff", "count", "window", "push"}
  /\ step # "none" <=> running = "Iteration"
  /\ rxdev \in {"NULL", "open"}
  /\ watch \in {"stopped", "running", "over"}
  /\ bytes \in Nat /\ packets \in Nat /\ Received \in Totals /\ mark \in Totals

(* The phase in which each callback runs, and the capture that the later   *)
(* ones need.                                                              *)
DeviceOK ==
  /\ running = "Start" => phase = "stopped"
  /\ running \in {"Iteration", "Stop"} => phase = "started"
  /\ phase \in {"stopped", "started"} => rxdev = "open"

(* The windows that can be read are measured ones, and tell the packets.   *)
PacketsOK ==
  /\ \A i \in 0 .. count - 1 : Get(i) \in MeasuredWindows
  /\ EveryPacketInOneWindow

IInv == StoreInv /\ ServiceTypeOK /\ DeviceOK /\ PacketsOK

LEMMA InitEstablishes == Init => IInv
<1> SUFFICES ASSUME Init PROVE IInv
  OBVIOUS
<1>1. BufferTypeOK /\ count = 0
  BY CapacityAssumption DEF Init, StoreInit, BufferInit, BufferTypeOK, Slots
<1>2. 0 \in Indexes /\ 0 \in 0 .. Capacity
  BY CapacityAssumption DEF Indexes
<1> DEFINE x == Idle(0, FALSE, 0)
<1>3. /\ x \in Reader /\ x.at = "idle" /\ x.first = 0 /\ x.last = 0
      /\ x.got = <<>> /\ x.nan = FALSE /\ x.size = 0
  BY <1>2, IdleReader DEF Idle
<1> HIDE DEF x
<1>4. reader = [r \in Readers |-> x] /\ lock = "free"
  BY DEF Init, StoreInit, x
<1>5. StoreInv
  BY <1>1, <1>3, <1>4, ReadersAssumption
  DEF StoreInv, StoreTypeOK, ReaderOK, HoldsLock, InRange, Faithful, Counted, Reading
<1>6. ServiceTypeOK /\ DeviceOK
  BY DEF Init, L!Init, L!TypeOK, L!Phases, L!Callbacks, ServiceTypeOK, DeviceOK, Received, Totals,
         Nothing
<1>7. PacketsOK
  BY <1>1 DEF Init, PacketsOK, EveryPacketInOneWindow, Nothing, Begin
<1> QED
  BY <1>5, <1>6, <1>7 DEF IInv

(* What an int can hold it holds.                                          *)
LEMMA AsIntOK ==
  ASSUME NEW n \in Nat
  PROVE  AsInt(n) \in Int /\ (FitsInt(n) => AsInt(n) = n)
<1>1. IntRange \in Nat \ {0}
  BY IntAssumption
<1>2. n % IntRange \in Int
  BY <1>1
<1>3. n < IntRange => n % IntRange = n
  BY <1>1
<1> QED
  BY <1>1, <1>2, <1>3 DEF AsInt, FitsInt

(* The window that is pushed tells what came in since the mark.            *)
LEMMA ClosedTells ==
  ASSUME IInv
  PROVE  /\ Closed \in MeasuredWindows
         /\ Closed.from = mark /\ Closed.to = Received
         /\ Tells(Closed)
<1>1. bytes \in Nat /\ packets \in Nat /\ Received \in Totals /\ mark \in Totals
  BY DEF IInv, ServiceTypeOK
<1>2. AsInt(bytes) \in Int /\ AsInt(packets) \in Int
  BY <1>1, AsIntOK
<1>3. /\ FitsInt(bytes) => AsInt(bytes) = bytes
      /\ FitsInt(packets) => AsInt(packets) = packets
  BY <1>1, AsIntOK
<1>4. bytes = Received.bytes - mark.bytes /\ packets = Received.packets - mark.packets
  BY DEF IInv, PacketsOK, EveryPacketInOneWindow, Received
<1> QED
  BY <1>1, <1>2, <1>3, <1>4 DEF Closed, MeasuredWindows, Tells

(* Only a push and the readers touch the store.                            *)
LEMMA StoreStep ==
  ASSUME MeasuredWindows \subseteq Value, IInv, [Next]_vars
  PROVE  StoreInv'
<1>1. CASE UNCHANGED store
  BY <1>1 DEF store, ring, IInv, StoreInv, StoreTypeOK, BufferTypeOK, ReaderOK, HoldsLock, InRange,
     Faithful, Counted, Reading, Index, Get, Slot
<1>2. CASE PushWindow
  <2>1. Closed \in Value
    BY ClosedTells
  <2> QED
    BY <1>2, <2>1, PushKeepsStore DEF PushWindow, IInv
<1>3. ASSUME NEW r \in Readers, ReaderActs(r) PROVE StoreInv'
  BY <1>3, ReaderKeepsStore DEF IInv
<1> QED
  BY <1>1, <1>2, <1>3
  DEF Next, Ask, Tick, ServiceStep, Lifecycle, NoDevice, BadDevice, Initialized, BeginIteration,
      Sniff, CountPacket, CheckWindow, Finalized, vars

LEMMA ServiceStepOK ==
  ASSUME IInv, [Next]_vars
  PROVE  ServiceTypeOK' /\ DeviceOK'
<1> USE DEF IInv, ServiceTypeOK, DeviceOK, Received, Totals, L!TypeOK, L!Phases, L!Callbacks, L!Requests
<1>1. CASE Ask
  BY <1>1 DEF Ask, current, total, L!Ask
<1>2. CASE Tick
  BY <1>2 DEF Tick, life, current, total
<1>3. CASE Lifecycle
  BY <1>3 DEF Lifecycle, current, total, L!BeginInitialize, L!BeginStart, L!EndStart, L!BeginStop, L!EndStop,
     L!Close, L!BeginFinalize, L!Begin, L!End
<1>4. CASE NoDevice \/ BadDevice \/ Initialized
  BY <1>4 DEF NoDevice, BadDevice, Initialized, current, total, L!EndInitialize, L!End
<1>5. CASE BeginIteration \/ Sniff
  BY <1>5 DEF BeginIteration, Sniff, current, total, life, L!BeginIteration, L!Begin
<1>6. CASE CountPacket
  <2>1. PICK len \in Nat : bytes' = bytes + len /\ recv_bytes' = recv_bytes + len
    BY <1>6, RxAssumption DEF CountPacket
  <2>2. /\ packets' = packets + 1 /\ recv_packet_count' = recv_packet_count + 1
        /\ UNCHANGED <<life, rxdev, watch, mark>> /\ step = "count" /\ step' = "window"
    BY <1>6 DEF CountPacket
  <2>3. bytes' \in Nat /\ packets' \in Nat /\ Received' \in Totals /\ mark' \in Totals
    BY <2>1, <2>2
  <2> QED
    BY <2>2, <2>3 DEF life
<1>7. CASE CheckWindow
  BY <1>7 DEF CheckWindow, current, total, life, L!EndIteration, L!End
<1>8. CASE PushWindow
  <2>1. /\ mark' = Received /\ UNCHANGED <<rxdev, recv_packet_count, recv_bytes, asked>>
        /\ phase' = "started" /\ running' = "none" /\ step' = "none"
        /\ watch' = "running" /\ bytes' = 0 /\ packets' = 0
    BY <1>8 DEF PushWindow, L!EndIteration, L!End, total
  <2>2. Received' = Received /\ Received \in Totals
    BY <2>1
  <2>3. mark' \in Totals /\ Received' \in Totals /\ bytes' \in Nat /\ packets' \in Nat
    BY <2>1, <2>2
  <2>4. L!TypeOK' /\ rxdev' = "open"
    BY <1>8, <2>1 DEF PushWindow
  <2> QED
    BY <2>1, <2>3, <2>4
<1>9. CASE Finalized
  BY <1>9 DEF Finalized, current, total, L!EndFinalize, L!End
<1>10. ASSUME NEW r \in Readers, ReaderActs(r) PROVE ServiceTypeOK' /\ DeviceOK'
  BY <1>10 DEF ReaderActs, life, current, total
<1>11. CASE UNCHANGED vars
  BY <1>11 DEF vars, life, current, total
<1> QED
  BY <1>1, <1>2, <1>3, <1>4, <1>5, <1>6, <1>7, <1>8, <1>9, <1>10, <1>11 DEF Next, ServiceStep

(* A push closes the window being measured where the next one begins; the  *)
(* others are those that there were, but for the oldest of a full buffer.  *)
LEMMA PushKeepsPackets ==
  ASSUME IInv, PushWindow
  PROVE  PacketsOK'
<1>1. BufferTypeOK /\ Push(Closed)
  BY DEF IInv, StoreInv, StoreTypeOK, PushWindow, LockedPush
<1>2. \A i \in 0 .. count' - 1 : Get(i)' = IF i = 0 THEN Closed ELSE Get(i - 1)
  BY <1>1, PushShifts
<1>3. /\ count \in Nat /\ count' \in Nat /\ Capacity \in Nat
      /\ count' - 1 <= count
      /\ count' < Capacity => count < Capacity /\ count' = count + 1
  BY <1>1, CapacityAssumption DEF BufferTypeOK, Push
<1>4. /\ mark' = Received /\ Received' = Received
      /\ bytes' = 0 /\ packets' = 0
      /\ Received \in Totals
  BY DEF PushWindow, total, Received, IInv, ServiceTypeOK
<1>5. PacketsOK
  BY DEF IInv
<1>6. bytes' = recv_bytes' - mark'.bytes /\ packets' = recv_packet_count' - mark'.packets
  BY <1>4 DEF Received, Totals
<1>7. ASSUME NEW i \in 0 .. count' - 1
      PROVE  /\ Get(i)' \in MeasuredWindows
             /\ Tells(Get(i)') /\ Get(i)'.to = Begin(i - 1)'
  <2>0. PICK n \in Nat, m \in Nat : n = count /\ m = count' /\ m - 1 <= n
    BY <1>3
  <2>4. i \in 0 .. m - 1
    BY <2>0
  <2>5. i \in Int /\ 0 <= i /\ i <= m - 1
    BY <2>4
  <2>6. m - 1 <= n
    BY <2>0
  <2>1. CASE i = 0
    <3>1. Get(i)' = Closed /\ Begin(i - 1)' = mark'
      BY <1>2, <2>1 DEF Begin
    <3> QED
      BY <1>4, <3>1, ClosedTells
  <2>2. CASE i = 1
    <3>0. i - 1 = 0 /\ 0 \in 0 .. n - 1 /\ 0 \in 0 .. m - 1
      <4>1. 1 <= n /\ 2 <= m
        BY <2>2, <2>5, <2>6
      <4> QED
        BY <2>2, <4>1
    <3>1. i - 1 = 0 /\ 0 \in 0 .. count - 1 /\ 0 \in 0 .. count' - 1
      BY <2>0, <3>0
    <3>2. Get(i)' = Get(0) /\ Get(0)' = Closed
      BY <1>2, <2>2, <3>1
    <3>3. Begin(i - 1)' = Get(0)'.from
      BY <3>1 DEF Begin
    <3>4. Begin(0 - 1) = mark
      BY DEF Begin
    <3>5. Get(0) \in MeasuredWindows /\ Tells(Get(0)) /\ Get(0).to = Begin(0 - 1)
      BY <1>5, <3>1 DEF PacketsOK, EveryPacketInOneWindow
    <3> QED
      BY <3>2, <3>3, <3>4, <3>5, ClosedTells
  <2>3. CASE i > 1
    <3>0. /\ i - 1 \in 0 .. n - 1 /\ i - 1 \in 0 .. m - 1
          /\ i # 0 /\ i - 1 # 0 /\ ~(i - 1 < 0) /\ ~((i - 1) - 1 < 0)
      BY <2>3, <2>5, <2>6
    <3>1. /\ i - 1 \in 0 .. count - 1 /\ i - 1 \in 0 .. count' - 1
          /\ i # 0 /\ i - 1 # 0 /\ ~(i - 1 < 0) /\ ~((i - 1) - 1 < 0)
      BY <2>0, <3>0
    <3>2. Get(i)' = Get(i - 1) /\ Get(i - 1)' = Get((i - 1) - 1)
      BY <1>2, <3>1
    <3>3. Begin(i - 1)' = Get((i - 1) - 1).from
      BY <3>1, <3>2 DEF Begin
    <3>4. Begin((i - 1) - 1) = Get((i - 1) - 1).from
      BY <3>1 DEF Begin
    <3>5. Get(i - 1) \in MeasuredWindows /\ Tells(Get(i - 1)) /\ Get(i - 1).to = Begin((i - 1) - 1)
      BY <1>5, <3>1 DEF PacketsOK, EveryPacketInOneWindow
    <3> QED
      BY <3>2, <3>3, <3>4, <3>5
  <2> QED
    BY <2>1, <2>2, <2>3, <2>5
<1>8. ASSUME count' < Capacity PROVE Begin(count - 1)' = Nothing
  <2>1. PICK n \in Nat : n = count
    BY <1>3
  <2>2. count' - 1 = n /\ n \in 0 .. count' - 1 /\ ~(n < 0)
    BY <1>3, <1>8, <2>1
  <2>3. Begin(count - 1)' = Get(n)'.from
    BY <2>2 DEF Begin
  <2>4. Begin(n - 1) = Nothing
    BY <1>3, <1>5, <1>8, <2>1 DEF PacketsOK, EveryPacketInOneWindow
  <2>5. CASE n = 0
    <3>1. Get(n)' = Closed
      BY <1>2, <2>2, <2>5
    <3>2. mark = Nothing
      BY <2>4, <2>5 DEF Begin
    <3> QED
      BY <2>3, <3>1, <3>2, ClosedTells
  <2>6. CASE n # 0
    <3>1. Get(n)' = Get(n - 1) /\ ~(n - 1 < 0)
      BY <1>2, <2>2, <2>6
    <3>2. Begin(n - 1) = Get(n - 1).from
      BY <3>1 DEF Begin
    <3> QED
      BY <2>3, <2>4, <3>1, <3>2
  <2> QED
    BY <2>5, <2>6
<1> QED
  BY <1>6, <1>7, <1>8 DEF PacketsOK, EveryPacketInOneWindow, Tells

LEMMA PacketsStep ==
  ASSUME IInv, [Next]_vars
  PROVE  PacketsOK'
<1>1. CASE UNCHANGED <<ring, current, total, mark>>
  BY <1>1 DEF IInv, PacketsOK, EveryPacketInOneWindow, Tells, Begin, ring, current, total, Get, Slot
<1>2. CASE CountPacket
  <2>1. UNCHANGED ring /\ mark' = mark /\ packets' = packets + 1
          /\ recv_packet_count' = recv_packet_count + 1
    BY <1>2 DEF CountPacket, store
  <2>2. PICK len \in Nat : bytes' = bytes + len /\ recv_bytes' = recv_bytes + len
    BY <1>2, RxAssumption DEF CountPacket
  <2>3. /\ recv_bytes \in Nat /\ recv_packet_count \in Nat /\ mark \in Totals
        /\ bytes \in Nat /\ packets \in Nat
    BY DEF IInv, ServiceTypeOK, Received, Totals
  <2>4. bytes' = recv_bytes' - mark'.bytes /\ packets' = recv_packet_count' - mark'.packets
    BY <2>1, <2>2, <2>3 DEF IInv, PacketsOK, EveryPacketInOneWindow, Totals
  <2>5. UNCHANGED <<ring, mark>> /\ PacketsOK
    BY <2>1 DEF IInv
  <2> QED
    BY <2>4, <2>5 DEF PacketsOK, EveryPacketInOneWindow, Tells, Begin, ring, Get, Slot
<1>3. CASE PushWindow
  BY <1>3, PushKeepsPackets
<1>4. ASSUME NEW r \in Readers, ReaderActs(r) PROVE PacketsOK'
  BY <1>1, <1>4
  DEF ReaderActs, ReaderCall, CallRate, WindowCount, ReaderStep, TooFew, Enough, Assert, ReadWindow
<1> QED
  BY <1>1, <1>2, <1>3, <1>4
  DEF Next, Ask, Tick, ServiceStep, Lifecycle, NoDevice, BadDevice, Initialized, BeginIteration,
      Sniff, CheckWindow, Finalized, vars, store

LEMMA Invariant ==
  ASSUME MeasuredWindows \subseteq Value
  PROVE  Spec => []IInv
<1>1. IInv /\ [Next]_vars => IInv'
  BY StoreStep, ServiceStepOK, PacketsStep DEF IInv
<1> QED
  BY InitEstablishes, <1>1, PTL DEF Spec

(* Types, for any readers, lengths of frames and number of windows.        *)
THEOREM TypeCorrect ==
  ASSUME MeasuredWindows \subseteq Value
  PROVE  Spec => []TypeOK
<1>1. IInv => TypeOK
  BY DEF IInv, StoreInv, ServiceTypeOK, TypeOK
<1> QED
  BY <1>1, Invariant, PTL

(* A rate is computed from successive windows of one moment, however many  *)
(* threads ask and windows end meanwhile ...                               *)
THEOREM ReadersAreSafe ==
  ASSUME MeasuredWindows \subseteq Value
  PROVE  Spec => []OneView
<1>1. IInv => OneView
  BY DEF IInv, StoreInv, ReaderOK, HoldsLock, InRange, Faithful, Reading, OneView
<1> QED
  BY <1>1, Invariant, PTL

(* ... and the assertion of operator[] holds at each access.               *)
THEOREM NoAssertionFails ==
  ASSUME MeasuredWindows \subseteq Value
  PROVE  Spec => []NoReaderAborts
<1>1. IInv => NoReaderAborts
  BY DEF IInv, StoreInv, ReaderOK, NoReaderAborts
<1> QED
  BY <1>1, Invariant, PTL

(* A window that WindowCount() has counted can be read from then on.       *)
THEOREM CountedWindowsStay ==
  ASSUME MeasuredWindows \subseteq Value
  PROVE  Spec => []CountedWindowsExist
<1>1. IInv => CountedWindowsExist
  BY DEF IInv, StoreInv, ReaderOK, Counted, CountedWindowsExist
<1> QED
  BY <1>1, Invariant, PTL

(* ServiceIteration() never meets a capture that is not open, in whatever  *)
(* way ServiceInitialize() went and the application stops and restarts.    *)
THEOREM SniffsSafely ==
  ASSUME MeasuredWindows \subseteq Value
  PROVE  Spec => []SniffsAnOpenDevice
<1>1. IInv => SniffsAnOpenDevice
  BY DEF IInv, DeviceOK, SniffsAnOpenDevice
<1> QED
  BY <1>1, Invariant, PTL

(* Every packet and every byte is counted in one window, and a window has  *)
(* their exact numbers if an int can hold them, for any width of an int,   *)
(* capacity, lengths and number of packets.                                *)
THEOREM EveryPacketIsCounted ==
  ASSUME MeasuredWindows \subseteq Value
  PROVE  Spec => []EveryPacketInOneWindow
<1>1. IInv => EveryPacketInOneWindow
  BY DEF IInv, PacketsOK
<1> QED
  BY <1>1, Invariant, PTL

(* What the readers and the service do with the windows are calls of the   *)
(* CircularBuffer, so that window i is the one that was measured i windows *)
(* ago, while the service runs as well.                                    *)
LEMMA StoreStepIsACall ==
  ASSUME MeasuredWindows \subseteq Value, IInv, [Next]_vars
  PROVE  [BufferNext]_ring
<1>1. CASE PushWindow
  <2>1. Closed \in Value
    BY ClosedTells
  <2> QED
    BY <1>1, <2>1 DEF PushWindow, LockedPush, BufferNext
<1>2. ASSUME NEW r \in Readers, ReaderActs(r) PROVE UNCHANGED ring
  BY <1>2 DEF ReaderActs, ReaderCall, CallRate, WindowCount, ReaderStep, TooFew, Enough, Assert, ReadWindow
<1> QED
  BY <1>1, <1>2
  DEF Next, Ask, Tick, ServiceStep, Lifecycle, NoDevice, BadDevice, Initialized, BeginIteration,
      Sniff, CountPacket, CheckWindow, Finalized, vars, store

THEOREM WindowsAreRecent ==
  ASSUME MeasuredWindows \subseteq Value
  PROVE  Spec => KeepsTheMostRecent
<1>1. Init => BufferInit
  BY DEF Init, StoreInit
<1>2. IInv /\ [Next]_vars => [BufferNext]_ring
  BY StoreStepIsACall
<1> QED
  BY <1>1, <1>2, Invariant, ImplementsRecentValues, PTL DEF Spec, BufferSpec

(* Every way out of a call gives the lock back: only a reader between two  *)
(* accesses has it, so nobody waits for a lock that is forgotten.          *)
THEOREM LockIsGivenBack ==
  ASSUME MeasuredWindows \subseteq Value
  PROVE  Spec => [](lock # "free" => lock \in Readers /\ reader[lock].at \in {"assert", "read"})
<1>1. IInv => (lock # "free" => lock \in Readers /\ reader[lock].at \in {"assert", "read"})
  BY DEF IInv, StoreInv, StoreTypeOK, ReaderOK, HoldsLock, Reading
<1> QED
  BY <1>1, Invariant, PTL
=============================================================================
