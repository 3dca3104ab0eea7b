------------------------- MODULE ByteStreamRx_proofs -------------------------
(***************************************************************************)
(* ByteStreamRx never loses a connection, never reads one that it has not  *)
(* got and counts each byte in one window: for any number of readers,      *)
(* windows, connections and bytes, and whatever fails.  (Its readers can   *)
(* abort, see the run stream_race; the proofs hold in a program that goes  *)
(* on.)                                                                    *)
(***************************************************************************)
EXTENDS ByteStreamRx, TLAPS

-----------------------------------------------------------------------------
(* What a Push() does to the windows.                                      *)

(* A Push() makes v element [0], and moves each other element that is kept *)
(* one place up.                                                           *)
LEMMA PushShifts ==
  ASSUME BufferTypeOK, NEW v, Push(v), NEW i \in 0 .. count' - 1
  PROVE  Get(i)' = IF i = 0 THEN v ELSE Get(i - 1)
<1> USE CapacityAssumption DEF BufferTypeOK, Slots
<1>1. CASE i = 0
  <2>1. Slot(i)' = next
    BY <1>1 DEF Slot, Push
  <2> QED
    BY <1>1, <2>1 DEF Get, Push
<1>2. CASE i # 0
  <2>1. Slot(i)' = Slot(i - 1)
    BY <1>2 DEF Slot, Push
  <2>2. Slot(i - 1) # next /\ Slot(i - 1) \in Slots
    BY <1>2 DEF Slot, Push
  <2> QED
    BY <1>2, <2>1, <2>2 DEF Get, Push
<1> QED
  BY <1>1, <1>2

LEMMA PushStep ==
  ASSUME BufferTypeOK, NEW v, Push(v)
  PROVE  R!Push(v)
<1> DEFINE old  == [i \in 1 .. count |-> Get(i - 1)]
           kept == IF count < Capacity THEN count + 1 ELSE Capacity
<1>1. kept \in Nat /\ kept <= count + 1 /\ count' = kept /\ count \in Nat
  BY CapacityAssumption DEF BufferTypeOK, Push
<1>2. old \in Seq(Value \cup {Default}) /\ Len(old) = count
  <2>1. ASSUME NEW i \in 1 .. count PROVE Get(i - 1) \in Value \cup {Default}
    BY CapacityAssumption DEF BufferTypeOK, Slots, Slot, Get
  <2> QED
    BY <1>1, <2>1
<1>3. SubSeq(<<v>> \o old, 1, kept) = [i \in 1 .. kept |-> IF i = 1 THEN v ELSE old[i - 1]]
  BY <1>1, <1>2
<1>4. \A i \in 1 .. kept : Get(i - 1)' = IF i = 1 THEN v ELSE old[i - 1]
  <2> TAKE i \in 1 .. kept
  <2>1. i - 1 \in 0 .. count' - 1
    BY <1>1
  <2>2. Get(i - 1)' = IF i - 1 = 0 THEN v ELSE Get(i - 1 - 1)
    BY <2>1, PushShifts
  <2> QED
    BY <1>1, <2>2
<1> HIDE DEF kept
<1>5. [i \in 1 .. count' |-> Get(i - 1)'] = SubSeq(<<v>> \o old, 1, kept)
  BY <1>1, <1>3, <1>4
<1> QED
  BY <1>2, <1>5 DEF R!Push, kept

-----------------------------------------------------------------------------
(* The readers.  One that has not aborted reads the windows that it asked  *)
(* for, and those lie inside the buffer, whether or not they still exist.  *)
(* It holds the lock; one that has aborted keeps it.                       *)

ReaderOK(r) ==
  /\ reader[r].first \in {0, reader[r].last}
  /\ reader[r].at \in {"idle", "lock"} => reader[r].got = <<>>
  /\ reader[r].at \in {"assert", "read"} => Index(r) <= reader[r].last
  /\ reader[r].at \in {"assert", "read", "aborted"} <=> lock = r

StoreInv == StoreTypeOK /\ \A r \in Readers : ReaderOK(r)

LEMMA EmptyView == <<>> \in Views
<1>1. <<>> \in Seq(Value \cup {Default}) /\ Len(<<>>) = 0
  OBVIOUS
<1>2. Len(<<>>) <= Capacity
  BY <1>1, CapacityAssumption
<1> QED
  BY <1>1, <1>2 DEF Views

LEMMA IdleReader ==
  ASSUME NEW last \in Indexes, NEW nan \in BOOLEAN, NEW size \in 0 .. Capacity
  PROVE  /\ Idle(last, nan, size) \in Reader
         /\ Idle(last, nan, size).first = 0
         /\ Idle(last, nan, size).at = "idle" /\ Idle(last, nan, size).got = <<>>
<1>1. 0 \in Indexes
  BY CapacityAssumption DEF Indexes
<1> QED
  BY <1>1, EmptyView DEF Idle, Reader

LEMMA OneReader ==
  ASSUME StoreInv, NEW r \in Readers, NEW x \in Reader,
         reader' = [reader EXCEPT ![r] = x],
         x.first \in {0, x.last},
         x.at \in {"idle", "lock"} => x.got = <<>>,
         x.at \in {"assert", "read"} => x.first + Len(x.got) <= x.last,
         UNCHANGED ring,
         lock \in {r, "free"} \/ lock' = lock, lock' \in {lock, r, "free"},
         x.at \in {"assert", "read", "aborted"} <=> lock' = r
  PROVE  StoreInv'
<1>1. reader' \in [Readers -> Reader] /\ reader'[r] = x
  BY DEF StoreInv, StoreTypeOK
<1>2. StoreTypeOK'
  BY <1>1 DEF StoreInv, StoreTypeOK, BufferTypeOK, ring
<1>3. ReaderOK(r)'
  BY <1>1 DEF ReaderOK, Index
<1>4. ASSUME NEW s \in Readers, s # r PROVE ReaderOK(s)'
  <2>1. reader'[s] = reader[s] /\ ReaderOK(s)
    BY <1>4 DEF StoreInv, StoreTypeOK
  <2>2. lock' = s <=> lock = s
    BY <1>4, ReadersAssumption
  <2> QED
    BY <2>1, <2>2 DEF ReaderOK, Index
<1> QED
  BY <1>2, <1>3, <1>4 DEF StoreInv

LEMMA CallRateOK ==
  ASSUME StoreInv, NEW r \in Readers, NEW i \in Indexes, NEW j \in Indexes, CallRate(r, i, j)
  PROVE  StoreInv'
<1> DEFINE x == Busy("lock", i, j, <<>>, reader[r].size)
<1>1. reader[r] \in Reader
  BY DEF StoreInv, StoreTypeOK
<1>2. x \in Reader
  BY <1>1, EmptyView DEF Busy, Reader
<1>3. x.at = "lock" /\ x.first = i /\ x.last = j /\ x.got = <<>>
  BY DEF Busy
<1>4. reader' = [reader EXCEPT ![r] = x] /\ i \in {0, j} /\ UNCHANGED <<ring, lock>> /\ lock # r
  BY DEF CallRate, StoreInv, ReaderOK
<1> HIDE DEF x
<1> QED
  BY <1>2, <1>3, <1>4, OneReader

LEMMA TooFewOK ==
  ASSUME StoreInv, NEW r \in Readers, TooFew(r)
  PROVE  StoreInv'
<1> DEFINE x == Idle(reader[r].last, TRUE, reader[r].size)
<1>1. reader[r].last \in Indexes /\ reader[r].size \in 0 .. Capacity
  BY DEF StoreInv, StoreTypeOK, Reader
<1>2. x \in Reader /\ x.first = 0 /\ x.at = "idle" /\ x.got = <<>>
  BY <1>1, IdleReader
<1>3. reader' = [reader EXCEPT ![r] = x] /\ UNCHANGED <<ring, lock>> /\ lock # r
  BY ReadersAssumption DEF TooFew
<1> HIDE DEF x
<1> QED
  BY <1>2, <1>3, OneReader

LEMMA EnoughOK ==
  ASSUME StoreInv, NEW r \in Readers, Enough(r)
  PROVE  StoreInv'
<1> DEFINE x == [reader[r] EXCEPT !.at = "assert"]
<1>1. reader[r] \in Reader /\ ReaderOK(r)
  BY DEF StoreInv, StoreTypeOK
<1>2. x \in Reader
  BY <1>1 DEF Reader
<1>3. x.at = "assert" /\ x.first = reader[r].first /\ x.last = reader[r].last /\ x.got = reader[r].got
  BY <1>1 DEF Reader
<1>4. reader' = [reader EXCEPT ![r] = x] /\ UNCHANGED ring /\ lock = "free" /\ lock' = r
  BY DEF Enough
<1>5. /\ reader[r].first \in Nat /\ reader[r].last \in Nat /\ Len(reader[r].got) = 0
      /\ reader[r].first \in {0, reader[r].last}
  BY <1>1, CapacityAssumption DEF Enough, ReaderOK, Reader, Indexes
<1> HIDE DEF x
<1>6. x.first + Len(x.got) <= x.last
  BY <1>3, <1>5
<1> QED
  BY <1>2, <1>3, <1>4, <1>5, <1>6, OneReader

LEMMA AssertOK ==
  ASSUME StoreInv, NEW r \in Readers, Assert(r)
  PROVE  StoreInv'
<1> DEFINE x == [reader[r] EXCEPT !.at = IF Index(r) < count THEN "read" ELSE "aborted"]
<1>1. reader[r] \in Reader /\ ReaderOK(r) /\ reader[r].at = "assert"
  BY DEF StoreInv, StoreTypeOK, Assert
<1>2. x \in Reader
  BY <1>1 DEF Reader
<1>3. /\ x.at \in {"read", "aborted"}
      /\ x.first = reader[r].first /\ x.last = reader[r].last /\ x.got = reader[r].got
  BY <1>1 DEF Reader
<1>4. reader' = [reader EXCEPT ![r] = x] /\ UNCHANGED <<ring, lock>> /\ lock = r
  BY <1>1 DEF Assert, ReaderOK
<1> HIDE DEF x
<1>5. x.first \in {0, x.last} /\ x.first + Len(x.got) <= x.last
  BY <1>1, <1>3 DEF ReaderOK, Index
<1> QED
  BY <1>2, <1>3, <1>4, <1>5, OneReader

LEMMA ReadWindowOK ==
  ASSUME StoreInv, NEW r \in Readers, ReadWindow(r)
  PROVE  StoreInv'
<1> DEFINE w   == Get(Index(r))
           got == reader[r].got
<1>1. reader[r] \in Reader /\ ReaderOK(r) /\ reader[r].at = "read"
  BY DEF StoreInv, StoreTypeOK, ReadWindow
<1>2. /\ got \in Seq(Value \cup {Default}) /\ Len(got) \in Nat
      /\ reader[r].first \in Nat /\ reader[r].last \in 0 .. Capacity - 1
      /\ reader[r].first \in {0, reader[r].last}
  BY <1>1, CapacityAssumption DEF Reader, Indexes, Views, ReaderOK
<1>3. Index(r) = reader[r].first + Len(got) /\ Index(r) <= reader[r].last
  BY <1>1 DEF Index, ReaderOK
<1> HIDE DEF got
<1>4. CASE Index(r) = reader[r].last
  <2> DEFINE x == Idle(0, FALSE, reader[r].size)
  <2>1. 0 \in Indexes /\ reader[r].size \in 0 .. Capacity
    BY <1>1, CapacityAssumption DEF Indexes, Reader
  <2>2. x \in Reader /\ x.first = 0 /\ x.at = "idle" /\ x.got = <<>>
    BY <2>1, IdleReader
  <2>3. reader' = [reader EXCEPT ![r] = x] /\ lock = r /\ lock' = "free" /\ UNCHANGED ring
    BY <1>1, <1>4 DEF ReadWindow, ReaderOK
  <2> HIDE DEF x
  <2> QED
    BY <2>2, <2>3, ReadersAssumption, OneReader
<1>5. CASE Index(r) # reader[r].last
  <2> DEFINE x == Busy("assert", reader[r].first, reader[r].last, Append(got, w), reader[r].size)
  <2>1. w \in Value \cup {Default}
    <3>1. buffer \in [0 .. Capacity - 1 -> Value \cup {Default}] /\ next \in 0 .. Capacity - 1
      BY DEF BufferTypeOK, Slots, StoreInv, StoreTypeOK
    <3>2. Index(r) \in 0 .. Capacity - 1
      BY <1>2, <1>3, CapacityAssumption
    <3>3. Slot(Index(r)) \in 0 .. Capacity - 1
      BY <3>1, <3>2, CapacityAssumption DEF Slot
    <3> QED
      BY <3>1, <3>3 DEF Get
  <2>2. Len(got) + 1 <= Capacity /\ reader[r].first + (Len(got) + 1) <= reader[r].last
    BY <1>2, <1>3, <1>5, CapacityAssumption
  <2>3. Append(got, w) \in Seq(Value \cup {Default}) /\ Len(Append(got, w)) = Len(got) + 1
    BY <1>2, <2>1
  <2>4. x \in Reader
    BY <1>1, <2>2, <2>3 DEF Busy, Reader, Views
  <2>5. x.at = "assert" /\ x.first = reader[r].first /\ x.last = reader[r].last /\ x.got = Append(got, w)
    BY DEF Busy
  <2>6. reader' = [reader EXCEPT ![r] = x] /\ lock' = lock /\ lock = r /\ UNCHANGED ring
    BY <1>1, <1>5 DEF got, ReadWindow, ReaderOK
  <2> HIDE DEF x
  <2> QED
    BY <1>2, <2>2, <2>3, <2>4, <2>5, <2>6, OneReader
<1> QED
  BY <1>4, <1>5

LEMMA ReaderKeepsStore ==
  ASSUME StoreInv, NEW r \in Readers, ReaderActs(r)
  PROVE  StoreInv'
BY CallRateOK, TooFewOK, EnoughOK, AssertOK, ReadWindowOK DEF ReaderActs, ReaderCall, ReaderStep

-----------------------------------------------------------------------------
(* The service.                                                            *)

ServiceTypeOK ==
  /\ L!TypeOK
  /\ step \in Steps
  /\ step # "none" <=> running = "Iteration"
  /\ socket_fd \in {"none", "listening"}
  /\ client_fd \in Connections \cup {Failed, Unset}
  /\ open \subseteq Connections
  /\ accepts \in 0 .. MaxAccepts
  /\ peer \in {"open", "closed", "broken"}
  /\ first \in BOOLEAN /\ close_connection \in BOOLEAN
  /\ timeout_count \in 0 .. kMaxReadTimeouts + 1
  /\ watch \in {"stopped", "running", "over"}
  /\ acc \in 0 .. received /\ bytes \in 0 .. received /\ received \in 0 .. MaxBytes
  /\ mark \in 0 .. received /\ since \in 0 .. received

(* The phase in which each callback runs.                                  *)
LifeOK ==
  /\ running = "Initialize" => phase = "new"
  /\ running = "Start" => phase = "stopped"
  /\ running \in {"Iteration", "Stop"} => phase = "started"
  /\ running = "Finalize" => phase = "closing"

(* Between DropConnection and Accept there is no connection, before the    *)
(* first DropConnection neither, and a connection is read while first_ and *)
(* close_connection_ say that it may be.                                   *)
Accepting == {"clear_next", "clear_count", "accept"}

ConnectionOK ==
  /\ open \subseteq {client_fd}
  /\ first \/ phase = "finalized" \/ step \in Accepting => open = {}
  /\ ~first /\ phase # "finalized" /\ step \notin Accepting => client_fd \in open \cup {Failed}
  /\ step \in Accepting \cup {"read"} => ~first /\ ~close_connection
  /\ ~close_connection => timeout_count <= kMaxReadTimeouts
  /\ phase = "new" => first /\ timeout_count = 0

(* The windows tell the bytes, and accept() finds none.                    *)
BytesOK == EveryByteInOneWindow /\ (step = "accept" => count = 0)

IInv == StoreInv /\ ServiceTypeOK /\ LifeOK /\ ConnectionOK /\ BytesOK

LEMMA InitEstablishes == Init => IInv
<1> SUFFICES ASSUME Init PROVE IInv
  OBVIOUS
<1> DEFINE x == Idle(0, FALSE, 0)
<1>1. x \in Reader /\ x.at = "idle" /\ x.first = 0 /\ x.last = 0 /\ x.got = <<>>
  <2>1. 0 \in Indexes /\ 0 \in 0 .. Capacity
    BY CapacityAssumption DEF Indexes
  <2> QED
    BY <2>1, IdleReader DEF Idle
<1> HIDE DEF x
<1>2. BufferTypeOK
  BY CapacityAssumption DEF Init, StoreInit, BufferInit, BufferTypeOK, Slots
<1>3. reader = [r \in Readers |-> x] /\ lock = "free"
  BY DEF Init, StoreInit, x
<1>4. StoreInv
  BY <1>1, <1>2, <1>3, ReadersAssumption DEF StoreInv, StoreTypeOK, ReaderOK
<1>5. ServiceTypeOK /\ LifeOK /\ ConnectionOK
  <2>1. L!TypeOK /\ LifeOK
    BY DEF Init, L!Init, L!TypeOK, L!Phases, L!Callbacks, LifeOK
  <2>2. 0 \in 0 .. kMaxReadTimeouts + 1 /\ 0 \in 0 .. 0 /\ 0 \in 0 .. MaxAccepts /\ 0 \in 0 .. MaxBytes
    BY RxAssumption
  <2>3. ServiceTypeOK
    BY <2>1, <2>2 DEF Init, L!Init, ServiceTypeOK, Steps, Unset
  <2>4. ConnectionOK
    BY RxAssumption DEF Init, ConnectionOK, Accepting
  <2> QED
    BY <2>1, <2>3, <2>4
<1>6. BytesOK
  BY DEF Init, StoreInit, BufferInit, BytesOK, EveryByteInOneWindow
<1> QED
  BY <1>4, <1>5, <1>6 DEF IInv

LEMMA ClosedIsAWindow == IInv => Closed \in Value
BY RxAssumption DEF IInv, ServiceTypeOK, Closed, MeasuredWindows

(* A push, a Clear(), and the readers are what touches the store.          *)
LEMMA StoreStep ==
  ASSUME IInv, [Next]_vars
  PROVE  StoreInv'
<1> USE DEF IInv
<1>1. ASSUME UNCHANGED <<lock, reader>>, BufferTypeOK' PROVE StoreInv'
  BY <1>1 DEF StoreInv, StoreTypeOK, ReaderOK, Index
<1>2. CASE UNCHANGED store
  BY <1>1, <1>2 DEF store, ring, StoreInv, StoreTypeOK, BufferTypeOK
<1>3. CASE ClearNext \/ ClearCount
  BY <1>1, <1>3, CapacityAssumption
  DEF ClearNext, ClearCount, StoreInv, StoreTypeOK, BufferTypeOK, Slots
<1>4. CASE PushWindow
  <2>1. Closed \in Value
    BY ClosedIsAWindow
  <2>2. BufferTypeOK'
    BY <1>4, <2>1, CapacityAssumption
    DEF PushWindow, LockedPush, Push, StoreInv, StoreTypeOK, BufferTypeOK, Slots
  <2> QED
    BY <1>1, <1>4, <2>2 DEF PushWindow, LockedPush
<1>5. ASSUME NEW r \in Readers, ReaderActs(r) PROVE StoreInv'
  BY <1>5, ReaderKeepsStore
<1> QED
  BY <1>2, <1>3, <1>4, <1>5
  DEF Next, Ask, Tick, PeerLeaves, ServiceStep, Lifecycle, NoSocket, Initialized, BeginIteration,
      DropConnection, ReadData, ReadEnd, ReadFails, ReadTimesOut, ReadError, CheckWindow, Finalized,
      Accept, AcceptFails, vars

LEMMA ServiceTypeStep ==
  ASSUME IInv, [Next]_vars
  PROVE  ServiceTypeOK'
<1> USE RxAssumption DEF IInv, ServiceTypeOK, L!TypeOK, L!Phases, L!Callbacks, L!Requests, Steps
<1>1. CASE Ask
  BY <1>1 DEF Ask, sockets, flags, counts, L!Ask
<1>2. CASE Tick \/ PeerLeaves
  <2>1. CASE Tick
    BY <2>1 DEF Tick, life, sockets, flags, counts
  <2>2. CASE PeerLeaves
    BY <2>2 DEF PeerLeaves, life, flags, counts
  <2> QED
    BY <1>2, <2>1, <2>2
<1>3. CASE Lifecycle
  <2>1. L!TypeOK' /\ (step # "none" <=> running = "Iteration")'
    BY <1>3 DEF Lifecycle, L!BeginInitialize, L!BeginStart, L!EndStart, L!BeginStop, L!EndStop,
       L!Close, L!BeginFinalize, L!Begin, L!End
  <2> QED
    BY <1>3, <2>1 DEF Lifecycle, sockets, flags, counts
<1>4. CASE NoSocket
  BY <1>4 DEF NoSocket, sockets, flags, counts, L!EndInitialize, L!End
<1>5. CASE Initialized
  <2>1. L!TypeOK' /\ (step # "none" <=> running = "Iteration")'
    BY <1>5 DEF Initialized, L!EndInitialize, L!End
  <2>2. 0 \in 0 .. received
    OBVIOUS
  <2> QED
    BY <1>5, <2>1, <2>2 DEF Initialized
<1>6. CASE BeginIteration
  BY <1>6 DEF BeginIteration, sockets, flags, counts, L!BeginIteration, L!Begin
<1>7. CASE DropConnection
  <2>1. L!TypeOK' /\ (step # "none" <=> running = "Iteration")'
    BY <1>7 DEF DropConnection, life
  <2>2. 0 \in 0 .. received /\ 0 \in 0 .. kMaxReadTimeouts + 1
    OBVIOUS
  <2>3. open' \subseteq Connections
    BY <1>7 DEF DropConnection
  <2> QED
    BY <1>7, <2>1, <2>2, <2>3 DEF DropConnection
<1>8. CASE ClearNext \/ ClearCount
  BY <1>8 DEF ClearNext, ClearCount, life, sockets, flags, counts
<1>9. CASE Accept
  BY <1>9 DEF Accept, Connections, life, flags, counts
<1>10. CASE AcceptFails
  BY <1>10 DEF AcceptFails, Failed, flags, counts, L!EndIteration, L!End
<1>11. CASE ReadData
  BY <1>11 DEF ReadData, life, sockets, flags
<1>12. CASE ReadEnd
  BY <1>12 DEF ReadEnd, ConnectionOK, life, sockets, counts
<1>13. CASE ReadFails \/ ReadTimesOut
  BY <1>13 DEF ReadFails, ReadTimesOut, ReadError, sockets, counts, L!EndIteration, L!End
<1>14. CASE CheckWindow
  BY <1>14 DEF CheckWindow, life, sockets, flags, counts, L!EndIteration, L!End
<1>15. CASE PushWindow
  BY <1>15 DEF PushWindow, sockets, flags, L!EndIteration, L!End
<1>16. CASE Finalized
  BY <1>16 DEF Finalized, flags, counts, L!EndFinalize, L!End
<1>17. ASSUME NEW r \in Readers, ReaderActs(r) PROVE ServiceTypeOK'
  BY <1>17 DEF ReaderActs, life, sockets, flags, counts
<1>18. CASE UNCHANGED vars
  BY <1>18 DEF vars, life, sockets, flags, counts
<1> QED
  BY <1>1, <1>2, <1>3, <1>4, <1>5, <1>6, <1>7, <1>8, <1>9, <1>10, <1>11, <1>12, <1>13, <1>14, <1>15,
     <1>16, <1>17, <1>18 DEF Next, ServiceStep

LEMMA ConnectionStep ==
  ASSUME IInv, [Next]_vars
  PROVE  LifeOK' /\ ConnectionOK'
<1> USE RxAssumption DEF IInv, ServiceTypeOK, L!TypeOK, LifeOK, ConnectionOK, Accepting
<1>1. CASE Ask
  BY <1>1 DEF Ask, sockets, flags, L!Ask
<1>2. CASE Tick \/ PeerLeaves
  BY <1>2 DEF Tick, PeerLeaves, life, sockets, flags
<1>3. CASE Lifecycle
  BY <1>3 DEF Lifecycle, sockets, flags, L!BeginInitialize, L!BeginStart, L!EndStart, L!BeginStop,
     L!EndStop, L!Close, L!BeginFinalize, L!Begin, L!End
<1>4. CASE NoSocket
  BY <1>4 DEF NoSocket, sockets, flags, L!EndInitialize, L!End
<1>5. CASE Initialized
  BY <1>5 DEF Initialized, L!EndInitialize, L!End
<1>6. CASE BeginIteration
  BY <1>6 DEF BeginIteration, sockets, flags, L!BeginIteration, L!Begin
<1>7. CASE DropConnection
  BY <1>7 DEF DropConnection, life
<1>8. CASE ClearNext \/ ClearCount
  BY <1>8 DEF ClearNext, ClearCount, life, sockets, flags
<1>9. CASE Accept
  BY <1>9 DEF Accept, life, flags
<1>10. CASE AcceptFails
  BY <1>10 DEF AcceptFails, flags, L!EndIteration, L!End
<1>11. CASE ReadData
  BY <1>11 DEF ReadData, life, sockets, flags
<1>12. CASE ReadEnd
  <2>1. LifeOK'
    BY <1>12 DEF ReadEnd, life
  <2>2. timeout_count' = timeout_count + 1 /\ timeout_count \in Nat /\ kMaxReadTimeouts \in Nat
    BY <1>12 DEF ReadEnd
  <2>3. ~close_connection' => timeout_count' <= kMaxReadTimeouts
    <3>1. timeout_count' > kMaxReadTimeouts => close_connection' = TRUE
      BY <1>12, Zenon DEF ReadEnd
    <3> QED
      BY <2>2, <3>1
  <2>4. phase' # "new" /\ step' = "window" /\ first' = first /\ UNCHANGED <<open, client_fd, phase>>
    BY <1>12 DEF ReadEnd, life, sockets
  <2> QED
    BY <1>12, <2>1, <2>3, <2>4 DEF ReadEnd
<1>13. CASE ReadFails \/ ReadTimesOut
  BY <1>13 DEF ReadFails, ReadTimesOut, ReadError, sockets, L!EndIteration, L!End
<1>14. CASE CheckWindow
  BY <1>14 DEF CheckWindow, life, sockets, flags, L!EndIteration, L!End
<1>15. CASE PushWindow
  BY <1>15 DEF PushWindow, sockets, flags, L!EndIteration, L!End
<1>16. CASE Finalized
  BY <1>16 DEF Finalized, flags, L!EndFinalize, L!End
<1>17. ASSUME NEW r \in Readers, ReaderActs(r) PROVE LifeOK' /\ ConnectionOK'
  BY <1>17 DEF ReaderActs, life, sockets, flags
<1>18. CASE UNCHANGED vars
  BY <1>18 DEF vars, life, sockets, flags
<1> QED
  BY <1>1, <1>2, <1>3, <1>4, <1>5, <1>6, <1>7, <1>8, <1>9, <1>10, <1>11, <1>12, <1>13, <1>14, <1>15,
     <1>16, <1>17, <1>18 DEF Next, ServiceStep

(* A push closes the window being measured where the next one begins; the  *)
(* others are those that there were, but for the oldest of a full buffer.  *)
LEMMA PushKeepsBytes ==
  ASSUME IInv, PushWindow
  PROVE  BytesOK'
<1>1. BufferTypeOK /\ Push(Closed)
  BY DEF IInv, StoreInv, StoreTypeOK, PushWindow, LockedPush
<1>2. \A i \in 0 .. count' - 1 : Get(i)' = IF i = 0 THEN Closed ELSE Get(i - 1)
  BY <1>1, PushShifts
<1>3. PICK n \in Nat, m \in Nat : n = count /\ m = count' /\ m - 1 <= n
  BY <1>1, CapacityAssumption DEF BufferTypeOK, Push
<1>4. m - 1 <= n
  BY <1>3
<1>5. /\ mark' = received /\ UNCHANGED <<received, since>> /\ bytes' = 0
      /\ step = "push" /\ step' = "none"
      /\ received \in Nat /\ since \in Nat /\ received >= since
  BY RxAssumption DEF PushWindow, IInv, ServiceTypeOK
<1>6. /\ Closed.from = mark /\ Closed.to = received /\ Closed.to >= since
      /\ Closed.bytes = Closed.to - Closed.from
  BY <1>5 DEF Closed, IInv, BytesOK, EveryByteInOneWindow
<1>7. \A i \in 0 .. n - 1 :
        Get(i).bytes = Get(i).to - Get(i).from /\ Get(i).to = Begin(i - 1) /\ Get(i).to >= since
  BY <1>3, <1>5 DEF IInv, BytesOK, EveryByteInOneWindow
<1>8. ASSUME NEW i \in 0 .. m - 1
      PROVE  /\ Get(i)'.bytes = Get(i)'.to - Get(i)'.from
             /\ Get(i)'.to = Begin(i - 1)' /\ Get(i)'.to >= since'
  <2>1. \A k \in 0 .. m - 1 : Get(k)' = IF k = 0 THEN Closed ELSE Get(k - 1)
    BY <1>2, <1>3
  <2>2. CASE i = 0
    <3>1. Get(i)' = Closed /\ Begin(i - 1)' = mark'
      BY <2>1, <2>2 DEF Begin
    <3> QED
      BY <1>5, <1>6, <3>1
  <2>3. CASE i = 1
    <3>1. i - 1 = 0 /\ 0 \in 0 .. n - 1 /\ 0 \in 0 .. m - 1
      BY <1>4, <2>3
    <3>2. Get(i)' = Get(0) /\ Get(0)' = Closed
      BY <2>1, <2>3, <3>1
    <3>3. Begin(i - 1)' = Get(0)'.from
      BY <3>1 DEF Begin
    <3>4. Begin(0 - 1) = mark
      BY DEF Begin
    <3> QED
      BY <1>5, <1>6, <1>7, <3>1, <3>2, <3>3, <3>4
  <2>4. CASE i > 1
    <3>1. /\ i - 1 \in 0 .. n - 1 /\ i - 1 \in 0 .. m - 1
          /\ i # 0 /\ i - 1 # 0 /\ ~(i - 1 < 0) /\ ~((i - 1) - 1 < 0)
      BY <1>4, <2>4
    <3>2. Get(i)' = Get(i - 1) /\ Get(i - 1)' = Get((i - 1) - 1)
      BY <2>1, <3>1
    <3>3. Begin(i - 1)' = Get((i - 1) - 1).from
      BY <3>1, <3>2 DEF Begin
    <3>4. Begin((i - 1) - 1) = Get((i - 1) - 1).from
      BY <3>1 DEF Begin
    <3> QED
      BY <1>5, <1>7, <3>1, <3>2, <3>3, <3>4
  <2> QED
    BY <2>2, <2>3, <2>4
<1>9. bytes' = received' - mark'
  BY <1>5
<1> QED
  BY <1>3, <1>5, <1>8, <1>9 DEF BytesOK, EveryByteInOneWindow

(* What else reads or receives leaves the windows as they are; Clear()     *)
(* leaves none.                                                            *)
LEMMA BytesStep ==
  ASSUME IInv, [Next]_vars
  PROVE  BytesOK'
<1>1. BytesOK /\ (step # "none" <=> running = "Iteration")
  BY DEF IInv, ServiceTypeOK
<1>2. ASSUME UNCHANGED <<ring, bytes, received, mark, since>>,
             step' = step \/ (step \notin {"clear_count"} /\ step' # "accept")
      PROVE  BytesOK'
  BY <1>1, <1>2 DEF BytesOK, EveryByteInOneWindow, Begin, Get, Slot, ring
<1>3. CASE ClearNext
  BY <1>1, <1>3 DEF ClearNext, counts, BytesOK, EveryByteInOneWindow
<1>4. CASE ClearCount
  BY <1>1, <1>4 DEF ClearCount, counts, BytesOK, EveryByteInOneWindow
<1>5. CASE Accept
  <2>1. count' = 0 /\ step' = "read" /\ UNCHANGED <<bytes, received, mark>>
    BY <1>1, <1>5 DEF Accept, counts, store, ring, BytesOK
  <2> QED
    BY <1>1, <2>1 DEF BytesOK, EveryByteInOneWindow
<1>6. CASE ReadData
  <2>1. /\ UNCHANGED <<ring, mark, since>> /\ step = "read" /\ step' = "window"
        /\ bytes' = bytes + 1 /\ received' = received + 1
    BY <1>6 DEF ReadData, store
  <2>2. bytes \in Int /\ received \in Int /\ mark \in Int
    BY RxAssumption DEF IInv, ServiceTypeOK
  <2>3. bytes' = received' - mark'
    BY <1>1, <2>1, <2>2 DEF BytesOK, EveryByteInOneWindow
  <2> QED
    BY <1>1, <2>1, <2>3 DEF BytesOK, EveryByteInOneWindow, Begin, Get, Slot, ring
<1>7. CASE PushWindow
  BY <1>7, PushKeepsBytes
<1>8. ASSUME NEW r \in Readers, ReaderActs(r) PROVE BytesOK'
  BY <1>2, <1>8
  DEF ReaderActs, ReaderCall, CallRate, ReaderStep, TooFew, Enough, Assert, ReadWindow, counts
<1>9. CASE BeginIteration
  BY <1>1, <1>2, <1>9 DEF BeginIteration, store, counts, L!BeginIteration, L!Begin
<1> QED
  BY <1>2, <1>3, <1>4, <1>5, <1>6, <1>7, <1>8, <1>9
  DEF Next, Ask, Tick, PeerLeaves, ServiceStep, Lifecycle, NoSocket, Initialized,
      DropConnection, ReadEnd, ReadFails, ReadTimesOut, ReadError, CheckWindow,
      Finalized, AcceptFails, vars, store, counts

LEMMA Invariant == Spec => []IInv
<1>1. IInv /\ [Next]_vars => IInv'
  BY StoreStep, ServiceTypeStep, ConnectionStep, BytesStep DEF IInv
<1> QED
  BY InitEstablishes, <1>1, PTL DEF Spec

(* Types, for any readers, connections, bytes and number of windows; so    *)
(* timeout_count_ is never more than one over its limit.                   *)
THEOREM TypeCorrect == Spec => []TypeOK
<1>1. IInv => TypeOK
  BY DEF IInv, StoreInv, ServiceTypeOK, TypeOK
<1> QED
  BY <1>1, Invariant, PTL

(* The only connection that is open is the one in client_fd_, and none is  *)
(* when the service is over, however connections, failures, stops and      *)
(* restarts follow each other.                                             *)
THEOREM ConnectionsAreClosed == Spec => []NoConnectionLeaks
<1>1. IInv => NoConnectionLeaks
  BY DEF IInv, ConnectionOK, NoConnectionLeaks
<1> QED
  BY <1>1, Invariant, PTL

(* read() is called with a connection that accept() has returned and that  *)
(* is still open, or with the -1 of an accept() that failed.               *)
THEOREM ReadsSafely == Spec => []ReadsAConnection
<1>1. IInv => ReadsAConnection
  BY DEF IInv, ServiceTypeOK, LifeOK, ConnectionOK, Accepting, ReadsAConnection
<1> QED
  BY <1>1, Invariant, PTL

(* What a window counts is what was read while it lasted; it begins where  *)
(* the one before it ends, and ends in the current connection: for any     *)
(* capacity and any number of connections and bytes.                       *)
THEOREM EveryByteIsCounted == Spec => []EveryByteInOneWindow
<1>1. IInv => EveryByteInOneWindow
  BY DEF IInv, BytesOK
<1> QED
  BY <1>1, Invariant, PTL

(* Window i is the one measured i windows ago on the current connection:   *)
(* the two steps of Clear() look like one, at the first of them.           *)
Shown == IF step = "clear_count" THEN <<>> ELSE [i \in 1 .. count |-> Get(i - 1)]

LEMMA ShownStep ==
  ASSUME IInv, [Next]_vars
  PROVE  [C!Next]_Shown
<1>1. step # "none" <=> running = "Iteration"
  BY DEF IInv, ServiceTypeOK
<1>2. ASSUME UNCHANGED ring, step' = step \/ (step # "clear_count" /\ step' # "clear_count")
      PROVE  Shown' = Shown
  BY <1>2 DEF Shown, ring, Get, Slot
<1>3. CASE ClearNext
  BY <1>3 DEF ClearNext, Shown, C!Next, C!Clear
<1>4. CASE ClearCount
  <2>1. step = "clear_count" /\ step' = "accept" /\ count' = 0
    BY <1>4 DEF ClearCount
  <2>2. Shown = <<>> /\ Shown' = <<>>
    BY <2>1 DEF Shown
  <2> QED
    BY <2>2
<1>5. CASE PushWindow
  <2>1. BufferTypeOK /\ Push(Closed) /\ Closed \in Value /\ step = "push" /\ step' = "none"
    BY <1>5, ClosedIsAWindow DEF IInv, StoreInv, StoreTypeOK, PushWindow, LockedPush
  <2>2. C!Push(Closed)
    BY <2>1, PushStep DEF C!Push, R!Push
  <2> QED
    BY <2>1, <2>2 DEF C!Next
<1>6. ASSUME NEW r \in Readers, ReaderActs(r) PROVE Shown' = Shown
  BY <1>2, <1>6
  DEF ReaderActs, ReaderCall, CallRate, ReaderStep, TooFew, Enough, Assert, ReadWindow
<1>7. CASE BeginIteration
  BY <1>1, <1>2, <1>7 DEF BeginIteration, store, L!BeginIteration, L!Begin
<1> QED
  BY <1>2, <1>3, <1>4, <1>5, <1>6, <1>7
  DEF Next, Ask, Tick, PeerLeaves, ServiceStep, Lifecycle, NoSocket, Initialized,
      DropConnection, ReadData, ReadEnd, ReadFails, ReadTimesOut, ReadError, CheckWindow,
      Finalized, Accept, AcceptFails, vars, store

THEOREM RecentWindows == Spec => KeepsTheRecentWindows
<1>1. Init => C!Init
  BY DEF Init, StoreInit, BufferInit, C!Init
<1>2. IInv /\ [Next]_vars => [C!Next]_Shown
  BY ShownStep
<1> QED
  BY <1>1, <1>2, Invariant, PTL DEF Spec, KeepsTheRecentWindows, C!Spec, Shown

-----------------------------------------------------------------------------
(* The unlocked Clear() is the only thing that can make a reader abort, or *)
(* show it two states of the windows: were it done while nobody holds the  *)
(* lock, in one step or in two, readers would be safe.                     *)

ClearsUnderLock == ClearNext \/ ClearCount => lock = "free"

Reading(r) == reader[r].at \in {"assert", "read"}

\* What NoReaderAborts and OneView say of one reader.
Undisturbed(r) ==
  /\ reader[r].at # "aborted"
  /\ Reading(r) =>
       /\ reader[r].last < count
       /\ \A k \in 1 .. Len(reader[r].got) : reader[r].got[k] = Get(reader[r].first + k - 1)

AllUndisturbed == \A r \in Readers : Undisturbed(r)

(* A reader does not disturb the others.                                   *)
LEMMA OthersUndisturbed ==
  ASSUME AllUndisturbed, NEW r \in Readers, NEW x,
         reader \in [Readers -> Reader], reader' = [reader EXCEPT ![r] = x],
         UNCHANGED ring,
         Undisturbed(r)'
  PROVE  AllUndisturbed'
<1>1. ASSUME NEW s \in Readers, s # r PROVE Undisturbed(s)'
  <2>1. reader'[s] = reader[s] /\ Undisturbed(s)
    BY <1>1 DEF AllUndisturbed
  <2>2. \A i : Get(i)' = Get(i)
    BY DEF Get, Slot, ring
  <2> QED
    BY <2>1, <2>2 DEF Undisturbed, Reading, ring
<1> QED
  BY <1>1 DEF AllUndisturbed

LEMMA ReaderUndisturbed ==
  ASSUME StoreInv, AllUndisturbed, NEW r \in Readers, ReaderActs(r)
  PROVE  AllUndisturbed'
<1>1. /\ reader \in [Readers -> Reader] /\ reader[r] \in Reader
      /\ ReaderOK(r) /\ Undisturbed(r)
  BY DEF StoreInv, StoreTypeOK, AllUndisturbed
<1>2. ASSUME NEW i \in Indexes, NEW j \in Indexes, CallRate(r, i, j) PROVE AllUndisturbed'
  <2> DEFINE x == Busy("lock", i, j, <<>>, reader[r].size)
  <2>1. reader' = [reader EXCEPT ![r] = x] /\ UNCHANGED ring /\ x.at = "lock"
    BY <1>2 DEF CallRate, Busy
  <2> HIDE DEF x
  <2>2. Undisturbed(r)'
    BY <1>1, <2>1 DEF Undisturbed, Reading
  <2> QED
    BY <1>1, <2>1, <2>2, OthersUndisturbed
<1>3. CASE TooFew(r)
  <2> DEFINE x == Idle(reader[r].last, TRUE, reader[r].size)
  <2>1. reader' = [reader EXCEPT ![r] = x] /\ UNCHANGED ring /\ x.at = "idle"
    BY <1>3 DEF TooFew, Idle
  <2> HIDE DEF x
  <2>2. Undisturbed(r)'
    BY <1>1, <2>1 DEF Undisturbed, Reading
  <2> QED
    BY <1>1, <2>1, <2>2, OthersUndisturbed
<1>4. CASE Enough(r)
  <2> DEFINE x == [reader[r] EXCEPT !.at = "assert"]
  <2>1. /\ reader' = [reader EXCEPT ![r] = x] /\ UNCHANGED ring
        /\ reader[r].at = "lock" /\ reader[r].last < count
    BY <1>4 DEF Enough
  <2>2. x.at = "assert" /\ x.last = reader[r].last /\ x.got = reader[r].got
    BY <1>1 DEF Reader
  <2>3. x.got = <<>> /\ Len(x.got) = 0
    BY <1>1, <2>1, <2>2 DEF ReaderOK
  <2> HIDE DEF x
  <2>4. reader'[r] = x
    BY <1>1, <2>1
  <2>5. Undisturbed(r)'
    BY <2>1, <2>2, <2>3, <2>4 DEF Undisturbed, ring
  <2> QED
    BY <1>1, <2>1, <2>5, OthersUndisturbed
<1>5. CASE Assert(r)
  <2>1. Index(r) < count
    <3>1. Index(r) <= reader[r].last /\ reader[r].last < count
      BY <1>1, <1>5 DEF Assert, ReaderOK, Undisturbed, Reading
    <3>2. Index(r) \in Int /\ reader[r].last \in Int /\ count \in Int
      BY <1>1, CapacityAssumption
      DEF Index, Reader, Indexes, Views, StoreInv, StoreTypeOK, BufferTypeOK
    <3> QED
      BY <3>1, <3>2
  <2> DEFINE x == [reader[r] EXCEPT !.at = "read"]
  <2>2. reader' = [reader EXCEPT ![r] = x] /\ UNCHANGED ring /\ Reading(r)
    BY <1>5, <2>1 DEF Assert, Reading
  <2>3. x.at = "read" /\ x.first = reader[r].first /\ x.last = reader[r].last /\ x.got = reader[r].got
    BY <1>1 DEF Reader
  <2> HIDE DEF x
  <2>4. reader'[r] = x /\ \A i : Get(i)' = Get(i)
    BY <1>1, <2>2 DEF Get, Slot, ring
  <2>5. Undisturbed(r)'
    BY <1>1, <2>2, <2>3, <2>4 DEF Undisturbed, ring
  <2> QED
    BY <1>1, <2>2, <2>5, OthersUndisturbed
<1>6. CASE ReadWindow(r)
  <2>1. Reading(r) /\ reader[r].last < count
    BY <1>1, <1>6 DEF ReadWindow, Undisturbed, Reading
  <2>2. CASE Index(r) = reader[r].last
    <3> DEFINE x == Idle(0, FALSE, reader[r].size)
    <3>1. reader' = [reader EXCEPT ![r] = x] /\ UNCHANGED ring /\ x.at = "idle"
      BY <1>6, <2>2 DEF ReadWindow, Idle
    <3> HIDE DEF x
    <3>2. Undisturbed(r)'
      BY <1>1, <3>1 DEF Undisturbed, Reading
    <3> QED
      BY <1>1, <3>1, <3>2, OthersUndisturbed
  <2>3. CASE Index(r) # reader[r].last
    <3> DEFINE got == reader[r].got
               w   == Get(Index(r))
               x   == Busy("assert", reader[r].first, reader[r].last, Append(got, w), reader[r].size)
    <3>1. reader' = [reader EXCEPT ![r] = x] /\ UNCHANGED ring
      BY <1>6, <2>3 DEF ReadWindow
    <3>2. /\ x.at = "assert" /\ x.first = reader[r].first /\ x.last = reader[r].last
          /\ x.got = Append(got, w)
      BY DEF Busy
    <3>3. /\ got \in Seq(Value \cup {Default}) /\ Len(got) \in Nat /\ reader[r].first \in Nat
          /\ Index(r) = reader[r].first + Len(got)
      BY <1>1, CapacityAssumption DEF Reader, Views, Indexes, Index
    <3>4. \A k \in 1 .. Len(got) : got[k] = Get(reader[r].first + k - 1)
      BY <1>1, <2>1 DEF Undisturbed
    <3>5. w = Get(reader[r].first + (Len(got) + 1) - 1)
      BY <3>3
    <3> HIDE DEF got, w, x
    <3>6. /\ Len(Append(got, w)) = Len(got) + 1
          /\ \A k \in 1 .. Len(got) + 1 : Append(got, w)[k] = IF k = Len(got) + 1 THEN w ELSE got[k]
      BY <3>3
    <3>7. \A k \in 1 .. Len(got) + 1 : Append(got, w)[k] = Get(reader[r].first + k - 1)
      <4> TAKE k \in 1 .. Len(got) + 1
      <4>1. CASE k = Len(got) + 1
        BY <3>5, <3>6, <4>1
      <4>2. CASE k # Len(got) + 1
        <5>1. k \in 1 .. Len(got)
          BY <3>3, <4>2
        <5> QED
          BY <3>4, <3>6, <4>2, <5>1
      <4> QED
        BY <4>1, <4>2
    <3>8. reader'[r] = x /\ \A i : Get(i)' = Get(i)
      BY <1>1, <3>1 DEF Get, Slot, ring
    <3>9. Undisturbed(r)'
      BY <2>1, <3>1, <3>2, <3>6, <3>7, <3>8 DEF Undisturbed, ring
    <3> QED
      BY <1>1, <3>1, <3>9, OthersUndisturbed
  <2> QED
    BY <2>2, <2>3
<1> QED
  BY <1>2, <1>3, <1>4, <1>5, <1>6 DEF ReaderActs, ReaderCall, ReaderStep

LEMMA LockedStepUndisturbed ==
  ASSUME IInv, AllUndisturbed, [Next]_vars, [ClearsUnderLock]_vars
  PROVE  AllUndisturbed'
<1>1. CASE UNCHANGED store
  <2>1. \A i : Get(i)' = Get(i)
    BY <1>1 DEF Get, Slot, store, ring
  <2> QED
    BY <1>1, <2>1 DEF AllUndisturbed, Undisturbed, Reading, store, ring
<1>2. ASSUME lock = "free", UNCHANGED <<lock, reader>> PROVE AllUndisturbed'
  <2> SUFFICES ASSUME NEW r \in Readers PROVE Undisturbed(r)'
    BY DEF AllUndisturbed
  <2>1. lock # r /\ ReaderOK(r) /\ Undisturbed(r)
    BY <1>2, ReadersAssumption DEF IInv, StoreInv, AllUndisturbed
  <2>2. ~Reading(r)
    BY <2>1 DEF ReaderOK, Reading
  <2> QED
    BY <1>2, <2>1, <2>2 DEF Undisturbed, Reading
<1>3. CASE ClearNext \/ ClearCount
  <2>1. lock = "free" \/ UNCHANGED vars
    BY <1>3 DEF ClearsUnderLock
  <2> QED
    BY <1>1, <1>2, <1>3, <2>1 DEF ClearNext, ClearCount, vars
<1>4. CASE PushWindow
  BY <1>2, <1>4 DEF PushWindow, LockedPush
<1>5. ASSUME NEW r \in Readers, ReaderActs(r) PROVE AllUndisturbed'
  BY <1>5, ReaderUndisturbed DEF IInv
<1> QED
  BY <1>1, <1>3, <1>4, <1>5
  DEF Next, Ask, Tick, PeerLeaves, ServiceStep, Lifecycle, NoSocket, Initialized, BeginIteration,
      DropConnection, ReadData, ReadEnd, ReadFails, ReadTimesOut, ReadError, CheckWindow, Finalized,
      Accept, AcceptFails, vars

(* With the lock taken around Clear(), the assertion of operator[] holds   *)
(* and each rate is computed from one state of the windows, for any number *)
(* of readers, windows, connections and bytes.                             *)
THEOREM LockProtectsReaders ==
  Spec /\ [][ClearsUnderLock]_vars => [](NoReaderAborts /\ OneView)
<1>1. Init => AllUndisturbed
  <2> SUFFICES ASSUME Init, NEW r \in Readers PROVE Undisturbed(r)
    BY DEF AllUndisturbed
  <2>1. reader[r].at = "idle"
    BY DEF Init, StoreInit, Idle
  <2> QED
    BY <2>1 DEF Undisturbed, Reading
<1>2. IInv /\ AllUndisturbed /\ [Next]_vars /\ [ClearsUnderLock]_vars => AllUndisturbed'
  BY LockedStepUndisturbed
<1>3. IInv /\ AllUndisturbed => NoReaderAborts /\ OneView
  BY DEF IInv, StoreInv, ReaderOK, AllUndisturbed, Undisturbed, Reading, NoReaderAborts, OneView
<1> QED
  BY <1>1, <1>2, <1>3, Invariant, PTL DEF Spec

(* As long as no reader has aborted, every way out of a call gives the     *)
(* lock back, so nobody waits for a lock that is forgotten.                *)
THEOREM LockIsGivenBack ==
  Spec => [](NoReaderAborts /\ lock # "free" =>
               lock \in Readers /\ reader[lock].at \in {"assert", "read"})
<1>1. IInv => (NoReaderAborts /\ lock # "free" =>
                 lock \in Readers /\ reader[lock].at \in {"assert", "read"})
  BY DEF IInv, StoreInv, StoreTypeOK, ReaderOK, NoReaderAborts
<1> QED
  BY <1>1, Invariant, PTL
=============================================================================
