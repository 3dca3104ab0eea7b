----------------------------- MODULE WindowStore -----------------------------
(***************************************************************************)
(* What TeletrafficRx and ByteStreamRx have in common: the measurement     *)
(* windows in a CircularBuffer (window_: its values are Windows and what   *)
(* Window() makes, and its capacity is 60), the mutex lock_, and           *)
(* RateMbpsAtWindow(i), RateMbpsOverLast(n) and WindowCount(), which any   *)
(* thread of the application (Readers) may call at any time.  The service  *)
(* thread that fills the windows is in the modules that extend this one.   *)
(*                                                                         *)
(* RateMbpsAtWindow(i) reads window i and RateMbpsOverLast(n) reads the    *)
(* windows 0 to n-1, so both are a read of the windows from first to last. *)
(* Taking the lock is one step with the first access under it, returning   *)
(* it with the last; each operator[] has two: its assertion reads m_count, *)
(* and then it reads m_next and the element.                               *)
(***************************************************************************)
EXTENDS CircularBuffer

CONSTANT
  Readers   \* threads that ask for rates

ASSUME ReadersAssumption == "free" \notin Readers

VARIABLES
  lock,     \* lock_: who holds it, or "free"
  reader    \* what each reader is doing

store == <<ring, lock, reader>>

Indexes == 0 .. Capacity - 1
Views   == {got \in Seq(Value \cup {Default}) : Len(got) <= Capacity}

\* first, last: the windows asked for; got: those read so far; nan: the answer
\* was nan(""), to a request up to window last; size: the last value that
\* WindowCount() returned to this reader.
Reader ==
  [at : {"idle", "lock", "assert", "read", "aborted"}, first : Indexes, last : Indexes,
   got : Views, nan : BOOLEAN, size : 0 .. Capacity]

Idle(last, nan, size) ==
  [at |-> "idle", first |-> 0, last |-> last, got |-> <<>>, nan |-> nan, size |-> size]
Busy(at, first, last, got, size) ==
  [at |-> at, first |-> first, last |-> last, got |-> got, nan |-> FALSE, size |-> size]

StoreTypeOK ==
  /\ BufferTypeOK
  /\ lock \in Readers \cup {"free"}
  /\ reader \in [Readers -> Reader]

StoreInit ==
  /\ BufferInit
  /\ lock = "free"
  /\ reader = [r \in Readers |-> Idle(0, FALSE, 0)]

-----------------------------------------------------------------------------
(* A reader calls RateMbpsAtWindow(last) if first = last, and              *)
(* RateMbpsOverLast(last + 1) if first = 0.  Left out are an index of      *)
(* Capacity or more, for which the answer is always nan(""), and one below *)
(* zero, which the code does not check before it accesses the buffer.      *)
CallRate(r, first, last) ==
  /\ reader[r].at = "idle"
  /\ first \in {0, last}
  /\ reader' = [reader EXCEPT ![r] = Busy("lock", first, last, <<>>, @.size)]
  /\ UNCHANGED <<ring, lock>>

\* Lock, and compare with Size(): too few windows, return nan("") ...
TooFew(r) ==
  /\ reader[r].at = "lock"
  /\ lock = "free"
  /\ reader[r].last >= count
  /\ reader' = [reader EXCEPT ![r] = Idle(@.last, TRUE, @.size)]
  /\ UNCHANGED <<ring, lock>>

\* ... or go on and read them.
\* Mutant: one window more than there are.
EnoughOffByOne(r) ==
  /\ reader[r].at = "lock"
  /\ lock = "free"
  /\ reader[r].last <= count
  /\ lock' = r
  /\ reader' = [reader EXCEPT ![r].at = "assert"]
  /\ UNCHANGED ring

Enough(r) ==
  /\ reader[r].at = "lock"
  /\ lock = "free"
  /\ reader[r].last < count
  /\ lock' = r
  /\ reader' = [reader EXCEPT ![r].at = "assert"]
  /\ UNCHANGED ring

\* The index of the window that is read next.
Index(r) == reader[r].first + Len(reader[r].got)

\* operator[]: assert(idx < m_count) ...
Assert(r) ==
  /\ reader[r].at = "assert"
  /\ reader' = [reader EXCEPT ![r].at = IF Index(r) < count THEN "read" ELSE "aborted"]
  /\ UNCHANGED <<ring, lock>>

\* ... and the element; unlock after the last.
\* Mutant: without unlocking.
ReadWindowKeepsLock(r) ==
  /\ reader[r].at = "read"
  /\ reader' = [reader EXCEPT ![r] =
       IF Index(r) = reader[r].last THEN Idle(0, FALSE, @.size)
       ELSE Busy("assert", @.first, @.last, Append(@.got, Get(Index(r))), @.size)]
  /\ UNCHANGED <<ring, lock>>

ReadWindow(r) ==
  LET finished == Index(r) = reader[r].last IN
  /\ reader[r].at = "read"
  /\ reader' = [reader EXCEPT ![r] =
       IF finished THEN Idle(0, FALSE, @.size)
       ELSE Busy("assert", @.first, @.last, Append(@.got, Get(Index(r))), @.size)]
  /\ lock' = IF finished THEN "free" ELSE lock
  /\ UNCHANGED ring

\* Mutant: the capacity, as in ByteStreamRx::WindowCount().
WindowSizeCapacity == Capacity

\* Size() of the windows, under the lock.
WindowSize == count

\* TeletrafficRx::WindowCount().
WindowCount(r) ==
  /\ reader[r].at = "idle"
  /\ lock = "free"
  /\ reader' = [reader EXCEPT ![r] = Idle(0, FALSE, WindowSize)]
  /\ UNCHANGED <<ring, lock>>

ReaderCall(r) == \E i, j \in Indexes : CallRate(r, i, j)
ReaderStep(r) == TooFew(r) \/ Enough(r) \/ Assert(r) \/ ReadWindow(r)

-----------------------------------------------------------------------------
(* The service thread: window_.Push(w) with the lock held.                 *)
LockedPush(w) ==
  /\ lock = "free"
  /\ Push(w)
  /\ UNCHANGED <<lock, reader>>

-----------------------------------------------------------------------------
(* The assertion of operator[] does not fail in a reader (it would abort   *)
(* the whole program), although Size() is compared before it.              *)
NoReaderAborts == \A r \in Readers : reader[r].at # "aborted"

(* A call sees one state of the windows: as long as it lasts, what it has  *)
(* read is what it would read again.  So the mean that RateMbpsOverLast(n) *)
(* returns is over n successive windows, none of them twice.               *)
OneView ==
  \A r \in Readers : reader[r].at \in {"assert", "read"} =>
    /\ lock = r
    /\ reader[r].last < count
    /\ \A k \in 1 .. Len(reader[r].got) : reader[r].got[k] = Get(reader[r].first + k - 1)

(* teletraffic_rx.h: WindowCount() is the "number of windows whose         *)
(* statistics has been measured and stored": no later request for one of   *)
(* those is answered with NaN.                                             *)
CountedWindowsExist ==
  \A r \in Readers : reader[r].nan => reader[r].last >= reader[r].size
=============================================================================
