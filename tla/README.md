# libteletraffic in TLA+

A TLA+ model of *ethernet-bandwidth-meter* (`libteletraffic`, version 0.6), a
small C++ library that generates and measures network traffic. This directory
has the specifications, the TLC configurations that check them on small
instances, and the TLAPS proofs of what matters most for instances of any size.
`PROJECT.json` lists the runs, the source lines behind each definition, the
mutants that show that each property can fail, the disagreements found between
the code and its comments, and the hazards the properties are for.

## 1. The system

| Component | State | Operations | Talks to |
|---|---|---|---|
| `ServiceThread` (`service_thread.cpp`) | `internal_state_`, four `cmd_` flags, `lock_`, `thread_exit_` | `Init`, `Start`, `Stop`, `Finalize`, destructor; `ThreadFn` in a thread of its own | calls the five `ServiceXxx()` functions of the derived class |
| `CircularBuffer<T>` (`circular_buffer.h`) | array, `m_next`, `m_count` | `Push`, `Clear`, `operator[]`, `At`, `Size` | not synchronised |
| `TeletrafficRx` (`teletraffic_rx.cpp`) | capture, stopwatch, `bytes_`, `packets_`, 60 windows, `lock_` | the five callbacks; `RateMbpsAtWindow`, `RateMbpsOverLast`, `WindowCount` | libpcap, `NetworkInterfaceTable` |
| `ByteStreamRx` (`byte_stream_rx.cpp`) | listening socket, connection, stopwatch, `bytes_`, `acc_`, 60 windows, `lock_` | as `TeletrafficRx`, with an `accept`/`read` loop | the kernel's sockets |
| `TeletrafficTx` (`teletraffic_tx.cpp`) | packet buffer, counters, a copy of the statistics | callbacks, `Stats` | libpcap |
| `ByteStreamTx` (`byte_stream_tx.cpp`) | descriptor, `count_` | callbacks, `SentByteCount` | sockets or a serial port |
| `NetworkInterfaceTable` (`netif_table.cpp`) | one table per process, `s_lock` | `Update`, `Copy`, `Print` | `getifaddrs` |
| `Slip` (`slip.cpp`) | a descriptor | `Send`, `Recv` | a byte stream |
| `Stopwatch`, `MeanVariance`, `Version`, `utils`, `hexdump` | small value classes and functions | | |

Every service is an object with two sides: threads of the application call
`Init`, `Start`, `Stop`, the destructor and the getters, and one service thread
runs the callbacks. Calls into the service are made by raising a flag under a
mutex and polling `internal_state_`, without a lock, until it shows the state
that was asked for. The receivers add a second mutex for their windows.

What is hard in it:

* *Requests that outlive their purpose.* A flag is lowered only in the state
  that serves it, so a request made when there was nothing to do stays raised.
* *Polling.* A caller may miss a state that does not last.
* *Destruction.* The derived object is destroyed before the base class joins
  the thread, so `Finalize()` must have quietened it first.
* *Failures inside callbacks*: which resources are freed, and what happens to a
  negative return value.
* *Windows shared with readers*: pushed and, in `ByteStreamRx`, emptied while a
  reader is between its size check and its access.
* *Boundaries*: ring indexes, 64-bit counts stored in an `int`, timeouts that
  are counted or taken for errors.
* *State that services share*: one table of interfaces per process, filled entry
  by entry and from a list that was read before the lock was taken; one copy of
  the statistics for all callers of `TeletrafficTx::Stats()`.
* *Devices and peers that do not take what they are given*: frames that libpcap
  refuses and that still use up a number; a `write()` that waits, is cut short or
  fails, and is counted in an unsigned variable.
* *A line that loses and invents characters*, under `Slip`.
* *Pauses*: a stopwatch that goes on while its service is stopped.

What makes each component correct:

* `ServiceThread`: callbacks run in order, one at a time, each on a request of
  its own; what a call reported stays true until the next call; every call
  returns; after destruction nothing of the object is touched. (As written, this
  holds of calls that nothing disturbs: see section 3.)
* `CircularBuffer`: element `[i]` is the value pushed `i` pushes ago.
* The receivers: everything received is counted in exactly one window; readers
  see one state of the windows and never abort; windows end on time; no
  connection or capture is leaked; the thread is held up only by `accept()`.
* `TeletrafficTx`: frames are sent with a device that is open; the gaps in the
  sequence numbers are what was refused; the statistics never go back.
* `ByteStreamTx`: the count is that of the bytes sent (as written: until a `write()`
  fails); no descriptor is leaked;
  only a slow peer holds up the thread.
* `NetworkInterfaceTable`: a copy is one complete list, an update is seen by the
  thread that made it, and an interface that is there is always found.
* `Slip`: on a clean line what is received is what was sent; after noise the line
  repairs itself.
* `Stopwatch`: it shows the time it has been running; the windows measured with
  it do not overlap, and their durations are right.

## 2. Modules

| Module | Models | Role |
|---|---|---|
| `ServiceLifecycle` | the order in which `ThreadFn` calls the five virtual functions | abstract specification |
| `ServiceThread`, `ServiceThread_proofs` | both sides of the class | implements `ServiceLifecycle` |
| `RecentValues` | the comment on `operator[]` | abstract specification |
| `CircularBuffer` (proofs in `TeletrafficRx_proofs`) | the class | implements `RecentValues` |
| `WindowStore` | windows, mutex and readers of both receivers | extends `CircularBuffer` |
| `MachineInt` | a 64-bit value put into an `int` | used by `TeletrafficRx` and `WindowClock` |
| `TeletrafficRx`, `TeletrafficRx_proofs` | the receiver of frames | extends `WindowStore`, runs under `ServiceLifecycle` |
| `ByteStreamRx`, `ByteStreamRx_proofs` | the receiver of a connection | the same |
| `InterfaceRegister` | what `netif_table.h` promises | abstract specification |
| `NetifTable`, `NetifTable_proofs` | `netif_table.cpp` and its callers' threads | implements `InterfaceRegister` |
| `TeletrafficTx`, `TeletrafficTx_proofs` | the sender of frames | runs under `ServiceLifecycle`, uses `InterfaceRegister` |
| `ByteStreamTx`, `ByteStreamTx_proofs` | the sender of bytes | runs under `ServiceLifecycle` |
| `PacketLine` | what `Slip` makes of its line | abstract specification |
| `Slip`, `Slip_proofs` | `Send()` and `Recv()` and the line | implements `PacketLine` |
| `Timer` | what a stopwatch shows | abstract specification |
| `Stopwatch` | the class | implements `Timer` |
| `WindowClock`, `WindowClock_proofs` | how the receivers use their stopwatch | extends `Stopwatch` |
| `MC...` | | constants for TLC |

**ServiceThread.** `internal_state`, `cmd` (the set of raised flags),
`thread_exit` and `wait_for` are the members and local of those names; `svc` is
the program counter of `ThreadFn`; `op[c]` and `at[c]` say in which member
function, and where in it, client `c` is. A step is one access to the shared
data: a critical section (they all touch one flag), or one read of
`internal_state_`. A failed poll is a stuttering step. `CaseStopped` and `CheckStop`
are the first critical section of `kStopped` and `kStarted`, `CheckFinalize` the
second, which the code has twice. The clients call `Start` and `Stop` whenever they
like, also at the same time; the object is initialised at most once and not
destroyed during another call. `mode` and `disturbed` are history, no guard of the
code reads them. `mode` is what the application knows from the calls that have
returned. `disturbed` has the clients whose call can tell nothing: another call was
in progress at the same time, or the opposite of what it asks for was still pending
when it began, as after an idle `Stop()`.

**ServiceLifecycle** has no threads and no flags in memory: `phase`, the
callback that is `running`, and the requests `asked`. `ServiceThread` implements
it with `phase <- Phase` (a function of `internal_state`), `running <- Running`
and `asked <- cmd`. The receivers take it as their environment, so they need no
copy of `ThreadFn`: what `ServiceThread` guarantees is what they assume. It is what
the code gives, not all that the comments of the header say: a negative result of
`ServiceIteration()` ends nothing (see section 5).

**CircularBuffer** is a call per action, since the class has no
synchronisation; it implements `RecentValues` with
`recent <- [i \in 1 .. count |-> Get(i - 1)]`. Its next-state relation is
`BufferNext`, since the modules that extend it have one of their own.

**WindowStore** is the buffer of windows (`Value`, and what `Window()` makes:
`Default`), the lock and the readers. It splits a reader's call into its accesses: lock and size check
(`TooFew`, `Enough`), the assertion in `operator[]` (`Assert`), the element
(`ReadWindow`). `RateMbpsAtWindow(i)` and `RateMbpsOverLast(n)` are the same
loop over the windows from `first` to `last`. Left out are a negative index, which
the code does not check, and the `WindowCount()` of `ByteStreamRx`, which returns the
capacity and looks at nothing. The rates themselves, which are
floating point, are left out; a window has the counts they are computed from.

**TeletrafficRx** and **ByteStreamRx** follow the statements of
`ServiceIteration()`: `step` is the place in it. Time is reduced to the one
question the code asks of its stopwatch, whether the window's duration is over.
The network is nondeterministic: frames of any allowed length or none; peers
that send, stay silent, close, or break; `accept()` that blocks or fails. In
`ByteStreamRx`, `Clear()` is two steps because it is not under the lock. What the
time of the windows is, is in `WindowClock`. `TeletrafficRx` keeps the packets and
bytes of a window in `int` fields; `AsInt` (in `MachineInt`) is that conversion.
Both keep a history: how much had been received in all when a window began (`mark`)
and ended, which it carries as `from` and `to`, and in `ByteStreamRx` when the
connection was accepted (`since`). So a window can be compared with what came in
while it lasted, which is what `EveryPacketInOneWindow` and `EveryByteInOneWindow`
do.

**NetifTable.** `update[t]` is where thread `t` is in
`NetworkInterfaceTableUpdate()`: it has read a `list` and waits for the lock, or it
holds the lock and has `filled` so many entries in. The list comes from
`getifaddrs()`, before the lock; it has an entry per interface and address family,
which `Entered` puts together in one row. A row has two fields, one for what a
packet entry says (`mac`) and one for what an IPv4 entry says (`ip`), since each
such entry sets all of its fields. Every place of `CopyTable` is one critical
section. `Settled` is the refinement mapping: to the other threads an update has
taken place when it has the lock.

**TeletrafficTx** has the lookup of the interface in the constructor and in
`ServiceInitialize()` as three steps (`LookupUpdates`, `LookupCopies` and the
`find()` in the action that uses it), between which other services update the
table (`OtherUpdates`). `number` is the field in the frame, `wire` the numbers that
have left. `Stats()` is two steps, one to copy `st_` and one to store it in
`st_copy_`; the caller's read through the reference it got is a third, without the
lock.

**ByteStreamTx** splits `write()` into the bytes that the kernel takes (`Take`) and
its return (`Written`, `WriteFails`), so that a peer reads, stops reading or leaves
in the middle of it. A byte of the model is a part of the 4096 of a block.
`Counted` is modulo `Modulus`, for `n` is unsigned; `Finalized` compares with 1, as
the code does. `received` and `failed` are history: what the peer has read, and that
a `write()` has failed.

**Slip** has one step per character. The line keeps the order of characters, so
`SendChar` is `send_char()` and the `recv_char()` that gets it; `Lose` is a
`send_char()` whose `write()` fails, `Noise` a character that nobody sent, which a
failed `read()` also gives. `line` is a history variable: `"dirty"` after a fault,
`"clean"` when the receiver is in step again, and in between what the END in front
of the next packet has to do: end what the noise left (`"flushing"`), or be
swallowed by an ESC at its end, in which case the END behind the packet repairs the
line (`"mending"`).

**Stopwatch** is a call per action on a clock `now`. **WindowClock** adds who calls
it: an application without restrictions, `TeletrafficRx`, or `ByteStreamRx`, with
the statements of their callbacks that touch the stopwatch. Time passes between any
two steps, so that a stopped service or a slow `read()` need no steps of their own.
A stored window keeps the moments it was measured from and to, next to the duration
that the code stores, and `checked`, the last time that the service looked.

## 3. Runs

| Run | Instance | Shows |
|---|---|---|
| `service_calls` | 2 clients, any calls | callers can rely on what undisturbed calls report, and only a disturbed call can hang; destruction is safe and returns; callbacks are in order |
| `service_restart` | 1 client | *violated*: a second `Start()` restarts the service after `Stop()` |
| `packets_windows` | 1 reader, 2 slots, 2 packets, an `int` of 8 values | windows have what came in and are the most recent ones; reading and sniffing are correct; windows end, readers return |
| `stream_connections` | 1 reader, 2 slots, 2 connections, 1 chunk | descriptors, byte counts and windows are correct; only `accept()` blocks; lost peers are dropped |
| `stream_race` | 1 reader | *violated*: the unlocked `Clear()` makes a reader abort |
| `interfaces` | 2 threads, 2 interfaces, 3 readings of 3 lists | a copy is one complete list; a thread finds its own update; interfaces are not lost; updates return |
| `packets_sent` | 2 observers, 2 frames | frames are sent safely, numbers tell the refused ones, statistics do not go back |
| `bytes_sent` | blocks of 3, send buffer of 2, counts modulo 5 | what the count says until a `write()` fails, which descriptors stay, what blocks |
| `bytes_failed` | the same | *violated*: a failed `write()` is added to the count, as -1 |
| `slip` | 21 packets of special bytes and 2 long ones | packets arrive on a clean line, and the line repairs itself |
| `clock` | 10 moments, windows of 1, an `int` of 8 values | windows do not overlap, lie in their connection, and have the right duration |
| `clock_restart` | the same | *violated*: a stopwatch that is started again begins at zero |

Each violated run is a finding in `PROJECT.json`, with the line of the code and
the comment or assertion it disagrees with.

**What holds only in part.** Where the code is wrong on some path, the property of the
passing run says exactly which, and the violated run shows the path. `CallsReturn` and
`CallersViewIsTrue` except disturbed calls; a disturbed call can hang, and
`service_restart` is what a request that was left over does. `CountTellsTheBytes` ends
with the first failed `write()`, and `bytes_failed` shows what that does.
`EveryPacketInOneWindow` has a window exact as far as an `int` holds its numbers, and
`OnlyAPauseSpoilsADuration` its duration: the code does nothing against the overflow.
`IterationsEnd` exempts `accept()`, `OnlyASlowPeerHoldsUp` a peer that does not read,
`NoDescriptorLeaks` descriptor 1 and the `fd_` of a failed `connect()`, and
`OwnUpdateIsSeen` updates that overlap.

**Bounds.** `ServiceThread` needs none: its state is finite. Two clients are enough
for one to undo what the other waits for; for more, see the theorems. Two slots give a
ring that wraps, and a reader of both windows makes more than one access.
`MaxPackets`, `MaxBytes` and `MaxAccepts` cap what arrives; windows end without
packets too, so a window that is not empty gets overwritten in 2 slots after 1 packet
and another is counted meanwhile, and with two connections a second one meets what the
first has left behind. In `packets_windows` a packet has 2 bytes and an `int` 8
values, so that it holds the bytes of one packet and not of two.
`kMaxReadTimeouts` is 1 instead of 2000, so that both the first end of file and
the one that closes the connection happen. One reader is enough for the mutex:
the other party is the service thread.

Two threads overlap in `NetifTable` in every way one can with another; with three
readings the older of two lists can overwrite the newer one after an update that
was alone. The three lists have an interface in full, one with two addresses of a
family and an entry of a family that the code passes over, and one that is missing,
with an entry without address. Two frames give a gap in the numbers before, between
and after; two observers overwrite each other's copy. In `ByteStreamTx` a block is
larger than the send buffer, so `write()` has to wait, and the count wraps after two
blocks; descriptor 1 is free, as in a process that closed its output, because the
code treats it differently. `Slip` is checked with the four special bytes only,
since the others are all alike to the code (`Plain` is empty; the theorems have any);
packets of three bytes are too long for `Size = 2`. In `clock` the time is long
enough for five windows, and for a pause that an `int` of 8 values cannot hold:
`MaxTime` is the only bound, windows and calls need none.

**Fairness.** In `ServiceThread` threads are scheduled (`WF` of `ThreadStep` and
of each client's steps) and callbacks return; no client has to make a call. That
callbacks return is what `IterationsEnd` then asks of `ByteStreamRx`; it holds
except in `accept()`, on which no fairness is assumed since nobody has to connect.
In the receivers fairness is strong, because a mutex is taken: a thread that can
take it again and again eventually does. The readers of this program sleep
between their calls, so it is not kept from anybody. `Tick` is not fair: nothing
depends on time passing. `NetifTable` has strong fairness of an update that has
begun, for the same reason. In `ByteStreamTx` only the service thread is fair: the
peer need not read, and `OnlyASlowPeerHoldsUp` says that this is all that a
`write()` waits for. In `Slip` the sending thread goes on once `Send()` is called,
and each character is lost or not; noise and losses may come at any time.
`TeletrafficTx` and `WindowClock` have no liveness properties and no fairness.

**Deadlock** is checked in every run. The end of `ServiceThread` is the explicit
step `Gone`.

## 4. Proofs

All theorems hold for every value of the constants; TLAPS checks them.

*ServiceThread.* `TypeOK` is not inductive: that `internal_state_` is `kNull`
exactly until the thread's first step depends on `Init()` running once, and which
entry of a table a client reads depends on where it is. `IInv` is the conjunction
of `Typed`, `CallOK` (place and function agree), `Protocol` (one `Init`, the
destructor alone), `ThreadExists` (when there is a thread), `StepOK` (place in
`ThreadFn` and state agree), `FlagOK` (a state entered on request has its flag up
until the callback lowers it) and `DestructorOK` (the base destructor finds the
service over, or never begun). `Inductive` goes through the actions one by one.
From it follow

* `TypeCorrect`, `DestructionIsSafe` and `ThreadIsJoined`, directly;
* `ImplementsLifecycle`: `FlagOK` is what makes `CallbackBegins` a `BeginXxx` step
  of `ServiceLifecycle`, `StepOK` what makes `CheckFinalize` a `Close`;
* `CallersViewHolds`, for any order of calls, with `ViewInv` in addition: a call that
  is not disturbed is the only one and meets no opposite request as long as it lasts
  (`Undisturbed`), so none is pending when it has returned and `mode` says what it told
  (`Quiet`); `Beginnings` and `Failure` are about the first and the last state.

*CircularBuffer* (the first part of `TeletrafficRx_proofs`). `BufferTypeCorrect`
bounds the indexes, `PushShifts` says what a push does to each element, and
`ImplementsRecentValues` is the refinement, for any capacity and any kind of
element; `WindowsAreRecent` and `RecentWindows` are the same inside the receivers.

*TeletrafficRx.* `StoreInv` says of each reader that it holds the lock between its
accesses and at no other time (`HoldsLock`), has not gone past the windows it asked
for, which exist (`InRange`), has copied what is still there (`Faithful`), and that
there are as many windows as it was ever told (`Counted`: nothing takes windows
away). It is preserved by each access of a reader (`OneReader` says that the others
do not notice) and by a push, which finds the lock free. `DeviceOK` says in which
phase each callback runs, and that the capture is open in those that need it.
`ReadersAreSafe`, `NoAssertionFails`, `CountedWindowsStay`, `LockIsGivenBack`,
`SniffsSafely` and `TypeCorrect` follow, for any readers, number of windows and
frame lengths. `PacketsOK` is the property `EveryPacketInOneWindow` itself, and that the
windows that can be read are measured ones. `AsIntOK` says that an `int` holds what
fits into it, `ClosedTells` that the window that is pushed tells what came in since
`mark`, and `PushKeepsPackets` that the others move up by one place, so that each still
begins where the next one ends. `EveryPacketIsCounted` follows: for any width of an
`int`, any capacity, lengths and number of packets. `WindowsAreRecent` is the
refinement of `CircularBuffer` once more, inside the service: every step of the service
and of its readers is a call of the buffer or leaves it alone, so the shared windows are
still the list of the most recent ones. The only assumption besides the `ASSUME`s is
that `Value` has every window that can be measured, which TLC's instance limits to those
that occur.

*ByteStreamRx.* Here `Counted` and `InRange` are not inductive, for the unlocked
`ClearCount` falsifies them (`stream_race` is the behaviour). What is left of them,
`ReaderOK`, says which indexes a reader can reach and that only the readers in the
middle of their accesses, and those that have aborted, have the lock.
`ConnectionOK` is why no descriptor is lost: `open` has at most `client_fd_`; it is
empty as long as `first_` is set and in the three steps before the next connection
is accepted, and it is that connection, or `accept()` failed, in all the others.
`ConnectionsAreClosed` and `ReadsSafely` follow, with `TypeCorrect`, which bounds
the count of timeouts. `BytesOK` is `EveryByteInOneWindow`, and that `accept()` finds no
windows, so that those that can be read later end after it (`EveryByteIsCounted`).
`RecentWindows` refines the two steps of `Clear()` to one: the list is empty from the
first of them on, when the slots are out of place but `m_count` is not yet 0.
`LockProtectsReaders` answers the question that the
finding raises, whether a lock around `Clear()` would be enough. It is about all the
behaviours of the service in which the two steps of `Clear()` only happen while
nobody holds the lock (locking it gives that, and more); in those the
assertion of `operator[]` holds and `OneView` too, for any number of readers. So the
abort has no other cause. The reader's invariant there is `Undisturbed`.

*NetifTable.* What a thread has done to the table so far is a function of its list:
`FillOK` says that the table is then `Described(list, filled)`, for a list that was
read, and `EntryDescribed`, the lemma that carries the module, that one more entry
makes it `Described(list, filled + 1)`. So `LockTable` is the update and `FillTable`
changes nothing for the others, which is `ImplementsRegister`. `WrittenOK` (once a
thread has updated, the settled table is what one of the lists describes, whichever
was written last) gives `NoneIsLost`, and `AloneOK` (while a thread counts as alone,
no other is updating, and when it has done, the settled table is its own) gives
`UpdateHolds`.

*TeletrafficTx.* `PlaceOK` says in which phase the constructor and each callback is,
`HasOK` in which phases the device is open and the buffers allocated, `CountOK` that
the frame about to leave has a number no other had, and `ObserverOK` that an observer
between its copy and its store holds the lock, so that what it stores is still `st_`.
This is why the shared copy never goes back: without the lock an older count could be
stored last. `SendsSafely`, `NumbersHold` and `StatsHold` follow.

*ByteStreamTx.* The two properties are inductive with `PlaceOK` (a block is in the
making only during an iteration; there is no descriptor before the initialisation);
`CountHolds`, as long as no `write()` has failed, needs the lemma `ModAdd` on sums modulo
`Modulus`.

*Slip.* `Synced` says that, unless the line is dirty, the receiver waits for a second
character exactly when the sender is at one, or at the END that the noise will
swallow; `LineOK` when a line can be flushing or mending; `PlaceOK` relates the place
in `Send()` to the bytes that are through. With them `InStep` is inductive.
`ImplementsPacketLine` shows that only the first and the last END of a packet are
steps of a line of packets while it is clean, and what the other characters do.

*WindowClock.* `WindowsOK` is the three properties and `Ended`: no window ends after
the moment the stopwatch counts from. `StepOK` relates the stopwatch, `checked` and
`since` at each step; its last conjunct, `checked <= time0 + WindowDuration`, is what
turns a wrong duration into a pause. `NoOverlap`, `InTheConnection` and
`DurationsHold` follow; `ImplementsTimer` needs only the types of the stopwatch.
`UnitsAgree`, that the microseconds and the milliseconds of a stopwatch that stands
agree, is part of the invariant and has no run of its own.

The other assumptions are the named `ASSUME`s on the constants, which every run
evaluates. Every safety property of a passing run is the statement of a theorem,
and so are the action properties and the refinements. Only model-checked is all
liveness (`CallsReturn`, `DestructorReturns`, `WindowsEnd`, `RatesReturn`,
`IterationsEnd`, `LostPeerIsDropped`, `UpdatesReturn`, `OnlyASlowPeerHoldsUp`,
`PacketsGetThrough`), which is out of the prover's reach. `StoppedUntilStart`,
`FailuresAreNotCounted`, `RestartGoesOn`, and `NoReaderAborts` and `OneView` for
`ByteStreamRx` as it is written, are false.

## 5. Disagreements without a run

Four disagreements of the code with its comments or assertions have a run, see
section 3. These were seen while modelling, too; the modules follow the code.

* A negative result of `ServiceIteration()` is ignored (`service_thread.cpp:275`);
  `service_thread.h:48-49` says that it finishes the thread, in the state `kCrashed`.
  `ServiceThread` has it as the code does (`MCIterationResults` has a negative value),
  and so `ServiceLifecycle` lets an iteration end with any value.
* `At()` throws for the indexes that exist (`circular_buffer.h:125`) and not, as
  lines 53-54 say, for the others. Nothing calls it.
* `TeletrafficRx::ServiceInitialize()` leaves the capture open when it fails after
  `pcap_open_live` (`teletraffic_rx.cpp:114`), and nothing closes it then, since
  `ServiceFinalize()` is not called. `ByteStreamRx` loses its socket when `bind()` or
  `listen()` fails (`byte_stream_rx.cpp:72`), and `ByteStreamTx` keeps `fd_` when
  `connect()` does (`byte_stream_tx.cpp:88`).
* A read that times out returns an error, and closes the connection of `ByteStreamRx`
  at once (`byte_stream_rx.cpp:171`); `byte_stream_rx.h:53` counts timeouts and has
  the server close it after N of them. What is counted is the end of file.
* `bytes_` is not reset for a new connection: what the old one sent after its last
  window is counted in the first window of the new one (`byte_stream_rx.cpp:125`).
* `ByteStreamRx::ServiceFinalize()` closes `client_fd_` although none may have been
  accepted (`byte_stream_rx.cpp:210`).
* `ByteStreamTx` compares `fd_` with 1 instead of -1 (`byte_stream_tx.cpp:145`).
* `sent_packet_count` of `TeletrafficTx` has the frames that were refused, too
  (`teletraffic_tx.cpp:189-192`); `teletraffic_tx.h:54` calls it the number of packets
  sent.
* An update of the table of interfaces that overlaps with another can put an older list
  over a newer one (`netif_table.cpp:96`).
* A `TeletrafficRx` that is initialised again keeps its stopwatch running, so that
  the pause is in its first window (`OnlyAPauseSpoilsADuration` says when that overflows,
  not that it is no part of the window).
* `getifaddrs` lists interfaces that are down; `netif_table.h:115` says they are not
  included.
* `Slip::Recv()` does not notice the end of its input: `read()` fails for ever.

## 6. Not modelled, and the plan

Not modelled, since no state depends on it: the floating-point rates, the formatting
code (`hexdump`, `utils`, `NetworkInterfaceTablePrint`), thread names, the settings of
a serial port, the destination and source address in a frame (a `source_mac` that the
application gives spares the constructor its lookup), the stopwatch of
`TeletrafficTx`, which nobody reads, and the properties of the last packet of
`TeletrafficRx`. `MeanVariance`, `Version`, `send.cpp` and `recv.cpp` are not in the
build. libpcap, `getifaddrs` and the kernel's sockets are modelled by what the code
expects of them: they give any of the results that it distinguishes.

Not modelled although it could be: `Init()` called a second time on one object, which
creates a second service thread (two hazards in `PROJECT.json` have no property for
this reason), and the descriptors of the rest of the process, which
`byte_stream_rx.cpp:210` can close.

Next, in this order:

1. `ServiceThreadRetry`: `Init()` tried again, with more than one service thread.
2. `MeanVariance` (running extremes) and `VersionCheck` as pure functions.
