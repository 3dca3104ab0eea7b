---------------------------- MODULE ByteStreamRx -----------------------------
(***************************************************************************)
(* teletraffic::ByteStreamRx (byte_stream_rx.cpp): the service that        *)
(* accepts one TCP connection after the other, reads what comes and closes *)
(* a measurement window every window_duration_.  Windows and readers are   *)
(* those of WindowStore, but here a new connection empties the windows,    *)
(* and it does so without the lock.  The callbacks are called as           *)
(* ServiceLifecycle says.                                                  *)
(*                                                                         *)
(* Outside are the network and the kernel: the peer of the connection may  *)
(* send, be silent, or close it, and accept() and read() may fail.  Time   *)
(* is as in TeletrafficRx: watch is "over" when more than window_duration_ *)
(* has gone by since it was started or reset.  A failed assertion ends the *)
(* program; here the other threads go on, and liveness does not count.     *)
(*                                                                         *)
(* received, mark, since and the fields from and to of a window are        *)
(* history, as in TeletrafficRx: what had been read in all when a window   *)
(* began and ended, and when the connection was accepted.                  *)
(***************************************************************************)
EXTENDS WindowStore

CONSTANTS
  kMaxReadTimeouts,   \* 2000 in the code
  MaxBytes,           \* bound: the bytes, in chunks, read in a behaviour
  MaxAccepts          \* bound: the connections accepted

\* A window has the bytes that its rate is computed from, in 64 bits.
MeasuredWindows == [bytes : 0 .. MaxBytes, from : 0 .. MaxBytes, to : 0 .. MaxBytes]
NoTraffic       == [bytes |-> 0, from |-> 0, to |-> 0]

ASSUME RxAssumption ==
  /\ kMaxReadTimeouts \in Nat /\ MaxBytes \in Nat /\ MaxAccepts \in Nat
  /\ Value = MeasuredWindows /\ Default = NoTraffic

VARIABLES
  phase, running, asked,   \* the life cycle
  step,                    \* where the callback is
  socket_fd,               \* socket_fd_: "none" or "listening"
  client_fd,               \* client_fd_: Unset, Failed, or a connection
  open,                    \* the connections that the process has open
  accepts,                 \* the connections accepted so far; the last is its number
  peer,                    \* the other end of the connection
  first, close_connection, \* first_, close_connection_
  timeout_count,           \* timeout_count_
  watch,                   \* watch_
  acc, bytes,              \* acc_, bytes_
  received,                \* history: the bytes read so far, on all connections
  mark,                    \* history: received when the current window began
  since                    \* history: received when the connection was accepted

life    == <<phase, running, asked>>
sockets == <<socket_fd, client_fd, open, accepts, peer>>
flags   == <<first, close_connection, timeout_count>>
counts  == <<acc, bytes, received, mark>>
vars    == <<store, life, step, sockets, flags, watch, counts, since>>

L == INSTANCE ServiceLifecycle

Connections == 1 .. MaxAccepts
Failed == -1    \* accept() failed
Unset  == 0     \* client_fd_ is not initialised before the first accept()
Steps == {"none", "begin", "clear_next", "clear_count", "accept", "read", "window", "push"}

Init ==
  /\ StoreInit
  /\ L!Init
  /\ step = "none"
  /\ socket_fd = "none"
  /\ client_fd = Unset
  /\ open = {}
  /\ accepts = 0
  /\ peer = "closed"
  /\ first = TRUE
  /\ close_connection = FALSE
  /\ timeout_count = 0
  /\ watch = "stopped"
  /\ acc = 0
  /\ bytes = 0
  /\ received = 0
  /\ mark = 0
  /\ since = 0

-----------------------------------------------------------------------------
(* The application, the clock, the peer, and the callbacks that do nothing.*)

Ask ==
  /\ \E q \in L!Requests : L!Ask(q)
  /\ UNCHANGED <<store, step, sockets, flags, watch, counts, since>>

Tick ==
  /\ watch = "running"
  /\ watch' = "over"
  /\ UNCHANGED <<store, life, step, sockets, flags, counts, since>>

\* The peer closes the connection, or it breaks.
PeerLeaves ==
  /\ peer = "open"
  /\ peer' \in {"closed", "broken"}
  /\ UNCHANGED <<store, life, step, socket_fd, client_fd, open, accepts, flags, watch, counts, since>>

Lifecycle ==
  /\ \/ L!BeginInitialize
     \/ L!BeginStart \/ L!EndStart
     \/ L!BeginStop  \/ L!EndStop
     \/ L!Close      \/ L!BeginFinalize
  /\ UNCHANGED <<store, step, sockets, flags, watch, counts, since>>

-----------------------------------------------------------------------------
(* ServiceInitialize(): socket(), bind() or listen() fails, and socket_fd_ *)
(* is -1 whether or not there is a socket; or it succeeds.                 *)

NoSocket ==
  /\ L!EndInitialize
  /\ phase' = "failed"
  /\ UNCHANGED <<store, step, sockets, flags, watch, counts, since>>

Initialized ==
  /\ L!EndInitialize
  /\ phase' = "stopped"
  /\ socket_fd' = "listening"
  /\ first' = TRUE
  /\ close_connection' = FALSE
  /\ acc' = 0
  /\ watch' = "running"
  /\ UNCHANGED <<store, step, client_fd, open, accepts, peer, timeout_count, bytes, received, mark, since>>

-----------------------------------------------------------------------------
(* ServiceIteration(): the connection.                                     *)

\* Mutant: first_ is not looked at.
BeginIterationForgetsFirst ==
  /\ L!BeginIteration
  /\ step' = IF close_connection THEN "begin" ELSE "read"
  /\ UNCHANGED <<store, sockets, flags, watch, counts, since>>

BeginIteration ==
  /\ L!BeginIteration
  /\ step' = IF first \/ close_connection THEN "begin" ELSE "read"
  /\ UNCHANGED <<store, sockets, flags, watch, counts, since>>

\* Close the connection before, if there is one, and forget it.
\* Mutant: the connection is forgotten but not closed.
ForgetConnection ==
  /\ step = "begin"
  /\ close_connection' = FALSE
  /\ first' = FALSE
  /\ acc' = 0
  /\ timeout_count' = 0
  /\ step' = "clear_next"
  /\ UNCHANGED <<store, life, sockets, watch, bytes, received, mark, since>>

DropConnection ==
  /\ step = "begin"
  /\ open' = IF first THEN open ELSE open \ {client_fd}
  /\ close_connection' = FALSE
  /\ first' = FALSE
  /\ acc' = 0
  /\ timeout_count' = 0
  /\ step' = "clear_next"
  /\ UNCHANGED <<store, life, socket_fd, client_fd, accepts, peer, watch, bytes, received, mark, since>>

\* window_.Clear(), without the lock: m_next = 0 ...
ClearNext ==
  /\ step = "clear_next"
  /\ next' = 0
  /\ step' = "clear_count"
  /\ UNCHANGED <<buffer, count, lock, reader, life, sockets, flags, watch, counts, since>>

\* Mutant: m_count is left as it is.
ClearCountKeeps ==
  /\ step = "clear_count"
  /\ watch' = "stopped"
  /\ step' = "accept"
  /\ UNCHANGED <<ring, lock, reader, life, sockets, flags, counts, since>>

\* ... and m_count = 0; then the stopwatch is stopped and reset.
ClearCount ==
  /\ step = "clear_count"
  /\ count' = 0
  /\ watch' = "stopped"
  /\ step' = "accept"
  /\ UNCHANGED <<buffer, next, lock, reader, life, sockets, flags, counts, since>>

\* accept() blocks until there is a connection ...
Accept ==
  /\ step = "accept"
  /\ accepts < MaxAccepts
  /\ accepts' = accepts + 1
  /\ client_fd' = accepts'
  /\ open' = open \cup {accepts'}
  /\ peer' = "open"
  /\ watch' = "running"
  /\ since' = received
  /\ step' = "read"
  /\ UNCHANGED <<store, life, socket_fd, flags, counts>>

\* ... or fails: ServiceIteration() returns -1, which is ignored.
AcceptFails ==
  /\ step = "accept"
  /\ client_fd' = Failed
  /\ step' = "none"
  /\ L!EndIteration
  /\ UNCHANGED <<store, socket_fd, open, accepts, peer, flags, watch, counts, since>>

-----------------------------------------------------------------------------
(* ServiceIteration(): the data.                                           *)

\* read() returns a chunk of data.
ReadData ==
  /\ step = "read"
  /\ client_fd \in open
  /\ peer = "open"
  /\ received < MaxBytes
  /\ acc' = acc + 1
  /\ bytes' = bytes + 1
  /\ received' = received + 1
  /\ step' = "window"
  /\ UNCHANGED <<store, life, sockets, flags, watch, mark, since>>

\* read() returns 0: the peer has closed the connection.
\* Mutant: the comparison with kMaxReadTimeouts is never true.
ReadEndForever ==
  /\ step = "read"
  /\ client_fd \in open
  /\ peer = "closed"
  /\ timeout_count' = IF timeout_count < kMaxReadTimeouts THEN timeout_count + 1
                                                          ELSE timeout_count
  /\ step' = "window"
  /\ UNCHANGED <<store, life, sockets, first, close_connection, watch, counts, since>>

\* Mutant: the count is compared before it is incremented.
ReadEndLate ==
  /\ step = "read"
  /\ client_fd \in open
  /\ peer = "closed"
  /\ timeout_count' = timeout_count + 1
  /\ close_connection' = (close_connection \/ timeout_count > kMaxReadTimeouts)
  /\ step' = "window"
  /\ UNCHANGED <<store, life, sockets, first, watch, counts, since>>

ReadEnd ==
  /\ step = "read"
  /\ client_fd \in open
  /\ peer = "closed"
  /\ timeout_count' = timeout_count + 1
  /\ close_connection' = (close_connection \/ timeout_count' > kMaxReadTimeouts)
  /\ step' = "window"
  /\ UNCHANGED <<store, life, sockets, first, watch, counts, since>>

\* read() returns -1: the connection is broken or there is none, ...
ReadError ==
  /\ step = "read"
  /\ close_connection' = TRUE
  /\ step' = "none"
  /\ L!EndIteration
  /\ UNCHANGED <<store, sockets, first, timeout_count, watch, counts, since>>

ReadFails ==
  /\ client_fd \notin open \/ peer = "broken"
  /\ ReadError

\* ... or nothing came for kReadTimeout us, and errno, which is not looked at,
\* is EAGAIN.
ReadTimesOut ==
  /\ client_fd \in open /\ peer = "open"
  /\ ReadError

CheckWindow ==
  /\ step = "window"
  /\ IF watch = "over"
       THEN step' = "push" /\ UNCHANGED life
       ELSE step' = "none" /\ L!EndIteration
  /\ UNCHANGED <<store, sockets, flags, watch, counts, since>>

\* Window w.
Closed == [bytes |-> bytes, from |-> mark, to |-> received]

\* Mutant: the bytes of a window are counted in the next one, too.
PushWindowKeeps ==
  /\ step = "push"
  /\ LockedPush(Closed)
  /\ mark' = received
  /\ watch' = "running"
  /\ step' = "none"
  /\ L!EndIteration
  /\ UNCHANGED <<sockets, flags, acc, bytes, received, since>>

PushWindow ==
  /\ step = "push"
  /\ LockedPush(Closed)
  /\ bytes' = 0
  /\ mark' = received
  /\ watch' = "running"
  /\ step' = "none"
  /\ L!EndIteration
  /\ UNCHANGED <<sockets, flags, acc, received, since>>

-----------------------------------------------------------------------------
(* ServiceFinalize().                                                      *)

Finalized ==
  /\ L!EndFinalize
  /\ open' = open \ {client_fd}
  /\ socket_fd' = "none"
  /\ watch' = "stopped"
  /\ UNCHANGED <<store, step, client_fd, accepts, peer, flags, counts, since>>

-----------------------------------------------------------------------------
\* RateMbpsAtWindow() and RateMbpsOverLast(); WindowCount() does not look at
\* the windows here, it returns the capacity.
ReaderActs(r) ==
  /\ ReaderCall(r) \/ ReaderStep(r)
  /\ UNCHANGED <<life, step, sockets, flags, watch, counts, since>>

\* What the service thread does without waiting for a peer.
ServiceStep ==
  \/ Lifecycle
  \/ NoSocket \/ Initialized
  \/ BeginIteration
  \/ DropConnection \/ ClearNext \/ ClearCount
  \/ ReadData \/ ReadEnd \/ ReadFails \/ ReadTimesOut
  \/ CheckWindow \/ PushWindow
  \/ Finalized

Next ==
  \/ Ask
  \/ Tick
  \/ PeerLeaves
  \/ ServiceStep
  \/ Accept \/ AcceptFails
  \/ \E r \in Readers : ReaderActs(r)

Spec == Init /\ [][Next]_vars

\* Strong fairness as in TeletrafficRx; nobody has to connect.
Fairness ==
  /\ SF_vars(ServiceStep)
  /\ \A r \in Readers : SF_vars(ReaderActs(r) /\ reader[r].at # "idle")

FairSpec == Spec /\ Fairness

-----------------------------------------------------------------------------
TypeOK ==
  /\ StoreTypeOK
  /\ L!TypeOK
  /\ step \in Steps
  /\ step # "none" <=> running = "Iteration"
  /\ socket_fd \in {"none", "listening"}
  /\ client_fd \in Connections \cup {Failed, Unset}
  /\ open \subseteq Connections
  /\ accepts \in 0 .. MaxAccepts
  /\ peer \in {"open", "closed", "broken"}
  /\ first \in BOOLEAN /\ close_connection \in BOOLEAN
  /\ timeout_count \in 0 .. kMaxReadTimeouts + 1
  /\ watch \in {"stopped", "running", "over"}
  /\ acc \in 0 .. received /\ bytes \in 0 .. received /\ received \in 0 .. MaxBytes
  /\ mark \in 0 .. received /\ since \in 0 .. received

(* No connection is leaked: however connections, failures of accept() and  *)
(* stops follow each other, the only connection that is open is the one in *)
(* client_fd_, and none is when the service is over.                       *)
NoConnectionLeaks ==
  /\ open \subseteq {client_fd}
  /\ phase = "finalized" => open = {}

(* read() is called with a connection, or with the -1 of a failed          *)
(* accept(), which it refuses; never with what was in the memory.          *)
ReadsAConnection == step = "read" => client_fd \in open \cup {Failed}

(* What a window counts is what was read from the end of the window before *)
(* it to its own end, which is in the current connection: no byte is in    *)
(* two windows or in none, and none of the connection before can be read.  *)
(* Only the first window of a connection begins before it: bytes_ is not   *)
(* reset when a connection ends.  (Between the two steps of Clear() the    *)
(* elements are out of place.)                                             *)
Begin(i) == IF i < 0 THEN mark ELSE Get(i).from

EveryByteInOneWindow ==
  /\ bytes = received - mark
  /\ step # "clear_count" =>
       \A i \in 0 .. count - 1 :
         /\ Get(i).bytes = Get(i).to - Get(i).from
         /\ Get(i).to = Begin(i - 1)
         /\ Get(i).to >= since

(* The windows are the most recent ones of the connection: Clear(), which  *)
(* is two steps here, takes all of them at once.                           *)
C == INSTANCE RecentValues
       WITH recent <- IF step = "clear_count" THEN <<>> ELSE [i \in 1 .. count |-> Get(i - 1)]

KeepsTheRecentWindows == C!Spec

(* Each ServiceIteration() returns, unless it waits in accept(): this is   *)
(* what Stop() and the destructor rely on.                                 *)
IterationsEnd == running = "Iteration" ~> running # "Iteration" \/ step = "accept" \/ ~NoReaderAborts

(* A connection whose peer has left is closed, as long as the service goes *)
(* on, and the thread does not spin on it for ever.                        *)
LostPeerIsDropped ==
  open # {} /\ peer # "open" ~> open = {} \/ phase # "started" \/ ~NoReaderAborts
=============================================================================
