---------------------------- MODULE ByteStreamTx -----------------------------
(***************************************************************************)
(* teletraffic::ByteStreamTx (byte_stream_tx.cpp): the service that writes *)
(* to a TCP connection, or a serial port, as fast as it can, and counts    *)
(* the bytes.  The callbacks are called as ServiceLifecycle says.          *)
(*                                                                         *)
(* Outside are the kernel and the peer.  write() copies the block byte by  *)
(* byte into the send buffer of the connection, waits while that is full,  *)
(* and returns when all is copied; if the connection is lost it returns    *)
(* what was copied, or fails if that is nothing.  A byte of the model is a *)
(* part of the 4096 bytes of a block.                                      *)
(***************************************************************************)
EXTENDS Integers, FiniteSets

CONSTANTS
  Descriptors,  \* the descriptors that are free in this process
  Block,        \* sizeof(buffer)
  SendBuffer,   \* the bytes that the kernel takes before the peer reads them
  Modulus       \* 2^64: the width of count_ and n

ASSUME TxAssumption ==
  /\ Descriptors \subseteq Nat
  /\ Block \in Nat \ {0} /\ SendBuffer \in Nat \ {0}
  /\ Modulus \in Nat \ {0, 1}

VARIABLES
  phase, running, asked,   \* the life cycle
  fd,                      \* fd_
  framer,                  \* framer_: the descriptor of the Slip object, or NULL
  opened,                  \* the descriptors that the service has open
  count,                   \* count_
  copied,                  \* write(): the bytes of this block that were taken
  buffered,                \* the bytes that the peer has not read yet
  peer,                    \* "none", "connected" or "gone"
  received,                \* history: the bytes that the peer has read, modulo Modulus
  failed                   \* history: a write() has failed

life       == <<phase, running, asked>>
connection == <<fd, framer, opened>>
traffic    == <<count, copied, buffered, peer, received, failed>>
vars       == <<life, connection, traffic>>

L == INSTANCE ServiceLifecycle

None == -1   \* no descriptor, and what write() returns when it fails
NULL == -2   \* no Slip object

Init ==
  /\ L!Init
  /\ fd = None
  /\ framer = NULL
  /\ opened = {}
  /\ count = 0
  /\ copied = 0
  /\ buffered = 0
  /\ peer = "none"
  /\ received = 0
  /\ failed = FALSE

-----------------------------------------------------------------------------
(* The application, the peer, and the callbacks that do nothing here.      *)

Ask ==
  /\ \E q \in L!Requests : L!Ask(q)
  /\ UNCHANGED <<connection, traffic>>

PeerReads ==
  /\ peer = "connected"
  /\ buffered > 0
  /\ buffered' = buffered - 1
  /\ received' = (received + 1) % Modulus
  /\ UNCHANGED <<life, connection, count, copied, peer, failed>>

PeerLeaves ==
  /\ peer = "connected"
  /\ peer' = "gone"
  /\ UNCHANGED <<life, connection, count, copied, buffered, received, failed>>

Lifecycle ==
  /\ \/ L!BeginInitialize
     \/ L!BeginStart \/ L!EndStart
     \/ L!BeginStop  \/ L!EndStop
     \/ L!Close      \/ L!BeginFinalize
  /\ UNCHANGED <<connection, traffic>>

-----------------------------------------------------------------------------
(* ServiceInitialize(): open() or socket() fails, ...                      *)
NoDescriptor ==
  /\ L!EndInitialize
  /\ phase' = "failed"
  /\ UNCHANGED <<connection, traffic>>

Open(d) == fd' = d /\ opened' = opened \cup {d}

\* ... gethostbyname() or connect() fails, ...
NoPeer ==
  /\ L!EndInitialize
  /\ phase' = "failed"
  /\ \E d \in Descriptors : Open(d)
  /\ UNCHANGED <<framer, traffic>>

\* ... or all is well.
Initialized ==
  /\ L!EndInitialize
  /\ phase' = "stopped"
  /\ \E d \in Descriptors : Open(d) /\ framer' = d
  /\ peer' = "connected"
  /\ UNCHANGED <<count, copied, buffered, received, failed>>

-----------------------------------------------------------------------------
(* ServiceIteration().                                                     *)
BeginIteration ==
  /\ L!BeginIteration
  /\ copied' = 0
  /\ UNCHANGED <<connection, count, buffered, peer, received, failed>>

\* write() goes on.
Take ==
  /\ running = "Iteration"
  /\ fd \in opened /\ peer = "connected"
  /\ copied < Block
  /\ buffered < SendBuffer
  /\ copied' = copied + 1
  /\ buffered' = buffered + 1
  /\ UNCHANGED <<life, connection, count, peer, received, failed>>

\* n, which is unsigned, is added; the comparison with 0 is never true.
Counted(n) == count' = (count + n) % Modulus

\* Mutant: the block is counted, if it was taken or not.
WrittenBlock ==
  /\ running = "Iteration"
  /\ copied = Block \/ (peer = "gone" /\ copied > 0)
  /\ Counted(Block)
  /\ copied' = 0
  /\ L!EndIteration
  /\ UNCHANGED <<connection, buffered, peer, received, failed>>

\* Mutant: the rest of the block is tried again and again.
WrittenAll ==
  /\ running = "Iteration"
  /\ copied = Block
  /\ Counted(copied)
  /\ copied' = 0
  /\ L!EndIteration
  /\ UNCHANGED <<connection, buffered, peer, received, failed>>

\* write() returns what it has taken, ...
Written ==
  /\ running = "Iteration"
  /\ copied = Block \/ (peer = "gone" /\ copied > 0)
  /\ Counted(copied)
  /\ copied' = 0
  /\ L!EndIteration
  /\ UNCHANGED <<connection, buffered, peer, received, failed>>

\* ... or fails.
WriteFails ==
  /\ running = "Iteration"
  /\ copied = 0
  /\ fd \notin opened \/ peer = "gone"
  /\ failed' = TRUE
  /\ Counted(None)
  /\ L!EndIteration
  /\ UNCHANGED <<connection, copied, buffered, peer, received>>

\* Mutant: fd_ is forgotten before it is closed.
FinalizedForgets ==
  /\ L!EndFinalize
  /\ framer' = NULL
  /\ fd' = None
  /\ UNCHANGED <<opened, traffic>>

\* ServiceFinalize().  The comparison is with 1, not with -1.
Finalized ==
  /\ L!EndFinalize
  /\ framer' = NULL
  /\ IF fd = 1 THEN UNCHANGED <<fd, opened>>
               ELSE fd' = None /\ opened' = opened \ {fd}
  /\ UNCHANGED traffic

-----------------------------------------------------------------------------
ServiceStep ==
  \/ Lifecycle
  \/ NoDescriptor \/ NoPeer \/ Initialized
  \/ BeginIteration \/ Take \/ Written \/ WriteFails
  \/ Finalized

Next ==
  \/ Ask
  \/ PeerReads \/ PeerLeaves
  \/ ServiceStep

Spec == Init /\ [][Next]_vars

\* The service thread is scheduled; the peer has to do nothing.
FairSpec == Spec /\ WF_vars(ServiceStep)

-----------------------------------------------------------------------------
TypeOK ==
  /\ L!TypeOK
  /\ fd \in Descriptors \cup {None}
  /\ framer \in Descriptors \cup {NULL}
  /\ opened \subseteq Descriptors
  /\ count \in 0 .. Modulus - 1
  /\ copied \in 0 .. Block
  /\ buffered \in 0 .. SendBuffer
  /\ peer \in {"none", "connected", "gone"}
  /\ received \in 0 .. Modulus - 1
  /\ failed \in BOOLEAN

(* What SentByteCount() measures, until a write() fails: the bytes that    *)
(* the peer has read, and those on the way, which are never more than the  *)
(* send buffer holds; so also when a connection is lost in mid-block.      *)
InStep == (count + copied) % Modulus = (received + buffered) % Modulus

CountTellsTheBytes == failed \/ InStep

(* A write() that fails is an error, it ends the iteration before count_   *)
(* is touched (byte_stream_tx.cpp:127-129): so the count tells the bytes   *)
(* after it as well.  The code counts -1, which is 2^64 - 1, for it.       *)
FailuresAreNotCounted == InStep

(* The service has at most the descriptor in fd_, and when it is over none,*)
(* unless that is 1, the number of a standard output that was closed.      *)
NoDescriptorLeaks ==
  /\ opened \subseteq {fd}
  /\ phase = "finalized" => opened \subseteq {1} /\ framer = NULL

(* An iteration ends unless the peer has stopped reading: a lost or broken *)
(* connection never holds up the service thread.                           *)
OnlyASlowPeerHoldsUp ==
  running = "Iteration" ~>
    running # "Iteration" \/ (peer = "connected" /\ buffered = SendBuffer)
=============================================================================
