------------------------- MODULE ByteStreamTx_proofs --------------------------
(***************************************************************************)
(* ByteStreamTx for any block, any send buffer, any width of the count and *)
(* any descriptors: what is counted, and what is left open.                *)
(***************************************************************************)
EXTENDS ByteStreamTx, TLAPS

-----------------------------------------------------------------------------
(* Arithmetic modulo the width of the counts.                              *)
LEMMA ModRange == \A x \in Int : x % Modulus \in 0 .. Modulus - 1
BY TxAssumption

\* The remainder is the only one.
LEMMA ModUnique ==
  ASSUME NEW x \in Int, NEW q \in Int, NEW r \in 0 .. Modulus - 1, x = q * Modulus + r
  PROVE  x % Modulus = r
BY TxAssumption

LEMMA ModDivides ==
  ASSUME NEW x \in Int
  PROVE  \E q \in Int, r \in Int : r = x % Modulus /\ x = q * Modulus + r
<1>1. \A y \in Int, m \in Nat \ {0} :
        \E q \in Int, r \in Int : r = y % m /\ y = q * m + r
  OBVIOUS
<1>2. Modulus \in Nat \ {0}
  BY TxAssumption
<1> QED
  BY <1>1, <1>2

\* A sum may be cut to the width before another is added, or after.
LEMMA ModAdd ==
  ASSUME NEW x \in Int, NEW y \in Int
  PROVE  ((x % Modulus) + y) % Modulus = (x + y) % Modulus
<1>1. PICK q \in Int, r \in Int : r = x % Modulus /\ x = q * Modulus + r
  BY ModDivides, Zenon
<1>2. PICK p \in Int, s \in Int : s = (r + y) % Modulus /\ r + y = p * Modulus + s
  <2>1. r + y \in Int
    OBVIOUS
  <2> QED
    BY <2>1, ModDivides, Zenon
<1>3. s \in 0 .. Modulus - 1
  BY <1>2, ModRange
<1>4. q + p \in Int /\ x + y \in Int /\ x + y = (q + p) * Modulus + s
  <2>1. (q + p) * Modulus = q * Modulus + p * Modulus
    BY TxAssumption
  <2>2. q * Modulus \in Int /\ p * Modulus \in Int /\ (q + p) * Modulus \in Int
    BY TxAssumption
  <2>3. x = q * Modulus + r /\ r + y = p * Modulus + s
    BY <1>1, <1>2
  <2> QED
    BY <2>1, <2>2, <2>3
<1>5. (x + y) % Modulus = s
  BY <1>3, <1>4, ModUnique
<1> QED
  BY <1>1, <1>2, <1>5

-----------------------------------------------------------------------------
(* The inductive invariant.  A block is in the making only while write()   *)
(* is called, and the service has no descriptor before it is initialized.  *)
PlaceOK ==
  /\ running # "Iteration" => copied = 0
  /\ running = "Initialize" => phase = "new"
  /\ running = "Finalize" => phase = "closing"
  /\ running \in {"Start", "Stop", "Iteration"} => phase \in {"stopped", "started"}
  /\ phase = "new" => opened = {} /\ framer = NULL

IInv == TypeOK /\ PlaceOK /\ CountTellsTheBytes /\ NoDescriptorLeaks

LEMMA Numbers ==
  ASSUME TypeOK
  PROVE  /\ count \in Int /\ copied \in Int
         /\ received \in Int /\ buffered \in Int
         /\ Block \in Nat \ {0} /\ SendBuffer \in Nat \ {0} /\ Modulus \in Nat \ {0, 1}
BY TxAssumption DEF TypeOK

LEMMA InitEstablishes == Init => IInv
<1> SUFFICES ASSUME Init PROVE IInv
  OBVIOUS
<1>1. TypeOK
  <2>1. L!TypeOK
    BY DEF Init, L!Init, L!TypeOK, L!Phases, L!Callbacks
  <2>2. /\ count \in 0 .. Modulus - 1 /\ received \in 0 .. Modulus - 1
        /\ copied \in 0 .. Block /\ buffered \in 0 .. SendBuffer
    BY TxAssumption DEF Init
  <2>3. /\ fd \in Descriptors \cup {None} /\ framer \in Descriptors \cup {NULL}
        /\ opened \subseteq Descriptors /\ peer \in {"none", "connected", "gone"}
        /\ failed \in BOOLEAN
    BY DEF Init
  <2> QED
    BY <2>1, <2>2, <2>3 DEF TypeOK
<1>2. PlaceOK /\ NoDescriptorLeaks
  BY DEF Init, L!Init, PlaceOK, NoDescriptorLeaks
<1>3. CountTellsTheBytes
  BY DEF Init, CountTellsTheBytes, InStep
<1> QED
  BY <1>1, <1>2, <1>3 DEF IInv

\* The phases follow each other as ServiceLifecycle says.
LEMMA LifeTypes ==
  ASSUME L!TypeOK, L!Next
  PROVE  L!TypeOK'
BY DEF L!TypeOK, L!Next, L!Ask, L!Begin, L!End, L!Close, L!Requests, L!Callbacks, L!Phases,
   L!BeginInitialize, L!BeginStart, L!BeginIteration, L!BeginStop, L!BeginFinalize,
   L!EndInitialize, L!EndStart, L!EndIteration, L!EndStop, L!EndFinalize

-----------------------------------------------------------------------------
(* Steps that leave the bytes alone.                                       *)
LEMMA LifeStep ==
  ASSUME IInv, Ask \/ Lifecycle
  PROVE  IInv'
<1>1. L!Next /\ UNCHANGED <<fd, framer, opened, count, copied, buffered, peer, received, failed>>
  BY DEF Ask, Lifecycle, L!Next, connection, traffic
<1>2. TypeOK'
  BY <1>1, LifeTypes DEF IInv, TypeOK
<1>3. /\ running' # "Iteration" => running # "Iteration" \/ copied = 0
      /\ phase' = "finalized" => phase = "finalized"
      /\ phase' = "new" => phase = "new"
  BY DEF Ask, Lifecycle, L!Ask, L!Begin, L!End, L!Close,
     L!BeginInitialize, L!BeginStart, L!BeginStop, L!BeginFinalize, L!EndStart, L!EndStop
<1>4. PlaceOK'
  BY <1>1 DEF IInv, PlaceOK, Ask, Lifecycle, L!Ask, L!Begin, L!End, L!Close,
     L!BeginInitialize, L!BeginStart, L!BeginStop, L!BeginFinalize, L!EndStart, L!EndStop
<1>5. CountTellsTheBytes' /\ NoDescriptorLeaks'
  BY <1>1, <1>3 DEF IInv, CountTellsTheBytes, InStep, NoDescriptorLeaks
<1> QED
  BY <1>2, <1>4, <1>5 DEF IInv

LEMMA InitializeStep ==
  ASSUME IInv, NoDescriptor \/ NoPeer \/ Initialized
  PROVE  IInv'
<1>1. /\ L!EndInitialize /\ phase' \in {"failed", "stopped"}
      /\ UNCHANGED <<count, copied, buffered, received, failed>>
      /\ peer' \in {peer, "connected"}
      /\ running = "Initialize" /\ running' = "none" /\ phase = "new" /\ asked' = asked
  BY DEF IInv, PlaceOK, NoDescriptor, NoPeer, Initialized, L!EndInitialize, L!End, connection, traffic
<1>2. /\ fd' \in Descriptors \cup {None} /\ framer' \in Descriptors \cup {NULL}
      /\ opened' \subseteq Descriptors /\ opened' \subseteq {fd'}
  BY <1>1 DEF IInv, TypeOK, PlaceOK, NoDescriptor, NoPeer, Initialized, Open, connection, traffic
<1>3. TypeOK'
  BY <1>1, <1>2 DEF IInv, TypeOK, L!TypeOK, L!Phases, L!Callbacks
<1>4. PlaceOK' /\ CountTellsTheBytes' /\ NoDescriptorLeaks'
  BY <1>1, <1>2 DEF IInv, PlaceOK, CountTellsTheBytes, InStep, NoDescriptorLeaks
<1> QED
  BY <1>3, <1>4 DEF IInv

LEMMA FinalizeStep == ASSUME IInv, Finalized PROVE IInv'
<1>1. /\ running = "Finalize" /\ running' = "none" /\ phase = "closing" /\ phase' = "finalized"
      /\ asked' = asked /\ framer' = NULL
      /\ UNCHANGED <<count, copied, buffered, peer, received, failed>>
  BY DEF IInv, PlaceOK, Finalized, L!EndFinalize, L!End, traffic
<1>2. /\ fd' \in Descriptors \cup {None} /\ opened' \subseteq Descriptors
      /\ opened' \subseteq {fd'} /\ opened' \subseteq {1}
  BY DEF IInv, TypeOK, NoDescriptorLeaks, Finalized
<1>3. TypeOK'
  BY <1>1, <1>2 DEF IInv, TypeOK, L!TypeOK, L!Phases, L!Callbacks
<1>4. PlaceOK' /\ CountTellsTheBytes' /\ NoDescriptorLeaks'
  BY <1>1, <1>2 DEF IInv, PlaceOK, CountTellsTheBytes, InStep, NoDescriptorLeaks
<1> QED
  BY <1>3, <1>4 DEF IInv

-----------------------------------------------------------------------------
(* Steps of the bytes.                                                     *)

\* What is not about the bytes stays as it is.
LEMMA KeptStep ==
  ASSUME IInv, UNCHANGED <<life, connection>>, running = "Iteration" \/ copied' = copied
  PROVE  PlaceOK' /\ NoDescriptorLeaks' /\ L!TypeOK'
BY DEF IInv, PlaceOK, NoDescriptorLeaks, TypeOK, L!TypeOK, life, connection

LEMMA PeerReadsStep == ASSUME IInv, PeerReads PROVE IInv'
<1>1. /\ UNCHANGED <<life, connection, fd, framer, opened, count, copied, peer, failed>>
      /\ buffered > 0 /\ buffered' = buffered - 1 /\ received' = (received + 1) % Modulus
  BY DEF PeerReads, connection
<1>2. TypeOK /\ CountTellsTheBytes
  BY DEF IInv
<1>3. received + 1 \in Int /\ buffered - 1 \in Int /\ (received + 1) + (buffered - 1) = received + buffered
  BY <1>2, Numbers
<1>4. (received' + buffered') % Modulus = (received + buffered) % Modulus
  BY <1>1, <1>3, ModAdd
<1>5. CountTellsTheBytes'
  BY <1>1, <1>2, <1>4 DEF CountTellsTheBytes, InStep
<1>6. received' \in 0 .. Modulus - 1 /\ buffered' \in 0 .. SendBuffer
  BY <1>1, <1>2, <1>3, Numbers, ModRange DEF TypeOK
<1>7. TypeOK'
  BY <1>1, <1>2, <1>6, KeptStep DEF TypeOK
<1> QED
  BY <1>1, <1>5, <1>7, KeptStep DEF IInv

LEMMA PeerLeavesStep == ASSUME IInv, PeerLeaves PROVE IInv'
<1>1. /\ UNCHANGED <<life, connection, fd, framer, opened, count, copied, buffered, received, failed>>
      /\ peer' = "gone"
  BY DEF PeerLeaves, connection
<1>2. TypeOK' /\ CountTellsTheBytes'
  BY <1>1, KeptStep DEF IInv, TypeOK, CountTellsTheBytes, InStep
<1> QED
  BY <1>1, <1>2, KeptStep DEF IInv

LEMMA TakeStep == ASSUME IInv, Take PROVE IInv'
<1>1. /\ UNCHANGED <<life, connection, fd, framer, opened, count, peer, received, failed>>
      /\ running = "Iteration" /\ copied < Block /\ buffered < SendBuffer
      /\ copied' = copied + 1 /\ buffered' = buffered + 1
  BY DEF Take, connection
<1>2. TypeOK /\ CountTellsTheBytes
  BY DEF IInv
<1>3. copied' \in 0 .. Block /\ buffered' \in 0 .. SendBuffer
  BY <1>1, <1>2, Numbers DEF TypeOK
<1>4. /\ count + copied' = (count + copied) + 1
      /\ received + buffered' = (received + buffered) + 1
      /\ count + copied \in Int /\ received + buffered \in Int
  BY <1>1, <1>2, Numbers
<1>5. /\ (count + copied') % Modulus = (((count + copied) % Modulus) + 1) % Modulus
      /\ (received + buffered') % Modulus = (((received + buffered) % Modulus) + 1) % Modulus
  BY <1>4, ModAdd
<1>6. InStep => InStep'
  BY <1>1, <1>5 DEF InStep
<1>7. CountTellsTheBytes'
  BY <1>1, <1>2, <1>6 DEF CountTellsTheBytes
<1>8. TypeOK'
  BY <1>1, <1>2, <1>3, KeptStep DEF TypeOK
<1> QED
  BY <1>1, <1>7, <1>8, KeptStep DEF IInv

\* The end of an iteration, as far as the life cycle goes.
LEMMA IterationEnds ==
  ASSUME IInv, running = "Iteration", L!EndIteration, UNCHANGED connection, copied' = 0
  PROVE  PlaceOK' /\ NoDescriptorLeaks' /\ L!TypeOK'
BY DEF IInv, PlaceOK, NoDescriptorLeaks, TypeOK, L!TypeOK, L!EndIteration, L!End, L!Phases, connection

LEMMA BeginIterationStep == ASSUME IInv, BeginIteration PROVE IInv'
<1>1. /\ UNCHANGED <<phase, fd, framer, opened, count, buffered, peer, received, failed>>
      /\ running = "none" /\ running' = "Iteration" /\ phase = "started"
      /\ copied' = 0 /\ copied = 0 /\ asked' \subseteq asked
  BY DEF IInv, PlaceOK, BeginIteration, L!BeginIteration, L!Begin, connection
<1>2. PlaceOK' /\ NoDescriptorLeaks' /\ CountTellsTheBytes'
  BY <1>1 DEF IInv, PlaceOK, NoDescriptorLeaks, CountTellsTheBytes, InStep
<1>3. TypeOK'
  BY <1>1 DEF IInv, TypeOK, L!TypeOK, L!Callbacks
<1> QED
  BY <1>2, <1>3 DEF IInv

LEMMA WrittenStep == ASSUME IInv, Written PROVE IInv'
<1>1. /\ running = "Iteration" /\ L!EndIteration
      /\ UNCHANGED <<connection, fd, framer, opened, buffered, peer, received, failed>>
      /\ copied' = 0 /\ count' = (count + copied) % Modulus
  BY DEF Written, Counted, connection
<1>2. TypeOK /\ CountTellsTheBytes
  BY DEF IInv
<1>3. count + copied \in Int /\ count' \in 0 .. Modulus - 1 /\ 0 \in 0 .. Block
  BY <1>1, <1>2, Numbers, ModRange
<1>4. (count' + copied') % Modulus = (count + copied) % Modulus
  BY <1>1, <1>3, ModAdd
<1>5. CountTellsTheBytes'
  BY <1>1, <1>2, <1>4 DEF CountTellsTheBytes, InStep
<1>6. TypeOK'
  BY <1>1, <1>2, <1>3, IterationEnds DEF TypeOK
<1> QED
  BY <1>1, <1>5, <1>6, IterationEnds DEF IInv

LEMMA WriteFailsStep == ASSUME IInv, WriteFails PROVE IInv'
<1>1. /\ running = "Iteration" /\ L!EndIteration
      /\ UNCHANGED <<connection, fd, framer, opened, buffered, peer, received>>
      /\ copied = 0 /\ copied' = 0
      /\ failed' = TRUE /\ count' = (count - 1) % Modulus
  BY DEF WriteFails, Counted, None, connection
<1>2. TypeOK
  BY DEF IInv
<1>3. count' \in 0 .. Modulus - 1
  BY <1>1, <1>2, Numbers, ModRange
<1>4. CountTellsTheBytes'
  BY <1>1 DEF CountTellsTheBytes, InStep
<1>5. TypeOK'
  BY <1>1, <1>2, <1>3, IterationEnds DEF TypeOK
<1> QED
  BY <1>1, <1>4, <1>5, IterationEnds DEF IInv

-----------------------------------------------------------------------------
LEMMA Invariant == Spec => []IInv
<1>1. IInv /\ UNCHANGED vars => IInv'
  BY DEF vars, life, connection, traffic, IInv, TypeOK, L!TypeOK, PlaceOK, CountTellsTheBytes, InStep, NoDescriptorLeaks
<1>2. IInv /\ ServiceStep => IInv'
  BY LifeStep, InitializeStep, BeginIterationStep, TakeStep, WrittenStep, WriteFailsStep, FinalizeStep
  DEF ServiceStep
<1>3. IInv /\ [Next]_vars => IInv'
  BY <1>1, <1>2, LifeStep, PeerReadsStep, PeerLeavesStep DEF Next
<1> QED
  BY InitEstablishes, <1>3, PTL DEF Spec

(* Types: the counts keep to their width, and write() to its block.        *)
THEOREM TypeCorrect == Spec => []TypeOK
BY Invariant, PTL DEF IInv

(* For any block, send buffer and width, the count is that of the bytes    *)
(* that are read or on the way, as long as no write() has failed.          *)
THEOREM CountHolds == Spec => []CountTellsTheBytes
BY Invariant, PTL DEF IInv

(* Whatever fails, the service has no descriptor but the one in fd_, and   *)
(* leaves at most descriptor 1 behind.                                     *)
THEOREM DescriptorsHold == Spec => []NoDescriptorLeaks
BY Invariant, PTL DEF IInv
=============================================================================
