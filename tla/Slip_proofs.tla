----------------------------- MODULE Slip_proofs -----------------------------
(***************************************************************************)
(* Slip for any packets, any bytes and any room: a clean line gives what   *)
(* was sent, and any other is repaired by two packets.                     *)
(***************************************************************************)
EXTENDS Slip, TLAPS

-----------------------------------------------------------------------------
(* The inductive invariant.  Unless the line is dirty, the receiver is at  *)
(* a second character exactly when the sender is, or when the noise has    *)
(* ended in an ESC and the first END is about to be taken for a second     *)
(* character.                                                              *)
Synced ==
  line # "dirty" => (escaped <=> (at = "second" \/ (at = "first" /\ line = "mending")))

LineOK ==
  /\ line = "flushing" => at = "first"
  /\ line = "mending" => at # "idle"

PlaceOK ==
  /\ at = "first" => sent = 0
  /\ at = "last" => sent = Len(packet)
  /\ at = "second" => Stuffed

IInv == TypeOK /\ Synced /\ LineOK /\ PlaceOK /\ InStep

LEMMA InitEstablishes == Init => IInv
<1> SUFFICES ASSUME Init PROVE IInv
  OBVIOUS
<1>1. <<>> \in Seq(Bytes) /\ Len(<<>>) = 0 /\ Size \in Nat \ {0}
  BY SlipAssumption
<1>2. TypeOK
  <2>1. at \in Places /\ line \in {"clean", "flushing", "mending", "dirty"} /\ escaped \in BOOLEAN
    BY DEF Init, Places
  <2>2. packet \in Seq(Bytes) /\ sent \in 0 .. Len(packet)
    BY <1>1 DEF Init
  <2>3. ~(at \in {"byte", "second"})
    BY DEF Init
  <2>4. /\ received \in Seq(Bytes) /\ Len(received) <= Size
        /\ returned \in Seq(Bytes) /\ Len(returned) <= Size
    BY <1>1 DEF Init
  <2> QED
    BY <2>1, <2>2, <2>3, <2>4 DEF TypeOK
<1>3. Synced /\ LineOK /\ PlaceOK /\ InStep
  BY DEF Init, Synced, LineOK, PlaceOK, InStep
<1> QED
  BY <1>2, <1>3 DEF IInv

-----------------------------------------------------------------------------
(* What Recv() does with a character.                                      *)

LEMMA UnescapedBytes == \A c \in Bytes : Unescaped(c) \in Bytes
BY DEF Unescaped, Bytes

\* The receiver keeps to its types, whatever it gets.
LEMMA RecvTypes ==
  ASSUME TypeOK, NEW c \in Bytes, Recv(c)
  PROVE  /\ received' \in Seq(Bytes) /\ Len(received') <= Size
         /\ escaped' \in BOOLEAN
         /\ returned' \in Seq(Bytes) /\ Len(returned') <= Size
<1>1. /\ received \in Seq(Bytes) /\ Len(received) <= Size /\ Size \in Nat \ {0}
      /\ returned \in Seq(Bytes) /\ Len(returned) <= Size /\ escaped \in BOOLEAN
  BY SlipAssumption DEF TypeOK
<1>2. ASSUME NEW d \in Bytes, Store(d)
      PROVE  received' \in Seq(Bytes) /\ Len(received') <= Size
  BY <1>1, <1>2 DEF Store
<1>3. CASE escaped /\ Store(Unescaped(c)) /\ escaped' = FALSE /\ UNCHANGED returned
  BY <1>1, <1>2, <1>3, UnescapedBytes
<1>4. CASE RecvEnd
  <2>1. <<>> \in Seq(Bytes) /\ Len(<<>>) = 0
    OBVIOUS
  <2> QED
    BY <1>1, <1>4, <2>1 DEF RecvEnd
<1>5. CASE escaped' = TRUE /\ UNCHANGED <<received, returned>>
  BY <1>1, <1>5
<1>6. CASE Store(c) /\ UNCHANGED <<escaped, returned>>
  BY <1>1, <1>2, <1>6
<1> QED
  BY <1>3, <1>4, <1>5, <1>6 DEF Recv

LEMMA CharIsByte == ASSUME TypeOK, at # "idle" PROVE Char \in Bytes
<1>1. at \in {"first", "last", "byte", "second"}
  BY DEF TypeOK, Places
<1>2. at = "byte" => Data \in Bytes
  BY DEF TypeOK, Data
<1> QED
  BY <1>1, <1>2 DEF Char, Bytes

-----------------------------------------------------------------------------
(* What the receiver has when n bytes of the packet are through.           *)
Prefix(n) == [i \in 1 .. (IF n < Size THEN n ELSE Size) |-> packet[i]]

LEMMA StoreExtends ==
  ASSUME TypeOK, sent < Len(packet), received = Prefix(sent), Store(Data)
  PROVE  received' = Prefix(sent + 1)
<1>1. /\ sent \in Nat /\ Size \in Nat \ {0} /\ packet \in Seq(Bytes)
      /\ \A i \in 1 .. Len(packet) : packet[i] \in Bytes
  BY SlipAssumption DEF TypeOK
<1>2. CASE sent < Size
  <2>1. received = [i \in 1 .. sent |-> packet[i]]
    BY <1>2 DEF Prefix
  <2>2. received \in Seq(Bytes) /\ Len(received) = sent
    BY <1>1, <2>1
  <2>3. received' = Append(received, packet[sent + 1])
    BY <1>2, <2>2 DEF Store, Data
  <2>4. Append(received, packet[sent + 1]) = [i \in 1 .. sent + 1 |-> packet[i]]
    BY <1>1, <2>1, <2>2
  <2>5. (IF sent + 1 < Size THEN sent + 1 ELSE Size) = sent + 1
    BY <1>1, <1>2
  <2> QED
    BY <2>3, <2>4, <2>5 DEF Prefix
<1>3. CASE ~(sent < Size)
  <2>1. received = [i \in 1 .. Size |-> packet[i]]
    BY <1>3 DEF Prefix
  <2>2. received \in Seq(Bytes) /\ Len(received) = Size
    BY <1>1, <1>3, <2>1
  <2>3. received' = received
    BY <1>1, <2>2 DEF Store
  <2>4. ~(sent + 1 < Size)
    BY <1>1, <1>3
  <2> QED
    BY <2>1, <2>3, <2>4 DEF Prefix
<1> QED
  BY <1>2, <1>3

\* Before the first byte the receiver has none, and after the last the packet.
LEMMA PrefixEnds ==
  ASSUME TypeOK
  PROVE  Prefix(0) = <<>> /\ Prefix(Len(packet)) = Line!Truncate(packet)
<1>1. Size \in Nat \ {0} /\ packet \in Seq(Bytes)
  BY SlipAssumption DEF TypeOK
<1>2. Prefix(0) = <<>>
  BY <1>1 DEF Prefix
<1> QED
  BY <1>2 DEF Prefix, Line!Truncate

-----------------------------------------------------------------------------
(* What a character of the packet does on a line that is not dirty: in     *)
(* the middle of a packet it is stored, or half of it is.                  *)
LEMMA MiddleOfPacket ==
  ASSUME IInv, SendChar, at \in {"byte", "second"}, line # "dirty"
  PROVE  /\ returned' = returned
         /\ escaped' <=> at' = "second"
         /\ at' \in {"byte", "second", "last"}
         /\ at' = "second" => received' = received /\ sent' = sent /\ at = "byte" /\ Stuffed
         /\ at' # "second" => Store(Data) /\ sent' = sent + 1
                              /\ at' = IF sent + 1 < Len(packet) THEN "byte" ELSE "last"
<1>1. /\ Recv(Char) /\ Advance
      /\ escaped <=> at = "second"
      /\ sent < Len(packet) /\ Data \in Bytes
  BY DEF IInv, SendChar, Synced, TypeOK, Data
<1> DEFINE Outcome ==
      /\ returned' = returned
      /\ escaped' <=> at' = "second"
      /\ at' \in {"byte", "second", "last"}
      /\ at' = "second" => received' = received /\ sent' = sent /\ at = "byte" /\ Stuffed
      /\ at' # "second" => Store(Data) /\ sent' = sent + 1
                           /\ at' = IF sent + 1 < Len(packet) THEN "byte" ELSE "last"
<1>2. ASSUME at = "byte" /\ Stuffed PROVE Outcome
  <2>1. Char = ESC /\ ~escaped /\ ESC # END
    BY <1>1, <1>2, SlipAssumption DEF Char
  <2>2. escaped' = TRUE /\ UNCHANGED <<received, returned>>
    BY <1>1, <2>1 DEF Recv
  <2>3. at' = "second" /\ sent' = sent
    BY <1>1, <1>2 DEF Advance
  <2> QED
    BY <1>2, <2>2, <2>3
<1>3. ASSUME at = "byte" /\ ~Stuffed PROVE Outcome
  <2>1. Char = Data /\ ~escaped /\ Data \notin {END, ESC}
    BY <1>1, <1>3 DEF Char, Stuffed
  <2>2. Store(Data) /\ UNCHANGED <<escaped, returned>>
    BY <1>1, <2>1 DEF Recv
  <2>3. sent' = sent + 1 /\ at' = IF sent + 1 < Len(packet) THEN "byte" ELSE "last"
    BY <1>1, <1>3 DEF Advance, NextByte
  <2> QED
    BY <2>1, <2>2, <2>3
<1>4. ASSUME at = "second" PROVE Outcome
  <2>1. Data \in {END, ESC}
    BY <1>4 DEF IInv, PlaceOK, Stuffed
  <2>2. Unescaped(Char) = Data
    BY <1>4, <2>1, SlipAssumption DEF Char, Unescaped
  <2>3. Store(Data) /\ escaped' = FALSE /\ UNCHANGED returned
    BY <1>1, <1>4, <2>2 DEF Recv
  <2>4. sent' = sent + 1 /\ at' = IF sent + 1 < Len(packet) THEN "byte" ELSE "last"
    BY <1>1, <1>4 DEF Advance, NextByte
  <2> QED
    BY <2>3, <2>4
<1>5. at = "byte" \/ at = "second"
  OBVIOUS
<1>6. Outcome
  <2> HIDE DEF Outcome
  <2> QED
    BY <1>2, <1>3, <1>4, <1>5
<1> QED
  BY <1>6

\* At both ends of a packet an END is received, unless it is a second character.
LEMMA EndOfPacket ==
  ASSUME SendChar, at \in {"first", "last"}
  PROVE  /\ ~escaped => RecvEnd
         /\ escaped => Store(END) /\ escaped' = FALSE /\ UNCHANGED returned
<1>1. Recv(END)
  BY DEF SendChar, Char
<1>2. Unescaped(END) = END
  BY SlipAssumption DEF Unescaped
<1>3. END # ESC
  BY SlipAssumption
<1>4. CASE escaped
  <2>1. Store(Unescaped(END)) /\ escaped' = FALSE /\ UNCHANGED returned
    BY <1>1, <1>4 DEF Recv
  <2> QED
    BY <1>2, <1>4, <2>1
<1>5. CASE ~escaped
  BY <1>1, <1>3, <1>5 DEF Recv
<1> QED
  BY <1>4, <1>5

-----------------------------------------------------------------------------
LEMMA AdvanceTypes ==
  ASSUME TypeOK, PlaceOK, Advance
  PROVE  /\ at' \in Places /\ packet' = packet /\ sent' \in 0 .. Len(packet)
         /\ at' \in {"byte", "second"} => sent' < Len(packet)
         /\ at' # "first" /\ (at' = "last" => sent' = Len(packet))
         /\ at' = "second" => Stuffed /\ sent' = sent
<1>1. sent \in 0 .. Len(packet) /\ Len(packet) \in Nat /\ (at \in {"byte", "second"} => sent < Len(packet))
  BY DEF TypeOK
<1> QED
  BY <1>1 DEF Advance, NextByte, Places, PlaceOK

LEMMA SendStep == ASSUME IInv, Send PROVE IInv'
<1>1. packet' \in Seq(Bytes) /\ sent' = 0 /\ at' = "first" /\ UNCHANGED <<received, escaped>> /\ returned' = <<>>
  BY SlipAssumption DEF Send
<1>2. TypeOK'
  <2>1. <<>> \in Seq(Bytes) /\ Len(<<>>) = 0 /\ Len(packet') \in Nat
    BY <1>1
  <2>2. line' \in {"clean", "flushing", "mending", "dirty"}
    BY DEF Send, LineAtSend
  <2> QED
    BY <1>1, <2>1, <2>2, SlipAssumption DEF IInv, TypeOK, Places
<1>3. (Synced /\ LineOK /\ PlaceOK /\ InStep)'
  BY <1>1 DEF Send, LineAtSend, IInv, TypeOK, Synced, LineOK, PlaceOK, InStep
<1> QED
  BY <1>2, <1>3 DEF IInv

LEMMA SendCharStep == ASSUME IInv, SendChar PROVE IInv'
<1>1. TypeOK /\ Synced /\ LineOK /\ PlaceOK /\ InStep
  BY DEF IInv
<1>2. Char \in Bytes /\ Recv(Char) /\ Advance /\ at \in {"first", "last", "byte", "second"}
  BY <1>1, CharIsByte DEF SendChar, TypeOK, Places
<1>3. line' = IF Repaired THEN "clean" ELSE line
  BY DEF SendChar
<1>4. TypeOK'
  <2>1. line' \in {"clean", "flushing", "mending", "dirty"}
    BY <1>1, <1>3 DEF TypeOK
  <2> QED
    BY <1>1, <1>2, <2>1, RecvTypes, AdvanceTypes DEF TypeOK
<1>5. PlaceOK'
  <2>1. ASSUME at' = "second" PROVE Stuffed'
    BY <1>1, <1>2, <2>1, AdvanceTypes DEF Stuffed, Data
  <2> QED
    BY <1>1, <1>2, <2>1, AdvanceTypes DEF PlaceOK
<1>6. CASE line = "dirty"
  <2>1. line' = "dirty"
    BY <1>3, <1>6 DEF Repaired
  <2> QED
    BY <1>4, <1>5, <2>1 DEF IInv, Synced, LineOK, InStep
<1>7. CASE line # "dirty" /\ at \in {"byte", "second"}
  <2>1. line' = line /\ line # "flushing"
    BY <1>1, <1>3, <1>7 DEF Repaired, LineOK
  <2>2. LineOK' /\ Synced'
    BY <1>7, <2>1, MiddleOfPacket DEF LineOK, Synced
  <2>3. InStep'
    <3> SUFFICES ASSUME line = "clean" PROVE InStep'
      BY <2>1 DEF InStep
    <3>1. received = Prefix(sent) /\ packet' = packet /\ sent < Len(packet)
      BY <1>1, <1>2, <1>7, AdvanceTypes DEF InStep, Prefix, TypeOK
    <3>2. received' = Prefix(sent')
      BY <1>1, <1>7, <3>1, MiddleOfPacket, StoreExtends
    <3>3. received' = Prefix(sent)'
      BY <3>1, <3>2 DEF Prefix
    <3> QED
      BY <1>7, <2>2, <3>3, MiddleOfPacket DEF InStep, Prefix
  <2> QED
    BY <1>4, <1>5, <2>2, <2>3 DEF IInv
<1>8. CASE line # "dirty" /\ at = "first"
  <2>1. at' \in {"byte", "last"} /\ sent' = 0 /\ packet' = packet
    BY <1>1, <1>2, <1>8 DEF Advance, NextByte, PlaceOK
  <2>2. escaped' = FALSE /\ (~escaped => received' = <<>>)
    BY <1>1, <1>8, EndOfPacket DEF RecvEnd, TypeOK
  <2>3. line = "clean" \/ line = "flushing" => ~escaped
    BY <1>1, <1>8 DEF Synced
  <2>4. line' = IF line = "flushing" THEN "clean" ELSE line
    BY <1>3, <1>8 DEF Repaired
  <2>5. Synced' /\ LineOK'
    BY <1>8, <2>1, <2>2, <2>4 DEF Synced, LineOK
  <2>6. InStep'
    <3>1. Prefix(0)' = <<>>
      BY <2>1, <1>1, PrefixEnds DEF Prefix
    <3>2. line' = "clean" => received' = <<>>
      BY <2>2, <2>3, <2>4
    <3> QED
      BY <2>1, <2>2, <3>1, <3>2 DEF InStep, Prefix
  <2> QED
    BY <1>4, <1>5, <2>5, <2>6 DEF IInv
<1>9. CASE line # "dirty" /\ at = "last"
  <2>1. at' = "idle" /\ ~escaped
    BY <1>1, <1>2, <1>9 DEF Advance, Synced
  <2>2. received' = <<>> /\ escaped' = escaped
    BY <1>9, <2>1, EndOfPacket DEF RecvEnd
  <2>3. line' = "clean"
    BY <1>1, <1>3, <1>9 DEF Repaired, TypeOK, LineOK
  <2> QED
    BY <1>4, <1>5, <2>1, <2>2, <2>3 DEF IInv, Synced, LineOK, InStep
<1> QED
  BY <1>2, <1>6, <1>7, <1>8, <1>9

LEMMA LoseStep == ASSUME IInv, Lose PROVE IInv'
<1>1. at' \in Places /\ packet' = packet /\ line' = "dirty" /\ UNCHANGED receiver
  BY AdvanceTypes DEF IInv, Lose
<1>2. TypeOK'
  BY <1>1, AdvanceTypes DEF IInv, Lose, TypeOK, receiver
<1>3. PlaceOK'
  BY <1>1, AdvanceTypes DEF IInv, Lose, PlaceOK, Stuffed, Data
<1> QED
  BY <1>1, <1>2, <1>3 DEF IInv, Synced, LineOK, InStep

LEMMA NoiseStep == ASSUME IInv, Noise PROVE IInv'
<1>1. PICK c \in Bytes : Recv(c)
  BY DEF Noise
<1>2. line' = "dirty" /\ UNCHANGED <<at, packet, sent>>
  BY DEF Noise, sender
<1>3. TypeOK'
  BY <1>1, <1>2, RecvTypes DEF IInv, TypeOK
<1> QED
  BY <1>2, <1>3 DEF IInv, Synced, LineOK, PlaceOK, Stuffed, Data, InStep

LEMMA Invariant == Spec => []IInv
<1>1. IInv /\ UNCHANGED vars => IInv'
  BY DEF IInv, vars, sender, receiver, TypeOK, Synced, LineOK, PlaceOK, Stuffed, Data, InStep
<1>2. IInv /\ [Next]_vars => IInv'
  BY <1>1, SendStep, SendCharStep, LoseStep, NoiseStep DEF Next
<1> QED
  BY InitEstablishes, <1>2, PTL DEF Spec

(* Types, and the room of the receiver.                                    *)
THEOREM TypeCorrect == Spec => []TypeOK
BY Invariant, PTL DEF IInv

(* For any bytes, packets and room, a receiver on a clean line has exactly *)
(* the bytes that are through.                                             *)
THEOREM StaysInStep == Spec => []InStep
BY Invariant, PTL DEF IInv

-----------------------------------------------------------------------------
(* The refinement, step by step.                                           *)
LEMMA SendRefines == ASSUME IInv, Send PROVE Line!Begin
BY DEF Send, LineAtSend, Line!Begin

LEMMA SendCharRefines == ASSUME IInv, SendChar PROVE [Line!Next]_(Line!vars)
<1>1. TypeOK /\ Synced /\ LineOK /\ PlaceOK /\ InStep
  BY DEF IInv
<1>2. Char \in Bytes /\ Recv(Char) /\ Advance /\ at \in {"first", "last", "byte", "second"} /\ packet' = packet
  BY <1>1, CharIsByte, AdvanceTypes DEF SendChar, TypeOK, Places
<1>3. line' = IF Repaired THEN "clean" ELSE line
  BY DEF SendChar
<1>4. returned' \in Seq(Bytes)
  BY <1>1, <1>2, RecvTypes
<1>5. (at' = "idle") <=> at = "last"
  BY <1>2 DEF Advance, NextByte
<1>6. CASE line = "dirty"
  <2>1. line' = "dirty"
    BY <1>3, <1>6 DEF Repaired
  <2>2. CASE at = "last"
    BY <1>2, <1>4, <1>5, <1>6, <2>1, <2>2 DEF Line!End, Line!Next
  <2>3. CASE at # "last"
    BY <1>2, <1>4, <1>5, <1>6, <2>1, <2>3 DEF Line!Junk, Line!Next
  <2> QED
    BY <2>2, <2>3
<1>7. CASE line # "dirty" /\ at \in {"byte", "second"}
  <2>1. line' = line /\ returned' = returned
    BY <1>3, <1>7, MiddleOfPacket DEF Repaired
  <2> QED
    BY <1>2, <1>5, <1>7, <2>1 DEF Line!vars
<1>8. CASE line = "flushing"
  <2>1. at = "first" /\ line' = "clean"
    BY <1>1, <1>3, <1>8 DEF LineOK, Repaired
  <2> QED
    BY <1>2, <1>4, <1>5, <1>8, <2>1 DEF Line!Flush, Line!Next
<1>9. CASE line \in {"clean", "mending"} /\ at = "first"
  <2>1. line' = line
    BY <1>3, <1>9 DEF Repaired
  <2>2. returned' = returned
    <3>1. CASE line = "clean"
      <4>1. ~escaped /\ received = <<>>
        BY <1>1, <1>9, <3>1 DEF Synced, InStep
      <4> QED
        BY <1>9, <4>1, EndOfPacket DEF RecvEnd
    <3>2. CASE line = "mending"
      <4>1. escaped
        BY <1>1, <1>9, <3>2 DEF Synced
      <4> QED
        BY <1>9, <4>1, EndOfPacket
    <3> QED
      BY <1>9, <3>1, <3>2
  <2> QED
    BY <1>2, <1>5, <1>9, <2>1, <2>2 DEF Line!vars
<1>10. CASE line = "mending" /\ at = "last"
  <2>1. line' = "clean"
    BY <1>3, <1>10 DEF Repaired
  <2> QED
    BY <1>2, <1>4, <1>5, <1>10, <2>1 DEF Line!End, Line!Next
<1>11. CASE line = "clean" /\ at = "last"
  <2>1. line' = "clean" /\ ~escaped
    BY <1>1, <1>3, <1>11 DEF Synced
  <2>2. received = Line!Truncate(packet)
    <3>1. received = Prefix(Len(packet))
      BY <1>1, <1>11 DEF InStep, PlaceOK, Prefix
    <3> QED
      BY <1>1, <3>1, PrefixEnds
  <2>3. received = <<>> <=> packet = <<>>
    <3>1. Size \in Nat \ {0} /\ packet \in Seq(Bytes) /\ Len(packet) \in Nat
      BY <1>1, SlipAssumption DEF TypeOK
    <3>2. received = [i \in 1 .. (IF Len(packet) < Size THEN Len(packet) ELSE Size) |-> packet[i]]
      BY <2>2 DEF Line!Truncate
    <3>3. CASE packet = <<>>
      BY <3>1, <3>2, <3>3
    <3>4. CASE packet # <<>>
      <4>1. Len(packet) >= 1
        BY <3>1, <3>4
      <4>2. 1 \in DOMAIN received
        BY <3>1, <3>2, <4>1
      <4>3. received # <<>>
        BY <4>2
      <4> QED
        BY <3>4, <4>3
    <3> QED
      BY <3>3, <3>4
  <2>4. returned' = IF packet = <<>> THEN returned ELSE Line!Truncate(packet)
    BY <1>11, <2>1, <2>2, <2>3, EndOfPacket DEF RecvEnd
  <2> QED
    BY <1>2, <1>5, <1>11, <2>1, <2>4 DEF Line!End, Line!Next
<1> QED
  BY <1>1, <1>2, <1>6, <1>7, <1>8, <1>9, <1>10, <1>11 DEF TypeOK

LEMMA FaultRefines == ASSUME IInv, Lose \/ Noise PROVE Line!Fault
<1>1. CASE Lose
  BY <1>1 DEF IInv, TypeOK, Lose, Advance, receiver, Line!Fault
<1>2. CASE Noise
  <2>1. PICK c \in Bytes : Recv(c)
    BY <1>2 DEF Noise
  <2>2. returned' \in Seq(Bytes)
    BY <2>1, RecvTypes DEF IInv
  <2> QED
    BY <1>2, <2>2 DEF Noise, sender, Line!Fault
<1> QED
  BY <1>1, <1>2

(* Slip implements a line of packets that repairs itself: what noise and   *)
(* losses leave behind costs at most the packet after them.                *)
THEOREM ImplementsPacketLine == Spec => RepairsItself
<1>1. Init => Line!Init
  BY DEF Init, Line!Init
<1>2. IInv /\ UNCHANGED vars => UNCHANGED Line!vars
  BY DEF vars, sender, receiver, Line!vars
<1>3. IInv /\ [Next]_vars => [Line!Next]_(Line!vars)
  BY <1>2, SendRefines, SendCharRefines, FaultRefines DEF Next, Line!Next
<1> QED
  BY <1>1, <1>3, Invariant, PTL DEF Spec, Line!Spec, RepairsItself
=============================================================================
