-------------------------- MODULE CdcBridgeProofs ---------------------------
(***************************************************************************)
(* Proofs about CdcBridge, for every size of the ring and of the endpoints *)
(* and for any number of resets and suspensions.                           *)
(***************************************************************************)
EXTENDS CdcBridge, TLAPS, SequenceTheorems

(* What TypeOK does not say: the other variables, the position in the      *)
(* packet that is being sent, and that outside a transfer nothing moves.   *)
InTransfer ==
    /\ scene \in Scenes /\ resets \in Nat
    /\ outData \in Seq(Byte) /\ Len(outData) <= EpSize
    /\ inData \in Seq(Byte) /\ Len(inData) <= EpSize /\ collected \in Seq(Byte) /\ sent \in Seq(Byte)
    /\ inBusy <=> inData # <<>>
    /\ cdc_trf_state = "busy" => cdc_tx_len > 0
    /\ outBusy => outData = <<>>
    /\ RS232_Out_Data_Rdy => RS232cp < LastRS232Out
    /\ usb = "detached" => ~inBusy /\ ~outBusy /\ outData = <<>>
    /\ usb # "configured" => pc = "tasks"

IInv == TypeOK /\ InTransfer /\ HandedOverAtOnce

LEMMA InitIInv == Init => IInv
<1> SUFFICES ASSUME Init
             PROVE  IInv
  OBVIOUS
<1> USE DEF Init
<1>1. TypeOK
  <2>1. RS232_Out_Data \in Buffer /\ USB_Out_Buffer \in Buffer
    BY ByteAssumption DEF Buffer
  <2>2. ring \in Seq(Byte) /\ Len(ring) < RingSize
    <3>1. <<>> \in Seq(Byte) /\ Len(<<>>) = 0
      OBVIOUS
    <3> QED
      BY <3>1, SizeAssumption
  <2>3. trmt \in BOOLEAN /\ outBusy \in BOOLEAN /\ inBusy \in BOOLEAN
        /\ RS232_Out_Data_Rdy \in BOOLEAN
    OBVIOUS
  <2>4. /\ LastRS232Out \in 0 .. EpSize /\ RS232cp \in 0 .. EpSize
        /\ NextUSBOut \in Positions /\ cdc_tx_len \in Positions
    BY SizeAssumption DEF Positions
  <2> QED
    BY <2>1, <2>2, <2>3, <2>4 DEF TypeOK
<1>2. InTransfer
  BY SizeAssumption DEF InTransfer
<1>3. HandedOverAtOnce
  BY DEF HandedOverAtOnce
<1> QED
  BY <1>1, <1>2, <1>3 DEF IInv

(* A piece of a buffer is a sequence as long as its bounds say.            *)
LEMMA BytesType ==
    ASSUME NEW buffer \in Buffer, NEW from \in Nat, NEW to \in 0 .. EpSize,
           from <= to
    PROVE  /\ Bytes(buffer, from, to) \in Seq(Byte)
           /\ Len(Bytes(buffer, from, to)) = to - from
<1>1. to - from \in Nat
  BY SizeAssumption
<1>2. \A k \in 1 .. (to - from) : buffer[from + k - 1] \in Byte
  BY <1>1, SizeAssumption DEF Buffer, Positions
<1>3. Bytes(buffer, from, to) \in [1 .. (to - from) -> Byte]
  BY <1>2 DEF Bytes
<1> QED
  BY <1>1, <1>3

(* The piece from the start of the buffer.                                 *)
LEMMA PieceType ==
    ASSUME NEW buffer \in Buffer, NEW n \in Positions
    PROVE  Bytes(buffer, 0, n) \in Seq(Byte) /\ Len(Bytes(buffer, 0, n)) = n
<1>1. n \in 0 .. EpSize /\ 0 \in Nat /\ 0 <= n /\ n - 0 = n
  BY SizeAssumption DEF Positions
<1> QED
  BY <1>1, BytesType

(* A packet is a sequence of at most EpSize bytes.                         *)
LEMMA PacketType ==
    ASSUME NEW packet \in Packets, scene \in Scenes
    PROVE  packet \in Seq(Byte) /\ Len(packet) <= EpSize
<1>1. PICK k \in 0 .. EpSize : packet \in [1 .. k -> scene.down]
  BY DEF Packets
<1>2. scene.down \subseteq Byte
  BY ScenesAssumption
<1>3. packet \in [1 .. k -> Byte]
  BY <1>1, <1>2
<1>4. k \in Nat
  BY SizeAssumption
<1> QED
  BY <1>1, <1>3, <1>4, SizeAssumption

(* Every part of the loop and every event beside it keeps the invariant.   *)
LEMMA StepIInv == IInv /\ [Next]_vars => IInv'
<1> SUFFICES ASSUME IInv, [Next]_vars
             PROVE  IInv'
  OBVIOUS
<1> USE SizeAssumption, ByteAssumption DEF IInv
<1>1. ASSUME NEW b \in scene.up, Serial2Interrupt(b)
      PROVE  IInv'
  <2>1. b \in Byte
    BY <1>1, ScenesAssumption DEF InTransfer
  <2>2. ring' \in Seq(Byte) /\ Len(ring') < RingSize
    BY <2>1, <1>1 DEF TypeOK, Serial2Interrupt
  <2>3. TypeOK'
    BY <2>2, <1>1 DEF TypeOK, Serial2Interrupt, out, down, up, cdc, in
  <2>4. InTransfer' /\ HandedOverAtOnce'
    BY <1>1 DEF InTransfer, HandedOverAtOnce, Serial2Interrupt, world, out, down, up, cdc, in
  <2> QED
    BY <2>3, <2>4
<1>2. CASE Shifted
  BY <1>2 DEF TypeOK, InTransfer, HandedOverAtOnce, Shifted, world, out, down, up, cdc, in
<1>3. CASE HostSends
  <2>1. outData' \in Seq(Byte) /\ Len(outData') <= EpSize
    BY <1>3, PacketType DEF HostSends, InTransfer
  <2>2. TypeOK'
    BY <1>3 DEF TypeOK, HostSends, down, up, cdc, in
  <2>3. InTransfer' /\ HandedOverAtOnce'
    BY <1>3, <2>1 DEF InTransfer, HandedOverAtOnce, HostSends, world, down, up, cdc, in
  <2> QED
    BY <2>2, <2>3
<1>4. CASE HostCollects
  <2>1. TypeOK'
    BY <1>4 DEF TypeOK, HostCollects, out, down, up, cdc
  <2>2. InTransfer' /\ HandedOverAtOnce'
    BY <1>4 DEF InTransfer, HandedOverAtOnce, HostCollects, world, out, down, up, cdc
  <2> QED
    BY <2>1, <2>2
<1>5. CASE Reset
  <2>1. TypeOK'
    BY <1>5 DEF TypeOK, Reset, down, up, cdc
  <2>2. InTransfer' /\ HandedOverAtOnce'
    BY <1>5 DEF InTransfer, HandedOverAtOnce, Reset, down, up, cdc
  <2> QED
    BY <2>1, <2>2
<1>6. CASE Configure
  <2>1. TypeOK'
    BY <1>6 DEF TypeOK, Configure, Positions, down, up, in
  <2>2. InTransfer' /\ HandedOverAtOnce'
    BY <1>6 DEF InTransfer, HandedOverAtOnce, Configure, world, down, up, in
  <2> QED
    BY <2>1, <2>2
<1>7. CASE Suspend \/ Resume \/ Enter
  <2>1. TypeOK'
    BY <1>7 DEF TypeOK, Suspend, Resume, Enter, out, down, up, cdc, in
  <2>2. InTransfer' /\ HandedOverAtOnce'
    BY <1>7 DEF InTransfer, HandedOverAtOnce, Suspend, Resume, Enter, world, out, down, up, cdc, in
  <2> QED
    BY <2>1, <2>2
<1>8. CASE ReadPacket
  <2>1. CASE RS232_Out_Data_Rdy
    BY <1>8, <2>1 DEF TypeOK, InTransfer, HandedOverAtOnce, ReadPacket, world, out, down, up, cdc, in
  <2>2. CASE ~RS232_Out_Data_Rdy
    <3>1. RS232_Out_Data' \in Buffer
      <4>1. \A i \in Positions : (IF i < Len(outData) THEN outData[i + 1] ELSE RS232_Out_Data[i]) \in Byte
        BY DEF TypeOK, InTransfer, Buffer, Positions
      <4> QED
        BY <1>8, <2>2, <4>1 DEF ReadPacket, Buffer
    <3>2. LastRS232Out' \in 0 .. EpSize /\ RS232cp' \in 0 .. EpSize
      BY <1>8, <2>2 DEF ReadPacket, TypeOK, InTransfer
    <3>3. TypeOK'
      BY <1>8, <2>2, <3>1, <3>2 DEF TypeOK, ReadPacket, up, cdc, in
    <3>4. InTransfer' /\ HandedOverAtOnce'
      BY <1>8, <2>2, <3>2 DEF InTransfer, TypeOK, HandedOverAtOnce, ReadPacket, world, up, cdc, in
    <3> QED
      BY <3>3, <3>4
  <2> QED
    BY <2>1, <2>2
<1>9. CASE SendByte
  <2>1. CASE RS232_Out_Data_Rdy /\ trmt
    <3>1. RS232_Out_Data[RS232cp] \in Byte /\ RS232cp + 1 \in 0 .. EpSize
      BY <2>1 DEF TypeOK, InTransfer, Buffer, Positions
    <3>2. sent' \in Seq(Byte)
      <4>1. sent' = <<RS232_Out_Data[RS232cp]>>
        BY <1>9, <2>1 DEF SendByte
      <4> QED
        BY <3>1, <4>1
    <3>3. TypeOK'
      BY <1>9, <2>1, <3>1 DEF TypeOK, SendByte, out, up, cdc, in
    <3>4. RS232_Out_Data_Rdy' => RS232cp' < LastRS232Out'
      <4>1. /\ RS232cp' = RS232cp + 1 /\ LastRS232Out' = LastRS232Out
            /\ RS232_Out_Data_Rdy' => RS232cp' # LastRS232Out
        BY <1>9, <2>1 DEF SendByte
      <4>2. RS232cp < LastRS232Out /\ LastRS232Out \in Nat /\ RS232cp \in Nat
        BY <2>1, SizeAssumption DEF InTransfer, TypeOK
      <4> QED
        BY <4>1, <4>2
    <3>5. InTransfer' /\ HandedOverAtOnce'
      BY <1>9, <2>1, <3>2, <3>4 DEF InTransfer, HandedOverAtOnce, SendByte, world, out, up, cdc, in
    <3> QED
      BY <3>3, <3>5
  <2>2. CASE ~(RS232_Out_Data_Rdy /\ trmt)
    BY <1>9, <2>2 DEF TypeOK, InTransfer, HandedOverAtOnce, SendByte, world, out, up, cdc, in
  <2> QED
    BY <2>1, <2>2
<1>10. CASE ReceiveByte
  <2>1. CASE UART2IsPressed /\ NextUSBOut < EpSize - 1
    <3>1. ring # <<>>
      BY <2>1, SizeAssumption DEF UART2IsPressed, TypeOK
    <3>2. Head(ring) \in Byte /\ Tail(ring) \in Seq(Byte) /\ Len(Tail(ring)) < RingSize
      BY <3>1 DEF TypeOK
    <3>3. USB_Out_Buffer' \in Buffer /\ NextUSBOut' \in Positions
      BY <1>10, <2>1, <3>2 DEF ReceiveByte, TypeOK, Buffer, Positions
    <3>4. TypeOK'
      BY <1>10, <2>1, <3>2, <3>3 DEF TypeOK, ReceiveByte, out, down, cdc, in
    <3>5. InTransfer' /\ HandedOverAtOnce'
      BY <1>10, <2>1 DEF InTransfer, HandedOverAtOnce, ReceiveByte, world, out, down, cdc, in
    <3> QED
      BY <3>4, <3>5
  <2>2. CASE ~(UART2IsPressed /\ NextUSBOut < EpSize - 1)
    BY <1>10, <2>2 DEF TypeOK, InTransfer, HandedOverAtOnce, ReceiveByte, world, out, down, up, cdc, in
  <2> QED
    BY <2>1, <2>2
<1>11. CASE HandOver
  <2>1. TypeOK'
    BY <1>11 DEF TypeOK, HandOver, Positions, out, down, cdc, in
  <2>2. InTransfer' /\ HandedOverAtOnce'
    BY <1>11 DEF InTransfer, HandedOverAtOnce, HandOver, world, out, down, cdc, in
  <2> QED
    BY <2>1, <2>2
<1>12. CASE CDCTxService
  <2>1. cdc_trf_state = "busy" =>
            /\ Bytes(USB_Out_Buffer, 0, cdc_tx_len) \in Seq(Byte)
            /\ Bytes(USB_Out_Buffer, 0, cdc_tx_len) # <<>>
            /\ Len(Bytes(USB_Out_Buffer, 0, cdc_tx_len)) <= EpSize
    <3>1. /\ Bytes(USB_Out_Buffer, 0, cdc_tx_len) \in Seq(Byte)
          /\ Len(Bytes(USB_Out_Buffer, 0, cdc_tx_len)) = cdc_tx_len
      BY PieceType DEF TypeOK
    <3>2. cdc_tx_len \in Nat /\ cdc_tx_len <= EpSize
      BY SizeAssumption DEF TypeOK, Positions
    <3> QED
      BY <3>1, <3>2 DEF InTransfer
  <2>2. TypeOK'
    <3>1. inBusy' \in BOOLEAN
      BY <1>12 DEF TypeOK, CDCTxService
    <3> QED
      BY <1>12, <3>1 DEF TypeOK, CDCTxService, Positions, out, down, up, cdc
  <2>3. InTransfer' /\ HandedOverAtOnce'
    <3>1. CASE inBusy
      BY <1>12, <3>1 DEF InTransfer, HandedOverAtOnce, CDCTxService, world, out, down, up, cdc
    <3>2. CASE ~inBusy /\ cdc_trf_state = "busy"
      BY <1>12, <2>1, <3>2 DEF InTransfer, HandedOverAtOnce, CDCTxService, world, out, down, up
    <3>3. CASE ~inBusy /\ cdc_trf_state # "busy"
      BY <1>12, <3>3 DEF InTransfer, HandedOverAtOnce, CDCTxService, world, out, down, up
    <3> QED
      BY <3>1, <3>2, <3>3
  <2> QED
    BY <2>2, <2>3
<1>13. CASE UNCHANGED vars
  BY <1>13 DEF TypeOK, InTransfer, HandedOverAtOnce, vars
<1> QED
  BY <1>1, <1>2, <1>3, <1>4, <1>5, <1>6, <1>7, <1>8, <1>9, <1>10, <1>11, <1>12, <1>13
     DEF Next, Loop

(* Buffers, positions and counts stay in their bounds, for any traffic     *)
(* (ProcessIO).                                                            *)
THEOREM BridgeTypeCorrect == Spec => []TypeOK
<1> QED
  BY InitIInv, StepIInv, PTL DEF Spec, IInv

(* The buffer lent to the CDC driver is never written to while lent        *)
(* (putUSBUSART in ProcessIO).                                             *)
THEOREM LentOnlyWithinAPass == Spec => []HandedOverAtOnce
<1> QED
  BY InitIInv, StepIInv, PTL DEF Spec, IInv
-----------------------------------------------------------------------------
(* Cutting a concatenation where it was made.                              *)
LEMMA FrontAndBack ==
    ASSUME NEW s \in Seq(Byte), NEW t \in Seq(Byte)
    PROVE  /\ Len(s \o t) = Len(s) + Len(t)
           /\ SubSeq(s \o t, 1, Len(s)) = s
           /\ SubSeq(s \o t, Len(s) + 1, Len(s \o t)) = t
<1>1. /\ s \o t \in Seq(Byte)
      /\ Len(s \o t) = Len(s) + Len(t)
      /\ \A i \in 1 .. Len(s) + Len(t) :
            (s \o t)[i] = IF i <= Len(s) THEN s[i] ELSE t[i - Len(s)]
  BY ConcatProperties
<1>2. Len(s) \in Nat /\ Len(t) \in Nat
  OBVIOUS
<1> DEFINE front == SubSeq(s \o t, 1, Len(s))
           back  == SubSeq(s \o t, Len(s) + 1, Len(s \o t))
<1>3. \A i \in 1 .. Len(s \o t) : (s \o t)[i] \in Byte
  BY <1>1, ElementOfSeq
<1>4. front = s
  <2>1. /\ front \in Seq(Byte)
        /\ Len(front) = Len(s)
        /\ \A i \in 1 .. Len(s) : front[i] = (s \o t)[i]
    BY <1>1, <1>2, <1>3, SubSeqProperties
  <2>2. \A i \in 1 .. Len(front) : front[i] = s[i]
    BY <2>1, <1>1, <1>2
  <2> HIDE DEF front
  <2> QED
    BY <2>1, <2>2, SeqEqual
<1>5. back = t
  <2>1. /\ back \in Seq(Byte)
        /\ Len(back) = Len(t)
        /\ \A i \in 1 .. Len(t) : back[i] = (s \o t)[i + Len(s)]
    BY <1>1, <1>2, <1>3, SubSeqProperties
  <2>2. \A i \in 1 .. Len(back) : back[i] = t[i]
    BY <2>1, <1>1, <1>2
  <2> HIDE DEF back
  <2> QED
    BY <2>1, <2>2, SeqEqual
<1> QED
  BY <1>1, <1>4, <1>5

(* Small facts about sequences.                                           *)
LEMMA NoBytes ==
    ASSUME NEW s \in Seq(Byte), Len(s) = 0
    PROVE  s = <<>>
  OBVIOUS

LEMMA Associative == \A s, t, u \in Seq(Byte) : (s \o t) \o u = s \o (t \o u)
  BY ConcatAssociative

LEMMA HeadAndTail ==
    ASSUME NEW s \in Seq(Byte), s # <<>>
    PROVE  s = <<Head(s)>> \o Tail(s)
<1>1. Len(s) \in Nat \ {0} /\ Head(s) = s[1]
  OBVIOUS
<1>2. SubSeq(s, 1, Len(s)) = <<s[1]>> \o SubSeq(s, 2, Len(s))
  <2>1. 1 \in 1 .. Len(s) /\ Len(s) \in 1 .. Len(s) /\ 1 + 1 = 2
    BY <1>1
  <2> QED
    BY <2>1, SubSeqRecursiveFirst
<1>3. SubSeq(s, 1, Len(s)) = s /\ Tail(s) = SubSeq(s, 2, Len(s))
  BY SubSeqFull, TailIsSubSeq
<1> QED
  BY <1>1, <1>2, <1>3

(* What was handed over, and what ProcessIO is filling the buffer with.    *)
Lent    == IF cdc_trf_state = "busy" THEN Bytes(USB_Out_Buffer, 0, cdc_tx_len) ELSE <<>>
Filling == Bytes(USB_Out_Buffer, 0, NextUSBOut)

PartsType ==
    /\ Lent \in Seq(Byte)
    /\ Filling \in Seq(Byte) /\ Len(Filling) = NextUSBOut
    /\ (Lent \o Filling) \o ring \in Seq(Byte)
    /\ ToHost = inData \o ((Lent \o Filling) \o ring)
    /\ ToHost \in Seq(Byte)

(* The parts are sequences of bytes and make up ToHost.                    *)
LEMMA Parts == IInv => PartsType
<1> SUFFICES ASSUME IInv
             PROVE  PartsType
  OBVIOUS
<1>1. Filling \in Seq(Byte) /\ Len(Filling) = NextUSBOut
  BY PieceType DEF Filling, IInv, TypeOK
<1>2. Lent \in Seq(Byte)
  <2>1. Bytes(USB_Out_Buffer, 0, cdc_tx_len) \in Seq(Byte)
    BY PieceType DEF IInv, TypeOK
  <2> QED
    BY <2>1 DEF Lent
<1>3. inData \in Seq(Byte) /\ ring \in Seq(Byte)
  BY DEF IInv, InTransfer, TypeOK
<1>4. (Lent \o Filling) \o ring \in Seq(Byte)
  BY <1>1, <1>2, <1>3, ConcatProperties
<1>5. ToHost = inData \o ((Lent \o Filling) \o ring)
  <2>1. ToHost = ((inData \o Lent) \o Filling) \o ring
    BY DEF ToHost, Lent, Filling
  <2>2. Lent \o Filling \in Seq(Byte)
    BY <1>1, <1>2, ConcatProperties
  <2>3. (inData \o Lent) \o Filling = inData \o (Lent \o Filling)
    <3>1. inData \in Seq(Byte) /\ Lent \in Seq(Byte) /\ Filling \in Seq(Byte)
      BY <1>1, <1>2, <1>3
    <3> QED
      BY <3>1, Associative
  <2>4. (inData \o (Lent \o Filling)) \o ring = inData \o ((Lent \o Filling) \o ring)
    <3>1. PICK first \in Seq(Byte) : first = Lent \o Filling
      BY <2>2
    <3>2. (inData \o first) \o ring = inData \o (first \o ring)
      BY <1>3, <3>1, Associative, Zenon
    <3> QED
      BY <3>1, <3>2
  <2> QED
    BY <2>1, <2>3, <2>4
<1> QED
  BY <1>1, <1>2, <1>3, <1>4, <1>5, ConcatProperties DEF PartsType

LEMMA PartsNext == IInv' => PartsType'
  BY Parts, PTL

(* Of ToHost, a step moves one of the parts or the border between two.     *)
LEMMA StepToHost == IInv /\ [Next]_vars => [Up!PNext]_(Up!pvars)
<1> SUFFICES ASSUME IInv, [Next]_vars
             PROVE  [Up!PNext]_(Up!pvars)
  OBVIOUS
<1> DEFINE behind == (Lent \o Filling) \o ring
<1>1. PartsType /\ PartsType'
  BY Parts, PartsNext, StepIInv
<1>2. /\ ring \in Seq(Byte) /\ ring' \in Seq(Byte)
      /\ inData \in Seq(Byte) /\ inData' \in Seq(Byte)
  BY StepIInv DEF IInv, TypeOK, InTransfer
<1>3. /\ behind \in Seq(Byte) /\ behind' \in Seq(Byte)
      /\ ToHost = inData \o behind /\ ToHost' = inData' \o behind'
  BY <1>1 DEF PartsType
<1>4. ASSUME behind' = behind, inData' = inData, collected' = collected, resets' = resets
      PROVE  UNCHANGED Up!pvars
  BY <1>3, <1>4 DEF Up!pvars
<1>5. ASSUME Lent' = Lent, Filling' = Filling, ring' = ring,
             inData' = inData, collected' = collected, resets' = resets
      PROVE  UNCHANGED Up!pvars
  BY <1>4, <1>5
<1>6. ASSUME NEW b \in scene.up, Serial2Interrupt(b)
      PROVE  [Up!PNext]_(Up!pvars)
  <2>1. /\ Lent' = Lent /\ Filling' = Filling
        /\ inData' = inData /\ collected' = collected /\ resets' = resets
    BY <1>6 DEF Serial2Interrupt, Lent, Filling, world, up, cdc, in
  <2>2. CASE ring' = ring
    BY <1>5, <2>1, <2>2
  <2>3. CASE ring' # ring
    <3>1. b \in Byte /\ ring' = Append(ring, b)
      BY <1>6, <2>3, ScenesAssumption DEF Serial2Interrupt, IInv, InTransfer
    <3>2. <<b>> \in Seq(Byte) /\ Len(<<b>>) = 1
      BY <3>1
    <3>3. ring' = ring \o <<b>>
      BY <3>1, <1>2, AppendIsConcat
    <3>4. Lent \o Filling \in Seq(Byte)
      BY <1>1, ConcatProperties DEF PartsType
    <3>5. behind' = behind \o <<b>>
      <4>1. behind' = (Lent \o Filling) \o (ring \o <<b>>)
        BY <2>1, <3>3
      <4>2. ((Lent \o Filling) \o ring) \o <<b>> = (Lent \o Filling) \o (ring \o <<b>>)
        BY <3>2, <3>4, <1>2, Associative, Zenon
      <4> QED
        BY <4>1, <4>2
    <3>6. ToHost' = ToHost \o <<b>>
      <4> HIDE DEF behind
      <4>1. (inData \o behind) \o <<b>> = inData \o (behind \o <<b>>)
        <5>1. inData \in Seq(Byte) /\ behind \in Seq(Byte) /\ <<b>> \in Seq(Byte)
          BY <3>2, <1>2, <1>3
        <5> QED
          BY <5>1, Associative, Zenon
      <4> QED
        BY <2>1, <3>5, <1>3, <4>1
    <3>7. ToHost \in Seq(Byte) /\ ToHost' \in Seq(Byte)
      BY <1>1 DEF PartsType
    <3>8. /\ Len(ToHost') > Len(ToHost)
          /\ SubSeq(ToHost', 1, Len(ToHost)) = ToHost
          /\ \A k \in Len(ToHost) + 1 .. Len(ToHost') : ToHost'[k] \in Byte
      <4>1. /\ Len(ToHost') = Len(ToHost) + 1
            /\ SubSeq(ToHost', 1, Len(ToHost)) = ToHost
        BY <3>2, <3>6, <3>7, FrontAndBack
      <4>2. Len(ToHost) \in Nat
        BY <3>7
      <4>3. \A k \in 1 .. Len(ToHost') : ToHost'[k] \in Byte
        BY <3>7, ElementOfSeq
      <4> QED
        BY <4>1, <4>2, <4>3
    <3> QED
      BY <2>1, <3>8 DEF Up!PNext, Up!PSend
  <2> QED
    BY <2>2, <2>3
<1>7. CASE HostCollects
  <2>1. /\ Lent' = Lent /\ Filling' = Filling /\ ring' = ring /\ resets' = resets
        /\ inData # <<>> /\ inData' = <<>> /\ collected' = inData
    BY <1>7 DEF HostCollects, Lent, Filling, world, up, cdc, IInv, InTransfer
  <2>2. ToHost' = behind
    BY <2>1, <1>3, ConcatEmptySeq
  <2>3. /\ Len(ToHost) = Len(inData) + Len(behind)
        /\ SubSeq(ToHost, 1, Len(inData)) = inData
        /\ SubSeq(ToHost, Len(inData) + 1, Len(ToHost)) = behind
    BY <1>2, <1>3, FrontAndBack
  <2>4. Len(inData) \in 1 .. Len(ToHost)
    <3>1. Len(inData) \in Nat /\ Len(behind) \in Nat /\ Len(inData) # 0
      BY <1>2, <1>3, <2>1
    <3> QED
      BY <2>3, <3>1
  <2> QED
    BY <2>1, <2>2, <2>3, <2>4 DEF Up!PNext, Up!PDeliver
<1>8. CASE Reset
  <2>1. /\ Lent' = Lent /\ Filling' = Filling /\ ring' = ring
        /\ resets' = resets + 1 /\ inData' = <<>> /\ collected' = collected
    BY <1>8 DEF Reset, Lent, Filling, up, cdc
  <2>2. ToHost' = behind
    BY <2>1, <1>3, ConcatEmptySeq
  <2>3. /\ Len(ToHost) = Len(inData) + Len(behind)
        /\ SubSeq(ToHost, Len(inData) + 1, Len(ToHost)) = behind
    BY <1>2, <1>3, FrontAndBack
  <2>4. Len(inData) \in 0 .. Len(ToHost) /\ Len(inData) <= EpSize
    <3>1. Len(inData) \in Nat /\ Len(behind) \in Nat
      BY <1>2, <1>3
    <3>2. Len(inData) <= EpSize
      BY DEF IInv, InTransfer
    <3> QED
      BY <2>3, <3>1, <3>2
  <2> QED
    BY <2>1, <2>2, <2>3, <2>4 DEF Up!PNext, Up!PReset
<1>9. CASE Configure
  <2>1. Lent = <<>> /\ Lent' = <<>>
    BY <1>9 DEF Configure, Lent, IInv, HandedOverAtOnce
  <2> QED
    BY <1>5, <1>9, <2>1 DEF Configure, Filling, world, up, in
<1>10. CASE ReceiveByte
  <2>1. Lent = <<>> /\ Lent' = <<>>
    BY <1>10 DEF ReceiveByte, Lent, IInv, HandedOverAtOnce, cdc
  <2>2. inData' = inData /\ collected' = collected /\ resets' = resets
    BY <1>10 DEF ReceiveByte, world, in
  <2>3. CASE ~(UART2IsPressed /\ NextUSBOut < EpSize - 1)
    BY <1>5, <1>10, <2>1, <2>2, <2>3 DEF ReceiveByte, Filling, up
  <2>4. CASE UART2IsPressed /\ NextUSBOut < EpSize - 1
    <3>1. ring # <<>>
      BY <2>4, SizeAssumption DEF UART2IsPressed, IInv, TypeOK
    <3> DEFINE h == Head(ring)
    <3>2. h \in Byte /\ ring' = Tail(ring) /\ ring = <<h>> \o ring'
      BY <1>2, <1>10, <2>4, <3>1, HeadTailProperties, HeadAndTail DEF ReceiveByte
    <3>3. <<h>> \in Seq(Byte) /\ Len(<<h>>) = 1 /\ <<h>>[1] = h
      BY <3>2
    <3>4. Filling' = Filling \o <<h>>
      <4>1. /\ Filling \in Seq(Byte) /\ Len(Filling) = NextUSBOut
            /\ Filling' \in Seq(Byte) /\ Len(Filling') = NextUSBOut'
        BY <1>1 DEF PartsType
      <4>2. NextUSBOut \in Nat /\ NextUSBOut' = NextUSBOut + 1
        BY <1>10, <2>4, SizeAssumption DEF ReceiveByte, IInv, TypeOK, Positions
      <4>3. \A i \in 1 .. NextUSBOut : Filling'[i] = Filling[i]
        BY <1>10, <2>4, <4>2, SizeAssumption
           DEF ReceiveByte, Filling, Bytes, IInv, TypeOK, Buffer, Positions
      <4>4. Filling'[NextUSBOut + 1] = h
        BY <1>10, <2>4, <4>2, SizeAssumption
           DEF ReceiveByte, Filling, Bytes, IInv, TypeOK, Buffer, Positions
      <4>5. /\ Filling \o <<h>> \in Seq(Byte)
            /\ Len(Filling \o <<h>>) = NextUSBOut + 1
            /\ \A i \in 1 .. NextUSBOut + 1 :
                  (Filling \o <<h>>)[i] = IF i <= NextUSBOut THEN Filling[i]
                                          ELSE <<h>>[i - NextUSBOut]
        BY <3>3, <4>1, ConcatProperties
      <4>6. \A i \in 1 .. NextUSBOut + 1 : Filling'[i] = (Filling \o <<h>>)[i]
        BY <3>3, <4>2, <4>3, <4>4, <4>5
      <4> QED
        BY <4>1, <4>2, <4>5, <4>6, SeqEqual
    <3>5. behind' = behind
      <4>1. Filling \in Seq(Byte) /\ Filling' \in Seq(Byte)
        BY <1>1 DEF PartsType
      <4>2. behind' = Filling' \o ring' /\ behind = Filling \o ring
        BY <2>1, <4>1, ConcatEmptySeq
      <4>3. (Filling \o <<h>>) \o ring' = Filling \o (<<h>> \o ring')
        <5>1. PICK new \in Seq(Byte) : new = <<h>>
          BY <3>3
        <5>2. (Filling \o new) \o ring' = Filling \o (new \o ring')
          <6>1. Filling \in Seq(Byte) /\ ring' \in Seq(Byte)
            BY <1>2, <4>1
          <6> QED
            BY <6>1, Associative
        <5> QED
          BY <5>1, <5>2
      <4> QED
        BY <3>2, <3>4, <4>2, <4>3
    <3> QED
      BY <1>4, <2>2, <3>5
  <2> QED
    BY <2>3, <2>4
<1>11. CASE HandOver
  <2>1. /\ inData' = inData /\ collected' = collected /\ resets' = resets
        /\ ring' = ring /\ USB_Out_Buffer' = USB_Out_Buffer
    BY <1>11 DEF HandOver, world, in
  <2>2. CASE ~(cdc_trf_state = "ready" /\ NextUSBOut > 0)
    BY <1>5, <1>11, <2>1, <2>2 DEF HandOver, Lent, Filling, cdc
  <2>3. CASE cdc_trf_state = "ready" /\ NextUSBOut > 0
    <3>1. Lent = <<>> /\ Lent' = Filling /\ Filling' = Bytes(USB_Out_Buffer, 0, 0)
      BY <1>11, <2>1, <2>3 DEF HandOver, Lent, Filling
    <3>2. Filling' = <<>>
      <4>1. Filling' \in Seq(Byte) /\ Len(Filling') = 0
        BY <1>1, <1>11, <2>3 DEF PartsType, HandOver
      <4> QED
        BY <4>1
    <3>3. Lent \o Filling = Filling /\ Lent' \o Filling' = Filling
      BY <1>1, <3>1, <3>2, ConcatEmptySeq DEF PartsType
    <3> QED
      BY <1>4, <2>1, <3>3
  <2> QED
    BY <2>2, <2>3
<1>12. CASE CDCTxService
  <2>1. /\ collected' = collected /\ resets' = resets /\ ring' = ring
        /\ Filling' = Filling /\ USB_Out_Buffer' = USB_Out_Buffer
    BY <1>12 DEF CDCTxService, Filling, world, up
  <2>2. CASE inBusy \/ cdc_trf_state # "busy"
    BY <1>5, <1>12, <2>1, <2>2 DEF CDCTxService, Lent, cdc
  <2>3. CASE ~inBusy /\ cdc_trf_state = "busy"
    <3>1. inData = <<>> /\ inData' = Lent /\ Lent' = <<>>
      BY <1>12, <2>3 DEF CDCTxService, Lent, IInv, InTransfer
    <3>2. Filling \in Seq(Byte) /\ Lent \in Seq(Byte)
      BY <1>1 DEF PartsType
    <3>3. behind' = Filling \o ring
      BY <2>1, <3>1, <3>2, ConcatEmptySeq
    <3>4. ToHost = behind
      BY <1>3, <3>1, ConcatEmptySeq
    <3>5. behind = Lent \o (Filling \o ring)
      <4>1. (Lent \o Filling) \o ring = Lent \o (Filling \o ring)
        <5>1. Lent \in Seq(Byte) /\ Filling \in Seq(Byte) /\ ring \in Seq(Byte)
          BY <1>2, <3>2
        <5> QED
          BY <5>1, Associative
      <4> QED
        BY <4>1
    <3>6. ToHost' = ToHost
      BY <1>3, <3>1, <3>3, <3>4, <3>5
    <3> QED
      BY <2>1, <3>6 DEF Up!pvars
  <2> QED
    BY <2>2, <2>3
<1>13. CASE Shifted \/ HostSends \/ Suspend \/ Resume \/ Enter \/ ReadPacket \/ SendByte
  BY <1>5, <1>13 DEF Shifted, HostSends, Suspend, Resume, Enter, ReadPacket, SendByte,
                     Lent, Filling, world, up, cdc, in
<1>14. CASE UNCHANGED vars
  BY <1>5, <1>14 DEF vars, Lent, Filling
<1> QED
  BY <1>6, <1>7, <1>8, <1>9, <1>10, <1>11, <1>12, <1>13, <1>14 DEF Next, Loop

(* From the line to the host nothing changes its order, nothing comes      *)
(* twice, and only a bus reset loses anything the ring has accepted        *)
(* (Serial2Interrupt, ProcessIO): the safety part of ImplementsUp.         *)
THEOREM BridgeKeepsOrderUp == Spec => Up!PInit /\ [][Up!PNext]_(Up!pvars)
<1>1. Init => Up!PInit
  <2> SUFFICES ASSUME Init
               PROVE  Up!PInit
    OBVIOUS
  <2>1. Lent = <<>> /\ inData = <<>> /\ ring = <<>> /\ collected = <<>> /\ resets = 0
    BY DEF Init, Lent
  <2>2. Filling = <<>>
    <3>1. Filling \in Seq(Byte) /\ Len(Filling) = 0
      BY InitIInv, Parts DEF PartsType, Init
    <3> QED
      BY <3>1
  <2>3. ToHost = <<>>
    BY <2>1, <2>2, InitIInv, Parts, ConcatEmptySeq DEF PartsType
  <2> QED
    BY <2>1, <2>3 DEF Up!PInit
<1> QED
  BY <1>1, InitIInv, StepIInv, StepToHost, PTL DEF Spec
-----------------------------------------------------------------------------
(* The bytes of the current packet that are still to be sent.              *)
Pending == IF RS232_Out_Data_Rdy THEN Bytes(RS232_Out_Data, RS232cp, LastRS232Out) ELSE <<>>

LineType ==
    /\ Pending \in Seq(Byte) /\ outData \in Seq(Byte)
    /\ RS232_Out_Data_Rdy => Len(Pending) = LastRS232Out - RS232cp
    /\ ToLine = Pending \o outData /\ ToLine \in Seq(Byte)

(* The same of the two parts of ToLine.                                    *)
LEMMA LineParts == IInv => LineType
<1> SUFFICES ASSUME IInv
             PROVE  LineType
  OBVIOUS
<1>1. RS232_Out_Data_Rdy =>
         /\ Bytes(RS232_Out_Data, RS232cp, LastRS232Out) \in Seq(Byte)
         /\ Len(Bytes(RS232_Out_Data, RS232cp, LastRS232Out)) = LastRS232Out - RS232cp
  <2> SUFFICES ASSUME RS232_Out_Data_Rdy
               PROVE  /\ Bytes(RS232_Out_Data, RS232cp, LastRS232Out) \in Seq(Byte)
                      /\ Len(Bytes(RS232_Out_Data, RS232cp, LastRS232Out)) = LastRS232Out - RS232cp
    OBVIOUS
  <2>1. /\ RS232_Out_Data \in Buffer /\ RS232cp \in Nat /\ LastRS232Out \in 0 .. EpSize
        /\ RS232cp <= LastRS232Out
    BY SizeAssumption DEF IInv, TypeOK, InTransfer
  <2> QED
    BY <2>1, BytesType
<1>2. Pending \in Seq(Byte) /\ outData \in Seq(Byte)
  BY <1>1 DEF Pending, IInv, InTransfer
<1> QED
  BY <1>1, <1>2, ConcatProperties DEF LineType, Pending, ToLine

LEMMA LinePartsNext == IInv' => LineType'
  BY LineParts, PTL

(* Of ToLine likewise.                                                     *)
LEMMA StepToLine == IInv /\ [Next]_vars => [Down!PNext]_(Down!pvars)
<1> SUFFICES ASSUME IInv, [Next]_vars
             PROVE  [Down!PNext]_(Down!pvars)
  OBVIOUS
<1>1. LineType /\ LineType'
  BY LineParts, LinePartsNext, StepIInv
<1>2. ASSUME Pending' = Pending, outData' = outData, sent' = sent, resets' = resets
      PROVE  UNCHANGED Down!pvars
  BY <1>1, <1>2 DEF LineType, Down!pvars
<1>3. CASE HostSends
  <2>1. /\ Pending' = Pending /\ sent' = sent /\ resets' = resets
        /\ outData = <<>> /\ outData' \in Seq(Byte)
    BY <1>1, <1>3 DEF HostSends, Pending, world, down, IInv, InTransfer, LineType
  <2>2. ToLine = Pending /\ ToLine' = Pending \o outData'
    BY <1>1, <2>1, ConcatEmptySeq DEF LineType
  <2>3. CASE outData' = <<>>
    BY <1>2, <2>1, <2>3
  <2>4. CASE outData' # <<>>
    <3>1. /\ Len(ToLine') = Len(ToLine) + Len(outData')
          /\ SubSeq(ToLine', 1, Len(ToLine)) = ToLine
      BY <1>1, <2>1, <2>2, FrontAndBack DEF LineType
    <3>2. Len(ToLine) \in Nat /\ Len(outData') \in Nat \ {0}
      BY <1>1, <2>1, <2>4 DEF LineType
    <3>3. \A k \in 1 .. Len(ToLine') : ToLine'[k] \in Byte
      BY <1>1, ElementOfSeq DEF LineType
    <3>4. /\ Len(ToLine') > Len(ToLine)
          /\ \A k \in Len(ToLine) + 1 .. Len(ToLine') : ToLine'[k] \in Byte
      BY <3>1, <3>2, <3>3
    <3> QED
      BY <2>1, <3>1, <3>4 DEF Down!PNext, Down!PSend
  <2> QED
    BY <2>3, <2>4
<1>4. CASE Reset
  <2>1. /\ Pending' = Pending /\ outData' = <<>> /\ sent' = sent /\ resets' = resets + 1
    BY <1>4 DEF Reset, Pending, down
  <2>2. ToLine' = Pending /\ ToLine = Pending \o outData
    BY <1>1, <2>1, ConcatEmptySeq DEF LineType
  <2>3. /\ Len(ToLine) = Len(Pending) + Len(outData)
        /\ SubSeq(ToLine, 1, Len(Pending)) = ToLine'
    BY <1>1, <2>2, FrontAndBack DEF LineType
  <2>4. /\ Len(outData) \in 0 .. Len(ToLine) /\ Len(outData) <= EpSize
        /\ Len(ToLine) - Len(outData) = Len(Pending)
    <3>1. Len(Pending) \in Nat /\ Len(outData) \in Nat
      BY <1>1 DEF LineType
    <3>2. Len(outData) <= EpSize
      BY DEF IInv, InTransfer
    <3> QED
      BY <2>3, <3>1, <3>2
  <2> QED
    BY <2>1, <2>3, <2>4 DEF Down!PNext, Down!PReset
<1>5. CASE ReadPacket
  <2>1. sent' = sent /\ resets' = resets
    BY <1>5 DEF ReadPacket, world
  <2>2. CASE RS232_Out_Data_Rdy
    BY <1>2, <1>5, <2>1, <2>2 DEF ReadPacket, Pending, out, down
  <2>3. CASE ~RS232_Out_Data_Rdy
    <3>1. Pending = <<>> /\ outData' = <<>> /\ LastRS232Out' = Len(outData)
      BY <1>5, <2>3 DEF ReadPacket, Pending
    <3>2. Len(outData) \in Nat /\ Len(outData) <= EpSize
      BY <1>1 DEF LineType, IInv, InTransfer
    <3>3. Pending' = outData
      <4>1. CASE Len(outData) = 0
        <5>1. ~RS232_Out_Data_Rdy'
          <6>1. RS232_Out_Data_Rdy' <=> LastRS232Out' > 0
            BY <1>5, <2>3 DEF ReadPacket
          <6>2. ~(LastRS232Out' > 0)
            BY <3>1, <4>1
          <6> QED
            BY <6>1, <6>2
        <5>2. Pending' = <<>>
          BY <5>1 DEF Pending
        <5> QED
          BY <1>1, <4>1, <5>2 DEF LineType
      <4>2. CASE Len(outData) > 0
        <5>1. RS232_Out_Data_Rdy' /\ RS232cp' = 0
          BY <1>5, <2>3, <3>1, <4>2 DEF ReadPacket
        <5>2. Len(Pending') = Len(outData)
          BY <1>1, <3>1, <3>2, <5>1 DEF LineType
        <5>3. Pending' = Bytes(RS232_Out_Data', 0, Len(outData))
          BY <3>1, <5>1 DEF Pending
        <5>4. \A k \in 1 .. Len(outData) : Pending'[k] = RS232_Out_Data'[k - 1]
          BY <3>2, <5>3 DEF Bytes
        <5>5. \A k \in 1 .. Len(outData) : RS232_Out_Data'[k - 1] = outData[k]
          BY <1>5, <2>3, <3>2, SizeAssumption DEF ReadPacket, Positions
        <5> QED
          BY <1>1, <5>2, <5>4, <5>5, SeqEqual DEF LineType
      <4> QED
        BY <3>2, <4>1, <4>2
    <3>4. ToLine = outData /\ ToLine' = outData
      BY <1>1, <3>1, <3>3, ConcatEmptySeq DEF LineType
    <3> QED
      BY <2>1, <3>4 DEF Down!pvars
  <2> QED
    BY <2>2, <2>3
<1>6. CASE SendByte
  <2>1. outData' = outData /\ resets' = resets
    BY <1>6 DEF SendByte, world, out
  <2>2. CASE ~(RS232_Out_Data_Rdy /\ trmt)
    BY <1>2, <1>6, <2>1, <2>2 DEF SendByte, Pending
  <2>3. CASE RS232_Out_Data_Rdy /\ trmt
    <3> DEFINE h == RS232_Out_Data[RS232cp]
    <3>1. /\ sent' = <<h>> /\ RS232cp' = RS232cp + 1 /\ LastRS232Out' = LastRS232Out
          /\ RS232_Out_Data' = RS232_Out_Data
          /\ RS232_Out_Data_Rdy' <=> RS232cp' # LastRS232Out
      BY <1>6, <2>3 DEF SendByte
    <3>2. RS232cp \in Nat /\ LastRS232Out \in Nat /\ RS232cp < LastRS232Out
      BY <2>3, SizeAssumption DEF IInv, TypeOK, InTransfer
    <3>3. /\ Pending # <<>> /\ Head(Pending) = h
          /\ Len(Pending) = LastRS232Out - RS232cp
      <4>1. Pending = Bytes(RS232_Out_Data, RS232cp, LastRS232Out)
        BY <2>3 DEF Pending
      <4>2. Len(Pending) = LastRS232Out - RS232cp /\ Len(Pending) > 0
        BY <1>1, <2>3, <3>2 DEF LineType
      <4>3. Pending[1] = h
        BY <3>2, <4>1 DEF Bytes
      <4> QED
        BY <1>1, <4>2, <4>3 DEF LineType
    <3>4. Tail(Pending) = Pending'
      <4>1. /\ Tail(Pending) \in Seq(Byte)
            /\ Len(Tail(Pending)) = Len(Pending) - 1
            /\ \A i \in 1 .. Len(Tail(Pending)) : Tail(Pending)[i] = Pending[i + 1]
        BY <1>1, <3>3, HeadTailProperties DEF LineType
      <4>2. CASE RS232cp + 1 = LastRS232Out
        <5>1. Pending' = <<>>
          BY <3>1, <4>2 DEF Pending
        <5>2. Len(Tail(Pending)) = 0
          <6>1. Len(Pending) = 1
            BY <3>2, <3>3, <4>2
          <6> QED
            BY <4>1, <6>1
        <5>3. Tail(Pending) = <<>>
          BY <4>1, <5>2, NoBytes
        <5> QED
          BY <5>1, <5>3
      <4>3. CASE RS232cp + 1 # LastRS232Out
        <5>1. /\ RS232_Out_Data_Rdy'
              /\ Pending' = Bytes(RS232_Out_Data, RS232cp + 1, LastRS232Out)
          BY <3>1, <4>3 DEF Pending
        <5>2. Len(Pending') = LastRS232Out - (RS232cp + 1)
          BY <1>1, <3>1, <5>1 DEF LineType
        <5>3. \A i \in 1 .. Len(Pending') : Pending'[i] = RS232_Out_Data[RS232cp + 1 + i - 1]
          BY <3>2, <5>1, <5>2 DEF Bytes
        <5>4. \A i \in 1 .. Len(Pending) : Pending[i] = RS232_Out_Data[RS232cp + i - 1]
          BY <2>3, <3>2, <3>3 DEF Bytes, Pending
        <5>5. \A i \in 1 .. Len(Pending') : Tail(Pending)[i] = Pending'[i]
          BY <3>2, <3>3, <4>1, <5>2, <5>3, <5>4
        <5>6. Len(Tail(Pending)) = Len(Pending')
          BY <3>2, <3>3, <4>1, <5>2
        <5> QED
          BY <1>1, <4>1, <5>5, <5>6, SeqEqual DEF LineType
      <4> QED
        BY <4>2, <4>3
    <3>5. h \in Byte /\ <<h>> \in Seq(Byte) /\ Len(<<h>>) = 1
      <4>1. h \in Byte
        BY <1>1, <3>3, HeadTailProperties DEF LineType
      <4> QED
        BY <4>1
    <3>6. ToLine = <<h>> \o ToLine'
      <4>1. Pending = <<h>> \o Pending'
        BY <1>1, <3>3, <3>4, HeadAndTail DEF LineType
      <4>2. (<<h>> \o Pending') \o outData = <<h>> \o (Pending' \o outData)
        <5>1. <<h>> \in Seq(Byte) /\ Pending' \in Seq(Byte) /\ outData \in Seq(Byte)
          BY <1>1, <3>5 DEF LineType
        <5> QED
          BY <5>1, Associative
      <4> QED
        BY <1>1, <2>1, <4>1, <4>2 DEF LineType
    <3>7. /\ Len(ToLine) = 1 + Len(ToLine')
          /\ SubSeq(ToLine, 1, 1) = <<h>>
          /\ SubSeq(ToLine, 1 + 1, Len(ToLine)) = ToLine'
      <4> HIDE DEF h
      <4>1. /\ Len(<<h>> \o ToLine') = Len(<<h>>) + Len(ToLine')
            /\ SubSeq(<<h>> \o ToLine', 1, Len(<<h>>)) = <<h>>
            /\ SubSeq(<<h>> \o ToLine', Len(<<h>>) + 1, Len(<<h>> \o ToLine')) = ToLine'
        BY <1>1, <3>5, FrontAndBack DEF LineType
      <4> QED
        BY <3>5, <3>6, <4>1
    <3>8. 1 \in 1 .. Len(ToLine)
      <4>1. Len(ToLine') \in Nat
        BY <1>1 DEF LineType
      <4> QED
        BY <3>7, <4>1
    <3> QED
      BY <2>1, <3>1, <3>7, <3>8 DEF Down!PNext, Down!PDeliver
  <2> QED
    BY <2>2, <2>3
<1>7. ASSUME NEW b \in scene.up, Serial2Interrupt(b)
      PROVE  [Down!PNext]_(Down!pvars)
  BY <1>2, <1>7 DEF Serial2Interrupt, Pending, world, out, down
<1>8. CASE Shifted \/ HostCollects \/ Configure \/ Suspend \/ Resume \/ Enter
  BY <1>2, <1>8 DEF Shifted, HostCollects, Configure, Suspend, Resume, Enter, Pending,
                    world, out, down
<1>9. CASE ReceiveByte \/ HandOver \/ CDCTxService
  BY <1>2, <1>9 DEF ReceiveByte, HandOver, CDCTxService, Pending, world, out, down
<1>10. CASE UNCHANGED vars
  BY <1>2, <1>10 DEF vars, Pending
<1> QED
  BY <1>3, <1>4, <1>5, <1>6, <1>7, <1>8, <1>9, <1>10 DEF Next, Loop

(* From the host to the line likewise (getsUSBUSART, ProcessIO): the       *)
(* safety part of ImplementsDown.                                          *)
THEOREM BridgeKeepsOrderDown == Spec => Down!PInit /\ [][Down!PNext]_(Down!pvars)
<1>1. Init => Down!PInit
  <2> SUFFICES ASSUME Init
               PROVE  Down!PInit
    OBVIOUS
  <2>1. /\ Pending = <<>> /\ outData = <<>> /\ sent = <<>> /\ resets = 0
    BY DEF Init, Pending
  <2>2. ToLine = <<>>
    BY <2>1, InitIInv, LineParts, ConcatEmptySeq DEF LineType
  <2> QED
    BY <2>1, <2>2 DEF Down!PInit
<1> QED
  BY <1>1, InitIInv, StepIInv, StepToLine, PTL DEF Spec
=============================================================================
