--------------------------- MODULE Ps2FrameProofs ---------------------------
(***************************************************************************)
(* Proofs about Ps2Frame, for frames of any number of data bits: the       *)
(* driver's types whatever the keyboard's pace, and, when every edge is    *)
(* handled before the next, that the driver stays in step with the         *)
(* keyboard and hands over each byte as it was sent.                       *)
(***************************************************************************)
EXTENDS Ps2Frame, TLAPS, SequenceTheorems

LEMMA FrameBitsType == FrameBits \in Nat /\ FrameBits >= 4
  BY DataBitsAssumption DEF FrameBits

(* The shift register keeps its type.                                      *)
LEMMA ShiftType ==
    ASSUME NEW d \in Bit, NEW reg \in Byte
    PROVE  [i \in 1 .. DataBits |-> IF i = DataBits THEN d ELSE reg[i + 1]] \in Byte
<1>1. \A i \in 1 .. DataBits : i # DataBits => i + 1 \in 1 .. DataBits
  BY DataBitsAssumption
<1> QED
  BY <1>1 DEF Byte

LEMMA TypeStep == TypeOK /\ [Next]_vars => TypeOK'
<1> SUFFICES ASSUME TypeOK, [Next]_vars
             PROVE  TypeOK'
  OBVIOUS
<1> USE FrameBitsType
<1>1. ASSUME NEW b \in Byte, Begin(b)
      PROVE  TypeOK'
  BY <1>1 DEF TypeOK, Begin, driver
<1>2. CASE Fall
  <2>1. ASSUME NEW p \in 1 .. FrameBits
        PROVE  Level(p) \subseteq Bit
    <3>1. CASE p # 1 /\ p <= DataBits + 1
      <4>1. p - 1 \in 1 .. DataBits
        BY <3>1, DataBitsAssumption
      <4> QED
        BY <4>1, <3>1 DEF Level, Bit, TypeOK, Byte
    <3> QED
      BY <3>1 DEF Level, Bit
  <2>2. pos + 1 \in 1 .. FrameBits
    BY <1>2 DEF TypeOK, Fall
  <2>3. data' \in Bit
    BY <1>2, <2>1, <2>2 DEF Fall
  <2> QED
    BY <1>2, <2>2, <2>3 DEF TypeOK, Fall, driver, Bit
<1>3. CASE Rise
  BY <1>3 DEF TypeOK, Rise, driver, Bit
<1>4. CASE Sample
  BY <1>4 DEF TypeOK, Sample, line
<1>5. CASE FallingEdge
  BY <1>5 DEF TypeOK, FallingEdge, line
<1>6. CASE DataBit
  <2>1. kbd_data' \in Byte
    BY <1>6, ShiftType DEF DataBit, TypeOK
  <2> QED
    BY <1>6, <2>1 DEF TypeOK, DataBit, line
<1>7. CASE RisingEdge
  <2>1. bitcount' \in 1 .. FrameBits
    BY <1>7 DEF TypeOK, RisingEdge
  <2>2. <<kbd_data>> \in Seq(Byte)
    BY DEF TypeOK
  <2>3. out' \in Seq(Byte)
    BY <1>7, <2>2 DEF TypeOK, RisingEdge
  <2> QED
    BY <1>7, <2>1, <2>3 DEF TypeOK, RisingEdge, line
<1>8. CASE UNCHANGED vars
  BY <1>8 DEF TypeOK, vars
<1> QED
  BY <1>1, <1>2, <1>3, <1>4, <1>5, <1>6, <1>7, <1>8 DEF Next, Keyboard, Driver

LEMMA InitTypeOK == Init => TypeOK
<1> SUFFICES ASSUME Init PROVE TypeOK
  OBVIOUS
<1>1. kbd_data \in Byte
  BY DEF Init, Byte, Bit
<1> QED
  BY <1>1, FrameBitsType DEF Init, TypeOK, Bit

(* The bit counter never leaves 1 .. FrameBits, however the edges come:    *)
(* put_que is always reached again (kbd_handler).                          *)
THEOREM FrameTypeCorrect == Spec => []TypeOK
  BY InitTypeOK, TypeStep, PTL DEF Spec
-----------------------------------------------------------------------------
(* The inductive invariant: types, and the driver in step.                 *)
IInv == TypeOK /\ InStep

(* The step of the register: what was shifted in moves one place down.     *)
LEMMA ShiftIn ==
    ASSUME TypeOK, InStep, DataBit
    PROVE  InStep'
<1> USE FrameBitsType, DataBitsAssumption
<1>1. /\ clock = 0 /\ clk_last = 0 /\ pc = "data" /\ pos > 0
      /\ 2 < bitcount /\ bitcount < FrameBits
      /\ Counted = pos - 1
  BY DEF DataBit, InStep, InFlight, CaughtUp, TypeOK, Bit
<1>2. /\ pos \in 2 .. (DataBits + 1) /\ data = frame[pos - 1]
  BY <1>1 DEF Counted, FrameBits, InStep, TypeOK
<1>3. /\ UNCHANGED <<clock, data, frame, pos, clk_last, bitcount>>
      /\ pc' = "clock"
      /\ \A i \in 1 .. DataBits :
           kbd_data'[i] = IF i = DataBits THEN data ELSE kbd_data[i + 1]
  BY DEF DataBit, line
<1>4. CaughtUp' /\ ~CaughtUp /\ InFlight /\ InFlight'
  BY <1>1, <1>3 DEF CaughtUp, InFlight
<1>5. Heard = pos - 1 /\ Heard' = pos
  BY <1>1, <1>3, <1>4 DEF Heard
<1>6. Shifted = pos - 2 /\ Shifted' = pos - 1
  BY <1>2, <1>5 DEF Shifted
<1>7. ASSUME NEW i \in 1 .. (pos - 1)
      PROVE  kbd_data'[(DataBits - (pos - 1)) + i] = frame[i]
  <2>1. CASE i = pos - 1
    <3>1. (DataBits - (pos - 1)) + i = DataBits
      BY <1>2, <2>1
    <3> QED
      BY <3>1, <2>1, <1>2, <1>3
  <2>2. CASE i # pos - 1
    <3>1. i \in 1 .. Shifted
      BY <1>2, <1>6, <2>2
    <3>2. kbd_data[(DataBits - (pos - 2)) + i] = frame[i]
      BY <3>1, <1>4, <1>6 DEF InStep
    <3>3. /\ (DataBits - (pos - 1)) + i \in 1 .. DataBits
          /\ (DataBits - (pos - 1)) + i # DataBits
          /\ ((DataBits - (pos - 1)) + i) + 1 = (DataBits - (pos - 2)) + i
      BY <1>2, <2>2
    <3> QED
      BY <3>2, <3>3, <1>3
  <2> QED
    BY <2>1, <2>2
<1>8. Counted' = pos - 1
  BY <1>1, <1>3 DEF Counted
<1> QED
  BY <1>1, <1>2, <1>3, <1>4, <1>6, <1>7, <1>8 DEF InStep

(* Where nothing is shifted in and the frame is the same, the register     *)
(* still holds what it held.                                               *)
LEMMA RegisterKept ==
    ASSUME InStep, InFlight, Shifted' = Shifted, UNCHANGED <<frame, kbd_data>>
    PROVE  \A i \in 1 .. Shifted' : kbd_data'[(DataBits - Shifted') + i] = frame'[i]
  BY DEF InStep

LEMMA InStepStep ==
    ASSUME Pace = "handled", IInv, [Next]_vars
    PROVE  InStep'
<1> USE FrameBitsType, DataBitsAssumption
<1> TypeOK /\ InStep
  BY DEF IInv
<1>1. ASSUME NEW b \in Byte, Begin(b)
      PROVE  InStep'
  <2>1. /\ pos = FrameBits /\ pos' = 0 /\ clock = 1 /\ CaughtUp /\ ~InFlight
        /\ UNCHANGED <<clock, data, clk_last, pc, bitcount, kbd_data>>
    BY <1>1 DEF Begin, MayMove, driver, InFlight
  <2>2. CaughtUp' /\ Counted' = Counted /\ Counted = 0
    BY <2>1 DEF CaughtUp, Counted, InStep
  <2>3. Shifted' = 0
    BY <2>1, <2>2 DEF Shifted, Heard
  <2> QED
    BY <2>1, <2>2, <2>3 DEF InStep, CaughtUp
<1>2. CASE Fall
  <2>1. /\ pos < FrameBits /\ pos' = pos + 1 /\ clock = 1 /\ clock' = 0
        /\ CaughtUp /\ InFlight
        /\ data' \in Level(pos + 1)
        /\ UNCHANGED <<frame, clk_last, pc, bitcount, kbd_data>>
    BY <1>2 DEF Fall, MayMove, driver, InFlight
  <2>2. /\ ~CaughtUp' /\ InFlight' /\ pc = "clock"
        /\ Counted' = Counted /\ Counted = pos
    BY <2>1 DEF CaughtUp, InFlight, Counted, InStep
  <2>3. pos \in Nat
    BY DEF TypeOK
  <2>4. Heard = pos /\ Heard' = pos
    BY <2>1, <2>2, <2>3 DEF Heard
  <2>5. Shifted' = Shifted
    BY <2>4 DEF Shifted
  <2>6. 1 < pos' /\ pos' <= DataBits + 1 => data' = frame'[pos' - 1]
    BY <2>1, <2>3 DEF Level
  <2> QED
    BY <2>1, <2>2, <2>3, <2>5, <2>6, RegisterKept DEF InStep
<1>3. CASE Rise
  <2>1. /\ clock = 0 /\ clock' = 1 /\ CaughtUp /\ InFlight
        /\ UNCHANGED <<frame, data, pos, clk_last, pc, bitcount, kbd_data>>
    BY <1>3 DEF Rise, MayMove, driver, InFlight
  <2>2. /\ ~CaughtUp' /\ InFlight' /\ pc = "clock" /\ pos > 0 /\ pos \in Nat
        /\ Counted' = Counted /\ Counted = pos - 1
    BY <2>1 DEF CaughtUp, InFlight, Counted, InStep, TypeOK
  <2>3. Heard = pos /\ Heard' = pos
    BY <2>1, <2>2 DEF Heard
  <2>4. Shifted' = Shifted
    BY <2>3 DEF Shifted
  <2> QED
    BY <2>1, <2>2, <2>4, RegisterKept DEF InStep
<1>4. CASE Sample
  <2>1. /\ clock # clk_last /\ clk_last' = clock /\ pc = "clock" /\ pc' = "edge"
        /\ UNCHANGED <<clock, frame, data, pos, bitcount, kbd_data>>
    BY <1>4 DEF Sample, line
  <2>2. ~CaughtUp /\ ~CaughtUp' /\ InFlight /\ InFlight' /\ Counted' = Counted
    BY <2>1 DEF CaughtUp, InFlight, Counted
  <2>3. Shifted' = Shifted
    BY <2>1, <2>2 DEF Shifted, Heard
  <2> QED
    BY <2>1, <2>2, <2>3, RegisterKept DEF InStep
<1>5. CASE FallingEdge
  <2>1. /\ pc = "edge" /\ clock = 0 /\ clk_last = 0
        /\ pc' = IF 2 < bitcount /\ bitcount < FrameBits THEN "data" ELSE "clock"
        /\ UNCHANGED <<clock, frame, data, pos, clk_last, bitcount, kbd_data>>
    BY <1>5 DEF FallingEdge, line, InStep
  <2>2. /\ ~CaughtUp /\ InFlight /\ InFlight' /\ Counted' = Counted
        /\ Counted = pos - 1 /\ pos > 0 /\ pos \in Nat
    BY <2>1 DEF CaughtUp, InFlight, Counted, InStep, TypeOK
  <2>3. CASE 2 < bitcount /\ bitcount < FrameBits
    <3>1. ~CaughtUp'
      BY <2>1, <2>3 DEF CaughtUp
    <3>2. Shifted' = Shifted
      BY <2>1, <2>2, <3>1 DEF Shifted, Heard
    <3> QED
      BY <2>1, <2>2, <2>3, <3>1, <3>2, RegisterKept DEF InStep
  <2>4. CASE ~(2 < bitcount /\ bitcount < FrameBits)
    <3>1. CaughtUp' /\ pc' = "clock"
      BY <2>1, <2>4 DEF CaughtUp
    <3>2. Heard = pos - 1 /\ Heard' = pos
      BY <2>1, <2>2, <3>1 DEF Heard
    <3>3. pos = 1 \/ pos > DataBits + 1
      BY <2>2, <2>4 DEF Counted, FrameBits, TypeOK
    <3>4. Shifted' = Shifted
      BY <2>2, <3>2, <3>3 DEF Shifted
    <3> QED
      BY <2>1, <2>2, <3>1, <3>4, RegisterKept DEF InStep
  <2> QED
    BY <2>3, <2>4
<1>6. CASE DataBit
  BY <1>6, ShiftIn
<1>7. CASE RisingEdge
  <2>1. /\ pc = "edge" /\ clock = 1 /\ clk_last = 1 /\ pc' = "clock"
        /\ bitcount' = IF bitcount - 1 = 0 THEN FrameBits ELSE bitcount - 1
        /\ UNCHANGED <<clock, frame, data, pos, clk_last, kbd_data>>
    BY <1>7 DEF RisingEdge, line, InStep
  <2>2. ~CaughtUp /\ CaughtUp' /\ InFlight
    BY <2>1 DEF CaughtUp, InFlight
  <2>3. pos > 0 /\ pos \in 0 .. FrameBits /\ bitcount \in 1 .. FrameBits /\ Counted = pos - 1
    BY <2>1, <2>2 DEF InStep, TypeOK
  <2>4. InFlight' = (pos # FrameBits)
    BY <2>1, <2>2, <2>3 DEF InFlight
  <2>5. Counted' = IF pos = FrameBits THEN 0 ELSE pos
    BY <2>1, <2>3 DEF Counted
  <2>6. Shifted' = Shifted
    BY <2>1, <2>2 DEF Shifted, Heard
  <2> QED
    BY <2>1, <2>2, <2>3, <2>4, <2>5, <2>6, RegisterKept DEF InStep
<1>8. CASE UNCHANGED vars
  BY <1>8 DEF vars, InStep, InFlight, CaughtUp, Counted, Shifted, Heard
<1> QED
  BY <1>1, <1>2, <1>3, <1>4, <1>5, <1>6, <1>7, <1>8 DEF Next, Keyboard, Driver

LEMMA InitInStep == Init => IInv
<1> SUFFICES ASSUME Init PROVE InStep
  BY InitTypeOK DEF IInv
<1> QED
  BY FrameBitsType DEF Init, InStep, InFlight, CaughtUp, Counted

(* Edges handled one by one keep the driver in step with the keyboard.     *)
THEOREM DriverInStep ==
    ASSUME Pace = "handled"
    PROVE  Spec => []InStep
<1>1. IInv /\ [Next]_vars => IInv'
  BY TypeStep, InStepStep DEF IInv
<1>2. IInv => InStep
  BY DEF IInv
<1> QED
  BY <1>1, <1>2, InitInStep, PTL DEF Spec
-----------------------------------------------------------------------------
(* The refinement: Begin puts a byte on the line, the rising edge of the   *)
(* stop bit takes it, and every other step changes neither.                *)
LEMMA LastEdgeTakes ==
    ASSUME IInv, RisingEdge, pos = FrameBits
    PROVE  kbd_data = frame /\ out' = <<frame>> /\ InFlight /\ ~InFlight'
<1> USE FrameBitsType, DataBitsAssumption
<1>1. /\ pc = "edge" /\ clock = 1 /\ clk_last = 1 /\ pc' = "clock"
      /\ UNCHANGED <<clock, pos, clk_last>>
  BY DEF RisingEdge, line, IInv, InStep
<1>2. ~CaughtUp /\ CaughtUp' /\ InFlight /\ ~InFlight'
  BY <1>1 DEF CaughtUp, InFlight
<1>3. Counted = FrameBits - 1 /\ bitcount = 1
  BY <1>1, <1>2 DEF IInv, InStep, Counted, TypeOK
<1>4. Shifted = DataBits
  BY <1>1 DEF Shifted, Heard, FrameBits
<1>5. \A i \in 1 .. DataBits : kbd_data[(DataBits - DataBits) + i] = frame[i]
  BY <1>2, <1>4 DEF IInv, InStep
<1>6. \A i \in 1 .. DataBits : kbd_data[i] = frame[i]
  BY <1>5
<1>7. kbd_data = frame
  BY <1>6 DEF IInv, TypeOK, Byte
<1> QED
  BY <1>2, <1>3, <1>7 DEF RisingEdge

(* Taking the only element of a sequence leaves the empty one.             *)
LEMMA OnlyElement ==
    ASSUME NEW b \in Byte
    PROVE  SubSeq(<<b>>, 1, 1) = <<b>> /\ SubSeq(<<b>>, 1 + 1, Len(<<b>>)) = <<>>
<1>1. <<b>> \in Seq(Byte) /\ Len(<<b>>) = 1 /\ <<b>>[1] = b
  OBVIOUS
<1>2. /\ SubSeq(<<b>>, 1, 1) \in Seq(Byte)
      /\ Len(SubSeq(<<b>>, 1, 1)) = 1
      /\ SubSeq(<<b>>, 1, 1)[1] = b
  <2>1. \A i \in 1 .. 1 : <<b>>[i] \in Byte
    BY <1>1
  <2> QED
    BY <1>1, <2>1, SubSeqProperties
<1>3. \A i \in 1 .. 1 : SubSeq(<<b>>, 1, 1)[i] = <<b>>[i]
  BY <1>1, <1>2
<1>4. SubSeq(<<b>>, 1, 1) = <<b>>
  BY <1>1, <1>2, <1>3, SeqEqual
<1>5. SubSeq(<<b>>, 2, 1) = <<>>
  BY SubSeqEmpty
<1> QED
  BY <1>1, <1>4, <1>5

LEMMA WireStep ==
    ASSUME Pace = "handled", IInv, [Next]_vars
    PROVE  [Wire!QNext]_(Wire!qvars)
<1> USE FrameBitsType
<1> DEFINE line1 == IF InFlight THEN <<frame>> ELSE <<>>
<1> TypeOK /\ InStep
  BY DEF IInv
<1>1. ASSUME NEW b \in Byte, Begin(b)
      PROVE  Wire!QNext
  <2>1. ~InFlight /\ InFlight' /\ frame' = b /\ out' = out
    BY <1>1 DEF Begin, MayMove, driver, InFlight
  <2>2. line1 = <<>> /\ line1' = Append(<<>>, b)
    BY <2>1
  <2>3. Wire!Put(b)
    BY <2>1, <2>2 DEF Wire!Put
  <2> QED
    BY <2>3 DEF Wire!QNext
<1>2. CASE RisingEdge /\ pos = FrameBits
  <2>1. InFlight /\ ~InFlight' /\ out' = <<frame>>
    BY <1>2, LastEdgeTakes
  <2>2. line1 = <<frame>> /\ line1' = <<>> /\ Len(line1) = 1
    BY <2>1
  <2>3. SubSeq(line1, 1, 1) = <<frame>> /\ SubSeq(line1, 1 + 1, Len(line1)) = <<>>
    BY <2>2, OnlyElement DEF TypeOK
  <2>4. Wire!Take(1)
    BY <2>1, <2>2, <2>3 DEF Wire!Take
  <2>5. 1 \in 1 .. Len(line1)
    BY <2>2
  <2> QED
    BY <2>4, <2>5 DEF Wire!QNext
<1>3. ASSUME UNCHANGED <<frame, out>>, InFlight' = InFlight
      PROVE  UNCHANGED Wire!qvars
  BY <1>3 DEF Wire!qvars
<1>4. CASE RisingEdge /\ pos # FrameBits
  <2>1. /\ pc = "edge" /\ clock = 1 /\ clk_last = 1 /\ pos < FrameBits
        /\ UNCHANGED <<frame, pos>>
    BY <1>4 DEF RisingEdge, line, InStep, TypeOK
  <2>2. InFlight /\ InFlight'
    BY <2>1 DEF InFlight
  <2>3. Counted = pos - 1
    BY <2>1, <2>2 DEF InStep, CaughtUp
  <2>4. bitcount - 1 # 0
    BY <2>1, <2>3 DEF Counted, TypeOK
  <2>5. out' = out
    BY <2>4, <1>4 DEF RisingEdge
  <2> QED
    BY <1>3, <2>1, <2>2, <2>5
<1>5. CASE Fall
  BY <1>3, <1>5 DEF Fall, driver, InFlight, TypeOK
<1>6. CASE Rise
  <2>1. InFlight /\ InFlight'
    BY <1>6 DEF Rise, driver, InFlight, MayMove, CaughtUp
  <2> QED
    BY <1>3, <1>6, <2>1 DEF Rise, driver
<1>7. CASE Sample
  <2>1. InFlight /\ InFlight'
    BY <1>7 DEF Sample, InFlight, CaughtUp
  <2> QED
    BY <1>3, <1>7, <2>1 DEF Sample, line
<1>8. CASE FallingEdge \/ DataBit
  <2>1. clock = 0 /\ clock' = 0
    BY <1>8 DEF FallingEdge, DataBit, line, InStep
  <2>2. InFlight /\ InFlight'
    BY <2>1 DEF InFlight
  <2> QED
    BY <1>3, <1>8, <2>2 DEF FallingEdge, DataBit, line
<1>9. CASE UNCHANGED vars
  BY <1>3, <1>9 DEF vars, InFlight, CaughtUp
<1> QED
  BY <1>1, <1>2, <1>4, <1>5, <1>6, <1>7, <1>8, <1>9 DEF Next, Keyboard, Driver

(* Every byte sent is handed to put_que once, unchanged and in order.      *)
THEOREM LineImplementsWire ==
    ASSUME Pace = "handled"
    PROVE  Spec => ImplementsWire
<1>1. Init => Wire!QInit
  BY FrameBitsType DEF Init, Wire!QInit, InFlight, CaughtUp
<1>2. IInv /\ [Next]_vars => IInv'
  BY TypeStep, InStepStep DEF IInv
<1>3. IInv /\ [Next]_vars => [Wire!QNext]_(Wire!qvars)
  BY WireStep
<1> QED
  BY <1>1, <1>2, <1>3, InitInStep, PTL DEF Spec, ImplementsWire, Wire!QSpec
=============================================================================
