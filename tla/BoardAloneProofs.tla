-------------------------- MODULE BoardAloneProofs --------------------------
(***************************************************************************)
(* Proofs about the board alone, for every size of the flash, every set of *)
(* values and every choice of bytes the PC may send: type correctness,     *)
(* that 0xff take the board out of monitor and packet, and that the reset  *)
(* button leads to the loader.                                             *)
(***************************************************************************)
EXTENDS BoardAlone, BootMonitorProofs

(* The 0xff the PC has sent in a row are the last bytes on the line.       *)
Flooded == \A i \in 1 .. Len(rx) : i > Len(rx) - fills => rx[i] = FillByte

(* Where the board waits in the protocol, it has eaten none of them, or    *)
(* not more than end a packet.                                             *)
FillsEaten ==
    /\ pc \in {"key2", "packet"} => fills <= Len(rx)
    /\ pc = "monit" => fills <= Len(rx) + PacketSize
    /\ pc = "send" /\ back = "monit" => fills <= Len(rx) + PacketSize

IInv == DeviceInv /\ fills \in 0 .. Enough /\ Flooded /\ FillsEaten

-----------------------------------------------------------------------------
(* What taking bytes off the line does to the 0xff behind them.            *)

LEMMA FloodedDropped ==
    ASSUME rx \in Seq(Byte), fills \in Nat, Flooded,
           NEW k \in 0 .. Len(rx), rx' = SubSeq(rx, k + 1, Len(rx)), fills' = fills
    PROVE  rx' \in Seq(Byte) /\ Len(rx') = Len(rx) - k /\ Flooded'
<1> DEFINE n == Len(rx)
<1>1. n \in Nat
  BY LenProperties
<1>2. /\ rx' \in Seq(Byte)
      /\ Len(rx') = n - k
      /\ \A i \in 1 .. (n - k) : rx'[i] = rx[k + i]
  BY Dropped
<1>3. \A i \in 1 .. n : i > n - fills => rx[i] = FillByte
  BY DEF Flooded
<1> HIDE DEF n
<1>4. ASSUME NEW i \in 1 .. (n - k), i > (n - k) - fills
      PROVE  rx'[i] = FillByte
  <2>1. k + i \in 1 .. n /\ k + i > n - fills
    BY <1>1, <1>4 DEF n
  <2> QED
    BY <1>2, <1>3, <2>1
<1> QED
  BY <1>2, <1>4 DEF Flooded, n

LEMMA KeyTaken ==
    ASSUME rx \in Seq(Byte), fills \in Nat, Flooded, fills' = fills,
           NEW from, NEW key, TakeKey(from, key)
    PROVE  /\ rx' \in Seq(Byte) /\ Flooded'
           /\ Len(rx') \in Nat
           /\ Len(rx') = Len(rx) - 1
           /\ key # FillByte => fills <= Len(rx')
<1> DEFINE n == Len(rx)
<1>1. /\ rx # <<>> /\ rx[1] = key /\ rx' = Tail(rx)
      /\ n \in Nat \ {0} /\ rx' \in Seq(Byte) /\ Len(rx') = n - 1
      /\ \A i \in 1 .. (n - 1) : rx'[i] = rx[1 + i]
  BY Beheaded DEF TakeKey
<1>2. \A i \in 1 .. n : i > n - fills => rx[i] = FillByte
  BY DEF Flooded
<1> HIDE DEF n
<1>3. ASSUME NEW i \in 1 .. (n - 1), i > (n - 1) - fills
      PROVE  rx'[i] = FillByte
  <2>1. 1 + i \in 1 .. n /\ 1 + i > n - fills
    BY <1>1, <1>3
  <2> QED
    BY <1>1, <1>2, <2>1
<1>4. key # FillByte => fills <= n - 1
  BY <1>1, <1>2
<1> QED
  BY <1>1, <1>3, <1>4 DEF Flooded, n

-----------------------------------------------------------------------------
(* Each action keeps the invariant.                                        *)

LEMMA InitHolds == Init => IInv
<1> SUFFICES ASSUME Init
             PROVE  IInv
  OBVIOUS
<1>1. flash \in [Cells -> Byte]
  BY DEF Init, Erased, Byte
<1>2. DeviceInv
  BY <1>1, DeviceStarts DEF Init
<1> QED
  BY <1>2, EmptySeq DEF Init, DeviceInit, IInv, Flooded, FillsEaten, Enough, PacketSize

(* A start, of whatever kind, leaves the board in loop() or the program.   *)
LEMMA StartKeepsFills ==
    ASSUME IInv, fills' = fills, LoseRing, pc' \in {"app", "loop"}
    PROVE  Flooded' /\ FillsEaten'
<1>1. rx \in Seq(Byte) /\ fills \in Nat /\ Flooded
  BY DEF IInv, DeviceInv, DeviceTypeOK, Byte, Enough, PacketSize
<1>2. Flooded'
  BY <1>1, FloodedDropped DEF LoseRing
<1> QED
  BY <1>2 DEF FillsEaten

LEMMA StartsKeepAll ==
    ASSUME IInv, NEW closed \in BOOLEAN, fills' = fills,
           HardReset(closed) \/ SoftReset(closed) \/ PowerCycle(closed)
    PROVE  IInv'
<1>1. LoseRing /\ pc' \in {"app", "loop"}
  BY DEF HardReset, SoftReset, PowerCycle, StartUp
<1>2. Flooded' /\ FillsEaten'
  BY <1>1, StartKeepsFills
<1>3. CASE HardReset(closed) \/ SoftReset(closed)
  <2>1. DeviceInv'
    BY <1>3, StartsKeep DEF IInv
  <2> QED
    BY <1>2, <2>1 DEF IInv
<1>4. CASE PowerCycle(closed)
  <2>1. softKey' \in BOOLEAN /\ swr' = FALSE
    BY <1>4 DEF PowerCycle, IInv, DeviceInv, DeviceTypeOK
  <2>2. DeviceInv'
    BY <1>1, <1>4, <2>1, Restarts DEF PowerCycle, IInv
  <2> QED
    BY <1>2, <2>2 DEF IInv
<1> QED
  BY <1>3, <1>4

(* loop() and the marker: a byte that means going on is no 0xff.           *)
LEMMA KeysKeepFills ==
    ASSUME IInv, fills' = fills,
           LoopEnter \/ LoopProbe \/ LoopIgnore \/ LoopKey2 \/ MonitKey
    PROVE  Flooded' /\ FillsEaten'
<1>1. rx \in Seq(Byte) /\ fills \in Nat /\ Flooded
  BY DEF IInv, DeviceInv, DeviceTypeOK, Byte, Enough, PacketSize
<1>2. PICK from, key : TakeKey(from, key)
  BY DEF LoopEnter, LoopProbe, LoopIgnore, LoopKey2, MonitKey
<1>3. Flooded' /\ Len(rx') \in Nat
  BY <1>1, <1>2, KeyTaken
<1>4. ASSUME NEW f, NEW k, k # FillByte, TakeKey(f, k)
      PROVE  fills <= Len(rx')
  BY <1>1, <1>4, KeyTaken
<1>5. CASE LoopEnter
  <2>1. fills <= Len(rx')
    BY <1>4, <1>5 DEF LoopEnter, EnterKey1, FillByte
  <2> QED
    BY <1>3, <1>5, <2>1 DEF LoopEnter, FillsEaten
<1>6. CASE LoopProbe
  BY <1>3, <1>6 DEF LoopProbe, Transmit, FillsEaten
<1>7. CASE LoopIgnore
  BY <1>3, <1>7 DEF LoopIgnore, TakeKey, device, FillsEaten
<1>8. CASE LoopKey2
  <2>1. pc' \in {"monit", "loop"}
    BY <1>8 DEF LoopKey2
  <2>2. pc' = "monit" => fills <= Len(rx')
    BY <1>4, <1>8 DEF LoopKey2, EnterKey2, FillByte
  <2>3. pc' = "monit" => fills <= Len(rx') + PacketSize
    BY <1>1, <1>3, <2>2 DEF PacketSize
  <2> QED
    BY <1>3, <2>1, <2>3 DEF FillsEaten
<1>9. CASE MonitKey
  <2>1. pc' \in {"packet", "loop"}
    BY <1>9 DEF MonitKey
  <2>2. pc' = "packet" => fills <= Len(rx')
    BY <1>4, <1>9 DEF MonitKey, Marker, FillByte
  <2> QED
    BY <1>3, <2>1, <2>2 DEF FillsEaten
<1> QED
  BY <1>5, <1>6, <1>7, <1>8, <1>9

(* A packet may have contained as many as it has bytes.                    *)
LEMMA CommandKeepsFills ==
    ASSUME IInv, fills' = fills,
           CmdEcho \/ CmdPeek \/ CmdPoke \/ CmdPageErase \/ CmdPageWrite \/ CmdNoEffect \/ CmdExec
    PROVE  Flooded' /\ FillsEaten'
<1>1. CommandShape
  BY CommandOff DEF IInv
<1>2. PICK cmd : Receive(cmd)
  BY CommandOff DEF IInv
<1>3. /\ rx \in Seq(Byte) /\ fills \in Nat /\ Flooded
      /\ pc = "packet" /\ fills <= Len(rx)
  BY <1>2 DEF IInv, DeviceInv, DeviceTypeOK, FillsEaten, Receive, PacketReady, Byte, Enough, PacketSize
<1>4. /\ rx' = SubSeq(rx, PacketSize + 1, Len(rx))
      /\ Len(rx) \in Nat /\ Len(rx') = Len(rx) - PacketSize /\ rx' \in Seq(Byte)
  BY <1>2, PacketOff DEF IInv, Receive
<1>5. PacketSize \in 0 .. Len(rx)
  <2>1. Len(rx') \in Nat
    BY <1>4, LenProperties
  <2>2. \A m, n \in Nat : m = n - 5 => 5 \in 0 .. n
    OBVIOUS
  <2> QED
    BY <1>4, <2>1, <2>2 DEF PacketSize
<1>6. Flooded'
  BY <1>3, <1>4, <1>5, FloodedDropped
<1>7. fills' <= Len(rx') + PacketSize
  <2>1. \A n, f, r \in Int : f <= n /\ r = n - PacketSize => f <= r + PacketSize
    BY DEF PacketSize
  <2>2. Len(rx') \in Int
    BY <1>4, LenProperties
  <2> QED
    BY <1>3, <1>4, <2>1, <2>2
<1> QED
  BY <1>1, <1>6, <1>7 DEF CommandShape, FillsEaten

LEMMA SendKeepsFills ==
    ASSUME IInv, fills' = fills, SendByte
    PROVE  Flooded' /\ FillsEaten'
<1>1. rx' = rx /\ pc = "send" /\ back' = back /\ pc' \in {"send", back} /\ back \in {"loop", "monit"}
  BY DEF SendByte, IInv, DeviceInv, DeviceTypeOK
<1> QED
  BY <1>1 DEF IInv, Flooded, FillsEaten

LEMMA ReadKeepsFills ==
    ASSUME IInv, fills' = fills, AppReads
    PROVE  Flooded' /\ FillsEaten'
<1>1. rx \in Seq(Byte) /\ fills \in Nat /\ Flooded
  BY DEF IInv, DeviceInv, DeviceTypeOK, Byte, Enough, PacketSize
<1>2. TakeKey(pc, Head(rx)) /\ pc' = pc /\ pc \in {"app", "stuck"}
  BY DEF AppReads, TakeKey, device
<1>3. Flooded'
  BY <1>1, <1>2, KeyTaken
<1> QED
  BY <1>2, <1>3 DEF FillsEaten

LEMMA BoardKeeps ==
    ASSUME IInv, Board
    PROVE  IInv'
<1>1. fills' = fills /\ DeviceStep
  BY DEF Board
<1>2. CASE \E closed \in SwitchMayBe : SoftReset(closed)
  BY <1>1, <1>2, StartsKeepAll, BoardAssumption
<1>3. CASE ~ \E closed \in SwitchMayBe : SoftReset(closed)
  <2>1. Flooded' /\ FillsEaten'
    BY <1>1, <1>3, KeysKeepFills, CommandKeepsFills, SendKeepsFills, ReadKeepsFills DEF DeviceStep
  <2>2. DeviceInv'
    BY <1>1, DeviceKeeps DEF IInv
  <2> QED
    BY <1>1, <2>1, <2>2 DEF IInv
<1> QED
  BY <1>2, <1>3

(* One more byte from the PC: one more 0xff, or none.                      *)
LEMMA PcKeeps ==
    ASSUME IInv, PcSends
    PROVE  IInv'
<1>1. PICK b \in Expected \cup {FillByte} :
         /\ rx' = Append(rx, b)
         /\ fills' = IF b # FillByte THEN 0 ELSE IF fills < Enough THEN fills + 1 ELSE fills
  BY DEF PcSends
<1>2. /\ tx' = <<>> /\ rx \in Seq(Byte) /\ fills \in 0 .. Enough /\ Flooded
      /\ UNCHANGED <<pc, back, reply, toPc, flash, nvmFaults, swr, softKey>>
  BY DEF PcSends, device, boot, IInv, DeviceInv, DeviceTypeOK, Byte
<1>3. Len(rx) \in Nat
  BY <1>2, LenProperties
<1>4. b \in Byte
  <2>1. CASE pc = "packet"
    <3>1. Len(rx) < PacketSize
      BY <2>1 DEF PcSends, DeviceIdle
    <3>2. Len(rx) + 1 \in 1 .. PacketSize
      BY <1>3, <3>1 DEF PacketSize
    <3>3. FieldBytes[Len(rx) + 1] \subseteq Byte
      BY <3>2, LineAssumption DEF Byte
    <3>4. Expected = FieldBytes[Len(rx) + 1]
      BY <2>1 DEF Expected
    <3>5. FillByte \in Byte
      BY DEF FillByte, Byte
    <3> QED
      BY <3>3, <3>4, <3>5, Zenon
  <2>2. CASE pc # "packet"
    BY <2>2, LineAssumption DEF Expected, FillByte, Byte
  <2> QED
    BY <2>1, <2>2
<1> DEFINE n == Len(rx)
<1>5. /\ rx' \in Seq(Byte) /\ Len(rx') = n + 1 /\ rx'[n + 1] = b
      /\ \A i \in 1 .. n : rx'[i] = rx[i]
  BY <1>1, <1>2, <1>4, AppendProperties
<1>6. \A i \in 1 .. n : i > n - fills => rx[i] = FillByte
  BY <1>2 DEF Flooded
<1>7. n \in Nat
  BY <1>3
<1> HIDE DEF n
<1>8. fills' \in 0 .. Enough
  BY <1>1, <1>2 DEF Enough, PacketSize
<1>9. ASSUME NEW i \in 1 .. (n + 1), i > (n + 1) - fills'
      PROVE  rx'[i] = FillByte
  <2>1. b = FillByte /\ fills' <= fills + 1
    BY <1>1, <1>2, <1>7, <1>9 DEF Enough, PacketSize
  <2>2. CASE i = n + 1
    BY <1>5, <2>1, <2>2
  <2>3. CASE i # n + 1
    <3>1. \A f, g, m \in Nat : \A j \in 1 .. (m + 1) :
             j > (m + 1) - g /\ g <= f + 1 /\ j # m + 1 => j \in 1 .. m /\ j > m - f
      OBVIOUS
    <3>2. fills \in Nat /\ fills' \in Nat
      BY <1>2, <1>8 DEF Enough, PacketSize
    <3>3. i \in 1 .. n /\ i > n - fills
      BY <1>7, <1>9, <2>1, <2>3, <3>1, <3>2
    <3> QED
      BY <1>5, <1>6, <3>3
  <2> QED
    BY <2>2, <2>3
<1>10. Flooded'
  BY <1>5, <1>9 DEF Flooded
<1>11. fills' <= fills + 1 /\ fills' \in Nat /\ fills \in Nat
  BY <1>1, <1>2 DEF Enough, PacketSize
<1>12. FillsEaten'
  <2>1. \A f, g, m : f \in Nat /\ g \in Nat /\ m \in Nat /\ g <= f + 1 =>
           /\ f <= m => g <= m + 1
           /\ f <= m + PacketSize => g <= (m + 1) + PacketSize
    BY DEF PacketSize
  <2>2. /\ fills <= n => fills' <= n + 1
        /\ fills <= n + PacketSize => fills' <= (n + 1) + PacketSize
    BY <1>7, <1>11, <2>1
  <2>3. FillsEaten /\ Len(rx) = n
    BY DEF IInv, n
  <2> QED
    BY <1>2, <1>5, <2>2, <2>3 DEF FillsEaten
<1>13. DeviceTypeOK'
  BY <1>2, <1>5, EmptySeq DEF IInv, DeviceInv, DeviceTypeOK, Byte
<1>14. Sending' /\ KeySpent'
  BY <1>2 DEF IInv, DeviceInv, Sending, KeySpent
<1> QED
  BY <1>8, <1>10, <1>12, <1>13, <1>14 DEF IInv, DeviceInv

-----------------------------------------------------------------------------
LEMMA StepKeeps == IInv /\ [Next]_vars => IInv'
<1> SUFFICES ASSUME IInv, [Next]_vars
             PROVE  IInv'
  OBVIOUS
<1>1. CASE PcSends
  BY <1>1, PcKeeps
<1>2. CASE Board
  BY <1>2, BoardKeeps
<1>3. CASE \E closed \in SwitchMayBe : Button(closed) \/ AppResets(closed) \/ PowerCycle(closed)
  BY <1>3, StartsKeepAll, BoardAssumption DEF Button, AppResets, PowerCycle
<1>4. CASE UNCHANGED vars
  <2>1. UNCHANGED <<pc, back, reply, rx, tx, fills>>
    BY <1>4 DEF vars, device
  <2>2. DeviceInv'
    BY <1>4 DEF vars, device, boot, IInv, DeviceInv, DeviceTypeOK, Sending, KeySpent
  <2> QED
    BY <2>1, <2>2 DEF IInv, Flooded, FillsEaten
<1> QED
  BY <1>1, <1>2, <1>3, <1>4 DEF Next

(* The invariant holds throughout.                                         *)
THEOREM Inductive == Spec => []IInv
<1> QED
  BY InitHolds, StepKeeps, PTL DEF Spec

(* Every byte the board receives, answers, programs or leaves in its       *)
(* packet is a byte, for every flash size and whatever the PC sends.       *)
THEOREM TypeCorrect == Spec => []DeviceTypeOK
<1>1. IInv => DeviceTypeOK
  BY DEF IInv, DeviceInv
<1> QED
  BY <1>1, Inductive, PTL

(* PACKET_SIZE + 1 bytes of 0xff take the board out of the monitor and of  *)
(* any packet (UartExit, util.c), for every flash and every PC.            *)
THEOREM FillsResync == Spec => []ExitResyncs
<1>1. IInv => ExitResyncs
  <2> SUFFICES ASSUME IInv, fills = Enough, DeviceIdle
               PROVE  pc \in {"loop", "app", "stuck"}
    BY DEF ExitResyncs
  <2>1. rx = <<>> => Len(rx) = 0
    BY EmptySeq
  <2>2. Len(rx) \in Nat
    BY LenProperties DEF IInv, DeviceInv, DeviceTypeOK
  <2> QED
    BY <2>1, <2>2 DEF IInv, FillsEaten, DeviceIdle, Enough, PacketSize
<1> QED
  BY <1>1, Inductive, PTL

(* The reset button with BOOT_SW open leads to the loader (main.c,         *)
(* 222-240), for every history of resets, programs started and keys.       *)
THEOREM ButtonLeadsToLoader == Spec => ButtonEntersLoader
<1>1. IInv /\ [Next]_vars => [Button(FALSE) /\ pc # "resetting" => pc' = "loop"]_vars
  BY DEF IInv, DeviceInv, DeviceTypeOK, KeySpent, Button, HardReset, StartUp
<1> QED
  BY <1>1, Inductive, PTL DEF Spec, ButtonEntersLoader
=============================================================================
