-------------------------- MODULE BootMonitorProofs --------------------------
(***************************************************************************)
(* What the board does to its own state, for every size of the flash and   *)
(* whatever is on the line: the lemmas that the proofs about the board     *)
(* alone and about board and PC together share.                            *)
(***************************************************************************)
EXTENDS BootMonitor, TLAPS, SequenceTheorems

Byte == 0 .. 255

(* What is there to transmit while the board transmits.                    *)
Sending == pc = "send" => reply # <<>>

(* The key that reset_device leaves does not outlive the start it is for   *)
(* once there has been a software reset.                                   *)
KeySpent == softKey /\ swr => pc = "resetting"

DeviceInv == DeviceTypeOK /\ Sending /\ KeySpent

(* What every command has in common: it leaves its reply, or the monitor.  *)
CommandShape ==
    /\ toPc' \in [1 .. PacketSize -> Byte]
    /\ flash' \in [Cells -> Byte]
    /\ nvmFaults' \in 0 .. MaxNvmFaults
    /\ swr' = swr
    /\ softKey' \in BOOLEAN /\ (softKey' = softKey \/ pc' = "resetting")
    /\ \/ pc' = "send" /\ back' = "monit" /\ reply' \in Seq(Byte) /\ reply' # <<>>
       \/ pc' \in {"monit", "resetting", "app", "stuck"} /\ back' = back /\ reply' = reply

-----------------------------------------------------------------------------
(* Sequences of bytes.                                                     *)

LEMMA Dropped ==
    ASSUME NEW s \in Seq(Byte), NEW k \in 0 .. Len(s)
    PROVE  /\ SubSeq(s, k + 1, Len(s)) \in Seq(Byte)
           /\ Len(SubSeq(s, k + 1, Len(s))) = Len(s) - k
           /\ \A i \in 1 .. (Len(s) - k) : SubSeq(s, k + 1, Len(s))[i] = s[k + i]
<1>1. Len(s) \in Nat
  BY LenProperties
<1>2. CASE k = Len(s)
  BY <1>1, <1>2, SubSeqEmpty, EmptySeq
<1>3. CASE k < Len(s)
  BY <1>1, <1>3, SubSeqProperties, Z3
<1> QED
  BY <1>1, <1>2, <1>3

LEMMA Beheaded ==
    ASSUME NEW s \in Seq(Byte), s # <<>>
    PROVE  /\ Head(s) \in Byte /\ Head(s) = s[1]
           /\ Len(s) \in Nat \ {0}
           /\ Tail(s) \in Seq(Byte)
           /\ Len(Tail(s)) = Len(s) - 1
           /\ \A i \in 1 .. (Len(s) - 1) : Tail(s)[i] = s[1 + i]
  BY HeadTailProperties, LenProperties, EmptySeq

(* Five bytes are a packet, and what is transmitted.                       *)
LEMMA PacketType ==
    ASSUME NEW a \in Byte, NEW b \in Byte, NEW c \in Byte, NEW d \in Byte, NEW e \in Byte
    PROVE  <<a, b, c, d, e>> \in [1 .. PacketSize -> Byte]
  BY DEF PacketSize

LEMMA NoPacket == Packet(0, 0, 0, 0, 0) \in [1 .. PacketSize -> Byte]
<1>1. 0 \in Byte
  BY DEF Byte
<1> QED
  BY <1>1, PacketType DEF Packet

LEMMA PacketIsSeq ==
    ASSUME NEW p \in [1 .. PacketSize -> Byte]
    PROVE  p \in Seq(Byte) /\ Len(p) = PacketSize /\ p # <<>>
<1>1. p \in Seq(Byte)
  <2>1. p \in [1 .. 5 -> Byte]
    BY DEF PacketSize
  <2> QED
    BY <2>1, SeqDef, Zenon, 5 \in Nat
<1>2. Len(p) = PacketSize
  <2>1. Len(p) \in Nat /\ DOMAIN p = 1 .. Len(p) /\ DOMAIN p = 1 .. PacketSize
    BY LenProperties, <1>1
  <2> QED
    BY <2>1 DEF PacketSize
<1>3. p # <<>>
  <2>1. Len(<<>>) # PacketSize
    BY EmptySeq DEF PacketSize
  <2> QED
    BY <1>2, <2>1, Zenon
<1> QED
  BY <1>1, <1>2, <1>3, Zenon

(* Bytes laid over the beginning of a packet leave a packet.               *)
LEMMA OverSeq ==
    ASSUME NEW p \in Seq(Byte), Len(p) = PacketSize,
           NEW s \in Seq(Byte), Len(s) <= PacketSize
    PROVE  Over(p, s) \in Seq(Byte) /\ Len(Over(p, s)) = PacketSize
<1> DEFINE rest == SubSeq(p, Len(s) + 1, Len(p))
<1>1. Len(s) \in 0 .. Len(p)
  <2>1. Len(s) \in Nat
    BY LenProperties
  <2>2. \A n, m \in Nat : n <= m => n \in 0 .. m
    OBVIOUS
  <2>3. PacketSize \in Nat
    BY DEF PacketSize
  <2> QED
    BY <2>1, <2>2, <2>3, Zenon
<1>2. rest \in Seq(Byte) /\ Len(rest) = PacketSize - Len(s)
  BY <1>1, Dropped
<1>3. s \o rest \in Seq(Byte) /\ Len(s \o rest) = Len(s) + Len(rest)
  BY <1>2, ConcatProperties
<1> QED
  BY <1>1, <1>2, <1>3 DEF Over, PacketSize

LEMMA OverType ==
    ASSUME NEW p \in [1 .. PacketSize -> Byte], NEW s \in Seq(Byte), Len(s) <= PacketSize
    PROVE  Over(p, s) \in [1 .. PacketSize -> Byte]
<1>1. p \in Seq(Byte) /\ Len(p) = PacketSize
  BY PacketIsSeq
<1>2. Over(p, s) \in Seq(Byte) /\ Len(Over(p, s)) = PacketSize
  BY <1>1, OverSeq
<1> QED
  BY <1>2, LenProperties

(* A function from 1 .. n is a sequence of its own length.                 *)
LEMMA BlockIsSeq ==
    ASSUME NEW n \in Nat, NEW bytes \in [1 .. n -> Byte]
    PROVE  bytes \in Seq(Byte) /\ Len(bytes) = n
<1>1. bytes \in Seq(Byte)
  BY SeqDef, Zenon
<1>2. Len(bytes) \in Nat /\ DOMAIN bytes = 1 .. Len(bytes) /\ DOMAIN bytes = 1 .. n
  BY <1>1, LenProperties
<1> QED
  BY <1>1, <1>2

-----------------------------------------------------------------------------
(* What is taken off the line.                                             *)

LEMMA KeyOff ==
    ASSUME DeviceInv, NEW from, NEW key, TakeKey(from, key)
    PROVE  /\ pc = from /\ rx # <<>> /\ key = rx[1] /\ key \in Byte
           /\ rx' \in Seq(Byte) /\ Len(rx) \in Nat \ {0} /\ Len(rx') = Len(rx) - 1
           /\ \A i \in 1 .. Len(rx') : rx'[i] = rx[1 + i]
<1>1. rx \in Seq(Byte) /\ rx # <<>> /\ key = Head(rx) /\ rx' = Tail(rx) /\ pc = from
  BY DEF DeviceInv, DeviceTypeOK, TakeKey, Byte
<1> QED
  BY <1>1, Beheaded

LEMMA PacketOff ==
    ASSUME DeviceInv, NEW cmd, Receive(cmd)
    PROVE  /\ pc = "packet" /\ tx' = tx
           /\ rx' \in Seq(Byte) /\ Len(rx) \in Nat /\ Len(rx') = Len(rx) - PacketSize
           /\ \A i \in 1 .. Len(rx') : rx'[i] = rx[PacketSize + i]
           /\ PacketFromPC \in Seq(Byte) /\ Len(PacketFromPC) = PacketSize
           /\ \A i \in 1 .. PacketSize : PacketFromPC[i] = rx[i] /\ rx[i] \in Byte
           /\ Cmd(PacketFromPC) = cmd
           /\ Echoed \in [1 .. PacketSize -> Byte]
<1>1. /\ rx \in Seq(Byte) /\ tx \in Seq(Byte)
      /\ toPc \in [1 .. PacketSize -> Byte]
      /\ pc = "packet" /\ Len(rx) >= PacketSize /\ tx' = tx
      /\ rx' = SubSeq(rx, PacketSize + 1, Len(rx))
      /\ Cmd(PacketFromPC) = cmd
  BY DEF DeviceInv, DeviceTypeOK, Receive, PacketReady, Byte
<1>2. Len(rx) \in Nat
  BY <1>1, LenProperties
<1>3. PacketSize \in 0 .. Len(rx)
  <2>1. \A n \in Nat : n >= 5 => 5 \in 0 .. n
    OBVIOUS
  <2> QED
    BY <1>1, <1>2, <2>1 DEF PacketSize
<1>4. /\ rx' \in Seq(Byte) /\ Len(rx') = Len(rx) - PacketSize
      /\ \A i \in 1 .. Len(rx') : rx'[i] = rx[PacketSize + i]
  BY <1>1, <1>3, Dropped
<1>5. /\ PacketFromPC \in Seq(Byte) /\ Len(PacketFromPC) = PacketSize
      /\ \A i \in 1 .. PacketSize : PacketFromPC[i] = rx[i] /\ rx[i] \in Byte
  <2>1. /\ \A i \in 1 .. PacketSize : rx[i] \in Byte
        /\ 1 \in 1 .. Len(rx) + 1 /\ PacketSize \in 0 .. Len(rx)
    BY <1>1, <1>2, <1>3, LenProperties DEF PacketSize
  <2> QED
    BY <1>1, <1>2, <1>3, <2>1, SubSeqProperties DEF PacketFromPC, PacketSize
<1>6. Cmd(PacketFromPC) \in Byte
  BY <1>5 DEF Cmd, PacketSize
<1>7. Echoed \in [1 .. PacketSize -> Byte]
  BY <1>1, <1>6 DEF Echoed
<1> QED
  BY <1>1, <1>2, <1>4, <1>5, <1>7

(* What a command finds in its packet and in the flash.                    *)
LEMMA Fields ==
    ASSUME DeviceInv, NEW cmd, Receive(cmd)
    PROVE  /\ Arg(PacketFromPC) \in Byte /\ Adr(PacketFromPC) \in Byte
           /\ Base(PacketFromPC) \in Byte /\ Data(PacketFromPC) \in Byte
           /\ Echoed \in [1 .. PacketSize -> Byte]
           /\ flash \in [Cells -> Byte] /\ nvmFaults \in 0 .. MaxNvmFaults
           /\ softKey \in BOOLEAN
<1>1. /\ \A i \in 1 .. PacketSize : PacketFromPC[i] \in Byte
      /\ Echoed \in [1 .. PacketSize -> Byte]
  BY PacketOff
<1>2. {2, 3, 4, 5} \subseteq 1 .. PacketSize
  BY DEF PacketSize
<1>3. /\ Arg(PacketFromPC) \in Byte /\ Adr(PacketFromPC) \in Byte
      /\ Base(PacketFromPC) \in Byte /\ Data(PacketFromPC) \in Byte
  BY <1>1, <1>2 DEF Arg, Adr, Base, Data
<1> QED
  BY <1>1, <1>3 DEF DeviceInv, DeviceTypeOK, Byte

(* Geometry fits a byte.                                                   *)
LEMMA CellsAreBytes ==
    Pages \in Byte /\ \A c \in Cells : KSeg0 + c \in Byte
<1>1. \A a, b \in Nat \ {0} : a <= a * b
  OBVIOUS
<1>2. Pages * CellsPerPage \in Nat
  BY GeometryAssumption
<1>3. Pages <= Pages * CellsPerPage
  BY <1>1, GeometryAssumption
<1> DEFINE n == Pages * CellsPerPage
<1>4. n \in Nat /\ n < 128 /\ Pages <= n /\ Cells = 0 .. (n - 1)
  BY <1>2, <1>3, GeometryAssumption DEF Cells
<1> HIDE DEF n
<1> QED
  BY <1>4, GeometryAssumption DEF Byte, KSeg0

-----------------------------------------------------------------------------
(* Each command.                                                           *)

LEMMA EchoShape ==
    ASSUME DeviceInv, CmdEcho
    PROVE  CommandShape
<1>1. Receive(TEST)
  BY DEF CmdEcho
<1>2. PICK last \in Cells :
         /\ toPc' = <<TEST, Arg(PacketFromPC), Pages, KSeg0 + last, TotalErrs>>
         /\ Transmit(toPc', "monit")
  BY DEF CmdEcho
<1>3. toPc' \in [1 .. PacketSize -> Byte]
  <2>1. TEST \in Byte /\ TotalErrs \in Byte
    BY DEF TEST, TotalErrs, Byte
  <2>2. Arg(PacketFromPC) \in Byte
    BY <1>1, Fields
  <2> QED
    BY <1>2, <2>1, <2>2, PacketType, CellsAreBytes
<1>4. toPc' \in Seq(Byte) /\ toPc' # <<>>
  BY <1>3, PacketIsSeq
<1>5. pc' = "send" /\ back' = "monit" /\ reply' = toPc'
  BY <1>2 DEF Transmit
<1>6. flash' = flash /\ nvmFaults' = nvmFaults /\ swr' = swr /\ softKey' = softKey
  BY DEF CmdEcho, boot
<1>7. flash \in [Cells -> Byte] /\ nvmFaults \in 0 .. MaxNvmFaults /\ softKey \in BOOLEAN
  BY <1>1, Fields
<1> QED
  BY <1>1, <1>3, <1>4, <1>5, <1>6, <1>7 DEF CommandShape

LEMMA PeekShape ==
    ASSUME DeviceInv, CmdPeek
    PROVE  CommandShape
<1> DEFINE p == PacketFromPC
           bytes(ram) == [k \in 1 .. Arg(p) |-> MemByte(Base(p), Adr(p) + k - 1, ram)]
<1>1. Receive(PEEK) /\ swr' = swr /\ softKey' = softKey
  BY DEF CmdPeek, boot
<1>2. PICK ram \in Value :
         \/ toPc' = Echoed /\ Raises
         \/ /\ IF LargeBlock(Arg(p))
               THEN toPc' = Echoed /\ Transmit(bytes(ram), "monit")
               ELSE toPc' = Over(Echoed, bytes(ram)) /\ Transmit(Over(Echoed, bytes(ram)), "monit")
            /\ UNCHANGED <<flash, nvmFaults>>
  BY DEF CmdPeek
<1>3. /\ Arg(p) \in Byte /\ Adr(p) \in Byte /\ Echoed \in [1 .. PacketSize -> Byte]
      /\ flash \in [Cells -> Byte] /\ nvmFaults \in 0 .. MaxNvmFaults /\ softKey \in BOOLEAN
  BY <1>1, Fields
<1>4. flash' = flash /\ nvmFaults' = nvmFaults
  BY <1>2 DEF Raises
<1>5. Arg(p) \in Nat /\ ram \in Byte
  <2>1. \A n \in Byte : n \in Nat
    BY DEF Byte
  <2>2. Value \subseteq Byte
    BY GeometryAssumption DEF Byte
  <2> QED
    BY <1>3, <2>1, <2>2
<1>6. \A adr : MemByte(Base(p), adr, ram) \in Byte
  BY <1>3, <1>5 DEF MemByte, InFlash
<1>7. bytes(ram) \in [1 .. Arg(p) -> Byte]
  BY <1>6
<1>8. bytes(ram) \in Seq(Byte) /\ Len(bytes(ram)) = Arg(p)
  BY <1>5, <1>7, BlockIsSeq
<1> HIDE DEF p, bytes
<1>9. CASE toPc' = Echoed /\ Raises
  BY <1>1, <1>3, <1>4, <1>9 DEF CommandShape, Raises
<1>10. CASE ~(toPc' = Echoed /\ Raises) /\ LargeBlock(Arg(p))
  <2>1. Len(bytes(ram)) # 0
    BY <1>5, <1>8, <1>10 DEF LargeBlock, PacketSize
  <2>2. bytes(ram) # <<>>
    BY <2>1, EmptySeq
  <2>3. toPc' = Echoed /\ pc' = "send" /\ back' = "monit" /\ reply' = bytes(ram)
    BY <1>2, <1>10 DEF Transmit
  <2> QED
    BY <1>1, <1>3, <1>4, <1>8, <2>2, <2>3 DEF CommandShape
<1>11. CASE ~(toPc' = Echoed /\ Raises) /\ ~LargeBlock(Arg(p))
  <2>1. Len(bytes(ram)) <= PacketSize
    BY <1>5, <1>8, <1>11 DEF LargeBlock, PacketSize
  <2>2. Over(Echoed, bytes(ram)) \in [1 .. PacketSize -> Byte]
    BY <1>3, <1>8, <2>1, OverType
  <2>3. Over(Echoed, bytes(ram)) \in Seq(Byte) /\ Over(Echoed, bytes(ram)) # <<>>
    BY <2>2, PacketIsSeq
  <2>4. /\ toPc' = Over(Echoed, bytes(ram))
        /\ pc' = "send" /\ back' = "monit" /\ reply' = Over(Echoed, bytes(ram))
    BY <1>2, <1>11 DEF Transmit
  <2> QED
    BY <1>1, <1>3, <1>4, <2>2, <2>3, <2>4 DEF CommandShape
<1> QED
  BY <1>2, <1>9, <1>10, <1>11

LEMMA PokeShape ==
    ASSUME DeviceInv, CmdPoke
    PROVE  CommandShape
<1>1. /\ Receive(POKE) /\ toPc' = Echoed /\ swr' = swr /\ softKey' = softKey
      /\ flash' = flash /\ nvmFaults' = nvmFaults
      /\ pc' \in {"monit", "stuck"} /\ back' = back /\ reply' = reply
  BY DEF CmdPoke, NoReply, Raises, boot
<1>2. /\ Echoed \in [1 .. PacketSize -> Byte]
      /\ flash \in [Cells -> Byte] /\ nvmFaults \in 0 .. MaxNvmFaults /\ softKey \in BOOLEAN
  BY <1>1, Fields
<1> QED
  BY <1>1, <1>2 DEF CommandShape

LEMMA ProgrammedType ==
    ASSUME NEW old \in Byte, NEW new \in Byte
    PROVE  Programmed(old, new) \in Byte
  BY DEF Programmed, Garbled, Byte

(* Whether it fails or not, the flash keeps its type.                      *)
LEMMA NVMemType ==
    ASSUME DeviceInv, NEW outcome \in [Cells -> Byte], NVMem(outcome)
    PROVE  flash' \in [Cells -> Byte] /\ nvmFaults' \in 0 .. MaxNvmFaults
<1>1. flash \in [Cells -> Byte] /\ nvmFaults \in 0 .. MaxNvmFaults
  BY DEF DeviceInv, DeviceTypeOK, Byte
<1>2. CASE flash' = outcome /\ nvmFaults' = nvmFaults
  BY <1>1, <1>2
<1>3. CASE nvmFaults < MaxNvmFaults /\ flash' = flash /\ nvmFaults' = nvmFaults + 1
  BY <1>1, <1>3, BoardAssumption
<1> QED
  BY <1>2, <1>3 DEF NVMem

LEMMA EraseShape ==
    ASSUME DeviceInv, CmdPageErase
    PROVE  CommandShape
<1> DEFINE p == PacketFromPC
<1>1. /\ Receive(PAGE_ERASE) /\ toPc' = Echoed /\ swr' = swr /\ softKey' = softKey
      /\ pc' = "send" /\ back' = "monit" /\ reply' = Echoed
      /\ NVMem(ErasePage(PageOf(Adr(p)))) \/ (flash' = flash /\ nvmFaults' = nvmFaults)
  BY DEF CmdPageErase, Transmit, boot
<1>2. /\ Echoed \in [1 .. PacketSize -> Byte]
      /\ flash \in [Cells -> Byte] /\ nvmFaults \in 0 .. MaxNvmFaults /\ softKey \in BOOLEAN
  BY <1>1, Fields
<1>3. ErasePage(PageOf(Adr(p))) \in [Cells -> Byte]
  BY <1>2 DEF ErasePage, Erased, Byte
<1>4. flash' \in [Cells -> Byte] /\ nvmFaults' \in 0 .. MaxNvmFaults
  BY <1>1, <1>2, <1>3, NVMemType
<1>5. Echoed \in Seq(Byte) /\ Echoed # <<>>
  BY <1>2, PacketIsSeq
<1> QED
  BY <1>1, <1>2, <1>4, <1>5 DEF CommandShape

LEMMA WriteShape ==
    ASSUME DeviceInv, CmdPageWrite
    PROVE  CommandShape
<1> DEFINE p == PacketFromPC
           range == {c \in Adr(p) .. (Adr(p) + Arg(p) - 1) : InFlash(Base(p), c)}
           word(c, junk) == IF c = Adr(p) THEN Data(p) ELSE junk
           written(junk) == [c \in Cells |-> IF c \in range THEN Programmed(flash[c], word(c, junk))
                                             ELSE flash[c]]
<1>1. /\ Receive(PAGE_WRITE) /\ toPc' = Echoed /\ swr' = swr /\ softKey' = softKey
      /\ pc' = "monit" /\ back' = back /\ reply' = reply
  BY DEF CmdPageWrite, NoReply, boot
<1>2. PICK junk \in Value : NVMem(written(junk)) \/ (flash' = flash /\ nvmFaults' = nvmFaults)
  BY DEF CmdPageWrite
<1>3. /\ Echoed \in [1 .. PacketSize -> Byte] /\ Data(p) \in Byte
      /\ flash \in [Cells -> Byte] /\ nvmFaults \in 0 .. MaxNvmFaults /\ softKey \in BOOLEAN
  BY <1>1, Fields
<1>4. junk \in Byte
  BY GeometryAssumption DEF Byte
<1>5. written(junk) \in [Cells -> Byte]
  <2>1. ASSUME NEW c \in Cells
        PROVE  Programmed(flash[c], word(c, junk)) \in Byte /\ flash[c] \in Byte
    BY <1>3, <1>4, ProgrammedType
  <2> QED
    BY <2>1
<1>6. flash' \in [Cells -> Byte] /\ nvmFaults' \in 0 .. MaxNvmFaults
  BY <1>2, <1>3, <1>5, NVMemType
<1> QED
  BY <1>1, <1>3, <1>6 DEF CommandShape

LEMMA NoEffectShape ==
    ASSUME DeviceInv, CmdNoEffect
    PROVE  CommandShape
<1>1. PICK cmd : Receive(cmd)
  BY DEF CmdNoEffect
<1>2. /\ toPc' = Echoed /\ swr' = swr /\ softKey' = softKey
      /\ flash' = flash /\ nvmFaults' = nvmFaults
      /\ pc' = "monit" /\ back' = back /\ reply' = reply
  BY DEF CmdNoEffect, NoReply, boot
<1>3. /\ Echoed \in [1 .. PacketSize -> Byte]
      /\ flash \in [Cells -> Byte] /\ nvmFaults \in 0 .. MaxNvmFaults /\ softKey \in BOOLEAN
  BY <1>1, Fields
<1> QED
  BY <1>1, <1>2, <1>3 DEF CommandShape

LEMMA ExecShape ==
    ASSUME DeviceInv, CmdExec
    PROVE  CommandShape
<1>1. /\ Receive(JMP) /\ toPc' = Echoed /\ swr' = swr
      /\ flash' = flash /\ nvmFaults' = nvmFaults /\ back' = back /\ reply' = reply
  BY DEF CmdExec
<1>2. \/ pc' = "resetting" /\ softKey' = TRUE
      \/ pc' \in {"app", "monit", "stuck"} /\ softKey' = softKey
  BY DEF CmdExec
<1>3. /\ Echoed \in [1 .. PacketSize -> Byte]
      /\ flash \in [Cells -> Byte] /\ nvmFaults \in 0 .. MaxNvmFaults /\ softKey \in BOOLEAN
  BY <1>1, Fields
<1> QED
  BY <1>1, <1>2, <1>3 DEF CommandShape

LEMMA CommandOff ==
    ASSUME DeviceInv,
           CmdEcho \/ CmdPeek \/ CmdPoke \/ CmdPageErase \/ CmdPageWrite \/ CmdNoEffect \/ CmdExec
    PROVE  CommandShape /\ \E cmd : Receive(cmd)
<1>1. \E cmd : Receive(cmd)
  BY DEF CmdEcho, CmdPeek, CmdPoke, CmdPageErase, CmdPageWrite, CmdNoEffect, CmdExec
<1> QED
  BY <1>1, EchoShape, PeekShape, PokeShape, EraseShape, WriteShape, NoEffectShape, ExecShape

LEMMA CommandKeeps ==
    ASSUME DeviceInv,
           CmdEcho \/ CmdPeek \/ CmdPoke \/ CmdPageErase \/ CmdPageWrite \/ CmdNoEffect \/ CmdExec
    PROVE  DeviceInv'
<1>1. CommandShape
  BY CommandOff
<1>2. PICK cmd : Receive(cmd)
  BY CommandOff
<1>3. pc = "packet" /\ rx' \in Seq(Byte) /\ tx' = tx
  BY <1>2, PacketOff
<1>4. DeviceTypeOK'
  <2>1. /\ back \in {"loop", "monit"} /\ reply \in Seq(Byte) /\ swr \in BOOLEAN
        /\ tx \in Seq(Byte)
    BY DEF DeviceInv, DeviceTypeOK, Byte
  <2>2. /\ pc' \in {"send", "monit", "resetting", "app", "stuck"}
        /\ back' \in {"loop", "monit"} /\ reply' \in Seq(Byte)
        /\ swr' \in BOOLEAN /\ softKey' \in BOOLEAN
    BY <1>1, <2>1 DEF CommandShape
  <2> QED
    BY <1>1, <1>3, <2>1, <2>2 DEF CommandShape, DeviceTypeOK, Byte
<1>5. Sending'
  BY <1>1 DEF CommandShape, Sending
<1>6. KeySpent'
  BY <1>1, <1>3 DEF CommandShape, DeviceInv, KeySpent
<1> QED
  BY <1>4, <1>5, <1>6 DEF DeviceInv

-----------------------------------------------------------------------------
(* loop(), the marker, the transmitter and whoever else has the line.      *)

LEMMA KeysKeep ==
    ASSUME DeviceInv, LoopEnter \/ LoopProbe \/ LoopIgnore \/ LoopKey2 \/ MonitKey
    PROVE  DeviceInv'
<1>1. PICK from, key : TakeKey(from, key)
  BY DEF LoopEnter, LoopProbe, LoopIgnore, LoopKey2, MonitKey
<1>2. rx' \in Seq(Byte) /\ from = pc
  BY <1>1, KeyOff
<1>3. UNCHANGED <<tx, flash, nvmFaults, toPc, swr, softKey>>
  BY DEF LoopEnter, LoopProbe, LoopIgnore, LoopKey2, MonitKey, device, boot
<1>4. /\ pc' \in {"loop", "key2", "monit", "packet", "send"} /\ back' \in {"loop", "monit"}
      /\ pc \in {"loop", "key2", "monit"}
      /\ reply' \in Seq(Byte) /\ (pc' = "send" => reply' # <<>>)
  <2>1. back \in {"loop", "monit"} /\ reply \in Seq(Byte)
    BY DEF DeviceInv, DeviceTypeOK, Byte
  <2>2. <<ProbeAck>> \in Seq(Byte) /\ <<ProbeAck>> # <<>>
    BY DEF ProbeAck, Byte
  <2>3. CASE LoopEnter
    BY <2>1, <2>3 DEF LoopEnter, TakeKey
  <2>4. CASE LoopProbe
    BY <2>1, <2>2, <2>4 DEF LoopProbe, TakeKey, Transmit
  <2>5. CASE LoopIgnore
    BY <2>1, <2>5 DEF LoopIgnore, TakeKey, device
  <2>6. CASE LoopKey2 \/ MonitKey
    BY <2>1, <2>6 DEF LoopKey2, MonitKey, TakeKey
  <2> QED
    BY <2>3, <2>4, <2>5, <2>6
<1>5. DeviceTypeOK'
  BY <1>2, <1>3, <1>4 DEF DeviceInv, DeviceTypeOK, Byte
<1> QED
  BY <1>3, <1>4, <1>5 DEF DeviceInv, Sending, KeySpent

LEMMA SendKeeps ==
    ASSUME DeviceInv, SendByte
    PROVE  DeviceInv'
<1>1. /\ reply \in Seq(Byte) /\ tx \in Seq(Byte) /\ rx' = rx /\ pc = "send" /\ reply # <<>>
      /\ back \in {"loop", "monit"} /\ back' = back /\ toPc' = toPc
      /\ flash' = flash /\ nvmFaults' = nvmFaults /\ swr' = swr /\ softKey' = softKey
      /\ tx' = Append(tx, Head(reply)) /\ reply' = Tail(reply)
      /\ pc' = IF reply' = <<>> THEN back ELSE "send"
  BY DEF DeviceInv, DeviceTypeOK, Sending, SendByte, boot, Byte
<1>2. Head(reply) \in Byte /\ reply' \in Seq(Byte)
  BY <1>1, Beheaded
<1>3. tx' \in Seq(Byte)
  BY <1>1, <1>2, AppendProperties
<1>4. DeviceTypeOK'
  BY <1>1, <1>2, <1>3 DEF DeviceInv, DeviceTypeOK, Byte
<1> QED
  BY <1>1, <1>4 DEF DeviceInv, Sending, KeySpent

LEMMA ReadKeeps ==
    ASSUME DeviceInv, AppReads
    PROVE  DeviceInv'
<1>1. TakeKey(pc, Head(rx)) /\ UNCHANGED <<pc, back, reply, toPc, flash, nvmFaults, swr, softKey, tx>>
  BY DEF AppReads, TakeKey, device, boot
<1>2. rx' \in Seq(Byte)
  BY <1>1, KeyOff
<1> QED
  BY <1>1, <1>2 DEF DeviceInv, DeviceTypeOK, Sending, KeySpent, Byte

-----------------------------------------------------------------------------
(* However the processor starts, it starts without the packet and with     *)
(* some of the line lost.                                                  *)
LEMMA RingLost ==
    ASSUME DeviceInv, LoseRing
    PROVE  /\ rx' \in Seq(Byte)
           /\ \E k \in 0 .. Len(rx) : /\ Len(rx') = Len(rx) - k
                                      /\ \A i \in 1 .. Len(rx') : rx'[i] = rx[k + i]
<1>1. rx \in Seq(Byte)
  BY DEF DeviceInv, DeviceTypeOK, Byte
<1>2. PICK k \in 0 .. Len(rx) : rx' = SubSeq(rx, k + 1, Len(rx))
  BY DEF LoseRing
<1> QED
  BY <1>1, <1>2, Dropped

LEMMA Restarts ==
    ASSUME DeviceInv, LoseRing,
           pc' \in {"app", "loop"}, back' = "loop", reply' = <<>>,
           toPc' = Packet(0, 0, 0, 0, 0), tx' = tx,
           flash' = flash, nvmFaults' = nvmFaults,
           swr' \in BOOLEAN, softKey' \in BOOLEAN, ~(softKey' /\ swr')
    PROVE  DeviceInv'
<1>1. rx' \in Seq(Byte)
  BY RingLost
<1>2. toPc' \in [1 .. PacketSize -> 0 .. 255]
  BY NoPacket DEF Byte
<1>3. DeviceTypeOK'
  BY <1>1, <1>2, EmptySeq DEF DeviceInv, DeviceTypeOK, Byte
<1> QED
  BY <1>3 DEF DeviceInv, Sending, KeySpent

LEMMA StartUpKeeps ==
    ASSUME DeviceInv, LoseRing, tx' = tx, swr' \in BOOLEAN,
           NEW closed \in BOOLEAN, StartUp(closed)
    PROVE  DeviceInv'
<1>1. softKey \in BOOLEAN
  BY DEF DeviceInv, DeviceTypeOK
<1>2. softKey' \in BOOLEAN /\ ~(softKey' /\ swr') /\ pc' \in {"app", "loop"}
  BY <1>1 DEF StartUp
<1> QED
  BY <1>2, Restarts DEF StartUp

LEMMA StartsKeep ==
    ASSUME DeviceInv, NEW closed \in BOOLEAN, HardReset(closed) \/ SoftReset(closed)
    PROVE  DeviceInv'
<1>1. swr \in BOOLEAN
  BY DEF DeviceInv, DeviceTypeOK
<1>2. CASE HardReset(closed)
  BY <1>1, <1>2, StartUpKeeps DEF HardReset
<1>3. CASE SoftReset(closed)
  BY <1>3, StartUpKeeps DEF SoftReset
<1> QED
  BY <1>2, <1>3

-----------------------------------------------------------------------------
LEMMA DeviceStarts ==
    ASSUME DeviceInit, flash \in [Cells -> Byte], rx = <<>>, tx = <<>>
    PROVE  DeviceInv
<1>1. reply \in Seq(0 .. 255) /\ rx \in Seq(0 .. 255) /\ tx \in Seq(0 .. 255)
  BY EmptySeq DEF DeviceInit
<1>2. toPc \in [1 .. PacketSize -> 0 .. 255]
  BY NoPacket DEF DeviceInit, Byte
<1>3. /\ pc = "loop" /\ back = "loop"
      /\ swr \in BOOLEAN /\ softKey \in BOOLEAN
  BY Zenon DEF DeviceInit
<1>4. nvmFaults \in 0 .. MaxNvmFaults
  BY BoardAssumption DEF DeviceInit
<1>5. DeviceTypeOK
  BY <1>1, <1>2, <1>3, <1>4, Zenon DEF DeviceTypeOK, Byte
<1> QED
  BY <1>5 DEF DeviceInit, DeviceInv, Sending, KeySpent

LEMMA DeviceKeeps ==
    ASSUME DeviceInv, DeviceStep
    PROVE  DeviceInv'
<1>1. CASE LoopEnter \/ LoopProbe \/ LoopIgnore \/ LoopKey2 \/ MonitKey
  BY <1>1, KeysKeep
<1>2. CASE CmdEcho \/ CmdPeek \/ CmdPoke \/ CmdPageErase \/ CmdPageWrite \/ CmdNoEffect \/ CmdExec
  BY <1>2, CommandKeeps
<1>3. CASE \E closed \in SwitchMayBe : SoftReset(closed)
  BY <1>3, StartsKeep, BoardAssumption
<1>4. CASE SendByte \/ AppReads
  BY <1>4, SendKeeps, ReadKeeps
<1> QED
  BY <1>1, <1>2, <1>3, <1>4 DEF DeviceStep
=============================================================================
