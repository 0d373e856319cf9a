--------------------------- MODULE UartBootProofs ---------------------------
(***************************************************************************)
(* Proofs about the flash writer and the board together, for flashes and   *)
(* images of any size, any number of sessions, kills and resets.           *)
(***************************************************************************)
EXTENDS UartBoot, BootMonitorProofs

(* What the host's own steps need to know of the places it is in.          *)
HostInv ==
    /\ HostTypeOK
    /\ hpc = "erasing" => at < Pages
    /\ hpc = "peeking" => at \in Cells

TypeInv ==
    /\ DeviceInv
    /\ HostInv
    /\ scene \in Scenes
    /\ faults \in Faults
    /\ Chosen(mode, image, force, run)

-----------------------------------------------------------------------------
(* Pages, words and steps.                                                 *)

LEMMA Multiple ==
    ASSUME NEW m \in Nat, NEW d \in Nat \ {0}
    PROVE  (m * d) \div d = m /\ (m * d) % d = 0
<1> DEFINE q == (m * d) \div d
           r == (m * d) % d
<1>1. m * d \in Nat /\ d \in Nat /\ d > 0
  OBVIOUS
<1>2. q \in Nat /\ r \in Nat /\ r < d /\ m * d = q * d + r
  BY <1>1
<1> HIDE DEF q, r
<1>3. ASSUME q > m PROVE FALSE
  <2>1. q * d >= (m + 1) * d
    BY <1>1, <1>2, <1>3
  <2>2. (m + 1) * d = m * d + d
    BY <1>1
  <2> QED
    BY <2>1, <2>2, <1>1, <1>2
<1>4. ASSUME q < m PROVE FALSE
  <2>1. m * d >= (q + 1) * d
    BY <1>1, <1>2, <1>4
  <2>2. (q + 1) * d = q * d + d
    BY <1>1, <1>2
  <2> QED
    BY <2>1, <2>2, <1>1, <1>2
<1>5. q = m
  BY <1>2, <1>3, <1>4
<1> QED
  BY <1>1, <1>2, <1>5 DEF q, r

LEMMA Numbers ==
    /\ Pages \in Nat /\ CellsPerPage \in Nat /\ Pages > 0 /\ CellsPerPage > 0
    /\ Pages * CellsPerPage \in Nat /\ Pages * CellsPerPage < 128
    /\ Pages <= Pages * CellsPerPage
    /\ Cells \subseteq Nat /\ 0 \in Cells
    /\ \A c \in Nat : c < Pages * CellsPerPage <=> c \in Cells
    /\ StepCells \in Nat /\ StepCells > 0
    /\ (Pages * CellsPerPage) % StepCells = 0
    /\ Value \subseteq Byte /\ Erased \in Value /\ Garbled \in Value
<1>1. \A a, b \in Nat \ {0} : a <= a * b /\ a * b \in Nat /\ a * b > 0
  OBVIOUS
<1>2. /\ Pages \in Nat \ {0} /\ CellsPerPage \in Nat \ {0} /\ StepCells \in Nat \ {0}
      /\ Pages * CellsPerPage < 128
      /\ Value \subseteq Byte /\ Erased \in Value /\ Garbled \in Value
      /\ CellsPerPage % StepCells = 0
  BY GeometryAssumption, HostAssumption DEF Byte
<1>3. (Pages * CellsPerPage) % StepCells = 0
  <2> DEFINE d == CellsPerPage \div StepCells
  <2>1. d \in Nat /\ CellsPerPage = d * StepCells
    BY <1>2
  <2> HIDE DEF d
  <2>2. Pages * CellsPerPage = (Pages * d) * StepCells /\ Pages * d \in Nat
    BY <1>2, <2>1
  <2> QED
    BY <1>2, <2>2, Multiple
<1> DEFINE n == Pages * CellsPerPage
<1>4. Cells = 0 .. (n - 1) /\ n \in Nat /\ n > 0 /\ Pages <= n /\ n < 128 /\ n % StepCells = 0
  BY <1>1, <1>2, <1>3 DEF Cells
<1> HIDE DEF n
<1>5. Cells \subseteq Nat /\ 0 \in Cells /\ \A c \in Nat : c < n <=> c \in Cells
  BY <1>4
<1> QED
  BY <1>2, <1>4, <1>5 DEF n

(* Where a page begins.                                                    *)
LEMMA PageStart ==
    ASSUME NEW p \in Nat, p <= Pages
    PROVE  /\ p * CellsPerPage \in 0 .. (Pages * CellsPerPage)
           /\ p < Pages => p * CellsPerPage \in Cells
           /\ PageOf(p * CellsPerPage) = p
<1>1. p * CellsPerPage \in Nat /\ p * CellsPerPage <= Pages * CellsPerPage
  BY Numbers
<1>2. ASSUME p < Pages PROVE p * CellsPerPage < Pages * CellsPerPage
  <2>1. (p + 1) * CellsPerPage <= Pages * CellsPerPage
    BY Numbers, <1>2
  <2>2. (p + 1) * CellsPerPage = p * CellsPerPage + CellsPerPage
    BY Numbers
  <2> QED
    BY <1>1, <2>1, <2>2, Numbers
<1>3. p * CellsPerPage \in 0 .. (Pages * CellsPerPage)
  BY <1>1, Numbers
<1>4. p < Pages => p * CellsPerPage \in Cells
  BY <1>1, <1>2, Numbers
<1>5. PageOf(p * CellsPerPage) = p
  BY Numbers, Multiple DEF PageOf
<1> QED
  BY <1>3, <1>4, <1>5

LEMMA PageOfCell == \A c \in Cells : PageOf(c) \in 0 .. (Pages - 1)
<1> SUFFICES ASSUME NEW c \in Cells PROVE PageOf(c) \in 0 .. (Pages - 1)
  OBVIOUS
<1> DEFINE q == c \div CellsPerPage
           r == c % CellsPerPage
<1>1. c \in Nat /\ c < Pages * CellsPerPage
  BY Numbers
<1>2. q \in Nat /\ r \in Nat /\ c = q * CellsPerPage + r
  BY <1>1, Numbers
<1> HIDE DEF q, r
<1>3. q < Pages
  <2>1. SUFFICES ASSUME q >= Pages PROVE FALSE
    BY <1>2, Numbers
  <2>2. q * CellsPerPage >= Pages * CellsPerPage
    BY <2>1, <1>2, Numbers
  <2> QED
    BY <2>2, <1>1, <1>2, Numbers
<1> QED
  BY <1>2, <1>3, Numbers DEF PageOf, q

(* Reading step by step does not go beyond the flash.                      *)
LEMMA StepInFlash ==
    ASSUME NEW a \in 0 .. (Pages * CellsPerPage), NEW u \in 0 .. (Pages * CellsPerPage),
           ~(a - (a % StepCells) >= u)
    PROVE  a \in Cells
<1>1. a % StepCells \in Nat /\ a \in Nat
  BY Numbers
<1>2. a # Pages * CellsPerPage
  BY <1>1, Numbers
<1> QED
  BY <1>1, <1>2, Numbers

-----------------------------------------------------------------------------
(* Packets and frames.                                                     *)

Packets   == [1 .. PacketSize -> Byte]
FrameSize == PacketSize + 1

LEMMA FrameBytes ==
    ASSUME NEW p \in Packets
    PROVE  /\ p \in Seq(Byte) /\ Len(p) = PacketSize
           /\ Frame(p) \in Seq(Byte) /\ Len(Frame(p)) = FrameSize
           /\ Frame(p)[1] = Marker
           /\ \A i \in 1 .. PacketSize : Frame(p)[i + 1] = p[i]
<1>1. p \in Seq(Byte) /\ Len(p) = PacketSize
  BY PacketIsSeq DEF Packets
<1>2. <<Marker>> \in Seq(Byte) /\ Len(<<Marker>>) = 1 /\ <<Marker>>[1] = Marker
  BY DEF Marker, Byte
<1>3. /\ Frame(p) \in Seq(Byte) /\ Len(Frame(p)) = 1 + PacketSize
      /\ \A i \in 1 .. 1 + PacketSize :
            Frame(p)[i] = IF i <= 1 THEN <<Marker>>[i] ELSE p[i - 1]
  BY <1>1, <1>2, ConcatProperties DEF Frame
<1> QED
  BY <1>1, <1>2, <1>3 DEF FrameSize, PacketSize

LEMMA BytesArePacket ==
    \A a, b, c, d, e \in Byte : <<a, b, c, d, e>> \in Packets
  BY PacketType DEF Packets

(* What the host sends are packets.                                        *)
LEMMA FixedPackets ==
    /\ TestPacket \in Packets /\ JumpPacket \in Packets
    /\ TestPacket = <<TEST, 0, 0, 0, 0>> /\ JumpPacket = <<JMP, 1, 0, 0, 0>>
<1>1. 0 \in Byte /\ 1 \in Byte /\ TEST \in Byte /\ JMP \in Byte
  BY DEF Byte, TEST, JMP
<1> QED
  BY <1>1, BytesArePacket DEF TestPacket, JumpPacket, Packet

LEMMA PagePackets ==
    ASSUME NEW p \in Nat, p < Pages
    PROVE  /\ ErasePacket(p) \in Packets
           /\ ErasePacket(p) = <<PAGE_ERASE, 1, p * CellsPerPage, FlashBase, 0>>
<1>1. p * CellsPerPage \in Cells /\ Cells \subseteq Byte
  <2>1. \A c \in Cells : c \in 0 .. (Pages * CellsPerPage - 1)
    BY DEF Cells
  <2> QED
    BY <2>1, PageStart, Numbers DEF Byte
<1>2. 0 \in Byte /\ 1 \in Byte /\ PAGE_ERASE \in Byte /\ FlashBase \in Byte
  BY DEF Byte, PAGE_ERASE, FlashBase
<1>3. ErasePacket(p) = <<PAGE_ERASE, 1, p * CellsPerPage, FlashBase, 0>>
  BY DEF ErasePacket, Packet
<1>4. p * CellsPerPage \in Byte
  BY <1>1
<1> QED
  BY <1>2, <1>3, <1>4, BytesArePacket

LEMMA CellPackets ==
    ASSUME image \in Images, NEW c \in Cells
    PROVE  /\ WritePacket(c) \in Packets /\ PeekPacket(c) \in Packets
           /\ WritePacket(c) = <<PAGE_WRITE, 1, c, FlashBase, image[c]>>
           /\ PeekPacket(c) =
                 <<PEEK, 1, c, IF mode = "read" THEN KSeg0 + FlashBase ELSE KSeg0, 0>>
           /\ image[c] \in Value /\ image[c] \in Byte /\ c \in Byte
<1>1. c \in Byte
  BY Numbers DEF Cells, Byte
<1>2. image[c] \in Value /\ image[c] \in Byte
  BY Numbers, HostAssumption
<1>3. /\ 0 \in Byte /\ 1 \in Byte /\ PAGE_WRITE \in Byte /\ PEEK \in Byte
      /\ FlashBase \in Byte /\ KSeg0 \in Byte /\ KSeg0 + FlashBase \in Byte
  BY DEF Byte, PAGE_WRITE, PEEK, FlashBase, KSeg0
<1>4. /\ WritePacket(c) = <<PAGE_WRITE, 1, c, FlashBase, image[c]>>
      /\ PeekPacket(c) =
            <<PEEK, 1, c, IF mode = "read" THEN KSeg0 + FlashBase ELSE KSeg0, 0>>
  BY DEF WritePacket, PeekPacket, Packet
<1>5. (IF mode = "read" THEN KSeg0 + FlashBase ELSE KSeg0) \in Byte
  BY <1>3
<1> QED
  BY <1>1, <1>2, <1>3, <1>4, <1>5, BytesArePacket

LEMMA ReplyBytes ==
    ASSUME tx \in Seq(Byte), TakeReply
    PROVE  /\ tx' \in Seq(Byte) /\ Len(tx) \in Nat /\ Len(tx) >= PacketSize
           /\ Len(tx') = Len(tx) - PacketSize
           /\ \A i \in 1 .. PacketSize : ReplyToPC[i] = tx[i] /\ tx[i] \in Byte
<1>1. Len(tx) \in Nat /\ Len(tx) >= PacketSize /\ tx' = SubSeq(tx, PacketSize + 1, Len(tx))
  BY LenProperties DEF TakeReply, ReplyReady
<1>2. PacketSize \in 0 .. Len(tx)
  BY <1>1 DEF PacketSize
<1>3. tx' \in Seq(Byte) /\ Len(tx') = Len(tx) - PacketSize
  BY <1>1, <1>2, Dropped
<1>4. \A i \in 1 .. PacketSize : tx[i] \in Byte
  BY <1>1, LenProperties DEF PacketSize
<1>5. \A i \in 1 .. PacketSize : ReplyToPC[i] = tx[i]
  BY <1>4, SubSeqProperties DEF ReplyToPC, PacketSize
<1> QED
  BY <1>1, <1>3, <1>4, <1>5
-----------------------------------------------------------------------------
(* The host's steps keep the types.                                        *)

LEMMA Sent ==
    ASSUME rx \in Seq(Byte), NEW bytes \in Seq(Byte), Send(bytes)
    PROVE  rx' \in Seq(Byte)
  BY ConcatProperties DEF Send

Lines == rx' \in Seq(Byte) /\ tx' \in Seq(Byte)

LEMMA DeviceUntouched ==
    ASSUME DeviceInv, UNCHANGED device, Lines
    PROVE  DeviceInv'
  BY DEF DeviceInv, DeviceTypeOK, Sending, KeySpent, device, boot, Lines, Byte

LEMMA StartTyped ==
    ASSUME TypeInv, HostStart
    PROVE  Lines /\ HostInv'
<1>1. <<ProbeKey>> \in Seq(Byte) /\ rx \in Seq(Byte)
  BY DEF ProbeKey, Byte, TypeInv, DeviceInv, DeviceTypeOK
<1>2. rx' \in Seq(Byte) /\ tx' \in Seq(Byte)
  BY <1>1, Sent, EmptySeq DEF HostStart
<1>3. dump' \in [Cells -> 0 .. 255]
  BY DEF HostStart, NoDump, Erased
<1> QED
  BY <1>2, <1>3 DEF HostStart, Goto, Lines, HostInv, HostTypeOK, TypeInv, sizes

(* Bounds on the loops.                                                    *)
LEMMA Bounds ==
    ASSUME TypeInv
    PROVE  /\ at \in Nat /\ flashEnd \in Nat /\ flashEnd <= Pages
           /\ flashEnd * CellsPerPage \in Nat
           /\ flashEnd * CellsPerPage <= Pages * CellsPerPage
           /\ at < flashEnd => at < Pages
           /\ at < flashEnd * CellsPerPage => at \in Cells
           /\ \A n \in Nat : n <= Pages * CellsPerPage => n \in 0 .. (Pages * CellsPerPage)
<1>1. at \in Nat /\ flashEnd \in Nat /\ flashEnd <= Pages
  BY Numbers DEF TypeInv, HostInv, HostTypeOK
<1>2. flashEnd * CellsPerPage \in 0 .. (Pages * CellsPerPage)
  BY <1>1, PageStart
<1>3. \A n \in Nat : n <= Pages * CellsPerPage => n \in 0 .. (Pages * CellsPerPage)
  BY Numbers
<1> QED
  BY <1>1, <1>2, <1>3, Numbers

LEMMA SessionTyped ==
    ASSUME TypeInv, SessionStep
    PROVE  Lines /\ HostInv'
<1> DEFINE n == Pages * CellsPerPage
<1>1. rx \in Seq(Byte) /\ tx \in Seq(Byte)
  BY DEF TypeInv, DeviceInv, DeviceTypeOK, Byte
<1>2. /\ HostInv /\ HostTypeOK /\ n \in Nat /\ Pages \in Nat /\ Pages <= n
      /\ \A c \in Nat : c < n <=> c \in Cells
  BY Numbers DEF TypeInv, HostInv
<1>3. /\ at \in Nat /\ (at < flashEnd => at < Pages)
      /\ (at < flashEnd * CellsPerPage => at \in Cells)
      /\ \A k \in Nat : k <= n => k \in 0 .. n
  BY Bounds
<1> USE DEF Lines, HostInv, HostTypeOK, Goto, asked, sizes
<1> HIDE DEF n
<1>4. CASE ProbeAnswered
  <2>1. tx' \in Seq(Byte)
    BY <1>1, <1>4, Beheaded DEF ProbeAnswered, Answered
  <2>2. <<EnterKey1, EnterKey2>> \o Frame(TestPacket) \in Seq(Byte)
    <3>1. <<EnterKey1, EnterKey2>> \in Seq(Byte)
      BY DEF EnterKey1, EnterKey2, Byte
    <3> QED
      BY <3>1, FixedPackets, FrameBytes, ConcatProperties
  <2>3. rx' \in Seq(Byte)
    BY <1>1, <1>4, <2>2, Sent DEF ProbeAnswered
  <2> QED
    BY <1>2, <1>4, <2>1, <2>3 DEF ProbeAnswered, n
<1>5. CASE CapsReceived
  <2>1. tx' \in Seq(Byte) /\ \A i \in 1 .. PacketSize : ReplyToPC[i] \in Byte
    BY <1>1, <1>5, ReplyBytes DEF CapsReceived
  <2>2. FlashSizeOf(ReplyToPC) \in Nat /\ LastUsedOf(ReplyToPC) \in Nat
    <3>1. \A b \in Byte : b \in Nat /\ b % 128 \in Nat
      BY DEF Byte
    <3>2. ReplyToPC[3] \in Byte /\ ReplyToPC[4] \in Byte
      BY <2>1 DEF PacketSize
    <3> QED
      BY <3>1, <3>2 DEF FlashSizeOf, LastUsedOf, KSeg0
  <2>3. flashEnd' \in 0 .. Pages /\ usedEnd' \in 0 .. n
    BY <1>2, <1>5, <2>2 DEF CapsReceived, AtMost, n
  <2> QED
    BY <1>1, <1>2, <1>3, <1>5, <2>1, <2>3 DEF CapsReceived, n
<1>16. CASE CapsRefused
  <2>1. tx' \in Seq(Byte)
    BY <1>1, <1>16, ReplyBytes DEF CapsRefused
  <2> QED
    BY <1>1, <1>2, <1>16, <2>1 DEF CapsRefused, n
<1>6. CASE ErasePageAt
  <2>1. Frame(ErasePacket(at)) \in Seq(Byte)
    BY <1>3, <1>6, PagePackets, FrameBytes DEF ErasePageAt
  <2>2. rx' \in Seq(Byte)
    BY <1>1, <1>6, <2>1, Sent DEF ErasePageAt
  <2>3. at < Pages
    BY <1>3, <1>6 DEF ErasePageAt
  <2>4. at + 1 \in 0 .. n
    BY <1>2, <1>3, <2>3
  <2> QED
    BY <1>1, <1>2, <1>6, <2>2, <2>3, <2>4 DEF ErasePageAt, n
<1>7. CASE EraseDone
  <2>1. at + 1 \in 0 .. n
    BY <1>2, <1>3, <1>7 DEF EraseDone
  <2> QED
    BY <1>1, <1>2, <1>7, <2>1, ReplyBytes DEF EraseDone, n
<1>8. CASE EraseEnds
  BY <1>1, <1>2, <1>3, <1>8 DEF EraseEnds, n
<1>9. CASE WriteCellAt
  <2>1. at \in Cells
    BY <1>3, <1>9 DEF WriteCellAt
  <2>2. Frame(WritePacket(at)) \in Seq(Byte)
    BY <1>2, <2>1, CellPackets, FrameBytes
  <2>3. rx' \in Seq(Byte)
    BY <1>1, <1>9, <2>2, Sent DEF WriteCellAt
  <2>4. at + 1 \in 0 .. n
    BY <1>2, <1>3, <2>1
  <2> QED
    BY <1>1, <1>2, <1>9, <2>3, <2>4 DEF WriteCellAt, n
<1>10. CASE WriteEnds
  <2>1. rx' \in Seq(Byte)
    BY <1>1, <1>10, FixedPackets, FrameBytes, Sent DEF WriteEnds
  <2> QED
    BY <1>1, <1>2, <1>3, <1>10, <2>1 DEF WriteEnds, n
<1>11. CASE StatusReceived
  <2>1. tx' \in Seq(Byte)
    BY <1>1, <1>11, ReplyBytes DEF StatusReceived
  <2>2. UNCHANGED <<asked, sizes, dump, rx>> /\ at' = 0
    BY <1>11 DEF StatusReceived
  <2>3. hpc' \in {"exit", "peek"} /\ verdict' \in {"ok", "error"}
    BY <1>11 DEF StatusReceived
  <2> QED
    BY <1>1, <1>2, <2>1, <2>2, <2>3 DEF n
<1>12. CASE PeekAt
  <2>1. at \in Cells
    <3>1. at \in 0 .. (Pages * CellsPerPage) /\ usedEnd \in 0 .. (Pages * CellsPerPage)
      BY <1>2
    <3>2. CASE mode = "read"
      <4>1. ~(at - (at % StepCells) >= usedEnd)
        BY <1>12, <3>2 DEF PeekAt, PeekEnd
      <4> QED
        BY <3>1, <4>1, StepInFlash
    <3>3. CASE mode # "read"
      <4>1. at < flashEnd * CellsPerPage
        BY <1>12, <3>3, Bounds DEF PeekAt, PeekEnd
      <4> QED
        BY <1>3, <4>1
    <3> QED
      BY <3>2, <3>3
  <2>2. Frame(PeekPacket(at)) \in Seq(Byte)
    BY <1>2, <2>1, CellPackets, FrameBytes
  <2>3. rx' \in Seq(Byte)
    BY <1>1, <1>12, <2>2, Sent DEF PeekAt
  <2>4. at + 1 \in 0 .. n
    BY <1>2, <1>3, <2>1
  <2> QED
    BY <1>1, <1>2, <1>12, <2>1, <2>3, <2>4 DEF PeekAt, n
<1>13. CASE Peeked
  <2>1. tx' \in Seq(Byte) /\ \A i \in 1 .. PacketSize : ReplyToPC[i] \in Byte
    BY <1>1, <1>13, ReplyBytes DEF Peeked
  <2>2. PeekedOf(ReplyToPC) \in 0 .. 255
    BY <2>1 DEF PeekedOf, PacketSize, Byte
  <2>3. dump' \in [Cells -> 0 .. 255] /\ verdict' \in {"none", "ok", "error"}
    BY <1>2, <1>13, <2>2 DEF Peeked
  <2>4. at + 1 \in 0 .. n
    BY <1>2, <1>3, <1>13 DEF Peeked
  <2> QED
    BY <1>1, <1>2, <1>13, <2>1, <2>3, <2>4 DEF Peeked, n
<1>14. CASE PeekEnds
  BY <1>1, <1>2, <1>3, <1>14 DEF PeekEnds, n
<1>15. CASE HostExit
  <2> DEFINE jump == IF run THEN Frame(JumpPacket) ELSE <<>>
             fill == [k \in 1 .. PacketSize + 1 |-> FillByte]
  <2>1. jump \in Seq(Byte)
    BY FixedPackets, FrameBytes, EmptySeq
  <2>2. fill \in Seq(Byte)
    <3>1. fill \in [1 .. PacketSize + 1 -> Byte] /\ PacketSize + 1 \in Nat
      BY DEF FillByte, Byte, PacketSize
    <3> QED
      BY <3>1, BlockIsSeq
  <2>3. jump \o fill \in Seq(Byte)
    BY <2>1, <2>2, ConcatProperties
  <2>4. rx' \in Seq(Byte)
    BY <1>1, <1>15, <2>3, Sent DEF HostExit
  <2> QED
    BY <1>1, <1>2, <1>15, <2>4 DEF HostExit, n
<1> QED
  BY <1>4, <1>5, <1>6, <1>7, <1>8, <1>9, <1>10, <1>11, <1>12, <1>13, <1>14, <1>15, <1>16 DEF SessionStep

-----------------------------------------------------------------------------
(* Types.                                                                  *)

LEMMA InitTyped == Init => TypeInv
<1> SUFFICES ASSUME Init PROVE TypeInv
  OBVIOUS
<1>1. flash \in [Cells -> Byte]
  <2>1. flash \in [Cells -> Value]
    BY SurroundingsAssumption DEF Init
  <2> QED
    BY <2>1, Numbers
<1>2. DeviceInv
  BY <1>1, DeviceStarts DEF Init
<1>3. HostInv
  <2>1. 0 \in 0 .. (Pages * CellsPerPage) /\ 0 \in 0 .. Pages
    BY Numbers
  <2>2. dump \in [Cells -> 0 .. 255]
    BY DEF Init, HostInit, NoDump, Erased
  <2> QED
    BY <2>1, <2>2 DEF Init, HostInit, HostInv, HostTypeOK
<1>4. scene \in Scenes /\ faults \in Faults
  <2>1. \A n \in Nat : 0 \in 0 .. n
    OBVIOUS
  <2> QED
    BY <2>1, SurroundingsAssumption DEF Init, Faults
<1> QED
  BY <1>2, <1>3, <1>4 DEF TypeInv, Init

(* A cut line is a line.                                                   *)
LEMMA CutBytes ==
    ASSUME NEW s \in Seq(Byte), NEW k \in 0 .. Len(s)
    PROVE  /\ SubSeq(s, 1, k) \in Seq(Byte) /\ Len(SubSeq(s, 1, k)) = k
           /\ \A i \in 1 .. k : SubSeq(s, 1, k)[i] = s[i]
<1>1. Len(s) \in Nat /\ \A i \in 1 .. k : s[i] \in Byte
  BY LenProperties
<1> QED
  BY <1>1, SubSeqProperties

LEMMA LostBytes ==
    ASSUME NEW s \in Seq(Byte), NEW k \in 1 .. Len(s)
    PROVE  SubSeq(s, 1, k - 1) \o SubSeq(s, k + 1, Len(s)) \in Seq(Byte)
<1>1. Len(s) \in Nat
  BY LenProperties
<1>2. k - 1 \in 0 .. Len(s) /\ k \in 0 .. Len(s)
  BY <1>1
<1> QED
  BY <1>2, CutBytes, Dropped, ConcatProperties

LEMMA KillTyped ==
    ASSUME TypeInv, HostKilled
    PROVE  Lines /\ HostInv'
<1>1. rx \in Seq(Byte) /\ tx \in Seq(Byte)
  BY DEF TypeInv, DeviceInv, DeviceTypeOK, Byte
<1>2. rx' \in Seq(Byte)
  BY <1>1, CutBytes DEF HostKilled
<1> QED
  BY <1>1, <1>2 DEF HostKilled, Goto, Lines, TypeInv, HostInv, HostTypeOK, asked, sizes

LEMMA HostUntouched ==
    ASSUME HostInv, UNCHANGED host
    PROVE  HostInv'
  BY DEF HostInv, HostTypeOK, host, asked, sizes

LEMMA TypeStep == TypeInv /\ [Next]_vars => TypeInv'
<1> SUFFICES ASSUME TypeInv, [Next]_vars PROVE TypeInv'
  OBVIOUS
<1>1. /\ DeviceInv /\ HostInv /\ scene \in Scenes /\ faults \in Faults
      /\ Chosen(mode, image, force, run)
      /\ rx \in Seq(Byte) /\ tx \in Seq(Byte)
  BY DEF TypeInv, DeviceInv, DeviceTypeOK, Byte
<1>2. /\ faults.kills \in 0 .. scene.kills /\ faults.resets \in 0 .. scene.resets
      /\ faults.losses \in 0 .. scene.losses
      /\ scene.kills \in Nat /\ scene.resets \in Nat /\ scene.losses \in Nat
      /\ faults = [kills |-> faults.kills, resets |-> faults.resets, losses |-> faults.losses]
  BY <1>1, SurroundingsAssumption DEF Faults
<1> USE DEF Chosen
<1>3. CASE Board
  <2>1. DeviceInv'
    BY <1>1, <1>3, DeviceKeeps DEF Board
  <2> QED
    BY <1>1, <1>3, <2>1, HostUntouched DEF Board, TypeInv, Faults, host, asked
<1>4. CASE Session
  <2>1. DeviceInv' /\ HostInv'
    BY <1>1, <1>4, SessionTyped, DeviceUntouched DEF Session
  <2>2. UNCHANGED <<image, mode, force, run>>
    BY <1>4 DEF Session, SessionStep, ProbeAnswered, CapsReceived, CapsRefused, ErasePageAt, EraseDone,
       EraseEnds, WriteCellAt, WriteEnds, StatusReceived, PeekAt, Peeked, PeekEnds, HostExit, asked
  <2> QED
    BY <1>1, <1>4, <2>1, <2>2 DEF Session, TypeInv, Faults
<1>5. CASE Start
  <2>1. DeviceInv' /\ HostInv'
    BY <1>1, <1>5, StartTyped, DeviceUntouched DEF Start
  <2> QED
    BY <1>1, <1>5, <2>1 DEF Start, TypeInv, Faults
<1>6. CASE GivesUp
  <2>1. Lines /\ HostInv'
    BY <1>1, <1>6 DEF GivesUp, ProbeFails, Goto, Lines, HostInv, HostTypeOK, asked, sizes
  <2>2. DeviceInv'
    BY <1>1, <1>6, <2>1, DeviceUntouched DEF GivesUp
  <2> QED
    BY <1>1, <1>6, <2>1, <2>2 DEF GivesUp, ProbeFails, TypeInv, Faults, asked
<1>7. CASE Kill
  <2>1. DeviceInv' /\ HostInv'
    BY <1>1, <1>7, KillTyped, DeviceUntouched DEF Kill
  <2>2. faults' \in Faults'
    BY <1>2, <1>7 DEF Kill, Faults
  <2> QED
    BY <1>1, <1>7, <2>1, <2>2 DEF Kill, HostKilled, TypeInv, asked
<1>8. CASE KillHung
  <2>1. Lines /\ HostInv'
    BY <1>1, <1>8 DEF KillHung, Lines, HostInv, HostTypeOK, asked, sizes
  <2>2. DeviceInv'
    BY <1>1, <1>8, <2>1, DeviceUntouched DEF KillHung
  <2> QED
    BY <1>1, <1>8, <2>1, <2>2 DEF KillHung, TypeInv, Faults, asked
<1>9. CASE Reset
  <2>1. PICK closed \in BOOLEAN : HardReset(closed)
    BY <1>9, BoardAssumption DEF Reset
  <2>2. DeviceInv'
    BY <1>1, <2>1, StartsKeep
  <2>3. faults' \in Faults'
    BY <1>2, <1>9 DEF Reset, Faults
  <2> QED
    BY <1>1, <1>9, <2>2, <2>3, HostUntouched DEF Reset, TypeInv, host, asked
<1>10. CASE LoseByte
  <2>1. rx' \in Seq(Byte) /\ tx' \in Seq(Byte)
    BY <1>1, <1>10, LostBytes DEF LoseByte
  <2>2. DeviceInv' /\ HostInv'
    BY <1>1, <1>10, <2>1, DeviceUntouched, HostUntouched DEF LoseByte, Lines
  <2>3. faults' \in Faults'
    <3>1. /\ faults.losses < scene.losses /\ scene' = scene
          /\ faults' = [faults EXCEPT !.losses = @ + 1]
      BY <1>10 DEF LoseByte
    <3> QED
      BY <1>2, <3>1 DEF Faults
  <2> QED
    BY <1>1, <1>10, <2>2, <2>3 DEF LoseByte, TypeInv, host, asked
<1>11. CASE UNCHANGED vars
  <2>1. DeviceInv' /\ HostInv'
    BY <1>1, <1>11, DeviceUntouched, HostUntouched DEF vars, Lines
  <2> QED
    BY <1>1, <1>11, <2>1 DEF vars, TypeInv, Faults, host, asked
<1> QED
  BY <1>3, <1>4, <1>5, <1>6, <1>7, <1>8, <1>9, <1>10, <1>11 DEF Next

LEMMA Typed == Spec => []TypeInv
  BY InitTyped, TypeStep, PTL DEF Spec

(* Whatever is killed, reset, lost or late: the places of the host in its  *)
(* image and in the flash stay within them (the loops of uartflash.c, with *)
(* the sizes the board has told), and so do the board's.                   *)
THEOREM BootTypeCorrect == Spec => []BootTypeOK
<1>1. TypeInv => BootTypeOK
  BY DEF TypeInv, DeviceInv, HostInv, BootTypeOK
<1> QED
  BY <1>1, Typed, PTL

-----------------------------------------------------------------------------
(* The surroundings the promises are for: a prompt board, no byte lost,    *)
(* and no PEEK that is cut short by a kill and completed by a later probe, *)
(* when what it reads could be taken for the answer to that probe.         *)
Looking == scene.modes \cap {"read", "verify"} # {}

Steady ==
    /\ scene.prompt /\ scene.losses = 0
    /\ scene.kills = 0 \/ ProbeAck \notin Value \/ ~Looking

Reported == mode = "write" /\ verdict = "ok"
Failed   == mode = "write" /\ verdict = "error"

-----------------------------------------------------------------------------
(* The j-th byte of the frames of qs, one after the other.                 *)
At(qs, j) ==
    IF (j - 1) % FrameSize = 0 THEN Marker
    ELSE qs[1 + ((j - 1) \div FrameSize)][(j - 1) % FrameSize]

(* In front of a packet the marker has been taken already.                 *)
Taken == IF pc = "packet" THEN 1 ELSE 0

(* s, with t bytes in front of it, is a beginning of the frames of qs, or  *)
(* all of them; so is the line.                                            *)
Framed(s, t, qs) ==
    /\ qs \in Seq(Packets)
    /\ Len(s) + t <= FrameSize * Len(qs)
    /\ \A i \in 1 .. Len(s) : s[i] = At(qs, i + t)

Carries(qs) == Framed(rx, Taken, qs)

Full(qs) == Len(rx) + Taken = FrameSize * Len(qs)

InMonitor == pc \in {"monit", "packet"}
Replying  == pc = "send" /\ back = "monit"

(* What opens a session, and the board in front of it.                     *)
Hello == <<EnterKey1, EnterKey2>> \o Frame(TestPacket)

Opening ==
    \/ /\ pc \in {"loop", "app"}
       /\ Len(rx) <= Len(Hello) /\ \A i \in 1 .. Len(rx) : rx[i] = Hello[i]
    \/ /\ pc = "key2"
       /\ Len(rx) < Len(Hello) /\ \A i \in 1 .. Len(rx) : rx[i] = Hello[i + 1]

Open == Opening /\ Len(rx) + (IF pc = "key2" THEN 1 ELSE 0) = Len(Hello)

(* Bytes that do not enter the monitor, or are no probe.                   *)
Dull(s)   == \A i \in 1 .. Len(s) - 1 : s[i] = EnterKey1 => s[i + 1] # EnterKey2
Unasked(s) == \A i \in 1 .. Len(s) : s[i] # ProbeKey

(* A board outside the monitor that will not enter it, or say anything.    *)
Deaf ==
    /\ \/ pc \in {"loop", "key2", "app", "stuck"}
       \/ pc = "send" /\ back = "loop" /\ reply = <<ProbeAck>>
    /\ Dull(rx)
    /\ pc = "key2" /\ rx # <<>> => rx[1] # EnterKey2

Mute == Deaf /\ pc # "send" /\ Unasked(rx)

AllAcks(s) == \A i \in 1 .. Len(s) : s[i] = ProbeAck

-----------------------------------------------------------------------------
(* Packets that do no harm, whatever cuts them short: they program erased  *)
(* words, and erase and program only pages that may be written.            *)
Programs(p) == Cmd(p) = PAGE_WRITE /\ Base(p) % 32 = FlashBase

Harmless(p) ==
    /\ p \in Packets
    /\ \A k \in 1 .. 4 : p[k] # EnterKey1
    /\ Cmd(p) \in {TEST, PEEK, PAGE_ERASE, PAGE_WRITE, ProbeKey}
    /\ Cmd(p) = PEEK => Looking /\ Arg(p) # 0 /\ (Arg(p) = 1 \/ Base(p) = ProbeKey)
    /\ Cmd(p) \in {PAGE_ERASE, PAGE_WRITE} /\ Base(p) % 32 = FlashBase =>
          /\ Arg(p) = 1 /\ Adr(p) \in Cells
          /\ PageOf(Adr(p)) \in WritablePages
          /\ ~Reported
    /\ Programs(p) => /\ nvmFaults = 0 => flash[Adr(p)] = Erased
                      /\ Data(p) \in Value \cup {ProbeKey}

AllHarmless(qs) ==
    /\ \A i \in 1 .. Len(qs) : Harmless(qs[i])
    /\ \A i, j \in 1 .. Len(qs) :
          i # j /\ Programs(qs[i]) /\ Programs(qs[j]) => Adr(qs[i]) # Adr(qs[j])

-----------------------------------------------------------------------------
(* What a session has achieved so far.                                     *)

(* Pages before the n-th are erased, if the image has something on them.   *)
Clean(n) == \A c \in Cells : PageOf(c) < n /\ Holds(image, PageOf(c)) => flash[c] = Erased

(* The words on the line, in their order; those that are not yet there are *)
(* still erased.                                                           *)
Writes(ws, n) ==
    /\ \A i \in 1 .. Len(ws) : \E c \in Cells : c < n /\ image[c] # Erased /\ ws[i] = WritePacket(c)
    /\ \A i, j \in 1 .. Len(ws) : i < j => Adr(ws[i]) < Adr(ws[j])
    /\ nvmFaults = 0 =>
          \A c \in Cells : Holds(image, PageOf(c)) =>
             flash[c] = IF c >= n \/ (\E i \in 1 .. Len(ws) : Adr(ws[i]) = c)
                        THEN Erased ELSE image[c]

(* The reply that the query waits for.                                     *)
Answer == IF Replying THEN tx \o reply ELSE tx

Right(a) ==
    /\ Len(a) = PacketSize
    /\ hpc = "caps" => a[3] = Pages /\ \E last \in Cells : IsFlashEnd(last) /\ a[4] = KSeg0 + last
    /\ hpc = "caps" => a[5] = 0
    /\ hpc = "erasing" /\ mode = "write" /\ nvmFaults = 0 => Clean(at + 1)
    /\ hpc = "peeking" /\ mode = "read" => a[1] = flash[at]
    /\ hpc = "status" => a[5] = 0 /\ (nvmFaults = 0 => Complete(flash, image))

(* Nothing is on the line in either direction.                             *)
Resting == rx = <<>> /\ tx = <<>> /\ pc \in {"monit", "loop", "app"}

(* A query is on the line, or its reply, or there will be none.            *)
Pending(p) == InMonitor /\ Carries(<<p>>) /\ Full(<<p>>) /\ tx = <<>>
Replied    == rx = <<>> /\ (Replying \/ pc \in {"monit", "loop", "app"}) /\ Right(Answer)
Ignored    == Mute /\ Len(tx) < PacketSize

Query(p) == Pending(p) \/ Replied \/ Ignored

-----------------------------------------------------------------------------
(* Board and line, for each place the program on the PC may be in.         *)

(* Half a packet, or half a session, may be left.                          *)
Left ==
    \/ pc = "monit" /\ rx = <<ProbeKey>>
    \/ (InMonitor \/ Replying) /\ \E qs \in Seq(Packets) : AllHarmless(qs) /\ Carries(qs)

Off == Deaf \/ (scene.kills > 0 /\ (Opening \/ Left))

(* The one byte of a probe, or its answer, or half a packet filled up.     *)
FalseStart == tx # <<>> => tx[1] # ProbeAck

Probed ==
    \/ /\ Deaf /\ rx \in {<<>>, <<ProbeKey>>}
       /\ rx # <<>> => tx = <<>>
       /\ pc = "send" => rx = <<>> /\ tx = <<>>
       /\ FalseStart \/ (tx = <<ProbeAck>> /\ pc \in {"loop", "app"} /\ rx = <<>>)
    \/ /\ scene.kills > 0
       /\ \/ pc = "monit" /\ rx = <<ProbeKey>> /\ tx = <<>>
          \/ pc = "monit" /\ rx = <<>> /\ FalseStart
          \/ /\ pc = "packet" /\ tx = <<>>
             /\ rx # <<>> /\ rx[Len(rx)] = ProbeKey
             /\ \E p \in Packets : Harmless(p) /\ Carries(<<p>>)
          \/ Replying /\ rx = <<>> /\ (tx \o reply)[1] # ProbeAck

Writing ==
    \/ InMonitor /\ tx = <<>> /\ \E ws \in Seq(Packets) : Carries(ws) /\ Full(ws) /\ Writes(ws, at)
    \/ Deaf /\ AllAcks(tx)

AskedStatus ==
    \/ /\ InMonitor /\ tx = <<>>
       /\ \E ws \in Seq(Packets) :
             /\ Carries(Append(ws, TestPacket)) /\ Full(Append(ws, TestPacket))
             /\ Writes(ws, Pages * CellsPerPage)
    \/ Replied
    \/ Ignored
    \/ Deaf /\ AllAcks(tx)

Exiting == Deaf \/ (Resting /\ (mode = "write" => verdict = "ok"))

Fill == [k \in 1 .. PacketSize + 1 |-> FillByte]

Leaving ==
    /\ mode = "write" => verdict = "ok"
    /\ \/ pc = "monit" /\ rx = Fill
       \/ pc = "monit" /\ rx = Frame(JumpPacket) \o Fill /\ run
       \/ pc = "packet" /\ rx = JumpPacket \o Fill /\ run
       \/ pc = "resetting" /\ rx = Fill /\ run

Ended ==
    \/ Leaving
    \/ /\ Deaf
       /\ rx # <<>> => rx[Len(rx)] = FillByte
       /\ pc = "key2" => rx # <<>>

Situation ==
    /\ hpc = "off" => Off
    /\ hpc = "probe" => Probed
    /\ hpc = "caps" => (Open /\ tx = <<>>) \/ Query(TestPacket)
    /\ hpc = "erase" => Resting
    /\ hpc = "erasing" => Query(ErasePacket(at))
    /\ hpc = "write" => Writing
    /\ hpc = "status" => AskedStatus
    /\ hpc = "peek" => IF Failed THEN Deaf ELSE Resting
    /\ hpc = "peeking" => IF Failed THEN Deaf ELSE Query(PeekPacket(at))
    /\ hpc = "exit" => Exiting
    /\ hpc = "ended" => Ended

(* The host by itself and what it knows of the flash.                      *)
Progress ==
    /\ hpc \in {"probe", "caps", "erase", "erasing", "write", "status"} => verdict = "none"
    /\ hpc \in {"erase", "erasing"} => mode \in {"write", "erase"}
    /\ hpc \in {"write", "status"} => mode = "write"
    /\ hpc \in {"peek", "peeking"} => mode \in {"read", "verify"} \/ Failed
    /\ hpc \in {"erase", "erasing", "write", "status"} => flashEnd = Pages
    /\ hpc = "erasing" => ToErase(at)
    /\ Reported => hpc \in {"exit", "ended", "off"} /\ (nvmFaults = 0 => Complete(flash, image))
    /\ hpc \in {"erase", "erasing"} /\ mode = "write" /\ nvmFaults = 0 => Clean(at)
    /\ mode = "read" /\ hpc \in {"peek", "peeking"} =>
          /\ usedEnd \in Cells /\ IsFlashEnd(usedEnd)
          /\ \A c \in Cells : dump[c] = IF c < at THEN flash[c] ELSE Erased
    /\ mode = "read" /\ hpc \in {"exit", "ended"} =>
          \A c \in Cells : dump[c] = flash[c] \/ (IsFlashEnd(c) /\ c % StepCells = 0)
    /\ mode = "read" /\ hpc \in {"probe", "caps"} => dump = NoDump

Safe ==
    /\ ProbeAck \notin Value => \A c \in Cells : flash[c] # ProbeAck
    /\ pc = "stuck" => hpc \in {"off", "probe"}
    /\ pc = "resetting" => hpc = "ended"

IInv == Situation /\ Progress /\ Safe

(* Frames that follow one another.                                         *)

LEMMA Six == PacketSize = 5 /\ FrameSize = 6
  BY DEF PacketSize, FrameSize

LEMMA AtFirst ==
    ASSUME NEW qs, NEW j \in 1 .. FrameSize
    PROVE  At(qs, j) = IF j = 1 THEN Marker ELSE qs[1][j - 1]
  BY DEF At, FrameSize, PacketSize

LEMMA AtNext ==
    ASSUME NEW qs \in Seq(Packets), qs # <<>>,
           NEW j \in Nat, j >= 1, j <= FrameSize * (Len(qs) - 1)
    PROVE  At(qs, FrameSize + j) = At(Tail(qs), j)
<1> DEFINE k == (j - 1) \div 6
           r == (j - 1) % 6
           n == Len(qs)
<1>1. n \in Nat \ {0} /\ Len(Tail(qs)) = n - 1 /\ \A i \in 1 .. (n - 1) : Tail(qs)[i] = qs[i + 1]
  BY HeadTailProperties, EmptySeq
<1>2. k \in Nat /\ r \in 0 .. 5 /\ j - 1 = 6 * k + r
  OBVIOUS
<1>3. (6 + j - 1) \div 6 = k + 1 /\ (6 + j - 1) % 6 = r
  OBVIOUS
<1>4. j <= 6 * (n - 1)
  BY DEF FrameSize, PacketSize
<1>5. 1 + k \in 1 .. (n - 1)
  <2> HIDE DEF k, r, n
  <2> QED
    BY <1>1, <1>2, <1>4
<1>6. Tail(qs)[1 + k] = qs[k + 2]
  BY <1>1, <1>5
<1>7. At(qs, 6 + j) = IF r = 0 THEN Marker ELSE qs[1 + (k + 1)][r]
  BY <1>3 DEF At, FrameSize, PacketSize
<1>8. At(Tail(qs), j) = IF r = 0 THEN Marker ELSE Tail(qs)[1 + k][r]
  BY DEF At, FrameSize, PacketSize
<1>9. 1 + (k + 1) = k + 2
  BY <1>2
<1> HIDE DEF k, r, n
<1>10. At(qs, 6 + j) = At(Tail(qs), j)
  <2>1. At(qs, 6 + j) = IF r = 0 THEN Marker ELSE qs[k + 2][r]
    BY <1>7, <1>9
  <2>2. At(Tail(qs), j) = IF r = 0 THEN Marker ELSE qs[k + 2][r]
    BY <1>6, <1>8
  <2> QED
    BY <2>1, <2>2
<1> QED
  BY <1>10, Six

LEMMA AtAppend ==
    ASSUME NEW qs \in Seq(Packets), NEW p \in Packets
    PROVE  /\ \A j \in 1 .. FrameSize * Len(qs) : At(Append(qs, p), j) = At(qs, j)
           /\ \A j \in 1 .. FrameSize :
                 At(Append(qs, p), FrameSize * Len(qs) + j) = IF j = 1 THEN Marker ELSE p[j - 1]
<1> DEFINE n == Len(qs)
<1>1. /\ n \in Nat
      /\ \A i \in 1 .. n : Append(qs, p)[i] = qs[i]
      /\ Append(qs, p)[n + 1] = p
  BY AppendProperties, LenProperties
<1> HIDE DEF n
<1>2. ASSUME NEW j \in 1 .. 6 * n
      PROVE  At(Append(qs, p), j) = At(qs, j)
  <2> DEFINE k == (j - 1) \div 6
             r == (j - 1) % 6
  <2>1. 1 + k \in 1 .. n
    BY <1>1
  <2>2. \A s : At(s, j) = IF r = 0 THEN Marker ELSE s[1 + k][r]
    BY DEF At, FrameSize, PacketSize
  <2> HIDE DEF k, r
  <2>3. Append(qs, p)[1 + k] = qs[1 + k]
    BY <1>1, <2>1
  <2> QED
    BY <2>2, <2>3
<1>3. ASSUME NEW j \in 1 .. 6
      PROVE  At(Append(qs, p), 6 * n + j) = IF j = 1 THEN Marker ELSE p[j - 1]
  <2> DEFINE x == 6 * n + j
  <2>1. x \in Nat /\ (x - 1) \div 6 = n /\ (x - 1) % 6 = j - 1
    BY <1>1
  <2>2. \A s : At(s, x) = IF (x - 1) % 6 = 0 THEN Marker ELSE s[1 + ((x - 1) \div 6)][(x - 1) % 6]
    BY DEF At, FrameSize, PacketSize
  <2>3. 1 + n = n + 1 /\ (j - 1 = 0 <=> j = 1)
    BY <1>1
  <2> HIDE DEF x
  <2>4. At(Append(qs, p), x) = IF j - 1 = 0 THEN Marker ELSE Append(qs, p)[1 + n][j - 1]
    BY <2>1, <2>2
  <2> QED
    BY <1>1, <2>3, <2>4 DEF x
<1> QED
  BY <1>2, <1>3 DEF FrameSize, PacketSize, n

LEMMA FramedNone == Framed(<<>>, 0, <<>>) /\ Len(<<>>) = 0
<1>1. <<>> \in Seq(Packets) /\ Len(<<>>) = 0
  BY EmptySeq
<1> QED
  BY <1>1 DEF Framed, FrameSize, PacketSize

(* The marker in front.                                                    *)
LEMMA FramedTail ==
    ASSUME NEW s \in Seq(Byte), s # <<>>, NEW qs, Framed(s, 0, qs)
    PROVE  /\ s[1] = Marker /\ qs # <<>>
           /\ Framed(Tail(s), 1, qs) /\ Len(Tail(s)) + 1 = Len(s)
<1>1. /\ Len(s) \in Nat \ {0} /\ Len(Tail(s)) = Len(s) - 1
      /\ \A i \in 1 .. (Len(s) - 1) : Tail(s)[i] = s[1 + i]
  BY Beheaded
<1>2. /\ qs \in Seq(Packets) /\ Len(s) <= FrameSize * Len(qs)
      /\ \A i \in 1 .. Len(s) : s[i] = At(qs, i + 0)
  BY <1>1 DEF Framed
<1>3. Len(qs) \in Nat /\ (qs = <<>> => Len(qs) = 0)
  BY <1>2, EmptySeq, LenProperties
<1>4. Len(qs) # 0
  BY <1>1, <1>2, <1>3, Six
<1>5. s[1] = At(qs, 1)
  BY <1>1, <1>2
<1>6. s[1] = Marker
  BY <1>5, Six, AtFirst
<1>7. Framed(Tail(s), 1, qs)
  BY <1>1, <1>2 DEF Framed
<1> QED
  BY <1>1, <1>3, <1>4, <1>6, <1>7

(* The packet in front.                                                    *)
LEMMA FramedDrop ==
    ASSUME NEW s \in Seq(Byte), Len(s) >= PacketSize, NEW qs, Framed(s, 1, qs)
    PROVE  /\ qs # <<>> /\ SubSeq(s, 1, PacketSize) = qs[1] /\ qs[1] \in Packets
           /\ Framed(SubSeq(s, PacketSize + 1, Len(s)), 0, Tail(qs))
           /\ Len(s) + 1 = FrameSize * Len(qs) =>
                 Len(SubSeq(s, PacketSize + 1, Len(s))) = FrameSize * Len(Tail(qs))
<1> DEFINE n == Len(qs)
           m == Len(s)
           u == SubSeq(s, PacketSize + 1, Len(s))
<1>1. /\ m \in Nat /\ m >= 5 /\ n \in Nat /\ m + 1 <= 6 * n
      /\ qs \in Seq(Packets) /\ (qs = <<>> => n = 0)
      /\ \A i \in 1 .. m : s[i] = At(qs, i + 1)
  BY EmptySeq, LenProperties, Six DEF Framed
<1>2. n \in Nat \ {0} /\ qs # <<>>
  BY <1>1
<1>3. /\ Tail(qs) \in Seq(Packets) /\ Len(Tail(qs)) = n - 1 /\ qs[1] \in Packets
  BY <1>1, <1>2, HeadTailProperties, ElementOfSeq
<1>4. /\ u \in Seq(Byte) /\ Len(u) = m - 5
      /\ \A i \in 1 .. (m - 5) : u[i] = s[5 + i]
  <2>1. PacketSize = 5 /\ PacketSize \in 0 .. Len(s)
    BY <1>1, Six
  <2>2. /\ u \in Seq(Byte) /\ Len(u) = Len(s) - PacketSize
        /\ \A i \in 1 .. (Len(s) - PacketSize) : u[i] = s[PacketSize + i]
    BY <2>1, Dropped
  <2> QED
    BY <2>1, <2>2
<1>5. SubSeq(s, 1, PacketSize) = qs[1]
  <2>1. /\ SubSeq(s, 1, PacketSize) \in Seq(Byte) /\ Len(SubSeq(s, 1, PacketSize)) = PacketSize
        /\ \A i \in 1 .. PacketSize : SubSeq(s, 1, PacketSize)[i] = s[i]
    BY <1>1, CutBytes, Six
  <2>2. \A i \in 1 .. PacketSize : s[i] = qs[1][i]
    <3>1. SUFFICES ASSUME NEW i \in 1 .. 5 PROVE s[i] = qs[1][i]
      BY Six
    <3>2. s[i] = At(qs, i + 1) /\ i + 1 \in 1 .. 6
      BY <1>1
    <3>3. At(qs, i + 1) = IF i + 1 = 1 THEN Marker ELSE qs[1][(i + 1) - 1]
      BY <3>2, AtFirst, Six
    <3> QED
      BY <3>2, <3>3
  <2>3. qs[1] \in Seq(Byte) /\ Len(qs[1]) = PacketSize
    BY <1>3, FrameBytes
  <2> QED
    BY <2>1, <2>2, <2>3, SeqEqual
<1> HIDE DEF n, m, u
<1>6. \A i \in 1 .. (m - 5) : u[i] = At(Tail(qs), i + 0)
  <2> SUFFICES ASSUME NEW i \in 1 .. (m - 5) PROVE u[i] = At(Tail(qs), i)
    <3>1. \A i \in 1 .. (m - 5) : i + 0 = i
      BY <1>1
    <3> QED
      BY <3>1
  <2>1. u[i] = s[5 + i] /\ s[5 + i] = At(qs, (5 + i) + 1)
    BY <1>1, <1>4
  <2>2. (5 + i) + 1 = 6 + i /\ i \in Nat /\ i >= 1 /\ i <= 6 * (n - 1)
    BY <1>1, <1>2
  <2>3. At(qs, 6 + i) = At(Tail(qs), i)
    BY <1>1, <1>2, <2>2, AtNext, Six DEF n
  <2> QED
    BY <2>1, <2>2, <2>3
<1>7. Len(u) + 0 <= 6 * (n - 1)
  BY <1>1, <1>2, <1>4
<1>8. Framed(u, 0, Tail(qs))
  BY <1>3, <1>4, <1>6, <1>7, Six DEF Framed
<1>9. m + 1 = 6 * n => Len(u) = 6 * (n - 1)
  BY <1>1, <1>2, <1>4
<1> QED
  BY <1>2, <1>3, <1>5, <1>8, <1>9, Six DEF n, m, u

(* One more frame behind.                                                  *)
LEMMA FramedAppend ==
    ASSUME NEW s \in Seq(Byte), NEW t \in {0, 1}, NEW qs, Framed(s, t, qs),
           Len(s) + t = FrameSize * Len(qs), NEW p \in Packets
    PROVE  /\ Framed(s \o Frame(p), t, Append(qs, p))
           /\ Len(s \o Frame(p)) + t = FrameSize * Len(Append(qs, p))
<1> DEFINE n == Len(qs)
           m == Len(s)
           f == Frame(p)
<1>1. /\ m \in Nat /\ n \in Nat /\ m + t = 6 * n /\ qs \in Seq(Packets)
      /\ \A i \in 1 .. m : s[i] = At(qs, i + t)
  BY LenProperties, Six DEF Framed
<1>2. /\ Len(f) = 6 /\ f \in Seq(Byte) /\ f[1] = Marker
      /\ \A i \in 1 .. 5 : f[i + 1] = p[i]
  BY FrameBytes, Six
<1>3. Append(qs, p) \in Seq(Packets) /\ Len(Append(qs, p)) = n + 1
  BY <1>1, AppendProperties
<1>4. /\ s \o f \in Seq(Byte) /\ Len(s \o f) = m + 6
      /\ \A i \in 1 .. m + 6 : (s \o f)[i] = IF i <= m THEN s[i] ELSE f[i - m]
  <2> HIDE DEF f
  <2>1. /\ s \o f \in Seq(Byte) /\ Len(s \o f) = Len(s) + Len(f)
        /\ \A i \in 1 .. Len(s) + Len(f) :
              (s \o f)[i] = IF i <= Len(s) THEN s[i] ELSE f[i - Len(s)]
    BY <1>2, ConcatProperties
  <2> QED
    BY <1>2, <2>1, Zenon
<1>5. /\ \A j \in 1 .. 6 * n : At(Append(qs, p), j) = At(qs, j)
      /\ \A j \in 1 .. 6 : At(Append(qs, p), 6 * n + j) = IF j = 1 THEN Marker ELSE p[j - 1]
  BY <1>1, AtAppend, Six
<1> HIDE DEF n, m, f
<1>6. ASSUME NEW i \in 1 .. m + 6 PROVE (s \o f)[i] = At(Append(qs, p), i + t)
  <2>1. CASE i <= m
    <3>1. i + t \in 1 .. 6 * n /\ i \in 1 .. m
      BY <1>1, <2>1
    <3> QED
      BY <1>1, <1>4, <1>5, <2>1, <3>1
  <2>2. CASE i > m
    <3> DEFINE j == i - m
    <3>1. j \in 1 .. 6 /\ i + t = 6 * n + j /\ ~(i <= m)
      BY <1>1, <2>2
    <3>2. (s \o f)[i] = f[j]
      BY <1>4, <3>1
    <3>3. f[j] = IF j = 1 THEN Marker ELSE p[j - 1]
      <4>1. CASE j = 1
        BY <1>2, <4>1
      <4>2. CASE j # 1
        <5>1. j - 1 \in 1 .. 5 /\ (j - 1) + 1 = j
          BY <3>1, <4>2
        <5>2. f[(j - 1) + 1] = p[j - 1]
          BY <1>2, <5>1
        <5> QED
          BY <4>2, <5>1, <5>2
      <4> QED
        BY <4>1, <4>2
    <3> HIDE DEF j
    <3>4. At(Append(qs, p), 6 * n + j) = IF j = 1 THEN Marker ELSE p[j - 1]
      BY <1>5, <3>1
    <3> QED
      BY <3>1, <3>2, <3>3, <3>4
  <2>3. i <= m \/ i > m
    BY <1>1
  <2> QED
    BY <2>1, <2>2, <2>3
<1>7. Len(s \o f) + t = 6 * (n + 1)
  BY <1>1, <1>4
<1> QED
  BY <1>1, <1>3, <1>4, <1>6, <1>7, Six DEF Framed, n, m, f

(* The frame of one packet.                                                *)
LEMMA FramedOne ==
    ASSUME NEW p \in Packets
    PROVE  /\ Framed(Frame(p), 0, <<p>>) /\ Len(Frame(p)) = FrameSize
           /\ <<p>> \in Seq(Packets) /\ Len(<<p>>) = 1 /\ <<p>>[1] = p
<1>1. <<>> \in Seq(Byte) /\ Len(<<>>) + 0 = FrameSize * 0 /\ 0 \in {0, 1}
  BY EmptySeq, Six
<1>2. Framed(<<>> \o Frame(p), 0, Append(<<>>, p))
  BY <1>1, FramedNone, FramedAppend
<1>3. <<>> \o Frame(p) = Frame(p)
  BY FrameBytes, ConcatEmptySeq
<1>4. Append(<<>>, p) = <<p>>
  OBVIOUS
<1>5. <<p>> \in Seq(Packets) /\ Len(<<p>>) = 1 /\ <<p>>[1] = p
  OBVIOUS
<1> QED
  BY <1>2, <1>3, <1>4, <1>5, FrameBytes

LEMMA FramedCut ==
    ASSUME NEW s \in Seq(Byte), NEW t \in {0, 1}, NEW qs, Framed(s, t, qs), NEW k \in 0 .. Len(s)
    PROVE  Framed(SubSeq(s, 1, k), t, qs)
<1>1. /\ SubSeq(s, 1, k) \in Seq(Byte) /\ Len(SubSeq(s, 1, k)) = k
      /\ \A i \in 1 .. k : SubSeq(s, 1, k)[i] = s[i]
      /\ Len(s) \in Nat
  BY CutBytes, LenProperties
<1>2. \A i \in 1 .. k : i \in 1 .. Len(s)
  BY <1>1
<1>3. qs \in Seq(Packets) /\ Len(s) + t <= FrameSize * Len(qs) /\ Len(qs) \in Nat
  BY LenProperties DEF Framed
<1>4. k + t <= FrameSize * Len(qs)
  BY <1>1, <1>3, Six
<1> QED
  BY <1>1, <1>2, <1>3, <1>4 DEF Framed

-----------------------------------------------------------------------------
(* Bytes that say nothing to a board outside the monitor.                  *)

LEMMA DullPart ==
    ASSUME NEW s \in Seq(Byte)
    PROVE  /\ Dull(s) => \A k \in 0 .. Len(s) :
                            Dull(SubSeq(s, k + 1, Len(s))) /\ Dull(SubSeq(s, 1, k))
           /\ Unasked(s) => \A k \in 0 .. Len(s) : Unasked(SubSeq(s, k + 1, Len(s)))
           /\ s # <<>> => /\ Dull(s) => Dull(Tail(s))
                          /\ Unasked(s) => Unasked(Tail(s))
<1> DEFINE n == Len(s)
<1>1. n \in Nat
  BY LenProperties
<1>2. ASSUME NEW k \in 0 .. n
      PROVE  /\ Dull(s) => Dull(SubSeq(s, k + 1, n)) /\ Dull(SubSeq(s, 1, k))
             /\ Unasked(s) => Unasked(SubSeq(s, k + 1, n))
  <2> DEFINE u == SubSeq(s, k + 1, n)
             v == SubSeq(s, 1, k)
  <2>1. Len(u) = n - k /\ \A i \in 1 .. (n - k) : u[i] = s[k + i]
    BY Dropped
  <2>2. Len(v) = k /\ \A i \in 1 .. k : v[i] = s[i]
    BY CutBytes
  <2> HIDE DEF u, v, n
  <2>3. ASSUME Dull(s) PROVE Dull(u)
    <3>1. SUFFICES ASSUME NEW i \in 1 .. Len(u) - 1, u[i] = EnterKey1 PROVE u[i + 1] # EnterKey2
      BY DEF Dull
    <3>2. i \in 1 .. (n - k) /\ i + 1 \in 1 .. (n - k) /\ k + i \in 1 .. n - 1 /\ k + (i + 1) = (k + i) + 1
      BY <1>1, <2>1
    <3> QED
      BY <2>1, <2>3, <3>1, <3>2 DEF Dull, n
  <2>4. ASSUME Dull(s) PROVE Dull(v)
    <3>1. SUFFICES ASSUME NEW i \in 1 .. Len(v) - 1, v[i] = EnterKey1 PROVE v[i + 1] # EnterKey2
      BY DEF Dull
    <3>2. i \in 1 .. k /\ i + 1 \in 1 .. k /\ i \in 1 .. n - 1
      BY <1>1, <2>2
    <3> QED
      BY <2>2, <2>4, <3>1, <3>2 DEF Dull, n
  <2>5. ASSUME Unasked(s) PROVE Unasked(u)
    <3>1. \A i \in 1 .. (n - k) : k + i \in 1 .. n
      BY <1>1
    <3> QED
      BY <2>1, <2>5, <3>1 DEF Unasked, n
  <2> QED
    BY <2>3, <2>4, <2>5 DEF u, v
<1>3. ASSUME s # <<>>
      PROVE  (Dull(s) => Dull(Tail(s))) /\ (Unasked(s) => Unasked(Tail(s)))
  <2>1. 1 \in 0 .. n /\ n \in Nat \ {0}
    BY <1>1, <1>3, Beheaded
  <2>2. Tail(s) = SubSeq(s, 1 + 1, n)
    <3>1. Tail(s) = SubSeq(s, 2, Len(s))
      BY <1>3, TailIsSubSeq
    <3> QED
      BY <3>1
  <2> QED
    BY <1>2, <2>1, <2>2
<1> QED
  BY <1>2, <1>3

LEMMA DullJoined ==
    ASSUME NEW s \in Seq(Byte), NEW u \in Seq(Byte), Dull(s), Dull(u), u # <<>>, u[1] # EnterKey2
    PROVE  Dull(s \o u)
<1> DEFINE n == Len(s)
           m == Len(u)
           w == s \o u
<1>1. n \in Nat /\ m \in Nat \ {0}
  BY LenProperties, EmptySeq
<1>2. Len(w) = n + m /\ \A i \in 1 .. n + m : w[i] = IF i <= n THEN s[i] ELSE u[i - n]
  BY ConcatProperties
<1> HIDE DEF n, m, w
<1>3. SUFFICES ASSUME NEW i \in 1 .. Len(w) - 1, w[i] = EnterKey1 PROVE w[i + 1] # EnterKey2
  BY DEF Dull, w
<1>4. i \in 1 .. n + m /\ i + 1 \in 1 .. n + m /\ i \in Nat
  BY <1>1, <1>2
<1>5. CASE i < n
  <2>1. i \in 1 .. n - 1 /\ i + 1 <= n /\ i <= n
    BY <1>1, <1>4, <1>5
  <2>2. w[i] = s[i] /\ w[i + 1] = s[i + 1]
    BY <1>2, <1>4, <2>1
  <2> QED
    BY <1>3, <2>1, <2>2 DEF Dull, n
<1>6. CASE i = n
  <2>1. ~(i + 1 <= n) /\ (i + 1) - n = 1
    BY <1>1, <1>4, <1>6
  <2>2. w[i + 1] = u[1]
    BY <1>2, <1>4, <2>1
  <2> QED
    BY <2>2
<1>7. CASE i > n
  <2>1. /\ i - n \in 1 .. m - 1 /\ ~(i <= n) /\ ~(i + 1 <= n) /\ (i + 1) - n = (i - n) + 1
    BY <1>1, <1>4, <1>7
  <2>2. w[i] = u[i - n] /\ w[i + 1] = u[(i - n) + 1]
    BY <1>2, <1>4, <2>1
  <2> QED
    BY <1>3, <2>1, <2>2 DEF Dull, m
<1> QED
  BY <1>1, <1>4, <1>5, <1>6, <1>7

LEMMA DullShort ==
    ASSUME NEW b \in Byte
    PROVE  /\ Dull(<<>>) /\ Unasked(<<>>) /\ Dull(<<b>>)
           /\ <<b>> \in Seq(Byte) /\ <<b>> # <<>> /\ <<b>>[1] = b /\ Len(<<b>>) = 1
  BY DEF Dull, Unasked

LEMMA NoBytes == Dull(<<>>) /\ Unasked(<<>>) /\ AllAcks(<<>>)
  BY DEF Dull, Unasked, AllAcks

(* A packet without 0xaa but in its data, without 0xa5.                    *)
Plain(p)  == \A k \in 1 .. 4 : p[k] # EnterKey1
Silent(p) == \A k \in 1 .. 5 : p[k] # ProbeKey

LEMMA DullFrames ==
    ASSUME NEW s \in Seq(Byte), NEW t \in {0, 1}, NEW qs, Framed(s, t, qs),
           \A i \in 1 .. Len(qs) : Plain(qs[i])
    PROVE  Dull(s) /\ ((\A i \in 1 .. Len(qs) : Silent(qs[i])) => Unasked(s))
<1> DEFINE n == Len(qs)
           m == Len(s)
<1>1. m \in Nat /\ n \in Nat /\ m + t <= 6 * n /\ \A i \in 1 .. m : s[i] = At(qs, i + t)
  BY LenProperties, Six DEF Framed
<1>2. ASSUME NEW i \in 1 .. m
      PROVE  \/ (i + t - 1) % 6 = 0 /\ s[i] = Marker
             \/ /\ (i + t - 1) % 6 # 0
                /\ \E q \in 1 .. n : s[i] = qs[q][(i + t - 1) % 6]
  <2> DEFINE x == i + t - 1
             k == x \div 6
             r == x % 6
  <2>1. i + t \in Nat /\ x \in Nat /\ x < 6 * n
    BY <1>1
  <2>2. k \in Nat /\ r \in 0 .. 5 /\ x = 6 * k + r
    BY <2>1
  <2>3. s[i] = IF r = 0 THEN Marker ELSE qs[1 + k][r]
    BY <1>1 DEF At, FrameSize, PacketSize
  <2> HIDE DEF x, k, r
  <2>4. 1 + k \in 1 .. n
    BY <1>1, <2>1, <2>2
  <2> QED
    BY <2>3, <2>4 DEF r, x
<1> HIDE DEF m, n
<1>3. Dull(s)
  <2>1. SUFFICES ASSUME NEW i \in 1 .. m - 1, s[i] = EnterKey1 PROVE s[i + 1] # EnterKey2
    BY DEF Dull, m
  <2>2. i \in 1 .. m /\ i + 1 \in 1 .. m
    BY <1>1
  <2>3. (i + t - 1) % 6 = 5
    <3>1. (i + t - 1) % 6 \in 0 .. 5
      BY <1>1
    <3>2. (i + t - 1) % 6 # 0
      BY <1>2, <2>1, <2>2 DEF Marker, EnterKey1
    <3>3. PICK q \in 1 .. n : s[i] = qs[q][(i + t - 1) % 6]
      BY <1>2, <2>2, <3>2
    <3>4. (i + t - 1) % 6 \notin 1 .. 4
      BY <2>1, <3>3 DEF Plain, n
    <3> QED
      BY <3>1, <3>2, <3>4
  <2>4. ((i + 1) + t - 1) % 6 = 0
    BY <2>3
  <2>5. s[i + 1] = Marker
    BY <1>2, <2>2, <2>4
  <2> QED
    BY <2>5 DEF Marker, EnterKey2
<1>4. ASSUME \A i \in 1 .. n : Silent(qs[i]) PROVE Unasked(s)
  <2>1. SUFFICES ASSUME NEW i \in 1 .. m PROVE s[i] # ProbeKey
    BY DEF Unasked, m
  <2>2. CASE (i + t - 1) % 6 = 0
    BY <1>2, <2>2 DEF Marker, ProbeKey
  <2>3. CASE (i + t - 1) % 6 # 0
    <3>1. (i + t - 1) % 6 \in 1 .. 5
      BY <1>1, <2>3
    <3>2. PICK q \in 1 .. n : s[i] = qs[q][(i + t - 1) % 6]
      BY <1>2, <2>3
    <3> QED
      BY <1>4, <3>1, <3>2 DEF Silent
  <2> QED
    BY <2>2, <2>3
<1> QED
  BY <1>3, <1>4 DEF n

-----------------------------------------------------------------------------
(* What the board does with a packet that does no harm.                    *)

LEMMA Bytes ==
    ASSUME TypeInv
    PROVE  /\ rx \in Seq(Byte) /\ tx \in Seq(Byte) /\ reply \in Seq(Byte)
           /\ Len(rx) \in Nat /\ Len(tx) \in Nat /\ Len(reply) \in Nat
           /\ (rx = <<>> <=> Len(rx) = 0) /\ (tx = <<>> <=> Len(tx) = 0)
           /\ DeviceInv /\ flash \in [Cells -> Byte] /\ nvmFaults \in Nat
           /\ image \in Images /\ dump \in [Cells -> Byte]
           /\ pc = "send" => reply # <<>> /\ Len(reply) # 0
           /\ back \in {"loop", "monit"}
           /\ pc \in {"loop", "key2", "monit", "packet", "send", "resetting", "app", "stuck"}
<1>1. /\ rx \in Seq(Byte) /\ tx \in Seq(Byte) /\ reply \in Seq(Byte)
      /\ DeviceInv /\ flash \in [Cells -> Byte] /\ nvmFaults \in Nat
      /\ image \in Images /\ dump \in [Cells -> Byte]
      /\ pc = "send" => reply # <<>>
      /\ back \in {"loop", "monit"}
      /\ pc \in {"loop", "key2", "monit", "packet", "send", "resetting", "app", "stuck"}
  <2>1. HostTypeOK /\ DeviceInv /\ DeviceTypeOK /\ Sending
    BY DEF TypeInv, HostInv, DeviceInv
  <2>2. rx \in Seq(Byte) /\ tx \in Seq(Byte) /\ image \in Images /\ dump \in [Cells -> Byte]
    BY <2>1 DEF HostTypeOK, DeviceTypeOK, Byte
  <2>3. reply \in Seq(Byte) /\ flash \in [Cells -> Byte] /\ nvmFaults \in Nat
    BY <2>1, BoardAssumption DEF DeviceTypeOK, Byte
  <2>4. /\ back \in {"loop", "monit"}
        /\ pc \in {"loop", "key2", "monit", "packet", "send", "resetting", "app", "stuck"}
    BY <2>1 DEF DeviceTypeOK
  <2> QED
    BY <2>1, <2>2, <2>3, <2>4 DEF Sending
<1> QED
  BY <1>1, EmptySeq, LenProperties

Untouched == flash' = flash /\ nvmFaults' = nvmFaults

Effect(p) ==
    \/ /\ Cmd(p) = TEST /\ Untouched /\ Replying'
       /\ \E last \in Cells : /\ IsFlashEnd(last)
                              /\ reply' = <<TEST, Arg(p), Pages, KSeg0 + last, 0>>
    \/ /\ Cmd(p) = PEEK /\ Untouched
       /\ \/ pc' = "stuck" /\ Base(p) \notin {KSeg0, KSeg0 + FlashBase}
          \/ /\ Replying' /\ reply' \in Packets
             /\ reply'[1] \in Value \cup {flash[c] : c \in Cells}
             /\ InFlash(Base(p), Adr(p)) => reply'[1] = flash[Adr(p)]
    \/ /\ Cmd(p) = PAGE_ERASE /\ Replying' /\ reply' \in Packets /\ reply'[1] = PAGE_ERASE
       /\ IF Base(p) % 32 = FlashBase THEN NVMem(ErasePage(PageOf(Adr(p)))) ELSE Untouched
    \/ /\ Cmd(p) = PAGE_WRITE /\ pc' = "monit"
       /\ IF Base(p) % 32 = FlashBase THEN NVMem(ProgramCell(Adr(p), Data(p))) ELSE Untouched
    \/ Cmd(p) = ProbeKey /\ pc' = "monit" /\ Untouched

LEMMA EchoEffect ==
    ASSUME TypeInv, CmdEcho
    PROVE  Effect(PacketFromPC)
<1>1. Receive(TEST) /\ Untouched
  BY DEF CmdEcho, Untouched
<1>2. Cmd(PacketFromPC) = TEST
  BY <1>1 DEF Receive
<1>3. PICK last \in Cells :
         /\ IsFlashEnd(last)
         /\ reply' = <<TEST, Arg(PacketFromPC), Pages, KSeg0 + last, TotalErrs>>
         /\ pc' = "send" /\ back' = "monit"
  BY DEF CmdEcho, Transmit
<1> QED
  BY <1>1, <1>2, <1>3 DEF Effect, Replying, TotalErrs

LEMMA OneByteOver ==
    ASSUME NEW p \in Packets, NEW b \in Byte, NEW s, s = [k \in 1 .. 1 |-> b]
    PROVE  Over(p, s) \in Packets /\ Over(p, s)[1] = b
<1>1. s \in Seq(Byte) /\ Len(s) = 1 /\ s[1] = b
  <2>1. s \in [1 .. 1 -> Byte] /\ 1 \in Nat
    OBVIOUS
  <2> QED
    BY <2>1, BlockIsSeq
<1>2. Over(p, s) \in Packets
  <2>1. Len(s) <= PacketSize
    BY <1>1, Six
  <2>2. p \in [1 .. PacketSize -> Byte]
    BY DEF Packets
  <2>3. Over(p, s) \in [1 .. PacketSize -> Byte]
    BY <1>1, <2>1, <2>2, OverType
  <2> QED
    BY <2>3 DEF Packets
<1>3. p \in Seq(Byte) /\ Len(p) = 5
  BY FrameBytes, Six
<1>4. SubSeq(p, 1 + 1, Len(p)) \in Seq(Byte) /\ Len(SubSeq(p, 1 + 1, Len(p))) = 4
  <2>1. 1 \in 0 .. Len(p)
    BY <1>3
  <2>2. SubSeq(p, 1 + 1, Len(p)) \in Seq(Byte) /\ Len(SubSeq(p, 1 + 1, Len(p))) = Len(p) - 1
    BY <1>3, <2>1, Dropped
  <2> QED
    BY <1>3, <2>2
<1>5. (s \o SubSeq(p, 1 + 1, Len(p)))[1] = s[1]
  BY <1>1, <1>4, ConcatProperties
<1> QED
  BY <1>1, <1>2, <1>5 DEF Over

(* What the PC asks for is there, and a probe leads nowhere.               *)
LEMMA MappedBases ==
    /\ KSeg0 \in Mapped /\ KSeg0 + FlashBase \in Mapped
    /\ ProbeKey \notin Mapped \cup InPart
  BY DEF Mapped, Ram, InPart, Segments, KSeg0, KSeg1, FlashBase, ProbeKey

LEMMA PeekEffect ==
    ASSUME TypeInv, CmdPeek, Harmless(PacketFromPC)
    PROVE  Effect(PacketFromPC)
<1> DEFINE p == PacketFromPC
           bytes(ram) == [k \in 1 .. Arg(p) |-> MemByte(Base(p), Adr(p) + k - 1, ram)]
<1>1. Receive(PEEK)
  BY DEF CmdPeek
<1>2. PICK ram \in Value :
         \/ ~Touches(p, Mapped) /\ toPc' = Echoed /\ Raises
         \/ /\ Touches(p, Mapped \cup InPart)
            /\ IF LargeBlock(Arg(p))
               THEN toPc' = Echoed /\ Transmit(bytes(ram), "monit")
               ELSE toPc' = Over(Echoed, bytes(ram)) /\ Transmit(Over(Echoed, bytes(ram)), "monit")
            /\ UNCHANGED <<flash, nvmFaults>>
  BY DEF CmdPeek
<1>3. /\ DeviceInv /\ Cmd(p) = PEEK
      /\ flash \in [Cells -> Byte] /\ Echoed \in Packets /\ Adr(p) \in Byte /\ Base(p) \in Byte
  BY <1>1, Bytes, Fields DEF Receive, Packets
<1>4. Arg(p) # 0 /\ (Arg(p) = 1 \/ Base(p) = ProbeKey)
  BY <1>3 DEF Harmless, PEEK, TEST, PAGE_ERASE, PAGE_WRITE, ProbeKey
<1>5. Untouched
  BY <1>2 DEF Untouched, Raises
<1> HIDE DEF p
<1>6. CASE ~Touches(p, Mapped) /\ Raises
  <2>1. pc' = "stuck" /\ Base(p) \notin {KSeg0, KSeg0 + FlashBase}
    BY <1>6, MappedBases DEF Touches, Raises
  <2> QED
    BY <1>3, <1>5, <2>1 DEF Effect, p
<1>7. CASE ~(~Touches(p, Mapped) /\ Raises)
  <2>6. Touches(p, Mapped \cup InPart)
    BY <1>2, <1>7
  <2>1. Arg(p) = 1 /\ ~LargeBlock(Arg(p))
    BY <1>4, <2>6, MappedBases DEF Touches, LargeBlock, PacketSize
  <2> DEFINE b == MemByte(Base(p), Adr(p), ram)
  <2>2. b \in Byte /\ b \in Value \cup {flash[c] : c \in Cells}
        /\ (InFlash(Base(p), Adr(p)) => b = flash[Adr(p)])
    BY <1>3, Numbers DEF MemByte, InFlash
  <2>3. bytes(ram) = [k \in 1 .. 1 |-> b]
    <3>1. \A k \in 1 .. 1 : Adr(p) + k - 1 = Adr(p)
      BY <1>3 DEF Byte
    <3> QED
      BY <2>1, <3>1
  <2> HIDE DEF b, bytes
  <2>4. reply' = Over(Echoed, bytes(ram)) /\ Replying'
    BY <1>2, <1>7, <2>1 DEF Transmit, Replying
  <2>5. reply' \in Packets /\ reply'[1] = b
    BY <1>3, <2>2, <2>3, <2>4, OneByteOver
  <2> QED
    BY <1>3, <1>5, <2>2, <2>4, <2>5 DEF Effect, p
<1> QED
  BY <1>6, <1>7

LEMMA EraseEffect ==
    ASSUME TypeInv, CmdPageErase, Harmless(PacketFromPC)
    PROVE  Effect(PacketFromPC)
<1> DEFINE p == PacketFromPC
<1>1. /\ Receive(PAGE_ERASE)
      /\ IF InFlash(Base(p), Adr(p)) THEN NVMem(ErasePage(PageOf(Adr(p)))) ELSE Untouched
      /\ reply' = Echoed /\ Replying'
  BY DEF CmdPageErase, Untouched, Transmit, Replying
<1>2. Cmd(p) = PAGE_ERASE /\ Echoed \in Packets
  BY <1>1, Bytes, Fields DEF Receive, Packets
<1>3. Echoed[1] = PAGE_ERASE
  <2>1. 1 \in DOMAIN toPc
    BY DEF TypeInv, DeviceInv, DeviceTypeOK, PacketSize
  <2> QED
    BY <1>2, <2>1 DEF Echoed
<1>4. Base(p) % 32 = FlashBase => Adr(p) \in Cells
  BY <1>2 DEF Harmless
<1> QED
  BY <1>1, <1>2, <1>3, <1>4 DEF Effect, InFlash

LEMMA WriteEffect ==
    ASSUME TypeInv, CmdPageWrite, Harmless(PacketFromPC)
    PROVE  Effect(PacketFromPC)
<1> DEFINE p == PacketFromPC
           range == {c \in Adr(p) .. (Adr(p) + Arg(p) - 1) : InFlash(Base(p), c)}
           outcome(junk) == [c \in Cells |->
                                IF c \in range
                                THEN Programmed(flash[c], IF c = Adr(p) THEN Data(p) ELSE junk)
                                ELSE flash[c]]
<1>1. /\ Receive(PAGE_WRITE) /\ pc' = "monit"
      /\ \E junk \in Value : IF range = {} THEN Untouched ELSE NVMem(outcome(junk))
  BY DEF CmdPageWrite, Untouched, NoReply
<1>2. Cmd(p) = PAGE_WRITE
  BY <1>1 DEF Receive
<1>3. CASE Base(p) % 32 = FlashBase
  <2>1. Arg(p) = 1 /\ Adr(p) \in Cells /\ Adr(p) \in Nat
    BY <1>2, <1>3, Numbers DEF Harmless
  <2>2. range = {Adr(p)}
    <3>1. Adr(p) .. (Adr(p) + Arg(p) - 1) = {Adr(p)}
      BY <2>1
    <3> QED
      BY <1>3, <2>1, <3>1 DEF InFlash
  <2>3. PICK junk \in Value : NVMem(outcome(junk))
    BY <1>1, <2>2
  <2>4. outcome(junk) = ProgramCell(Adr(p), Data(p))
    <3>1. flash \in [Cells -> Byte]
      BY Bytes
    <3> HIDE DEF p, range
    <3> QED
      BY <2>1, <2>2, <3>1 DEF ProgramCell
  <2> HIDE DEF outcome
  <2> QED
    BY <1>1, <1>2, <1>3, <2>3, <2>4 DEF Effect
<1>4. CASE Base(p) % 32 # FlashBase
  <2>1. range = {}
    BY <1>4 DEF InFlash
  <2> HIDE DEF range, outcome
  <2> QED
    BY <1>1, <1>2, <1>4, <2>1 DEF Effect
<1> QED
  BY <1>3, <1>4

LEMMA NoEffect ==
    ASSUME TypeInv, CmdNoEffect, Harmless(PacketFromPC)
    PROVE  Effect(PacketFromPC)
<1>1. PICK cmd \in (0 .. 255) \ {TEST, PEEK, POKE, PAGE_ERASE, PAGE_WRITE, JMP} : Receive(cmd)
  BY DEF CmdNoEffect
<1>2. Cmd(PacketFromPC) = ProbeKey
  BY <1>1 DEF Receive, Harmless
<1> QED
  BY <1>2 DEF CmdNoEffect, NoReply, Untouched, Effect

(* One whole packet.                                                       *)
LEMMA PacketEffect ==
    ASSUME TypeInv, DeviceStep, pc = "packet", PacketReady => Harmless(PacketFromPC)
    PROVE  /\ PacketReady /\ Effect(PacketFromPC)
           /\ rx' = SubSeq(rx, PacketSize + 1, Len(rx)) /\ tx' = tx /\ UNCHANGED boot
<1>1. \/ CmdEcho \/ CmdPeek \/ CmdPoke \/ CmdPageErase \/ CmdPageWrite \/ CmdNoEffect \/ CmdExec
  BY DEF DeviceStep, LoopEnter, LoopProbe, LoopIgnore, LoopKey2, MonitKey, TakeKey, SendByte, AppReads
<1>2. PICK cmd : Receive(cmd)
  BY <1>1 DEF CmdEcho, CmdPeek, CmdPoke, CmdPageErase, CmdPageWrite, CmdNoEffect, CmdExec
<1>3. /\ PacketReady /\ rx' = SubSeq(rx, PacketSize + 1, Len(rx)) /\ tx' = tx
      /\ Cmd(PacketFromPC) \in {TEST, PEEK, PAGE_ERASE, PAGE_WRITE, ProbeKey}
  BY <1>2 DEF Receive, Harmless
<1>4. ~CmdPoke /\ ~CmdExec
  BY <1>3 DEF CmdPoke, CmdExec, Receive, POKE, JMP, TEST, PEEK, PAGE_ERASE, PAGE_WRITE, ProbeKey
<1>5. Effect(PacketFromPC)
  BY <1>1, <1>3, <1>4, EchoEffect, PeekEffect, EraseEffect, WriteEffect, NoEffect
<1>6. UNCHANGED boot
  BY <1>1, <1>4 DEF CmdEcho, CmdPeek, CmdPageErase, CmdPageWrite, CmdNoEffect, boot
<1> QED
  BY <1>3, <1>5, <1>6

-----------------------------------------------------------------------------
(* A board outside the monitor.                                            *)

LEMMA DeafStep ==
    ASSUME TypeInv, Deaf, DeviceStep
    PROVE  /\ Deaf' /\ Untouched /\ pc' # "resetting" /\ (pc' = "stuck" => pc = "stuck")
           /\ \/ /\ pc = "send" /\ rx' = rx /\ tx' = Append(tx, ProbeAck) /\ pc' = "loop"
              \/ /\ pc # "send" /\ rx # <<>> /\ rx' = Tail(rx) /\ tx' = tx
                 /\ pc' = "send" => rx[1] = ProbeKey
                 /\ pc' = "key2" => rx[1] = EnterKey1
           /\ Mute => Mute'
<1>1. /\ rx \in Seq(Byte) /\ pc \in {"loop", "key2", "send", "app", "stuck"}
      /\ DeviceInv /\ Dull(rx) /\ (pc = "key2" /\ rx # <<>> => rx[1] # EnterKey2)
      /\ pc = "send" => back = "loop" /\ reply = <<ProbeAck>>
  BY Bytes DEF Deaf
<1>2. ASSUME rx # <<>>, rx' = Tail(rx)
      PROVE  /\ Dull(rx') /\ (Unasked(rx) => Unasked(rx') /\ rx[1] # ProbeKey)
             /\ rx[1] = EnterKey1 /\ rx' # <<>> => rx'[1] # EnterKey2
             /\ Head(rx) = rx[1]
  <2>1. Dull(rx') /\ (Unasked(rx) => Unasked(rx'))
    BY <1>1, <1>2, DullPart
  <2>2. /\ Len(rx) \in Nat \ {0} /\ Head(rx) = rx[1] /\ Len(rx') = Len(rx) - 1
        /\ \A i \in 1 .. (Len(rx) - 1) : rx'[i] = rx[1 + i]
        /\ rx' \in Seq(Byte)
    BY <1>1, <1>2, Beheaded
  <2>3. rx' # <<>> => Len(rx') \in Nat \ {0}
    BY <2>2, EmptySeq
  <2>4. ASSUME rx[1] = EnterKey1, rx' # <<>> PROVE rx'[1] # EnterKey2
    <3>1. 1 \in 1 .. Len(rx) - 1
      BY <2>2, <2>3, <2>4
    <3>2. rx'[1] = rx[1 + 1] /\ rx[1 + 1] # EnterKey2
      BY <1>1, <2>2, <2>4, <3>1 DEF Dull
    <3> QED
      BY <3>2
  <2>5. Unasked(rx) => rx[1] # ProbeKey
    BY <2>2 DEF Unasked
  <2> QED
    BY <2>1, <2>2, <2>4, <2>5
<1>3. CASE LoopEnter
  BY <1>1, <1>2, <1>3 DEF LoopEnter, TakeKey, Deaf, Mute, Untouched, EnterKey1, ProbeKey
<1>4. CASE LoopProbe
  BY <1>1, <1>2, <1>4 DEF LoopProbe, TakeKey, Transmit, Deaf, Mute, Untouched
<1>5. CASE LoopIgnore
  BY <1>1, <1>2, <1>5 DEF LoopIgnore, TakeKey, device, Deaf, Mute, Untouched
<1>6. CASE LoopKey2
  <2>1. pc' = "loop" /\ pc = "key2" /\ rx # <<>> /\ rx' = Tail(rx) /\ tx' = tx /\ Untouched
    BY <1>1, <1>2, <1>6 DEF LoopKey2, TakeKey, Untouched
  <2> QED
    BY <1>2, <2>1 DEF Deaf, Mute
<1>7. CASE SendByte
  <2>1. /\ pc = "send" /\ back = "loop" /\ reply = <<ProbeAck>>
        /\ tx' = Append(tx, Head(reply)) /\ pc' = IF Tail(reply) = <<>> THEN back ELSE "send"
        /\ rx' = rx /\ Untouched
    BY <1>1, <1>7 DEF SendByte, Untouched
  <2>2. Head(<<ProbeAck>>) = ProbeAck /\ Tail(<<ProbeAck>>) = <<>>
    OBVIOUS
  <2> QED
    BY <1>1, <2>1, <2>2 DEF Deaf, Mute
<1>8. CASE AppReads
  BY <1>1, <1>2, <1>8 DEF AppReads, device, Deaf, Mute, Untouched
<1> QED
  BY <1>1, <1>3, <1>4, <1>5, <1>6, <1>7, <1>8
     DEF DeviceStep, MonitKey, TakeKey, CmdEcho, CmdPeek, CmdPoke, CmdPageErase,
         CmdPageWrite, CmdNoEffect, CmdExec, Receive, PacketReady

(* The reset button, and the start of a program.                           *)
LEMMA ButtonPressed ==
    ASSUME TypeInv, NEW closed, HardReset(closed)
    PROVE  /\ pc' \in {"loop", "app"} /\ reply' = <<>> /\ back' = "loop" /\ Untouched /\ tx' = tx
           /\ rx' \in Seq(Byte)
           /\ \E k \in 0 .. Len(rx) : rx' = SubSeq(rx, k + 1, Len(rx)) /\ Len(rx') = Len(rx) - k
           /\ Dull(rx) => Deaf'
           /\ Dull(rx) /\ Unasked(rx) => Mute'
<1>1. /\ rx \in Seq(Byte) /\ pc' \in {"loop", "app"} /\ reply' = <<>> /\ back' = "loop"
      /\ Untouched /\ tx' = tx
  BY Bytes DEF HardReset, StartUp, Untouched
<1>2. PICK k \in 0 .. Len(rx) : rx' = SubSeq(rx, k + 1, Len(rx))
  BY DEF HardReset, LoseRing
<1>3. rx' \in Seq(Byte) /\ Len(rx') = Len(rx) - k
  BY <1>1, <1>2, Dropped
<1>4. (Dull(rx) => Dull(rx')) /\ (Unasked(rx) => Unasked(rx'))
  BY <1>1, <1>2, DullPart
<1>5. Dull(rx) => Deaf'
  BY <1>1, <1>4 DEF Deaf
<1>6. Dull(rx) /\ Unasked(rx) => Mute'
  BY <1>1, <1>4, <1>5 DEF Mute
<1>7. \E j \in 0 .. Len(rx) : rx' = SubSeq(rx, j + 1, Len(rx)) /\ Len(rx') = Len(rx) - j
  BY <1>2, <1>3, Zenon
<1> QED
  BY <1>1, <1>3, <1>5, <1>6, <1>7, Zenon

-----------------------------------------------------------------------------
(* The reply of a query, one byte after the other.                         *)

LEMMA ReplyStep ==
    ASSUME TypeInv, Replying, DeviceStep
    PROVE  /\ Untouched /\ rx' = rx /\ (Replying' \/ pc' = "monit")
           /\ tx' \in Seq(Byte) /\ tx' # <<>>
           /\ Answer' = Answer /\ Answer \in Seq(Byte)
           /\ tx # <<>> => tx'[1] = tx[1]
           /\ tx'[1] = (tx \o reply)[1]
           /\ Replying' => (tx' \o reply')[1] = (tx \o reply)[1]
<1>1. /\ pc = "send" /\ back = "monit"
      /\ reply \in Seq(Byte) /\ reply # <<>> /\ tx \in Seq(Byte) /\ rx \in Seq(Byte)
  BY Bytes DEF Replying
<1>2. SendByte
  BY <1>1 DEF DeviceStep, LoopEnter, LoopProbe, LoopIgnore, LoopKey2, MonitKey, TakeKey, AppReads,
     CmdEcho, CmdPeek, CmdPoke, CmdPageErase, CmdPageWrite, CmdNoEffect, CmdExec, Receive, PacketReady
<1>3. /\ tx' = Append(tx, Head(reply)) /\ reply' = Tail(reply)
      /\ pc' = (IF Tail(reply) = <<>> THEN back ELSE "send") /\ back' = back
      /\ rx' = rx /\ Untouched
  BY <1>2 DEF SendByte, Untouched
<1> DEFINE h == Head(reply)
           a == tx \o reply
<1>4. /\ h \in Byte /\ h = reply[1] /\ Tail(reply) \in Seq(Byte)
      /\ Len(reply) \in Nat \ {0} /\ Len(Tail(reply)) = Len(reply) - 1
      /\ \A i \in 1 .. (Len(reply) - 1) : Tail(reply)[i] = reply[1 + i]
  BY <1>1, Beheaded
<1>5. /\ Append(tx, h) \in Seq(Byte) /\ Append(tx, h) # <<>> /\ Len(Append(tx, h)) = Len(tx) + 1
      /\ \A i \in 1 .. Len(tx) : Append(tx, h)[i] = tx[i]
      /\ Append(tx, h)[Len(tx) + 1] = h
      /\ Len(tx) \in Nat
  BY <1>1, <1>4, AppendProperties, LenProperties
<1> HIDE DEF h
<1>6. /\ a \in Seq(Byte) /\ Len(a) = Len(tx) + Len(reply)
      /\ \A i \in 1 .. Len(tx) + Len(reply) : a[i] = IF i <= Len(tx) THEN tx[i] ELSE reply[i - Len(tx)]
  BY <1>1, ConcatProperties
<1> HIDE DEF a
<1>7. Append(tx, h) \o Tail(reply) = a
  <2> DEFINE b == Append(tx, h) \o Tail(reply)
             t == Append(tx, h)
             u == Tail(reply)
  <2>1. /\ b \in Seq(Byte) /\ Len(b) = Len(t) + Len(u)
        /\ \A i \in 1 .. Len(t) + Len(u) : b[i] = IF i <= Len(t) THEN t[i] ELSE u[i - Len(t)]
    BY <1>4, <1>5, ConcatProperties
  <2> HIDE DEF b
  <2>2. Len(b) = Len(a)
    BY <1>4, <1>5, <1>6, <2>1
  <2>3. ASSUME NEW i \in 1 .. Len(a) PROVE b[i] = a[i]
    <3> DEFINE n == Len(tx)
               m == Len(reply)
    <3>1. i \in Nat /\ i >= 1 /\ i <= n + m /\ n \in Nat /\ m \in Nat \ {0}
      BY <1>4, <1>5, <1>6
    <3> HIDE DEF n, m
    <3>2. CASE i <= n
      <4>1. a[i] = tx[i]
        BY <1>6, <3>1, <3>2 DEF n, m
      <4>2. i \in 1 .. Len(t) + Len(u) /\ i <= Len(t) /\ t[i] = tx[i]
        BY <1>4, <1>5, <3>1, <3>2 DEF n, m
      <4> QED
        BY <2>1, <4>1, <4>2
    <3>3. CASE i = n + 1
      <4>1. b[i] = h
        BY <1>5, <1>4, <2>1, <3>1, <3>3 DEF n, m
      <4>2. a[i] = reply[1]
        <5>1. ~(i <= n) /\ i - n = 1
          BY <3>1, <3>3
        <5> QED
          BY <5>1, <1>6, <3>1 DEF n, m
      <4> QED
        BY <4>1, <4>2, <1>4
    <3>4. CASE i > n + 1
      <4>1. ~(i <= n) /\ ~(i <= n + 1) /\ i - (n + 1) \in 1 .. m - 1 /\ 1 + (i - (n + 1)) = i - n
        BY <3>1, <3>4
      <4>2. a[i] = reply[i - n]
        BY <4>1, <1>6, <3>1 DEF n, m
      <4>3. b[i] = u[i - (n + 1)]
        <5>1. i \in 1 .. Len(t) + Len(u) /\ ~(i <= Len(t)) /\ Len(t) = n + 1
          BY <1>4, <1>5, <3>1, <4>1 DEF n, m
        <5> QED
          BY <5>1, <2>1
      <4>4. u[i - (n + 1)] = reply[1 + (i - (n + 1))]
        BY <1>4, <4>1 DEF m
      <4> QED
        BY <4>1, <4>2, <4>3, <4>4
    <3> QED
      BY <3>1, <3>2, <3>3, <3>4
  <2>4. b = a
    BY <1>6, <2>1, <2>2, <2>3, SeqEqual
  <2> QED
    BY <2>4 DEF b
<1>8. Tail(reply) = <<>> => Append(tx, h) = a
  <2>1. Append(tx, h) \o <<>> = Append(tx, h)
    BY <1>5, ConcatEmptySeq
  <2> QED
    BY <1>7, <2>1
<1>9. /\ Replying' <=> Tail(reply) # <<>>
      /\ Replying' \/ pc' = "monit"
  BY <1>1, <1>3 DEF Replying
<1>10. Answer = a
  BY DEF Answer, a
<1>11. Answer' = a
  BY <1>3, <1>7, <1>8, <1>9 DEF Answer, h
<1>12. a[1] = Append(tx, h)[1] /\ (tx # <<>> => a[1] = tx[1])
  <2>1. CASE tx = <<>>
    <3>1. Len(tx) = 0 /\ ~(1 <= Len(tx)) /\ 1 - Len(tx) = 1
      BY <2>1, EmptySeq
    <3>2. a[1] = reply[1]
      BY <1>4, <1>6, <3>1
    <3>3. Append(tx, h)[1] = h
      BY <1>5, <3>1
    <3> QED
      BY <1>4, <2>1, <3>2, <3>3
  <2>2. CASE tx # <<>>
    <3>1. Len(tx) \in Nat \ {0}
      BY <1>1, <2>2, EmptySeq
    <3>2. 1 \in 1 .. Len(tx) /\ 1 <= Len(tx) /\ 1 \in 1 .. Len(tx) + Len(reply)
      BY <1>4, <3>1
    <3>3. a[1] = tx[1]
      BY <1>6, <3>2
    <3>4. Append(tx, h)[1] = tx[1]
      BY <1>5, <3>2
    <3> QED
      BY <3>3, <3>4
  <2> QED
    BY <2>1, <2>2
<1>13. tx' = Append(tx, h)
  BY <1>3 DEF h
<1>14. Replying' => (tx' \o reply') = a
  BY <1>3, <1>7, <1>13
<1> QED
  BY <1>3, <1>5, <1>6, <1>9, <1>10, <1>11, <1>12, <1>13, <1>14 DEF a

-----------------------------------------------------------------------------
(* The packets of the host do no harm.                                     *)

LEMMA Erasable ==
    ASSUME TypeInv, NEW p \in Nat, p < Pages, ToErase(p)
    PROVE  p \in WritablePages
<1>1. p \in 0 .. (Pages - 1) /\ force \in scene.force /\ image \in scene.images /\ (mode = "erase" => force)
  BY Numbers DEF TypeInv, Chosen
<1>2. force \in BOOLEAN
  BY HostAssumption DEF TypeInv, HostInv, HostTypeOK
<1> QED
  BY <1>1, <1>2 DEF ToErase, WritablePages

LEMMA Writable ==
    ASSUME TypeInv, NEW c \in Cells, image[c] # Erased
    PROVE  Holds(image, PageOf(c)) /\ PageOf(c) \in WritablePages
<1>1. PageOf(c) \in 0 .. (Pages - 1) /\ image \in scene.images
  BY PageOfCell DEF TypeInv, Chosen
<1>2. Holds(image, PageOf(c))
  BY DEF Holds, CellsOf
<1> QED
  BY <1>1, <1>2 DEF WritablePages

LEMMA LookingNow ==
    ASSUME TypeInv, mode \in {"read", "verify"}
    PROVE  Looking
  BY DEF TypeInv, Chosen, Looking

LEMMA TestHarmless == Harmless(TestPacket) /\ Plain(TestPacket) /\ Silent(TestPacket)
<1>1. TestPacket \in Packets /\ TestPacket = <<TEST, 0, 0, 0, 0>>
  BY FixedPackets
<1> QED
  BY <1>1 DEF Harmless, Plain, Silent, Programs, Cmd, TEST, PEEK, PAGE_ERASE, PAGE_WRITE, EnterKey1, ProbeKey

LEMMA CellByte == \A c \in Cells : c \in Nat /\ c < 128
  BY Numbers DEF Cells

LEMMA EraseHarmless ==
    ASSUME TypeInv, NEW p \in Nat, p < Pages, p \in WritablePages, ~Reported
    PROVE  /\ Harmless(ErasePacket(p)) /\ Plain(ErasePacket(p)) /\ Silent(ErasePacket(p))
           /\ ErasePacket(p) \in Packets /\ Cmd(ErasePacket(p)) = PAGE_ERASE
           /\ PageOf(Adr(ErasePacket(p))) = p
<1> DEFINE c == p * CellsPerPage
<1>1. ErasePacket(p) \in Packets /\ ErasePacket(p) = <<PAGE_ERASE, 1, c, FlashBase, 0>>
  BY PagePackets
<1>2. c \in Cells /\ PageOf(c) = p /\ c \in Nat /\ c < 128
  <2>1. p <= Pages
    BY Numbers
  <2>2. c \in Cells /\ PageOf(c) = p
    BY <2>1, PageStart
  <2> QED
    BY <2>2, CellByte
<1> HIDE DEF c
<1> QED
  BY <1>1, <1>2 DEF Harmless, Plain, Silent, Programs, Cmd, Adr, Arg, Base, TEST, PEEK, PAGE_ERASE, PAGE_WRITE,
     EnterKey1, ProbeKey, FlashBase

LEMMA WriteHarmless ==
    ASSUME TypeInv, NEW c \in Cells, PageOf(c) \in WritablePages, ~Reported,
           nvmFaults = 0 => flash[c] = Erased
    PROVE  /\ Harmless(WritePacket(c)) /\ Plain(WritePacket(c)) /\ WritePacket(c) \in Packets
           /\ Cmd(WritePacket(c)) = PAGE_WRITE /\ Adr(WritePacket(c)) = c
           /\ Programs(WritePacket(c)) /\ Data(WritePacket(c)) = image[c]
<1>1. /\ WritePacket(c) \in Packets /\ WritePacket(c) = <<PAGE_WRITE, 1, c, FlashBase, image[c]>>
      /\ image[c] \in Value /\ c < 128 /\ c \in Nat
  BY Bytes, CellPackets, CellByte
<1> QED
  BY <1>1 DEF Harmless, Plain, Programs, Cmd, Adr, Arg, Base, Data, TEST, PEEK, PAGE_ERASE, PAGE_WRITE,
     EnterKey1, ProbeKey, FlashBase

LEMMA PeekHarmless ==
    ASSUME TypeInv, NEW c \in Cells, Looking
    PROVE  /\ Harmless(PeekPacket(c)) /\ Plain(PeekPacket(c)) /\ Silent(PeekPacket(c))
           /\ PeekPacket(c) \in Packets /\ Cmd(PeekPacket(c)) = PEEK
           /\ Base(PeekPacket(c)) \in {KSeg0, KSeg0 + FlashBase}
           /\ mode = "read" => InFlash(Base(PeekPacket(c)), Adr(PeekPacket(c))) /\ Adr(PeekPacket(c)) = c
<1>1. /\ PeekPacket(c) \in Packets
      /\ PeekPacket(c) = <<PEEK, 1, c, IF mode = "read" THEN KSeg0 + FlashBase ELSE KSeg0, 0>>
      /\ c < 128 /\ c \in Nat
  BY Bytes, CellPackets, CellByte
<1> QED
  BY <1>1 DEF Harmless, Plain, Silent, Programs, Cmd, Adr, Arg, Base, Data, TEST, PEEK, PAGE_ERASE, PAGE_WRITE,
     EnterKey1, ProbeKey, FlashBase, KSeg0, InFlash

-----------------------------------------------------------------------------
(* What happens to the flash.                                              *)

Grows == nvmFaults' = 0 => nvmFaults = 0

Allowed ==
    /\ Grows
    /\ \/ flash' = flash
       \/ /\ ~Reported
          /\ \/ \E p \in WritablePages : flash' = ErasePage(p)
             \/ \E c \in Cells, v \in Value \cup {ProbeKey} :
                   /\ PageOf(c) \in WritablePages
                   /\ nvmFaults = 0 => flash[c] = Erased
                   /\ flash' = ProgramCell(c, v)

LEMMA EffectAllowed ==
    ASSUME TypeInv, NEW p, Harmless(p), Effect(p)
    PROVE  /\ Allowed
           /\ \A c \in Cells : flash[c] = Erased /\ ~(Programs(p) /\ Adr(p) = c) => flash'[c] = Erased
           /\ Cmd(p) \notin {PAGE_ERASE, PAGE_WRITE} => Untouched
           /\ Cmd(p) = PAGE_ERASE =>
                 flash' = flash \/ (flash' = ErasePage(PageOf(Adr(p))) /\ nvmFaults' = nvmFaults)
           /\ Programs(p) => NVMem(ProgramCell(Adr(p), Data(p)))
           /\ nvmFaults' \in Nat
<1>1. flash \in [Cells -> Byte] /\ nvmFaults \in Nat
  BY Bytes
<1>2. CASE Untouched
  <2>1. Allowed /\ nvmFaults' \in Nat /\ \A c \in Cells : flash[c] = Erased => flash'[c] = Erased
    BY <1>1, <1>2 DEF Untouched, Allowed, Grows
  <2>2. Programs(p) => NVMem(ProgramCell(Adr(p), Data(p)))
    BY DEF Programs, Effect, PAGE_WRITE, TEST, PEEK, PAGE_ERASE, ProbeKey
  <2> QED
    BY <1>2, <2>1, <2>2 DEF Untouched
<1>3. CASE ~Untouched /\ Cmd(p) = PAGE_ERASE
  <2>1. Base(p) % 32 = FlashBase /\ NVMem(ErasePage(PageOf(Adr(p))))
    BY <1>3 DEF Effect, PAGE_WRITE, TEST, PEEK, PAGE_ERASE, ProbeKey
  <2>2. PageOf(Adr(p)) \in WritablePages /\ ~Reported
    BY <1>3, <2>1 DEF Harmless
  <2>3. ~Programs(p)
    BY <1>3 DEF Programs, PAGE_ERASE, PAGE_WRITE
  <2>4. CASE flash' = ErasePage(PageOf(Adr(p))) /\ nvmFaults' = nvmFaults
    <3>1. Allowed
      BY <2>2, <2>4 DEF Allowed, Grows
    <3>2. \A c \in Cells : flash[c] = Erased => flash'[c] = Erased
      BY <2>4 DEF ErasePage
    <3> QED
      BY <1>1, <1>3, <2>3, <2>4, <3>1, <3>2
  <2>5. CASE flash' = flash /\ nvmFaults' = nvmFaults + 1
    BY <1>1, <1>3, <2>3, <2>5 DEF Allowed, Grows
  <2> QED
    BY <2>1, <2>4, <2>5 DEF NVMem
<1>4. CASE ~Untouched /\ Cmd(p) = PAGE_WRITE
  <2>1. Base(p) % 32 = FlashBase /\ NVMem(ProgramCell(Adr(p), Data(p)))
    BY <1>4 DEF Effect, PAGE_WRITE, TEST, PEEK, PAGE_ERASE, ProbeKey
  <2>2. Programs(p) /\ Cmd(p) # PAGE_ERASE
    BY <1>4, <2>1 DEF Programs, PAGE_ERASE, PAGE_WRITE
  <2>3. /\ PageOf(Adr(p)) \in WritablePages /\ ~Reported /\ Adr(p) \in Cells
        /\ nvmFaults = 0 => flash[Adr(p)] = Erased
        /\ Data(p) \in Value \cup {ProbeKey}
    BY <1>4, <2>1, <2>2 DEF Harmless
  <2>4. CASE flash' = ProgramCell(Adr(p), Data(p)) /\ nvmFaults' = nvmFaults
    <3>1. Allowed
      BY <2>3, <2>4 DEF Allowed, Grows
    <3>2. \A c \in Cells : c # Adr(p) => flash'[c] = flash[c]
      BY <1>1, <2>3, <2>4 DEF ProgramCell
    <3> QED
      BY <1>1, <1>4, <2>1, <2>2, <2>4, <3>1, <3>2
  <2>5. CASE flash' = flash /\ nvmFaults' = nvmFaults + 1
    BY <1>1, <1>4, <2>1, <2>2, <2>5 DEF Allowed, Grows
  <2> QED
    BY <2>1, <2>4, <2>5 DEF NVMem
<1> QED
  BY <1>2, <1>3, <1>4 DEF Effect

(* A packet stays harmless while nothing happens to its word, and the      *)
(* others once the first has had its effect.                               *)
LEMMA SameHarmless ==
    ASSUME NEW p, Harmless(p), scene' = scene, Reported' => Reported, Grows,
           Programs(p) /\ flash[Adr(p)] = Erased => flash'[Adr(p)] = Erased
    PROVE  Harmless(p)'
<1>1. WritablePages' = WritablePages /\ Looking' = Looking
  BY DEF WritablePages, Looking
<1>2. Programs(p)' = Programs(p)
  BY DEF Programs
<1>3. Programs(p)' => (nvmFaults' = 0 => flash'[Adr(p)] = Erased) /\ Data(p) \in Value \cup {ProbeKey}
  BY <1>2 DEF Harmless, Grows
<1> QED
  BY <1>1, <1>3 DEF Harmless

LEMMA LineHarmless ==
    ASSUME NEW qs, AllHarmless(qs), scene' = scene, Reported' => Reported, Grows, flash' = flash
    PROVE  AllHarmless(qs)'
<1>1. \A i \in 1 .. Len(qs) : Harmless(qs[i])'
  BY SameHarmless DEF AllHarmless
<1> QED
  BY <1>1 DEF AllHarmless, Programs

LEMMA RestHarmless ==
    ASSUME TypeInv, NEW qs \in Seq(Packets), qs # <<>>, AllHarmless(qs), Effect(qs[1]),
           scene' = scene, UNCHANGED host
    PROVE  AllHarmless(Tail(qs))' /\ Harmless(qs[1])
<1> DEFINE n == Len(qs)
           us == Tail(qs)
<1>1. n \in Nat \ {0} /\ Len(us) = n - 1 /\ \A i \in 1 .. (n - 1) : us[i] = qs[i + 1]
  BY HeadTailProperties, EmptySeq
<1> HIDE DEF n, us
<1>2. Harmless(qs[1]) /\ \A i \in 1 .. (n - 1) : Harmless(us[i])
  <2>1. 1 \in 1 .. n /\ \A i \in 1 .. (n - 1) : i + 1 \in 1 .. n
    BY <1>1
  <2> QED
    BY <1>1, <2>1 DEF AllHarmless, n
<1>3. Reported' = Reported
  BY DEF Reported, host, asked
<1>4. Grows /\ \A c \in Cells : flash[c] = Erased /\ ~(Programs(qs[1]) /\ Adr(qs[1]) = c) => flash'[c] = Erased
  BY <1>2, EffectAllowed DEF Allowed
<1>5. ASSUME NEW i \in 1 .. (n - 1) PROVE Harmless(us[i])'
  <2>1. Programs(us[i]) /\ Programs(qs[1]) => Adr(us[i]) # Adr(qs[1])
    <3>1. i + 1 \in 1 .. n /\ 1 \in 1 .. n /\ i + 1 # 1
      BY <1>1
    <3> QED
      BY <1>1, <3>1 DEF AllHarmless, n
  <2>2. Programs(us[i]) => Adr(us[i]) \in Cells
    BY <1>2 DEF Programs, Harmless
  <2>3. Programs(us[i]) /\ flash[Adr(us[i])] = Erased => flash'[Adr(us[i])] = Erased
    BY <1>4, <2>1, <2>2
  <2> QED
    BY <1>2, <1>3, <1>4, <2>3, SameHarmless
<1>6. ASSUME NEW i \in 1 .. (n - 1), NEW j \in 1 .. (n - 1), i # j, Programs(us[i]), Programs(us[j])
      PROVE  Adr(us[i]) # Adr(us[j])
  <2>1. i + 1 \in 1 .. n /\ j + 1 \in 1 .. n /\ i + 1 # j + 1
    BY <1>1, <1>6
  <2>2. us[i] = qs[i + 1] /\ us[j] = qs[j + 1]
    BY <1>1, Zenon
  <2>3. Programs(qs[i + 1]) /\ Programs(qs[j + 1])
    BY <1>6, <2>2
  <2>4. Adr(qs[i + 1]) # Adr(qs[j + 1])
    BY <2>1, <2>3 DEF AllHarmless, n
  <2> QED
    BY <2>2, <2>4
<1>7. AllHarmless(us)'
  <2>1. \A p : Programs(p)' = Programs(p)
    BY DEF Programs
  <2> QED
    BY <1>1, <1>5, <1>6, <2>1 DEF AllHarmless
<1> QED
  BY <1>2, <1>7 DEF us

-----------------------------------------------------------------------------
(* The board takes what is on the line: a marker, a packet.                *)

LEMMA MarkerStep ==
    ASSUME TypeInv, pc = "monit", NEW qs, Carries(qs), DeviceStep
    PROVE  /\ qs # <<>> /\ pc' = "packet" /\ rx # <<>> /\ rx' = Tail(rx) /\ rx' \in Seq(Byte)
           /\ Carries(qs)' /\ (Full(qs) => Full(qs)')
           /\ Untouched /\ tx' = tx /\ UNCHANGED <<back, reply, boot>>
<1>1. MonitKey
  BY DEF DeviceStep, LoopEnter, LoopProbe, LoopIgnore, LoopKey2, TakeKey, AppReads, SendByte,
     CmdEcho, CmdPeek, CmdPoke, CmdPageErase, CmdPageWrite, CmdNoEffect, CmdExec, Receive, PacketReady
<1>2. PICK b \in 0 .. 255 : TakeKey("monit", b) /\ pc' = IF b = Marker THEN "packet" ELSE "loop"
  BY <1>1 DEF MonitKey
<1>3. Untouched /\ tx' = tx /\ UNCHANGED <<back, reply, boot>>
  BY <1>1 DEF MonitKey, Untouched
<1>4. rx \in Seq(Byte) /\ rx # <<>> /\ Head(rx) = b /\ rx' = Tail(rx) /\ Head(rx) = rx[1]
  BY <1>2, Bytes, Beheaded DEF TakeKey
<1>5. Framed(rx, 0, qs)
  BY DEF Carries, Taken
<1>6. /\ b = Marker /\ qs # <<>> /\ Framed(rx', 1, qs) /\ Len(rx') + 1 = Len(rx) /\ rx' \in Seq(Byte)
      /\ Len(rx) \in Nat
  BY <1>4, <1>5, FramedTail, Beheaded
<1>7. pc' = "packet"
  BY <1>2, <1>6
<1>8. Carries(qs)'
  BY <1>6, <1>7 DEF Carries, Taken
<1>9. Full(qs) => Full(qs)'
  BY <1>6, <1>7 DEF Full, Taken
<1> QED
  BY <1>3, <1>4, <1>6, <1>7, <1>8, <1>9

LEMMA PacketStep ==
    ASSUME TypeInv, pc = "packet", NEW qs, Carries(qs), DeviceStep, qs # <<>> => Harmless(qs[1])
    PROVE  /\ qs # <<>> /\ qs[1] \in Packets /\ Harmless(qs[1]) /\ Effect(qs[1])
           /\ pc' \in {"monit", "send", "stuck"} /\ (pc' = "send" => Replying')
           /\ pc' = "stuck" => Cmd(qs[1]) = PEEK /\ Base(qs[1]) \notin {KSeg0, KSeg0 + FlashBase}
           /\ Framed(rx', 0, Tail(qs)) /\ rx' \in Seq(Byte)
           /\ Carries(Tail(qs))' /\ (Full(qs) => Full(Tail(qs))')
           /\ tx' = tx /\ UNCHANGED boot
<1>1. rx \in Seq(Byte) /\ Framed(rx, 1, qs)
  BY Bytes DEF Carries, Taken
<1>2. ASSUME PacketReady
      PROVE  /\ qs # <<>> /\ PacketFromPC = qs[1] /\ qs[1] \in Packets
             /\ Framed(SubSeq(rx, PacketSize + 1, Len(rx)), 0, Tail(qs))
             /\ Len(rx) + 1 = FrameSize * Len(qs) =>
                   Len(SubSeq(rx, PacketSize + 1, Len(rx))) = FrameSize * Len(Tail(qs))
  BY <1>1, <1>2, FramedDrop DEF PacketReady, PacketFromPC
<1>3. /\ PacketReady /\ Effect(PacketFromPC)
      /\ rx' = SubSeq(rx, PacketSize + 1, Len(rx)) /\ tx' = tx /\ UNCHANGED boot
  BY <1>2, PacketEffect
<1>4. qs # <<>> /\ qs[1] \in Packets /\ Harmless(qs[1]) /\ Effect(qs[1]) /\ Framed(rx', 0, Tail(qs))
  BY <1>2, <1>3
<1>5. /\ pc' \in {"monit", "send", "stuck"} /\ (pc' = "send" => Replying')
      /\ pc' = "stuck" => Cmd(qs[1]) = PEEK /\ Base(qs[1]) \notin {KSeg0, KSeg0 + FlashBase}
  BY <1>4 DEF Effect, Replying
<1>6. Carries(Tail(qs))'
  BY <1>4, <1>5 DEF Carries, Taken
<1>7. Full(qs) => Full(Tail(qs))'
  <2>1. Taken' = 0 /\ Taken = 1
    BY <1>5 DEF Taken
  <2>2. Full(qs) => Len(rx') = FrameSize * Len(Tail(qs))
    BY <1>2, <1>3, <2>1 DEF Full
  <2>3. rx' \in Seq(Byte) /\ Len(rx') \in Nat
    <3>1. PacketSize \in 0 .. Len(rx)
      BY <1>1, <1>3, LenProperties, Six DEF PacketReady
    <3> QED
      BY <1>1, <1>3, <3>1, Dropped, LenProperties
  <2> QED
    BY <2>1, <2>2, <2>3 DEF Full
<1>8. rx' \in Seq(Byte)
  <2>1. PacketSize \in 0 .. Len(rx)
    BY <1>1, <1>3, LenProperties, Six DEF PacketReady
  <2> QED
    BY <1>1, <1>3, <2>1, Dropped
<1> QED
  BY <1>3, <1>4, <1>5, <1>6, <1>7, <1>8

LEMMA AllPlain ==
    ASSUME NEW qs, AllHarmless(qs)
    PROVE  \A i \in 1 .. Len(qs) : Plain(qs[i])
  BY DEF AllHarmless, Harmless, Plain

(* A line full of harmless packets.                                        *)
LEMMA LeftStep ==
    ASSUME TypeInv, InMonitor \/ Replying, NEW qs, AllHarmless(qs), Carries(qs),
           DeviceStep, UNCHANGED <<host, scene>>
    PROVE  /\ Allowed /\ pc' # "resetting" /\ pc' # "app"
           /\ \/ Deaf' /\ pc' = "stuck"
              \/ /\ (InMonitor \/ Replying)'
                 /\ \E us \in Seq(Packets) : AllHarmless(us)' /\ Carries(us)'
<1>1. Reported' = Reported /\ scene' = scene /\ qs \in Seq(Packets)
  BY DEF Reported, host, asked, Carries, Framed
<1>2. CASE pc = "monit"
  <2>1. /\ pc' = "packet" /\ Carries(qs)' /\ Untouched
    BY <1>2, MarkerStep
  <2>2. Allowed /\ Grows
    BY <2>1 DEF Allowed, Grows, Untouched
  <2>3. AllHarmless(qs)'
    BY <1>1, <2>1, <2>2, LineHarmless DEF Untouched
  <2> QED
    BY <1>1, <2>1, <2>2, <2>3 DEF InMonitor
<1>3. CASE pc = "packet"
  <2>1. qs # <<>> => Harmless(qs[1])
    <3>1. qs # <<>> => 1 \in 1 .. Len(qs)
      BY <1>1, EmptySeq
    <3> QED
      BY <3>1 DEF AllHarmless
  <2>2. /\ qs # <<>> /\ Harmless(qs[1]) /\ Effect(qs[1])
        /\ pc' \in {"monit", "send", "stuck"} /\ (pc' = "send" => Replying')
        /\ Framed(rx', 0, Tail(qs)) /\ rx' \in Seq(Byte) /\ Carries(Tail(qs))'
    BY <1>3, <2>1, PacketStep
  <2>3. Allowed /\ AllHarmless(Tail(qs))'
    BY <1>1, <2>2, RestHarmless, EffectAllowed
  <2>4. Tail(qs) \in Seq(Packets)
    BY <2>2 DEF Framed
  <2>5. CASE pc' = "stuck"
    <3>1. \A i \in 1 .. Len(Tail(qs)) : Plain(Tail(qs)[i])
      BY <2>3 DEF AllHarmless, Harmless, Plain
    <3>2. Dull(rx')
      BY <2>2, <3>1, DullFrames
    <3> QED
      BY <2>3, <2>5, <3>2 DEF Deaf
  <2> QED
    BY <2>2, <2>3, <2>4, <2>5 DEF InMonitor
<1>4. CASE Replying
  <2>1. Untouched /\ rx' = rx /\ (Replying' \/ pc' = "monit") /\ pc = "send"
    BY <1>4, ReplyStep DEF Replying
  <2>2. Allowed /\ Grows
    BY <2>1 DEF Allowed, Grows, Untouched
  <2>3. AllHarmless(qs)'
    BY <1>1, <2>1, <2>2, LineHarmless DEF Untouched
  <2>4. Carries(qs)'
    BY <2>1 DEF Carries, Taken, Replying
  <2> QED
    BY <1>1, <2>1, <2>2, <2>3, <2>4 DEF InMonitor, Replying
<1> QED
  BY <1>2, <1>3, <1>4 DEF InMonitor

-----------------------------------------------------------------------------
(* The bytes that open a session.                                          *)

LEMMA HelloBytes ==
    /\ Hello \in Seq(Byte) /\ Len(Hello) = 8
    /\ Hello[1] = EnterKey1 /\ Hello[2] = EnterKey2
    /\ \A i \in 1 .. 6 : Hello[i + 2] = Frame(TestPacket)[i]
    /\ \A i \in 1 .. 8 : Hello[i] # ProbeKey /\ (i # 1 => Hello[i] # EnterKey1)
<1> DEFINE keys == <<EnterKey1, EnterKey2>>
           f == Frame(TestPacket)
<1>1. keys \in Seq(Byte) /\ Len(keys) = 2 /\ keys[1] = EnterKey1 /\ keys[2] = EnterKey2
  BY DEF EnterKey1, EnterKey2, Byte
<1>2. f \in Seq(Byte) /\ Len(f) = 6 /\ f[1] = Marker /\ \A i \in 1 .. 5 : f[i + 1] = TestPacket[i]
  BY FixedPackets, FrameBytes, Six
<1> HIDE DEF keys, f
<1>3. /\ keys \o f \in Seq(Byte) /\ Len(keys \o f) = Len(keys) + Len(f)
      /\ \A i \in 1 .. Len(keys) + Len(f) :
            (keys \o f)[i] = IF i <= Len(keys) THEN keys[i] ELSE f[i - Len(keys)]
  BY <1>1, <1>2, ConcatProperties
<1>4. Hello = keys \o f
  BY DEF Hello, keys, f
<1>5. /\ Hello[1] = EnterKey1 /\ Hello[2] = EnterKey2 /\ Hello[3] = f[1] /\ Hello[4] = f[2]
      /\ Hello[5] = f[3] /\ Hello[6] = f[4] /\ Hello[7] = f[5] /\ Hello[8] = f[6]
  <2>1. \A i \in 1 .. 8 : Hello[i] = IF i <= 2 THEN keys[i] ELSE f[i - 2]
    <3>1. Len(keys) + Len(f) = 8 /\ Len(keys) = 2
      BY <1>1, <1>2
    <3> QED
      BY <1>3, <1>4, <3>1
  <2>2. \A i \in 3 .. 8 : Hello[i] = f[i - 2]
    BY <2>1
  <2>3. Hello[3] = f[3 - 2] /\ Hello[4] = f[4 - 2] /\ Hello[5] = f[5 - 2]
    BY <2>2
  <2>4. Hello[6] = f[6 - 2] /\ Hello[7] = f[7 - 2] /\ Hello[8] = f[8 - 2]
    BY <2>2
  <2> QED
    BY <1>1, <2>1, <2>3, <2>4
<1>6. TestPacket = <<TEST, 0, 0, 0, 0>>
  BY FixedPackets
<1>7. f[1] = 1 /\ f[2] = 1 /\ f[3] = 0 /\ f[4] = 0 /\ f[5] = 0 /\ f[6] = 0
  <2>1. f[1 + 1] = TestPacket[1] /\ f[2 + 1] = TestPacket[2] /\ f[3 + 1] = TestPacket[3]
        /\ f[4 + 1] = TestPacket[4] /\ f[5 + 1] = TestPacket[5]
    BY <1>2
  <2> QED
    BY <1>2, <1>6, <2>1 DEF Marker, TEST
<1>8. \A i \in 1 .. 6 : Hello[i + 2] = f[i]
  BY <1>5
<1>9. \A i \in 1 .. 8 : Hello[i] # ProbeKey /\ (i # 1 => Hello[i] # EnterKey1)
  BY <1>5, <1>7 DEF ProbeKey, EnterKey1, EnterKey2
<1> QED
  <2>1. Hello \in Seq(Byte) /\ Len(Hello) = 8 /\ Hello[1] = EnterKey1 /\ Hello[2] = EnterKey2
    BY <1>1, <1>2, <1>3, <1>4, <1>5
  <2>2. \A i \in 1 .. 6 : Hello[i + 2] = Frame(TestPacket)[i]
    BY <1>8 DEF f
  <2> QED
    BY <1>9, <2>1, <2>2

LEMMA OpeningStep ==
    ASSUME TypeInv, Opening, DeviceStep
    PROVE  /\ Untouched /\ tx' = tx /\ rx # <<>> /\ rx' = Tail(rx)
           /\ \/ Opening' /\ pc' = "key2" /\ (Open => Open')
              \/ pc' = "monit" /\ Carries(<<TestPacket>>)' /\ (Open => Full(<<TestPacket>>)')
              \/ pc' = "app" /\ Mute'
<1>1. /\ rx \in Seq(Byte) /\ Len(rx) \in Nat /\ TestPacket \in Packets
      /\ pc \in {"loop", "app", "key2"}
  BY Bytes, FixedPackets DEF Opening
<1>2. Head(rx) = rx[1] /\ Len(rx) \in Nat \ {0} /\ rx # <<>>
      => /\ Len(Tail(rx)) = Len(rx) - 1
         /\ \A i \in 1 .. (Len(rx) - 1) : Tail(rx)[i] = rx[1 + i]
  BY <1>1, Beheaded
<1>3. rx # <<>> => Head(rx) = rx[1] /\ Len(rx) \in Nat \ {0} /\ Tail(rx) \in Seq(Byte)
  BY <1>1, Beheaded
<1>4. CASE pc = "loop"
  <2>1. Len(rx) <= 8 /\ \A i \in 1 .. Len(rx) : rx[i] = Hello[i]
    BY <1>4, HelloBytes DEF Opening
  <2>2. rx # <<>> => Head(rx) = EnterKey1
    BY <1>3, <2>1, HelloBytes
  <2>3. LoopEnter
    BY <1>4, <2>2 DEF DeviceStep, LoopProbe, LoopIgnore, LoopKey2, MonitKey, TakeKey, AppReads, SendByte,
       CmdEcho, CmdPeek, CmdPoke, CmdPageErase, CmdPageWrite, CmdNoEffect, CmdExec, Receive, PacketReady,
       EnterKey1, ProbeKey
  <2>4. pc' = "key2" /\ rx # <<>> /\ rx' = Tail(rx) /\ tx' = tx /\ Untouched
    BY <2>3 DEF LoopEnter, TakeKey, Untouched
  <2>5. /\ Len(rx') = Len(rx) - 1 /\ Len(rx) \in Nat \ {0}
        /\ \A i \in 1 .. (Len(rx) - 1) : rx'[i] = rx[1 + i]
    BY <1>2, <1>3, <2>4
  <2>6. \A i \in 1 .. Len(rx') : rx'[i] = Hello[i + 1]
    <3> SUFFICES ASSUME NEW i \in 1 .. (Len(rx) - 1) PROVE rx'[i] = Hello[i + 1]
      BY <2>5
    <3>1. 1 + i \in 1 .. Len(rx) /\ 1 + i = i + 1
      BY <2>5
    <3> QED
      BY <2>1, <2>5, <3>1
  <2>7. Opening' /\ (Open => Open')
    BY <1>4, <2>1, <2>4, <2>5, <2>6, HelloBytes DEF Opening, Open
  <2> QED
    BY <2>4, <2>7
<1>5. CASE pc = "key2"
  <2>1. Len(rx) < 8 /\ \A i \in 1 .. Len(rx) : rx[i] = Hello[i + 1]
    BY <1>5, HelloBytes DEF Opening
  <2>2. rx # <<>> => Head(rx) = EnterKey2
    <3>1. rx # <<>> => 1 \in 1 .. Len(rx) /\ 1 + 1 = 2
      BY <1>3
    <3> QED
      BY <1>3, <2>1, <3>1, HelloBytes
  <2>3. LoopKey2
    BY <1>5 DEF DeviceStep, LoopEnter, LoopProbe, LoopIgnore, MonitKey, TakeKey, AppReads, SendByte,
       CmdEcho, CmdPeek, CmdPoke, CmdPageErase, CmdPageWrite, CmdNoEffect, CmdExec, Receive, PacketReady
  <2>4. pc' = "monit" /\ rx # <<>> /\ rx' = Tail(rx) /\ tx' = tx /\ Untouched
    BY <2>2, <2>3 DEF LoopKey2, TakeKey, Untouched
  <2>5. /\ Len(rx') = Len(rx) - 1 /\ Len(rx) \in Nat \ {0} /\ rx' \in Seq(Byte)
        /\ \A i \in 1 .. (Len(rx) - 1) : rx'[i] = rx[1 + i]
    BY <1>2, <1>3, <2>4
  <2> DEFINE f == Frame(TestPacket)
  <2>6. f \in Seq(Byte) /\ Len(f) = 6 /\ Framed(f, 0, <<TestPacket>>) /\ Len(<<TestPacket>>) = 1
        /\ <<TestPacket>> \in Seq(Packets)
    BY <1>1, FrameBytes, FramedOne, Six
  <2>7. \A i \in 1 .. Len(rx') : rx'[i] = f[i]
    <3> SUFFICES ASSUME NEW i \in 1 .. (Len(rx) - 1) PROVE rx'[i] = f[i]
      BY <2>5
    <3>1. 1 + i \in 1 .. Len(rx) /\ (1 + i) + 1 = i + 2 /\ i \in 1 .. 6
      BY <2>1, <2>5
    <3>2. rx'[i] = Hello[(1 + i) + 1] /\ Hello[i + 2] = f[i]
      BY <2>1, <2>5, <3>1, HelloBytes
    <3> QED
      BY <3>1, <3>2
  <2> HIDE DEF f
  <2>8. Framed(rx', 0, <<TestPacket>>)
    <3>1. Len(rx') \in Nat /\ Len(rx') <= 6
      BY <2>1, <2>5
    <3>2. \A i \in 1 .. 6 : f[i] = At(<<TestPacket>>, i + 0)
      BY <2>6 DEF Framed
    <3>3. \A i \in 1 .. Len(rx') : rx'[i] = At(<<TestPacket>>, i + 0)
      BY <2>7, <3>1, <3>2
    <3>4. Len(rx') + 0 <= FrameSize * Len(<<TestPacket>>)
      BY <2>6, <3>1, Six
    <3> QED
      BY <2>6, <3>3, <3>4 DEF Framed
  <2>9. Carries(<<TestPacket>>)'
    BY <2>4, <2>8 DEF Carries, Taken
  <2>10. Open => Full(<<TestPacket>>)'
    <3>1. Open => Len(rx) + 1 = 8
      BY <1>5, HelloBytes DEF Open
    <3>2. Taken' = 0
      BY <2>4 DEF Taken
    <3>3. FrameSize * Len(<<TestPacket>>) = 6
      BY <2>6, Six
    <3>4. Full(<<TestPacket>>)' <=> Len(rx') + Taken' = FrameSize * Len(<<TestPacket>>)
      BY DEF Full
    <3> QED
      BY <2>5, <3>1, <3>2, <3>3, <3>4
  <2> QED
    BY <2>4, <2>9, <2>10
<1>6. CASE pc = "app"
  <2>1. Len(rx) <= 8 /\ \A i \in 1 .. Len(rx) : rx[i] = Hello[i]
    BY <1>6, HelloBytes DEF Opening
  <2>2. AppReads
    BY <1>6 DEF DeviceStep, LoopEnter, LoopProbe, LoopIgnore, LoopKey2, MonitKey, TakeKey, SendByte,
       CmdEcho, CmdPeek, CmdPoke, CmdPageErase, CmdPageWrite, CmdNoEffect, CmdExec, Receive, PacketReady
  <2>3. pc' = "app" /\ rx # <<>> /\ rx' = Tail(rx) /\ tx' = tx /\ Untouched
    BY <1>6, <2>2 DEF AppReads, device, Untouched
  <2>4. /\ Len(rx') = Len(rx) - 1 /\ Len(rx) \in Nat \ {0}
        /\ \A i \in 1 .. (Len(rx) - 1) : rx'[i] = rx[1 + i]
    BY <1>2, <1>3, <2>3
  <2>5. \A i \in 1 .. Len(rx') : rx'[i] # EnterKey1 /\ rx'[i] # ProbeKey
    <3> SUFFICES ASSUME NEW i \in 1 .. (Len(rx) - 1) PROVE rx'[i] # EnterKey1 /\ rx'[i] # ProbeKey
      BY <2>4
    <3>1. 1 + i \in 1 .. Len(rx) /\ 1 + i \in 1 .. 8 /\ 1 + i # 1
      BY <2>1, <2>4
    <3>2. rx'[i] = Hello[1 + i]
      BY <2>1, <2>4, <3>1
    <3> QED
      BY <3>1, <3>2, HelloBytes
  <2>6. Mute'
    <3>1. Len(rx') \in Nat
      BY <2>4
    <3>2. Unasked(rx')
      BY <2>5 DEF Unasked
    <3>3. Dull(rx')
      <4>1. \A i \in 1 .. Len(rx') - 1 : i \in 1 .. Len(rx')
        BY <3>1
      <4> QED
        BY <2>5, <4>1 DEF Dull
    <3> QED
      BY <2>3, <3>2, <3>3 DEF Mute, Deaf
  <2> QED
    BY <2>3, <2>6
<1> QED
  BY <1>1, <1>4, <1>5, <1>6

-----------------------------------------------------------------------------
(* What the host knows of the flash, and what is never on it, outlive what *)
(* the board may do to it.                                                 *)

LEMMA CleanKept ==
    ASSUME TypeInv, NEW n, Clean(n), image' = image,
           flash' = flash \/ \E q : flash' = ErasePage(q)
    PROVE  Clean(n)'
  BY DEF Clean, ErasePage

LEMMA EndKept ==
    ASSUME flash' = flash, NEW c
    PROVE  IsFlashEnd(c)' <=> IsFlashEnd(c)
  BY DEF IsFlashEnd

LEMMA ProgressKept ==
    ASSUME TypeInv, Progress, UNCHANGED host, Allowed,
           hpc \in {"caps", "erase", "peek", "peeking", "exit", "ended"} => flash' = flash,
           hpc = "erasing" => flash' = flash \/ \E q : flash' = ErasePage(q)
    PROVE  Progress'
<1>1. /\ hpc' = hpc /\ at' = at /\ image' = image /\ mode' = mode /\ verdict' = verdict
      /\ flashEnd' = flashEnd /\ usedEnd' = usedEnd /\ dump' = dump
  BY DEF host, asked, sizes
<1>2. Failed' = Failed /\ Reported' = Reported
  BY <1>1 DEF Failed, Reported
<1>3. Grows /\ (Reported => flash' = flash)
  BY DEF Allowed
<1>4. Reported' => (nvmFaults' = 0 => Complete(flash', image'))
  BY <1>1, <1>2, <1>3 DEF Progress, Grows
<1>5. hpc \in {"erase", "erasing"} /\ mode = "write" /\ nvmFaults' = 0 => Clean(at)'
  <2> SUFFICES ASSUME hpc \in {"erase", "erasing"}, mode = "write", nvmFaults' = 0 PROVE Clean(at)'
    OBVIOUS
  <2>1. PICK n : n = at
    OBVIOUS
  <2>2. Clean(n)
    BY <1>3, <2>1 DEF Progress, Grows
  <2>3. flash' = flash \/ \E q : flash' = ErasePage(q)
    OBVIOUS
  <2>4. Clean(n)'
    BY <1>1, <2>2, <2>3, CleanKept
  <2> QED
    BY <1>1, <2>1, <2>4 DEF Clean
<1>6. mode = "read" /\ hpc \in {"peek", "peeking"} =>
         /\ usedEnd' \in Cells /\ IsFlashEnd(usedEnd)'
         /\ \A c \in Cells : dump'[c] = IF c < at' THEN flash'[c] ELSE Erased
  BY <1>1 DEF Progress, IsFlashEnd
<1>7. mode = "read" /\ hpc \in {"exit", "ended"} =>
         \A c \in Cells : dump'[c] = flash'[c] \/ (IsFlashEnd(c)' /\ c % StepCells = 0)
  BY <1>1, EndKept DEF Progress
<1>8. hpc = "erasing" => ToErase(at)'
  BY <1>1 DEF Progress, ToErase, host, asked
<1> QED
  BY <1>1, <1>2, <1>4, <1>5, <1>6, <1>7, <1>8 DEF Progress

LEMMA SafeKept ==
    ASSUME TypeInv, Safe, Allowed, pc' = "stuck" => hpc' \in {"off", "probe"},
           pc' = "resetting" => hpc' = "ended"
    PROVE  Safe'
<1>1. flash \in [Cells -> Byte] /\ Erased \in Value /\ Garbled \in Value
  BY Bytes, Numbers
<1>2. ASSUME ProbeAck \notin Value, NEW c \in Cells PROVE flash'[c] # ProbeAck
  <2>1. \A d \in Cells : flash[d] # ProbeAck
    BY <1>2 DEF Safe
  <2>2. CASE flash' = flash
    BY <1>2, <2>1, <2>2
  <2>3. CASE \E q : flash' = ErasePage(q)
    <3>1. flash'[c] = Erased \/ flash'[c] = flash[c]
      BY <1>2, <2>3 DEF ErasePage
    <3> QED
      BY <1>1, <1>2, <2>1, <3>1
  <2>4. ASSUME NEW d \in Cells, NEW v \in Value \cup {ProbeKey}, flash' = ProgramCell(d, v)
        PROVE  flash'[c] # ProbeAck
    <3>1. flash'[c] = flash[c] \/ flash'[c] = Programmed(flash[d], v)
      BY <1>1, <2>4 DEF ProgramCell
    <3>2. Programmed(flash[d], v) \in {flash[d], v, Garbled}
      BY DEF Programmed
    <3>3. v # ProbeAck /\ Garbled # ProbeAck
      BY <1>1, <1>2 DEF ProbeKey, ProbeAck
    <3> QED
      BY <1>2, <2>1, <3>1, <3>2, <3>3
  <2> QED
    BY <2>2, <2>3, <2>4 DEF Allowed
<1> QED
  BY <1>2 DEF Safe

LEMMA Still ==
    ASSUME Untouched
    PROVE  Allowed /\ Grows /\ flash' = flash
  BY DEF Untouched, Allowed, Grows

(* A board that has nothing to do does nothing.                            *)
LEMMA Idle ==
    ASSUME rx = <<>>, pc \in {"loop", "key2", "monit", "app", "stuck"}
    PROVE  ~DeviceStep
  BY DEF DeviceStep, LoopEnter, LoopProbe, LoopIgnore, LoopKey2, MonitKey, TakeKey, AppReads, SendByte,
     CmdEcho, CmdPeek, CmdPoke, CmdPageErase, CmdPageWrite, CmdNoEffect, CmdExec, Receive, PacketReady

(* A probe ends the monitor.                                               *)
LEMMA NoMarkerStep ==
    ASSUME TypeInv, pc = "monit", rx # <<>>, rx[1] # Marker, DeviceStep
    PROVE  pc' = "loop" /\ rx' = Tail(rx) /\ tx' = tx /\ Untouched
<1>1. MonitKey
  BY DEF DeviceStep, LoopEnter, LoopProbe, LoopIgnore, LoopKey2, TakeKey, AppReads, SendByte,
     CmdEcho, CmdPeek, CmdPoke, CmdPageErase, CmdPageWrite, CmdNoEffect, CmdExec, Receive, PacketReady
<1>2. Head(rx) = rx[1]
  BY Bytes, Beheaded
<1> QED
  BY <1>1, <1>2 DEF MonitKey, TakeKey, Untouched

LEMMA ProbeStep ==
    ASSUME TypeInv, pc = "monit", rx = <<ProbeKey>>, DeviceStep
    PROVE  pc' = "loop" /\ rx' = <<>> /\ tx' = tx /\ Untouched /\ Deaf'
<1>1. rx # <<>> /\ rx[1] = ProbeKey /\ Tail(rx) = <<>>
  OBVIOUS
<1>2. pc' = "loop" /\ rx' = <<>> /\ tx' = tx /\ Untouched
  BY <1>1, NoMarkerStep DEF ProbeKey, Marker
<1> QED
  BY <1>2, NoBytes DEF Deaf

-----------------------------------------------------------------------------
(* The board's steps, for each place of the host.                          *)

BoardTurn(where) ==
    /\ TypeInv /\ IInv /\ Steady
    /\ DeviceStep /\ UNCHANGED <<host, scene, faults>>
    /\ hpc = where

Kept == Situation' /\ Progress' /\ Safe' /\ Allowed

LEMMA KeptBy ==
    ASSUME NEW where, BoardTurn(where), Allowed, Situation',
           pc' = "stuck" => hpc \in {"off", "probe"},
           pc' = "resetting" => hpc = "ended",
           hpc \in {"caps", "erase", "peek", "peeking", "exit", "ended"} => flash' = flash,
           hpc = "erasing" => flash' = flash \/ \E q : flash' = ErasePage(q)
    PROVE  Kept
<1>1. TypeInv /\ Progress /\ Safe /\ UNCHANGED host /\ hpc' = hpc
  BY DEF BoardTurn, IInv, host
<1>2. Progress'
  BY <1>1, ProgressKept
<1>3. Safe'
  BY <1>1, SafeKept
<1> QED
  BY <1>2, <1>3 DEF Kept

LEMMA BoardOff ==
    ASSUME BoardTurn("off")
    PROVE  Kept
<1>1. TypeInv /\ DeviceStep /\ hpc = "off" /\ hpc' = "off" /\ Off /\ UNCHANGED <<host, scene>>
  BY DEF BoardTurn, IInv, Situation, host
<1>2. CASE Deaf
  <2>1. Deaf' /\ Untouched /\ pc' # "resetting"
    BY <1>1, <1>2, DeafStep
  <2>2. Situation'
    BY <1>1, <2>1 DEF Situation, Off
  <2> QED
    BY <1>1, <2>1, <2>2, Still, KeptBy
<1>3. CASE scene.kills > 0 /\ Opening
  <2>1. Untouched /\ (Opening' \/ Deaf' \/ (pc' = "monit" /\ Carries(<<TestPacket>>)')) /\ pc' # "resetting"
    BY <1>1, <1>3, OpeningStep DEF Mute
  <2>2. AllHarmless(<<TestPacket>>)'
    <3>1. Harmless(TestPacket) /\ TestPacket \in Packets /\ ~Programs(TestPacket)
      BY TestHarmless, FixedPackets DEF Programs, Cmd, TEST, PAGE_WRITE
    <3>2. Len(<<TestPacket>>) = 1 /\ <<TestPacket>>[1] = TestPacket /\ <<TestPacket>> \in Seq(Packets)
      BY <3>1, FramedOne
    <3>3. AllHarmless(<<TestPacket>>)
      BY <3>1, <3>2 DEF AllHarmless
    <3> QED
      BY <1>1, <2>1, <3>3, Still, LineHarmless DEF Reported, host, asked
  <2>3. <<TestPacket>> \in Seq(Packets)
    BY FixedPackets, FramedOne
  <2>4. Off'
    BY <1>1, <1>3, <2>1, <2>2, <2>3 DEF Off, Left, InMonitor
  <2>5. Situation'
    BY <1>1, <2>4 DEF Situation
  <2> QED
    BY <1>1, <2>1, <2>5, Still, KeptBy
<1>4. CASE scene.kills > 0 /\ pc = "monit" /\ rx = <<ProbeKey>>
  <2>1. Deaf' /\ Untouched /\ pc' # "resetting"
    BY <1>1, <1>4, ProbeStep
  <2>2. Situation'
    BY <1>1, <2>1 DEF Situation, Off
  <2> QED
    BY <1>1, <2>1, <2>2, Still, KeptBy
<1>5. CASE scene.kills > 0 /\ (InMonitor \/ Replying) /\ \E qs \in Seq(Packets) : AllHarmless(qs) /\ Carries(qs)
  <2>1. PICK qs \in Seq(Packets) : AllHarmless(qs) /\ Carries(qs)
    BY <1>5
  <2>2. /\ Allowed /\ pc' # "resetting"
        /\ \/ Deaf'
           \/ /\ (InMonitor \/ Replying)'
              /\ \E us \in Seq(Packets) : AllHarmless(us)' /\ Carries(us)'
    BY <1>1, <1>5, <2>1, LeftStep
  <2>3. Left' \/ Deaf'
    BY <2>2 DEF Left
  <2>4. Situation'
    BY <1>1, <1>5, <2>3 DEF Situation, Off
  <2> QED
    BY <1>1, <2>2, <2>4, KeptBy
<1> QED
  BY <1>1, <1>2, <1>3, <1>4, <1>5 DEF Off, Left

(* The first byte of a reply in the monitor is not taken for the answer.   *)
LEMMA FirstByte ==
    ASSUME TypeInv, Safe, Steady, scene.kills > 0, NEW p, Harmless(p), Effect(p), Replying'
    PROVE  reply'[1] # ProbeAck
<1>1. CASE Cmd(p) = PEEK
  <2>1. Looking /\ ProbeAck \notin Value /\ \A c \in Cells : flash[c] # ProbeAck
    <3>1. Looking
      BY <1>1 DEF Harmless
    <3>2. scene.kills # 0
      OBVIOUS
    <3> QED
      BY <3>1, <3>2 DEF Steady, Safe
  <2>2. reply'[1] \in Value \cup {flash[c] : c \in Cells}
    BY <1>1 DEF Effect, Replying, PEEK, TEST, PAGE_ERASE, PAGE_WRITE, ProbeKey
  <2> QED
    BY <2>1, <2>2
<1>2. CASE Cmd(p) = TEST
  BY <1>2 DEF Effect, Replying, PEEK, TEST, PAGE_ERASE, PAGE_WRITE, ProbeKey, ProbeAck
<1>3. CASE Cmd(p) \notin {PEEK, TEST}
  BY <1>3 DEF Effect, Replying, PEEK, TEST, PAGE_ERASE, PAGE_WRITE, ProbeKey, ProbeAck
<1> QED
  BY <1>1, <1>2, <1>3

LEMMA ReplySeq ==
    ASSUME TypeInv, NEW p, Harmless(p), Effect(p), Replying'
    PROVE  reply' \in Seq(Byte) /\ Len(reply') = PacketSize
<1>1. p \in Packets /\ \A i \in 1 .. 5 : p[i] \in Byte
  BY Six DEF Harmless, Packets
<1>2. CASE Cmd(p) = TEST
  <2>1. PICK last \in Cells : reply' = <<TEST, Arg(p), Pages, KSeg0 + last, 0>>
    BY <1>2 DEF Effect, Replying, PEEK, TEST, PAGE_ERASE, PAGE_WRITE, ProbeKey
  <2>2. TEST \in Byte /\ 0 \in Byte /\ Arg(p) \in Byte
    BY <1>1 DEF TEST, Byte, Arg
  <2>3. reply' \in Packets
    BY <2>1, <2>2, CellsAreBytes, BytesArePacket
  <2> QED
    BY <2>3, FrameBytes
<1>3. CASE Cmd(p) # TEST
  <2>1. reply' \in Packets
    BY <1>3 DEF Effect, Replying
  <2> QED
    BY <2>1, FrameBytes
<1> QED
  BY <1>2, <1>3

LEMMA OneCarried ==
    ASSUME NEW s \in Seq(Byte), NEW p, Framed(s, 0, Tail(<<p>>))
    PROVE  s = <<>>
<1>1. Tail(<<p>>) = <<>> /\ Len(<<>>) = 0
  BY EmptySeq
<1>2. Len(s) \in Nat /\ Len(s) + 0 <= FrameSize * 0
  BY <1>1, LenProperties DEF Framed
<1>3. Len(s) = 0
  BY <1>2, Six
<1> QED
  BY <1>3, EmptySeq

LEMMA BoardProbe ==
    ASSUME BoardTurn("probe")
    PROVE  Kept
<1>1. /\ TypeInv /\ DeviceStep /\ hpc = "probe" /\ hpc' = "probe" /\ Probed /\ scene' = scene
      /\ Safe /\ Steady
  BY DEF BoardTurn, IInv, Situation, host
<1>2. ASSUME Probed', Allowed, pc' # "resetting" PROVE Kept
  <2>1. Situation'
    BY <1>1, <1>2 DEF Situation
  <2> QED
    BY <1>1, <1>2, <2>1, KeptBy
<1>3. CASE /\ Deaf /\ rx \in {<<>>, <<ProbeKey>>}
           /\ rx # <<>> => tx = <<>>
           /\ pc = "send" => rx = <<>> /\ tx = <<>>
  <2>1. /\ Deaf' /\ Untouched /\ pc' # "resetting"
        /\ \/ /\ pc = "send" /\ rx' = rx /\ tx' = Append(tx, ProbeAck) /\ pc' = "loop"
           \/ /\ pc # "send" /\ rx # <<>> /\ rx' = Tail(rx) /\ tx' = tx
    BY <1>1, <1>3, DeafStep
  <2>2. CASE pc = "send"
    <3>1. rx' = <<>> /\ tx' = <<ProbeAck>> /\ pc' = "loop"
      BY <1>3, <2>1, <2>2
    <3>2. Probed'
      BY <2>1, <3>1 DEF Probed
    <3> QED
      BY <1>2, <2>1, <3>2, Still
  <2>3. CASE pc # "send"
    <3>1. rx = <<ProbeKey>> /\ rx' = <<>> /\ tx' = <<>>
      <4>1. rx = <<ProbeKey>> /\ tx = <<>>
        BY <1>3, <2>1, <2>3
      <4> QED
        BY <2>1, <2>3, <4>1
    <3>2. Probed'
      BY <2>1, <3>1 DEF Probed, FalseStart
    <3> QED
      BY <1>2, <2>1, <3>2, Still
  <2> QED
    BY <2>2, <2>3
<1>4. CASE pc = "monit" /\ rx = <<ProbeKey>> /\ tx = <<>>
  <2>1. pc' = "loop" /\ rx' = <<>> /\ tx' = <<>> /\ Untouched /\ Deaf'
    BY <1>1, <1>4, ProbeStep
  <2>2. Probed'
    BY <2>1 DEF Probed, FalseStart
  <2> QED
    BY <1>2, <2>1, <2>2, Still
<1>5. CASE pc = "monit" /\ rx = <<>>
  BY <1>1, <1>5, Idle
<1>6. CASE /\ scene.kills > 0 /\ pc = "packet" /\ tx = <<>>
           /\ \E p \in Packets : Harmless(p) /\ Carries(<<p>>)
  <2>1. PICK p \in Packets : Harmless(p) /\ Carries(<<p>>)
    BY <1>6
  <2>2. <<p>>[1] = p
    OBVIOUS
  <2>3. /\ Effect(p) /\ pc' \in {"monit", "send", "stuck"} /\ (pc' = "send" => Replying')
        /\ rx' \in Seq(Byte) /\ Framed(rx', 0, Tail(<<p>>)) /\ tx' = <<>>
    BY <1>1, <1>6, <2>1, <2>2, PacketStep
  <2>4. rx' = <<>>
    BY <2>3, OneCarried
  <2>5. Allowed
    BY <1>1, <2>1, <2>3, EffectAllowed
  <2>6. CASE pc' = "monit"
    <3>1. Probed'
      BY <1>1, <1>6, <2>3, <2>4, <2>6 DEF Probed, FalseStart
    <3> QED
      BY <1>2, <2>5, <2>6, <3>1
  <2>7. CASE pc' = "stuck"
    <3>1. Probed'
      BY <2>3, <2>4, <2>7, NoBytes DEF Probed, FalseStart, Deaf
    <3> QED
      BY <1>2, <2>5, <2>7, <3>1
  <2>8. CASE pc' = "send"
    <3>1. reply'[1] # ProbeAck /\ reply' \in Seq(Byte)
      BY <1>1, <1>6, <2>1, <2>3, <2>8, FirstByte, ReplySeq
    <3>2. tx' \o reply' = reply'
      BY <2>3, <3>1, ConcatEmptySeq
    <3>3. Probed'
      BY <1>1, <1>6, <2>3, <2>4, <2>8, <3>1, <3>2 DEF Probed
    <3> QED
      BY <1>2, <2>5, <2>8, <3>3
  <2> QED
    BY <2>3, <2>6, <2>7, <2>8
<1>7. CASE scene.kills > 0 /\ Replying /\ rx = <<>> /\ (tx \o reply)[1] # ProbeAck
  <2>1. /\ Untouched /\ rx' = <<>> /\ (Replying' \/ pc' = "monit")
        /\ tx'[1] # ProbeAck /\ (Replying' => (tx' \o reply')[1] # ProbeAck)
    BY <1>1, <1>7, ReplyStep
  <2>2. Probed'
    BY <1>1, <1>7, <2>1 DEF Probed, FalseStart
  <2>3. pc' # "resetting"
    BY <2>1 DEF Replying
  <2> QED
    BY <1>2, <2>1, <2>2, <2>3, Still
<1> QED
  BY <1>1, <1>3, <1>4, <1>5, <1>6, <1>7 DEF Probed

(* A query: its packet, its effect, its reply.                             *)
LEMMA QueryStep ==
    ASSUME TypeInv, NEW p, Query(p), DeviceStep, UNCHANGED <<host, scene>>,
           Harmless(p), Cmd(p) \in {TEST, PEEK, PAGE_ERASE},
           Cmd(p) = PEEK => Base(p) \in {KSeg0, KSeg0 + FlashBase},
           pc # "stuck",
           Effect(p) /\ Replying' => Right(reply)'
    PROVE  /\ Query(p)' /\ Allowed /\ pc' \notin {"stuck", "resetting"}
           /\ Cmd(p) # PAGE_ERASE => flash' = flash
           /\ Cmd(p) = PAGE_ERASE => flash' = flash \/ flash' = ErasePage(PageOf(Adr(p)))
<1>1. p \in Packets /\ rx \in Seq(Byte) /\ tx \in Seq(Byte) /\ reply \in Seq(Byte)
  BY Bytes DEF Harmless
<1>2. CASE Pending(p) /\ pc = "monit"
  <2>1. pc' = "packet" /\ Carries(<<p>>)' /\ Full(<<p>>)' /\ Untouched /\ tx' = tx
    BY <1>2, MarkerStep DEF Pending
  <2>2. Query(p)'
    BY <1>2, <2>1 DEF Query, Pending, InMonitor
  <2> QED
    BY <2>1, <2>2, Still
<1>3. CASE Pending(p) /\ pc = "packet"
  <2>1. <<p>>[1] = p
    OBVIOUS
  <2>2. /\ Effect(p) /\ pc' \in {"monit", "send", "stuck"} /\ (pc' = "send" => Replying')
        /\ pc' = "stuck" => Cmd(p) = PEEK /\ Base(p) \notin {KSeg0, KSeg0 + FlashBase}
        /\ rx' \in Seq(Byte) /\ Framed(rx', 0, Tail(<<p>>)) /\ tx' = tx
    BY <1>3, <2>1, PacketStep DEF Pending
  <2>3. Replying' /\ pc' = "send"
    <3>1. pc' # "monit" \/ Replying'
      BY <2>2 DEF Effect, TEST, PEEK, PAGE_ERASE, PAGE_WRITE, ProbeKey
    <3> QED
      BY <2>2, <3>1 DEF Replying
  <2>4. rx' = <<>> /\ tx' = <<>>
    BY <1>3, <2>2, OneCarried DEF Pending
  <2>5. reply' \in Seq(Byte)
    BY <2>2, <2>3, ReplySeq
  <2>6. Answer' = reply'
    <3>1. tx' \o reply' = reply'
      BY <2>4, <2>5, ConcatEmptySeq
    <3> QED
      BY <2>3, <3>1 DEF Answer
  <2>7. Right(Answer)'
    <3>1. Right(reply)'
      BY <2>2, <2>3
    <3> QED
      BY <2>6, <3>1 DEF Right
  <2>8. Query(p)'
    BY <2>3, <2>4, <2>7 DEF Query, Replied
  <2> QED
    <3>1. Harmless(p) /\ Effect(p)
      BY <2>2
    <3>2. /\ Allowed
          /\ Cmd(p) \notin {PAGE_ERASE, PAGE_WRITE} => Untouched
          /\ Cmd(p) = PAGE_ERASE => flash' = flash \/ flash' = ErasePage(PageOf(Adr(p)))
      BY <3>1, EffectAllowed
    <3>3. Cmd(p) # PAGE_ERASE => Cmd(p) \notin {PAGE_ERASE, PAGE_WRITE}
      BY DEF TEST, PEEK, PAGE_ERASE, PAGE_WRITE
    <3> QED
      BY <2>3, <2>8, <3>2, <3>3 DEF Untouched
<1>4. CASE Replied /\ Replying
  <2>1. Untouched /\ rx' = rx /\ (Replying' \/ pc' = "monit") /\ Answer' = Answer
    BY <1>4, ReplyStep
  <2>2. UNCHANGED <<hpc, at, mode, image>>
    BY DEF host, asked
  <2>3. Right(Answer)'
    <3>1. \A a : Right(a) => Right(a)'
      BY <2>1, <2>2 DEF Right, Untouched, IsFlashEnd, Clean
    <3>2. PICK a : a = Answer
      OBVIOUS
    <3>3. Right(a)'
      BY <1>4, <3>1, <3>2 DEF Replied
    <3> QED
      BY <2>1, <3>2, <3>3 DEF Right
  <2>4. Query(p)'
    BY <1>4, <2>1, <2>3 DEF Query, Replied
  <2>5. pc' \notin {"stuck", "resetting"}
    BY <2>1 DEF Replying
  <2> QED
    BY <2>1, <2>4, <2>5, Still
<1>5. CASE Replied /\ ~Replying
  BY <1>5, Idle DEF Replied
<1>6. CASE Ignored
  <2>1. Mute' /\ Deaf' /\ Untouched /\ pc' # "resetting" /\ pc' # "stuck" /\ tx' = tx
    BY <1>6, DeafStep DEF Ignored, Mute
  <2>2. Query(p)'
    BY <1>6, <2>1 DEF Query, Ignored
  <2> QED
    BY <2>1, <2>2, Still
<1> QED
  BY <1>2, <1>3, <1>4, <1>5, <1>6 DEF Query, Pending, InMonitor

(* The capabilities.                                                       *)
LEMMA EchoIsRight ==
    ASSUME TypeInv, NEW p, Harmless(p), Effect(p), Replying', Cmd(p) = TEST, hpc' = "caps"
    PROVE  Right(reply)'
<1>1. Len(reply') = 5
  BY ReplySeq, Six
<1>2. PICK last \in Cells : /\ IsFlashEnd(last) /\ Untouched
                            /\ reply' = <<TEST, Arg(p), Pages, KSeg0 + last, 0>>
  BY DEF Effect, TEST, PEEK, PAGE_ERASE, PAGE_WRITE, ProbeKey
<1>3. reply'[3] = Pages /\ reply'[4] = KSeg0 + last /\ reply'[5] = 0 /\ IsFlashEnd(last)'
  BY <1>2, EndKept DEF Untouched
<1>4. \E c \in Cells : IsFlashEnd(c)' /\ reply'[4] = KSeg0 + c
  BY <1>3
<1> QED
  BY <1>1, <1>3, <1>4, Six DEF Right

LEMMA BoardCaps ==
    ASSUME BoardTurn("caps")
    PROVE  Kept
<1>1. /\ TypeInv /\ DeviceStep /\ hpc = "caps" /\ hpc' = "caps" /\ Safe /\ UNCHANGED <<host, scene>>
      /\ (Open /\ tx = <<>>) \/ Query(TestPacket)
  BY DEF BoardTurn, IInv, Situation, host
<1>2. TestPacket \in Packets /\ Harmless(TestPacket) /\ Cmd(TestPacket) = TEST
  BY TestHarmless, FixedPackets DEF Cmd
<1>3. CASE Open /\ tx = <<>>
  <2>1. /\ Untouched /\ tx' = <<>>
        /\ \/ pc' = "key2" /\ Open'
           \/ pc' = "monit" /\ Carries(<<TestPacket>>)' /\ Full(<<TestPacket>>)'
           \/ pc' = "app" /\ Mute'
    BY <1>1, <1>3, OpeningStep DEF Open
  <2>2. (Open /\ tx = <<>>)' \/ Query(TestPacket)'
    <3>1. Len(<<>>) < PacketSize
      BY EmptySeq, Six
    <3> QED
      BY <2>1, <3>1 DEF Query, Pending, Ignored, InMonitor
  <2>3. Situation'
    BY <1>1, <2>2 DEF Situation
  <2> QED
    BY <1>1, <2>1, <2>3, Still, KeptBy
<1>4. CASE Query(TestPacket)
  <2>1. pc # "stuck"
    BY <1>1 DEF Safe
  <2>2. Effect(TestPacket) /\ Replying' => Right(reply)'
    BY <1>1, <1>2, EchoIsRight
  <2>3. PICK p : p = TestPacket
    OBVIOUS
  <2>4. /\ Query(p)' /\ Allowed /\ pc' \notin {"stuck", "resetting"} /\ flash' = flash
    BY <1>1, <1>2, <1>4, <2>1, <2>2, <2>3, QueryStep DEF TEST, PEEK, PAGE_ERASE
  <2>5. Situation'
    BY <1>1, <2>3, <2>4 DEF Situation
  <2> QED
    BY <1>1, <2>4, <2>5, KeptBy
<1> QED
  BY <1>1, <1>3, <1>4

LEMMA BoardErase ==
    ASSUME BoardTurn("erase")
    PROVE  Kept
<1>1. Resting /\ DeviceStep
  BY DEF BoardTurn, IInv, Situation
<1> QED
  BY <1>1, Idle DEF Resting

(* After the page at `at' the next is to be erased.                        *)
LEMMA EraseIsRight ==
    ASSUME TypeInv, NEW p, Harmless(p), Effect(p), Replying', Cmd(p) = PAGE_ERASE, hpc' = "erasing",
           Base(p) % 32 = FlashBase, PageOf(Adr(p)) = at, UNCHANGED host,
           mode = "write" /\ nvmFaults = 0 => Clean(at)
    PROVE  Right(reply)'
<1>1. Len(reply') = 5 /\ nvmFaults \in Nat /\ at \in Nat
  BY ReplySeq, Six, Bytes, Bounds
<1>2. NVMem(ErasePage(at)) /\ image' = image /\ mode' = mode /\ at' = at
  BY DEF Effect, TEST, PEEK, PAGE_ERASE, PAGE_WRITE, ProbeKey, host, asked
<1>3. ASSUME mode = "write", nvmFaults' = 0 PROVE Clean(at + 1)'
  <2>1. flash' = ErasePage(at) /\ nvmFaults = 0
    BY <1>1, <1>2, <1>3 DEF NVMem
  <2>2. Clean(at)
    BY <1>3, <2>1
  <2>3. \A c \in Cells : PageOf(c) < at' + 1 => PageOf(c) = at \/ PageOf(c) < at
    <3>1. \A c \in Cells : PageOf(c) \in Nat
      BY PageOfCell, Numbers
    <3> QED
      BY <1>1, <1>2, <3>1
  <2>4. \A c \in Cells : flash'[c] = IF PageOf(c) = at THEN Erased ELSE flash[c]
    BY <2>1 DEF ErasePage
  <2> QED
    BY <1>2, <2>2, <2>3, <2>4 DEF Clean
<1> QED
  BY <1>1, <1>2, <1>3, Six DEF Right

LEMMA BoardErasing ==
    ASSUME BoardTurn("erasing")
    PROVE  Kept
<1>1. /\ TypeInv /\ DeviceStep /\ hpc = "erasing" /\ hpc' = "erasing" /\ Safe /\ UNCHANGED <<host, scene>>
      /\ Query(ErasePacket(at)) /\ at' = at /\ ToErase(at)
      /\ verdict = "none" /\ mode \in {"write", "erase"}
      /\ mode = "write" /\ nvmFaults = 0 => Clean(at)
  BY DEF BoardTurn, IInv, Situation, host, Progress
<1>2. at \in Nat /\ at < Pages /\ ~Reported
  BY <1>1, Bounds DEF TypeInv, HostInv, Reported
<1>3. PICK p : p = ErasePacket(at)
  OBVIOUS
<1>4. p \in Packets /\ Cmd(p) = PAGE_ERASE /\ PageOf(Adr(p)) = at /\ Base(p) % 32 = FlashBase
  <2>1. ErasePacket(at) \in Packets /\ ErasePacket(at) = <<PAGE_ERASE, 1, at * CellsPerPage, FlashBase, 0>>
    BY <1>2, PagePackets
  <2>2. PageOf(at * CellsPerPage) = at
    <3>1. at <= Pages
      BY <1>2, Numbers
    <3> QED
      BY <1>2, <3>1, PageStart
  <2> QED
    BY <1>3, <2>1, <2>2 DEF Cmd, Adr, Base, FlashBase
<1>5. p = ErasePacket(at)'
  BY <1>1, <1>3 DEF ErasePacket
<1>6. pc # "stuck"
  BY <1>1 DEF Safe
<1>7. at \in WritablePages
  BY <1>1, <1>2, Erasable
<1> QED
  <2>1. Harmless(p)
    BY <1>1, <1>2, <1>3, <1>7, EraseHarmless
  <2>2. Effect(p) /\ Replying' => Right(reply)'
    BY <1>1, <1>4, <2>1, EraseIsRight
  <2>3. /\ Query(p)' /\ Allowed /\ pc' \notin {"stuck", "resetting"}
        /\ flash' = flash \/ flash' = ErasePage(at)
    BY <1>1, <1>3, <1>4, <1>6, <2>1, <2>2, QueryStep DEF PEEK, PAGE_ERASE, TEST
  <2>4. Situation'
    BY <1>1, <1>5, <2>3 DEF Situation
  <2> QED
    BY <1>1, <2>3, <2>4, KeptBy

LEMMA PeekIsRight ==
    ASSUME TypeInv, NEW p, Harmless(p), Effect(p), Replying', Cmd(p) = PEEK, hpc' = "peeking",
           UNCHANGED host, mode = "read" => InFlash(Base(p), Adr(p)) /\ Adr(p) = at
    PROVE  Right(reply)'
<1>1. Len(reply') = 5
  BY ReplySeq, Six
<1>2. /\ flash' = flash /\ (InFlash(Base(p), Adr(p)) => reply'[1] = flash[Adr(p)])
      /\ mode' = mode /\ at' = at
  BY DEF Effect, TEST, PEEK, PAGE_ERASE, PAGE_WRITE, ProbeKey, Replying, Untouched, host, asked
<1> QED
  BY <1>1, <1>2, Six DEF Right

LEMMA BoardPeeking ==
    ASSUME BoardTurn("peeking")
    PROVE  Kept
<1>1. /\ TypeInv /\ DeviceStep /\ hpc = "peeking" /\ hpc' = "peeking" /\ Safe /\ UNCHANGED <<host, scene>>
      /\ IF Failed THEN Deaf ELSE Query(PeekPacket(at))
      /\ at' = at /\ mode' = mode /\ (mode \in {"read", "verify"} \/ Failed)
  BY DEF BoardTurn, IInv, Situation, host, asked, Progress
<1>2. Failed' = Failed /\ pc # "stuck" /\ at \in Cells
  BY <1>1 DEF Failed, host, asked, Safe, TypeInv, HostInv
<1>3. CASE Failed
  <2>1. Deaf' /\ Untouched /\ pc' # "resetting" /\ pc' # "stuck"
    BY <1>1, <1>2, <1>3, DeafStep
  <2>2. Situation'
    BY <1>1, <1>2, <1>3, <2>1 DEF Situation
  <2> QED
    BY <1>1, <2>1, <2>2, Still, KeptBy
<1>4. CASE ~Failed
  <2>1. PICK p : p = PeekPacket(at)
    OBVIOUS
  <2>2. p = PeekPacket(at)'
    BY <1>1, <2>1 DEF PeekPacket
  <2>3. /\ Harmless(p) /\ Cmd(p) = PEEK /\ Base(p) \in {KSeg0, KSeg0 + FlashBase}
        /\ mode = "read" => InFlash(Base(p), Adr(p)) /\ Adr(p) = at
    BY <1>1, <1>2, <1>4, <2>1, LookingNow, PeekHarmless
  <2>4. Effect(p) /\ Replying' => Right(reply)'
    BY <1>1, <2>3, PeekIsRight
  <2>5. /\ Query(p)' /\ Allowed /\ pc' \notin {"stuck", "resetting"} /\ flash' = flash
    BY <1>1, <1>2, <1>4, <2>1, <2>3, <2>4, QueryStep DEF PEEK, PAGE_ERASE, TEST
  <2>6. Situation'
    BY <1>1, <1>2, <1>4, <2>2, <2>5 DEF Situation
  <2> QED
    BY <1>1, <2>5, <2>6, KeptBy
<1> QED
  BY <1>3, <1>4

LEMMA BoardPeek ==
    ASSUME BoardTurn("peek")
    PROVE  Kept
<1>1. /\ TypeInv /\ DeviceStep /\ hpc = "peek" /\ hpc' = "peek" /\ Safe
      /\ IF Failed THEN Deaf ELSE Resting
  BY DEF BoardTurn, IInv, Situation, host
<1>2. Failed' = Failed
  BY DEF BoardTurn, Failed, host, asked
<1>3. Deaf /\ Failed /\ pc # "stuck"
  BY <1>1, Idle DEF Resting, Safe
<1>4. Deaf' /\ Untouched /\ pc' # "resetting" /\ pc' # "stuck"
  BY <1>1, <1>3, DeafStep
<1>5. Situation'
  BY <1>1, <1>2, <1>3, <1>4 DEF Situation
<1> QED
  BY <1>1, <1>4, <1>5, Still, KeptBy

LEMMA BoardExit ==
    ASSUME BoardTurn("exit")
    PROVE  Kept
<1>1. TypeInv /\ DeviceStep /\ hpc = "exit" /\ hpc' = "exit" /\ Safe /\ Exiting
  BY DEF BoardTurn, IInv, Situation, host
<1>2. Deaf /\ pc # "stuck"
  BY <1>1, Idle DEF Exiting, Resting, Safe
<1>3. Deaf' /\ Untouched /\ pc' # "resetting" /\ pc' # "stuck"
  BY <1>1, <1>2, DeafStep
<1>4. Situation'
  BY <1>1, <1>3 DEF Situation, Exiting
<1> QED
  BY <1>1, <1>3, <1>4, Still, KeptBy

-----------------------------------------------------------------------------
(* What ends a session.                                                    *)

LEMMA FillBytes ==
    /\ Fill \in Seq(Byte) /\ Len(Fill) = 6 /\ Fill # <<>> /\ \A i \in 1 .. 6 : Fill[i] = FillByte
    /\ Dull(Fill)
<1>1. Fill \in [1 .. 6 -> Byte] /\ \A i \in 1 .. 6 : Fill[i] = FillByte
  BY Six DEF Fill, FillByte, Byte
<1>2. 6 \in Nat
  OBVIOUS
<1>3. Fill \in Seq(Byte) /\ Len(Fill) = 6
  BY <1>1, <1>2, BlockIsSeq
<1>4. Fill # <<>>
  BY <1>3, EmptySeq
<1>5. Dull(Fill)
  BY <1>1, <1>3 DEF Dull, FillByte, EnterKey1
<1> QED
  BY <1>1, <1>3, <1>4, <1>5

(* The bytes of one sequence after another.                                *)
LEMMA Joined ==
    ASSUME NEW s \in Seq(Byte), NEW t \in Seq(Byte), NEW a \in Nat, NEW b \in Nat,
           Len(s) = a, Len(t) = b
    PROVE  /\ s \o t \in Seq(Byte) /\ Len(s \o t) = a + b
           /\ \A i \in 1 .. a : (s \o t)[i] = s[i]
           /\ \A i \in 1 .. b : (s \o t)[a + i] = t[i]
<1>1. /\ s \o t \in Seq(Byte) /\ Len(s \o t) = Len(s) + Len(t)
      /\ \A i \in 1 .. Len(s) + Len(t) :
            (s \o t)[i] = IF i <= Len(s) THEN s[i] ELSE t[i - Len(s)]
  BY ConcatProperties
<1> DEFINE u == s \o t
<1> HIDE DEF u
<1>2. /\ u \in Seq(Byte) /\ Len(u) = a + b
      /\ \A i \in 1 .. a + b : u[i] = IF i <= a THEN s[i] ELSE t[i - a]
  BY <1>1 DEF u
<1>3. \A i \in 1 .. a : u[i] = s[i]
  <2> SUFFICES ASSUME NEW i \in 1 .. a PROVE u[i] = s[i]
    OBVIOUS
  <2>1. i \in 1 .. a + b /\ i <= a
    OBVIOUS
  <2> QED
    BY <1>2, <2>1
<1>4. \A i \in 1 .. b : u[a + i] = t[i]
  <2> SUFFICES ASSUME NEW i \in 1 .. b PROVE u[a + i] = t[i]
    OBVIOUS
  <2>1. a + i \in 1 .. a + b /\ ~(a + i <= a) /\ (a + i) - a = i
    OBVIOUS
  <2> QED
    BY <1>2, <2>1
<1> QED
  BY <1>2, <1>3, <1>4 DEF u

LEMMA JoinedFill ==
    ASSUME NEW s \in Seq(Byte), NEW a \in Nat, NEW b \in Nat, Len(s) = a, b = 6
    PROVE  /\ s \o Fill \in Seq(Byte) /\ Len(s \o Fill) = a + b
           /\ \A i \in 1 .. a : (s \o Fill)[i] = s[i]
           /\ \A i \in 1 .. b : (s \o Fill)[a + i] = Fill[i]
<1> DEFINE u == s \o Fill
<1>1. Fill \in Seq(Byte) /\ Len(Fill) = b
  BY FillBytes
<1>2. /\ u \in Seq(Byte) /\ Len(u) = Len(s) + Len(Fill)
      /\ \A i \in 1 .. Len(s) + Len(Fill) : u[i] = IF i <= Len(s) THEN s[i] ELSE Fill[i - Len(s)]
  BY <1>1, ConcatProperties
<1> HIDE DEF u
<1>3. Len(u) = a + b /\ \A i \in 1 .. a + b : u[i] = IF i <= a THEN s[i] ELSE Fill[i - a]
  BY <1>1, <1>2
<1>4. \A i \in 1 .. a : u[i] = s[i]
  BY <1>3
<1>5. \A i \in 1 .. b : u[a + i] = Fill[i]
  <2> SUFFICES ASSUME NEW i \in 1 .. b PROVE u[a + i] = Fill[i]
    OBVIOUS
  <2>1. a + i \in 1 .. a + b /\ ~(a + i <= a) /\ (a + i) - a = i
    OBVIOUS
  <2> QED
    BY <1>3, <2>1
<1> QED
  BY <1>2, <1>3, <1>4, <1>5 DEF u

(* The packet that starts the user's program, in front of the fill.        *)
LEMMA JumpAndFill ==
    /\ Frame(JumpPacket) \o Fill \in Seq(Byte) /\ JumpPacket \o Fill \in Seq(Byte)
    /\ Frame(JumpPacket) \o Fill # <<>> /\ (Frame(JumpPacket) \o Fill)[1] = Marker
    /\ Tail(Frame(JumpPacket) \o Fill) = JumpPacket \o Fill
    /\ Len(JumpPacket \o Fill) = 11
    /\ SubSeq(JumpPacket \o Fill, 1, PacketSize) = JumpPacket
    /\ SubSeq(JumpPacket \o Fill, PacketSize + 1, Len(JumpPacket \o Fill)) = Fill
    /\ Dull(Frame(JumpPacket) \o Fill) /\ Dull(JumpPacket \o Fill)
    /\ Len(Frame(JumpPacket) \o Fill) = 12
    /\ (Frame(JumpPacket) \o Fill)[12] = FillByte
<1> DEFINE j == JumpPacket
           f == Frame(JumpPacket)
           w == f \o Fill
           u == j \o Fill
<1>1. /\ j \in Seq(Byte) /\ Len(j) = 5 /\ f \in Seq(Byte) /\ Len(f) = 6 /\ f[1] = Marker
      /\ \A i \in 1 .. 5 : f[i + 1] = j[i]
  BY FixedPackets, FrameBytes, Six
<1>2. j = <<JMP, 1, 0, 0, 0>> /\ Plain(j) /\ j \in Packets
  BY FixedPackets DEF Plain, JMP, EnterKey1
<1>3. /\ Fill \in Seq(Byte) /\ Len(Fill) = 6 /\ Fill # <<>>
      /\ \A i \in 1 .. 6 : Fill[i] = FillByte
      /\ Dull(Fill)
  BY FillBytes
<1>4. Dull(f)
  <2>1. Framed(f, 0, <<j>>) /\ Len(<<j>>) = 1 /\ <<j>>[1] = j
    BY <1>2, FramedOne
  <2>2. \A i \in 1 .. 1 : Plain(<<j>>[i])
    BY <1>2, <2>1
  <2> QED
    BY <1>1, <2>1, <2>2, DullFrames
<1>5. Dull(w)
  <2>1. Fill[1] # EnterKey2
    BY <1>3 DEF FillByte, EnterKey2
  <2> QED
    BY <1>1, <1>3, <1>4, <2>1, DullJoined
<1> HIDE DEF j, f
<1>6. /\ w \in Seq(Byte) /\ Len(w) = 6 + 6
      /\ \A i \in 1 .. 6 : w[i] = f[i]
      /\ \A i \in 1 .. 6 : w[6 + i] = Fill[i]
  <2>1. PICK a \in Nat : a = 6
    OBVIOUS
  <2>2. Len(f) = a /\ Len(Fill) = a /\ f \in Seq(Byte) /\ Fill \in Seq(Byte)
    BY <1>1, <1>3, <2>1
  <2>3. /\ w \in Seq(Byte) /\ Len(w) = a + a
        /\ \A i \in 1 .. a : w[i] = f[i]
        /\ \A i \in 1 .. a : w[a + i] = Fill[i]
    BY <2>2, JoinedFill
  <2> QED
    BY <2>1, <2>3
<1>7. /\ u \in Seq(Byte) /\ Len(u) = 5 + 6
      /\ \A i \in 1 .. 5 : u[i] = j[i]
      /\ \A i \in 1 .. 6 : u[5 + i] = Fill[i]
  <2>1. 6 \in Nat /\ 5 \in Nat
    OBVIOUS
  <2>2. j \in Seq(Byte) /\ Len(j) = 5 /\ Fill \in Seq(Byte) /\ Len(Fill) = 6
    BY <1>1, <1>3
  <2>3. PICK a \in Nat, b \in Nat : a = 5 /\ b = 6
    OBVIOUS
  <2>4. /\ u \in Seq(Byte) /\ Len(u) = a + b
        /\ \A i \in 1 .. a : u[i] = j[i]
        /\ \A i \in 1 .. b : u[a + i] = Fill[i]
    <3>1. j \in Seq(Byte) /\ Fill \in Seq(Byte) /\ Len(j) = a /\ Len(Fill) = b
      BY <2>2, <2>3
    <3> QED
      BY <3>1, <2>3, JoinedFill
  <2> HIDE DEF u
  <2>5. Len(u) = 5 + 6
    BY <2>3, <2>4
  <2>6. \A i \in 1 .. 5 : u[i] = j[i]
    BY <2>3, <2>4
  <2>7. \A i \in 1 .. 6 : u[5 + i] = Fill[i]
    BY <2>3, <2>4
  <2> QED
    BY <2>4, <2>5, <2>6, <2>7
<1> HIDE DEF w, u
<1>8. Len(w) = 12 /\ Len(u) = 11
  BY <1>6, <1>7
<1>9. w # <<>> /\ w[1] = Marker /\ w[12] = FillByte
  <2>1. w # <<>>
    <3>1. Len(<<>>) = 0
      BY EmptySeq
    <3> QED
      BY <1>8, <3>1
  <2>2. w[1] = f[1] /\ w[6 + 6] = Fill[6]
    BY <1>6
  <2>3. 6 + 6 = 12
    OBVIOUS
  <2>4. w[12] = Fill[6]
    BY <2>2, <2>3
  <2> QED
    BY <1>1, <1>3, <2>1, <2>2, <2>4
<1>10. Tail(w) = u
  <2>1. /\ Tail(w) \in Seq(Byte) /\ Len(Tail(w)) = 11
        /\ \A i \in 1 .. 11 : Tail(w)[i] = w[1 + i]
    <3>1. /\ Tail(w) \in Seq(Byte) /\ Len(Tail(w)) = Len(w) - 1
          /\ \A i \in 1 .. (Len(w) - 1) : Tail(w)[i] = w[1 + i]
      BY <1>6, <1>9, Beheaded
    <3>2. Len(w) - 1 = 11
      BY <1>8
    <3> QED
      BY <3>1, <3>2, Zenon
  <2>2. ASSUME NEW i \in 1 .. 11 PROVE Tail(w)[i] = u[i]
    <3>1. Tail(w)[i] = w[1 + i]
      BY <2>1
    <3>2. CASE i <= 5
      <4>1. 1 + i \in 1 .. 6 /\ 1 + i = i + 1 /\ i \in 1 .. 5
        BY <3>2
      <4>2. w[1 + i] = f[1 + i] /\ f[i + 1] = j[i] /\ u[i] = j[i]
        BY <1>1, <1>6, <1>7, <4>1
      <4> QED
        BY <3>1, <4>1, <4>2
    <3>3. CASE ~(i <= 5)
      <4> DEFINE k == i - 5
      <4>1. k \in 1 .. 6 /\ 1 + i = 6 + k /\ i = 5 + k
        BY <3>3
      <4> HIDE DEF k
      <4>2. w[6 + k] = Fill[k] /\ u[5 + k] = Fill[k]
        BY <1>6, <1>7, <4>1
      <4> QED
        BY <3>1, <4>1, <4>2
    <3> QED
      BY <3>2, <3>3
  <2> QED
    BY <1>7, <1>8, <2>1, <2>2, SeqEqual
<1>11. SubSeq(u, 1, 5) = j
  <2>1. 5 \in 0 .. Len(u)
    BY <1>8
  <2>2. SubSeq(u, 1, 5) \in Seq(Byte) /\ Len(SubSeq(u, 1, 5)) = 5 /\ \A i \in 1 .. 5 : SubSeq(u, 1, 5)[i] = u[i]
    BY <1>7, <2>1, CutBytes
  <2>3. \A i \in 1 .. 5 : SubSeq(u, 1, 5)[i] = j[i]
    BY <1>7, <2>2
  <2> QED
    BY <1>1, <2>2, <2>3, SeqEqual
<1>12. SubSeq(u, 6, Len(u)) = Fill
  <2> DEFINE d == SubSeq(u, 5 + 1, Len(u))
  <2>1. 5 \in 0 .. Len(u)
    BY <1>8
  <2>2. d \in Seq(Byte) /\ Len(d) = Len(u) - 5 /\ \A i \in 1 .. (Len(u) - 5) : d[i] = u[5 + i]
    BY <1>7, <2>1, Dropped
  <2> HIDE DEF d
  <2>3. Len(d) = 6 /\ \A i \in 1 .. 6 : d[i] = u[5 + i]
    BY <1>8, <2>2
  <2>4. d = Fill
    <3>1. \A i \in 1 .. 6 : d[i] = Fill[i]
      BY <1>7, <2>3
    <3>2. Fill \in Seq(Byte) /\ Len(Fill) = 6
      BY <1>3
    <3>3. d \in Seq(Byte) /\ Len(d) = Len(Fill) /\ \A i \in 1 .. Len(Fill) : d[i] = Fill[i]
      BY <2>2, <2>3, <3>1, <3>2
    <3> QED
      BY <3>2, <3>3, SeqEqual
  <2>5. 5 + 1 = 6
    OBVIOUS
  <2> QED
    BY <2>4, <2>5 DEF d
<1>13. Dull(u)
  BY <1>5, <1>6, <1>9, <1>10, DullPart
<1>14. PacketSize = 5 /\ PacketSize + 1 = 6
  BY Six
<1>15. SubSeq(u, 1, PacketSize) = j /\ SubSeq(u, PacketSize + 1, Len(u)) = Fill
  BY <1>11, <1>12, <1>14
<1> QED
  BY <1>5, <1>6, <1>7, <1>8, <1>9, <1>10, <1>13, <1>15, Zenon DEF w, u, j, f

(* A suffix keeps the last byte.                                           *)
LEMMA LastByte ==
    ASSUME NEW s \in Seq(Byte), NEW k \in 0 .. Len(s), NEW u, u = SubSeq(s, k + 1, Len(s)), u # <<>>,
           NEW b, s[Len(s)] = b
    PROVE  u[Len(u)] = b
<1>1. /\ u \in Seq(Byte) /\ Len(u) = Len(s) - k /\ \A i \in 1 .. (Len(s) - k) : u[i] = s[k + i]
      /\ Len(s) \in Nat
  BY Dropped, LenProperties
<1>2. Len(s) - k # 0
  BY <1>1, EmptySeq
<1>3. Len(u) \in 1 .. (Len(s) - k) /\ k + Len(u) = Len(s)
  BY <1>1, <1>2
<1>4. u[Len(u)] = s[k + Len(u)]
  BY <1>1, <1>3
<1> QED
  BY <1>3, <1>4

LEMMA LastOfTail ==
    ASSUME NEW s \in Seq(Byte), s # <<>>, NEW b, s[Len(s)] = b, Tail(s) # <<>>
    PROVE  Tail(s)[Len(Tail(s))] = b
<1>1. /\ Len(s) \in Nat \ {0} /\ Tail(s) \in Seq(Byte) /\ Len(Tail(s)) = Len(s) - 1
      /\ \A i \in 1 .. (Len(s) - 1) : Tail(s)[i] = s[1 + i]
  BY Beheaded
<1>2. Len(Tail(s)) # 0
  BY <1>1, EmptySeq
<1>3. Len(Tail(s)) \in 1 .. (Len(s) - 1) /\ 1 + Len(Tail(s)) = Len(s)
  BY <1>1, <1>2
<1>4. Tail(s)[Len(Tail(s))] = s[1 + Len(Tail(s))]
  BY <1>1, <1>3
<1> QED
  BY <1>3, <1>4

(* The board leaves the monitor, or the user's program is started.         *)
LEMMA LeavingStep ==
    ASSUME TypeInv, DeviceStep, Leaving, UNCHANGED host
    PROVE  /\ Untouched /\ pc' # "stuck"
           /\ Leaving' \/ (Deaf' /\ (rx' # <<>> => rx'[Len(rx')] = FillByte) /\ (pc' = "key2" => rx' # <<>>))
<1>1. /\ mode = "write" => verdict = "ok"
      /\ mode' = mode /\ verdict' = verdict /\ run' = run
      /\ rx \in Seq(Byte)
  BY Bytes DEF Leaving, host, asked
<1>2. /\ Fill \in Seq(Byte) /\ Len(Fill) = 6 /\ Fill # <<>> /\ Fill[1] = FillByte /\ Fill[Len(Fill)] = FillByte
      /\ Dull(Fill)
  BY FillBytes
<1>3. CASE pc = "monit" /\ rx = Fill
  <2>1. rx # <<>> /\ rx[1] # Marker
    BY <1>2, <1>3 DEF FillByte, Marker
  <2>2. pc' = "loop" /\ rx' = Tail(Fill) /\ Untouched
    BY <1>3, <2>1, NoMarkerStep
  <2>3. Dull(rx')
    BY <1>2, <2>2, DullPart
  <2>4. rx' # <<>> => rx'[Len(rx')] = FillByte
    BY <1>2, <2>2, LastOfTail
  <2> QED
    BY <2>2, <2>3, <2>4 DEF Deaf
<1>4. CASE pc = "monit" /\ rx = Frame(JumpPacket) \o Fill /\ run
  <2>1. MonitKey
    BY <1>4 DEF DeviceStep, LoopEnter, LoopProbe, LoopIgnore, LoopKey2, TakeKey, AppReads, SendByte,
       CmdEcho, CmdPeek, CmdPoke, CmdPageErase, CmdPageWrite, CmdNoEffect, CmdExec, Receive, PacketReady
  <2>2. rx # <<>> /\ rx[1] = Marker /\ Tail(rx) = JumpPacket \o Fill
    BY <1>4, JumpAndFill
  <2>3. Head(rx) = Marker
    BY <1>1, <2>2, Beheaded
  <2>4. pc' = "packet" /\ rx' = Tail(rx) /\ Untouched
    BY <2>1, <2>3 DEF MonitKey, TakeKey, Untouched
  <2>5. Leaving'
    BY <1>1, <1>4, <2>2, <2>4 DEF Leaving, JumpPacket, Fill
  <2> QED
    BY <2>4, <2>5
<1>5. CASE pc = "packet" /\ rx = JumpPacket \o Fill /\ run
  <2>1. PacketFromPC = JumpPacket
    BY <1>5, JumpAndFill DEF PacketFromPC
  <2>2. Cmd(JumpPacket) = JMP /\ Arg(JumpPacket) = 1
    BY FixedPackets DEF Cmd, Arg
  <2>3. CmdExec
    BY <1>5, <2>1, <2>2
       DEF DeviceStep, LoopEnter, LoopProbe, LoopIgnore, LoopKey2, MonitKey, TakeKey, SendByte, AppReads,
       CmdEcho, CmdPeek, CmdPoke, CmdPageErase, CmdPageWrite, CmdNoEffect, Receive,
       TEST, PEEK, POKE, JMP, PAGE_ERASE, PAGE_WRITE
  <2>4. pc' = "resetting" /\ rx' = SubSeq(rx, PacketSize + 1, Len(rx)) /\ Untouched
    BY <2>1, <2>2, <2>3 DEF CmdExec, Receive, Untouched
  <2>5. rx' = Fill
    BY <1>5, <2>4, JumpAndFill
  <2>6. Leaving'
    BY <1>1, <1>5, <2>4, <2>5 DEF Leaving, Fill
  <2> QED
    BY <2>4, <2>6
<1>6. CASE pc = "resetting" /\ rx = Fill /\ run
  <2>1. PICK closed \in SwitchMayBe : SoftReset(closed)
    BY <1>6 DEF DeviceStep, LoopEnter, LoopProbe, LoopIgnore, LoopKey2, MonitKey, TakeKey, SendByte, AppReads,
       CmdEcho, CmdPeek, CmdPoke, CmdPageErase, CmdPageWrite, CmdNoEffect, CmdExec, Receive, PacketReady
  <2>2. pc' \in {"loop", "app"} /\ Untouched /\ LoseRing
    BY <2>1 DEF SoftReset, StartUp, Untouched
  <2>3. PICK k \in 0 .. Len(rx) : rx' = SubSeq(rx, k + 1, Len(rx))
    BY <2>2 DEF LoseRing
  <2>4. Dull(rx')
    BY <1>2, <1>6, <2>3, DullPart
  <2>5. rx' # <<>> => rx'[Len(rx')] = FillByte
    BY <1>1, <1>2, <1>6, <2>3, LastByte
  <2> QED
    BY <2>2, <2>4, <2>5 DEF Deaf
<1> QED
  BY <1>3, <1>4, <1>5, <1>6 DEF Leaving

LEMMA BoardEnded ==
    ASSUME BoardTurn("ended")
    PROVE  Kept
<1>1. /\ TypeInv /\ DeviceStep /\ hpc = "ended" /\ hpc' = "ended" /\ Ended /\ Safe /\ UNCHANGED host
      /\ rx \in Seq(Byte) /\ pc # "stuck"
  BY Bytes DEF BoardTurn, IInv, Situation, host, Safe
<1>2. ASSUME Untouched, Ended', pc' # "stuck" PROVE Kept
  <2>1. Situation'
    BY <1>1, <1>2 DEF Situation
  <2> QED
    BY <1>1, <1>2, <2>1, Still, KeptBy
<1>3. CASE Leaving
  <2>1. /\ Untouched /\ pc' # "stuck"
        /\ Leaving' \/ (Deaf' /\ (rx' # <<>> => rx'[Len(rx')] = FillByte) /\ (pc' = "key2" => rx' # <<>>))
    BY <1>1, <1>3, LeavingStep
  <2>2. Ended'
    BY <2>1 DEF Ended
  <2> QED
    BY <1>2, <2>1, <2>2
<1>4. CASE Deaf /\ (rx # <<>> => rx[Len(rx)] = FillByte) /\ (pc = "key2" => rx # <<>>)
  <2>1. /\ Deaf' /\ Untouched /\ (pc' = "stuck" => pc = "stuck")
        /\ \/ /\ pc = "send" /\ rx' = rx /\ pc' = "loop"
           \/ /\ pc # "send" /\ rx # <<>> /\ rx' = Tail(rx)
              /\ pc' = "key2" => rx[1] = EnterKey1
    BY <1>1, <1>4, DeafStep
  <2>2. rx' # <<>> => rx'[Len(rx')] = FillByte
    <3>1. CASE rx' = rx
      BY <1>4, <3>1
    <3>2. CASE rx # <<>> /\ rx' = Tail(rx)
      BY <1>1, <1>4, <3>2, LastOfTail
    <3> QED
      BY <2>1, <3>1, <3>2
  <2>3. pc' = "key2" => rx' # <<>>
    <3> SUFFICES ASSUME pc' = "key2", rx' = <<>> PROVE FALSE
      OBVIOUS
    <3>1. rx # <<>> /\ rx' = Tail(rx) /\ rx[1] = EnterKey1 /\ rx[Len(rx)] = FillByte
      BY <1>4, <2>1
    <3>2. Len(rx) \in Nat \ {0} /\ Len(Tail(rx)) = Len(rx) - 1 /\ Len(<<>>) = 0
      BY <1>1, <3>1, Beheaded, EmptySeq
    <3>3. Len(rx) = 1
      BY <3>1, <3>2
    <3> QED
      BY <3>1, <3>3 DEF EnterKey1, FillByte
  <2>4. Ended'
    BY <2>1, <2>2, <2>3 DEF Ended
  <2> QED
    BY <1>1, <1>2, <2>1, <2>4
<1> QED
  BY <1>1, <1>3, <1>4 DEF Ended

-----------------------------------------------------------------------------
(* The words on the line.                                                  *)

LEMMA Rest ==
    ASSUME NEW S, NEW qs \in Seq(S), qs # <<>>
    PROVE  /\ Len(qs) \in Nat \ {0} /\ Tail(qs) \in Seq(S) /\ Len(Tail(qs)) = Len(qs) - 1
           /\ qs[1] \in S
           /\ \A i \in 1 .. Len(Tail(qs)) : Tail(qs)[i] = qs[i + 1] /\ i + 1 \in 1 .. Len(qs)
<1>1. Len(qs) \in Nat \ {0} /\ Len(Tail(qs)) = Len(qs) - 1 /\ Tail(qs) \in Seq(S)
      /\ \A i \in 1 .. (Len(qs) - 1) : Tail(qs)[i] = qs[i + 1]
  BY HeadTailProperties, EmptySeq, LenProperties
<1>2. qs[1] \in S
  <2>1. 1 \in 1 .. Len(qs)
    BY <1>1
  <2> QED
    BY <2>1, LenProperties
<1>3. \A i \in 1 .. (Len(qs) - 1) : i + 1 \in 1 .. Len(qs)
  BY <1>1
<1> QED
  BY <1>1, <1>2, <1>3

LEMMA WritesHarmless ==
    ASSUME TypeInv, ~Reported, NEW ws \in Seq(Packets), NEW n, Writes(ws, n)
    PROVE  /\ AllHarmless(ws)
           /\ \A i \in 1 .. Len(ws) :
                 /\ Adr(ws[i]) \in Cells /\ Adr(ws[i]) < n /\ ws[i] = WritePacket(Adr(ws[i]))
                 /\ image[Adr(ws[i])] # Erased /\ Data(ws[i]) = image[Adr(ws[i])]
                 /\ Harmless(ws[i]) /\ Programs(ws[i]) /\ Cmd(ws[i]) = PAGE_WRITE
<1>1. ASSUME NEW i \in 1 .. Len(ws)
      PROVE  /\ Adr(ws[i]) \in Cells /\ Adr(ws[i]) < n /\ ws[i] = WritePacket(Adr(ws[i]))
             /\ image[Adr(ws[i])] # Erased /\ Data(ws[i]) = image[Adr(ws[i])]
             /\ Harmless(ws[i]) /\ Programs(ws[i]) /\ Cmd(ws[i]) = PAGE_WRITE
  <2>1. PICK c \in Cells : c < n /\ image[c] # Erased /\ ws[i] = WritePacket(c)
    BY DEF Writes
  <2>2. Adr(ws[i]) = c
    BY <2>1, Bytes, CellPackets DEF Adr
  <2>3. Holds(image, PageOf(c)) /\ PageOf(c) \in WritablePages
    BY <2>1, Writable
  <2>4. nvmFaults = 0 => flash[c] = Erased
    BY <2>2, <2>3 DEF Writes
  <2>5. /\ Harmless(WritePacket(c)) /\ Cmd(WritePacket(c)) = PAGE_WRITE
        /\ Programs(WritePacket(c)) /\ Data(WritePacket(c)) = image[c]
    BY <2>3, <2>4, WriteHarmless
  <2> QED
    BY <2>1, <2>2, <2>5
<1>2. ASSUME NEW i \in 1 .. Len(ws), NEW j \in 1 .. Len(ws), i # j
      PROVE  Adr(ws[i]) # Adr(ws[j])
  <2>1. i < j \/ j < i
    BY <1>2
  <2>2. Adr(ws[i]) \in Nat /\ Adr(ws[j]) \in Nat
    BY <1>1, CellByte
  <2> QED
    BY <2>1, <2>2 DEF Writes
<1> QED
  BY <1>1, <1>2 DEF AllHarmless

LEMMA WritesKept ==
    ASSUME Untouched, image' = image, NEW ws, NEW n, Writes(ws, n)
    PROVE  Writes(ws, n)'
  BY DEF Writes, WritePacket, Untouched

(* The first word is programmed.                                           *)
LEMMA WordDone ==
    ASSUME TypeInv, ~Reported, NEW ws \in Seq(Packets), ws # <<>>, NEW n \in Nat, Writes(ws, n), image' = image,
           NVMem(ProgramCell(Adr(ws[1]), Data(ws[1])))
    PROVE  Writes(Tail(ws), n)'
<1> DEFINE us == Tail(ws)
           a == Adr(ws[1])
<1>1. /\ Len(us) = Len(ws) - 1 /\ Len(ws) \in Nat \ {0}
      /\ \A i \in 1 .. Len(us) : us[i] = ws[i + 1] /\ i + 1 \in 1 .. Len(ws)
  BY Rest
<1>2. 1 \in 1 .. Len(ws)
  BY <1>1
<1>3. /\ a \in Cells /\ image[a] # Erased /\ Data(ws[1]) = image[a]
      /\ \A i \in 1 .. Len(ws) : Adr(ws[i]) \in Cells /\ Adr(ws[i]) < n
  BY <1>2, WritesHarmless
<1>4. a < n
  BY <1>2, <1>3
<1> HIDE DEF us, a
<1>5. \A i \in 1 .. Len(us) : \E c \in Cells : c < n /\ image'[c] # Erased /\ us[i] = WritePacket(c)'
  BY <1>1 DEF Writes, WritePacket
<1>6. \A i, j \in 1 .. Len(us) : i < j => Adr(us[i]) < Adr(us[j])
  <2> SUFFICES ASSUME NEW i \in 1 .. Len(us), NEW j \in 1 .. Len(us), i < j
               PROVE  Adr(us[i]) < Adr(us[j])
    OBVIOUS
  <2>1. i + 1 \in 1 .. Len(ws) /\ j + 1 \in 1 .. Len(ws) /\ i + 1 < j + 1
        /\ us[i] = ws[i + 1] /\ us[j] = ws[j + 1]
    BY <1>1
  <2> QED
    BY <2>1 DEF Writes
<1>7. ASSUME NEW i \in 1 .. Len(us) PROVE Adr(us[i]) # a
  <2>1. i + 1 \in 1 .. Len(ws) /\ 1 < i + 1 /\ us[i] = ws[i + 1]
    BY <1>1
  <2>2. a < Adr(us[i])
    BY <1>2, <2>1 DEF Writes, a
  <2> QED
    BY <1>3, <2>2, CellByte
<1>8. ASSUME NEW c \in Cells, c # a
      PROVE  (\E i \in 1 .. Len(ws) : Adr(ws[i]) = c) <=> (\E i \in 1 .. Len(us) : Adr(us[i]) = c)
  <2>1. ASSUME NEW i \in 1 .. Len(ws), Adr(ws[i]) = c PROVE \E j \in 1 .. Len(us) : Adr(us[j]) = c
    <3>1. i # 1
      BY <1>8, <2>1 DEF a
    <3>2. i - 1 \in 1 .. Len(us) /\ (i - 1) + 1 = i
      BY <1>1, <3>1
    <3>3. us[i - 1] = ws[(i - 1) + 1]
      BY <1>1, <3>2
    <3> QED
      BY <2>1, <3>2, <3>3
  <2>2. ASSUME NEW i \in 1 .. Len(us), Adr(us[i]) = c PROVE \E j \in 1 .. Len(ws) : Adr(ws[j]) = c
    BY <1>1, <2>2
  <2> QED
    BY <2>1, <2>2
<1>9. ASSUME nvmFaults' = 0, NEW c \in Cells, Holds(image', PageOf(c))
      PROVE  flash'[c] = IF c >= n \/ (\E i \in 1 .. Len(us) : Adr(us[i]) = c)
                         THEN Erased ELSE image'[c]
  <2>1. nvmFaults \in Nat /\ flash \in [Cells -> Byte] /\ image \in Images
    BY Bytes
  <2>2. nvmFaults = 0 /\ flash' = ProgramCell(a, image[a])
    <3>1. NVMem(ProgramCell(a, image[a]))
      BY <1>3 DEF a
    <3> QED
      BY <1>9, <2>1, <3>1 DEF NVMem
  <2>3. \A d \in Cells : Holds(image, PageOf(d)) =>
            flash[d] = IF d >= n \/ (\E i \in 1 .. Len(ws) : Adr(ws[i]) = d) THEN Erased ELSE image[d]
    BY <2>2 DEF Writes
  <2>4. CASE c = a
    <3>1. flash[a] = Erased
      <4>1. \E i \in 1 .. Len(ws) : Adr(ws[i]) = a
        BY <1>2 DEF a
      <4> QED
        BY <1>3, <1>9, <2>3, <2>4, <4>1
    <3>2. flash'[a] = image[a]
      BY <1>3, <2>1, <2>2, <3>1 DEF ProgramCell, Programmed
    <3>3. ~(a >= n) /\ ~(\E i \in 1 .. Len(us) : Adr(us[i]) = a)
      <4>1. \A i \in 1 .. Len(us) : Adr(us[i]) # a
        BY <1>7
      <4>2. \A x \in Nat : x < n => ~(x >= n)
        OBVIOUS
      <4> QED
        BY <1>3, <1>4, <4>1, <4>2, CellByte
    <3> QED
      BY <2>4, <3>2, <3>3
  <2>5. CASE c # a
    <3>1. flash'[c] = flash[c]
      BY <1>3, <2>1, <2>2, <2>5 DEF ProgramCell
    <3>2. (\E i \in 1 .. Len(ws) : Adr(ws[i]) = c) <=> (\E i \in 1 .. Len(us) : Adr(us[i]) = c)
      BY <1>8, <2>5
    <3> QED
      BY <1>9, <2>3, <3>1, <3>2
  <2> QED
    BY <2>4, <2>5
<1>10. Writes(us, n)'
  BY <1>5, <1>6, <1>9 DEF Writes
<1> QED
  BY <1>10 DEF us

LEMMA AcksGrow ==
    ASSUME tx \in Seq(Byte), AllAcks(tx), tx' = tx \/ tx' = Append(tx, ProbeAck)
    PROVE  AllAcks(tx')
<1>1. ASSUME tx' = Append(tx, ProbeAck) PROVE AllAcks(tx')
  <2>1. /\ Len(tx) \in Nat /\ Len(Append(tx, ProbeAck)) = Len(tx) + 1
        /\ \A i \in 1 .. Len(tx) : Append(tx, ProbeAck)[i] = tx[i]
        /\ Append(tx, ProbeAck)[Len(tx) + 1] = ProbeAck
    BY AppendProperties, LenProperties DEF ProbeAck, Byte
  <2>2. \A i \in 1 .. Len(tx) + 1 : i \in 1 .. Len(tx) \/ i = Len(tx) + 1
    BY <2>1
  <2> QED
    BY <1>1, <2>1, <2>2 DEF AllAcks
<1> QED
  BY <1>1

(* Words are written.                                                      *)
LEMMA BoardWriting ==
    ASSUME BoardTurn("write")
    PROVE  Kept
<1>1. /\ TypeInv /\ DeviceStep /\ hpc = "write" /\ hpc' = "write" /\ Safe /\ UNCHANGED <<host, scene>>
      /\ Writing /\ at' = at /\ verdict = "none" /\ image' = image /\ mode' = mode /\ verdict' = verdict
      /\ at \in Nat /\ pc # "stuck"
  BY Bounds DEF BoardTurn, IInv, Situation, host, asked, Progress, Safe
<1>2. ~Reported /\ ~Reported'
  BY <1>1 DEF Reported
<1>3. ASSUME Allowed, Writing', pc' # "resetting", pc' # "stuck" PROVE Kept
  <2>1. Situation'
    BY <1>1, <1>3 DEF Situation
  <2> QED
    BY <1>1, <1>3, <2>1, KeptBy
<1>4. CASE Deaf /\ AllAcks(tx)
  <2>1. /\ Deaf' /\ Untouched /\ pc' # "resetting" /\ pc' # "stuck"
        /\ tx' = tx \/ tx' = Append(tx, ProbeAck)
    BY <1>1, <1>4, DeafStep
  <2>2. AllAcks(tx')
    BY <1>4, <2>1, Bytes, <1>1, AcksGrow
  <2>3. Writing'
    BY <2>1, <2>2 DEF Writing
  <2> QED
    BY <1>3, <2>1, <2>3, Still
<1>5. ASSUME InMonitor, tx = <<>>, NEW ws \in Seq(Packets), Carries(ws), Full(ws), Writes(ws, at)
      PROVE  Kept
  <2>1. CASE pc = "monit"
    <3>1. /\ pc' = "packet" /\ Carries(ws)' /\ Full(ws)' /\ Untouched /\ tx' = tx
      BY <1>1, <1>5, <2>1, MarkerStep
    <3>2. PICK n : n = at
      OBVIOUS
    <3>3. Writes(ws, n)'
      BY <1>1, <1>5, <3>1, <3>2, WritesKept
    <3>4. Writing'
      BY <1>1, <1>5, <3>1, <3>2, <3>3 DEF Writing, InMonitor, Writes
    <3> QED
      BY <1>3, <3>1, <3>4, Still
  <2>2. CASE pc = "packet"
    <3>1. ws # <<>> => Harmless(ws[1]) /\ Programs(ws[1]) /\ Cmd(ws[1]) = PAGE_WRITE
      <4>1. ws # <<>> => 1 \in 1 .. Len(ws)
        BY Rest
      <4> QED
        BY <1>1, <1>2, <1>5, <4>1, WritesHarmless
    <3>2. /\ ws # <<>> /\ Effect(ws[1]) /\ Full(Tail(ws))' /\ Carries(Tail(ws))' /\ tx' = tx
          /\ Harmless(ws[1])
      BY <1>1, <1>5, <2>2, <3>1, PacketStep
    <3>3. pc' = "monit" /\ Allowed /\ NVMem(ProgramCell(Adr(ws[1]), Data(ws[1])))
      BY <1>1, <3>1, <3>2, EffectAllowed DEF Effect, PAGE_WRITE, PAGE_ERASE, TEST, PEEK, ProbeKey
    <3>4. PICK n \in Nat : n = at
      BY <1>1
    <3>5. Writes(Tail(ws), n)'
      BY <1>1, <1>2, <1>5, <3>2, <3>3, <3>4, WordDone
    <3>6. Tail(ws) \in Seq(Packets)
      BY <3>2, Rest
    <3>7. PICK us \in Seq(Packets) : us = Tail(ws)
      BY <3>6
    <3>8. Writes(us, n)' /\ Carries(us)' /\ Full(us)'
      BY <3>2, <3>5, <3>7
    <3>9. at' = n
      BY <1>1, <3>4
    <3>10. Writes(us, at)'
      BY <3>8, <3>9 DEF Writes
    <3>11. Writing'
      BY <1>5, <3>2, <3>3, <3>8, <3>10 DEF Writing, InMonitor
    <3> QED
      BY <1>3, <3>3, <3>11
  <2> QED
    BY <1>5, <2>1, <2>2 DEF InMonitor
<1> QED
  BY <1>1, <1>4, <1>5 DEF Writing

LEMMA AppendRest ==
    ASSUME NEW ws \in Seq(Packets), NEW p \in Packets
    PROVE  /\ Append(ws, p) \in Seq(Packets) /\ Append(ws, p) # <<>>
           /\ ws = <<>> => Append(ws, p) = <<p>>
           /\ ws # <<>> => /\ Append(ws, p)[1] = ws[1]
                           /\ Tail(Append(ws, p)) = Append(Tail(ws), p)
<1> DEFINE n == Len(ws)
           u == Append(ws, p)
<1>1. /\ n \in Nat /\ u \in Seq(Packets) /\ Len(u) = n + 1 /\ u[n + 1] = p
      /\ \A i \in 1 .. n : u[i] = ws[i]
  BY AppendProperties, LenProperties
<1>2. u # <<>>
  BY AppendProperties
<1>3. ws = <<>> => u = <<p>>
  OBVIOUS
<1> HIDE DEF u
<1>4. ASSUME ws # <<>> PROVE u[1] = ws[1] /\ Tail(u) = Append(Tail(ws), p)
  <2>1. /\ n \in Nat \ {0} /\ Tail(ws) \in Seq(Packets) /\ Len(Tail(ws)) = n - 1
        /\ \A i \in 1 .. Len(Tail(ws)) : Tail(ws)[i] = ws[i + 1]
    BY <1>4, Rest
  <2>2. /\ Tail(u) \in Seq(Packets) /\ Len(Tail(u)) = Len(u) - 1
        /\ \A i \in 1 .. Len(Tail(u)) : Tail(u)[i] = u[i + 1]
    BY <1>1, <1>2, Rest DEF u
  <2> DEFINE v == Append(Tail(ws), p)
  <2>3. /\ v \in Seq(Packets) /\ Len(v) = Len(Tail(ws)) + 1 /\ v[Len(Tail(ws)) + 1] = p
        /\ \A i \in 1 .. Len(Tail(ws)) : v[i] = Tail(ws)[i]
    BY <2>1, AppendProperties
  <2> HIDE DEF v
  <2>4. Len(v) = n /\ Len(Tail(u)) = n
    BY <1>1, <2>1, <2>2, <2>3
  <2>5. ASSUME NEW i \in 1 .. n PROVE Tail(u)[i] = v[i]
    <3>1. Tail(u)[i] = u[i + 1]
      BY <2>2, <2>4
    <3>2. CASE i = n
      BY <1>1, <2>1, <2>3, <3>1, <3>2
    <3>3. CASE i # n
      <4>1. Len(Tail(ws)) = n - 1 /\ n \in Nat
        BY <2>1
      <4> HIDE DEF n
      <4>2. i \in 1 .. Len(Tail(ws)) /\ i + 1 \in 1 .. n
        BY <3>3, <4>1
      <4> QED
        BY <1>1, <2>1, <2>3, <3>1, <4>2
    <3> QED
      BY <3>2, <3>3
  <2>6. Tail(u) = v
    <3>1. Len(Tail(u)) = Len(v) /\ \A i \in 1 .. Len(Tail(u)) : Tail(u)[i] = v[i]
      BY <2>4, <2>5
    <3>2. Tail(u) \in Seq(Packets) /\ v \in Seq(Packets)
      BY <2>2, <2>3
    <3> QED
      BY <3>1, <3>2, SeqEqual
  <2>7. 1 \in 1 .. n
    BY <2>1
  <2> QED
    BY <1>1, <2>6, <2>7 DEF v
<1> QED
  BY <1>1, <1>2, <1>3, <1>4 DEF u

(* All words there: the image is.                                          *)
LEMMA AllWritten ==
    ASSUME TypeInv, Writes(<<>>, Pages * CellsPerPage), nvmFaults = 0
    PROVE  Complete(flash, image)
<1>1. \A c \in Cells : ~(c >= Pages * CellsPerPage)
  <2>1. \A c \in Cells : c \in Nat /\ c < Pages * CellsPerPage /\ Pages * CellsPerPage \in Nat
    BY Numbers
  <2>2. \A x, y \in Nat : x < y => ~(x >= y)
    OBVIOUS
  <2> QED
    BY <2>1, <2>2
<1>2. \A i \in 1 .. Len(<<>>) : FALSE
  BY EmptySeq
<1>3. \A c \in Cells : Holds(image, PageOf(c)) => flash[c] = image[c]
  BY <1>1, <1>2 DEF Writes
<1> QED
  BY <1>3 DEF Complete, CellsOf

LEMMA RightKept ==
    ASSUME Untouched, UNCHANGED host, NEW a, Right(a)
    PROVE  Right(a)'
<1>1. UNCHANGED <<hpc, at, mode, image>>
  BY DEF host, asked
<1> QED
  BY <1>1 DEF Right, Untouched, IsFlashEnd, Clean

(* The status is asked for once the last word is done.                     *)
LEMMA BoardStatus ==
    ASSUME BoardTurn("status")
    PROVE  Kept
<1>1. /\ TypeInv /\ DeviceStep /\ hpc = "status" /\ hpc' = "status" /\ Safe /\ UNCHANGED <<host, scene>>
      /\ AskedStatus /\ at' = at /\ verdict = "none" /\ image' = image /\ mode' = mode /\ verdict' = verdict
      /\ pc # "stuck" /\ Pages * CellsPerPage \in Nat
  BY Numbers DEF BoardTurn, IInv, Situation, host, asked, Progress, Safe
<1>2. ~Reported /\ ~Reported'
  BY <1>1 DEF Reported
<1>3. ASSUME Allowed, AskedStatus', pc' # "resetting", pc' # "stuck" PROVE Kept
  <2>1. Situation'
    BY <1>1, <1>3 DEF Situation
  <2> QED
    BY <1>1, <1>3, <2>1, KeptBy
<1>4. CASE Deaf /\ AllAcks(tx)
  <2>1. /\ Deaf' /\ Untouched /\ pc' # "resetting" /\ pc' # "stuck"
        /\ tx' = tx \/ tx' = Append(tx, ProbeAck)
    BY <1>1, <1>4, DeafStep
  <2>2. AllAcks(tx')
    BY <1>1, <1>4, <2>1, Bytes, AcksGrow
  <2>3. AskedStatus'
    BY <2>1, <2>2 DEF AskedStatus
  <2> QED
    BY <1>3, <2>1, <2>3, Still
<1>5. CASE Ignored
  <2>1. Mute' /\ Deaf' /\ Untouched /\ pc' # "resetting" /\ pc' # "stuck" /\ tx' = tx
    BY <1>1, <1>5, DeafStep DEF Ignored, Mute
  <2>2. AskedStatus'
    BY <1>5, <2>1 DEF AskedStatus, Ignored
  <2> QED
    BY <1>3, <2>1, <2>2, Still
<1>6. CASE Replied /\ Replying
  <2>1. Untouched /\ rx' = rx /\ (Replying' \/ pc' = "monit") /\ Answer' = Answer
    BY <1>1, <1>6, ReplyStep
  <2>2. PICK a : a = Answer
    OBVIOUS
  <2>3. Right(a)'
    BY <1>1, <1>6, <2>1, <2>2, RightKept DEF Replied
  <2>4. Right(Answer)'
    BY <2>1, <2>2, <2>3 DEF Right
  <2>5. AskedStatus'
    BY <1>6, <2>1, <2>4 DEF AskedStatus, Replied
  <2>6. pc' \notin {"stuck", "resetting"}
    BY <2>1 DEF Replying
  <2> QED
    BY <1>3, <2>1, <2>5, <2>6, Still
<1>7. CASE Replied /\ ~Replying
  BY <1>1, <1>7, Idle DEF Replied
<1>8. ASSUME InMonitor, tx = <<>>, NEW ws \in Seq(Packets), Carries(Append(ws, TestPacket)),
             Full(Append(ws, TestPacket)), Writes(ws, Pages * CellsPerPage)
      PROVE  Kept
  <2>1. PICK qs \in Seq(Packets) : qs = Append(ws, TestPacket)
    BY AppendRest, FixedPackets
  <2>2. PICK n \in Nat : n = Pages * CellsPerPage
    BY <1>1
  <2>3. Carries(qs) /\ Full(qs) /\ Writes(ws, n)
    BY <1>8, <2>1, <2>2
  <2>4. CASE pc = "monit"
    <3>1. /\ pc' = "packet" /\ Carries(qs)' /\ Full(qs)' /\ Untouched /\ tx' = tx
      BY <1>1, <2>3, <2>4, MarkerStep
    <3>2. Writes(ws, n)'
      BY <1>1, <2>3, <3>1, WritesKept
    <3>3. AskedStatus'
      BY <1>8, <2>1, <2>2, <3>1, <3>2 DEF AskedStatus, InMonitor
    <3> QED
      BY <1>3, <3>1, <3>3, Still
  <2>5. CASE pc = "packet" /\ ws # <<>>
    <3>1. qs[1] = ws[1] /\ Tail(qs) = Append(Tail(ws), TestPacket)
      BY <2>1, <2>5, AppendRest, FixedPackets
    <3>2. Harmless(ws[1]) /\ Programs(ws[1]) /\ Cmd(ws[1]) = PAGE_WRITE
      <4>1. 1 \in 1 .. Len(ws)
        BY <2>5, Rest
      <4> QED
        BY <1>1, <1>2, <2>3, <4>1, WritesHarmless
    <3>3. /\ Effect(ws[1]) /\ Full(Tail(qs))' /\ Carries(Tail(qs))' /\ tx' = tx
      BY <1>1, <2>3, <2>5, <3>1, <3>2, PacketStep
    <3>4. pc' = "monit" /\ Allowed /\ NVMem(ProgramCell(Adr(ws[1]), Data(ws[1])))
      BY <1>1, <3>2, <3>3, EffectAllowed DEF Effect, PAGE_WRITE, PAGE_ERASE, TEST, PEEK, ProbeKey
    <3>5. Writes(Tail(ws), n)'
      BY <1>1, <1>2, <2>3, <2>5, <3>4, WordDone
    <3>6. PICK us \in Seq(Packets) : us = Tail(ws)
      BY <2>5, Rest
    <3>7. /\ Carries(Append(us, TestPacket))' /\ Full(Append(us, TestPacket))' /\ Writes(us, n)'
      BY <3>1, <3>3, <3>5, <3>6
    <3>8. AskedStatus'
      BY <1>8, <2>2, <3>3, <3>4, <3>7 DEF AskedStatus, InMonitor
    <3> QED
      BY <1>3, <3>4, <3>8
  <2>6. CASE pc = "packet" /\ ws = <<>>
    <3> DEFINE p == TestPacket
    <3>1. qs = <<p>> /\ <<p>>[1] = p /\ Harmless(p) /\ Cmd(p) = TEST
      BY <2>1, <2>6, AppendRest, FixedPackets, TestHarmless DEF Cmd
    <3> HIDE DEF p
    <3>2. /\ Effect(p) /\ tx' = tx /\ rx' \in Seq(Byte) /\ Framed(rx', 0, Tail(<<p>>))
      BY <1>1, <2>3, <2>6, <3>1, PacketStep
    <3>3. PICK last \in Cells : /\ Untouched /\ Replying'
                                /\ reply' = <<TEST, Arg(p), Pages, KSeg0 + last, 0>>
      BY <3>1, <3>2 DEF Effect, PAGE_WRITE, PAGE_ERASE, TEST, PEEK, ProbeKey
    <3>4. rx' = <<>> /\ tx' = <<>>
      BY <1>8, <3>2, OneCarried
    <3>5. reply' \in Seq(Byte) /\ Len(reply') = PacketSize
      BY <1>1, <3>1, <3>2, <3>3, ReplySeq
    <3>6. Answer' = reply'
      <4>1. tx' \o reply' = reply'
        BY <3>4, <3>5, ConcatEmptySeq
      <4> QED
        BY <3>3, <4>1 DEF Answer
    <3>7. nvmFaults' = 0 => Complete(flash', image')
      BY <1>1, <1>8, <2>6, <3>3, AllWritten DEF Untouched
    <3>8. reply'[5] = 0
      BY <3>3
    <3>9. Right(Answer)'
      BY <1>1, <3>5, <3>6, <3>7, <3>8 DEF Right
    <3>10. AskedStatus'
      BY <3>3, <3>4, <3>9 DEF AskedStatus, Replied
    <3>11. pc' \notin {"stuck", "resetting"}
      BY <3>3 DEF Replying
    <3> QED
      BY <1>3, <3>3, <3>10, <3>11, Still
  <2> QED
    BY <1>8, <2>4, <2>5, <2>6 DEF InMonitor
<1> QED
  BY <1>1, <1>4, <1>5, <1>6, <1>7, <1>8 DEF AskedStatus

-----------------------------------------------------------------------------
(* The host's steps.                                                       *)

HostTurn(where) ==
    /\ TypeInv /\ IInv /\ Steady
    /\ UNCHANGED <<device, scene>>
    /\ hpc = where

HostKept == Situation' /\ Progress' /\ Safe'

LEMMA SameBoard ==
    ASSUME UNCHANGED device
    PROVE  /\ UNCHANGED <<pc, back, reply, flash, nvmFaults>>
           /\ InMonitor' = InMonitor /\ Replying' = Replying /\ Taken' = Taken
           /\ \A c : IsFlashEnd(c)' = IsFlashEnd(c)
<1>1. UNCHANGED <<pc, back, reply, flash, nvmFaults>>
  BY DEF device
<1> QED
  BY <1>1 DEF InMonitor, Replying, Taken, IsFlashEnd

LEMMA StillSafe ==
    ASSUME Safe, UNCHANGED device, hpc \notin {"off", "probe", "ended"}
    PROVE  Safe' /\ pc \notin {"stuck", "resetting"}
<1>1. pc' = pc /\ flash' = flash
  BY SameBoard
<1> QED
  BY <1>1 DEF Safe

(* A whole reply has come: it is the right one, and nothing is left.       *)
LEMMA ReplyTaken ==
    ASSUME TypeInv, Replied, TakeReply, UNCHANGED device, rx' = rx
    PROVE  /\ Resting' /\ pc \in {"monit", "loop", "app"} /\ Right(tx)
           /\ \A i \in 1 .. PacketSize : ReplyToPC[i] = tx[i]
<1>1. /\ tx' \in Seq(Byte) /\ Len(tx) \in Nat /\ Len(tx) >= PacketSize /\ Len(tx') = Len(tx) - PacketSize
      /\ \A i \in 1 .. PacketSize : ReplyToPC[i] = tx[i]
  BY Bytes, ReplyBytes
<1>2. ~Replying
  <2> SUFFICES ASSUME Replying PROVE FALSE
    OBVIOUS
  <2>1. reply \in Seq(Byte) /\ tx \in Seq(Byte) /\ Len(reply) \in Nat /\ Len(reply) # 0
    BY Bytes DEF Replying
  <2>2. Len(tx \o reply) = PacketSize
    BY DEF Replied, Answer, Right
  <2>3. Len(tx \o reply) = Len(tx) + Len(reply)
    BY <2>1, ConcatProperties
  <2> QED
    BY <1>1, <2>1, <2>2, <2>3, Six
<1>3. Right(tx) /\ Len(tx) = PacketSize /\ rx = <<>> /\ pc \in {"monit", "loop", "app"}
  BY <1>2 DEF Replied, Answer, Right
<1>4. tx' = <<>>
  <2>1. Len(tx') = 0
    BY <1>1, <1>3, Six
  <2> QED
    BY <1>1, <2>1, EmptySeq
<1>5. pc' = pc
  BY SameBoard
<1> QED
  BY <1>1, <1>3, <1>4, <1>5 DEF Resting

LEMMA QueryAnswered ==
    ASSUME TypeInv, NEW p, Query(p), TakeReply
    PROVE  Replied
<1>1. tx # <<>> /\ ~(Len(tx) < PacketSize)
  BY Bytes, Six DEF TakeReply, ReplyReady
<1> QED
  BY <1>1 DEF Query, Pending, Ignored

(* A query goes out.                                                       *)
LEMMA QuerySent ==
    ASSUME TypeInv, Resting, NEW p \in Packets, Plain(p), Silent(p), Send(Frame(p)), tx' = tx,
           UNCHANGED device
    PROVE  Query(p)'
<1>1. /\ Frame(p) \in Seq(Byte) /\ Framed(Frame(p), 0, <<p>>) /\ Len(Frame(p)) = FrameSize
      /\ Len(<<p>>) = 1 /\ <<p>>[1] = p
  BY FrameBytes, FramedOne
<1>2. rx' = Frame(p) /\ tx' = <<>> /\ pc' = pc /\ pc \in {"monit", "loop", "app"}
  <2>1. <<>> \o Frame(p) = Frame(p)
    BY <1>1, ConcatEmptySeq
  <2> QED
    BY <2>1, SameBoard DEF Resting, Send
<1>3. CASE pc = "monit"
  <2>1. Carries(<<p>>)' /\ Full(<<p>>)'
    BY <1>1, <1>2, <1>3, Six DEF Carries, Full, Taken
  <2> QED
    BY <1>2, <1>3, <2>1 DEF Query, Pending, InMonitor
<1>4. CASE pc # "monit"
  <2>1. \A i \in 1 .. Len(<<p>>) : Plain(<<p>>[i]) /\ Silent(<<p>>[i])
    BY <1>1
  <2>2. Dull(Frame(p)) /\ Unasked(Frame(p))
    BY <1>1, <2>1, DullFrames
  <2>3. Len(<<>>) = 0
    BY EmptySeq
  <2> QED
    BY <1>2, <1>4, <2>2, <2>3, Six DEF Query, Ignored, Mute, Deaf
<1> QED
  BY <1>3, <1>4

(* A frame in front of a board that is deaf.                               *)
LEMMA DeafSent ==
    ASSUME TypeInv, Deaf, NEW s \in Seq(Byte), Dull(s), s # <<>>, s[1] # EnterKey2,
           Send(s), UNCHANGED device
    PROVE  Deaf'
<1>1. rx \in Seq(Byte) /\ Len(rx) \in Nat /\ rx' = rx \o s /\ Dull(rx)
  BY Bytes DEF Deaf, Send
<1>2. Dull(rx')
  BY <1>1, DullJoined
<1>3. pc = "key2" => rx'[1] # EnterKey2
  <2> SUFFICES ASSUME pc = "key2" PROVE rx'[1] # EnterKey2
    OBVIOUS
  <2>1. /\ Len(rx \o s) = Len(rx) + Len(s) /\ Len(s) \in Nat
        /\ \A i \in 1 .. Len(rx) + Len(s) : (rx \o s)[i] = IF i <= Len(rx) THEN rx[i] ELSE s[i - Len(rx)]
    BY <1>1, ConcatProperties, LenProperties
  <2>2. CASE rx = <<>>
    <3>1. rx' = s
      BY <1>1, <2>2, ConcatEmptySeq
    <3> QED
      BY <3>1
  <2>3. CASE rx # <<>>
    <3>1. Len(rx) # 0
      BY <1>1, <2>3, EmptySeq
    <3>2. 1 \in 1 .. Len(rx) + Len(s) /\ 1 <= Len(rx)
      BY <1>1, <2>1, <3>1
    <3>3. rx'[1] = rx[1]
      BY <1>1, <2>1, <3>2
    <3> QED
      BY <2>3, <3>3 DEF Deaf
  <2> QED
    BY <2>2, <2>3
<1>4. UNCHANGED <<pc, back, reply>>
  BY SameBoard
<1> QED
  BY <1>2, <1>3, <1>4 DEF Deaf

LEMMA FrameDull ==
    ASSUME NEW p \in Packets, Plain(p)
    PROVE  Frame(p) \in Seq(Byte) /\ Dull(Frame(p)) /\ Frame(p) # <<>> /\ Frame(p)[1] # EnterKey2
<1>1. /\ Frame(p) \in Seq(Byte) /\ Framed(Frame(p), 0, <<p>>) /\ Len(Frame(p)) = 6
      /\ Len(<<p>>) = 1 /\ <<p>>[1] = p /\ Frame(p)[1] = Marker
  BY FrameBytes, FramedOne, Six
<1>2. \A i \in 1 .. Len(<<p>>) : Plain(<<p>>[i])
  BY <1>1
<1>3. Dull(Frame(p))
  BY <1>1, <1>2, DullFrames
<1>4. Frame(p) # <<>>
  BY <1>1, EmptySeq
<1> QED
  BY <1>1, <1>3, <1>4 DEF Marker, EnterKey2

(* The probe is answered: only by a board outside the monitor.             *)
LEMMA OnProbeAnswered ==
    ASSUME HostTurn("probe"), ProbeAnswered
    PROVE  HostKept
<1>1. /\ TypeInv /\ hpc = "probe" /\ Probed /\ Progress /\ Safe /\ UNCHANGED device
      /\ tx # <<>> /\ Head(tx) = ProbeAck /\ tx' = Tail(tx) /\ Send(Hello) /\ hpc' = "caps"
      /\ UNCHANGED <<asked, dump, verdict>>
  BY DEF HostTurn, IInv, Situation, ProbeAnswered, Answered, Hello, Goto
<1>2. /\ rx \in Seq(Byte) /\ tx \in Seq(Byte) /\ tx[1] = ProbeAck /\ reply \in Seq(Byte)
  BY <1>1, Bytes, Beheaded
<1>3. (tx \o reply)[1] = tx[1]
  <2>1. Len(tx) \in Nat /\ Len(tx) # 0 /\ Len(reply) \in Nat
    BY <1>1, Bytes
  <2>2. 1 \in 1 .. Len(tx) + Len(reply) /\ 1 <= Len(tx)
    BY <2>1
  <2> QED
    BY <1>2, <2>2, ConcatProperties
<1>4. tx = <<ProbeAck>> /\ pc \in {"loop", "app"} /\ rx = <<>>
  BY <1>1, <1>2, <1>3 DEF Probed, FalseStart
<1>5. tx' = <<>> /\ rx' = Hello /\ pc' = pc /\ flash' = flash
  <2>1. <<>> \o Hello = Hello
    BY HelloBytes, ConcatEmptySeq
  <2>2. Tail(<<ProbeAck>>) = <<>>
    OBVIOUS
  <2> QED
    BY <1>1, <1>4, <2>1, <2>2, SameBoard DEF Send
<1>6. Open'
  BY <1>4, <1>5, HelloBytes DEF Open, Opening, Hello
<1>7. Situation'
  BY <1>1, <1>5, <1>6 DEF Situation
<1>8. Progress'
  BY <1>1 DEF Progress, Reported, asked, NoDump
<1>9. Safe'
  BY <1>1, <1>4, <1>5 DEF Safe
<1> QED
  BY <1>7, <1>8, <1>9 DEF HostKept
(* The capabilities have come.                                             *)
LEMMA OnCapsReceived ==
    ASSUME HostTurn("caps"), CapsReceived
    PROVE  HostKept
<1>1. /\ TypeInv /\ hpc = "caps" /\ Progress /\ Safe /\ UNCHANGED device
      /\ (Open /\ tx = <<>>) \/ Query(TestPacket)
      /\ TakeReply /\ rx' = rx /\ at' = 0 /\ mode' = mode /\ image' = image /\ verdict' = verdict
      /\ UNCHANGED <<asked, dump, verdict>>
      /\ flashEnd' = AtMost(Pages, FlashSizeOf(ReplyToPC))
      /\ usedEnd' = AtMost(Pages * CellsPerPage, LastUsedOf(ReplyToPC))
      /\ hpc' = IF mode \in {"write", "erase"} THEN "erase" ELSE "peek"
      /\ mode \in {"write", "verify", "read", "erase"}
  BY HostAssumption DEF HostTurn, IInv, Situation, CapsReceived, Goto, asked, TypeInv, HostInv, HostTypeOK
<1>2. tx # <<>>
  BY <1>1, Bytes, Six DEF TakeReply, ReplyReady
<1>3. Resting' /\ Right(tx) /\ \A i \in 1 .. PacketSize : ReplyToPC[i] = tx[i]
  BY <1>1, <1>2, QueryAnswered, ReplyTaken
<1>4. PICK last \in Cells : IsFlashEnd(last) /\ tx[4] = KSeg0 + last /\ tx[3] = Pages
  BY <1>1, <1>3 DEF Right
<1>5. ReplyToPC[3] = Pages /\ ReplyToPC[4] = KSeg0 + last
  BY <1>3, <1>4, Six
<1>6. flashEnd' = Pages /\ usedEnd' = last
  <2>1. last \in Nat /\ last < 128 /\ Pages \in Nat /\ last < Pages * CellsPerPage /\ Pages * CellsPerPage \in Nat
    BY CellByte, Numbers
  <2>2. (128 + last) % 128 = last
    BY <2>1
  <2>3. FlashSizeOf(ReplyToPC) = Pages /\ LastUsedOf(ReplyToPC) = last
    BY <1>5, <2>2 DEF FlashSizeOf, LastUsedOf, KSeg0
  <2> DEFINE n == Pages * CellsPerPage
  <2>4. last < n /\ n \in Nat
    BY <2>1
  <2> HIDE DEF n
  <2>5. AtMost(n, last) = last /\ AtMost(Pages, Pages) = Pages
    BY <2>1, <2>4 DEF AtMost
  <2> QED
    BY <1>1, <2>3, <2>5 DEF n
<1>7. verdict = "none" /\ ~Failed' /\ ~Reported'
  BY <1>1 DEF Progress, Failed, Reported
<1>8. Situation'
  BY <1>1, <1>3, <1>7 DEF Situation
<1>9. Clean(0)'
  <2>1. \A c \in Cells : ~(PageOf(c) < 0)
    <3>1. \A c \in Cells : PageOf(c) \in Nat
      BY PageOfCell, Numbers
    <3>2. \A x \in Nat : ~(x < 0)
      OBVIOUS
    <3> QED
      BY <3>1, <3>2
  <2> QED
    BY <2>1 DEF Clean
<1>10. mode = "read" => usedEnd' \in Cells /\ IsFlashEnd(usedEnd)'
          /\ \A c \in Cells : dump'[c] = IF c < at' THEN flash'[c] ELSE Erased
  <2>1. \A c \in Cells : ~(c < 0)
    BY CellByte
  <2>2. mode = "read" => dump = NoDump /\ dump' = dump
    BY <1>1 DEF Progress
  <2>3. IsFlashEnd(last)'
    BY <1>1, <1>4, SameBoard
  <2>4. IsFlashEnd(usedEnd)'
    BY <1>6, <2>3 DEF IsFlashEnd
  <2> QED
    BY <1>1, <1>6, <2>1, <2>2, <2>4 DEF NoDump
<1>11. Progress'
  <2>1. hpc' \in {"erase", "erasing"} => Clean(at)'
    BY <1>1, <1>9 DEF Clean
  <2> QED
    BY <1>1, <1>6, <1>7, <1>10, <2>1 DEF Progress
<1>12. Safe'
  BY <1>1, StillSafe
<1> QED
  BY <1>8, <1>11, <1>12 DEF HostKept

(* They are never refused: the board counts no errors.                     *)
LEMMA CapsNotRefused ==
    ASSUME HostTurn("caps")
    PROVE  ~CapsRefused
<1> SUFFICES ASSUME CapsRefused
             PROVE  FALSE
  OBVIOUS
<1>1. /\ TypeInv /\ hpc = "caps" /\ Safe /\ UNCHANGED device
      /\ (Open /\ tx = <<>>) \/ Query(TestPacket)
      /\ TakeReply /\ rx' = rx /\ ErrCountOf(ReplyToPC) # 0
  BY DEF HostTurn, IInv, Situation, CapsRefused
<1>2. tx # <<>>
  BY <1>1, Bytes, Six DEF TakeReply, ReplyReady
<1>3. Right(tx) /\ \A i \in 1 .. PacketSize : ReplyToPC[i] = tx[i]
  BY <1>1, <1>2, QueryAnswered, ReplyTaken
<1> QED
  BY <1>1, <1>3, Six DEF Right, ErrCountOf

(* A page is erased, if anything is to be written on it.                   *)
LEMMA OnErasePageAt ==
    ASSUME HostTurn("erase"), ErasePageAt
    PROVE  HostKept
<1>1. /\ TypeInv /\ hpc = "erase" /\ Resting /\ Progress /\ Safe /\ UNCHANGED device
      /\ at < flashEnd /\ UNCHANGED <<asked, sizes, dump, verdict, tx>>
      /\ UNCHANGED <<image, mode, force, run, flashEnd, usedEnd>>
      /\ IF ToErase(at) THEN Send(Frame(ErasePacket(at))) /\ hpc' = "erasing" /\ at' = at
         ELSE at' = at + 1 /\ hpc' = hpc /\ rx' = rx
  BY DEF HostTurn, IInv, Situation, ErasePageAt, Goto, asked, sizes
<1>2. at \in Nat /\ at < Pages /\ verdict = "none" /\ ~Reported /\ ~Reported'
      /\ mode \in {"write", "erase"} /\ flashEnd = Pages
      /\ (mode = "write" /\ nvmFaults = 0 => Clean(at))
  BY <1>1, Bounds DEF Progress, Reported
<1>3. UNCHANGED <<flash, nvmFaults, pc>>
  BY <1>1, SameBoard
<1>4. Safe'
  BY <1>1, StillSafe
<1>5. CASE ToErase(at)
  <2>1. PICK p : p = ErasePacket(at)
    OBVIOUS
  <2>2. p = ErasePacket(at)'
    BY <1>1, <1>5, <2>1 DEF ErasePacket
  <2>3. p \in Packets /\ Plain(p) /\ Silent(p)
    BY <1>1, <1>2, <1>5, <2>1, Erasable, EraseHarmless
  <2>4. Query(p)'
    BY <1>1, <1>5, <2>1, <2>3, QuerySent
  <2>5. Situation'
    BY <1>1, <1>5, <2>2, <2>4 DEF Situation
  <2>6. ToErase(at)' /\ (mode = "write" /\ nvmFaults = 0 => Clean(at)')
    BY <1>1, <1>2, <1>3, <1>5 DEF ToErase, Clean
  <2>7. Progress'
    BY <1>1, <1>2, <1>3, <1>5, <2>6 DEF Progress
  <2> QED
    BY <1>4, <2>5, <2>7 DEF HostKept
<1>6. CASE ~ToErase(at)
  <2>1. Situation'
    BY <1>1, <1>3, <1>6 DEF Situation, Resting
  <2>2. ASSUME mode = "write", nvmFaults = 0 PROVE Clean(at + 1)
    <3>1. ~Holds(image, at) /\ Clean(at)
      BY <1>2, <1>6, <2>2 DEF ToErase
    <3>2. \A c \in Cells : PageOf(c) < at + 1 => PageOf(c) < at \/ PageOf(c) = at
      <4>1. \A c \in Cells : PageOf(c) \in Nat
        BY PageOfCell, Numbers
      <4>2. \A x \in Nat : x < at + 1 => x < at \/ x = at
        BY <1>2
      <4> QED
        BY <4>1, <4>2
    <3> QED
      BY <3>1, <3>2 DEF Clean
  <2>3. mode = "write" /\ nvmFaults = 0 => Clean(at)'
    BY <1>1, <1>3, <1>6, <2>2 DEF Clean
  <2>4. Progress'
    BY <1>1, <1>2, <1>3, <1>6, <2>3 DEF Progress
  <2> QED
    BY <1>4, <2>1, <2>4 DEF HostKept
<1> QED
  BY <1>5, <1>6

LEMMA OnEraseDone ==
    ASSUME HostTurn("erasing"), EraseDone
    PROVE  HostKept
<1>1. /\ TypeInv /\ hpc = "erasing" /\ Query(ErasePacket(at)) /\ Progress /\ Safe /\ UNCHANGED device
      /\ TakeReply /\ hpc' = "erase" /\ at' = at + 1 /\ rx' = rx
      /\ UNCHANGED <<image, mode, force, run, flashEnd, usedEnd, dump, verdict>>
  BY DEF HostTurn, IInv, Situation, EraseDone, Goto, asked, sizes
<1>2. Resting' /\ Right(tx)
  BY <1>1, QueryAnswered, ReplyTaken
<1>3. UNCHANGED <<flash, nvmFaults, pc>>
  BY <1>1, SameBoard
<1>4. mode = "write" /\ nvmFaults = 0 => Clean(at)'
  BY <1>1, <1>2, <1>3 DEF Right, Clean
<1>5. Situation'
  BY <1>1, <1>2 DEF Situation
<1>6. Progress'
  BY <1>1, <1>3, <1>4 DEF Progress, Reported
<1>7. Safe'
  BY <1>1, StillSafe
<1> QED
  BY <1>5, <1>6, <1>7 DEF HostKept

(* The last page is done: every page with something on it is erased.       *)
LEMMA OnEraseEnds ==
    ASSUME HostTurn("erase"), EraseEnds
    PROVE  HostKept
<1>1. /\ TypeInv /\ hpc = "erase" /\ Resting /\ Progress /\ Safe /\ UNCHANGED device
      /\ at >= flashEnd /\ at' = 0 /\ hpc' = IF mode = "write" THEN "write" ELSE "exit"
      /\ UNCHANGED <<image, mode, force, run, flashEnd, usedEnd, dump, verdict, rx, tx>>
  BY DEF HostTurn, IInv, Situation, EraseEnds, Goto, asked, sizes
<1>2. at \in Nat /\ at >= Pages /\ verdict = "none" /\ mode \in {"write", "erase"} /\ flashEnd = Pages
      /\ (mode = "write" /\ nvmFaults = 0 => Clean(at))
  BY <1>1, Bounds DEF Progress
<1>3. UNCHANGED <<flash, nvmFaults, pc>>
  BY <1>1, SameBoard
<1>4. Safe'
  BY <1>1, StillSafe
<1>5. CASE mode = "write"
  <2>1. ASSUME nvmFaults = 0, NEW c \in Cells, Holds(image, PageOf(c)) PROVE flash[c] = Erased
    <3>1. PageOf(c) < at
      <4>1. PageOf(c) \in 0 .. (Pages - 1) /\ Pages \in Nat
        BY PageOfCell, Numbers
      <4> QED
        BY <1>2, <4>1
    <3> QED
      BY <1>2, <1>5, <2>1, <3>1 DEF Clean
  <2>2. Writes(<<>>, 0)
    <3>1. \A c \in Cells : c >= 0
      BY CellByte
    <3>2. \A i \in 1 .. Len(<<>>) : FALSE
      BY EmptySeq
    <3> QED
      BY <2>1, <3>1, <3>2 DEF Writes
  <2>3. Writes(<<>>, at)'
    BY <1>1, <1>3, <2>2 DEF Writes, WritePacket
  <2>4. Writing'
    <3>1. CASE pc = "monit"
      <4>1. Carries(<<>>)' /\ Full(<<>>)' /\ <<>> \in Seq(Packets)
        BY <1>1, <1>3, <3>1, FramedNone, Six, EmptySeq DEF Carries, Full, Taken, Resting
      <4> QED
        BY <1>1, <1>3, <2>3, <3>1, <4>1 DEF Writing, InMonitor, Resting
    <3>2. CASE pc # "monit"
      BY <1>1, <1>3, <3>2, NoBytes DEF Writing, Resting, Deaf
    <3> QED
      BY <3>1, <3>2
  <2>5. Situation'
    BY <1>1, <1>5, <2>4 DEF Situation
  <2>6. Progress'
    BY <1>1, <1>2, <1>5 DEF Progress, Reported
  <2> QED
    BY <1>4, <2>5, <2>6 DEF HostKept
<1>6. CASE mode # "write"
  <2>1. Situation'
    BY <1>1, <1>3, <1>6 DEF Situation, Exiting, Resting
  <2>2. Progress'
    BY <1>1, <1>2, <1>6 DEF Progress, Reported
  <2> QED
    BY <1>4, <2>1, <2>2 DEF HostKept
<1> QED
  BY <1>5, <1>6

(* One more word goes on the line.                                         *)
LEMMA OneMoreWord ==
    ASSUME TypeInv, at \in Cells, image[at] # Erased, NEW ws \in Seq(Packets), Writes(ws, at)
    PROVE  Writes(Append(ws, WritePacket(at)), at + 1)
<1> DEFINE p == WritePacket(at)
           us == Append(ws, p)
           m == Len(ws)
<1>1. /\ p \in Packets /\ p = <<PAGE_WRITE, 1, at, FlashBase, image[at]>>
  BY Bytes, CellPackets
<1>2. Adr(p) = at /\ at \in Nat
  BY <1>1, CellByte DEF Adr
<1>3. /\ m \in Nat /\ Len(us) = m + 1 /\ us[m + 1] = p /\ \A i \in 1 .. m : us[i] = ws[i]
  BY <1>1, AppendProperties, LenProperties
<1> HIDE DEF us, m
<1>4. \A i \in 1 .. m + 1 : i \in 1 .. m \/ i = m + 1
  BY <1>3
<1>5. \A i \in 1 .. m : \E c \in Cells : c < at /\ image[c] # Erased /\ ws[i] = WritePacket(c) /\ Adr(ws[i]) = c
  <2> SUFFICES ASSUME NEW i \in 1 .. m
               PROVE  \E c \in Cells : c < at /\ image[c] # Erased /\ ws[i] = WritePacket(c) /\ Adr(ws[i]) = c
    OBVIOUS
  <2>1. PICK c \in Cells : c < at /\ image[c] # Erased /\ ws[i] = WritePacket(c)
    BY DEF Writes, m
  <2>2. Adr(WritePacket(c)) = c
    BY Bytes, CellPackets DEF Adr
  <2> QED
    BY <2>1, <2>2
<1>6. \A i \in 1 .. Len(us) : \E c \in Cells : c < at + 1 /\ image[c] # Erased /\ us[i] = WritePacket(c)
  <2> SUFFICES ASSUME NEW i \in 1 .. m + 1
               PROVE  \E c \in Cells : c < at + 1 /\ image[c] # Erased /\ us[i] = WritePacket(c)
    BY <1>3
  <2>1. CASE i \in 1 .. m
    <3>1. PICK c \in Cells : c < at /\ image[c] # Erased /\ ws[i] = WritePacket(c)
      BY <1>5, <2>1
    <3>2. c < at + 1
      BY <1>2, <3>1, CellByte
    <3> QED
      BY <1>3, <2>1, <3>1, <3>2
  <2>2. CASE i = m + 1
    <3>1. at < at + 1
      BY <1>2
    <3> QED
      BY <1>3, <2>2, <3>1
  <2> QED
    BY <1>4, <2>1, <2>2
<1>7. \A i, j \in 1 .. Len(us) : i < j => Adr(us[i]) < Adr(us[j])
  <2> SUFFICES ASSUME NEW i \in 1 .. m + 1, NEW j \in 1 .. m + 1, i < j
               PROVE  Adr(us[i]) < Adr(us[j])
    BY <1>3
  <2>1. i \in 1 .. m
    BY <1>3
  <2>2. us[i] = ws[i] /\ Adr(ws[i]) < at
    BY <1>3, <1>5, <2>1
  <2>3. CASE j = m + 1
    BY <1>2, <1>3, <2>2, <2>3
  <2>4. CASE j \in 1 .. m
    <3>1. us[j] = ws[j]
      BY <1>3, <2>4
    <3> QED
      BY <2>1, <2>2, <2>4, <3>1 DEF Writes, m
  <2> QED
    BY <1>4, <2>3, <2>4
<1>8. ASSUME nvmFaults = 0, NEW c \in Cells, Holds(image, PageOf(c))
      PROVE  flash[c] = IF c >= at + 1 \/ (\E i \in 1 .. Len(us) : Adr(us[i]) = c)
                        THEN Erased ELSE image[c]
  <2>1. flash[c] = IF c >= at \/ (\E i \in 1 .. m : Adr(ws[i]) = c) THEN Erased ELSE image[c]
    BY <1>8 DEF Writes, m
  <2>2. c \in Nat
    BY CellByte
  <2>3. CASE c = at
    <3>1. m + 1 \in 1 .. m + 1 /\ Adr(us[m + 1]) = c /\ c >= at
      BY <1>2, <1>3, <2>3
    <3>2. \E i \in 1 .. Len(us) : Adr(us[i]) = c
      BY <1>3, <3>1
    <3> QED
      BY <2>1, <3>1, <3>2
  <2>4. CASE c # at
    <3>1. c >= at + 1 <=> c >= at
      BY <1>2, <2>2, <2>4
    <3>2. (\E i \in 1 .. Len(us) : Adr(us[i]) = c) <=> (\E i \in 1 .. m : Adr(ws[i]) = c)
      <4>1. ASSUME NEW i \in 1 .. Len(us), Adr(us[i]) = c PROVE \E k \in 1 .. m : Adr(ws[k]) = c
        <5>1. i # m + 1
          BY <1>2, <1>3, <2>4, <4>1
        <5>2. i \in 1 .. m
          BY <1>3, <1>4, <5>1
        <5> QED
          BY <1>3, <4>1, <5>2
      <4>2. ASSUME NEW i \in 1 .. m, Adr(ws[i]) = c PROVE \E k \in 1 .. Len(us) : Adr(us[k]) = c
        <5>1. i \in 1 .. Len(us)
          BY <1>3
        <5> QED
          BY <1>3, <4>2, <5>1
      <4> QED
        BY <4>1, <4>2
    <3> QED
      BY <2>1, <3>1, <3>2
  <2> QED
    BY <2>3, <2>4
<1>9. Writes(us, at + 1)
  BY <1>6, <1>7, <1>8 DEF Writes
<1> QED
  BY <1>9 DEF us

(* An erased word need not be sent.                                        *)
LEMMA NoWord ==
    ASSUME TypeInv, at \in Cells, image[at] = Erased, NEW ws, Writes(ws, at)
    PROVE  Writes(ws, at + 1)
<1>1. at \in Nat /\ \A c \in Cells : c \in Nat
  BY CellByte
<1>2. \A c \in Cells : /\ c < at => c < at + 1
                       /\ c # at => (c >= at + 1 <=> c >= at)
                       /\ c = at => c >= at /\ ~(c >= at + 1)
  BY <1>1
<1> QED
  BY <1>2 DEF Writes

LEMMA FrameAfter ==
    ASSUME TypeInv, NEW ws \in Seq(Packets), Carries(ws), Full(ws), NEW p \in Packets,
           Send(Frame(p)), UNCHANGED device
    PROVE  Carries(Append(ws, p))' /\ Full(Append(ws, p))'
<1>1. rx \in Seq(Byte) /\ Framed(rx, Taken, ws) /\ Len(rx) + Taken = FrameSize * Len(ws) /\ Taken \in {0, 1}
  BY Bytes DEF Carries, Full, Taken
<1>2. PICK t \in {0, 1} : t = Taken
  BY <1>1
<1>3. Framed(rx \o Frame(p), t, Append(ws, p)) /\ Len(rx \o Frame(p)) + t = FrameSize * Len(Append(ws, p))
  BY <1>1, <1>2, FramedAppend
<1>4. rx' = rx \o Frame(p) /\ Taken' = t
  BY <1>2, SameBoard DEF Send
<1> QED
  BY <1>3, <1>4 DEF Carries, Full

LEMMA OnWriteCellAt ==
    ASSUME HostTurn("write"), WriteCellAt
    PROVE  HostKept
<1>1. /\ TypeInv /\ hpc = "write" /\ Writing /\ Progress /\ Safe /\ UNCHANGED device
      /\ at < flashEnd * CellsPerPage /\ hpc' = "write" /\ at' = at + 1 /\ tx' = tx
      /\ IF image[at] # Erased THEN Send(Frame(WritePacket(at))) ELSE rx' = rx
      /\ UNCHANGED <<image, mode, force, run, flashEnd, usedEnd, dump, verdict>>
  BY DEF HostTurn, IInv, Situation, WriteCellAt, asked, sizes
<1>2. at \in Cells /\ verdict = "none" /\ image \in Images
  BY <1>1, Bounds, Bytes DEF Progress
<1>3. UNCHANGED <<flash, nvmFaults, pc>> /\ InMonitor' = InMonitor /\ Taken' = Taken
  BY <1>1, SameBoard
<1>4. Safe'
  BY <1>1, StillSafe
<1>5. Progress'
  BY <1>1, <1>3 DEF Progress, Reported
<1> DEFINE p == WritePacket(at)
<1>6. p \in Packets /\ Plain(p)
  <2>1. p \in Packets /\ p = <<PAGE_WRITE, 1, at, FlashBase, image[at]>>
    BY <1>2, CellPackets
  <2>2. at < 128
    BY <1>2, CellByte
  <2> QED
    BY <2>1, <2>2 DEF Plain, PAGE_WRITE, FlashBase, EnterKey1
<1>7. CASE Deaf /\ AllAcks(tx)
  <2>1. Deaf'
    <3>1. CASE image[at] # Erased
      BY <1>1, <1>6, <1>7, <3>1, FrameDull, DeafSent
    <3>2. CASE image[at] = Erased
      BY <1>1, <1>7, <3>2, SameBoard DEF Deaf
    <3> QED
      BY <3>1, <3>2
  <2>2. Writing'
    BY <1>1, <1>7, <2>1 DEF Writing
  <2>3. Situation'
    BY <1>1, <2>2 DEF Situation
  <2> QED
    BY <1>4, <1>5, <2>3 DEF HostKept
<1>8. ASSUME InMonitor, tx = <<>>, NEW ws \in Seq(Packets), Carries(ws), Full(ws), Writes(ws, at)
      PROVE  HostKept
  <2>1. ASSUME NEW us \in Seq(Packets), Carries(us)', Full(us)', Writes(us, at + 1)
        PROVE  HostKept
    <3>1. Writes(us, at)'
      BY <1>1, <1>3, <2>1 DEF Writes, WritePacket
    <3>2. Writing'
      BY <1>1, <1>3, <1>8, <2>1, <3>1 DEF Writing
    <3>3. Situation'
      BY <1>1, <3>2 DEF Situation
    <3> QED
      BY <1>4, <1>5, <3>3 DEF HostKept
  <2>2. CASE image[at] # Erased
    <3>1. PICK us \in Seq(Packets) : us = Append(ws, p)
      BY <1>6, AppendRest
    <3>2. Carries(us)' /\ Full(us)'
      BY <1>1, <1>6, <1>8, <2>2, <3>1, FrameAfter
    <3>3. Writes(us, at + 1)
      BY <1>1, <1>2, <1>8, <2>2, <3>1, OneMoreWord
    <3> QED
      BY <2>1, <3>2, <3>3
  <2>3. CASE image[at] = Erased
    <3>1. Carries(ws)' /\ Full(ws)'
      BY <1>1, <1>3, <1>8, <2>3 DEF Carries, Full
    <3>2. Writes(ws, at + 1)
      BY <1>1, <1>2, <1>8, <2>3, NoWord
    <3> QED
      BY <1>8, <2>1, <3>1, <3>2
  <2> QED
    BY <2>2, <2>3
<1> QED
  BY <1>1, <1>7, <1>8 DEF Writing

LEMMA OnWriteEnds ==
    ASSUME HostTurn("write"), WriteEnds
    PROVE  HostKept
<1>1. /\ TypeInv /\ hpc = "write" /\ Writing /\ Progress /\ Safe /\ UNCHANGED device
      /\ at >= flashEnd * CellsPerPage /\ hpc' = "status" /\ at' = 0 /\ tx' = tx
      /\ Send(Frame(TestPacket))
      /\ UNCHANGED <<image, mode, force, run, flashEnd, usedEnd, dump, verdict>>
  BY DEF HostTurn, IInv, Situation, WriteEnds, Goto, asked, sizes
<1>2. at = Pages * CellsPerPage
  <2> DEFINE n == Pages * CellsPerPage
  <2>1. at \in 0 .. n /\ n \in Nat /\ at >= n
    BY <1>1, Numbers DEF TypeInv, HostInv, HostTypeOK, Progress
  <2> HIDE DEF n
  <2>2. at = n
    BY <2>1
  <2> QED
    BY <2>2 DEF n
<1>3. UNCHANGED <<flash, nvmFaults, pc>> /\ InMonitor' = InMonitor
  BY <1>1, SameBoard
<1>4. Safe'
  BY <1>1, StillSafe
<1>5. Progress'
  BY <1>1, <1>3 DEF Progress, Reported
<1>6. TestPacket \in Packets /\ Plain(TestPacket)
  BY FixedPackets, TestHarmless
<1>7. CASE Deaf /\ AllAcks(tx)
  <2>1. Deaf'
    BY <1>1, <1>6, <1>7, FrameDull, DeafSent
  <2>2. AskedStatus'
    BY <1>1, <1>7, <2>1 DEF AskedStatus
  <2>3. Situation'
    BY <1>1, <2>2 DEF Situation
  <2> QED
    BY <1>4, <1>5, <2>3 DEF HostKept
<1>8. ASSUME InMonitor, tx = <<>>, NEW ws \in Seq(Packets), Carries(ws), Full(ws), Writes(ws, at)
      PROVE  HostKept
  <2>1. Carries(Append(ws, TestPacket))' /\ Full(Append(ws, TestPacket))'
    BY <1>1, <1>6, <1>8, FrameAfter
  <2>2. Writes(ws, Pages * CellsPerPage)'
    BY <1>1, <1>2, <1>3, <1>8 DEF Writes, WritePacket
  <2>3. AskedStatus'
    BY <1>1, <1>3, <1>8, <2>1, <2>2 DEF AskedStatus
  <2>4. Situation'
    BY <1>1, <2>3 DEF Situation
  <2> QED
    BY <1>4, <1>5, <2>4 DEF HostKept
<1> QED
  BY <1>1, <1>7, <1>8 DEF Writing

(* Write Ok only of a reply of the board that has written all of it.       *)
LEMMA OnStatusReceived ==
    ASSUME HostTurn("status"), StatusReceived
    PROVE  HostKept
<1>1. /\ TypeInv /\ hpc = "status" /\ AskedStatus /\ Progress /\ Safe /\ UNCHANGED device
      /\ TakeReply /\ at' = 0 /\ rx' = rx
      /\ IF ErrCountOf(ReplyToPC) = 0 THEN verdict' = "ok" /\ hpc' = "exit"
         ELSE verdict' = "error" /\ hpc' = "peek"
      /\ UNCHANGED <<image, mode, force, run, flashEnd, usedEnd, dump>>
  BY DEF HostTurn, IInv, Situation, StatusReceived, Goto, asked, sizes
<1>2. mode = "write" /\ tx # <<>> /\ ~(Len(tx) < PacketSize) /\ tx \in Seq(Byte)
  BY <1>1, Bytes, Six DEF Progress, TakeReply, ReplyReady
<1>3. UNCHANGED <<flash, nvmFaults, pc>>
  BY <1>1, SameBoard
<1>4. Safe'
  BY <1>1, StillSafe
<1>5. CASE Replied
  <2>1. Resting' /\ Right(tx) /\ \A i \in 1 .. PacketSize : ReplyToPC[i] = tx[i]
    BY <1>1, <1>5, ReplyTaken
  <2>2. ErrCountOf(ReplyToPC) = 0
    BY <1>1, <2>1, Six DEF ErrCountOf, Right
  <2>3. verdict' = "ok" /\ hpc' = "exit" /\ (nvmFaults = 0 => Complete(flash, image))
    BY <1>1, <2>1, <2>2 DEF Right
  <2>4. Situation'
    BY <2>1, <2>3 DEF Situation, Exiting
  <2>5. Progress'
    BY <1>1, <1>2, <1>3, <2>3 DEF Progress, Reported
  <2> QED
    BY <1>4, <2>4, <2>5 DEF HostKept
<1>6. CASE Deaf /\ AllAcks(tx)
  <2>1. ErrCountOf(ReplyToPC) = ProbeAck
    <3>1. 5 \in 1 .. Len(tx) /\ ReplyToPC[5] = tx[5]
      BY <1>1, <1>2, Bytes, ReplyBytes, Six
    <3> QED
      BY <1>6, <3>1 DEF ErrCountOf, AllAcks
  <2>2. verdict' = "error" /\ hpc' = "peek"
    BY <1>1, <2>1 DEF ProbeAck
  <2>3. Deaf' /\ Failed'
    BY <1>1, <1>2, <1>6, <2>2, SameBoard DEF Deaf, Failed
  <2>4. Situation'
    BY <2>2, <2>3 DEF Situation
  <2>5. Progress'
    BY <1>1, <1>2, <2>2, <2>3 DEF Progress, Reported
  <2> QED
    BY <1>4, <2>4, <2>5 DEF HostKept
<1> QED
  BY <1>1, <1>2, <1>5, <1>6 DEF AskedStatus, Ignored

LEMMA PeekInFlash ==
    ASSUME TypeInv, PeekAt
    PROVE  at \in Cells /\ at \in Nat
<1>1. at \in 0 .. (Pages * CellsPerPage) /\ usedEnd \in 0 .. (Pages * CellsPerPage)
  BY DEF TypeInv, HostInv, HostTypeOK
<1>2. CASE mode = "read"
  <2>1. ~(at - (at % StepCells) >= usedEnd)
    BY <1>2 DEF PeekAt, PeekEnd
  <2> QED
    BY <1>1, <2>1, StepInFlash, Numbers
<1>3. CASE mode # "read"
  <2>1. at \in Nat /\ ~(at >= flashEnd * CellsPerPage) /\ flashEnd * CellsPerPage \in Nat
    BY <1>3, Bounds DEF PeekAt, PeekEnd
  <2>2. at < flashEnd * CellsPerPage
    BY <2>1
  <2> QED
    BY <2>1, <2>2, Bounds
<1> QED
  BY <1>2, <1>3

(* A word is asked for, of a board that answers or of one that does not.   *)
LEMMA OnPeekAt ==
    ASSUME HostTurn("peek"), PeekAt
    PROVE  HostKept
<1>1. /\ TypeInv /\ hpc = "peek" /\ Progress /\ Safe /\ UNCHANGED device
      /\ IF Failed THEN Deaf ELSE Resting
      /\ IF ToPeek(at) THEN Send(Frame(PeekPacket(at))) /\ hpc' = "peeking" /\ at' = at
         ELSE at' = at + 1 /\ hpc' = "peek" /\ rx' = rx
      /\ UNCHANGED <<image, mode, force, run, flashEnd, usedEnd, dump, verdict, tx>>
  BY DEF HostTurn, IInv, Situation, PeekAt, Goto, asked, sizes
<1>2. at \in Cells /\ Failed' = Failed /\ Reported' = Reported
  BY <1>1, PeekInFlash DEF Failed, Reported
<1>3. UNCHANGED <<flash, nvmFaults, pc>> /\ \A c : IsFlashEnd(c)' = IsFlashEnd(c)
  BY <1>1, SameBoard
<1>4. Safe'
  BY <1>1, StillSafe
<1>5. Progress'
  <2>1. mode = "read" => at' = at
    BY <1>1 DEF ToPeek
  <2>2. mode = "read" => IsFlashEnd(usedEnd)' = IsFlashEnd(usedEnd)
    <3>1. PICK u : u = usedEnd
      OBVIOUS
    <3>2. IsFlashEnd(u)' = IsFlashEnd(u) /\ usedEnd' = u
      BY <1>1, <1>3, <3>1
    <3> QED
      BY <3>1, <3>2 DEF IsFlashEnd
  <2>3. hpc' \in {"peek", "peeking"} /\ (Reported => hpc \in {"exit", "ended", "off"})
    BY <1>1 DEF Progress
  <2> QED
    BY <1>1, <1>2, <1>3, <2>1, <2>2, <2>3 DEF Progress
<1>6. PICK p : p = PeekPacket(at)
  OBVIOUS
<1>7. p \in Packets /\ Plain(p)
  <2>1. p \in Packets
        /\ p = <<PEEK, 1, at, IF mode = "read" THEN KSeg0 + FlashBase ELSE KSeg0, 0>>
    BY <1>1, <1>2, <1>6, Bytes, CellPackets
  <2>2. at < 128 /\ at \in Nat
    BY <1>2, CellByte
  <2> QED
    BY <2>1, <2>2 DEF Plain, PEEK, FlashBase, KSeg0, EnterKey1
<1>8. CASE ~ToPeek(at)
  <2>1. Situation'
    BY <1>1, <1>2, <1>3, <1>8, SameBoard DEF Situation, Resting, Deaf
  <2> QED
    BY <1>4, <1>5, <2>1 DEF HostKept
<1>9. CASE ToPeek(at) /\ Failed
  <2>1. Deaf'
    BY <1>1, <1>6, <1>7, <1>9, FrameDull, DeafSent
  <2>2. Situation'
    BY <1>1, <1>2, <1>9, <2>1 DEF Situation
  <2> QED
    BY <1>4, <1>5, <2>2 DEF HostKept
<1>10. CASE ToPeek(at) /\ ~Failed
  <2>1. Looking
    BY <1>1, <1>10, LookingNow DEF Progress
  <2>2. Silent(p)
    BY <1>1, <1>2, <1>6, <2>1, PeekHarmless
  <2>3. Query(p)'
    BY <1>1, <1>6, <1>7, <1>10, <2>2, QuerySent
  <2>4. p = PeekPacket(at)'
    BY <1>1, <1>6, <1>10 DEF PeekPacket
  <2>5. Situation'
    BY <1>1, <1>2, <1>10, <2>3, <2>4 DEF Situation
  <2> QED
    BY <1>4, <1>5, <2>5 DEF HostKept
<1> QED
  BY <1>8, <1>9, <1>10

(* The word read is the one in the flash.                                  *)
LEMMA OnPeeked ==
    ASSUME HostTurn("peeking"), Peeked
    PROVE  HostKept
<1>1. /\ TypeInv /\ hpc = "peeking" /\ Progress /\ Safe /\ UNCHANGED device
      /\ IF Failed THEN Deaf ELSE Query(PeekPacket(at))
      /\ TakeReply /\ at' = at + 1 /\ hpc' = "peek" /\ rx' = rx
      /\ IF mode = "read" THEN dump' = [dump EXCEPT ![at] = ReplyToPC[1]] /\ verdict' = verdict
         ELSE /\ verdict' = IF ReplyToPC[1] # image[at] THEN "error" ELSE verdict
              /\ dump' = dump
      /\ UNCHANGED <<image, mode, force, run, flashEnd, usedEnd>>
  BY DEF HostTurn, IInv, Situation, Peeked, PeekedOf, Goto, asked, sizes
<1>2. at \in Cells /\ Failed' = Failed /\ ~Reported /\ ~Reported'
  <2>1. ~Reported
    BY <1>1 DEF Progress
  <2>2. mode = "write" => Failed
    BY <1>1 DEF Progress
  <2> QED
    BY <1>1, <2>1, <2>2 DEF Failed, Reported, TypeInv, HostInv
<1>3. UNCHANGED <<flash, nvmFaults, pc>> /\ \A c : IsFlashEnd(c)' = IsFlashEnd(c)
  BY <1>1, SameBoard
<1>4. Safe'
  BY <1>1, StillSafe
<1>5. CASE Failed
  <2>1. Deaf' /\ mode # "read"
    BY <1>1, <1>5, SameBoard DEF Deaf, Failed
  <2>2. Situation'
    BY <1>1, <1>2, <1>5, <2>1 DEF Situation
  <2>3. Progress'
    BY <1>1, <1>2, <1>3, <1>5, <2>1 DEF Progress
  <2> QED
    BY <1>4, <2>2, <2>3 DEF HostKept
<1>6. CASE ~Failed
  <2>1. Resting' /\ Right(tx) /\ \A i \in 1 .. PacketSize : ReplyToPC[i] = tx[i]
    <3>1. PICK p : p = PeekPacket(at)
      OBVIOUS
    <3>2. Replied
      BY <1>1, <1>6, <3>1, QueryAnswered
    <3> QED
      BY <1>1, <3>2, ReplyTaken
  <2>2. Situation'
    BY <1>1, <1>2, <1>6, <2>1 DEF Situation
  <2>3. ASSUME mode = "read" PROVE \A c \in Cells : dump'[c] = IF c < at' THEN flash'[c] ELSE Erased
    <3>1. ReplyToPC[1] = flash[at]
      BY <1>1, <2>1, <2>3, Six DEF Right
    <3>2. dump \in [Cells -> Byte] /\ \A c \in Cells : c \in Nat
      BY <1>1, Bytes, CellByte
    <3>3. \A c \in Cells : dump'[c] = IF c = at THEN flash[at] ELSE dump[c]
      BY <1>1, <1>2, <2>3, <3>1, <3>2
    <3>4. \A c \in Cells : dump[c] = IF c < at THEN flash[c] ELSE Erased
      BY <1>1, <2>3 DEF Progress
    <3>5. \A c \in Cells : /\ c = at => c < at + 1
                           /\ c # at => (c < at + 1 <=> c < at)
      BY <1>2, <3>2
    <3> QED
      BY <1>1, <1>3, <3>3, <3>4, <3>5
  <2>4. mode = "read" => usedEnd' \in Cells /\ IsFlashEnd(usedEnd)'
    <3>1. PICK u : u = usedEnd
      OBVIOUS
    <3>2. IsFlashEnd(u)' = IsFlashEnd(u) /\ usedEnd' = u
      BY <1>1, <1>3, <3>1
    <3> QED
      BY <1>1, <3>1, <3>2 DEF IsFlashEnd, Progress
  <2>5. mode \in {"read", "verify"}
    BY <1>1, <1>6 DEF Progress
  <2>6. Progress'
    BY <1>1, <1>2, <2>3, <2>4, <2>5 DEF Progress
  <2> QED
    BY <1>4, <2>2, <2>6 DEF HostKept
<1> QED
  BY <1>5, <1>6

(* The dump is complete, but for the last word in use if a step begins     *)
(* with it.                                                                *)
LEMMA OnPeekEnds ==
    ASSUME HostTurn("peek"), PeekEnds
    PROVE  HostKept
<1>1. /\ TypeInv /\ hpc = "peek" /\ Progress /\ Safe /\ UNCHANGED device
      /\ IF Failed THEN Deaf ELSE Resting
      /\ PeekEnd /\ hpc' = "exit"
      /\ verdict' = IF mode = "verify" /\ verdict = "none" THEN "ok" ELSE verdict
      /\ UNCHANGED <<at, image, mode, force, run, flashEnd, usedEnd, dump, rx, tx>>
  BY DEF HostTurn, IInv, Situation, PeekEnds, Goto, asked, sizes
<1>2. ~Reported /\ ~Reported' /\ (mode = "write" => Failed)
  <2>1. ~Reported
    BY <1>1 DEF Progress
  <2>2. mode = "write" => Failed
    BY <1>1 DEF Progress
  <2> QED
    BY <1>1, <2>1, <2>2 DEF Failed, Reported
<1>3. UNCHANGED <<flash, nvmFaults, pc>> /\ \A c : IsFlashEnd(c)' = IsFlashEnd(c)
  BY <1>1, SameBoard
<1>4. Safe'
  BY <1>1, StillSafe
<1>5. Situation'
  <2>1. CASE Failed
    BY <1>1, <2>1, SameBoard DEF Situation, Exiting, Deaf
  <2>2. CASE ~Failed
    BY <1>1, <1>2, <1>3, <2>2 DEF Situation, Exiting, Resting
  <2> QED
    BY <2>1, <2>2
<1>6. ASSUME mode = "read", NEW c \in Cells
      PROVE  dump[c] = flash[c] \/ (IsFlashEnd(c) /\ c % StepCells = 0)
  <2>1. /\ usedEnd \in Cells /\ IsFlashEnd(usedEnd)
        /\ dump[c] = IF c < at THEN flash[c] ELSE Erased
    BY <1>1, <1>6 DEF Progress
  <2>2. /\ at \in Nat /\ usedEnd \in Nat /\ c \in Nat /\ StepCells \in Nat /\ StepCells > 0
        /\ at - (at % StepCells) >= usedEnd
    BY <1>1, <1>6, <2>1, Numbers, Bounds DEF PeekEnd
  <2>3. PICK r : r = at % StepCells
    OBVIOUS
  <2>4. r \in Nat /\ at - r >= usedEnd
    BY <2>2, <2>3
  <2>5. CASE c < at
    BY <2>1, <2>5
  <2>6. CASE c > usedEnd
    BY <2>1, <2>2, <2>6 DEF IsFlashEnd
  <2>7. CASE c >= at /\ c <= usedEnd
    <3>1. c = usedEnd /\ c = at /\ r = 0
      BY <2>2, <2>4, <2>7
    <3> QED
      BY <2>1, <2>3, <3>1
  <2> QED
    BY <2>2, <2>5, <2>6, <2>7
<1>7. \A c \in Cells : mode = "read" => dump'[c] = flash'[c] \/ (IsFlashEnd(c)' /\ c % StepCells = 0)
  BY <1>1, <1>3, <1>6
<1>8. Progress'
  BY <1>1, <1>2, <1>7 DEF Progress
<1> QED
  BY <1>4, <1>5, <1>8 DEF HostKept

(* The session leaves the board alone.                                     *)
LEMMA OnHostExit ==
    ASSUME HostTurn("exit"), HostExit
    PROVE  HostKept
<1> DEFINE s == (IF run THEN Frame(JumpPacket) ELSE <<>>) \o Fill
<1>1. /\ TypeInv /\ hpc = "exit" /\ Exiting /\ Progress /\ Safe /\ UNCHANGED device
      /\ hpc' = "ended" /\ rx' = rx \o s
      /\ UNCHANGED <<at, image, mode, force, run, flashEnd, usedEnd, dump, verdict, tx>>
  BY DEF HostTurn, IInv, Situation, HostExit, Goto, Send, Fill, asked, sizes
<1>2. UNCHANGED <<flash, nvmFaults, pc>> /\ \A c : IsFlashEnd(c)' = IsFlashEnd(c)
  BY <1>1, SameBoard
<1>3. Safe'
  BY <1>1, StillSafe
<1>4. Progress'
  BY <1>1, <1>2 DEF Progress, Reported
<1>5. s = IF run THEN Frame(JumpPacket) \o Fill ELSE Fill
  BY FillBytes, ConcatEmptySeq
<1> HIDE DEF s
<1>6. s \in Seq(Byte) /\ Dull(s) /\ s # <<>> /\ s[1] # EnterKey2 /\ s[Len(s)] = FillByte
  <2>1. s[1] # EnterKey2
    <3>1. 1 \in 1 .. 6 /\ FillByte # EnterKey2 /\ Marker # EnterKey2
      BY DEF FillByte, EnterKey2, Marker
    <3> QED
      BY <1>5, <3>1, FillBytes, JumpAndFill
  <2>2. s[Len(s)] = FillByte
    <3>1. 6 \in 1 .. 6
      OBVIOUS
    <3> QED
      BY <1>5, <3>1, FillBytes, JumpAndFill
  <2> QED
    BY <1>5, <2>1, <2>2, FillBytes, JumpAndFill
<1>7. CASE Deaf
  <2>1. Deaf'
    BY <1>1, <1>6, <1>7, DeafSent DEF Send
  <2>2. rx \in Seq(Byte) /\ Len(rx) \in Nat /\ Len(s) \in Nat /\ Len(s) # 0
    BY <1>1, <1>6, Bytes, EmptySeq, LenProperties
  <2>3. Len(rx') = Len(rx) + Len(s) /\ rx' \in Seq(Byte)
        /\ \A i \in 1 .. Len(s) : rx'[Len(rx) + i] = s[i]
    BY <1>1, <1>6, <2>2, Joined
  <2>4. rx'[Len(rx')] = FillByte /\ Len(rx') # 0
    <3>1. Len(s) \in 1 .. Len(s) /\ Len(rx) + Len(s) # 0
      BY <2>2
    <3> QED
      BY <1>6, <2>3, <3>1
  <2>5. rx' # <<>>
    BY <2>3, <2>4, EmptySeq
  <2>6. Ended'
    BY <2>1, <2>4, <2>5 DEF Ended
  <2>7. Situation'
    BY <1>1, <2>6 DEF Situation
  <2> QED
    BY <1>3, <1>4, <2>7 DEF HostKept
<1>8. CASE Resting /\ pc = "monit" /\ (mode = "write" => verdict = "ok")
  <2>1. rx' = s
    BY <1>1, <1>6, <1>8, ConcatEmptySeq DEF Resting
  <2>2. Leaving'
    BY <1>1, <1>2, <1>5, <1>8, <2>1 DEF Leaving, Fill
  <2>3. Situation'
    BY <1>1, <2>2 DEF Situation, Ended
  <2> QED
    BY <1>3, <1>4, <2>3 DEF HostKept
<1>9. Resting /\ pc # "monit" => Deaf
  BY NoBytes DEF Resting, Deaf
<1> QED
  BY <1>1, <1>7, <1>8, <1>9 DEF Exiting

(* Every step of a session.                                                *)
LEMMA SessionKeeps ==
    ASSUME TypeInv, IInv, Steady, Session
    PROVE  Situation' /\ Progress' /\ Safe'
<1>1. UNCHANGED <<device, scene>>
  BY DEF Session
<1>2. HostTurn(hpc)
  BY <1>1 DEF HostTurn
<1>3. ProbeAnswered => HostTurn("probe")
  BY <1>2 DEF ProbeAnswered
<1>4. CapsReceived \/ CapsRefused => HostTurn("caps")
  BY <1>2 DEF CapsReceived, CapsRefused
<1>5. ErasePageAt \/ EraseEnds => HostTurn("erase")
  BY <1>2 DEF ErasePageAt, EraseEnds
<1>6. EraseDone => HostTurn("erasing")
  BY <1>2 DEF EraseDone
<1>7. WriteCellAt \/ WriteEnds => HostTurn("write")
  BY <1>2 DEF WriteCellAt, WriteEnds
<1>8. StatusReceived => HostTurn("status")
  BY <1>2 DEF StatusReceived
<1>9. PeekAt \/ PeekEnds => HostTurn("peek")
  BY <1>2 DEF PeekAt, PeekEnds
<1>10. Peeked => HostTurn("peeking")
  BY <1>2 DEF Peeked
<1>11. HostExit => HostTurn("exit")
  BY <1>2 DEF HostExit
<1>12. HostKept
  BY <1>3, <1>4, <1>5, <1>6, <1>7, <1>8, <1>9, <1>10, <1>11, OnProbeAnswered, OnCapsReceived, CapsNotRefused,
     OnErasePageAt, OnEraseDone, OnEraseEnds, OnWriteCellAt, OnWriteEnds, OnStatusReceived,
     OnPeekAt, OnPeeked, OnPeekEnds, OnHostExit DEF Session, SessionStep
<1> QED
  BY <1>12 DEF HostKept

(* Every step of the board.                                                *)
LEMMA BoardKeeps ==
    ASSUME TypeInv, IInv, Steady, Board
    PROVE  Kept
<1>1. BoardTurn(hpc)
  BY DEF BoardTurn, Board
<1>2. hpc \in {"off", "probe", "caps", "erase", "erasing", "write", "status",
               "peek", "peeking", "exit", "ended"}
  BY DEF TypeInv, HostInv, HostTypeOK
<1> QED
  BY <1>1, <1>2, BoardOff, BoardProbe, BoardCaps, BoardErase, BoardErasing, BoardWriting,
     BoardStatus, BoardPeek, BoardPeeking, BoardExit, BoardEnded

-----------------------------------------------------------------------------
(* The surroundings: the user starts the program, kills it, resets the     *)
(* board.                                                                  *)

(* Half a packet, filled up with the byte of a probe.                      *)
LEMMA FilledUp ==
    ASSUME TypeInv, pc = "packet", Len(rx) < PacketSize, NEW qs, AllHarmless(qs), Carries(qs),
           rx' = rx \o <<ProbeKey>>, UNCHANGED <<device, scene>>, verdict' = "none"
    PROVE  /\ \E p \in Packets : Harmless(p)' /\ Carries(<<p>>)'
           /\ rx' # <<>> /\ rx'[Len(rx')] = ProbeKey
<1> DEFINE n == Len(rx)
           q == qs[1]
<1>1. rx \in Seq(Byte) /\ n \in Nat /\ n < 5 /\ Taken = 1 /\ flash' = flash /\ nvmFaults' = nvmFaults
      /\ pc' = pc
  BY Bytes, Six, SameBoard DEF Taken
<1>2. qs \in Seq(Packets) /\ Len(qs) \in Nat /\ n + 1 <= 6 * Len(qs)
      /\ \A i \in 1 .. n : rx[i] = At(qs, i + 1)
  BY <1>1, Six, LenProperties DEF Carries, Framed
<1>3. Harmless(q) /\ q \in Packets
  <2>1. 1 \in 1 .. Len(qs)
    BY <1>1, <1>2
  <2> QED
    BY <2>1 DEF AllHarmless, Harmless
<1>4. \A i \in 1 .. n : rx[i] = q[i]
  <2> SUFFICES ASSUME NEW i \in 1 .. n PROVE rx[i] = q[i]
    OBVIOUS
  <2>1. i + 1 \in 1 .. FrameSize /\ i + 1 # 1 /\ (i + 1) - 1 = i
    BY <1>1, Six
  <2> QED
    BY <1>2, <2>1, AtFirst
<1>5. /\ Len(rx') = n + 1 /\ rx' \in Seq(Byte) /\ rx'[n + 1] = ProbeKey
      /\ \A i \in 1 .. n : rx'[i] = rx[i]
  <2>1. ProbeKey \in Byte
    BY DEF ProbeKey, Byte
  <2>2. <<ProbeKey>> \in Seq(Byte) /\ Len(<<ProbeKey>>) = 1 /\ <<ProbeKey>>[1] = ProbeKey
    BY <2>1, DullShort
  <2>3. 1 \in 1 .. 1 /\ 1 \in Nat
    OBVIOUS
  <2> QED
    BY <1>1, <2>2, <2>3, Joined
<1>6. PICK p \in Packets : \A k \in 1 .. 5 : p[k] = IF k <= n THEN q[k] ELSE ProbeKey
  <2> DEFINE r == [k \in 1 .. 5 |-> IF k <= n THEN q[k] ELSE ProbeKey]
  <2>1. ProbeKey \in Byte
    BY DEF ProbeKey, Byte
  <2>2. \A k \in 1 .. 5 : q[k] \in Byte
    BY <1>3, Six DEF Packets
  <2>3. r \in [1 .. 5 -> Byte]
    BY <2>1, <2>2
  <2>4. r \in Packets
    BY <2>3, Six DEF Packets
  <2> QED
    BY <2>4
<1> HIDE DEF q, n
<1>7. Framed(rx', 1, <<p>>)
  <2>1. <<p>> \in Seq(Packets) /\ Len(<<p>>) = 1 /\ <<p>>[1] = p
    BY <1>6, FramedOne
  <2>2. \A i \in 1 .. n + 1 : rx'[i] = p[i] /\ i \in 1 .. 5
    <3> SUFFICES ASSUME NEW i \in 1 .. n + 1 PROVE rx'[i] = p[i] /\ i \in 1 .. 5
      OBVIOUS
    <3>1. i \in 1 .. 5 /\ (i <= n \/ i = n + 1)
      BY <1>1
    <3>2. CASE i <= n
      <4>1. i \in 1 .. n
        BY <1>1, <3>2
      <4> QED
        BY <1>4, <1>5, <1>6, <3>1, <3>2, <4>1
    <3>3. CASE i = n + 1
      <4>1. ~(i <= n)
        BY <1>1, <3>3
      <4> QED
        BY <1>5, <1>6, <3>1, <3>3, <4>1
    <3> QED
      BY <3>1, <3>2, <3>3
  <2>3. \A i \in 1 .. n + 1 : rx'[i] = At(<<p>>, i + 1)
    <3> SUFFICES ASSUME NEW i \in 1 .. n + 1 PROVE rx'[i] = At(<<p>>, i + 1)
      OBVIOUS
    <3>1. i + 1 \in 1 .. FrameSize /\ i + 1 # 1 /\ (i + 1) - 1 = i
      BY <1>1, Six
    <3>2. At(<<p>>, i + 1) = p[i]
      BY <2>1, <3>1, AtFirst
    <3> QED
      BY <2>2, <3>2
  <2>4. (n + 1) + 1 <= 6 * 1
    BY <1>1
  <2> QED
    BY <1>5, <2>1, <2>3, <2>4, Six DEF Framed
<1>8. Carries(<<p>>)'
  <2>1. Taken' = 1
    BY <1>1 DEF Taken
  <2> QED
    BY <1>7, <2>1 DEF Carries
<1>9. Harmless(p)'
  <2>1. /\ p[1] = IF n = 0 THEN ProbeKey ELSE q[1]
        /\ p[2] = IF n < 2 THEN ProbeKey ELSE q[2]
        /\ p[3] = IF n < 3 THEN ProbeKey ELSE q[3]
        /\ p[4] = IF n < 4 THEN ProbeKey ELSE q[4]
        /\ p[5] = ProbeKey
    BY <1>1, <1>6
  <2>2. /\ \A k \in 1 .. 4 : q[k] # EnterKey1
        /\ q[1] \in {TEST, PEEK, PAGE_ERASE, PAGE_WRITE, ProbeKey}
        /\ q[1] = PEEK => Looking /\ q[2] # 0 /\ (q[2] = 1 \/ q[4] = ProbeKey)
        /\ q[1] \in {PAGE_ERASE, PAGE_WRITE} /\ q[4] % 32 = FlashBase =>
              q[2] = 1 /\ q[3] \in Cells /\ PageOf(q[3]) \in WritablePages
        /\ q[1] = PAGE_WRITE /\ q[4] % 32 = FlashBase /\ nvmFaults = 0 => flash[q[3]] = Erased
    BY <1>3 DEF Harmless, Programs, Cmd, Arg, Adr, Base
  <2>3. ~Reported' /\ Looking' = Looking /\ WritablePages' = WritablePages
    BY DEF Reported, Looking, WritablePages
  <2>4. ProbeKey % 32 # FlashBase /\ ProbeKey \notin {PEEK, PAGE_ERASE, PAGE_WRITE, EnterKey1, 0}
    BY DEF ProbeKey, FlashBase, PEEK, PAGE_ERASE, PAGE_WRITE, EnterKey1
  <2>5. \A k \in 1 .. 4 : p[k] # EnterKey1
    BY <1>6, <2>2, <2>4
  <2>6. Cmd(p) \in {TEST, PEEK, PAGE_ERASE, PAGE_WRITE, ProbeKey}
    BY <2>1, <2>2 DEF Cmd
  <2>7. Cmd(p) = PEEK => Looking' /\ Arg(p) # 0 /\ (Arg(p) = 1 \/ Base(p) = ProbeKey)
    BY <1>1, <2>1, <2>2, <2>3, <2>4 DEF Cmd, Arg, Base
  <2>8. ASSUME Cmd(p) \in {PAGE_ERASE, PAGE_WRITE}, Base(p) % 32 = FlashBase
        PROVE  /\ Cmd(p) = q[1] /\ Arg(p) = q[2] /\ Adr(p) = q[3] /\ Base(p) = q[4]
    <3>1. ~(n < 4)
      BY <2>1, <2>4, <2>8 DEF Base
    <3>2. n # 0 /\ ~(n < 2) /\ ~(n < 3)
      BY <1>1, <3>1
    <3> QED
      BY <2>1, <3>1, <3>2 DEF Cmd, Arg, Adr, Base
  <2>9. Cmd(p) \in {PAGE_ERASE, PAGE_WRITE} /\ Base(p) % 32 = FlashBase =>
          Arg(p) = 1 /\ Adr(p) \in Cells /\ PageOf(Adr(p)) \in WritablePages'
    BY <2>2, <2>3, <2>8
  <2>10. Programs(p) => (nvmFaults' = 0 => flash'[Adr(p)] = Erased)
    BY <1>1, <2>2, <2>8 DEF Programs
  <2>11. Data(p) \in Value \cup {ProbeKey}
    BY <2>1 DEF Data
  <2> QED
    BY <1>6, <2>3, <2>5, <2>6, <2>7, <2>9, <2>10, <2>11 DEF Harmless, Programs
<1>10. rx' # <<>>
  <2>1. n + 1 # 0
    BY <1>1
  <2> QED
    BY <1>5, <2>1, EmptySeq
<1> QED
  BY <1>5, <1>6, <1>8, <1>9, <1>10

LEMMA Asked ==
    /\ <<ProbeKey>> \in Seq(Byte) /\ Dull(<<ProbeKey>>) /\ <<ProbeKey>>[1] # EnterKey2
    /\ Len(<<ProbeKey>>) = 1 /\ <<ProbeKey>>[1] = ProbeKey /\ <<ProbeKey>> # <<>>
    /\ <<>> \o <<ProbeKey>> = <<ProbeKey>>
<1>1. ProbeKey \in Byte /\ ProbeKey # EnterKey2
  BY DEF ProbeKey, Byte, EnterKey2
<1>2. <<ProbeKey>> \in Seq(Byte) /\ Len(<<ProbeKey>>) = 1 /\ <<ProbeKey>>[1] = ProbeKey
      /\ Dull(<<ProbeKey>>) /\ <<ProbeKey>> # <<>>
  BY <1>1, DullShort
<1> QED
  BY <1>1, <1>2, ConcatEmptySeq

(* The user starts the program in front of a board at rest.                *)
LEMMA StartKeeps ==
    ASSUME TypeInv, IInv, Steady, Start
    PROVE  Situation' /\ Progress' /\ Safe'
<1>1. /\ UNCHANGED <<device, scene>> /\ hpc \in {"off", "ended"} /\ tx' = <<>>
      /\ rx' = rx \o <<ProbeKey>> /\ verdict' = "none" /\ dump' = NoDump /\ hpc' = "probe"
      /\ DeviceIdle /\ NoDump' = NoDump
  BY DEF Start, HostStart, InTime, Steady, Goto, Send, NoDump
<1>2. /\ pc' = pc /\ flash' = flash /\ nvmFaults' = nvmFaults /\ back' = back /\ reply' = reply
  BY <1>1, SameBoard
<1>3. Progress'
  BY <1>1 DEF Progress, Reported
<1>4. pc # "resetting" /\ pc # "send"
  BY <1>1 DEF DeviceIdle
<1>5. Safe'
  BY <1>1, <1>2, <1>4 DEF IInv, Safe
<1>6. ASSUME rx = <<>>, pc \in {"loop", "key2", "app", "stuck"} PROVE Probed'
  <2>1. rx' = <<ProbeKey>>
    BY <1>1, <1>6, Asked
  <2>2. Deaf'
    BY <1>2, <1>6, <2>1, Asked DEF Deaf
  <2> QED
    BY <1>1, <1>2, <1>6, <2>1, <2>2 DEF Probed, FalseStart
<1>7. ASSUME scene.kills > 0, rx = <<>>, pc = "monit" PROVE Probed'
  <2>1. rx' = <<ProbeKey>>
    BY <1>1, <1>7, Asked
  <2> QED
    BY <1>1, <1>2, <1>7, <2>1 DEF Probed
<1>8. ASSUME scene.kills > 0, pc = "packet", Len(rx) < PacketSize,
             NEW qs, AllHarmless(qs), Carries(qs)
      PROVE  Probed'
  <2>1. /\ \E p \in Packets : Harmless(p)' /\ Carries(<<p>>)'
        /\ rx' # <<>> /\ rx'[Len(rx')] = ProbeKey
    BY <1>1, <1>8, FilledUp
  <2> QED
    BY <1>1, <1>2, <1>8, <2>1 DEF Probed
<1>9. CASE Deaf
  <2>1. rx = <<>> /\ pc \in {"loop", "key2", "app", "stuck"}
    BY <1>1, <1>9 DEF Deaf, DeviceIdle
  <2>2. Probed'
    BY <1>6, <2>1
  <2> QED
    BY <1>1, <1>3, <1>5, <2>2 DEF Situation
<1>10. CASE scene.kills > 0 /\ Opening
  <2>1. rx = <<>> /\ pc \in {"loop", "key2", "app", "stuck"}
    BY <1>1, <1>10 DEF Opening, DeviceIdle
  <2>2. Probed'
    BY <1>6, <2>1
  <2> QED
    BY <1>1, <1>3, <1>5, <2>2 DEF Situation
<1>11. CASE scene.kills > 0 /\ Left
  <2>1. ~(pc = "monit" /\ rx = <<ProbeKey>>)
    BY <1>1, Asked DEF DeviceIdle
  <2>2. PICK qs \in Seq(Packets) : (InMonitor \/ Replying) /\ AllHarmless(qs) /\ Carries(qs)
    BY <1>11, <2>1 DEF Left
  <2>3. (pc = "monit" /\ rx = <<>>) \/ (pc = "packet" /\ Len(rx) < PacketSize)
    BY <1>1, <2>2 DEF InMonitor, Replying, DeviceIdle
  <2>4. Probed'
    BY <1>7, <1>8, <1>11, <2>2, <2>3
  <2> QED
    BY <1>1, <1>3, <1>5, <2>4 DEF Situation
<1>12. ~Leaving
  <2> SUFFICES ASSUME Leaving PROVE FALSE
    OBVIOUS
  <2>1. ~(11 < PacketSize) /\ Fill # <<>> /\ Frame(JumpPacket) \o Fill # <<>>
        /\ Len(JumpPacket \o Fill) = 11
    BY Six, FillBytes, JumpAndFill
  <2>2. Leaving => (pc = "monit" /\ rx # <<>>) \/ (pc = "packet" /\ Len(rx) = 11) \/ pc = "resetting"
    BY <2>1 DEF Leaving
  <2> QED
    BY <1>1, <2>1, <2>2 DEF DeviceIdle
<1>13. Deaf \/ (scene.kills > 0 /\ (Opening \/ Left))
  BY <1>1, <1>12 DEF IInv, Situation, Off, Ended
<1> QED
  BY <1>9, <1>10, <1>11, <1>13

-----------------------------------------------------------------------------
(* What a session may leave behind wherever it is cut short.               *)

LEMMA NoneLeft ==
    ASSUME rx = <<>>, pc = "monit" \/ Replying
    PROVE  Left
<1>1. AllHarmless(<<>>)
  <2>1. \A i \in 1 .. Len(<<>>) : FALSE
    BY EmptySeq
  <2> QED
    BY <2>1 DEF AllHarmless
<1>2. Taken = 0
  BY DEF Taken, Replying
<1>3. Carries(<<>>) /\ <<>> \in Seq(Packets)
  BY <1>2, FramedNone, EmptySeq DEF Carries
<1> QED
  BY <1>1, <1>3 DEF Left, InMonitor

LEMMA OneLeft ==
    ASSUME NEW p, Harmless(p), InMonitor \/ Replying, Carries(<<p>>)
    PROVE  Left
<1>1. <<p>> \in Seq(Packets) /\ Len(<<p>>) = 1 /\ <<p>>[1] = p
  BY FramedOne DEF Harmless
<1>2. \A i, j \in 1 .. 1 : i = 1 /\ ~(i # j)
  OBVIOUS
<1>3. AllHarmless(<<p>>)
  BY <1>1, <1>2 DEF AllHarmless
<1> QED
  BY <1>1, <1>3 DEF Left

LEMMA RestLeft ==
    ASSUME Resting
    PROVE  Deaf \/ Left
<1>1. pc = "monit" => Left
  BY NoneLeft DEF Resting
<1>2. pc # "monit" => Deaf
  BY NoBytes DEF Resting, Deaf
<1> QED
  BY <1>1, <1>2

LEMMA QueryLeft ==
    ASSUME NEW p, Harmless(p), Query(p)
    PROVE  Deaf \/ Left
<1>1. Pending(p) => Left
  BY OneLeft DEF Pending
<1>2. Replied => Deaf \/ Left
  <2> SUFFICES ASSUME Replied PROVE Deaf \/ Left
    OBVIOUS
  <2>1. pc = "monit" \/ Replying => Left
    BY NoneLeft DEF Replied
  <2>2. ~(pc = "monit" \/ Replying) => Deaf
    BY NoBytes DEF Replied, Deaf
  <2> QED
    BY <2>1, <2>2
<1>3. Ignored => Deaf
  BY DEF Ignored, Mute
<1> QED
  BY <1>1, <1>2, <1>3 DEF Query

(* The words of an image and the question behind them.                     *)
LEMMA StatusHarmless ==
    ASSUME TypeInv, ~Reported, NEW ws \in Seq(Packets), NEW n, Writes(ws, n)
    PROVE  AllHarmless(Append(ws, TestPacket))
<1> DEFINE us == Append(ws, TestPacket)
           m == Len(ws)
<1>1. /\ m \in Nat /\ Len(us) = m + 1 /\ us[m + 1] = TestPacket /\ \A i \in 1 .. m : us[i] = ws[i]
  BY FixedPackets, AppendProperties, LenProperties
<1> HIDE DEF us, m
<1>2. \A i \in 1 .. m + 1 : i \in 1 .. m \/ i = m + 1
  BY <1>1
<1>3. AllHarmless(ws)
  BY WritesHarmless
<1>4. Harmless(TestPacket) /\ ~Programs(TestPacket)
  BY TestHarmless, FixedPackets DEF Programs, Cmd, TEST, PAGE_WRITE
<1>5. \A i \in 1 .. Len(us) : Harmless(us[i])
  BY <1>1, <1>2, <1>3, <1>4 DEF AllHarmless, m
<1>6. \A i, j \in 1 .. Len(us) :
         i # j /\ Programs(us[i]) /\ Programs(us[j]) => Adr(us[i]) # Adr(us[j])
  BY <1>1, <1>2, <1>3, <1>4 DEF AllHarmless, m
<1> QED
  BY <1>5, <1>6 DEF AllHarmless, us

LEMMA Loose ==
    ASSUME TypeInv, IInv, hpc \notin {"off", "ended"}
    PROVE  Deaf \/ (scene.kills > 0 /\ hpc = "probe" /\ Left) \/ (hpc # "probe" /\ (Opening \/ Left))
<1>1. CASE hpc = "probe"
  <2>1. Probed
    BY <1>1 DEF IInv, Situation
  <2>2. CASE scene.kills > 0 /\ pc = "monit" /\ rx = <<ProbeKey>>
    BY <1>1, <2>2 DEF Left
  <2>3. CASE scene.kills > 0 /\ rx = <<>> /\ (pc = "monit" \/ Replying)
    BY <1>1, <2>3, NoneLeft
  <2>4. CASE scene.kills > 0 /\ pc = "packet" /\ \E p \in Packets : Harmless(p) /\ Carries(<<p>>)
    BY <1>1, <2>4, OneLeft DEF InMonitor
  <2> QED
    BY <2>1, <2>2, <2>3, <2>4 DEF Probed
<1>2. CASE hpc = "caps"
  BY <1>2, QueryLeft, TestHarmless DEF IInv, Situation, Open
<1>3. CASE hpc = "erase"
  BY <1>3, RestLeft DEF IInv, Situation
<1>4. CASE hpc = "erasing"
  <2>1. at \in Nat /\ at < Pages /\ ToErase(at) /\ ~Reported
    BY <1>4, Bounds DEF IInv, Progress, Reported, TypeInv, HostInv
  <2>2. Harmless(ErasePacket(at))
    BY <2>1, Erasable, EraseHarmless
  <2> QED
    BY <1>4, <2>2, QueryLeft DEF IInv, Situation
<1>5. CASE hpc = "write"
  <2>1. Writing /\ ~Reported
    BY <1>5 DEF IInv, Situation, Progress, Reported
  <2> QED
    BY <1>5, <2>1, WritesHarmless DEF Writing, Left
<1>6. CASE hpc = "status"
  <2>1. AskedStatus /\ ~Reported
    BY <1>6 DEF IInv, Situation, Progress, Reported
  <2>2. ASSUME InMonitor, NEW ws \in Seq(Packets), Carries(Append(ws, TestPacket)),
               Writes(ws, Pages * CellsPerPage)
        PROVE  Left
    <3>1. AllHarmless(Append(ws, TestPacket)) /\ Append(ws, TestPacket) \in Seq(Packets)
      BY <2>1, <2>2, StatusHarmless, AppendRest, FixedPackets
    <3> QED
      BY <2>2, <3>1 DEF Left
  <2>3. Replied \/ Ignored => Deaf \/ Left
    BY QueryLeft, TestHarmless DEF Query
  <2> QED
    BY <1>6, <2>1, <2>2, <2>3 DEF AskedStatus
<1>7. CASE hpc = "peek"
  BY <1>7, RestLeft DEF IInv, Situation
<1>8. CASE hpc = "peeking"
  <2>1. CASE Failed
    BY <1>8, <2>1 DEF IInv, Situation
  <2>2. CASE ~Failed
    <3>1. at \in Cells /\ Looking
      BY <1>8, <2>2, LookingNow DEF IInv, Progress, TypeInv, HostInv
    <3>2. Harmless(PeekPacket(at))
      BY <3>1, PeekHarmless
    <3> QED
      BY <1>8, <2>2, <3>2, QueryLeft DEF IInv, Situation
  <2> QED
    BY <2>1, <2>2
<1>9. CASE hpc = "exit"
  BY <1>9, RestLeft DEF IInv, Situation, Exiting
<1> QED
  BY <1>1, <1>2, <1>3, <1>4, <1>5, <1>6, <1>7, <1>8, <1>9 DEF TypeInv, HostInv, HostTypeOK

(* What the user lets go of.                                               *)
Dropping(k) ==
    /\ TypeInv /\ IInv /\ Steady /\ hpc \notin {"off", "ended"}
    /\ UNCHANGED <<device, scene, tx, at, asked, sizes, dump, verdict>>
    /\ hpc' = "off"
    /\ k \in 0 .. Len(rx) /\ rx' = SubSeq(rx, 1, k)

LEMMA DropKeeps ==
    ASSUME NEW k, Dropping(k)
    PROVE  /\ Progress' /\ Safe' /\ rx' \in Seq(Byte) /\ Len(rx') = k
           /\ \A i \in 1 .. k : rx'[i] = rx[i]
           /\ Deaf => Deaf'
<1>1. /\ TypeInv /\ IInv /\ Steady /\ hpc \notin {"off", "ended"} /\ UNCHANGED <<device, scene>>
      /\ UNCHANGED <<image, mode, verdict>> /\ hpc' = "off"
      /\ k \in 0 .. Len(rx) /\ rx' = SubSeq(rx, 1, k)
  BY DEF Dropping, asked
<1>2. UNCHANGED <<pc, back, reply, flash, nvmFaults>>
  BY <1>1, SameBoard
<1>3. rx \in Seq(Byte) /\ Len(rx) \in Nat
  BY <1>1, Bytes
<1>4. rx' \in Seq(Byte) /\ Len(rx') = k /\ \A i \in 1 .. k : rx'[i] = rx[i]
  BY <1>1, <1>3, CutBytes
<1>5. Progress'
  BY <1>1, <1>2 DEF IInv, Progress, Reported
<1>6. Safe'
  BY <1>1, <1>2 DEF IInv, Safe
<1>7. ASSUME Deaf PROVE Deaf'
  <2>1. Dull(rx')
    BY <1>1, <1>3, <1>7, DullPart DEF Deaf
  <2>2. ASSUME rx' # <<>> PROVE rx # <<>> /\ rx'[1] = rx[1]
    <3>1. k # 0
      BY <1>4, <2>2, EmptySeq
    <3>2. Len(rx) # 0 /\ 1 \in 1 .. k
      BY <1>1, <1>3, <3>1
    <3> QED
      BY <1>3, <1>4, <3>2, EmptySeq
  <2> QED
    BY <1>2, <1>7, <2>1, <2>2 DEF Deaf
<1> QED
  BY <1>4, <1>5, <1>6, <1>7

LEMMA AllOfIt ==
    ASSUME NEW s \in Seq(Byte)
    PROVE  SubSeq(s, 1, Len(s)) = s /\ Len(s) \in 0 .. Len(s)
<1>1. Len(s) \in 0 .. Len(s)
  BY LenProperties
<1>2. /\ SubSeq(s, 1, Len(s)) \in Seq(Byte) /\ Len(SubSeq(s, 1, Len(s))) = Len(s)
      /\ \A i \in 1 .. Len(s) : SubSeq(s, 1, Len(s))[i] = s[i]
  BY <1>1, CutBytes
<1> QED
  BY <1>1, <1>2, SeqEqual

LEMMA DropLoose ==
    ASSUME NEW k, Dropping(k), scene.kills > 0
    PROVE  Situation'
<1>1. /\ TypeInv /\ IInv /\ hpc \notin {"off", "ended"} /\ UNCHANGED <<device, scene>>
      /\ UNCHANGED <<image, mode, verdict>> /\ hpc' = "off"
      /\ k \in 0 .. Len(rx) /\ rx' = SubSeq(rx, 1, k)
  BY DEF Dropping, asked
<1>2. UNCHANGED <<pc, back, reply, flash, nvmFaults>> /\ Taken' = Taken
      /\ InMonitor' = InMonitor /\ Replying' = Replying
  BY <1>1, SameBoard
<1>3. rx \in Seq(Byte) /\ Len(rx) \in Nat
  BY <1>1, Bytes
<1>4. /\ rx' \in Seq(Byte) /\ Len(rx') = k /\ \A i \in 1 .. k : rx'[i] = rx[i]
      /\ Deaf => Deaf'
  BY DropKeeps
<1>5. ASSUME Opening PROVE Opening'
  <2>1. \A i \in 1 .. k : i \in 1 .. Len(rx)
    BY <1>1, <1>3
  <2>2. k <= Len(rx) /\ k \in Nat
    BY <1>1, <1>3
  <2>3. Len(Hello) = 8
    BY HelloBytes
  <2>4. Hello' = Hello
    BY DEF Hello, TestPacket
  <2>5. CASE pc \in {"loop", "app"}
    <3>1. Len(rx) <= 8 /\ \A i \in 1 .. Len(rx) : rx[i] = Hello[i]
      BY <1>5, <2>3, <2>5 DEF Opening
    <3>2. k <= 8
      BY <1>3, <2>2, <3>1
    <3> QED
      BY <1>2, <1>4, <2>1, <2>3, <2>4, <2>5, <3>1, <3>2 DEF Opening
  <2>6. CASE pc = "key2"
    <3>1. Len(rx) < 8 /\ \A i \in 1 .. Len(rx) : rx[i] = Hello[i + 1]
      BY <1>5, <2>3, <2>6 DEF Opening
    <3>2. k < 8
      BY <1>3, <2>2, <3>1
    <3> QED
      BY <1>2, <1>4, <2>1, <2>3, <2>4, <2>6, <3>1, <3>2 DEF Opening
  <2> QED
    BY <1>5, <2>5, <2>6 DEF Opening
<1>6. ASSUME Left PROVE Left'
  <2>1. ASSUME pc = "monit", rx = <<ProbeKey>> PROVE Left'
    <3>1. Len(rx) = 1
      BY <2>1, Asked
    <3>2. k = 0 \/ k = 1
      BY <1>1, <3>1
    <3>3. CASE k = 0
      <4>1. rx' = <<>>
        BY <1>4, <3>3, EmptySeq
      <4>2. AllHarmless(<<>>)' /\ Carries(<<>>)' /\ <<>> \in Seq(Packets)
        <5>1. \A i \in 1 .. Len(<<>>) : FALSE
          BY EmptySeq
        <5>2. Taken' = 0
          BY <1>2, <2>1 DEF Taken
        <5> QED
          BY <4>1, <5>1, <5>2, FramedNone, EmptySeq DEF AllHarmless, Carries
      <4> QED
        BY <1>2, <2>1, <4>2 DEF Left, InMonitor
    <3>4. CASE k = 1
      <4>1. rx' = SubSeq(<<ProbeKey>>, 1, 1)
        BY <1>1, <2>1, <3>4
      <4>2. SubSeq(<<ProbeKey>>, 1, 1) = <<ProbeKey>>
        BY AllOfIt, Asked
      <4> QED
        BY <1>2, <2>1, <4>1, <4>2 DEF Left
    <3> QED
      BY <3>2, <3>3, <3>4
  <2>2. ASSUME InMonitor \/ Replying, NEW qs \in Seq(Packets), AllHarmless(qs), Carries(qs) PROVE Left'
    <3>1. Reported' => Reported
      BY <1>1 DEF Reported
    <3>2. Grows /\ flash' = flash
      BY <1>2 DEF Grows
    <3>3. AllHarmless(qs)'
      BY <1>1, <2>2, <3>1, <3>2, LineHarmless
    <3>4. PICK t \in {0, 1} : t = Taken
      BY DEF Taken
    <3>5. Framed(rx', t, qs)
      BY <1>1, <1>3, <2>2, <3>4, FramedCut DEF Carries
    <3>6. Carries(qs)'
      BY <1>2, <3>4, <3>5 DEF Carries
    <3> QED
      BY <1>2, <2>2, <3>3, <3>6 DEF Left
  <2> QED
    BY <1>6, <2>1, <2>2 DEF Left
<1>7. Off'
  BY <1>1, <1>4, <1>5, <1>6, Loose DEF Off
<1> QED
  BY <1>1, <1>7 DEF Situation

LEMMA KillKeeps ==
    ASSUME TypeInv, IInv, Steady, Kill
    PROVE  Situation' /\ Progress' /\ Safe'
<1>1. PICK k \in 0 .. Len(rx) : rx' = SubSeq(rx, 1, k)
  BY DEF Kill, HostKilled
<1>2. Dropping(k)
  BY <1>1 DEF Kill, HostKilled, Dropping, Goto
<1>3. scene.kills > 0
  <2>1. faults.kills \in 0 .. scene.kills /\ scene.kills \in Nat
    BY SurroundingsAssumption DEF TypeInv, Faults
  <2>2. faults.kills < scene.kills
    BY DEF Kill
  <2> QED
    BY <2>1, <2>2
<1> QED
  BY <1>2, <1>3, DropKeeps, DropLoose

LEMMA KillHungKeeps ==
    ASSUME TypeInv, IInv, Steady, KillHung
    PROVE  Situation' /\ Progress' /\ Safe'
<1>1. rx' = SubSeq(rx, 1, Len(rx)) /\ Len(rx) \in 0 .. Len(rx)
  BY AllOfIt, Bytes DEF KillHung
<1>2. Dropping(Len(rx))
  BY <1>1 DEF KillHung, Waiting, Dropping
<1> QED
  BY <1>2, DropKeeps, DropLoose DEF KillHung

LEMMA GivesUpKeeps ==
    ASSUME TypeInv, IInv, Steady, GivesUp
    PROVE  Situation' /\ Progress' /\ Safe'
<1>1. rx' = SubSeq(rx, 1, Len(rx)) /\ Len(rx) \in 0 .. Len(rx)
  BY AllOfIt, Bytes DEF GivesUp, ProbeFails
<1>2. Dropping(Len(rx)) /\ hpc = "probe" /\ hpc' = "off"
  BY <1>1 DEF GivesUp, ProbeFails, Dropping, Goto
<1>3. Deaf \/ scene.kills > 0
  BY <1>2, Loose
<1>4. CASE Deaf
  <2>1. Deaf' /\ Progress' /\ Safe'
    BY <1>2, <1>4, DropKeeps
  <2> QED
    BY <1>2, <2>1 DEF Situation, Off
<1>5. CASE scene.kills > 0
  BY <1>2, <1>5, DropKeeps, DropLoose
<1> QED
  BY <1>3, <1>4, <1>5

-----------------------------------------------------------------------------
(* The reset button.                                                       *)

ResetNow(closed) ==
    /\ TypeInv /\ IInv /\ Steady
    /\ HardReset(closed)
    /\ ~(scene.prompt /\ hpc = "probe" /\ Len(rx') > 1)
    /\ UNCHANGED <<host, scene>>

LEMMA ResetFacts ==
    ASSUME NEW closed, ResetNow(closed)
    PROVE  /\ pc' \in {"loop", "app"} /\ reply' = <<>> /\ back' = "loop" /\ Untouched /\ tx' = tx
           /\ rx' \in Seq(Byte) /\ rx \in Seq(Byte)
           /\ \E k \in 0 .. Len(rx) : rx' = SubSeq(rx, k + 1, Len(rx)) /\ Len(rx') = Len(rx) - k
           /\ Dull(rx) => Deaf'
           /\ Dull(rx) /\ Unasked(rx) => Mute'
           /\ rx = <<>> => rx' = <<>>
           /\ \A b : rx # <<>> /\ rx[Len(rx)] = b /\ rx' # <<>> => rx'[Len(rx')] = b
           /\ Progress' /\ Safe'
           /\ UNCHANGED <<hpc, at, mode, image, verdict, force, run>>
<1>1. /\ pc' \in {"loop", "app"} /\ reply' = <<>> /\ back' = "loop" /\ Untouched /\ tx' = tx
      /\ rx' \in Seq(Byte)
      /\ \E k \in 0 .. Len(rx) : rx' = SubSeq(rx, k + 1, Len(rx)) /\ Len(rx') = Len(rx) - k
      /\ Dull(rx) => Deaf'
      /\ Dull(rx) /\ Unasked(rx) => Mute'
  BY ButtonPressed DEF ResetNow
<1>2. rx \in Seq(Byte) /\ Len(rx) \in Nat
  BY Bytes DEF ResetNow
<1>3. PICK k \in 0 .. Len(rx) : rx' = SubSeq(rx, k + 1, Len(rx)) /\ Len(rx') = Len(rx) - k
  BY <1>1
<1>4. ASSUME rx = <<>> PROVE rx' = <<>>
  <2>1. Len(rx) = 0
    BY <1>4, EmptySeq
  <2>2. Len(rx') = 0
    BY <1>3, <2>1
  <2> QED
    BY <1>1, <2>2, EmptySeq
<1>5. ASSUME NEW b, rx # <<>>, rx[Len(rx)] = b, rx' # <<>> PROVE rx'[Len(rx')] = b
  BY <1>2, <1>3, <1>5, LastByte
<1>6. Allowed /\ flash' = flash
  BY <1>1, Still
<1>7. TypeInv /\ Progress /\ Safe /\ UNCHANGED host
  BY DEF ResetNow, IInv
<1>8. Progress'
  BY <1>6, <1>7, ProgressKept
<1>9. Safe'
  BY <1>1, <1>6, <1>7, SafeKept
<1>10. UNCHANGED <<hpc, at, mode, image, verdict, force, run>>
  BY <1>7 DEF host, asked
<1> QED
  BY <1>1, <1>2, <1>4, <1>5, <1>8, <1>9, <1>10

(* What lies on the line of an open session is dull, or opens it.          *)
LEMMA OpeningDull ==
    ASSUME Opening, rx \in Seq(Byte)
    PROVE  /\ Unasked(rx)
           /\ \A k \in 0 .. Len(rx) : k # 0 \/ pc = "key2" => Dull(SubSeq(rx, k + 1, Len(rx)))
<1>1. /\ Len(rx) \in Nat
      /\ \A i \in 1 .. 8 : Hello[i] # ProbeKey /\ (i # 1 => Hello[i] # EnterKey1)
  BY HelloBytes, LenProperties
<1>2. CASE pc \in {"loop", "app"}
  <2>1. Len(rx) <= 8 /\ \A i \in 1 .. Len(rx) : rx[i] = Hello[i] /\ i \in 1 .. 8
    <3>1. Len(rx) <= 8 /\ \A i \in 1 .. Len(rx) : rx[i] = Hello[i]
      BY <1>2, HelloBytes DEF Opening
    <3> QED
      BY <1>1, <3>1
  <2>2. Unasked(rx)
    BY <1>1, <2>1 DEF Unasked
  <2>3. ASSUME NEW k \in 0 .. Len(rx), k # 0 \/ pc = "key2" PROVE Dull(SubSeq(rx, k + 1, Len(rx)))
    <3>1. k # 0
      BY <1>2, <2>3
    <3> DEFINE u == SubSeq(rx, k + 1, Len(rx))
    <3>2. Len(u) = Len(rx) - k /\ \A i \in 1 .. (Len(rx) - k) : u[i] = rx[k + i]
      BY Dropped
    <3> HIDE DEF u
    <3>3. \A i \in 1 .. (Len(rx) - k) : k + i \in 1 .. Len(rx) /\ k + i # 1
      BY <1>1, <3>1
    <3>4. \A i \in 1 .. Len(u) : u[i] # EnterKey1
      BY <1>1, <2>1, <3>2, <3>3
    <3>5. \A i \in 1 .. Len(u) - 1 : i \in 1 .. Len(u)
      BY <1>1, <3>2
    <3>6. Dull(u)
      BY <3>4, <3>5 DEF Dull
    <3> QED
      BY <3>6 DEF u
  <2> QED
    BY <2>2, <2>3
<1>3. CASE pc = "key2"
  <2>1. Len(rx) < 8 /\ \A i \in 1 .. Len(rx) : rx[i] = Hello[i + 1] /\ i + 1 \in 1 .. 8 /\ i + 1 # 1
    <3>1. Len(rx) < 8 /\ \A i \in 1 .. Len(rx) : rx[i] = Hello[i + 1]
      BY <1>3, HelloBytes DEF Opening
    <3> QED
      BY <1>1, <3>1
  <2>2. Unasked(rx)
    BY <1>1, <2>1 DEF Unasked
  <2>3. \A i \in 1 .. Len(rx) - 1 : i \in 1 .. Len(rx)
    BY <1>1
  <2>4. Dull(rx)
    BY <1>1, <2>1, <2>3 DEF Dull
  <2>5. \A k \in 0 .. Len(rx) : Dull(SubSeq(rx, k + 1, Len(rx)))
    BY <2>4, DullPart
  <2> QED
    BY <2>2, <2>5
<1> QED
  BY <1>2, <1>3 DEF Opening

LEMMA LeftDull ==
    ASSUME Left, rx \in Seq(Byte)
    PROVE  Dull(rx)
<1>1. CASE rx = <<ProbeKey>>
  BY <1>1, Asked
<1>2. ASSUME NEW qs, AllHarmless(qs), Carries(qs) PROVE Dull(rx)
  <2>1. PICK t \in {0, 1} : t = Taken
    BY DEF Taken
  <2>2. Framed(rx, t, qs) /\ \A i \in 1 .. Len(qs) : Plain(qs[i])
    BY <1>2, <2>1, AllPlain DEF Carries
  <2> QED
    BY <2>2, DullFrames
<1> QED
  BY <1>1, <1>2 DEF Left

(* An open session: still open, or the board is mute.                      *)
LEMMA OpeningReset ==
    ASSUME NEW closed, ResetNow(closed), Opening
    PROVE  Mute' \/ (Opening' /\ (Open => Open'))
<1>1. /\ pc' \in {"loop", "app"} /\ rx' \in Seq(Byte) /\ rx \in Seq(Byte)
      /\ Dull(rx) /\ Unasked(rx) => Mute'
  BY ResetFacts
<1>2. PICK k \in 0 .. Len(rx) : rx' = SubSeq(rx, k + 1, Len(rx)) /\ Len(rx') = Len(rx) - k
  BY ResetFacts
<1>3. Unasked(rx)
  BY <1>1, OpeningDull
<1>4. CASE k # 0 \/ pc = "key2"
  <2>1. Dull(rx')
    BY <1>1, <1>2, <1>4, OpeningDull
  <2>2. Unasked(rx')
    BY <1>1, <1>2, <1>3, DullPart
  <2>3. Mute'
    BY <1>1, <2>1, <2>2 DEF Mute, Deaf
  <2> QED
    BY <2>3
<1>5. CASE k = 0 /\ pc \in {"loop", "app"}
  <2>1. rx' = SubSeq(rx, 1, Len(rx))
    BY <1>2, <1>5
  <2>2. rx' = rx
    BY <1>1, <2>1, AllOfIt
  <2>3. Hello' = Hello
    BY DEF Hello, TestPacket
  <2> QED
    BY <1>1, <1>5, <2>2, <2>3 DEF Opening, Open
<1> QED
  BY <1>4, <1>5 DEF Opening

(* A query that waits in front of a board that starts anew.                *)
LEMMA QueryReset ==
    ASSUME NEW closed, ResetNow(closed), NEW p, Plain(p), Silent(p), Query(p), hpc # "off"
    PROVE  Replied' \/ Ignored'
<1>1. /\ TypeInv /\ UNCHANGED host /\ Untouched /\ tx' = tx
      /\ pc' \in {"loop", "app"} /\ rx' \in Seq(Byte) /\ rx \in Seq(Byte)
      /\ Dull(rx) /\ Unasked(rx) => Mute'
      /\ rx = <<>> => rx' = <<>>
  BY ResetFacts DEF ResetNow
<1>2. CASE Pending(p)
  <2>1. Framed(rx, Taken, <<p>>) /\ tx = <<>>
    BY <1>2 DEF Pending, Carries
  <2>2. PICK t \in {0, 1} : t = Taken
    BY DEF Taken
  <2>3. Len(<<p>>) = 1 /\ <<p>>[1] = p
    OBVIOUS
  <2>4. Dull(rx) /\ Unasked(rx)
    <3>1. \A i \in 1 .. Len(<<p>>) : Plain(<<p>>[i]) /\ Silent(<<p>>[i])
      BY <2>3
    <3> QED
      BY <1>1, <2>1, <2>2, <3>1, DullFrames
  <2>5. Len(<<>>) < PacketSize
    BY EmptySeq, Six
  <2> QED
    BY <1>1, <2>1, <2>4, <2>5 DEF Ignored
<1>3. CASE Replied /\ Replying
  <2>1. /\ tx \in Seq(Byte) /\ reply \in Seq(Byte) /\ Len(reply) \in Nat /\ Len(reply) # 0 /\ Len(tx) \in Nat
    BY <1>1, <1>3, Bytes DEF Replying
  <2>2. Len(tx \o reply) = PacketSize /\ Len(tx \o reply) = Len(tx) + Len(reply)
    BY <1>3, <2>1, ConcatProperties DEF Replied, Answer, Right
  <2>3. Len(tx) < PacketSize
    BY <2>1, <2>2, Six
  <2>4. Mute'
    BY <1>1, <1>3, NoBytes DEF Replied
  <2> QED
    BY <1>1, <2>3, <2>4 DEF Ignored
<1>4. CASE Replied /\ ~Replying
  <2>1. rx' = <<>> /\ Right(tx) /\ ~Replying'
    BY <1>1, <1>4 DEF Replied, Answer, Replying
  <2>2. PICK a : a = tx
    OBVIOUS
  <2>3. Right(a)'
    BY <1>1, <2>1, <2>2, RightKept
  <2>4. Answer' = a
    BY <1>1, <2>1, <2>2 DEF Answer
  <2>5. Right(Answer)'
    BY <2>3, <2>4 DEF Right
  <2> QED
    BY <1>1, <2>1, <2>5 DEF Replied
<1>5. CASE Ignored
  BY <1>1, <1>5 DEF Ignored, Mute, Deaf
<1> QED
  BY <1>2, <1>3, <1>4, <1>5 DEF Query

LEMMA RestingReset ==
    ASSUME NEW closed, ResetNow(closed), Resting
    PROVE  Resting'
  BY ResetFacts DEF Resting

LEMMA ResetProbe ==
    ASSUME NEW closed, ResetNow(closed), hpc = "probe"
    PROVE  Probed'
<1>1. /\ TypeInv /\ IInv /\ scene.prompt /\ ~(Len(rx') > 1)
      /\ pc' \in {"loop", "app"} /\ tx' = tx /\ rx' \in Seq(Byte) /\ rx \in Seq(Byte)
      /\ Dull(rx) => Deaf'
      /\ rx = <<>> => rx' = <<>>
      /\ rx # <<>> /\ rx[Len(rx)] = ProbeKey /\ rx' # <<>> => rx'[Len(rx')] = ProbeKey
  BY ResetFacts DEF ResetNow, Steady
<1>2. Probed /\ (Deaf \/ Left)
  BY <1>1, Loose DEF ResetNow, IInv, Situation
<1>3. Deaf'
  BY <1>1, <1>2, LeftDull DEF Deaf
<1>4. rx # <<>> => rx[Len(rx)] = ProbeKey /\ tx = <<>>
  <2>1. rx = <<ProbeKey>> => rx[Len(rx)] = ProbeKey
    BY Asked
  <2> QED
    BY <1>2, <2>1 DEF Probed
<1>5. ASSUME rx' # <<>> PROVE rx' = <<ProbeKey>> /\ tx = <<>>
  <2>1. rx # <<>> /\ tx = <<>> /\ rx'[Len(rx')] = ProbeKey
    BY <1>1, <1>4, <1>5
  <2>2. Len(rx') # 0 /\ Len(rx') \in Nat
    <3>1. rx' \in Seq(Byte) /\ rx' # <<>>
      BY <1>1, <1>5
    <3> QED
      BY <3>1, EmptySeq, LenProperties
  <2>3. Len(rx') = 1
    <3>1. PICK n : n = Len(rx')
      OBVIOUS
    <3>2. ~(n > 1) /\ n # 0 /\ n \in Nat
      BY <1>1, <2>2, <3>1
    <3>3. n = 1
      BY <3>2
    <3> QED
      BY <3>1, <3>3
  <2>4. Len(<<ProbeKey>>) = 1 /\ <<ProbeKey>>[1] = ProbeKey /\ <<ProbeKey>> \in Seq(Byte)
    BY Asked
  <2>5. \A i \in 1 .. 1 : i = 1
    OBVIOUS
  <2>6. rx' = <<ProbeKey>>
    BY <1>1, <2>1, <2>3, <2>4, <2>5, SeqEqual
  <2> QED
    BY <2>1, <2>6
<1>6. FalseStart' \/ (tx' = <<ProbeAck>> /\ rx' = <<>>)
  <2>1. CASE FalseStart
    BY <1>1, <2>1 DEF FalseStart
  <2>2. CASE tx = <<ProbeAck>> /\ rx = <<>>
    BY <1>1, <2>2
  <2>3. CASE tx = <<>>
    BY <1>1, <2>3 DEF FalseStart
  <2>4. CASE Replying /\ (tx \o reply)[1] # ProbeAck
    <3>1. ASSUME tx # <<>> PROVE tx[1] # ProbeAck
      <4>1. tx \in Seq(Byte) /\ reply \in Seq(Byte) /\ Len(tx) \in Nat /\ Len(tx) # 0 /\ Len(reply) \in Nat
        BY <1>1, <3>1, Bytes
      <4>2. 1 \in 1 .. Len(tx) + Len(reply) /\ 1 <= Len(tx)
        BY <4>1
      <4>3. (tx \o reply)[1] = tx[1]
        BY <4>1, <4>2, ConcatProperties
      <4> QED
        BY <2>4, <4>3
    <3> QED
      BY <1>1, <3>1 DEF FalseStart
  <2> QED
    BY <1>2, <2>1, <2>2, <2>3, <2>4 DEF Probed
<1> QED
  BY <1>1, <1>3, <1>5, <1>6 DEF Probed

LEMMA ResetEnded ==
    ASSUME NEW closed, ResetNow(closed), hpc = "ended"
    PROVE  Ended'
<1>1. /\ pc' \in {"loop", "app"} /\ rx' \in Seq(Byte) /\ rx \in Seq(Byte)
      /\ Dull(rx) => Deaf'
      /\ rx = <<>> => rx' = <<>>
      /\ rx # <<>> /\ rx[Len(rx)] = FillByte /\ rx' # <<>> => rx'[Len(rx')] = FillByte
  BY ResetFacts
<1>2. Ended
  BY DEF ResetNow, IInv, Situation
<1>3. Fill \in Seq(Byte) /\ Fill # <<>> /\ Dull(Fill) /\ Fill[Len(Fill)] = FillByte
  <2>1. 6 \in 1 .. 6
    OBVIOUS
  <2> QED
    BY <2>1, FillBytes
<1>4. PICK long : long = Frame(JumpPacket) \o Fill
  OBVIOUS
<1>5. PICK short : short = JumpPacket \o Fill
  OBVIOUS
<1>6. /\ long \in Seq(Byte) /\ long # <<>> /\ Dull(long) /\ long[Len(long)] = FillByte
      /\ short = Tail(long) /\ Dull(short) /\ Len(short) = 11 /\ short \in Seq(Byte)
  BY <1>4, <1>5, JumpAndFill
<1>7. short # <<>>
  <2>1. 11 # 0
    OBVIOUS
  <2> QED
    BY <1>6, <2>1, EmptySeq
<1>8. short[Len(short)] = FillByte
  BY <1>6, <1>7, LastOfTail
<1>9. Dull(rx) /\ (rx # <<>> => rx[Len(rx)] = FillByte)
  BY <1>2, <1>3, <1>4, <1>5, <1>6, <1>8 DEF Ended, Leaving, Deaf
<1> QED
  BY <1>1, <1>9 DEF Ended

LEMMA ResetKeeps ==
    ASSUME NEW closed, ResetNow(closed)
    PROVE  Situation' /\ Progress' /\ Safe'
<1>1. /\ TypeInv /\ IInv /\ scene' = scene
      /\ pc' \in {"loop", "app"} /\ tx' = tx /\ rx' \in Seq(Byte) /\ rx \in Seq(Byte)
      /\ Dull(rx) => Deaf'
      /\ Progress' /\ Safe'
      /\ UNCHANGED <<hpc, at, mode, image, verdict, force, run>>
  BY ResetFacts DEF ResetNow
<1>2. Failed' = Failed
  BY <1>1 DEF Failed
<1>3. CASE hpc = "off"
  <2>1. Deaf \/ (scene.kills > 0 /\ (Opening \/ Left))
    BY <1>1, <1>3 DEF IInv, Situation, Off
  <2>2. Deaf => Deaf'
    BY <1>1 DEF Deaf
  <2>3. Opening => Deaf' \/ Opening'
    BY OpeningReset DEF Mute
  <2>4. Left => Deaf'
    BY <1>1, LeftDull
  <2>5. Off'
    BY <1>1, <2>1, <2>2, <2>3, <2>4 DEF Off
  <2> QED
    BY <1>1, <1>3, <2>5 DEF Situation
<1>4. CASE hpc = "probe"
  <2>1. Probed'
    BY <1>4, ResetProbe
  <2> QED
    BY <1>1, <1>4, <2>1 DEF Situation
<1>5. CASE hpc = "caps"
  <2>1. (Open /\ tx = <<>>) \/ Query(TestPacket)
    BY <1>1, <1>5 DEF IInv, Situation
  <2>2. Query(TestPacket) => Replied' \/ Ignored'
    BY <1>5, QueryReset, TestHarmless
  <2>3. ASSUME Open, tx = <<>> PROVE (Open' /\ tx' = <<>>) \/ Ignored'
    <3>1. Len(<<>>) < PacketSize
      BY EmptySeq, Six
    <3> QED
      BY <1>1, <2>3, <3>1, OpeningReset DEF Open, Ignored
  <2>4. (Open' /\ tx' = <<>>) \/ Query(TestPacket)'
    BY <2>1, <2>2, <2>3 DEF Query
  <2> QED
    BY <1>1, <1>5, <2>4 DEF Situation
<1>6. CASE hpc = "erase"
  <2>1. Resting'
    BY <1>1, <1>6, RestingReset DEF IInv, Situation
  <2> QED
    BY <1>1, <1>6, <2>1 DEF Situation
<1>7. CASE hpc = "erasing"
  <2>1. at \in Nat /\ at < Pages /\ ToErase(at) /\ ~Reported
    BY <1>1, <1>7, Bounds DEF IInv, Progress, Reported, TypeInv, HostInv
  <2>2. PICK p : p = ErasePacket(at)
    OBVIOUS
  <2>3. Plain(p) /\ Silent(p) /\ Query(p)
    BY <1>1, <1>7, <2>1, <2>2, Erasable, EraseHarmless DEF IInv, Situation
  <2>4. Replied' \/ Ignored'
    BY <1>7, <2>3, QueryReset
  <2>5. Query(ErasePacket(at))'
    BY <2>4 DEF Query
  <2> QED
    BY <1>1, <1>7, <2>5 DEF Situation
<1>8. CASE hpc = "write"
  <2>1. Writing /\ ~Reported
    BY <1>1, <1>8 DEF IInv, Situation, Progress, Reported
  <2>2. tx = <<>> \/ (Deaf /\ AllAcks(tx))
    BY <2>1 DEF Writing
  <2>3. Dull(rx)
    <3>1. InMonitor /\ (\E ws \in Seq(Packets) : Carries(ws) /\ Writes(ws, at)) => Left
      BY <1>1, <2>1, WritesHarmless DEF Left
    <3> QED
      BY <1>1, <2>1, <3>1, LeftDull DEF Writing, Deaf
  <2>4. Deaf' /\ AllAcks(tx')
    BY <1>1, <2>2, <2>3, NoBytes
  <2>5. Writing'
    BY <2>4 DEF Writing
  <2> QED
    BY <1>1, <1>8, <2>5 DEF Situation
<1>9. CASE hpc = "status"
  <2>1. AskedStatus /\ ~Reported
    BY <1>1, <1>9 DEF IInv, Situation, Progress, Reported
  <2>2. ASSUME InMonitor, tx = <<>>, NEW ws \in Seq(Packets), Carries(Append(ws, TestPacket)),
               Writes(ws, Pages * CellsPerPage)
        PROVE  Deaf' /\ AllAcks(tx')
    <3>1. AllHarmless(Append(ws, TestPacket)) /\ Append(ws, TestPacket) \in Seq(Packets)
      BY <1>1, <2>1, <2>2, StatusHarmless, AppendRest, FixedPackets
    <3>2. Left
      BY <2>2, <3>1 DEF Left
    <3> QED
      BY <1>1, <2>2, <3>2, LeftDull, NoBytes
  <2>3. Replied \/ Ignored => Replied' \/ Ignored'
    BY <1>9, QueryReset, TestHarmless DEF Query
  <2>4. Deaf /\ AllAcks(tx) => Deaf' /\ AllAcks(tx')
    BY <1>1 DEF Deaf
  <2>5. AskedStatus'
    BY <2>1, <2>2, <2>3, <2>4 DEF AskedStatus
  <2> QED
    BY <1>1, <1>9, <2>5 DEF Situation
<1>10. CASE hpc = "peek"
  <2>1. IF Failed THEN Deaf ELSE Resting
    BY <1>1, <1>10 DEF IInv, Situation
  <2>2. IF Failed THEN Deaf' ELSE Resting'
    BY <1>1, <2>1, RestingReset DEF Deaf
  <2> QED
    BY <1>1, <1>2, <1>10, <2>2 DEF Situation
<1>11. CASE hpc = "peeking"
  <2>1. CASE Failed
    <3>1. Deaf'
      BY <1>1, <1>11, <2>1 DEF IInv, Situation, Deaf
    <3> QED
      BY <1>1, <1>2, <1>11, <2>1, <3>1 DEF Situation
  <2>2. CASE ~Failed
    <3>1. at \in Cells /\ Looking
      BY <1>1, <1>11, <2>2, LookingNow DEF IInv, Progress, TypeInv, HostInv
    <3>2. PICK p : p = PeekPacket(at)
      OBVIOUS
    <3>3. Plain(p) /\ Silent(p) /\ Query(p)
      BY <1>1, <1>11, <2>2, <3>1, <3>2, PeekHarmless DEF IInv, Situation
    <3>4. Replied' \/ Ignored'
      BY <1>11, <3>3, QueryReset
    <3>5. Query(PeekPacket(at))'
      BY <3>4 DEF Query
    <3> QED
      BY <1>1, <1>2, <1>11, <2>2, <3>5 DEF Situation
  <2> QED
    BY <2>1, <2>2
<1>12. CASE hpc = "exit"
  <2>1. Deaf => Deaf'
    BY <1>1 DEF Deaf
  <2>2. Exiting'
    BY <1>1, <1>12, <2>1, RestingReset DEF IInv, Situation, Exiting
  <2> QED
    BY <1>1, <1>12, <2>2 DEF Situation
<1>13. CASE hpc = "ended"
  <2>1. Ended'
    BY <1>13, ResetEnded
  <2> QED
    BY <1>1, <1>13, <2>1 DEF Situation
<1> QED
  BY <1>1, <1>3, <1>4, <1>5, <1>6, <1>7, <1>8, <1>9, <1>10, <1>11, <1>12, <1>13
     DEF TypeInv, HostInv, HostTypeOK

-----------------------------------------------------------------------------
(* Nothing happens.                                                        *)

LEMMA NothingHappens ==
    ASSUME TypeInv, IInv, UNCHANGED vars
    PROVE  IInv'
<1>1. /\ UNCHANGED <<device, host, scene, rx, tx>>
      /\ UNCHANGED <<hpc, at, image, mode, force, run, flashEnd, usedEnd, dump, verdict>>
  BY DEF vars, host, asked, sizes
<1>2. /\ UNCHANGED <<pc, back, reply, flash, nvmFaults>>
      /\ InMonitor' = InMonitor /\ Replying' = Replying /\ Taken' = Taken
  BY <1>1, SameBoard
<1>3. Untouched /\ Grows /\ Allowed
  <2>1. Untouched
    BY <1>2 DEF Untouched
  <2> QED
    BY <2>1, Still
<1>4. Progress'
  BY <1>1, <1>2, <1>3, ProgressKept DEF IInv
<1>5. Safe'
  BY <1>1, <1>2, <1>3, SafeKept DEF IInv, Safe
<1>6. /\ Deaf' = Deaf /\ Mute' = Mute /\ Failed' = Failed /\ Resting' = Resting
      /\ FalseStart' = FalseStart /\ AllAcks(tx)' = AllAcks(tx)
  BY <1>1, <1>2 DEF Deaf, Mute, Failed, Resting, FalseStart, AllAcks
<1>7. Opening' = Opening /\ Open' = Open
  BY <1>1, <1>2 DEF Opening, Open, Hello, TestPacket
<1>8. \A qs : (Carries(qs) => Carries(qs)') /\ (Full(qs) => Full(qs)')
  BY <1>1, <1>2 DEF Carries, Full
<1>9. ASSUME NEW p, Harmless(p) PROVE Harmless(p)'
  BY <1>1, <1>2, <1>3, <1>9, SameHarmless DEF Reported
<1>10. ASSUME NEW qs, AllHarmless(qs) PROVE AllHarmless(qs)'
  BY <1>1, <1>2, <1>3, <1>10, LineHarmless DEF Reported
<1>11. ASSUME NEW ws, NEW n, Writes(ws, n) PROVE Writes(ws, n)'
  BY <1>1, <1>3, <1>11, WritesKept
<1>12. Replied => Replied'
  <2> SUFFICES ASSUME Replied PROVE Replied'
    OBVIOUS
  <2>1. PICK a : a = Answer
    OBVIOUS
  <2>2. Right(a)'
    BY <1>1, <1>3, <2>1, RightKept DEF Replied
  <2>3. Answer' = a
    BY <1>1, <1>2, <2>1 DEF Answer
  <2>4. Right(Answer)'
    BY <2>2, <2>3 DEF Right
  <2> QED
    BY <1>1, <1>2, <2>4 DEF Replied
<1>13. Ignored => Ignored'
  BY <1>1, <1>6 DEF Ignored
<1>14. ASSUME NEW p, Query(p) PROVE Query(p)'
  BY <1>1, <1>2, <1>8, <1>12, <1>13, <1>14 DEF Query, Pending
<1>15. Left => Left'
  BY <1>1, <1>2, <1>8, <1>10 DEF Left
<1>16. hpc' = "off" => Off'
  BY <1>1, <1>6, <1>7, <1>15 DEF IInv, Situation, Off
<1>17. hpc' = "probe" => Probed'
  BY <1>1, <1>2, <1>6, <1>8, <1>9 DEF IInv, Situation, Probed
<1>18. hpc' = "caps" => (Open' /\ tx' = <<>>) \/ Query(TestPacket)'
  <2>1. Query(TestPacket) => Query(TestPacket)'
    BY <1>14
  <2> QED
    BY <1>1, <1>7, <2>1 DEF IInv, Situation
<1>19. hpc' = "erasing" => Query(ErasePacket(at))'
  <2> SUFFICES ASSUME hpc' = "erasing" PROVE Query(ErasePacket(at))'
    OBVIOUS
  <2>1. PICK p : p = ErasePacket(at)
    OBVIOUS
  <2>2. p = ErasePacket(at)'
    BY <1>1, <2>1 DEF ErasePacket
  <2>3. Query(p)'
    BY <1>1, <1>14, <2>1 DEF IInv, Situation
  <2> QED
    BY <2>2, <2>3
<1>20. hpc' = "peeking" /\ ~Failed' => Query(PeekPacket(at))'
  <2> SUFFICES ASSUME hpc' = "peeking", ~Failed' PROVE Query(PeekPacket(at))'
    OBVIOUS
  <2>1. PICK p : p = PeekPacket(at)
    OBVIOUS
  <2>2. p = PeekPacket(at)'
    BY <1>1, <2>1 DEF PeekPacket
  <2>3. Query(p)'
    BY <1>1, <1>6, <1>14, <2>1 DEF IInv, Situation
  <2> QED
    BY <2>2, <2>3
<1>21. hpc' = "write" => Writing'
  <2> SUFFICES ASSUME hpc' = "write" PROVE Writing'
    OBVIOUS
  <2>1. Writing
    BY <1>1 DEF IInv, Situation
  <2>2. PICK a : a = at /\ a = at'
    BY <1>1
  <2>3. ASSUME NEW ws, Writes(ws, at) PROVE Writes(ws, at)'
    <3>1. Writes(ws, a)'
      BY <1>11, <2>2, <2>3
    <3> QED
      BY <2>2, <3>1 DEF Writes
  <2> QED
    BY <1>1, <1>2, <1>6, <1>8, <2>1, <2>3 DEF Writing
<1>22. hpc' = "status" => AskedStatus'
  <2> SUFFICES ASSUME hpc' = "status" PROVE AskedStatus'
    OBVIOUS
  <2>1. AskedStatus
    BY <1>1 DEF IInv, Situation
  <2> QED
    BY <1>1, <1>2, <1>6, <1>8, <1>11, <1>12, <1>13, <2>1 DEF AskedStatus
<1>23. hpc' = "ended" => Ended'
  <2>1. Leaving => Leaving'
    BY <1>1, <1>2 DEF Leaving, Fill, JumpPacket
  <2> QED
    BY <1>1, <1>2, <1>6, <2>1 DEF IInv, Situation, Ended
<1>24. /\ hpc' = "erase" => Resting'
       /\ hpc' = "peek" => IF Failed' THEN Deaf' ELSE Resting'
       /\ hpc' = "peeking" /\ Failed' => Deaf'
       /\ hpc' = "exit" => Exiting'
  BY <1>1, <1>6 DEF IInv, Situation, Exiting
<1>25. Situation'
  BY <1>16, <1>17, <1>18, <1>19, <1>20, <1>21, <1>22, <1>23, <1>24 DEF Situation
<1> QED
  BY <1>4, <1>5, <1>25 DEF IInv

-----------------------------------------------------------------------------
(* The invariant of the sessions.                                          *)

LEMMA SteadyStarts ==
    ASSUME Init
    PROVE  IInv
<1>1. /\ pc = "loop" /\ rx = <<>> /\ hpc = "off" /\ verdict = "none" /\ flash \in [Cells -> Value]
  BY SurroundingsAssumption DEF Init, DeviceInit, HostInit
<1>2. Off
  BY <1>1, NoBytes DEF Off, Deaf
<1>3. Situation
  BY <1>1, <1>2 DEF Situation
<1>4. Progress
  BY <1>1 DEF Progress, Reported
<1>5. Safe
  BY <1>1 DEF Safe
<1> QED
  BY <1>3, <1>4, <1>5 DEF IInv

LEMMA SteadyStep ==
    ASSUME TypeInv, Steady => IInv, [Next]_vars
    PROVE  (Steady => IInv)' /\ (Steady /\ flash' # flash => Board /\ Allowed)
<1>1. scene' = scene
  BY DEF Next, Board, Session, Start, GivesUp, Kill, KillHung, Reset, LoseByte, vars
<1>2. Steady' = Steady
  BY <1>1 DEF Steady, Looking
<1> SUFFICES ASSUME Steady PROVE IInv' /\ (flash' # flash => Board /\ Allowed)
  BY <1>2
<1>3. IInv
  OBVIOUS
<1>4. CASE Board
  BY <1>3, <1>4, BoardKeeps DEF Kept, IInv
<1>5. CASE Session
  <2>1. IInv'
    BY <1>3, <1>5, SessionKeeps DEF IInv
  <2> QED
    BY <1>5, <2>1, SameBoard DEF Session
<1>6. CASE Start
  <2>1. IInv'
    BY <1>3, <1>6, StartKeeps DEF IInv
  <2> QED
    BY <1>6, <2>1, SameBoard DEF Start
<1>7. CASE GivesUp
  <2>1. IInv'
    BY <1>3, <1>7, GivesUpKeeps DEF IInv
  <2> QED
    BY <1>7, <2>1, SameBoard DEF GivesUp
<1>8. CASE Kill
  <2>1. IInv'
    BY <1>3, <1>8, KillKeeps DEF IInv
  <2> QED
    BY <1>8, <2>1, SameBoard DEF Kill
<1>9. CASE KillHung
  <2>1. IInv'
    BY <1>3, <1>9, KillHungKeeps DEF IInv
  <2> QED
    BY <1>9, <2>1, SameBoard DEF KillHung
<1>10. CASE Reset
  <2>1. PICK closed : HardReset(closed)
    BY <1>10 DEF Reset
  <2>2. ResetNow(closed)
    BY <1>3, <1>10, <2>1 DEF Reset, ResetNow
  <2>3. IInv' /\ flash' = flash
    BY <2>2, ResetKeeps, ResetFacts DEF IInv, Untouched
  <2> QED
    BY <2>3
<1>11. CASE LoseByte
  <2>1. faults.losses \in 0 .. scene.losses /\ scene.losses = 0
    BY DEF TypeInv, Faults, Steady
  <2>2. faults.losses < scene.losses
    BY <1>11 DEF LoseByte
  <2> QED
    BY <2>1, <2>2
<1>12. CASE UNCHANGED vars
  <2>1. IInv' /\ flash' = flash
    BY <1>3, <1>12, NothingHappens, SameBoard DEF vars
  <2> QED
    BY <2>1
<1> QED
  BY <1>4, <1>5, <1>6, <1>7, <1>8, <1>9, <1>10, <1>11, <1>12 DEF Next

LEMMA SteadySessions == Spec => [](TypeInv /\ (Steady => IInv))
<1>1. Init => (Steady => IInv)
  BY SteadyStarts
<1>2. TypeInv /\ (Steady => IInv) /\ [Next]_vars => (Steady => IInv)'
  BY SteadyStep
<1> QED
  BY <1>1, <1>2, Typed, PTL DEF Spec

-----------------------------------------------------------------------------
(* What follows for the user.                                              *)

LEMMA LeavingIsBusy ==
    ASSUME Leaving
    PROVE  ~DeviceIdle /\ pc # "app"
<1>1. ~(11 < PacketSize) /\ Fill # <<>> /\ Frame(JumpPacket) \o Fill # <<>>
      /\ Len(JumpPacket \o Fill) = 11
  BY Six, FillBytes, JumpAndFill
<1>2. (pc = "monit" /\ rx # <<>>) \/ (pc = "packet" /\ Len(rx) = 11) \/ pc = "resetting"
  BY <1>1 DEF Leaving
<1> QED
  BY <1>1, <1>2 DEF DeviceIdle

(* After a session that came to its end the board waits in loop() for the  *)
(* next probe, or runs the user's program: UartExit (util.c, 1005-1015)    *)
(* fills up whatever packet was open and leaves the monitor, wherever the  *)
(* sessions before were killed and the board was reset.                    *)
THEOREM EndsInLoop == Spec => [](Steady => ExitedInLoop)
<1>1. TypeInv /\ (Steady => IInv) => (Steady => ExitedInLoop)
  <2> SUFFICES ASSUME IInv, hpc = "ended", DeviceIdle PROVE pc \in {"loop", "app"}
    BY DEF ExitedInLoop
  <2>1. Deaf /\ (pc = "key2" => rx # <<>>)
    BY LeavingIsBusy DEF IInv, Situation, Ended
  <2>2. pc # "stuck"
    BY DEF IInv, Safe
  <2> QED
    BY <2>1, <2>2 DEF Deaf, DeviceIdle
<1> QED
  BY <1>1, SteadySessions, PTL

(* A session that only reads and came to its end has read what the flash   *)
(* holds (read_from_pic, uartflash.c, 674-682, dumpmem in util.c): no byte *)
(* of a reply that an earlier, killed session left behind is taken for     *)
(* one of its own.                                                         *)
THEOREM ReadsTheFlash == Spec => [](Steady => DumpIsFlash)
<1>1. (Steady => IInv) => (Steady => DumpIsFlash)
  BY DEF IInv, Progress, DumpIsFlash
<1> QED
  BY <1>1, SteadySessions, PTL

(* FlashUpdate speaks of the same cells and pages.                         *)
LEMMA SameLayout ==
    /\ Update!Cells = Cells /\ Update!Erased = Erased
    /\ \A c : Update!PageOf(c) = PageOf(c)
    /\ \A p : Update!CellsOf(p) = CellsOf(p)
    /\ \A f, i : Update!Complete(f, i) = Complete(f, i)
  BY DEF Update!Cells, Cells, Update!Erased, Erased, Update!PageOf, PageOf, Update!CellsOf, CellsOf,
     Update!Complete, Complete, Update!Holds, Holds

(* Write Ok (uartflash.c, 837-840) is true when it is printed and stays so *)
(* until another session begins, as long as no flash operation failed;     *)
(* how often one may fail is not bounded here.                             *)
THEOREM WriteOkIsTrue == Spec => [](Steady /\ nvmFaults = 0 => Update!OkIsTrue)
<1>1. (Steady => IInv) => (Steady /\ nvmFaults = 0 => Update!OkIsTrue)
  BY SameLayout DEF IInv, Progress, Reported, Update!OkIsTrue
<1> QED
  BY <1>1, SteadySessions, PTL

-----------------------------------------------------------------------------
(* The refinement.                                                         *)

LEMMA SteadyRemains ==
    ASSUME Steady, [Next]_vars
    PROVE  Steady'
<1>1. scene' = scene
  BY DEF Next, Board, Session, Start, GivesUp, Kill, KillHung, Reset, LoseByte, vars
<1> QED
  BY <1>1 DEF Steady, Looking

LEMMA ErasedPage ==
    ASSUME TypeInv, NEW p, flash' = ErasePage(p), NEW c \in Cells, PageOf(c) # p
    PROVE  flash'[c] = flash[c]
  BY DEF ErasePage

LEMMA ProgrammedCell ==
    ASSUME TypeInv, NEW d \in Cells, NEW v, flash' = ProgramCell(d, v), NEW c \in Cells, c # d
    PROVE  flash'[c] = flash[c]
<1>1. flash \in [Cells -> Byte]
  BY Bytes
<1> QED
  BY <1>1 DEF ProgramCell

(* A session whose image is not to be on a page never touches the page,    *)
(* and neither does what it leaves behind when it is killed, whatever the  *)
(* sessions that follow add to it: erase_block and write_block             *)
(* (uartflash.c) against cmd_page_erase and cmd_page_write (monit.c).      *)
THEOREM OtherPagesKept == Spec /\ Steady => Update!OthersKept
<1>1. TypeInv /\ (Steady => IInv) /\ Steady /\ [Next]_vars
      => [\A c \in Update!Cells : Update!PageOf(c) \notin WritablePages => flash'[c] = flash[c]]_(Update!uvars)
  <2> SUFFICES ASSUME TypeInv, Steady => IInv, Steady, [Next]_vars,
                      NEW c \in Cells, PageOf(c) \notin WritablePages
               PROVE  flash'[c] = flash[c]
    BY SameLayout
  <2>1. CASE flash' = flash
    BY <2>1
  <2>2. CASE flash' # flash
    <3>1. Allowed
      BY <2>2, SteadyStep
    <3>2. ASSUME NEW p \in WritablePages, flash' = ErasePage(p) PROVE flash'[c] = flash[c]
      BY <3>2, ErasedPage
    <3>3. ASSUME NEW d \in Cells, NEW v, PageOf(d) \in WritablePages, flash' = ProgramCell(d, v)
          PROVE  flash'[c] = flash[c]
      BY <3>3, ProgrammedCell
    <3> QED
      BY <2>2, <3>1, <3>2, <3>3 DEF Allowed
  <2> QED
    BY <2>1, <2>2
<1>2. Steady /\ [Next]_vars => Steady'
  BY SteadyRemains
<1> QED
  BY <1>1, <1>2, SteadySessions, PTL DEF Spec, Update!OthersKept

LEMMA UpdateStarts ==
    ASSUME Init
    PROVE  Update!UInit
<1>1. /\ flash \in [Cells -> Value] /\ image \in Images /\ verdict = "none"
      /\ scene \in Scenes
  BY SurroundingsAssumption DEF Init, HostInit
<1>2. WritablePages \subseteq 0 .. (Pages - 1)
  BY DEF WritablePages
<1> QED
  BY <1>1, <1>2, SameLayout DEF Update!UInit

LEMMA UpdateErases ==
    ASSUME NEW p \in WritablePages, ~Reported, flash' = ErasePage(p),
           UNCHANGED <<WritablePages, image, mode, verdict>>
    PROVE  Update!UNext
<1>1. flash' = [c \in Update!Cells |-> IF Update!PageOf(c) = p THEN Update!Erased ELSE flash[c]]
  BY DEF ErasePage, Update!Cells, Cells, Update!PageOf, PageOf, Update!Erased, Erased
<1>2. (IF mode = "write" THEN verdict ELSE "none") # "ok"
  BY DEF Reported
<1>3. /\ (IF mode' = "write" THEN verdict' ELSE "none") = IF mode = "write" THEN verdict ELSE "none"
      /\ UNCHANGED <<WritablePages, image>>
  OBVIOUS
<1>4. Update!Erase(p)
  BY <1>1, <1>2, <1>3 DEF Update!Erase
<1> QED
  BY <1>4 DEF Update!UNext

LEMMA UpdatePrograms ==
    ASSUME TypeInv, NEW c \in Cells, NEW v \in 0 .. 255, PageOf(c) \in WritablePages, ~Reported,
           flash[c] = Erased, flash' = ProgramCell(c, v),
           UNCHANGED <<WritablePages, image, mode, verdict>>
    PROVE  Update!UNext
<1>1. flash \in [Cells -> Byte]
  BY Bytes
<1>2. flash' = [flash EXCEPT ![c] = v]
  BY <1>1 DEF ProgramCell, Programmed
<1>3. Update!Program(c, v)
  BY <1>2, SameLayout DEF Update!Program, Reported
<1>4. c \in CellsOf(PageOf(c))
  BY DEF CellsOf
<1>5. PICK p \in WritablePages : p = PageOf(c)
  OBVIOUS
<1>6. c \in Update!CellsOf(p)
  BY <1>4, <1>5, SameLayout
<1> QED
  BY <1>3, <1>5, <1>6 DEF Update!UNext

LEMMA BoardUpdates ==
    ASSUME TypeInv, IInv, Steady, Board, MaxNvmFaults = 0
    PROVE  [Update!UNext]_(Update!uvars)
<1>1. Allowed /\ UNCHANGED <<image, mode, verdict, scene>> /\ nvmFaults = 0
  <2>1. Kept
    BY BoardKeeps
  <2>2. UNCHANGED <<image, mode, verdict, scene>>
    BY DEF Board, host, asked
  <2>3. nvmFaults \in 0 .. MaxNvmFaults
    BY DEF TypeInv, DeviceInv, DeviceTypeOK
  <2> QED
    BY <2>1, <2>2, <2>3 DEF Kept
<1>2. UNCHANGED WritablePages
  BY <1>1 DEF WritablePages
<1>3. CASE flash' = flash
  BY <1>1, <1>2, <1>3 DEF Update!uvars
<1>4. ASSUME NEW p \in WritablePages, ~Reported, flash' = ErasePage(p) PROVE Update!UNext
  BY <1>1, <1>2, <1>4, UpdateErases
<1>5. ASSUME ~Reported, NEW c \in Cells, NEW v \in Value \cup {ProbeKey}, PageOf(c) \in WritablePages,
             nvmFaults = 0 => flash[c] = Erased, flash' = ProgramCell(c, v)
      PROVE  Update!UNext
  <2>1. v \in 0 .. 255
    BY Numbers DEF ProbeKey, Byte
  <2> QED
    BY <1>1, <1>2, <1>5, <2>1, UpdatePrograms
<1> QED
  BY <1>1, <1>3, <1>4, <1>5 DEF Allowed

(* The host reports once, and Ok only of an image that is there.           *)
LEMMA SessionUpdates ==
    ASSUME TypeInv, IInv, Steady, Session, MaxNvmFaults = 0
    PROVE  [Update!UNext]_(Update!uvars)
<1>1. /\ UNCHANGED <<device, scene>> /\ SessionStep
      /\ UNCHANGED <<image, mode>>
  BY DEF Session, SessionStep, ProbeAnswered, CapsReceived, CapsRefused, ErasePageAt, EraseDone,
     EraseEnds, WriteCellAt, WriteEnds, StatusReceived, PeekAt, Peeked, PeekEnds, HostExit, asked
<1>2. flash' = flash /\ nvmFaults' = 0 /\ UNCHANGED WritablePages
  BY <1>1, SameBoard DEF WritablePages, TypeInv, DeviceInv, DeviceTypeOK
<1>3. CASE mode # "write" \/ verdict' = verdict
  BY <1>1, <1>2, <1>3 DEF Update!uvars
<1>4. CASE mode = "write" /\ verdict' # verdict
  <2>1. StatusReceived \/ Peeked \/ PeekEnds
    BY <1>1, <1>4 DEF SessionStep, ProbeAnswered, CapsReceived, CapsRefused, ErasePageAt, EraseDone,
       EraseEnds, WriteCellAt, WriteEnds, PeekAt, HostExit
  <2>2. ~PeekEnds
    BY <1>4 DEF PeekEnds
  <2>3. ~Peeked
    <3> SUFFICES ASSUME Peeked PROVE FALSE
      OBVIOUS
    <3>1. hpc = "peeking" /\ (verdict' = "error" \/ verdict' = verdict)
      BY <1>4 DEF Peeked
    <3>2. verdict = "error"
      BY <1>4, <3>1 DEF IInv, Progress, Failed
    <3> QED
      BY <1>4, <3>1, <3>2
  <2>4. StatusReceived
    BY <2>1, <2>2, <2>3
  <2>5. verdict = "none" /\ verdict' \in {"ok", "error"}
    BY <2>4 DEF StatusReceived, IInv, Progress
  <2>6. verdict' = "ok" => Complete(flash, image)
    <3>1. Progress'
      BY SessionKeeps
    <3>2. verdict' = "ok" => Complete(flash', image')
      BY <1>1, <1>2, <1>4, <3>1 DEF Progress, Reported
    <3> QED
      BY <1>1, <1>2, <3>2
  <2>7. PICK result \in {"ok", "error"} : result = verdict'
    BY <2>5
  <2>8. Update!Report(result)
    BY <1>1, <1>2, <1>4, <2>5, <2>6, <2>7, SameLayout DEF Update!Report
  <2> QED
    BY <2>8 DEF Update!UNext
<1> QED
  BY <1>3, <1>4

LEMMA UpdateStep ==
    ASSUME TypeInv, Steady => IInv, Steady, [Next]_vars, MaxNvmFaults = 0
    PROVE  [Update!UNext]_(Update!uvars)
<1>1. IInv
  OBVIOUS
<1>2. CASE Board
  BY <1>1, <1>2, BoardUpdates
<1>3. CASE Session
  BY <1>1, <1>3, SessionUpdates
<1>4. CASE Start
  <2>1. image' \in Images /\ verdict' = "none" /\ flash' = flash /\ UNCHANGED WritablePages
    BY <1>4, SameBoard DEF Start, HostStart, WritablePages
  <2>2. Update!Begin
    BY <2>1 DEF Update!Begin
  <2> QED
    BY <2>2 DEF Update!UNext
<1>5. CASE GivesUp \/ Kill \/ KillHung \/ Reset \/ LoseByte \/ UNCHANGED vars
  <2>1. UNCHANGED <<image, mode, verdict, scene>>
    BY <1>5 DEF GivesUp, ProbeFails, Kill, HostKilled, KillHung, Reset, LoseByte, vars, host, asked
  <2>2. flash' = flash
    <3>1. flash' # flash => Board
      BY SteadyStep
    <3>2. CASE UNCHANGED device
      BY <3>2, SameBoard
    <3>3. CASE Reset
      BY <3>3 DEF Reset, HardReset, StartUp
    <3> QED
      BY <1>5, <3>2, <3>3 DEF GivesUp, Kill, KillHung, LoseByte, vars
  <2>3. UNCHANGED WritablePages
    BY <2>1 DEF WritablePages
  <2> QED
    BY <2>1, <2>2, <2>3 DEF Update!uvars
<1> QED
  BY <1>2, <1>3, <1>4, <1>5 DEF Next

(* Where no flash operation fails, the flash writer and the board, with    *)
(* sessions killed at any byte and the board reset under them, implement   *)
(* FlashUpdate: every step of theirs erases a page that may be written,    *)
(* programs an erased word of one, begins a session, reports, or is none.  *)
THEOREM SessionsImplementUpdate ==
    ASSUME MaxNvmFaults = 0
    PROVE  Spec /\ Steady => ImplementsUpdate
<1>1. Init => Update!UInit
  BY UpdateStarts
<1>2. TypeInv /\ (Steady => IInv) /\ Steady /\ [Next]_vars => [Update!UNext]_(Update!uvars)
  BY UpdateStep
<1>3. Steady /\ [Next]_vars => Steady'
  BY SteadyRemains
<1> QED
  BY <1>1, <1>2, <1>3, SteadySessions, PTL DEF Spec, ImplementsUpdate, Update!USpec

-----------------------------------------------------------------------------
(* -r.                                                                     *)

(* What the user may have a program started by.                            *)
Deserved ==
    \/ mode = "write" /\ verdict = "ok" /\ Complete(flash, image)
    \/ mode \in {"verify", "erase"} /\ run

(* The board by itself goes to the program by a software reset or by a     *)
(* packet that calls an address.                                           *)
LEMMA WaysToProgram ==
    ASSUME TypeInv, DeviceStep, pc # "app", pc' = "app"
    PROVE  pc = "resetting" \/ (pc = "packet" /\ Receive(JMP) /\ Arg(PacketFromPC) = 0)
<1>1. ~(LoopEnter \/ LoopProbe \/ LoopIgnore \/ LoopKey2 \/ MonitKey \/ AppReads)
  BY DEF LoopEnter, LoopProbe, LoopIgnore, LoopKey2, MonitKey, AppReads, Transmit, device
<1>2. ~SendByte
  BY Bytes DEF SendByte
<1>3. ~(CmdEcho \/ CmdPeek \/ CmdPoke \/ CmdPageErase \/ CmdPageWrite \/ CmdNoEffect)
  BY DEF CmdEcho, CmdPeek, CmdPoke, CmdPageErase, CmdPageWrite, CmdNoEffect, Transmit, NoReply, Raises
<1>4. CASE CmdExec
  BY <1>4 DEF CmdExec, Receive, PacketReady
<1> QED
  BY <1>1, <1>2, <1>3, <1>4 DEF DeviceStep

(* No packet of a session that is going on, or was killed, calls anything. *)
LEMMA NoCall ==
    ASSUME TypeInv, IInv, Steady, Board, pc = "packet", pc' = "app"
    PROVE  FALSE
<1>1. ~Deaf /\ ~Opening
  BY DEF Deaf, Opening
<1>2. DeviceStep /\ UNCHANGED <<host, scene>>
  BY DEF Board
<1>3. ~Left
  <2> SUFFICES ASSUME Left PROVE FALSE
    OBVIOUS
  <2>1. PICK qs \in Seq(Packets) : AllHarmless(qs) /\ Carries(qs)
    BY DEF Left
  <2>2. pc' # "app"
    BY <1>2, <2>1, LeftStep DEF InMonitor
  <2> QED
    BY <2>2
<1>4. hpc = "ended"
  BY <1>1, <1>3, Loose DEF IInv, Situation, Off
<1>5. rx = JumpPacket \o Fill
  BY <1>1, <1>4 DEF IInv, Situation, Ended, Leaving
<1>6. PacketFromPC = JumpPacket
  BY <1>5, JumpAndFill DEF PacketFromPC
<1>7. Arg(PacketFromPC) # 0
  BY <1>6, FixedPackets DEF Arg
<1> QED
  BY <1>2, <1>7, WaysToProgram

(* A board on its way through reset_device has been told to.               *)
LEMMA ToldToStart ==
    ASSUME TypeInv, IInv, pc = "resetting", MaxNvmFaults = 0
    PROVE  Deserved
<1>1. hpc = "ended"
  BY DEF IInv, Safe
<1>2. run /\ (mode = "write" => verdict = "ok")
  BY <1>1 DEF IInv, Situation, Ended, Leaving, Deaf
<1>3. mode \in {"write", "verify", "read", "erase"} /\ (mode = "read" => ~run)
  BY HostAssumption DEF TypeInv, HostInv, HostTypeOK, Chosen
<1>4. nvmFaults = 0
  BY DEF TypeInv, DeviceInv, DeviceTypeOK
<1> QED
  BY <1>2, <1>3, <1>4 DEF Deserved, IInv, Progress, Reported

LEMMA StartStep ==
    ASSUME TypeInv, IInv, Steady, [Next]_vars, MaxNvmFaults = 0, SwitchMayBe = {FALSE},
           pc # "app", pc' = "app"
    PROVE  Deserved
<1>1. CASE Board
  <2>1. pc # "packet"
    BY <1>1, NoCall
  <2>2. pc = "resetting"
    BY <1>1, <2>1, WaysToProgram DEF Board
  <2> QED
    BY <2>2, ToldToStart
<1>2. CASE Reset
  <2>1. HardReset(FALSE)
    BY <1>2 DEF Reset
  <2>2. swr /\ softKey
    BY <2>1 DEF HardReset, StartUp
  <2>3. pc = "resetting"
    BY <2>2 DEF TypeInv, DeviceInv, KeySpent
  <2> QED
    BY <2>3, ToldToStart
<1>3. CASE Session \/ Start \/ GivesUp \/ Kill \/ KillHung \/ LoseByte \/ UNCHANGED vars
  BY <1>3 DEF Session, Start, GivesUp, Kill, KillHung, LoseByte, vars, device
<1> QED
  BY <1>1, <1>2, <1>3 DEF Next

(* A user's program that was not running is started only when a session    *)
(* said so with -r (reboot_target, uartflash.c; reset_device in monit.c),  *)
(* and after one that was to write only when all of it is on the board: no *)
(* half packet, no packet of a killed session and no reset in between      *)
(* leads there.  That is so while BOOT_SW stays open and the flash         *)
(* operations succeed.                                                     *)
THEOREM StartsWhatIsThere ==
    ASSUME MaxNvmFaults = 0, SwitchMayBe = {FALSE}
    PROVE  Spec /\ Steady => StartsOnlyComplete
<1>1. TypeInv /\ (Steady => IInv) /\ Steady /\ [Next]_vars =>
         [pc # "app" /\ pc' = "app" =>
             \/ mode = "write" /\ verdict = "ok" /\ Complete(flash, image)
             \/ mode \in {"verify", "erase"} /\ run]_vars
  BY StartStep DEF Deserved
<1>2. Steady /\ [Next]_vars => Steady'
  BY SteadyRemains
<1> QED
  BY <1>1, <1>2, SteadySessions, PTL DEF Spec, StartsOnlyComplete
=============================================================================
