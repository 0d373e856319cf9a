---------------------------- MODULE HidBootProofs ----------------------------
(***************************************************************************)
(* Proofs about HidBoot, for flashes, packets and images of any size, with *)
(* the board reset or unplugged at any time and sessions started while the *)
(* board is still at work: its types and that replies stay intact, with    *)
(* any number of kills; then, without kills, that no word is programmed    *)
(* twice and that a success means that nothing but the file is in the      *)
(* flash; last, that a success means that all of the file is, with any     *)
(* number of kills if the session read it back.                            *)
(***************************************************************************)
EXTENDS HidBoot, TLAPS, SequenceTheorems

LEMMA SizePositive == Pages * CellsPerPage \in Nat /\ Pages * CellsPerPage > 0
  BY GeometryAssumption

LEMMA Constant ==
    /\ 0 \in Cells /\ Cells \subseteq Nat
    /\ Erased \in Value /\ Garbled \in Value /\ Zero \in Value
    /\ BlockCells \in Nat /\ BlockCells > 0
    /\ ErasedPages \in Nat /\ ErasedPages <= Pages /\ Pages \in Nat
    /\ InvalidAddress \in Nat /\ InvalidAddress = Pages * CellsPerPage + 1
  BY SizePositive, GeometryAssumption, BlockAssumption DEF Cells, Erased, Garbled, InvalidAddress

(* Blocks as sequences.                                                    *)
LEMMA BlockIsSeq ==
    \A b : b \in Blocks <=> b \in Seq(Value) /\ Len(b) \in 0 .. BlockCells
<1>1. ASSUME NEW b \in Blocks
      PROVE  b \in Seq(Value) /\ Len(b) \in 0 .. BlockCells
  <2>1. PICK n \in 0 .. BlockCells : b \in [1 .. n -> Value]
    BY <1>1 DEF Blocks
  <2>2. n \in Nat
    BY Constant
  <2>3. b \in Seq(Value)
    BY <2>1, <2>2
  <2>4. Len(b) = n
    BY <2>1, <2>2, <2>3
  <2> QED
    BY <2>1, <2>3, <2>4
<1>2. ASSUME NEW b \in Seq(Value), Len(b) \in 0 .. BlockCells
      PROVE  b \in Blocks
  <2>1. b \in [1 .. Len(b) -> Value]
    BY <1>2
  <2> QED
    BY <1>2, <2>1 DEF Blocks
<1> QED
  BY <1>1, <1>2

LEMMA EmptyBlock == <<>> \in Blocks /\ Len(<<>>) = 0
<1>1. <<>> \in Seq(Value) /\ Len(<<>>) = 0 /\ 0 \in 0 .. BlockCells
  BY Constant
<1> QED
  BY <1>1, BlockIsSeq

LEMMA AppendBlock ==
    ASSUME NEW b \in Blocks, NEW v \in Value, Len(b) < BlockCells
    PROVE  Append(b, v) \in Blocks /\ Len(Append(b, v)) = Len(b) + 1
<1>1. b \in Seq(Value) /\ Len(b) \in Nat
  BY BlockIsSeq
<1>2. Append(b, v) \in Seq(Value) /\ Len(Append(b, v)) = Len(b) + 1
  BY <1>1
<1>3. Len(Append(b, v)) \in 0 .. BlockCells
  BY <1>1, <1>2, Constant
<1> QED
  BY <1>2, <1>3, BlockIsSeq

LEMMA TailBlock ==
    ASSUME NEW b \in Blocks, b # <<>>
    PROVE  /\ Tail(b) \in Blocks /\ Len(Tail(b)) = Len(b) - 1
           /\ Head(b) \in Value /\ Len(b) > 0
<1>1. b \in Seq(Value) /\ Len(b) \in 0 .. BlockCells
  BY BlockIsSeq
<1>2. Tail(b) \in Seq(Value) /\ Len(Tail(b)) = Len(b) - 1 /\ Head(b) \in Value /\ Len(b) > 0
  BY <1>1
<1>3. Len(Tail(b)) \in 0 .. BlockCells
  BY <1>1, <1>2, Constant
<1> QED
  BY <1>2, <1>3, BlockIsSeq

LEMMA PacketType ==
    ASSUME NEW cmd \in Commands, NEW adr \in Cells, NEW data \in Blocks,
           adr + Len(data) <= Pages * CellsPerPage
    PROVE  Packet(cmd, adr, data) \in Packets
  BY DEF Packet, Packets

LEMMA NoPacketType == NoPacket \in Packets
<1>1. 0 + Len(<<>>) <= Pages * CellsPerPage
  BY SizePositive
<1> QED
  BY <1>1, Constant, EmptyBlock, PacketType DEF NoPacket, Commands

LEMMA EmptyType == Empty \in [1 .. BlockCells -> Value]
  BY Constant DEF Empty

LEMMA FreshType == Fresh /\ flash' = flash /\ BoardTypeOK /\ mode' \in {"loader", "app"} => BoardTypeOK'
  BY NoPacketType, EmptyType, EmptyBlock, Constant DEF Fresh, BoardTypeOK
-----------------------------------------------------------------------------
(* The steps of the board.                                                 *)
LEMMA BoardStepType == ASSUME BoardTypeOK, BoardStep PROVE BoardTypeOK'
<1> USE Constant
<1>1. CASE Receive
  BY <1>1, EmptyType DEF Receive, BoardTypeOK
<1>2. ASSUME NEW data \in [1 .. BlockCells -> Value], Reply(data)
      PROVE  BoardTypeOK'
  BY <1>2 DEF Reply, BoardTypeOK
<1>3. CASE QueryDevice
  BY <1>3, <1>2, EmptyType DEF QueryDevice
<1>4. CASE GetData
  <2> DEFINE n == Len(fromPc.Data)
             data == [k \in 1 .. BlockCells |->
                        IF k <= n /\ fromPc.Address + k - 1 \in Cells
                        THEN flash[fromPc.Address + k - 1] ELSE Zero]
  <2>1. data \in [1 .. BlockCells -> Value]
    BY DEF BoardTypeOK
  <2>2. Reply(data)
    BY <1>4 DEF GetData
  <2> QED
    BY <1>2, <2>1, <2>2
<1>5. CASE ErasePage
  <2>1. flash' \in [Cells -> Value]
    BY <1>5 DEF ErasePage, BoardTypeOK
  <2>2. dealt' \in 0 .. (Pages + BlockCells)
    BY <1>5 DEF ErasePage, BoardTypeOK
  <2> QED
    BY <1>5, <2>1, <2>2 DEF ErasePage, BoardTypeOK, usb
<1>6. CASE EraseDone
  BY <1>6 DEF EraseDone, Ready, BoardTypeOK, usb
<1>7. CASE TakeWord
  <2>1. /\ fromPc.Data \in Blocks /\ fromPc.Address \in Nat
        /\ fromPc.Address + Len(fromPc.Data) <= Pages * CellsPerPage
        /\ fromPc.Data \in Seq(Value) /\ Len(fromPc.Data) \in 0 .. BlockCells
    BY BlockIsSeq DEF BoardTypeOK, Packets
  <2>2. dealt \in Nat /\ dealt < Len(fromPc.Data) /\ fromPc.Data[dealt + 1] \in Value
    BY <1>7, <2>1 DEF TakeWord, BoardTypeOK
  <2>3. dealt' = dealt + 1 /\ dealt' \in 0 .. (Pages + BlockCells)
    BY <1>7, <2>1, <2>2 DEF TakeWord
  <2>4. buffer \in Blocks /\ Len(buffer) \in 0 .. BlockCells /\ Len(buffer) < BlockCells
    BY <1>7, BlockIsSeq DEF TakeWord, At, BoardTypeOK
  <2>5. buffer' \in Blocks /\ Len(buffer') = Len(buffer) + 1
    BY <1>7, <2>2, <2>4, AppendBlock DEF TakeWord
  <2>6. /\ ProgrammedPointer' = Pointer + 1 /\ Pointer = fromPc.Address + dealt
        /\ Pointer \in Nat /\ ProgrammedPointer' <= Pages * CellsPerPage
    <3>1. ProgrammedPointer' = Pointer + 1 /\ Pointer = fromPc.Address + dealt
      BY <1>7 DEF TakeWord, Contiguous
    <3>2. PICK top \in Nat : top = Pages * CellsPerPage
      BY SizePositive
    <3>3. PICK a \in Nat, n \in Nat : a = fromPc.Address /\ n = Len(fromPc.Data)
      BY <2>1
    <3>4. a + n <= top /\ dealt \in Nat /\ dealt < n
      BY <2>1, <2>2, <3>2, <3>3
    <3>5. a + dealt \in Nat /\ a + dealt + 1 <= top
      BY <3>4
    <3> QED
      BY <3>1, <3>2, <3>3, <3>5
  <2>7. Len(buffer) <= Pointer
    <3>1. CASE buffer = <<>>
      BY <3>1, <2>6
    <3>2. CASE buffer # <<>>
      BY <3>2 DEF BoardTypeOK, Pointer
    <3> QED
      BY <3>1, <3>2
  <2>8. ProgrammedPointer' \in 0 .. InvalidAddress /\ ProgrammedPointer' # InvalidAddress
    BY <2>6, SizePositive
  <2>9. Len(buffer') <= ProgrammedPointer'
    BY <2>4, <2>5, <2>6, <2>7
  <2>10. flushing' = (Len(buffer') = BlockCells)
    BY <1>7 DEF TakeWord
  <2>11. flushing' \in BOOLEAN /\ (Len(buffer') = BlockCells => flushing')
    BY <2>10
  <2>12. UNCHANGED <<mode, usb, BootState, fromPc, flash>>
    BY <1>7 DEF TakeWord
  <2> QED
    BY <2>3, <2>5, <2>8, <2>9, <2>11, <2>12 DEF BoardTypeOK, usb
<1>8. CASE ProgramDone
  <2>1. fromPc.Address \in Nat /\ fromPc.Address < Pages * CellsPerPage
    BY SizePositive DEF BoardTypeOK, Packets, Cells
  <2>2. Pointer \in 0 .. InvalidAddress
    BY <2>1, SizePositive DEF Pointer, BoardTypeOK
  <2>3. buffer # <<>> => Pointer = ProgrammedPointer
    BY DEF Pointer, BoardTypeOK
  <2> QED
    BY <1>8, <2>2, <2>3 DEF ProgramDone, Ready, BoardTypeOK, usb
<1>9. CASE WriteWord
  <2>1. /\ buffer \in Blocks /\ buffer # <<>>
        /\ buffer' = Tail(buffer)
        /\ UNCHANGED <<mode, usb, BootState, fromPc, dealt, flushing, ProgrammedPointer>>
        /\ flushing
    BY <1>9 DEF WriteWord, BoardTypeOK
  <2>2. /\ buffer' \in Blocks /\ Len(buffer') = Len(buffer) - 1 /\ Head(buffer) \in Value
        /\ Len(buffer) \in Nat
    BY <2>1, TailBlock, BlockIsSeq
  <2>3. flash' \in [Cells -> Value]
    <3> DEFINE c == ProgrammedPointer - Len(buffer)
    <3>1. flash' = IF c \in Cells
                   THEN [flash EXCEPT ![c] = Programmed(flash[c], Head(buffer))] ELSE flash
      BY <1>9 DEF WriteWord
    <3>2. flash \in [Cells -> Value]
      BY DEF BoardTypeOK
    <3>3. c \in Cells => Programmed(flash[c], Head(buffer)) \in Value
      BY <2>2, <3>2 DEF Programmed
    <3> QED
      BY <3>1, <3>2, <3>3
  <2>4. ProgrammedPointer # InvalidAddress /\ Len(buffer') <= ProgrammedPointer
    BY <2>1, <2>2 DEF BoardTypeOK
  <2> QED
    BY <2>1, <2>2, <2>3, <2>4 DEF BoardTypeOK, usb
<1>10. CASE Flushed
  <2>1. /\ buffer' = <<>> /\ buffer = <<>>
        /\ ProgrammedPointer' \in 0 .. InvalidAddress
        /\ BootState' \in {"idle", "notidle"}
        /\ UNCHANGED <<mode, usb, fromPc, dealt, buffer, flash>> /\ flushing' = FALSE
    BY <1>10 DEF Flushed, Ready, BoardTypeOK
  <2>2. Len(buffer') # BlockCells
    BY <2>1, EmptyBlock
  <2> QED
    BY <2>1, <2>2 DEF BoardTypeOK, usb
<1>11. CASE ProgramComplete
  BY <1>11 DEF ProgramComplete, BoardTypeOK, usb
<1> QED
  BY <1>1, <1>3, <1>4, <1>5, <1>6, <1>7, <1>8, <1>9, <1>10, <1>11 DEF BoardStep
-----------------------------------------------------------------------------
(* The steps of the session: what it hands over is a packet of the board's.*)
LEMMA HandOverType ==
    ASSUME BoardTypeOK, NEW cmd \in Commands, NEW adr \in Cells, NEW data \in Blocks,
           adr + Len(data) <= Pages * CellsPerPage, HandOver(cmd, adr, data)
    PROVE  BoardTypeOK'
<1>1. fromPcBuffer' \in Packets
  BY PacketType DEF HandOver
<1> QED
  BY <1>1 DEF HandOver, BoardTypeOK, work

LEMMA FetchType == ASSUME BoardTypeOK, Fetch PROVE BoardTypeOK'
  BY DEF Fetch, BoardTypeOK, work

LEMMA DeviceKept == BoardTypeOK /\ UNCHANGED device => BoardTypeOK'
  BY DEF BoardTypeOK, device

LEMMA SessionType == ASSUME BoardTypeOK, HostTypeOK, SessionStep
                     PROVE  BoardTypeOK' /\ HostTypeOK'
<1> USE Constant
<1>1. /\ 0 + Len(<<>>) <= Pages * CellsPerPage
      /\ {"query", "erase", "program", "complete", "get", "reset"} \subseteq Commands
  BY SizePositive DEF Commands
<1>2. /\ hexBuf \in Blocks /\ Len(hexBuf) \in Nat /\ Len(hexBuf) <= at
      /\ at \in 0 .. (Pages * CellsPerPage)
  BY BlockIsSeq DEF HostTypeOK
<1>3. BlockReady => /\ BlockFrom \in Cells
                    /\ BlockFrom + Len(hexBuf) <= Pages * CellsPerPage
  <2>1. BlockReady => Len(hexBuf) > 0
    BY <1>2, BlockIsSeq DEF BlockReady
  <2> QED
    BY <1>2, <2>1, SizePositive DEF BlockFrom, Cells
<1>4. CASE Query
  BY <1>1, <1>4, EmptyBlock, HandOverType DEF Query, HostTypeOK, Options
<1>5. CASE QueryAnswered
  BY <1>5, FetchType DEF QueryAnswered, HostTypeOK, Options, Fetch
<1>6. CASE Erase
  BY <1>1, <1>6, EmptyBlock, HandOverType DEF Erase, HostTypeOK, Options
<1>7. CASE ReadWord
  <2>1. at \in Cells /\ image[at] \in Value
    BY <1>7, ImagesAssumption DEF ReadWord, Has, HostTypeOK
  <2>2. hexBuf' \in Blocks /\ Len(hexBuf') = Len(hexBuf) + 1
    BY <1>2, <1>7, <2>1, AppendBlock DEF ReadWord
  <2>3. at' = at + 1 /\ at' \in 0 .. (Pages * CellsPerPage)
    BY <1>7, <2>1, SizePositive DEF ReadWord, Cells
  <2> QED
    BY <1>2, <1>7, <2>2, <2>3, DeviceKept DEF ReadWord, HostTypeOK, Options
<1>8. CASE NothingHere
  <2>1. at' = at + 1 /\ at' \in 0 .. (Pages * CellsPerPage)
    BY <1>8, SizePositive DEF NothingHere, Cells
  <2> QED
    BY <1>2, <1>8, <2>1, DeviceKept DEF NothingHere, HostTypeOK, Options
<1>9. CASE WriteBlock
  <2>1. BoardTypeOK'
    BY <1>1, <1>2, <1>3, <1>9, HandOverType DEF WriteBlock
  <2> QED
    BY <1>2, <1>9, <2>1, EmptyBlock DEF WriteBlock, HostTypeOK, Options
<1>10. CASE SectionComplete
  BY <1>1, <1>10, EmptyBlock, HandOverType DEF SectionComplete, HostTypeOK, Options
<1>11. CASE WriteEnds
  <2>1. at' \in 0 .. (Pages * CellsPerPage) /\ hexBuf' = <<>> /\ at' = 0
    BY <1>11, SizePositive DEF WriteEnds, PassOver
  <2> QED
    BY <1>11, <2>1, DeviceKept, EmptyBlock DEF WriteEnds, Finish, HostTypeOK, Options
<1>12. CASE AskBlock
  <2>1. BoardTypeOK'
    BY <1>1, <1>2, <1>3, <1>12, HandOverType DEF AskBlock
  <2> QED
    BY <1>12, <2>1 DEF AskBlock, HostTypeOK, Options
<1>13. CASE BlockVerified
  <2>1. BoardTypeOK'
    BY <1>13, FetchType DEF BlockVerified
  <2>2. /\ hexBuf' = <<>> /\ waiting' = FALSE
        /\ hpc' \in {"verify", "off"} /\ verdict' \in {verdict, "error"}
        /\ UNCHANGED <<at, attached, image, verify, reset>>
    BY <1>13 DEF BlockVerified, Fetch, Options
  <2>3. hexBuf' \in Blocks /\ Len(hexBuf') <= at'
    BY <1>2, <2>2, EmptyBlock
  <2> QED
    BY <1>2, <2>1, <2>2, <2>3 DEF HostTypeOK
<1>14. CASE VerifyEnds
  BY <1>14, DeviceKept DEF VerifyEnds, Finish, HostTypeOK, Options
<1>15. CASE ResetBoard
  BY <1>1, <1>15, EmptyBlock, HandOverType DEF ResetBoard, HostTypeOK, Options
<1>16. CASE LineFails
  BY <1>16, DeviceKept DEF LineFails, HostTypeOK, Options
<1> QED
  BY <1>4, <1>5, <1>6, <1>7, <1>8, <1>9, <1>10, <1>11, <1>12, <1>13, <1>14, <1>15, <1>16
     DEF SessionStep
-----------------------------------------------------------------------------
LEMMA RestartType ==
    ASSUME BoardTypeOK, NEW start \in BOOLEAN, Restart(start)
    PROVE  BoardTypeOK'
  BY FreshType DEF Restart

LEMMA GoneType == HostTypeOK /\ Gone => HostTypeOK'
  BY DEF HostTypeOK, Gone

LEMMA TypeStep == BootTypeOK /\ [Next]_vars => BootTypeOK'
<1> SUFFICES ASSUME BootTypeOK, [Next]_vars
             PROVE  BootTypeOK'
  OBVIOUS
<1> USE DEF BootTypeOK
<1>1. CASE Board
  BY <1>1, BoardStepType DEF Board, HostTypeOK, host
<1>2. CASE Session
  BY <1>2, SessionType DEF Session
<1>3. CASE Resets
  BY <1>3, RestartType, GoneType DEF Resets, ResetDevice
<1>4. CASE Start
  <2>1. /\ hpc' = "query" /\ waiting' = FALSE /\ at' = 0 /\ hexBuf' = <<>>
        /\ attached' = TRUE /\ verdict' = "none"
        /\ image' \in Images /\ verify' \in BOOLEAN /\ reset' \in BOOLEAN
        /\ UNCHANGED <<scene, faults>>
    BY <1>4 DEF Start
  <2>2. hexBuf' \in Blocks /\ Len(hexBuf') <= at' /\ at' \in 0 .. (Pages * CellsPerPage)
    BY <2>1, EmptyBlock, SizePositive
  <2>3. HostTypeOK'
    BY <2>1, <2>2 DEF HostTypeOK
  <2>4. /\ UNCHANGED <<mode, work, fromPcBuffer, toPc, flash>>
        /\ outBusy' \in BOOLEAN /\ inBusy' \in BOOLEAN
    BY <1>4 DEF Start, BoardTypeOK
  <2>5. BoardTypeOK'
    BY <2>4 DEF BoardTypeOK, work
  <2> QED
    BY <2>1, <2>3, <2>5
<1>5. CASE Kill
  <2>1. faults' \in [kills : 0 .. scene.kills, cuts : 0 .. scene.cuts]
    BY <1>5, SurroundingsAssumption DEF Kill
  <2> QED
    BY <1>5, <2>1, DeviceKept DEF Kill, HostTypeOK
<1>6. CASE Cut
  <2>1. faults' \in [kills : 0 .. scene.kills, cuts : 0 .. scene.cuts]
    BY <1>6, SurroundingsAssumption DEF Cut
  <2>2. PICK start \in BOOLEAN : Restart(start)
    BY <1>6 DEF Cut
  <2> QED
    BY <1>6, <2>1, <2>2, RestartType, GoneType DEF Cut
<1>7. CASE BackToLoader
  BY <1>7, RestartType, GoneType DEF BackToLoader
<1>8. CASE Replug
  BY <1>8, RestartType, GoneType DEF Replug
<1>9. CASE UNCHANGED vars
  BY <1>9 DEF vars, BoardTypeOK, HostTypeOK, device, host
<1> QED
  BY <1>1, <1>2, <1>3, <1>4, <1>5, <1>6, <1>7, <1>8, <1>9 DEF Next

LEMMA InitType == Init => BootTypeOK
<1> SUFFICES ASSUME Init PROVE BootTypeOK
  OBVIOUS
<1>1. flash \in [Cells -> Value]
  BY SurroundingsAssumption DEF Init
<1>2. BoardTypeOK
  <2>1. Len(buffer) # BlockCells /\ buffer = <<>>
    BY EmptyBlock, Constant DEF Init, BoardInit
  <2>2. dealt \in 0 .. (Pages + BlockCells) /\ ProgrammedPointer \in 0 .. InvalidAddress
    BY Constant DEF Init, BoardInit
  <2> QED
    BY <1>1, <2>1, <2>2, NoPacketType, EmptyType, EmptyBlock DEF Init, BoardInit, BoardTypeOK
<1>3. HostTypeOK
  <2>1. at \in 0 .. (Pages * CellsPerPage) /\ hexBuf \in Blocks /\ Len(hexBuf) <= at
    BY EmptyBlock, SizePositive DEF Init, HostInit
  <2> QED
    BY <2>1 DEF Init, HostInit, HostTypeOK
<1>4. scene \in Scenes /\ scene.kills \in Nat /\ scene.cuts \in Nat
  BY SurroundingsAssumption DEF Init
<1>5. faults \in [kills : 0 .. scene.kills, cuts : 0 .. scene.cuts]
  BY <1>4 DEF Init
<1> QED
  BY <1>2, <1>3, <1>4, <1>5 DEF BootTypeOK

(* The loader's buffer never overruns and its words always have a place in *)
(* the flash, whatever session is cut short (WriteFlashSubBlock).          *)
THEOREM BootTypeCorrect == Spec => []BootTypeOK
  BY InitType, TypeStep, PTL DEF Spec

(* A reply is not touched until the PC has fetched it (BootApplication).   *)
THEOREM RepliesStayIntact == Spec => RepliesIntact
<1>1. ASSUME [Next]_vars, inBusy, inBusy' PROVE toPc' = toPc
  <2>1. CASE Board
    BY <1>1, <2>1 DEF Board, BoardStep, Receive, QueryDevice, GetData, Reply, ErasePage,
       EraseDone, TakeWord, ProgramDone, WriteWord, Flushed, ProgramComplete, usb
  <2>2. CASE Session
    BY <1>1, <2>2 DEF Session, SessionStep, Query, QueryAnswered, Erase, ReadWord,
       NothingHere, WriteBlock, SectionComplete, WriteEnds, AskBlock, BlockVerified,
       VerifyEnds, ResetBoard, LineFails, HandOver, Fetch, device
  <2>3. CASE Resets \/ Cut \/ BackToLoader \/ Replug
    BY <1>1, <2>3 DEF Resets, ResetDevice, Cut, BackToLoader, Replug, Restart, Fresh
  <2>4. CASE Start \/ Kill
    BY <1>1, <2>4 DEF Start, Kill, device
  <2>5. CASE UNCHANGED vars
    BY <2>5 DEF vars, device
  <2> QED
    BY <1>1, <2>1, <2>2, <2>3, <2>4, <2>5 DEF Next
<1>2. [Next]_vars => [inBusy /\ inBusy' => toPc' = toPc]_vars
  BY <1>1
<1> QED
  BY <1>2, PTL DEF Spec, RepliesIntact
-----------------------------------------------------------------------------
(* The order of the words, when ERASE_DEVICE goes through the whole flash  *)
(* and nobody kills the program.  The words of a file are on their way     *)
(* through four places: hexBuf on the PC, the OUT endpoint, the command at *)
(* work, ProgrammingBuffer.  The invariant says that they follow one       *)
(* another there, that the flash is erased from the first of them on, and  *)
(* that a PROGRAM_COMPLETE follows where a short block leaves words in the *)
(* buffer.                                                                 *)

(* Where the words that are still to be programmed begin: the PC's, those  *)
(* in the OUT endpoint, those of the command at work, those in the buffer. *)
Coming(p) == ~outBusy /\ fromPcBuffer.Command = p
Doing(p)  == BootState = "notidle" /\ fromPc.Command = p
Asked     == {"query", "get"}

Size     == Pages * CellsPerPage
FromHost == IF attached /\ hpc \in {"write", "complete"} THEN at - Len(hexBuf) ELSE Size
FromOut  == IF Coming("program") THEN fromPcBuffer.Address ELSE FromHost
FromPc   == IF Doing("program") THEN fromPc.Address + dealt ELSE FromOut
FromBuf  == IF buffer # <<>> THEN ProgrammedPointer - Len(buffer) ELSE FromPc

(* They follow one another, and the flash is erased from the first of them *)
(* on.                                                                     *)
InOrder ==
    /\ Coming("program") => fromPcBuffer.Address + Len(fromPcBuffer.Data) <= FromHost
    /\ Doing("program") => /\ dealt <= Len(fromPc.Data)
                           /\ fromPc.Address + Len(fromPc.Data) <= FromOut
    /\ buffer # <<>> => ProgrammedPointer <= FromPc
    /\ \A c \in Cells : c >= FromBuf => flash[c] = Erased

(* A board that is not attached has nothing to do.                         *)
Detached == ~attached => outBusy /\ BootState = "idle" /\ ~inBusy /\ buffer = <<>>

(* One question at a time, and no other command behind it.                 *)
OneQuestion ==
    /\ ~waiting => /\ ~inBusy
                   /\ \A p \in Asked : ~Coming(p) /\ ~Doing(p)
    /\ waiting => hpc \in {"query", "erased", "verify"}
    /\ waiting /\ attached =>
          \/ ~inBusy /\ (\E p \in Asked : Coming(p)) /\ \A p \in Asked : ~Doing(p)
          \/ ~inBusy /\ outBusy /\ \E p \in Asked : Doing(p)
          \/ inBusy /\ outBusy /\ BootState = "idle"

(* The buffer is not empty only until the PROGRAM_COMPLETE that is on its  *)
(* way behind a short block.                                               *)
CompleteFollows == Coming("complete") \/ (outBusy /\ attached /\ hpc = "complete")

Flushes ==
    /\ flushing => Doing("program") \/ Doing("complete")
    /\ Coming("program") /\ Len(fromPcBuffer.Data) < BlockCells => attached /\ hpc = "complete"
    /\ Doing("program") =>
          /\ flushing => dealt = BlockCells /\ Len(fromPc.Data) = BlockCells
          /\ ~flushing => Len(buffer) = dealt \/ (buffer = <<>> /\ dealt = BlockCells)
          /\ Len(fromPc.Data) < BlockCells => CompleteFollows
          /\ buffer # <<>> => Contiguous
    /\ ~Doing("program") /\ ~Doing("complete") /\ buffer # <<>> =>
          BootState = "idle" /\ CompleteFollows

(* The erase is complete before the first block leaves the PC.             *)
ErasedFirst ==
    /\ attached /\ hpc = "erase" => outBusy /\ BootState = "idle"
    /\ attached /\ hpc = "erased" =>
          \/ Coming("erase") /\ BootState = "idle" /\ ~waiting
          \/ /\ Doing("erase") /\ (outBusy \/ Coming("query"))
             /\ dealt \in 0 .. Pages
             /\ \A c \in Cells : PageOf(c) < dealt => flash[c] = Erased
          \/ /\ \A c \in Cells : flash[c] = Erased
             /\ BootState = "idle" \/ Doing("query")
             /\ outBusy \/ Coming("query")

(* Once the file is being written, all the words there are are its words.  *)
Writing == hpc \in {"write", "complete", "verify", "reset"} \/ verdict = "ok"
OfFile(data, adr) == \A k \in 1 .. Len(data) : data[k] = image[adr + k - 1]

FileOnly ==
    /\ hpc \in {"write", "verify"} => OfFile(hexBuf, at - Len(hexBuf))
    /\ hpc \in {"query", "erase", "erased", "complete"} => hexBuf = <<>>
    /\ Writing =>
          /\ Coming("program") => OfFile(fromPcBuffer.Data, fromPcBuffer.Address)
          /\ Doing("program") => OfFile(fromPc.Data, fromPc.Address)
          /\ OfFile(buffer, ProgrammedPointer - Len(buffer))
          /\ \A c \in Cells : flash[c] \in {Erased, image[c]}

IInv == InOrder /\ Detached /\ OneQuestion /\ Flushes /\ ErasedFirst /\ FileOnly
-----------------------------------------------------------------------------
LEMMA PageOfCell == \A c \in Cells : PageOf(c) \in 0 .. (Pages - 1)
<1> SUFFICES ASSUME NEW c \in Cells PROVE PageOf(c) \in 0 .. (Pages - 1)
  OBVIOUS
<1> DEFINE q == c \div CellsPerPage
           r == c % CellsPerPage
<1>1. /\ c \in Nat /\ c < Pages * CellsPerPage /\ Pages \in Nat
      /\ CellsPerPage \in Nat /\ CellsPerPage > 0
  BY GeometryAssumption DEF Cells
<1>2. q \in Nat /\ r \in Nat /\ c = q * CellsPerPage + r
  BY <1>1
<1>3. q < Pages
  <2> HIDE DEF q, r
  <2>1. SUFFICES ASSUME q >= Pages PROVE FALSE
    BY <1>1, <1>2
  <2>2. q * CellsPerPage >= Pages * CellsPerPage
    BY <2>1, <1>1, <1>2
  <2> QED
    BY <2>2, <1>1, <1>2
<1> QED
  BY <1>1, <1>2, <1>3 DEF PageOf

(* The numbers the order is about.                                         *)
LEMMA Numbers ==
    ASSUME BootTypeOK
    PROVE  /\ fromPcBuffer.Address \in Nat /\ Len(fromPcBuffer.Data) \in Nat
           /\ fromPc.Address \in Nat /\ Len(fromPc.Data) \in Nat
           /\ dealt \in Nat /\ Len(buffer) \in Nat /\ ProgrammedPointer \in Nat
<1>1. fromPcBuffer \in Packets /\ fromPc \in Packets /\ buffer \in Blocks
  BY DEF BootTypeOK, BoardTypeOK
<1>2. fromPcBuffer.Address \in Nat /\ fromPcBuffer.Data \in Blocks
  BY <1>1, Constant DEF Packets
<1>3. fromPc.Address \in Nat /\ fromPc.Data \in Blocks
  BY <1>1, Constant DEF Packets
<1>4. dealt \in Nat /\ ProgrammedPointer \in Nat
  BY Constant DEF BootTypeOK, BoardTypeOK
<1> QED
  BY <1>1, <1>2, <1>3, <1>4, BlockIsSeq

LEMMA HostNumbers ==
    ASSUME BootTypeOK
    PROVE  at \in Nat /\ Len(hexBuf) \in Nat /\ Len(hexBuf) <= at /\ Size \in Nat
<1>1. at \in Nat /\ Len(hexBuf) <= at /\ hexBuf \in Blocks
  BY SizePositive DEF BootTypeOK, HostTypeOK
<1> QED
  BY <1>1, BlockIsSeq, SizePositive DEF Size

LEMMA Places ==
    ASSUME BootTypeOK
    PROVE  FromHost \in Nat /\ FromOut \in Nat /\ FromPc \in Nat /\ FromBuf \in Int
<1>1. FromHost \in Nat
  BY HostNumbers DEF FromHost
<1>2. FromOut \in Nat
  BY <1>1, Numbers DEF FromOut
<1>3. FromPc \in Nat
  BY <1>2, Numbers DEF FromPc
<1>4. FromBuf \in Int
  BY <1>3, Numbers DEF FromBuf
<1> QED
  BY <1>1, <1>2, <1>3, <1>4

(* The PC goes on in the file; all the rest stays behind.                  *)
LEMMA FurtherOn ==
    ASSUME BootTypeOK, InOrder, UNCHANGED device, FromHost' \in Nat, FromHost <= FromHost'
    PROVE  InOrder'
<1>1. FromOut <= FromOut' /\ FromOut' \in Nat
  BY Numbers, Places DEF FromOut, Coming, device
<1>2. FromPc <= FromPc' /\ FromPc' \in Nat
  <2>1. FromPc \in Nat /\ FromOut \in Nat /\ fromPc.Address \in Nat /\ dealt \in Nat
    BY Numbers, Places
  <2> QED
    BY <1>1, <2>1 DEF FromPc, Doing, device
<1>3. FromBuf <= FromBuf' /\ FromBuf' \in Int
  <2>1. FromPc \in Nat /\ ProgrammedPointer \in Nat /\ Len(buffer) \in Nat
    BY Numbers, Places
  <2> QED
    BY <1>2, <2>1 DEF FromBuf, device
<1>4. Coming("program") => fromPcBuffer.Address + Len(fromPcBuffer.Data) <= FromHost'
  BY Numbers, Places DEF InOrder
<1>5. Doing("program") => fromPc.Address + Len(fromPc.Data) <= FromOut'
  BY <1>1, Numbers, Places DEF InOrder
<1>6. buffer # <<>> => ProgrammedPointer <= FromPc'
  BY <1>2, Numbers, Places DEF InOrder
<1>7. \A c \in Cells : c >= FromBuf' => flash[c] = Erased
  BY <1>3, Places, Constant DEF InOrder
<1> QED
  BY <1>4, <1>5, <1>6, <1>7 DEF InOrder, Coming, Doing, device

(* The steps of the PC through the file.                                   *)
LEMMA NothingHereInOrder ==
    ASSUME BootTypeOK, IInv, NothingHere
    PROVE  InOrder'
<1>1. UNCHANGED <<hexBuf, attached, hpc>> /\ hexBuf = <<>> /\ at' = at + 1
  BY DEF NothingHere, Options
<1>2. FromHost' \in Nat /\ FromHost <= FromHost'
  BY <1>1, EmptyBlock, HostNumbers, Places DEF FromHost
<1> QED
  BY <1>2, FurtherOn DEF NothingHere, IInv

LEMMA ReadWordInOrder ==
    ASSUME BootTypeOK, IInv, ReadWord
    PROVE  InOrder'
<1>1. UNCHANGED <<attached, hpc>> /\ Len(hexBuf') = Len(hexBuf) + 1 /\ at' = at + 1
  <2>1. at \in Cells /\ image[at] \in Value
    BY ImagesAssumption DEF BootTypeOK, ReadWord, Has, HostTypeOK
  <2> QED
    BY <2>1, AppendBlock DEF BootTypeOK, HostTypeOK, ReadWord, Options
<1>2. FromHost' = FromHost
  BY <1>1, HostNumbers DEF FromHost
<1> QED
  BY <1>2, Places, FurtherOn DEF ReadWord, IInv

LEMMA VerifyEndsInOrder ==
    ASSUME BootTypeOK, IInv, VerifyEnds
    PROVE  InOrder'
<1>1. FromHost = Size /\ FromHost' = Size
  BY DEF FromHost, VerifyEnds, Finish, Size
<1> QED
  BY <1>1, Places, FurtherOn DEF IInv, VerifyEnds

LEMMA WriteEndsInOrder ==
    ASSUME BootTypeOK, IInv, WriteEnds
    PROVE  InOrder'
<1>1. at = Size /\ hexBuf = <<>> /\ hpc = "write" /\ hpc' \in {"reset", "off", "verify"}
  BY DEF WriteEnds, PassOver, Finish, Size
<1>2. FromHost = Size /\ FromHost' = Size
  BY <1>1, HostNumbers, EmptyBlock DEF FromHost
<1> QED
  BY <1>2, Places, FurtherOn DEF IInv, WriteEnds

LEMMA ReadWordFileOnly ==
    ASSUME BootTypeOK, IInv, ReadWord
    PROVE  FileOnly'
<1>1. /\ at \in Cells /\ image[at] \in Value /\ hexBuf' = Append(hexBuf, image[at]) /\ at' = at + 1
      /\ hpc \in {"write", "verify"} /\ UNCHANGED <<device, hpc, image, verdict>>
  BY ImagesAssumption DEF BootTypeOK, ReadWord, Has, HostTypeOK, Options
<1>2. hexBuf \in Seq(Value) /\ Len(hexBuf) \in Nat /\ Len(hexBuf') = Len(hexBuf) + 1
  BY <1>1, BlockIsSeq DEF BootTypeOK, HostTypeOK
<1>3. OfFile(hexBuf, at - Len(hexBuf))
  BY <1>1 DEF IInv, FileOnly
<1>4. OfFile(hexBuf, at - Len(hexBuf))'
  <2> SUFFICES ASSUME NEW k \in 1 .. Len(hexBuf')
               PROVE  hexBuf'[k] = image[at' - Len(hexBuf') + k - 1]
    BY <1>1 DEF OfFile
  <2>1. CASE k = Len(hexBuf')
    <3>1. hexBuf'[k] = image[at]
      BY <2>1, <1>1, <1>2
    <3>2. at' - Len(hexBuf') + k - 1 = at
      <4>1. at' = at + 1 /\ at \in Nat /\ Len(hexBuf') \in Nat
        BY <1>1, <1>2, HostNumbers
      <4> QED
        BY <4>1, <2>1
    <3> QED
      BY <3>1, <3>2
  <2>2. CASE k \in 1 .. Len(hexBuf)
    <3>1. hexBuf'[k] = hexBuf[k] /\ at' - Len(hexBuf') + k - 1 = at - Len(hexBuf) + k - 1
      BY <2>2, <1>1, <1>2, HostNumbers
    <3> QED
      BY <2>2, <3>1, <1>3 DEF OfFile
  <2> QED
    BY <2>1, <2>2, <1>2
<1> QED
  BY <1>1, <1>4 DEF IInv, FileOnly, OfFile, Writing, Coming, Doing, device

LEMMA FlushedFileOnly ==
    ASSUME BootTypeOK, IInv, Flushed, UNCHANGED host
    PROVE  FileOnly'
  BY EmptyBlock DEF IInv, Flushed, Ready, usb, host, FileOnly, OfFile, Writing, Coming, Doing

LEMMA ReceiveInOrder ==
    ASSUME BootTypeOK, IInv, Receive, UNCHANGED host
    PROVE  InOrder'
<1>1. FromHost' = FromHost
  BY DEF Receive, FromHost, Size, host
<1>2. FromOut' = FromHost /\ FromPc' = FromOut /\ FromBuf' = FromBuf /\ FromPc = FromOut
  BY <1>1, Places DEF FromOut, FromPc, FromBuf, Receive, Coming, Doing
<1> QED
  BY <1>1, <1>2, Places DEF IInv, InOrder, Receive, Coming, Doing

(* What a word more does to a block.                                       *)
LEMMA AppendWords ==
    ASSUME NEW b \in Blocks, NEW v \in Value
    PROVE  /\ Len(Append(b, v)) = Len(b) + 1 /\ Append(b, v) # <<>>
           /\ \A k \in 1 .. Len(b) : Append(b, v)[k] = b[k]
           /\ Append(b, v)[Len(b) + 1] = v
<1>1. b \in Seq(Value) /\ Len(b) \in Nat
  BY BlockIsSeq
<1> QED
  BY <1>1

(* A word of the packet is taken over into the buffer.                     *)
LEMMA TakesItsWord ==
    ASSUME BootTypeOK, TakeWord
    PROVE  /\ Len(buffer') = Len(buffer) + 1 /\ buffer' # <<>>
           /\ \A k \in 1 .. Len(buffer) : buffer'[k] = buffer[k]
           /\ buffer'[Len(buffer) + 1] = fromPc.Data[dealt + 1]
<1>1. buffer' = Append(buffer, fromPc.Data[dealt + 1]) /\ dealt < Len(fromPc.Data)
  BY DEF TakeWord
<1>2. fromPc.Data \in Blocks /\ buffer \in Blocks
  BY DEF BootTypeOK, BoardTypeOK, Packets
<1>3. fromPc.Data \in Seq(Value) /\ Len(fromPc.Data) \in Nat /\ dealt \in Nat
  BY <1>2, BlockIsSeq, Numbers
<1>4. fromPc.Data[dealt + 1] \in Value
  <2>1. dealt + 1 \in 1 .. Len(fromPc.Data)
    BY <1>1, <1>3
  <2> QED
    BY <1>3, <2>1
<1> QED
  BY <1>1, <1>2, <1>4, AppendWords

LEMMA TakesWord ==
    ASSUME BootTypeOK, TakeWord
    PROVE  /\ Doing("program") /\ ~flushing
           /\ dealt < Len(fromPc.Data) /\ Len(fromPc.Data) <= BlockCells /\ BlockCells \in Nat
           /\ dealt' = dealt + 1
           /\ Len(buffer') = Len(buffer) + 1 /\ buffer' # <<>>
           /\ ProgrammedPointer' = fromPc.Address + dealt + 1
           /\ buffer # <<>> => ProgrammedPointer = fromPc.Address + dealt
           /\ outBusy' = outBusy /\ fromPcBuffer' = fromPcBuffer
           /\ BootState' = BootState /\ fromPc' = fromPc /\ flash' = flash
<1>1. /\ dealt < Len(fromPc.Data) /\ Doing("program") /\ ~flushing /\ Contiguous
      /\ ProgrammedPointer' = Pointer + 1 /\ dealt' = dealt + 1
  BY DEF TakeWord, At, Doing
<1>2. Len(fromPc.Data) <= BlockCells /\ BlockCells \in Nat
  BY BlockIsSeq, Constant DEF BootTypeOK, BoardTypeOK, Packets
<1>3. Len(buffer') = Len(buffer) + 1 /\ buffer' # <<>>
  BY TakesItsWord
<1>4. Pointer = fromPc.Address + dealt
  BY <1>1 DEF Contiguous
<1>5. buffer # <<>> => Pointer = ProgrammedPointer
  BY DEF Pointer, BootTypeOK, BoardTypeOK
<1>6. /\ outBusy' = outBusy /\ fromPcBuffer' = fromPcBuffer
      /\ BootState' = BootState /\ fromPc' = fromPc /\ flash' = flash
  BY DEF TakeWord, usb
<1> QED
  BY <1>1, <1>2, <1>3, <1>4, <1>5, <1>6

LEMMA TakeWordInOrder ==
    ASSUME BootTypeOK, IInv, TakeWord, UNCHANGED host
    PROVE  InOrder'
<1>1. FromHost' = FromHost /\ FromOut' = FromOut
  BY TakesWord DEF FromHost, FromOut, Coming, Size, host
<1>2. FromPc = fromPc.Address + dealt /\ FromPc' = FromPc + 1
  BY TakesWord, Numbers DEF FromPc, Doing
<1>3. buffer' # <<>>
  BY TakesWord, Numbers, EmptyBlock
<1>4. FromBuf = fromPc.Address + dealt - Len(buffer)
  <2>1. CASE buffer = <<>>
    BY <2>1, <1>2, Numbers, EmptyBlock DEF FromBuf
  <2>2. CASE buffer # <<>>
    BY <2>2, TakesWord, Numbers DEF FromBuf
  <2> QED
    BY <2>1, <2>2
<1>5. FromBuf' = FromBuf
  <2>1. FromBuf' = ProgrammedPointer' - Len(buffer')
    BY <1>3 DEF FromBuf
  <2>2. ProgrammedPointer' = fromPc.Address + dealt + 1 /\ Len(buffer') = Len(buffer) + 1
    BY TakesWord
  <2>3. fromPc.Address \in Nat /\ dealt \in Nat /\ Len(buffer) \in Nat
    BY Numbers
  <2>4. (fromPc.Address + dealt + 1) - (Len(buffer) + 1) = fromPc.Address + dealt - Len(buffer)
    BY <2>3
  <2> QED
    BY <1>4, <2>1, <2>2, <2>4
<1>6. /\ Coming("program")' => fromPcBuffer'.Address + Len(fromPcBuffer'.Data) <= FromHost'
      /\ \A c \in Cells : c >= FromBuf' => flash'[c] = Erased
  BY <1>1, <1>5, TakesWord DEF IInv, InOrder, Coming
<1>7. Doing("program")' => /\ dealt' <= Len(fromPc'.Data)
                           /\ fromPc'.Address + Len(fromPc'.Data) <= FromOut'
  BY <1>1, TakesWord, Numbers DEF IInv, InOrder, Doing
<1>8. ProgrammedPointer' <= FromPc'
  BY <1>2, TakesWord, Numbers
<1> QED
  BY <1>6, <1>7, <1>8 DEF InOrder

LEMMA TakeWordFlushes ==
    ASSUME BootTypeOK, IInv, TakeWord, UNCHANGED host
    PROVE  Flushes'
<1>1. Len(buffer) = dealt /\ Len(buffer') = dealt'
  BY TakesWord, Numbers, EmptyBlock DEF IInv, Flushes
<1>2. /\ flushing' => Len(buffer') = BlockCells
      /\ Len(buffer') = BlockCells => flushing'
      /\ Doing("program")'
  BY TakesWord DEF TakeWord, Doing
<1>3. flushing' => dealt' = BlockCells /\ Len(fromPc'.Data) = BlockCells
  <2>1. dealt' <= Len(fromPc.Data) /\ Len(fromPc.Data) <= BlockCells /\ BlockCells \in Nat
        /\ dealt' \in Nat /\ Len(fromPc.Data) \in Nat /\ fromPc' = fromPc
    BY TakesWord, Numbers
  <2> QED
    BY <1>1, <1>2, <2>1
<1>4. Contiguous'
  <2>1. ProgrammedPointer' # InvalidAddress
    BY BoardStepType, TakesWord DEF BoardStep, BootTypeOK, BoardTypeOK
  <2>2. ProgrammedPointer' = fromPc'.Address + dealt'
    <3>1. ProgrammedPointer' = fromPc.Address + dealt + 1 /\ dealt' = dealt + 1 /\ fromPc' = fromPc
      BY TakesWord
    <3>2. fromPc.Address \in Nat /\ dealt \in Nat
      BY Numbers
    <3>3. fromPc.Address + dealt + 1 = fromPc.Address + (dealt + 1)
      BY <3>2
    <3> QED
      BY <3>1, <3>3
  <2> QED
    BY <2>1, <2>2 DEF Contiguous, Pointer, InvalidAddress
<1>5. /\ Coming("program")' /\ Len(fromPcBuffer'.Data) < BlockCells =>
            attached' /\ hpc' = "complete"
      /\ Len(fromPc'.Data) < BlockCells => CompleteFollows'
  BY TakesWord DEF IInv, Flushes, Coming, CompleteFollows, host
<1> QED
  BY <1>1, <1>2, <1>3, <1>4, <1>5 DEF Flushes

LEMMA TakeWordFileOnly ==
    ASSUME BootTypeOK, IInv, TakeWord, UNCHANGED host
    PROVE  FileOnly'
<1>1. ASSUME Writing PROVE OfFile(buffer, ProgrammedPointer - Len(buffer))'
  <2>1. OfFile(fromPc.Data, fromPc.Address) /\ OfFile(buffer, ProgrammedPointer - Len(buffer))
    BY <1>1, TakesWord DEF IInv, FileOnly
  <2> image' = image
    BY DEF host
  <2> SUFFICES ASSUME NEW k \in 1 .. Len(buffer')
               PROVE  buffer'[k] = image[ProgrammedPointer' - Len(buffer') + k - 1]
    BY DEF OfFile
  <2>2. CASE k = Len(buffer')
    <3>1. buffer'[k] = fromPc.Data[dealt + 1]
      BY <2>2, TakesItsWord
    <3>2. dealt + 1 \in 1 .. Len(fromPc.Data)
      <4>1. dealt < Len(fromPc.Data)
        BY TakesWord
      <4>2. dealt \in Nat /\ Len(fromPc.Data) \in Nat
        BY Numbers
      <4> QED
        BY <4>1, <4>2
    <3>3. fromPc.Data[dealt + 1] = image[fromPc.Address + (dealt + 1) - 1]
      BY <2>1, <3>2 DEF OfFile
    <3>4. ProgrammedPointer' - Len(buffer') + k - 1 = fromPc.Address + (dealt + 1) - 1
      <4>1. /\ Len(buffer') \in Nat /\ fromPc.Address \in Nat /\ dealt \in Nat
            /\ ProgrammedPointer' = fromPc.Address + dealt + 1
        <5>1. ProgrammedPointer' = fromPc.Address + dealt + 1 /\ Len(buffer') = Len(buffer) + 1
          BY TakesWord
        <5>2. fromPc.Address \in Nat /\ dealt \in Nat /\ Len(buffer) \in Nat
          BY Numbers
        <5> QED
          BY <5>1, <5>2
      <4> QED
        BY <4>1, <2>2
    <3> QED
      BY <3>1, <3>3, <3>4
  <2>3. CASE k \in 1 .. Len(buffer)
    <3>1. buffer'[k] = buffer[k] /\ buffer # <<>>
      BY <2>3, TakesItsWord, EmptyBlock
    <3>2. buffer[k] = image[ProgrammedPointer - Len(buffer) + k - 1]
      BY <2>3, <2>1 DEF OfFile
    <3>3. ProgrammedPointer' - Len(buffer') + k - 1 = ProgrammedPointer - Len(buffer) + k - 1
      <4>1. ProgrammedPointer' = ProgrammedPointer + 1 /\ Len(buffer') = Len(buffer) + 1
        <5>1. /\ ProgrammedPointer' = fromPc.Address + dealt + 1
              /\ buffer # <<>> => ProgrammedPointer = fromPc.Address + dealt
              /\ Len(buffer') = Len(buffer) + 1
          BY TakesWord
        <5> QED
          BY <3>1, <5>1
      <4>2. ProgrammedPointer \in Nat /\ Len(buffer) \in Nat /\ k \in Nat
        BY <2>3, Numbers
      <4> QED
        BY <4>1, <4>2
    <3> QED
      BY <3>1, <3>2, <3>3
  <2>4. Len(buffer') = Len(buffer) + 1
    BY TakesWord
  <2>5. Len(buffer) \in Nat
    BY Numbers
  <2> QED
    BY <2>2, <2>3, <2>4, <2>5
<1>2. UNCHANGED <<hpc, at, hexBuf, image, verdict, outBusy, fromPcBuffer, BootState, fromPc,
                  flash>>
  BY TakesWord DEF host
<1> QED
  BY <1>1, <1>2 DEF IInv, FileOnly, Writing, Coming, Doing, OfFile

(* The words that are left of a packet are those of a short one.           *)
LEMMA ProgramDoneFlushes ==
    ASSUME BootTypeOK, IInv, ProgramDone, UNCHANGED host
    PROVE  Flushes'
<1>1. /\ Doing("program") /\ ~flushing /\ BootState' = "idle"
      /\ ~Contiguous \/ dealt = Len(fromPc.Data)
      /\ UNCHANGED <<outBusy, fromPcBuffer, flushing, buffer, attached, hpc>>
  BY DEF ProgramDone, At, Doing, Ready, usb, host
<1>2. buffer # <<>> => CompleteFollows
  <2>1. SUFFICES ASSUME buffer # <<>> PROVE Len(fromPc.Data) < BlockCells
    BY <1>1 DEF IInv, Flushes
  <2>2. Len(buffer) = Len(fromPc.Data)
    BY <1>1, <2>1 DEF IInv, Flushes
  <2>3. Len(buffer) \in 0 .. BlockCells /\ Len(buffer) # BlockCells /\ BlockCells \in Nat
    BY <1>1, BlockIsSeq, Constant DEF BootTypeOK, BoardTypeOK
  <2> QED
    BY <2>2, <2>3
<1> QED
  BY <1>1, <1>2 DEF IInv, Flushes, Coming, Doing, CompleteFollows

LEMMA ProgramDoneInOrder ==
    ASSUME BootTypeOK, IInv, ProgramDone, UNCHANGED host
    PROVE  InOrder'
<1>1. /\ Doing("program") /\ BootState' = "idle" /\ ProgrammedPointer' = Pointer
      /\ UNCHANGED <<outBusy, fromPcBuffer, flash, buffer>>
  BY DEF ProgramDone, At, Doing, Ready, usb
<1>2. FromHost' = FromHost /\ FromOut' = FromOut
  BY <1>1 DEF FromHost, FromOut, Coming, Size, host
<1>3. FromPc' = FromOut /\ FromPc <= FromOut
  BY <1>1, <1>2, Numbers, Places DEF FromPc, Doing, IInv, InOrder
<1>4. buffer # <<>> => ProgrammedPointer' = ProgrammedPointer
  BY <1>1 DEF Pointer, BootTypeOK, BoardTypeOK
<1>5. FromBuf <= FromBuf' /\ FromBuf' \in Int
  <2>1. CASE buffer = <<>>
    BY <1>1, <1>3, <2>1, Places DEF FromBuf
  <2>2. CASE buffer # <<>>
    BY <1>1, <1>4, <2>2, Numbers DEF FromBuf
  <2> QED
    BY <2>1, <2>2
<1>6. Coming("program")' => fromPcBuffer'.Address + Len(fromPcBuffer'.Data) <= FromHost'
  BY <1>1, <1>2 DEF IInv, InOrder, Coming
<1>7. buffer' # <<>> => ProgrammedPointer' <= FromPc'
  BY <1>1, <1>3, <1>4, Numbers, Places DEF IInv, InOrder
<1>8. \A c \in Cells : c >= FromBuf' => flash'[c] = Erased
  <2> SUFFICES ASSUME NEW c \in Cells, c >= FromBuf' PROVE flash[c] = Erased
    BY <1>1
  <2>1. c >= FromBuf
    BY <1>5, Places, Constant
  <2> QED
    BY <2>1 DEF IInv, InOrder
<1> QED
  BY <1>1, <1>6, <1>7, <1>8 DEF InOrder, Doing

LEMMA ProgramDoneFileOnly ==
    ASSUME BootTypeOK, IInv, ProgramDone, UNCHANGED host
    PROVE  FileOnly'
<1>1. /\ BootState' = "idle" /\ ProgrammedPointer' = Pointer
      /\ UNCHANGED <<outBusy, fromPcBuffer, flash, buffer, hpc, at, hexBuf, image, verdict>>
  BY DEF ProgramDone, Ready, usb, host
<1>2. buffer # <<>> => ProgrammedPointer' = ProgrammedPointer
  BY <1>1 DEF Pointer, BootTypeOK, BoardTypeOK
<1>3. OfFile(buffer, ProgrammedPointer - Len(buffer)) =>
         OfFile(buffer, ProgrammedPointer - Len(buffer))'
  BY <1>1, <1>2, EmptyBlock DEF OfFile
<1> QED
  BY <1>1, <1>3 DEF IInv, FileOnly, Writing, OfFile, Coming, Doing

(* The first word of the buffer goes into an erased cell.                  *)
LEMMA WritesWord ==
    ASSUME BootTypeOK, IInv, WriteWord
    PROVE  /\ Len(buffer') = Len(buffer) - 1 /\ Len(buffer) > 0 /\ buffer # <<>>
           /\ \A k \in 1 .. Len(buffer') : buffer'[k] = buffer[k + 1]
           /\ Len(buffer') \in Nat
           /\ FromBuf = ProgrammedPointer - Len(buffer) /\ FromBuf \in Cells
           /\ flash' = [flash EXCEPT ![FromBuf] = buffer[1]]
<1>1. buffer \in Blocks /\ buffer # <<>> /\ buffer' = Tail(buffer)
  BY DEF WriteWord, BootTypeOK, BoardTypeOK
<1>2. buffer \in Seq(Value) /\ Len(buffer) \in Nat
  BY <1>1, BlockIsSeq
<1>3. /\ Len(buffer') = Len(buffer) - 1 /\ Len(buffer) > 0
      /\ \A k \in 1 .. Len(buffer') : buffer'[k] = buffer[k + 1]
      /\ Head(buffer) = buffer[1] /\ Len(buffer') \in Nat
  BY <1>1, <1>2
<1>4. FromBuf = ProgrammedPointer - Len(buffer)
  BY <1>1 DEF FromBuf
<1>5. FromBuf \in Cells
  <2>1. /\ ProgrammedPointer \in 0 .. (Size + 1) /\ ProgrammedPointer # Size + 1
        /\ Len(buffer) <= ProgrammedPointer
    BY <1>1 DEF BootTypeOK, BoardTypeOK, Size, InvalidAddress
  <2>2. Cells = 0 .. (Size - 1) /\ Size \in Nat
    BY SizePositive DEF Cells, Size
  <2> QED
    BY <1>2, <1>3, <1>4, <2>1, <2>2
<1>6. flash[FromBuf] = Erased
  BY <1>5, Constant DEF IInv, InOrder
<1>7. flash' = [flash EXCEPT ![FromBuf] = Programmed(flash[FromBuf], Head(buffer))]
  BY <1>4, <1>5 DEF WriteWord
<1> QED
  BY <1>1, <1>3, <1>4, <1>5, <1>6, <1>7 DEF Programmed

LEMMA WriteWordInOrder ==
    ASSUME BootTypeOK, IInv, WriteWord, UNCHANGED host
    PROVE  InOrder'
<1>1. UNCHANGED <<outBusy, fromPcBuffer, BootState, fromPc, dealt, ProgrammedPointer>>
  BY DEF WriteWord, usb
<1>2. FromHost' = FromHost /\ FromOut' = FromOut /\ FromPc' = FromPc
  BY <1>1 DEF FromHost, FromOut, FromPc, Coming, Doing, Size, host
<1>3. /\ ProgrammedPointer <= FromPc /\ FromBuf = ProgrammedPointer - Len(buffer)
      /\ Len(buffer') = Len(buffer) - 1
  BY WritesWord DEF IInv, InOrder
<1>4. FromBuf < FromBuf' /\ FromBuf' \in Int
  <2>1. CASE buffer' = <<>>
    BY <1>2, <1>3, <2>1, WritesWord, Numbers, Places DEF FromBuf
  <2>2. CASE buffer' # <<>>
    <3>1. FromBuf' = ProgrammedPointer - Len(buffer')
      BY <1>1, <2>2 DEF FromBuf
    <3>2. ProgrammedPointer \in Nat /\ Len(buffer) \in Nat
      BY Numbers
    <3>3. /\ ProgrammedPointer - Len(buffer) < ProgrammedPointer - (Len(buffer) - 1)
          /\ ProgrammedPointer - (Len(buffer) - 1) \in Int
      BY <3>2
    <3> QED
      BY <1>3, <3>1, <3>3
  <2> QED
    BY <2>1, <2>2
<1>5. \A c \in Cells : c >= FromBuf' => flash'[c] = Erased
  <2> SUFFICES ASSUME NEW c \in Cells, c >= FromBuf' PROVE flash'[c] = Erased
    OBVIOUS
  <2>1. c >= FromBuf /\ c # FromBuf
    BY <1>4, Places, Constant
  <2>2. flash \in [Cells -> Value]
    BY DEF BootTypeOK, BoardTypeOK
  <2>3. flash'[c] = flash[c]
    BY <2>1, <2>2, WritesWord
  <2> QED
    BY <2>1, <2>3 DEF IInv, InOrder
<1> QED
  BY <1>1, <1>2, <1>3, <1>5 DEF IInv, InOrder, Coming, Doing

LEMMA WriteWordFileOnly ==
    ASSUME BootTypeOK, IInv, WriteWord, UNCHANGED host
    PROVE  FileOnly'
<1>1. UNCHANGED <<outBusy, fromPcBuffer, BootState, fromPc, ProgrammedPointer, hpc, at, hexBuf,
                  image, verdict>>
  BY DEF WriteWord, usb, host
<1>2. ASSUME Writing
      PROVE  /\ OfFile(buffer, ProgrammedPointer - Len(buffer))'
             /\ \A c \in Cells : flash'[c] \in {Erased, image[c]}
  <2>1. OfFile(buffer, FromBuf) /\ \A c \in Cells : flash[c] \in {Erased, image[c]}
    BY <1>2, WritesWord DEF IInv, FileOnly
  <2>2. OfFile(buffer, ProgrammedPointer - Len(buffer))'
    <3> SUFFICES ASSUME NEW k \in 1 .. Len(buffer')
                 PROVE  buffer'[k] = image[ProgrammedPointer - Len(buffer') + k - 1]
      BY <1>1 DEF OfFile
    <3>1. buffer'[k] = buffer[k + 1]
      BY WritesWord
    <3>2. k + 1 \in 1 .. Len(buffer)
      BY WritesWord, Numbers
    <3>3. buffer[k + 1] = image[FromBuf + (k + 1) - 1]
      BY <2>1, <3>2 DEF OfFile
    <3>4. FromBuf + (k + 1) - 1 = ProgrammedPointer - Len(buffer') + k - 1
      <4>1. FromBuf = ProgrammedPointer - Len(buffer) /\ Len(buffer') = Len(buffer) - 1
        BY WritesWord
      <4> QED
        BY <4>1, Numbers
    <3> QED
      BY <3>1, <3>3, <3>4
  <2>3. buffer[1] = image[FromBuf]
    <3>1. 1 \in 1 .. Len(buffer) /\ FromBuf + 1 - 1 = FromBuf
      BY WritesWord, Numbers, Places
    <3> QED
      BY <2>1, <3>1 DEF OfFile
  <2>4. \A c \in Cells : flash'[c] \in {Erased, image[c]}
    BY <2>1, <2>3, WritesWord DEF BootTypeOK, BoardTypeOK
  <2> QED
    BY <2>2, <2>4
<1> QED
  BY <1>1, <1>2 DEF IInv, FileOnly, Writing, OfFile, Coming, Doing
-----------------------------------------------------------------------------
(* The steps of the board, one conjunct of the invariant after another.    *)
LEMMA BoardInOrder ==
    ASSUME BootTypeOK, IInv, BoardStep, UNCHANGED host
    PROVE  InOrder'
<1> USE Constant, EmptyBlock
    DEF IInv, InOrder, FromHost, FromOut, FromPc, FromBuf, Size, Coming, Doing, host, usb, At
<1>1. CASE QueryDevice \/ GetData
  BY <1>1 DEF QueryDevice, GetData, Reply
<1>2. CASE ErasePage
  BY <1>2 DEF ErasePage
<1>3. CASE EraseDone
  BY <1>3 DEF EraseDone, Ready
<1>4. CASE Flushed
  BY <1>4 DEF Flushed, Ready
<1>5. CASE ProgramComplete
  BY <1>5 DEF ProgramComplete
<1> QED
  BY <1>1, <1>2, <1>3, <1>4, <1>5, ReceiveInOrder, TakeWordInOrder, ProgramDoneInOrder,
     WriteWordInOrder DEF BoardStep

LEMMA BoardDetached ==
    ASSUME BootTypeOK, IInv, BoardStep, UNCHANGED host
    PROVE  Detached'
<1> USE DEF IInv, Detached, host, usb, At
<1>1. CASE Receive \/ QueryDevice \/ GetData \/ ErasePage \/ EraseDone
  BY <1>1 DEF Receive, QueryDevice, GetData, Reply, ErasePage, EraseDone
<1>2. CASE TakeWord \/ ProgramDone \/ WriteWord \/ Flushed \/ ProgramComplete
  BY <1>2 DEF TakeWord, ProgramDone, Ready, WriteWord, Flushed, ProgramComplete
<1> QED
  BY <1>1, <1>2 DEF BoardStep

LEMMA BoardOneQuestion ==
    ASSUME BootTypeOK, IInv, BoardStep, UNCHANGED host
    PROVE  OneQuestion'
<1> USE DEF IInv, OneQuestion, Asked, Coming, Doing, host, usb, At
<1>1. CASE Receive
  BY <1>1 DEF Receive
<1>2. CASE QueryDevice \/ GetData
  BY <1>2 DEF QueryDevice, GetData, Reply
<1>3. CASE ErasePage \/ EraseDone
  BY <1>3 DEF ErasePage, EraseDone, Ready
<1>4. CASE TakeWord \/ ProgramDone
  BY <1>4 DEF TakeWord, ProgramDone, Ready
<1>5. CASE WriteWord \/ ProgramComplete
  BY <1>5 DEF WriteWord, ProgramComplete
<1>6. CASE Flushed
  BY <1>6 DEF Flushed, Ready, BootTypeOK, BoardTypeOK
<1> QED
  BY <1>1, <1>2, <1>3, <1>4, <1>5, <1>6 DEF BoardStep

LEMMA BoardFlushes ==
    ASSUME BootTypeOK, IInv, BoardStep, UNCHANGED host
    PROVE  Flushes'
<1> USE EmptyBlock DEF IInv, Flushes, CompleteFollows, Coming, Doing, host, usb, At
<1>1. CASE Receive
  BY <1>1 DEF Receive
<1>2. CASE QueryDevice \/ GetData
  BY <1>2 DEF QueryDevice, GetData, Reply
<1>3. CASE ErasePage \/ EraseDone
  BY <1>3 DEF ErasePage, EraseDone, Ready
<1>4. CASE WriteWord
  BY <1>4 DEF WriteWord, Contiguous, Pointer
<1>5. CASE Flushed
  BY <1>5 DEF Flushed, Ready
<1>6. CASE ProgramComplete
  BY <1>6 DEF ProgramComplete
<1> QED
  BY <1>1, <1>2, <1>3, <1>4, <1>5, <1>6, TakeWordFlushes, ProgramDoneFlushes DEF BoardStep

LEMMA BoardErasedFirst ==
    ASSUME BootTypeOK, IInv, ErasedPages = Pages, BoardStep, UNCHANGED host
    PROVE  ErasedFirst'
<1> USE DEF IInv, ErasedFirst, Coming, Doing, host, usb, At
<1>1. CASE Receive
  BY <1>1, PageOfCell, Constant DEF Receive
<1>2. CASE QueryDevice \/ GetData
  BY <1>2 DEF QueryDevice, GetData, Reply
<1>3. CASE ErasePage
  BY <1>3, PageOfCell, Constant DEF ErasePage, BootTypeOK, BoardTypeOK
<1>4. CASE EraseDone
  BY <1>4, PageOfCell, Constant DEF EraseDone, Ready
<1>5. CASE TakeWord \/ ProgramDone
  BY <1>5 DEF TakeWord, ProgramDone, Ready
<1>6. CASE WriteWord \/ Flushed
  BY <1>6 DEF WriteWord, Flushed, Ready, Flushes
<1>7. CASE ProgramComplete
  BY <1>7 DEF ProgramComplete
<1> QED
  BY <1>1, <1>2, <1>3, <1>4, <1>5, <1>6, <1>7 DEF BoardStep

LEMMA BoardFileOnly ==
    ASSUME BootTypeOK, IInv, BoardStep, UNCHANGED host
    PROVE  FileOnly'
<1> USE DEF IInv, FileOnly, Writing, OfFile, Coming, Doing, host, usb, At
<1>1. CASE Receive
  BY <1>1 DEF Receive
<1>2. CASE QueryDevice \/ GetData
  BY <1>2 DEF QueryDevice, GetData, Reply
<1>3. CASE ErasePage
  BY <1>3 DEF ErasePage
<1>4. CASE EraseDone
  BY <1>4 DEF EraseDone, Ready
<1>5. CASE ProgramComplete
  BY <1>5 DEF ProgramComplete
<1> QED
  BY <1>1, <1>2, <1>3, <1>4, <1>5, TakeWordFileOnly, ProgramDoneFileOnly,
     WriteWordFileOnly, FlushedFileOnly DEF BoardStep
-----------------------------------------------------------------------------
(* The steps of the session.                                               *)
LEMMA SessionInOrder ==
    ASSUME BootTypeOK, IInv, SessionStep
    PROVE  InOrder'
<1> USE Constant, EmptyBlock
    DEF IInv, InOrder, FromHost, FromOut, FromPc, FromBuf, Size, Coming, Doing, HandOver, Packet,
        work, Options
<1>1. CASE Query \/ Erase
  BY <1>1 DEF Query, Erase
<1>2. CASE QueryAnswered
  BY <1>2, BlockIsSeq, SizePositive DEF QueryAnswered, Fetch, BootTypeOK, BoardTypeOK, HostTypeOK,
     Packets, OneQuestion, Asked, Flushes, CompleteFollows, ErasedFirst, FileOnly
<1>3. CASE WriteBlock
  BY <1>3, BlockIsSeq, SizePositive DEF WriteBlock, BlockFrom, BootTypeOK, HostTypeOK
<1>4. CASE SectionComplete
  BY <1>4 DEF SectionComplete
<1>5. CASE AskBlock \/ ResetBoard
  BY <1>5 DEF AskBlock, ResetBoard
<1>6. CASE BlockVerified
  BY <1>6 DEF BlockVerified, Fetch
<1>7. CASE LineFails
  BY <1>7 DEF LineFails, device
<1> QED
  BY <1>1, <1>2, <1>3, <1>4, <1>5, <1>6, <1>7, ReadWordInOrder, NothingHereInOrder,
     WriteEndsInOrder, VerifyEndsInOrder DEF SessionStep

(* What only hands over, asks or fetches.                                  *)
LEMMA SessionQuiet ==
    ASSUME BootTypeOK, IInv, SessionStep
    PROVE  Detached' /\ OneQuestion' /\ Flushes' /\ ErasedFirst'
<1> USE EmptyBlock
    DEF IInv, Detached, OneQuestion, Asked, Flushes, CompleteFollows, ErasedFirst, Contiguous,
        Pointer, Coming, Doing, HandOver, Packet, Fetch, work, Options, device
<1>1. CASE Query
  BY <1>1 DEF Query
<1>2. CASE QueryAnswered
  BY <1>2 DEF QueryAnswered
<1>3. CASE Erase
  BY <1>3 DEF Erase
<1>4. CASE ReadWord \/ NothingHere
  BY <1>4 DEF ReadWord, NothingHere
<1>5. CASE WriteBlock
  BY <1>5 DEF WriteBlock
<1>6. CASE SectionComplete
  BY <1>6 DEF SectionComplete
<1>7. CASE WriteEnds
  BY <1>7 DEF WriteEnds, PassOver, Finish
<1>8. CASE AskBlock
  BY <1>8 DEF AskBlock
<1>9. CASE BlockVerified
  BY <1>9 DEF BlockVerified
<1>10. CASE VerifyEnds
  BY <1>10 DEF VerifyEnds, PassOver, Finish
<1>11. CASE ResetBoard
  BY <1>11 DEF ResetBoard
<1>12. CASE LineFails
  BY <1>12 DEF LineFails
<1> QED
  BY <1>1, <1>2, <1>3, <1>4, <1>5, <1>6, <1>7, <1>8, <1>9, <1>10, <1>11, <1>12 DEF SessionStep

LEMMA SessionFileOnly ==
    ASSUME BootTypeOK, IInv, SessionStep
    PROVE  FileOnly'
<1> USE EmptyBlock
    DEF IInv, FileOnly, Writing, OfFile, Coming, Doing, HandOver, Packet, Fetch, work, Options,
        device
<1>1. CASE Query \/ Erase
  BY <1>1 DEF Query, Erase
<1>2. CASE QueryAnswered
  BY <1>2 DEF QueryAnswered, OneQuestion, Asked, Flushes, CompleteFollows, ErasedFirst
<1>3. CASE NothingHere
  BY <1>3 DEF NothingHere
<1>4. CASE WriteBlock
  BY <1>4 DEF WriteBlock, BlockFrom
<1>5. CASE SectionComplete
  BY <1>5 DEF SectionComplete
<1>6. CASE WriteEnds
  BY <1>6 DEF WriteEnds, PassOver, Finish
<1>7. CASE AskBlock
  BY <1>7 DEF AskBlock
<1>8. CASE BlockVerified
  BY <1>8 DEF BlockVerified
<1>9. CASE VerifyEnds
  BY <1>9 DEF VerifyEnds, Finish
<1>10. CASE ResetBoard
  BY <1>10 DEF ResetBoard
<1>11. CASE LineFails
  BY <1>11 DEF LineFails
<1> QED
  BY <1>1, <1>2, <1>3, <1>4, <1>5, <1>6, <1>7, <1>8, <1>9, <1>10, <1>11, ReadWordFileOnly
     DEF SessionStep
-----------------------------------------------------------------------------
(* The board starts again, or the user does.                               *)
LEMMA GoneKeeps ==
    ASSUME BootTypeOK, IInv, NEW start \in BOOLEAN, Restart(start), Gone
    PROVE  IInv'
<1> USE Constant, EmptyBlock DEF IInv, Restart, Fresh, Gone, NoPacket, Packet, Coming, Doing
<1>1. InOrder'
  BY SizePositive DEF InOrder, FromHost, FromOut, FromPc, FromBuf, Size, Cells
<1>2. Detached' /\ OneQuestion' /\ Flushes' /\ ErasedFirst'
  BY DEF Detached, OneQuestion, Asked, Flushes, ErasedFirst
<1>3. FileOnly'
  BY DEF FileOnly, Writing, OfFile
<1> QED
  BY <1>1, <1>2, <1>3

LEMMA StartKeeps ==
    ASSUME BootTypeOK, IInv, Start, scene.kills = 0
    PROVE  IInv'
<1>1. /\ UNCHANGED device /\ hpc = "off" /\ hpc' = "query"
      /\ ~waiting /\ ~waiting' /\ hexBuf' = <<>> /\ attached' /\ verdict' = "none"
  <2>1. ~waiting /\ UNCHANGED <<outBusy, inBusy>>
    BY DEF Start, IInv, OneQuestion
  <2> QED
    BY <2>1 DEF Start, work, device
<1>2. InOrder'
  <2>1. FromHost' = Size /\ FromHost = Size
    BY <1>1 DEF FromHost, Size
  <2> QED
    BY <1>1, <2>1, HostNumbers, FurtherOn DEF IInv
<1>3. Detached' /\ OneQuestion' /\ Flushes' /\ ErasedFirst'
  BY <1>1 DEF IInv, Detached, OneQuestion, Asked, Flushes, CompleteFollows, ErasedFirst,
     Contiguous, Pointer, Coming, Doing, device
<1>4. FileOnly'
  BY <1>1 DEF FileOnly, Writing
<1> QED
  BY <1>2, <1>3, <1>4 DEF IInv

(* As long as nobody kills the program.                                    *)
KInv == scene.kills = 0 => IInv

LEMMA KInit == Init => KInv
<1> SUFFICES ASSUME Init PROVE IInv
  BY DEF KInv
<1> USE Constant, EmptyBlock DEF Init, BoardInit, HostInit, NoPacket, Packet, Coming, Doing
<1>1. InOrder
  BY SizePositive DEF InOrder, FromHost, FromOut, FromPc, FromBuf, Size, Cells
<1>2. Detached /\ OneQuestion /\ Flushes /\ ErasedFirst
  BY DEF Detached, OneQuestion, Asked, Flushes, ErasedFirst
<1>3. FileOnly
  BY DEF FileOnly, Writing, OfFile
<1> QED
  BY <1>1, <1>2, <1>3 DEF IInv

LEMMA KStep == ErasedPages = Pages /\ BootTypeOK /\ KInv /\ [Next]_vars => KInv'
<1> SUFFICES ASSUME ErasedPages = Pages, BootTypeOK, KInv, [Next]_vars, scene'.kills = 0
             PROVE  IInv'
  BY DEF KInv
<1>1. scene' = scene
  BY DEF Next, Board, Session, Resets, Start, Kill, Cut, BackToLoader, Replug, vars
<1>2. IInv
  BY <1>1 DEF KInv
<1>3. CASE Board
  BY <1>2, <1>3, BoardInOrder, BoardDetached, BoardOneQuestion, BoardFlushes, BoardErasedFirst,
     BoardFileOnly DEF Board, IInv
<1>4. CASE Session
  BY <1>2, <1>4, SessionInOrder, SessionQuiet, SessionFileOnly DEF Session, IInv
<1>5. CASE Resets \/ Cut \/ BackToLoader \/ Replug
  BY <1>2, <1>5, GoneKeeps DEF Resets, ResetDevice, Cut, BackToLoader, Replug
<1>6. CASE Start
  BY <1>1, <1>2, <1>6, StartKeeps
<1>7. CASE Kill
  BY <1>1, <1>7 DEF Kill, BootTypeOK
<1>8. CASE UNCHANGED vars
  BY <1>2, <1>8 DEF vars, device, host, IInv, InOrder, FromHost, FromOut, FromPc, FromBuf, Size,
     Detached, OneQuestion, Flushes, CompleteFollows, ErasedFirst, Contiguous, Pointer, FileOnly,
     Writing, OfFile, Coming, Doing
<1> QED
  BY <1>3, <1>4, <1>5, <1>6, <1>7, <1>8 DEF Next

LEMMA KInvariant == ASSUME ErasedPages = Pages PROVE Spec => [](BootTypeOK /\ KInv)
<1>1. BootTypeOK /\ KInv /\ [Next]_vars => KInv'
  BY KStep
<1> QED
  BY <1>1, InitType, TypeStep, KInit, PTL DEF Spec

(* Without kills a success means that nothing but the file is in the flash,*)
(* however sections are laid out and the board is reset (WriteFlashSubBlock)*)
THEOREM NothingButTheFile == ASSUME ErasedPages = Pages PROVE Spec => []OnlyTheFile
<1>1. KInv => OnlyTheFile
  BY DEF KInv, IInv, FileOnly, Writing, OnlyTheFile
<1> QED
  BY <1>1, KInvariant, PTL

(* Without kills no word is programmed twice: the erase of a session comes *)
(* before its first block and after the last one of the session before     *)
(* (ERASE_DEVICE and WriteFlashSubBlock).                                  *)
THEOREM NoWordTwice == ASSUME ErasedPages = Pages PROVE Spec => ProgramsErasedOnly
<1> DEFINE Step == \A c \in Cells :
             scene.kills = 0 /\ flash'[c] \notin {flash[c], Erased} => flash[c] = Erased
<1>1. ASSUME BootTypeOK, KInv, [Next]_vars PROVE Step
  <2> SUFFICES ASSUME scene.kills = 0,
                      NEW c \in Cells, flash'[c] \notin {flash[c], Erased}
               PROVE  flash[c] = Erased
    OBVIOUS
  <2>1. CASE Board
    <3>1. CASE WriteWord
      <4>1. c = FromBuf /\ FromBuf \in Int
        BY <1>1, <3>1, WritesWord, Places DEF KInv, BootTypeOK, BoardTypeOK
      <4> QED
        BY <1>1, <4>1, Constant DEF KInv, IInv, InOrder
    <3>2. CASE ErasePage
      BY <3>2 DEF ErasePage
    <3> QED
      BY <2>1, <3>1, <3>2 DEF Board, BoardStep, Receive, QueryDevice, GetData, Reply, EraseDone,
         TakeWord, ProgramDone, Flushed, ProgramComplete
  <2>2. CASE Session
    BY <2>2 DEF Session, SessionStep, Query, QueryAnswered, Erase, ReadWord, NothingHere,
       WriteBlock, SectionComplete, WriteEnds, AskBlock, BlockVerified, VerifyEnds, ResetBoard,
       LineFails, HandOver, Fetch, device
  <2>3. CASE Resets \/ Cut \/ BackToLoader \/ Replug
    BY <2>3 DEF Resets, ResetDevice, Cut, BackToLoader, Replug, Restart
  <2>4. CASE Start \/ Kill \/ UNCHANGED vars
    BY <2>4 DEF Start, Kill, vars, device
  <2> QED
    BY <1>1, <2>1, <2>2, <2>3, <2>4 DEF Next
<1>2. BootTypeOK /\ KInv /\ [Next]_vars => [Step]_vars
  BY <1>1
<1> QED
  BY <1>2, KInvariant, PTL DEF Spec, ProgramsErasedOnly
-----------------------------------------------------------------------------
(* A success means that the file is in the flash (OkMeansThere).  First    *)
(* the sessions that read back what they wrote, with any number of kills.  *)
(* A session that verifies to the end has seen every block compare; but a  *)
(* reply may be one of a session that was killed, and words may follow     *)
(* that are still in the buffer.  So the invariant says what may be on its *)
(* way or in work in each phase (InStep), where in the file the PC is      *)
(* (Reading), what the words on their way and the flash are as long as all *)
(* sections are whole (Words), what has been compared (Looking), and that  *)
(* this is all of it (Left, Looked).                                       *)

(* Only commands of P are on their way or in work.                         *)
InWork(P) ==
    /\ ~outBusy => fromPcBuffer.Command \in P
    /\ BootState = "notidle" => fromPc.Command \in P

(* The flash may still change under a session that verifies.               *)
Pending   == \E p \in {"program", "complete"} : Coming(p) \/ Doing(p)
AllErased == \A c \in Cells : flash[c] = Erased

(* The command at work, and the program on the PC, whoever started it.     *)
Working ==
    /\ flushing => Doing("program") \/ Doing("complete")
    /\ Doing("program") => dealt <= Len(fromPc.Data)
    /\ Doing("program") /\ dealt > 0 => ProgrammedPointer = fromPc.Address + dealt
    /\ waiting => hpc \in {"query", "erased", "verify"}
    /\ verdict # "none" => hpc = "off"

(* The second query is answered when the flash is erased.                  *)
Erasing ==
    attached /\ hpc = "erased" =>
       /\ ~outBusy /\ ~waiting => Coming("erase")
       /\ outBusy \/ waiting =>
             \/ /\ ~inBusy /\ Doing("erase")
                /\ waiting => Coming("query")
                /\ \A c \in Cells : PageOf(c) < dealt => flash[c] = Erased
             \/ /\ AllErased
                /\ \/ BootState = "idle" /\ ~inBusy /\ (waiting => Coming("query"))
                   \/ waiting /\ outBusy /\ ~inBusy /\ Doing("query")
                   \/ waiting /\ outBusy /\ inBusy /\ BootState = "idle"

(* While it writes nothing but blocks is on its way, and a session that    *)
(* verifies waits for the answer to its own question.                      *)
Answering ==
    /\ attached /\ hpc \in {"write", "complete", "verify"} /\ ~waiting =>
          ~inBusy /\ InWork({"program", "complete"})
    /\ attached /\ hpc = "verify" /\ waiting =>
          \/ /\ ~inBusy /\ Coming("get")
             /\ BootState = "notidle" => fromPc.Command \in {"program", "complete"}
          \/ ~inBusy /\ outBusy /\ Doing("get")
          \/ inBusy /\ outBusy /\ BootState = "idle"

InStep == Working /\ Erasing /\ Answering

(* A block begins a number of full blocks after the start of a section.    *)
SectionStart(a) == a = 0 \/ ~Has(a - 1)
Aligned(b) == \E a \in 0 .. b, k \in 0 .. b :
                 /\ b = a + k * BlockCells /\ SectionStart(a)
                 /\ \A c \in a .. (b - 1) : Has(c)

(* The words in hexBuf are the file's, and full blocks go before them.     *)
Reading ==
    /\ hpc \in {"write", "verify"} =>
          /\ \A c \in BlockFrom .. (at - 1) : Has(c)
          /\ OfFile(hexBuf, BlockFrom)
          /\ \/ Aligned(BlockFrom)
             \/ hpc = "write" /\ image \notin WholeBlocks /\ hexBuf = <<>> /\ ~Has(at)
    /\ hpc = "complete" => hexBuf = <<>> /\ ~Has(at) /\ image \notin WholeBlocks
    /\ hpc \in {"query", "erase", "erased"} => at = 0 /\ hexBuf = <<>>
-----------------------------------------------------------------------------
(* Sections and blocks.                                                    *)
LEMMA Multiple ==
    ASSUME NEW n \in Nat, n > 0, NEW k \in Nat, NEW r \in Nat, r < n
    PROVE  (k * n + r) % n = r
<1> DEFINE x == k * n + r
           q == x \div n
           m == x % n
<1>1. k * n \in Nat /\ x \in Nat /\ x = k * n + r
  OBVIOUS
<1>2. q \in Nat /\ m \in Nat /\ m < n /\ x = q * n + m
  BY <1>1
<1> HIDE DEF x, q, m
<1>3. ASSUME NEW u \in Nat, NEW v \in Nat, u < v PROVE u * n + n <= v * n
  <2>1. u + 1 <= v
    BY <1>3
  <2>2. (u + 1) * n <= v * n
    BY <2>1
  <2> QED
    BY <2>2
<1>4. ~(k < q)
  <2>1. SUFFICES ASSUME k < q PROVE FALSE
    OBVIOUS
  <2>2. k * n + n <= q * n
    BY <2>1, <1>2, <1>3
  <2>3. q * n \in Nat
    BY <1>2
  <2> QED
    BY <1>1, <1>2, <2>2, <2>3
<1>5. ~(q < k)
  <2>1. SUFFICES ASSUME q < k PROVE FALSE
    OBVIOUS
  <2>2. q * n + n <= k * n
    BY <2>1, <1>2, <1>3
  <2>3. q * n \in Nat
    BY <1>2
  <2> QED
    BY <1>1, <1>2, <2>2, <2>3
<1>6. q = k
  BY <1>2, <1>4, <1>5
<1>7. m = r
  BY <1>1, <1>2, <1>6
<1> QED
  BY <1>7 DEF m, x

LEMMA HostFacts ==
    ASSUME BootTypeOK
    PROVE  /\ at \in Nat /\ Len(hexBuf) \in Nat /\ Len(hexBuf) <= BlockCells
           /\ BlockFrom \in Nat /\ BlockFrom + Len(hexBuf) = at /\ at <= Size
           /\ (hexBuf = <<>> <=> Len(hexBuf) = 0)
           /\ Cells = 0 .. (Size - 1) /\ Size \in Nat /\ image \in Images
           /\ image \in [Cells -> Value] /\ hexBuf \in Seq(Value)
<1>1. hexBuf \in Seq(Value) /\ Len(hexBuf) \in Nat /\ Len(hexBuf) <= BlockCells
  BY BlockIsSeq, Constant DEF BootTypeOK, HostTypeOK
<1>2. hexBuf = <<>> <=> Len(hexBuf) = 0
  BY <1>1
<1>3. at \in 0 .. Size /\ Size \in Nat /\ Cells = 0 .. (Size - 1) /\ image \in Images
  BY SizePositive DEF BootTypeOK, HostTypeOK, Size, Cells
<1> QED
  BY <1>1, <1>2, <1>3, HostNumbers, ImagesAssumption DEF BlockFrom

(* A run of words from the start of a section to a cell without one.       *)
LEMMA ARun ==
    ASSUME BootTypeOK, NEW a \in Nat, NEW b \in Nat, a < b, SectionStart(a),
           \A c \in a .. (b - 1) : Has(c), ~Has(b)
    PROVE  <<a, b - 1>> \in Sections(image)
<1> DEFINE s == <<a, b - 1>>
<1>1. Has(a) /\ Has(b - 1)
  BY HostFacts
<1>2. s \in Cells \X Cells /\ s[1] = a /\ s[2] = b - 1
  BY <1>1 DEF Has
<1>3. a <= b - 1 /\ b - 1 + 1 = b
  OBVIOUS
<1>4. \A c \in a .. (b - 1) : image[c] # Erased
  BY DEF Has
<1>5. a - 1 \notin Cells \/ image[a - 1] = Erased
  BY HostFacts DEF SectionStart, Has
<1>6. b \notin Cells \/ image[b] = Erased
  BY DEF Has
<1> HIDE DEF s
<1>7. /\ s[1] <= s[2] /\ \A c \in s[1] .. s[2] : image[c] # Erased
      /\ s[1] - 1 \notin Cells \/ image[s[1] - 1] = Erased
      /\ s[2] + 1 \notin Cells \/ image[s[2] + 1] = Erased
  BY <1>2, <1>3, <1>4, <1>5, <1>6
<1> QED
  BY <1>2, <1>7 DEF Sections, s

(* A section is known by its end.                                          *)
LEMMA OneStart ==
    ASSUME BootTypeOK, NEW s \in Sections(image), NEW a \in Nat, NEW b \in Nat,
           SectionStart(a), \A c \in a .. (b - 1) : Has(c), a < b, s[2] = b - 1
    PROVE  s[1] = a
<1>1. /\ s[1] \in Nat /\ s[2] \in Nat /\ s[1] <= s[2]
      /\ \A c \in s[1] .. s[2] : image[c] # Erased
      /\ s[1] - 1 \notin Cells \/ image[s[1] - 1] = Erased
  BY HostFacts DEF Sections
<1>2. ~(a < s[1])
  <2>1. SUFFICES ASSUME a < s[1] PROVE FALSE
    OBVIOUS
  <2>2. s[1] - 1 \in a .. (b - 1)
    BY <1>1, <2>1
  <2> QED
    BY <1>1, <2>2 DEF Has
<1>3. ~(s[1] < a)
  <2>1. SUFFICES ASSUME s[1] < a PROVE FALSE
    OBVIOUS
  <2>2. a - 1 \in s[1] .. s[2] /\ a # 0
    BY <1>1, <2>1
  <2>3. s[2] \in Cells
    BY DEF Sections
  <2>4. a - 1 \in Cells
    BY <1>1, <2>2, <2>3, HostFacts
  <2> QED
    BY <1>1, <2>2, <2>4 DEF Has, SectionStart
<1> QED
  BY <1>1, <1>2, <1>3

(* Where a section ends at a block's end, and where it does not.           *)
LEMMA EndsHere ==
    ASSUME BootTypeOK, NEW b \in Nat, Aligned(b), NEW n \in Nat, n < BlockCells,
           \A c \in b .. (b + n - 1) : Has(c), ~Has(b + n), b + n > 0, Has(b + n - 1)
    PROVE  \A s \in Sections(image) : s[2] = b + n - 1 => (EndsFull(s) <=> n = 0)
<1> SUFFICES ASSUME NEW s \in Sections(image), s[2] = b + n - 1
             PROVE  EndsFull(s) <=> n = 0
  OBVIOUS
<1>1. PICK a \in 0 .. b, k \in 0 .. b : /\ b = a + k * BlockCells /\ SectionStart(a)
                                        /\ \A c \in a .. (b - 1) : Has(c)
  BY DEF Aligned
<1>2. a \in Nat /\ k \in Nat /\ BlockCells \in Nat /\ BlockCells > 0
  BY Constant
<1>3. PICK e \in Nat : e = k * BlockCells
  BY <1>2
<1>4. a < b + n
  <2>1. SUFFICES ASSUME b = a, n = 0 PROVE FALSE
    BY <1>1, <1>2
  <2> QED
    BY <2>1, <1>1 DEF SectionStart
<1>5. \A c \in a .. (b + n - 1) : Has(c)
  <2> SUFFICES ASSUME NEW c \in a .. (b + n - 1) PROVE Has(c)
    OBVIOUS
  <2>1. c \in a .. (b - 1) \/ c \in b .. (b + n - 1)
    BY <1>2
  <2> QED
    BY <2>1, <1>1
<1>6. s[1] = a
  <2>1. b + n \in Nat
    OBVIOUS
  <2> QED
    BY <1>1, <1>2, <1>4, <1>5, <2>1, OneStart
<1>7. s[2] - s[1] + 1 = e + n
  BY <1>1, <1>2, <1>3, <1>6
<1>8. (k * BlockCells + n) % BlockCells = n
  BY <1>2, Multiple
<1> QED
  BY <1>3, <1>7, <1>8 DEF EndsFull

LEMMA EndIsThere ==
    ASSUME BootTypeOK, NEW b \in Nat, Aligned(b), NEW n \in Nat,
           \A c \in b .. (b + n - 1) : Has(c), ~Has(b + n), b + n > 0, Has(b + n - 1)
    PROVE  \E s \in Sections(image) : s[2] = b + n - 1
<1>1. PICK a \in 0 .. b, k \in 0 .. b : /\ b = a + k * BlockCells /\ SectionStart(a)
                                        /\ \A c \in a .. (b - 1) : Has(c)
  BY DEF Aligned
<1>2. a \in Nat /\ b + n \in Nat
  OBVIOUS
<1>4. a < b + n
  <2>1. SUFFICES ASSUME b = a, n = 0 PROVE FALSE
    BY <1>1, <1>2
  <2> QED
    BY <2>1, <1>1 DEF SectionStart
<1>5. \A c \in a .. (b + n - 1) : Has(c)
  <2> SUFFICES ASSUME NEW c \in a .. (b + n - 1) PROVE Has(c)
    OBVIOUS
  <2>1. c \in a .. (b - 1) \/ c \in b .. (b + n - 1)
    BY <1>2
  <2> QED
    BY <2>1, <1>1
<1>6. <<a, b + n - 1>> \in Sections(image)
  BY <1>1, <1>2, <1>4, <1>5, ARun
<1> QED
  BY <1>6

(* What GET_DATA answers (GetData), whether all sections that end before b *)
(* are whole, and what a session that verifies has seen so far.            *)
Block(adr, n) == [k \in 1 .. BlockCells |->
                     IF k <= n /\ adr + k - 1 \in Cells THEN flash[adr + k - 1] ELSE Zero]
WholeUpTo(b) == \A s \in Sections(image) : s[2] + 1 < b => EndsFull(s)
Looking ==
    hpc = "verify" =>
       /\ WholeUpTo(BlockFrom)
       /\ attached =>
             /\ \A c \in Cells : c < BlockFrom /\ Has(c) => flash[c] = image[c]
             /\ Pending => \A c \in Cells : c < BlockFrom => ~Has(c)
             /\ waiting =>
                   /\ BlockReady
                   /\ Coming("get") => /\ fromPcBuffer.Address = BlockFrom
                                       /\ Len(fromPcBuffer.Data) = Len(hexBuf)
                   /\ Doing("get") => /\ fromPc.Address = BlockFrom
                                      /\ Len(fromPc.Data) = Len(hexBuf)
                   /\ inBusy => toPc = Block(BlockFrom, Len(hexBuf))

LEMMA ReceiveInStep ==
    ASSUME BootTypeOK, InStep, Receive, UNCHANGED host
    PROVE  InStep'
<1>1. /\ BootState = "idle" /\ BootState' = "notidle" /\ ~inBusy /\ ~inBusy' /\ ~outBusy
      /\ outBusy' /\ fromPc' = fromPcBuffer /\ dealt' = 0
      /\ UNCHANGED <<mode, fromPcBuffer, flushing, ProgrammedPointer, buffer, flash>>
      /\ UNCHANGED <<hpc, waiting, attached, verdict>>
  BY DEF Receive, host
<1>2. \A c \in Cells : ~(PageOf(c) < 0)
  BY PageOfCell, Constant
<1>3. 0 <= Len(fromPcBuffer.Data)
  BY Numbers
<1>4. Erasing'
  BY <1>1, <1>2 DEF InStep, Erasing, AllErased, Coming, Doing
<1>5. Answering'
  BY <1>1 DEF InStep, Answering, InWork, Coming, Doing
<1>6. Working'
  BY <1>1, <1>3 DEF InStep, Working, Coming, Doing
<1> QED
  BY <1>4, <1>5, <1>6 DEF InStep

LEMMA ErasePageInStep ==
    ASSUME BootTypeOK, InStep, ErasePage, UNCHANGED host
    PROVE  InStep'
<1>1. /\ BootState = "notidle" /\ fromPc.Command = "erase" /\ ~flushing /\ dealt' = dealt + 1
      /\ UNCHANGED <<outBusy, inBusy, fromPcBuffer, BootState, fromPc, flushing>>
      /\ UNCHANGED <<hpc, waiting, attached, verdict>>
  BY DEF ErasePage, At, usb, host
<1>2. \A c \in Cells : /\ flash'[c] \in {flash[c], Erased}
                       /\ PageOf(c) = dealt => flash'[c] = Erased
  BY DEF ErasePage
<1>3. \A c \in Cells : PageOf(c) < dealt + 1 => PageOf(c) < dealt \/ PageOf(c) = dealt
  BY PageOfCell, Constant, Numbers
<1>4. Erasing'
  BY <1>1, <1>2, <1>3 DEF InStep, Erasing, AllErased, Coming, Doing
<1>5. Answering'
  BY <1>1 DEF InStep, Answering, InWork, Coming, Doing
<1>6. Working'
  BY <1>1 DEF InStep, Working, Coming, Doing
<1> QED
  BY <1>4, <1>5, <1>6 DEF InStep

LEMMA EraseDoneInStep ==
    ASSUME BootTypeOK, InStep, ErasedPages = Pages, EraseDone, UNCHANGED host
    PROVE  InStep'
<1>1. /\ BootState = "notidle" /\ fromPc.Command = "erase" /\ ~flushing /\ dealt = Pages
      /\ BootState' = "idle"
      /\ UNCHANGED <<outBusy, inBusy, fromPcBuffer, fromPc, flushing, dealt, flash>>
      /\ UNCHANGED <<hpc, waiting, attached, verdict>>
  BY DEF EraseDone, Ready, At, usb, host
<1>2. \A c \in Cells : PageOf(c) < dealt
  BY <1>1, PageOfCell, Constant
<1>3. Erasing'
  BY <1>1, <1>2 DEF InStep, Erasing, AllErased, Coming, Doing
<1>4. Answering'
  BY <1>1 DEF InStep, Answering, InWork, Coming, Doing
<1>5. Working'
  BY <1>1 DEF InStep, Working, Coming, Doing
<1> QED
  BY <1>3, <1>4, <1>5 DEF InStep

LEMMA TakeWordInStep ==
    ASSUME BootTypeOK, InStep, TakeWord, UNCHANGED host
    PROVE  InStep'
<1>1. /\ BootState = "notidle" /\ fromPc.Command = "program"
      /\ UNCHANGED <<outBusy, inBusy, fromPcBuffer, BootState, fromPc, flash>>
      /\ UNCHANGED <<hpc, waiting, attached, verdict>>
  BY DEF TakeWord, At, usb, host
<1>2. dealt' <= Len(fromPc'.Data) /\ ProgrammedPointer' = fromPc'.Address + dealt'
  <2>1. /\ fromPc.Address \in Nat /\ dealt \in Nat /\ Len(fromPc.Data) \in Nat
        /\ dealt < Len(fromPc.Data) /\ dealt' = dealt + 1 /\ fromPc' = fromPc
        /\ ProgrammedPointer' = fromPc.Address + dealt + 1
    BY TakesWord, Numbers
  <2> QED
    BY <2>1
<1>3. Erasing'
  BY <1>1 DEF InStep, Erasing, AllErased, Coming, Doing
<1>4. Answering'
  BY <1>1 DEF InStep, Answering, InWork, Coming, Doing
<1>5. Working'
  BY <1>1, <1>2 DEF InStep, Working, Coming, Doing
<1> QED
  BY <1>3, <1>4, <1>5 DEF InStep

(* What only works on the buffer, and ends a command.                      *)
LEMMA BufferInStep ==
    ASSUME BootTypeOK, InStep, ProgramDone \/ WriteWord \/ Flushed \/ ProgramComplete,
           UNCHANGED host
    PROVE  InStep'
<1>1. /\ BootState = "notidle" /\ fromPc.Command \in {"program", "complete"}
      /\ BootState' \in {"idle", "notidle"} /\ (flushing' => BootState' = "notidle")
      /\ BootState' = "notidle" => UNCHANGED ProgrammedPointer
      /\ UNCHANGED <<outBusy, inBusy, fromPcBuffer, dealt, fromPc>>
      /\ UNCHANGED <<hpc, waiting, attached, verdict>>
  BY DEF InStep, Working, Doing, ProgramDone, WriteWord, Flushed, ProgramComplete, Ready, At,
         usb, host
<1>2. Erasing'
  BY <1>1 DEF InStep, Erasing, Coming, Doing
<1>3. Answering'
  BY <1>1 DEF InStep, Answering, InWork, Coming, Doing
<1>4. Working'
  BY <1>1 DEF InStep, Working, Coming, Doing
<1> QED
  BY <1>2, <1>3, <1>4 DEF InStep

LEMMA RepliesInStep ==
    ASSUME BootTypeOK, InStep, QueryDevice \/ GetData, UNCHANGED host
    PROVE  InStep'
<1>1. /\ BootState = "notidle" /\ fromPc.Command \in {"query", "get"}
      /\ BootState' = "idle" /\ ~inBusy /\ inBusy' /\ ~flushing'
      /\ UNCHANGED <<outBusy, fromPcBuffer, dealt, fromPc, flash>>
      /\ UNCHANGED <<hpc, waiting, attached, verdict>>
  BY DEF QueryDevice, GetData, Reply, At, host
<1>2. Erasing'
  BY <1>1 DEF InStep, Erasing, AllErased, Coming, Doing
<1>3. Answering'
  BY <1>1 DEF InStep, Answering, InWork, Coming, Doing
<1>4. Working'
  BY <1>1 DEF InStep, Working, Coming, Doing
<1> QED
  BY <1>2, <1>3, <1>4 DEF InStep

LEMMA BoardInStep ==
    ASSUME BootTypeOK, InStep, ErasedPages = Pages, BoardStep, UNCHANGED host
    PROVE  InStep'
  BY ReceiveInStep, RepliesInStep, ErasePageInStep, EraseDoneInStep, TakeWordInStep, BufferInStep
     DEF BoardStep

LEMMA SessionInStep ==
    ASSUME BootTypeOK, InStep, SessionStep
    PROVE  InStep'
<1> USE DEF InStep, Working, Erasing, Answering, InWork, AllErased, Coming, Doing, HandOver, Packet, Fetch, work, Options, device
<1>1. CASE Query
  BY <1>1 DEF Query
<1>2. CASE QueryAnswered
  BY <1>2 DEF QueryAnswered
<1>3. CASE Erase
  BY <1>3 DEF Erase
<1>4. CASE ReadWord \/ NothingHere
  BY <1>4 DEF ReadWord, NothingHere
<1>5. CASE WriteBlock
  BY <1>5 DEF WriteBlock
<1>6. CASE SectionComplete
  BY <1>6 DEF SectionComplete
<1>7. CASE WriteEnds
  BY <1>7 DEF WriteEnds, PassOver, Finish
<1>8. CASE AskBlock
  BY <1>8 DEF AskBlock
<1>9. CASE BlockVerified
  BY <1>9 DEF BlockVerified
<1>10. CASE VerifyEnds
  BY <1>10 DEF VerifyEnds, PassOver, Finish
<1>11. CASE ResetBoard
  BY <1>11 DEF ResetBoard
<1>12. CASE LineFails
  BY <1>12 DEF LineFails
<1> QED
  BY <1>1, <1>2, <1>3, <1>4, <1>5, <1>6, <1>7, <1>8, <1>9, <1>10, <1>11, <1>12 DEF SessionStep

LEMMA GoneInStep ==
    ASSUME BootTypeOK, InStep, NEW start \in BOOLEAN, Restart(start), Gone
    PROVE  InStep'
  BY DEF InStep, Working, Erasing, Answering, Restart, Fresh, Gone, Coming, Doing

LEMMA StartInStep ==
    ASSUME BootTypeOK, InStep, Start
    PROVE  InStep'
  BY DEF InStep, Working, Erasing, Answering, Start, work, Coming, Doing

LEMMA KillInStep ==
    ASSUME BootTypeOK, InStep, Kill
    PROVE  InStep'
  BY DEF InStep, Working, Erasing, Answering, Kill, device, Coming, Doing
-----------------------------------------------------------------------------
LEMMA AlignedBlock ==
    ASSUME BootTypeOK, Aligned(BlockFrom), Len(hexBuf) = BlockCells,
           \A c \in BlockFrom .. (at - 1) : Has(c)
    PROVE  Aligned(at)
<1>1. PICK a \in 0 .. BlockFrom, k \in 0 .. BlockFrom :
             /\ BlockFrom = a + k * BlockCells /\ SectionStart(a)
             /\ \A c \in a .. (BlockFrom - 1) : Has(c)
  BY DEF Aligned
<1>2. /\ a \in Nat /\ k \in Nat /\ BlockCells \in Nat /\ BlockCells > 0
      /\ BlockFrom \in Nat /\ at \in Nat /\ at = BlockFrom + BlockCells
  BY HostFacts, Constant
<1>3. PICK e \in Nat : e = k * BlockCells
  BY <1>2
<1>4. (k + 1) * BlockCells = e + BlockCells
  BY <1>2, <1>3
<1>5. at = a + (k + 1) * BlockCells
  BY <1>1, <1>2, <1>3, <1>4
<1>6. a \in 0 .. at /\ k + 1 \in 0 .. at
  BY <1>1, <1>2
<1>7. \A c \in a .. (at - 1) : Has(c)
  <2> SUFFICES ASSUME NEW c \in a .. (at - 1) PROVE Has(c)
    OBVIOUS
  <2>1. c \in a .. (BlockFrom - 1) \/ c \in BlockFrom .. (at - 1)
    BY <1>2
  <2> QED
    BY <2>1, <1>1
<1> QED
  BY <1>1, <1>5, <1>6, <1>7 DEF Aligned

LEMMA AlignedStart == ASSUME NEW b \in Nat, SectionStart(b) PROVE Aligned(b)
<1>1. b = b + 0 * BlockCells
  BY Constant
<1>2. \A c \in b .. (b - 1) : FALSE
  OBVIOUS
<1> QED
  BY <1>1, <1>2 DEF Aligned

(* A short block belongs to a section that ends with it.                   *)
LEMMA ShortBlock ==
    ASSUME BootTypeOK, Aligned(BlockFrom), BlockReady, Len(hexBuf) < BlockCells,
           \A c \in BlockFrom .. (at - 1) : Has(c)
    PROVE  /\ image \notin WholeBlocks /\ ~Has(at) /\ at - 1 \in Cells
           /\ ShortBlocksShow => image[at - 1] # Zero
<1>1. /\ BlockFrom \in Nat /\ Len(hexBuf) \in Nat /\ Len(hexBuf) > 0 /\ ~Has(at)
      /\ BlockFrom + Len(hexBuf) = at
  BY HostFacts DEF BlockReady
<1>2. PICK n \in Nat, b \in Nat : n = Len(hexBuf) /\ b = BlockFrom
  BY <1>1
<1>3. /\ at = b + n /\ n > 0 /\ b + n > 0 /\ at - 1 = b + n - 1 /\ n < BlockCells
      /\ Has(b + n - 1) /\ ~Has(b + n)
      /\ \A c \in b .. (b + n - 1) : Has(c)
  BY <1>1, <1>2
<1>4. Aligned(b)
  BY <1>2
<1>5. PICK s \in Sections(image) : s[2] = b + n - 1
  BY <1>3, <1>4, EndIsThere
<1>7. ~EndsFull(s)
  BY <1>3, <1>4, <1>5, EndsHere
<1>6. image \in Images /\ Has(at - 1)
  BY <1>3, HostFacts
<1> QED
  BY <1>1, <1>3, <1>5, <1>6, <1>7 DEF WholeBlocks, ShortBlocksShow, Has

(* What a reply shows of a block that compares.                            *)
LEMMA Compares ==
    ASSUME BootTypeOK, ShortBlocksShow, Aligned(BlockFrom), BlockReady,
           \A c \in BlockFrom .. (at - 1) : Has(c), OfFile(hexBuf, BlockFrom),
           toPc = Block(BlockFrom, Len(hexBuf)), RightJustified(Len(hexBuf)) = hexBuf
    PROVE  /\ Len(hexBuf) = BlockCells
           /\ \A c \in BlockFrom .. (at - 1) : flash[c] = image[c]
<1>1. PICK n \in Nat : n = Len(hexBuf)
  BY HostFacts
<1>2. /\ BlockFrom \in Nat /\ BlockFrom + n = at /\ n <= BlockCells /\ BlockCells \in Nat
      /\ n > 0 /\ at <= Size /\ Size \in Nat /\ Cells = 0 .. (Size - 1)
  BY <1>1, HostFacts, Constant DEF BlockReady
<1>3. toPc \in [1 .. BlockCells -> Value] /\ toPc \in Seq(Value) /\ Len(toPc) = BlockCells
  BY <1>2 DEF BootTypeOK, BoardTypeOK
<1>4. \A j \in 1 .. n : hexBuf[j] = toPc[BlockCells - n + j]
  <2> SUFFICES ASSUME NEW j \in 1 .. n PROVE hexBuf[j] = toPc[BlockCells - n + j]
    OBVIOUS
  <2>1. hexBuf = SubSeq(toPc, BlockCells - n + 1, BlockCells)
    BY <1>1 DEF RightJustified
  <2>2. PICK m \in Nat : m = BlockCells - n + 1
    BY <1>2
  <2>3. j \in 1 .. (BlockCells - m + 1) /\ m \in 1 .. (Len(toPc) + 1) /\ BlockCells \in m - 1 .. Len(toPc)
    BY <1>2, <1>3, <2>2
  <2>4. SubSeq(toPc, m, BlockCells)[j] = toPc[m + j - 1]
    BY <1>3, <2>2, <2>3
  <2>5. m + j - 1 = BlockCells - n + j
    BY <1>2, <2>2
  <2> QED
    BY <2>1, <2>2, <2>4, <2>5
<1>5. n = BlockCells
  <2>1. SUFFICES ASSUME n < BlockCells PROVE FALSE
    BY <1>2
  <2>2. image[at - 1] # Zero
    BY <2>1, <1>1, ShortBlock
  <2>3. hexBuf[n] = image[at - 1]
    <3>1. n \in 1 .. Len(hexBuf) /\ BlockFrom + n - 1 = at - 1
      BY <1>1, <1>2
    <3> QED
      BY <3>1 DEF OfFile
  <2>4. hexBuf[n] = toPc[BlockCells]
    <3>1. n \in 1 .. n /\ BlockCells - n + n = BlockCells
      BY <1>2
    <3> QED
      BY <3>1, <1>4
  <2>5. toPc[BlockCells] = Zero
    <3>1. BlockCells \in 1 .. BlockCells /\ ~(BlockCells <= n)
      BY <1>2, <2>1
    <3> QED
      BY <1>1, <3>1 DEF Block
  <2> QED
    BY <2>2, <2>3, <2>4, <2>5
<1>6. ASSUME NEW c \in BlockFrom .. (at - 1)
      PROVE  flash[c] = image[c]
  <2>1. PICK j \in 1 .. n : c = BlockFrom + j - 1
    <3>1. c - BlockFrom + 1 \in 1 .. n /\ c = BlockFrom + (c - BlockFrom + 1) - 1
      BY <1>2
    <3> QED
      BY <3>1
  <2>2. hexBuf[j] = image[c]
    BY <1>1, <2>1 DEF OfFile
  <2>3. hexBuf[j] = toPc[j]
    <3>1. BlockCells - n + j = j
      BY <1>2, <1>5
    <3> QED
      BY <3>1, <1>4
  <2>4. c \in Cells
    BY <1>2
  <2>5. toPc[j] = flash[c]
    <3>1. j \in 1 .. BlockCells /\ j <= n /\ BlockFrom + j - 1 \in Cells
      BY <1>2, <1>5, <2>1, <2>4
    <3> QED
      BY <1>1, <2>1, <3>1 DEF Block
  <2> QED
    BY <2>2, <2>3, <2>5
<1> QED
  BY <1>1, <1>5, <1>6

LEMMA SameFile ==
    ASSUME UNCHANGED image
    PROVE  /\ \A c : Has(c)' <=> Has(c)
           /\ \A b : Aligned(b)' <=> Aligned(b)
           /\ \A b : WholeUpTo(b)' <=> WholeUpTo(b)
  BY DEF Has, Aligned, SectionStart, WholeUpTo

(* Reading from one position to another.                                   *)
LEMMA ReadTo ==
    ASSUME UNCHANGED image, NEW b \in Nat, NEW e \in Nat, BlockFrom' = b, at' = e,
           \A c \in b .. (e - 1) : Has(c), OfFile(hexBuf, BlockFrom)', Aligned(b),
           hpc' \in {"write", "verify"}
    PROVE  Reading'
<1>1. \A c \in BlockFrom' .. (at' - 1) : Has(c)'
  BY SameFile
<1>2. Aligned(b)'
  BY SameFile
<1>3. Aligned(BlockFrom)'
  BY <1>2 DEF Aligned
<1> QED
  BY <1>1, <1>3 DEF Reading

LEMMA AtTheStart == SectionStart(0) /\ Aligned(0)
<1>1. SectionStart(0)
  BY DEF SectionStart
<1> QED
  BY <1>1, AlignedStart

LEMMA StartReading ==
    ASSUME UNCHANGED image, at' = 0, hexBuf' = <<>>, hpc' \in {"write", "verify"}
    PROVE  Reading' /\ BlockFrom' = 0
<1>1. BlockFrom' = 0
  <2>1. Len(hexBuf') = 0 /\ at' = 0
    BY EmptyBlock
  <2>2. BlockFrom' = at' - Len(hexBuf')
    BY DEF BlockFrom
  <2>3. BlockFrom' = 0 - 0
    BY <2>1, <2>2, Zenon
  <2> QED
    BY <2>3
<1>2. OfFile(hexBuf, BlockFrom)'
  BY EmptyBlock DEF OfFile
<1>3. \A c \in 0 .. (0 - 1) : Has(c)
  OBVIOUS
<1> QED
  BY <1>1, <1>2, <1>3, AtTheStart, ReadTo

LEMMA ReadWordReading ==
    ASSUME BootTypeOK, Reading, ReadWord
    PROVE  Reading' /\ BlockFrom' = BlockFrom
<1>1. /\ hpc \in {"write", "verify"} /\ Has(at) /\ hexBuf' = Append(hexBuf, image[at]) /\ at' = at + 1
      /\ UNCHANGED <<hpc, image>> /\ at \in Cells /\ image[at] \in Value /\ Len(hexBuf) < BlockCells
  BY HostFacts DEF ReadWord, Options, Has
<1>2. /\ hexBuf \in Blocks /\ Len(hexBuf') = Len(hexBuf) + 1
      /\ \A k \in 1 .. Len(hexBuf) : hexBuf'[k] = hexBuf[k]
      /\ hexBuf'[Len(hexBuf) + 1] = image[at]
  BY <1>1, AppendWords DEF BootTypeOK, HostTypeOK
<1>3. BlockFrom' = BlockFrom
  BY <1>1, <1>2, HostFacts DEF BlockFrom
<1>4. Aligned(BlockFrom) /\ OfFile(hexBuf, BlockFrom) /\ \A c \in BlockFrom .. (at - 1) : Has(c)
  BY <1>1 DEF Reading
<1>5. OfFile(hexBuf, BlockFrom)'
  <2> SUFFICES ASSUME NEW k \in 1 .. Len(hexBuf') PROVE hexBuf'[k] = image[BlockFrom + k - 1]
    BY <1>1, <1>3 DEF OfFile
  <2>1. CASE k \in 1 .. Len(hexBuf)
    BY <2>1, <1>2, <1>4 DEF OfFile
  <2>2. CASE k = Len(hexBuf) + 1
    <3>1. BlockFrom + k - 1 = at
      BY <2>2, HostFacts
    <3> QED
      BY <2>2, <3>1, <1>2
  <2> QED
    BY <2>1, <2>2, <1>2, HostFacts
<1>6. PICK b \in Nat, e \in Nat : b = BlockFrom /\ e = at + 1
  BY HostFacts
<1>7. \A c \in b .. (e - 1) : Has(c)
  <2> SUFFICES ASSUME NEW c \in b .. (e - 1) PROVE Has(c)
    OBVIOUS
  <2>1. c = at \/ c \in BlockFrom .. (at - 1)
    BY <1>6, HostFacts
  <2> QED
    BY <2>1, <1>1, <1>4
<1>8. Aligned(b)
  BY <1>4, <1>6
<1> QED
  BY <1>1, <1>3, <1>5, <1>6, <1>7, <1>8, ReadTo

LEMMA NothingHereReading ==
    ASSUME BootTypeOK, Reading, NothingHere
    PROVE  Reading' /\ BlockFrom = at /\ BlockFrom' = at + 1
<1>1. /\ hpc \in {"write", "verify"} /\ ~Has(at) /\ hexBuf = <<>> /\ at' = at + 1
      /\ UNCHANGED <<hpc, image, hexBuf>> /\ at \in Nat
  BY HostFacts DEF NothingHere, Options
<1>2. BlockFrom = at /\ BlockFrom' = at + 1
  BY <1>1, EmptyBlock DEF BlockFrom
<1>3. PICK e \in Nat : e = at + 1
  BY <1>1
<1>4. SectionStart(e)
  BY <1>1, <1>3 DEF SectionStart
<1>5. Aligned(e)
  BY <1>4, AlignedStart
<1>6. \A c \in e .. (e - 1) : Has(c)
  OBVIOUS
<1>7. OfFile(hexBuf, BlockFrom)'
  BY <1>1, EmptyBlock DEF OfFile
<1>8. Reading'
  BY <1>1, <1>2, <1>3, <1>5, <1>6, <1>7, ReadTo
<1> QED
  BY <1>2, <1>8

(* A full block leaves the PC, or has compared.                            *)
LEMMA NextBlock ==
    ASSUME BootTypeOK, Reading, hpc \in {"write", "verify"}, Len(hexBuf) = BlockCells,
           UNCHANGED <<image, at>>, hexBuf' = <<>>, hpc' \in {"write", "verify"}
    PROVE  Reading' /\ BlockFrom' = at /\ Aligned(at)
<1>1. BlockFrom' = at
  BY EmptyBlock, HostFacts DEF BlockFrom
<1>2. Aligned(at)
  BY AlignedBlock, EmptyBlock, Constant DEF Reading
<1>3. PICK e \in Nat : e = at
  BY HostFacts
<1>4. \A c \in e .. (e - 1) : Has(c)
  OBVIOUS
<1>5. OfFile(hexBuf, BlockFrom)'
  BY EmptyBlock DEF OfFile
<1>6. Aligned(e)
  BY <1>2, <1>3
<1>7. Reading'
  BY <1>1, <1>3, <1>4, <1>5, <1>6, ReadTo
<1> QED
  BY <1>1, <1>2, <1>7

(* Before a block goes out.                                                *)
LEMMA BlockLeaves ==
    ASSUME BootTypeOK, Reading, hpc \in {"write", "verify"}, BlockReady
    PROVE  /\ Aligned(BlockFrom) /\ \A c \in BlockFrom .. (at - 1) : Has(c)
           /\ OfFile(hexBuf, BlockFrom)
           /\ Len(hexBuf) < BlockCells => image \notin WholeBlocks /\ ~Has(at)
<1>1. hexBuf # <<>>
  BY EmptyBlock, Constant DEF BlockReady
<1>2. /\ Aligned(BlockFrom) /\ \A c \in BlockFrom .. (at - 1) : Has(c)
      /\ OfFile(hexBuf, BlockFrom)
  BY <1>1 DEF Reading
<1> QED
  BY <1>2, ShortBlock

LEMMA WriteBlockReading ==
    ASSUME BootTypeOK, Reading, WriteBlock
    PROVE  Reading'
<1>1. /\ hpc = "write" /\ BlockReady /\ hexBuf' = <<>> /\ UNCHANGED <<image, at>>
      /\ hpc' = IF Len(hexBuf) < BlockCells THEN "complete" ELSE "write"
  BY DEF WriteBlock, Options
<1>2. CASE Len(hexBuf) < BlockCells
  <2>1. image \notin WholeBlocks /\ ~Has(at)
    BY <1>1, <1>2, BlockLeaves
  <2>2. ~Has(at)'
    BY <1>1, <2>1 DEF Has
  <2> QED
    BY <1>1, <1>2, <2>1, <2>2 DEF Reading
<1>3. CASE ~(Len(hexBuf) < BlockCells)
  <2>1. Len(hexBuf) = BlockCells
    BY <1>3, HostFacts, Constant
  <2> QED
    BY <1>1, <2>1, NextBlock
<1> QED
  BY <1>2, <1>3

(* A reply that has been waited for shows the flash.                       *)
LEMMA VerifiedBlock ==
    ASSUME BootTypeOK, ShortBlocksShow, InStep, Reading, Looking, BlockVerified, hpc' = "verify"
    PROVE  /\ Len(hexBuf) = BlockCells /\ \A c \in BlockFrom .. (at - 1) : flash[c] = image[c]
           /\ outBusy /\ BootState = "idle" /\ inBusy
<1>1. /\ hpc = "verify" /\ attached /\ waiting /\ inBusy
      /\ RightJustified(Len(hexBuf)) = hexBuf
  BY DEF BlockVerified, Fetch
<1>2. BlockReady /\ toPc = Block(BlockFrom, Len(hexBuf))
  BY <1>1 DEF Looking
<1>3. outBusy /\ BootState = "idle"
  BY <1>1 DEF InStep, Answering
<1>4. /\ Aligned(BlockFrom) /\ \A c \in BlockFrom .. (at - 1) : Has(c)
      /\ OfFile(hexBuf, BlockFrom)
  BY <1>1, <1>2, BlockLeaves
<1> QED
  BY <1>1, <1>2, <1>3, <1>4, Compares

LEMMA SessionReading ==
    ASSUME BootTypeOK, ShortBlocksShow, InStep, Reading, Looking, SessionStep
    PROVE  Reading'
<1>1. CASE Query \/ Erase \/ AskBlock \/ ResetBoard
  BY <1>1 DEF Query, Erase, AskBlock, ResetBoard, Reading, Options, BlockFrom, OfFile, Aligned,
     SectionStart, Has
<1>2. CASE QueryAnswered
  <2>1. CASE hpc = "query"
    BY <1>2, <2>1 DEF QueryAnswered, Reading
  <2>2. CASE hpc = "erased"
    BY <1>2, <2>2, StartReading DEF QueryAnswered, Reading, Options
  <2> QED
    BY <1>2, <2>1, <2>2 DEF QueryAnswered
<1>3. CASE SectionComplete
  BY <1>3, HostFacts, EmptyBlock DEF SectionComplete, Reading, Options, BlockFrom, OfFile, Has
<1>4. CASE WriteEnds
  BY <1>4, StartReading DEF WriteEnds, PassOver, Finish, Reading, Options
<1>5. CASE BlockVerified
  <2>1. /\ hpc = "verify" /\ hpc' \in {"verify", "off"} /\ hexBuf' = <<>>
        /\ UNCHANGED <<image, at>>
    BY <1>5 DEF BlockVerified, Options
  <2>2. CASE hpc' = "verify"
    BY <1>5, <2>1, <2>2, VerifiedBlock, NextBlock
  <2>3. CASE hpc' = "off"
    BY <2>3 DEF Reading
  <2> QED
    BY <2>1, <2>2, <2>3
<1>6. CASE VerifyEnds
  BY <1>6 DEF VerifyEnds, Finish, Reading
<1>7. CASE LineFails
  BY <1>7 DEF LineFails, Reading
<1> QED
  BY <1>1, <1>2, <1>3, <1>4, <1>5, <1>6, <1>7, ReadWordReading, NothingHereReading,
     WriteBlockReading DEF SessionStep

(* Where the host does not move, or starts again.                          *)
LEMMA SameReading ==
    ASSUME Reading, UNCHANGED <<hpc, at, hexBuf, image>>
    PROVE  Reading'
  BY DEF Reading, BlockFrom, OfFile, Aligned, SectionStart, Has
-----------------------------------------------------------------------------
(* The words on their way when all sections are whole: full blocks of the  *)
(* file.  The loader is in one of three conditions.  Clean: the buffer is  *)
(* empty before each block, and the flash holds nothing but the file.      *)
(* Untouched: words a killed session left in the buffer are still there,   *)
(* and the flash is still erased.  Touched: those words have gone into the *)
(* flash with the first block, so that words of each block are left over;  *)
(* the last of them is never programmed, and the file not complete.        *)
Pure  == \A c \in Cells : flash[c] \in {Erased, image[c]}
Ahead == \A c \in Cells : c >= FromBuf => flash[c] = Erased

Clean ==
    /\ Pure /\ Ahead /\ OfFile(buffer, ProgrammedPointer - Len(buffer))
    /\ Doing("program") => IF flushing THEN dealt = BlockCells
                           ELSE Len(buffer) = dealt \/ (buffer = <<>> /\ dealt = BlockCells)
    /\ ~Doing("program") => buffer = <<>>

Untouched == buffer # <<>> /\ ~flushing /\ (Doing("program") => dealt = 0) /\ AllErased

Touched ==
    /\ Ahead
    /\ Doing("program") =>
          /\ IF flushing THEN 0 < dealt /\ dealt < BlockCells
             ELSE Len(buffer) # dealt /\ ~(buffer = <<>> /\ dealt = BlockCells)
          /\ dealt = 0 => Has(ProgrammedPointer - 1)
    /\ ~Doing("program") => buffer # <<>> /\ Has(ProgrammedPointer - 1)

WholeBlock(p, next) ==
    /\ Len(p.Data) = BlockCells /\ OfFile(p.Data, p.Address)
    /\ p.Address + BlockCells <= next
    /\ \A c \in p.Address .. (p.Address + BlockCells - 1) : Has(c)

Wholly == attached /\ hpc \in {"write", "verify"} /\ image \in WholeBlocks

Queue ==
    /\ ~Coming("complete") /\ ~Doing("complete")
    /\ Coming("program") => WholeBlock(fromPcBuffer, FromHost)
    /\ Doing("program") => WholeBlock(fromPc, FromOut)

Words == Wholly => Queue /\ (Clean \/ Untouched \/ Touched)
-----------------------------------------------------------------------------
LEMMA SameBlock ==
    ASSUME UNCHANGED image
    PROVE  \A p, n : WholeBlock(p, n)' <=> WholeBlock(p, n)
  BY DEF WholeBlock, OfFile, Has

(* Nothing changes but where the host is.                                  *)
LEMMA WordsKept ==
    ASSUME BootTypeOK, Words, Wholly,
           UNCHANGED <<flash, buffer, ProgrammedPointer, dealt, flushing, fromPc, image>>,
           Doing("program")' <=> Doing("program"), ~Doing("complete")',
           Coming("program")' <=> Coming("program"), ~Coming("complete")',
           Coming("program") => fromPcBuffer' = fromPcBuffer,
           FromHost' \in Nat, FromHost <= FromHost'
    PROVE  Words'
<1>0. Queue /\ (Clean \/ Untouched \/ Touched)
  BY DEF Words
<1>1. FromOut <= FromOut' /\ FromOut' \in Nat
  BY Numbers, Places DEF FromOut
<1>2. FromPc <= FromPc' /\ FromPc' \in Nat
  <2>1. FromPc \in Nat /\ FromOut \in Nat /\ fromPc.Address \in Nat /\ dealt \in Nat
    BY Numbers, Places
  <2> QED
    BY <1>1, <2>1 DEF FromPc
<1>3. FromBuf <= FromBuf' /\ FromBuf' \in Int
  <2>1. FromPc \in Nat /\ ProgrammedPointer \in Nat /\ Len(buffer) \in Nat
    BY Numbers, Places
  <2> QED
    BY <1>2, <2>1 DEF FromBuf
<1>4. Ahead => Ahead'
  <2>1. \A c \in Cells : c >= FromBuf' => c >= FromBuf
    BY <1>3, Places, Constant
  <2> QED
    BY <2>1 DEF Ahead
<1>5. Clean => Clean'
  BY <1>4 DEF Clean, Pure, OfFile
<1>6. Untouched => Untouched'
  BY DEF Untouched, AllErased
<1>7. Touched => Touched'
  BY <1>4 DEF Touched, Has
<1>8. Coming("program")' => WholeBlock(fromPcBuffer, FromHost)'
  <2> SUFFICES ASSUME Coming("program") PROVE WholeBlock(fromPcBuffer, FromHost)'
    OBVIOUS
  <2>1. fromPcBuffer' = fromPcBuffer /\ WholeBlock(fromPcBuffer, FromHost)
    BY <1>0 DEF Queue
  <2>2. fromPcBuffer.Address + BlockCells <= FromHost'
    <3>1. PICK a \in Nat, n \in Nat, b \in Nat, d \in Nat :
             /\ a = fromPcBuffer.Address /\ n = BlockCells /\ b = FromHost /\ d = FromHost'
             /\ b <= d
      BY Numbers, Places, Constant
    <3>2. a + n <= b
      BY <2>1, <3>1 DEF WholeBlock
    <3>3. a + n <= d
      BY <3>1, <3>2
    <3> QED
      BY <3>1, <3>3
  <2>3. OfFile(fromPcBuffer.Data, fromPcBuffer.Address)'
    BY <2>1 DEF WholeBlock, OfFile
  <2>4. \A c \in fromPcBuffer.Address .. (fromPcBuffer.Address + BlockCells - 1) : Has(c)'
    BY <2>1 DEF WholeBlock, Has
  <2> QED
    BY <2>1, <2>2, <2>3, <2>4 DEF WholeBlock
<1>9. Doing("program")' => WholeBlock(fromPc, FromOut)'
  <2> SUFFICES ASSUME Doing("program") PROVE WholeBlock(fromPc, FromOut)'
    OBVIOUS
  <2>1. fromPc' = fromPc /\ WholeBlock(fromPc, FromOut)
    BY <1>0 DEF Queue
  <2>2. fromPc.Address + BlockCells <= FromOut'
    <3>1. PICK a \in Nat, n \in Nat, b \in Nat, d \in Nat :
             /\ a = fromPc.Address /\ n = BlockCells /\ b = FromOut /\ d = FromOut'
             /\ b <= d
      BY <1>1, Numbers, Places, Constant
    <3>2. a + n <= b
      BY <2>1, <3>1 DEF WholeBlock
    <3>3. a + n <= d
      BY <3>1, <3>2
    <3> QED
      BY <3>1, <3>3
  <2>3. OfFile(fromPc.Data, fromPc.Address)'
    BY <2>1 DEF WholeBlock, OfFile
  <2>4. \A c \in fromPc.Address .. (fromPc.Address + BlockCells - 1) : Has(c)'
    BY <2>1 DEF WholeBlock, Has
  <2> QED
    BY <2>1, <2>2, <2>3, <2>4 DEF WholeBlock
<1> QED
  BY <1>0, <1>5, <1>6, <1>7, <1>8, <1>9 DEF Words, Queue

(* The steps of the board.                                                 *)
LEMMA ReceiveWords ==
    ASSUME BootTypeOK, InStep, Words, Wholly, Receive, UNCHANGED host
    PROVE  Words'
<1>0. Queue /\ (Clean \/ Untouched \/ Touched)
  BY DEF Words
<1>1. /\ BootState = "idle" /\ BootState' = "notidle" /\ ~outBusy
      /\ outBusy' /\ fromPc' = fromPcBuffer /\ dealt' = 0
      /\ UNCHANGED <<fromPcBuffer, flushing, ProgrammedPointer, buffer, flash>>
      /\ UNCHANGED <<hpc, at, hexBuf, attached, image>>
  BY DEF Receive, host
<1>2. ~flushing /\ ~Doing("program")
  BY <1>1 DEF InStep, Working, Doing
<1>3. Doing("program")' <=> Coming("program")
  BY <1>1 DEF Doing, Coming
<1>4. FromHost' = FromHost /\ FromOut' = FromHost
  BY <1>1 DEF FromHost, FromOut, Coming, Size
<1>5. FromPc = FromOut /\ FromPc' = FromPc
  BY <1>1, <1>2, <1>3, <1>4, Numbers DEF FromPc, FromOut
<1>6. FromBuf' = FromBuf
  BY <1>1, <1>5 DEF FromBuf
<1>7. Queue'
  BY <1>0, <1>1, <1>3, <1>4, SameBlock DEF Queue, Doing, Coming, WholeBlock, OfFile, Has
<1>8. Ahead => Ahead'
  BY <1>1, <1>6 DEF Ahead
<1>9. Clean => Clean'
  BY <1>1, <1>2, <1>8, EmptyBlock DEF Clean, Pure, OfFile
<1>10. Untouched => Untouched'
  BY <1>1 DEF Untouched, AllErased
<1>11. Touched => Touched'
  <2> SUFFICES ASSUME Touched PROVE Touched'
    OBVIOUS
  <2>1. buffer # <<>> /\ Has(ProgrammedPointer - 1)
    BY <1>2 DEF Touched
  <2>2. Len(buffer) # 0
    BY <2>1, EmptyBlock, BlockIsSeq DEF BootTypeOK, BoardTypeOK
  <2>3. Has(ProgrammedPointer - 1)'
    BY <1>1, <2>1 DEF Has
  <2>4. Ahead'
    BY <1>8 DEF Touched
  <2> QED
    BY <1>1, <1>2, <2>1, <2>2, <2>3, <2>4 DEF Touched
<1> QED
  BY <1>0, <1>7, <1>9, <1>10, <1>11 DEF Words

LEMMA GetDataWords ==
    ASSUME BootTypeOK, InStep, Words, Wholly, GetData, UNCHANGED host
    PROVE  Words'
<1>0. Queue
  BY DEF Words
<1>1. /\ BootState = "notidle" /\ fromPc.Command = "get" /\ BootState' = "idle"
      /\ UNCHANGED <<outBusy, fromPcBuffer, fromPc, dealt, flushing, ProgrammedPointer, buffer, flash>>
      /\ UNCHANGED <<hpc, at, hexBuf, attached, image>>
  BY DEF GetData, Reply, At, host
<1>2. FromHost' = FromHost
  BY <1>1 DEF FromHost, Size
<1>3. ~Coming("complete")' /\ (Coming("program")' <=> Coming("program"))
  BY <1>0, <1>1 DEF Coming, Queue
<1>4. ~Doing("complete")' /\ (Doing("program")' <=> Doing("program"))
  BY <1>1 DEF Doing
<1> QED
  BY <1>1, <1>2, <1>3, <1>4, Places, WordsKept

LEMMA ProgramDoneWords ==
    ASSUME BootTypeOK, InStep, Words, Wholly, ProgramDone, UNCHANGED host
    PROVE  Words'
<1>0. Queue /\ (Clean \/ Untouched \/ Touched)
  BY DEF Words
<1>1. /\ Doing("program") /\ BootState' = "idle" /\ ~flushing /\ ProgrammedPointer' = Pointer
      /\ ~Contiguous \/ dealt = Len(fromPc.Data)
      /\ UNCHANGED <<outBusy, fromPcBuffer, fromPc, dealt, flushing, buffer, flash>>
      /\ UNCHANGED <<hpc, at, hexBuf, attached, image>>
  BY DEF ProgramDone, Ready, At, usb, host, Doing
<1>2. WholeBlock(fromPc, FromOut)
  BY <1>0, <1>1 DEF Queue
<1>3. /\ fromPc.Address \in Nat /\ dealt \in Nat /\ dealt <= BlockCells /\ BlockCells \in Nat
      /\ BlockCells > 0
      /\ Len(buffer) \in Nat /\ FromOut \in Nat /\ fromPc.Address + BlockCells <= FromOut
      /\ ProgrammedPointer \in Nat /\ Len(fromPc.Data) = BlockCells
  <2>1. dealt <= Len(fromPc.Data)
    BY <1>1 DEF InStep, Working
  <2> QED
    BY <1>2, <2>1, Numbers, Places, Constant DEF WholeBlock
<1>4. dealt > 0 => Contiguous
  <2>1. SUFFICES ASSUME dealt > 0 PROVE Contiguous
    OBVIOUS
  <2>2. ProgrammedPointer = fromPc.Address + dealt
    BY <1>1, <2>1 DEF InStep, Working
  <2>3. fromPc.Address \in Cells /\ fromPc.Address + Len(fromPc.Data) <= Size
    BY DEF BootTypeOK, BoardTypeOK, Packets, Size
  <2>4. ProgrammedPointer # InvalidAddress
    BY <1>3, <2>2, <2>3, SizePositive DEF InvalidAddress, Size
  <2> QED
    BY <2>2, <2>4 DEF Contiguous, Pointer
<1>5. buffer # <<>> => ProgrammedPointer' = ProgrammedPointer
  BY <1>1 DEF Pointer, BootTypeOK, BoardTypeOK
<1>6. FromHost' = FromHost /\ FromOut' = FromOut /\ FromPc' = FromOut /\ FromPc <= FromOut
  <2>1. FromHost' = FromHost
    BY <1>1 DEF FromHost, Size
  <2>2. FromOut' = FromOut
    BY <1>1, <2>1 DEF FromOut, Coming
  <2>3. FromPc' = FromOut
    BY <1>1, <2>2 DEF FromPc, Doing
  <2>4. FromPc = fromPc.Address + dealt
    BY <1>1 DEF FromPc
  <2> QED
    BY <1>3, <2>1, <2>2, <2>3, <2>4
<1>7. FromBuf <= FromBuf' /\ FromBuf' \in Int
  <2>1. CASE buffer = <<>>
    BY <1>1, <1>6, <2>1, Places DEF FromBuf
  <2>2. CASE buffer # <<>>
    BY <1>1, <1>5, <2>2, Numbers DEF FromBuf
  <2> QED
    BY <2>1, <2>2
<1>8. Ahead => Ahead'
  <2>1. \A c \in Cells : c >= FromBuf' => c >= FromBuf
    BY <1>7, Places, Constant
  <2> QED
    BY <1>1, <2>1 DEF Ahead
<1>9. Queue'
  BY <1>0, <1>1, <1>6, SameBlock DEF Queue, Doing, Coming, WholeBlock, OfFile, Has
<1>10. Len(buffer) # BlockCells
  BY <1>1 DEF BootTypeOK, BoardTypeOK
<1>11. Clean => Clean'
  <2> SUFFICES ASSUME Clean PROVE Clean'
    OBVIOUS
  <2>1. Len(buffer) = dealt \/ (buffer = <<>> /\ dealt = BlockCells)
    BY <1>1 DEF Clean
  <2>2. buffer = <<>>
    <3>1. SUFFICES ASSUME buffer # <<>> PROVE FALSE
      OBVIOUS
    <3>2. Len(buffer) = dealt /\ dealt > 0
      BY <1>3, <2>1, <3>1, BlockIsSeq DEF BootTypeOK, BoardTypeOK
    <3> QED
      BY <1>1, <1>3, <1>4, <1>10, <3>2
  <2>3. OfFile(buffer, ProgrammedPointer - Len(buffer))'
    BY <1>1, <2>2, EmptyBlock DEF OfFile
  <2>4. Pure' /\ Ahead'
    BY <1>1, <1>8 DEF Clean, Pure
  <2>5. ~Doing("program")'
    BY <1>1 DEF Doing
  <2> QED
    BY <1>1, <2>2, <2>3, <2>4, <2>5 DEF Clean
<1>12. Untouched => Untouched'
  BY <1>1 DEF Untouched, AllErased, Doing
<1>13. Touched => Touched'
  <2> SUFFICES ASSUME Touched PROVE Touched'
    OBVIOUS
  <2>1. Len(buffer) # dealt /\ ~(buffer = <<>> /\ dealt = BlockCells)
    BY <1>1 DEF Touched
  <2>2. buffer # <<>>
    <3>1. SUFFICES ASSUME buffer = <<>> PROVE FALSE
      OBVIOUS
    <3>2. dealt > 0 /\ dealt # BlockCells
      BY <1>3, <2>1, <3>1, EmptyBlock
    <3> QED
      BY <1>1, <1>3, <1>4, <3>2
  <2>3. Has(ProgrammedPointer - 1)
    <3>1. CASE dealt = 0
      BY <1>1, <3>1 DEF Touched
    <3>2. CASE dealt > 0
      <4>1. ProgrammedPointer = fromPc.Address + dealt
        BY <1>1, <3>2 DEF InStep, Working
      <4>2. ProgrammedPointer - 1 \in fromPc.Address .. (fromPc.Address + BlockCells - 1)
        <5>1. PICK a \in Nat, d \in Nat, n \in Nat :
                 a = fromPc.Address /\ d = dealt /\ n = BlockCells /\ 0 < d /\ d <= n
          BY <1>3, <3>2
        <5>2. a + d - 1 \in a .. (a + n - 1)
          BY <5>1
        <5> QED
          BY <4>1, <5>1, <5>2
      <4>3. \A c \in fromPc.Address .. (fromPc.Address + BlockCells - 1) : Has(c)
        BY <1>2 DEF WholeBlock
      <4> QED
        BY <4>2, <4>3
    <3> QED
      BY <1>3, <3>1, <3>2
  <2>4. Has(ProgrammedPointer - 1)'
    BY <1>1, <1>5, <2>2, <2>3 DEF Has
  <2>5. ~Doing("program")' /\ Ahead'
    BY <1>1, <1>8 DEF Doing, Touched
  <2> QED
    BY <1>1, <2>2, <2>4, <2>5 DEF Touched
<1> QED
  BY <1>0, <1>9, <1>11, <1>12, <1>13 DEF Words

LEMMA FlushedWords ==
    ASSUME BootTypeOK, InStep, Words, Wholly, Flushed, UNCHANGED host
    PROVE  Words'
<1>0. Queue /\ (Clean \/ Untouched \/ Touched)
  BY DEF Words
<1>1. flushing /\ buffer = <<>> /\ flushing' = FALSE
  BY DEF Flushed
<1>2. Doing("program")
  BY <1>0, <1>1 DEF InStep, Working, Queue
<1>3. /\ UNCHANGED <<ProgrammedPointer, BootState, fromPc, dealt, outBusy, fromPcBuffer, buffer, flash>>
      /\ UNCHANGED <<hpc, at, hexBuf, attached, image>>
  BY <1>2 DEF Flushed, Doing, usb, host
<1>4. FromHost' = FromHost /\ FromOut' = FromOut /\ FromPc' = FromPc /\ FromBuf' = FromBuf
  BY <1>3 DEF FromHost, FromOut, FromPc, FromBuf, Coming, Doing, Size
<1>5. Queue'
  BY <1>0, <1>3, <1>4, SameBlock DEF Queue, Doing, Coming, WholeBlock, OfFile, Has
<1>6. Ahead => Ahead'
  BY <1>3, <1>4 DEF Ahead
<1>7. Doing("program")'
  BY <1>2, <1>3 DEF Doing
<1>8. Clean => Clean'
  BY <1>1, <1>2, <1>3, <1>6, <1>7 DEF Clean, Pure, OfFile
<1>9. ~Untouched
  BY <1>1 DEF Untouched
<1>10. Touched => Touched'
  <2> SUFFICES ASSUME Touched PROVE Touched'
    OBVIOUS
  <2>1. 0 < dealt /\ dealt < BlockCells /\ Ahead
    BY <1>1, <1>2 DEF Touched
  <2>2. dealt \in Nat /\ BlockCells \in Nat
    BY Numbers, Constant
  <2>3. dealt' # 0 /\ dealt' # BlockCells /\ Len(buffer') = 0
    BY <1>1, <1>3, <2>1, <2>2, EmptyBlock
  <2> QED
    BY <1>1, <1>6, <1>7, <2>1, <2>3 DEF Touched
<1> QED
  BY <1>0, <1>5, <1>8, <1>9, <1>10 DEF Words

(* A word that is taken over lies where the loader was.                    *)
LEMMA TakesInPlace == ASSUME BootTypeOK, TakeWord PROVE FromBuf' = FromBuf
<1>1. /\ Doing("program") /\ Len(buffer') = Len(buffer) + 1 /\ buffer' # <<>>
      /\ ProgrammedPointer' = fromPc.Address + dealt + 1
      /\ buffer # <<>> => ProgrammedPointer = fromPc.Address + dealt
  BY TakesWord
<1>2. PICK p \in Nat, n \in Nat : p = fromPc.Address + dealt /\ n = Len(buffer)
  BY Numbers
<1>3. FromBuf = p - n
  <2>1. CASE buffer # <<>>
    BY <1>1, <1>2, <2>1 DEF FromBuf
  <2>2. CASE buffer = <<>>
    <3>1. FromBuf = p /\ n = 0
      BY <1>1, <1>2, <2>2, EmptyBlock DEF FromBuf, FromPc
    <3> QED
      BY <3>1
  <2> QED
    BY <2>1, <2>2
<1>4. FromBuf' = (p + 1) - (n + 1)
  BY <1>1, <1>2 DEF FromBuf
<1> QED
  BY <1>2, <1>3, <1>4

LEMMA TakeWordWords ==
    ASSUME BootTypeOK, InStep, Words, Wholly, TakeWord, UNCHANGED host
    PROVE  Words'
<1>0. Queue /\ (Clean \/ Untouched \/ Touched)
  BY DEF Words
<1>1. /\ Doing("program") /\ ~flushing /\ dealt < Len(fromPc.Data) /\ dealt' = dealt + 1
      /\ Len(buffer') = Len(buffer) + 1 /\ buffer' # <<>>
      /\ ProgrammedPointer' = fromPc.Address + dealt + 1
      /\ buffer # <<>> => ProgrammedPointer = fromPc.Address + dealt
      /\ outBusy' = outBusy /\ fromPcBuffer' = fromPcBuffer
      /\ BootState' = BootState /\ fromPc' = fromPc /\ flash' = flash
      /\ UNCHANGED <<hpc, at, hexBuf, attached, image>>
  BY TakesWord DEF host
<1>2. flushing' <=> Len(buffer') = BlockCells
  BY DEF TakeWord
<1>3. WholeBlock(fromPc, FromOut)
  BY <1>0, <1>1 DEF Queue
<1>4. /\ fromPc.Address \in Nat /\ dealt \in Nat /\ Len(buffer) \in Nat /\ FromOut \in Nat
      /\ BlockCells \in Nat /\ dealt < BlockCells /\ ProgrammedPointer \in Nat
      /\ (buffer = <<>> => Len(buffer) = 0) /\ (buffer # <<>> => Len(buffer) > 0)
  <2>1. dealt < BlockCells
    BY <1>1, <1>3 DEF WholeBlock
  <2>2. (buffer = <<>> => Len(buffer) = 0) /\ (buffer # <<>> => Len(buffer) > 0)
    <3>1. buffer \in Seq(Value)
      BY BlockIsSeq DEF BootTypeOK, BoardTypeOK
    <3> QED
      BY <3>1
  <2> QED
    BY <2>1, <2>2, Numbers, Places, Constant
<1>5. FromHost' = FromHost /\ FromOut' = FromOut
  <2>1. FromHost' = FromHost
    BY <1>1 DEF FromHost, Size
  <2>2. Coming("program")' <=> Coming("program")
    BY <1>1 DEF Coming
  <2> QED
    BY <1>1, <2>1, <2>2 DEF FromOut
<1>6. FromBuf' = FromBuf
  BY TakesInPlace
<1>7. Queue' /\ Doing("program")'
  BY <1>0, <1>1, <1>5, SameBlock DEF Queue, Doing, Coming, WholeBlock, OfFile, Has
<1>8. Ahead => Ahead'
  BY <1>1, <1>6 DEF Ahead
<1>9. dealt' # 0 /\ dealt' <= BlockCells /\ dealt' \in Nat /\ 0 < dealt'
  BY <1>1, <1>4
<1>10. Clean => Clean'
  <2> SUFFICES ASSUME Clean PROVE Clean'
    OBVIOUS
  <2>1. Len(buffer) = dealt
    BY <1>1, <1>4 DEF Clean
  <2>2. Len(buffer') = dealt'
    BY <1>1, <2>1
  <2>3. OfFile(buffer, ProgrammedPointer - Len(buffer)) /\ OfFile(fromPc.Data, fromPc.Address)
    BY <1>3 DEF Clean, WholeBlock
  <2>4. OfFile(buffer, ProgrammedPointer - Len(buffer))'
    <3> SUFFICES ASSUME NEW k \in 1 .. Len(buffer')
                 PROVE  buffer'[k] = image[ProgrammedPointer' - Len(buffer') + k - 1]
      BY <1>1 DEF OfFile
    <3>1. CASE k = Len(buffer) + 1
      <4>1. buffer'[k] = fromPc.Data[dealt + 1]
        BY <3>1, TakesItsWord
      <4>2. dealt + 1 \in 1 .. Len(fromPc.Data)
        BY <1>1, <1>4, Numbers
      <4>3. fromPc.Data[dealt + 1] = image[fromPc.Address + (dealt + 1) - 1]
        BY <2>3, <4>2 DEF OfFile
      <4>4. ProgrammedPointer' - Len(buffer') + k - 1 = fromPc.Address + (dealt + 1) - 1
        <5>1. Len(buffer') = k /\ k \in Nat
          BY <1>1, <1>4, <3>1
        <5>2. \A a, d, n \in Nat : (a + d + 1) - n + n - 1 = a + (d + 1) - 1
          OBVIOUS
        <5>3. (fromPc.Address + dealt + 1) - k + k - 1 = fromPc.Address + (dealt + 1) - 1
          BY <1>4, <5>1, <5>2
        <5> QED
          BY <1>1, <5>1, <5>3
      <4> QED
        BY <4>1, <4>3, <4>4
    <3>2. CASE k \in 1 .. Len(buffer)
      <4>1. buffer'[k] = buffer[k] /\ buffer # <<>>
        BY <3>2, TakesItsWord, EmptyBlock
      <4>2. buffer[k] = image[ProgrammedPointer - Len(buffer) + k - 1]
        BY <3>2, <2>3 DEF OfFile
      <4>3. ProgrammedPointer' - Len(buffer') + k - 1 = ProgrammedPointer - Len(buffer) + k - 1
        BY <1>1, <1>4, <3>2, <4>1
      <4> QED
        BY <4>1, <4>2, <4>3
    <3> QED
      BY <1>1, <1>4, <3>1, <3>2
  <2>5. Pure' /\ Ahead'
    BY <1>1, <1>8 DEF Clean, Pure
  <2> QED
    BY <1>2, <1>7, <2>2, <2>4, <2>5 DEF Clean
<1>11. Untouched => Touched'
  <2> SUFFICES ASSUME Untouched PROVE Touched'
    OBVIOUS
  <2>1. Len(buffer) > 0 /\ dealt = 0
    BY <1>1, <1>4 DEF Untouched
  <2>2. Len(buffer') # dealt' /\ dealt' = 1 /\ (flushing' => dealt' < BlockCells)
    BY <1>1, <1>2, <1>4, <2>1
  <2>3. Ahead'
    BY <1>1 DEF Untouched, AllErased, Ahead
  <2> QED
    BY <1>1, <1>7, <1>9, <2>2, <2>3 DEF Touched
<1>12. Touched => Touched'
  <2> SUFFICES ASSUME Touched PROVE Touched'
    OBVIOUS
  <2>1. Len(buffer) # dealt
    BY <1>1 DEF Touched
  <2>2. Len(buffer') # dealt' /\ (flushing' => dealt' < BlockCells)
    BY <1>1, <1>2, <1>4, <2>1
  <2>3. Ahead'
    BY <1>8 DEF Touched
  <2> QED
    BY <1>1, <1>7, <1>9, <2>2, <2>3 DEF Touched
<1> QED
  BY <1>0, <1>7, <1>10, <1>11, <1>12 DEF Words

LEMMA WriteWordWords ==
    ASSUME BootTypeOK, InStep, Words, Wholly, WriteWord, UNCHANGED host
    PROVE  Words'
<1>0. Queue /\ (Clean \/ Untouched \/ Touched)
  BY DEF Words
<1>1. /\ flushing /\ buffer # <<>> /\ buffer' = Tail(buffer)
      /\ UNCHANGED <<outBusy, fromPcBuffer, BootState, fromPc, dealt, flushing, ProgrammedPointer>>
      /\ UNCHANGED <<hpc, at, hexBuf, attached, image>>
  BY DEF WriteWord, usb, host
<1>2. Doing("program") /\ ~Untouched
  BY <1>0, <1>1 DEF InStep, Working, Queue, Untouched
<1>3. 0 < dealt
  BY <1>0, <1>1, <1>2, Constant DEF Clean, Touched
<1>4. ProgrammedPointer = fromPc.Address + dealt
  BY <1>2, <1>3 DEF InStep, Working
<1>5. /\ Len(buffer') = Len(buffer) - 1 /\ Len(buffer) > 0 /\ Len(buffer) \in Nat
      /\ \A k \in 1 .. Len(buffer') : buffer'[k] = buffer[k + 1]
      /\ Head(buffer) = buffer[1] /\ Len(buffer') \in Nat
      /\ (buffer' = <<>> => Len(buffer') = 0) /\ ProgrammedPointer \in Nat
  <2>1. buffer \in Seq(Value) /\ Len(buffer) \in Nat /\ ProgrammedPointer \in Nat
    BY BlockIsSeq, Numbers DEF BootTypeOK, BoardTypeOK
  <2>2. /\ Len(buffer') = Len(buffer) - 1 /\ Len(buffer) > 0
        /\ \A k \in 1 .. Len(buffer') : buffer'[k] = buffer[k + 1]
        /\ Head(buffer) = buffer[1]
    BY <1>1, <2>1
  <2>3. buffer' = <<>> => Len(buffer') = 0
    BY EmptyBlock
  <2> QED
    BY <2>1, <2>2, <2>3
<1>6. FromBuf = ProgrammedPointer - Len(buffer) /\ FromBuf \in Cells
  <2>1. FromBuf = ProgrammedPointer - Len(buffer)
    BY <1>1 DEF FromBuf
  <2>2. /\ ProgrammedPointer \in 0 .. (Size + 1) /\ ProgrammedPointer # Size + 1
        /\ Len(buffer) <= ProgrammedPointer
    BY <1>1 DEF BootTypeOK, BoardTypeOK, Size, InvalidAddress
  <2>3. Cells = 0 .. (Size - 1) /\ Size \in Nat
    BY SizePositive DEF Cells, Size
  <2> QED
    BY <1>5, <2>1, <2>2, <2>3
<1>7. flash[FromBuf] = Erased
  BY <1>0, <1>2, <1>6, Constant DEF Clean, Touched, Ahead
<1>8. flash' = [flash EXCEPT ![FromBuf] = buffer[1]]
  <2>1. flash' = [flash EXCEPT ![FromBuf] = Programmed(flash[FromBuf], Head(buffer))]
    BY <1>6 DEF WriteWord
  <2> QED
    BY <1>5, <1>7, <2>1 DEF Programmed
<1>9. FromHost' = FromHost /\ FromOut' = FromOut /\ FromPc' = FromPc /\ FromPc = ProgrammedPointer
  BY <1>1, <1>2, <1>4 DEF FromHost, FromOut, FromPc, Coming, Doing, Size
<1>10. FromBuf' = FromBuf + 1
  <2>1. CASE buffer' = <<>>
    <3>1. FromBuf' = ProgrammedPointer
      BY <1>9, <2>1 DEF FromBuf
    <3>2. Len(buffer) = 1
      BY <1>5, <2>1
    <3> QED
      BY <1>5, <1>6, <3>1, <3>2
  <2>2. CASE buffer' # <<>>
    <3>1. FromBuf' = ProgrammedPointer - Len(buffer')
      BY <1>1, <2>2 DEF FromBuf
    <3> QED
      BY <1>5, <1>6, <3>1
  <2> QED
    BY <2>1, <2>2
<1>11. flash \in [Cells -> Value]
  BY DEF BootTypeOK, BoardTypeOK
<1>12. Ahead'
  <2> SUFFICES ASSUME NEW c \in Cells, c >= FromBuf' PROVE flash'[c] = Erased
    BY DEF Ahead
  <2>1. c >= FromBuf /\ c # FromBuf
    BY <1>6, <1>10, Constant
  <2>2. flash'[c] = flash[c]
    BY <1>8, <1>11, <2>1
  <2> QED
    BY <1>0, <1>2, <2>1, <2>2 DEF Clean, Touched, Ahead
<1>13. Queue' /\ Doing("program")'
  BY <1>0, <1>1, <1>2, <1>9, SameBlock DEF Queue, Doing, Coming, WholeBlock, OfFile, Has
<1>14. Clean => Clean'
  <2> SUFFICES ASSUME Clean PROVE Clean'
    OBVIOUS
  <2>1. OfFile(buffer, FromBuf) /\ Pure
    BY <1>6 DEF Clean
  <2>2. OfFile(buffer, ProgrammedPointer - Len(buffer))'
    <3> SUFFICES ASSUME NEW k \in 1 .. Len(buffer')
                 PROVE  buffer'[k] = image[ProgrammedPointer - Len(buffer') + k - 1]
      BY <1>1 DEF OfFile
    <3>1. buffer'[k] = buffer[k + 1] /\ k + 1 \in 1 .. Len(buffer)
      BY <1>5
    <3>2. buffer[k + 1] = image[FromBuf + (k + 1) - 1]
      BY <2>1, <3>1 DEF OfFile
    <3>3. FromBuf + (k + 1) - 1 = ProgrammedPointer - Len(buffer') + k - 1
      BY <1>5, <1>6
    <3> QED
      BY <3>1, <3>2, <3>3
  <2>3. buffer[1] = image[FromBuf]
    <3>1. 1 \in 1 .. Len(buffer) /\ FromBuf + 1 - 1 = FromBuf
      BY <1>5, <1>6, Constant
    <3> QED
      BY <2>1, <3>1 DEF OfFile
  <2>4. Pure'
    BY <1>1, <1>8, <1>11, <2>1, <2>3 DEF Pure
  <2>5. dealt' = BlockCells
    BY <1>1, <1>2 DEF Clean
  <2> QED
    BY <1>1, <1>12, <1>13, <2>2, <2>4, <2>5 DEF Clean
<1>15. Touched => Touched'
  BY <1>1, <1>2, <1>12, <1>13 DEF Touched, Has
<1> QED
  BY <1>0, <1>2, <1>13, <1>14, <1>15 DEF Words

LEMMA BoardWords ==
    ASSUME BootTypeOK, InStep, Words, BoardStep, UNCHANGED host
    PROVE  Words'
<1>1. CASE ~Wholly
  BY <1>1 DEF Words, Wholly, host
<1>2. CASE Wholly
  <2>1. Queue
    BY <1>2 DEF Words
  <2>3. BootState = "notidle" => fromPc.Command \in {"program", "get"}
    BY <1>2, <2>1 DEF Wholly, InStep, Working, Answering, InWork, Queue, Doing
  <2>4. ~QueryDevice /\ ~ErasePage /\ ~EraseDone /\ ~ProgramComplete
    BY <2>3 DEF QueryDevice, ErasePage, EraseDone, ProgramComplete, At
  <2> QED
    BY <1>2, <2>4, ReceiveWords, GetDataWords, TakeWordWords, ProgramDoneWords, WriteWordWords,
       FlushedWords DEF BoardStep
<1> QED
  BY <1>1, <1>2

(* The device does not change at all.                                      *)
LEMMA DeviceWords ==
    ASSUME BootTypeOK, Words, Wholly, UNCHANGED device, UNCHANGED image,
           FromHost' \in Nat, FromHost <= FromHost'
    PROVE  Words'
<1>1. /\ UNCHANGED <<flash, buffer, ProgrammedPointer, dealt, flushing, fromPc, image>>
      /\ UNCHANGED <<BootState, outBusy, fromPcBuffer>>
  BY DEF device
<1>2. Queue
  BY DEF Words
<1>3. /\ Doing("program")' <=> Doing("program")
      /\ ~Doing("complete")'
      /\ Coming("program")' <=> Coming("program")
      /\ ~Coming("complete")'
  BY <1>1, <1>2 DEF Doing, Coming, Queue
<1> QED
  BY <1>1, <1>3, WordsKept

LEMMA QueryAnsweredWords ==
    ASSUME BootTypeOK, InStep, Reading, QueryAnswered, hpc = "erased"
    PROVE  Words'
<1>1. /\ attached /\ waiting /\ inBusy
      /\ UNCHANGED <<flash, buffer, ProgrammedPointer, dealt, flushing, fromPc, BootState,
                     outBusy, fromPcBuffer>>
      /\ UNCHANGED <<image, at, hexBuf, attached>>
  BY DEF QueryAnswered, Fetch, work, Options
<1>2. outBusy /\ BootState = "idle" /\ AllErased
  BY <1>1 DEF InStep, Erasing
<1>3. ~flushing
  BY <1>2 DEF InStep, Working, Doing
<1>4. \A p : ~Coming(p)' /\ ~Doing(p)'
  BY <1>1, <1>2 DEF Coming, Doing
<1>5. flash' = flash /\ \A c \in Cells : flash[c] = Erased
  BY <1>1, <1>2 DEF AllErased
<1>6. CASE buffer = <<>>
  <2>1. buffer' = <<>> /\ ~Doing("program")'
    BY <1>1, <1>4, <1>6
  <2>2. OfFile(buffer, ProgrammedPointer - Len(buffer))'
    BY <2>1, EmptyBlock DEF OfFile
  <2>3. Pure' /\ Ahead'
    BY <1>5 DEF Pure, Ahead
  <2> QED
    BY <1>4, <2>1, <2>2, <2>3 DEF Words, Queue, Clean
<1>7. CASE buffer # <<>>
  <2>1. Untouched'
    BY <1>1, <1>3, <1>4, <1>5, <1>7 DEF Untouched, AllErased
  <2> QED
    BY <1>4, <2>1 DEF Words, Queue
<1> QED
  BY <1>6, <1>7

LEMMA WriteBlockWords ==
    ASSUME BootTypeOK, Reading, Words, Wholly, WriteBlock
    PROVE  Words'
<1>1. /\ hpc = "write" /\ BlockReady /\ hexBuf' = <<>> /\ outBusy /\ ~outBusy'
      /\ fromPcBuffer' = Packet("program", BlockFrom, hexBuf)
      /\ UNCHANGED <<flash, buffer, ProgrammedPointer, dealt, flushing, fromPc, BootState>>
      /\ UNCHANGED <<image, at, attached>>
      /\ hpc' = IF Len(hexBuf) < BlockCells THEN "complete" ELSE "write"
  BY DEF WriteBlock, HandOver, work, Options
<1>2. /\ \A c \in BlockFrom .. (at - 1) : Has(c)
      /\ OfFile(hexBuf, BlockFrom)
      /\ Len(hexBuf) = BlockCells
  BY <1>1, BlockLeaves, HostFacts, Constant DEF Wholly
<1>3. hpc' = "write" /\ Queue /\ (Clean \/ Untouched \/ Touched)
  BY <1>1, <1>2, Constant DEF Words
<1>4. /\ BlockFrom \in Nat /\ at \in Nat /\ BlockCells \in Nat /\ BlockFrom + BlockCells = at
      /\ Len(hexBuf') = 0
  BY <1>1, <1>2, HostFacts, Constant, EmptyBlock
<1>5. /\ fromPcBuffer'.Command = "program" /\ fromPcBuffer'.Address = BlockFrom
      /\ fromPcBuffer'.Data = hexBuf
  BY <1>1 DEF Packet
<1>6. FromHost = BlockFrom /\ FromHost' = at
  BY <1>1, <1>3, <1>4 DEF FromHost, BlockFrom, Wholly
<1>7. ~Coming("program") /\ ~Coming("complete") /\ ~Coming("complete")' /\ Coming("program")'
  BY <1>1, <1>5 DEF Coming
<1>8. \A p : Doing(p)' <=> Doing(p)
  BY <1>1 DEF Doing
<1>9. FromOut' = FromOut
  BY <1>5, <1>6, <1>7 DEF FromOut
<1>10. FromPc' = FromPc /\ FromBuf' = FromBuf
  BY <1>1, <1>8, <1>9 DEF FromPc, FromBuf
<1>11. WholeBlock(fromPcBuffer, FromHost)'
  <2>1. /\ Len(fromPcBuffer'.Data) = BlockCells /\ OfFile(fromPcBuffer'.Data, fromPcBuffer'.Address)
        /\ fromPcBuffer'.Address + BlockCells <= FromHost'
        /\ \A c \in fromPcBuffer'.Address .. (fromPcBuffer'.Address + BlockCells - 1) : Has(c)
    BY <1>2, <1>4, <1>5, <1>6
  <2> QED
    BY <1>1, <2>1 DEF WholeBlock, OfFile, Has
<1>12. Queue'
  BY <1>1, <1>3, <1>7, <1>8, <1>9, <1>11 DEF Queue, WholeBlock, OfFile, Has
<1>13. Ahead => Ahead'
  BY <1>1, <1>10 DEF Ahead
<1>14. Clean => Clean'
  BY <1>1, <1>8, <1>13 DEF Clean, Pure, OfFile
<1>15. Untouched => Untouched'
  BY <1>1, <1>8 DEF Untouched, AllErased
<1>16. Touched => Touched'
  BY <1>1, <1>8, <1>13 DEF Touched, Has
<1> QED
  BY <1>3, <1>12, <1>14, <1>15, <1>16 DEF Words

LEMMA AskBlockWords ==
    ASSUME BootTypeOK, Words, Wholly, AskBlock
    PROVE  Words'
<1>1. /\ hpc = "verify" /\ hpc' = hpc /\ outBusy /\ ~outBusy' /\ fromPcBuffer'.Command = "get"
      /\ UNCHANGED <<flash, buffer, ProgrammedPointer, dealt, flushing, fromPc, BootState>>
      /\ UNCHANGED image
  BY DEF AskBlock, HandOver, Packet, work, Options
<1>2. FromHost = Size /\ FromHost' = Size
  BY <1>1 DEF FromHost, Size
<1>3. Queue
  BY DEF Words
<1>4. /\ Doing("program")' <=> Doing("program")
      /\ ~Doing("complete")'
      /\ Coming("program")' <=> Coming("program")
      /\ ~Coming("complete")' /\ ~Coming("program")
  BY <1>1, <1>3 DEF Doing, Coming, Queue
<1> QED
  BY <1>1, <1>2, <1>4, Places, WordsKept

LEMMA BlockVerifiedWords ==
    ASSUME BootTypeOK, Words, Wholly, BlockVerified
    PROVE  Words'
<1>1. /\ hpc = "verify" /\ hpc' # "write"
      /\ UNCHANGED <<flash, buffer, ProgrammedPointer, dealt, flushing, fromPc, BootState,
                     outBusy, fromPcBuffer>>
      /\ UNCHANGED image
  BY DEF BlockVerified, Fetch, work, Options
<1>2. FromHost = Size /\ (hpc' = "verify" => FromHost' = Size)
  BY <1>1 DEF FromHost, Size
<1>3. Queue
  BY DEF Words
<1>4. /\ Doing("program")' <=> Doing("program")
      /\ ~Doing("complete")'
      /\ Coming("program")' <=> Coming("program")
      /\ ~Coming("complete")'
  BY <1>1, <1>3 DEF Doing, Coming, Queue
<1>5. CASE hpc' = "verify"
  BY <1>1, <1>2, <1>4, <1>5, Places, WordsKept
<1>6. CASE hpc' # "verify"
  BY <1>1, <1>6 DEF Words, Wholly
<1> QED
  BY <1>5, <1>6

LEMMA SessionWords ==
    ASSUME BootTypeOK, InStep, Reading, Words, SessionStep
    PROVE  Words'
<1>1. CASE Query \/ Erase \/ VerifyEnds \/ ResetBoard \/ LineFails
  BY <1>1 DEF Query, Erase, VerifyEnds, Finish, ResetBoard, LineFails, Words, Wholly
<1>2. CASE QueryAnswered
  BY <1>2, QueryAnsweredWords DEF QueryAnswered, Words, Wholly
<1>3. CASE SectionComplete
  BY <1>3 DEF SectionComplete, Reading, Words, Wholly, Options
<1>4. CASE ~Wholly /\ (ReadWord \/ NothingHere \/ WriteBlock \/ WriteEnds \/ AskBlock \/ BlockVerified)
  BY <1>4 DEF ReadWord, NothingHere, WriteBlock, WriteEnds, AskBlock, BlockVerified, Words,
     Wholly, Options
<1>5. CASE Wholly /\ ReadWord
  <2>1. UNCHANGED <<device, hpc, attached, image>> /\ BlockFrom' = BlockFrom
    BY <1>5, ReadWordReading DEF ReadWord, Options
  <2>2. FromHost' = FromHost
    BY <2>1 DEF FromHost, BlockFrom, Size
  <2> QED
    BY <1>5, <2>1, <2>2, Places, DeviceWords
<1>6. CASE Wholly /\ NothingHere
  <2>1. /\ UNCHANGED <<device, hpc, attached, image>> /\ BlockFrom = at /\ BlockFrom' = at + 1
        /\ at \in Nat /\ Size \in Nat
    BY <1>6, NothingHereReading, HostFacts DEF NothingHere, Options
  <2>2. FromHost' \in Nat /\ FromHost <= FromHost'
    BY <2>1 DEF FromHost, BlockFrom, Size
  <2> QED
    BY <1>6, <2>1, <2>2, DeviceWords
<1>7. CASE Wholly /\ WriteBlock
  BY <1>7, WriteBlockWords
<1>8. CASE Wholly /\ WriteEnds
  <2>1. /\ UNCHANGED <<device, image>> /\ hpc = "write" /\ hpc' # "write" /\ hpc' # "complete"
        /\ hexBuf = <<>> /\ at = Size
    BY <1>8 DEF WriteEnds, PassOver, Finish, Options, Size
  <2>2. FromHost' = Size /\ FromHost = Size
    BY <2>1, HostNumbers, EmptyBlock DEF FromHost, Size
  <2> QED
    BY <1>8, <2>1, <2>2, Places, DeviceWords
<1>9. CASE Wholly /\ (AskBlock \/ BlockVerified)
  BY <1>9, AskBlockWords, BlockVerifiedWords
<1> QED
  BY <1>1, <1>2, <1>3, <1>4, <1>5, <1>6, <1>7, <1>8, <1>9 DEF SessionStep
-----------------------------------------------------------------------------
(* A board that is not attached has nothing to do.                         *)
Away == ~attached => outBusy /\ BootState = "idle"

(* The PC has read the file to its end; a board that was taken away then   *)
(* has it all.                                                             *)
NothingLeft == \A c \in Cells : hpc = "write" \/ c >= BlockFrom => ~Has(c)

Left == ~attached /\ hpc \in {"write", "verify"} /\ image \in WholeBlocks /\ NothingLeft =>
           flash = image

(* The verify pass has come to its end, and since then nothing that could  *)
(* change the flash has been sent.                                         *)
Looked == (verdict = "ok" \/ hpc = "reset") /\ verify =>
             flash = image /\ InWork({"query", "get", "reset"})
-----------------------------------------------------------------------------
(* What was compared stays; nothing else is in work.                       *)
LEMMA PendingBoard ==
    ASSUME BootTypeOK, InStep, BoardStep, UNCHANGED host
    PROVE  /\ Pending' => Pending
           /\ WriteWord => Pending
<1>1. WriteWord => Pending
  BY DEF WriteWord, InStep, Working, Pending
<1>2. ASSUME NEW p \in {"program", "complete"}, Coming(p)' \/ Doing(p)'
      PROVE  Coming(p) \/ Doing(p)
  <2>1. CASE Receive
    BY <1>2, <2>1 DEF Receive, Coming, Doing
  <2>2. CASE QueryDevice \/ GetData
    BY <1>2, <2>2 DEF QueryDevice, GetData, Reply, Coming, Doing
  <2>3. CASE ErasePage \/ EraseDone \/ TakeWord \/ ProgramDone
    BY <1>2, <2>3 DEF ErasePage, EraseDone, TakeWord, ProgramDone, Ready, usb, Coming, Doing
  <2>4. CASE WriteWord \/ Flushed \/ ProgramComplete
    BY <1>2, <2>4 DEF WriteWord, Flushed, ProgramComplete, Ready, usb, Coming, Doing
  <2> QED
    BY <2>1, <2>2, <2>3, <2>4 DEF BoardStep
<1> QED
  BY <1>1, <1>2 DEF Pending

LEMMA BoardLooking ==
    ASSUME BootTypeOK, InStep, Looking, BoardStep, UNCHANGED host
    PROVE  Looking'
<1>1. UNCHANGED <<hpc, waiting, at, hexBuf, attached, image>>
  BY DEF host
<1>2. /\ \A c : Has(c)' <=> Has(c)
      /\ \A b : WholeUpTo(b)' <=> WholeUpTo(b)
  BY <1>1, SameFile
<1>3. BlockFrom' = BlockFrom /\ (BlockReady' <=> BlockReady)
  BY <1>1 DEF BlockFrom, BlockReady, Has
<1>4. WholeUpTo(BlockFrom)' <=> WholeUpTo(BlockFrom)
  BY <1>1, <1>3 DEF WholeUpTo
<1> SUFFICES ASSUME hpc = "verify", attached
             PROVE  /\ \A c \in Cells : c < BlockFrom /\ Has(c) => flash'[c] = image[c]
                    /\ Pending' => \A c \in Cells : c < BlockFrom => ~Has(c)
                    /\ waiting =>
                          /\ BlockReady
                          /\ Coming("get")' => /\ fromPcBuffer'.Address = BlockFrom
                                               /\ Len(fromPcBuffer'.Data) = Len(hexBuf)
                          /\ Doing("get")' => /\ fromPc'.Address = BlockFrom
                                              /\ Len(fromPc'.Data) = Len(hexBuf)
                          /\ inBusy' => toPc' = Block(BlockFrom, Len(hexBuf))'
  BY <1>1, <1>2, <1>3, <1>4 DEF Looking
<1>5. /\ \A c \in Cells : c < BlockFrom /\ Has(c) => flash[c] = image[c]
      /\ Pending => \A c \in Cells : c < BlockFrom => ~Has(c)
      /\ waiting =>
            /\ BlockReady
            /\ Coming("get") => /\ fromPcBuffer.Address = BlockFrom
                                /\ Len(fromPcBuffer.Data) = Len(hexBuf)
            /\ Doing("get") => /\ fromPc.Address = BlockFrom
                               /\ Len(fromPc.Data) = Len(hexBuf)
            /\ inBusy => toPc = Block(BlockFrom, Len(hexBuf))
  BY DEF Looking
<1>6. BootState = "notidle" => fromPc.Command \in {"program", "complete", "get"}
  BY DEF InStep, Answering, InWork, Doing
<1>7. ~QueryDevice /\ ~ErasePage /\ ~EraseDone
  BY <1>6 DEF QueryDevice, ErasePage, EraseDone, At
<1>8. WriteWord \/ flash' = flash
  BY <1>7 DEF BoardStep, Receive, GetData, Reply, TakeWord, ProgramDone, Flushed, ProgramComplete
<1>9. \A c \in Cells : c < BlockFrom /\ Has(c) => flash'[c] = image[c]
  BY <1>5, <1>8, PendingBoard
<1>10. Pending' => \A c \in Cells : c < BlockFrom => ~Has(c)
  BY <1>5, PendingBoard
<1>11. ASSUME waiting, Coming("get")'
       PROVE  fromPcBuffer'.Address = BlockFrom /\ Len(fromPcBuffer'.Data) = Len(hexBuf)
  <2>1. fromPcBuffer' = fromPcBuffer /\ (~outBusy' => ~outBusy)
    BY DEF BoardStep, Receive, QueryDevice, GetData, Reply, ErasePage, EraseDone, TakeWord,
       ProgramDone, WriteWord, Flushed, ProgramComplete, usb
  <2>2. Coming("get")
    BY <1>11, <2>1 DEF Coming
  <2> QED
    BY <1>5, <1>11, <2>1, <2>2
<1>12. ASSUME waiting, Doing("get")'
       PROVE  fromPc'.Address = BlockFrom /\ Len(fromPc'.Data) = Len(hexBuf)
  <2>1. CASE Receive
    <3>1. Coming("get") /\ fromPc' = fromPcBuffer
      BY <1>12, <2>1 DEF Receive, Coming, Doing
    <3> QED
      BY <1>5, <1>12, <3>1
  <2>2. CASE ~Receive
    <3>1. fromPc' = fromPc /\ (BootState' = "notidle" => BootState = "notidle")
      BY <2>2 DEF BoardStep, QueryDevice, GetData, Reply, ErasePage, EraseDone, TakeWord,
         ProgramDone, WriteWord, Flushed, ProgramComplete, Ready, InStep, Working, Doing
    <3>2. Doing("get")
      BY <1>12, <3>1 DEF Doing
    <3> QED
      BY <1>5, <1>12, <3>1, <3>2
  <2> QED
    BY <2>1, <2>2
<1>13. ASSUME waiting, inBusy'
       PROVE  toPc' = Block(BlockFrom, Len(hexBuf))'
  <2>1. CASE GetData
    <3>1. /\ fromPc.Command = "get" /\ BootState = "notidle" /\ flash' = flash
          /\ toPc' = [k \in 1 .. BlockCells |->
                        IF k <= Len(fromPc.Data) /\ fromPc.Address + k - 1 \in Cells
                        THEN flash[fromPc.Address + k - 1] ELSE Zero]
      BY <2>1 DEF GetData, Reply, At
    <3>2. Doing("get")
      BY <3>1 DEF Doing
    <3>3. fromPc.Address = BlockFrom /\ Len(fromPc.Data) = Len(hexBuf)
      BY <1>5, <1>13, <3>2
    <3> QED
      BY <1>1, <1>3, <3>1, <3>3 DEF Block
  <2>2. CASE ~GetData
    <3>1. inBusy
      BY <1>7, <1>13, <2>2 DEF BoardStep, Receive, TakeWord, ProgramDone, WriteWord, Flushed,
         ProgramComplete, usb
    <3>2. BootState = "idle"
      BY <1>13, <3>1 DEF InStep, Answering
    <3>3. ~flushing
      BY <3>2 DEF InStep, Working, Doing
    <3> QED
      BY <1>7, <2>2, <3>1, <3>2, <3>3 DEF BoardStep, Receive, TakeWord, ProgramDone, WriteWord,
         Flushed, ProgramComplete, At
  <2> QED
    BY <2>1, <2>2
<1> QED
  BY <1>5, <1>9, <1>10, <1>11, <1>12, <1>13

(* The steps of the session.                                               *)
LEMMA SectionEnd ==
    ASSUME NEW s \in Sections(image)
    PROVE  s[2] \in Nat /\ s[2] \in Cells /\ Has(s[2]) /\ ~Has(s[2] + 1)
<1>1. /\ s \in Cells \X Cells /\ s[1] <= s[2]
      /\ \A c \in s[1] .. s[2] : image[c] # Erased
      /\ s[2] + 1 \notin Cells \/ image[s[2] + 1] = Erased
  BY DEF Sections
<1>2. PICK a \in Nat, b \in Nat : a = s[1] /\ b = s[2]
  BY <1>1, Constant
<1>3. s[1] \in Cells /\ s[2] \in Cells
  BY <1>1
<1>4. b \in a .. b
  BY <1>1, <1>2
<1> QED
  BY <1>1, <1>2, <1>3, <1>4 DEF Has

LEMMA WriteEndsLooking ==
    ASSUME BootTypeOK, InStep, WriteEnds
    PROVE  Looking'
<1> SUFFICES ASSUME hpc' = "verify" PROVE Looking'
  BY DEF Looking
<1>1. hpc = "write" /\ at' = 0 /\ hexBuf' = <<>> /\ ~waiting' /\ UNCHANGED image
  BY DEF WriteEnds, PassOver, Options
<1>2. BlockFrom' = 0
  BY <1>1, StartReading
<1>3. \A s \in Sections(image) : ~(s[2] + 1 < 0)
  <2> SUFFICES ASSUME NEW s \in Sections(image) PROVE ~(s[2] + 1 < 0)
    OBVIOUS
  <2>1. PICK b \in Nat : b = s[2]
    BY SectionEnd
  <2> QED
    BY <2>1
<1>4. WholeUpTo(BlockFrom)'
  BY <1>1, <1>2, <1>3 DEF WholeUpTo
<1>5. \A c \in Cells : ~(c < BlockFrom')
  BY <1>2, Constant
<1> QED
  BY <1>1, <1>4, <1>5 DEF Looking

LEMMA ReadWordLooking ==
    ASSUME BootTypeOK, Reading, Looking, ReadWord
    PROVE  Looking'
<1>1. /\ ~waiting /\ ~waiting' /\ UNCHANGED <<hpc, attached, image>> /\ BlockFrom' = BlockFrom
      /\ UNCHANGED device
  BY ReadWordReading DEF ReadWord, Options
<1>2. WholeUpTo(BlockFrom)' <=> WholeUpTo(BlockFrom)
  BY <1>1 DEF WholeUpTo
<1>3. (Pending' <=> Pending) /\ flash' = flash
  BY <1>1 DEF Pending, Coming, Doing, device
<1>4. \A c : Has(c)' <=> Has(c)
  BY <1>1 DEF Has
<1> QED
  BY <1>1, <1>2, <1>3, <1>4 DEF Looking

LEMMA NothingHereLooking ==
    ASSUME BootTypeOK, Reading, Looking, NothingHere
    PROVE  Looking'
<1> SUFFICES ASSUME hpc = "verify" PROVE Looking'
  BY DEF Looking, NothingHere
<1>1. /\ ~waiting /\ ~waiting' /\ UNCHANGED <<hpc, attached, image>>
      /\ BlockFrom = at /\ BlockFrom' = at + 1
      /\ UNCHANGED device /\ ~Has(at) /\ at \in Nat
  BY NothingHereReading, HostFacts DEF NothingHere, Options
<1>2. WholeUpTo(BlockFrom)'
  <2>1. Aligned(at)
    BY <1>1 DEF Reading
  <2> SUFFICES ASSUME NEW s \in Sections(image), s[2] + 1 < at + 1 PROVE EndsFull(s)
    BY <1>1 DEF WholeUpTo
  <2>2. PICK e \in Nat : e = s[2] /\ Has(e)
    BY SectionEnd
  <2>4. CASE s[2] + 1 < at
    BY <1>1, <2>4 DEF Looking, WholeUpTo
  <2>5. CASE s[2] + 1 = at
    <3>1. PICK b \in Nat : b = at
      BY <1>1
    <3>4. b = e + 1 /\ b + 0 = b /\ b + 0 - 1 = e
      BY <2>2, <2>5, <3>1
    <3>5. \A c \in b .. (b + 0 - 1) : Has(c)
      OBVIOUS
    <3>2. /\ b + 0 > 0 /\ s[2] = b + 0 - 1 /\ Has(b + 0 - 1) /\ ~Has(b + 0)
          /\ 0 < BlockCells /\ 0 \in Nat
          /\ \A c \in b .. (b + 0 - 1) : Has(c)
      BY <1>1, <2>2, <3>1, <3>4, <3>5, Constant
    <3>3. Aligned(b)
      BY <2>1, <3>1
    <3> QED
      BY <3>2, <3>3, EndsHere
  <2>6. e + 1 < at \/ e + 1 = at
    BY <1>1, <2>2
  <2> QED
    BY <2>2, <2>4, <2>5, <2>6
<1>3. (Pending' <=> Pending) /\ flash' = flash
  BY <1>1 DEF Pending, Coming, Doing, device
<1>4. \A c : Has(c)' <=> Has(c)
  BY <1>1 DEF Has
<1>5. \A c \in Cells : c < at + 1 => c < at \/ c = at
  BY <1>1, Constant
<1> QED
  BY <1>1, <1>2, <1>3, <1>4, <1>5 DEF Looking

LEMMA AskBlockLooking ==
    ASSUME BootTypeOK, InStep, Looking, AskBlock
    PROVE  Looking'
<1>1. /\ hpc = "verify" /\ attached /\ ~waiting /\ outBusy /\ ~outBusy' /\ BlockReady
      /\ fromPcBuffer' = Packet("get", BlockFrom, hexBuf)
      /\ UNCHANGED <<BootState, fromPc, flash, inBusy>>
      /\ UNCHANGED <<hpc, at, hexBuf, attached, image>>
  BY DEF AskBlock, HandOver, work, Options
<1>2. /\ fromPcBuffer'.Command = "get" /\ fromPcBuffer'.Address = BlockFrom
      /\ fromPcBuffer'.Data = hexBuf
  BY <1>1 DEF Packet
<1>3. ~inBusy /\ ~Doing("get")
  BY <1>1 DEF InStep, Answering, InWork, Doing
<1>4. BlockFrom' = BlockFrom /\ (BlockReady' <=> BlockReady)
  BY <1>1 DEF BlockFrom, BlockReady, Has
<1>5. WholeUpTo(BlockFrom)' <=> WholeUpTo(BlockFrom)
  BY <1>1, <1>4 DEF WholeUpTo
<1>6. Pending' => Pending
  BY <1>1, <1>2 DEF Pending, Coming, Doing
<1>7. ~Doing("get")'
  BY <1>1, <1>3 DEF Doing
<1>8. \A c : Has(c)' <=> Has(c)
  BY <1>1 DEF Has
<1> QED
  BY <1>1, <1>2, <1>3, <1>4, <1>5, <1>6, <1>7, <1>8 DEF Looking

LEMMA BlockVerifiedLooking ==
    ASSUME BootTypeOK, ShortBlocksShow, InStep, Reading, Looking, BlockVerified
    PROVE  Looking'
<1> SUFFICES ASSUME hpc' = "verify" PROVE Looking'
  BY DEF Looking
<1>1. /\ hpc = "verify" /\ attached /\ ~waiting' /\ hexBuf' = <<>>
      /\ UNCHANGED <<BootState, fromPc, flash, outBusy>>
      /\ UNCHANGED <<at, attached, image>>
  BY DEF BlockVerified, Fetch, work, Options
<1>2. /\ Len(hexBuf) = BlockCells /\ outBusy /\ BootState = "idle"
      /\ \A c \in BlockFrom .. (at - 1) : flash[c] = image[c]
  BY VerifiedBlock
<1>3. \A c \in BlockFrom .. (at - 1) : Has(c)
  BY <1>1 DEF Reading
<1>4. BlockFrom' = at /\ at \in Nat /\ BlockFrom \in Nat
  BY <1>1, <1>2, NextBlock, HostFacts
<1>5. WholeUpTo(BlockFrom)'
  <2> SUFFICES ASSUME NEW s \in Sections(image), s[2] + 1 < at PROVE EndsFull(s)
    BY <1>1, <1>4 DEF WholeUpTo
  <2>1. PICK e \in Nat : e = s[2] /\ ~Has(e + 1)
    BY SectionEnd
  <2>2. s[2] + 1 < BlockFrom
    BY <1>3, <1>4, <2>1
  <2> QED
    BY <1>1, <2>2 DEF Looking, WholeUpTo
<1>6. ~Pending'
  BY <1>1, <1>2 DEF Pending, Coming, Doing
<1>7. \A c \in Cells : c < at => c < BlockFrom \/ c \in BlockFrom .. (at - 1)
  BY <1>4, Constant
<1>8. \A c \in Cells : c < at /\ Has(c) => flash[c] = image[c]
  BY <1>1, <1>2, <1>7 DEF Looking
<1>9. \A c : Has(c)' <=> Has(c)
  BY <1>1 DEF Has
<1> QED
  BY <1>1, <1>4, <1>5, <1>6, <1>8, <1>9 DEF Looking

LEMMA SessionLooking ==
    ASSUME BootTypeOK, ShortBlocksShow, InStep, Reading, Looking, SessionStep
    PROVE  Looking'
<1>1. CASE Query \/ QueryAnswered \/ Erase \/ WriteBlock \/ SectionComplete
  BY <1>1 DEF Query, QueryAnswered, Erase, WriteBlock, SectionComplete, Looking
<1>2. CASE VerifyEnds \/ ResetBoard \/ LineFails
  BY <1>2 DEF VerifyEnds, Finish, ResetBoard, LineFails, Looking
<1> QED
  BY <1>1, <1>2, WriteEndsLooking, ReadWordLooking, NothingHereLooking, AskBlockLooking,
     BlockVerifiedLooking DEF SessionStep
-----------------------------------------------------------------------------
(* The end of the verify pass: the buffer is empty, and nothing is missing.*)
LEMMA AllThere ==
    ASSUME BootTypeOK, Looking, Words, Wholly, NothingLeft
    PROVE  flash = image /\ (hpc = "verify" => ~Pending)
<1>0. Queue /\ (Clean \/ Untouched \/ Touched)
  BY DEF Words
<1>1. flash \in [Cells -> Value] /\ image \in [Cells -> Value]
  BY HostFacts DEF BootTypeOK, BoardTypeOK
<1>2. hpc \in {"write", "verify"} /\ attached
  BY DEF Wholly
<1>3. \A c \in Cells : Has(c) => hpc = "verify" /\ c < BlockFrom /\ flash[c] = image[c]
  <2> SUFFICES ASSUME NEW c \in Cells, Has(c)
               PROVE  hpc = "verify" /\ c < BlockFrom /\ flash[c] = image[c]
    OBVIOUS
  <2>1. ~(hpc = "write" \/ c >= BlockFrom)
    BY DEF NothingLeft
  <2>2. hpc = "verify" /\ c < BlockFrom
    BY <1>2, <2>1, HostFacts, Constant
  <2> QED
    BY <1>2, <2>2 DEF Looking
<1>4. ~Pending \/ \A c \in Cells : ~Has(c)
  BY <1>2, <1>3 DEF Looking
<1>5. ASSUME NEW p, NEW n, WholeBlock(p, n), p.Address \in Nat PROVE \E c \in Cells : Has(c)
  <2>1. p.Address \in p.Address .. (p.Address + BlockCells - 1)
    BY <1>5, Constant
  <2> QED
    BY <1>5, <2>1 DEF WholeBlock, Has
<1>6. Coming("program") \/ Doing("program") => \E c \in Cells : Has(c)
  BY <1>0, <1>5, Numbers DEF Queue
<1>7. Pending <=> Coming("program") \/ Doing("program")
  BY <1>0 DEF Queue, Pending
<1>8. hpc = "verify" => ~Pending
  BY <1>4, <1>6, <1>7
<1>9. ~Touched
  <2> SUFFICES ASSUME Touched PROVE FALSE
    OBVIOUS
  <2>1. ~Doing("program")
    BY <1>3, <1>6, <1>7, <1>8
  <2>2. buffer # <<>> /\ Has(ProgrammedPointer - 1) /\ Ahead
    BY <2>1 DEF Touched
  <2>3. FromBuf = ProgrammedPointer - Len(buffer) /\ Len(buffer) > 0
    BY <2>2, EmptyBlock, BlockIsSeq DEF FromBuf, BootTypeOK, BoardTypeOK
  <2>4. PICK c \in Cells : c = ProgrammedPointer - 1
    BY <2>2 DEF Has
  <2>5. c >= FromBuf
    BY <2>3, <2>4, Numbers
  <2>6. flash[c] = Erased /\ flash[c] = image[c] /\ image[c] # Erased
    BY <1>3, <2>2, <2>4, <2>5 DEF Ahead, Has
  <2> QED
    BY <2>6
<1>10. Pure
  <2>1. Clean => Pure
    BY DEF Clean
  <2>2. Untouched => Pure
    BY DEF Untouched, AllErased, Pure
  <2> QED
    BY <1>0, <1>9, <2>1, <2>2
<1>11. \A c \in Cells : flash[c] = image[c]
  BY <1>3, <1>10 DEF Pure, Has
<1> QED
  BY <1>1, <1>8, <1>11

(* The file's sections are whole once they have all been read back.        *)
LEMMA WholeFile ==
    ASSUME BootTypeOK, Reading, Looking, hpc = "verify", PassOver
    PROVE  image \in WholeBlocks /\ NothingLeft
<1>1. hexBuf = <<>> /\ at = Size
  BY DEF PassOver, Size
<1>2. BlockFrom = Size /\ Size \in Nat /\ Cells = 0 .. (Size - 1) /\ image \in Images
  BY <1>1, HostFacts, EmptyBlock
<1>3. NothingLeft
  BY <1>2 DEF NothingLeft
<1>4. Aligned(Size) /\ WholeUpTo(Size)
  BY <1>2 DEF Reading, Looking
<1>5. ASSUME NEW s \in Sections(image) PROVE EndsFull(s)
  <2>1. PICK e \in Nat : e = s[2] /\ e \in Cells /\ Has(e)
    BY SectionEnd
  <2>2. CASE e + 1 < Size
    BY <1>4, <2>1, <2>2 DEF WholeUpTo
  <2>3. CASE e + 1 = Size
    <3>1. PICK b \in Nat : b = Size
      BY <1>2
    <3>2. b = e + 1 /\ b + 0 = b /\ b + 0 - 1 = e /\ b \notin Cells
      BY <1>2, <2>1, <2>3, <3>1
    <3>3. \A c \in b .. (b + 0 - 1) : Has(c)
      OBVIOUS
    <3>4. /\ b + 0 > 0 /\ s[2] = b + 0 - 1 /\ Has(b + 0 - 1) /\ ~Has(b + 0)
          /\ 0 < BlockCells /\ 0 \in Nat
          /\ \A c \in b .. (b + 0 - 1) : Has(c)
      BY <2>1, <3>2, <3>3, Constant DEF Has
    <3>5. Aligned(b)
      BY <1>4, <3>1
    <3> QED
      BY <3>4, <3>5, EndsHere
  <2>4. e + 1 < Size \/ e + 1 = Size
    BY <1>2, <2>1
  <2> QED
    BY <2>2, <2>3, <2>4
<1> QED
  BY <1>2, <1>3, <1>5 DEF WholeBlocks

(* A board that is away.                                                   *)
LEMMA BoardAway ==
    ASSUME Away, InStep, BoardStep, UNCHANGED host
    PROVE  Away' /\ (~attached => FALSE)
<1>1. ~attached => FALSE
  <2> SUFFICES ASSUME ~attached PROVE FALSE
    OBVIOUS
  <2>1. outBusy /\ BootState = "idle" /\ ~flushing
    BY DEF Away, InStep, Working, Doing
  <2> QED
    BY <2>1 DEF BoardStep, Receive, QueryDevice, GetData, ErasePage, EraseDone, TakeWord,
       ProgramDone, WriteWord, Flushed, ProgramComplete, At
<1> QED
  BY <1>1 DEF Away, host

LEMMA SessionAway == ASSUME Away, SessionStep PROVE Away' /\ UNCHANGED flash
<1> USE DEF Away, HandOver, Fetch, work, Options, device
<1>1. CASE Query \/ QueryAnswered \/ Erase
  BY <1>1 DEF Query, QueryAnswered, Erase
<1>2. CASE ReadWord \/ NothingHere \/ WriteBlock \/ SectionComplete
  BY <1>2 DEF ReadWord, NothingHere, WriteBlock, SectionComplete
<1>3. CASE WriteEnds \/ AskBlock \/ BlockVerified
  BY <1>3 DEF WriteEnds, AskBlock, BlockVerified
<1>4. CASE VerifyEnds \/ ResetBoard \/ LineFails
  BY <1>4 DEF VerifyEnds, ResetBoard, LineFails
<1> QED
  BY <1>1, <1>2, <1>3, <1>4 DEF SessionStep

LEMMA SessionLeft ==
    ASSUME BootTypeOK, Away, Reading, Left, SessionStep
    PROVE  Left'
<1> SUFFICES ASSUME ~attached', hpc' \in {"write", "verify"}, image' \in WholeBlocks', NothingLeft'
             PROVE  flash' = image'
  BY DEF Left
<1>1. ~attached /\ image' = image /\ image \in WholeBlocks /\ flash' = flash
  <2>1. UNCHANGED <<attached, image>>
    BY DEF SessionStep, Query, QueryAnswered, Erase, ReadWord, NothingHere, WriteBlock,
       SectionComplete, WriteEnds, AskBlock, BlockVerified, VerifyEnds, ResetBoard, LineFails,
       Options
  <2> QED
    BY <2>1, SessionAway DEF WholeBlocks
<1>2. hpc \in {"write", "verify"} /\ (ReadWord \/ NothingHere \/ WriteEnds)
  BY <1>1 DEF SessionStep, Query, QueryAnswered, Erase, ReadWord, NothingHere, WriteBlock,
     SectionComplete, WriteEnds, AskBlock, BlockVerified, VerifyEnds, Finish, ResetBoard, LineFails,
     HandOver, Fetch
<1>3. \A c : Has(c)' <=> Has(c)
  BY <1>1 DEF Has
<1>4. \A c \in Cells : hpc' = "write" \/ c >= BlockFrom' => ~Has(c)
  BY <1>3 DEF NothingLeft
<1>5. NothingLeft
  <2>1. CASE ReadWord
    BY <1>4, <2>1, ReadWordReading DEF NothingLeft, ReadWord
  <2>2. CASE NothingHere
    <3>1. /\ hpc' = hpc /\ BlockFrom = at /\ BlockFrom' = at + 1 /\ ~Has(at) /\ at \in Nat
      BY <2>2, NothingHereReading, HostFacts DEF NothingHere
    <3>2. \A c \in Cells : c >= at => c = at \/ c >= at + 1
      BY <3>1, Constant
    <3> QED
      BY <1>4, <3>1, <3>2 DEF NothingLeft
  <2>3. CASE WriteEnds
    <3>1. hpc = "write" /\ at' = 0 /\ hexBuf' = <<>> /\ (hpc' = "verify" \/ hpc' = "write")
      BY <2>3 DEF WriteEnds, PassOver
    <3>2. BlockFrom' = 0
      BY <1>1, <3>1, StartReading
    <3>3. \A c \in Cells : c >= BlockFrom'
      BY <3>2, Constant
    <3> QED
      BY <1>4, <3>3 DEF NothingLeft
  <2> QED
    BY <1>2, <2>1, <2>2, <2>3
<1> QED
  BY <1>1, <1>2, <1>5 DEF Left

LEMMA GoneLeft ==
    ASSUME BootTypeOK, Words, Looking, Left, NEW start \in BOOLEAN, Restart(start), Gone
    PROVE  Left'
<1>1. UNCHANGED <<hpc, waiting, at, hexBuf, image, flash>>
  BY DEF Gone, Restart
<1>2. (NothingLeft' => NothingLeft) /\ (image' \in WholeBlocks' => image \in WholeBlocks)
  BY <1>1 DEF NothingLeft, BlockFrom, Has, WholeBlocks
<1>3. CASE attached
  BY <1>1, <1>2, <1>3, AllThere DEF Left, Wholly
<1>4. CASE ~attached
  BY <1>1, <1>2, <1>4 DEF Left
<1> QED
  BY <1>3, <1>4

(* After the verify pass.                                                  *)
LEMMA BoardLooked ==
    ASSUME InStep, Looked, BoardStep, UNCHANGED host
    PROVE  Looked'
<1> SUFFICES ASSUME verdict = "ok" \/ hpc = "reset", verify
             PROVE  flash' = image /\ InWork({"query", "get", "reset"})'
  BY DEF Looked, host
<1>1. flash = image /\ InWork({"query", "get", "reset"})
  BY DEF Looked
<1>2. ~flushing
  BY <1>1 DEF InWork, InStep, Working, Coming, Doing
<1>3. Receive \/ QueryDevice \/ GetData
  BY <1>1, <1>2 DEF InWork, BoardStep, ErasePage, EraseDone, TakeWord, ProgramDone, WriteWord, Flushed,
     ProgramComplete, At
<1> QED
  BY <1>1, <1>3 DEF InWork, Receive, QueryDevice, GetData, Reply

LEMMA VerifyEndsLooked ==
    ASSUME BootTypeOK, Away, InStep, Reading, Words, Looking, Left, VerifyEnds
    PROVE  Looked'
<1>1. hpc = "verify" /\ PassOver /\ ~waiting /\ UNCHANGED <<image, flash, outBusy, fromPcBuffer, BootState, fromPc>>
  BY DEF VerifyEnds, PassOver, Options, device
<1>2. image \in WholeBlocks /\ NothingLeft
  BY <1>1, WholeFile
<1>3. CASE attached
  <2>1. flash = image /\ ~Pending
    BY <1>1, <1>2, <1>3, AllThere DEF Wholly
  <2>2. InWork({"program", "complete"})
    BY <1>1, <1>3 DEF InStep, Answering
  <2>3. outBusy /\ BootState # "notidle"
    BY <2>1, <2>2 DEF Pending, InWork, Coming, Doing
  <2> QED
    BY <1>1, <2>1, <2>3 DEF Looked, InWork
<1>4. CASE ~attached
  <2>1. flash = image /\ outBusy /\ BootState = "idle"
    BY <1>1, <1>2, <1>4 DEF Left, Away
  <2> QED
    BY <1>1, <2>1 DEF Looked, InWork
<1> QED
  BY <1>3, <1>4

LEMMA SessionLooked ==
    ASSUME BootTypeOK, Away, InStep, Reading, Words, Looking, Left, Looked, SessionStep
    PROVE  Looked'
<1>0. verdict # "none" => hpc = "off"
  BY DEF InStep, Working
<1>00. verdict \in {"none", "ok", "error"}
  BY DEF BootTypeOK, HostTypeOK
<1>1. CASE Query \/ QueryAnswered \/ Erase \/ ReadWord \/ NothingHere
  BY <1>0, <1>00, <1>1 DEF Query, QueryAnswered, Erase, ReadWord, NothingHere, Looked
<1>2. CASE WriteBlock \/ SectionComplete \/ AskBlock
  BY <1>0, <1>00, <1>2 DEF WriteBlock, SectionComplete, AskBlock, Looked
<1>3. CASE BlockVerified
  BY <1>0, <1>00, <1>3 DEF BlockVerified, Looked
<1>4. CASE WriteEnds
  BY <1>0, <1>00, <1>4 DEF WriteEnds, Finish, Options, Looked
<1>5. CASE ResetBoard
  <2>1. /\ hpc = "reset" /\ fromPcBuffer'.Command = "reset"
        /\ UNCHANGED <<BootState, fromPc, flash, image, verify>>
    BY <1>5 DEF ResetBoard, HandOver, Packet, work, Options
  <2> QED
    BY <2>1 DEF Looked, InWork
<1>6. CASE LineFails
  BY <1>6 DEF LineFails, Looked
<1> QED
  BY <1>1, <1>2, <1>3, <1>4, <1>5, <1>6, VerifyEndsLooked DEF SessionStep
-----------------------------------------------------------------------------
(* All of it, whatever happens.                                            *)
GInv == Away /\ InStep /\ Reading /\ Words /\ Looking /\ Left /\ Looked

LEMMA GInit == Init => GInv
<1> SUFFICES ASSUME Init PROVE GInv
  OBVIOUS
<1>1. /\ hpc = "off" /\ ~waiting /\ ~attached /\ verdict = "none" /\ outBusy /\ BootState = "idle"
      /\ ~inBusy /\ ~flushing
  BY DEF Init, BoardInit, HostInit
<1> QED
  BY <1>1 DEF GInv, Away, InStep, Working, Erasing, Answering, Reading, Words, Wholly, Looking,
     Left, Looked, Doing

LEMMA GoneKeepsAll ==
    ASSUME BootTypeOK, GInv, NEW start \in BOOLEAN, Restart(start), Gone
    PROVE  GInv'
<1>1. /\ UNCHANGED <<hpc, waiting, at, hexBuf, image, verify, verdict, flash>>
      /\ outBusy' /\ BootState' = "idle" /\ ~attached'
  BY DEF Gone, Restart, Fresh
<1>2. InStep' /\ Left'
  BY GoneInStep, GoneLeft DEF GInv
<1>3. Reading'
  BY <1>1, SameReading DEF GInv
<1>4. Looking'
  <2>1. WholeUpTo(BlockFrom)' <=> WholeUpTo(BlockFrom)
    BY <1>1 DEF WholeUpTo, BlockFrom
  <2> QED
    BY <1>1, <2>1 DEF Looking, GInv
<1>5. Away' /\ Words' /\ Looked'
  BY <1>1 DEF GInv, Away, Words, Wholly, Looked, InWork
<1> QED
  BY <1>2, <1>3, <1>4, <1>5 DEF GInv

LEMMA StartKeepsAll == ASSUME BootTypeOK, GInv, Start PROVE GInv'
<1>1. hpc' = "query" /\ at' = 0 /\ hexBuf' = <<>> /\ attached' /\ verdict' = "none"
  BY DEF Start
<1>2. InStep'
  BY StartInStep DEF GInv
<1> QED
  BY <1>1, <1>2 DEF GInv, Away, Reading, Words, Wholly, Looking, Left, Looked

LEMMA KillKeepsAll == ASSUME BootTypeOK, GInv, Kill PROVE GInv'
<1>1. /\ hpc # "off" /\ hpc' = "off" /\ verdict' = verdict
      /\ UNCHANGED <<attached, outBusy, BootState>>
  BY DEF Kill, device
<1>2. InStep' /\ verdict # "ok"
  BY <1>1, KillInStep DEF GInv, InStep, Working
<1> QED
  BY <1>1, <1>2 DEF GInv, Away, Reading, Words, Wholly, Looking, Left, Looked

LEMMA BoardKeepsAll ==
    ASSUME ErasedPages = Pages, BootTypeOK, GInv, BoardStep, UNCHANGED host
    PROVE  GInv'
<1>1. InStep' /\ Words' /\ Looking' /\ Looked' /\ Away' /\ attached
  BY BoardInStep, BoardWords, BoardLooking, BoardLooked, BoardAway DEF GInv
<1>2. Reading'
  BY SameReading DEF GInv, host
<1>3. Left'
  BY <1>1 DEF Left, host
<1> QED
  BY <1>1, <1>2, <1>3 DEF GInv

LEMMA GStep == ErasedPages = Pages /\ ShortBlocksShow /\ BootTypeOK /\ GInv /\ [Next]_vars => GInv'
<1> SUFFICES ASSUME ErasedPages = Pages, ShortBlocksShow, BootTypeOK, GInv, [Next]_vars
             PROVE  GInv'
  OBVIOUS
<1>1. CASE Board
  BY <1>1, BoardKeepsAll DEF Board
<1>2. CASE Session
  BY <1>2, SessionInStep, SessionReading, SessionWords, SessionLooking, SessionAway, SessionLeft,
     SessionLooked DEF Session, GInv
<1>3. CASE Resets \/ Cut \/ BackToLoader \/ Replug
  BY <1>3, GoneKeepsAll DEF Resets, ResetDevice, Cut, BackToLoader, Replug
<1>4. CASE Start \/ Kill
  BY <1>4, StartKeepsAll, KillKeepsAll
<1>5. CASE UNCHANGED vars
  <2>1. UNCHANGED device /\ UNCHANGED host
    BY <1>5 DEF vars
  <2>2. Reading'
    BY <2>1, SameReading DEF GInv, host
  <2>3. Away' /\ InStep' /\ Looked'
    BY <2>1 DEF GInv, device, host, Away, InStep, Working, Erasing, Answering, AllErased, InWork,
       Coming, Doing, Looked
  <2>4. Words'
    BY <2>1 DEF GInv, device, host, Words, Wholly, Queue, WholeBlock, Clean, Pure, Ahead, Untouched,
       AllErased, Touched, OfFile, Has, FromHost, FromOut, FromPc, FromBuf, Size, Coming, Doing,
       WholeBlocks
  <2>5. Looking' /\ Left'
    BY <2>1 DEF GInv, device, host, Looking, Left, NothingLeft, WholeUpTo, BlockFrom, BlockReady,
       Pending, Block, Has, Coming, Doing, WholeBlocks
  <2> QED
    BY <2>2, <2>3, <2>4, <2>5 DEF GInv
<1> QED
  BY <1>1, <1>2, <1>3, <1>4, <1>5 DEF Next

LEMMA GInvariant ==
    ASSUME ErasedPages = Pages, ShortBlocksShow PROVE Spec => [](BootTypeOK /\ GInv)
<1>1. BootTypeOK /\ GInv /\ [Next]_vars => GInv'
  BY GStep
<1> QED
  BY <1>1, InitType, TypeStep, GInit, PTL DEF Spec
-----------------------------------------------------------------------------
(* Now the sessions that do not read back, when nothing happens to them    *)
(* (Plain): as no section is dropped for the pointer of the one before,    *)
(* what is between two places on the way of the words is not in the file   *)
(* (There), and all before them is in the flash.                           *)
Plain == scene.kills = 0 /\ scene.cuts = 0 /\ Orderly(scene)

(* The pointer once the command at work is done, and once the one in the   *)
(* OUT endpoint is.                                                        *)
AfterPc ==
    IF Doing("program") THEN fromPc.Address + Len(fromPc.Data)
    ELSE IF Doing("complete") \/ Doing("reset") THEN InvalidAddress ELSE ProgrammedPointer
AfterOut ==
    IF Coming("program") THEN fromPcBuffer.Address + Len(fromPcBuffer.Data)
    ELSE IF Coming("complete") \/ Coming("reset") THEN InvalidAddress ELSE AfterPc

(* The file has no word from a to before b.                                *)
Gap(a, b) == \A c \in Cells : a <= c /\ c < b => ~Has(c)

(* Each block goes on at the pointer, or finds it forgotten.               *)
Follows ==
    /\ Doing("program") => \/ ProgrammedPointer = InvalidAddress /\ dealt = 0
                           \/ ProgrammedPointer = fromPc.Address + dealt
    /\ Coming("program") => AfterPc \in {InvalidAddress, fromPcBuffer.Address}

(* Forgotten it is unless the PC is within a section of full blocks, or at *)
(* the end of a file that ends in one, and that a reset follows.           *)
Free ==
    /\ hpc = "write" =>
          \/ AfterOut = InvalidAddress
          \/ AfterOut = BlockFrom /\ Aligned(BlockFrom) /\ BlockFrom > 0 /\ Has(BlockFrom - 1)
          \/ image \notin ShortEnds /\ hexBuf = <<>> /\ \A c \in Cells : c >= at => ~Has(c)
    /\ hpc \notin {"write", "complete"} =>
          \/ AfterOut = InvalidAddress
          \/ image \notin ShortEnds /\ hpc \in {"verify", "reset"}

(* RESET_DEVICE is the last command of a session, ERASE_DEVICE the first.  *)
Last ==
    /\ Coming("reset") \/ Doing("reset") => hpc \in {"off", "query"} /\ ~Coming("program")
    /\ ~attached => hpc \in {"off", "query"}
    /\ mode = "app" => ~attached
    /\ Writing => ~Coming("erase") /\ ~Doing("erase")

(* All that is no longer on its way is in the flash.                       *)
There ==
    Writing =>
       /\ \A c \in Cells : c < FromBuf => flash[c] = image[c]
       /\ Coming("program") => Gap(fromPcBuffer.Address + Len(fromPcBuffer.Data), FromHost)
       /\ Doing("program") => Gap(fromPc.Address + Len(fromPc.Data), FromOut)
       /\ buffer # <<>> => Gap(ProgrammedPointer, FromPc)
-----------------------------------------------------------------------------
(* The steps of the board.                                                 *)
LEMMA SameGap == ASSUME UNCHANGED image PROVE \A a, b : Gap(a, b)' <=> Gap(a, b)
  BY DEF Gap, Has

LEMMA FreeKept ==
    ASSUME Free, AfterOut' = AfterOut, UNCHANGED <<hpc, at, hexBuf, image>>
    PROVE  Free'
<1>1. BlockFrom' = BlockFrom
  BY DEF BlockFrom
<1>2. (Aligned(BlockFrom)' <=> Aligned(BlockFrom)) /\ (Has(BlockFrom - 1)' <=> Has(BlockFrom - 1))
  BY <1>1 DEF Aligned, SectionStart, Has
<1>3. (image \in ShortEnds)' <=> image \in ShortEnds
  BY DEF ShortEnds
<1> QED
  BY <1>1, <1>2, <1>3 DEF Free, Has

LEMMA ReceivePlain ==
    ASSUME BootTypeOK, Follows, Free, Last, There, Receive, UNCHANGED host
    PROVE  Follows' /\ Free' /\ Last' /\ There'
<1>1. /\ BootState = "idle" /\ BootState' = "notidle" /\ ~outBusy /\ mode = "loader" /\ mode' = mode
      /\ outBusy' /\ fromPc' = fromPcBuffer /\ dealt' = 0
      /\ UNCHANGED <<fromPcBuffer, flushing, ProgrammedPointer, buffer, flash>>
      /\ UNCHANGED <<hpc, at, hexBuf, attached, image, verdict>>
  BY DEF Receive, host
<1>2. \A p : ~Doing(p) /\ ~Coming(p)' /\ (Doing(p)' <=> Coming(p))
  BY <1>1 DEF Doing, Coming
<1>3. AfterPc = ProgrammedPointer /\ AfterOut' = AfterOut
  BY <1>1, <1>2 DEF AfterPc, AfterOut
<1>4. FromHost' = FromHost /\ FromOut' = FromHost /\ FromPc = FromOut
  BY <1>1, <1>2 DEF FromHost, FromOut, FromPc, Size
<1>5. FromPc' = FromPc
  BY <1>1, <1>2, <1>4, Numbers DEF FromPc, FromOut
<1>6. FromBuf' = FromBuf
  BY <1>1, <1>5 DEF FromBuf
<1>7. Follows'
  <2>1. Doing("program")' => fromPc'.Address + dealt' = fromPcBuffer.Address
    BY <1>1, Numbers
  <2> QED
    BY <1>1, <1>2, <1>3, <2>1 DEF Follows
<1>8. Free'
  BY <1>1, <1>3, FreeKept
<1>9. Last'
  BY <1>1, <1>2 DEF Last, Writing
<1>10. There'
  BY <1>1, <1>2, <1>4, <1>5, <1>6, SameGap DEF There, Writing, Gap, Has
<1> QED
  BY <1>7, <1>8, <1>9, <1>10

LEMMA RepliesPlain ==
    ASSUME BootTypeOK, Follows, Free, Last, There, QueryDevice \/ GetData \/ EraseDone,
           UNCHANGED host
    PROVE  Follows' /\ Free' /\ Last' /\ There'
<1>1. /\ BootState = "notidle" /\ fromPc.Command \in {"query", "get", "erase"} /\ BootState' = "idle"
      /\ UNCHANGED <<mode, outBusy, fromPcBuffer, fromPc, dealt, flushing, ProgrammedPointer,
                     buffer, flash>>
      /\ UNCHANGED <<hpc, at, hexBuf, attached, image, verdict>>
  BY DEF QueryDevice, GetData, EraseDone, Ready, Reply, At, usb, host
<1>2. /\ \A p : ~Doing(p)' /\ (Coming(p)' <=> Coming(p))
      /\ ~Doing("program") /\ ~Doing("complete") /\ ~Doing("reset")
  BY <1>1 DEF Doing, Coming
<1>3. AfterPc' = AfterPc /\ AfterOut' = AfterOut
  BY <1>1, <1>2 DEF AfterPc, AfterOut
<1>4. FromHost' = FromHost /\ FromOut' = FromOut /\ FromPc' = FromPc /\ FromBuf' = FromBuf
  BY <1>1, <1>2 DEF FromHost, FromOut, FromPc, FromBuf, Size
<1>5. Follows' /\ Free' /\ Last'
  BY <1>1, <1>2, <1>3, FreeKept DEF Follows, Last, Writing
<1>6. There'
  BY <1>1, <1>2, <1>4 DEF There, Writing, Gap, Has
<1> QED
  BY <1>5, <1>6

LEMMA ErasePagePlain ==
    ASSUME BootTypeOK, Follows, Free, Last, There, ErasePage, UNCHANGED host
    PROVE  Follows' /\ Free' /\ Last' /\ There'
<1>1. /\ Doing("erase")
      /\ UNCHANGED <<mode, outBusy, fromPcBuffer, fromPc, BootState, flushing, ProgrammedPointer,
                     buffer>>
      /\ UNCHANGED <<hpc, at, hexBuf, attached, image, verdict>>
  BY DEF ErasePage, At, usb, host, Doing
<1>2. \A p : (Doing(p)' <=> Doing(p)) /\ (Coming(p)' <=> Coming(p))
  BY <1>1 DEF Doing, Coming
<1>3. ~Doing("program") /\ ~Writing
  BY <1>1 DEF Last, Doing
<1>4. AfterPc' = AfterPc /\ AfterOut' = AfterOut
  BY <1>1, <1>2 DEF AfterPc, AfterOut
<1> QED
  BY <1>1, <1>2, <1>3, <1>4, FreeKept DEF Follows, Last, There, Writing

LEMMA TakeWordPlain ==
    ASSUME BootTypeOK, Follows, Free, Last, There, TakeWord, UNCHANGED host
    PROVE  Follows' /\ Free' /\ Last' /\ There'
<1>1. /\ Doing("program") /\ ~flushing /\ dealt < Len(fromPc.Data) /\ dealt' = dealt + 1
      /\ Len(buffer') = Len(buffer) + 1 /\ buffer' # <<>>
      /\ ProgrammedPointer' = fromPc.Address + dealt + 1
      /\ buffer # <<>> => ProgrammedPointer = fromPc.Address + dealt
      /\ outBusy' = outBusy /\ fromPcBuffer' = fromPcBuffer /\ mode' = mode
      /\ BootState' = BootState /\ fromPc' = fromPc /\ flash' = flash
      /\ UNCHANGED <<hpc, at, hexBuf, attached, image, verdict>>
  BY TakesWord DEF TakeWord, host
<1>2. \A p : (Doing(p)' <=> Doing(p)) /\ (Coming(p)' <=> Coming(p))
  BY <1>1 DEF Doing, Coming
<1>3. /\ fromPc.Address \in Nat /\ dealt \in Nat /\ Len(buffer) \in Nat /\ ProgrammedPointer \in Nat
      /\ (buffer = <<>> => Len(buffer) = 0)
  BY Numbers, EmptyBlock
<1>4. AfterPc' = AfterPc /\ AfterOut' = AfterOut
  BY <1>1, <1>2 DEF AfterPc, AfterOut
<1>5. FromHost' = FromHost /\ FromOut' = FromOut
  BY <1>1, <1>2 DEF FromHost, FromOut, Size
<1>6. FromPc' = ProgrammedPointer'
  <2>1. FromPc' = fromPc.Address + (dealt + 1)
    BY <1>1, <1>2 DEF FromPc
  <2> QED
    BY <1>1, <1>3, <2>1
<1>7. FromBuf' = FromBuf
  BY TakesInPlace
<1>8. Gap(ProgrammedPointer, FromPc)'
  <2>1. PICK n \in Nat : n = ProgrammedPointer'
    BY <1>1, <1>3
  <2>2. \A c \in Cells : ~(n <= c /\ c < n)
    BY <2>1, Constant
  <2> QED
    BY <1>6, <2>1, <2>2 DEF Gap
<1>9. Follows'
  <2>1. ProgrammedPointer' = fromPc'.Address + dealt'
    BY <1>1, <1>3
  <2> QED
    BY <1>1, <1>2, <1>4, <2>1 DEF Follows
<1>10. Free' /\ Last'
  BY <1>1, <1>2, <1>4, FreeKept DEF Last, Writing
<1>11. There'
  BY <1>1, <1>2, <1>5, <1>7, <1>8 DEF There, Writing, Gap, Has
<1> QED
  BY <1>9, <1>10, <1>11

LEMMA ProgramDonePlain ==
    ASSUME BootTypeOK, IInv, Follows, Free, Last, There, ProgramDone, UNCHANGED host
    PROVE  Follows' /\ Free' /\ Last' /\ There'
<1>1. /\ Doing("program") /\ BootState' = "idle" /\ ProgrammedPointer' = Pointer
      /\ ~Contiguous \/ dealt = Len(fromPc.Data)
      /\ UNCHANGED <<mode, outBusy, fromPcBuffer, fromPc, dealt, flushing, buffer, flash>>
      /\ UNCHANGED <<hpc, at, hexBuf, attached, image, verdict>>
  BY DEF ProgramDone, Ready, At, usb, host, Doing
<1>2. /\ fromPc.Address \in Nat /\ dealt \in Nat /\ Len(fromPc.Data) \in Nat /\ ProgrammedPointer \in Nat
      /\ dealt <= Len(fromPc.Data) /\ fromPc.Address + Len(fromPc.Data) <= Size /\ Size \in Nat
      /\ InvalidAddress = Size + 1
  BY <1>1, Numbers, SizePositive DEF IInv, InOrder, BootTypeOK, BoardTypeOK, Packets, Size, InvalidAddress
<1>3. Pointer = fromPc.Address + dealt /\ dealt = Len(fromPc.Data)
  <2>1. CASE ProgrammedPointer = InvalidAddress
    <3>1. dealt = 0
      BY <1>1, <1>2, <2>1 DEF Follows
    <3>2. Pointer = fromPc.Address + dealt
      BY <1>2, <2>1, <3>1 DEF Pointer
    <3> QED
      BY <1>1, <3>2 DEF Contiguous
  <2>2. CASE ProgrammedPointer # InvalidAddress
    <3>1. Pointer = fromPc.Address + dealt
      BY <1>1, <2>2 DEF Follows, Pointer
    <3> QED
      BY <1>1, <3>1 DEF Contiguous
  <2> QED
    BY <2>1, <2>2
<1>4. ProgrammedPointer' = fromPc.Address + Len(fromPc.Data)
  BY <1>1, <1>3
<1>5. \A p : ~Doing(p)' /\ (Coming(p)' <=> Coming(p))
  BY <1>1 DEF Doing, Coming
<1>6. AfterPc' = AfterPc /\ AfterOut' = AfterOut
  BY <1>1, <1>4, <1>5 DEF AfterPc, AfterOut
<1>7. FromHost' = FromHost /\ FromOut' = FromOut /\ FromPc' = FromOut /\ FromPc = ProgrammedPointer'
  BY <1>1, <1>3, <1>5 DEF FromHost, FromOut, FromPc, Size
<1>8. buffer # <<>> => ProgrammedPointer' = ProgrammedPointer
  BY <1>1 DEF Pointer, BootTypeOK, BoardTypeOK
<1>9. Follows' /\ Free' /\ Last'
  BY <1>1, <1>5, <1>6, FreeKept DEF Follows, Last, Writing
<1>10. There'
  <2> SUFFICES ASSUME Writing
               PROVE  /\ \A c \in Cells : c < FromBuf' => flash[c] = image[c]
                      /\ Coming("program") => Gap(fromPcBuffer.Address + Len(fromPcBuffer.Data), FromHost)
                      /\ buffer # <<>> => Gap(ProgrammedPointer', FromOut)
    BY <1>1, <1>5, <1>7 DEF There, Writing, Gap, Has
  <2>1. Gap(ProgrammedPointer', FromOut)
    BY <1>1, <1>4 DEF There
  <2>2. ASSUME NEW c \in Cells, c < FromBuf' PROVE flash[c] = image[c]
    <3>1. CASE c < FromBuf
      BY <3>1 DEF There
    <3>2. CASE ~(c < FromBuf)
      <4>1. buffer = <<>>
        BY <1>1, <1>8, <2>2, <3>2 DEF FromBuf
      <4>2. FromBuf = ProgrammedPointer' /\ FromBuf' = FromOut
        BY <1>1, <1>7, <4>1 DEF FromBuf
      <4>3. c >= FromBuf
        BY <3>2, Places, Constant
      <4>4. ~Has(c)
        BY <2>1, <2>2, <4>2, <4>3, Places, Constant DEF Gap
      <4>5. flash[c] = Erased
        BY <4>3 DEF IInv, InOrder
      <4> QED
        BY <4>4, <4>5 DEF Has
    <3> QED
      BY <3>1, <3>2
  <2> QED
    BY <2>1, <2>2 DEF There
<1> QED
  BY <1>9, <1>10

LEMMA WriteWordPlain ==
    ASSUME BootTypeOK, IInv, Follows, Free, Last, There, WriteWord, UNCHANGED host
    PROVE  Follows' /\ Free' /\ Last' /\ There'
<1>1. UNCHANGED <<mode, outBusy, fromPcBuffer, BootState, fromPc, dealt, ProgrammedPointer,
                  hpc, at, hexBuf, attached, image, verdict>>
  BY DEF WriteWord, usb, host
<1>2. \A p : (Doing(p)' <=> Doing(p)) /\ (Coming(p)' <=> Coming(p))
  BY <1>1 DEF Doing, Coming
<1>3. AfterPc' = AfterPc /\ AfterOut' = AfterOut
  BY <1>1, <1>2 DEF AfterPc, AfterOut
<1>4. FromHost' = FromHost /\ FromOut' = FromOut /\ FromPc' = FromPc
  BY <1>1, <1>2 DEF FromHost, FromOut, FromPc, Size
<1>5. Follows' /\ Free' /\ Last'
  BY <1>1, <1>2, <1>3, FreeKept DEF Follows, Last, Writing
<1>6. /\ Len(buffer') = Len(buffer) - 1 /\ Len(buffer) > 0 /\ buffer # <<>> /\ Len(buffer) \in Nat
      /\ FromBuf = ProgrammedPointer - Len(buffer) /\ FromBuf \in Cells
      /\ flash' = [flash EXCEPT ![FromBuf] = buffer[1]] /\ flash \in [Cells -> Value]
  BY WritesWord, Numbers DEF BootTypeOK, BoardTypeOK
<1>7. There'
  <2> SUFFICES ASSUME Writing
               PROVE  /\ \A c \in Cells : c < FromBuf' => flash'[c] = image[c]
                      /\ Coming("program") => Gap(fromPcBuffer.Address + Len(fromPcBuffer.Data), FromHost)
                      /\ Doing("program") => Gap(fromPc.Address + Len(fromPc.Data), FromOut)
                      /\ buffer' # <<>> => Gap(ProgrammedPointer, FromPc)
    BY <1>1, <1>2, <1>4 DEF There, Writing, Gap, Has
  <2>1. /\ \A c \in Cells : c < FromBuf => flash[c] = image[c]
        /\ Gap(ProgrammedPointer, FromPc)
    BY <1>6 DEF There
  <2>2. flash'[FromBuf] = image[FromBuf]
    <3>1. OfFile(buffer, FromBuf)
      BY <1>6 DEF IInv, FileOnly
    <3>2. 1 \in 1 .. Len(buffer) /\ FromBuf + 1 - 1 = FromBuf
      BY <1>6, Constant
    <3>3. buffer[1] = image[FromBuf]
      BY <3>1, <3>2 DEF OfFile
    <3> QED
      BY <1>6, <3>3
  <2>3. ASSUME NEW c \in Cells, c < FromBuf' PROVE flash'[c] = image[c]
    <3>1. CASE c < FromBuf
      BY <1>6, <2>1, <3>1, Constant
    <3>2. CASE c = FromBuf
      BY <2>2, <3>2
    <3>3. CASE c > FromBuf
      <4>1. buffer' = <<>>
        <5>1. SUFFICES ASSUME buffer' # <<>> PROVE FALSE
          OBVIOUS
        <5>2. FromBuf' = ProgrammedPointer - Len(buffer')
          BY <1>1, <5>1 DEF FromBuf
        <5> QED
          BY <1>6, <2>3, <3>3, <5>2, Numbers, Constant
      <4>2. Len(buffer) = 1 /\ FromBuf' = FromPc
        BY <1>4, <1>6, <4>1, EmptyBlock DEF FromBuf
      <4>3. ProgrammedPointer <= c /\ c < FromPc
        BY <1>6, <2>3, <3>3, <4>2, Numbers, Constant
      <4>4. ~Has(c)
        BY <2>1, <4>3 DEF Gap
      <4>5. flash[c] = Erased
        BY <3>3, Places, Constant DEF IInv, InOrder
      <4>6. flash'[c] = flash[c]
        BY <1>6, <3>3, Constant
      <4> QED
        BY <4>4, <4>5, <4>6 DEF Has
    <3> QED
      BY <1>6, <3>1, <3>2, <3>3, Constant
  <2> QED
    BY <2>1, <2>3 DEF There
<1> QED
  BY <1>5, <1>7

LEMMA FlushedPlain ==
    ASSUME BootTypeOK, InStep, Follows, Free, Last, There, Flushed \/ ProgramComplete, UNCHANGED host
    PROVE  Follows' /\ Free' /\ Last' /\ There'
<1>1. /\ Doing("program") \/ Doing("complete")
      /\ UNCHANGED <<mode, outBusy, fromPcBuffer, fromPc, dealt, buffer, flash>>
      /\ UNCHANGED <<hpc, at, hexBuf, attached, image, verdict>>
      /\ \/ UNCHANGED <<ProgrammedPointer, BootState>>
         \/ Doing("complete") /\ BootState' = "idle" /\ ProgrammedPointer' = InvalidAddress /\ buffer = <<>>
  BY DEF Flushed, ProgramComplete, Ready, At, usb, host, InStep, Working, Doing
<1>2. /\ \A p : Coming(p)' <=> Coming(p)
      /\ \A p : Doing(p)' => Doing(p)
      /\ Doing("program")' <=> Doing("program")
  BY <1>1 DEF Doing, Coming
<1>3. AfterPc' = AfterPc
  BY <1>1 DEF AfterPc, Doing
<1>4. AfterOut' = AfterOut
  BY <1>1, <1>2, <1>3 DEF AfterOut
<1>5. FromHost' = FromHost /\ FromOut' = FromOut /\ FromPc' = FromPc
  BY <1>1, <1>2 DEF FromHost, FromOut, FromPc, Size
<1>6. FromBuf' = FromBuf
  BY <1>1, <1>5 DEF FromBuf
<1>7. Follows'
  BY <1>1, <1>2, <1>3 DEF Follows, Doing
<1>8. Free' /\ Last'
  BY <1>1, <1>2, <1>4, FreeKept DEF Last, Writing
<1>9. There'
  BY <1>1, <1>2, <1>5, <1>6 DEF There, Writing, Gap, Has
<1> QED
  BY <1>7, <1>8, <1>9

LEMMA BoardPlain ==
    ASSUME BootTypeOK, IInv, InStep, Follows, Free, Last, There, BoardStep, UNCHANGED host
    PROVE  Follows' /\ Free' /\ Last' /\ There'
  BY ReceivePlain, RepliesPlain, ErasePagePlain, TakeWordPlain, ProgramDonePlain, WriteWordPlain,
     FlushedPlain DEF BoardStep
-----------------------------------------------------------------------------
(* The steps of the session.                                               *)
LEMMA OrderlyImage ==
    ASSUME Plain, Chosen(image, verify, reset), image \notin ShortEnds
    PROVE  image \in WholeBlocks /\ image \in OneSection /\ reset = TRUE
  BY DEF Plain, Orderly, Chosen, OneSection

LEMMA FullEnd ==
    ASSUME BootTypeOK, NEW b \in Nat, Aligned(b), b > 0, Has(b - 1), ~Has(b)
    PROVE  image \notin ShortEnds
<1>1. /\ b + 0 = b /\ b + 0 > 0 /\ b + 0 - 1 = b - 1 /\ 0 < BlockCells /\ 0 \in Nat
      /\ \A c \in b .. (b + 0 - 1) : Has(c)
  BY Constant
<1>2. PICK s \in Sections(image) : s[2] = b + 0 - 1
  BY <1>1, EndIsThere
<1>3. EndsFull(s)
  BY <1>1, <1>2, EndsHere
<1> QED
  BY <1>3 DEF ShortEnds

LEMMA NoneBehind ==
    ASSUME BootTypeOK, image \in OneSection, NEW b \in Nat, b > 0, Has(b - 1), ~Has(b)
    PROVE  \A c \in Cells : c >= b => ~Has(c)
<1> SUFFICES ASSUME NEW c \in Cells, c >= b, Has(c) PROVE FALSE
  OBVIOUS
<1>1. b - 1 \in Cells /\ b \in (b - 1) .. c
  BY Constant DEF Has
<1>2. image[b] # Erased
  BY <1>1 DEF OneSection, Has
<1>3. b \in Cells
  BY HostFacts
<1> QED
  BY <1>2, <1>3 DEF Has

LEMMA NothingBuffered ==
    ASSUME IInv, ~Doing("program"), ~Doing("complete"), hpc # "complete",
           outBusy \/ BootState # "idle"
    PROVE  buffer = <<>>
  BY DEF IInv, Flushes, CompleteFollows, Coming

LEMMA FurtherThere ==
    ASSUME BootTypeOK, IInv, There, Writing,
           UNCHANGED <<flash, buffer, ProgrammedPointer, dealt, fromPc, image>>,
           Doing("program")' <=> Doing("program"), Coming("program")' <=> Coming("program"),
           Coming("program") => fromPcBuffer' = fromPcBuffer,
           FromHost' \in Nat, FromHost <= FromHost', Gap(FromHost, FromHost')
    PROVE  There'
<1>1. FromOut' \in Nat /\ FromOut <= FromOut' /\ Gap(FromOut, FromOut')
  <2>1. CASE Coming("program")
    <3>1. FromOut' = FromOut
      BY <2>1 DEF FromOut
    <3> QED
      BY <3>1, Places, Constant DEF Gap
  <2>2. CASE ~Coming("program")
    BY <2>2 DEF FromOut
  <2> QED
    BY <2>1, <2>2
<1>2. FromPc' \in Nat /\ FromPc <= FromPc' /\ Gap(FromPc, FromPc')
  <2>1. CASE Doing("program")
    <3>1. FromPc' = FromPc
      BY <2>1 DEF FromPc
    <3> QED
      BY <3>1, Places, Constant DEF Gap
  <2>2. CASE ~Doing("program")
    BY <1>1, <2>2 DEF FromPc
  <2> QED
    BY <2>1, <2>2
<1>3. FromBuf' \in Int /\ FromBuf <= FromBuf' /\ Gap(FromBuf, FromBuf')
  <2>1. CASE buffer # <<>>
    <3>1. FromBuf' = FromBuf
      BY <2>1 DEF FromBuf
    <3> QED
      BY <3>1, Places, Constant DEF Gap
  <2>2. CASE buffer = <<>>
    BY <1>2, <2>2 DEF FromBuf
  <2> QED
    BY <2>1, <2>2
<1>4. ASSUME NEW a \in Nat, NEW b \in Nat, NEW d \in Nat, Gap(a, b), Gap(b, d) PROVE Gap(a, d)
  <2>1. \A c \in Cells : a <= c /\ c < d => (a <= c /\ c < b) \/ (b <= c /\ c < d)
    BY Constant
  <2> QED
    BY <1>4, <2>1 DEF Gap
<1>5. \A c \in Cells : c < FromBuf' => flash[c] = image[c]
  <2> SUFFICES ASSUME NEW c \in Cells, c < FromBuf' PROVE flash[c] = image[c]
    OBVIOUS
  <2>1. CASE c < FromBuf
    BY <2>1 DEF There
  <2>2. CASE ~(c < FromBuf)
    <3>1. c >= FromBuf
      BY <2>2, Places, Constant
    <3>2. ~Has(c)
      BY <1>3, <3>1, Places, Constant DEF Gap
    <3>3. flash[c] = Erased
      BY <3>1 DEF IInv, InOrder
    <3> QED
      BY <3>2, <3>3 DEF Has
  <2> QED
    BY <2>1, <2>2
<1>6. Coming("program") => Gap(fromPcBuffer.Address + Len(fromPcBuffer.Data), FromHost')
  <2>1. PICK a \in Nat, b \in Nat : a = fromPcBuffer.Address + Len(fromPcBuffer.Data) /\ b = FromHost
    BY Numbers, Places
  <2> QED
    BY <2>1, <1>4 DEF There
<1>7. Doing("program") => Gap(fromPc.Address + Len(fromPc.Data), FromOut')
  <2>1. PICK a \in Nat, b \in Nat, d \in Nat :
           a = fromPc.Address + Len(fromPc.Data) /\ b = FromOut /\ d = FromOut'
    BY <1>1, Numbers, Places
  <2> QED
    BY <2>1, <1>1, <1>4 DEF There
<1>8. buffer # <<>> => Gap(ProgrammedPointer, FromPc')
  <2>1. PICK a \in Nat, b \in Nat, d \in Nat : a = ProgrammedPointer /\ b = FromPc /\ d = FromPc'
    BY <1>2, Numbers, Places
  <2> QED
    BY <2>1, <1>2, <1>4 DEF There
<1> QED
  BY <1>5, <1>6, <1>7, <1>8 DEF There, Gap, Has

(* The device does not change.                                             *)
LEMMA DevicePlain ==
    ASSUME Follows, UNCHANGED device
    PROVE  /\ Follows' /\ AfterOut' = AfterOut
           /\ \A p : (Doing(p)' <=> Doing(p)) /\ (Coming(p)' <=> Coming(p))
<1>1. /\ UNCHANGED <<outBusy, fromPcBuffer, BootState, fromPc, dealt, ProgrammedPointer>>
      /\ \A p : (Doing(p)' <=> Doing(p)) /\ (Coming(p)' <=> Coming(p))
  BY DEF device, Doing, Coming
<1>2. AfterPc' = AfterPc /\ AfterOut' = AfterOut
  BY <1>1 DEF AfterPc, AfterOut
<1> QED
  BY <1>1, <1>2 DEF Follows

LEMMA NothingHerePlain ==
    ASSUME BootTypeOK, IInv, Reading, Plain, Chosen(image, verify, reset),
           Follows, Free, Last, There, NothingHere
    PROVE  Follows' /\ Free' /\ Last' /\ There'
<1>1. /\ hpc \in {"write", "verify"} /\ ~Has(at) /\ hexBuf = <<>> /\ hexBuf' = <<>>
      /\ UNCHANGED <<hpc, attached, image, verdict>> /\ UNCHANGED device
      /\ BlockFrom = at /\ BlockFrom' = at + 1 /\ at' = at + 1 /\ at \in Nat
  BY NothingHereReading, HostFacts DEF NothingHere, Options
<1>2. /\ Follows' /\ AfterOut' = AfterOut
      /\ \A p : (Doing(p)' <=> Doing(p)) /\ (Coming(p)' <=> Coming(p))
  BY <1>1, DevicePlain
<1>3. Last'
  BY <1>1, <1>2 DEF Last, Writing, device
<1>4. Free'
  <2>0. (image \in ShortEnds)' <=> image \in ShortEnds
    BY <1>1 DEF ShortEnds
  <2>1. CASE AfterOut = InvalidAddress
    BY <1>2, <2>1 DEF Free, InvalidAddress
  <2>2. CASE hpc = "verify" /\ AfterOut # InvalidAddress
    BY <1>1, <1>2, <2>0, <2>2 DEF Free, InvalidAddress
  <2>3. CASE hpc = "write" /\ AfterOut # InvalidAddress
    <3>1. image \notin ShortEnds /\ \A c \in Cells : c >= at => ~Has(c)
      <4>1. CASE AfterOut = BlockFrom /\ Aligned(BlockFrom) /\ BlockFrom > 0 /\ Has(BlockFrom - 1)
        <5>1. PICK b \in Nat : b = at
          BY <1>1
        <5>2. Aligned(b) /\ b > 0 /\ Has(b - 1) /\ ~Has(b)
          BY <1>1, <4>1, <5>1
        <5>3. image \notin ShortEnds
          BY <5>2, FullEnd
        <5>4. image \in OneSection
          BY <5>3, OrderlyImage
        <5> QED
          BY <5>1, <5>2, <5>3, <5>4, NoneBehind
      <4>2. CASE image \notin ShortEnds /\ \A c \in Cells : c >= at => ~Has(c)
        BY <4>2
      <4> QED
        BY <2>3, <4>1, <4>2 DEF Free
    <3>2. \A c \in Cells : c >= at + 1 => ~Has(c)
      BY <1>1, <3>1, Constant
    <3> QED
      BY <1>1, <2>0, <2>3, <3>1, <3>2 DEF Free, Has
  <2> QED
    BY <1>1, <2>1, <2>2, <2>3
<1>5. There'
  <2>1. FromHost' \in Nat /\ FromHost <= FromHost' /\ Gap(FromHost, FromHost')
    <3>1. CASE hpc = "write"
      <4>1. FromHost = at /\ FromHost' = at + 1
        BY <1>1, <3>1 DEF FromHost, BlockFrom, Last
      <4>2. \A c \in Cells : at <= c /\ c < at + 1 => c = at
        BY <1>1, Constant
      <4> QED
        BY <1>1, <4>1, <4>2 DEF Gap
    <3>2. CASE hpc = "verify"
      <4>1. FromHost = Size /\ FromHost' = Size
        BY <1>1, <3>2 DEF FromHost, Size
      <4> QED
        BY <4>1, Places, Constant DEF Gap
    <3> QED
      BY <1>1, <3>1, <3>2
  <2>2. Writing
    BY <1>1 DEF Writing
  <2> QED
    BY <1>1, <1>2, <2>1, <2>2, FurtherThere DEF device
<1> QED
  BY <1>2, <1>3, <1>4, <1>5

LEMMA ReadWordPlain ==
    ASSUME BootTypeOK, IInv, Reading, Follows, Free, Last, There, ReadWord
    PROVE  Follows' /\ Free' /\ Last' /\ There'
<1>1. /\ hpc \in {"write", "verify"} /\ Has(at) /\ at \in Cells
      /\ UNCHANGED <<hpc, attached, image, verdict>> /\ UNCHANGED device
      /\ BlockFrom' = BlockFrom
  BY ReadWordReading DEF ReadWord, Options, Has
<1>2. /\ Follows' /\ AfterOut' = AfterOut
      /\ \A p : (Doing(p)' <=> Doing(p)) /\ (Coming(p)' <=> Coming(p))
  BY <1>1, DevicePlain
<1>3. Last'
  BY <1>1, <1>2 DEF Last, Writing, device
<1>4. ~\A c \in Cells : c >= at => ~Has(c)
  <2>1. at >= at
    BY <1>1, Constant
  <2> QED
    BY <1>1, <2>1
<1>5. Free'
  <2>1. (image \in ShortEnds)' <=> image \in ShortEnds
    BY <1>1 DEF ShortEnds
  <2>2. (Aligned(BlockFrom)' <=> Aligned(BlockFrom)) /\ (Has(BlockFrom - 1)' <=> Has(BlockFrom - 1))
    BY <1>1 DEF Aligned, SectionStart, Has
  <2> QED
    BY <1>1, <1>2, <1>4, <2>1, <2>2 DEF Free, InvalidAddress
<1>6. There'
  <2>1. FromHost' = FromHost
    BY <1>1 DEF FromHost, BlockFrom, Size
  <2>2. Gap(FromHost, FromHost)
    BY Places, Constant DEF Gap
  <2>3. Writing
    BY <1>1 DEF Writing
  <2> QED
    BY <1>1, <1>2, <2>1, <2>2, <2>3, Places, FurtherThere DEF device
<1> QED
  BY <1>2, <1>3, <1>5, <1>6

LEMMA WriteBlockPlain ==
    ASSUME BootTypeOK, IInv, Reading, Follows, Free, Last, There, WriteBlock
    PROVE  Follows' /\ Free' /\ Last' /\ There'
<1>1. /\ hpc = "write" /\ BlockReady /\ hexBuf' = <<>> /\ outBusy /\ ~outBusy' /\ attached
      /\ fromPcBuffer' = Packet("program", BlockFrom, hexBuf)
      /\ UNCHANGED <<mode, flash, buffer, ProgrammedPointer, dealt, fromPc, BootState>>
      /\ UNCHANGED <<image, at, attached, verdict>>
      /\ hpc' = IF Len(hexBuf) < BlockCells THEN "complete" ELSE "write"
  BY DEF WriteBlock, HandOver, work, Options
<1>2. /\ fromPcBuffer'.Command = "program" /\ fromPcBuffer'.Address = BlockFrom
      /\ fromPcBuffer'.Data = hexBuf
  BY <1>1 DEF Packet
<1>3. /\ \A p : ~Coming(p) /\ (Doing(p)' <=> Doing(p))
      /\ \A p : Coming(p)' <=> p = "program"
  BY <1>1, <1>2 DEF Coming, Doing
<1>4. /\ BlockFrom \in Nat /\ at \in Nat /\ BlockFrom + Len(hexBuf) = at /\ hexBuf # <<>>
      /\ Len(hexBuf') = 0 /\ BlockFrom < at /\ Len(hexBuf) \in Nat
  BY <1>1, HostFacts, Constant, EmptyBlock DEF BlockReady
<1>5. AfterPc' = AfterPc /\ AfterOut = AfterPc
  BY <1>1, <1>3 DEF AfterPc, AfterOut
<1>6. AfterPc \in {InvalidAddress, BlockFrom}
  BY <1>1, <1>4, <1>5 DEF Free
<1>7. AfterOut' = at
  BY <1>2, <1>3, <1>4 DEF AfterOut
<1>8. Follows'
  BY <1>1, <1>2, <1>3, <1>5, <1>6 DEF Follows, InvalidAddress
<1>9. Last'
  BY <1>1, <1>3 DEF Last, Writing
<1>10. Free'
  <2>1. CASE Len(hexBuf) < BlockCells
    BY <1>1, <2>1 DEF Free
  <2>2. CASE ~(Len(hexBuf) < BlockCells)
    <3>1. Len(hexBuf) = BlockCells
      BY <2>2, HostFacts, Constant
    <3>2. BlockFrom' = at /\ Aligned(at)
      BY <1>1, <2>2, <3>1, NextBlock
    <3>3. at - 1 \in BlockFrom .. (at - 1)
      BY <1>4
    <3>4. Has(at - 1)
      BY <1>1, <3>3 DEF Reading
    <3>5. Aligned(BlockFrom)' /\ Has(BlockFrom - 1)' /\ BlockFrom' > 0
      BY <1>1, <1>4, <3>2, <3>4 DEF Aligned, SectionStart, Has
    <3> QED
      BY <1>1, <1>7, <2>2, <3>2, <3>5 DEF Free
  <2> QED
    BY <2>1, <2>2
<1>11. There'
  <2>1. FromHost = BlockFrom /\ FromHost' = at
    BY <1>1, <1>4 DEF FromHost, BlockFrom
  <2>2. FromOut' = FromOut
    BY <1>2, <1>3, <2>1 DEF FromOut
  <2>3. FromPc' = FromPc /\ FromBuf' = FromBuf
    BY <1>1, <1>3, <2>2 DEF FromPc, FromBuf
  <2>4. Gap(fromPcBuffer.Address + Len(fromPcBuffer.Data), FromHost)'
    BY <1>2, <1>4, <2>1, Constant DEF Gap
  <2>5. Writing
    BY <1>1 DEF Writing
  <2> QED
    BY <1>1, <1>3, <2>2, <2>3, <2>4, <2>5 DEF There, Gap, Has
<1> QED
  BY <1>8, <1>9, <1>10, <1>11

(* What the PC fetches leaves the pointer and the commands alone.          *)
LEMMA FetchPlain ==
    ASSUME Follows, UNCHANGED <<outBusy, fromPcBuffer, work>>
    PROVE  /\ Follows' /\ AfterOut' = AfterOut
           /\ \A p : (Doing(p)' <=> Doing(p)) /\ (Coming(p)' <=> Coming(p))
<1>1. /\ UNCHANGED <<outBusy, fromPcBuffer, BootState, fromPc, dealt, ProgrammedPointer>>
      /\ \A p : (Doing(p)' <=> Doing(p)) /\ (Coming(p)' <=> Coming(p))
  BY DEF work, Doing, Coming
<1>2. AfterPc' = AfterPc /\ AfterOut' = AfterOut
  BY <1>1 DEF AfterPc, AfterOut
<1> QED
  BY <1>1, <1>2 DEF Follows

(* A command that is no block.                                             *)
LEMMA CommandPlain ==
    ASSUME Follows, NEW cmd \in {"query", "erase", "complete", "get", "reset"}, NEW adr, NEW data,
           HandOver(cmd, adr, data)
    PROVE  /\ Follows' /\ attached /\ UNCHANGED <<mode, flash, buffer, ProgrammedPointer, dealt, fromPc>>
           /\ AfterOut' = IF cmd \in {"complete", "reset"} THEN InvalidAddress ELSE AfterOut
           /\ \A p : ~Coming(p) /\ (Coming(p)' <=> p = cmd) /\ (Doing(p)' <=> Doing(p))
<1>1. /\ outBusy /\ ~outBusy' /\ fromPcBuffer'.Command = cmd /\ attached
      /\ UNCHANGED <<mode, BootState, fromPc, dealt, ProgrammedPointer, buffer, flash>>
  BY DEF HandOver, Packet, work
<1>2. \A p : ~Coming(p) /\ (Coming(p)' <=> p = cmd) /\ (Doing(p)' <=> Doing(p))
  BY <1>1 DEF Coming, Doing
<1>3. AfterPc' = AfterPc
  BY <1>1, <1>2 DEF AfterPc
<1>4. AfterOut' = IF cmd \in {"complete", "reset"} THEN InvalidAddress ELSE AfterOut
  BY <1>2, <1>3 DEF AfterOut
<1> QED
  BY <1>1, <1>2, <1>4 DEF Follows

(* The PC has nothing left to send, or nothing more than before.           *)
LEMMA SameThere ==
    ASSUME BootTypeOK, IInv, There, Writing,
           UNCHANGED <<flash, buffer, ProgrammedPointer, dealt, fromPc, image>>,
           Doing("program")' <=> Doing("program"), Coming("program")' <=> Coming("program"),
           Coming("program") => fromPcBuffer' = fromPcBuffer, FromHost' = FromHost
    PROVE  There'
<1>1. FromHost' \in Nat /\ FromHost <= FromHost' /\ Gap(FromHost, FromHost')
  BY Places, Constant DEF Gap
<1> QED
  BY <1>1, FurtherThere

LEMMA QueryPlain ==
    ASSUME InStep, Follows, Free, Last, Query \/ Erase
    PROVE  Follows' /\ Free' /\ Last' /\ There'
<1>1. /\ hpc \in {"query", "erase", "erased"} /\ hpc' \in {"query", "erased"}
      /\ (hpc # "erase" => hpc' = hpc) /\ verdict' = verdict /\ attached' = attached
      /\ HandOver("query", 0, <<>>) \/ HandOver("erase", 0, <<>>)
  BY DEF Query, Erase, Options
<1>2. verdict = "none"
  BY <1>1 DEF InStep, Working
<1>3. /\ Follows' /\ attached /\ mode' = mode /\ AfterOut' = AfterOut
      /\ \A p : Doing(p)' <=> Doing(p)
      /\ ~Coming("reset")' /\ ~Coming("program")'
  BY <1>1, CommandPlain
<1>4. ~Writing' /\ ~Writing
  BY <1>1, <1>2 DEF Writing
<1> QED
  BY <1>1, <1>3, <1>4 DEF Free, Last, There, InvalidAddress

LEMMA QueryAnsweredPlain ==
    ASSUME BootTypeOK, IInv, InStep, Reading, Follows, Free, Last, QueryAnswered
    PROVE  Follows' /\ Free' /\ Last' /\ There'
<1>1. /\ hpc \in {"query", "erased"} /\ hpc' = IF hpc = "query" THEN "erase" ELSE "write"
      /\ attached /\ waiting /\ inBusy
      /\ UNCHANGED <<mode, outBusy, fromPcBuffer, work, flash, at, hexBuf, verdict, attached, image>>
  BY DEF QueryAnswered, Fetch, Options
<1>2. /\ Follows' /\ AfterOut' = AfterOut
      /\ \A p : (Doing(p)' <=> Doing(p)) /\ (Coming(p)' <=> Coming(p))
  BY <1>1, FetchPlain
<1>3. outBusy /\ BootState = "idle" /\ \A p : ~Coming(p) /\ ~Doing(p)
  BY <1>1 DEF IInv, OneQuestion, Coming, Doing
<1>4. verdict = "none" /\ AfterOut = InvalidAddress /\ at = 0 /\ hexBuf = <<>>
  BY <1>1 DEF InStep, Working, Free, Reading
<1>5. buffer = <<>> /\ buffer' = <<>>
  BY <1>1, <1>3, NothingBuffered DEF work
<1>6. There'
  <2> SUFFICES ASSUME hpc' = "write" PROVE \A c \in Cells : ~(c < FromBuf')
    BY <1>1, <1>2, <1>3, <1>4, <1>5 DEF There, Writing
  <2>1. FromHost' = 0
    <3>1. FromHost' = at' - Len(hexBuf')
      BY <1>1 DEF FromHost
    <3>2. at' = 0 /\ Len(hexBuf') = 0
      BY <1>1, <1>4, EmptyBlock
    <3> QED
      BY <3>1, <3>2
  <2>2. FromBuf' = 0
    BY <1>2, <1>3, <1>5, <2>1 DEF FromBuf, FromPc, FromOut
  <2> QED
    BY <2>2, Constant
<1> QED
  BY <1>1, <1>2, <1>3, <1>4, <1>6 DEF Free, Last, InvalidAddress

LEMMA SectionCompletePlain ==
    ASSUME BootTypeOK, IInv, Follows, Free, Last, There, SectionComplete
    PROVE  Follows' /\ Free' /\ Last' /\ There'
<1>1. /\ hpc = "complete" /\ hpc' = "write" /\ HandOver("complete", 0, <<>>)
      /\ UNCHANGED <<at, hexBuf, verdict, attached, image>>
  BY DEF SectionComplete, Options
<1>2. /\ Follows' /\ attached /\ UNCHANGED <<mode, flash, buffer, ProgrammedPointer, dealt, fromPc>>
      /\ AfterOut' = InvalidAddress
      /\ \A p : ~Coming(p) /\ (Coming(p)' <=> p = "complete") /\ (Doing(p)' <=> Doing(p))
  BY <1>1, CommandPlain
<1>3. Writing /\ FromHost' = FromHost
  BY <1>1 DEF Writing, FromHost
<1>4. There'
  BY <1>1, <1>2, <1>3, SameThere
<1> QED
  BY <1>1, <1>2, <1>3, <1>4 DEF Free, Last, InvalidAddress

(* The end of the write pass.                                              *)
LEMMA WriteEndsPlain ==
    ASSUME BootTypeOK, IInv, InStep, Reading, Plain, Chosen(image, verify, reset),
           Follows, Free, Last, There, WriteEnds
    PROVE  Follows' /\ Free' /\ Last' /\ There'
<1>1. /\ hpc = "write" /\ hexBuf = <<>> /\ at = Size /\ hpc' \in {"verify", "reset", "off"}
      /\ (hpc' = "off" => ~reset) /\ verdict = "none"
      /\ UNCHANGED <<attached, image>> /\ UNCHANGED device
  BY DEF WriteEnds, PassOver, Finish, Options, Size, InStep, Working
<1>2. /\ Follows' /\ AfterOut' = AfterOut
      /\ \A p : (Doing(p)' <=> Doing(p)) /\ (Coming(p)' <=> Coming(p))
  BY <1>1, DevicePlain
<1>3. attached /\ Writing /\ mode' = mode
  BY <1>1 DEF Last, Writing, device
<1>4. BlockFrom = Size /\ Size \in Nat /\ FromHost = Size /\ FromHost' = Size
  BY <1>1, <1>3, HostFacts, EmptyBlock DEF FromHost, BlockFrom, Size
<1>5. AfterOut = InvalidAddress \/ image \notin ShortEnds
  <2>1. ~Has(Size)
    BY HostFacts DEF Has
  <2>2. CASE Aligned(BlockFrom) /\ BlockFrom > 0 /\ Has(BlockFrom - 1)
    <3>1. PICK b \in Nat : b = Size
      BY <1>4
    <3>2. Aligned(b) /\ b > 0 /\ Has(b - 1) /\ ~Has(b)
      BY <1>4, <2>1, <2>2, <3>1
    <3> QED
      BY <3>2, FullEnd
  <2> QED
    BY <1>1, <2>2 DEF Free
<1>6. Free'
  <2>1. image \notin ShortEnds => reset = TRUE
    BY OrderlyImage
  <2>2. (image \in ShortEnds)' <=> image \in ShortEnds
    BY <1>1 DEF ShortEnds
  <2> QED
    BY <1>1, <1>2, <1>5, <2>1, <2>2 DEF Free, InvalidAddress
<1>7. There'
  BY <1>1, <1>2, <1>3, <1>4, SameThere DEF device
<1>8. Last'
  BY <1>1, <1>2, <1>3 DEF Last
<1> QED
  BY <1>2, <1>6, <1>7, <1>8

LEMMA AskBlockPlain ==
    ASSUME BootTypeOK, IInv, Follows, Free, Last, There, AskBlock
    PROVE  Follows' /\ Free' /\ Last' /\ There'
<1>1. /\ hpc = "verify" /\ HandOver("get", BlockFrom, hexBuf)
      /\ UNCHANGED <<hpc, at, hexBuf, verdict, attached, image>>
  BY DEF AskBlock, Options
<1>2. /\ Follows' /\ attached /\ UNCHANGED <<mode, flash, buffer, ProgrammedPointer, dealt, fromPc>>
      /\ AfterOut' = AfterOut
      /\ \A p : ~Coming(p) /\ (Coming(p)' <=> p = "get") /\ (Doing(p)' <=> Doing(p))
  BY <1>1, CommandPlain
<1>3. Writing /\ FromHost' = FromHost
  BY <1>1 DEF Writing, FromHost, Size
<1>4. There'
  BY <1>1, <1>2, <1>3, SameThere
<1>5. Free'
  BY <1>1, <1>2, FreeKept
<1> QED
  BY <1>1, <1>2, <1>3, <1>4, <1>5 DEF Last

(* What is there compares, when all blocks are full.                       *)
LEMMA AllCompares ==
    ASSUME BootTypeOK, IInv, InStep, Reading, Looking, There, image \in WholeBlocks, BlockVerified
    PROVE  hpc' = "verify"
<1>1. hpc = "verify" /\ attached /\ waiting /\ inBusy
  BY DEF BlockVerified, Fetch
<1>2. outBusy /\ BootState = "idle" /\ \A p : ~Coming(p) /\ ~Doing(p)
  BY <1>1 DEF IInv, OneQuestion, Coming, Doing
<1>3. buffer = <<>>
  BY <1>1, <1>2, NothingBuffered
<1>4. FromBuf = Size
  BY <1>1, <1>2, <1>3 DEF FromBuf, FromPc, FromOut, FromHost
<1>5. \A c \in Cells : flash[c] = image[c]
  <2>1. \A c \in Cells : c < Size
    BY HostFacts
  <2> QED
    BY <1>1, <1>4, <2>1 DEF There, Writing
<1>6. BlockReady /\ toPc = Block(BlockFrom, Len(hexBuf))
  BY <1>1 DEF Looking
<1>7. /\ Len(hexBuf) = BlockCells /\ OfFile(hexBuf, BlockFrom)
      /\ \A c \in BlockFrom .. (at - 1) : Has(c)
  BY <1>1, <1>6, BlockLeaves, HostFacts, Constant
<1>8. \A k \in 1 .. BlockCells : toPc[k] = hexBuf[k]
  <2> SUFFICES ASSUME NEW k \in 1 .. BlockCells PROVE toPc[k] = hexBuf[k]
    OBVIOUS
  <2>1. PICK b \in Nat : b = BlockFrom
    BY HostFacts
  <2>2. b + k - 1 \in b .. (at - 1)
    BY <1>7, <2>1, HostFacts, Constant
  <2>3. b + k - 1 \in Cells
    BY <1>7, <2>1, <2>2 DEF Has
  <2>4. toPc[k] = flash[b + k - 1]
    BY <1>6, <1>7, <2>1, <2>3, Constant DEF Block
  <2>5. hexBuf[k] = image[b + k - 1]
    BY <1>7, <2>1 DEF OfFile
  <2> QED
    BY <1>5, <2>3, <2>4, <2>5
<1>9. RightJustified(Len(hexBuf)) = hexBuf
  <2>1. toPc \in [1 .. BlockCells -> Value] /\ BlockCells \in Nat /\ hexBuf \in Seq(Value)
    BY HostFacts, Constant DEF BootTypeOK, BoardTypeOK
  <2>2. toPc \in Seq(Value) /\ Len(toPc) = BlockCells
    BY <2>1
  <2>3. toPc = hexBuf
    BY <1>7, <1>8, <2>1, <2>2
  <2>4. RightJustified(Len(hexBuf)) = SubSeq(toPc, 1, BlockCells)
    BY <1>7, Constant DEF RightJustified
  <2>5. SubSeq(toPc, 1, BlockCells) = toPc
    BY <2>2, Constant
  <2> QED
    BY <2>3, <2>4, <2>5
<1> QED
  BY <1>1, <1>9 DEF BlockVerified

LEMMA BlockVerifiedPlain ==
    ASSUME BootTypeOK, IInv, InStep, Reading, Looking, Plain, Chosen(image, verify, reset),
           Follows, Free, Last, There, BlockVerified
    PROVE  Follows' /\ Free' /\ Last' /\ There'
<1>1. /\ hpc = "verify" /\ hpc' \in {"verify", "off"} /\ attached
      /\ UNCHANGED <<mode, outBusy, fromPcBuffer, work, flash, attached, image>>
      /\ verdict = "none"
  BY DEF BlockVerified, Fetch, Options, InStep, Working
<1>2. /\ Follows' /\ AfterOut' = AfterOut
      /\ \A p : (Doing(p)' <=> Doing(p)) /\ (Coming(p)' <=> Coming(p))
  BY <1>1, FetchPlain
<1>3. Writing /\ FromHost' = FromHost
  BY <1>1 DEF Writing, FromHost, Size
<1>4. There'
  BY <1>1, <1>2, <1>3, SameThere DEF work
<1>5. Free'
  <2>1. (image \in ShortEnds)' <=> image \in ShortEnds
    BY <1>1 DEF ShortEnds
  <2>2. image \notin ShortEnds => hpc' = "verify"
    BY OrderlyImage, AllCompares
  <2> QED
    BY <1>1, <1>2, <2>1, <2>2 DEF Free, InvalidAddress
<1>6. Last'
  BY <1>1, <1>2, <1>3 DEF Last
<1> QED
  BY <1>2, <1>4, <1>5, <1>6

LEMMA VerifyEndsPlain ==
    ASSUME BootTypeOK, IInv, InStep, Plain, Chosen(image, verify, reset),
           Follows, Free, Last, There, VerifyEnds
    PROVE  Follows' /\ Free' /\ Last' /\ There'
<1>1. /\ hpc = "verify" /\ hpc' = IF reset THEN "reset" ELSE "off"
      /\ UNCHANGED <<attached, image>> /\ UNCHANGED device
  BY DEF VerifyEnds, Finish, Options
<1>2. /\ Follows' /\ AfterOut' = AfterOut
      /\ \A p : (Doing(p)' <=> Doing(p)) /\ (Coming(p)' <=> Coming(p))
  BY <1>1, DevicePlain
<1>3. Writing /\ FromHost' = FromHost /\ attached /\ mode' = mode
  BY <1>1 DEF Writing, FromHost, Size, Last, device
<1>4. There'
  BY <1>1, <1>2, <1>3, SameThere DEF device
<1>5. Free'
  <2>1. (image \in ShortEnds)' <=> image \in ShortEnds
    BY <1>1 DEF ShortEnds
  <2> QED
    BY <1>1, <1>2, <2>1, OrderlyImage DEF Free, InvalidAddress
<1>6. Last'
  BY <1>1, <1>2, <1>3 DEF Last
<1> QED
  BY <1>2, <1>4, <1>5, <1>6

LEMMA ResetBoardPlain ==
    ASSUME BootTypeOK, IInv, Follows, Free, Last, There, ResetBoard
    PROVE  Follows' /\ Free' /\ Last' /\ There'
<1>1. /\ hpc = "reset" /\ hpc' = "off" /\ HandOver("reset", 0, <<>>) /\ UNCHANGED <<attached, image>>
  BY DEF ResetBoard, Options
<1>2. /\ Follows' /\ attached /\ UNCHANGED <<mode, flash, buffer, ProgrammedPointer, dealt, fromPc>>
      /\ AfterOut' = InvalidAddress
      /\ \A p : ~Coming(p) /\ (Coming(p)' <=> p = "reset") /\ (Doing(p)' <=> Doing(p))
  BY <1>1, CommandPlain
<1>3. Writing /\ FromHost' = FromHost
  BY <1>1 DEF Writing, FromHost, Size
<1>4. There'
  BY <1>1, <1>2, <1>3, SameThere
<1> QED
  BY <1>1, <1>2, <1>3, <1>4 DEF Free, Last, InvalidAddress

LEMMA LineFailsPlain ==
    ASSUME Follows, Free, Last, LineFails
    PROVE  Follows' /\ Free' /\ Last' /\ There'
<1>1. /\ hpc # "off" /\ hpc' = "off" /\ verdict' = "error" /\ ~attached
      /\ UNCHANGED <<attached, image>> /\ UNCHANGED device
  BY DEF LineFails, Options
<1>2. /\ Follows' /\ AfterOut' = AfterOut
      /\ \A p : (Doing(p)' <=> Doing(p)) /\ (Coming(p)' <=> Coming(p))
  BY <1>1, DevicePlain
<1>3. hpc = "query" /\ mode' = mode
  BY <1>1 DEF Last, device
<1>4. AfterOut = InvalidAddress /\ ~Writing'
  BY <1>1, <1>3 DEF Free, Writing
<1> QED
  BY <1>1, <1>2, <1>3, <1>4 DEF Free, Last, There, InvalidAddress

LEMMA SessionPlain ==
    ASSUME BootTypeOK, IInv, InStep, Reading, Looking, Plain, Chosen(image, verify, reset),
           Follows, Free, Last, There, SessionStep
    PROVE  Follows' /\ Free' /\ Last' /\ There'
  BY QueryPlain, QueryAnsweredPlain, ReadWordPlain, NothingHerePlain, WriteBlockPlain,
     SectionCompletePlain, WriteEndsPlain, AskBlockPlain, BlockVerifiedPlain, VerifyEndsPlain,
     ResetBoardPlain, LineFailsPlain DEF SessionStep
-----------------------------------------------------------------------------
(* The board starts again, with nothing on its way.                        *)
LEMMA GonePlain ==
    ASSUME There, NEW start \in BOOLEAN, Restart(start), Gone, BootTypeOK,
           hpc \in {"off", "query"}, buffer = <<>>,
           ~Doing("program"), ~Coming("program")
    PROVE  Follows' /\ Free' /\ Last' /\ There'
<1>1. /\ outBusy' /\ BootState' = "idle" /\ buffer' = <<>> /\ ProgrammedPointer' = InvalidAddress
      /\ ~attached' /\ UNCHANGED <<hpc, image, verdict, flash>>
  BY DEF Restart, Fresh, Gone
<1>2. \A p : ~Doing(p)' /\ ~Coming(p)'
  BY <1>1 DEF Doing, Coming
<1>3. AfterOut' = InvalidAddress
  BY <1>1, <1>2 DEF AfterOut, AfterPc, InvalidAddress
<1>4. Writing => \A c \in Cells : flash[c] = image[c]
  <2>1. FromBuf = Size
    BY DEF FromBuf, FromPc, FromOut, FromHost
  <2>2. \A c \in Cells : c < Size
    BY HostFacts
  <2> QED
    BY <2>1, <2>2 DEF There
<1>5. There'
  BY <1>1, <1>2, <1>4 DEF There, Writing
<1> QED
  BY <1>1, <1>2, <1>3, <1>5 DEF Follows, Free, Last, InvalidAddress

LEMMA RestartPlain ==
    ASSUME BootTypeOK, IInv, Last, There, Resets \/ BackToLoader
    PROVE  Follows' /\ Free' /\ Last' /\ There'
<1>1. Gone /\ \E start \in BOOLEAN : Restart(start)
  BY DEF Resets, ResetDevice, BackToLoader
<1>2. CASE Resets
  <2>1. BootState = "notidle" /\ fromPc.Command = "reset"
    BY <1>2 DEF Resets, ResetDevice, At
  <2>2. Doing("reset") /\ ~Doing("program") /\ ~Doing("complete")
    BY <2>1 DEF Doing
  <2>3. hpc \in {"off", "query"} /\ ~Coming("program")
    BY <2>2 DEF Last
  <2>4. buffer = <<>>
    BY <2>1, <2>2, <2>3, NothingBuffered
  <2> QED
    BY <1>1, <2>2, <2>3, <2>4, GonePlain
<1>3. CASE BackToLoader
  <2>1. ~attached
    BY <1>3 DEF BackToLoader, Last
  <2>2. hpc \in {"off", "query"} /\ buffer = <<>> /\ ~Doing("program") /\ ~Coming("program")
    BY <2>1 DEF Last, IInv, Detached, Doing, Coming
  <2> QED
    BY <1>1, <2>2, GonePlain
<1> QED
  BY <1>2, <1>3

LEMMA StartPlain ==
    ASSUME BootTypeOK, IInv, Follows, Free, Last, Start, scene.kills = 0
    PROVE  Follows' /\ Free' /\ Last' /\ There'
<1>1. /\ UNCHANGED device /\ hpc = "off" /\ hpc' = "query" /\ attached' /\ verdict' = "none"
      /\ mode = "loader"
  <2>1. ~waiting /\ UNCHANGED <<outBusy, inBusy>>
    BY DEF Start, IInv, OneQuestion
  <2> QED
    BY <2>1 DEF Start, work, device
<1>2. /\ Follows' /\ AfterOut' = AfterOut
      /\ \A p : (Doing(p)' <=> Doing(p)) /\ (Coming(p)' <=> Coming(p))
  BY <1>1, DevicePlain
<1>3. AfterOut = InvalidAddress /\ ~Writing' /\ mode' = "loader"
  BY <1>1 DEF Free, Writing, device
<1> QED
  BY <1>1, <1>2, <1>3 DEF Free, Last, There, InvalidAddress

(* The user chooses what the scene lets him choose.                        *)
CInv == Chosen(image, verify, reset)

LEMMA CStep == CInv /\ [Next]_vars => CInv' /\ scene' = scene
<1> USE DEF CInv, Chosen
<1>1. CASE Board
  BY <1>1 DEF Board, host
<1>2. CASE Session
  BY <1>2 DEF Session, SessionStep, Query, QueryAnswered, Erase, ReadWord, NothingHere,
     WriteBlock, SectionComplete, WriteEnds, AskBlock, BlockVerified, VerifyEnds, ResetBoard,
     LineFails, Options
<1>3. CASE Resets \/ Cut \/ BackToLoader \/ Replug
  BY <1>3 DEF Resets, Cut, BackToLoader, Replug, Gone
<1>4. CASE Start \/ Kill
  BY <1>4 DEF Start, Kill
<1>5. CASE UNCHANGED vars
  BY <1>5 DEF vars, host
<1> QED
  BY <1>1, <1>2, <1>3, <1>4, <1>5 DEF Next

(* The invariant of a scene without kills and resets.                      *)
PInv == Plain => Follows /\ Free /\ Last /\ There

LEMMA PInit == Init => CInv /\ PInv
<1> SUFFICES ASSUME Init PROVE CInv /\ Follows /\ Free /\ Last /\ There
  BY DEF PInv
<1>1. /\ hpc = "off" /\ verdict = "none" /\ mode = "loader" /\ outBusy /\ BootState = "idle"
      /\ ProgrammedPointer = InvalidAddress /\ CInv
  BY DEF Init, BoardInit, HostInit, CInv
<1>2. \A p : ~Doing(p) /\ ~Coming(p)
  BY <1>1 DEF Doing, Coming
<1>3. AfterOut = InvalidAddress
  BY <1>1, <1>2 DEF AfterOut, AfterPc
<1> QED
  BY <1>1, <1>2, <1>3 DEF Follows, Free, Last, There, Writing

LEMMA PStep == BootTypeOK /\ KInv /\ GInv /\ CInv /\ PInv /\ [Next]_vars => PInv'
<1> SUFFICES ASSUME BootTypeOK, KInv, GInv, CInv, PInv, [Next]_vars, Plain'
             PROVE  Follows' /\ Free' /\ Last' /\ There'
  BY DEF PInv
<1>1. scene' = scene
  BY CStep
<1>2. Plain
  BY <1>1 DEF Plain, Orderly, ShortEnds, OneSection, WholeBlocks
<1>3. /\ Follows /\ Free /\ Last /\ There /\ IInv
      /\ InStep /\ Reading /\ Looking /\ Chosen(image, verify, reset)
  BY <1>2 DEF PInv, Plain, KInv, GInv, CInv
<1>4. CASE Board
  BY <1>3, <1>4, BoardPlain DEF Board
<1>5. CASE Session
  BY <1>2, <1>3, <1>5, SessionPlain DEF Session
<1>6. CASE Resets \/ BackToLoader
  BY <1>3, <1>6, RestartPlain
<1>7. CASE Start
  <2>1. scene.kills = 0
    BY <1>2 DEF Plain, BootTypeOK
  <2> QED
    BY <1>3, <1>7, <2>1, StartPlain
<1>8. CASE Kill \/ Cut \/ Replug
  BY <1>2, <1>8 DEF Kill, Cut, Replug, Plain, BootTypeOK
<1>9. CASE UNCHANGED vars
  <2>1. UNCHANGED device /\ UNCHANGED <<hpc, at, hexBuf, attached, image, verdict>>
    BY <1>9 DEF vars, host
  <2>2. /\ Follows' /\ AfterOut' = AfterOut
        /\ \A p : (Doing(p)' <=> Doing(p)) /\ (Coming(p)' <=> Coming(p))
    BY <1>3, <2>1, DevicePlain
  <2>3. Free' /\ Last'
    BY <1>3, <2>1, <2>2, FreeKept DEF Last, Writing, device
  <2>4. There'
    BY <1>3, <2>1 DEF There, Writing, Gap, Has, FromHost, FromOut, FromPc, FromBuf, Size,
       Coming, Doing, device
  <2> QED
    BY <2>2, <2>3, <2>4
<1> QED
  BY <1>4, <1>5, <1>6, <1>7, <1>8, <1>9 DEF Next

LEMMA PInvariant ==
    ASSUME ErasedPages = Pages, ShortBlocksShow
    PROVE  Spec => [](BootTypeOK /\ KInv /\ GInv /\ CInv /\ PInv)
<1>1. BootTypeOK /\ KInv /\ GInv /\ CInv /\ PInv /\ [Next]_vars => CInv' /\ PInv'
  BY CStep, PStep
<1> QED
  BY <1>1, KInvariant, GInvariant, PInit, PTL DEF Spec

(* A session that did not read back: nothing is on its way any more.       *)
LEMMA PlainSuccess ==
    ASSUME BootTypeOK, InStep, IInv, There, verdict = "ok", Settled
    PROVE  flash = image
<1>1. hpc = "off" /\ outBusy /\ BootState = "idle"
  BY DEF InStep, Working, Settled
<1>2. \A p : ~Doing(p) /\ ~Coming(p)
  BY <1>1 DEF Doing, Coming
<1>3. buffer = <<>>
  BY <1>1, <1>2, NothingBuffered
<1>4. FromBuf = Size
  BY <1>1, <1>2, <1>3 DEF FromBuf, FromPc, FromOut, FromHost
<1>5. \A c \in Cells : flash[c] = image[c]
  <2>1. \A c \in Cells : c < Size
    BY HostFacts
  <2> QED
    BY <1>4, <2>1 DEF There, Writing
<1>6. flash \in [Cells -> Value] /\ image \in [Cells -> Value]
  BY HostFacts DEF BootTypeOK, BoardTypeOK
<1> QED
  BY <1>5, <1>6

(* mphidflash prints no error of a file that is not in the flash, word for *)
(* word and all the rest erased, once the board is done: with the verify   *)
(* pass whatever was killed, reset or unplugged, without it if nothing was *)
(* (flash_main, issueBlock and WriteFlashSubBlock).                        *)
THEOREM SuccessMeansThere ==
    ASSUME ErasedPages = Pages, ShortBlocksShow, NothingDropped
    PROVE  Spec => []OkMeansThere
<1>1. BootTypeOK /\ KInv /\ GInv /\ CInv /\ PInv => OkMeansThere
  <2> SUFFICES ASSUME BootTypeOK, KInv, GInv, CInv, PInv, verdict = "ok", Settled,
                      verify \/ Undisturbed
               PROVE  flash = image
    BY DEF OkMeansThere
  <2>1. CASE verify
    BY <2>1 DEF GInv, Looked
  <2>2. CASE ~verify
    <3>1. /\ scene \in Scenes /\ scene.kills + scene.cuts = 0 /\ FALSE \in scene.verify
          /\ scene.kills \in Nat /\ scene.cuts \in Nat
      BY <2>2, SurroundingsAssumption DEF Undisturbed, CInv, Chosen, BootTypeOK, HostTypeOK
    <3>2. Plain
      <4>1. scene.kills = 0 /\ scene.cuts = 0
        BY <3>1
      <4>2. Orderly(scene)
        BY <3>1 DEF NothingDropped
      <4> QED
        BY <4>1, <4>2 DEF Plain
    <3> QED
      BY <3>2, PlainSuccess DEF PInv, KInv, GInv, Plain
  <2> QED
    BY <2>1, <2>2
<1> QED
  BY <1>1, PInvariant, PTL
=============================================================================
