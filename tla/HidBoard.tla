------------------------------ MODULE HidBoard ------------------------------
(***************************************************************************)
(* The HID boot loader on the board: main(), ProcessIO, BootApplication and *)
(* WriteFlashSubBlock of hid_bootloader/main.c.  Commands and replies are  *)
(* packets of 64 bytes through the two interrupt endpoints; each endpoint  *)
(* owns one buffer while a transfer is pending.  Microchip's stack and the *)
(* NVM driver below it are modelled from their use.                        *)
(*                                                                         *)
(* One pass of the main loop receives a command, the next ones carry it    *)
(* out.  A command that works on the flash takes a step for each page it   *)
(* erases, for each word it takes over and for each word it programs: the  *)
(* USB hardware serves the PC meanwhile, and the power may go.             *)
(***************************************************************************)
EXTENDS FlashLayout, Sequences

CONSTANTS
    BlockCells,     \* words in a packet (RequestDataBlockSize / WORDSIZE, 14)
    ErasedPages,    \* pages ERASE_DEVICE goes through: it stops at
                    \* 0x1d008000, however large the flash is
    EntryCells,     \* where main() looks for a program (0x9d001000, ...)
    Zero            \* what the bytes of an empty packet read as

InvalidAddress == Pages * CellsPerPage + 1     \* no cell, nor the end of one

ASSUME BlockAssumption ==
    /\ BlockCells \in Nat \ {0}
    /\ ErasedPages \in 1 .. Pages
    /\ EntryCells \subseteq Cells
    /\ Zero \in Value

VARIABLES
    mode,                   \* the loader runs, or the user's program
    BootState,
    outBusy, fromPcBuffer,  \* the OUT endpoint is armed; PacketFromPCBuffer
    inBusy, toPc,           \* a reply waits for the PC; PacketToPC
    fromPc,                 \* PacketFromPC
    dealt,                  \* pages erased, words taken of this command
    flushing,               \* WriteFlashSubBlock is at work
    ProgrammedPointer,
    buffer,                 \* ProgrammingBuffer up to BufferedDataIndex
    flash

usb    == <<outBusy, fromPcBuffer, inBusy, toPc>>
work   == <<BootState, fromPc, dealt, flushing, ProgrammedPointer, buffer>>
device == <<mode, BootState, outBusy, fromPcBuffer, inBusy, toPc, fromPc, dealt,
            flushing, ProgrammedPointer, buffer, flash>>

(* A packet: the command and what the loader reads of the rest.            *)
Packet(cmd, adr, data) == [Command |-> cmd, Address |-> adr, Data |-> data]
NoPacket == Packet("none", 0, <<>>)
Empty    == [k \in 1 .. BlockCells |-> Zero]

Blocks  == UNION {[1 .. n -> Value] : n \in 0 .. BlockCells}
Commands == {"none", "query", "erase", "program", "complete", "get", "reset"}
Packets == {p \in [Command : Commands, Address : Cells, Data : Blocks] :
               p.Address + Len(p.Data) <= Pages * CellsPerPage}

(* UserInit, and the host configures the device: USBCBInitEP.              *)
Fresh ==
    /\ BootState' = "idle"
    /\ outBusy' = TRUE /\ fromPcBuffer' = NoPacket
    /\ inBusy' = FALSE /\ toPc' = Empty
    /\ fromPc' = NoPacket
    /\ dealt' = 0 /\ flushing' = FALSE
    /\ ProgrammedPointer' = InvalidAddress /\ buffer' = <<>>

BoardInit ==
    /\ mode = "loader"
    /\ BootState = "idle"
    /\ outBusy = TRUE /\ fromPcBuffer = NoPacket
    /\ inBusy = FALSE /\ toPc = Empty
    /\ fromPc = NoPacket
    /\ dealt = 0 /\ flushing = FALSE
    /\ ProgrammedPointer = InvalidAddress /\ buffer = <<>>

-----------------------------------------------------------------------------
(* Faulty: as it was before the fix main.c names in its history.           *)
ReceiveAtOnce ==
    /\ mode = "loader" /\ BootState = "idle"
    /\ ~outBusy
    /\ fromPc' = fromPcBuffer
    /\ outBusy' = TRUE
    /\ BootState' = "notidle"
    /\ toPc' = Empty
    /\ dealt' = 0
    /\ UNCHANGED <<mode, fromPcBuffer, inBusy, flushing, ProgrammedPointer, buffer, flash>>

(* BootApplication, IdleState.  PacketToPC is cleared for the next reply.  *)
Receive ==
    /\ mode = "loader" /\ BootState = "idle"
    /\ ~inBusy /\ ~outBusy
    /\ fromPc' = fromPcBuffer
    /\ outBusy' = TRUE
    /\ BootState' = "notidle"
    /\ toPc' = Empty
    /\ dealt' = 0
    /\ UNCHANGED <<mode, fromPcBuffer, inBusy, flushing, ProgrammedPointer, buffer, flash>>

At(cmd) == mode = "loader" /\ BootState = "notidle" /\ fromPc.Command = cmd /\ ~flushing

(* The replies; the loader waits until the one before has been fetched.    *)
Reply(data) ==
    /\ ~inBusy
    /\ toPc' = data
    /\ inBusy' = TRUE
    /\ BootState' = "idle"
    /\ UNCHANGED <<mode, outBusy, fromPcBuffer, fromPc, dealt, flushing,
                   ProgrammedPointer, buffer, flash>>

(* QUERY_DEVICE.  What it says of the memory is not kept: it is printed.   *)
QueryDevice == At("query") /\ Reply(Empty)

(* Faulty: the reply begins with the word after.                           *)
GetDataFromNext ==
    /\ At("get")
    /\ LET n == Len(fromPc.Data)
       IN  Reply([k \in 1 .. BlockCells |->
                  IF k <= n /\ fromPc.Address + k \in Cells
                  THEN flash[fromPc.Address + k] ELSE Zero])

(* GET_DATA.  The words stand at the beginning of the data field, whereas  *)
(* a PROGRAM_DEVICE packet has them at its end.                            *)
GetData ==
    /\ At("get")
    /\ LET n == Len(fromPc.Data)
       IN  Reply([k \in 1 .. BlockCells |->
                  IF k <= n /\ fromPc.Address + k - 1 \in Cells
                  THEN flash[fromPc.Address + k - 1] ELSE Zero])

Ready == BootState' = "idle" /\ UNCHANGED <<fromPc, dealt>>

(* Faulty: the last page is left as it is.                                 *)
ErasePageButLast ==
    /\ At("erase") /\ dealt < ErasedPages
    /\ flash' = [c \in Cells |-> IF PageOf(c) = dealt /\ dealt + 1 < ErasedPages
                                 THEN Erased ELSE flash[c]]
    /\ dealt' = dealt + 1
    /\ UNCHANGED <<mode, usb, BootState, fromPc, flushing, ProgrammedPointer, buffer>>

(* ERASE_DEVICE: every page in turn.                                       *)
ErasePage ==
    /\ At("erase") /\ dealt < ErasedPages
    /\ flash' = [c \in Cells |-> IF PageOf(c) = dealt THEN Erased ELSE flash[c]]
    /\ dealt' = dealt + 1
    /\ UNCHANGED <<mode, usb, BootState, fromPc, flushing, ProgrammedPointer, buffer>>

EraseDone ==
    /\ At("erase") /\ dealt = ErasedPages
    /\ Ready
    /\ UNCHANGED <<mode, usb, flushing, ProgrammedPointer, buffer, flash>>

-----------------------------------------------------------------------------
(* PROGRAM_DEVICE.  The first packet of a section sets the pointer; one    *)
(* that does not go on where the last one ended is dropped.                *)
Pointer ==
    IF ProgrammedPointer = InvalidAddress THEN fromPc.Address ELSE ProgrammedPointer

(* Where this packet's next word belongs.                                  *)
Contiguous == Pointer = fromPc.Address + dealt

(* Faulty: the buffer may be overrun by one word.                          *)
TakeWordTooMany ==
    /\ At("program") /\ Contiguous /\ dealt < Len(fromPc.Data)
    /\ ProgrammedPointer' = Pointer + 1
    /\ buffer' = Append(buffer, fromPc.Data[dealt + 1])
    /\ dealt' = dealt + 1
    /\ flushing' = (Len(buffer') > BlockCells)
    /\ UNCHANGED <<mode, usb, BootState, fromPc, flash>>

TakeWord ==
    /\ At("program") /\ Contiguous /\ dealt < Len(fromPc.Data)
    /\ ProgrammedPointer' = Pointer + 1
    /\ buffer' = Append(buffer, fromPc.Data[dealt + 1])
    /\ dealt' = dealt + 1
    /\ flushing' = (Len(buffer') = BlockCells)
    /\ UNCHANGED <<mode, usb, BootState, fromPc, flash>>

ProgramDone ==
    /\ At("program")
    /\ ~Contiguous \/ dealt = Len(fromPc.Data)
    /\ ProgrammedPointer' = Pointer
    /\ Ready
    /\ UNCHANGED <<mode, usb, flushing, buffer, flash>>

(* NVMemWriteWord: programming clears bits; a word that holds another      *)
(* value already comes out garbled.                                        *)
Programmed(old, new) ==
    IF old = Erased THEN new ELSE IF new \in {old, Erased} THEN old ELSE Garbled

(* Faulty: every word goes one place too far.                              *)
WriteWordBeyond ==
    /\ mode = "loader" /\ flushing /\ buffer # <<>>
    /\ LET c == ProgrammedPointer - Len(buffer) + 1
       IN  flash' = IF c \in Cells
                    THEN [flash EXCEPT ![c] = Programmed(@, Head(buffer))] ELSE flash
    /\ buffer' = Tail(buffer)
    /\ UNCHANGED <<mode, usb, BootState, fromPc, dealt, flushing, ProgrammedPointer>>

(* WriteFlashSubBlock, one word.                                           *)
WriteWord ==
    /\ mode = "loader" /\ flushing /\ buffer # <<>>
    /\ LET c == ProgrammedPointer - Len(buffer)
       IN  flash' = IF c \in Cells
                    THEN [flash EXCEPT ![c] = Programmed(@, Head(buffer))] ELSE flash
    /\ buffer' = Tail(buffer)
    /\ UNCHANGED <<mode, usb, BootState, fromPc, dealt, flushing, ProgrammedPointer>>

(* Faulty: the pointer is kept.                                            *)
FlushedNotForgotten ==
    /\ mode = "loader" /\ flushing /\ buffer = <<>>
    /\ flushing' = FALSE
    /\ IF fromPc.Command = "complete"
       THEN Ready ELSE UNCHANGED <<BootState, fromPc, dealt>>
    /\ UNCHANGED <<mode, usb, ProgrammedPointer, buffer, flash>>

Flushed ==
    /\ mode = "loader" /\ flushing /\ buffer = <<>>
    /\ flushing' = FALSE
    /\ IF fromPc.Command = "complete"
       THEN ProgrammedPointer' = InvalidAddress /\ Ready
       ELSE UNCHANGED <<ProgrammedPointer, BootState, fromPc, dealt>>
    /\ UNCHANGED <<mode, usb, buffer, flash>>

(* PROGRAM_COMPLETE programs what is left, and forgets the pointer.        *)
ProgramComplete ==
    /\ At("complete")
    /\ flushing' = TRUE
    /\ UNCHANGED <<mode, usb, BootState, fromPc, dealt, ProgrammedPointer, buffer, flash>>

-----------------------------------------------------------------------------
(* main().  There is a program to start.                                   *)
AppPresent == \E c \in EntryCells : flash[c] # Erased

(* The processor starts again; the switch decides, after RESET_DEVICE the  *)
(* key in RAM as well.                                                     *)
Restart(start) ==
    /\ mode' = IF start /\ AppPresent THEN "app" ELSE "loader"
    /\ Fresh
    /\ UNCHANGED flash

ResetDevice == At("reset") /\ Restart(TRUE)

(* The commands, without the one that takes the board off the bus.         *)
BoardStep ==
    \/ Receive \/ QueryDevice \/ GetData \/ ErasePage \/ EraseDone
    \/ TakeWord \/ ProgramDone \/ WriteWord \/ Flushed \/ ProgramComplete

(* USBDeviceTasks runs between two passes of the main loop and behind each *)
(* page that is erased: then the host may configure the device.            *)
Serving == mode = "loader" /\ (BootState = "idle" \/ At("erase") \/ (dealt = 0 /\ ~flushing))

(* Nothing to do until the PC moves.                                       *)
BoardIdle ==
    \/ mode = "app"
    \/ BootState = "idle" /\ (inBusy \/ outBusy)
    \/ BootState = "notidle" /\ fromPc.Command \in {"query", "get"} /\ inBusy

BoardTypeOK ==
    /\ mode \in {"loader", "app"}
    /\ BootState \in {"idle", "notidle"}
    /\ outBusy \in BOOLEAN /\ fromPcBuffer \in Packets
    /\ inBusy \in BOOLEAN /\ toPc \in [1 .. BlockCells -> Value]
    /\ fromPc \in Packets
    /\ dealt \in 0 .. (Pages + BlockCells)
    /\ flushing \in BOOLEAN
    /\ ProgrammedPointer \in 0 .. InvalidAddress
    /\ buffer \in Blocks
    /\ flash \in [Cells -> Value]
    \* a word in the buffer has its place
    /\ buffer # <<>> => ProgrammedPointer # InvalidAddress /\ Len(buffer) <= ProgrammedPointer
    /\ Len(buffer) = BlockCells => flushing
=============================================================================
