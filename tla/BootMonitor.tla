---------------------------- MODULE BootMonitor ----------------------------
(***************************************************************************)
(* The UART boot loader on the board: main() and loop() of main.c, the     *)
(* monitor of monit.c, the flash driver NVMem.c as they use it.            *)
(*                                                                         *)
(* The line from the PC and the receive ring are one sequence rx: that the *)
(* ring behind the interrupt handler is a first-in first-out queue is what *)
(* UartFifo shows.  tx is the line to the PC.  The program is sequential;  *)
(* pc says what it is waiting for:                                         *)
(*   loop    the first Serial1GetKey of loop()                             *)
(*   key2    the second one, after 0xaa                                    *)
(*   monit   the Serial1GetKey of UARTmonit                                *)
(*   packet  UARTgetpacket(PACKET_SIZE)                                    *)
(*   send    the transmitter, one byte of reply at a time; then back       *)
(*   resetting  nothing: reset_device has left its key and is about to     *)
(*           reset the processor                                           *)
(*   app     nothing: the user's program has the processor                 *)
(*   stuck   nothing: an exception, until the reset button                 *)
(***************************************************************************)
EXTENDS UartProtocol

CONSTANTS
    MaxNvmFaults,   \* how often a flash operation may fail (a bound)
    SwitchMayBe,    \* whether BOOT_SW may be closed when main() looks at it
    EntryCells      \* BootMemStart, BootMemStart + 0x1000, ... 0x9d005000

ASSUME BoardAssumption ==
    /\ MaxNvmFaults \in Nat
    /\ SwitchMayBe \subseteq BOOLEAN
    /\ EntryCells \subseteq Cells

VARIABLES
    pc, back,   \* where the program is, and where it returns after a reply
    reply,      \* bytes still to be transmitted
    toPc,       \* PacketToPC: keeps what earlier commands left in it
    flash,      \* the program flash
    nvmFaults,  \* flash operations that failed so far
    swr,        \* RCON.SWR: there was a software reset since power came on;
                \* no code clears it
    softKey     \* the word at 0xA0000000 is 0x12345678; a reset keeps it

boot   == <<swr, softKey>>
device == <<pc, back, reply, toPc, flash, nvmFaults, boot>>

(* main() with BOOT_SW open and power just come on: straight to loop().    *)
DeviceInit ==
    /\ pc = "loop"
    /\ back = "loop"
    /\ reply = <<>>
    /\ toPc = Packet(0, 0, 0, 0, 0)
    /\ nvmFaults = 0
    /\ swr = FALSE
    /\ softKey = FALSE

-----------------------------------------------------------------------------
(* The flash.  Programming a word clears bits; a word that already holds   *)
(* another value comes out garbled.                                        *)
Programmed(old, new) ==
    IF old = Erased THEN new
    ELSE IF new \in {old, Erased} THEN old ELSE Garbled

ErasePage(p)     == [c \in Cells |-> IF PageOf(c) = p THEN Erased ELSE flash[c]]
ProgramCell(c, v) == [flash EXCEPT ![c] = Programmed(@, v)]

(* NVMemOperation either does the operation or reports an error, which     *)
(* every caller in monit.c ignores.  A packet's words fail together.       *)
NVMem(outcome) ==
    \/ flash' = outcome /\ nvmFaults' = nvmFaults
    \/ nvmFaults < MaxNvmFaults /\ flash' = flash /\ nvmFaults' = nvmFaults + 1

(* search_flash_end finds the last word that is not erased, or the first.  *)
IsFlashEnd(c) ==
    /\ \A d \in Cells : d > c => flash[d] = Erased
    /\ c = 0 \/ flash[c] # Erased

(* total_errs is reported and zeroed by cmd_echo and counted up nowhere.   *)
TotalErrs == 0

-----------------------------------------------------------------------------
(* loop(): the key bytes.                                                  *)
TakeKey(from, key) == pc = from /\ rx # <<>> /\ Head(rx) = key /\ rx' = Tail(rx)

Transmit(bytes, then) == reply' = bytes /\ back' = then /\ pc' = "send"

LoopEnter ==
    /\ TakeKey("loop", EnterKey1)
    /\ pc' = "key2"
    /\ UNCHANGED <<back, reply, toPc, flash, nvmFaults, boot, tx>>

LoopProbe ==
    /\ TakeKey("loop", ProbeKey)
    /\ Transmit(<<ProbeAck>>, "loop")
    /\ UNCHANGED <<toPc, flash, nvmFaults, boot, tx>>

LoopIgnore ==
    /\ \E b \in (0 .. 255) \ {EnterKey1, ProbeKey} : TakeKey("loop", b)
    /\ UNCHANGED <<device, tx>>

(* The byte after 0xaa, whatever it is, is used up.                        *)
LoopKey2 ==
    /\ \E b \in 0 .. 255 :
          /\ TakeKey("key2", b)
          /\ pc' = IF b = EnterKey2 THEN "monit" ELSE "loop"
    /\ UNCHANGED <<back, reply, toPc, flash, nvmFaults, boot, tx>>

(* Faulty: the monitor skips what is not the marker.                       *)
MonitKeySkips ==
    /\ \E b \in 0 .. 255 :
          /\ TakeKey("monit", b)
          /\ pc' = IF b = Marker THEN "packet" ELSE "monit"
    /\ UNCHANGED <<back, reply, toPc, flash, nvmFaults, boot, tx>>

(* UARTmonit: a byte other than the marker ends the monitor.               *)
MonitKey ==
    /\ \E b \in 0 .. 255 :
          /\ TakeKey("monit", b)
          /\ pc' = IF b = Marker THEN "packet" ELSE "loop"
    /\ UNCHANGED <<back, reply, toPc, flash, nvmFaults, boot, tx>>

-----------------------------------------------------------------------------
(* ProcessIO.  A packet is taken whole once PACKET_SIZE bytes are there;   *)
(* its command is echoed into PacketToPC before anything else.             *)
PacketReady == pc = "packet" /\ Len(rx) >= PacketSize
PacketFromPC == SubSeq(rx, 1, PacketSize)

Receive(cmd) ==
    /\ PacketReady
    /\ Cmd(PacketFromPC) = cmd
    /\ rx' = SubSeq(rx, PacketSize + 1, Len(rx))
    /\ tx' = tx

Echoed == [toPc EXCEPT ![1] = Cmd(PacketFromPC)]

NoReply == pc' = "monit" /\ UNCHANGED <<back, reply>>

(* cmd_echo: the echo argument, the size of the flash, the address of the  *)
(* last word in use, the error count.                                      *)
CmdEcho ==
    /\ Receive(TEST)
    /\ \E last \in Cells :
          LET answer == <<TEST, Arg(PacketFromPC), Pages, KSeg0 + last, TotalErrs>>
          IN  IsFlashEnd(last) /\ toPc' = answer /\ Transmit(answer, "monit")
    /\ UNCHANGED <<flash, nvmFaults, boot>>

(* PEEK and POKE use the address as it is: a size of zero touches nothing, *)
(* memory that is not there raises an exception nobody handles, and so     *)
(* does a store to the flash.  Behind 0x1f...... some of the boot flash    *)
(* and of the registers may answer, or nothing.                            *)
Segments(top) == {KSeg0 + top, KSeg1 + top}
Ram      == Segments(0)
Mapped   == Ram \cup Segments(FlashBase)
InPart   == Segments(31)

Touches(p, bases) == Arg(p) = 0 \/ Base(p) \in bases

Raises == pc' = "stuck" /\ UNCHANGED <<back, reply, flash, nvmFaults>>

(* A byte a PEEK reads; what other memory holds is not modelled, it may be  *)
(* anything.                                                                *)
MemByte(base, adr, ram) == IF InFlash(base, adr) THEN flash[adr] ELSE ram

(* Faulty: a block one byte longer than the packet is not seen as large.   *)
LargeBlockOffByOne(size) == size > PacketSize + 1

LargeBlock(size) == size > PacketSize

(* The bytes overwrite the packet from its beginning, and whatever follows *)
(* the packet if there are more.                                           *)
Over(old, bytes) == bytes \o SubSeq(old, Len(bytes) + 1, Len(old))

(* cmd_peek: up to PACKET_SIZE bytes go into a packet, over what was left  *)
(* there; more are streamed from memory without a packet.                  *)
CmdPeek ==
    /\ Receive(PEEK)
    /\ \E ram \in Value :
       LET p      == PacketFromPC
           bytes  == [k \in 1 .. Arg(p) |-> MemByte(Base(p), Adr(p) + k - 1, ram)]
           answer == Over(Echoed, bytes)
       IN  \/ ~Touches(p, Mapped) /\ toPc' = Echoed /\ Raises
           \/ /\ Touches(p, Mapped \cup InPart)
              /\ IF LargeBlock(Arg(p))
                 THEN toPc' = Echoed /\ Transmit(bytes, "monit")
                 ELSE toPc' = answer /\ Transmit(answer, "monit")
              /\ UNCHANGED <<flash, nvmFaults>>
    /\ UNCHANGED boot

(* cmd_poke, without a reply; what it changes, in RAM (the key included)   *)
(* or in registers, is not modelled.                                       *)
CmdPoke ==
    /\ Receive(POKE)
    /\ toPc' = Echoed
    /\ \/ Touches(PacketFromPC, Ram \cup InPart) /\ NoReply /\ UNCHANGED <<flash, nvmFaults>>
       \/ ~Touches(PacketFromPC, Ram) /\ Raises
    /\ UNCHANGED boot

(* cmd_page_erase: one page, whatever size says; the reply comes in any    *)
(* case, for synchronisation.                                              *)
CmdPageErase ==
    /\ Receive(PAGE_ERASE)
    /\ LET p == PacketFromPC
       IN  IF InFlash(Base(p), Adr(p))
           THEN NVMem(ErasePage(PageOf(Adr(p))))
           ELSE UNCHANGED <<flash, nvmFaults>>
    /\ toPc' = Echoed
    /\ Transmit(Echoed, "monit")
    /\ UNCHANGED boot

(* cmd_page_write: each word in turn, if its address is in the flash.  A   *)
(* size beyond the packet's data programs what lies behind it in memory,   *)
(* any value.  There is no reply.                                          *)
CmdPageWrite ==
    /\ Receive(PAGE_WRITE)
    /\ LET p == PacketFromPC
           range == {c \in Adr(p) .. (Adr(p) + Arg(p) - 1) : InFlash(Base(p), c)}
       IN  \E junk \in Value :
              LET word(c) == IF c = Adr(p) THEN Data(p) ELSE junk
              IN  IF range = {} THEN UNCHANGED <<flash, nvmFaults>>
                  ELSE NVMem([c \in Cells |->
                              IF c \in range THEN Programmed(flash[c], word(c))
                              ELSE flash[c]])
    /\ toPc' = Echoed
    /\ NoReply
    /\ UNCHANGED boot

(* cmd_flash_lock changes a bit that NVMemOperation sets anyway, and an    *)
(* unknown command does nothing at all: neither replies.                   *)
CmdNoEffect ==
    /\ \E cmd \in (0 .. 255) \ {TEST, PEEK, POKE, PAGE_ERASE, PAGE_WRITE, JMP} : Receive(cmd)
    /\ toPc' = Echoed
    /\ NoReply
    /\ UNCHANGED <<flash, nvmFaults, boot>>

(* The search of main() for a user program: a word at one of six addresses *)
(* that is not erased.                                                     *)
AppPresent == \E c \in EntryCells : flash[c] # Erased

(* Bytes the ring held are lost by a reset, later ones are not.            *)
LoseRing == \E k \in 0 .. Len(rx) : rx' = SubSeq(rx, k + 1, Len(rx))

(* Faulty: the key stays where it is.                                      *)
StartUpKeyKept(closed) ==
    /\ pc' = IF (closed \/ (swr' /\ softKey)) /\ AppPresent THEN "app" ELSE "loop"
    /\ back' = "loop"
    /\ reply' = <<>>
    /\ toPc' = Packet(0, 0, 0, 0, 0)
    /\ UNCHANGED <<flash, nvmFaults, softKey>>

(* main(): with BOOT_SW closed, or after a software reset with the key in  *)
(* place, the key is wiped and the user's program started if there is one. *)
(* Otherwise the loader runs, and the key stays as it is.                  *)
StartUp(closed) ==
    LET toApp == closed \/ (swr' /\ softKey)
    IN  /\ pc' = IF toApp /\ AppPresent THEN "app" ELSE "loop"
        /\ softKey' = (softKey /\ ~toApp)
        /\ back' = "loop"
        /\ reply' = <<>>
        /\ toPc' = Packet(0, 0, 0, 0, 0)
        /\ UNCHANGED <<flash, nvmFaults>>

(* cmd_exec: with size # 0 reset_device leaves its key for main(); with    *)
(* size = 0 the address is called: what is there takes over, returns or is *)
(* no code.                                                                *)
CmdExec ==
    /\ Receive(JMP)
    /\ toPc' = Echoed
    /\ IF Arg(PacketFromPC) # 0 THEN pc' = "resetting" /\ softKey' = TRUE
       ELSE pc' \in {"app", "monit", "stuck"} /\ softKey' = softKey
    /\ UNCHANGED <<back, reply, flash, nvmFaults, swr>>

(* The rest of reset_device.  A user's program may do the same, without a  *)
(* key of its own.                                                         *)
SoftReset(closed) ==
    /\ pc \in {"resetting", "app"}
    /\ swr' = TRUE
    /\ LoseRing
    /\ StartUp(closed)
    /\ tx' = tx

-----------------------------------------------------------------------------
(* UARTwrite: one byte whenever the transmitter is free.                   *)
SendByte ==
    /\ pc = "send"
    /\ tx' = Append(tx, Head(reply))
    /\ reply' = Tail(reply)
    /\ pc' = IF Tail(reply) = <<>> THEN back ELSE "send"
    /\ UNCHANGED <<back, toPc, flash, nvmFaults, boot, rx>>

(* The user's program reads the line, or nobody does and bytes are lost.   *)
AppReads ==
    /\ pc \in {"app", "stuck"}
    /\ rx # <<>>
    /\ rx' = Tail(rx)
    /\ UNCHANGED <<device, tx>>

(* The reset button.                                                       *)
HardReset(closed) ==
    /\ LoseRing
    /\ swr' = swr
    /\ StartUp(closed)
    /\ tx' = tx

DeviceStep ==
    \/ LoopEnter \/ LoopProbe \/ LoopIgnore \/ LoopKey2 \/ MonitKey
    \/ CmdEcho \/ CmdPeek \/ CmdPoke \/ CmdPageErase \/ CmdPageWrite \/ CmdNoEffect \/ CmdExec
    \/ (pc = "resetting" /\ \E closed \in SwitchMayBe : SoftReset(closed)) \/ SendByte \/ AppReads

(* Nothing to do until the PC sends more.                                  *)
DeviceIdle ==
    \/ pc \in {"loop", "key2", "monit", "app", "stuck"} /\ rx = <<>>
    \/ pc = "packet" /\ Len(rx) < PacketSize

DeviceTypeOK ==
    /\ pc \in {"loop", "key2", "monit", "packet", "send", "resetting", "app", "stuck"}
    /\ back \in {"loop", "monit"}
    /\ reply \in Seq(0 .. 255)
    /\ toPc \in [1 .. PacketSize -> 0 .. 255]
    /\ flash \in [Cells -> 0 .. 255]
    /\ nvmFaults \in 0 .. MaxNvmFaults
    /\ {swr, softKey} \subseteq BOOLEAN
    /\ rx \in Seq(0 .. 255)
    /\ tx \in Seq(0 .. 255)
=============================================================================
