----------------------------- MODULE FlashHost -----------------------------
(***************************************************************************)
(* uartflash32 on the PC: main() of uartflash.c and what it calls in       *)
(* codebuf.c, util.c, usb-uart.c and rs232c.c.  One run of the program is  *)
(* a session; it writes an image, or with -v compares one with the board,  *)
(* or with -rp reads the board's program, or with nothing but -E erases.   *)
(* The program is sequential and blocks in RS_getdata; hpc says where it   *)
(* is:                                                                     *)
(*   off      no program is running: none has been started, or the latest  *)
(*            found no board or was killed                                   *)
(*   ended    no program is running: the latest came to its end            *)
(*   probe    RS_printinfo sleeps, then looks for the answer to 0xa5       *)
(*   caps     waits for the first TEST reply                               *)
(*   erase    erase_flash, at page `at'                                    *)
(*   erasing  waits for the reply to PAGE_ERASE                            *)
(*   write    write_hexdata, at cell `at'                                  *)
(*   status   waits for the TEST reply that decides Write Ok               *)
(*   peek     verify_hexdata or read_from_pic, at cell `at'                *)
(*   peeking  waits for the reply to PEEK                                  *)
(*   exit     reboot_target and UartExit                                   *)
(* RS_putdata hands all its bytes to the driver at once.  UsbFlashLock     *)
(* sends nothing.                                                          *)
(***************************************************************************)
EXTENDS UartProtocol

CONSTANTS
    Images,         \* flash_buf after read_hexfile: one value per cell
    ForceErase,     \* opt_E: the settings the user may choose
    RunAfter,       \* opt_r: the settings the user may choose
    Modes,          \* what the user may ask for
    StepCells       \* words in a FLASH_STEP

ASSUME HostAssumption ==
    /\ Images \subseteq [Cells -> Value]
    /\ ForceErase \subseteq BOOLEAN
    /\ RunAfter \subseteq BOOLEAN
    /\ Modes \subseteq {"write", "verify", "read", "erase"}
    /\ StepCells \in Nat \ {0} /\ CellsPerPage % StepCells = 0

VARIABLES
    hpc, at,        \* where the program is
    image,          \* flash_buf, but for -rp
    mode,           \* what the user asked for
    force, run,     \* opt_E and opt_r
    flashEnd,       \* flash_end, in pages: what the first TEST reply said
    usedEnd,        \* flash_end_for_read, from the same reply
    dump,           \* flash_buf as -rp fills it
    verdict         \* Write Ok, Write Error, Verify Ok, Verify Error or
                    \* nothing, of the latest session

asked == <<image, mode, force, run>>
sizes == <<flashEnd, usedEnd>>
host  == <<hpc, at, asked, sizes, dump, verdict>>

NoDump == [c \in Cells |-> Erased]

HostInit ==
    /\ hpc = "off"
    /\ at = 0
    /\ image \in Images
    /\ mode \in Modes
    /\ force \in ForceErase
    /\ run \in RunAfter
    /\ flashEnd = 0
    /\ usedEnd = 0
    /\ dump = NoDump
    /\ verdict = "none"

-----------------------------------------------------------------------------
Send(bytes) == rx' = rx \o bytes
Goto(where) == hpc' = where

(* RS_getdata: blocks until all the bytes asked for are there.             *)
ReplyReady == Len(tx) >= PacketSize
ReplyToPC  == SubSeq(tx, 1, PacketSize)
TakeReply  == ReplyReady /\ tx' = SubSeq(tx, PacketSize + 1, Len(tx))

(* Packets as the functions of util.c build them.                          *)
TestPacket      == Packet(TEST, 0, 0, 0, 0)
ErasePacket(p)  == Packet(PAGE_ERASE, 1, p * CellsPerPage, FlashBase, 0)
WritePacket(c)  == Packet(PAGE_WRITE, 1, c, FlashBase, image[c])
JumpPacket      == Packet(JMP, 1, 0, 0, 0)

(* dumpmem sets the top bit of the address.  -rp adds FLASH_BASE to the    *)
(* offset, -v does not.                                                    *)
PeekPacket(c) ==
    Packet(PEEK, 1, c, IF mode = "read" THEN KSeg0 + FlashBase ELSE KSeg0, 0)

(* fl_stat[0], [1] and [2] of a TEST reply; a byte of a PEEK reply.        *)
FlashSizeOf(reply) == reply[3]
LastUsedOf(reply)  == reply[4] % KSeg0
ErrCountOf(reply)  == reply[5]
PeekedOf(reply)    == reply[1]

-----------------------------------------------------------------------------
(* The user starts the program; RS_init purges what has arrived, then the  *)
(* probe goes out.                                                         *)
HostStart ==
    /\ hpc \in {"off", "ended"}
    /\ image' \in Images
    /\ mode' \in Modes
    /\ force' \in ForceErase
    /\ run' \in RunAfter
    /\ tx' = <<>>
    /\ Send(<<ProbeKey>>)
    /\ verdict' = "none"
    /\ dump' = NoDump
    /\ Goto("probe")
    /\ UNCHANGED <<at, sizes>>

Answered == tx # <<>> /\ Head(tx) = ProbeAck

(* One byte is read, and it is the right one: UartInit enters the monitor  *)
(* and asks for the board's capabilities.                                  *)
ProbeAnswered ==
    /\ hpc = "probe"
    /\ Answered
    /\ tx' = Tail(tx)
    /\ Send(<<EnterKey1, EnterKey2>> \o Frame(TestPacket))
    /\ Goto("caps")
    /\ UNCHANGED <<at, asked, sizes, dump, verdict>>

(* Nothing has come within the sleep, or something else: the port is       *)
(* closed and the program gives up without a word to the board.            *)
ProbeFails ==
    /\ hpc = "probe"
    /\ ~Answered
    /\ Goto("off")
    /\ UNCHANGED <<at, asked, sizes, dump, verdict, rx, tx>>

AtMost(bound, n) == IF n > bound THEN bound ELSE n

(* The size of the flash bounds the loops that write and compare, the      *)
(* address of the last word in use the one that reads.                     *)
CapsReceived ==
    /\ hpc = "caps"
    /\ TakeReply
    /\ flashEnd' = AtMost(Pages, FlashSizeOf(ReplyToPC))
    /\ usedEnd' = AtMost(Pages * CellsPerPage, LastUsedOf(ReplyToPC))
    /\ at' = 0
    /\ Goto(IF mode \in {"write", "erase"} THEN "erase" ELSE "peek")
    /\ UNCHANGED <<asked, dump, verdict, rx>>

(* UartInit returns the error count, and a negative one ends the program   *)
(* without UartExit.  In the board's own answer it is zero; in a reply     *)
(* read out of step it may be a word with any sign.                        *)
CapsRefused ==
    /\ hpc = "caps"
    /\ TakeReply
    /\ ErrCountOf(ReplyToPC) # 0
    /\ Goto("off")
    /\ UNCHANGED <<at, asked, sizes, dump, verdict, rx>>

(* With -E every page, and so with -E alone.                               *)
ToErase(p) == mode = "erase" \/ force \/ Holds(image, p)

(* Faulty: only the last word of the page is looked at.                    *)
ErasePageAtByLastWord ==
    /\ hpc = "erase"
    /\ at < flashEnd
    /\ IF mode = "erase" \/ image[at * CellsPerPage + CellsPerPage - 1] # Erased \/ force
       THEN Send(Frame(ErasePacket(at))) /\ Goto("erasing") /\ UNCHANGED at
       ELSE at' = at + 1 /\ UNCHANGED <<hpc, rx>>
    /\ UNCHANGED <<asked, sizes, dump, verdict, tx>>

(* Faulty: the loop runs to a number of words, not of pages.               *)
ErasePageAtBeyondEnd ==
    /\ hpc = "erase"
    /\ at <= flashEnd * CellsPerPage
    /\ IF ToErase(at)
       THEN Send(Frame(ErasePacket(at))) /\ Goto("erasing") /\ UNCHANGED at
       ELSE at' = at + 1 /\ UNCHANGED <<hpc, rx>>
    /\ UNCHANGED <<asked, sizes, dump, verdict, tx>>

(* erase_block.                                                            *)
ErasePageAt ==
    /\ hpc = "erase"
    /\ at < flashEnd
    /\ IF ToErase(at)
       THEN Send(Frame(ErasePacket(at))) /\ Goto("erasing") /\ UNCHANGED at
       ELSE at' = at + 1 /\ UNCHANGED <<hpc, rx>>
    /\ UNCHANGED <<asked, sizes, dump, verdict, tx>>

(* The reply is waited for and not looked at.                              *)
EraseDone ==
    /\ hpc = "erasing"
    /\ TakeReply
    /\ at' = at + 1
    /\ Goto("erase")
    /\ UNCHANGED <<asked, sizes, dump, verdict, rx>>

EraseEnds ==
    /\ hpc = "erase"
    /\ at >= flashEnd
    /\ at' = 0
    /\ Goto(IF mode = "write" THEN "write" ELSE "exit")
    /\ UNCHANGED <<asked, sizes, dump, verdict, rx, tx>>

(* Faulty: the last word of a page is not sent.                            *)
WriteCellAtButLast ==
    /\ hpc = "write"
    /\ at < flashEnd * CellsPerPage
    /\ IF image[at] # Erased /\ (at + 1) % CellsPerPage # 0
       THEN Send(Frame(WritePacket(at))) ELSE UNCHANGED rx
    /\ at' = at + 1
    /\ UNCHANGED <<hpc, asked, sizes, dump, verdict, tx>>

(* write_block_usb_packet: nothing is waited for.                          *)
WriteCellAt ==
    /\ hpc = "write"
    /\ at < flashEnd * CellsPerPage
    /\ IF image[at] # Erased THEN Send(Frame(WritePacket(at))) ELSE UNCHANGED rx
    /\ at' = at + 1
    /\ UNCHANGED <<hpc, asked, sizes, dump, verdict, tx>>

(* Faulty: the status is not asked for.                                    *)
WriteEndsUnasked ==
    /\ hpc = "write"
    /\ at >= flashEnd * CellsPerPage
    /\ at' = 0
    /\ Goto("exit")
    /\ UNCHANGED <<asked, sizes, dump, verdict, rx, tx>>

(* flash_get_status asks once more.                                        *)
WriteEnds ==
    /\ hpc = "write"
    /\ at >= flashEnd * CellsPerPage
    /\ at' = 0
    /\ Send(Frame(TestPacket))
    /\ Goto("status")
    /\ UNCHANGED <<asked, sizes, dump, verdict, tx>>

(* Write Ok; or Write Error, and the image is compared as with -v.         *)
StatusReceived ==
    /\ hpc = "status"
    /\ TakeReply
    /\ IF ErrCountOf(ReplyToPC) = 0 THEN verdict' = "ok" /\ Goto("exit")
       ELSE verdict' = "error" /\ Goto("peek")
    /\ at' = 0
    /\ UNCHANGED <<asked, sizes, dump, rx>>

StepOf(c) == {d \in Cells : d \div StepCells = c \div StepCells}

(* Faulty: reading stops in the middle of a step.                          *)
PeekEndByCell ==
    IF mode = "read" THEN at >= usedEnd ELSE at >= flashEnd * CellsPerPage

(* verify_block looks at steps the image has something on, read_from_pic   *)
(* at every step that begins before the end.                               *)
PeekEnd ==
    IF mode = "read" THEN at - (at % StepCells) >= usedEnd
    ELSE at >= flashEnd * CellsPerPage

ToPeek(c) == mode = "read" \/ \E d \in StepOf(c) : image[d] # Erased

(* read_block.  READ_SIZE is larger than a block of the cache in           *)
(* codebuf.c, so code_buf_read goes to dumpmem every time.                 *)
PeekAt ==
    /\ hpc = "peek"
    /\ ~PeekEnd
    /\ IF ToPeek(at)
       THEN Send(Frame(PeekPacket(at))) /\ Goto("peeking") /\ UNCHANGED at
       ELSE at' = at + 1 /\ UNCHANGED <<hpc, rx>>
    /\ UNCHANGED <<asked, sizes, dump, verdict, tx>>

Peeked ==
    /\ hpc = "peeking"
    /\ TakeReply
    /\ LET v == PeekedOf(ReplyToPC)
       IN  IF mode = "read" THEN dump' = [dump EXCEPT ![at] = v] /\ verdict' = verdict
           ELSE /\ verdict' = IF v # image[at] THEN "error" ELSE verdict
                /\ dump' = dump
    /\ at' = at + 1
    /\ Goto("peek")
    /\ UNCHANGED <<asked, sizes, rx>>

PeekEnds ==
    /\ hpc = "peek"
    /\ PeekEnd
    /\ verdict' = IF mode = "verify" /\ verdict = "none" THEN "ok" ELSE verdict
    /\ Goto("exit")
    /\ UNCHANGED <<at, asked, sizes, dump, rx, tx>>

(* Faulty: the line is closed without the 0xff.                            *)
HostExitSilent ==
    /\ hpc = "exit"
    /\ Send(IF run THEN Frame(JumpPacket) ELSE <<>>)
    /\ Goto("ended")
    /\ UNCHANGED <<at, asked, sizes, dump, verdict, tx>>

(* reboot_target whatever the verdict, then UartExit: enough 0xff to fill  *)
(* a packet and to leave the monitor.                                      *)
HostExit ==
    /\ hpc = "exit"
    /\ Send((IF run THEN Frame(JumpPacket) ELSE <<>>)
            \o [k \in 1 .. PacketSize + 1 |-> FillByte])
    /\ Goto("ended")
    /\ UNCHANGED <<at, asked, sizes, dump, verdict, tx>>

(* What a running session does; a probe that fails is a matter of time.    *)
SessionStep ==
    \/ ProbeAnswered \/ CapsReceived \/ CapsRefused \/ ErasePageAt \/ EraseDone \/ EraseEnds
    \/ WriteCellAt \/ WriteEnds \/ StatusReceived
    \/ PeekAt \/ Peeked \/ PeekEnds \/ HostExit

(* A query whose reply has not come in full.                               *)
Waiting == hpc \in {"caps", "erasing", "status", "peeking"} /\ ~ReplyReady

(* The user kills the program, while it is writing to the line or not.     *)
HostKilled ==
    /\ hpc \notin {"off", "ended"}
    /\ \E k \in 0 .. Len(rx) : rx' = SubSeq(rx, 1, k)
    /\ Goto("off")
    /\ UNCHANGED <<at, asked, sizes, dump, verdict, tx>>

HostTypeOK ==
    /\ hpc \in {"off", "probe", "caps", "erase", "erasing", "write", "status",
               "peek", "peeking", "exit", "ended"}
    /\ at \in 0 .. (Pages * CellsPerPage)
    /\ image \in Images
    /\ mode \in Modes
    /\ force \in ForceErase
    /\ run \in RunAfter
    /\ flashEnd \in 0 .. Pages
    /\ usedEnd \in 0 .. (Pages * CellsPerPage)
    /\ dump \in [Cells -> 0 .. 255]
    /\ verdict \in {"none", "ok", "error"}
=============================================================================
