---------------------------- MODULE UartProtocol ----------------------------
(***************************************************************************)
(* What the UART boot loader and the PC tools agree on: the key bytes of   *)
(* main.c, the frame of usb-uart.c (a 0x01, then a command packet), the    *)
(* command codes of hidcmd.h and the packet of monit.h.                    *)
(*                                                                         *)
(* The packet is kept field by field and in its order on the wire, one     *)
(* byte each: command, size, address, the top byte of the address, data.   *)
(* subcmd is left out but for TEST, whose only argument it is.  An address *)
(* is the number of a flash word, a cell; the top byte says which memory   *)
(* is meant.  A data byte is the whole word a PAGE_WRITE programs.         *)
(***************************************************************************)
EXTENDS FlashLayout, Sequences

VARIABLES
    rx,     \* bytes on their way to the board, or in its receive ring
    tx      \* bytes on their way to the PC, or in its driver's buffer

PacketSize == 5     \* PACKET_SIZE: 64 in the code, here one byte per field

(* The key bytes of loop() and of UARTmonit.                               *)
ProbeKey  == 165    \* 0xa5: are you there?
ProbeAck  == 85     \* 0x55: the answer
EnterKey1 == 170    \* 0xaa 0x55: enter the monitor
EnterKey2 == 85
Marker    == 1      \* 0x01: a packet follows; anything else leaves the monitor
FillByte  == 255    \* 0xff: what UartExit floods the line with

(* Command codes (hidcmd.h).                                               *)
TEST       == 1
POKE       == 4
PEEK       == 5
JMP        == 6
PAGE_ERASE == 8
PAGE_WRITE == 10
FLASH_LOCK == 14

(* The fields of a packet.                                                 *)
Packet(cmd, size, adr, base, data) == <<cmd, size, adr, base, data>>
Cmd(p)  == p[1]
Arg(p)  == p[2]     \* size, or TEST's echo argument
Adr(p)  == p[3]
Base(p) == p[4]
Data(p) == p[5]

FlashBase == 29     \* 0x1d: the top byte of FLASH_BASE (0x1d000000)
KSeg0     == 128    \* set in a logical address: what makes it never zero
KSeg1     == 160    \* the same memory, uncached

(* check_flash_adrs on the physical address (adrs & 0x1fffffff).           *)
InFlash(base, adr) == base % 32 = FlashBase /\ adr \in Cells

(* usbWrite: the marker, then the packet.                                  *)
Frame(p) == <<Marker>> \o p
=============================================================================
