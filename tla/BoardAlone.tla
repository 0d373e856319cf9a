----------------------------- MODULE BoardAlone -----------------------------
(***************************************************************************)
(* The board alone, with a PC that may send anything a constant allows, at *)
(* any moment the reset button pressed, power cut or the processor reset   *)
(* by a user's program, and BOOT_SW open or closed when it starts.  The PC *)
(* sends a byte when the board waits for one.                              *)
(***************************************************************************)
EXTENDS BootMonitor

CONSTANTS
    KeyBytes,       \* what the PC sends where a key or a marker is expected
    FieldBytes      \* what it sends at each place of a packet

ASSUME LineAssumption ==
    /\ KeyBytes \subseteq 0 .. 255
    /\ FieldBytes \in [1 .. PacketSize -> SUBSET (0 .. 255)]

VARIABLE fills      \* how many 0xff the PC has sent in a row, capped

vars == <<device, rx, tx, fills>>

Enough == PacketSize + 1

Init ==
    /\ DeviceInit
    /\ flash = [c \in Cells |-> Erased]
    /\ rx = <<>>
    /\ tx = <<>>
    /\ fills = 0

Expected == IF pc = "packet" THEN FieldBytes[Len(rx) + 1] ELSE KeyBytes

(* 0xff may come at any place.                                             *)
PcSends ==
    /\ DeviceIdle
    /\ \E b \in Expected \cup {FillByte} :
          /\ rx' = Append(rx, b)
          /\ fills' = IF b # FillByte THEN 0 ELSE IF fills < Enough THEN fills + 1 ELSE fills
    /\ tx' = <<>>
    /\ UNCHANGED device

Board == DeviceStep /\ fills' = fills

Button(closed) == HardReset(closed) /\ fills' = fills

AppResets(closed) == pc = "app" /\ SoftReset(closed) /\ fills' = fills

(* Power goes and comes: RCON.SWR is clear, and RAM holds its contents if  *)
(* it was for a moment only.                                               *)
PowerCycle(closed) ==
    /\ LoseRing
    /\ swr' = FALSE
    /\ pc' = IF closed /\ AppPresent THEN "app" ELSE "loop"
    /\ softKey' \in {FALSE, softKey /\ ~closed}
    /\ back' = "loop"
    /\ reply' = <<>>
    /\ toPc' = Packet(0, 0, 0, 0, 0)
    /\ UNCHANGED <<flash, nvmFaults, tx, fills>>

Next ==
    \/ PcSends \/ Board
    \/ \E closed \in SwitchMayBe : Button(closed) \/ AppResets(closed) \/ PowerCycle(closed)

Spec == Init /\ [][Next]_vars
-----------------------------------------------------------------------------
(* Wherever the PC left off, PACKET_SIZE + 1 bytes of 0xff take the board  *)
(* out of the monitor and of any packet, which is what UartExit (util.c,   *)
(* 1005-1015) sends them for; one less would not.  They bring it back to   *)
(* loop(), unless a user's program has the processor or the packet they    *)
(* completed was a PEEK or POKE of memory that does not exist.             *)
ExitResyncs == fills = Enough /\ DeviceIdle => pc \in {"loop", "app", "stuck"}

(* With BOOT_SW open the reset button leads to the loader, whatever ran    *)
(* and however it was started (main.c, 222-240): the reset flag that       *)
(* nobody clears never meets a key left over from an earlier start.  Only  *)
(* between the two halves of reset_device may it start the program, which  *)
(* is what was asked for.                                                  *)
ButtonEntersLoader ==
    [][Button(FALSE) /\ pc # "resetting" => pc' = "loop"]_vars
=============================================================================
