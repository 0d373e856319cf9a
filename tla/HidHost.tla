------------------------------- MODULE HidHost -------------------------------
(***************************************************************************)
(* mphidflash on the PC, writing an image over USB: flash_main of main.c   *)
(* and hexWrite of hex.c in hidmon32, with usbWrite of usb-linux.c.  One   *)
(* run of the program is a session.  usbWrite hands over one packet, and   *)
(* then waits for one reply if asked to, without a time limit both times.  *)
(* hpc says where the program is:                                          *)
(*   off       none is running                                             *)
(*   query     the query that counts the bytes free                        *)
(*   erase     ERASE_DEVICE, then `erased', the query that waits for it    *)
(*   write     hexWrite, first pass                                        *)
(*   complete  PROGRAM_COMPLETE behind a short block                       *)
(*   verify    hexWrite, second pass                                       *)
(*   reset     -r                                                          *)
(* waiting is TRUE from the moment the packet is handed over to the reply. *)
(***************************************************************************)
EXTENDS HidBoard

CONSTANT Images     \* what the hex file says of each cell, Erased: nothing
ASSUME ImagesAssumption == Images \subseteq [Cells -> Value]

VARIABLES
    hpc, waiting,
    at, hexBuf,     \* the next cell of the file, the block before it
    attached,       \* the device that was opened is still there
    image,          \* the hex file
    verify, reset,  \* -n not given, -r given
    verdict         \* what flash_main returns: success, an error, nothing yet

host == <<hpc, waiting, at, hexBuf, attached, image, verify, reset, verdict>>

HostInit ==
    /\ hpc = "off" /\ waiting = FALSE /\ at = 0 /\ hexBuf = <<>>
    /\ attached = FALSE
    /\ image \in Images
    /\ verify \in BOOLEAN /\ reset \in BOOLEAN
    /\ verdict = "none"

-----------------------------------------------------------------------------
(* usbWrite: the packet goes when the endpoint is armed, the reply comes   *)
(* when there is one.                                                      *)
HandOver(cmd, adr, data) ==
    /\ attached /\ ~waiting
    /\ outBusy
    /\ outBusy' = FALSE /\ fromPcBuffer' = Packet(cmd, adr, data)
    /\ UNCHANGED <<mode, inBusy, toPc, work, flash>>

Fetch ==
    /\ attached /\ waiting
    /\ inBusy
    /\ inBusy' = FALSE /\ waiting' = FALSE
    /\ UNCHANGED <<mode, outBusy, fromPcBuffer, toPc, work, flash>>

Options == <<attached, image, verify, reset>>

(* Both queries; what the first reply says is printed, the second is not   *)
(* looked at.  The printing goes on to an end mark, which a reply left by  *)
(* a killed session may lack; should it crash there, that is a Kill.       *)
Query ==
    /\ hpc \in {"query", "erased"}
    /\ HandOver("query", 0, <<>>)
    /\ waiting' = TRUE
    /\ UNCHANGED <<hpc, at, hexBuf, verdict, Options>>

QueryAnswered ==
    /\ hpc \in {"query", "erased"}
    /\ Fetch
    /\ hpc' = IF hpc = "query" THEN "erase" ELSE "write"
    /\ UNCHANGED <<at, hexBuf, verdict, Options>>

(* The status is overwritten by that of the second query, which fails as   *)
(* well if the device has gone.                                            *)
Erase ==
    /\ hpc = "erase"
    /\ HandOver("erase", 0, <<>>)
    /\ hpc' = "erased"
    /\ UNCHANGED <<waiting, at, hexBuf, verdict, Options>>

(* hexWrite collects the words of a section in hexBuf; a full block goes   *)
(* out at once, a short one where the section ends.                        *)
Has(c) == c \in Cells /\ image[c] # Erased
BlockFrom == at - Len(hexBuf)
BlockReady == Len(hexBuf) = BlockCells \/ (hexBuf # <<>> /\ ~Has(at))
PassOver == ~waiting /\ hexBuf = <<>> /\ at = Pages * CellsPerPage

ReadWord ==
    /\ hpc \in {"write", "verify"} /\ ~waiting
    /\ Len(hexBuf) < BlockCells /\ Has(at)
    /\ hexBuf' = Append(hexBuf, image[at])
    /\ at' = at + 1
    /\ UNCHANGED <<hpc, waiting, verdict, Options, device>>

NothingHere ==
    /\ hpc \in {"write", "verify"} /\ ~waiting
    /\ hexBuf = <<>> /\ at \in Cells /\ ~Has(at)
    /\ at' = at + 1
    /\ UNCHANGED <<hpc, waiting, hexBuf, verdict, Options, device>>

(* issueBlock, writing: nothing is waited for.  A short block is flushed.  *)
WriteBlock ==
    /\ hpc = "write" /\ BlockReady
    /\ HandOver("program", BlockFrom, hexBuf)
    /\ hpc' = IF Len(hexBuf) < BlockCells THEN "complete" ELSE "write"
    /\ hexBuf' = <<>>
    /\ UNCHANGED <<waiting, at, verdict, Options>>

SectionComplete ==
    /\ hpc = "complete"
    /\ HandOver("complete", 0, <<>>)
    /\ hpc' = "write"
    /\ UNCHANGED <<waiting, at, hexBuf, verdict, Options>>

(* Success, but for -r.                                                    *)
Finish ==
    IF reset THEN hpc' = "reset" /\ UNCHANGED verdict
    ELSE hpc' = "off" /\ verdict' = "ok"

(* The end of the write pass.  bufLen is never 56 here: the flush behind a *)
(* full block does not take place.                                         *)
WriteEnds ==
    /\ hpc = "write" /\ PassOver
    /\ at' = 0
    /\ IF verify THEN hpc' = "verify" /\ UNCHANGED verdict ELSE Finish
    /\ UNCHANGED <<waiting, hexBuf, Options, device>>

(* issueBlock, verifying: GET_DATA for as many bytes.                      *)
AskBlock ==
    /\ hpc = "verify" /\ BlockReady
    /\ HandOver("get", BlockFrom, hexBuf)
    /\ waiting' = TRUE
    /\ UNCHANGED <<hpc, at, hexBuf, verdict, Options>>

(* The reply is compared from its end, as a block to be written is.        *)
RightJustified(n) == SubSeq(toPc, BlockCells - n + 1, BlockCells)

(* Faulty: what does not compare is not told.                              *)
BlockVerifiedBlind ==
    /\ hpc = "verify"
    /\ Fetch
    /\ hexBuf' = <<>>
    /\ UNCHANGED <<hpc, at, verdict, Options>>

BlockVerified ==
    /\ hpc = "verify"
    /\ Fetch
    /\ IF RightJustified(Len(hexBuf)) = hexBuf
       THEN UNCHANGED <<hpc, verdict>> ELSE hpc' = "off" /\ verdict' = "error"
    /\ hexBuf' = <<>>
    /\ UNCHANGED <<at, Options>>

VerifyEnds ==
    /\ hpc = "verify" /\ PassOver
    /\ Finish
    /\ UNCHANGED <<waiting, at, hexBuf, Options, device>>

ResetBoard ==
    /\ hpc = "reset"
    /\ HandOver("reset", 0, <<>>)
    /\ hpc' = "off" /\ verdict' = "ok"
    /\ UNCHANGED <<waiting, at, hexBuf, Options>>

(* The device has gone: the transfer fails, and with it the session.       *)
LineFails ==
    /\ hpc # "off" /\ ~attached
    /\ hpc' = "off" /\ verdict' = "error" /\ waiting' = FALSE
    /\ UNCHANGED <<at, hexBuf, Options, device>>

SessionStep ==
    \/ Query \/ QueryAnswered \/ Erase
    \/ ReadWord \/ NothingHere \/ WriteBlock \/ SectionComplete \/ WriteEnds
    \/ AskBlock \/ BlockVerified \/ VerifyEnds \/ ResetBoard \/ LineFails

(* usbWrite cannot go on.                                                  *)
Blocked ==
    /\ hpc # "off" /\ attached
    /\ \/ waiting /\ ~inBusy
       \/ ~waiting /\ ~outBusy /\ (hpc \in {"write", "verify"} => BlockReady)

HostTypeOK ==
    /\ hpc \in {"off", "query", "erase", "erased", "write", "complete", "verify", "reset"}
    /\ waiting \in BOOLEAN /\ attached \in BOOLEAN
    /\ at \in 0 .. (Pages * CellsPerPage)
    /\ hexBuf \in Blocks /\ Len(hexBuf) <= at
    /\ image \in Images
    /\ verify \in BOOLEAN /\ reset \in BOOLEAN
    /\ verdict \in {"none", "ok", "error"}
=============================================================================
