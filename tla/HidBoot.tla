------------------------------- MODULE HidBoot -------------------------------
(***************************************************************************)
(* mphidflash, the USB endpoints and the HID boot loader, and what may     *)
(* happen to them: the user kills and restarts the program on the PC, the  *)
(* board is unplugged or reset, the user's program has to be left for the  *)
(* loader before it can be written anew.                                   *)
(***************************************************************************)
EXTENDS HidHost

CONSTANTS
    OldFlash,   \* what the flash may hold to begin with
    Scenes      \* the surroundings to look at, each a record of
                \*   images, verify, reset   what the user may choose
                \*   prompt   the board comes to rest before the next start
                \*   kills    how often the user kills the program
                \*   cuts     how often the board is reset or unplugged
                \* the last two being bounds

ASSUME SurroundingsAssumption ==
    /\ OldFlash \subseteq [Cells -> Value]
    /\ \A s \in Scenes :
          /\ s.images \subseteq Images
          /\ s.verify \subseteq BOOLEAN /\ s.reset \subseteq BOOLEAN
          /\ s.prompt \in BOOLEAN /\ s.kills \in Nat /\ s.cuts \in Nat

VARIABLES
    scene,      \* which of them it is; never changes
    faults      \* how often each fault has happened

vars == <<device, host, scene, faults>>

Chosen(i, v, r) == i \in scene.images /\ v \in scene.verify /\ r \in scene.reset

Init ==
    /\ BoardInit
    /\ HostInit
    /\ scene \in Scenes
    /\ Chosen(image, verify, reset)
    /\ flash \in OldFlash
    /\ faults = [kills |-> 0, cuts |-> 0]

-----------------------------------------------------------------------------
Board == BoardStep /\ UNCHANGED <<host, scene, faults>>

Session == SessionStep /\ UNCHANGED <<scene, faults>>

(* What takes the board off the bus.                                       *)
Gone == attached' = FALSE /\ UNCHANGED <<hpc, waiting, at, hexBuf, image, verify, reset, verdict>>

Resets == ResetDevice /\ Gone /\ UNCHANGED <<scene, faults>>

(* The user starts mphidflash; usbOpen finds a board that is in its loader *)
(* and leaves the endpoints as they are.  After a session was killed the   *)
(* host may have reset the bus and configured the device anew, which arms  *)
(* them (USBCBInitEP).                                                     *)
Start ==
    /\ hpc = "off" /\ mode = "loader"
    /\ scene.prompt => BoardIdle
    /\ hpc' = "query" /\ waiting' = FALSE /\ at' = 0 /\ hexBuf' = <<>>
    /\ attached' = TRUE
    /\ image' \in Images /\ verify' \in BOOLEAN /\ reset' \in BOOLEAN
    /\ Chosen(image', verify', reset')
    /\ verdict' = "none"
    /\ \/ UNCHANGED <<outBusy, inBusy>>
       \/ scene.kills > 0 /\ Serving /\ outBusy' = TRUE /\ inBusy' = FALSE
    /\ UNCHANGED <<mode, work, fromPcBuffer, toPc, flash, scene, faults>>

Kill ==
    /\ faults.kills < scene.kills
    /\ hpc # "off"
    /\ hpc' = "off" /\ waiting' = FALSE
    /\ faults' = [faults EXCEPT !.kills = @ + 1]
    /\ UNCHANGED <<at, hexBuf, attached, image, verify, reset, verdict, device, scene>>

(* The board is reset, with the switch in one position or the other.       *)
Cut ==
    /\ faults.cuts < scene.cuts
    /\ mode = "loader"
    /\ \E start \in BOOLEAN : Restart(start)
    /\ Gone
    /\ faults' = [faults EXCEPT !.cuts = @ + 1]
    /\ UNCHANGED scene

(* The user leaves the program for the loader.                             *)
BackToLoader ==
    /\ mode = "app"
    /\ Restart(FALSE)
    /\ Gone
    /\ UNCHANGED <<scene, faults>>

(* A program that hangs makes the user unplug the board sooner or later.   *)
Replug ==
    /\ scene.kills > 0
    /\ Blocked /\ BoardIdle
    /\ Restart(FALSE)
    /\ Gone
    /\ UNCHANGED <<scene, faults>>

Next == Board \/ Session \/ Resets \/ Start \/ Kill \/ Cut \/ BackToLoader \/ Replug

Spec == Init /\ [][Next]_vars

(* The board and the program run on; the user tries again.                 *)
FairSpec ==
    /\ Spec
    /\ WF_vars(Board)
    /\ WF_vars(Session)
    /\ WF_vars(Resets)
    /\ WF_vars(Start)
    /\ WF_vars(BackToLoader)
    /\ WF_vars(Replug)

-----------------------------------------------------------------------------
BootTypeOK ==
    /\ BoardTypeOK
    /\ HostTypeOK
    /\ scene \in Scenes
    /\ faults \in [kills : 0 .. scene.kills, cuts : 0 .. scene.cuts]

(* Nothing is on its way to the board and nothing in work.                 *)
Settled == outBusy /\ BootState = "idle"

Undisturbed == scene.kills + scene.cuts = 0

(* mphidflash prints no error (main.c, 260-268) of a file that is not in   *)
(* the flash: every word of it, and all the rest erased.  It has to have   *)
(* looked, or nothing to have happened: without -n no reply left over from *)
(* a session that was killed makes a block compare, and without any        *)
(* trouble no section is dropped for the pointer of the one before.        *)
OkMeansThere ==
    verdict = "ok" /\ Settled /\ (verify \/ Undisturbed) => flash = image

(* Without -n or with it: what a session has written is the file, or less  *)
(* where a block was dropped, but never a word of an earlier session, nor  *)
(* one at another place.                                                   *)
OnlyTheFile ==
    scene.kills = 0 /\ verdict = "ok" => \A c \in Cells : flash[c] \in {Erased, image[c]}

(* As long as nobody kills the program, a word is programmed only when it  *)
(* is erased: no packet of a session comes in behind the next one's erase, *)
(* and no word is left in ProgrammingBuffer for it.                        *)
ProgramsErasedOnly ==
    [][\A c \in Cells :
          scene.kills = 0 /\ flash'[c] \notin {flash[c], Erased} => flash[c] = Erased]_vars

(* main.c, 45-47: `Fixed race condition where an OUT packet could          *)
(* potentially clear the prior IN packet'.                                 *)
RepliesIntact == [][inBusy /\ inBusy' => toPc' = toPc]_vars

(* Images whose sections all end with a full block, those where none does, *)
(* and of the former those of one section.                                 *)
Sections(i) == {s \in Cells \X Cells :
                  /\ s[1] <= s[2]
                  /\ \A c \in s[1] .. s[2] : i[c] # Erased
                  /\ s[1] - 1 \notin Cells \/ i[s[1] - 1] = Erased
                  /\ s[2] + 1 \notin Cells \/ i[s[2] + 1] = Erased}
EndsFull(s) == (s[2] - s[1] + 1) % BlockCells = 0
WholeBlocks == {i \in Images : \A s \in Sections(i) : EndsFull(s)}
ShortEnds   == {i \in Images : \A s \in Sections(i) : ~EndsFull(s)}
OneSection  == {i \in WholeBlocks :
                  \A a, c \in Cells : i[a] # Erased /\ i[c] # Erased =>
                                         \A b \in a .. c : i[b] # Erased}

(* What OkMeansThere needs of the files.  A short block does not end in    *)
(* the word an empty reply holds: mphidflash would take the filling for    *)
(* it.  Where nothing happens and -n is given, no section is dropped for   *)
(* the pointer of the one before: the file's sections end in short blocks, *)
(* or it has but one and every session ends with -r.                       *)
ShortBlocksShow == \A i \in Images : \A s \in Sections(i) : EndsFull(s) \/ i[s[2]] # Zero
Orderly(s) == \A i \in s.images : i \in ShortEnds \/ (i \in OneSection /\ s.reset = {TRUE})
NothingDropped == \A s \in Scenes : s.kills + s.cuts = 0 /\ FALSE \in s.verify => Orderly(s)

(* A session comes to its end by itself, and without trouble to a good one *)
(* if it need not read back a short block (hex.c, 164, looks for it at the *)
(* other end of the reply).                                                *)
EndsWell == Undisturbed /\ (verify => image \in WholeBlocks)

SessionEnds ==
    /\ scene.kills = 0 /\ hpc = "query" ~> hpc = "off"
    /\ scene.prompt /\ EndsWell /\ hpc = "query" ~> hpc = "off" /\ verdict = "ok"

(* Every section of every image of the scene ends in a short block.        *)
Flushing == scene.images \subseteq ShortEnds

(* However sessions were cut short, trying again, and not too fast, writes *)
(* the file in the end; after a kill at least if the file makes the loader *)
(* forget its pointer.                                                     *)
Recovers ==
    scene.prompt /\ (scene.kills = 0 \/ Flushing) => []<>(flash = image)

(* hex.c, 444-446: `Make sure last data is flushed (issueBlock() does this *)
(* automatically if less than 56 bytes...but if the last packet is exactly *)
(* this size, an explicit flush is done here)': the loader is ready for a  *)
(* new section.                                                            *)
EndsFlushed == verdict = "ok" /\ Settled => ProgrammedPointer = InvalidAddress
=============================================================================
