------------------------------ MODULE UartBoot ------------------------------
(***************************************************************************)
(* The flash writer on the PC, the serial line and the boot loader on the  *)
(* board, with what the surroundings may do to them: the user kills and    *)
(* restarts the program on the PC, presses the board's reset button, a     *)
(* byte is lost, the host's sleep of 16 ms ends before the board answered. *)
(***************************************************************************)
EXTENDS BootMonitor, FlashHost

CONSTANTS
    OldFlash,       \* what the flash may hold to begin with
    Scenes          \* the surroundings to look at, each a record of
                    \*   modes, images, force, run   what the user may choose
                    \*   prompt   the board comes to rest within the host's
                    \*            16 ms and before the next start
                    \*   backlog  bytes on the line when a session starts
                    \*   kills    how often the user kills the program
                    \*   resets   how often the user resets the board
                    \*   losses   how many bytes get lost
                    \* the last four being bounds

ASSUME SurroundingsAssumption ==
    /\ OldFlash \subseteq [Cells -> Value]
    /\ \A s \in Scenes :
          /\ s.modes \subseteq Modes /\ s.images \subseteq Images /\ s.force \subseteq ForceErase /\ s.run \subseteq RunAfter
          /\ s.prompt \in BOOLEAN
          /\ s.backlog \in Nat /\ s.kills \in Nat /\ s.resets \in Nat /\ s.losses \in Nat

VARIABLES
    scene,      \* which of them it is; never changes
    faults      \* how often each fault has happened

vars == <<device, host, rx, tx, scene, faults>>

Faults == [kills : 0 .. scene.kills, resets : 0 .. scene.resets, losses : 0 .. scene.losses]

(* What the user asks for.  -E alone has no file and -rp reads none: the   *)
(* image is then the one of the session before.  -r and -rp exclude one    *)
(* another; -E means nothing to -v, nor to -rp with a file to write to.    *)
(* -E and -rp without one, -r alone and -B are left out.                   *)
Chosen(m, i, f, r) ==
    /\ m \in scene.modes /\ i \in scene.images /\ f \in scene.force /\ r \in scene.run
    /\ m = "erase" => f
    /\ m \in {"verify", "read"} => ~f
    /\ m = "read" => ~r

Init ==
    /\ DeviceInit
    /\ HostInit
    /\ scene \in Scenes
    /\ Chosen(mode, image, force, run)
    /\ flash \in OldFlash
    /\ rx = <<>>
    /\ tx = <<>>
    /\ faults = [kills |-> 0, resets |-> 0, losses |-> 0]

-----------------------------------------------------------------------------
(* Time is not modelled but for this: if the board is prompt the two waits *)
(* of the host, its sleep and the pause before the user tries again, are      *)
(* longer than anything the board has left to do.                          *)
InTime == ~(scene.prompt /\ ~DeviceIdle)

Board == DeviceStep /\ UNCHANGED <<host, scene, faults>>

Session == SessionStep /\ UNCHANGED <<device, scene, faults>>

Start ==
    /\ InTime
    /\ Len(rx) < scene.backlog
    /\ HostStart
    /\ Chosen(mode', image', force', run')
    /\ mode' \in {"read", "erase"} => image' = image
    /\ UNCHANGED <<device, scene, faults>>

GivesUp == InTime /\ ProbeFails /\ UNCHANGED <<device, scene, faults>>

Kill ==
    /\ faults.kills < scene.kills
    /\ HostKilled
    /\ faults' = [faults EXCEPT !.kills = @ + 1]
    /\ UNCHANGED <<device, scene>>

(* A program that hangs in a query is killed sooner or later.              *)
KillHung ==
    /\ scene.kills > 0
    /\ Waiting /\ DeviceIdle
    /\ hpc' = "off"
    /\ UNCHANGED <<device, at, asked, sizes, dump, verdict, rx, tx, scene, faults>>

(* What was sent before the latest probe is in the ring by now, and lost.  *)
Reset ==
    /\ faults.resets < scene.resets
    /\ \E closed \in SwitchMayBe : HardReset(closed)
    /\ ~(scene.prompt /\ hpc = "probe" /\ Len(rx') > 1)
    /\ faults' = [faults EXCEPT !.resets = @ + 1]
    /\ UNCHANGED <<host, scene>>

LoseByte ==
    /\ faults.losses < scene.losses
    /\ \/ \E k \in 1 .. Len(rx) :
             rx' = SubSeq(rx, 1, k - 1) \o SubSeq(rx, k + 1, Len(rx)) /\ tx' = tx
       \/ \E k \in 1 .. Len(tx) :
             tx' = SubSeq(tx, 1, k - 1) \o SubSeq(tx, k + 1, Len(tx)) /\ rx' = rx
    /\ faults' = [faults EXCEPT !.losses = @ + 1]
    /\ UNCHANGED <<device, host, scene>>

Next == Board \/ Session \/ Start \/ GivesUp \/ Kill \/ KillHung \/ Reset \/ LoseByte

Spec == Init /\ [][Next]_vars

(* The board and the program run on; the sleep ends; the user tries again. *)
FairSpec ==
    /\ Spec
    /\ WF_vars(Board)
    /\ WF_vars(Session)
    /\ WF_vars(GivesUp)
    /\ WF_vars(Start)
    /\ WF_vars(KillHung)

-----------------------------------------------------------------------------
BootTypeOK ==
    /\ DeviceTypeOK
    /\ HostTypeOK
    /\ scene \in Scenes
    /\ faults \in Faults

(* Pages some session may be told to write; with -E all of them are erased. *)
WritablePages ==
    IF TRUE \in scene.force THEN 0 .. (Pages - 1)
    ELSE {p \in 0 .. (Pages - 1) : \E i \in scene.images : Holds(i, p)}

(* Sessions cut short at any byte, repeated, with the board reset under    *)
(* them, implement FlashUpdate: half a packet, filled up by the bytes of   *)
(* the next session, never touches another page or programs a word twice,  *)
(* and `Write Ok' (uartflash.c, 837-840) is true when it is printed and as *)
(* long as no other session begins.  Sessions that only read or compare    *)
(* report nothing of the kind and change nothing.                          *)
Update == INSTANCE FlashUpdate
          WITH writable <- WritablePages,
               verdict  <- IF mode = "write" THEN verdict ELSE "none"
ImplementsUpdate == Update!USpec

(* -r: the board starts a program only when all of it has been written, or *)
(* when a session wrote none and was told to start what there is.          *)
StartsOnlyComplete ==
    [][pc # "app" /\ pc' = "app" =>
          \/ mode = "write" /\ verdict = "ok" /\ Complete(flash, image)
          \/ mode \in {"verify", "erase"} /\ run]_vars

(* UartExit (util.c, 1005-1015) leaves the board waiting for a probe, not  *)
(* in the monitor and not in the middle of a packet, so that the next      *)
(* session is answered.                                                    *)
ExitedInLoop ==
    hpc = "ended" /\ DeviceIdle => pc \in {"loop", "app"}

Undisturbed == scene.prompt /\ scene.kills + scene.resets + scene.losses = 0

(* A session that has found the board comes to its end, and reports Ok if  *)
(* it was to write.                                                        *)
SessionSucceeds ==
    hpc = "caps" /\ Undisturbed ~> hpc = "ended" /\ (mode = "write" => verdict = "ok")

(* -rp (uartflash.c, 674-682): a session that came to its end has read     *)
(* what the flash holds, whatever replies an earlier one left behind; but  *)
(* for the last word in use, if it begins a step.                          *)
DumpIsFlash ==
    hpc = "ended" /\ mode = "read" /\ scene.prompt /\ scene.losses = 0 =>
        \A c \in Cells : dump[c] = flash[c] \/ (IsFlashEnd(c) /\ c % StepCells = 0)

(* -v (uartflash.c, 33 and 849-857): Verify Ok is printed of an image that *)
(* is on the board, and Verify Error of no other.                          *)
VerifyIsTrue ==
    hpc = "ended" /\ mode = "verify" => (verdict = "ok" <=> Complete(flash, image))

(* However sessions were cut short, trying again succeeds in the end,      *)
(* unless the user has the board leave the loader.                         *)
Recovers == []<>(verdict = "ok" \/ TRUE \in scene.run \/ scene.modes # {"write"})

(* Write Ok says that no flash operation failed: util.c, 815, has a count  *)
(* of write errors, and uartflash.c, 836-838, decides by it.               *)
WriteOkMeansNoError == verdict = "ok" => nvmFaults = 0
=============================================================================
