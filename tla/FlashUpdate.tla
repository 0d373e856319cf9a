---------------------------- MODULE FlashUpdate ----------------------------
(***************************************************************************)
(* What writing an image to the board promises, whatever goes over the     *)
(* line and however often it is tried again: pages nobody asked to write   *)
(* stay as they are; a word is programmed only when it is erased; and once *)
(* a session has reported success the image is there, and stays there      *)
(* until another session begins.                                           *)
(***************************************************************************)
EXTENDS FlashLayout

CONSTANT Images     \* the images that are written

VARIABLES
    writable,       \* the pages that may be erased and programmed: always
                    \* the same
    flash, image, verdict

uvars == <<writable, flash, image, verdict>>

UInit ==
    /\ writable \subseteq 0 .. (Pages - 1)
    /\ flash \in [Cells -> Value]
    /\ image \in Images
    /\ verdict = "none"

Begin ==
    /\ verdict' = "none"
    /\ image' \in Images
    /\ UNCHANGED <<writable, flash>>

Erase(p) ==
    /\ verdict # "ok"
    /\ flash' = [c \in Cells |-> IF PageOf(c) = p THEN Erased ELSE flash[c]]
    /\ UNCHANGED <<writable, image, verdict>>

Program(c, v) ==
    /\ verdict # "ok"
    /\ flash[c] = Erased
    /\ flash' = [flash EXCEPT ![c] = v]
    /\ UNCHANGED <<writable, image, verdict>>

Report(result) ==
    /\ verdict = "none"
    /\ result = "ok" => Complete(flash, image)
    /\ verdict' = result
    /\ UNCHANGED <<writable, flash, image>>

UNext ==
    \/ Begin
    \/ \E p \in writable : Erase(p) \/ \E c \in CellsOf(p), v \in 0 .. 255 : Program(c, v)
    \/ \E result \in {"ok", "error"} : Report(result)

USpec == UInit /\ [][UNext]_uvars
-----------------------------------------------------------------------------
(* Success is reported only of an image that is there, and stays true.     *)
OkIsTrue == verdict = "ok" => Complete(flash, image)

(* The other pages keep what they hold.                                    *)
OthersKept ==
    [][\A c \in Cells : PageOf(c) \notin writable => flash'[c] = flash[c]]_uvars
=============================================================================
