------------------------------ MODULE MCHidBoot ------------------------------
(* Small instances of HidBoot: two pages of four words, two words in a     *)
(* packet.                                                                 *)
EXTENDS HidBoot

AsFlash(words) == [c \in 0 .. 7 |-> IF c \in DOMAIN words THEN words[c] ELSE 255]

MCOld == {[c \in 0 .. 7 |-> 9], [c \in 0 .. 7 |-> 255]}

(* Three words; one and three, further on; two.                            *)
ShortTail   == AsFlash([c \in 0 .. 2 |-> c + 1])
TwoSections == AsFlash([c \in {0, 4, 5, 6} |-> c + 2])
Full        == AsFlash([c \in 0 .. 1 |-> c + 3])
MCImages    == {ShortTail, TwoSections, Full}
MCValue     == 0 .. 9 \cup {255}
MCEntry     == {0, 4}

(* Nothing happens, and the user may even start a session at once.  A file *)
(* that ends in a full block is written with -r.                           *)
Quiet     == [images |-> {ShortTail, TwoSections}, verify |-> BOOLEAN, reset |-> BOOLEAN,
              prompt |-> TRUE, kills |-> 0, cuts |-> 0]
QuietFull == [Quiet EXCEPT !.images = MCImages, !.reset = {TRUE}]
Hasty     == [Quiet EXCEPT !.prompt = FALSE]

(* The board is unplugged; the program is killed; both.                    *)
Cuts      == [QuietFull EXCEPT !.cuts = 2]
HastyCuts == [Cuts EXCEPT !.images = {TwoSections, Full}, !.prompt = FALSE]
Kills     == [Quiet EXCEPT !.reset = {FALSE}, !.kills = 2]
HastyKill == [Kills EXCEPT !.prompt = FALSE]
KillsFull == [QuietFull EXCEPT !.images = {Full, ShortTail}, !.verify = {TRUE},
                               !.prompt = FALSE, !.kills = 1, !.cuts = 1]

(* A file that ends in a full block, without -r.                           *)
FullAlone == [QuietFull EXCEPT !.images = {Full}, !.reset = {FALSE}]

MCScenes    == {Quiet, QuietFull, Hasty, Cuts, HastyCuts, Kills, HastyKill, KillsFull}
MCFullAlone == {FullAlone}

(* What the proofs suppose of a loader, of files and of scenes is so here, *)
(* except that FullAlone drops a section.                                  *)
ASSUME ProofAssumption ==
    /\ ErasedPages = Pages /\ ShortBlocksShow
    /\ Scenes = MCScenes => NothingDropped
    /\ ~Orderly(FullAlone)
=============================================================================
