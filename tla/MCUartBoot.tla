----------------------------- MODULE MCUartBoot -----------------------------
(* Small instances of UartBoot: two pages of two words.                    *)
EXTENDS UartBoot

MCPages == 2
MCCellsPerPage == 2

(* An old program in both pages, or an empty board.                        *)
OldProgram == [c \in 0 .. 3 |-> 9]
Blank      == [c \in 0 .. 3 |-> 255]

(* New programs: one that fills page 0 and half of page 1, a shorter one,  *)
(* and one of a single word.                                               *)
AsFlash(words) == [c \in 0 .. 3 |-> IF c < Len(words) THEN words[c + 1] ELSE 255]
Long  == AsFlash(<<7, 6, 5>>)
Short == AsFlash(<<3, 2>>)
Word  == AsFlash(<<4>>)

MCValue  == {0, 2, 3, 4, 5, 6, 7, 9, 255}
MCOld    == {OldProgram, Blank}
MCTwo    == {Short, Word}
MCAll    == {Long, Short, Word}

(* Nothing goes wrong, and the user tries every option.                    *)
Quiet == [modes |-> {"write"}, images |-> MCAll, force |-> BOOLEAN, run |-> BOOLEAN, prompt |-> TRUE,
          backlog |-> 3, kills |-> 0, resets |-> 0, losses |-> 0]

(* Sessions are cut short and the board is reset; page 1 is none of theirs.*)
Cut   == [Quiet EXCEPT !.images = MCTwo, !.force = {FALSE},
                       !.backlog = 6, !.kills = 2, !.resets = 1]

(* The board may take its time to answer a probe.                          *)
Late  == [Quiet EXCEPT !.images = MCTwo, !.force = {FALSE}, !.run = {FALSE},
                       !.prompt = FALSE]

(* A byte is lost as well.                                                 *)
Lossy == [Cut EXCEPT !.images = {Short}, !.run = {FALSE}, !.kills = 1, !.losses = 1]

(* Sessions that write, compare, read and erase follow one another, and    *)
(* are cut short.                                                          *)
Reading == [Quiet EXCEPT !.modes = {"write", "read", "verify", "erase"}, !.images = MCTwo,
                         !.run = {FALSE}]
CutReading == [Reading EXCEPT !.modes = {"write", "read"}, !.images = {Short}, !.force = {FALSE},
                              !.backlog = 6, !.kills = 1, !.resets = 1]

(* An image is written and compared.                                       *)
Compare == [Quiet EXCEPT !.modes = {"write", "verify"}, !.images = {Word},
                         !.force = {FALSE}, !.run = {FALSE}]

MCModes  == {"write", "read", "verify", "erase"}
MCFair   == {Quiet, Lossy, Reading}
MCFaults == {Quiet, Cut, Late, Reading, CutReading}
MCQuiet  == {Quiet}
MCCompare == {Compare}
=============================================================================
