----------------------------- MODULE FlashLayout -----------------------------
(***************************************************************************)
(* The program flash as the loader and the PC tools see it.  A cell is a   *)
(* flash word, named by its number; a page is the unit an erase works on.  *)
(***************************************************************************)
EXTENDS Naturals

CONSTANTS
    Pages,          \* the number of flash pages
    CellsPerPage,   \* words in the unit the flash erases
    Value           \* the values a flash word is given

Erased  == 255                          \* 0xffffffff, what an erase leaves
Garbled == 0                            \* two different words programmed over
                                        \* one another
ASSUME GeometryAssumption ==
    /\ Pages \in Nat \ {0}
    /\ CellsPerPage \in Nat \ {0}
    /\ Pages * CellsPerPage < 128       \* a cell number fits a byte twice
    /\ Value \subseteq 0 .. 255
    /\ {Erased, Garbled} \subseteq Value

Cells   == 0 .. (Pages * CellsPerPage - 1)
PageOf(c)  == c \div CellsPerPage
CellsOf(p) == {c \in Cells : PageOf(c) = p}

(* A page on which an image has something to write.                        *)
Holds(image, p) == \E c \in CellsOf(p) : image[c] # Erased

(* The flash holds the image: wherever it has something to write, the      *)
(* whole page is as the image says.                                        *)
Complete(flash, image) ==
    \A p \in 0 .. (Pages - 1) :
        Holds(image, p) => \A c \in CellsOf(p) : flash[c] = image[c]
=============================================================================
