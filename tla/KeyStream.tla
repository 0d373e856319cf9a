----------------------------- MODULE KeyStream ------------------------------
(***************************************************************************)
(* What a keyboard promises the program that reads it: the characters of   *)
(* the keys struck, each with the shift and control keys as they were held *)
(* when it was struck and not when it is read, once and in order.  A key   *)
(* is [ext, code], ext for the keys of the E0 group; kbd_getchar is        *)
(* checked against this.                                                   *)
(***************************************************************************)
EXTENDS Naturals, Sequences

CONSTANTS
    Keys,         \* the keys that are used, [ext : BOOLEAN, code : 1 .. 127]
    Shifts,       \* the keys among them that shift
    Controls,     \* the keys among them that control
    Char          \* Char[key][shifted][controlled]: 0 for a key without one

VARIABLES
    held,         \* the keys that are down
    due,          \* the characters typed and not yet read
    got           \* what the last call returned, 0 for nothing yet

kvars == <<held, due, got>>

KInit ==
    /\ held = {}
    /\ due = <<>>
    /\ got = 0

(* The character of a key struck while the keys of down are down.          *)
Struck(k, down) == Char[k][down \intersect Shifts # {}][down \intersect Controls # {}]

(* A key goes down, or is down and repeats.                                *)
Press(k) ==
    /\ held' = held \union {k}
    /\ LET ch == Struck(k, held')
       IN  due' = IF ch = 0 THEN due ELSE Append(due, ch)
    /\ got' = got

Release(k) ==
    /\ k \in held
    /\ held' = held \ {k}
    /\ UNCHANGED <<due, got>>

Read ==
    /\ due # <<>>
    /\ got' = Head(due)
    /\ due' = Tail(due)
    /\ held' = held

(* A call that has nothing to return yet.                                  *)
Nothing ==
    /\ got' = 0
    /\ UNCHANGED <<held, due>>

KNext == (\E k \in Keys : Press(k) \/ Release(k)) \/ Read \/ Nothing

KSpec == KInit /\ [][KNext]_kvars

(* The program reads on.                                                   *)
KFairSpec == KSpec /\ WF_kvars(Read)
=============================================================================
