----------------------------- MODULE ByteQueue -----------------------------
(***************************************************************************)
(* What a serial receive buffer promises its reader: a bounded first-in    *)
(* first-out queue of bytes.  A byte offered while the queue is full is    *)
(* dropped whole and disturbs nothing; a reader takes a number of bytes in *)
(* one piece, oldest first.  The ring buffer of fifo.c, driven by the      *)
(* receive interrupt of serial.c, is shown to implement this module.       *)
(***************************************************************************)
EXTENDS Naturals, Sequences

CONSTANTS
    Byte,       \* the values a byte can have
    Capacity    \* the number of bytes the queue can hold

VARIABLES
    queue,      \* the bytes accepted and not yet taken, oldest first
    taken       \* the bytes the last Take handed to the reader

qvars == <<queue, taken>>

QInit ==
    /\ queue = <<>>
    /\ taken = <<>>

(* A byte arrives and there is room.  (Offered to a full queue it is       *)
(* dropped, which changes nothing: a stuttering step.)                     *)
Put(b) ==
    /\ Len(queue) < Capacity
    /\ queue' = Append(queue, b)
    /\ taken' = taken

(* The reader takes the k oldest bytes.                                    *)
Take(k) ==
    /\ taken' = SubSeq(queue, 1, k)
    /\ queue' = SubSeq(queue, k + 1, Len(queue))

QNext ==
    \/ \E b \in Byte : Put(b)
    \/ \E k \in 1 .. Len(queue) : Take(k)

QSpec == QInit /\ [][QNext]_qvars
=============================================================================
