------------------------------ MODULE BytePipe ------------------------------
(***************************************************************************)
(* What a serial bridge promises for one direction: the bytes come out in  *)
(* the order they went in, unchanged, none twice, and all of them do come  *)
(* out, in pieces of any size.  Only when the bus is reset may bytes on    *)
(* their way be lost: at most a packet of them, the oldest or the newest   *)
(* ones, and never some in between.                                        *)
(***************************************************************************)
EXTENDS Naturals, Sequences

CONSTANTS
    Byte,
    Packet      \* bytes in the largest packet

VARIABLES
    pipe,       \* the bytes on their way, oldest first
    out,        \* the piece that came out last
    resets      \* how often the bus has been reset

pvars == <<pipe, out, resets>>

PInit == pipe = <<>> /\ out = <<>> /\ resets = 0

PSend ==
    /\ Len(pipe') > Len(pipe)
    /\ SubSeq(pipe', 1, Len(pipe)) = pipe
    /\ \A k \in Len(pipe) + 1 .. Len(pipe') : pipe'[k] \in Byte
    /\ UNCHANGED <<out, resets>>

PDeliver ==
    \E k \in 1 .. Len(pipe) :
        /\ out' = SubSeq(pipe, 1, k)
        /\ pipe' = SubSeq(pipe, k + 1, Len(pipe))
        /\ resets' = resets

PReset ==
    /\ resets' = resets + 1
    /\ \E lost \in 0 .. Len(pipe) :
        /\ lost <= Packet
        /\ pipe' \in {SubSeq(pipe, lost + 1, Len(pipe)), SubSeq(pipe, 1, Len(pipe) - lost)}
    /\ out' = out

PNext == PSend \/ PDeliver \/ PReset

(* Weak fairness of PDeliver, which can happen whenever pipe # <<>>.       *)
PFair == []<>(pipe = <<>>) \/ []<><<PDeliver>>_pvars

PSpec == PInit /\ [][PNext]_pvars /\ PFair
=============================================================================
