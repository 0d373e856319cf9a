----------------------------- MODULE MCPs2Frame -----------------------------
(* Instances of Ps2Frame with a few data bits; every byte value occurs.    *)
EXTENDS Ps2Frame
=============================================================================
