---------------------------- MODULE MCCdcBridge -----------------------------
(* Instances of CdcBridge: traffic in one direction with two byte values,  *)
(* with a reset of the bus and a suspension; and in both at once.          *)
EXTENDS CdcBridge

CONSTANTS zero, other

Troubled(d, u)    == [down |-> d, up |-> u, resets |-> 1, naps |-> 1]
Undisturbed(d, u) == [down |-> d, up |-> u, resets |-> 0, naps |-> 0]

MCScenes == {Troubled({zero, other}, {}), Troubled({}, {zero, other}),
             Undisturbed({other}, {other})}
MCByte   == {zero, other}
=============================================================================
