----------------------------- MODULE MCUartFifo -----------------------------
(* Small instances of UartFifo: a ring of a few slots and two byte values, *)
(* so that it wraps, fills and overflows many times.                       *)
EXTENDS UartFifo
=============================================================================
