------------------------------ MODULE Ps2Frame ------------------------------
(***************************************************************************)
(* The PS/2 keyboard line as ps2keyb.c reads it.  The keyboard drives      *)
(* clock and data: a frame is a start bit, DataBits data bits (lowest      *)
(* first), a parity and a stop bit, each valid while the clock is low.     *)
(* The board has no pin-change interrupt.  Two timer interrupts of one     *)
(* priority call kbd_int_handler, which compares the clock with what it    *)
(* was at the last call and, if it changed, calls kbd_handler, which reads *)
(* the clock pin again and then the data pin.  Each of these three reads   *)
(* is a step, for the keyboard moves the lines on its own.                 *)
(***************************************************************************)
EXTENDS Naturals, Sequences

CONSTANTS
    DataBits,     \* the number of data bits in a frame (8)
    Pace          \* when the keyboard may move the clock again:
                  \*   "handled"  once kbd_handler has finished with the last edge
                  \*   "noticed"  once kbd_int_handler has seen the last edge

ASSUME DataBitsAssumption == DataBits \in Nat \ {0}
ASSUME PaceAssumption == Pace \in {"handled", "noticed"}

VARIABLES
    clock, data,  \* the two lines, 0 or 1
    frame,        \* the byte the keyboard is sending, or sent last
    pos,          \* the number of bits of the frame whose clock has fallen
    clk_last,     \* kbd_int_handler's static: the level it saw last
    pc,           \* what the interrupt reads next: "clock", "edge", "data"
    bitcount,     \* the bits still missing from the frame
    kbd_data,     \* the shift register, lowest bit first
    out           \* the last byte given to put_que

line   == <<clock, data, frame, pos>>
driver == <<clk_last, pc, bitcount, kbd_data, out>>
vars   == <<clock, data, frame, pos, clk_last, pc, bitcount, kbd_data, out>>

FrameBits == DataBits + 3
Bit  == {0, 1}
Byte == [1 .. DataBits -> Bit]

(* kbd_init, and the initial value of clk_last; between frames the clock   *)
(* is high.                                                                *)
Init ==
    /\ clock = 1
    /\ data = 1
    /\ frame \in Byte
    /\ pos = FrameBits
    /\ clk_last = 1
    /\ pc = "clock"
    /\ bitcount = FrameBits
    /\ kbd_data = [i \in 1 .. DataBits |-> 0]
    /\ out = <<>>
-----------------------------------------------------------------------------
(* The keyboard.                                                           *)
CaughtUp == clk_last = clock /\ pc = "clock"

MayMove == IF Pace = "handled" THEN CaughtUp ELSE clk_last = clock

(* It starts a frame when the last one is out.                             *)
Begin(b) ==
    /\ pos = FrameBits
    /\ clock = 1
    /\ MayMove
    /\ frame' = b
    /\ pos' = 0
    /\ UNCHANGED <<clock, data, driver>>

(* The level of data for the p-th bit of the frame.  The driver looks at   *)
(* neither parity nor start and stop: the parity may be anything.          *)
Level(p) ==
    IF p = 1 THEN {0}
    ELSE IF p <= DataBits + 1 THEN {frame[p - 1]}
    ELSE IF p = DataBits + 2 THEN Bit
    ELSE {1}

Fall ==
    /\ pos < FrameBits
    /\ clock = 1
    /\ MayMove
    /\ clock' = 0
    /\ pos' = pos + 1
    /\ data' \in Level(pos + 1)
    /\ UNCHANGED <<frame, driver>>

Rise ==
    /\ clock = 0
    /\ MayMove
    /\ clock' = 1
    /\ UNCHANGED <<data, frame, pos, driver>>
-----------------------------------------------------------------------------
(* The driver.                                                             *)

(* kbd_int_handler: the clock is not what it was at the last interrupt.    *)
Sample ==
    /\ pc = "clock"
    /\ clock # clk_last
    /\ clk_last' = clock
    /\ pc' = "edge"
    /\ UNCHANGED <<line, bitcount, kbd_data, out>>

(* Faulty: the parity bit is shifted in as well.                           *)
FallingEdgeLate ==
    /\ pc = "edge"
    /\ clock = 0
    /\ pc' = IF 1 < bitcount /\ bitcount < FrameBits THEN "data" ELSE "clock"
    /\ UNCHANGED <<line, clk_last, bitcount, kbd_data, out>>

(* kbd_handler finds the clock low: start, parity and stop are skipped.    *)
FallingEdge ==
    /\ pc = "edge"
    /\ clock = 0
    /\ pc' = IF 2 < bitcount /\ bitcount < FrameBits THEN "data" ELSE "clock"
    /\ UNCHANGED <<line, clk_last, bitcount, kbd_data, out>>

(* The data pin is shifted in at the top.                                  *)
DataBit ==
    /\ pc = "data"
    /\ kbd_data' = [i \in 1 .. DataBits |->
                      IF i = DataBits THEN data ELSE kbd_data[i + 1]]
    /\ pc' = "clock"
    /\ UNCHANGED <<line, clk_last, bitcount, out>>

(* Faulty: the counter is not set up for the next frame's start bit.       *)
RisingEdgeShort ==
    /\ pc = "edge"
    /\ clock = 1
    /\ IF bitcount - 1 = 0
       THEN bitcount' = FrameBits - 1 /\ out' = <<kbd_data>>
       ELSE bitcount' = bitcount - 1 /\ out' = out
    /\ pc' = "clock"
    /\ UNCHANGED <<line, clk_last, kbd_data>>

(* Faulty: a frame is never given to put_que.                              *)
RisingEdgeSilent ==
    /\ pc = "edge"
    /\ clock = 1
    /\ bitcount' = IF bitcount - 1 = 0 THEN FrameBits ELSE bitcount - 1
    /\ pc' = "clock"
    /\ UNCHANGED <<line, clk_last, kbd_data, out>>

(* Faulty: the bits are counted down after the test, not before it.        *)
RisingEdgePostDecrement ==
    /\ pc = "edge"
    /\ clock = 1
    /\ IF bitcount = 0
       THEN bitcount' = FrameBits /\ out' = <<kbd_data>>
       ELSE bitcount' = bitcount - 1 /\ out' = out
    /\ pc' = "clock"
    /\ UNCHANGED <<line, clk_last, kbd_data>>

(* It finds the clock high: one bit less to come; put_que after the last.  *)
RisingEdge ==
    /\ pc = "edge"
    /\ clock = 1
    /\ IF bitcount - 1 = 0
       THEN bitcount' = FrameBits /\ out' = <<kbd_data>>
       ELSE bitcount' = bitcount - 1 /\ out' = out
    /\ pc' = "clock"
    /\ UNCHANGED <<line, clk_last, kbd_data>>

Keyboard == (\E b \in Byte : Begin(b)) \/ Fall \/ Rise
Driver   == Sample \/ FallingEdge \/ DataBit \/ RisingEdge

Next == Keyboard \/ Driver

Spec == Init /\ [][Next]_vars

(* The timers keep interrupting, and a frame once begun is clocked out.    *)
FairSpec == Spec /\ WF_vars(Driver) /\ WF_vars(Fall) /\ WF_vars(Rise)
-----------------------------------------------------------------------------
TypeOK ==
    /\ clock \in Bit /\ data \in Bit /\ clk_last \in Bit
    /\ frame \in Byte /\ kbd_data \in Byte
    /\ pos \in 0 .. FrameBits
    /\ pc \in {"clock", "edge", "data"}
    /\ bitcount \in 1 .. FrameBits
    /\ out \in Seq(Byte)

(* The number of bits the driver has counted off in this frame.            *)
Counted == FrameBits - bitcount

(* How many bits of the frame, and how many data bits of them, the driver  *)
(* has looked at.                                                          *)
Heard   == IF clock = 0 /\ ~CaughtUp THEN pos - 1 ELSE pos
Shifted == IF Heard = 0 THEN 0
           ELSE IF Heard > DataBits THEN DataBits
           ELSE Heard - 1

(* A frame not yet handed over.                                            *)
InFlight == pos < FrameBits \/ clock = 0 \/ ~CaughtUp

(* As long as every edge is handled before the next, the driver's bit      *)
(* counter says where in the frame the keyboard is, and the top of the     *)
(* shift register holds the data bits that have gone by (kbd_handler).     *)
InStep ==
    /\ clock = 0 => pos > 0
    /\ clock = 1 /\ ~CaughtUp => pos > 0
    /\ pc # "clock" => clk_last = clock
    /\ pc = "data" => clock = 0 /\ 2 < bitcount /\ bitcount < FrameBits
    /\ Counted = IF ~InFlight THEN 0
                 ELSE IF clock = 1 /\ CaughtUp THEN pos
                 ELSE pos - 1
    /\ clock = 0 /\ 1 < pos /\ pos <= DataBits + 1 => data = frame[pos - 1]
    /\ InFlight =>
         \A i \in 1 .. Shifted : kbd_data[(DataBits - Shifted) + i] = frame[i]

(* The line together with the sampling interrupt is a queue for one byte:  *)
(* every byte the keyboard sends is given to put_que once, as it was sent, *)
(* in the order sent (kbd_int_handler, kbd_handler).                       *)
Wire == INSTANCE ByteQueue WITH
            Capacity <- 1,
            queue <- IF InFlight THEN <<frame>> ELSE <<>>,
            taken <- out
ImplementsWire == Wire!QSpec

(* A byte the keyboard has begun to send is given to put_que, by the time  *)
(* the frame is out (kbd_handler).                                         *)
FrameArrives == InFlight ~> (~InFlight /\ out = <<frame>>)
=============================================================================
