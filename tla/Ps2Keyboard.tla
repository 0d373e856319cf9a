---------------------------- MODULE Ps2Keyboard ----------------------------
(***************************************************************************)
(* The key queue of ps2keyb.c and what kbd_getchar makes of it.  Bytes     *)
(* arrive one by one as Ps2Frame hands them to put_que, in the interrupt;  *)
(* the main program takes them out in kbd_getcode and decodes them.  There *)
(* is no lock: put_que runs to completion, kbd_getcode is a step for each  *)
(* access to what it shares with put_que.  The prefix flags, the shift     *)
(* states and the table of pressed keys belong to the main program alone,  *)
(* so the rest of kbd_getchar is one step.                                 *)
(***************************************************************************)
EXTENDS Naturals, Sequences

CONSTANTS
    Size,             \* the slots of kbd_buffer (BUFF_SIZE, a power of two)
    Keys,             \* the keys in use, [ext : BOOLEAN, code : 1 .. 127]
    HastyKeys,        \* the keys among them a user strikes who does not wait
    KeycodeTable      \* keycode_table: code -> <<plain, shifted>>

E0 == 224
E1 == 225
F0 == 240
SKEY_EXTEND == 128
SKEY_LSHIFT == 18
SKEY_CTRL   == 20

ASSUME SizeAssumption == Size \in Nat \ {0, 1}
ASSUME KeysAssumption ==
    /\ Keys \subseteq [ext : BOOLEAN, code : 1 .. 127]
    /\ HastyKeys \subseteq Keys

VARIABLES
    kbd_buffer, inptr, outptr,      \* shared with the interrupt
    pc, p, c,                       \* kbd_getcode's place and its locals
    prefix, kbd_shift, kbd_stat,    \* sets of flags, flags and codes
    got,                            \* what kbd_getchar returned last
    taken,                          \* what kbd_getcode took last
    patient,                        \* whether the user waits for the codes of a
                                    \* key to fit into the queue; never changes
    held,                           \* the keys that are down
    due,                            \* the characters typed and not yet returned
    wire                            \* the codes the keyboard has yet to send

ring   == <<kbd_buffer, inptr, outptr>>
reader == <<pc, p, c, taken>>
status == <<prefix, kbd_shift, kbd_stat, got>>
user   == <<patient, held, due, wire>>
vars   == <<kbd_buffer, inptr, outptr, pc, p, c, prefix, kbd_shift, kbd_stat,
            got, taken, patient, held, due, wire>>

Slots == 0 .. (Size - 1)
Code  == 1 .. 255
(* Faulty: the pointer is not masked.                                     *)
SuccUnmasked(q) == q + 1

(* p++; p &= BUFF_SIZE_MASK                                                *)
Succ(q) == (q + 1) % Size

(* kbd_init; the buffer is static.                                         *)
Init ==
    /\ kbd_buffer = [s \in Slots |-> 0]
    /\ inptr = 0 /\ outptr = 0
    /\ pc = "idle" /\ p = 0 /\ c = 0
    /\ prefix = {} /\ kbd_shift = {} /\ kbd_stat = {}
    /\ got = 0 /\ taken = <<>>
    /\ patient \in {TRUE} \union {HastyKeys = {}}
    /\ held = {} /\ due = <<>> /\ wire = <<>>

Used == (inptr + Size - outptr) % Size

(* The codes in the queue, oldest first.                                   *)
Unread == [k \in 1 .. Used |-> kbd_buffer[(outptr + k - 1) % Size]]
-----------------------------------------------------------------------------
IsShift(k)   == k.code = SKEY_LSHIFT /\ ~k.ext
IsControl(k) == k.code = SKEY_CTRL

(* keycode_table's entry for a key, the keys of the E0 group with the MSB  *)
(* (keyname.h, lines 5 to 7).                                              *)
CharOf == [k \in Keys |-> [shifted \in BOOLEAN |-> [controlled \in BOOLEAN |->
             LET entry == KeycodeTable[k.code + (IF k.ext THEN SKEY_EXTEND ELSE 0)]
                                      [IF shifted THEN 2 ELSE 1]
             IN  IF controlled THEN entry % 32 ELSE entry]]]

Typed == INSTANCE KeyStream WITH
             Shifts <- {k \in Keys : IsShift(k)},
             Controls <- {k \in Keys : IsControl(k)},
             Char <- CharOf

(* The keyboard and the user.  Make and break codes, for keys of the E0    *)
(* group with that prefix.                                                 *)
Prefixed(k, codes) == IF k.ext THEN <<E0>> \o codes ELSE codes
Make(k)  == Prefixed(k, <<k.code>>)
Break(k) == Prefixed(k, <<F0, k.code>>)

Fits(codes) == patient => Used + Len(codes) < Size

(* A key goes down, or is held and repeats.                                *)
Press(k) ==
    /\ wire = <<>>
    /\ Fits(Make(k))
    /\ Typed!Press(k)
    /\ wire' = Make(k)
    /\ UNCHANGED <<ring, reader, prefix, kbd_shift, kbd_stat, patient>>

Release(k) ==
    /\ wire = <<>>
    /\ Fits(Break(k))
    /\ Typed!Release(k)
    /\ wire' = Break(k)
    /\ UNCHANGED <<ring, reader, prefix, kbd_shift, kbd_stat, patient>>

(* Faulty: the pointer moves onto a full queue.                            *)
PutQueUnchecked ==
    /\ wire # <<>>
    /\ wire' = Tail(wire)
    /\ kbd_buffer' = [kbd_buffer EXCEPT ![inptr] = Head(wire)]
    /\ inptr' = Succ(inptr)
    /\ UNCHANGED <<outptr, reader, status, patient, held, due>>

(* put_que, in the interrupt: the slot is written, and counts only if the  *)
(* pointer does not catch up with outptr.  No code of a key is 0.          *)
PutQue ==
    /\ wire # <<>>
    /\ wire' = Tail(wire)
    /\ kbd_buffer' = [kbd_buffer EXCEPT ![inptr] = Head(wire)]
    /\ inptr' = IF Succ(inptr) = outptr THEN inptr ELSE Succ(inptr)
    /\ UNCHANGED <<outptr, reader, status, patient, held, due>>
-----------------------------------------------------------------------------
(* kbd_getchar calls kbd_getcode: on an empty queue both return 0.         *)
NoCode ==
    /\ pc = "idle"
    /\ outptr = inptr
    /\ got' = 0
    /\ UNCHANGED <<ring, reader, prefix, kbd_shift, kbd_stat, user>>

(* Faulty: the slot is given back before it is read.                       *)
GetCodeFreeing ==
    /\ pc = "idle"
    /\ outptr # inptr
    /\ p' = outptr
    /\ outptr' = Succ(outptr)
    /\ pc' = "fetch"
    /\ UNCHANGED <<kbd_buffer, inptr, c, taken, status, user>>

GetCode ==
    /\ pc = "idle"
    /\ outptr # inptr
    /\ p' = outptr
    /\ pc' = "fetch"
    /\ UNCHANGED <<ring, c, taken, status, user>>

(* c = kbd_buffer[p]                                                       *)
Fetch ==
    /\ pc = "fetch"
    /\ c' = kbd_buffer[p]
    /\ pc' = "free"
    /\ UNCHANGED <<ring, p, taken, status, user>>

(* outptr = p + 1: now the slot may be used again.                         *)
Free ==
    /\ pc = "free"
    /\ outptr' = Succ(p)
    /\ taken' = <<c>>
    /\ pc' = "decode"
    /\ UNCHANGED <<kbd_buffer, inptr, p, c, status, user>>

Toggle(set, flag, off) == IF off THEN set \ {flag} ELSE set \union {flag}

IsPrefix(b) == b \in {E0, E1, F0}

(* In each of these st is the prefix flags, shift states and pressed keys  *)
(* before the code b.                                                      *)

(* Faulty: a break leaves its prefix behind.                               *)
PrefixKept(st, b) == IF IsPrefix(b) THEN st.prefix \union {b} ELSE st.prefix \ {E0, E1}

(* Prefixes are remembered; any other code uses them up.                   *)
PrefixAfter(st, b) == IF IsPrefix(b) THEN st.prefix \union {b} ELSE {}

(* Faulty: CTRL changes with every make code, as a lock key would.         *)
ShiftLocking(st, b) ==
    IF b = SKEY_LSHIFT THEN Toggle(st.shift, "shift", F0 \in st.prefix)
    ELSE IF b = SKEY_CTRL /\ F0 \notin st.prefix
         THEN Toggle(st.shift, "ctrl", "ctrl" \in st.shift)
    ELSE st.shift

(* The states of SHIFT and CTRL, of left and right CTRL alike: E0 is not   *)
(* looked at.                                                              *)
ShiftAfter(st, b) ==
    IF b = SKEY_LSHIFT THEN Toggle(st.shift, "shift", F0 \in st.prefix)
    ELSE IF b = SKEY_CTRL THEN Toggle(st.shift, "ctrl", F0 \in st.prefix)
    ELSE st.shift

(* Faulty: the break of a key of the E0 group is passed over.              *)
StatPlainOnly(st, b) ==
    IF IsPrefix(b) \/ st.prefix = {E0, F0} THEN st.stat
    ELSE Toggle(st.stat, b, F0 \in st.prefix)

(* set_press_table, on the code without SKEY_EXTEND.                       *)
StatAfter(st, b) ==
    IF IsPrefix(b) THEN st.stat ELSE Toggle(st.stat, b, F0 \in st.prefix)

(* The index c*2 is kept in an unsigned char: the bit SKEY_EXTEND, which a *)
(* code behind E0 has got, is lost, as is the top bit of F7 (0x83).        *)
Index(st, b) ==
    LET msb == IF E0 \in st.prefix /\ b < SKEY_EXTEND THEN b + SKEY_EXTEND ELSE b
    IN  (msb * 2) % 256

(* A key that went down gives the table's character, SHIFT and CTRL being  *)
(* what they are after this code; prefixes and breaks give none.           *)
CharAfter(st, b) ==
    LET shift == ShiftAfter(st, b)
        entry == KeycodeTable[Index(st, b) \div 2][IF "shift" \in shift THEN 2 ELSE 1]
    IN  IF IsPrefix(b) \/ F0 \in st.prefix THEN 0
        ELSE IF "ctrl" \in shift THEN entry % 32
        ELSE entry

State == [prefix |-> prefix, shift |-> kbd_shift, stat |-> kbd_stat]

(* The rest of kbd_getchar.                                                *)
GetChar ==
    /\ pc = "decode"
    /\ prefix' = PrefixAfter(State, c)
    /\ kbd_shift' = ShiftAfter(State, c)
    /\ kbd_stat' = StatAfter(State, c)
    /\ got' = CharAfter(State, c)
    /\ due' = IF got' = 0 \/ due = <<>> THEN due ELSE Tail(due)
    /\ pc' = "idle"
    /\ UNCHANGED <<ring, p, c, taken, patient, held, wire>>

User   == \E k \in IF patient THEN Keys ELSE HastyKeys : Press(k) \/ Release(k)
Reader == NoCode \/ GetCode \/ Fetch \/ Free \/ GetChar

Next == User \/ PutQue \/ Reader

Spec == Init /\ [][Next]_vars

(* The keyboard sends what it has, and the main loop keeps polling.        *)
FairSpec == Spec /\ WF_vars(PutQue) /\ WF_vars(Reader)
-----------------------------------------------------------------------------
TypeOK ==
    /\ kbd_buffer \in [Slots -> 0 .. 255]
    /\ inptr \in Slots /\ outptr \in Slots
    /\ pc \in {"idle", "fetch", "free", "decode"}
    /\ p \in Slots /\ c \in 0 .. 255
    /\ taken \in Seq(0 .. 255)
    /\ wire \in Seq(Code) /\ held \subseteq Keys
    /\ prefix \subseteq {E0, E1, F0} /\ kbd_shift \subseteq {"shift", "ctrl"}

(* kbd_getcode, interrupted anywhere, holds the oldest code in the queue   *)
(* until it gives the slot back.                                           *)
CodeInOrder ==
    /\ pc \in {"fetch", "free"} => p = outptr /\ Used > 0
    /\ pc = "free" => c = Unread[1]

(* The queue of codes is a bounded first-in first-out queue: one too many  *)
(* is dropped whole (put_que, kbd_getcode).                                *)
Queue == INSTANCE ByteQueue WITH
             Byte <- Code, Capacity <- Size - 1, queue <- Unread, taken <- taken
ImplementsQueue == Queue!QSpec

(* With room in the queue, what kbd_getchar returns is what was typed: in  *)
(* order, once, shifted as the shift keys were when the key was struck,    *)
(* however late it is read and wherever between the codes of a key the     *)
(* reading is interrupted; and everything typed is read (kbd_getchar).     *)
Promise == INSTANCE KeyStream WITH
               Shifts <- {k \in Keys : IsShift(k)},
               Controls <- {k \in Keys : IsControl(k)},
               Char <- CharOf,
               held <- IF patient THEN held ELSE {},
               due <- IF patient THEN due ELSE <<>>,
               got <- IF patient THEN got ELSE 0
ImplementsKeys == Promise!KFairSpec

(* Only the order and the values, for the runs without fairness.           *)
CharactersAsTyped == Promise!KSpec

AtRest == patient /\ pc = "idle" /\ inptr = outptr /\ wire = <<>>

(* When all codes have been read and none was dropped, the shift states    *)
(* are what the user holds ("Holds shift , ctrl , alt status", ps2keyb.c,  *)
(* line 71), and no prefix is left over.                                   *)
StatesAsHeld ==
    AtRest =>
        /\ prefix = {}
        /\ "shift" \in kbd_shift <=> \E k \in held : IsShift(k)
        /\ "ctrl" \in kbd_shift <=> \E k \in held : IsControl(k)

(* Then too, kbd_getpress tells of every key whether it is down            *)
(* ("non-zero: the key of that scan code is pressed, zero: it is           *)
(* released", ps2keyb.c, lines 141 and 142).                               *)
PressedAsHeld == AtRest => kbd_stat = {k.code : k \in held}
=============================================================================
