--------------------------- MODULE MCPs2Keyboard ----------------------------
(* Instances of Ps2Keyboard: a handful of keys with their real codes and   *)
(* the entries keycode.h has for them.                                     *)
EXTENDS Ps2Keyboard

Plain(code)    == [ext |-> FALSE, code |-> code]
Extended(code) == [ext |-> TRUE, code |-> code]

LShift == Plain(SKEY_LSHIFT)
RCtrl  == Extended(SKEY_CTRL)
KeyA   == Plain(28)
Num8   == Plain(117)
CurUp  == Extended(117)

(* 0x1c is a, 0x75 the 8 of the key pad; 0xf5, cursor up, has no entry.    *)
MCTable ==
    [code \in 0 .. 255 |->
        CASE code = 28 -> <<97, 65>>
          [] code = 117 -> <<56, 56>>
          [] OTHER -> <<0, 0>>]

MCTyping   == {LShift, RCtrl, KeyA}
MCHasty    == {RCtrl}
MCPad      == {Num8, CurUp}
=============================================================================
