---------------------------- MODULE MCBootMonitor ----------------------------
(* BoardAlone with some of the values that matter in every field.          *)
EXTENDS BoardAlone

MCKeys   == {EnterKey1, EnterKey2, ProbeKey, Marker}
MCFields == << {TEST, POKE, PEEK, JMP, PAGE_ERASE, PAGE_WRITE},
               {0, PacketSize + 1},
               {0},
               {KSeg0, KSeg1 + FlashBase, KSeg1 + 31},
               {0} >>
MCValue  == {0, 255}
=============================================================================
