------------------------- MODULE Ps2KeyboardProofs --------------------------
(***************************************************************************)
(* Proofs about Ps2Keyboard, for every queue size, set of keys and table:  *)
(* type correctness, the code kbd_getcode holds while the interrupt goes   *)
(* on filling the queue, the refinement of ByteQueue; and, of a user who   *)
(* waits, that what is on its way tells what is held and what was typed,   *)
(* from which the shift states, the press table and the characters follow. *)
(***************************************************************************)
EXTENDS Ps2Keyboard, TLAPS, SequenceTheorems

Octet == 0 .. 255

IInv == TypeOK /\ CodeInOrder

-----------------------------------------------------------------------------
(* The arithmetic of the ring: what the mask does.                         *)

LEMMA Masked ==
    ASSUME NEW x \in 0 .. (2 * Size - 1)
    PROVE  x % Size = IF x < Size THEN x ELSE x - Size
  BY SizeAssumption

(* The slot k places after outptr.                                         *)
Slot(k) == IF outptr + k >= Size THEN outptr + k - Size ELSE outptr + k

LEMMA SuccType ==
    ASSUME NEW q \in Slots
    PROVE  /\ Succ(q) \in Slots
           /\ Succ(q) = IF q + 1 = Size THEN 0 ELSE q + 1
<1>1. q + 1 \in 0 .. (2 * Size - 1)
  BY SizeAssumption DEF Slots
<1> QED
  BY <1>1, Masked, SizeAssumption DEF Succ, Slots

LEMMA Distance ==
    ASSUME NEW in \in Slots, NEW out \in Slots
    PROVE  (in + Size - out) % Size = IF in >= out THEN in - out ELSE in + Size - out
<1>1. in + Size - out \in 0 .. (2 * Size - 1)
  BY SizeAssumption DEF Slots
<1> QED
  BY <1>1, Masked, SizeAssumption DEF Slots

LEMMA UsedValue ==
    ASSUME inptr \in Slots, outptr \in Slots
    PROVE  Used = IF inptr >= outptr THEN inptr - outptr ELSE inptr + Size - outptr
  BY Distance DEF Used

LEMMA SlotValue ==
    ASSUME NEW out \in Slots, NEW k \in 1 .. Size
    PROVE  (out + k - 1) % Size = IF out + (k - 1) >= Size THEN out + (k - 1) - Size
                                  ELSE out + (k - 1)
<1>1. PICK x \in 0 .. (2 * Size - 1) : x = out + k - 1 /\ x = out + (k - 1)
  BY SizeAssumption DEF Slots
<1>2. x % Size = IF x < Size THEN x ELSE x - Size
  BY Masked
<1>3. x % Size = IF x >= Size THEN x - Size ELSE x
  BY <1>2, SizeAssumption
<1>4. (out + k - 1) % Size = x % Size
  BY <1>1, Zenon
<1>5. (IF x >= Size THEN x - Size ELSE x)
        = IF out + (k - 1) >= Size THEN out + (k - 1) - Size ELSE out + (k - 1)
  BY <1>1, SizeAssumption DEF Slots
<1> QED
  BY <1>3, <1>4, <1>5, Zenon

(* The count is at most Size - 1, and places are apart.                    *)
LEMMA Places ==
    ASSUME inptr \in Slots, outptr \in Slots
    PROVE  /\ Used \in 0 .. (Size - 1)
           /\ Slot(0) = outptr
           /\ Slot(Used) = inptr
           /\ \A k \in 0 .. (Size - 1) : Slot(k) \in Slots
           /\ \A j, k \in 0 .. (Size - 1) : Slot(j) = Slot(k) => j = k
  BY UsedValue, SizeAssumption DEF Slots, Slot

(* The unread codes form a sequence as long as the count says.             *)
UnreadFacts ==
    /\ Unread \in Seq(Octet)
    /\ Len(Unread) = Used
    /\ \A k \in 1 .. Used : Unread[k] = kbd_buffer[Slot(k - 1)]

LEMMA UnreadType == TypeOK => UnreadFacts
<1> SUFFICES ASSUME TypeOK
             PROVE  UnreadFacts
  OBVIOUS
<1>1. /\ inptr \in Slots /\ outptr \in Slots
      /\ Used \in 0 .. (Size - 1)
      /\ \A k \in 0 .. (Size - 1) : Slot(k) \in Slots
  BY Places DEF TypeOK
<1>2. Used \in Nat
  BY <1>1, SizeAssumption
<1>3. ASSUME NEW k \in 1 .. Used
      PROVE  (outptr + k - 1) % Size = Slot(k - 1) /\ Slot(k - 1) \in Slots
  <2>1. k - 1 \in 0 .. (Size - 1) /\ k \in 1 .. Size
    BY <1>1, SizeAssumption
  <2> QED
    BY <1>1, <2>1, SlotValue DEF Slot
<1>4. \A k \in 1 .. Used : kbd_buffer[Slot(k - 1)] \in Octet
  BY <1>3 DEF TypeOK, Octet
<1>5. Unread = [k \in 1 .. Used |-> kbd_buffer[Slot(k - 1)]]
  BY <1>3 DEF Unread
<1>6. Unread \in [1 .. Used -> Octet]
  BY <1>4, <1>5
<1>7. Unread \in Seq(Octet) /\ Len(Unread) = Used
  BY <1>2, <1>5, <1>6
<1> QED
  BY <1>5, <1>7 DEF UnreadFacts

LEMMA UnreadTypeNext == TypeOK' => UnreadFacts'
  BY UnreadType, PTL
-----------------------------------------------------------------------------
(* Type correctness.                                                       *)

(* What the keyboard sends for a key are codes, none of them 0.            *)
LEMMA CodesOfKey ==
    ASSUME NEW k \in Keys
    PROVE  Make(k) \in Seq(Code) /\ Break(k) \in Seq(Code)
<1>1. k.code \in Code /\ E0 \in Code /\ F0 \in Code
  BY KeysAssumption DEF Code, E0, F0
<1>2. <<k.code>> \in Seq(Code) /\ <<F0, k.code>> \in Seq(Code) /\ <<E0>> \in Seq(Code)
  BY <1>1
<1>3. <<E0>> \o <<k.code>> \in Seq(Code) /\ <<E0>> \o <<F0, k.code>> \in Seq(Code)
  BY <1>2, ConcatProperties
<1> QED
  BY <1>2, <1>3 DEF Make, Break, Prefixed

LEMMA TypeStep == TypeOK /\ [Next]_vars => TypeOK'
<1> SUFFICES ASSUME TypeOK, [Next]_vars
             PROVE  TypeOK'
  OBVIOUS
<1>1. ASSUME NEW k \in Keys, Press(k)
      PROVE  TypeOK'
  <2>1. wire' \in Seq(Code)
    BY <1>1, CodesOfKey DEF Press
  <2>2. held' \subseteq Keys
    BY <1>1 DEF Press, Typed!Press, TypeOK
  <2> QED
    BY <1>1, <2>1, <2>2 DEF Press, TypeOK, ring, reader
<1>2. ASSUME NEW k \in Keys, Release(k)
      PROVE  TypeOK'
  <2>1. wire' \in Seq(Code)
    BY <1>2, CodesOfKey DEF Release
  <2>2. held' \subseteq Keys
    BY <1>2 DEF Release, Typed!Release, TypeOK
  <2> QED
    BY <1>2, <2>1, <2>2 DEF Release, TypeOK, ring, reader
<1>3. CASE PutQue
  <2>1. Head(wire) \in Code /\ wire' \in Seq(Code)
    BY <1>3, HeadTailProperties DEF PutQue, TypeOK
  <2>2. Head(wire) \in 0 .. 255
    BY <2>1 DEF Code
  <2>3. kbd_buffer' \in [Slots -> 0 .. 255]
    BY <1>3, <2>2 DEF PutQue, TypeOK
  <2>4. inptr' \in Slots
    BY <1>3, SuccType DEF PutQue, TypeOK
  <2> QED
    BY <1>3, <2>1, <2>3, <2>4 DEF PutQue, TypeOK, reader, status
<1>4. CASE NoCode
  BY <1>4 DEF NoCode, TypeOK, ring, reader, user
<1>5. CASE GetCode
  BY <1>5 DEF GetCode, TypeOK, ring, status, user
<1>6. CASE Fetch
  BY <1>6 DEF Fetch, TypeOK, ring, status, user
<1>7. CASE Free
  <2>1. outptr' \in Slots /\ <<c>> \in Seq(0 .. 255)
    BY <1>7, SuccType DEF Free, TypeOK
  <2> QED
    BY <1>7, <2>1 DEF Free, TypeOK, status, user
<1>8. CASE GetChar
  <2>1. prefix' \subseteq {E0, E1, F0}
    BY <1>8 DEF GetChar, TypeOK, PrefixAfter, IsPrefix, State
  <2>2. kbd_shift' \subseteq {"shift", "ctrl"}
    BY <1>8 DEF GetChar, TypeOK, ShiftAfter, Toggle, State
  <2> QED
    BY <1>8, <2>1, <2>2 DEF GetChar, TypeOK, ring
<1>9. CASE UNCHANGED vars
  BY <1>9 DEF TypeOK, vars
<1> QED
  BY <1>1, <1>2, <1>3, <1>4, <1>5, <1>6, <1>7, <1>8, <1>9, KeysAssumption DEF Next, User, Reader

LEMMA InitHolds == Init => IInv
  BY SizeAssumption DEF Init, IInv, TypeOK, CodeInOrder, Slots

(* The pointers stay in the queue, codes stay bytes, no flag but the three *)
(* prefixes, SHIFT and CTRL is set, whatever is typed and whenever read.   *)
THEOREM TypeCorrect == Spec => []TypeOK
<1>1. Init => TypeOK
  BY InitHolds DEF IInv
<1> QED
  BY <1>1, TypeStep, PTL DEF Spec
-----------------------------------------------------------------------------
(* put_que writes into the one slot that is neither unread nor being       *)
(* fetched: what is unread keeps its place, and the code goes behind it,   *)
(* or nowhere if Size - 1 codes are unread.                                *)
LEMMA PutStep ==
    ASSUME TypeOK, PutQue
    PROVE  /\ \/ Used = Size - 1 /\ Used' = Used
              \/ Used < Size - 1 /\ Used' = Used + 1 /\ Unread'[Used + 1] = Head(wire)
           /\ \A k \in 1 .. Used : Unread'[k] = Unread[k]
<1>1. inptr \in Slots /\ outptr \in Slots /\ outptr' = outptr
  BY DEF TypeOK, PutQue
<1>2. /\ Used \in 0 .. (Size - 1)
      /\ Slot(Used) = inptr
      /\ \A k \in 0 .. (Size - 1) : Slot(k) \in Slots
      /\ \A j, k \in 0 .. (Size - 1) : Slot(j) = Slot(k) => j = k
  BY <1>1, Places
<1>3. \A k \in 0 .. (Size - 1) : Slot(k)' = Slot(k)
  BY <1>1 DEF Slot
<1>4. TypeOK'
  BY TypeStep DEF Next
<1>5. \/ Used = Size - 1 /\ Used' = Used
      \/ Used < Size - 1 /\ Used' = Used + 1
  <2>1. inptr' \in Slots /\ outptr' \in Slots
    BY <1>4 DEF TypeOK
  <2>2. Used' = IF inptr' >= outptr' THEN inptr' - outptr' ELSE inptr' + Size - outptr'
    BY <2>1, Distance DEF Used
  <2>3. Used = IF inptr >= outptr THEN inptr - outptr ELSE inptr + Size - outptr
    BY <1>1, UsedValue
  <2>4. Succ(inptr) = IF inptr + 1 = Size THEN 0 ELSE inptr + 1
    BY <1>1, SuccType
  <2>5. inptr' = IF Succ(inptr) = outptr THEN inptr ELSE Succ(inptr)
    BY DEF PutQue
  <2> QED
    BY <1>1, <2>2, <2>3, <2>4, <2>5, SizeAssumption DEF Slots
<1>6. /\ Used' \in 0 .. (Size - 1)
      /\ \A k \in 1 .. Used' : Unread'[k] = kbd_buffer'[Slot(k - 1)']
  BY <1>2, <1>4, <1>5, UnreadTypeNext, SizeAssumption DEF UnreadFacts
<1>7. kbd_buffer' = [kbd_buffer EXCEPT ![Slot(Used)] = Head(wire)]
      /\ kbd_buffer \in [Slots -> 0 .. 255]
  BY <1>2 DEF PutQue, TypeOK
<1>8. ASSUME NEW k \in 1 .. Used
      PROVE  Unread'[k] = Unread[k]
  <2>1. k - 1 \in 0 .. (Size - 1) /\ k - 1 # Used /\ k \in 1 .. Used'
    BY <1>2, <1>5, SizeAssumption
  <2>2. Slot(k - 1) \in Slots /\ Slot(k - 1) # Slot(Used)
    BY <2>1, <1>2
  <2>3. kbd_buffer'[Slot(k - 1)] = kbd_buffer[Slot(k - 1)]
    BY <2>2, <1>7
  <2>4. Unread[k] = kbd_buffer[Slot(k - 1)]
    BY UnreadType DEF UnreadFacts
  <2> QED
    BY <2>1, <2>3, <2>4, <1>3, <1>6
<1>9. ASSUME Used < Size - 1, Used' = Used + 1
      PROVE  Unread'[Used + 1] = Head(wire)
  <2>1. Used + 1 \in 1 .. Used' /\ (Used + 1) - 1 = Used
    BY <1>2, <1>9, SizeAssumption
  <2>2. kbd_buffer'[Slot(Used)] = Head(wire)
    BY <1>2, <1>7
  <2> QED
    BY <2>1, <2>2, <1>2, <1>3, <1>6
<1> QED
  BY <1>5, <1>8, <1>9

(* A step that leaves the queue alone leaves its meaning alone.            *)
LEMMA RingUnchanged ==
    ASSUME UNCHANGED ring
    PROVE  Used' = Used /\ Unread' = Unread
  BY DEF ring, Used, Unread

LEMMA OrderStep == IInv /\ [Next]_vars => CodeInOrder'
<1> SUFFICES ASSUME TypeOK, CodeInOrder, [Next]_vars
             PROVE  CodeInOrder'
  BY DEF IInv
<1>1. ASSUME NEW k \in Keys, Press(k) \/ Release(k)
      PROVE  CodeInOrder'
  <2>1. UNCHANGED ring /\ UNCHANGED <<outptr, pc, p, c>>
    BY <1>1 DEF Press, Release, ring, reader
  <2> QED
    BY <2>1, RingUnchanged DEF CodeInOrder
<1>2. CASE PutQue
  <2>1. UNCHANGED <<outptr, pc, p, c>>
    BY <1>2 DEF PutQue, reader
  <2>2. /\ Used \in 0 .. (Size - 1)
        /\ Used' = Used \/ Used' = Used + 1
        /\ \A k \in 1 .. Used : Unread'[k] = Unread[k]
    BY <1>2, PutStep, Places DEF TypeOK
  <2>3. Used > 0 => Used' > 0 /\ Unread'[1] = Unread[1]
    BY <2>2, SizeAssumption
  <2> QED
    BY <2>1, <2>3 DEF CodeInOrder
<1>3. CASE NoCode
  <2>1. UNCHANGED ring /\ UNCHANGED <<outptr, pc, p, c>>
    BY <1>3 DEF NoCode, ring, reader
  <2> QED
    BY <2>1, RingUnchanged DEF CodeInOrder
<1>4. CASE GetCode
  <2>1. UNCHANGED ring /\ outptr' = outptr /\ pc' = "fetch" /\ p' = outptr /\ outptr # inptr
    BY <1>4 DEF GetCode, ring
  <2>2. Used > 0
    BY <2>1, UsedValue, SizeAssumption DEF TypeOK, Slots
  <2> QED
    BY <2>1, <2>2, RingUnchanged DEF CodeInOrder
<1>5. CASE Fetch
  <2>1. UNCHANGED ring /\ outptr' = outptr /\ pc = "fetch" /\ pc' = "free" /\ p' = p
        /\ c' = kbd_buffer[p]
    BY <1>5 DEF Fetch, ring
  <2>2. p = outptr /\ Used > 0 /\ Used \in 0 .. (Size - 1) /\ Slot(0) = outptr
    BY <2>1, Places DEF CodeInOrder, TypeOK
  <2>3. Unread[1] = kbd_buffer[Slot(0)]
    <3>1. 1 \in 1 .. Used /\ 1 - 1 = 0
      BY <2>2, SizeAssumption
    <3>2. Unread[1] = kbd_buffer[Slot(1 - 1)]
      BY <3>1, UnreadType DEF UnreadFacts
    <3> QED
      BY <3>1, <3>2
  <2> QED
    BY <2>1, <2>2, <2>3, RingUnchanged DEF CodeInOrder
<1>6. CASE Free
  BY <1>6 DEF Free, CodeInOrder
<1>7. CASE GetChar
  BY <1>7 DEF GetChar, CodeInOrder
<1>8. CASE UNCHANGED vars
  <2>1. UNCHANGED ring /\ UNCHANGED <<outptr, pc, p, c>>
    BY <1>8 DEF vars, ring
  <2> QED
    BY <2>1, RingUnchanged DEF CodeInOrder
<1> QED
  BY <1>1, <1>2, <1>3, <1>4, <1>5, <1>6, <1>7, <1>8, KeysAssumption DEF Next, User, Reader

(* kbd_getcode, interrupted between any two accesses, gives back the slot  *)
(* of the oldest code only after it has copied it (ps2keyb.c, 215-220).    *)
THEOREM OldestCodeKept == Spec => []CodeInOrder
<1>1. IInv /\ [Next]_vars => IInv'
  BY TypeStep, OrderStep DEF IInv
<1>2. IInv => CodeInOrder
  BY DEF IInv
<1> QED
  BY InitHolds, <1>1, <1>2, PTL DEF Spec
-----------------------------------------------------------------------------
(* The refinement: put_que puts a code or drops it, the assignment to      *)
(* outptr takes one, and nothing else changes the queue.                   *)

LEMMA PutQuePuts ==
    ASSUME TypeOK, PutQue
    PROVE  [Queue!QNext]_(Queue!qvars)
<1>1. /\ \/ Used = Size - 1 /\ Used' = Used
         \/ Used < Size - 1 /\ Used' = Used + 1 /\ Unread'[Used + 1] = Head(wire)
      /\ \A k \in 1 .. Used : Unread'[k] = Unread[k]
  BY PutStep
<1>2. Unread \in Seq(Octet) /\ Len(Unread) = Used
  BY UnreadType DEF UnreadFacts
<1>3. Unread' \in Seq(Octet) /\ Len(Unread') = Used'
  <2>1. TypeOK'
    BY TypeStep DEF Next
  <2> QED
    BY <2>1, UnreadTypeNext DEF UnreadFacts
<1>4. taken' = taken /\ Head(wire) \in Code /\ Head(wire) \in Octet
  BY HeadTailProperties DEF PutQue, reader, TypeOK, Code, Octet
<1>5. CASE Used = Size - 1 /\ Used' = Used
  <2>1. Unread' = Unread
    BY <1>1, <1>2, <1>3, <1>5, SeqEqual
  <2> QED
    BY <2>1, <1>4 DEF Queue!qvars
<1>6. CASE Used < Size - 1 /\ Used' = Used + 1 /\ Unread'[Used + 1] = Head(wire)
  <2>1. Used \in Nat
    BY <1>2, LenProperties
  <2>2. /\ Append(Unread, Head(wire)) \in Seq(Octet)
        /\ Len(Append(Unread, Head(wire))) = Used + 1
        /\ \A k \in 1 .. Used : Append(Unread, Head(wire))[k] = Unread[k]
        /\ Append(Unread, Head(wire))[Used + 1] = Head(wire)
    BY <1>2, <1>4, AppendProperties
  <2>3. \A k \in 1 .. (Used + 1) : Unread'[k] = Append(Unread, Head(wire))[k]
    BY <1>1, <1>6, <2>1, <2>2
  <2>4. Unread' = Append(Unread, Head(wire))
    BY <1>3, <1>6, <2>2, <2>3, SeqEqual
  <2> QED
    BY <2>4, <1>2, <1>4, <1>6 DEF Queue!QNext, Queue!Put
<1> QED
  BY <1>1, <1>5, <1>6

LEMMA FreeTakes ==
    ASSUME TypeOK, CodeInOrder, Free
    PROVE  [Queue!QNext]_(Queue!qvars)
<1>1. /\ p = outptr /\ Used > 0 /\ c = Unread[1]
      /\ outptr' = Succ(outptr) /\ taken' = <<c>>
      /\ kbd_buffer' = kbd_buffer /\ inptr' = inptr
      /\ inptr \in Slots /\ outptr \in Slots
  BY DEF Free, CodeInOrder, TypeOK
<1>2. /\ Unread \in Seq(Octet) /\ Len(Unread) = Used
      /\ \A k \in 1 .. Used : Unread[k] = kbd_buffer[Slot(k - 1)]
  BY UnreadType DEF UnreadFacts
<1>3. Used \in 0 .. (Size - 1)
  BY <1>1, Places
<1>4. TypeOK'
  BY TypeStep DEF Next, Reader
<1>5. outptr' = (IF outptr + 1 = Size THEN 0 ELSE outptr + 1) /\ outptr' \in Slots
  BY <1>1, SuccType
<1>6. Used' = Used - 1
  <2>1. Used' = IF inptr' >= outptr' THEN inptr' - outptr' ELSE inptr' + Size - outptr'
    BY <1>1, <1>5, Distance DEF Used
  <2>2. Used = IF inptr >= outptr THEN inptr - outptr ELSE inptr + Size - outptr
    BY <1>1, UsedValue
  <2> QED
    BY <1>1, <1>5, <2>1, <2>2, SizeAssumption DEF Slots
<1>7. /\ Unread' \in Seq(Octet) /\ Len(Unread') = Used'
      /\ \A k \in 1 .. Used' : Unread'[k] = kbd_buffer'[Slot(k - 1)']
  BY <1>4, UnreadTypeNext DEF UnreadFacts
<1>8. ASSUME NEW k \in 1 .. (Used - 1)
      PROVE  Unread'[k] = Unread[1 + k]
  <2>1. k \in 1 .. Used' /\ 1 + k \in 1 .. Used
    BY <1>3, <1>6, SizeAssumption
  <2>2. Slot(k - 1)' = Slot((1 + k) - 1)
    BY <1>1, <1>3, <1>5, <2>1, SizeAssumption DEF Slot, Slots
  <2> QED
    BY <1>1, <1>2, <1>7, <2>1, <2>2
<1>9. /\ \A i \in 1 .. 1 : Unread[i] \in Octet
      /\ \A i \in 2 .. Used : Unread[i] \in Octet
  BY <1>1, <1>2, <1>3, SizeAssumption, ElementOfSeq
<1>10. SubSeq(Unread, 1, 1) = <<c>>
  <2>1. /\ SubSeq(Unread, 1, 1) \in Seq(Octet)
        /\ Len(SubSeq(Unread, 1, 1)) = 1
        /\ \A i \in 1 .. 1 : SubSeq(Unread, 1, 1)[i] = Unread[i]
    BY <1>9, SubSeqProperties
  <2>2. <<c>> \in Seq(Octet) /\ Len(<<c>>) = 1 /\ <<c>>[1] = Unread[1]
    BY <1>1 DEF TypeOK, Octet
  <2>3. \A i \in 1 .. 1 : i = 1
    OBVIOUS
  <2> QED
    BY <2>1, <2>2, <2>3, SeqEqual
<1>11. SubSeq(Unread, 1 + 1, Len(Unread)) = Unread'
  <2> DEFINE rest == SubSeq(Unread, 2, Used)
  <2>1. /\ rest \in Seq(Octet)
        /\ Len(rest) = IF 2 <= Used THEN Used - 2 + 1 ELSE 0
        /\ \A i \in 1 .. (Used - 2 + 1) : rest[i] = Unread[2 + i - 1]
    BY <1>3, <1>9, SizeAssumption, SubSeqProperties
  <2>2. Len(rest) = Used - 1 /\ \A i \in 1 .. (Used - 1) : rest[i] = Unread[1 + i]
    BY <1>1, <1>3, <2>1, SizeAssumption
  <2> HIDE DEF rest
  <2>3. rest = Unread'
    BY <1>6, <1>7, <1>8, <2>1, <2>2, SeqEqual
  <2> QED
    BY <1>2, <2>3 DEF rest
<1>12. 1 \in 1 .. Len(Unread)
  BY <1>1, <1>2, <1>3, SizeAssumption
<1>13. Queue!Take(1)
  BY <1>1, <1>10, <1>11 DEF Queue!Take
<1> QED
  BY <1>12, <1>13 DEF Queue!QNext

(* The key queue, filled by the interrupt and emptied without a lock,      *)
(* implements the bounded first-in first-out queue of capacity Size - 1.   *)
THEOREM KeyQueueImplementsQueue == Spec => ImplementsQueue
<1>1. IInv /\ [Next]_vars => IInv'
  BY TypeStep, OrderStep DEF IInv
<1>2. Init => Queue!QInit
  <2> SUFFICES ASSUME Init
               PROVE  Queue!QInit
    OBVIOUS
  <2>1. TypeOK /\ inptr = 0 /\ outptr = 0 /\ taken = <<>>
    BY InitHolds DEF Init, IInv
  <2>2. Used = 0
    BY <2>1, UsedValue DEF TypeOK
  <2>3. Unread \in Seq(Octet) /\ Len(Unread) = 0
    BY <2>1, <2>2, UnreadType DEF UnreadFacts
  <2>4. Unread = <<>>
    BY <2>3, EmptySeq
  <2> QED
    BY <2>1, <2>4 DEF Queue!QInit
<1>3. IInv /\ [Next]_vars => [Queue!QNext]_(Queue!qvars)
  <2> SUFFICES ASSUME TypeOK, CodeInOrder, [Next]_vars
               PROVE  [Queue!QNext]_(Queue!qvars)
    BY DEF IInv
  <2>1. CASE PutQue
    BY <2>1, PutQuePuts
  <2>2. CASE Free
    BY <2>2, FreeTakes
  <2>3. CASE UNCHANGED ring /\ UNCHANGED taken
    BY <2>3, RingUnchanged DEF Queue!qvars
  <2> QED
    BY <2>1, <2>2, <2>3
       DEF Next, User, Reader, Press, Release, NoCode, GetCode, Fetch, GetChar, reader, ring, vars
<1> QED
  BY InitHolds, <1>1, <1>2, <1>3, PTL DEF Spec, ImplementsQueue, Queue!QSpec

-----------------------------------------------------------------------------
(* What is decoded of the codes that are on their way.                     *)

(* The keys that tell: no code of SHIFT behind E0, which a keyboard sends  *)
(* around Print Screen only; one CTRL key; no entry of the table for a key *)
(* behind E0 that its code alone would not have.                           *)
Separate ==
    /\ \A k \in Keys : k.code = SKEY_LSHIFT => ~k.ext
    /\ \A j, k \in Keys : IsControl(j) /\ IsControl(k) => j = k
SameEntries == \A k \in Keys : k.ext => KeycodeTable[k.code + SKEY_EXTEND] = KeycodeTable[k.code]
Distinct == \A j, k \in Keys : j.code = k.code => j = k

Entry == {KeycodeTable[x][y] : x \in Octet, y \in {1, 2}}
Chars == {0} \cup Entry \cup {e % 32 : e \in Entry}

After(st, b) ==
    [prefix |-> PrefixAfter(st, b), shift |-> ShiftAfter(st, b), stat |-> StatAfter(st, b)]

(* Reading the codes s one by one takes the decoder through the states of  *)
(* h, and returns one after the other the characters the sequences of d    *)
(* begin with.                                                             *)
Returns(ch, before, after) ==
    IF ch = 0 THEN after = before
    ELSE before # <<>> /\ Head(before) = ch /\ after = Tail(before)

Reads(h, d, s) ==
    /\ \A i \in 0 .. Len(s) : d[i] \in Seq(Chars)
    /\ \A i \in 1 .. Len(s) :
          h[i] = After(h[i - 1], s[i]) /\ Returns(CharAfter(h[i - 1], s[i]), d[i - 1], d[i])
    /\ d[Len(s)] = <<>>

(* From the state st the codes s lead to the state last and give the       *)
(* characters du.                                                          *)
Leads(st, du, s, last) ==
    \E h, d : Reads(h, d, s) /\ h[0] = st /\ d[0] = du /\ h[Len(s)] = last

LEMMA IndexValue ==
    ASSUME NEW b \in Octet
    PROVE  ((b * 2) % 256) \div 2 \in 0 .. 127 /\ (b < SKEY_EXTEND => ((b * 2) % 256) \div 2 = b)
<1>1. b \in 0 .. 255 /\ b \in Nat
  BY DEF Octet
<1>2. CASE b < 128
  <2>1. (b * 2) % 256 = b * 2
    BY <1>1, <1>2
  <2>2. (b * 2) \div 2 = b
    BY <1>1
  <2> QED
    BY <1>1, <1>2, <2>1, <2>2
<1>3. CASE ~(b < 128)
  <2> DEFINE e == b - 128
  <2>1. e \in 0 .. 127 /\ b * 2 = 256 + e * 2
    BY <1>1, <1>3
  <2> HIDE DEF e
  <2>2. (256 + e * 2) % 256 = e * 2
    BY <2>1
  <2>3. (e * 2) \div 2 = e
    BY <2>1
  <2> QED
    BY <1>3, <2>1, <2>2, <2>3 DEF SKEY_EXTEND
<1> QED
  BY <1>2, <1>3

LEMMA CharType ==
    ASSUME NEW st, NEW b \in Octet
    PROVE  CharAfter(st, b) \in Chars
<1> DEFINE msb == IF E0 \in st.prefix /\ b < SKEY_EXTEND THEN b + SKEY_EXTEND ELSE b
           x == Index(st, b) \div 2
           y == IF "shift" \in ShiftAfter(st, b) THEN 2 ELSE 1
<1>1. msb \in Octet
  <2>1. CASE E0 \in st.prefix /\ b < SKEY_EXTEND
    BY <2>1 DEF Octet, SKEY_EXTEND
  <2>2. CASE ~(E0 \in st.prefix /\ b < SKEY_EXTEND)
    BY <2>2
  <2> QED
    BY <2>1, <2>2
<1>2. x = ((msb * 2) % 256) \div 2
  BY DEF Index
<1> HIDE DEF msb
<1>3. x \in Octet
  BY <1>1, <1>2, IndexValue DEF Octet
<1>4. CharAfter(st, b) \in {0, KeycodeTable[x][y], KeycodeTable[x][y] % 32}
  BY DEF CharAfter
<1>5. y \in {1, 2}
  OBVIOUS
<1> HIDE DEF x, y
<1>6. KeycodeTable[x][y] \in Entry
  BY <1>3, <1>5 DEF Entry
<1> QED
  BY <1>4, <1>6 DEF Chars

LEMMA LeadsNowhere ==
    ASSUME NEW st
    PROVE  Leads(st, <<>>, <<>>, st)
<1> DEFINE h == [i \in 0 .. 0 |-> st]
           d == [i \in 0 .. 0 |-> <<>>]
<1>1. h[0] = st /\ d[0] = <<>> /\ Len(<<>>) = 0 /\ <<>> \in Seq(Chars)
  OBVIOUS
<1> HIDE DEF h, d
<1>2. Reads(h, d, <<>>)
  <2>1. \A i \in 0 .. 0 : i = 0
    OBVIOUS
  <2>2. \A i \in 1 .. 0 : FALSE
    OBVIOUS
  <2> QED
    BY <1>1, <2>1, <2>2 DEF Reads
<1> QED
  BY <1>1, <1>2 DEF Leads

LEMMA NowhereLeads ==
    ASSUME NEW st, NEW du, NEW last, Leads(st, du, <<>>, last)
    PROVE  last = st /\ du = <<>>
<1>1. Len(<<>>) = 0
  OBVIOUS
<1> QED
  BY <1>1 DEF Leads, Reads

LEMMA OneMoreChar ==
    ASSUME NEW e \in Seq(Chars), NEW ch \in Chars
    PROVE  /\ Append(e, ch) \in Seq(Chars) /\ Append(e, ch) # <<>>
           /\ Head(Append(<<>>, ch)) = ch /\ Tail(Append(<<>>, ch)) = <<>>
           /\ e # <<>> => Head(Append(e, ch)) = Head(e) /\ Tail(Append(e, ch)) = Append(Tail(e), ch)
<1>1. Append(e, ch) \in Seq(Chars) /\ Append(e, ch) # <<>>
  BY AppendProperties
<1>2. Append(<<>>, ch) = <<ch>> /\ Head(<<ch>>) = ch /\ Tail(<<ch>>) = <<>>
  OBVIOUS
<1>3. ASSUME e # <<>>
      PROVE  Head(Append(e, ch)) = Head(e) /\ Tail(Append(e, ch)) = Append(Tail(e), ch)
  BY <1>3
<1> QED
  BY <1>1, <1>2, <1>3

(* One more code at the end.                                               *)
LEMMA LeadsOn ==
    ASSUME NEW st, NEW du, NEW s \in Seq(Octet), NEW last, Leads(st, du, s, last), NEW b \in Octet
    PROVE  /\ Append(s, b) \in Seq(Octet)
           /\ CharAfter(last, b) = 0 => Leads(st, du, Append(s, b), After(last, b))
           /\ CharAfter(last, b) # 0 =>
                 Leads(st, Append(du, CharAfter(last, b)), Append(s, b), After(last, b))
<1> DEFINE n == Len(s)
           t == Append(s, b)
           ch == CharAfter(last, b)
<1>1. PICK h, d : Reads(h, d, s) /\ h[0] = st /\ d[0] = du /\ h[n] = last
  BY DEF Leads
<1>2. n \in Nat /\ t \in Seq(Octet) /\ Len(t) = n + 1
      /\ (\A i \in 1 .. n : t[i] = s[i]) /\ t[n + 1] = b
  BY AppendProperties, LenProperties
<1> DEFINE g == [i \in 0 .. (n + 1) |-> IF i <= n THEN h[i] ELSE After(last, b)]
<1>3. /\ \A i \in 0 .. n : g[i] = h[i]
      /\ g[n + 1] = After(last, b) /\ g[0] = st
  BY <1>1, <1>2
<1>4. ch \in Chars
  BY CharType
<1>5. /\ \A i \in 0 .. n : d[i] \in Seq(Chars)
      /\ \A i \in 1 .. n : /\ h[i] = After(h[i - 1], s[i])
                            /\ Returns(CharAfter(h[i - 1], s[i]), d[i - 1], d[i])
      /\ d[n] = <<>>
  BY <1>1 DEF Reads
<1>6. \A i \in 1 .. n : i - 1 \in 0 .. n /\ i \in 0 .. n
  BY <1>2
<1>7. \A i \in 1 .. (n + 1) : i \in 1 .. n \/ (i = n + 1 /\ i - 1 = n)
  BY <1>2
<1>8. 0 \in 0 .. n /\ n \in 0 .. n /\ n + 1 \in 0 .. (n + 1)
  BY <1>2
<1> HIDE DEF n, t, ch, g
<1>9. \A i \in 1 .. (n + 1) : g[i] = After(g[i - 1], t[i])
  <2> SUFFICES ASSUME NEW i \in 1 .. (n + 1) PROVE g[i] = After(g[i - 1], t[i])
    OBVIOUS
  <2>1. CASE i \in 1 .. n
    BY <1>2, <1>3, <1>5, <1>6, <2>1
  <2>2. CASE i = n + 1 /\ i - 1 = n
    BY <1>1, <1>2, <1>3, <1>8, <2>2
  <2> QED
    BY <1>7, <2>1, <2>2
<1>10. \A i \in 1 .. n : CharAfter(g[i - 1], t[i]) = CharAfter(h[i - 1], s[i])
  BY <1>2, <1>3, <1>6
<1>11. CharAfter(g[n], t[n + 1]) = ch
  BY <1>1, <1>2, <1>3, <1>8 DEF ch
<1>12. CASE ch = 0
  <2> DEFINE e == [i \in 0 .. (n + 1) |-> IF i <= n THEN d[i] ELSE <<>>]
  <2>1. (\A i \in 0 .. n : e[i] = d[i]) /\ e[n + 1] = <<>> /\ <<>> \in Seq(Chars)
    BY <1>2
  <2>2. \A i \in 0 .. (n + 1) : i \in 0 .. n \/ i = n + 1
    BY <1>2
  <2> HIDE DEF e
  <2>3. \A i \in 0 .. (n + 1) : e[i] \in Seq(Chars)
    BY <1>5, <2>1, <2>2
  <2>4. ASSUME NEW i \in 1 .. (n + 1)
        PROVE  Returns(CharAfter(g[i - 1], t[i]), e[i - 1], e[i])
    <3>1. CASE i \in 1 .. n
      BY <1>5, <1>6, <1>10, <2>1, <3>1
    <3>2. CASE i = n + 1 /\ i - 1 = n
      <4>1. e[i - 1] = <<>> /\ e[i] = <<>> /\ CharAfter(g[i - 1], t[i]) = 0
        BY <1>5, <1>8, <1>11, <1>12, <2>1, <3>2
      <4> QED
        BY <4>1 DEF Returns
    <3> QED
      BY <1>7, <3>1, <3>2
  <2>5. Reads(g, e, t)
    BY <1>2, <1>9, <2>1, <2>3, <2>4 DEF Reads
  <2>6. e[0] = du
    BY <1>1, <1>8, <2>1
  <2> QED
    BY <1>2, <1>3, <1>12, <2>5, <2>6 DEF Leads, t, ch
<1>13. CASE ch # 0
  <2> DEFINE e == [i \in 0 .. (n + 1) |-> IF i <= n THEN Append(d[i], ch) ELSE <<>>]
  <2>1. (\A i \in 0 .. n : e[i] = Append(d[i], ch)) /\ e[n + 1] = <<>> /\ <<>> \in Seq(Chars)
    BY <1>2
  <2>2. \A i \in 0 .. (n + 1) : i \in 0 .. n \/ i = n + 1
    BY <1>2
  <2> HIDE DEF e
  <2>3. \A i \in 0 .. (n + 1) : e[i] \in Seq(Chars)
    <3> SUFFICES ASSUME NEW i \in 0 .. (n + 1) PROVE e[i] \in Seq(Chars)
      OBVIOUS
    <3>1. CASE i \in 0 .. n
      <4>1. d[i] \in Seq(Chars) /\ e[i] = Append(d[i], ch)
        BY <1>5, <2>1, <3>1
      <4>2. Append(d[i], ch) \in Seq(Chars)
        BY <1>4, <4>1, OneMoreChar
      <4> QED
        BY <4>1, <4>2
    <3> QED
      BY <2>1, <2>2, <3>1
  <2>4. ASSUME NEW i \in 1 .. (n + 1)
        PROVE  Returns(CharAfter(g[i - 1], t[i]), e[i - 1], e[i])
    <3>1. CASE i \in 1 .. n
      <4> DEFINE k == CharAfter(h[i - 1], s[i])
      <4>1. /\ d[i] \in Seq(Chars) /\ d[i - 1] \in Seq(Chars)
            /\ Returns(k, d[i - 1], d[i])
            /\ e[i] = Append(d[i], ch) /\ e[i - 1] = Append(d[i - 1], ch)
        BY <1>5, <1>6, <2>1, <3>1
      <4>2. CharAfter(g[i - 1], t[i]) = k
        BY <1>10, <3>1
      <4> HIDE DEF k
      <4>3. CASE k = 0
        BY <4>1, <4>2, <4>3 DEF Returns
      <4>4. CASE k # 0
        <5>1. d[i - 1] # <<>> /\ Head(d[i - 1]) = k /\ d[i] = Tail(d[i - 1])
          BY <4>1, <4>4 DEF Returns
        <5>2. /\ e[i - 1] # <<>> /\ Head(e[i - 1]) = Head(d[i - 1])
              /\ Tail(e[i - 1]) = Append(Tail(d[i - 1]), ch)
          BY <1>4, <4>1, <5>1, OneMoreChar
        <5> QED
          BY <4>1, <4>2, <4>4, <5>1, <5>2 DEF Returns
      <4> QED
        BY <4>3, <4>4
    <3>2. CASE i = n + 1 /\ i - 1 = n
      <4>1. e[i - 1] = Append(<<>>, ch) /\ e[i] = <<>> /\ CharAfter(g[i - 1], t[i]) = ch
        BY <1>5, <1>8, <1>11, <2>1, <3>2
      <4>2. /\ Append(<<>>, ch) # <<>>
            /\ Head(Append(<<>>, ch)) = ch /\ Tail(Append(<<>>, ch)) = <<>>
        BY <1>4, <2>1, OneMoreChar
      <4>3. e[i - 1] # <<>> /\ Head(e[i - 1]) = ch /\ Tail(e[i - 1]) = <<>>
        BY <4>1, <4>2
      <4> QED
        BY <1>13, <4>1, <4>3 DEF Returns
    <3> QED
      BY <1>7, <3>1, <3>2
  <2>5. Reads(g, e, t)
    BY <1>2, <1>9, <2>1, <2>3, <2>4 DEF Reads
  <2>6. e[0] = Append(du, ch)
    BY <1>1, <1>8, <2>1
  <2> QED
    BY <1>2, <1>3, <1>13, <2>5, <2>6 DEF Leads, t, ch
<1> QED
  BY <1>2, <1>12, <1>13 DEF t, ch

(* The first code is read.                                                 *)
LEMMA LeadsFrom ==
    ASSUME NEW st, NEW du, NEW s \in Seq(Octet), s # <<>>, NEW last, Leads(st, du, s, last)
    PROVE  \E rest : /\ Returns(CharAfter(st, Head(s)), du, rest)
                     /\ Leads(After(st, Head(s)), rest, Tail(s), last)
<1> DEFINE n == Len(s)
           t == Tail(s)
<1>1. PICK h, d : Reads(h, d, s) /\ h[0] = st /\ d[0] = du /\ h[n] = last
  BY DEF Leads
<1>2. n \in Nat /\ n >= 1 /\ Head(s) = s[1]
  BY EmptySeq, LenProperties, HeadTailProperties
<1>3. t \in Seq(Octet) /\ Len(t) = n - 1 /\ \A i \in 1 .. (n - 1) : t[i] = s[i + 1]
  BY HeadTailProperties
<1> DEFINE m == n - 1
           g == [i \in 0 .. m |-> h[i + 1]]
           e == [i \in 0 .. m |-> d[i + 1]]
<1>4. m \in Nat /\ n = m + 1 /\ Len(t) = m
  BY <1>2, <1>3
<1>5. /\ \A i \in 0 .. m : g[i] = h[i + 1] /\ e[i] = d[i + 1]
  OBVIOUS
<1>6. \A i \in 1 .. m : t[i] = s[i + 1]
  BY <1>3
<1>7. /\ \A i \in 0 .. n : d[i] \in Seq(Chars)
      /\ \A i \in 1 .. n : /\ h[i] = After(h[i - 1], s[i])
                            /\ Returns(CharAfter(h[i - 1], s[i]), d[i - 1], d[i])
      /\ d[n] = <<>>
  BY <1>1 DEF Reads
<1> HIDE DEF n, t, m, g, e
<1>8. \A i \in 0 .. m : e[i] \in Seq(Chars)
  <2> SUFFICES ASSUME NEW i \in 0 .. m PROVE e[i] \in Seq(Chars)
    OBVIOUS
  <2>1. i + 1 \in 0 .. n
    BY <1>4
  <2> QED
    BY <1>5, <1>7, <2>1
<1>9. ASSUME NEW i \in 1 .. m
      PROVE  g[i] = After(g[i - 1], t[i]) /\ Returns(CharAfter(g[i - 1], t[i]), e[i - 1], e[i])
  <2>1. i \in 0 .. m /\ i - 1 \in 0 .. m /\ i + 1 \in 1 .. n /\ (i + 1) - 1 = i /\ (i - 1) + 1 = i
    BY <1>4
  <2>2. h[i + 1] = After(h[i], s[i + 1]) /\ Returns(CharAfter(h[i], s[i + 1]), d[i], d[i + 1])
    BY <1>7, <2>1
  <2>3. g[i] = h[i + 1] /\ e[i] = d[i + 1] /\ g[i - 1] = h[i] /\ e[i - 1] = d[i]
    BY <1>5, <2>1
  <2> QED
    BY <1>6, <2>2, <2>3
<1>10. e[m] = <<>> /\ g[m] = last
  <2>1. m \in 0 .. m
    BY <1>4
  <2> QED
    BY <1>1, <1>4, <1>5, <1>7, <2>1
<1>11. Reads(g, e, t)
  BY <1>4, <1>8, <1>9, <1>10 DEF Reads
<1>12. g[0] = After(st, s[1]) /\ Returns(CharAfter(st, s[1]), du, e[0])
  <2>1. 1 \in 1 .. n /\ 1 - 1 = 0 /\ 0 \in 0 .. m /\ 0 + 1 = 1
    BY <1>2, <1>4
  <2>2. h[1] = After(h[0], s[1]) /\ Returns(CharAfter(h[0], s[1]), d[0], d[1])
    BY <1>7, <2>1
  <2>3. g[0] = h[1] /\ e[0] = d[1]
    BY <1>5, <2>1
  <2> QED
    BY <1>1, <2>2, <2>3
<1>13. Leads(After(st, s[1]), e[0], t, last)
  BY <1>4, <1>10, <1>11, <1>12 DEF Leads
<1>14. /\ Returns(CharAfter(st, Head(s)), du, e[0])
       /\ Leads(After(st, Head(s)), e[0], Tail(s), last)
  BY <1>2, <1>12, <1>13 DEF t
<1> QED
  BY <1>14

-----------------------------------------------------------------------------
(* The codes of a key.                                                     *)

(* What the decoder should know when the keys of down are down.            *)
AsHeld(st, down) ==
    /\ st.prefix = {}
    /\ Separate => /\ "shift" \in st.shift <=> \E k \in down : IsShift(k)
                   /\ "ctrl" \in st.shift <=> \E k \in down : IsControl(k)
    /\ Distinct => st.stat = {k.code : k \in down}

(* The state before the last code of a key: pre are the prefixes.          *)
Ready(st, before, pre) ==
    /\ before.prefix = pre /\ before.shift = st.shift /\ before.stat = st.stat

LEMMA PrefixStep ==
    ASSUME NEW st, NEW b \in {E0, F0}
    PROVE  /\ CharAfter(st, b) = 0
           /\ After(st, b).prefix = st.prefix \cup {b}
           /\ After(st, b).shift = st.shift /\ After(st, b).stat = st.stat
  BY DEF CharAfter, After, PrefixAfter, ShiftAfter, StatAfter, IsPrefix, E0, F0, SKEY_LSHIFT, SKEY_CTRL

LEMMA KeyType ==
    ASSUME NEW k \in Keys
    PROVE  /\ k.ext \in BOOLEAN /\ k.code \in 1 .. 127 /\ k.code \in Octet
           /\ k.code < SKEY_EXTEND /\ ~IsPrefix(k.code)
           /\ \A j \in Keys : j.ext = k.ext /\ j.code = k.code => j = k
<1>1. k \in [ext : BOOLEAN, code : 1 .. 127] /\ \A j \in Keys : j \in [ext : BOOLEAN, code : 1 .. 127]
  BY KeysAssumption
<1>2. k.ext \in BOOLEAN /\ k.code \in 1 .. 127
  BY <1>1
<1>3. k.code \in Octet /\ k.code < SKEY_EXTEND /\ ~IsPrefix(k.code)
  BY <1>2 DEF Octet, SKEY_EXTEND, IsPrefix, E0, E1, F0
<1>4. \A j \in Keys : j.ext = k.ext /\ j.code = k.code => j = k
  BY <1>1
<1> QED
  BY <1>2, <1>3, <1>4

LEMMA MadeState ==
    ASSUME NEW st, NEW k \in Keys, NEW down, down \subseteq Keys, AsHeld(st, down),
           NEW before, NEW pre, Ready(st, before, pre), F0 \notin pre
    PROVE  AsHeld(After(before, k.code), down \cup {k})
<1> DEFINE a == After(before, k.code)
<1>1. k.code \in 1 .. 127 /\ ~IsPrefix(k.code)
  BY KeyType
<1>2. /\ a.prefix = {}
      /\ a.shift = ShiftAfter(before, k.code)
      /\ a.stat = before.stat \cup {k.code}
  BY <1>1 DEF After, PrefixAfter, StatAfter, Toggle, Ready
<1>3. a.shift = IF k.code = SKEY_LSHIFT THEN st.shift \cup {"shift"}
                ELSE IF k.code = SKEY_CTRL THEN st.shift \cup {"ctrl"} ELSE st.shift
  BY <1>2 DEF ShiftAfter, Toggle, Ready
<1> HIDE DEF a
<1>4. ASSUME Separate
      PROVE  /\ "shift" \in a.shift <=> \E j \in down \cup {k} : IsShift(j)
             /\ "ctrl" \in a.shift <=> \E j \in down \cup {k} : IsControl(j)
  <2>1. /\ "shift" \in st.shift <=> \E j \in down : IsShift(j)
        /\ "ctrl" \in st.shift <=> \E j \in down : IsControl(j)
    BY <1>4 DEF AsHeld
  <2>2. (IsShift(k) <=> k.code = SKEY_LSHIFT) /\ (IsControl(k) <=> k.code = SKEY_CTRL)
    BY <1>4 DEF Separate, IsShift, IsControl
  <2>3. SKEY_LSHIFT # SKEY_CTRL
    BY DEF SKEY_LSHIFT, SKEY_CTRL
  <2> QED
    BY <1>3, <2>1, <2>2, <2>3
<1>5. ASSUME Distinct
      PROVE  a.stat = {j.code : j \in down \cup {k}}
  <2>1. before.stat = {j.code : j \in down}
    BY <1>5 DEF AsHeld, Ready
  <2> QED
    BY <1>2, <2>1
<1> QED
  BY <1>2, <1>4, <1>5 DEF AsHeld, a

LEMMA BrokenState ==
    ASSUME NEW st, NEW down, down \subseteq Keys, NEW k \in down, AsHeld(st, down),
           NEW before, NEW pre, Ready(st, before, pre), F0 \in pre
    PROVE  /\ AsHeld(After(before, k.code), down \ {k})
           /\ CharAfter(before, k.code) = 0
<1> DEFINE a == After(before, k.code)
<1>1. k \in Keys /\ k.code \in 1 .. 127 /\ ~IsPrefix(k.code)
  BY KeyType
<1>2. /\ a.prefix = {}
      /\ a.shift = ShiftAfter(before, k.code)
      /\ a.stat = before.stat \ {k.code}
      /\ CharAfter(before, k.code) = 0
  BY <1>1 DEF After, PrefixAfter, StatAfter, Toggle, Ready, CharAfter
<1>3. a.shift = IF k.code = SKEY_LSHIFT THEN st.shift \ {"shift"}
                ELSE IF k.code = SKEY_CTRL THEN st.shift \ {"ctrl"} ELSE st.shift
  BY <1>2 DEF ShiftAfter, Toggle, Ready
<1> HIDE DEF a
<1>4. ASSUME Separate
      PROVE  /\ "shift" \in a.shift <=> \E j \in down \ {k} : IsShift(j)
             /\ "ctrl" \in a.shift <=> \E j \in down \ {k} : IsControl(j)
  <2>1. /\ "shift" \in st.shift <=> \E j \in down : IsShift(j)
        /\ "ctrl" \in st.shift <=> \E j \in down : IsControl(j)
    BY <1>4 DEF AsHeld
  <2>2. (IsShift(k) <=> k.code = SKEY_LSHIFT) /\ (IsControl(k) <=> k.code = SKEY_CTRL)
    BY <1>1, <1>4 DEF Separate, IsShift, IsControl
  <2>3. SKEY_LSHIFT # SKEY_CTRL
    BY DEF SKEY_LSHIFT, SKEY_CTRL
  <2>4. ASSUME NEW j \in down, IsShift(j), IsShift(k) PROVE j = k
    <3>1. j.ext = k.ext /\ j.code = k.code
      BY <1>1, <2>4, KeyType DEF IsShift
    <3> QED
      BY <1>1, <3>1, KeyType
  <2>5. ASSUME NEW j \in down, IsControl(j), IsControl(k) PROVE j = k
    BY <1>1, <1>4, <2>5 DEF Separate
  <2> QED
    BY <1>3, <2>1, <2>2, <2>3, <2>4, <2>5
<1>5. ASSUME Distinct
      PROVE  a.stat = {j.code : j \in down \ {k}}
  <2>1. before.stat = {j.code : j \in down}
    BY <1>5 DEF AsHeld, Ready
  <2>2. \A j \in down : j.code = k.code => j = k
    BY <1>1, <1>5 DEF Distinct
  <2> QED
    BY <1>2, <2>1, <2>2
<1> QED
  BY <1>2, <1>4, <1>5 DEF AsHeld, a

LEMMA CharOfKey ==
    ASSUME NEW k \in Keys, NEW sh \in BOOLEAN, NEW ct \in BOOLEAN
    PROVE  CharOf[k][sh][ct] =
             LET entry == KeycodeTable[k.code + (IF k.ext THEN SKEY_EXTEND ELSE 0)]
                                      [IF sh THEN 2 ELSE 1]
             IN  IF ct THEN entry % 32 ELSE entry
  BY DEF CharOf

LEMMA EntryOf ==
    ASSUME NEW before, NEW k \in Keys
    PROVE  Index(before, k.code) \div 2 = k.code
<1>1. k.code \in 1 .. 127 /\ k.code \in Octet /\ k.code < SKEY_EXTEND
  BY KeyType
<1>2. PICK b \in 1 .. 127 : b = k.code
  BY <1>1
<1>3. CASE E0 \in before.prefix
  <2>1. (b + SKEY_EXTEND) * 2 = 256 + b * 2
    BY DEF SKEY_EXTEND
  <2>2. (256 + b * 2) % 256 = b * 2 /\ (b * 2) \div 2 = b
    OBVIOUS
  <2>3. Index(before, b) = ((b + SKEY_EXTEND) * 2) % 256
    BY <1>1, <1>2, <1>3 DEF Index
  <2> QED
    BY <1>2, <2>1, <2>2, <2>3
<1>4. CASE E0 \notin before.prefix
  <2>1. Index(before, b) = (b * 2) % 256
    BY <1>4 DEF Index
  <2> QED
    BY <1>1, <1>2, <2>1, IndexValue
<1> QED
  BY <1>3, <1>4

(* The character is the one of the key with the shift keys of the user,    *)
(* this one included.                                                      *)
LEMMA MadeChar ==
    ASSUME Separate, SameEntries,
           NEW st, NEW k \in Keys, NEW down, down \subseteq Keys, AsHeld(st, down),
           NEW before, NEW pre, Ready(st, before, pre), F0 \notin pre
    PROVE  CharAfter(before, k.code) = Typed!Struck(k, down \cup {k})
<1> DEFINE a == ShiftAfter(before, k.code)
           all == down \cup {k}
           sh == all \cap {j \in Keys : IsShift(j)} # {}
           ct == all \cap {j \in Keys : IsControl(j)} # {}
           entry == KeycodeTable[k.code][IF sh THEN 2 ELSE 1]
<1>1. AsHeld(After(before, k.code), all)
  BY MadeState
<1>2. ("shift" \in a <=> \E j \in all : IsShift(j)) /\ ("ctrl" \in a <=> \E j \in all : IsControl(j))
  BY <1>1 DEF AsHeld, After
<1>3. all \subseteq Keys
  OBVIOUS
<1>4. sh \in BOOLEAN /\ ct \in BOOLEAN /\ (sh <=> "shift" \in a) /\ (ct <=> "ctrl" \in a)
  BY <1>2, <1>3
<1>5. ~IsPrefix(k.code) /\ F0 \notin before.prefix
  BY KeyType DEF Ready
<1>6. CharAfter(before, k.code) =
        IF "ctrl" \in a THEN KeycodeTable[k.code][IF "shift" \in a THEN 2 ELSE 1] % 32
        ELSE KeycodeTable[k.code][IF "shift" \in a THEN 2 ELSE 1]
  BY <1>5, EntryOf DEF CharAfter
<1>7. KeycodeTable[k.code + (IF k.ext THEN SKEY_EXTEND ELSE 0)] = KeycodeTable[k.code]
  <2>1. CASE k.ext
    BY <2>1 DEF SameEntries
  <2>2. CASE ~k.ext
    BY <2>2, KeyType
  <2> QED
    BY <2>1, <2>2
<1>8. Typed!Struck(k, all) = CharOf[k][sh][ct]
  BY DEF Typed!Struck
<1> HIDE DEF a, sh, ct
<1>9. CharOf[k][sh][ct] = IF ct THEN KeycodeTable[k.code][IF sh THEN 2 ELSE 1] % 32
                          ELSE KeycodeTable[k.code][IF sh THEN 2 ELSE 1]
  BY <1>4, <1>7, CharOfKey
<1>10. CharAfter(before, k.code) = CharOf[k][sh][ct]
  BY <1>4, <1>6, <1>9
<1> QED
  BY <1>8, <1>10

-----------------------------------------------------------------------------
(* The codes s, read from the state st on, tell what is held and give the  *)
(* characters du.                                                          *)
Tells(st, du, s, down) ==
    \E last, all : /\ Leads(st, all, s, last)
                   /\ AsHeld(last, down)
                   /\ Separate /\ SameEntries => all = du

(* What a key adds to the characters that are due.                         *)
DueAfter(du, k, down) ==
    IF Typed!Struck(k, down) = 0 THEN du ELSE Append(du, Typed!Struck(k, down))

LEMMA MadeLeads ==
    ASSUME NEW st, NEW du, NEW all, NEW s \in Seq(Octet), NEW down, down \subseteq Keys,
           NEW k \in Keys, NEW last, AsHeld(last, down),
           NEW before, NEW pre, Ready(last, before, pre), F0 \notin pre,
           Leads(st, all, s, before), Separate /\ SameEntries => all = du
    PROVE  Tells(st, DueAfter(du, k, down \cup {k}), Append(s, k.code), down \cup {k})
<1> DEFINE ch == CharAfter(before, k.code)
           more == IF ch = 0 THEN all ELSE Append(all, ch)
           end == After(before, k.code)
<1>1. k.code \in Octet
  BY KeyType
<1>2. Leads(st, more, Append(s, k.code), end)
  BY <1>1, LeadsOn
<1>3. AsHeld(end, down \cup {k})
  BY MadeState
<1>4. ASSUME Separate, SameEntries
      PROVE  more = DueAfter(du, k, down \cup {k})
  <2>1. ch = Typed!Struck(k, down \cup {k})
    BY <1>4, MadeChar
  <2>2. all = du
    BY <1>4
  <2> HIDE DEF ch
  <2> QED
    BY <2>1, <2>2 DEF DueAfter
<1> HIDE DEF more, end, ch
<1> QED
  BY <1>2, <1>3, <1>4 DEF Tells

LEMMA BrokenLeads ==
    ASSUME NEW st, NEW du, NEW all, NEW s \in Seq(Octet), NEW down, down \subseteq Keys,
           NEW k \in down, NEW last, AsHeld(last, down),
           NEW before, NEW pre, Ready(last, before, pre), F0 \in pre,
           Leads(st, all, s, before), Separate /\ SameEntries => all = du
    PROVE  Tells(st, du, Append(s, k.code), down \ {k})
<1> DEFINE end == After(before, k.code)
<1>1. k.code \in Octet
  BY KeyType
<1>2. CharAfter(before, k.code) = 0 /\ AsHeld(end, down \ {k})
  BY BrokenState
<1>3. Leads(st, all, Append(s, k.code), end)
  BY <1>1, <1>2, LeadsOn
<1> HIDE DEF end
<1> QED
  BY <1>2, <1>3 DEF Tells

LEMMA PrefixLeads ==
    ASSUME NEW st, NEW all, NEW s \in Seq(Octet), NEW last, NEW before, NEW pre,
           Ready(last, before, pre), Leads(st, all, s, before), NEW b \in {E0, F0}
    PROVE  /\ Append(s, b) \in Seq(Octet)
           /\ Leads(st, all, Append(s, b), After(before, b))
           /\ Ready(last, After(before, b), pre \cup {b})
<1>1. b \in Octet
  BY DEF Octet, E0, F0
<1>2. CharAfter(before, b) = 0
  BY PrefixStep
<1>3. Append(s, b) \in Seq(Octet) /\ Leads(st, all, Append(s, b), After(before, b))
  BY <1>1, <1>2, LeadsOn
<1>4. Ready(last, After(before, b), pre \cup {b})
  BY PrefixStep DEF Ready
<1> QED
  BY <1>3, <1>4

LEMMA Codes ==
    ASSUME NEW k \in Keys, NEW s \in Seq(Octet)
    PROVE  /\ ~k.ext => s \o Make(k) = Append(s, k.code)
           /\ k.ext => s \o Make(k) = Append(Append(s, E0), k.code)
           /\ ~k.ext => s \o Break(k) = Append(Append(s, F0), k.code)
           /\ k.ext => s \o Break(k) = Append(Append(Append(s, E0), F0), k.code)
<1>1. k.code \in Octet /\ E0 \in Octet /\ F0 \in Octet
  BY KeyType DEF Octet, E0, F0
<1> DEFINE x == <<k.code>>
           e == <<E0>>
           f == <<F0>>
<1>2. x \in Seq(Octet) /\ e \in Seq(Octet) /\ f \in Seq(Octet)
  BY <1>1
<1>3. <<F0, k.code>> = f \o x
  OBVIOUS
<1>4. \A t \in Seq(Octet) : /\ Append(t, k.code) = t \o x /\ Append(t, k.code) \in Seq(Octet)
                            /\ Append(t, E0) = t \o e /\ Append(t, E0) \in Seq(Octet)
                            /\ Append(t, F0) = t \o f /\ Append(t, F0) \in Seq(Octet)
  BY <1>1, AppendIsConcat, AppendProperties
<1>5. e \o (f \o x) = (e \o f) \o x
  BY <1>2, ConcatAssociative
<1>6. /\ (s \o e) \o x = s \o (e \o x)
      /\ (s \o f) \o x = s \o (f \o x)
  BY <1>2, ConcatAssociative
<1>7. ((s \o e) \o f) \o x = s \o (e \o (f \o x))
  <2>1. f \o x \in Seq(Octet) /\ s \o e \in Seq(Octet)
    BY <1>2, ConcatProperties
  <2>2. ((s \o e) \o f) \o x = (s \o e) \o (f \o x)
    BY <1>2, <2>1, ConcatAssociative
  <2>3. (s \o e) \o (f \o x) = s \o (e \o (f \o x))
    BY <1>2, <2>1, ConcatAssociative
  <2> QED
    BY <2>2, <2>3
<1>8. /\ Make(k) = IF k.ext THEN e \o x ELSE x
      /\ Break(k) = IF k.ext THEN e \o (f \o x) ELSE f \o x
  BY <1>3 DEF Make, Break, Prefixed
<1>9. /\ Append(s, k.code) = s \o x
      /\ Append(Append(s, E0), k.code) = (s \o e) \o x
      /\ Append(Append(s, F0), k.code) = (s \o f) \o x
      /\ Append(Append(Append(s, E0), F0), k.code) = ((s \o e) \o f) \o x
  BY <1>4
<1> HIDE DEF x, e, f
<1>10. CASE k.ext
  BY <1>6, <1>7, <1>8, <1>9, <1>10
<1>11. CASE ~k.ext
  BY <1>6, <1>8, <1>9, <1>11
<1> QED
  BY <1>10, <1>11

(* The make and break codes of a key tell what they should.                *)
LEMMA PressTells ==
    ASSUME NEW st, NEW du, NEW s \in Seq(Octet), NEW down, down \subseteq Keys,
           Tells(st, du, s, down), NEW k \in Keys
    PROVE  Tells(st, DueAfter(du, k, down \cup {k}), s \o Make(k), down \cup {k})
<1>1. PICK last, all : /\ Leads(st, all, s, last) /\ AsHeld(last, down)
                       /\ Separate /\ SameEntries => all = du
  BY DEF Tells
<1>2. Ready(last, last, {})
  BY <1>1 DEF Ready, AsHeld
<1>3. CASE ~k.ext
  <2>1. Tells(st, DueAfter(du, k, down \cup {k}), Append(s, k.code), down \cup {k})
    BY <1>1, <1>2, MadeLeads
  <2> QED
    BY <1>3, <2>1, Codes
<1>4. CASE k.ext
  <2>1. /\ Append(s, E0) \in Seq(Octet)
        /\ Leads(st, all, Append(s, E0), After(last, E0))
        /\ Ready(last, After(last, E0), {} \cup {E0})
    BY <1>1, <1>2, PrefixLeads
  <2>2. F0 \notin {} \cup {E0}
    BY DEF E0, F0
  <2>3. Tells(st, DueAfter(du, k, down \cup {k}), Append(Append(s, E0), k.code), down \cup {k})
    BY <1>1, <2>1, <2>2, MadeLeads
  <2> QED
    BY <1>4, <2>3, Codes
<1> QED
  BY <1>3, <1>4, KeyType

LEMMA ReleaseTells ==
    ASSUME NEW st, NEW du, NEW s \in Seq(Octet), NEW down, down \subseteq Keys,
           Tells(st, du, s, down), NEW k \in down
    PROVE  Tells(st, du, s \o Break(k), down \ {k})
<1>1. PICK last, all : /\ Leads(st, all, s, last) /\ AsHeld(last, down)
                       /\ Separate /\ SameEntries => all = du
  BY DEF Tells
<1>2. Ready(last, last, {}) /\ k \in Keys
  BY <1>1 DEF Ready, AsHeld
<1>3. CASE ~k.ext
  <2>1. /\ Append(s, F0) \in Seq(Octet)
        /\ Leads(st, all, Append(s, F0), After(last, F0))
        /\ Ready(last, After(last, F0), {} \cup {F0})
    BY <1>1, <1>2, PrefixLeads
  <2>2. F0 \in {} \cup {F0}
    OBVIOUS
  <2>3. Tells(st, du, Append(Append(s, F0), k.code), down \ {k})
    BY <1>1, <2>1, <2>2, BrokenLeads
  <2> QED
    BY <1>2, <1>3, <2>3, Codes
<1>4. CASE k.ext
  <2>1. /\ Append(s, E0) \in Seq(Octet)
        /\ Leads(st, all, Append(s, E0), After(last, E0))
        /\ Ready(last, After(last, E0), {} \cup {E0})
    BY <1>1, <1>2, PrefixLeads
  <2> DEFINE t == Append(s, E0)
             mid == After(last, E0)
             pre == {} \cup {E0}
  <2>2. t \in Seq(Octet) /\ Leads(st, all, t, mid) /\ Ready(last, mid, pre)
    BY <2>1
  <2> HIDE DEF t, mid, pre
  <2>3. /\ Append(t, F0) \in Seq(Octet)
        /\ Leads(st, all, Append(t, F0), After(mid, F0))
        /\ Ready(last, After(mid, F0), pre \cup {F0})
    BY <2>2, PrefixLeads
  <2>4. F0 \in pre \cup {F0}
    OBVIOUS
  <2>5. Tells(st, du, Append(Append(t, F0), k.code), down \ {k})
    BY <1>1, <2>3, <2>4, BrokenLeads
  <2> QED
    BY <1>2, <1>4, <2>5, Codes DEF t
<1> QED
  BY <1>2, <1>3, <1>4, KeyType

(* Reading a code returns the character that is due, if it gives one.      *)
LEMMA ReadTells ==
    ASSUME NEW st, NEW du, NEW s \in Seq(Octet), s # <<>>, NEW down, Tells(st, du, s, down)
    PROVE  \E rest : /\ Tells(After(st, Head(s)), rest, Tail(s), down)
                     /\ Separate /\ SameEntries => Returns(CharAfter(st, Head(s)), du, rest)
<1>1. PICK last, all : /\ Leads(st, all, s, last) /\ AsHeld(last, down)
                       /\ Separate /\ SameEntries => all = du
  BY DEF Tells
<1>2. PICK rest : /\ Returns(CharAfter(st, Head(s)), all, rest)
                  /\ Leads(After(st, Head(s)), rest, Tail(s), last)
  BY <1>1, LeadsFrom
<1>3. Tells(After(st, Head(s)), rest, Tail(s), down)
  BY <1>1, <1>2 DEF Tells
<1> QED
  BY <1>1, <1>2, <1>3

-----------------------------------------------------------------------------
(* What is on its way: taken and not yet decoded, in the queue, on the     *)
(* wire.                                                                   *)
Fetched == IF pc = "decode" THEN <<c>> ELSE <<>>
Pending == Fetched \o (Unread \o wire)

(* A user who waits loses no code, and all that is on its way tells what   *)
(* is held and which characters are due.                                   *)
Waits == Used + Len(wire) < Size
TypedInv == patient => Waits /\ Tells(State, due, Pending, held)

LEMMA PendingType ==
    ASSUME TypeOK
    PROVE  /\ Fetched \in Seq(Octet) /\ Unread \in Seq(Octet) /\ wire \in Seq(Octet)
           /\ Unread \o wire \in Seq(Octet) /\ Pending \in Seq(Octet)
           /\ Len(Unread) = Used /\ Used \in Nat /\ held \subseteq Keys
<1>1. c \in Octet /\ Code \subseteq Octet /\ wire \in Seq(Code)
  BY DEF TypeOK, Octet, Code
<1>2. wire \in Seq(Octet)
  BY <1>1
<1>3. <<c>> \in Seq(Octet) /\ <<>> \in Seq(Octet)
  BY <1>1
<1>4. Fetched \in Seq(Octet)
  BY <1>3 DEF Fetched
<1>5. Unread \in Seq(Octet) /\ Len(Unread) = Used /\ Used \in Nat
  BY UnreadType, LenProperties DEF UnreadFacts
<1> QED
  BY <1>2, <1>4, <1>5, ConcatProperties DEF Pending, TypeOK

(* A key struck or released puts its codes behind all others.              *)
LEMMA PressStep ==
    ASSUME TypeOK, TypedInv, NEW k \in Keys, Press(k) \/ Release(k)
    PROVE  TypedInv'
<1> SUFFICES ASSUME patient'
             PROVE  Waits' /\ Tells(State, due, Pending, held)'
  BY DEF TypedInv
<1>1. /\ wire = <<>> /\ patient' = patient /\ UNCHANGED ring /\ UNCHANGED <<pc, c>>
      /\ State' = State
  BY DEF Press, Release, ring, reader, State
<1>2. patient /\ Waits /\ Tells(State, due, Pending, held)
  BY <1>1 DEF TypedInv
<1>3. Unread' = Unread /\ Used' = Used /\ Fetched' = Fetched
  BY <1>1, RingUnchanged DEF Fetched
<1>4. Pending = Fetched \o Unread /\ Pending \in Seq(Octet)
  BY <1>1, PendingType, ConcatEmptySeq DEF Pending
<1>5. /\ Make(k) \in Seq(Octet) /\ Break(k) \in Seq(Octet)
  <2>1. Code \subseteq Octet
    BY DEF Code, Octet
  <2> QED
    BY <2>1, CodesOfKey
<1>6. /\ Fetched \o (Unread \o Make(k)) = Pending \o Make(k)
      /\ Fetched \o (Unread \o Break(k)) = Pending \o Break(k)
  <2>1. Fetched \in Seq(Octet) /\ Unread \in Seq(Octet)
    BY PendingType
  <2>2. PICK f \in Seq(Octet), u \in Seq(Octet) : f = Fetched /\ u = Unread
    BY <2>1
  <2>3. \A t \in Seq(Octet) : (f \o u) \o t = f \o (u \o t)
    BY ConcatAssociative
  <2> QED
    BY <1>4, <1>5, <2>2, <2>3
<1>7. held \subseteq Keys
  BY PendingType
<1>8. PICK st : st = State
  OBVIOUS
<1>9. PICK s \in Seq(Octet) : s = Pending
  BY <1>4
<1>10. PICK du, down : du = due /\ down = held
  OBVIOUS
<1>11. down \subseteq Keys /\ Tells(st, du, s, down)
  BY <1>2, <1>7, <1>8, <1>9, <1>10
<1>12. CASE Press(k)
  <2>1. held' = down \cup {k} /\ due' = DueAfter(du, k, down \cup {k}) /\ wire' = Make(k)
    <3>1. held' = held \cup {k} /\ wire' = Make(k)
      BY <1>12 DEF Press, Typed!Press
    <3>2. due' = IF Typed!Struck(k, held') = 0 THEN due ELSE Append(due, Typed!Struck(k, held'))
      BY <1>12 DEF Press, Typed!Press
    <3> QED
      BY <1>10, <3>1, <3>2 DEF DueAfter
  <2>2. Used + Len(Make(k)) < Size
    BY <1>2, <1>12 DEF Press, Fits
  <2>3. Tells(st, DueAfter(du, k, down \cup {k}), s \o Make(k), down \cup {k})
    BY <1>11, PressTells
  <2>4. Pending' = s \o Make(k)
    BY <1>3, <1>6, <1>9, <2>1 DEF Pending
  <2> QED
    BY <1>1, <1>3, <1>8, <2>1, <2>2, <2>3, <2>4 DEF Waits
<1>13. CASE Release(k)
  <2>1. k \in held /\ held' = held \ {k} /\ due' = due /\ wire' = Break(k)
    BY <1>13 DEF Release, Typed!Release
  <2>2. Used + Len(Break(k)) < Size
    BY <1>2, <1>13 DEF Release, Fits
  <2>3. k \in down
    BY <1>10, <2>1
  <2>4. Tells(st, du, s \o Break(k), down \ {k})
    BY <1>11, <2>3, ReleaseTells
  <2>5. Pending' = s \o Break(k)
    BY <1>3, <1>6, <1>9, <2>1 DEF Pending
  <2> QED
    BY <1>1, <1>3, <1>8, <1>10, <2>1, <2>2, <2>4, <2>5 DEF Waits
<1> QED
  BY <1>12, <1>13

(* put_que moves a code from the wire into the queue.                      *)
LEMMA PutMoves ==
    ASSUME TypeOK, Waits, PutQue
    PROVE  Waits' /\ Unread' \o wire' = Unread \o wire
<1> DEFINE b == Head(wire)
<1>1. wire # <<>> /\ wire \in Seq(Octet) /\ Unread \in Seq(Octet) /\ Len(Unread) = Used /\ Used \in Nat
  BY PendingType DEF PutQue
<1>2. wire' = Tail(wire) /\ b \in Octet /\ Tail(wire) \in Seq(Octet)
      /\ Len(wire) \in Nat /\ Len(Tail(wire)) = Len(wire) - 1 /\ Len(wire) > 0
  BY <1>1, HeadTailProperties, LenProperties, EmptySeq DEF PutQue
<1>3. Used < Size - 1
  BY <1>1, <1>2, SizeAssumption DEF Waits
<1>4. /\ Used' = Used + 1 /\ Unread'[Used + 1] = b
      /\ \A k \in 1 .. Used : Unread'[k] = Unread[k]
  BY <1>1, <1>3, PutStep, SizeAssumption
<1>5. Unread' \in Seq(Octet) /\ Len(Unread') = Used'
  <2>1. TypeOK'
    BY TypeStep DEF Next
  <2> QED
    BY <2>1, UnreadTypeNext DEF UnreadFacts
<1> HIDE DEF b
<1>6. Unread' = Append(Unread, b)
  <2>1. /\ Append(Unread, b) \in Seq(Octet)
        /\ Len(Append(Unread, b)) = Used + 1
        /\ \A k \in 1 .. Used : Append(Unread, b)[k] = Unread[k]
        /\ Append(Unread, b)[Used + 1] = b
    BY <1>1, <1>2, AppendProperties
  <2>2. \A k \in 1 .. (Used + 1) : Unread'[k] = Append(Unread, b)[k]
    BY <1>1, <1>4, <2>1
  <2> QED
    BY <1>4, <1>5, <2>1, <2>2, SeqEqual
<1>7. wire = <<b>> \o Tail(wire)
  <2>1. <<b>> \in Seq(Octet) /\ Len(<<b>>) = 1 /\ <<b>>[1] = b
    BY <1>2
  <2>2. /\ <<b>> \o Tail(wire) \in Seq(Octet)
        /\ Len(<<b>> \o Tail(wire)) = 1 + (Len(wire) - 1)
        /\ \A i \in 1 .. 1 + (Len(wire) - 1) :
              (<<b>> \o Tail(wire))[i] = IF i <= 1 THEN <<b>>[i] ELSE Tail(wire)[i - 1]
    BY <1>2, <2>1, ConcatProperties
  <2>3. \A i \in 1 .. Len(Tail(wire)) : Tail(wire)[i] = wire[i + 1]
    BY <1>1, HeadTailProperties
  <2>4. b = wire[1]
    BY <1>1 DEF b
  <2>5. \A i \in 1 .. Len(wire) : wire[i] = (<<b>> \o Tail(wire))[i]
    <3> SUFFICES ASSUME NEW i \in 1 .. Len(wire)
                 PROVE  wire[i] = (<<b>> \o Tail(wire))[i]
      OBVIOUS
    <3>1. CASE i = 1
      BY <1>2, <2>1, <2>2, <2>4, <3>1
    <3>2. CASE i # 1
      <4>1. i - 1 \in 1 .. Len(Tail(wire)) /\ (i - 1) + 1 = i /\ ~(i <= 1)
            /\ i \in 1 .. 1 + (Len(wire) - 1)
        BY <1>2, <3>2
      <4> QED
        BY <2>2, <2>3, <4>1
    <3> QED
      BY <3>1, <3>2
  <2> QED
    BY <1>1, <1>2, <2>2, <2>5, SeqEqual
<1>8. Append(Unread, b) \o Tail(wire) = Unread \o wire
  <2>1. <<b>> \in Seq(Octet) /\ Append(Unread, b) = Unread \o <<b>>
    BY <1>1, <1>2, AppendIsConcat
  <2>2. (Unread \o <<b>>) \o Tail(wire) = Unread \o (<<b>> \o Tail(wire))
    BY <1>1, <1>2, <2>1, ConcatAssociative
  <2> QED
    BY <1>7, <2>1, <2>2
<1>9. Waits'
  BY <1>1, <1>2, <1>4, SizeAssumption DEF Waits
<1> QED
  BY <1>2, <1>6, <1>8, <1>9

(* The assignment to outptr takes the oldest code out of the queue.        *)
LEMMA FreeShifts ==
    ASSUME TypeOK, CodeInOrder, Free
    PROVE  /\ Used' = Used - 1 /\ Unread' \in Seq(Octet)
           /\ Unread = <<c>> \o Unread'
<1>1. /\ p = outptr /\ Used > 0 /\ c = Unread[1]
      /\ outptr' = Succ(outptr) /\ taken' = <<c>>
      /\ kbd_buffer' = kbd_buffer /\ inptr' = inptr
      /\ inptr \in Slots /\ outptr \in Slots
  BY DEF Free, CodeInOrder, TypeOK
<1>2. /\ Unread \in Seq(Octet) /\ Len(Unread) = Used
      /\ \A k \in 1 .. Used : Unread[k] = kbd_buffer[Slot(k - 1)]
  BY UnreadType DEF UnreadFacts
<1>3. Used \in 0 .. (Size - 1)
  BY <1>1, Places
<1>4. TypeOK'
  BY TypeStep DEF Next, Reader
<1>5. outptr' = (IF outptr + 1 = Size THEN 0 ELSE outptr + 1) /\ outptr' \in Slots
  BY <1>1, SuccType
<1>6. Used' = Used - 1
  <2>1. Used' = IF inptr' >= outptr' THEN inptr' - outptr' ELSE inptr' + Size - outptr'
    BY <1>1, <1>5, Distance DEF Used
  <2>2. Used = IF inptr >= outptr THEN inptr - outptr ELSE inptr + Size - outptr
    BY <1>1, UsedValue
  <2> QED
    BY <1>1, <1>5, <2>1, <2>2, SizeAssumption DEF Slots
<1>7. /\ Unread' \in Seq(Octet) /\ Len(Unread') = Used'
      /\ \A k \in 1 .. Used' : Unread'[k] = kbd_buffer'[Slot(k - 1)']
  BY <1>4, UnreadTypeNext DEF UnreadFacts
<1>8. ASSUME NEW k \in 1 .. (Used - 1)
      PROVE  Unread'[k] = Unread[1 + k]
  <2>1. k \in 1 .. Used' /\ 1 + k \in 1 .. Used
    BY <1>3, <1>6, SizeAssumption
  <2>2. Slot(k - 1)' = Slot((1 + k) - 1)
    BY <1>1, <1>3, <1>5, <2>1, SizeAssumption DEF Slot, Slots
  <2> QED
    BY <1>1, <1>2, <1>7, <2>1, <2>2
<1>9. c \in Octet /\ <<c>> \in Seq(Octet) /\ Len(<<c>>) = 1 /\ <<c>>[1] = c
  BY DEF TypeOK, Octet
<1> DEFINE whole == <<c>> \o Unread'
<1>10. /\ whole \in Seq(Octet) /\ Len(whole) = 1 + Used'
       /\ \A i \in 1 .. 1 + Used' : whole[i] = IF i <= 1 THEN <<c>>[i] ELSE Unread'[i - 1]
  BY <1>7, <1>9, ConcatProperties
<1> HIDE DEF whole
<1>11. \A i \in 1 .. Used : Unread[i] = whole[i]
  <2> SUFFICES ASSUME NEW i \in 1 .. Used
               PROVE  Unread[i] = whole[i]
    OBVIOUS
  <2>1. i \in 1 .. 1 + Used'
    BY <1>3, <1>6, SizeAssumption
  <2>2. CASE i = 1
    BY <1>1, <1>9, <1>10, <2>1, <2>2
  <2>3. CASE i # 1
    <3>1. i - 1 \in 1 .. (Used - 1) /\ 1 + (i - 1) = i /\ ~(i <= 1)
      BY <1>3, <2>3, SizeAssumption
    <3> QED
      BY <1>8, <1>10, <2>1, <3>1
  <2> QED
    BY <2>2, <2>3
<1>12. Used = 1 + Used'
  BY <1>3, <1>6, SizeAssumption
<1>13. Unread = whole
  BY <1>2, <1>10, <1>11, <1>12, SeqEqual
<1> QED
  BY <1>6, <1>7, <1>13 DEF whole

(* kbd_getcode takes the oldest code; it is decoded next.                  *)
LEMMA FreeMoves ==
    ASSUME TypeOK, CodeInOrder, Free
    PROVE  /\ Used' = Used - 1 /\ Used > 0
           /\ Fetched' \o (Unread' \o wire') = Fetched \o (Unread \o wire)
<1>1. /\ Unread \in Seq(Octet) /\ Len(Unread) = Used /\ Used \in Nat /\ wire \in Seq(Octet)
      /\ Used > 0 /\ c = Unread[1] /\ wire' = wire /\ c' = c
      /\ Fetched = <<>> /\ Fetched' = <<c>> /\ c \in Octet
  BY PendingType DEF Free, CodeInOrder, user, Fetched, TypeOK, Octet
<1>2. Used' = Used - 1 /\ Unread = <<c>> \o Unread' /\ Unread' \in Seq(Octet)
  BY FreeShifts
<1>3. <<c>> \in Seq(Octet)
  BY <1>1
<1>4. <<c>> \o (Unread' \o wire) = (<<c>> \o Unread') \o wire
  BY <1>1, <1>2, <1>3, ConcatAssociative
<1>5. Fetched \o (Unread \o wire) = Unread \o wire
  BY <1>1, ConcatProperties, ConcatEmptySeq
<1> QED
  BY <1>1, <1>2, <1>4, <1>5

LEMMA HeadTailOfOne ==
    ASSUME NEW b \in Octet, NEW s \in Seq(Octet)
    PROVE  /\ <<b>> \o s \in Seq(Octet) /\ <<b>> \o s # <<>>
           /\ Head(<<b>> \o s) = b /\ Tail(<<b>> \o s) = s
<1> DEFINE t == <<b>> \o s
<1>1. <<b>> \in Seq(Octet) /\ Len(<<b>>) = 1 /\ <<b>>[1] = b /\ Len(s) \in Nat
  BY LenProperties
<1>2. /\ t \in Seq(Octet) /\ Len(t) = 1 + Len(s)
      /\ \A i \in 1 .. 1 + Len(s) : t[i] = IF i <= 1 THEN <<b>>[i] ELSE s[i - 1]
  BY <1>1, ConcatProperties
<1> HIDE DEF t
<1>3. t # <<>> /\ t[1] = b /\ Head(t) = b
  <2>1. Len(t) # 0
    BY <1>1, <1>2
  <2>2. t # <<>>
    BY <1>2, <2>1, EmptySeq
  <2>3. t[1] = b
    BY <1>1, <1>2
  <2> QED
    BY <1>2, <2>2, <2>3
<1>4. /\ Tail(t) \in Seq(Octet) /\ Len(Tail(t)) = Len(t) - 1
      /\ \A i \in 1 .. Len(Tail(t)) : Tail(t)[i] = t[i + 1]
  BY <1>2, <1>3, HeadTailProperties
<1>5. \A i \in 1 .. Len(s) : Tail(t)[i] = s[i]
  BY <1>1, <1>2, <1>4
<1>6. Tail(t) = s
  BY <1>1, <1>2, <1>4, <1>5, SeqEqual
<1> QED
  BY <1>2, <1>3, <1>6 DEF t

LEMMA Decoded ==
    ASSUME GetChar
    PROVE  /\ State' = After(State, c) /\ got' = CharAfter(State, c)
           /\ due' = IF got' = 0 \/ due = <<>> THEN due ELSE Tail(due)
           /\ pc = "decode" /\ pc' = "idle" /\ UNCHANGED <<ring, patient, held, wire>>
  BY DEF GetChar, State, After

(* The decoder reads the code it has taken, and returns what is due.       *)
LEMMA DecodeStep ==
    ASSUME TypeOK, TypedInv, GetChar, patient
    PROVE  /\ TypedInv'
           /\ Separate /\ SameEntries =>
                 (got' # 0 => due # <<>> /\ got' = Head(due) /\ due' = Tail(due))
<1> DEFINE rest == Unread \o wire
<1>1. /\ State' = After(State, c) /\ got' = CharAfter(State, c)
      /\ due' = IF got' = 0 \/ due = <<>> THEN due ELSE Tail(due)
      /\ pc = "decode" /\ pc' = "idle" /\ wire' = wire /\ held' = held
  BY Decoded
<1>2. Unread' = Unread /\ Used' = Used
  BY Decoded, RingUnchanged
<1>3. rest \in Seq(Octet) /\ c \in Octet
  BY PendingType DEF TypeOK, Octet
<1>4. Pending = <<c>> \o rest /\ Pending' = <<>> \o rest
  BY <1>1, <1>2 DEF Pending, Fetched
<1> HIDE DEF rest
<1>5. Pending' = rest
  BY <1>3, <1>4, ConcatEmptySeq
<1>6. Pending \in Seq(Octet) /\ Pending # <<>> /\ Head(Pending) = c /\ Tail(Pending) = rest
  BY <1>3, <1>4, HeadTailOfOne
<1>7. Waits /\ Tells(State, due, Pending, held)
  BY DEF TypedInv
<1>8. PICK st, du, down : st = State /\ du = due /\ down = held
  OBVIOUS
<1>9. PICK s \in Seq(Octet) : s = Pending
  BY <1>6
<1>10. Tells(st, du, s, down) /\ s # <<>> /\ Head(s) = c /\ Tail(s) = rest
  BY <1>6, <1>7, <1>8, <1>9
<1>11. PICK left : /\ Tells(After(st, Head(s)), left, Tail(s), down)
                   /\ Separate /\ SameEntries => Returns(CharAfter(st, Head(s)), du, left)
  BY <1>10, ReadTells
<1>12. PICK now : now = due'
  OBVIOUS
<1>13. ASSUME Separate, SameEntries
       PROVE  left = now /\ (got' # 0 => due # <<>> /\ got' = Head(due) /\ due' = Tail(due))
  <2>1. Returns(got', du, left)
    BY <1>1, <1>8, <1>10, <1>11, <1>13
  <2>2. CASE got' = 0
    BY <1>1, <1>8, <1>12, <2>1, <2>2 DEF Returns
  <2>3. CASE got' # 0
    BY <1>1, <1>8, <1>12, <2>1, <2>3 DEF Returns
  <2> QED
    BY <2>2, <2>3
<1>14. PICK last, all : /\ Leads(After(st, Head(s)), all, Tail(s), last) /\ AsHeld(last, down)
                        /\ Separate /\ SameEntries => all = left
  BY <1>11 DEF Tells
<1>15. Tells(After(st, Head(s)), now, Tail(s), down)
  BY <1>13, <1>14 DEF Tells
<1>16. Tells(State', due', Pending', held')
  BY <1>1, <1>5, <1>8, <1>10, <1>12, <1>15
<1>17. Waits'
  BY <1>1, <1>2, <1>7 DEF Waits
<1>18. TypedInv'
  BY <1>16, <1>17 DEF TypedInv
<1> QED
  BY <1>13, <1>18

LEMMA TypedStep == TypeOK /\ CodeInOrder /\ TypedInv /\ [Next]_vars => TypedInv'
<1> SUFFICES ASSUME TypeOK, CodeInOrder, TypedInv, [Next]_vars, patient'
             PROVE  TypedInv'
  BY DEF TypedInv
<1>1. patient
  BY DEF Next, User, Reader, Press, Release, PutQue, NoCode, GetCode, Fetch, Free, GetChar, user, vars
<1>2. Waits /\ Tells(State, due, Pending, held)
  BY <1>1 DEF TypedInv
<1>3. ASSUME NEW k \in Keys, Press(k) \/ Release(k)
      PROVE  TypedInv'
  BY <1>3, PressStep
<1>4. CASE PutQue
  <2>1. Waits' /\ Unread' \o wire' = Unread \o wire
    BY <1>2, <1>4, PutMoves
  <2>2. State' = State /\ due' = due /\ held' = held /\ Fetched' = Fetched
    BY <1>4 DEF PutQue, status, reader, State, Fetched
  <2>3. Pending' = Pending
    BY <2>1, <2>2 DEF Pending
  <2> QED
    BY <1>2, <2>1, <2>2, <2>3 DEF TypedInv
<1>5. CASE Free
  <2>1. Used' = Used - 1 /\ Used > 0 /\ Pending' = Pending
    BY <1>5, FreeMoves DEF Pending
  <2>2. State' = State /\ due' = due /\ held' = held /\ wire' = wire
    BY <1>5 DEF Free, status, user, State
  <2>3. Used \in Nat /\ Len(wire) \in Nat
    BY PendingType, LenProperties
  <2>4. Waits'
    BY <1>2, <2>1, <2>2, <2>3, SizeAssumption DEF Waits
  <2> QED
    BY <1>2, <2>1, <2>2, <2>4 DEF TypedInv
<1>6. CASE GetChar
  BY <1>1, <1>6, DecodeStep
<1>7. ASSUME NoCode \/ GetCode \/ Fetch \/ UNCHANGED vars
      PROVE  TypedInv'
  <2>1. UNCHANGED ring /\ State' = State /\ due' = due /\ held' = held /\ wire' = wire
    BY <1>7 DEF NoCode, GetCode, Fetch, vars, ring, status, user, State
  <2>2. Fetched' = Fetched
    BY <1>7 DEF NoCode, GetCode, Fetch, vars, reader, Fetched
  <2>3. Unread' = Unread /\ Used' = Used
    BY <2>1, RingUnchanged
  <2>4. Pending' = Pending /\ Waits'
    BY <1>2, <2>1, <2>2, <2>3 DEF Pending, Waits
  <2> QED
    BY <1>2, <2>1, <2>4 DEF TypedInv
<1> QED
  BY <1>1, <1>3, <1>4, <1>5, <1>6, <1>7 DEF Next, User, Reader

(* Nothing is on its way.                                                  *)
LEMMA NothingPending ==
    ASSUME TypeOK, inptr = outptr, wire = <<>>, pc # "decode"
    PROVE  Pending = <<>> /\ Used = 0
<1>1. Used = 0
  BY UsedValue, SizeAssumption DEF TypeOK, Slots
<1>2. Unread = <<>>
  BY <1>1, PendingType, EmptySeq
<1>3. <<>> \in Seq(Octet) /\ <<>> \o <<>> = <<>>
  OBVIOUS
<1> QED
  BY <1>1, <1>2, <1>3 DEF Pending, Fetched

LEMMA TypedInit == Init => TypedInv
<1> SUFFICES ASSUME Init PROVE TypedInv
  OBVIOUS
<1>1. TypeOK /\ inptr = outptr /\ wire = <<>> /\ pc # "decode"
  BY InitHolds DEF Init, IInv
<1>2. Pending = <<>> /\ Used = 0
  BY <1>1, NothingPending
<1>3. /\ State.prefix = {} /\ State.shift = {} /\ State.stat = {} /\ due = <<>> /\ held = {}
  BY DEF Init, State
<1>4. PICK st : st = State
  OBVIOUS
<1>5. AsHeld(st, {})
  BY <1>3, <1>4 DEF AsHeld
<1>6. Tells(st, <<>>, <<>>, {})
  BY <1>5, LeadsNowhere DEF Tells
<1>7. Waits
  BY <1>1, <1>2, SizeAssumption DEF Waits
<1> QED
  BY <1>2, <1>3, <1>4, <1>6, <1>7 DEF TypedInv

LEMMA TypedHolds == Spec => [](TypeOK /\ CodeInOrder /\ TypedInv)
<1>1. Init => TypeOK /\ CodeInOrder /\ TypedInv
  BY InitHolds, TypedInit DEF IInv
<1>2. TypeOK /\ CodeInOrder /\ TypedInv /\ [Next]_vars => (TypeOK /\ CodeInOrder /\ TypedInv)'
  BY TypeStep, OrderStep, TypedStep DEF IInv
<1> QED
  BY <1>1, <1>2, PTL DEF Spec

LEMMA RestTells ==
    ASSUME TypeOK, TypedInv, AtRest
    PROVE  AsHeld(State, held)
<1>1. Pending = <<>>
  BY NothingPending DEF AtRest
<1>2. Tells(State, due, Pending, held)
  BY DEF TypedInv, AtRest
<1>3. PICK st, du, down : st = State /\ du = due /\ down = held
  OBVIOUS
<1>4. Tells(st, du, <<>>, down)
  BY <1>1, <1>2, <1>3
<1>5. AsHeld(st, down)
  BY <1>4, NowhereLeads DEF Tells
<1> QED
  BY <1>3, <1>5

(* When all codes are read and none was dropped, the flags for SHIFT and   *)
(* CTRL say what is held, however the keys were struck, repeated and       *)
(* released and however late the codes were read (shift_ctrl_alt_status).  *)
THEOREM ShiftStatesTrue ==
    ASSUME Separate
    PROVE  Spec => []StatesAsHeld
<1>1. TypeOK /\ CodeInOrder /\ TypedInv => StatesAsHeld
  BY RestTells DEF StatesAsHeld, AsHeld, State
<1> QED
  BY <1>1, TypedHolds, PTL

(* Then too, the table kbd_getpress reads has the keys that are down, if   *)
(* no two of them have the same code.                                      *)
THEOREM PressTableTrue ==
    ASSUME Distinct
    PROVE  Spec => []PressedAsHeld
<1>1. TypeOK /\ CodeInOrder /\ TypedInv => PressedAsHeld
  BY RestTells DEF PressedAsHeld, AsHeld, State
<1> QED
  BY <1>1, TypedHolds, PTL

-----------------------------------------------------------------------------
(* The characters: striking and releasing keys, and returning what is due, *)
(* are the steps of KeyStream; all others stutter.                         *)

LEMMA KeyStep ==
    ASSUME NEW k \in Keys, Press(k) \/ Release(k)
    PROVE  [Promise!KNext]_(Promise!kvars)
<1>1. patient' = patient /\ got' = got
  BY DEF Press, Release, Typed!Press, Typed!Release
<1>2. CASE ~patient
  BY <1>1, <1>2 DEF Promise!kvars
<1>3. CASE patient /\ Press(k)
  <2>1. held' = held \cup {k}
        /\ due' = IF Typed!Struck(k, held') = 0 THEN due ELSE Append(due, Typed!Struck(k, held'))
    BY <1>3 DEF Press, Typed!Press
  <2>2. PICK down : down = held'
    OBVIOUS
  <2>3. Promise!Struck(k, down) = Typed!Struck(k, down)
    BY DEF Promise!Struck, Typed!Struck
  <2>4. Promise!Press(k)
    BY <1>1, <1>3, <2>1, <2>2, <2>3 DEF Promise!Press
  <2> QED
    BY <2>4 DEF Promise!KNext
<1>4. CASE patient /\ Release(k)
  <2>1. Promise!Release(k)
    BY <1>1, <1>4 DEF Release, Typed!Release, Promise!Release
  <2> QED
    BY <2>1 DEF Promise!KNext
<1> QED
  BY <1>2, <1>3, <1>4

LEMMA KeysSimulated ==
    ASSUME Separate, SameEntries, TypeOK, TypedInv, [Next]_vars
    PROVE  [Promise!KNext]_(Promise!kvars)
<1>1. ASSUME NEW k \in Keys, Press(k) \/ Release(k)
      PROVE  [Promise!KNext]_(Promise!kvars)
  BY <1>1, KeyStep
<1>2. CASE GetChar
  <2>1. patient' = patient /\ held' = held
        /\ due' = IF got' = 0 \/ due = <<>> THEN due ELSE Tail(due)
    BY <1>2, Decoded
  <2>2. CASE ~patient
    BY <2>1, <2>2 DEF Promise!kvars
  <2>3. CASE patient /\ got' = 0
    <3>1. Promise!Nothing
      BY <2>1, <2>3 DEF Promise!Nothing
    <3> QED
      BY <3>1 DEF Promise!KNext
  <2>4. CASE patient /\ got' # 0
    <3>1. due # <<>> /\ got' = Head(due) /\ due' = Tail(due)
      BY <1>2, <2>4, DecodeStep
    <3>2. Promise!Read
      BY <2>1, <2>4, <3>1 DEF Promise!Read
    <3> QED
      BY <3>2 DEF Promise!KNext
  <2> QED
    BY <2>2, <2>3, <2>4
<1>3. CASE NoCode
  <2>1. got' = 0 /\ patient' = patient /\ held' = held /\ due' = due
    BY <1>3 DEF NoCode, user
  <2>2. CASE patient
    <3>1. Promise!Nothing
      BY <2>1, <2>2 DEF Promise!Nothing
    <3> QED
      BY <3>1 DEF Promise!KNext
  <2>3. CASE ~patient
    BY <2>1, <2>3 DEF Promise!kvars
  <2> QED
    BY <2>2, <2>3
<1>4. ASSUME PutQue \/ GetCode \/ Fetch \/ Free \/ UNCHANGED vars
      PROVE  [Promise!KNext]_(Promise!kvars)
  <2>1. patient' = patient /\ held' = held /\ due' = due /\ got' = got
    BY <1>4 DEF PutQue, GetCode, Fetch, Free, vars, user, status
  <2> QED
    BY <2>1 DEF Promise!kvars
<1> QED
  BY <1>1, <1>2, <1>3, <1>4, KeysAssumption DEF Next, User, Reader

(* What kbd_getchar returns is what was typed: in order, once, shifted as  *)
(* the shift keys were when the key was struck.                            *)
THEOREM CharactersTrue ==
    ASSUME Separate, SameEntries
    PROVE  Spec => CharactersAsTyped
<1>1. Init => Promise!KInit
  BY DEF Init, Promise!KInit
<1>2. TypeOK /\ CodeInOrder /\ TypedInv /\ [Next]_vars => [Promise!KNext]_(Promise!kvars)
  BY KeysSimulated
<1> QED
  BY <1>1, <1>2, TypedHolds, PTL DEF Spec, CharactersAsTyped, Promise!KSpec
=============================================================================
