--------------------------- MODULE UartFifoProofs ---------------------------
(***************************************************************************)
(* Proofs about UartFifo, for every ring size, packet size and byte set:   *)
(* type correctness, the order of the bytes a dequeue in progress has      *)
(* copied, whole requests, and the refinement of ByteQueue.                *)
(***************************************************************************)
EXTENDS UartFifo, TLAPS, SequenceTheorems

-----------------------------------------------------------------------------
(* The arithmetic of the ring.                                             *)

(* Advancing a pointer stays in the ring.                                  *)
LEMMA SuccType ==
    ASSUME NEW p \in Slots
    PROVE  Succ(p) \in Slots
  BY SizeAssumption DEF Succ, Slots

(* The count is at most Size - 1, and Slot is a slot.                      *)
LEMMA UsedType ==
    ASSUME inPtr \in Slots, outPtr \in Slots
    PROVE  /\ Used \in 0 .. (Size - 1)
           /\ \A k \in 0 .. (Size - 1) : Slot(k) \in Slots
           /\ Slot(0) = outPtr
           /\ Slot(Used) = inPtr
           /\ \A k \in 0 .. (Size - 2) : Slot(k + 1) = Succ(Slot(k))
           /\ \A j, k \in 0 .. (Size - 1) : Slot(j) = Slot(k) => j = k
  BY SizeAssumption DEF Used, GetSize, Slots, Slot, Succ

(* The unread bytes form a sequence as long as the count says.             *)
UnreadFacts ==
    /\ Unread \in Seq(Byte)
    /\ Len(Unread) = Used
    /\ \A k \in 1 .. Used : Unread[k] = buf[Slot(k - 1)]

LEMMA UnreadType == TypeOK => UnreadFacts
<1> SUFFICES ASSUME TypeOK
             PROVE  UnreadFacts
  OBVIOUS
<1>1. Used \in 0 .. (Size - 1) /\ \A k \in 0 .. (Size - 1) : Slot(k) \in Slots
  BY UsedType DEF TypeOK
<1>2. Used \in Nat
  BY <1>1, SizeAssumption
<1>3. \A k \in 1 .. Used : buf[Slot(k - 1)] \in Byte
  <2> TAKE k \in 1 .. Used
  <2>1. k - 1 \in 0 .. (Size - 1)
    BY <1>1, SizeAssumption
  <2>2. Slot(k - 1) \in Slots
    BY <2>1, <1>1
  <2> QED
    BY <2>2 DEF TypeOK
<1>4. Unread \in [1 .. Used -> Byte]
  BY <1>3 DEF Unread
<1>5. Unread \in Seq(Byte) /\ Len(Unread) = Used
  BY <1>2, <1>4 DEF Unread
<1> QED
  BY <1>5 DEF Unread, UnreadFacts

LEMMA UnreadTypeNext == TypeOK' => UnreadFacts'
  BY UnreadType, PTL
-----------------------------------------------------------------------------
(* TypeOK is inductive by itself.                                          *)
LEMMA TypeStep == TypeOK /\ [Next]_vars => TypeOK'
<1> SUFFICES ASSUME TypeOK, [Next]_vars
             PROVE  TypeOK'
  OBVIOUS
<1>1. ASSUME NEW b \in Byte, Serial1Interrupt(b)
      PROVE  TypeOK'
  BY <1>1, SuccType DEF TypeOK, Serial1Interrupt, reader
<1>2. ASSUME NEW size \in {1, PacketSize}, Call(size)
      PROVE  TypeOK'
  BY <1>2 DEF TypeOK, Call, shared
<1>3. CASE Poll
  <2>1. CASE GetSize(inPtr, outPtr) >= want
    BY <1>3, <2>1 DEF TypeOK, Poll, shared
  <2>2. CASE ~(GetSize(inPtr, outPtr) >= want)
    BY <1>3, <2>2 DEF TypeOK, Poll, shared
  <2> QED
    BY <2>1, <2>2
<1>4. CASE Test
  BY <1>4 DEF TypeOK, Test, shared
<1>5. CASE Copy
  BY <1>5, SuccType DEF TypeOK, Copy, shared
<1>6. CASE Commit
  BY <1>6 DEF TypeOK, Commit
<1>7. CASE UNCHANGED vars
  BY <1>7 DEF TypeOK, vars
<1> QED
  BY <1>1, <1>2, <1>3, <1>4, <1>5, <1>6, <1>7 DEF Next, Reader

(* The pointers stay in the ring and every local keeps its type, whatever  *)
(* the interleaving of interrupts and main program (fifo.h, lines 17, 18). *)
THEOREM TypeCorrect == Spec => []TypeOK
<1>1. Init => TypeOK
  BY SizeAssumption DEF Init, TypeOK, Slots
<1>2. QED
  BY <1>1, TypeStep, PTL DEF Spec
-----------------------------------------------------------------------------
(* The inductive invariant: types, and the copy in progress.               *)
IInv == TypeOK /\ CopyInOrder

(* The interrupt handler stores into the one slot that is neither unread   *)
(* nor being copied, so the unread bytes keep their values and places; the *)
(* count grows by one, or stays if Size - 1 bytes are unread.              *)
LEMMA InterruptStep ==
    ASSUME TypeOK, NEW b \in Byte, Serial1Interrupt(b)
    PROVE  /\ \/ Used = Size - 1 /\ Used' = Used
              \/ Used < Size - 1 /\ Used' = Used + 1 /\ Unread'[Used + 1] = b
           /\ \A k \in 1 .. Used : Unread'[k] = Unread[k]
           /\ \A k \in 0 .. (Size - 1) : Slot(k)' = Slot(k)
<1>1. inPtr \in Slots /\ outPtr \in Slots /\ outPtr' = outPtr
  BY DEF TypeOK, Serial1Interrupt, reader
<1>2. \A k \in 0 .. (Size - 1) : Slot(k)' = Slot(k)
  BY <1>1 DEF Slot
<1>3. /\ Used \in 0 .. (Size - 1)
      /\ Slot(Used) = inPtr
      /\ \A j, k \in 0 .. (Size - 1) : Slot(j) = Slot(k) => j = k
      /\ \A k \in 0 .. (Size - 1) : Slot(k) \in Slots
  BY <1>1, UsedType
<1>4. \/ Used = Size - 1 /\ Used' = Used
      \/ Used < Size - 1 /\ Used' = Used + 1
  <2>1. CASE Succ(inPtr) = outPtr
    BY <1>1, <2>1, SizeAssumption
       DEF Serial1Interrupt, Used, GetSize, Succ, Slots
  <2>2. CASE Succ(inPtr) # outPtr
    BY <1>1, <2>2, SizeAssumption
       DEF Serial1Interrupt, Used, GetSize, Succ, Slots
  <2> QED
    BY <2>1, <2>2
<1>5. TypeOK'
  BY TypeStep DEF Next
<1>6. Used' \in 0 .. (Size - 1) /\ \A k \in 1 .. Used' : Unread'[k] = buf'[Slot(k - 1)']
  BY <1>4, <1>3, SizeAssumption DEF Unread
<1>7. buf' = [buf EXCEPT ![Slot(Used)] = b] /\ buf \in [Slots -> Byte]
  BY <1>3 DEF Serial1Interrupt, TypeOK
<1>8. ASSUME NEW k \in 1 .. Used
      PROVE  Unread'[k] = Unread[k]
  <2>1. k - 1 \in 0 .. (Size - 1) /\ k - 1 # Used /\ k \in 1 .. Used'
    BY <1>3, <1>4, SizeAssumption
  <2>2. Slot(k - 1) \in Slots /\ Slot(k - 1) # Slot(Used)
    BY <2>1, <1>3
  <2>3. buf'[Slot(k - 1)] = buf[Slot(k - 1)]
    BY <2>2, <1>7
  <2> QED
    BY <2>1, <2>3, <1>2, <1>6 DEF Unread
<1>9. ASSUME Used < Size - 1, Used' = Used + 1
      PROVE  Unread'[Used + 1] = b
  <2>1. Used + 1 \in 1 .. Used' /\ (Used + 1) - 1 = Used
    BY <1>3, <1>9, SizeAssumption
  <2>2. buf'[Slot(Used)] = b
    BY <1>3, <1>7
  <2> QED
    BY <2>1, <2>2, <1>2, <1>3, <1>6
<1> QED
  BY <1>2, <1>4, <1>8, <1>9

(* A step that leaves the ring alone leaves its meaning alone.             *)
LEMMA RingUnchanged ==
    ASSUME UNCHANGED shared
    PROVE  /\ Used' = Used
           /\ Unread' = Unread
           /\ \A k \in 0 .. (Size - 1) : Slot(k)' = Slot(k)
  BY DEF shared, Used, Unread, Slot

(* CopyInOrder is inductive relative to TypeOK.                            *)
LEMMA CopyStep == IInv /\ [Next]_vars => CopyInOrder'
<1> SUFFICES ASSUME TypeOK, CopyInOrder, [Next]_vars
             PROVE  CopyInOrder'
  BY DEF IInv
<1>1. ASSUME NEW b \in Byte, Serial1Interrupt(b)
      PROVE  CopyInOrder'
  <2> SUFFICES ASSUME Reading
               PROVE  CopyInOrder'
    BY <1>1 DEF CopyInOrder, Reading, Serial1Interrupt, reader
  <2>1. UNCHANGED <<pc, want, n, result>>
    BY <1>1 DEF Serial1Interrupt, reader
  <2>2. /\ Used \in 0 .. (Size - 1)
        /\ Used' = Used \/ Used' = Used + 1
        /\ \A k \in 1 .. Used : Unread'[k] = Unread[k]
        /\ \A k \in 0 .. (Size - 1) : Slot(k)' = Slot(k)
    BY <1>1, InterruptStep, UsedType DEF TypeOK
  <2>3. Len(result) \in Nat /\ want \in Nat
    BY SizeAssumption, LenProperties DEF TypeOK
  <2>4. Len(result) \in 0 .. (Size - 1) /\ want <= Used'
    BY <2>2, <2>3, SizeAssumption DEF CopyInOrder
  <2>5. \A k \in 1 .. Len(result) : result[k] = Unread'[k]
    BY <2>2, <2>3, SizeAssumption DEF CopyInOrder
  <2> QED
    BY <2>1, <2>2, <2>4, <2>5 DEF CopyInOrder, Reading
<1>2. ASSUME NEW size \in {1, PacketSize}, Call(size)
      PROVE  CopyInOrder'
  BY <1>2 DEF Call, CopyInOrder, Reading
<1>3. CASE Poll
  <2>1. CASE GetSize(inPtr, outPtr) >= want
    <3>1. /\ pc' = "test" /\ n' = outPtr /\ result' = <<>> /\ want' = want
          /\ want <= Used /\ Slot(0) = outPtr /\ UNCHANGED shared
      BY <1>3, <2>1, UsedType, SizeAssumption DEF Poll, Used, TypeOK, GetSize, Slots
    <3>2. Used' = Used /\ Slot(0)' = Slot(0)
      BY <3>1, RingUnchanged, SizeAssumption
    <3>3. want' \in Nat
      BY <3>1, SizeAssumption DEF TypeOK
    <3> QED
      BY <3>1, <3>2, <3>3 DEF CopyInOrder, Reading
  <2>2. CASE ~(GetSize(inPtr, outPtr) >= want)
    BY <1>3, <2>2 DEF Poll, CopyInOrder, Reading
  <2> QED
    BY <2>1, <2>2
<1>4. CASE Test
  <2>1. UNCHANGED <<want, n, result>> /\ UNCHANGED shared /\ Reading
    BY <1>4 DEF Test, Reading
  <2>2. /\ Used' = Used /\ Unread' = Unread
        /\ \A k \in 0 .. (Size - 1) : Slot(k)' = Slot(k)
    BY <2>1, RingUnchanged
  <2>3. /\ Used \in 0 .. (Size - 1) /\ Slot(Used) = inPtr
        /\ \A j, k \in 0 .. (Size - 1) : Slot(j) = Slot(k) => j = k
    BY UsedType DEF TypeOK
  <2>4. Len(result) \in Nat /\ want \in Nat
    BY SizeAssumption, LenProperties DEF TypeOK
  <2>5. Len(result) <= want /\ want <= Used /\ n = Slot(Len(result))
    BY <2>1 DEF CopyInOrder
  <2>6. Len(result) < want => n # inPtr
    BY <2>3, <2>4, <2>5, SizeAssumption
  <2>7. pc' = IF Len(result) < want THEN "copy" ELSE "commit"
    BY <1>4, <2>6 DEF Test
  <2>8. Slot(Len(result))' = Slot(Len(result))
    BY <2>1, <2>2, <2>3, <2>4, <2>5, SizeAssumption
  <2> QED
    BY <2>1, <2>2, <2>4, <2>5, <2>7, <2>8 DEF CopyInOrder, Reading
<1>5. CASE Copy
  <2>1. /\ UNCHANGED want /\ UNCHANGED shared /\ Reading /\ pc' = "test"
        /\ result' = Append(result, buf[n]) /\ n' = Succ(n)
    BY <1>5 DEF Copy, Reading
  <2>2. /\ Used' = Used /\ Unread' = Unread
        /\ \A k \in 0 .. (Size - 1) : Slot(k)' = Slot(k)
    BY <2>1, RingUnchanged
  <2>3. /\ Used \in 0 .. (Size - 1)
        /\ \A k \in 0 .. (Size - 2) : Slot(k + 1) = Succ(Slot(k))
    BY UsedType DEF TypeOK
  <2>4. Len(result) \in Nat /\ want \in Nat
    BY SizeAssumption, LenProperties DEF TypeOK
  <2>5. Len(result) < want /\ want <= Used /\ n = Slot(Len(result))
    BY <1>5, <2>1 DEF CopyInOrder, Copy
  <2>6. buf[n] \in Byte /\ result \in Seq(Byte)
    BY DEF TypeOK
  <2>7. Len(result') = Len(result) + 1
    BY <2>1, <2>6
  <2>8. n' = Slot(Len(result))'
    <3>1. n' = Slot(Len(result) + 1)
      BY <2>1, <2>3, <2>4, <2>5, SizeAssumption
    <3>2. outPtr' = outPtr
      BY <2>1 DEF shared
    <3> QED
      BY <3>1, <3>2, <2>7 DEF Slot
  <2>9. ASSUME NEW k \in 1 .. Len(result')
        PROVE  result'[k] = Unread'[k]
    <3>1. CASE k = Len(result) + 1
      <4>1. result'[k] = buf[n]
        BY <3>1, <2>1, <2>6
      <4>2. k \in 1 .. Used /\ k - 1 = Len(result)
        BY <3>1, <2>3, <2>4, <2>5
      <4>3. Unread[k] = buf[Slot(Len(result))]
        BY <4>2, UnreadType DEF UnreadFacts
      <4> QED
        BY <4>1, <4>3, <2>2, <2>5
    <3>2. CASE k # Len(result) + 1
      <4>1. k \in 1 .. Len(result)
        BY <3>2, <2>4, <2>7
      <4>2. result'[k] = result[k]
        BY <4>1, <2>1, <2>6
      <4>3. result[k] = Unread[k]
        BY <4>1, <2>1 DEF CopyInOrder
      <4> QED
        BY <4>2, <4>3, <2>2
    <3> QED
      BY <3>1, <3>2
  <2> QED
    BY <2>1, <2>2, <2>3, <2>4, <2>5, <2>7, <2>8, <2>9 DEF CopyInOrder, Reading
<1>6. CASE Commit
  BY <1>6 DEF Commit, CopyInOrder, Reading
<1>7. CASE UNCHANGED vars
  BY <1>7 DEF vars, CopyInOrder, Reading, Used, Unread, Slot, GetSize
<1> QED
  BY <1>1, <1>2, <1>3, <1>4, <1>5, <1>6, <1>7 DEF Next, Reader

(* A dequeue interrupted at any point, any number of times, still copies   *)
(* the oldest unread bytes in order, and never comes up short of the count *)
(* its caller tested.                                                      *)
THEOREM DequeueInOrder == Spec => []CopyInOrder
<1>1. Init => IInv
  BY SizeAssumption DEF Init, IInv, TypeOK, Slots, CopyInOrder, Reading
<1>2. IInv /\ [Next]_vars => IInv'
  BY TypeStep, CopyStep DEF IInv
<1>3. IInv => CopyInOrder
  BY DEF IInv
<1> QED
  BY <1>1, <1>2, <1>3, PTL DEF Spec

(* UARTgetpacket hands over a whole packet, Serial1Read a whole byte.      *)
THEOREM RequestsAreWhole == Spec => WholeRequest
<1>1. Init => IInv
  BY SizeAssumption DEF Init, IInv, TypeOK, Slots, CopyInOrder, Reading
<1>2. IInv /\ [Next]_vars => IInv'
  BY TypeStep, CopyStep DEF IInv
<1>3. IInv /\ [Next]_vars => [taken' # taken => Len(taken') = want]_taken
  BY DEF IInv, CopyInOrder, Reading, Next, vars, Reader, Serial1Interrupt,
         reader, Call, Poll, Test, Copy, Commit
<1> QED
  BY <1>1, <1>2, <1>3, PTL DEF Spec, WholeRequest
-----------------------------------------------------------------------------
(* The refinement: an interrupt puts a byte or drops it, a commit takes    *)
(* the bytes of the request, and every other step changes nothing.         *)

LEMMA InterruptPuts ==
    ASSUME TypeOK, NEW b \in Byte, Serial1Interrupt(b)
    PROVE  Queue!Put(b) \/ UNCHANGED Queue!qvars
<1>1. /\ \/ Used = Size - 1 /\ Used' = Used
         \/ Used < Size - 1 /\ Used' = Used + 1 /\ Unread'[Used + 1] = b
      /\ \A k \in 1 .. Used : Unread'[k] = Unread[k]
  BY InterruptStep
<1>2. TypeOK'
  BY TypeStep DEF Next
<1>3. Unread \in Seq(Byte) /\ Len(Unread) = Used
  BY UnreadType DEF UnreadFacts
<1>4. Unread' \in Seq(Byte) /\ Len(Unread') = Used'
  BY <1>2, UnreadTypeNext DEF UnreadFacts
<1>5. taken' = taken
  BY DEF Serial1Interrupt, reader
<1>6. CASE Used = Size - 1 /\ Used' = Used
  <2>1. Unread' = Unread
    BY <1>1, <1>3, <1>4, <1>6, SeqEqual
  <2> QED
    BY <2>1, <1>5 DEF Queue!qvars
<1>7. CASE Used < Size - 1 /\ Used' = Used + 1 /\ Unread'[Used + 1] = b
  <2>1. Used \in Nat
    BY <1>3, LenProperties
  <2>2. /\ Append(Unread, b) \in Seq(Byte)
        /\ Len(Append(Unread, b)) = Used + 1
        /\ \A k \in 1 .. Used : Append(Unread, b)[k] = Unread[k]
        /\ Append(Unread, b)[Used + 1] = b
    BY <1>3
  <2>3. \A k \in 1 .. (Used + 1) : Unread'[k] = Append(Unread, b)[k]
    BY <1>1, <1>7, <2>1, <2>2
  <2>4. Unread' = Append(Unread, b)
    BY <1>4, <1>7, <2>2, <2>3, SeqEqual
  <2> QED
    BY <2>4, <1>3, <1>5, <1>7 DEF Queue!Put
<1> QED
  BY <1>1, <1>6, <1>7

LEMMA CommitTakes ==
    ASSUME TypeOK, CopyInOrder, Commit
    PROVE  Queue!Take(want) /\ want \in 1 .. Len(Unread)
<1>1. /\ Len(result) = want /\ want <= Used /\ n = Slot(want)
      /\ \A k \in 1 .. want : result[k] = Unread[k]
  BY DEF Commit, CopyInOrder, Reading
<1>2. /\ Unread \in Seq(Byte) /\ Len(Unread) = Used
      /\ \A k \in 1 .. Used : Unread[k] = buf[Slot(k - 1)]
  BY UnreadType DEF UnreadFacts
<1>3. want \in 1 .. (Size - 1) /\ Used \in 0 .. (Size - 1)
  BY SizeAssumption, UsedType DEF TypeOK
<1>4. /\ \A i \in 1 .. want : Unread[i] \in Byte
      /\ \A i \in (want + 1) .. Used : Unread[i] \in Byte
  BY <1>1, <1>2, <1>3, ElementOfSeq
<1>5. SubSeq(Unread, 1, want) = result
  <2>1. /\ SubSeq(Unread, 1, want) \in Seq(Byte)
        /\ Len(SubSeq(Unread, 1, want)) = want
        /\ \A i \in 1 .. want : SubSeq(Unread, 1, want)[i] = Unread[i]
    BY <1>3, <1>4, SubSeqProperties
  <2>2. result \in Seq(Byte)
    BY DEF TypeOK
  <2> QED
    BY <1>1, <2>1, <2>2, SeqEqual
<1>6. outPtr' = Slot(want) /\ inPtr' = inPtr /\ buf' = buf
  BY <1>1 DEF Commit
<1>7. Used' = Used - want
  BY <1>1, <1>3, <1>6, SizeAssumption DEF Used, GetSize, Slot, TypeOK, Slots
<1>8. /\ TypeOK'
      /\ Unread' \in Seq(Byte) /\ Len(Unread') = Used'
      /\ \A k \in 1 .. Used' : Unread'[k] = buf'[Slot(k - 1)']
  <2>1. TypeOK'
    BY TypeStep DEF Next, Reader
  <2> QED
    BY <2>1, UnreadTypeNext DEF UnreadFacts
<1>9. ASSUME NEW k \in 1 .. (Used - want)
      PROVE  Unread'[k] = Unread[want + k]
  <2>1. k \in 1 .. Used' /\ want + k \in 1 .. Used
    BY <1>3, <1>7
  <2>2. Slot(k - 1)' = Slot((want + k) - 1)
    BY <1>3, <1>6, <2>1, SizeAssumption DEF Slot, TypeOK, Slots
  <2> QED
    BY <1>2, <1>6, <1>8, <2>1, <2>2
<1>10. SubSeq(Unread, want + 1, Used) = Unread'
  <2> DEFINE rest == SubSeq(Unread, want + 1, Used)
  <2>1. /\ rest \in Seq(Byte)
        /\ Len(rest) = IF want + 1 <= Used THEN Used - (want + 1) + 1 ELSE 0
        /\ \A i \in 1 .. (Used - (want + 1) + 1) : rest[i] = Unread[(want + 1) + i - 1]
    BY <1>3, <1>4, SubSeqProperties
  <2>2. Len(rest) = Used - want
    BY <1>1, <1>3, <2>1
  <2>3. \A i \in 1 .. (Used - want) : rest[i] = Unread[want + i]
    BY <1>3, <2>1
  <2> HIDE DEF rest
  <2>4. rest = Unread'
    BY <1>7, <1>8, <1>9, <2>1, <2>2, <2>3, SeqEqual
  <2> QED
    BY <2>4 DEF rest
<1> QED
  BY <1>1, <1>2, <1>3, <1>5, <1>10 DEF Queue!Take, Commit

(* The interrupt-driven ring buffer implements the bounded first-in        *)
(* first-out queue of capacity Size - 1.                                   *)
THEOREM RingImplementsQueue == Spec => ImplementsQueue
<1>1. Init => IInv
  BY SizeAssumption DEF Init, IInv, TypeOK, Slots, CopyInOrder, Reading
<1>2. IInv /\ [Next]_vars => IInv'
  BY TypeStep, CopyStep DEF IInv
<1>3. Init => Queue!QInit
  BY DEF Init, Queue!QInit, Unread, Used, GetSize
<1>4. IInv /\ [Next]_vars => [Queue!QNext]_(Queue!qvars)
  <2> SUFFICES ASSUME TypeOK, CopyInOrder, [Next]_vars
               PROVE  [Queue!QNext]_(Queue!qvars)
    BY DEF IInv
  <2>1. ASSUME NEW b \in Byte, Serial1Interrupt(b)
        PROVE  [Queue!QNext]_(Queue!qvars)
    BY <2>1, InterruptPuts DEF Queue!QNext
  <2>2. CASE Commit
    BY <2>2, CommitTakes DEF Queue!QNext
  <2>3. CASE UNCHANGED shared /\ UNCHANGED taken
    BY <2>3, RingUnchanged DEF Queue!qvars
  <2> QED
    BY <2>1, <2>2, <2>3
       DEF Next, Reader, Call, Poll, Test, Copy, vars, shared
<1> QED
  BY <1>1, <1>2, <1>3, <1>4, PTL DEF Spec, ImplementsQueue, Queue!QSpec
=============================================================================
