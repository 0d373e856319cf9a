------------------------------ MODULE UartFifo ------------------------------
(***************************************************************************)
(* The receive path of the UART boot loader: the ring buffer of fifo.c,    *)
(* filled by the receive interrupt Serial1Interrupt and emptied by the     *)
(* main program through Serial1GetKey and UARTgetpacket (serial.c).        *)
(*                                                                         *)
(* There is no lock.  The interrupt handler runs to completion, so         *)
(* FIFO_enqueue is one step; it may run between any two memory accesses of *)
(* the main program, so FIFO_getsize and FIFO_dequeue are several steps,   *)
(* each of which reads or writes the shared structure at most once.  The   *)
(* main program's locals n, i and result of FIFO_dequeue are the variables *)
(* n and result (i is Len(result)).                                        *)
(***************************************************************************)
EXTENDS Naturals, Sequences

CONSTANTS
    Byte,         \* the values a received byte can have
    Size,         \* the number of slots of the ring buffer (FIFO_SIZE)
    PacketSize    \* the size UARTmonit asks UARTgetpacket for (PACKET_SIZE)

(* A ring of Size slots holds Size - 1 bytes: a packet must fit, or        *)
(* UARTmonit would poll for ever.                                          *)
ASSUME SizeAssumption ==
    /\ Size \in Nat \ {0, 1}
    /\ PacketSize \in 1 .. (Size - 1)

ASSUME ByteAssumption == Byte # {}

VARIABLES
    buf, inPtr, outPtr,   \* the shared structure FIFO
    pc,                   \* where the main program is
    want,                 \* the number of bytes the current call asks for
    n, result,            \* FIFO_dequeue's locals
    taken                 \* what the last completed FIFO_dequeue returned

shared == <<buf, inPtr, outPtr>>
reader == <<pc, want, n, result, taken>>
vars   == <<buf, inPtr, outPtr, pc, want, n, result, taken>>

Slots == 0 .. (Size - 1)

(* Faulty: the pointer wraps one slot too late.                            *)
SuccOffByOne(p) == IF p >= Size THEN 0 ELSE p + 1

(* n++; if (n >= queue->size) n = 0;                                       *)
Succ(p) == IF p + 1 >= Size THEN 0 ELSE p + 1

(* FIFO_getsize, on a value of inPtr and of outPtr.                        *)
GetSize(in, out) == IF in < out THEN in + Size - out ELSE in - out

(* FIFO_init: SerialConfigure runs it before the interrupt is enabled.     *)
(* What the array holds before is of no consequence, any value will do.    *)
Init ==
    /\ buf \in [Slots -> Byte]
    /\ inPtr = 0
    /\ outPtr = 0
    /\ pc = "call"
    /\ want = 1
    /\ n = 0
    /\ result = <<>>
    /\ taken = <<>>

-----------------------------------------------------------------------------
(* Faulty: the pointer moves although the ring is full.                    *)
Serial1InterruptUnchecked(b) ==
    /\ buf' = [buf EXCEPT ![inPtr] = b]
    /\ inPtr' = Succ(inPtr)
    /\ UNCHANGED <<outPtr, reader>>

(* The interrupt handler: FIFO_enqueue of the one byte it read.  The slot  *)
(* is written first; the pointer moves only if it does not catch up with   *)
(* outPtr, and the handler ignores the return value.                       *)
Serial1Interrupt(b) ==
    /\ buf' = [buf EXCEPT ![inPtr] = b]
    /\ inPtr' = IF Succ(inPtr) = outPtr THEN inPtr ELSE Succ(inPtr)
    /\ UNCHANGED <<outPtr, reader>>

-----------------------------------------------------------------------------
(* The main program calls Serial1GetKey (one byte) or UARTgetpacket (a     *)
(* packet); both poll FIFO_getsize until enough bytes are there.           *)
Call(size) ==
    /\ pc = "call"
    /\ want' = size
    /\ pc' = "poll"
    /\ UNCHANGED <<shared, n, result, taken>>

(* Faulty: any byte will do for a packet.                                  *)
PollAny ==
    /\ pc = "poll"
    /\ IF GetSize(inPtr, outPtr) >= 1
       THEN /\ pc' = "test"
            /\ n' = outPtr
            /\ result' = <<>>
       ELSE UNCHANGED <<pc, n, result>>
    /\ UNCHANGED <<shared, want, taken>>

(* Faulty: waits for one byte more than it was asked for.                  *)
PollMore ==
    /\ pc = "poll"
    /\ IF GetSize(inPtr, outPtr) > want
       THEN /\ pc' = "test"
            /\ n' = outPtr
            /\ result' = <<>>
       ELSE UNCHANGED <<pc, n, result>>
    /\ UNCHANGED <<shared, want, taken>>

(* FIFO_getsize reads inPtr once; with enough bytes FIFO_dequeue starts    *)
(* from its own copy of outPtr.                                            *)
Poll ==
    /\ pc = "poll"
    /\ IF GetSize(inPtr, outPtr) >= want
       THEN /\ pc' = "test"
            /\ n' = outPtr
            /\ result' = <<>>
       ELSE UNCHANGED <<pc, n, result>>
    /\ UNCHANGED <<shared, want, taken>>

(* The head of FIFO_dequeue's loop: size reached, or caught up with the    *)
(* producer.                                                               *)
Test ==
    /\ pc = "test"
    /\ pc' = IF Len(result) < want /\ n # inPtr THEN "copy" ELSE "commit"
    /\ UNCHANGED <<shared, want, n, result, taken>>

(* Faulty: each slot is given back before the whole request is copied.     *)
CopyReleasing ==
    /\ pc = "copy"
    /\ result' = Append(result, buf[n])
    /\ n' = Succ(n)
    /\ outPtr' = Succ(n)
    /\ pc' = "test"
    /\ UNCHANGED <<buf, inPtr, want, taken>>

(* result[i] = queue->buf[n], and n moves on.                              *)
Copy ==
    /\ pc = "copy"
    /\ result' = Append(result, buf[n])
    /\ n' = Succ(n)
    /\ pc' = "test"
    /\ UNCHANGED <<shared, want, taken>>

(* queue->outPtr = n: only now may the producer reuse the slots.           *)
Commit ==
    /\ pc = "commit"
    /\ outPtr' = n
    /\ taken' = result
    /\ result' = <<>>
    /\ pc' = "call"
    /\ UNCHANGED <<buf, inPtr, want, n>>

Reader == Poll \/ Test \/ Copy \/ Commit

Next ==
    \/ \E b \in Byte : Serial1Interrupt(b)
    \/ \E size \in {1, PacketSize} : Call(size)
    \/ Reader

Spec == Init /\ [][Next]_vars

(* The main program runs whenever the handler does not.                    *)
FairSpec == Spec /\ WF_vars(Reader)
-----------------------------------------------------------------------------
TypeOK ==
    /\ buf \in [Slots -> Byte]
    /\ inPtr \in Slots
    /\ outPtr \in Slots
    /\ pc \in {"call", "poll", "test", "copy", "commit"}
    /\ want \in {1, PacketSize}
    /\ n \in Slots
    /\ result \in Seq(Byte)
    /\ taken \in Seq(Byte)

Used == GetSize(inPtr, outPtr)

(* The slot k places after outPtr.                                         *)
Slot(k) == IF outPtr + k >= Size THEN outPtr + k - Size ELSE outPtr + k

(* The unread bytes, oldest first: what the ring stands for.               *)
Unread == [k \in 1 .. Used |-> buf[Slot(k - 1)]]

(* FIFO_dequeue in progress has copied exactly the oldest unread bytes,    *)
(* whatever the interrupt handler stored meanwhile, and will not come up   *)
(* short of what its caller saw available.                                 *)
Reading == pc \in {"test", "copy", "commit"}

CopyInOrder ==
    Reading =>
        /\ Len(result) <= want
        /\ want <= Used
        /\ n = Slot(Len(result))
        /\ \A k \in 1 .. Len(result) : result[k] = Unread[k]
        /\ pc = "copy"   => Len(result) < want
        /\ pc = "commit" => Len(result) = want

(* UARTgetpacket and Serial1Read assume that FIFO_dequeue returns all the  *)
(* bytes they asked for: a packet is never handed over in part (serial.c,  *)
(* lines 228-231 and 267-270, test the count first and ignore the result). *)
WholeRequest == [][taken' # taken => Len(taken') = want]_taken

(* The interrupt-driven ring implements the bounded queue: bytes come out  *)
(* in the order they came in, none twice, none overwritten before it is    *)
(* read, and a byte is dropped only when Size - 1 bytes are unread.        *)
Queue == INSTANCE ByteQueue WITH queue <- Unread, Capacity <- Size - 1
ImplementsQueue == Queue!QSpec

(* When enough bytes are there, the caller gets them, however many more    *)
(* interrupts come.                                                        *)
EnoughIsServed == (pc = "poll" /\ Used >= want) ~> (pc = "call")
=============================================================================
