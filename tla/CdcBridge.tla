----------------------------- MODULE CdcBridge ------------------------------
(***************************************************************************)
(* cdcserial2: a USB serial adapter.  One main loop calls USBDeviceTasks   *)
(* and ProcessIO in turn; beside it the receive interrupt fills the ring   *)
(* rx_fifo, the transmitter shifts a byte out and the USB hardware moves   *)
(* packets between the endpoint buffers and the host, at any time.  The    *)
(* loop is a step for each part of ProcessIO.                              *)
(*                                                                         *)
(* The ring is the one of UartFifo and is taken here for the queue that    *)
(* module shows it to be.  The two bulk endpoints and the CDC driver       *)
(* between them and ProcessIO are Microchip's and modelled from their use. *)
(***************************************************************************)
EXTENDS Naturals, Sequences

CONSTANTS
    Byte,          \* the values of a byte
    Zero,          \* the byte 0
    RingSize,      \* slots of rx_fifo (FIFO_SIZE, 256)
    CharRange,     \* the values of a char (256)
    EpSize,        \* CDC_DATA_OUT_EP_SIZE and CDC_DATA_IN_EP_SIZE (64)
    Scenes         \* [down, up : the bytes the host and the line send,
                   \*  resets, naps : how often the bus is reset, suspended]

ASSUME ByteAssumption == Zero \in Byte
ASSUME SizeAssumption ==
    /\ RingSize \in Nat \ {0, 1}
    /\ CharRange \in Nat /\ CharRange >= RingSize
    /\ EpSize \in Nat \ {0, 1}
ASSUME ScenesAssumption ==
    \A s \in Scenes :
        /\ s.down \subseteq Byte /\ s.up \subseteq Byte
        /\ s.resets \in Nat /\ s.naps \in Nat

VARIABLES
    scene, resets, naps,                    \* the circumstances
    usb,                                    \* USBDeviceState, USBSuspendControl
    pc,                                     \* where the main loop is
    ring,                                   \* the unread bytes of rx_fifo
    trmt, sent,                             \* U2STA.TRMT, the byte sent last
    outBusy, outData,                       \* the OUT endpoint and its packet
    RS232_Out_Data, LastRS232Out, RS232cp, RS232_Out_Data_Rdy,
    USB_Out_Buffer, NextUSBOut,
    cdc_trf_state, cdc_tx_len,              \* the CDC driver's transmission
    inBusy, inData, collected               \* the IN endpoint, and what the
                                            \* host collected last

world == <<scene, resets, naps>>
out   == <<outBusy, outData>>
down  == <<RS232_Out_Data, LastRS232Out, RS232cp, RS232_Out_Data_Rdy>>
up    == <<USB_Out_Buffer, NextUSBOut>>
cdc   == <<cdc_trf_state, cdc_tx_len>>
in    == <<inBusy, inData, collected>>
vars  == <<scene, resets, naps, usb, pc, ring, trmt, sent, outBusy, outData,
           RS232_Out_Data, LastRS232Out, RS232cp, RS232_Out_Data_Rdy,
           USB_Out_Buffer, NextUSBOut, cdc_trf_state, cdc_tx_len, inBusy, inData,
           collected>>

Positions == 0 .. (EpSize - 1)

(* InitializeSystem: UserInit, UART2Init and the statics.                  *)
Init ==
    /\ scene \in Scenes /\ resets = 0 /\ naps = 0
    /\ usb = "detached" /\ pc = "tasks"
    /\ ring = <<>> /\ trmt = TRUE /\ sent = <<>>
    /\ outBusy = FALSE /\ outData = <<>>
    /\ RS232_Out_Data = [i \in Positions |-> Zero]
    /\ LastRS232Out = 0 /\ RS232cp = 0 /\ RS232_Out_Data_Rdy = FALSE
    /\ USB_Out_Buffer = [i \in Positions |-> Zero]
    /\ NextUSBOut = 0
    /\ cdc_trf_state = "ready" /\ cdc_tx_len = 0
    /\ inBusy = FALSE /\ inData = <<>> /\ collected = <<>>
-----------------------------------------------------------------------------
(* The UART.  A byte that finds the ring full is dropped (FIFO_enqueue).   *)
Serial2Interrupt(b) ==
    /\ ring' = IF Len(ring) < RingSize - 1 THEN Append(ring, b) ELSE ring
    /\ UNCHANGED <<world, usb, pc, trmt, sent, out, down, up, cdc, in>>

(* The transmitter has shifted its byte out.                               *)
Shifted ==
    /\ ~trmt
    /\ trmt' = TRUE
    /\ UNCHANGED <<world, usb, pc, ring, sent, out, down, up, cdc, in>>

(* The host sends a packet, full, short or empty, to an armed endpoint; to *)
(* one that is not it has to repeat it (NAK).                              *)
Packets == UNION {[1 .. k -> scene.down] : k \in 0 .. EpSize}

HostSends ==
    /\ usb = "configured" /\ outBusy
    /\ outData' \in Packets
    /\ outBusy' = FALSE
    /\ UNCHANGED <<world, usb, pc, ring, trmt, sent, down, up, cdc, in>>

HostCollects ==
    /\ usb = "configured" /\ inBusy
    /\ inBusy' = FALSE /\ inData' = <<>> /\ collected' = inData
    /\ UNCHANGED <<world, usb, pc, ring, trmt, sent, out, down, up, cdc>>
-----------------------------------------------------------------------------
(* USBDeviceTasks notices what happens on the bus.  A reset ends all       *)
(* transfers; USBCBInitEP, when the host configures the device, arms the   *)
(* OUT endpoint and starts the CDC driver afresh (CDCInitEP), but tells    *)
(* ProcessIO nothing.                                                      *)
Reset ==
    /\ pc = "tasks" /\ usb # "detached"
    /\ resets < scene.resets
    /\ resets' = resets + 1
    /\ usb' = "detached"
    /\ outBusy' = FALSE /\ outData' = <<>>
    /\ inBusy' = FALSE /\ inData' = <<>>
    /\ UNCHANGED <<scene, naps, pc, ring, trmt, sent, down, up, cdc, collected>>

Configure ==
    /\ pc = "tasks" /\ usb = "detached"
    /\ usb' = "configured"
    /\ outBusy' = TRUE
    /\ cdc_trf_state' = "ready" /\ cdc_tx_len' = 0
    /\ UNCHANGED <<world, pc, ring, trmt, sent, outData, down, up, in>>

Suspend ==
    /\ pc = "tasks" /\ usb = "configured"
    /\ naps < scene.naps
    /\ naps' = naps + 1
    /\ usb' = "suspended"
    /\ UNCHANGED <<scene, resets, pc, ring, trmt, sent, out, down, up, cdc, in>>

Resume ==
    /\ pc = "tasks" /\ usb = "suspended"
    /\ usb' = "configured"
    /\ UNCHANGED <<world, pc, ring, trmt, sent, out, down, up, cdc, in>>

(* ProcessIO is entered, and left at once unless configured and awake.     *)
Enter ==
    /\ pc = "tasks"
    /\ pc' = IF usb = "configured" THEN "read" ELSE "tasks"
    /\ UNCHANGED <<world, usb, ring, trmt, sent, out, down, up, cdc, in>>
-----------------------------------------------------------------------------
(* Faulty: the buffer is filled again whether or not it has been sent.     *)
ReadPacketAlways ==
    /\ pc = "read"
    /\ pc' = "send"
    /\ IF ~outBusy
       THEN /\ RS232_Out_Data' = [i \in Positions |->
                   IF i < Len(outData) THEN outData[i + 1] ELSE RS232_Out_Data[i]]
            /\ LastRS232Out' = Len(outData)
            /\ outBusy' = TRUE /\ outData' = <<>>
            /\ RS232_Out_Data_Rdy' = (LastRS232Out' > 0)
            /\ RS232cp' = IF LastRS232Out' > 0 THEN 0 ELSE RS232cp
       ELSE UNCHANGED <<out, down>>
    /\ UNCHANGED <<world, usb, ring, trmt, sent, up, cdc, in>>

(* With the RS232 buffer empty getsUSBUSART hands over the packet that has *)
(* arrived, if one has, and arms the endpoint for the next.                *)
ReadPacket ==
    /\ pc = "read"
    /\ pc' = "send"
    /\ IF RS232_Out_Data_Rdy
       THEN UNCHANGED <<out, down>>
       ELSE /\ RS232_Out_Data' = [i \in Positions |->
                   IF i < Len(outData) THEN outData[i + 1] ELSE RS232_Out_Data[i]]
            /\ LastRS232Out' = Len(outData)
            /\ outBusy' = TRUE /\ outData' = <<>>
            /\ RS232_Out_Data_Rdy' = (LastRS232Out' > 0)
            /\ RS232cp' = IF LastRS232Out' > 0 THEN 0 ELSE RS232cp
    /\ UNCHANGED <<world, usb, ring, trmt, sent, up, cdc, in>>

(* One byte to the transmitter, if that is idle.                           *)
SendByte ==
    /\ pc = "send"
    /\ pc' = "receive"
    /\ IF RS232_Out_Data_Rdy /\ trmt
       THEN /\ sent' = <<RS232_Out_Data[RS232cp]>>
            /\ trmt' = FALSE
            /\ RS232cp' = RS232cp + 1
            /\ RS232_Out_Data_Rdy' = (RS232cp' # LastRS232Out)
       ELSE UNCHANGED <<sent, trmt, RS232cp, RS232_Out_Data_Rdy>>
    /\ UNCHANGED <<world, usb, ring, out, RS232_Out_Data, LastRS232Out, up, cdc, in>>

(* Faulty: the number is cut to fewer values than it can have.             *)
IsPressedNarrow == Len(ring) % (RingSize - 1) # 0

(* UART2IsPressed: the number of unread bytes, as a char.                  *)
UART2IsPressed == Len(ring) % CharRange # 0

(* Faulty: no room is kept for the end mark, or for a short packet.        *)
ReceiveToTheLast ==
    /\ pc = "receive"
    /\ pc' = "hand"
    /\ IF UART2IsPressed /\ NextUSBOut < EpSize
       THEN /\ USB_Out_Buffer' = [i \in Positions |->
                   IF i = NextUSBOut THEN Head(ring)
                   ELSE IF i = NextUSBOut + 1 THEN Zero
                   ELSE USB_Out_Buffer[i]]
            /\ NextUSBOut' = NextUSBOut + 1
            /\ ring' = Tail(ring)
       ELSE UNCHANGED <<up, ring>>
    /\ UNCHANGED <<world, usb, trmt, sent, out, down, cdc, in>>

(* One byte from the ring, and the end mark behind it.  The interrupt only *)
(* adds to the ring, so the byte that was seen is still there.             *)
ReceiveByte ==
    /\ pc = "receive"
    /\ pc' = "hand"
    /\ IF UART2IsPressed /\ NextUSBOut < EpSize - 1
       THEN /\ USB_Out_Buffer' = [USB_Out_Buffer EXCEPT ![NextUSBOut] = Head(ring),
                                                        ![NextUSBOut + 1] = Zero]
            /\ NextUSBOut' = NextUSBOut + 1
            /\ ring' = Tail(ring)
       ELSE UNCHANGED <<up, ring>>
    /\ UNCHANGED <<world, usb, trmt, sent, out, down, cdc, in>>

(* Faulty: the CDC driver is not asked whether it is ready.                *)
HandOverUnasked ==
    /\ pc = "hand"
    /\ pc' = "service"
    /\ IF NextUSBOut > 0
       THEN /\ cdc_trf_state' = "busy"
            /\ cdc_tx_len' = NextUSBOut
            /\ NextUSBOut' = 0
       ELSE UNCHANGED <<cdc, NextUSBOut>>
    /\ UNCHANGED <<world, usb, ring, trmt, sent, out, down, USB_Out_Buffer, in>>

(* putUSBUSART does not copy: the driver keeps the address of              *)
(* USB_Out_Buffer and the length, and ProcessIO begins to fill it anew.    *)
HandOver ==
    /\ pc = "hand"
    /\ pc' = "service"
    /\ IF cdc_trf_state = "ready" /\ NextUSBOut > 0
       THEN /\ cdc_trf_state' = "busy"
            /\ cdc_tx_len' = NextUSBOut
            /\ NextUSBOut' = 0
       ELSE UNCHANGED <<cdc, NextUSBOut>>
    /\ UNCHANGED <<world, usb, ring, trmt, sent, out, down, USB_Out_Buffer, in>>

Bytes(buffer, from, to) == [k \in 1 .. (to - from) |-> buffer[from + k - 1]]

(* CDCTxService: with the IN endpoint free, what was handed over goes into *)
(* it; once that has been collected the driver is ready for more.          *)
CDCTxService ==
    /\ pc = "service"
    /\ pc' = "tasks"
    /\ IF inBusy
       THEN UNCHANGED <<cdc, inBusy, inData>>
       ELSE IF cdc_trf_state = "busy"
       THEN /\ inData' = Bytes(USB_Out_Buffer, 0, cdc_tx_len)
            /\ inBusy' = TRUE
            /\ cdc_trf_state' = "completing"
            /\ cdc_tx_len' = 0
       ELSE /\ cdc_trf_state' = "ready"
            /\ UNCHANGED <<inBusy, inData, cdc_tx_len>>
    /\ UNCHANGED <<world, usb, ring, trmt, sent, out, down, up, collected>>

Loop == Enter \/ ReadPacket \/ SendByte \/ ReceiveByte \/ HandOver \/ CDCTxService

Next ==
    \/ \E b \in scene.up : Serial2Interrupt(b)
    \/ Shifted
    \/ HostSends
    \/ HostCollects
    \/ Reset
    \/ Configure
    \/ Suspend
    \/ Resume
    \/ Loop

Spec == Init /\ [][Next]_vars

(* The loop never waits; the transmitter finishes; the host configures the *)
(* device, ends a suspension and reads while its port is open.             *)
FairSpec ==
    /\ Spec
    /\ WF_vars(Loop) /\ WF_vars(Shifted)
    /\ WF_vars(HostCollects) /\ SF_vars(Configure) /\ SF_vars(Resume)
-----------------------------------------------------------------------------
Buffer == [Positions -> Byte]

TypeOK ==
    /\ usb \in {"detached", "configured", "suspended"}
    /\ pc \in {"tasks", "read", "send", "receive", "hand", "service"}
    /\ ring \in Seq(Byte) /\ Len(ring) < RingSize
    /\ trmt \in BOOLEAN /\ outBusy \in BOOLEAN /\ inBusy \in BOOLEAN
    /\ RS232_Out_Data \in Buffer /\ USB_Out_Buffer \in Buffer
    /\ LastRS232Out \in 0 .. EpSize /\ RS232cp \in 0 .. EpSize
    /\ RS232_Out_Data_Rdy \in BOOLEAN
    /\ NextUSBOut \in Positions /\ cdc_tx_len \in Positions
    /\ cdc_trf_state \in {"ready", "busy", "completing"}

(* putUSBUSART keeps only the address of USB_Out_Buffer, which ProcessIO   *)
(* writes to from its next pass on: what is handed over must be gone by    *)
(* the end of the same pass, although it can go only to a free endpoint.   *)
HandedOverAtOnce ==
    /\ cdc_trf_state = "ready" => ~inBusy
    /\ cdc_trf_state = "busy" => pc = "service" /\ ~inBusy /\ NextUSBOut = 0

(* From the host to the line (ProcessIO, getsUSBUSART): in order, each     *)
(* byte once, all of them, whatever the speeds; a reset of the bus costs   *)
(* at most a packet, the one in the endpoint.                              *)
ToLine ==
    (IF RS232_Out_Data_Rdy THEN Bytes(RS232_Out_Data, RS232cp, LastRS232Out) ELSE <<>>)
    \o outData
Down == INSTANCE BytePipe WITH Packet <- EpSize, pipe <- ToLine, out <- sent
ImplementsDown == Down!PSpec

(* From the line to the host (Serial2Interrupt, ProcessIO, putUSBUSART):   *)
(* what the ring has accepted reaches the host in order, each byte once,   *)
(* all of it, but for a packet that a reset of the bus may cost.           *)
ToHost ==
    inData
    \o (IF cdc_trf_state = "busy" THEN Bytes(USB_Out_Buffer, 0, cdc_tx_len) ELSE <<>>)
    \o Bytes(USB_Out_Buffer, 0, NextUSBOut)
    \o ring
Up == INSTANCE BytePipe WITH Packet <- EpSize, pipe <- ToHost, out <- collected
ImplementsUp == Up!PSpec
=============================================================================
