# TLA+ for ORANGEpico

Models, checks and proofs for the project's own code: the boot loaders of the
PIC32MX boards, the PC programs that talk to them, the USB serial adapter, and
the keyboard driver its interpreters run on. Sources are quoted as they lie
under `src/`; most comments in them are in Shift-JIS.

## 1. The system

| Component | Source | State | Operations | |
| --- | --- | --- | --- | --- |
| receive ring | `firmware/uart_bootloader/fifo.c`, `serial.c` | buffer, `inPtr`, `outPtr` | enqueue in the interrupt; `Serial1GetKey`, `UARTgetpacket` | modelled |
| UART boot monitor | `main.c`, `monit.c`, `NVMem.c` | where it waits, `PacketToPC`, the flash | key bytes, TEST, PEEK, POKE, PAGE_ERASE, PAGE_WRITE, FLASH_LOCK, JMP | modelled |
| boot decision | `main`, `reset_device` in `main.c` | BOOT_SW, RCON.SWR, a key in RAM | user's program or loader | modelled |
| flash writer (PC) | `hostpc/uartflash.c`, `util.c`, `usb-uart.c`, `rs232c.c` | image, options, flash size, verdict | probe, capabilities, erase, write, status, verify, read back, reboot, exit | partly |
| HID boot loader | `firmware/hid_bootloader/main.c`, `hidmon32/` (`mphidflash`) | command in work, pointer, words kept back, endpoint buffers | `BootApplication`, `WriteFlashSubBlock`; `flash_main`, `hexWrite` | partly |
| CDC bridge | `firmware/cdcserial2/` | USB and UART buffers, the CDC driver's transmission | `ProcessIO`, interrupt, endpoints | partly |
| PS/2 keyboard | `samples/PS2KBD_test/ps2keyb.c` (copied to femtoLisp, pForth, tinyBasic2, microPython) | bit counter, key queue, shift states, press table | sampling interrupt, `put_que`, `kbd_getcode`, `kbd_getchar` | modelled |
| read-back cache (PC) | `hostpc/codebuf.c` | one block | used by the disassembler only, which empties it first | not modelled |
| interactive monitor (PC) | `hostpc/monit.c` | command line | PEEK, POKE, disassembly | not modelled |
| NTSC console | `graph.c`, `timer.c`, `dma1.c`, `spi2.c` | cursor, screen memory | `gr_putch`, scrolling | not modelled |
| memory files | `samples/femtoLisp/memfile.c`, `syscalls.c` | position in a file | `fgetc`, `write`, `sbrk` | not modelled |
| vendored | Microchip USB stack, Pinguino libraries, MicroPython, pForth, femtoLisp, tinybasic | | | not modelled |

How they interact. **UART**: the PC sends a key byte 0xa5 and expects 0x55
within 16 ms; 0xaa 0x55 enters the monitor; from then on every command is 0x01
and a packet of 64 bytes. TEST, PEEK and PAGE_ERASE answer, PAGE_WRITE does not.
The writer erases every page its image has something on, sends the words without
waiting, asks TEST for the number of errors, prints Write Ok or Write Error, may
start the user's program, and leaves with 65 bytes of 0xff. On the board the
receive interrupt and the main program share the ring and nothing else.
**HID**: commands and replies are USB reports; the loader keeps a pointer to
where the next block should begin and up to a row of words that are not
programmed yet; PROGRAM_COMPLETE or a full row flushes them. **CDC**: one main
loop moves bytes between two endpoint buffers and a UART; the CDC driver keeps
the *address* of the buffer it is handed. **Keyboard**: a timer interrupt
samples the clock and data pins, collects a frame and puts the byte into a
queue that the main program empties without a lock.

What is hard, and what makes each part correct:

- *ring, key queue*: handler and reader interleave at every memory access
  without a lock; a full ring must not look empty. Correct if it is a bounded
  FIFO queue and never hands over part of a request.
- *monitor*: it has no time-outs, so its place in the protocol is the only
  thing that tells a data byte from a command. Correct if it can always be
  brought back to `loop()`, and if no packet overruns its buffer.
- *boot decision*: a reset flag that no code clears and a key in RAM that
  survives resets. Correct if the reset button always gets the loader.
- *writers and loaders together*: sessions are cut off anywhere, repeated,
  answered late, the board is reset or unplugged under them, flash operations
  fail, bytes are lost. Correct if only the pages of the image are touched, no
  word is programmed twice, a success reported is true, what is read is what is
  there, and trying again works.
- *bridge*: buffers shared with the USB driver and the interrupt, resets of the
  bus in the middle of anything. Correct if both directions keep their order,
  lose nothing but what the reset costs, and a lent buffer is left alone.
- *keyboard*: bit counting in step with a foreign clock, codes by twos and
  threes whose meaning depends on flags. Correct if what is read is what was
  typed, shifted as SHIFT and CTRL were when it was typed.

The hazards, line by line and with the properties against them, are in
`PROJECT.json`.

## 2. Modules

| Module | What it is |
| --- | --- |
| `ByteQueue` | abstract: a bounded FIFO queue of bytes |
| `UartFifo`, `UartFifoProofs` | ring, interrupt handler and reader, one shared access per step |
| `FlashLayout` | pages, words (cells), what "the image is there" means |
| `FlashUpdate` | abstract: what writing an image promises |
| `UartProtocol` | key bytes, frames, packets, the two directions of the line |
| `BootMonitor`, `BootMonitorProofs` | the board: `main`, `loop`, `UARTmonit`, `ProcessIO`, the flash |
| `BoardAlone`, `BoardAloneProofs` | the board with a PC that may send anything, buttons and power |
| `FlashHost` | one session of `uartflash32` |
| `UartBoot`, `UartBootProofs` | board and PC together with kills, resets, lost bytes, late answers |
| `HidBoard`, `HidHost` | the HID loader, and one session of `mphidflash` |
| `HidBoot`, `HidBootProofs` | both together with kills, unplugging and hasty users |
| `BytePipe` | abstract: bytes in order, once each; only a reset loses some, at most a packet |
| `CdcBridge`, `CdcBridgeProofs` | the serial adapter |
| `Ps2Frame`, `Ps2FrameProofs` | keyboard, pins and sampling interrupt; `Wire` inside it is the promise |
| `KeyStream` | abstract: the characters typed, with the shift keys as then held |
| `Ps2Keyboard`, `Ps2KeyboardProofs` | key queue, reader and decoding |
| `MC...` | instances for TLC |

`UartBoot` EXTENDS `BootMonitor` and `FlashHost`, which share the line `rx`,
`tx` of `UartProtocol`; `HidHost` EXTENDS `HidBoard`, whose endpoints it uses.
`Ps2Frame` delivers whole bytes to `put_que`, which is where `Ps2Keyboard`
begins. Definitions marked *Faulty* are plausible mistakes in the code;
substituted for the definition below them they must break a property
(`PROJECT.json`, `mutants`). `UartBoot` and `HidBoot` are checked in *scenes*:
records that say what the user may ask for and how often which fault may
happen, chosen in the initial state, so that one run covers several
circumstances.

### From code to model

*UartFifo.* `FIFO_enqueue` runs in the handler and is one step; `FIFO_getsize`
and `FIFO_dequeue` are `Poll`, `Test`, `Copy`, `Commit`, with `n` and `result`
for their locals (`i` is `Len(result)`). `taken` is what the latest dequeue
returned.

*BootMonitor.* The board is one sequential program; `pc` is the call it waits
in. A command handler is one action, its reply leaves byte by byte
(`SendByte`). `rx` joins the wire and the ring: the ring is a queue by
`UartFifo`, and its limit of 255 bytes is left out (see 6). `PacketToPC` keeps
old contents, as in the code, because an ERASE reply carries them. NVM
operations either work or report an error, which `monit.c` ignores. PEEK and
POKE know RAM and flash in KSEG0 and KSEG1 by the top byte of the address;
behind 0x1f...... some of the boot flash and of the registers answers or an
exception follows, elsewhere always an exception. `StartUp` is
`main` up to the decision; it runs after the button (`HardReset`), after
`reset_device` or a program's own reset (`SoftReset`), and after a power cut,
which alone clears `RCON.SWR` and may or may not clear the key. JMP with
size # 0 leaves the key and is then in `resetting`, where the button may beat it.

*Packets* have one byte per field (5, not 64): command, size, address, top byte
of the address, data word. The order on the wire is the code's, so a packet cut
short loses what it would lose there. An address is a cell number; the top byte
decides whether it is flash. In a TEST reply the fields are echo, flash size,
address last used (never zero, as 0x9d...... is), error count.

*FlashHost.* `hpc` is the call the program blocks in. `RS_getdata` waits for all
its bytes; `PurgeComm` at start is `tx' = <<>>`; `flashEnd` and `usedEnd` come
from the first TEST reply, right or not; a reply with an error count may be
refused (`CapsRefused`, the negative result of `UartInit`). The image is `flash_buf` after the hex
file was read. `mode` is what the options ask for: write, verify (`-v`), read
back (`-rp`), or erase (`-E` alone). Verify reads where the code reads, which is
RAM; what RAM holds may be anything.

*UartBoot.* `Kill` stops the PC program at any point and cuts what it has
queued at any byte. `Reset` loses some of the bytes (those in the ring).
`InTime` is all there is of time: in a prompt scene the 16 ms sleep and the
pause before the program is started again are longer than what the board has
left to do. Otherwise a probe may give up while its answer is on the way.

*HidBoard, HidHost.* Endpoint buffers belong to the USB hardware or to the
program (`outBusy`, `inBusy`); a pass of the main loop takes a command, later
ones carry it out, with a step for each page erased, each word taken over and
each word programmed. `Serving` says where the loader calls USBDeviceTasks: there a host
that reset the bus after a kill may arm the endpoints anew (`Start`). No version
of `usbOpen` does so by itself. `buffer` is ProgrammingBuffer. On the PC `usbWrite` hands
over a packet and may wait for a reply, both without a time limit; `hexBuf` is
the block that is being collected. The file has any gaps, so sections follow one
another with and without a PROGRAM_COMPLETE between them.

*CdcBridge.* The main loop is a step for each part of `ProcessIO`; the receive
interrupt, the transmitter, the host and the bus take steps at any moment.
`USB_Out_Buffer` is handed over by address: `cdc_tx_len` is what the driver
keeps, the bytes are read from the buffer when the endpoint is free.

*Ps2Frame.* The keyboard holds each level of its clock until the driver has
dealt with it (`Pace = "handled"`); the interrupt reads the clock pin in
`kbd_int_handler` and again in `kbd_handler`, a step each.

*Ps2Keyboard.* `put_que` is one step, as it runs in the interrupt;
`kbd_getcode` takes a step for each access to what is shared; the decoding of a
code is one step, since all it touches belongs to the main program. A *patient*
user waits until the codes of a key fit into the queue; a hasty one overruns it.

## 3. Runs

| Run | Instance | Result |
| --- | --- | --- |
| `fifo` | ring of 4, packets of 3, two byte values | `TypeOK`, `CopyInOrder`, `WholeRequest`, refinement of `ByteQueue`, `EnoughIsServed` hold |
| `monitor` | one page of one word; each field from a small set, 0xff anywhere; one NVM fault; BOOT_SW open or closed; button and power at any moment (526,932 states) | `DeviceTypeOK`, `ExitResyncs`, `ButtonEntersLoader` hold |
| `flash` | 2 pages of 2 words; scenes Quiet, Lossy, Reading; fair (110,686 states) | `BootTypeOK`, `SessionSucceeds`, `Recovers` hold |
| `flash_faults` | scenes Quiet, Cut, Late, Reading, CutReading (559,545 states) | `ImplementsUpdate`, `StartsOnlyComplete`, `ExitedInLoop`, `DumpIsFlash` hold |
| `hid_boot` | 2 pages of 4 words, 2 words a packet; eight scenes; fair (53,754 states) | `BootTypeOK`, `OkMeansThere`, `OnlyTheFile`, `ProgramsErasedOnly`, `RepliesIntact`, `SessionEnds`, `Recovers` hold |
| `cdc_bridge` | ring of 4, packets of 3, 2 values; each way with a reset and a suspension, both ways at once; fair (544,562 states) | `TypeOK`, `HandedOverAtOnce`, both refinements of `BytePipe` with liveness hold |
| `key_line` | 4 data bits, every value; fair | `TypeOK`, `InStep`, refinement of the wire, `FrameArrives` hold |
| `keyboard` | queue of 4, SHIFT, right CTRL and A; fair | `TypeOK`, `CodeInOrder`, `StatesAsHeld`, `PressedAsHeld`, refinements of `ByteQueue` and `KeyStream` (with liveness) hold |
| `errors_unseen` | scene Quiet, 1 NVM fault | `WriteOkMeansNoError` fails: nothing ever counts an error |
| `verify_blind` | scene Compare | `VerifyIsTrue` fails: `-v` compares with RAM |
| `hid_no_flush` | a file that ends in a full block, without `-r` | `EndsFlushed` fails: the loader keeps its pointer |
| `keyboard_extended` | cursor up and the 8 of the key pad | `CharactersAsTyped` fails: cursor up types 8 |

Why the bounds are enough. A ring of 4 wraps, fills, overflows and serves both
request sizes with every offset between the pointers. In `monitor` the sizes 0
and one more than a packet are at either end of what fits in a packet, and 255
is far beyond; the sizes between them are in the `flash` runs; `KeyBytes` holds
every byte a key is compared with; six 0xff in a row are one more than a packet
has bytes. Two pages tell "this page" from "another page", two words tell "this
word" from "its neighbour"; the images fill both pages in part, page 0 alone and
one word; where only page 0 is written, page 1 holds an old program that must
survive. Two kills allow a session to be cut off while it runs into the rest of
a packet that an earlier one left. `backlog` bounds the bytes on the line when a
session starts: 6 is as many failed probes as it takes to fill a packet. In
scene Late it is 3, so at most four answers to probes are outstanding (see 6).

For HID, four words a page and two a packet give sections that end in a full
block, in a short one, and a gap in a page; two kills or two disconnections cover "the
next session meets what the one before left" and "so does the one after".
Queue 4 holds three codes, the two of a break and one more, so it overflows in
every position of a sequence of codes. Four data bits, unlike the code's eight,
keep the value space small; bits 0 and the last are the ones next to the start
and parity bits. CDC packets of 3 can be full, short and empty, and the end mark
of `USB_Out_Buffer` can hit its last place.

Lost bytes appear only in scene Lossy. What a shifted PAGE_WRITE does depends on
`subcmd`, which `UsbFlash` leaves uninitialised, so no promise about the flash
is stated for it. Deadlock is checked in every run.

## 4. Fairness

- `UartFifo`: `WF(Reader)`, the main program runs whenever the handler does
  not. Nothing is assumed of the handler.
- `UartBoot`: `WF(Board)`, `WF(Session)`, both programs run on while they can;
  `WF(GivesUp)`, the sleep ends; `WF(Start)`, `WF(KillHung)`, the user tries
  again and stops a program that hangs, which only `Recovers` needs.
- `HidBoot`: the same for `Board`, `Session`, `Start`; `WF(Resets)`, a board that was told
  to reset does; `WF(Replug)`, `WF(BackToLoader)`, the user plugs the board in
  again and presses the button that gets the loader.
- `CdcBridge`: `WF(Loop)`, the main loop never waits; `WF(Shifted)`, the
  transmitter finishes a byte; `WF(HostCollects)`, the host reads while its port
  is open; `SF(Configure)`, `SF(Resume)`, a host that resets or suspends the bus
  in the end configures the device or resumes.
- `Ps2Frame`: `WF(Driver)`, the timer keeps interrupting; `WF` of the clock's
  fall and rise, a keyboard that began a frame finishes it.
- `Ps2Keyboard`: `WF(PutQue)`, the keyboard sends what it has; `WF(Reader)`, the
  main program keeps polling.

Kills, resets, disconnections, losses and NVM faults are never fair, and
bounded.

## 5. Proofs

All are for every value of the constants that the named assumptions allow.

`UartFifoProofs` (at least two slots, a packet fits): `TypeCorrect`,
`DequeueInOrder`, `RequestsAreWhole`, `RingImplementsQueue`. The inductive
invariant is `TypeOK /\ CopyInOrder`. `CopyInOrder` has to say more than "the
copied bytes are the oldest": that the request does not exceed what is unread
(so `Test` never stops early), where `n` stands, and what the loop has
established at each label. The handler can only append to `Unread`, so it
disturbs none of it; the slot at `inPtr` it overwrites in a full ring is not one
of the unread.

`Ps2KeyboardProofs`: `TypeCorrect`, `OldestCodeKept`, `KeyQueueImplementsQueue`,
the same argument for the second ring of the project, which masks its pointers
instead of comparing them; `Masked` and `Distance` turn the remainder into a
case distinction. For a patient user, whatever the size of the queue and however
late it is read:

- `ShiftStatesTrue`: `StatesAsHeld`, if no key has the code of SHIFT behind E0
  (a keyboard sends that around Print Screen only) and there is one CTRL key
  (`Separate`);
- `PressTableTrue`: `PressedAsHeld`, if no two keys have the same code
  (`Distinct`);
- `CharactersTrue`: `CharactersAsTyped`, if `Separate` and the table has the same
  entry for a key behind E0 as for its code alone (`SameEntries`). In
  `keycode.h` that is so for right CTRL and ALT and the Windows keys, which have
  no character, and not for the cursor block and the key pad.

The keys of `keyboard` satisfy all three; `keyboard_extended` shows what becomes
of the third without `SameEntries`, section 6 says it of the others. What
`Pending` holds (taken but not decoded, in the queue, on the wire) is codes, what
the theorems are about is the state after them, so the invariant `TypedInv`
speaks of decoding them all: `Reads` is a run of the decoder along a
sequence of codes, a state and the characters still due at every place, and
`Leads` says that there is one. A key appends its codes at the end of the run
(`LeadsOn`), the decoder takes the first step of it (`LeadsFrom`), the interrupt
and `kbd_getcode` only move codes along `Pending` (`PutMoves`, `FreeMoves`).
At the end of the run stands what is held (`AsHeld`).

`Ps2FrameProofs`: `FrameTypeCorrect`, `DriverInStep`, `LineImplementsWire`, for
any number of data bits: with the keyboard's pace as assumed the driver's bit
counter and shift register agree with the keyboard's place in the frame at every
step, so `put_que` is called with the byte sent.

`BoardAloneProofs`, for any flash and anything the PC may send: `TypeCorrect`,
`FillsResync`, `ButtonLeadsToLoader`. The invariant adds to the types that the
0xff sent in a row are the last bytes on the line (`Flooded`); that while the
board waits for a second key or a packet it has eaten none of them, and in the
monitor at most as many as end a packet (`FillsEaten`: neither the keys nor the
marker is 0xff, so eating one of them there means leaving); and that
a key in RAM together with the software reset flag occurs only inside
`reset_device` (`KeySpent`).

`CdcBridgeProofs`: `BridgeTypeCorrect`, `LentOnlyWithinAPass`,
`BridgeKeepsOrderUp`, `BridgeKeepsOrderDown`. The invariant is `TypeOK`, what
holds between two parts of `ProcessIO` (`InTransfer`), and `HandedOverAtOnce`:
because the driver is ready only while the IN endpoint is free, what is handed
over leaves in the same pass. The last two are the safety parts of the
refinements of `BytePipe`; their liveness stays with TLC.

`HidBootProofs`: `BootTypeCorrect`, `RepliesStayIntact`;
`NothingButTheFile`, `NoWordTwice`, for scenes without kills and a loader that
erases as far as it programs (`ErasedPages = Pages`, see 6). The invariant
(`IInv`) follows the words of the file on their way, through `hexBuf`, the OUT
endpoint, the command in work and ProgrammingBuffer: they come in the order of
the file, none twice; the flash is erased from the first of them on; a short
block is followed by PROGRAM_COMPLETE.

`SuccessMeansThere` is `OkMeansThere`: no error printed, and the flash is the
file. It has two invariants, one for each reason a session has.

- With the verify pass (`GInv`, also with kills and resets): each reply is the
  answer to the question that waits for it, since a session that comes so far
  has seen its erase complete behind all that was left of the one before; a
  short block never compares, so all sections are whole; then the words a
  killed session left in ProgrammingBuffer are still there unless they went
  into the flash, where the next block no longer fits, and a word of each
  section that follows is missing when it is read back (`Clean`, `Untouched`,
  `Touched`).
- Without it, when nothing happens (`PInv`): the pointer is forgotten, or the
  next block goes on there, so no block is dropped, and what is not in the
  flash is on its way.

Besides `ErasedPages = Pages` it supposes of the files `ShortBlocksShow` (a
short block does not end in a zero word, see 6), and of scenes without kills and
resets that allow `-n`, `NothingDropped`: a file ends all its sections in short
blocks, or is one section and every session has `-r`. TLC evaluates them on the
instances; each is needed: a scene without it (`FullAlone`, for the last one)
has a success over a flash that is not the file.

`UartBootProofs`. `BootTypeCorrect` holds in every scene. The others are for
scenes that are `Steady`: the board is prompt, no byte is lost, and there are no
kills, or no session that reads or verifies, or 0x55 is not among the values the
flash and RAM may hold (the reason is below). Kills, resets, sessions, failed
probes and pages may be as many as one likes, as long as there are fewer than
128 cells, since the models keep an address in one byte (`GeometryAssumption`).

- `EndsInLoop`, `ReadsTheFlash`: `ExitedInLoop` and `DumpIsFlash`, also with
  failing flash operations.
- `WriteOkIsTrue`: `Write Ok` is true and stays true until the next session
  begins, as long as no flash operation has failed.
- `OtherPagesKept`: pages nobody asked to write are never touched.
- `SessionsImplementUpdate`: the refinement of `FlashUpdate`, where no flash
  operation fails (it could not hold otherwise: a word that was not programmed
  is not on the board, and nothing counts it).
- `StartsWhatIsThere`: `StartsOnlyComplete`, with BOOT_SW open besides.

None of these is inductive, because what matters is on the line: whether a byte
is a command or part of one depends on where the board stands in the protocol,
and that on every byte before it. The invariant `IInv` has three parts.
`Situation` says, for each place of the PC program, what the board does and what
is on the line in both directions: between the queries nothing at all; in a
query its packet, or its reply, or (after a reset) a board that will not answer;
while words are written, the frames of exactly the words of the image that are
still to be programmed (`Carries`, `Writes`). After a kill it only says that the
board is `Deaf`, opens its monitor, or has in front of it a beginning of packets
that are `Harmless`: whatever bytes fill up the last of them, it erases or
programs nothing but a page some session may write, programs erased words only,
and programs nothing once success was reported. That is so because every
packet carries the command and the size before the address, a probe is one byte
that is no marker, and the address bytes come before the data. `Progress` says what the PC program may
believe of the flash: which pages are erased (`Clean`), which words are there,
what it has read. `Safe` excludes a board that is stuck or resetting while a
session runs. TLC checked `IInv` on the scenes of `flash_faults` that are
`Steady` before it was proved.

The lemmas go from bytes to sessions: sequences of frames and what cutting,
appending and taking from them gives (`FramedCut`, `FramedAppend`, `FramedDrop`);
what the board does with a harmless packet (`PacketEffect`), with a line of them
(`LeftStep`), with a query (`QueryStep`), outside the monitor (`DeafStep`); then one
lemma for each place of the PC program and the board's steps there
(`BoardOff`, ...), for each action of the PC program (`OnPeeked`, ...) and for
each of the surroundings (`StartKeeps`, `KillKeeps`, `ResetKeeps`).

The hypothesis on 0x55: if a session that reads is killed in the middle of a PEEK packet, the
probe of the next one can complete the packet, and the board then answers with a
packet whose first byte is the byte read. Is that 0x55, the PC takes it for the
answer to its probe (`util.c` looks at one byte), and from then on reads the rest of
that packet as replies. TEST and PAGE_ERASE echo their command first, PAGE_WRITE does not answer.

Only model-checked: liveness and ENABLED, which the proof system does not do;
the scenes Lossy and Late. Every invariant and every action property
of the passing runs is proved, and the safety of the refinements whose liveness
is only checked.

## 6. Not modelled, and what the models do not promise

*UART loader and writer.*

- The ring's limit in the composition (PAGE_WRITE packets arrive slower than
  they are handled: 65 bytes take 1.3 ms at 500 kbit/s), the hardware's receive
  FIFO and its overrun flag, what POKE does to RAM, to registers and to the
  running loader, words of one packet failing separately, the hex files.
- `ButtonEntersLoader` says nothing of a PC that writes the key with a POKE of
  0xa0000000: after an earlier software reset the button would then start the
  program.
- `uartflash32 -E -rp` without a file name erases and then reads; `-r` alone
  restarts the board; `-B` does not ask for the size of the flash. No
  session does these (`Chosen`).
- A `uartflash32` that finds a negative error count in its first reply leaves
  without `UartExit`, and the board in its monitor. It can do so only in scene
  Late.
- `FIFO_getfreesize` counts the slot that is never used (`fifo.c:85-87`); nobody
  calls it.
- After a lost byte `RS_getdata` waits for ever, although `util.c:148-150` and
  `rs232c.c:165-167` document return values for failure; the user stops the
  program, which is `KillHung`.
- Late answers: if as many probes as a packet has bytes were answered after the
  PC gave up on them (64 in the code), replies would be read a whole packet out
  of step, fit again, and an ERASE reply pass for the status. The same happens
  when a session is killed while its query is unanswered *and* the next one
  starts before the board is done; hence the backlog of scene Late, and prompt
  boards in scene Cut.
- `-rp` leaves out the last word in use if it begins a FLASH_STEP
  (`uartflash.c:797` and `:674` use its address as the end); `DumpIsFlash`
  excepts this word.
- `-v` compares with RAM at the offset, or beyond 0x8000 with what is left on
  the stack, as nothing is read (`check_region`). That is run `verify_blind`.
- An aborted `reset_device` leaves its key, which has no effect before the next
  software reset (`KeySpent`).
- `SerialSetDataRate` (`uart_bootloader/serial.c:113`, `cdcserial2/serial.c:206`)
  uses `speed` uninitialised for most rates.

*HID loader and mphidflash.*

- Verifying a short block fails: the words stand at one end of the reply
  (`main.c:768-775`), `hex.c:164` looks for them at the other. `cdcserial2/w.bat`
  uses `-n`. `SessionEnds` promises success of `-n` sessions and whole blocks.
  It does not fail if the block is all zero, as the filling of the reply is:
  then it compares although it was never written, and a verified session may
  succeed over another flash. `ShortBlocksShow` excludes such files.
- The first query's reply is printed up to an end mark (`main.c:205`), without a
  bound: a reply a killed session left behind may have none. What is read then
  lies behind `usbBuf`; a crash is like a kill, the output is not modelled.
- The status of ERASE_DEVICE is overwritten by that of the query behind it
  (`main.c:232, 241`); both fail if the device has gone.
- A record of type 4 at a 64K boundary issues a short block even if the file
  goes on (`hex.c:410-427`); block sizes that are not multiples of 4 lose their
  remainder; neither occurs in the images.
- An unknown command makes the loader wait for ever (no `default`).
- After a kill a reply nobody fetched shifts all replies of the next session,
  and both sides may block, their timeouts being 0. A stale pointer drops the
  first blocks. The properties say which scenes they promise something for.
- ERASE_DEVICE stops at 0x1d008000 (`main.c:694`), and `MaxPageToErase`, an
  `unsigned char`, overflows at 256K: beyond, words are programmed on top of
  others. The models assume a flash that is erased as far as it is programmed.
- NVM errors are ignored (`main.c:865`). EXEC and RESET through `usbWrite(6, 1)`
  (`hex.c:246, 273`) wait for a reply that never comes; `flash_main` does not
  use them. UNLOCK_CONFIG sets the limits to the values they have.

*CDC bridge.* Line coding: `SerialSetDataRate` (above), changed while bytes are
being shifted (`main.c:369`); the hardware's error flags; the LEDs.

*Keyboard.*

- With a keyboard that only waits until the driver has *noticed* a level
  (`Pace = "noticed"`), `kbd_int_handler` compares one level of the clock pin
  (`ps2keyb.c:309`) and `kbd_handler` reads another (`:284`): `put_que` is then
  called in the middle of a frame, and `ImplementsWire` fails.
- A pulse shorter than the sampling period is lost, with every later frame out
  of step: there is no frame check and no time-out in the code.
- Both CTRL keys set and clear one flag (`:249`, against `:71` and
  `keyname.h:20`): with both in use `StatesAsHeld` fails when one is released.
- The press table is indexed by the code without E0 (`set_press_table`): cursor
  up and the 8 of the key pad share an entry, and releasing one clears it.
- A code dropped on overflow (`:166`) leaves the press table wrong, against
  `:141-142`; `StatesAsHeld` and `PressedAsHeld` speak of patient users.
- Print Screen and Pause, which contain codes of SHIFT and CTRL.

*The rest.* The NTSC console and the memory files are sequential code;
`mem_fgetc` (`femtoLisp/memfile.c:90`) has no end of file. The interactive
monitor is a command-line parser over packets that the board model takes
anyway. The read-back cache serves the disassembler, which empties it before
each use (`util.c:496`); the reads of `uartflash32` are larger than its block
and pass it by (`codebuf.c:142`). Interpreters and the USB stack are third-party
code.

## 7. Plan

1. `TextConsole`: cursor, scrolling and back space of `graph.c`, against a
   teletype that keeps its last lines.
2. Line coding in `CdcBridge`.
3. `MemFile`: positions and ends of memory files.
