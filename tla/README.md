# A verification development for the FR3 single-channel firmware

The repository is the C++ firmware of a radio board: an STM32H573 on ThreadX that
is a USB serial port to a host, draws a console on it, takes commands, keeps its
settings in data flash and drives a synthesizer (LMX2820) and a DAC (LTC2668) over
SPI. This directory holds TLA+ models of the parts of it where order, failure and
boundaries decide whether it works, TLC configurations that check them on small
instances, and proofs that TLAPS checks for every instance.

`src/` below is the root of the repository. The firmware has no tests; the only
document about its behaviour is `doc/commands.md`.

1. [The system](#1-the-system)
2. [Modules](#2-modules)
3. [Runs, bounds and what they show](#3-runs-bounds-and-what-they-show)
4. [Fairness](#4-fairness)
5. [Proofs](#5-proofs)
6. [Where the code disagrees with itself](#6-where-the-code-disagrees-with-itself)
7. [What is not modelled](#7-what-is-not-modelled)
8. [Plan](#8-plan)
9. [Running it](#9-running-it)

## 1. The system

### Who runs when

All ThreadX threads have priority 20 and no time slice (`ControlThread` asks for
priority 1, but after its thread was created), so a thread runs until it blocks in
a queue, a semaphore, an event flag or a sleep. Only interrupts come in between.
`TXX::Mutex` never creates the ThreadX mutex it wraps, so that its guards do
nothing; `lock_intr` disables interrupts and nests. The models follow this: a
thread's step goes from one blocking call to the next, cut only where an interrupt
in the middle can be told from one before or after.

`AppBase::start` (`threadxx/src/app.cpp:25`) loads the configuration before the
kernel starts, where an uncaught exception ends the firmware. The main thread then
starts USB, powers the chips up, restores the settings and runs the command loop,
which catches everything a command throws.

### Components

| Component (directory) | State it keeps | Operations | What makes it correct |
|---|---|---|---|
| USB control pipe (`usbxx/src/stm32/control_endpoint.cpp`, `control_request.cpp`) | endpoint state, acknowledge mode, one `Transfer`, the mailbox `control_xfer` and its semaphore, the device address | `on_setup`, `on_data_in`, `on_data_out`, bus reset (interrupt); `handle_control_request`, `ack_ctrl`, `stall` (thread) | the thread answers the request the host waits on; each IN packet is the right one, but for what the serial port writes over it; the address follows SET_ADDRESS; every supported request ends in success; no assert fails |
| USB device states, configuration (`device.cpp`, `configuration.cpp`, `interface.cpp`) | `state`, the interfaces, FLAG_ACTIVATED | `set_configuration`, `disconnect`, `set_interface`, activation of the class | teardown and set-up leave exactly the endpoints of the current configuration |
| USB transfers (`transfer_request.cpp`, `stm32/transfer.cpp`, `stm32/*_endpoint.cpp`) | status, completion code and semaphore of a `Transfer`; STAT bits and packet memory | `transfer_request`, `wait`, `abort`, `complete` | who waits is woken once, with the code of what happened |
| Serial port (`cdcacm.cpp`) | `tx_queue`, ring `tx_buf`, the segment being written; the same for receiving | `putc`, the TX thread, `write`, `activate`, `deactivate`; `getc`, `read` | characters arrive in order and none is lost but by a control reply, whatever happens to the bus |
| Configuration store (`threadxx/config_data`) | pages in flash, `page_seq`, `free_pages`, append points, values | `load`, `save`, `allocate_page`, `erase_page`, `erase` | a saved value survives, a torn one is never read, pages never run out silently |
| Data flash (`halxx/src/flash.cpp`) | halfwords, sectors in two banks | `read16`, `write16`, `erase_sector` | the sector asked for is erased |
| Console (`consolexx`) | raw or cooked terminal, windows with dirty rectangles, an escape-sequence parser, a command queue | `getc`, mode switch, `refresh`, `handle_text` | what was written is drawn; each line typed becomes one command |
| Commands (`piradio/lexer`, `parser`) | none between commands | tokenise, parse, execute | arguments are checked as `doc/commands.md` says |
| LMX2820, LTC2668, board (`piradio`) | shadow registers with a dirty set, channel voltages, power rails | `program`, `tune`, `set_I`, `set_Q`, `power_up`, `restore_settings` | the chip holds what the shadow says; rails come up in order |
| Hardware requests (`fr3_1ch_hw.c`, `device_thread.cpp`) | block pool, queue, event flags | request, service | each requester is woken by its own completion |
| ThreadX wrappers, debug stream (`threadxx`) | rings, queues, threads | `push`, `get_seg`, `putc` | nothing is lost or repeated at the wrap-around |

How they interact: the USB interrupt posts a request to the control thread
(mailbox and semaphore), completes transfers (semaphore of the transfer), and
tears everything down at a bus reset. SET_CONFIGURATION, handled by the control
thread, makes endpoints anew and wakes the threads that wait for the serial port
(event flags). Every IN endpoint has its packet at the same place of the packet memory,
so that endpoint 0 and the serial port write over each other (section 6). The console puts characters into the serial port's queue and blocks
there; the terminal's thread takes characters with `getc` and gives them to the
console, which gives lines to the main thread's command loop. A command saves
settings in the store and programs the chips.

The hard behaviours, each with its line, are listed as `hazards` in
`PROJECT.json`: an interrupt between a check and its use, a bus reset at any
moment, a host that gives up, power that fails between two halfwords, pages that
run out, wrap-around, and what must happen eventually.

## 2. Modules

| Module | Stands for |
|---|---|
| `UsbControl` | the control pipe: host, endpoint-0 hardware, interrupt handlers, control thread |
| `UsbControlProofs`, `UsbPatientProofs` | theorems about it: with any host, and with a patient one |
| `KeyValueStore` | what the configuration store promises (abstract) |
| `ConfigStore` | the store and the flash under it; implements `KeyValueStore` |
| `ConfigStoreProofs` | theorems about it, the refinement among them |
| `SerialStream` | what the serial port promises (abstract) |
| `CdcAcmTx` | the sending side of the serial port, over the transfers and the teardown of the device; implements `SerialStream` |
| `CdcAcmTxProofs` | theorems about it, the refinement among them |
| `CdcAcmRx` | the receiving side: the terminal's thread, `getc` and `read`, the OUT endpoint, the host that types |
| `CdcAcmRxProofs` | theorems about it |
| `Screen` | the cooked terminal's windows and the thread that draws them |
| `Console` | `Screen` with the adapter, the raw and the cooked terminal, the escape-sequence parser and the main thread that takes the commands |
| `ConsoleProofs` | theorems about both |
| `Rational` | the search for the fraction of the synthesizer's divider |
| `RationalProofs` | theorems about it |
| `HwRequest` | request blocks, queue and event flags of the hardware thread |
| `Board` | commands, synthesizer driver, DAC driver and the two chips, over `HwRequest` and `Rational` |
| `BoardProofs` | theorems about it |
| `MCUsbControl`, `MCConfigStore`, `MCCdcAcmTx`, `MCCdcAcmRx`, `MCConsole`, `MCBoard` | instances for TLC |

Operators named in a comment as a *mutant* are wrong variants of the definition
that follows them. No specification uses them; `PROJECT.json` pairs each with the
property that finds it out.

### UsbControl

One action per interrupt cause, one for the thread taking a request
(`ThreadGet`), one for handling it (`ThreadHandle`, one step because
`control_thread_main` locks interrupts around it), and the host and bus as the
environment.

| Variable | In the code |
|---|---|
| `ep`, `ack_mode` | `ControlEndpoint::state`, `ack_mode` |
| `xfer` | the one `Transfer` of endpoint 0: `setup_data`, `valid`, `requested_length`, `in_transfer_length`, `actual_length`, `force_zlp`, the data pointer |
| `in_len`, `out_buf` | `in_ep.xfer_len`, whether `out_ep.xfer_buff` is set |
| `control_xfer`, `sema`, `thread` | the mailbox, `control_request_sema`, where the thread is |
| `addr` | `device_address`, `address_set`, DADDR |
| `hw` | CHEP0R (STAT_RX, STAT_TX, EP_KIND), the packet memory, pending interrupts |
| `host` | the host's stage, its request, the address it uses, how its last request ended |

A request is a record of what the code tells apart: direction, length, what
`handle_control_request` does with it (`kind`) and the bytes of its answer. The
kind `unset` is a class request for an interface that is not there: the code tests
a `status` it never set (`control_request.cpp:45-66`), so that the model accepts it
or refuses it. Data
is the pair (which request, offset), so that a stale or misplaced byte shows.
Lengths are counted in units of which a packet holds `MPS`.

`hw.bd` says what the armed packet should be and `hw.pma` whose bytes lie in the packet
memory at 0x80, which is `pmaaddress` of every IN endpoint (`in_endpoint.cpp:19`,
`control_endpoint.cpp:24`): `SerialTransmit` is a packet of the serial port written
there, at any time. What the serial port does besides is in `CdcAcmTx`.

`Allowed` names what may happen beyond a host that waits patiently: `abandon`, `reset`,
`readdress`, `late_irq`, `long_data`, and `serial` for the serial port in use. `EarlyRequests` is what a host sends to
address 0. It matters: the interrupt latches `device_address` on *any* empty IN
packet while no address is set (`control_endpoint.cpp:403`), so that a request
whose status stage is IN would set the flag early if it came before SET_ADDRESS.
Hosts read descriptors and set the address at that point, nothing else.

### ConfigStore

A halfword programmed is one step, as is a sector erased; in between the power may
fail (`"cut"`). A halfword holds which record it belongs to (tag, value, index),
so that torn, stale and overlapping records can be told apart. `PowerOn` is
`load()` with `scan_headers` and `do_load` up to the first halfword it programs;
`Save` is `save()` up to the first halfword; `ProgramWord` repeats; `FirstWritten`,
`HeaderWritten` and `RecordWritten` are what follows the last halfword of the
first page's header, of another header and of a record. `WriteRefused` is
`ProgramSequenceError`, `WriteBeyond` the assert in `page::write16`. Erasing
(`load`'s recovery, `allocate_page`'s reclaiming, `config.erase()`) is a list of
pages in `todo` and one `ErasePage` each. `why` records which assert or uncaught
exception stopped the firmware.

What it takes from the hardware: reading an erased halfword raises the ECC error
the code catches, programming a programmed one raises `ProgramSequenceError`, an
interrupted erase has erased the sector or not.

`KeyValueStore` has `Put`, `Fail`, `Boot`. The refinement maps its `kept` to the
values of the last whole record of each tag in the pages `load` would read, or to
nothing once a torn record makes `load` start over, and its `view` to the values
in RAM.

### CdcAcmTx

The TX thread's program counter has the places where it blocks or where an
interrupt makes a difference: `write()` tests the state and copies the endpoint
(`WriteBegin`), waits for FLAG_ACTIVATED, marks the transfer pending under
`lock_intr` (`SetPending`), starts the hardware (`LlTransmit`), waits (`Woken`)
and tests the state again (`Written`). Characters are numbered in the order of
`putc`. `gen` counts configurations: each has an endpoint object and a `Transfer`
of its own, and `mine` is the one the thread got hold of. The ring buffer
(`buffer`, `start`, `end`) is `TXX::ring_buffer` with its pointer arithmetic.

A segment has at most 63 characters and a packet 64, hence one packet per
transfer. `DCD::reset` leaves the device ATTACHED, so that `transfer_request`'s
`NOT_READY` is never returned to `write()`. `QueueLen` is a constant because
`tx_queue_create` takes bytes: the queue declared with 64 entries holds 16.
The hardware serves a completion before a reset, so that packet and interrupt are
one step. Initially the first bus reset is over.

`ControlReply` is endpoint 0 preparing a packet of its own while one of the serial port
is armed: `start_transfer_in` writes it to the same packet memory, over as many bytes as
it is long. A byte `-c` stands for what such a reply left in the place of character `c`.
The liberty `reply` allows it; without it the packet memory is as if each endpoint had
its own. `begun` is a history variable, the number of bytes received when the
configuration was made.

`SerialStream` promises: characters in order, none left out, a run of them possibly
again, and, where the packet memory is `Shared`, the first bytes of a packet perhaps
those of another endpoint. More the code cannot promise. As to the repetition:
`abort()` overwrites the completion code before it looks whether the transfer is still
pending (`stm32/transfer.cpp:21`), so that a segment the host has taken is written
again after a reset.

### CdcAcmRx

The thread of a terminal, from `getc()` through `read()` and `transfer_request()`
to the wait on the semaphore and back, cut where an interrupt makes a difference
as in `CdcAcmTx`. Characters are numbered in the order in which they are typed and
remember the configuration they were sent in. `rx_buf`, `rx_cur`, `rx_len` are
those of `CDCACMClass`; `MPS` is both the packet size and the size of the buffer
(64 in the code), so that `read()` is one transfer of one packet. `gen`, `mine`,
`status`, `completion_code`, `semaphore` are as in `CdcAcmTx`; `xfer_buff` says of
each endpoint object whether it has a buffer, `stat_rx` is the register that all of
them write to. `isr = "spinning"` is an `endpoint_IRQ` whose loop has found an
interrupt that no handler clears: nothing else runs from then on.

`Configure` happens while the thread is blocked: `control_thread_main` runs only
then, and handles a request with the interrupts locked (`control_request.cpp:141`),
so that no reset comes between its steps. What the thread does with a character
(`on_char`) only queues it.

### Screen and Console

`Screen` is `window`, `viewport` and `cooked_terminal`'s refresh thread. A row of a
window is the sequence of characters written since its first column; what the
terminal shows is `screen`, with a cursor that is `known` after a move and `lost`
after raw output. `refresh()` blocks in `putc` whenever the serial port is behind,
so that the drawing of a dirty rectangle is cut at every character (`DrawLine`,
`DrawChar`, `EndLine`), and `validate_self()` at its end clears the rectangle with
whatever was added to it meanwhile. `raced` remembers the windows that were written
while they were drawn. In RAW mode `putc` drops everything and does not block:
`DrawNothing` is the whole drawing.

`Console` adds what writes into the windows. `OnChar` is the adapter's thread, which
gives a key to the queue of the terminal that is on; `RawGets` and `CookedGets` are
the two terminals' threads, whose `queue_io::getc` drops what it finds in the wrong
mode. They run in the order in which their keys made them ready (`Turn`): all
threads have one priority, and ThreadX appends a thread that becomes ready to the
end of its list. `Process` is `vtparser`, `OnInput` is `text_field`. `Take` and
`Answer` are the main thread; that anything may come in between is more than the
code allows, since only the output of the answer can block. A sender that is
suspended on the full redraw queue is counted in `redraws`: ThreadX puts its
message into the place that the receiver frees.

A key is its position in the script that is typed, so that a key that comes twice,
or in the wrong command, shows. Letters stand for words, and digits and
intermediates of a control sequence for one class.

### Rational, HwRequest and Board

`Rational` is `rational::approximate` one iteration at a time; `double` comparisons
are multiplied out and done on integers. `Jump` is the code's `K` mediants at once.

`HwRequest` is `fr3_1ch_hw.c`: a request is cut where it blocks, after the block is
allocated (`Allocate`), after it is queued (`Send`), after the flag (`Wake`). The
hardware thread polls SPI and blocks only in its queue, so that `Serve` is one
step. `FlagOf` is `hw_req_get_id` with its division of words by bytes: four blocks
share a flag.

`Board` is the only client. Registers of the LMX2820 that the code always sets
together are one: `R0` (calibration, power-down), `VCO`, `PLL`, `MUX`, `PWR`.
`Program` and `Programmed` are an iteration of the loop of `program()` before and
after its transfer; `SetSpan` and `SetCode` are the two requests of `setV()`, which
waits for neither. Commands are one action each (`Tune`, `Setup`, `Reprogram`,
`SetDrive`, `SetPowerdown`, `Read`, `SetVoltage`). The chip is what it was sent; it
calibrates when R0 arrives with `FCAL_EN`. A transfer may fail (`MaxFailures`), of
which nobody is told. At the start `restore_settings()` and `setup()` run
(`restoring`).

## 3. Runs, bounds and what they show

| Run | Shows |
|---|---|
| `control_patient` | with a host that waits for its answers: no assert fails (`NoAssertFails`); the thread reads the request the host waits on, complete (`RequestIsIntact`); each IN packet is armed as the next piece of the right answer, and has its bytes unless the serial port is in use (`InPacketIsRight`); the address moves after the status stage (`AddressChangesAfterStatus`, `AddressesAgree`); a refused request never ends in success (`RefusedIsNotAcknowledged`) and, under fairness, a supported one does (`SupportedIsServed`) |
| `control_hasty` | with a host that abandons, resets and re-addresses whenever it likes: mailbox and semaphore agree (`MailboxHasOneToken`), and `ack_ctrl` finds an acknowledge mode (`AckAssertHolds`) |
| `config_cut` | power failing at any halfword: a restart finds all completed saves or an empty store (`IsKeyValueStore`), never a torn value (`OnlyWholeRecords`); only a torn record or header makes `load` start over or stops the firmware (`OnlyTornStops`) |
| `config_wear` | the whole life of an area, past the last free page, reclaiming and `config erase`: what is left of the newest page is erased (`RoomIsErased`), the pages that can be read are read in the order they were written (`LogIsOrdered`), a page listed as free is free unless the session wrote the first header (`FreePagesAreFree`), and no page is forgotten while the flash holds it (`PagesAreKnown`) |
| `serial_stream` | resets at any moment, inside the TX thread too, and control replies written over armed packets: nothing is reordered, and nothing lost but what a reply was written over (`NothingIsLost`, `IsStream`), of what arrived in one configuration no two bytes have one place in the stream (`OncePerConfiguration`), every other character arrives unless the thread is stranded (`EveryCharArrives`) |
| `serial_input` | resets at any moment, typing at any speed: the terminal gets the characters in order and none twice (`KeysInOrder`), one is lost only with the configuration it was sent in (`KeysAreKept`), and while the device stays configured the endpoint is armed again and what was typed arrives, unless a reset inside `read()` stranded the thread (`InputIsServed`) |
| `console` | keys that arrive during mode switches, a refresh that blocks at every character: commands come in the order of typing and share no key (`CommandsInOrder`); outside the dirty rectangles the terminal shows what the windows hold, unless a window was written while it was drawn (`ScreenIsBuffer`); when nobody types any more every command is answered and every window drawn (`Settles`) |
| `board` | restoring the settings and any two commands, with one transfer failing: a register the driver takes for sent is in the chip (`CleanIsProgrammed`), the VCO is calibrated for what it is set to (`CalibratedIsTuned`), the DAC follows the last voltage set (`DacFollows`), request blocks are neither lost nor mixed up (`BlocksAreAccounted`, `AnswerIsOwn`), the fraction search divides by nothing and ends close enough (`Bracketed`, `FractionIsClose`), every command ends (`CommandsEnd`) |
| `control_abandon`, `config_reclaim`, `config_erase`, `serial_spin` | each a counterexample, see [section 6](#6-where-the-code-disagrees-with-itself) |

Bounds, and why the interesting cases fit in them:

* `UsbControl`: packets of 2 units and a buffer of 4 give answers of one short
  packet, two full ones, a full one that needs a zero-length packet and one cut to
  the host's length; OUT stages of two packets, and one longer than the buffer.
  The number of requests, resets and retries is not bounded: the state is finite
  as it is. The hasty runs use three kinds of request, one per path through
  `on_setup`.
* `ConfigStore`: pages of 7 halfwords hold a header of 2 and two short records or
  one long one, so that pages fill, and a page that cannot be filled exactly
  occurs. `config_cut` has 8 sectors and 4 saves, which reach the third page and
  leave half of the area free: what happens when pages run out is
  `config_reclaim`, and would hide the rest. `config_wear` has 4 sectors and 7
  saves: it takes the last free page, reclaims, and reaches sector NSECTORS/2.
  `MaxSaves` is the only counter bound.
* `CdcAcmTx`: a ring of 3 holds two characters and wraps with every other one; a
  queue of 2 fills; 5 characters force a flush of a full ring, a wrapped ring in
  two segments and a flush by timeout; 2 teardowns let a transfer survive into a
  third configuration. A control reply may be shorter or longer than the packet it is written
  over. `NChars` and `MaxTeardowns` bound the counters.

* `CdcAcmRx`: packets of up to 2 characters give empty, short and full packets;
  5 characters are three packets; 2 teardowns let a stale endpoint meet a third
  configuration. `NKeys` and `MaxTeardowns` bound the counters.
* `Console`: an output window of two rows and two columns scrolls, wraps off its
  right edge and is drawn in several lines; an input line of two characters fills;
  a redraw queue of one makes the main thread wait. Five scripts: redraws faster
  than they are taken, editing, escape sequences, a framed command, and switching
  back and forth; each begins with `cooked`, since the firmware starts in RAW mode.
  The lengths of the scripts bound everything.
* `Board`: three blocks, two of which share a flag, and a queue of two, so that
  both run out; `MaxDenom` of 30 and denominators of 37 make the search jump on
  either side; two commands (`MaxCommands`), one of which may leave dirty registers
  behind for the other; one failed transfer (`MaxFailures`).

`CHECK_DEADLOCK FALSE` is set where the system really stops: after a failed
assert (`control_hasty`, `control_abandon`), when all characters have been sent
(`CdcAcmTx`), when nobody types any more or the interrupt handler does not return
(`CdcAcmRx`), when the script is typed (`Console`) or the commands are used up
(`Board`).

What the patient runs assume is not decoration. With `late_irq` (the next SETUP
comes before the interrupt of the last IN packet is served) TLC refutes
`RequestIsIntact` and `InPacketIsRight`: the handler of the
late completion takes the new request's state for its own. With `abandon` stale
answers are sent. A host controller leaves milliseconds between the two, so the
firmware works in practice; the specification names the timing it depends on.

## 4. Fairness

* `UsbControl!FairSpec`: weak fairness of the interrupts (a pending interrupt is
  served), of the control thread (it is runnable and every other thread blocks),
  of the host's polling and of its timeout.
* `CdcAcmTx!Spec`: weak fairness of the TX thread as a whole, of `PacketSent` (the
  host polls the endpoint) and of `Configure` (the host enumerates the device
  after a reset). No fairness of `putc`, of resets, or of SET_CONFIGURATION(0).
* `CdcAcmRx!Spec`: weak fairness of the thread and of `Configure`. Nobody has to
  type, and nobody has to reset.
* `Console!Spec`: weak fairness of each thread: the adapter's, the terminals', the
  main thread and the refresh thread. A thread that can run gets to run, since
  every other one blocks. The script is finite.
* `Board!Spec`: weak fairness of the main thread and of the hardware thread. Nobody
  has to type a command.
* `ConfigStore` has no liveness property and no fairness.

## 5. Proofs

### UsbControlProofs

For every set of requests, packet size, buffer size and every combination of
liberties of the host, from `RequestsAssumption` and `SizesAssumption` (a request is
a record of its fields' types; sizes are positive):

* `TypeCorrect`: `Spec => []TypeOK`.
* `MailboxTokenCorrect`: `Spec => []MailboxHasOneToken`. A request is in the
  mailbox exactly while one wake-up is outstanding, so the control thread never
  takes a null transfer and never sleeps on a request. This holds with a host that
  abandons and resets at will, which is where one would doubt it.
* `AckModeCorrect`: a posted request has an acknowledge mode.
* `AckAssertCorrect`: `Spec => []AckAssertHolds`. The `assert(0)` of `ack_ctrl` is out
  of reach whatever the host does, unlike the assert of `control_abandon`.

The inductive invariant is `MailboxInv`, the conjunction of the last three, on top of
`TypeOK`. `AckAssertHolds` is not inductive alone: the step that could break it
(`ThreadHandle`) needs that a woken thread has a request (`MailboxHasOneToken`) and
that a request has a mode (`AckModeIsPosted`).

### UsbPatientProofs

For every set of requests and every packet and buffer size, from the same
assumptions and `Patient` (the host takes no liberty but to send too much data, the serial port may be
in use, and the host
asks a device at address 0 for nothing that is answered with an empty IN packet
before SET_ADDRESS; TLC evaluates it for the constants of `control_patient`), all
safety properties of `control_patient`: `AssertsHold`, `RequestStaysIntact`,
`InPacketStaysRight`, `AddressesStayEqual`, `RefusedStaysUnacknowledged` and
`AddressFollowsStatus`.

None of them is inductive, since each says something of one moment of a request.
`UsbInv` describes all moments: a request the host waits on is at one of eight
`Stages` (the SETUP sent, posted to the thread, answered piece by piece, its data
received packet by packet, acknowledged, left unanswered), and each stage says what
the endpoint, the transfer, the mailbox and the host hold together (`StageInv`).
`IdleInv` is about the completion that comes when the host is already done, and
`AddrInv` ties `device_address`, `address_set`, DADDR and the address the host
believes in. The heart of it is `LastIsLast`: the packet after which the host turns
to the status stage is the one after which `on_data_in` has nothing more to send.
`PacketMemoryInv` says
that an armed reply lies in the packet memory as long as the serial port is silent: with
the port in use `InPacketIsRight` keeps the turn, the length and the contents a packet
was armed with, and gives up the bytes. It rests on `LastPiece` (the last piece of a reply is full exactly when the length is
a multiple of the packet size), which is why the zero-length packet is sent when it
is needed and only then.

### CdcAcmTxProofs

For every size of the ring and of the queue, and any numbers of characters and of
teardowns, from `SizesAssumption`:

* `SerialTypeCorrect`, `SerialLosesNothing`, `SerialRepeatsOnlyAfterTeardown`: the
  three invariants of `serial_stream`.
* `SerialIsStream`: `Spec => IsStream`, the refinement of `SerialStream`.

`NothingIsLost` says what the host has and the firmware holds; why it stays true
needs the rest of `TxInv`: `StreamInv` (segment, ring, kept character and queue hold
consecutive numbers up to the last character put, and all before them, `Done`, were
received as they are or written over), `Carries` (an armed packet has a byte for each
character of its segment, in their places, whatever was written over it), `PlaceInv` (what the thread holds where), `DeviceInv`, `TransferInv` (a
transfer is pending, and a semaphore holds a token, only for the thread that is at
it) and `SuccessInv` (a transfer that reports success has been received). The lemmas
about the ring say what `Push` and `GetSeg` do to its contents, wrapped or not.
`OnceInv` adds that in this
configuration (since `begun`) nothing was received in the place of a character that is
still to be sent, unless the host has just taken the segment.

### CdcAcmRxProofs

For every packet size and any numbers of characters and teardowns:
`InputTypeCorrect`, `InputStaysInOrder` and `InputIsKept`, the three invariants of
`serial_input`. `RxInv` adds to the types `PlaceInv` (the buffer is empty while the
thread reads, and whole at "full"), `TransferInv` (only the thread's own transfer is
pending or done; the endpoint has a buffer only in its hands), `OrderInv` (everything
returned, buffered and fetched is increasing, and what is still to come is after what
was returned) and `KeptInv` (a character of this configuration is returned, buffered
or fetched). That a reset between the full packet and the cursor drops characters is
in `KeysAreKept` itself: they are of a configuration that is gone.

### RationalProofs and BoardProofs

`SearchIsBracketed` and `SearchFindsClose`, for every resolution and every number
between 0 and 1: the search never divides by zero, never reaches the fallback of
`rational.hpp:27-33`, and what it returns is within the resolution, with a
denominator below the resolution plus that of the number. The argument is the
identity `n1 * e + n2 * b = q` (the distances of the two ends, weighted with their
denominators, make the denominator of the number), kept by every jump; it bounds the
denominators, and a search that would use them up has an end that is close enough
already.

`BoardProofs`, for every set of frequencies, powers and voltages, every size of the
pool and the queue and any number of commands and failures, proves all invariants of
`board`: `BoardTypeCorrect`, `BlocksStayAccounted`, `WakesForItsOwn`,
`BoardIsBracketed`, `BoardFindsClose`, `CleanStaysProgrammed`, `CalibrationIsCurrent`,
`VoltagesArrive`. The invariants are stacked, each using those below it: `HwInv`
(blocks, queue, flags), `SearchInv`, `DriverInv` (what the queued words are and where
the main thread is), `CalibrationInv` (which registers may have been changed since
the chip calibrated), `DacInv` (the last word queued for a channel is its voltage),
`RegsInv` (types).

### ConsoleProofs

For every size of the windows and of the command queue, and whatever is typed, from
`ScreenAssumption` and `ScriptsAssumption`, the invariants of `console`:
`ConsoleTypeCorrect`, `ScreenStaysBuffer` and `CommandsStayInOrder`.

`OrderInv` has one number for it all: the last key a terminal has looked at. What is
queued is after it, what the raw buffer, the input line and an open frame hold, and
what is in commands, is not, and nowhere is a key twice; every key looked at is
dropped, kept, makes a holder lose keys, or ends a command (`Look`). A frame that is
closed or broken off stays in the parser's memory, so that only a `Live` one counts.

`ScreenInv` says where the refresh thread is in its rectangle: rows above the one
drawn are shown, of this row what is left of the cursor, and the rest is blank
(`AboveInv`, `RowInv`). It holds from the first redraw on (`Synced`): a switch to
COOKED queues one, and only `DirtyAll` ends it. That the row may be given up at the
first NUL needs `TextInv` (text has no NUL inside, and there is nothing below the
cursor, so that a new line marks all it changes), and that the thread's cursor meets
the rectangle in every row needs that dirty sets are rectangles (`IsBox`), which
`rect::enclosing` keeps (`HullIsBox`).

`Printed` is a recursive function over the keys of a command. `PrintedType` proves
what it returns by taking the least prefix for which the claim fails
(`LeastNumber`, from the library's theorem on well-founded relations).

### ConfigStoreProofs

For every number of sectors above 1, every page size, header and record length that
`SizesAssumption` allows, any number of saves, restarts, power failures at any halfword
and `config erase`, the six invariants of `config_cut` and `config_wear`:

* `SparedTypeOK`, `SparedRoomIsErased`, `SparedOnlyWholeRecords`, `SparedLogIsOrdered`,
  `SparedFreePagesAreFree`, `SparedPagesAreKnown`: `Spec /\ []NewestSpared => []...`.
  The premise says that reclaiming does not erase the page it makes room for. The code
  does not keep it always (section 6), and then a torn record can be read as a value:
  the premise is what the invariants cost, and the theorems say that nothing else can
  break them.
* `FewSavesSpare`: with fewer saves than sectors nothing is ever reclaimed, so that the
  premise holds of every behaviour. `FewSavesKeepAll`: then so do all six. The
  constants of `config_cut` are of this kind, and so is a board whose settings were
  saved fewer than 16 times.

`IInv` has what is in the flash, whoever wrote it (`FlashInv`): a page is `Packed` (used
from its start, each record's halfwords one after the other, a record begins only where
another one ended or was cut), `Placed` (headers first, records before the last
halfword), serials differ, and a last halfword is of a save that is done. Then what the
RAM knows of it at each `pc`: `append_point` is `Exact` where something will be
programmed, the pages with a header are in `page_seq`, those in the deque have none.
A page with a header among its records is `Spoiled`; it is what the first session's
double listing leaves behind, `do_load` stops at it, and `LogIsOrdered` exempts it.

The steps of the argument that are not bookkeeping: `WalkPage` (in a packed page the
loop of `do_load` never leaves the page, never sees a record's tail for a record, and
ends at the first erased halfword), by taking the last boundary for which that fails;
`WalkIs` (the recursive function exists, from the library's theorem on well-founded
relations, which a function on so large a domain needs); `ProgramPages` (programming
the halfword at an exact append point keeps a page packed); `ErasedFlash` (an erase
empties a whole page, though perhaps not the one asked for); `SortedIs` (`Sorted` is a
permutation, by counting). `CountInv` counts the pages begun: with every save but the
first one page more at most, and never a page that is not in the deque.

* `GentleIsStore`: `ConfigStore` implements `KeyValueStore`, and `GentleOnlyTornStops`:
  `load` starts over, and an assert or exception stops the firmware, only where the
  power left a record or header unfinished. Both for `Gentle` constants: at most half as
  many saves as sectors, no `config erase`; any page, header and record lengths, power
  failures at any halfword, any number of restarts. `config_cut`'s constants are
  `Gentle`, and so is the board's area of 16 sectors until its settings have been saved
  more than 8 times.

`GentleInv` adds to `IInv` and `CountInv` what a store has while its pages are filled
one after the other (`FilledInv`): serials grow with the sectors, values grow within a
page, only the last page can be torn, and before a wiping there are no gaps. While a
user reads (`SessionInv`), each value in RAM is that of the last whole record of its tag
(`IsLatest`), only the page being written is torn, and the free pages follow the newest
one in order. A wiping goes through the pages from the first on, and the torn page, its
last, keeps `do_load` from taking what is left for a store (`WipeInv`). `WalkLatest`
proves that the loop of `do_load` finds the latest whole record of each tag in a page,
and stops with the ECC error only at a cut one, by taking the last boundary for which
that fails; `PageReadLatest` and `ReadsAre` carry it over the pages in the order of
their serials, and `KeptIs` says that what `load` would find is `IsLatest` for every
tag, or nothing when a page is torn. Then `StoreStep` has one case per action: the step
that programs the last halfword of a record is `Put`, a cut, a restart or a stop is
`Fail` or `Boot`, all else stutters.

The bound in `Gentle` is close to where the code breaks. It keeps sector NSECTORS/2,
which `erase_sector` does not erase, unused, so that a wiping empties everything. With
4 sectors and one record to a page, TLC finds both properties true of 3 saves, and
refutes `IsKeyValueStore` with 4: a torn record in a page after sector NSECTORS/2 makes
`load` start over, and the page left in that sector is a store with an old value
(section 6). `OnlyTornStops` fails with 5 (`why = "no_free_page"`). After `config erase`
there is no newest page (`why = "no_newest"`), and reclaiming erases what is kept
(`config_reclaim`).

### Only model-checked

Liveness (`SupportedIsServed`, `EveryCharArrives`, `InputIsServed`, `Settles`,
`CommandsEnd`): fairness and ENABLED are beyond the proof system used. The invariants of
the configuration store hold in `config_wear`, where reclaiming happens, because it
spares the newest page there: TLC finds `NewestSpared` true of those constants, and no
theorem says of which others it is.

## 6. Where the code disagrees with itself

Each run below finds a behaviour of the code that contradicts one of its own
asserts, comments or documents; `findings` in `PROJECT.json` quotes the line.

| Run | What happens | Contradicts |
|---|---|---|
| `control_abandon` | a host gives up a request and sends the next SETUP before the control thread ran | `assert(control_xfer == nullptr)`, `control_request.cpp:184` |
| `config_reclaim` | nothing fills `valid_tags`; reclaiming erases the only copy of a setting | the comments at `config_data.cpp:187-193` |
| `config_erase` | the bank is computed with `>`; sector NSECTORS/2 is never erased | `doc/commands.md:12-13` |
| `serial_spin` | `read()` keeps its endpoint across a bus reset and arms the register for an object that is gone; the first packet finds the new object without a buffer, its handler returns without clearing the interrupt and `endpoint_IRQ` never leaves its loop | the comment at `intr.cpp:38` |

Seen while modelling, without a run of their own.

USB:

* A refused request whose next stage is IN is never stalled: `stall()` sets only
  the receiving side (`control_endpoint.cpp:191-202`), and the host sees NAK until
  its timeout, against the comment at `control_request.cpp:59`.
* Every IN endpoint has its packet memory at 0x80 (`in_endpoint.cpp:19`,
  `control_endpoint.cpp:24` and `:121`), and `start_transfer_in` writes it on every
  transmission (`endpoint.cpp:464`). A control reply that is prepared while a packet of
  the serial port waits for the host is written over it: the host gets the reply's bytes
  in the stream, and the characters are lost with no error and no teardown. A packet of
  the serial port that is written while a control reply is armed reaches the host as the
  answer to its request. `pmaaddr()` (`endpoint.hpp:63`), which the OUT endpoints use,
  gives each endpoint memory of its own. The models follow the code (`ControlReply`,
  `SerialTransmit`), and `InPacketIsRight`, `NothingIsLost`, `IsStream` and
  `EveryCharArrives` except just the bytes written over. When the other endpoint is
  silent they hold without the exception: TLC finds all four true with `reply` and
  `serial` taken out of `Allowed`, and the theorems of the first three cover that case.
* A bus reset between `write()`'s check of the state and the locked one
  (`cdcacm.cpp:423`, `transfer_request.cpp:47-61`) leaves the TX thread waiting for
  ever on the transfer of an endpoint that is gone. `EveryCharArrives` and
  `InputIsServed` except a thread that is stranded like this.
* A SET_ADDRESS posted before a bus reset is handled after it, sets
  `device_address`, and the host's next one fails `assert(device_address == 0)`
  (`dcd.cpp:190`). TLC finds it with `Allowed = {"reset"}`.
* A reset right after a full packet makes `read()` report `NO_ANSWER` with the new
  length already stored; `getc` sleeps and goes on with the old cursor, skipping
  characters of that packet.

Configuration store:

* A page whose header was torn by a power failure goes to the front of
  `free_pages`; its header cannot be written, `allocate_page` returns -1, `save()`
  ignores that and `assert(append_page->has_room(length))` fails on the full page
  (`config_data.cpp:210`, `why = "has_room"` in `config_cut`'s states).
* `load()`'s recovery cannot succeed: `page_seq` still holds the pages of the first
  scan, the second `do_load` throws on them and nothing catches it. The boot after
  that finds the area wiped and works, unless the page in sector NSECTORS/2 was used,
  which is not erased: if the torn record is there, every boot halts; if it is in a
  later page, the old settings of that sector are back.
* Reclaiming leaves the erased pages in `page_seq` and never refills `free_pages`;
  the save that needs one more page takes the front of an empty deque.
* The session that initialises the area calls `scan_headers` twice and lists the
  free pages twice; after NSECTORS-1 allocations it appends a header to a full
  page (`why = "past_end"`).
* Reclaiming can erase the page it makes room for (`NewestSpared` of
  `ConfigStoreProofs`): when page 0 is taken for a save and the page in sector
  NSECTORS/2 is reclaimed, `erase_sector` erases sector 0 and the header just written;
  it takes a power failure after the first erase of an earlier reclaiming, or two
  sectors. In the first session the page listed twice may be the newest and an older
  one at once. A record appended to the page without its header is torn or doubled by
  what is written there later, and `do_load` may read its halfwords in the wrong frame:
  TLC refutes `OnlyWholeRecords` with 4 sectors of 6 halfwords, one tag of 2, 13 saves
  and power cuts.
* After `config erase` `page_seq` is empty, and the next save takes the last
  element of an empty map (`why = "no_newest"`).

Console:

* What another thread writes into a window between the drawing of a line and
  `validate_self()` (`viewport.cpp:72-76`) is not drawn before the next redraw:
  `ScreenIsBuffer` without `raced` is refuted.
* The DLE that ends a framed command is stored in it (`vtparser.cpp:184-192`), so
  that a framed command whose last word must end the statement is refused.
* The parameters of a control sequence are never cleared, and `parameters[1]` is
  read when there is one.
* What was typed in RAW mode before a switch stays in `raw_terminal`'s buffer and is
  put in front of the next raw command. "\r\n" makes an empty command.
* `status_update` has no caller; `move_right` in `draw()`, which would be one short,
  is never reached.

Board:

* `read_reg` stores what it read through `operator=`, which marks the register
  dirty: the next `program()` writes back what was read, without a new calibration.
  `lmx read reg` prints the status and not the value (`hardware.hpp:161`).
* `powerdown(this) = 0` in `setup()` assigns to a temporary: `lmx setup` leaves the
  power-down bit. It also changes the frequency reported without programming it.
* `spi_transfer` returns 0 whatever the answer was: a failed transfer is lost, and
  the driver takes the register for programmed.
* `lmx tune` takes up to 24 GHz, `set lo` up to 22.6 (`parser.cpp:167`, `:298`);
  `lmx write` is not implemented.
* The comment at `rational.hpp:34` promises the simplest fraction; what is returned
  is the first mediant close enough. `rational.hpp:27-33` is never reached (proved).
* Blocks that share an event flag clear each other's: with a second thread that
  waits for its requests a wake-up could be lost. Only the main thread does.

## 7. What is not modelled

`components` in `PROJECT.json` lists every part with its status.

The models map the firmware's own control logic. Measured against every line of C in
the repository that is half a percent: about 95 percent of those lines are the HAL
and CMSIS headers, ThreadX, USBX, the USB-PD stack and generated start-up code, which
have no behaviour of this firmware's own. They appear as the effects that the code
above relies on (a semaphore counts, a queue has so many entries, an erased halfword
raises an ECC error) and modelling them from their own text would say nothing about
this firmware.

Of the firmware itself:

* USB device states: the list `interfaces` that `disconnect()` does not clear,
  alternate settings, suspend and resume. Each control request is one step with
  interrupts locked, so there is nothing to interleave.
* Descriptors: only their lengths decide anything in the control pipe.
* `endpoint_dblbuf.cpp`, `endpoint_isoc.cpp` (disabled by the preprocessor),
  `flush()` of the serial port, `status_update()`, `moveto` and `printf` at a position
  in a window, the `device_thread` class (none has a caller).
* The text of numbers in commands and their ranges; `get` and `bootloader`.
* The arithmetic from a frequency to the divider; `MCBoard`'s frequencies are
  divider settings.
* Power rails and GPIO expanders: straight-line code. I2C and GPIO requests take the
  path of the SPI requests through `HwRequest`.
* The event log, exceptions and the debug stream: diagnostics nothing reads back. The
  debug stream is written by interrupts and threads without a lock; what it shows may
  be garbled, and nothing depends on it.
* Register access, clocks, pins, the fault handler; `util/lmxgenmask.cpp`, a host tool.

Abstracted on purpose: of the packet memory's layout only that the IN endpoints share
0x80. `DacFollows` compares voltages and not the span word, which no command changes. A
newline inside a framed command, which `window::write` would honour (`window.cpp:134`)
and `Printed` would drop, is excluded by `ScriptsAssumption`. No run has a host that
resets between a request being posted and handled, except for the mailbox properties.
Also the reset of the board inside an erase of one sector (erased
or not). `CdcAcmTx` and `CdcAcmRx` take `on_set_configuration` as one step, because
`control_thread_main` locks interrupts around every request. `Console` and the serial
port are not composed: the console sees the port as a `putc` that may block at every
character, which is all that `CdcAcmTx` promises it, and as keys that arrive in order,
which is what `CdcAcmRx` proves.

## 8. Plan

Done: the control pipe, the configuration store, both directions of the serial port,
the console, the board with its drivers and request thread; the safety of the serial
port, the board, the fraction search, the console, the configuration store and, with a
patient host, the control pipe proved in full; the refinements of `SerialStream` and,
until half of the sectors are used, of `KeyValueStore` proved.

Left: an abstract request/answer specification that `UsbControl` implements when the
host is patient.

## 9. Running it

    tlc -workers 2 -config UsbControl_patient.cfg MCUsbControl
    tlc -workers 2 -config ConfigStore_wear.cfg MCConfigStore
    tlc -workers 2 -config CdcAcmTx_serial.cfg MCCdcAcmTx
    tlc -workers 2 -config CdcAcmRx_input.cfg MCCdcAcmRx
    tlc -workers 2 -config Console.cfg MCConsole
    tlc -workers 2 -config Board.cfg MCBoard
    tlapm UsbControlProofs.tla        (and each of the other modules named ...Proofs)

`PROJECT.json` lists every run with its module, configuration and expected result,
the source lines each definition stands for (`map`), the mutants, the hazards and
the theorems. The passing runs together take about a minute and a half.
