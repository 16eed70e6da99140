# Gateway-v2 in TLA+

Gateway-v2 is the program of a Raspberry Pi that polls LoRa street-light nodes
(an SX1278 radio behind a kernel driver) and relays commands and readings to
one TCP client at a time. This directory models it in TLA+, checks the model
with TLC on small instances, and proves its central safety properties with
TLAPS for every instance.

## 1. The system

| part | state | operations | interacts with |
|---|---|---|---|
| **Gateway loop**, the parent process (`main.c:186-359`, `418-673`) | `newLoRa`/`node_count` (the registry), poll cursor `i`, `raspi` (node polled and whether it answered), `timeout`, `sock_status`, `rx_sig`, the signal mask | poll a node; take frames; execute a command; hand a report over; report a silent node | mailbox and SIGUSR2 with the child; SIGUSR1, `read` and `write` with the driver; SIGCHLD |
| **Socket server**, the child process (`main.c:360-406`) with threads `send_msg` (56-73) and `recv_msg` (74-171) | the connection, the two threads, a pending cancellation | accept, start and join threads; send a report and acknowledge it; parse a line into the mailbox; end of session | mailbox and SIGUSR2 with the parent; the client |
| **Mailbox** (`gateway.h:50-57`, shared memory `foo`) and the flags `socket_flag`, `ready_flag` | `request`, `ack`, `data_to_send`, `id_to_handler`, `user_set` | plain reads and writes by both processes, no lock | |
| **Node file** (`setup_node`, `sync_list_to_file`, `main.c:471-524`) | `node_list.txt` | read at start, rewritten at each change | registry |
| **LoRa library** (`Src/lora.c`) | none | `format_pkt`, transmit, receive, ioctls | driver |
| **SX1278 driver** (`Driver/sx1278.c`) | mode, settings, three packet buffers, registered task; device number, class, cdev, interrupt, reset line | interrupt, work item, read, write, ioctl; load, probe, remove, shutdown, unload | radio chip, SIGUSR1 |
| **SSD1306 driver** (`Driver/ssd1306.c`) | the chip's memory and position, the cursor, timer and work item | periodic work `getinfo`, ioctl, probe, remove, shutdown | display chip; `getLoRa_stt` of the radio driver |
| **Display and Firebase clients** (`Src/oled.c`, `Src/firebase.c`) | none | ioctl; HTTP calls | display driver, a server |

A report travels like this: the parent stores a text in `data_to_send`, clears
`ack`, sends SIGUSR2 and spins on `ack`; the child's handler raises
`ready_flag`; `send_msg` writes the text to the socket, clears `ready_flag`,
sleeps one second and sets `ack`. A command travels the other way: `recv_msg`
stores `request`, `id_to_handler` (and `user_set`) and sends SIGUSR2; the
parent's handler raises `socket_flag`, which the inner loop tests; while it
executes the command the parent reads the three fields one by one, reports the
result as above, and clears `socket_flag`.

What is hard here: the two processes (three threads) share plain memory with
no lock; a session may end, by `exit`, end of file or a reset, anywhere inside
a hand-over, with one thread cancelling the other; the same `request` field
carries connection events and commands; the parent waits without a bound;
`newLoRa` is shrunk to too small a block and the poll cursor survives
removals; signals arrive while a frame is being handled; packets travel as C
strings through four buffers; the radio's interrupt, work item and calls
outlive its buffers when the device goes, and its settings share registers
of which only single bytes are locked; the display's periodic
work and its ioctl share one position and lock single bytes only.

What makes each part correct: every report is written to the client once
before the parent goes on (mailbox and `send_msg`); a command is executed as
it was posted, and what the client is told of it is true (mailbox, registry);
no id is registered twice and no removal loses another device (registry); the
client's picture of the registry is right once its list has been sent; a node
is called disconnected only if it was asked and did not answer (gateway loop);
every registered node is asked again and again; no wait lasts for ever while
clients behave; SIGUSR1 is blocked only while a frame is handled; a packet
arrives as it was sent, and only repetitions are dropped; the chip has the
settings that were asked for; whatever a probe acquires is released once, and
nothing runs without it; a line of the
display shows what was printed there last, and its periodic work goes on until
the driver is removed, and no longer.
`PROJECT.json` lists the hazards line by line.

## 2. Modules

| module | models |
|---|---|
| `DeviceCommand` | the mailbox, the two flags, command lines and report texts |
| `Gateway` | the parent: program counter `pc`, the report in progress `job` and its slot `k`, and the variables of `main` |
| `SocketServer` | the child's main thread `server`, `send_msg` as `snd`, `recv_msg` as `recv_t`, the connection `conn`, and the client |
| `GatewaySystem` | both together, SIGCHLD, history variables, fairness and all properties |
| `MCGateway` | values of the constants for TLC; one `.cfg` per run |
| `GatewaySystem_proof` | the inductive invariant of `GatewaySystem`, the theorems about types, hand-over and signal mask, and that `GatewaySystem` implements `Handshake` |
| `Registry_proof` | the theorems about the registry, `newLoRa`, about the rounds of polling over it, and about commands: their execution, their replies and the client's picture of the registry |
| `Handshake` | what the hand-over of a report promises, without processes, signals and flags |
| `LoRaFrame`, `MCLoRaFrame` | a packet byte by byte: `format_pkt`, the C strings of library and driver, the unpacking and the search of `handler_rx_data` |
| `LoRaFrame_proof` | lemmas about strings, ids and packets, and the theorems about `LoRaFrame` |
| `NodeFile`, `MCNodeFile` | `setup_node`, `sync_list_to_file`, restarts and power loss |
| `NodeFile_proof` | lemmas about lists of ids, the inductive invariant of `NodeFile` and the theorems about it |
| `Sx1278`, `MCSx1278` | the radio driver: the gateway inside read, write and ioctl (`app`), interrupt handler (`irq`), work item (`work`), and the chip |
| `Sx1278_proof` | the inductive invariant of `Sx1278`, the theorems about it, and that it implements `Delivery` |
| `Delivery` | what the driver promises about frames, without chip, buffers and signals |
| `Sx1278Device` | the life of the radio driver: load, each step of `probe` and its failure, noticed or not, remove, shutdown, unload, beside the handler, the work item and a process |
| `Sx1278Device_proof` | the inductive invariant of `Sx1278Device` and the theorems about it |
| `Sx1278Settings`, `MCSx1278Settings` | the settings: the driver's fields and the chip's registers, bit by bit, under the ioctls of two processes |
| `Sx1278Settings_proof` | lemmas about bytes, the inductive invariant of `Sx1278Settings` and the theorems about it |
| `Ssd1306`, `MCSsd1306` | the display driver: its own thread (`drv`: probe, remove, shutdown), the periodic work (`work`), the ioctl (`app`), and the chip |
| `Ssd1306_proof` | the inductive invariant of `Ssd1306` and the theorems about it |

`GatewaySystem` composes `Gateway` and `SocketServer` over `DeviceCommand`, and
implements `Handshake` (`INSTANCE Handshake WITH` a phase computed from `pc` and
`torn`, `data_to_send` as the report and `copies` as the number of deliveries, so that
every `write()` is a step of `Handshake`). `Sx1278` implements `Delivery`
(`owed` is the frame that is due, `buff` the one taken, `crossed \/ rushed` voids the promise).
`NodeFile`, `LoRaFrame` and `Sx1278` stand beside it: each refines one thing
`Gateway` takes as given, the list a process starts with (`BootLists`), the packets
as whole values, and the frames that
arrive (`FrameArrives`). `Sx1278Device` and `Sx1278Settings` are the two parts of the radio driver
that `Sx1278` leaves out: it starts bound and programmed, and knows no setting
but the mode. `Ssd1306` stands alone, for no module of the gateway depends
on what the display shows.

State and code correspond by name wherever the code has a name. In `Gateway`, `pc` stands
for the place in the parent's code: `top` is line 213, `scan` 230-234, `finish`
569, `sock` 236, `exec` 238, `put`/`signal`/`wait` the three steps of a
hand-over, `ack0`/`lput`/`kill` those of `scan_node_list`, which clears `ack`
first, `clear` 339, `round_end` 343. A step of the model reads or writes at
most one mailbox field that the other process may be using at that moment,
so that the interleavings of the model are those of the two processes.
Statements that touch only a process's own variables are merged into the
step next to them.

Decisions worth knowing:

* A slot of `newLoRa` is its id: nothing in the program decides on the
  readings and schedules it also holds. A frame is its type, sender,
  destination and the number of fields its data converts to; a transmitted
  packet is its type, destination and, for MODE_MANUAL, the schedule.
* `raspi` is an uninitialised local (`main.c:192`): its status starts as either
  value and its id as `Junk`.
* `remove_device` shrinks `newLoRa` to `node_count * sizeof(uint32_t)` bytes
  (`main.c:461`). `intact` counts the slots whose id still lies in the block
  that size leaves (88-byte slots, malloc's 16-byte granularity), and
  `HeapReuse` may overwrite an id outside it. Reading past the array yields any
  id or `Junk`, or a fault (`PollFault`).
* `pthread_cancel` is deferred: `send_msg` dies at `write` or `sleep` only.
  A `write` to a closed peer succeeds, may provoke a reset, and the next one
  raises SIGPIPE; a `read` that reports a reset returns -1, which the code
  takes for data and dies in `atoi(NULL)`, as it does for a line with a field
  missing (`RecvBroken`). Each of these ends the child, and SIGCHLD ends the
  parent. SIGINT ends the parent wherever it is, and the child with it only when
  it comes from the keyboard; otherwise the child serves on, and its commands
  reach nobody (`SigInt`).
* A line is what one `read` returns. Lines that come together are one line to the
  program, of which it looks at the first only, and the halves of one that is
  split are two.
* `FrameArrives` is the driver's `workqueue_fn` as the gateway sees it: a frame
  equal to the last one is dropped, any other is stored and SIGUSR1 sent.

In `NodeFile` `pc` is the place in `setup_node` (`load`) or
`sync_list_to_file` (`truncate`, `write`, `sync`). `file` is what the next
`open()` finds, `disk` what a power loss leaves; the kernel may write back at
any moment (`Writeback`), `sync()` makes it do so.

* An id is a value, not its text: ids of at most nine digits, in a file the
  program wrote. The buffer of `setup_node` (`main.c:482`) is read but never
  terminated, so where the text fills its heap block `strtok` goes on into what
  follows: `Tight` is the set of list lengths for which that happens, `Stray`
  the id it yields (`StartStray`).
* `known` is the first file, or the list as the last command left it; `Lists` says that a list has the ids of
  another, each once, where it came first. `struck` says that something
  came between it and the file. What was lost is then what the next start finds,
  and the promise begins again from there.

In `Sx1278` a step is one access to the chip or to a buffer; a mutex in the code
covers no more. `LoRa_gotoMode` sets `current_mode` and then the chip: `goto`
holds, per thread, the mode it is between. A buffer is filled in two steps, as
the code does it (`memset`, then the bytes), so that whoever looks in between
finds it `Empty`; partly copied bytes are not distinguished further. `edge` is
a rise of DIO0 not yet handled. `Restore` ends `LoRa_transmit` and its locals
with it.

* The handler is a thread of its own. With a hard interrupt it could interrupt
  the thread that holds the register mutex and neither would go on; that is a
  hazard of its own.
* Left out: the CRC flag (a bad frame raises the same RxDone), frames of length
  zero, several processes; the settings are in `Sx1278Settings`, probe and remove in
  `Sx1278Device`, and the comparison of frames as C strings in `LoRaFrame`.
* `crossed`: a reception and a mode change of the gateway met. The program
  then may save the handler's STANDBY as the mode to restore, or wait for a
  CadDone that never comes; it lasts until a restart that finds no reception
  under way. `rushed`: a frame came before the one before had been dealt with,
  until the next new one that comes in time. `owed` is the last new frame, until
  it is read.
* A process that dies leaves its task registered (`gone`): `sig_chld` exits
  without `CTL_SIGNAL`.

In `LoRaFrame` a buffer is a function from indices to bytes, as in C, and `strlen`
the first zero in it; each step is one copy or comparison the code makes of a
whole packet, and `Search` one turn of the loop over `newLoRa`. The chip's FIFO is
`air`. A frame comes when the one before has been dealt with; overlaps are in
`Sx1278`. `Clean` packets have no zero byte before their text, which is what
the program relies on; the run has others too.

In `Sx1278Device` `pc` is a routine and a position in the sequence of things it
acquires or releases, so that `probe`'s ladder of labels is a jump into `UnwindOrder`
and `remove` an order of its own; a step releases one thing. Of the
handler and the work item it keeps which memory they use, and when. `line` and `dio0` are the
two GPIO lines, the reset line and the one of the interrupt. `held` is what is
acquired, `over` what the last release was of, or was done through, and was not held (a label
pulls the reset line, a node is destroyed through its class), `stray` what the handler or the work used
without its being there. A call finds whatever is there; what it does to a NULL or freed buffer is beyond the
model.

* A step of loading or of a probe either succeeds (`Acquire`), fails and jumps to its label
  (`Fail`), or fails without the code noticing and is followed by the next one (`Unnoticed`):
  `gpiod_get`, `device_create` and `class_create` report an error as a pointer that is not NULL,
  and it is not tested (`sx1278.c:233-236`) or tested for NULL only (268-273, 382-387).
  `missed` is what is not there for that reason. `device_create` needs the class, and `request_irq` the
  interrupt of `dio0`, so that these fail after it; a device without a reset line is bound all the
  same. Later the ladders put back the error pointers as if they were lines and a class: `over`
  records that, what the kernel makes of it is beyond the model.
* A chip held in reset keeps no mode and answers nothing. `taken`: this probe has got the reset line or has
  succeeded; before that, the chip is as the last one left it.

* `late`: handler, work or a process were at it when the device began to go,
  or a process came then. Remove frees the buffers before the interrupt and never cancels
  the work (`sx1278.c:330-338`): this is where freed memory is really used.
* `refused`: `request_irq` failed and its label frees the interrupt all the
  same. `flaky`: the chip gave its version when asked again only, and is then bound without
  having been programmed (`sx1278.c:753-758`).

In `Sx1278Settings` a step is one byte read or written, for the mutex covers no more: a
setter reads a register, changes some bits and writes it back, and the field of
`struct LoRa` it was given is read again after it was stored.

* `crossed` is the set of settings two overlapping calls may have spoilt, until
  they are made anew by a call of their own; `hit` says which of a call's
  settings are spoilt while it still runs.
* `garbled`: `LoRa_gotoMode` has no case for FSTX and FSRX and writes an
  uninitialised byte (`sx1278.c:464-467`).
* The low data rate bit is meant for symbols longer than 16 ms. The code computes
  whole milliseconds from rounded bandwidths, so that a symbol of 16.4 ms
  (SF 11 at 125 kHz) counts as 16: `LowDataRateFits` states the limit the code has, 17 ms.

In `Ssd1306` each thread has the calls it has still to make (`todo`), the one it has
begun (`call`: a bitmap, a clear, a line, a string, with its place and its text), and its
next operation in it (`op`), down to single accesses to the chip (`bytes`, `goto`,
`blank`, `data`, `picture`) and to the cursor (`cursor`, `advance`), between which
another thread may come. `target` is where `goto_xy` goes and what comes
then, `n` how many blanks or characters have been sent. The two actions of `send_char`,
the test for a full row and the step of the cursor, are kept apart for that reason.

* One cell stands for a character, the last of a row (cell `max_X`) for what is to
  the right of the text: `ssd1306_clear_row` writes `max_X` blanks and never
  clears it. One bitmap stands for an animation.
* `ssd1306_clear` writes its blanks from where the last `goto_xy` left the chip,
  and so clears the rows from there on, in a window that begins at that column; its
  `call` keeps where it began.
* `shown` is what each row should hold when a call has returned: a line its own text and
  blanks, a string put over a row, and the time, which is printed without clearing its row
  (`ssd1306.c:371-379`), their text over what the row held. It is `NoRow` where nothing
  is promised: under a bitmap, and after a thread that was `disturbed`, that is,
  another one worked in the middle of its call. The row of the time is then never
  promised again, until the screen is cleared.
* `DisplayAssumption`: no text is longer than a row, `Wall Time: %2d:%2d` is always as
  long, and covers `Please Wait ...!`, which is put on the same row.
* A line may be left out, by the returns the functions have: an interface without an IPv4
  address, a temperature that cannot be read or is no number (`MaySkip`). A file that cannot be
  opened is another matter: `filp_open` reports that as an error pointer, which is tested for NULL
  only (`ssd1306.c:385`, 413) and then used. The worker dies of it (`OpenFails`, `dead`) with the
  lines still to come and `mod_timer`, and `cancel_work_sync` waits for it for ever. `NeedsFile` are the
  lines that read a file.
* `garbled`: the bytes of two threads' commands to the chip were mixed. Nothing
  is said of the screen from then on; timer, work and remove go on.
* `app` is the gateway, which shows each reading it takes (`main.c:616`): open,
  ioctl, close. Remove comes from `rmmod`, with the device closed; shutdown
  comes after all processes have ended. `tmHandler` ends before remove does.
* `late`: the timer fired before `del_timer` and queued the work after
  `cancel_work_sync`. The work then finds its memory freed, and the model ends.

## 3. Runs

The first five and the last use `MCGateway`, `Device` uses `Sx1278Device` itself, the others
the MC module of theirs; deadlock is checked in each (`Over` is the end of both
processes of the gateway, and that of the display driver).

| run | checks | shows |
|---|---|---|
| `Handover` | `TypeOK`, `NoRace`, `SignalMask`, `MailboxExact`, `HandshakeSpec` | the hand-over of readings, lists and disconnection reports, with sessions that end in all ways at any moment: together the two processes implement `Handshake`, each report delivered once; MODE_MANUAL and MODE_AUTO are executed with the id and schedule posted |
| `Registry` | `ReplyTruthful`, `RegistryUnique`, `ExactlyOnce`, `ClientInStep` | additions and removals of a device from an empty list over several sessions, and SIGINT at any moment: replies are sent once and true and the client's picture is right |
| `Polling` | `DisconnectJustified`, `DevicesKept` | one device or three, polled, answering and removed, one slot lost to the allocator: only the silent node is called disconnected, only slots outside the block can be lost |
| `Liveness` | `ReportAcked`, `CommandsServed` | in a session whose client reads, waits for `ack` end; a `socket_flag` that is up while no command is being executed makes the parent execute one, unless it is *deaf*: empty list and status still HANDLED |
| `RoundRobin` | `PollsRegistered`, `RoundRobin` | every registered node is asked again and again, one that is added while another is polled too, and nobody else |
| `NodeFile` | `TypeOK`, `RestartExact`, `FileInStep` | the process or the machine goes down between any two steps: what a restart finds |
| `Radio` | `TypeOK`, `FlagHandled`, `Listening`, `SentWhole`, `Received`, `DeliverySpec`, `TransmitEnds` | frames at any moment, transmissions, echoes, time-outs and restarts over one chip: no frame is lost, torn or mixed, the driver implements `Delivery`, `write()` returns, and flags and mode are right after each call |
| `Display` | `RowsExact`, `NothingLeft`, `Refreshed` | periodic work, ioctl, probe, remove and shutdown over one chip: what a row shows, and that the work is stopped by remove and, until a file it reads is missing, by nothing else |
| `Frames` | `DownExact`, `UpExact`, `SenderFound`, `OnlyRepeatsDropped`, `SearchEnds` | what `strlen`, `strncmp`, `strncpy` and the 8-bit index make of a packet on its way down and up |
| `Device` | `HeldExact`, `UsesLive`, `ReleasedOnce`, `Quiet` | every step of loading and of a probe fails, noticed or not, and devices and modules go, with handler, work item and a process at any moment: what is released, what still runs, on which memory, and in which mode the chip is left |
| `Settings` | `RestKept`, `SettingsExact`, `LowDataRateFits` | two processes set the radio at the same time: the chip gets what was asked for, setting by setting, and no other bit changes |
| `Documented` | violated: `DocumentedResponseAnswers` | the code wants five fields, `gateway.h:86` documents four |

Each property of a passing run has a mutant: a plausible bug in the code it is
about (an ack not cleared, the copying loop starting one slot late, the
schedule stored after the signal...) with which TLC finds the property
violated. The mutants stand before the definitions they replace.

The preconditions in the properties are the code's real limits, and the history
variables make them exact. `torn`: a session, or the parent, ended while a report was being
handed over; what was in flight is lost, repeated later or acknowledged
without being sent, until a session begins with nothing in flight.
`overrun`: a command (or a connection event) was stored in the mailbox before
the previous one had been executed; the program has no protection against
it. `shrunk` and `Junk`: `newLoRa` has been shrunk, its later slots are at the
allocator's mercy. `ReportAcked` holds without `torn` only; what ends the other
waits is a later client that closes its connection, and `CommandsServed`
includes them. `CommandsServed` promises nothing of a flag raised while a command is
being executed: it is cleared with that command (`main.c:339`) and may never be looked
at. In the drivers `missed`, `refused`, `dead` and `late` say which error or which
window of the code the exception is made for, and each of these really happens in the runs.

**Bounds.** `SCAN_DURATION = 2` (60000 in the code) gives one full iteration
of the inner loop and one that times out; any frame, signal or command can
fall before, between or after them. One to three ids; the only
comparisons the program makes between ids are equalities, and each run has the ids
its question needs: one for the protocol, two for the round, three for the shift of slots and
the block that is too small. `MaxCursor = 3` stops
counting a cursor that has run past the list; from there on it reads foreign
memory or faults. `MaxJunk` limits how many slots the allocator overwrites;
one suffices for `DevicesKept`, which is about single slots. `Rude` switches
connection resets and broken lines off where they only add ends of the process,
`Interrupts` SIGINT likewise: it is on in `Registry`, whose properties are about what
the client is left with; the theorems have it everywhere. `BootLists`,
`Commands` and `Frames` give each run the devices, lines and frames its
question needs; sessions, commands and frames themselves are unbounded in
number. In `NodeFile` three ids and a stray one, and first files that are
absent, empty, short, long and with a repetition: the program only appends,
removes and compares. In `Sx1278` `TX_TIME_OUT = 2` (1000 in the code) gives a
transmission that ends in time, one that ends at the last count and one that times out;
there are two frames of others and one packet, `p`, which is in `Frames` too as the
gateway's own packet sent back by another radio. `CONSTRAINT NotCrossed` ends the exploration where
a reception and a mode change have met: the properties promise nothing there, but for
`TypeOK`, `FlagHandled` and `Listening`, which the theorems of `Sx1278_proof` prove
for all behaviours, crossed ones and what follows them included; what a restart after a
crossing leads to is thus covered by those three alone. In `LoRaFrame` packets have the
real size and layout; texts are empty, of one byte, of two with a common beginning, and
as long as fits; ids are those of the repository and one with a zero byte; four index values stand for the 256
of `uint8_t`, with lists of length zero, one, three and, beyond the index, five.
`Sx1278Device` has no constants: the run is complete. In `Sx1278Settings` two processes, for a
lost update needs no third; of each setting the extreme and neighbouring values
that change every bit of its field, and spreading factor 6, which is clamped, 11 and 12, which lie on both
sides of the low data rate's limit. `CONSTRAINT OneKind`: a behaviour makes either modem settings or others, for
no register and no field belongs to both; the theorems have every mix and any number of processes. In `Ssd1306` three rows of three cells (6 of
21 in the code): one for a line that is cleared first and may be left out, one for the time,
one for the ioctl's line, each with the start and end texts put over them. One line of
each kind does, for all lines of a kind are printed by the same calls; two lengths
of text, the longer up to the end of the row. The line of the first kind may be left out, and may
need a file that is missing. `GoodBye!` stands on a row of the first
kind, as in the code (row 3, that of the CPU temperature), `Please Wait ...!` on that of the time. The proofs cover all values of the
constants of `GatewaySystem`, `Sx1278`, `Sx1278Settings`, `Ssd1306`, `NodeFile` and
`LoRaFrame`.

**Fairness.** Weak fairness of the parent's own steps, of each child thread's
steps and of SIGCHLD: each is a process or thread the kernel schedules, and
none waits for a lock. `accept`, `read` and `write` wait for the client and are not fair: a client
may stay connected and not read, and then `write()` (`main.c:63`) never returns.
`ReportAcked` assumes, in its formula, that the client reads (`ClientReads`). Frames
are not assumed to come. `CommandsServed` assumes, in its formula,
that clients keep closing connections (`[]<>(recv_t = "ack")`);
`RoundRobin` that rounds keep starting and nothing is removed. In `Sx1278`:
weak fairness of the gateway's thread inside `LoRa_transmit`, weak fairness of
the chip's channel detection, which always ends, and strong fairness of its
finding the channel free: other radios do not transmit without a pause. That a
transmission ends (`TxEnds`) is not assumed, for the time-out is there for that.
In `Ssd1306`: weak fairness of `Work`, for the kernel runs a timer that has expired
and a work item that is queued, which may die of a missing file all the same; nothing is assumed of the other threads. In
`LoRaFrame`: weak fairness of `Search`, a loop that waits for nothing. The other modules have safety properties only.

## 4. Proofs

`GatewaySystem_proof` proves, for every set of ids, schedules, commands, frames
and start lists and every `SCAN_DURATION > 0`, from the named assumptions on
the constants alone:

* `TypeCorrect`: `Spec => []TypeOK`
* `HandoverExactlyOnce`: `Spec => []ExactlyOnce`
* `HandoverNoRace`: `Spec => []NoRace`
* `MaskCorrect`: `Spec => []SignalMask`

None is inductive alone. The invariant `IndInv` adds three parts. `JobOK`
relates `pc` to `job`, `k`, `op` and `timeout`: without it the slot a report
names need not exist, and `--timeout` could pass zero. `NoThreads`: outside a
session both threads are dead; without it a new sender could be started while
the old one is inside `write`. `HandshakeInv`, the heart: while the
parent waits, its report is in one of three states, *to be sent* (flag raised,
not yet written), *being sent* (written once, not yet acknowledged, and the
flag cleared before the nap), or *sent* (acknowledged, sender idle); while it
does not wait, the flag is down and the sender idle or dead. A torn hand-over
voids this until a session starts `Afresh`, and the invariant says that
exactly that re-establishes it. That proof has one lemma per part and kind of
step (`ControlKept`, `DataKept`, `CountersKept`, `JobKept`, `MaskKept`,
`SharedKept` for the parent, `ChildKeeps` for the child, `HistoryKept`,
`ParentHandshake`, `ChildHandshake`), `StepInv` collects them, and two lemmas
about the registry (`FirstSlotFound`, `ShiftedIsSeq`) carry the lookups and
the removal.

The module also proves `HandoverImplemented`: `Spec => HandshakeSpec`, the
refinement, from the same invariant. Every step maps to a step of `Handshake` or
to a stutter: the steps of the parent that store a report to `Store`, every
`write()` of the sender to `Deliver`, the end of the wait to `GoOn`, what tears a hand-over
and the end of the parent to `Tear`, an `accept` that finds nothing in flight to `Mend`
(`ParentImplements`, `ChildImplements`). `HandshakeInv` is needed for
`Deliver`, which must find the report stored and not delivered, since a second
delivery, or one of nothing, is no step of `Handshake`, and for `GoOn`, which must find it
delivered once.

`Registry_proof` proves, from the same assumptions:

* `NeverTwice`: `Spec => []RegistryUnique`
* `NoOtherRemoved`: `Spec => DevicesKept`
* `PollsListed`: `Spec => PollsRegistered`
* `SilentDisconnected`: `Spec => []DisconnectJustified`

One of the assumptions is that a start list holds every id once: `setup_node`
passes every id it reads to `add_device`. Only three actions change `nodes`
(`RegistrySteps`). `add_device` appends an id it has not found, the heap writes
`Junk`, and of the removal two lemmas about sequences say what matters:
`ShiftedDistinct`, that shifting keeps distinct slots distinct, and
`ShiftedKeeps`, that every other slot is still there.

The last two are about a round. `CursorOK`, that the cursor is inside the list
unless a removal has shrunk it, suffices for the poll. For the report, `AnswerOK` says when the status of
`raspi` may be unhandled although the node has answered: only while its reading is being
handed over; and that the request in flight names the node of this round.
`RoundMoves` names the few steps that touch these, `TrackedRound` what they do to
the history.

And about commands on their way through the mailbox:

* `ExecutedAsPosted`: `Spec => []MailboxExact`
* `RepliesTruthful`: `Spec => []ReplyTruthful`
* `ClientKnowsRegistry`: `Spec => []ClientInStep`

They speak of commands that are not overrun. The invariant `MailInv` says why
the flag is then enough, although nothing locks the mailbox: while the parent
executes, the flag is up and `op` is `request` still (`ParentMail`); while a
posted command stands, the flag is up and the mailbox holds that command
(`PostedMail`); the child stores a line field by field only while the flag is
down (`ChildMail`), or else sets `overrun`. `ReplyInv` carries the truth of the reply from the change to
`newLoRa` to the client: what a reply is made from is what was executed
(`Executed`), and a removed id is gone because it was there once only
(`RemoveDeviceTruthful`, which rests on `NeverTwice`). `ViewInv` follows the client's picture
where it lags behind the registry: during the list it is the slots listed so far, the one in hand
included once it has been written; during a reply it lacks the change until that is
written (`ParentPictures`, `WritePictures`, `ChildPictures`). `TextInv` adds that no other report
reads like a reply.

`LoRaFrame_proof` proves, for every layout, all ids and texts within
`FrameAssumption`, every list of nodes and every number of index values:

* `SendingExact`: `Spec => []DownExact`
* `ReceivingExact`: `Spec => []UpExact`
* `SearchExact`: `Spec => []SenderFound`
* `DroppingExact`: `Spec => OnlyRepeatsDropped`

Its invariant `IInv` is `Strings /\ Passed`: `Strings` says of each buffer which
packet's string it holds (`Cut`, the packet up to its first zero byte), and
`Passed` that no slot the search has passed held the sender, which makes
`SenderFound` inductive. The lemmas below it are about operators:
`Least`, the least-number principle for a set, drawn from the library's theorem that
`<` is well-founded, from which `StrlenFirst` says what `strlen` finds;
`CopiedString` and `CutString` on copies; `CleanString`, that the string of a clean packet is
all of it; `IdFromBytes` and `UnpackExact`, that unpacking undoes formatting;
`SentExact`, that the address `LoRa_BurstWrite` puts before a packet is not
counted; and `BeginsSame`, that of two clean packets one begins with the other only if
they are the same, provided that it has a text.

`Sx1278_proof` proves, for every set of frames and packets and every
`TX_TIME_OUT > 0`, from `DriverAssumption` alone:

* `DriverTypeCorrect`: `Spec => []TypeOK`
* `RxDoneHandled`: `Spec => []FlagHandled`
* `RadioListens`: `Spec => []Listening`

Its `IndInv` adds to the types: `TimeoutOK`, for the countdown of the
transmission leaves the loop at zero and must not pass it; `Settled`, which says where a
thread cannot be inside `LoRa_gotoMode`; `Exclusive`, the heart: unless
crossed, no reception is under way while the gateway changes the mode or transmits;
from it `SavedListening`, the mode `LoRa_transmit` will restore, and
`ModeListening`, where `mode`, `current_mode` and a mode change half done stand
at each place of the handler. `Listening` is its last case. `ChipKeeps`,
`HandlerKeeps`, `WorkKeeps`, `CallKeeps`, `BeginKeeps`, `DetectChannelKeeps`
and `SendKeeps` treat the actions, three schematic lemmas (`ChangeModeKeeps`,
`TestKeeps`, `ClearFlagsKeeps`) the many like steps of `LoRa_transmit`.

Three more are about frames:

* `TransmittedWhole`: `Spec => []SentWhole`
* `NewFramesReceived`: `Spec => []Received`
* `DeliveryImplemented`: `Spec => DeliverySpec`, the refinement

Their invariant `FrameInv`, on top of `IndInv`, follows a packet and a frame on their ways. `Sending`:
at each place of `LoRa_transmit` whether TxDone is down, where the chip's pointer is and that its memory holds the
packet; thus a TxDone found later is this packet's. `Flight`: the frame owed to
the gateway is in exactly one place, the chip, `cache_buffer`, `receive_buffer` or `buff`,
and whoever holds it is the only one at work on it (`OneAtATime`, `InHandler`, `InWorkItem`, `AtGateway`);
`Fate` is what the work item's comparisons will decide. One lemma for the chip, the handler, the
work item, the calls and the transmission each. They promise nothing once frames cross a mode change or rush
the gateway, as the properties say.

For the refinement two more facts are needed: `Signalled`, that a signal stands only while a
frame is due, so that nothing is read twice; and `TakenInv`, that only a process in
the middle of a read has a frame. `FrameDelivers` shows that a frame that comes is due, or no new one, or voids the
promise; `CallDelivers` that a read takes what is due and its use ends it; `OthersDeliver`
that chip, handler, work item and transmission are stutters, which is the point: none of the
intermediate buffers can be seen.

`Sx1278Device_proof` proves, whichever steps fail and in whatever order the module, the
device, the handler, the work item and a process come and go:

* `HoldsExact`: `Spec => []HeldExact`
* `StaysLive`: `Spec => []UsesLive`
* `ReleasesOnce`: `Spec => []ReleasedOnce`
* `LeavesQuiet`: `Spec => []Quiet`

`Has(pc, x)` is what should be held at each step of each routine, computed from the orders:
an acquiring routine has what comes before its step, a releasing one what comes from there on. `HoldInv`
has three parts: `HeldInv`, `held` is just that, but for what was missed unnoticed and a refused
interrupt; `MissedInv`, what can have been missed where (a device is bound without `dio0`
never, for `request_irq` fails then, without class, node or reset line it is); and `OverInv`, which is
`ReleasedOnce` with it: the last release found what `Has` says, but for what was missed. `ChipInv` is about the chip when nobody
listens: once a ladder has passed its step `reset` (`HeldDown`), and from then on while the device is unbound
(`Deserted`), the chip is in reset, where no handler or call can set it to receive, or there was
no line to pull; and then it does not receive either, unless something was `late`. `WorkInv`: handler and work item are active only where the interrupt
is held or waited for (`Interruptible`), and after remove or shutdown has put the chip to sleep
(`Asleep`) not at all, unless `late`. `FileInv`: no open file while the module loads or
goes, and none without the struct. Of each routine it is first said which step is which number (`ProbeSteps`...),
then where each action leads (`OnwardLeads`, `FailLeads`, `ReleaseLeads`, `OthersLead`; `Onward` is a step
that succeeds or fails unnoticed) and what that adds to `Has` or takes from it (`OnwardHas`...): the
ladder's labels are right because a failing step jumps to where `Has` is the same.

`NodeFile_proof` proves, for every set of ids, every first file and every heap:

* `FileTypes`: `Spec => []TypeOK`
* `RestartFinds`: `Spec => []RestartExact`
* `RestartSame`: `Spec => [](pc = "idle" /\ file # NoFile /\ IsInjective(known) => nodes = known)`
* `FileKeepsStep`: `Spec => []FileInStep`

`FileInv` says what memory, file and disk hold at each place: between two rewritings all
the same, during one the slots written so far. What a start does with a file cannot be
said by a recursive function here, for nothing could be proved of it; `Order`, which id comes first before
which, is a set and decides a list without repetitions (`OrderDecides`). A token seen before leaves it alone
(`RepeatedToken`), a new one goes from the buffer to the list (`NewToken`), so that
`Order(nodes \o buffer)` is constant during a load.

`Sx1278Settings_proof` proves, for any number of processes and every mix of ioctls and values in the
ranges of `sx1278.h`:

* `BitsKept`: `Spec => []RestKept`
* `SettingsRight`: `Spec => []SettingsExact`
* `LowDataRateRight`: `Spec => []LowDataRateFits`

First what each setter does to a byte (`BandWidthBits` to `OpModeBits`, `TakenBits`, `FrBits`), and
`OptimizedFits`, that for every spreading factor and bandwidth the bit `LoRa_setAutoLDO` computes is right for what the chip gets. The
invariant has three parts. `RestInv`: types, the bits no ioctl sets, in the registers and in the
bytes about to be written, and where an ioctl can be. `History`: of two calls that run at once each
knows what the other may spoil; hence a setting that is not in `hit` is nobody else's to write
(`NoOther`). `SettingInv`: `Own`, how far a call has come with a setting of its own; and `Kept`, that
a setting nobody is about to change is exact, and so are the copies of its bits in the bytes
others will write back. Steps either leave a setting alone (`GoesUntouched`, `IoctlUntouched`),
bring their own on (`OwnGoes`), or write one back (`WrittenBack`).

`Ssd1306_proof` proves, for every size of the display, every choice of lines and all texts
within `DisplayAssumption`:

* `ShowsExact`: `Spec => []RowsExact`
* `LeavesNothing`: `Spec => []NothingLeft`

`Inv` has, besides types, four parts. `PlaceOK`: which operations belong to which call, and how
far `n` may have come; from it, that no text runs into the next row. `Follows`: what a thread that is undisturbed
knows, where the chip writes next (`FollowsGoto`, `FollowsBlanks`, `FollowsText`) and which
cells already hold its blanks and characters (`RowBlanked`, `Texted`, `AllBlanked`). For a clear that
is a matter of going round: `Behind` is how many cells ago a cell of the window was
written, and `BehindNext` that each step of the chip adds one to it and gives the cell just written none.
`RowOK`, the heart: a row agrees with `shown`, or somebody prints there now who will
make it agree, or who was disturbed and will give it up. `TimeCovers`: nothing stands in the row of the time to the right
of the time, so that printing it without clearing the row is right. `LifeInv` and
`CallersInv`: what of timer, handler and work item there is in each phase, and which callers rest; a
probe, which resets the cursor, thus finds nobody in the middle of a line. One lemma each for
the calls that begin, the moves, the data and the returns, for the thread itself
(`CallFollows`), for the others (`OthersFollow`) and for the rows (`CallRows`).
The attempt corrected the model: `shown` used to forget what a row held before a string or
the time came over it, and the run, with `GoodBye!` on the wrong kind of row, could not tell.

Only model-checked: the liveness properties. They
(`ReportAcked`, `CommandsServed`, `RoundRobin`, `TransmitEnds`, `Refreshed`, `SearchEnds`)
are outside what the prover can do: none of its backends reasons about ENABLED.

## 5. Not modelled, and why

* The start of the program: a signal sent before its handler is installed ends a
  process or is lost, and a child that cannot bind its port exits. A child
  that has outlived a parent ended by `kill -INT` still holds the port, so that the
  next gateway's child exits, and SIGCHLD takes that gateway with it: restarts of the whole program
  are modelled for the node file and the radio driver only.
* Readings and schedules in the slots, the response-time average, `printf`: the
  program decides nothing on them.
* The text of an id in `one_node[11]` (`main.c:516`) and of a schedule in its buffer
  (`main.c:305`): ids of at most nine digits and numbers of two are
  assumed to be what the program gets.
* Writes of the program into slots outside the block: they damage other heap
  data, beyond any state of this model.
* What a call does to a NULL or freed buffer of the radio driver, or to a file whose
  device has gone, and what the kernel does when an error pointer is put back or destroyed
  (`Sx1278Device` records that it happens); GET_RSSI and GET_STATUS, which
  change nothing; a device file that cannot be opened.
* The register mutex taken by a hard interrupt handler (`sx1278.c:413`): the
  model has the handler as a thread, see above. `lora->task` read twice (`sx1278.c:102`): the work
  item's test and its signal are one step.
* In the display driver: what else a worker that died breaks, what mixed commands do to the chip, bus errors, the
  raw write of `oled_write`, which nothing calls, fonts and number formats, and the
  text of the CPU temperature.
* The display and Firebase clients (`Src/oled.c`, `Src/firebase.c`): the gateway
  decides nothing on what these calls return.
* Build files, init script and device tree have no behaviour to model.

## 6. Plan

Written, in this order: the protocol between the two processes, which is
the core of the program, with its proof; the node file; the radio driver, with
its proof; the display driver; `Handshake` and the proof that it is implemented;
the packets as bytes, with their proof; the life and the settings of the radio
driver; the registry, the rounds, the commands, the client's picture, the node
file, the frames and the settings proved; the display driver and the life of the radio driver
proved; `Delivery` and the proof that it is implemented.

Every safety and action property of the runs is now a theorem, but for `DocumentedResponseAnswers`,
which the code violates. What could follow:

1. `Gateway` over `Delivery`: its `FrameArrives` as `Come`, so that the promise of the
   driver becomes what the gateway assumes.
2. The restart of the whole program with a child of the last one still at the port.
