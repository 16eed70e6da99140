------------------------------- MODULE Sx1278 -------------------------------
(***************************************************************************)
(* The radio driver (Driver/sx1278.c): the gateway's thread inside read,   *)
(* write and ioctl, the interrupt handler get_message and the work item    *)
(* workqueue_fn share one chip and three buffers.  A mutex covers a single *)
(* register access and nothing more; the steps below are those accesses.   *)
(*                                                                         *)
(* A buffer is filled in two steps, as the code does it: memset, then the  *)
(* bytes.  Whoever looks in between finds it empty.                        *)
(***************************************************************************)
EXTENDS Naturals

CONSTANTS Frames,      \* what other radios send, echoes of Packets included
          Packets,     \* what the gateway sends
          Empty,       \* a buffer of zeros
          TX_TIME_OUT,
          Restarts     \* bound: may the gateway end, and start again?

ASSUME DriverAssumption ==
  /\ TX_TIME_OUT \in Nat \ {0}
  /\ Empty \notin Frames \cup Packets
  /\ Restarts \in BOOLEAN

Modes == {"SLEEP", "STANDBY", "TRANSMIT", "RXCONTINUOUS", "CAD"}
IrqFlags == {"RxDone", "TxDone", "CadDone", "CadDetected"}
Areas == {"tx", "rx"}
Threads == {"app", "irq"}
NoMode == "none"

Contents == Frames \cup Packets \cup {Empty}

\* strncmp(b, c, strlen(b)) = 0.
Begins(b, c) == b = Empty \/ b = c

VARIABLES
  mode,            \* RegOpMode
  flags,           \* RegIrqFlags
  fifo,            \* the FIFO's two areas
  ptr,             \* RegFiFoAddPtr: the area it points into
  edge,            \* DIO0 has risen and the handler has not started
  current_mode,
  goto,            \* per thread: LoRa_gotoMode has set current_mode, not yet the chip
  cache_buffer, receive_buffer, transmit_buffer,
  task,            \* "none", "process", or "gone": registered by a process that died
  app, irq, work,  \* where each thread is
  scheduled,       \* schedule_work, and the work item has not started
  saved,           \* mode in LoRa_transmit
  timeout,
  rx_sig,          \* SIGUSR1 delivered or pending
  buff,            \* what the gateway has read
  owed,            \* history: the last new frame, until the process has read it
  crossed,         \* history: a reception and a mode change of the gateway met
  rushed           \* history: a frame came before the last was dealt with

chip_vars == <<mode, flags, fifo, ptr, edge>>
mode_vars == <<mode, current_mode, goto>>
buffers   == <<cache_buffer, receive_buffer, transmit_buffer>>
tx_vars   == <<saved, timeout>>
history   == <<owed, crossed, rushed>>
vars == <<chip_vars, current_mode, goto, buffers, task, app, irq, work,
          scheduled, tx_vars, rx_sig, buff, history>>

Transmit == {"copy", "save", "standby", "cad", "poll_cad", "detected", "busy",
             "clear", "fill", "pointer", "burst", "transmit", "poll_tx", "sent",
             "restore"}
Handler == {"flags", "clear", "pointer", "fifo", "resume", "resume_frame",
            "return", "schedule"}
WorkItem == {"compare", "drop", "clear", "store", "signal"}

TypeOK ==
  /\ mode \in Modes /\ current_mode \in Modes /\ saved \in Modes
  /\ flags \subseteq IrqFlags
  /\ fifo \in [Areas -> Contents] /\ ptr \in Areas
  /\ goto \in [Threads -> Modes \cup {NoMode}]
  /\ cache_buffer \in Contents /\ receive_buffer \in Contents
  /\ transmit_buffer \in Contents /\ buff \in Contents /\ owed \in Contents
  /\ task \in {"none", "process", "gone"}
  /\ app \in {"off", "register", "unregister", "idle", "read"} \cup Transmit
  /\ irq \in {"idle"} \cup Handler
  /\ work \in {"idle"} \cup WorkItem
  /\ timeout \in 0 .. TX_TIME_OUT
  /\ edge \in BOOLEAN /\ scheduled \in BOOLEAN /\ rx_sig \in BOOLEAN
  /\ crossed \in BOOLEAN /\ rushed \in BOOLEAN

\* As LoRa_init and sx1278_probe leave chip and driver.
Init ==
  /\ mode = "SLEEP" /\ flags = {} /\ ptr = "rx" /\ edge = FALSE
  /\ fifo = [a \in Areas |-> Empty]
  /\ current_mode = "SLEEP" /\ goto = [t \in Threads |-> NoMode]
  /\ cache_buffer = Empty /\ receive_buffer = Empty /\ transmit_buffer = Empty
  /\ task = "none" /\ app = "off" /\ irq = "idle" /\ work = "idle"
  /\ scheduled = FALSE /\ rx_sig = FALSE /\ buff = Empty
  /\ saved = "SLEEP" /\ timeout = TX_TIME_OUT /\ owed = Empty
  /\ crossed = FALSE /\ rushed = FALSE

-----------------------------------------------------------------------------
(* LoRa_gotoMode: current_mode first, then the chip. *)

\* A thread is not between the two.
At(t) == goto[t] = NoMode

GotoMode(t, m) ==
  /\ current_mode' = m
  /\ goto' = [goto EXCEPT ![t] = m]
  /\ UNCHANGED mode

WriteMode(t) ==
  /\ goto[t] # NoMode
  /\ mode' = goto[t]
  /\ goto' = [goto EXCEPT ![t] = NoMode]
  /\ UNCHANGED <<flags, fifo, ptr, edge, current_mode, buffers, task, app, irq,
                 work, scheduled, tx_vars, rx_sig, buff, history>>

Receiving == edge \/ irq # "idle"

\* The frame before has not been read, or found to be no new one.
Pending ==
  \/ Receiving \/ scheduled \/ work # "idle"
  \/ rx_sig \/ app = "read"

-----------------------------------------------------------------------------
(* The chip. *)

\* The registered process is to be told of it.
New(f) ==
  /\ task = "process"
  /\ f \notin {transmit_buffer, receive_buffer}

FrameArrives(f) ==
  /\ mode = "RXCONTINUOUS"
  /\ flags' = flags \cup {"RxDone"}
  /\ edge' = (edge \/ "RxDone" \notin flags)
  /\ fifo' = [fifo EXCEPT !["rx"] = f]
  /\ owed' = IF New(f) THEN f ELSE owed
  /\ rushed' = (Pending \/ (rushed /\ ~New(f)))
  /\ crossed' = (crossed \/ app \in Transmit \/ goto["app"] # NoMode)
  /\ UNCHANGED <<mode, ptr, current_mode, goto, buffers, task, app, irq, work,
                 scheduled, tx_vars, rx_sig, buff>>

\* The channel is busy or free; the chip goes to standby.
CadEnds(detected) ==
  /\ mode = "CAD"
  /\ flags' = flags \cup {"CadDone"} \cup (IF detected THEN {"CadDetected"} ELSE {})
  /\ mode' = "STANDBY"
  /\ UNCHANGED <<fifo, ptr, edge, current_mode, goto, buffers, task, app, irq,
                 work, scheduled, tx_vars, rx_sig, buff, history>>

\* The transmission has ended; the chip goes to standby.
TxEnds ==
  /\ mode = "TRANSMIT"
  /\ flags' = flags \cup {"TxDone"}
  /\ mode' = "STANDBY"
  /\ UNCHANGED <<fifo, ptr, edge, current_mode, goto, buffers, task, app, irq,
                 work, scheduled, tx_vars, rx_sig, buff, history>>

Chip ==
  \/ \E f \in Frames : FrameArrives(f)
  \/ \E d \in BOOLEAN : CadEnds(d)
  \/ TxEnds

-----------------------------------------------------------------------------
(* The interrupt handler: get_message, LoRa_receive. *)

irq_keeps == <<ptr, transmit_buffer, receive_buffer, task, app, work, tx_vars,
               rx_sig, buff, history>>

Interrupt ==
  /\ edge /\ irq = "idle"
  /\ edge' = FALSE
  /\ GotoMode("irq", "STANDBY")
  /\ irq' = "flags"
  /\ UNCHANGED <<irq_keeps, flags, fifo, cache_buffer, scheduled>>

TestRxDone ==
  /\ irq = "flags" /\ At("irq")
  /\ irq' = IF "RxDone" \in flags THEN "clear" ELSE "resume"
  /\ UNCHANGED <<irq_keeps, mode_vars, flags, fifo, edge, cache_buffer, scheduled>>

\* Mutant: only the next transmission clears the flags.
ClearRxDoneForgotten ==
  /\ irq = "clear"
  /\ irq' = "pointer"
  /\ UNCHANGED <<irq_keeps, mode_vars, flags, fifo, edge, cache_buffer, scheduled>>

ClearRxDone ==
  /\ irq = "clear"
  /\ flags' = {}
  /\ irq' = "pointer"
  /\ UNCHANGED <<irq_keeps, mode_vars, fifo, edge, cache_buffer, scheduled>>

\* RegFiFoAddPtr, then memset of the buffer.
PointAtFrame ==
  /\ irq = "pointer"
  /\ ptr' = "rx"
  /\ cache_buffer' = Empty
  /\ irq' = "fifo"
  /\ UNCHANGED <<transmit_buffer, receive_buffer, task, app, work, tx_vars, rx_sig,
                 buff, history, mode_vars, flags, fifo, edge, scheduled>>

\* The loop over RegFifo.
ReadFifo ==
  /\ irq = "fifo"
  /\ cache_buffer' = fifo[ptr]
  /\ irq' = "resume_frame"
  /\ UNCHANGED <<irq_keeps, mode_vars, flags, fifo, edge, scheduled>>

\* LoRa_startReceiving.
StartReceiving ==
  /\ irq \in {"resume", "resume_frame"}
  /\ GotoMode("irq", "RXCONTINUOUS")
  /\ irq' = IF irq = "resume" THEN "return" ELSE "schedule"
  /\ UNCHANGED <<irq_keeps, flags, fifo, edge, cache_buffer, scheduled>>

\* schedule_work if there was a frame; IRQ_HANDLED.
HandlerReturns ==
  /\ irq \in {"return", "schedule"} /\ At("irq")
  /\ scheduled' = (scheduled \/ irq = "schedule")
  /\ irq' = "idle"
  /\ UNCHANGED <<irq_keeps, mode_vars, flags, fifo, edge, cache_buffer>>

get_message ==
  \/ Interrupt \/ TestRxDone \/ ClearRxDone \/ PointAtFrame \/ ReadFifo
  \/ StartReceiving \/ HandlerReturns \/ WriteMode("irq")

-----------------------------------------------------------------------------
(* The work item: workqueue_fn. *)

work_keeps == <<chip_vars, current_mode, goto, transmit_buffer, task, app, irq,
                tx_vars, buff, history>>

\* Nothing but an echo of the gateway's own packet, or nothing at all?
TestEcho ==
  /\ scheduled /\ work = "idle"
  /\ scheduled' = FALSE
  /\ work' = IF Begins(cache_buffer, transmit_buffer) THEN "drop" ELSE "compare"
  /\ UNCHANGED <<work_keeps, cache_buffer, receive_buffer, rx_sig>>

\* Mutant: the sense of strncmp is mistaken.
TestRepetitionMistaken ==
  /\ work = "compare"
  /\ work' = IF Begins(cache_buffer, receive_buffer) THEN "clear" ELSE "drop"
  /\ UNCHANGED <<work_keeps, cache_buffer, receive_buffer, scheduled, rx_sig>>

TestRepetition ==
  /\ work = "compare"
  /\ work' = IF Begins(cache_buffer, receive_buffer) THEN "drop" ELSE "clear"
  /\ UNCHANGED <<work_keeps, cache_buffer, receive_buffer, scheduled, rx_sig>>

Drop ==
  /\ work = "drop"
  /\ cache_buffer' = Empty
  /\ work' = "idle"
  /\ UNCHANGED <<work_keeps, receive_buffer, scheduled, rx_sig>>

\* Mutant: the signal is sent before the frame is in place.
ClearReceivedSignals ==
  /\ work = "clear"
  /\ receive_buffer' = Empty
  /\ work' = "store"
  /\ rx_sig' = (rx_sig \/ task = "process")
  /\ UNCHANGED <<work_keeps, cache_buffer, scheduled>>

ClearReceived ==
  /\ work = "clear"
  /\ receive_buffer' = Empty
  /\ work' = "store"
  /\ UNCHANGED <<work_keeps, cache_buffer, scheduled, rx_sig>>

Store ==
  /\ work = "store"
  /\ receive_buffer' = cache_buffer
  /\ work' = "signal"
  /\ UNCHANGED <<work_keeps, cache_buffer, scheduled, rx_sig>>

\* SIGUSR1. What it does through a task that is gone is beyond the model.
SendSignal ==
  /\ work = "signal"
  /\ rx_sig' = (rx_sig \/ task = "process")
  /\ work' = "idle"
  /\ UNCHANGED <<work_keeps, cache_buffer, receive_buffer, scheduled>>

workqueue_fn ==
  TestEcho \/ TestRepetition \/ Drop \/ ClearReceived \/ Store \/ SendSignal

-----------------------------------------------------------------------------
(* sx1278_ioctl and sx1278_read, as the gateway calls them. *)

app_keeps == <<flags, fifo, ptr, edge, cache_buffer, irq, work, scheduled>>

\* LoRa_start: GOTO_MODE.
Start ==
  /\ app = "off" /\ At("app")
  /\ GotoMode("app", "RXCONTINUOUS")
  /\ app' = "register"
  /\ crossed' = Receiving
  /\ UNCHANGED <<app_keeps, receive_buffer, transmit_buffer, task, tx_vars, rx_sig,
                 buff, owed, rushed>>

\* RG_SIGNAL. What is under way may or may not be signalled now.
Register ==
  /\ app = "register" /\ At("app")
  /\ task' = "process"
  /\ app' = "idle"
  /\ rushed' = (rushed \/ Pending)
  /\ UNCHANGED <<app_keeps, mode_vars, receive_buffer, transmit_buffer, tx_vars,
                 rx_sig, buff, owed, crossed>>

\* sig_int: GOTO_MODE, CTL_SIGNAL, exit.
Stop ==
  /\ Restarts
  /\ app = "idle" /\ At("app")
  /\ GotoMode("app", "SLEEP")
  /\ app' = "unregister"
  /\ crossed' = (crossed \/ Receiving)
  /\ UNCHANGED <<app_keeps, receive_buffer, transmit_buffer, task, tx_vars, rx_sig,
                 buff, owed, rushed>>

Exit(t) ==
  /\ task' = t
  /\ app' = "off"
  /\ rx_sig' = FALSE /\ buff' = Empty /\ owed' = Empty
  /\ UNCHANGED <<app_keeps, mode_vars, receive_buffer, transmit_buffer, tx_vars,
                 crossed, rushed>>

Unregister == app = "unregister" /\ At("app") /\ Exit("none")

\* sig_chld, or a kill: the driver is told nothing.
Dies == Restarts /\ app = "idle" /\ At("app") /\ Exit("gone")

\* get_data_from_node: lora_receive copies what receive_buffer holds.
Read ==
  /\ app = "idle" /\ At("app")
  /\ rx_sig
  /\ buff' = receive_buffer
  /\ app' = "read"
  /\ UNCHANGED <<app_keeps, mode_vars, receive_buffer, transmit_buffer, task,
                 tx_vars, rx_sig, history>>

\* The frame is used; rx_sig = 0, a signal that was pending included.
Consume ==
  /\ app = "read"
  /\ rx_sig' = FALSE
  /\ owed' = IF buff = owed THEN Empty ELSE owed
  /\ buff' = Empty
  /\ app' = "idle"
  /\ UNCHANGED <<app_keeps, mode_vars, receive_buffer, transmit_buffer, task,
                 tx_vars, crossed, rushed>>

-----------------------------------------------------------------------------
(* sx1278_write and LoRa_transmit. *)

tx_keeps == <<edge, cache_buffer, irq, work, scheduled, receive_buffer, task,
              rx_sig, buff, owed, rushed>>

Write ==
  /\ app = "idle" /\ At("app")
  /\ transmit_buffer' = Empty
  /\ app' = "copy"
  /\ crossed' = (crossed \/ Receiving)
  /\ rushed' = (rushed \/ scheduled \/ work # "idle")
  /\ UNCHANGED <<edge, cache_buffer, irq, work, scheduled, receive_buffer, task,
                 rx_sig, buff, owed, mode_vars, flags, fifo, ptr, saved, timeout>>

CopyFromUser(x) ==
  /\ app = "copy"
  /\ transmit_buffer' = x
  /\ app' = "save"
  /\ UNCHANGED <<tx_keeps, mode_vars, flags, fifo, ptr, tx_vars, crossed>>

SaveMode ==
  /\ app = "save"
  /\ saved' = current_mode
  /\ app' = "standby"
  /\ UNCHANGED <<tx_keeps, mode_vars, flags, fifo, ptr, transmit_buffer, timeout,
                 crossed>>

\* Every LoRa_gotoMode of LoRa_transmit.
ChangeMode(from, m, to) ==
  /\ app = from /\ At("app")
  /\ GotoMode("app", m)
  /\ app' = to
  /\ UNCHANGED <<tx_keeps, flags, fifo, ptr, transmit_buffer, tx_vars, crossed>>

\* A read of RegIrqFlags that decides where to go.
Test(from, to) ==
  /\ app = from /\ At("app")
  /\ app' = to
  /\ UNCHANGED <<tx_keeps, mode_vars, flags, fifo, ptr, transmit_buffer, tx_vars,
                 crossed>>

\* RegIrqFlags = 0xFF.
ClearFlags(from, to) ==
  /\ app = from
  /\ flags' = {}
  /\ app' = to
  /\ UNCHANGED <<tx_keeps, mode_vars, fifo, ptr, transmit_buffer, tx_vars, crossed>>

\* Mutant: a busy channel is taken for a free one, and the flags are kept.
DetectChannelOnce ==
  \/ ChangeMode("standby", "STANDBY", "cad")
  \/ ChangeMode("cad", "CAD", "poll_cad")
  \/ "CadDone" \in flags /\ Test("poll_cad", "fill")

\* Listen until the channel is free.
DetectChannel ==
  \/ ChangeMode("standby", "STANDBY", "cad")
  \/ ChangeMode("cad", "CAD", "poll_cad")
  \/ "CadDone" \in flags /\ Test("poll_cad", "detected")
  \/ Test("detected", IF "CadDetected" \in flags THEN "busy" ELSE "clear")
  \/ ClearFlags("busy", "cad")
  \/ ClearFlags("clear", "fill")

PointAtTxBase ==
  /\ app = "pointer" /\ At("app")
  /\ ptr' = "tx"
  /\ app' = "burst"
  /\ UNCHANGED <<tx_keeps, mode_vars, flags, fifo, transmit_buffer, tx_vars, crossed>>

\* RegPayloadLength and LoRa_BurstWrite.
FillFifo ==
  /\ app = "burst"
  /\ fifo' = [fifo EXCEPT ![ptr] = transmit_buffer]
  /\ app' = "transmit"
  /\ UNCHANGED <<tx_keeps, mode_vars, flags, ptr, transmit_buffer, tx_vars, crossed>>

\* Mutant: "timeout-- == 0".
StillSendingLater ==
  /\ app = "poll_tx" /\ At("app")
  /\ "TxDone" \notin flags
  /\ timeout' = timeout - 1
  /\ app' = IF timeout = 0 THEN "restore" ELSE "poll_tx"
  /\ UNCHANGED <<tx_keeps, mode_vars, flags, fifo, ptr, transmit_buffer, saved,
                 crossed>>

\* Mutant: nothing is counted.
StillSendingForEver ==
  /\ app = "poll_tx" /\ At("app")
  /\ "TxDone" \notin flags
  /\ UNCHANGED <<app, timeout>>
  /\ UNCHANGED <<tx_keeps, mode_vars, flags, fifo, ptr, transmit_buffer, saved,
                 crossed>>

\* Mutant: the time-out returns at once.
StillSendingLeaves ==
  /\ app = "poll_tx" /\ At("app")
  /\ "TxDone" \notin flags
  /\ timeout' = timeout - 1
  /\ app' = IF timeout = 1 THEN "idle" ELSE "poll_tx"
  /\ UNCHANGED <<tx_keeps, mode_vars, flags, fifo, ptr, transmit_buffer, saved,
                 crossed>>

StillSending ==
  /\ app = "poll_tx" /\ At("app")
  /\ "TxDone" \notin flags
  /\ timeout' = timeout - 1
  /\ app' = IF timeout = 1 THEN "restore" ELSE "poll_tx"
  /\ UNCHANGED <<tx_keeps, mode_vars, flags, fifo, ptr, transmit_buffer, saved,
                 crossed>>

\* LoRa_transmit returns: its locals end.
Restore ==
  /\ app = "restore"
  /\ GotoMode("app", saved)
  /\ app' = "idle"
  /\ saved' = "SLEEP" /\ timeout' = TX_TIME_OUT
  /\ UNCHANGED <<tx_keeps, flags, fifo, ptr, transmit_buffer, crossed>>

Send ==
  \/ ChangeMode("fill", "STANDBY", "pointer")
  \/ PointAtTxBase
  \/ FillFifo
  \/ ChangeMode("transmit", "TRANSMIT", "poll_tx")
  \/ StillSending
  \/ "TxDone" \in flags /\ Test("poll_tx", "sent")
  \/ ClearFlags("sent", "restore")
  \/ Restore

LoRa_transmit ==
  (\E x \in Packets : CopyFromUser(x)) \/ SaveMode \/ DetectChannel \/ Send

App ==
  \/ Start \/ Register \/ Stop \/ Unregister \/ Dies
  \/ Read \/ Consume
  \/ Packets # {} /\ Write
  \/ LoRa_transmit
  \/ WriteMode("app")

-----------------------------------------------------------------------------

Next == Chip \/ get_message \/ workqueue_fn \/ App

Spec == Init /\ [][Next]_vars

\* The gateway's thread runs on; a channel found busy is found free in the end.
\* Nobody promises that a transmission ends (TxEnds).
FairSpec ==
  /\ Spec
  /\ WF_vars(LoRa_transmit \/ WriteMode("app"))
  /\ WF_vars(\E d \in BOOLEAN : CadEnds(d))
  /\ SF_vars(CadEnds(FALSE))

-----------------------------------------------------------------------------

(***************************************************************************)
(* RxDone is never left standing: as DIO0 rises on its change only, a flag *)
(* nobody will clear would silence the radio for good (LoRa_receive,       *)
(* sx1278.c:662-665; LoRa_transmit clears it too).  This holds however     *)
(* reception and transmission meet.                                        *)
(***************************************************************************)
FlagHandled == "RxDone" \in flags => edge \/ irq \in {"flags", "clear"}

(***************************************************************************)
(* Between two calls of the gateway the radio receives: a transmission     *)
(* that ends, times out or is repeated restores the mode it found          *)
(* (sx1278.c:601, 637, 644), and so does the interrupt handler.  Where the *)
(* two met, the saved mode may be the handler's STANDBY: only a restart    *)
(* helps then.                                                             *)
(***************************************************************************)
Listening ==
  /\ ~crossed
  /\ app = "idle" /\ irq = "idle" /\ At("app")
  => mode = "RXCONTINUOUS" /\ current_mode = "RXCONTINUOUS"

(***************************************************************************)
(* LoRa_transmit reports success for a packet the chip has really sent:    *)
(* not because of a TxDone that an earlier transmission left behind when   *)
(* it timed out, and not with a frame or an older packet in the FIFO       *)
(* (sx1278.c:619-636).                                                     *)
(***************************************************************************)
SentWhole ==
  app = "sent" /\ ~crossed => mode = "STANDBY" /\ fifo["tx"] = transmit_buffer

\* Where module Delivery sees the process, the frame that is due, and the one taken.
Driver ==
  INSTANCE Delivery WITH Frames <- Frames, Nothing <- Empty,
    listening <- app \notin {"off", "register"}, due <- owed, taken <- buff,
    void <- crossed \/ rushed

(***************************************************************************)
(* The driver implements Delivery: handler, work item, buffers and signal  *)
(* bring each new frame to the gateway as it came, whole, once, and before *)
(* the next (get_message, workqueue_fn, sx1278_read, which takes no lock), *)
(* and no signal comes without one; as long as frames leave the gateway    *)
(* its time and do not cross a mode change.                                *)
(***************************************************************************)
DeliverySpec == Driver!Spec

(***************************************************************************)
(* No new frame is lost: once interrupt, work item and gateway have done   *)
(* what there was to do, the last new frame has been read, and whatever    *)
(* came after it was an echo or the same frame again (sx1278.c:93-111).    *)
(***************************************************************************)
Received == ~Pending /\ ~crossed /\ ~rushed => owed = Empty

(***************************************************************************)
(* write() returns: a busy channel, a transmission that never ends or both *)
(* cost time but do not keep the gateway in the kernel (sx1278.c:605-647). *)
(* An interrupt handler in the middle may: CadDone never comes then.       *)
(***************************************************************************)
TransmitEnds == app \in Transmit ~> app \notin Transmit \/ crossed

=============================================================================
