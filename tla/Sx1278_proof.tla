---------------------------- MODULE Sx1278_proof ----------------------------
(***************************************************************************)
(* What is proved of Sx1278: type correctness, that no RxDone is left      *)
(* standing, that the radio receives between the gateway's calls, that a   *)
(* packet reported as sent has been sent whole, and that a new frame is    *)
(* neither lost, torn nor mistaken for the one before.  IndInv is for the  *)
(* first three, FrameInv follows the packet and the frame on their ways.   *)
(***************************************************************************)
EXTENDS Sx1278, TLAPS

\* TypeOK in three parts.
TypeControl ==
  /\ mode \in Modes /\ current_mode \in Modes /\ saved \in Modes
  /\ flags \subseteq IrqFlags
  /\ goto \in [Threads -> Modes \cup {NoMode}]
  /\ task \in {"none", "process", "gone"}
  /\ app \in {"off", "register", "unregister", "idle", "read"} \cup Transmit
  /\ irq \in {"idle"} \cup Handler
  /\ work \in {"idle"} \cup WorkItem
  /\ timeout \in 0 .. TX_TIME_OUT

TypeData ==
  /\ fifo \in [Areas -> Contents] /\ ptr \in Areas
  /\ cache_buffer \in Contents /\ receive_buffer \in Contents
  /\ transmit_buffer \in Contents /\ buff \in Contents /\ owed \in Contents

TypeBooleans ==
  /\ edge \in BOOLEAN /\ scheduled \in BOOLEAN /\ rx_sig \in BOOLEAN
  /\ crossed \in BOOLEAN /\ rushed \in BOOLEAN

\* The count of the time-out ends a transmission before it can pass zero.
TimeoutOK == app # "restore" => timeout > 0

\* A thread that has returned, or is about to use the buffers, is not in the
\* middle of LoRa_gotoMode.
Settled ==
  /\ irq = "idle" => At("irq")
  /\ app \in {"copy", "save", "read"} => At("app")

\* Without a crossing, the gateway's mode changes and receptions exclude each
\* other.
Exclusive ==
  ~crossed /\ (app \in Transmit \/ ~At("app")) => ~Receiving

\* LoRa_transmit will restore RXCONTINUOUS.
SavedListening ==
  ~crossed /\ app \in Transmit \ {"copy", "save"} => saved = "RXCONTINUOUS"

\* Outside LoRa_transmit the mode is RXCONTINUOUS, or on its way there.
ModeListening ==
  ~crossed /\ app \in {"idle", "register", "read", "copy", "save"} =>
    /\ goto["app"] \in {NoMode, "RXCONTINUOUS"}
    /\ irq \in {"idle", "return", "schedule"} => current_mode = "RXCONTINUOUS"
    /\ irq = "idle" /\ At("app") => mode = "RXCONTINUOUS"
    /\ irq \in {"return", "schedule"} =>
         \/ At("irq") /\ mode = "RXCONTINUOUS"
         \/ goto["irq"] = "RXCONTINUOUS"

\* What the three threads and the chip keep to.
Protocol ==
  /\ TimeoutOK /\ FlagHandled /\ Settled
  /\ Exclusive /\ SavedListening /\ ModeListening

IndInv ==
  /\ TypeControl /\ TypeData /\ TypeBooleans
  /\ Protocol

\* What the proof of a step needs of the sets of values.
USE DEF Modes, IrqFlags, Areas, Threads, NoMode, Transmit, Handler, WorkItem,
        mode_vars, tx_vars, history, At

-----------------------------------------------------------------------------

LEMMA TypeParts == TypeControl /\ TypeData /\ TypeBooleans => TypeOK
  BY DEF TypeOK, TypeControl, TypeData, TypeBooleans

LEMMA InitInv == Init => IndInv
<1> SUFFICES ASSUME Init PROVE IndInv
  OBVIOUS
<1>1. TX_TIME_OUT \in Nat /\ TX_TIME_OUT > 0
  BY DriverAssumption
<1>2. app = "off" /\ irq = "idle" /\ flags = {} /\ timeout = TX_TIME_OUT
  BY DEF Init
<1>3. \A t \in Threads : At(t)
  BY DEF Init
<1>4. TypeControl
  BY <1>1 DEF Init, TypeControl
<1>5. TypeData
  BY DEF Init, TypeData, Contents
<1>6. TypeBooleans
  BY DEF Init, TypeBooleans
<1>7. TimeoutOK /\ FlagHandled /\ Settled
  BY <1>1, <1>2, <1>3 DEF TimeoutOK, FlagHandled, Settled
<1>8. Exclusive
  BY <1>2, <1>3 DEF Init, Exclusive, Receiving
<1>9. SavedListening /\ ModeListening
  BY <1>2 DEF SavedListening, ModeListening
<1> QED
  BY <1>4, <1>5, <1>6, <1>7, <1>8, <1>9 DEF IndInv, Protocol

\* The chip: FlagHandled needs the edge, ModeListening that CAD and TRANSMIT
\* are not RXCONTINUOUS.
LEMMA ChipKeeps == IndInv /\ Chip => IndInv'
<1> SUFFICES ASSUME IndInv, Chip PROVE IndInv'
  OBVIOUS
<1> USE DriverAssumption
<1>1. CASE \E f \in Frames : FrameArrives(f)
  <2>1. TypeControl' /\ TypeData'
    BY <1>1 DEF IndInv, Protocol, TypeControl, TypeData, Contents, TimeoutOK,
       FrameArrives, New, Pending, Receiving, buffers
  <2>2. TypeBooleans'
    BY <1>1, Zenon DEF IndInv, TypeBooleans, FrameArrives, New, Pending,
       Receiving, buffers
  <2>3. Protocol'
    BY <1>1 DEF IndInv, Protocol, TypeControl, TimeoutOK, FlagHandled, Settled,
       Exclusive, SavedListening, ModeListening, FrameArrives, New, Pending,
       Receiving, buffers
  <2> QED
    BY <2>1, <2>2, <2>3 DEF IndInv
<1>2. CASE \E d \in BOOLEAN : CadEnds(d)
  <2>1. TypeControl' /\ TypeData'
    BY <1>2 DEF IndInv, Protocol, TypeControl, TypeData, Contents, TimeoutOK,
       CadEnds, buffers
  <2>2. TypeBooleans'
    BY <1>2, Zenon DEF IndInv, TypeBooleans, CadEnds, buffers
  <2>3. Protocol'
    BY <1>2 DEF IndInv, Protocol, TypeControl, TimeoutOK, FlagHandled, Settled,
       Exclusive, SavedListening, ModeListening, CadEnds, buffers, Receiving
  <2> QED
    BY <2>1, <2>2, <2>3 DEF IndInv
<1>3. CASE TxEnds
  <2>1. TypeControl' /\ TypeData'
    BY <1>3 DEF IndInv, Protocol, TypeControl, TypeData, Contents, TimeoutOK,
       TxEnds, buffers
  <2>2. TypeBooleans'
    BY <1>3, Zenon DEF IndInv, TypeBooleans, TxEnds, buffers
  <2>3. Protocol'
    BY <1>3 DEF IndInv, Protocol, TypeControl, TimeoutOK, FlagHandled, Settled,
       Exclusive, SavedListening, ModeListening, TxEnds, buffers, Receiving
  <2> QED
    BY <2>1, <2>2, <2>3 DEF IndInv
<1> QED
  BY <1>1, <1>2, <1>3 DEF Chip

\* The interrupt handler.
LEMMA HandlerKeeps == IndInv /\ get_message => IndInv'
<1> SUFFICES ASSUME IndInv, get_message PROVE IndInv'
  OBVIOUS
<1> USE DriverAssumption
<1>1. CASE Interrupt
  <2>1. TypeControl' /\ TypeData'
    BY <1>1 DEF IndInv, Protocol, TypeControl, TypeData, Contents, TimeoutOK,
       Interrupt, GotoMode, irq_keeps
  <2>2. TypeBooleans'
    BY <1>1, Zenon DEF IndInv, TypeBooleans, Interrupt, GotoMode, irq_keeps
  <2>3. Protocol'
    BY <1>1 DEF IndInv, Protocol, TypeControl, TimeoutOK, FlagHandled, Settled,
       Exclusive, SavedListening, ModeListening, Interrupt, GotoMode,
       irq_keeps, Receiving
  <2> QED
    BY <2>1, <2>2, <2>3 DEF IndInv
<1>2. CASE TestRxDone
  <2>1. TypeControl' /\ TypeData'
    BY <1>2 DEF IndInv, Protocol, TypeControl, TypeData, Contents, TimeoutOK,
       TestRxDone, irq_keeps
  <2>2. TypeBooleans'
    BY <1>2, Zenon DEF IndInv, TypeBooleans, TestRxDone, irq_keeps
  <2>3. Protocol'
    BY <1>2 DEF IndInv, Protocol, TypeControl, TimeoutOK, FlagHandled, Settled,
       Exclusive, SavedListening, ModeListening, TestRxDone, irq_keeps,
       Receiving
  <2> QED
    BY <2>1, <2>2, <2>3 DEF IndInv
<1>3. CASE ClearRxDone
  <2>1. TypeControl' /\ TypeData'
    BY <1>3 DEF IndInv, Protocol, TypeControl, TypeData, Contents, TimeoutOK,
       ClearRxDone, irq_keeps
  <2>2. TypeBooleans'
    BY <1>3, Zenon DEF IndInv, TypeBooleans, ClearRxDone, irq_keeps
  <2>3. Protocol'
    BY <1>3 DEF IndInv, Protocol, TypeControl, TimeoutOK, FlagHandled, Settled,
       Exclusive, SavedListening, ModeListening, ClearRxDone, irq_keeps,
       Receiving
  <2> QED
    BY <2>1, <2>2, <2>3 DEF IndInv
<1>4. CASE PointAtFrame
  <2>1. TypeControl' /\ TypeData'
    BY <1>4 DEF IndInv, Protocol, TypeControl, TypeData, Contents, TimeoutOK,
       PointAtFrame
  <2>2. TypeBooleans'
    BY <1>4, Zenon DEF IndInv, TypeBooleans, PointAtFrame
  <2>3. Protocol'
    BY <1>4 DEF IndInv, Protocol, TypeControl, TimeoutOK, FlagHandled, Settled,
       Exclusive, SavedListening, ModeListening, PointAtFrame, Receiving
  <2> QED
    BY <2>1, <2>2, <2>3 DEF IndInv
<1>5. CASE ReadFifo
  <2>1. TypeControl' /\ TypeData'
    BY <1>5 DEF IndInv, Protocol, TypeControl, TypeData, Contents, TimeoutOK,
       ReadFifo, irq_keeps
  <2>2. TypeBooleans'
    BY <1>5, Zenon DEF IndInv, TypeBooleans, ReadFifo, irq_keeps
  <2>3. Protocol'
    BY <1>5 DEF IndInv, Protocol, TypeControl, TimeoutOK, FlagHandled, Settled,
       Exclusive, SavedListening, ModeListening, ReadFifo, irq_keeps, Receiving
  <2> QED
    BY <2>1, <2>2, <2>3 DEF IndInv
<1>6. CASE StartReceiving
  <2>1. TypeControl' /\ TypeData'
    BY <1>6 DEF IndInv, Protocol, TypeControl, TypeData, Contents, TimeoutOK,
       StartReceiving, GotoMode, irq_keeps
  <2>2. TypeBooleans'
    BY <1>6, Zenon DEF IndInv, TypeBooleans, StartReceiving, GotoMode,
       irq_keeps
  <2>3. Protocol'
    BY <1>6 DEF IndInv, Protocol, TypeControl, TimeoutOK, FlagHandled, Settled,
       Exclusive, SavedListening, ModeListening, StartReceiving, GotoMode,
       irq_keeps, Receiving
  <2> QED
    BY <2>1, <2>2, <2>3 DEF IndInv
<1>7. CASE HandlerReturns
  <2>1. TypeControl' /\ TypeData'
    BY <1>7 DEF IndInv, Protocol, TypeControl, TypeData, Contents, TimeoutOK,
       HandlerReturns, irq_keeps
  <2>2. TypeBooleans'
    BY <1>7, Zenon DEF IndInv, TypeBooleans, HandlerReturns, irq_keeps
  <2>3. Protocol'
    BY <1>7 DEF IndInv, Protocol, TypeControl, TimeoutOK, FlagHandled, Settled,
       Exclusive, SavedListening, ModeListening, HandlerReturns, irq_keeps,
       Receiving
  <2> QED
    BY <2>1, <2>2, <2>3 DEF IndInv
<1>8. CASE WriteMode("irq")
  <2>1. TypeControl' /\ TypeData'
    BY <1>8 DEF IndInv, Protocol, TypeControl, TypeData, Contents, TimeoutOK,
       WriteMode, buffers
  <2>2. TypeBooleans'
    BY <1>8, Zenon DEF IndInv, TypeBooleans, WriteMode, buffers
  <2>3. TimeoutOK' /\ FlagHandled' /\ Settled' /\ Exclusive' /\ SavedListening'
    BY <1>8 DEF IndInv, Protocol, TypeControl, TimeoutOK, FlagHandled, Settled,
       Exclusive, SavedListening, WriteMode, buffers, Receiving
  <2>4. ModeListening'
    BY <1>8 DEF IndInv, Protocol, TypeControl, Settled, Exclusive,
       ModeListening, WriteMode, buffers, Receiving
  <2> QED
    BY <2>1, <2>2, <2>3, <2>4 DEF IndInv, Protocol
<1> QED
  BY <1>1, <1>2, <1>3, <1>4, <1>5, <1>6, <1>7, <1>8 DEF get_message

\* The work item touches nothing but two buffers and rx_sig.
LEMMA WorkKeeps == IndInv /\ workqueue_fn => IndInv'
<1> SUFFICES ASSUME IndInv, workqueue_fn PROVE IndInv'
  OBVIOUS
<1>1. UNCHANGED <<mode, current_mode, saved, flags, goto, task, app, irq,
  timeout, fifo, ptr, edge, crossed, rushed, transmit_buffer, buff, owed>>
  BY DEF workqueue_fn, TestEcho, TestRepetition, Drop, ClearReceived, Store,
     SendSignal, work_keeps, chip_vars
<1>2. work' \in {"idle"} \cup WorkItem
  BY DEF workqueue_fn, TestEcho, TestRepetition, Drop, ClearReceived, Store,
     SendSignal, work_keeps, chip_vars
<1>3. cache_buffer' \in Contents /\ receive_buffer' \in Contents
  BY DEF IndInv, TypeData, Contents, workqueue_fn, TestEcho, TestRepetition,
     Drop, ClearReceived, Store, SendSignal, work_keeps, chip_vars
<1>4. scheduled' \in BOOLEAN /\ rx_sig' \in BOOLEAN
  BY Zenon DEF IndInv, TypeBooleans, workqueue_fn, TestEcho, TestRepetition,
     Drop, ClearReceived, Store, SendSignal, work_keeps, chip_vars
<1>5. TypeControl' /\ TypeData'
  BY <1>1, <1>2, <1>3 DEF IndInv, TypeControl, TypeData, Contents
<1>6. TypeBooleans'
  BY <1>1, <1>4 DEF IndInv, TypeBooleans
<1>7. Protocol'
  BY <1>1 DEF IndInv, Protocol, TimeoutOK, FlagHandled, Settled, Exclusive,
     SavedListening, ModeListening, Receiving
<1> QED
  BY <1>5, <1>6, <1>7 DEF IndInv

\* The gateway's calls other than write().
Call ==
  \/ Start \/ Register \/ Stop \/ Unregister \/ Dies \/ Read \/ Consume
  \/ Write \/ WriteMode("app")

LEMMA CallKeeps == IndInv /\ Call => IndInv'
<1> SUFFICES ASSUME IndInv, Call PROVE IndInv'
  OBVIOUS
<1> USE DriverAssumption
<1>1. CASE Start
  <2>1. TypeControl' /\ TypeData'
    BY <1>1 DEF IndInv, Protocol, TypeControl, TypeData, Contents, TimeoutOK,
       Start, GotoMode, Receiving, app_keeps
  <2>2. TypeBooleans'
    BY <1>1, Zenon DEF IndInv, TypeBooleans, Start, GotoMode, Receiving,
       app_keeps
  <2>3. Protocol'
    BY <1>1 DEF IndInv, Protocol, TypeControl, TimeoutOK, FlagHandled, Settled,
       Exclusive, SavedListening, ModeListening, Start, GotoMode, Receiving,
       app_keeps
  <2> QED
    BY <2>1, <2>2, <2>3 DEF IndInv
<1>2. CASE Register
  <2>1. TypeControl' /\ TypeData'
    BY <1>2 DEF IndInv, Protocol, TypeControl, TypeData, Contents, TimeoutOK,
       Register, Pending, app_keeps
  <2>2. TypeBooleans'
    BY <1>2, Zenon DEF IndInv, TypeBooleans, Register, Pending, app_keeps
  <2>3. Protocol'
    BY <1>2 DEF IndInv, Protocol, TypeControl, TimeoutOK, FlagHandled, Settled,
       Exclusive, SavedListening, ModeListening, Register, Pending, app_keeps,
       Receiving
  <2> QED
    BY <2>1, <2>2, <2>3 DEF IndInv
<1>3. CASE Stop
  <2>1. TypeControl' /\ TypeData'
    BY <1>3 DEF IndInv, Protocol, TypeControl, TypeData, Contents, TimeoutOK,
       Stop, GotoMode, app_keeps
  <2>2. TypeBooleans'
    BY <1>3, Zenon DEF IndInv, TypeBooleans, Stop, GotoMode, app_keeps
  <2>3. Protocol'
    BY <1>3 DEF IndInv, Protocol, TypeControl, TimeoutOK, FlagHandled, Settled,
       Exclusive, SavedListening, ModeListening, Stop, GotoMode, app_keeps,
       Receiving
  <2> QED
    BY <2>1, <2>2, <2>3 DEF IndInv
<1>4. CASE Unregister
  <2>1. TypeControl' /\ TypeData'
    BY <1>4 DEF IndInv, Protocol, TypeControl, TypeData, Contents, TimeoutOK,
       Unregister, Exit, app_keeps
  <2>2. TypeBooleans'
    BY <1>4, Zenon DEF IndInv, TypeBooleans, Unregister, Exit, app_keeps
  <2>3. Protocol'
    BY <1>4 DEF IndInv, Protocol, TypeControl, TimeoutOK, FlagHandled, Settled,
       Exclusive, SavedListening, ModeListening, Unregister, Exit, app_keeps,
       Receiving
  <2> QED
    BY <2>1, <2>2, <2>3 DEF IndInv
<1>5. CASE Dies
  <2>1. TypeControl' /\ TypeData'
    BY <1>5 DEF IndInv, Protocol, TypeControl, TypeData, Contents, TimeoutOK,
       Dies, Exit, app_keeps
  <2>2. TypeBooleans'
    BY <1>5, Zenon DEF IndInv, TypeBooleans, Dies, Exit, app_keeps
  <2>3. Protocol'
    BY <1>5 DEF IndInv, Protocol, TypeControl, TimeoutOK, FlagHandled, Settled,
       Exclusive, SavedListening, ModeListening, Dies, Exit, app_keeps,
       Receiving
  <2> QED
    BY <2>1, <2>2, <2>3 DEF IndInv
<1>6. CASE Read
  <2>1. TypeControl' /\ TypeData'
    BY <1>6 DEF IndInv, Protocol, TypeControl, TypeData, Contents, TimeoutOK,
       Read, app_keeps
  <2>2. TypeBooleans'
    BY <1>6, Zenon DEF IndInv, TypeBooleans, Read, app_keeps
  <2>3. Protocol'
    BY <1>6 DEF IndInv, Protocol, TypeControl, TimeoutOK, FlagHandled, Settled,
       Exclusive, SavedListening, ModeListening, Read, app_keeps, Receiving
  <2> QED
    BY <2>1, <2>2, <2>3 DEF IndInv
<1>7. CASE Consume
  <2>1. TypeControl' /\ TypeData'
    BY <1>7 DEF IndInv, Protocol, TypeControl, TypeData, Contents, TimeoutOK,
       Consume, app_keeps
  <2>2. TypeBooleans'
    BY <1>7, Zenon DEF IndInv, TypeBooleans, Consume, app_keeps
  <2>3. Protocol'
    BY <1>7 DEF IndInv, Protocol, TypeControl, TimeoutOK, FlagHandled, Settled,
       Exclusive, SavedListening, ModeListening, Consume, app_keeps, Receiving
  <2> QED
    BY <2>1, <2>2, <2>3 DEF IndInv
<1>8. CASE Write
  <2>1. TypeControl' /\ TypeData'
    BY <1>8 DEF IndInv, Protocol, TypeControl, TypeData, Contents, TimeoutOK,
       Write
  <2>2. TypeBooleans'
    BY <1>8, Zenon DEF IndInv, TypeBooleans, Write
  <2>3. Protocol'
    BY <1>8 DEF IndInv, Protocol, TypeControl, TimeoutOK, FlagHandled, Settled,
       Exclusive, SavedListening, ModeListening, Write, Receiving
  <2> QED
    BY <2>1, <2>2, <2>3 DEF IndInv
<1>9. CASE WriteMode("app")
  <2>1. TypeControl' /\ TypeData'
    BY <1>9 DEF IndInv, Protocol, TypeControl, TypeData, Contents, TimeoutOK,
       WriteMode, buffers
  <2>2. TypeBooleans'
    BY <1>9, Zenon DEF IndInv, TypeBooleans, WriteMode, buffers
  <2>3. TimeoutOK' /\ FlagHandled' /\ Settled' /\ Exclusive' /\ SavedListening'
    BY <1>9 DEF IndInv, Protocol, TypeControl, TimeoutOK, FlagHandled, Settled,
       Exclusive, SavedListening, WriteMode, buffers, Receiving
  <2>4. ModeListening'
    BY <1>9 DEF IndInv, Protocol, TypeControl, Settled, Exclusive,
       ModeListening, WriteMode, buffers, Receiving
  <2> QED
    BY <2>1, <2>2, <2>3, <2>4 DEF IndInv, Protocol
<1> QED
  BY <1>1, <1>2, <1>3, <1>4, <1>5, <1>6, <1>7, <1>8, <1>9 DEF Call

\* The three kinds of step that LoRa_transmit repeats, wherever it stands.
Later == Transmit \ {"copy", "save"}

LEMMA ChangeModeKeeps ==
  ASSUME IndInv, NEW from \in Later \ {"restore"}, NEW to \in Later \
    {"restore"}, NEW m \in Modes,
         ChangeMode(from, m, to)
  PROVE  IndInv'
<1>1. TypeControl' /\ TypeData'
  BY DEF IndInv, TypeControl, TypeData, Contents, Later, ChangeMode, GotoMode,
     tx_keeps
<1>2. TypeBooleans'
  BY Zenon DEF IndInv, TypeBooleans, ChangeMode, GotoMode, tx_keeps
<1>3. Protocol'
  BY DEF IndInv, Protocol, TypeControl, TimeoutOK, FlagHandled, Settled,
     Exclusive, SavedListening, ModeListening, Receiving, Later, ChangeMode,
     GotoMode, tx_keeps
<1> QED
  BY <1>1, <1>2, <1>3 DEF IndInv

LEMMA TestKeeps ==
  ASSUME IndInv, NEW from \in Later \ {"restore"}, NEW to \in Later,
         Test(from, to)
  PROVE  IndInv'
<1>1. TypeControl' /\ TypeData'
  BY DEF IndInv, TypeControl, TypeData, Contents, Later, Test, tx_keeps
<1>2. TypeBooleans'
  BY Zenon DEF IndInv, TypeBooleans, Test, tx_keeps
<1>3. Protocol'
  BY DEF IndInv, Protocol, TypeControl, TimeoutOK, FlagHandled, Settled,
     Exclusive, SavedListening, ModeListening, Receiving, Later, Test, tx_keeps
<1> QED
  BY <1>1, <1>2, <1>3 DEF IndInv

LEMMA ClearFlagsKeeps ==
  ASSUME IndInv, NEW from \in Later \ {"restore"}, NEW to \in Later,
         ClearFlags(from, to)
  PROVE  IndInv'
<1>1. TypeControl' /\ TypeData'
  BY DEF IndInv, TypeControl, TypeData, Contents, Later, ClearFlags, tx_keeps
<1>2. TypeBooleans'
  BY Zenon DEF IndInv, TypeBooleans, ClearFlags, tx_keeps
<1>3. Protocol'
  BY DEF IndInv, Protocol, TypeControl, TimeoutOK, FlagHandled, Settled,
     Exclusive, SavedListening, ModeListening, Receiving, Later, ClearFlags,
     tx_keeps
<1> QED
  BY <1>1, <1>2, <1>3 DEF IndInv

LEMMA DetectChannelKeeps == IndInv /\ DetectChannel => IndInv'
  BY ChangeModeKeeps, TestKeeps, ClearFlagsKeeps DEF DetectChannel, Later

\* The transmission proper.
LEMMA SendKeeps == IndInv /\ Send => IndInv'
<1> SUFFICES ASSUME IndInv, Send PROVE IndInv'
  OBVIOUS
<1> USE DriverAssumption
<1>1. CASE PointAtTxBase
  <2>1. TypeControl' /\ TypeData'
    BY <1>1 DEF IndInv, Protocol, TypeControl, TypeData, Contents, TimeoutOK,
       PointAtTxBase, tx_keeps
  <2>2. TypeBooleans'
    BY <1>1, Zenon DEF IndInv, TypeBooleans, PointAtTxBase, tx_keeps
  <2>3. Protocol'
    BY <1>1 DEF IndInv, Protocol, TypeControl, TimeoutOK, FlagHandled, Settled,
       Exclusive, SavedListening, ModeListening, PointAtTxBase, tx_keeps,
       Receiving
  <2> QED
    BY <2>1, <2>2, <2>3 DEF IndInv
<1>2. CASE FillFifo
  <2>1. TypeControl' /\ TypeData'
    BY <1>2 DEF IndInv, Protocol, TypeControl, TypeData, Contents, TimeoutOK,
       FillFifo, tx_keeps
  <2>2. TypeBooleans'
    BY <1>2, Zenon DEF IndInv, TypeBooleans, FillFifo, tx_keeps
  <2>3. Protocol'
    BY <1>2 DEF IndInv, Protocol, TypeControl, TimeoutOK, FlagHandled, Settled,
       Exclusive, SavedListening, ModeListening, FillFifo, tx_keeps, Receiving
  <2> QED
    BY <2>1, <2>2, <2>3 DEF IndInv
<1>3. CASE StillSending
  <2>1. TypeControl' /\ TypeData'
    BY <1>3 DEF IndInv, Protocol, TypeControl, TypeData, Contents, TimeoutOK,
       StillSending, tx_keeps
  <2>2. TypeBooleans'
    BY <1>3, Zenon DEF IndInv, TypeBooleans, StillSending, tx_keeps
  <2>3. Protocol'
    BY <1>3 DEF IndInv, Protocol, TypeControl, TimeoutOK, FlagHandled, Settled,
       Exclusive, SavedListening, ModeListening, StillSending, tx_keeps,
       Receiving
  <2> QED
    BY <2>1, <2>2, <2>3 DEF IndInv
<1>4. CASE Restore
  <2>1. TypeControl' /\ TypeData'
    BY <1>4 DEF IndInv, Protocol, TypeControl, TypeData, Contents, TimeoutOK,
       Restore, GotoMode, tx_keeps
  <2>2. TypeBooleans'
    BY <1>4, Zenon DEF IndInv, TypeBooleans, Restore, GotoMode, tx_keeps
  <2>3. Protocol'
    BY <1>4 DEF IndInv, Protocol, TypeControl, TimeoutOK, FlagHandled, Settled,
       Exclusive, SavedListening, ModeListening, Restore, GotoMode, tx_keeps,
       Receiving
  <2> QED
    BY <2>1, <2>2, <2>3 DEF IndInv
<1> QED
  BY <1>1, <1>2, <1>3, <1>4, ChangeModeKeeps, TestKeeps, ClearFlagsKeeps
  DEF Send, Later

\* The first two steps of LoRa_transmit; the second saves the mode.
Begin == (\E x \in Packets : CopyFromUser(x)) \/ SaveMode

LEMMA BeginKeeps == IndInv /\ Begin => IndInv'
<1> SUFFICES ASSUME IndInv, Begin PROVE IndInv'
  OBVIOUS
<1> USE DriverAssumption
<1>1. CASE \E x \in Packets : CopyFromUser(x)
  <2>1. TypeControl' /\ TypeData'
    BY <1>1 DEF IndInv, Protocol, TypeControl, TypeData, Contents, TimeoutOK,
       CopyFromUser, tx_keeps
  <2>2. TypeBooleans'
    BY <1>1, Zenon DEF IndInv, TypeBooleans, CopyFromUser, tx_keeps
  <2>3. Protocol'
    BY <1>1 DEF IndInv, Protocol, TypeControl, TimeoutOK, FlagHandled, Settled,
       Exclusive, SavedListening, ModeListening, CopyFromUser, tx_keeps,
       Receiving
  <2> QED
    BY <2>1, <2>2, <2>3 DEF IndInv
<1>2. CASE SaveMode
  <2>1. TypeControl' /\ TypeData'
    BY <1>2 DEF IndInv, Protocol, TypeControl, TypeData, Contents, TimeoutOK,
       SaveMode, tx_keeps
  <2>2. TypeBooleans'
    BY <1>2, Zenon DEF IndInv, TypeBooleans, SaveMode, tx_keeps
  <2>3. Protocol'
    BY <1>2 DEF IndInv, Protocol, TypeControl, TimeoutOK, FlagHandled, Settled,
       Exclusive, SavedListening, ModeListening, SaveMode, tx_keeps, Receiving
  <2> QED
    BY <2>1, <2>2, <2>3 DEF IndInv
<1> QED
  BY <1>1, <1>2 DEF Begin

LEMMA StepInv == IndInv /\ [Next]_vars => IndInv'
<1>1. IndInv /\ App => IndInv'
  BY CallKeeps, BeginKeeps, DetectChannelKeeps, SendKeeps
  DEF App, LoRa_transmit, Call, Begin
<1>2. IndInv /\ UNCHANGED vars => IndInv'
  BY DEF IndInv, Protocol, TypeControl, TypeData, TypeBooleans, TimeoutOK,
     FlagHandled, Settled, Exclusive, SavedListening, ModeListening, Receiving,
     vars, chip_vars, buffers
<1> QED
  BY <1>1, <1>2, ChipKeeps, HandlerKeeps, WorkKeeps DEF Next

LEMMA InvAlways == Spec => []IndInv
  BY InitInv, StepInv, PTL DEF Spec

-----------------------------------------------------------------------------

(***************************************************************************)
(* Every variable keeps its type: LoRa_transmit's count of the time-out    *)
(* (sx1278.c:642) never passes zero.                                       *)
(***************************************************************************)
THEOREM DriverTypeCorrect == Spec => []TypeOK
<1>1. IndInv => TypeOK
  BY TypeParts DEF IndInv
<1> QED
  BY <1>1, InvAlways, PTL

(***************************************************************************)
(* No RxDone is left standing, however reception and transmission meet     *)
(* (sx1278.c:615-636, 662-665).                                            *)
(***************************************************************************)
THEOREM RxDoneHandled == Spec => []FlagHandled
<1>1. IndInv => FlagHandled
  BY DEF IndInv, Protocol
<1> QED
  BY <1>1, InvAlways, PTL

(***************************************************************************)
(* The radio receives between two calls of the gateway, unless a reception *)
(* has met one of its mode changes (sx1278.c:601, 637, 644, 674).          *)
(***************************************************************************)
THEOREM RadioListens == Spec => []Listening
<1>1. IndInv => Listening
  BY DEF IndInv, Protocol, TypeControl, ModeListening, Listening
<1> QED
  BY <1>1, InvAlways, PTL

-----------------------------------------------------------------------------

\* LoRa_transmit, step by step, where no reception meets it: TxDone means that
\* this packet, whole, has gone out.
Sending ==
  ~crossed =>
    /\ app \in Transmit \ {"poll_tx", "restore"} =>
         mode # "TRANSMIT" /\ goto["app"] # "TRANSMIT"
    /\ app \in {"fill", "pointer", "burst", "transmit"} => "TxDone" \notin flags
    /\ app = "burst" => ptr = "tx"
    /\ app \in {"transmit", "poll_tx", "sent"} => fifo["tx"] = transmit_buffer
    /\ app = "poll_tx" /\ ~At("app") =>
         goto["app"] = "TRANSMIT" /\ mode # "TRANSMIT" /\ "TxDone" \notin flags
    /\ app = "poll_tx" /\ At("app") =>
         IF "TxDone" \in flags THEN mode = "STANDBY" ELSE mode = "TRANSMIT"
    /\ app = "sent" => mode = "STANDBY" /\ At("app")

\* Before RG_SIGNAL nothing is owed.
Unregistered == app \in {"off", "register"} => owed = Empty /\ task # "process"

\* What the history makes of the frame x on its way.
Fate(x) == x \in Frames /\ owed = IF New(x) THEN x ELSE Empty

\* One frame at a time is on its way, in one place, and no packet meanwhile.
OneAtATime ==
  /\ edge => irq = "idle"
  /\ Receiving => ~scheduled
  /\ Receiving \/ scheduled => work = "idle"
  /\ Receiving \/ scheduled \/ work # "idle" => ~rx_sig /\ app \notin Transmit
  /\ app = "read" => rx_sig

\* In the chip and in the interrupt handler.
InHandler ==
  /\ edge \/ irq \in {"flags", "clear"} => "RxDone" \in flags
  /\ irq \notin {"resume", "return"}
  /\ irq = "fifo" => ptr = "rx"
  /\ edge \/ irq \in {"flags", "clear", "pointer", "fifo"} => Fate(fifo["rx"])
  /\ irq \in {"resume_frame", "schedule"} => Fate(cache_buffer)

\* In the work item: dropped if it is not new, and stored if it is.
InWorkItem ==
  /\ scheduled \/ work = "compare" => Fate(cache_buffer)
  /\ work = "compare" => cache_buffer # transmit_buffer
  /\ work = "drop" => owed = Empty
  /\ work \in {"clear", "store", "signal"} =>
       owed = IF task = "process" THEN cache_buffer ELSE Empty
  /\ work = "signal" => receive_buffer = cache_buffer

\* At the gateway.
AtGateway ==
  /\ rx_sig => receive_buffer = owed
  /\ app = "read" => buff = owed
  /\ ~Pending => owed = Empty

Flight ==
  ~crossed /\ ~rushed /\ app # "register" =>
    OneAtATime /\ InHandler /\ InWorkItem /\ AtGateway

FrameInv == Sending /\ Unregistered /\ Flight

LEMMA ChipFrames == IndInv /\ FrameInv /\ Chip => FrameInv'
<1> SUFFICES ASSUME IndInv, FrameInv, Chip PROVE FrameInv'
  OBVIOUS
<1> USE DriverAssumption
<1>1. CASE \E f \in Frames : FrameArrives(f)
  <2>1. Sending'
    <3>1. ~crossed' => ~crossed /\ app \notin Transmit
      BY <1>1 DEF FrameArrives
    <3> QED
      BY <1>1, <3>1 DEF FrameArrives, FrameInv, Sending
  <2>2. Unregistered'
    BY <1>1 DEF FrameArrives, FrameInv, Unregistered, New
  <2>3. Flight'
    <3>1. PICK f \in Frames : FrameArrives(f)
      BY <1>1
    <3> SUFFICES ASSUME ~crossed', ~rushed', app' # "register"
                 PROVE  (OneAtATime /\ InHandler /\ InWorkItem /\ AtGateway)'
      BY DEF Flight
    <3>2. ~crossed /\ ~Pending /\ app # "register" /\ app \notin Transmit
      BY <3>1 DEF FrameArrives
    <3>3. /\ ~edge /\ irq = "idle" /\ ~scheduled /\ work = "idle"
          /\ ~rx_sig /\ app # "read"
      BY <3>2 DEF Pending, Receiving
    <3>4. "RxDone" \notin flags
      BY <3>3 DEF IndInv, Protocol, FlagHandled
    <3>5. UNCHANGED <<app, irq, work, scheduled, rx_sig, task, transmit_buffer,
                      receive_buffer>>
      BY <3>1 DEF FrameArrives, buffers
    <3>6. edge' /\ "RxDone" \in flags' /\ fifo'["rx"] = f
      BY <3>1, <3>4 DEF FrameArrives, IndInv, TypeData
    <3>7. CASE New(f)
      <4>1. owed' = f
        BY <3>1, <3>7 DEF FrameArrives
      <4> QED
        BY <3>2, <3>3, <3>5, <3>6, <3>7, <4>1 DEF OneAtATime, InHandler,
           InWorkItem, AtGateway, Fate, New, Pending, Receiving
    <3>8. CASE ~New(f)
      <4>1. ~rushed /\ owed' = owed
        BY <3>1, <3>8 DEF FrameArrives
      <4>2. owed = Empty
        BY <3>2, <4>1 DEF FrameInv, Flight, AtGateway
      <4> QED
        BY <3>2, <3>3, <3>5, <3>6, <3>8, <4>1, <4>2 DEF OneAtATime, InHandler,
           InWorkItem, AtGateway, Fate, New, Pending, Receiving
    <3> QED
      BY <3>7, <3>8
  <2> QED
    BY <2>1, <2>2, <2>3 DEF FrameInv
<1>2. CASE \E d \in BOOLEAN : CadEnds(d)
  <2>1. Sending' /\ Unregistered'
    BY <1>2 DEF IndInv, Protocol, TypeControl, Settled, Exclusive,
       ModeListening, Receiving, FrameInv, Sending, Unregistered, New, Pending,
       CadEnds, buffers
  <2>2. Flight'
    BY <1>2 DEF IndInv, Protocol, TypeControl, FlagHandled, Settled, Exclusive,
       Receiving, FrameInv, Unregistered, Flight, OneAtATime, InHandler,
       InWorkItem, AtGateway, Fate, New, Pending, Begins, CadEnds, buffers
  <2> QED
    BY <2>1, <2>2 DEF FrameInv
<1>3. CASE TxEnds
  <2>1. Sending' /\ Unregistered'
    BY <1>3 DEF IndInv, Protocol, TypeControl, Settled, Exclusive,
       ModeListening, Receiving, FrameInv, Sending, Unregistered, New, Pending,
       TxEnds, buffers
  <2>2. Flight'
    BY <1>3 DEF IndInv, Protocol, TypeControl, FlagHandled, Settled, Exclusive,
       Receiving, FrameInv, Unregistered, Flight, OneAtATime, InHandler,
       InWorkItem, AtGateway, Fate, New, Pending, Begins, TxEnds, buffers
  <2> QED
    BY <2>1, <2>2 DEF FrameInv
<1> QED
  BY <1>1, <1>2, <1>3 DEF Chip

LEMMA HandlerFrames == IndInv /\ FrameInv /\ get_message => FrameInv'
<1> SUFFICES ASSUME IndInv, FrameInv, get_message PROVE FrameInv'
  OBVIOUS
<1> USE DriverAssumption
<1>1. CASE Interrupt
  <2>1. Sending' /\ Unregistered'
    BY <1>1 DEF IndInv, Protocol, TypeControl, Settled, Exclusive,
       ModeListening, Receiving, FrameInv, Sending, Unregistered, New, Pending,
       Interrupt, GotoMode, irq_keeps
  <2>2. Flight'
    BY <1>1 DEF IndInv, Protocol, TypeControl, FlagHandled, Settled, Exclusive,
       Receiving, FrameInv, Unregistered, Flight, OneAtATime, InHandler,
       InWorkItem, AtGateway, Fate, New, Pending, Begins, Interrupt, GotoMode,
       irq_keeps
  <2> QED
    BY <2>1, <2>2 DEF FrameInv
<1>2. CASE TestRxDone
  <2>1. Sending' /\ Unregistered'
    BY <1>2 DEF IndInv, Protocol, TypeControl, Settled, Exclusive,
       ModeListening, Receiving, FrameInv, Sending, Unregistered, New, Pending,
       TestRxDone, irq_keeps
  <2>2. Flight'
    BY <1>2 DEF IndInv, Protocol, TypeControl, FlagHandled, Settled, Exclusive,
       Receiving, FrameInv, Unregistered, Flight, OneAtATime, InHandler,
       InWorkItem, AtGateway, Fate, New, Pending, Begins, TestRxDone, irq_keeps
  <2> QED
    BY <2>1, <2>2 DEF FrameInv
<1>3. CASE ClearRxDone
  <2>1. Sending' /\ Unregistered'
    BY <1>3 DEF IndInv, Protocol, TypeControl, Settled, Exclusive,
       ModeListening, Receiving, FrameInv, Sending, Unregistered, New, Pending,
       ClearRxDone, irq_keeps
  <2>2. Flight'
    BY <1>3 DEF IndInv, Protocol, TypeControl, FlagHandled, Settled, Exclusive,
       Receiving, FrameInv, Unregistered, Flight, OneAtATime, InHandler,
       InWorkItem, AtGateway, Fate, New, Pending, Begins, ClearRxDone,
       irq_keeps
  <2> QED
    BY <2>1, <2>2 DEF FrameInv
<1>4. CASE PointAtFrame
  <2>1. Sending' /\ Unregistered'
    BY <1>4 DEF IndInv, Protocol, TypeControl, Settled, Exclusive,
       ModeListening, Receiving, FrameInv, Sending, Unregistered, New, Pending,
       PointAtFrame
  <2>2. Flight'
    BY <1>4 DEF IndInv, Protocol, TypeControl, FlagHandled, Settled, Exclusive,
       Receiving, FrameInv, Unregistered, Flight, OneAtATime, InHandler,
       InWorkItem, AtGateway, Fate, New, Pending, Begins, PointAtFrame
  <2> QED
    BY <2>1, <2>2 DEF FrameInv
<1>5. CASE ReadFifo
  <2>1. Sending' /\ Unregistered'
    BY <1>5 DEF IndInv, Protocol, TypeControl, Settled, Exclusive,
       ModeListening, Receiving, FrameInv, Sending, Unregistered, New, Pending,
       ReadFifo, irq_keeps
  <2>2. Flight'
    BY <1>5 DEF IndInv, Protocol, TypeControl, FlagHandled, Settled, Exclusive,
       Receiving, FrameInv, Unregistered, Flight, OneAtATime, InHandler,
       InWorkItem, AtGateway, Fate, New, Pending, Begins, ReadFifo, irq_keeps
  <2> QED
    BY <2>1, <2>2 DEF FrameInv
<1>6. CASE StartReceiving
  <2>1. Sending' /\ Unregistered'
    BY <1>6 DEF IndInv, Protocol, TypeControl, Settled, Exclusive,
       ModeListening, Receiving, FrameInv, Sending, Unregistered, New, Pending,
       StartReceiving, GotoMode, irq_keeps
  <2>2. Flight'
    BY <1>6 DEF IndInv, Protocol, TypeControl, FlagHandled, Settled, Exclusive,
       Receiving, FrameInv, Unregistered, Flight, OneAtATime, InHandler,
       InWorkItem, AtGateway, Fate, New, Pending, Begins, StartReceiving,
       GotoMode, irq_keeps
  <2> QED
    BY <2>1, <2>2 DEF FrameInv
<1>7. CASE HandlerReturns
  <2>1. Sending' /\ Unregistered'
    BY <1>7 DEF IndInv, Protocol, TypeControl, Settled, Exclusive,
       ModeListening, Receiving, FrameInv, Sending, Unregistered, New, Pending,
       HandlerReturns, irq_keeps
  <2>2. Flight'
    BY <1>7 DEF IndInv, Protocol, TypeControl, FlagHandled, Settled, Exclusive,
       Receiving, FrameInv, Unregistered, Flight, OneAtATime, InHandler,
       InWorkItem, AtGateway, Fate, New, Pending, Begins, HandlerReturns,
       irq_keeps
  <2> QED
    BY <2>1, <2>2 DEF FrameInv
<1>8. CASE WriteMode("irq")
  <2>1. Sending' /\ Unregistered'
    BY <1>8 DEF IndInv, Protocol, TypeControl, Settled, Exclusive,
       ModeListening, Receiving, FrameInv, Sending, Unregistered, New, Pending,
       WriteMode, buffers
  <2>2. Flight'
    BY <1>8 DEF IndInv, Protocol, TypeControl, FlagHandled, Settled, Exclusive,
       Receiving, FrameInv, Unregistered, Flight, OneAtATime, InHandler,
       InWorkItem, AtGateway, Fate, New, Pending, Begins, WriteMode, buffers
  <2> QED
    BY <2>1, <2>2 DEF FrameInv
<1> QED
  BY <1>1, <1>2, <1>3, <1>4, <1>5, <1>6, <1>7, <1>8 DEF get_message

LEMMA WorkFrames == IndInv /\ FrameInv /\ workqueue_fn => FrameInv'
<1> SUFFICES ASSUME IndInv, FrameInv, workqueue_fn PROVE FrameInv'
  OBVIOUS
<1> USE DriverAssumption
<1>1. CASE TestEcho
  <2>1. Sending' /\ Unregistered'
    BY <1>1 DEF IndInv, Protocol, TypeControl, Settled, Exclusive,
       ModeListening, Receiving, FrameInv, Sending, Unregistered, New, Pending,
       TestEcho, work_keeps, chip_vars
  <2>2. Flight'
    BY <1>1 DEF IndInv, Protocol, TypeControl, FlagHandled, Settled, Exclusive,
       Receiving, FrameInv, Unregistered, Flight, OneAtATime, InHandler,
       InWorkItem, AtGateway, Fate, New, Pending, Begins, TestEcho, work_keeps,
       chip_vars
  <2> QED
    BY <2>1, <2>2 DEF FrameInv
<1>2. CASE TestRepetition
  <2>1. Sending' /\ Unregistered'
    BY <1>2 DEF IndInv, Protocol, TypeControl, Settled, Exclusive,
       ModeListening, Receiving, FrameInv, Sending, Unregistered, New, Pending,
       TestRepetition, work_keeps, chip_vars
  <2>2. Flight'
    BY <1>2 DEF IndInv, Protocol, TypeControl, FlagHandled, Settled, Exclusive,
       Receiving, FrameInv, Unregistered, Flight, OneAtATime, InHandler,
       InWorkItem, AtGateway, Fate, New, Pending, Begins, TestRepetition,
       work_keeps, chip_vars
  <2> QED
    BY <2>1, <2>2 DEF FrameInv
<1>3. CASE Drop
  <2>1. Sending' /\ Unregistered'
    BY <1>3 DEF IndInv, Protocol, TypeControl, Settled, Exclusive,
       ModeListening, Receiving, FrameInv, Sending, Unregistered, New, Pending,
       Drop, work_keeps, chip_vars
  <2>2. Flight'
    BY <1>3 DEF IndInv, Protocol, TypeControl, FlagHandled, Settled, Exclusive,
       Receiving, FrameInv, Unregistered, Flight, OneAtATime, InHandler,
       InWorkItem, AtGateway, Fate, New, Pending, Begins, Drop, work_keeps,
       chip_vars
  <2> QED
    BY <2>1, <2>2 DEF FrameInv
<1>4. CASE ClearReceived
  <2>1. Sending' /\ Unregistered'
    BY <1>4 DEF IndInv, Protocol, TypeControl, Settled, Exclusive,
       ModeListening, Receiving, FrameInv, Sending, Unregistered, New, Pending,
       ClearReceived, work_keeps, chip_vars
  <2>2. Flight'
    BY <1>4 DEF IndInv, Protocol, TypeControl, FlagHandled, Settled, Exclusive,
       Receiving, FrameInv, Unregistered, Flight, OneAtATime, InHandler,
       InWorkItem, AtGateway, Fate, New, Pending, Begins, ClearReceived,
       work_keeps, chip_vars
  <2> QED
    BY <2>1, <2>2 DEF FrameInv
<1>5. CASE Store
  <2>1. Sending' /\ Unregistered'
    BY <1>5 DEF IndInv, Protocol, TypeControl, Settled, Exclusive,
       ModeListening, Receiving, FrameInv, Sending, Unregistered, New, Pending,
       Store, work_keeps, chip_vars
  <2>2. Flight'
    BY <1>5 DEF IndInv, Protocol, TypeControl, FlagHandled, Settled, Exclusive,
       Receiving, FrameInv, Unregistered, Flight, OneAtATime, InHandler,
       InWorkItem, AtGateway, Fate, New, Pending, Begins, Store, work_keeps,
       chip_vars
  <2> QED
    BY <2>1, <2>2 DEF FrameInv
<1>6. CASE SendSignal
  <2>1. Sending' /\ Unregistered'
    BY <1>6 DEF IndInv, Protocol, TypeControl, Settled, Exclusive,
       ModeListening, Receiving, FrameInv, Sending, Unregistered, New, Pending,
       SendSignal, work_keeps, chip_vars
  <2>2. Flight'
    BY <1>6 DEF IndInv, Protocol, TypeControl, FlagHandled, Settled, Exclusive,
       Receiving, FrameInv, Unregistered, Flight, OneAtATime, InHandler,
       InWorkItem, AtGateway, Fate, New, Pending, Begins, SendSignal,
       work_keeps, chip_vars
  <2> QED
    BY <2>1, <2>2 DEF FrameInv
<1> QED
  BY <1>1, <1>2, <1>3, <1>4, <1>5, <1>6 DEF workqueue_fn

LEMMA CallFrames == IndInv /\ FrameInv /\ Call => FrameInv'
<1> SUFFICES ASSUME IndInv, FrameInv, Call PROVE FrameInv'
  OBVIOUS
<1> USE DriverAssumption
<1>1. CASE Start
  <2>1. Sending' /\ Unregistered'
    BY <1>1 DEF IndInv, Protocol, TypeControl, Settled, Exclusive,
       ModeListening, Receiving, FrameInv, Sending, Unregistered, New, Pending,
       Start, GotoMode, app_keeps
  <2>2. Flight'
    BY <1>1 DEF IndInv, Protocol, TypeControl, FlagHandled, Settled, Exclusive,
       Receiving, FrameInv, Unregistered, Flight, OneAtATime, InHandler,
       InWorkItem, AtGateway, Fate, New, Pending, Begins, Start, GotoMode,
       app_keeps
  <2> QED
    BY <2>1, <2>2 DEF FrameInv
<1>2. CASE Register
  <2>1. Sending' /\ Unregistered'
    BY <1>2 DEF IndInv, Protocol, TypeControl, Settled, Exclusive,
       ModeListening, Receiving, FrameInv, Sending, Unregistered, New, Pending,
       Register, app_keeps
  <2>2. Flight'
    BY <1>2 DEF IndInv, Protocol, TypeControl, FlagHandled, Settled, Exclusive,
       Receiving, FrameInv, Unregistered, Flight, OneAtATime, InHandler,
       InWorkItem, AtGateway, Fate, New, Pending, Begins, Register, app_keeps
  <2> QED
    BY <2>1, <2>2 DEF FrameInv
<1>3. CASE Stop
  <2>1. Sending' /\ Unregistered'
    BY <1>3 DEF IndInv, Protocol, TypeControl, Settled, Exclusive,
       ModeListening, Receiving, FrameInv, Sending, Unregistered, New, Pending,
       Stop, GotoMode, app_keeps
  <2>2. Flight'
    BY <1>3 DEF IndInv, Protocol, TypeControl, FlagHandled, Settled, Exclusive,
       Receiving, FrameInv, Unregistered, Flight, OneAtATime, InHandler,
       InWorkItem, AtGateway, Fate, New, Pending, Begins, Stop, GotoMode,
       app_keeps
  <2> QED
    BY <2>1, <2>2 DEF FrameInv
<1>4. CASE Unregister
  <2>1. Sending' /\ Unregistered'
    BY <1>4 DEF IndInv, Protocol, TypeControl, Settled, Exclusive,
       ModeListening, Receiving, FrameInv, Sending, Unregistered, New, Pending,
       Unregister, Exit, app_keeps
  <2>2. Flight'
    BY <1>4 DEF IndInv, Protocol, TypeControl, FlagHandled, Settled, Exclusive,
       Receiving, FrameInv, Unregistered, Flight, OneAtATime, InHandler,
       InWorkItem, AtGateway, Fate, New, Pending, Begins, Unregister, Exit,
       app_keeps
  <2> QED
    BY <2>1, <2>2 DEF FrameInv
<1>5. CASE Dies
  <2>1. Sending' /\ Unregistered'
    BY <1>5 DEF IndInv, Protocol, TypeControl, Settled, Exclusive,
       ModeListening, Receiving, FrameInv, Sending, Unregistered, New, Pending,
       Dies, Exit, app_keeps
  <2>2. Flight'
    BY <1>5 DEF IndInv, Protocol, TypeControl, FlagHandled, Settled, Exclusive,
       Receiving, FrameInv, Unregistered, Flight, OneAtATime, InHandler,
       InWorkItem, AtGateway, Fate, New, Pending, Begins, Dies, Exit, app_keeps
  <2> QED
    BY <2>1, <2>2 DEF FrameInv
<1>6. CASE Read
  <2>1. Sending' /\ Unregistered'
    BY <1>6 DEF IndInv, Protocol, TypeControl, Settled, Exclusive,
       ModeListening, Receiving, FrameInv, Sending, Unregistered, New, Pending,
       Read, app_keeps
  <2>2. Flight'
    BY <1>6 DEF IndInv, Protocol, TypeControl, FlagHandled, Settled, Exclusive,
       Receiving, FrameInv, Unregistered, Flight, OneAtATime, InHandler,
       InWorkItem, AtGateway, Fate, New, Pending, Begins, Read, app_keeps
  <2> QED
    BY <2>1, <2>2 DEF FrameInv
<1>7. CASE Consume
  <2>1. Sending' /\ Unregistered'
    BY <1>7 DEF IndInv, Protocol, TypeControl, Settled, Exclusive,
       ModeListening, Receiving, FrameInv, Sending, Unregistered, New, Pending,
       Consume, app_keeps
  <2>2. Flight'
    BY <1>7 DEF IndInv, Protocol, TypeControl, FlagHandled, Settled, Exclusive,
       Receiving, FrameInv, Unregistered, Flight, OneAtATime, InHandler,
       InWorkItem, AtGateway, Fate, New, Pending, Begins, Consume, app_keeps
  <2> QED
    BY <2>1, <2>2 DEF FrameInv
<1>8. CASE Write
  <2>1. Sending' /\ Unregistered'
    BY <1>8 DEF IndInv, Protocol, TypeControl, Settled, Exclusive,
       ModeListening, Receiving, FrameInv, Sending, Unregistered, New, Pending,
       Write
  <2>2. Flight'
    BY <1>8 DEF IndInv, Protocol, TypeControl, FlagHandled, Settled, Exclusive,
       Receiving, FrameInv, Unregistered, Flight, OneAtATime, InHandler,
       InWorkItem, AtGateway, Fate, New, Pending, Begins, Write
  <2> QED
    BY <2>1, <2>2 DEF FrameInv
<1>9. CASE WriteMode("app")
  <2>1. Sending' /\ Unregistered'
    BY <1>9 DEF IndInv, Protocol, TypeControl, Settled, Exclusive,
       ModeListening, Receiving, FrameInv, Sending, Unregistered, New, Pending,
       WriteMode, buffers
  <2>2. Flight'
    BY <1>9 DEF IndInv, Protocol, TypeControl, FlagHandled, Settled, Exclusive,
       Receiving, FrameInv, Unregistered, Flight, OneAtATime, InHandler,
       InWorkItem, AtGateway, Fate, New, Pending, Begins, WriteMode, buffers
  <2> QED
    BY <2>1, <2>2 DEF FrameInv
<1> QED
  BY <1>1, <1>2, <1>3, <1>4, <1>5, <1>6, <1>7, <1>8, <1>9 DEF Call

LEMMA TransmitFrames == IndInv /\ FrameInv /\ LoRa_transmit => FrameInv'
<1> SUFFICES ASSUME IndInv, FrameInv, LoRa_transmit PROVE FrameInv'
  OBVIOUS
<1> USE DriverAssumption
<1>1. CASE \E x \in Packets : CopyFromUser(x)
  <2>1. Sending' /\ Unregistered'
    BY <1>1 DEF IndInv, Protocol, TypeControl, Settled, Exclusive,
       ModeListening, Receiving, FrameInv, Sending, Unregistered, New, Pending,
       CopyFromUser, tx_keeps
  <2>2. Flight'
    BY <1>1 DEF IndInv, Protocol, TypeControl, FlagHandled, Settled, Exclusive,
       Receiving, FrameInv, Unregistered, Flight, OneAtATime, InHandler,
       InWorkItem, AtGateway, Fate, New, Pending, Begins, CopyFromUser,
       tx_keeps
  <2> QED
    BY <2>1, <2>2 DEF FrameInv
<1>2. CASE SaveMode
  <2>1. Sending' /\ Unregistered'
    BY <1>2 DEF IndInv, Protocol, TypeControl, Settled, Exclusive,
       ModeListening, Receiving, FrameInv, Sending, Unregistered, New, Pending,
       SaveMode, tx_keeps
  <2>2. Flight'
    BY <1>2 DEF IndInv, Protocol, TypeControl, FlagHandled, Settled, Exclusive,
       Receiving, FrameInv, Unregistered, Flight, OneAtATime, InHandler,
       InWorkItem, AtGateway, Fate, New, Pending, Begins, SaveMode, tx_keeps
  <2> QED
    BY <2>1, <2>2 DEF FrameInv
<1>3. CASE DetectChannel
  <2>1. Sending' /\ Unregistered'
    BY <1>3 DEF IndInv, Protocol, TypeControl, Settled, Exclusive,
       ModeListening, Receiving, FrameInv, Sending, Unregistered, New, Pending,
       DetectChannel, ChangeMode, GotoMode, Test, ClearFlags, tx_keeps
  <2>2. Flight'
    BY <1>3 DEF IndInv, Protocol, TypeControl, FlagHandled, Settled, Exclusive,
       Receiving, FrameInv, Unregistered, Flight, OneAtATime, InHandler,
       InWorkItem, AtGateway, Fate, New, Pending, Begins, DetectChannel,
       ChangeMode, GotoMode, Test, ClearFlags, tx_keeps
  <2> QED
    BY <2>1, <2>2 DEF FrameInv
<1>4. CASE Send
  <2>1. CASE ChangeMode("fill", "STANDBY", "pointer")
    <3>1. Sending' /\ Unregistered'
      BY <2>1 DEF IndInv, Protocol, TypeControl, Settled, Exclusive,
         FrameInv, Sending, Unregistered, ChangeMode, GotoMode, tx_keeps
    <3>2. Flight'
      BY <2>1 DEF IndInv, Protocol, TypeControl, Exclusive, Receiving,
         FrameInv, Unregistered, Flight, OneAtATime, InHandler, InWorkItem,
         AtGateway, Fate, New, Pending, ChangeMode, GotoMode, tx_keeps
    <3> QED
      BY <3>1, <3>2 DEF FrameInv
  <2>2. CASE PointAtTxBase
    <3>1. Sending' /\ Unregistered'
      BY <2>2 DEF IndInv, Protocol, TypeControl, Settled, Exclusive,
         FrameInv, Sending, Unregistered, PointAtTxBase, tx_keeps
    <3>2. Flight'
      BY <2>2 DEF IndInv, Protocol, TypeControl, Exclusive, Receiving,
         FrameInv, Unregistered, Flight, OneAtATime, InHandler, InWorkItem,
         AtGateway, Fate, New, Pending, PointAtTxBase, tx_keeps
    <3> QED
      BY <3>1, <3>2 DEF FrameInv
  <2>3. CASE FillFifo
    <3>1. Sending' /\ Unregistered'
      BY <2>3 DEF IndInv, Protocol, TypeControl, Settled, Exclusive,
         FrameInv, Sending, Unregistered, TypeData, FillFifo, tx_keeps
    <3>2. Flight'
      BY <2>3 DEF IndInv, Protocol, TypeControl, Exclusive, Receiving,
         FrameInv, Unregistered, Flight, OneAtATime, InHandler, InWorkItem,
         AtGateway, Fate, New, Pending, TypeData, FillFifo, tx_keeps
    <3> QED
      BY <3>1, <3>2 DEF FrameInv
  <2>4. CASE ChangeMode("transmit", "TRANSMIT", "poll_tx")
    <3>1. Sending' /\ Unregistered'
      BY <2>4 DEF IndInv, Protocol, TypeControl, Settled, Exclusive,
         FrameInv, Sending, Unregistered, ChangeMode, GotoMode, tx_keeps
    <3>2. Flight'
      BY <2>4 DEF IndInv, Protocol, TypeControl, Exclusive, Receiving,
         FrameInv, Unregistered, Flight, OneAtATime, InHandler, InWorkItem,
         AtGateway, Fate, New, Pending, ChangeMode, GotoMode, tx_keeps
    <3> QED
      BY <3>1, <3>2 DEF FrameInv
  <2>5. CASE StillSending
    <3>1. Sending' /\ Unregistered'
      BY <2>5 DEF IndInv, Protocol, TypeControl, Settled, Exclusive,
         FrameInv, Sending, Unregistered, StillSending, tx_keeps
    <3>2. Flight'
      BY <2>5 DEF IndInv, Protocol, TypeControl, Exclusive, Receiving,
         FrameInv, Unregistered, Flight, OneAtATime, InHandler, InWorkItem,
         AtGateway, Fate, New, Pending, StillSending, tx_keeps
    <3> QED
      BY <3>1, <3>2 DEF FrameInv
  <2>6. CASE "TxDone" \in flags /\ Test("poll_tx", "sent")
    <3>1. Sending' /\ Unregistered'
      BY <2>6 DEF IndInv, Protocol, TypeControl, Settled, Exclusive,
         FrameInv, Sending, Unregistered, Test, tx_keeps
    <3>2. Flight'
      BY <2>6 DEF IndInv, Protocol, TypeControl, Exclusive, Receiving,
         FrameInv, Unregistered, Flight, OneAtATime, InHandler, InWorkItem,
         AtGateway, Fate, New, Pending, Test, tx_keeps
    <3> QED
      BY <3>1, <3>2 DEF FrameInv
  <2>7. CASE ClearFlags("sent", "restore")
    <3>1. Sending' /\ Unregistered'
      BY <2>7 DEF IndInv, Protocol, TypeControl, Settled, Exclusive,
         FrameInv, Sending, Unregistered, ClearFlags, tx_keeps
    <3>2. Flight'
      BY <2>7 DEF IndInv, Protocol, TypeControl, Exclusive, Receiving,
         FrameInv, Unregistered, Flight, OneAtATime, InHandler, InWorkItem,
         AtGateway, Fate, New, Pending, ClearFlags, tx_keeps
    <3> QED
      BY <3>1, <3>2 DEF FrameInv
  <2>8. CASE Restore
    <3>1. Sending' /\ Unregistered'
      BY <2>8 DEF IndInv, Protocol, TypeControl, Settled, Exclusive,
         FrameInv, Sending, Unregistered, Restore, GotoMode, tx_keeps
    <3>2. Flight'
      BY <2>8 DEF IndInv, Protocol, TypeControl, Exclusive, Receiving,
         FrameInv, Unregistered, Flight, OneAtATime, InHandler, InWorkItem,
         AtGateway, Fate, New, Pending, Restore, GotoMode, tx_keeps
    <3> QED
      BY <3>1, <3>2 DEF FrameInv
  <2> QED
    BY <1>4, <2>1, <2>2, <2>3, <2>4, <2>5, <2>6, <2>7, <2>8 DEF Send
<1> QED
  BY <1>1, <1>2, <1>3, <1>4 DEF LoRa_transmit

LEMMA InitFrames == Init => FrameInv
  BY DriverAssumption DEF Init, FrameInv, Sending, Unregistered, Flight,
     OneAtATime, InHandler, InWorkItem, AtGateway, Receiving, Pending

LEMMA StepFrames == IndInv /\ FrameInv /\ [Next]_vars => FrameInv'
<1>1. IndInv /\ FrameInv /\ App => FrameInv'
  BY CallFrames, TransmitFrames DEF App, Call
<1>2. FrameInv /\ UNCHANGED vars => FrameInv'
  BY DEF FrameInv, Sending, Unregistered, Flight, OneAtATime, InHandler,
     InWorkItem, AtGateway, Fate, New, Receiving, Pending, vars, chip_vars,
     buffers
<1> QED
  BY <1>1, <1>2, ChipFrames, HandlerFrames, WorkFrames DEF Next

LEMMA FramesAlways == Spec => [](IndInv /\ FrameInv)
<1>1. Init => IndInv /\ FrameInv
  BY InitInv, InitFrames
<1>2. IndInv /\ FrameInv /\ [Next]_vars => (IndInv /\ FrameInv)'
  BY StepInv, StepFrames
<1> QED
  BY <1>1, <1>2, PTL DEF Spec

(***************************************************************************)
(* Where LoRa_transmit finds TxDone the packet it was given has been sent, *)
(* whole (sx1278.c:619-636): no earlier transmission's TxDone is taken for *)
(* it.                                                                     *)
(***************************************************************************)
THEOREM TransmittedWhole == Spec => []SentWhole
<1>1. FrameInv => SentWhole
  BY DEF FrameInv, Sending, SentWhole
<1> QED
  BY <1>1, FramesAlways, PTL

(***************************************************************************)
(* No new frame is lost where frames leave the gateway its time: the frame *)
(* passes from the chip by cache_buffer and receive_buffer to read(), and  *)
(* nothing else is dropped than repetitions and echoes (sx1278.c:93-111).  *)
(***************************************************************************)
THEOREM NewFramesReceived == Spec => []Received
<1>1. FrameInv => Received
  BY DEF FrameInv, Unregistered, Flight, AtGateway, Received
<1> QED
  BY <1>1, FramesAlways, PTL

-----------------------------------------------------------------------------
(* The abstract specification. *)

\* A signal means that a frame is due, and only the process that reads has one.
Signalled ==
  ~crossed /\ ~rushed /\ app # "register" =>
    /\ work \in {"clear", "store", "signal"} => cache_buffer # Empty
    /\ rx_sig => owed # Empty

TakenInv == app # "read" => buff = Empty

DeliveryInv == IndInv /\ FrameInv /\ Signalled /\ TakenInv

\* Neither history is forgotten by a call that changes the mode.
LEMMA StopWrite ==
  ASSUME Stop \/ Write
  PROVE  (crossed => crossed') /\ (rushed => rushed')
<1>1. CASE Stop
  <2>1. crossed' = (crossed \/ Receiving) /\ rushed' = rushed
    BY <1>1 DEF Stop
  <2> QED
    BY <2>1, Zenon
<1>2. CASE Write
  <2>1. /\ crossed' = (crossed \/ Receiving)
        /\ rushed' = (rushed \/ scheduled \/ work # "idle")
    BY <1>2 DEF Write
  <2> QED
    BY <2>1, Zenon
<1> QED
  BY <1>1, <1>2

LEMMA SignalledKeeps ==
  ASSUME IndInv, FrameInv, Signalled, Next
  PROVE  Signalled'
<1> SUFFICES ASSUME ~crossed', ~rushed', app' # "register"
             PROVE  /\ work' \in {"clear", "store", "signal"} => cache_buffer' # Empty
                    /\ rx_sig' => owed' # Empty
  BY DEF Signalled
<1> USE DriverAssumption
<1>1. CASE \E f \in Frames : FrameArrives(f)
  <2>1. ~Pending /\ UNCHANGED <<work, rx_sig>>
    BY <1>1 DEF FrameArrives
  <2> QED
    BY <2>1 DEF Pending
<1>2. CASE TestRepetition
  <2>1. work = "compare" /\ UNCHANGED <<cache_buffer, rx_sig, owed, crossed, rushed, app>>
    BY <1>2 DEF TestRepetition, work_keeps
  <2>2. cache_buffer \in Frames
    BY <2>1 DEF FrameInv, Flight, InWorkItem, Fate
  <2> QED
    BY <2>1, <2>2 DEF Signalled
<1>3. CASE SendSignal
  <2>1. /\ work = "signal" /\ work' = "idle" /\ rx_sig' = (rx_sig \/ task = "process")
        /\ UNCHANGED <<cache_buffer, owed, crossed, rushed, app>>
    BY <1>3 DEF SendSignal, work_keeps
  <2>2. owed = IF task = "process" THEN cache_buffer ELSE Empty
    BY <2>1 DEF FrameInv, Flight, InWorkItem
  <2> QED
    BY <2>1, <2>2 DEF Signalled
<1>4. CASE Register
  <2>1. ~Pending /\ UNCHANGED <<work, rx_sig>>
    BY <1>4 DEF Register, app_keeps
  <2> QED
    BY <2>1 DEF Pending
<1>5. CASE PointAtFrame
  <2>1. /\ irq = "pointer"
        /\ UNCHANGED <<work, rx_sig, owed, crossed, rushed, app>>
    BY <1>5 DEF PointAtFrame
  <2>2. work = "idle"
    BY <2>1 DEF FrameInv, Flight, OneAtATime, Receiving
  <2> QED
    BY <2>1, <2>2 DEF Signalled
<1>6. CASE ReadFifo
  <2>1. /\ irq = "fifo"
        /\ UNCHANGED <<work, rx_sig, owed, crossed, rushed, app>>
    BY <1>6 DEF ReadFifo, irq_keeps
  <2>2. work = "idle"
    BY <2>1 DEF FrameInv, Flight, OneAtATime, Receiving
  <2> QED
    BY <2>1, <2>2 DEF Signalled
<1>7. CASE Start
  BY <1>7 DEF Start
<1>8. CASE Unregister \/ Dies
  <2>1. ~rx_sig' /\ UNCHANGED <<work, cache_buffer, crossed, rushed>> /\ app # "register"
    BY <1>8 DEF Unregister, Dies, Exit, app_keeps
  <2> QED
    BY <2>1 DEF Signalled
<1>9. CASE Read \/ Consume
  <2>1. /\ UNCHANGED <<work, cache_buffer, crossed, rushed>> /\ app # "register"
        /\ rx_sig' = FALSE \/ UNCHANGED <<rx_sig, owed>>
    BY <1>9 DEF Read, Consume, app_keeps, history
  <2> QED
    BY <2>1 DEF Signalled
<1>10. CASE Stop \/ Write
  <2>1. UNCHANGED <<work, cache_buffer, rx_sig, owed>> /\ app # "register"
    BY <1>10 DEF Stop, Write, app_keeps
  <2>2. (crossed => crossed') /\ (rushed => rushed')
    BY <1>10, StopWrite
  <2>3. ~crossed /\ ~rushed
    BY <2>2
  <2> QED
    BY <2>1, <2>3 DEF Signalled
<1>11. CASE LoRa_transmit \/ WriteMode("app") \/ WriteMode("irq")
  <2>1. UNCHANGED <<work, cache_buffer, rx_sig, owed, crossed, rushed>>
    BY <1>11 DEF LoRa_transmit, CopyFromUser, SaveMode, DetectChannel, Send, ChangeMode, Test,
                 ClearFlags, PointAtTxBase, FillFifo, StillSending, Restore, WriteMode,
                 tx_keeps, history, buffers
  <2>2. app # "register"
    BY <1>11 DEF LoRa_transmit, CopyFromUser, SaveMode, DetectChannel, Send, ChangeMode, Test,
                 ClearFlags, PointAtTxBase, FillFifo, StillSending, Restore, WriteMode
  <2> QED
    BY <2>1, <2>2 DEF Signalled
<1>12. CASE (\E d \in BOOLEAN : CadEnds(d)) \/ TxEnds \/ Interrupt \/ TestRxDone \/ ClearRxDone
            \/ StartReceiving \/ HandlerReturns
  <2>1. UNCHANGED <<work, cache_buffer, rx_sig, owed, crossed, rushed, app>>
    BY <1>12 DEF CadEnds, TxEnds, Interrupt, TestRxDone, ClearRxDone, StartReceiving,
                 HandlerReturns, irq_keeps, buffers, history
  <2> QED
    BY <2>1 DEF Signalled
<1>13. CASE TestEcho \/ Drop \/ ClearReceived \/ Store
  <2>1. /\ UNCHANGED <<rx_sig, owed, crossed, rushed, app>>
        /\ work' \in {"compare", "drop", "idle"}
           \/ (work \in {"clear", "store"} /\ cache_buffer' = cache_buffer)
    BY <1>13 DEF TestEcho, Drop, ClearReceived, Store, work_keeps, history
  <2> QED
    BY <2>1 DEF Signalled
<1> QED
  BY <1>1, <1>2, <1>3, <1>4, <1>5, <1>6, <1>7, <1>8, <1>9, <1>10, <1>11, <1>12, <1>13
     DEF Next, Chip, get_message, workqueue_fn, App

LEMMA TakenKeeps ==
  ASSUME TakenInv, Next
  PROVE  TakenInv'
<1>1. CASE Chip \/ get_message \/ workqueue_fn
  <2>1. UNCHANGED <<app, buff>>
    BY <1>1 DEF Chip, FrameArrives, CadEnds, TxEnds, get_message, Interrupt, TestRxDone,
                ClearRxDone, PointAtFrame, ReadFifo, StartReceiving, HandlerReturns, WriteMode,
                workqueue_fn, TestEcho, TestRepetition, Drop, ClearReceived, Store, SendSignal,
                irq_keeps, work_keeps
  <2> QED
    BY <2>1 DEF TakenInv
<1>2. CASE Call
  BY <1>2 DEF Call, Start, Register, Stop, Unregister, Dies, Exit, Read, Consume, Write,
              WriteMode, TakenInv
<1>3. CASE LoRa_transmit
  <2>1. buff' = buff /\ app # "read"
    BY <1>3 DEF LoRa_transmit, CopyFromUser, SaveMode, DetectChannel, Send, ChangeMode, Test,
                ClearFlags, PointAtTxBase, FillFifo, StillSending, Restore, tx_keeps
  <2> QED
    BY <2>1 DEF TakenInv
<1> QED
  BY <1>1, <1>2, <1>3 DEF Next, App, Call

LEMMA DeliveryAlways == Spec => []DeliveryInv
<1>1. Init => DeliveryInv
  BY InitInv, InitFrames DEF Init, DeliveryInv, Signalled, TakenInv
<1>2. DeliveryInv /\ [Next]_vars => DeliveryInv'
  <2>1. CASE Next
    BY <2>1, StepInv, StepFrames, SignalledKeeps, TakenKeeps DEF DeliveryInv
  <2>2. CASE UNCHANGED vars
    BY <2>2, StepInv, StepFrames DEF DeliveryInv, Signalled, TakenInv, vars, buffers
  <2> QED
    BY <2>1, <2>2
<1> QED
  BY <1>1, <1>2, PTL DEF Spec

USE DEF Driver!DeliveryNext, Driver!Unheard, Driver!Come, Driver!Take, Driver!Use, Driver!End,
        Driver!Void, Driver!delivery_vars

\* A frame comes: it is due, it is no new one, or it comes too soon.
LEMMA FrameDelivers ==
  ASSUME DeliveryInv, NEW f \in Frames, FrameArrives(f)
  PROVE  [Driver!DeliveryNext]_(Driver!delivery_vars)
<1>1. /\ UNCHANGED <<app, buff>>
      /\ owed' = IF New(f) THEN f ELSE owed
      /\ rushed' = (Pending \/ (rushed /\ ~New(f)))
      /\ crossed' = (crossed \/ app \in Transmit \/ goto["app"] # NoMode)
  BY DEF FrameArrives
<1>2. CASE app \in {"off", "register"}
  <2>1. ~New(f)
    BY <1>2 DEF DeliveryInv, FrameInv, Unregistered, New
  <2> QED
    BY <1>1, <1>2, <2>1
<1>3. CASE app \notin {"off", "register"} /\ (crossed' \/ rushed')
  BY <1>1, <1>3
<1>4. CASE app \notin {"off", "register"} /\ ~crossed' /\ ~rushed'
  <2>1. ~crossed /\ ~Pending
    BY <1>1, <1>4
  <2>2. buff = Empty
    BY <2>1 DEF DeliveryInv, TakenInv, Pending
  <2>3. CASE New(f)
    <3>1. ~rushed => owed = Empty
      BY <1>4, <2>1 DEF DeliveryInv, FrameInv, Flight, AtGateway
    <3> QED
      BY <1>1, <1>4, <2>1, <2>2, <2>3, <3>1
  <2>4. CASE ~New(f)
    BY <1>1, <1>4, <2>1, <2>4
  <2> QED
    BY <2>3, <2>4
<1> QED
  BY <1>2, <1>3, <1>4

\* The gateway starts, ends, reads and uses what it has read.
LEMMA CallDelivers ==
  ASSUME DeliveryInv, Call
  PROVE  [Driver!DeliveryNext]_(Driver!delivery_vars)
<1>1. CASE Start \/ Register
  <2>1. app \in {"off", "register"} /\ UNCHANGED <<owed, buff>>
    BY <1>1 DEF Start, Register
  <2>2. crossed' \in BOOLEAN /\ rushed' \in BOOLEAN
    BY StepInv, <1>1 DEF DeliveryInv, IndInv, TypeBooleans, Next, App
  <2> QED
    BY <2>1, <2>2
<1>2. CASE Unregister \/ Dies
  <2>1. /\ app \notin {"off", "register"} /\ app' = "off"
        /\ owed' = Empty /\ buff' = Empty /\ UNCHANGED <<crossed, rushed>>
    BY <1>2 DEF Unregister, Dies, Exit
  <2> QED
    BY <2>1
<1>3. CASE Stop \/ Write
  <2>1. /\ UNCHANGED <<owed, buff>>
        /\ app = "idle" /\ app' \in {"unregister", "copy"}
    BY <1>3 DEF Stop, Write
  <2>2. (crossed => crossed') /\ (rushed => rushed')
    BY <1>3, StopWrite
  <2>3. CASE crossed' \/ rushed'
    BY <2>1, <2>3
  <2>4. CASE ~crossed' /\ ~rushed'
    <3>1. ~crossed /\ ~rushed
      BY <2>2, <2>4
    <3> QED
      BY <2>1, <2>4, <3>1
  <2> QED
    BY <2>3, <2>4
<1>4. CASE WriteMode("app")
  <2>1. UNCHANGED <<app, owed, buff, crossed, rushed>>
    BY <1>4 DEF WriteMode, history
  <2> QED
    BY <2>1
<1>5. CASE Read
  <2>1. /\ app = "idle" /\ app' = "read" /\ rx_sig /\ buff' = receive_buffer
        /\ UNCHANGED <<owed, crossed, rushed>>
    BY <1>5 DEF Read, history
  <2>2. CASE crossed \/ rushed
    BY <2>1, <2>2
  <2>3. CASE ~crossed /\ ~rushed
    <3>1. receive_buffer = owed /\ owed # Empty /\ buff = Empty
      BY <2>1, <2>3 DEF DeliveryInv, FrameInv, Flight, AtGateway, Signalled, TakenInv
    <3> QED
      BY <2>1, <2>3, <3>1
  <2> QED
    BY <2>2, <2>3
<1>6. CASE Consume
  <2>1. /\ app = "read" /\ app' = "idle" /\ buff' = Empty
        /\ owed' = (IF buff = owed THEN Empty ELSE owed) /\ UNCHANGED <<crossed, rushed>>
    BY <1>6 DEF Consume
  <2>2. CASE crossed \/ rushed
    BY <2>1, <2>2
  <2>3. CASE ~crossed /\ ~rushed
    <3>1. buff = owed /\ owed # Empty
      BY <2>1, <2>3 DEF DeliveryInv, FrameInv, Flight, OneAtATime, AtGateway, Signalled
    <3> QED
      BY <2>1, <2>3, <3>1
  <2> QED
    BY <2>2, <2>3
<1> QED
  BY <1>1, <1>2, <1>3, <1>4, <1>5, <1>6 DEF Call

\* Chip, handler, work item and transmission bring a frame on unseen.
LEMMA OthersDeliver ==
  ASSUME \/ \E d \in BOOLEAN : CadEnds(d)
         \/ TxEnds \/ get_message \/ workqueue_fn \/ LoRa_transmit
  PROVE  UNCHANGED Driver!delivery_vars
<1>1. CASE (\E d \in BOOLEAN : CadEnds(d)) \/ TxEnds \/ get_message \/ workqueue_fn
  <2>1. UNCHANGED <<app, buff, owed, crossed, rushed>>
    BY <1>1 DEF CadEnds, TxEnds, get_message, Interrupt, TestRxDone, ClearRxDone,
                PointAtFrame, ReadFifo, StartReceiving, HandlerReturns, WriteMode,
                workqueue_fn, TestEcho, TestRepetition, Drop, ClearReceived, Store, SendSignal,
                irq_keeps, work_keeps, history
  <2> QED
    BY <2>1
<1>2. CASE LoRa_transmit
  <2>1. /\ UNCHANGED <<buff, owed, crossed, rushed>>
        /\ app \notin {"off", "register"} /\ app' \notin {"off", "register"}
    BY <1>2 DEF LoRa_transmit, CopyFromUser, SaveMode, DetectChannel, Send, ChangeMode, Test,
                ClearFlags, PointAtTxBase, FillFifo, StillSending, Restore, tx_keeps
  <2> QED
    BY <2>1
<1> QED
  BY <1>1, <1>2

HIDE DEF Driver!DeliveryNext, Driver!Unheard, Driver!Come, Driver!Take, Driver!Use,
         Driver!End, Driver!Void, Driver!delivery_vars

(***************************************************************************)
(* The driver implements Delivery: what the gateway uses after a signal is *)
(* the new frame that came, whole (sx1278_read takes no lock), each once,  *)
(* and before the next.                                                    *)
(***************************************************************************)
THEOREM DeliveryImplemented == Spec => DeliverySpec
<1>1. Init => Driver!DeliveryInit
  BY DEF Init, Driver!DeliveryInit
<1>2. DeliveryInv /\ [Next]_vars => [Driver!DeliveryNext]_(Driver!delivery_vars)
  <2> SUFFICES ASSUME DeliveryInv, [Next]_vars
               PROVE  [Driver!DeliveryNext]_(Driver!delivery_vars)
    OBVIOUS
  <2>1. CASE \E f \in Frames : FrameArrives(f)
    BY <2>1, FrameDelivers
  <2>2. CASE Call
    BY <2>2, CallDelivers
  <2>3. CASE \/ \E d \in BOOLEAN : CadEnds(d)
             \/ TxEnds \/ get_message \/ workqueue_fn \/ LoRa_transmit
    BY <2>3, OthersDeliver
  <2>4. CASE UNCHANGED vars
    BY <2>4 DEF vars, history, Driver!delivery_vars
  <2> QED
    BY <2>1, <2>2, <2>3, <2>4 DEF Next, Chip, App, Call
<1> QED
  BY <1>1, <1>2, DeliveryAlways, PTL DEF Spec, DeliverySpec, Driver!Spec

=============================================================================
