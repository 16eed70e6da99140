---------------------------- MODULE Sx1278Device ----------------------------
(***************************************************************************)
(* The life of the radio driver (sx1278.c): the module is loaded, a device *)
(* is bound to it step by step, any step may fail and be undone by the     *)
(* ladder of labels, and the device or the module goes again, while the    *)
(* interrupt handler, the work item and a process with the device open go  *)
(* on as they can.  What the handler and the work do is in module Sx1278;  *)
(* here it matters only which memory they use, and when.                   *)
(***************************************************************************)
EXTENDS Naturals, Sequences

VARIABLES
  pc,          \* where the driver core's thread is: <<routine, step>>
  leaving,     \* the module is being unloaded, not only the device unbound
  held,        \* what has been acquired and not released
  mode,        \* of the chip: "sleep", "standby", "rx"
  reset,       \* the level of the reset line: the chip runs when it is 1
  programmed,  \* the chip has the settings of LoRa_init
  handler,     \* get_message
  work,        \* workqueue_fn: subset of {"queued", "running"}
  file, call,  \* of the process that has the device open
  missed,      \* history: what has not been acquired, the code not noticing
  taken,       \* history: this probe has got hold of the reset line, or has succeeded
  over,        \* history: what the last release was of, or was done through, and was not held
  stray,       \* history: what the handler or the work has used when it was not there
  refused,     \* history: request_irq has failed in this probe
  flaky,       \* history: the chip has answered wrongly, then rightly
  late         \* history: the handler, the work or a process was still at it when
               \* the device began to go, or a process came then

core_vars    == <<pc, leaving, held, missed, taken, over, refused, flaky>>
chip_vars    == <<mode, reset, programmed>>
handler_vars == <<handler, work, stray>>
file_vars    == <<file, call>>
vars == <<core_vars, chip_vars, handler_vars, file_vars, late>>

-----------------------------------------------------------------------------
(* The orders in which things are acquired and released. *)

Buffers == {"receive", "transmit", "cache"}

InitOrder  == <<"region", "class", "driver">>
ExitOrder  == <<"driver", "class", "region">>
ProbeOrder == <<"lora", "line", "dio0", "setup", "cdev", "node", "receive", "transmit",
                "cache", "irq", "reset", "program">>

\* From the label rm_lora down; the struct goes when probe returns (devm_kzalloc).
UnwindOrder == <<"irq", "handled", "cache", "transmit", "receive", "node", "cdev",
                 "reset", "dio0", "line", "lora">>

\* Mutant: a buffer is freed twice.
RemoveOrderTwice == <<"sleep", "receive", "transmit", "receive", "reset", "dio0", "line",
                      "irq", "handled", "node", "cdev", "lora">>

RemoveOrder == <<"sleep", "receive", "transmit", "cache", "reset", "dio0", "line",
                 "irq", "handled", "node", "cdev", "lora">>

Order(routine) ==
  CASE routine = "init"   -> InitOrder
    [] routine = "exit"   -> ExitOrder
    [] routine = "probe"  -> ProbeOrder
    [] routine = "unwind" -> UnwindOrder
    [] routine = "remove" -> RemoveOrder

Routines == {"init", "exit", "probe", "unwind", "remove"}
At(routine, step) == <<routine, CHOOSE n \in 1 .. Len(Order(routine)) : Order(routine)[n] = step>>
In(routine)   == pc[1] = routine
Step          == Order(pc[1])[pc[2]]
Resting(name) == <<name, 1>>

\* The step after this one, or what follows the routine.
After ==
  CASE pc[2] < Len(Order(pc[1]))   -> <<pc[1], pc[2] + 1>>
    [] OTHER ->
         CASE pc[1] = "init"               -> Resting("unbound")
           [] pc[1] = "probe"              -> Resting("bound")
           [] pc[1] = "exit"               -> Resting("out")
           [] pc[1] = "remove" /\ leaving  -> <<"exit", 1>>
           [] OTHER                        -> Resting("unbound")

\* The chip may have been left receiving by whatever ran before.
Init ==
  /\ pc = Resting("out") /\ leaving = FALSE /\ held = {}
  /\ mode \in {"sleep", "standby", "rx"} /\ reset \in {0, 1} /\ programmed \in BOOLEAN
  /\ reset = 0 => mode = "standby" /\ ~programmed
  /\ handler = "idle" /\ work = {}
  /\ file = "closed" /\ call = "none"
  /\ missed = {} /\ taken = FALSE
  /\ over = {} /\ stray = {} /\ refused = FALSE /\ flaky = FALSE /\ late = FALSE

-----------------------------------------------------------------------------
(* Loading and binding. *)

\* insmod; the driver core binds the device of the device tree, or sysfs does.
Load == /\ pc = Resting("out")
        /\ pc' = <<"init", 1>>
        /\ leaving' = FALSE /\ missed' = missed \ {"class"}
        /\ UNCHANGED <<held, taken, over, refused, flaky, chip_vars, handler_vars, file_vars,
                       late>>

Bind == /\ pc = Resting("unbound")
        /\ pc' = <<"probe", 1>>
        /\ missed' = missed \cap {"class"}
        /\ taken' = FALSE /\ refused' = FALSE /\ flaky' = FALSE
        /\ UNCHANGED <<leaving, held, over, chip_vars, handler_vars, file_vars, late>>

\* device_create wants a class, and request_irq the interrupt of a line.
Wants == CASE Step = "node" -> {"class"}
           [] Step = "irq"  -> {"dio0"}
           [] OTHER         -> {}

\* A step of sx1278_init, or of sx1278_probe up to LoRa_init's request_irq.
Acquire ==
  /\ In("init") \/ In("probe")
  /\ Step \notin {"reset", "program"} /\ Wants \subseteq held
  /\ pc' = After
  /\ held' = held \cup ({Step} \ {"setup"})
  /\ reset' = IF Step = "line" THEN 1 ELSE reset    \* GPIOD_OUT_HIGH
  /\ taken' = (taken \/ Step = "line")
  /\ UNCHANGED <<leaving, missed, over, refused, flaky, mode, programmed, handler_vars,
                 file_vars, late>>

\* class_create, gpiod_get and device_create report an error as a pointer: it is
\* tested for NULL, or not at all, and the next step follows.
Unnoticed ==
  /\ In("init") \/ In("probe")
  /\ Step \in {"class", "line", "dio0", "node"}
  /\ pc' = After
  /\ missed' = missed \cup {Step}
  /\ UNCHANGED <<leaving, held, taken, over, refused, flaky, chip_vars, handler_vars,
                 file_vars, late>>

\* Mutant: one label too low.
FailureLow ==
  CASE Step \in {"region", "lora"}   -> After
    [] Step = "driver"               -> At("exit", "class")
    [] Step \in {"setup", "cdev"}    -> At("unwind", "reset")
    [] Step \in {"receive", "transmit"} -> At("unwind", "node")
    [] Step = "cache"                -> At("unwind", "transmit")
    [] Step \in {"irq", "program"}   -> At("unwind", "irq")

\* Mutant: past the line that resets the chip.
FailureUnreset ==
  CASE Step = "region"               -> Resting("out")
    [] Step = "lora"                 -> Resting("unbound")
    [] Step = "driver"               -> At("exit", "class")
    [] Step \in {"setup", "cdev"}    -> At("unwind", "dio0")
    [] Step = "receive"              -> At("unwind", "node")
    [] Step = "transmit"             -> At("unwind", "receive")
    [] Step = "cache"                -> At("unwind", "transmit")
    [] Step \in {"irq", "program"}   -> At("unwind", "irq")

\* Where a failing step goes to: past everything, or to a label.
Failure ==
  CASE Step = "region"               -> Resting("out")
    [] Step = "lora"                 -> Resting("unbound")
    [] Step = "driver"               -> At("exit", "class")
    [] Step \in {"setup", "cdev"}    -> At("unwind", "reset")
    [] Step = "receive"              -> At("unwind", "node")
    [] Step = "transmit"             -> At("unwind", "receive")
    [] Step = "cache"                -> At("unwind", "transmit")
    [] Step \in {"irq", "program"}   -> At("unwind", "irq")

\* A failure that is noticed.
Fail ==
  /\ In("init") \/ In("probe")
  /\ Step \notin {"class", "line", "dio0", "node", "reset", "program"}
  /\ pc' = Failure
  /\ refused' = (Step = "irq")
  /\ UNCHANGED <<leaving, held, missed, taken, over, flaky, chip_vars, handler_vars,
                 file_vars, late>>

\* LoRa_Reset: the chip is itself again, if the line is there to pull.
Reset ==
  /\ In("probe") /\ Step = "reset"
  /\ pc' = After
  /\ IF "line" \in held
     THEN mode' = "standby" /\ programmed' = FALSE
     ELSE UNCHANGED <<mode, programmed>>
  /\ UNCHANGED <<leaving, held, missed, taken, over, refused, flaky, reset, handler_vars,
                 file_vars, late>>

\* The rest of LoRa_init and probe.  The chip is asked for its version twice: before
\* and after it is programmed, or, when the first answer is wrong, at once again.
Program ==
  /\ In("probe") /\ Step = "program"
  /\ \E answers \in [1 .. 2 -> BOOLEAN] :
       /\ reset = 0 => ~answers[1] /\ ~answers[2]
       /\ pc' = IF answers[2] THEN After ELSE At("unwind", "irq")
       /\ programmed' = (programmed \/ answers[1])
       /\ mode' = IF answers[2] THEN "sleep" ELSE IF answers[1] THEN "standby" ELSE mode
       /\ flaky' = (~answers[1] /\ answers[2])
       /\ taken' = (taken \/ answers[2])
  /\ UNCHANGED <<leaving, held, missed, over, refused, reset, handler_vars, file_vars, late>>

-----------------------------------------------------------------------------
(* Going. *)

\* sysfs: whoever has the device open.  rmmod: nobody may (fops.owner).
Unbind ==
  /\ pc = Resting("bound")
  /\ pc' = <<"remove", 1>>
  /\ UNCHANGED <<leaving, held, missed, taken, over, refused, flaky, chip_vars, handler_vars,
                 file_vars, late>>

RemoveModule ==
  /\ pc \in {Resting("bound"), Resting("unbound")}
  /\ file = "closed"
  /\ leaving' = TRUE
  /\ pc' = IF pc = Resting("bound") THEN <<"remove", 1>> ELSE <<"exit", 1>>
  /\ UNCHANGED <<held, missed, taken, over, refused, flaky, chip_vars, handler_vars,
                 file_vars, late>>

Active == handler # "idle" \/ work # {} \/ file = "open"

\* Mutant: the mode is stored, the chip not told.
SleepForgotten ==
  /\ In("remove") /\ Step = "sleep"
  /\ pc' = After
  /\ late' = (late \/ Active)
  /\ UNCHANGED <<mode, leaving, held, missed, taken, over, refused, flaky, reset, programmed,
                 handler_vars, file_vars>>

Sleep ==
  /\ In("remove") /\ Step = "sleep"
  /\ pc' = After
  /\ mode' = "sleep"
  /\ late' = (late \/ Active)
  /\ UNCHANGED <<leaving, held, missed, taken, over, refused, flaky, reset, programmed,
                 handler_vars, file_vars>>

\* free_irq waits for the handler.
Waited == Step = "handled" => handler = "idle"

\* What a releasing step is of, or is done through.
Needs == CASE Step = "node"    -> {"class"}      \* a node that is not there is not found
           [] Step = "reset"   -> {"line"}
           [] Step = "handled" -> {}
           [] OTHER            -> {Step}

Pulled == Step = "reset" /\ "line" \in held

\* A step of sx1278_remove, of the labels or of sx1278_exit.  unregister_chrdev_region
\* of one number, in remove, does not fit the region of two and finds nothing.
Release ==
  /\ In("remove") \/ In("unwind") \/ In("exit")
  /\ Step # "sleep" /\ Waited
  /\ pc' = After
  /\ held' = held \ {Step}
  /\ over' = Needs \ held
  /\ reset' = IF Pulled THEN 0 ELSE reset
  /\ mode' = IF Pulled THEN "standby" ELSE mode
  /\ programmed' = (programmed /\ ~Pulled)
  /\ late' = (late \/ (Step = "handled" /\ In("unwind") /\ work # {}))
  /\ file' = IF Step = "lora" /\ file = "open" THEN "stale" ELSE file
  /\ UNCHANGED <<leaving, missed, taken, refused, flaky, handler_vars, call>>

\* Mutant: the chip is left as it is.
ShutdownForgotten ==
  /\ pc = Resting("bound")
  /\ pc' = Resting("off")
  /\ late' = (late \/ Active)
  /\ UNCHANGED <<mode, leaving, held, missed, taken, over, refused, flaky, reset, programmed,
                 handler_vars, file_vars>>

\* board_shutdown; the machine stops.
Shutdown ==
  /\ pc = Resting("bound")
  /\ pc' = Resting("off")
  /\ mode' = "sleep"
  /\ late' = (late \/ Active)
  /\ UNCHANGED <<leaving, held, missed, taken, over, refused, flaky, reset, programmed,
                 handler_vars, file_vars>>

\* The chip keeps its power, and its mode.
Boot ==
  /\ pc = Resting("off")
  /\ pc' = Resting("out")
  /\ held' = {} /\ handler' = "idle" /\ work' = {} /\ file' = "closed" /\ call' = "none"
  /\ taken' = FALSE /\ stray' = {} /\ late' = FALSE
  /\ UNCHANGED <<leaving, missed, over, refused, flaky, chip_vars>>

-----------------------------------------------------------------------------
(* The handler and the work item. *)

Used(what) == stray' = stray \cup (what \ held)

Interrupt ==
  /\ handler = "idle"
  /\ mode = "rx" /\ reset = 1 /\ "irq" \in held
  /\ handler' = "reading"
  /\ mode' = "standby"
  /\ UNCHANGED <<work, stray, core_vars, reset, programmed, file_vars, late>>

\* LoRa_receive stores the frame.
ReadFrame ==
  /\ handler = "reading"
  /\ handler' = "returning"
  /\ Used({"lora", "cache"})
  /\ UNCHANGED <<work, core_vars, chip_vars, file_vars, late>>

\* LoRa_startReceiving, schedule_work.
HandlerReturns ==
  /\ handler = "returning"
  /\ handler' = "idle"
  /\ mode' = IF reset = 1 THEN "rx" ELSE mode
  /\ work' = work \cup {"queued"}
  /\ Used({"lora"})
  /\ UNCHANGED <<core_vars, reset, programmed, file_vars, late>>

WorkStarts ==
  /\ "queued" \in work /\ "running" \notin work
  /\ work' = {"running"}
  /\ UNCHANGED <<handler, stray, core_vars, chip_vars, file_vars, late>>

WorkEnds ==
  /\ "running" \in work
  /\ work' = work \ {"running"}
  /\ Used({"lora"} \cup Buffers)
  /\ UNCHANGED <<handler, core_vars, chip_vars, file_vars, late>>

-----------------------------------------------------------------------------
(* A process. *)

\* From device_create on, before probe has allocated the buffers; no more once the
\* module is going (fops.owner).
Open == /\ file = "closed" /\ {"cdev", "node"} \subseteq held /\ ~leaving
        /\ file' = "open"
        /\ UNCHANGED <<call, core_vars, chip_vars, handler_vars, late>>

\* A call reads or writes the buffers, or sets a mode, whatever is there: one made
\* before they are there finds NULL, one made afterwards freed memory, which is beyond
\* this model.  Through a live file it can set the chip to receive, or to sleep.
Call ==
  /\ file # "closed" /\ call = "none"
  /\ call' = "some"
  /\ UNCHANGED <<file, core_vars, chip_vars, handler_vars, late>>

Return ==
  /\ call # "none"
  /\ call' = "none"
  /\ mode' \in IF file = "open" /\ reset = 1 THEN {mode, "rx", "sleep"} ELSE {mode}
  /\ late' = (late \/ In("remove") \/ In("off"))
  /\ UNCHANGED <<file, core_vars, reset, programmed, handler_vars>>

Close == /\ file # "closed" /\ call = "none"
         /\ file' = "closed"
         /\ UNCHANGED <<call, core_vars, chip_vars, handler_vars, late>>

-----------------------------------------------------------------------------

Core    == Load \/ Bind \/ Acquire \/ Unnoticed \/ Fail \/ Reset \/ Program
           \/ Unbind \/ RemoveModule \/ Sleep \/ Release \/ Shutdown \/ Boot
Driver  == Interrupt \/ ReadFrame \/ HandlerReturns \/ WorkStarts \/ WorkEnds
Process == Open \/ Call \/ Return \/ Close

Next == Core \/ Driver \/ Process

Spec == Init /\ [][Next]_vars

-----------------------------------------------------------------------------

Things == {"region", "class", "driver", "lora", "line", "dio0", "cdev", "node", "irq"} \cup Buffers
Rests  == {"out", "unbound", "bound", "off"}

TypeOK ==
  /\ \/ pc[1] \in Rests /\ pc[2] = 1
     \/ pc[1] \in Routines /\ pc[2] \in 1 .. Len(Order(pc[1]))
  /\ leaving \in BOOLEAN /\ taken \in BOOLEAN /\ refused \in BOOLEAN /\ flaky \in BOOLEAN
  /\ late \in BOOLEAN
  /\ held \subseteq Things /\ missed \subseteq Things
  /\ over \subseteq Things /\ stray \subseteq Things
  /\ mode \in {"sleep", "standby", "rx"} /\ reset \in {0, 1} /\ programmed \in BOOLEAN
  /\ handler \in {"idle", "reading", "returning"} /\ work \subseteq {"queued", "running"}
  /\ file \in {"closed", "open", "stale"} /\ call \in {"none", "some"}

(***************************************************************************)
(* Nothing is released twice, or without having been acquired, or through  *)
(* what is not there, whichever step of loading or of a probe fails        *)
(* (sx1278.c:303-318, 330-341, 397-406) -- but for the interrupt when it   *)
(* is request_irq that has failed, and for what the code has not noticed   *)
(* it did not get: a class, a GPIO line that are error pointers are put    *)
(* back as if they were there.                                             *)
(***************************************************************************)
ReleasedOnce == over \subseteq missed \cup (IF refused THEN {"irq"} ELSE {})

(***************************************************************************)
(* What is held is what should be: a probe that fails, a removal and an    *)
(* unloading leave nothing behind, and a bound device lacks at most the    *)
(* class, the node and the reset line, whose failures nobody notices       *)
(* (sx1278.c:233, 266, 382), and no node without a reason.  Its chip has   *)
(* been programmed -- but for one that gave its version only when asked    *)
(* again (sx1278.c:753-758).  (And every variable has its type.)           *)
(***************************************************************************)
HeldExact ==
  /\ TypeOK
  /\ pc = Resting("unbound") => held = {"region", "class", "driver"} \ missed
  /\ pc = Resting("out") => held = {}
  /\ pc = Resting("bound") =>
       /\ held = Things \ missed
       /\ missed \subseteq {"class", "node", "line"} /\ ("class" \in missed => "node" \in missed)
       /\ programmed \/ flaky

\* The handler never runs, and the device is never opened, on a struct that is not
\* there: free_irq and cdev_del come before the struct goes.
StructAlive ==
  /\ handler # "idle" => "lora" \in held
  /\ "cdev" \in held => "lora" \in held
  /\ "node" \in held => {"class", "cdev"} \subseteq held

\* Nothing of the module runs when it is unloaded, but for a work item as below.
CodeAlive ==
  pc = Resting("out") => file = "closed" /\ handler = "idle" /\ (work = {} \/ late)

(***************************************************************************)
(* The handler and the work use only memory and code that is there, also   *)
(* in a probe that fails after a process has already set the chip to       *)
(* receive -- but when one of them, or a process, is still at it when the  *)
(* device goes: the buffers go before the interrupt, and the work is never *)
(* cancelled (sx1278.c:330-338).                                           *)
(***************************************************************************)
UsesLive == StructAlive /\ CodeAlive /\ (stray = {} \/ late)

(***************************************************************************)
(* A chip nobody listens to does not receive: from a failed probe, a       *)
(* removal or a shutdown until the next probe, whatever handler or call    *)
(* ends only then and sets it to receive once more (sx1278.c:674).  That   *)
(* is what the reset line is pulled for (sx1278.c:315, 335); where there   *)
(* is none, and in a shutdown, a handler or a call that was still at it    *)
(* does leave the chip receiving.  A probe that fails without the line     *)
(* leaves it as it was.                                                    *)
(***************************************************************************)
Quiet ==
  taken /\ pc[1] \notin {"probe", "bound", "unwind", "remove"} =>
    mode # "rx" \/ (late /\ (In("off") \/ "line" \in missed))

=============================================================================
