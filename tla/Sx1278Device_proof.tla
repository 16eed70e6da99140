------------------------- MODULE Sx1278Device_proof -------------------------
(***************************************************************************)
(* The life of the radio driver: what is held at each step of each         *)
(* routine, and who may be at work then.                                   *)
(***************************************************************************)
EXTENDS Sx1278Device, TLAPS

-----------------------------------------------------------------------------
(* The inductive invariant. *)

Place(routine, step) == At(routine, step)[2]

OfModule == {"region", "class", "driver"}
OfDevice == Things \ OfModule

\* At p, a routine that acquires has what comes before its step, one that releases
\* what comes from there on.
Has(p, thing) ==
  IF thing \in OfModule
  THEN \/ p[1] \in {"unbound", "probe", "unwind", "bound", "remove", "off"}
       \/ p[1] = "init" /\ p[2] > Place("init", thing)
       \/ p[1] = "exit" /\ p[2] <= Place("exit", thing)
  ELSE \/ p[1] \in {"bound", "off"}
       \/ p[1] = "probe" /\ p[2] > Place("probe", thing)
       \/ p[1] = "unwind" /\ p[2] <= Place("unwind", thing)
       \/ p[1] = "remove" /\ p[2] <= Place("remove", thing)

\* What can be missed, and what follows from that.
MissedInv ==
  /\ missed \subseteq {"class", "line", "dio0", "node"}
  /\ \A thing \in missed :
       /\ thing \notin held
       /\ In("probe") \/ (In("init") /\ thing \in OfModule) => Has(pc, thing)
  /\ Has(pc, "node") /\ "class" \in missed => "node" \in missed
  /\ Has(pc, "irq") /\ ~In("unwind") => "dio0" \notin missed

\* Nothing is there before its step or after it; what should be there may have been
\* missed, or be the interrupt that was refused.
HeldInv ==
  /\ \A thing \in Things : thing \in held => Has(pc, thing)
  /\ \A thing \in Things :
       Has(pc, thing) => thing \in held \cup missed \/ (thing = "irq" /\ refused)
  /\ refused => pc[1] \notin {"probe", "bound", "remove", "off"}

OverInv ==
  /\ ReleasedOnce
  /\ over # {} => pc[1] \in {"unwind", "remove", "exit"}

\* Where the reset line has been pulled, and where nobody listens any more.
HeldDown(p) ==
  \/ p[1] = "unwind" /\ p[2] > Place("unwind", "reset")
  \/ p[1] = "remove" /\ p[2] > Place("remove", "reset")
Deserted(p) == p[1] \in {"unbound", "exit", "out", "init"}

ChipInv ==
  /\ In("bound") => programmed \/ flaky
  /\ reset = 0 => mode # "rx"
  /\ taken /\ In("probe") => pc[2] > Place("probe", "line") /\ "line" \notin missed
  /\ taken /\ In("unwind") => "line" \notin missed
  /\ taken /\ (HeldDown(pc) \/ Deserted(pc)) => reset = 0 \/ "line" \in missed
  /\ taken /\ Deserted(pc) => mode # "rx" \/ (late /\ "line" \in missed)

\* Where the interrupt can come, and be waited for.
Interruptible(p) ==
  \/ p[1] \in {"bound", "off"}
  \/ p[1] = "probe" /\ p[2] > Place("probe", "irq")
  \/ p[1] = "unwind" /\ p[2] <= Place("unwind", "handled")
  \/ p[1] = "remove" /\ p[2] <= Place("remove", "handled")

\* Once remove, or shutdown, has put the chip to sleep, handler and work are at rest,
\* unless they, or a process, were at it then.
Asleep(p) == p[1] = "off" \/ (p[1] = "remove" /\ p[2] > Place("remove", "sleep"))

WorkInv ==
  /\ handler # "idle" => Interruptible(pc)
  /\ ~late => /\ work # {} => Interruptible(pc)
              /\ Asleep(pc) => mode # "rx" /\ handler = "idle" /\ work = {}
              /\ stray = {}

FileInv ==
  /\ leaving => pc[1] \in {"remove", "exit", "out"} /\ file = "closed"
  /\ pc[1] \in {"out", "init", "exit"} => file = "closed"
  /\ file = "open" => Has(pc, "lora")

HoldInv == HeldInv /\ MissedInv /\ OverInv

Inv == TypeOK /\ HoldInv /\ ChipInv /\ WorkInv /\ FileInv

-----------------------------------------------------------------------------
(* The orders. *)

USE DEF In

LEMMA Lengths ==
  /\ Len(Order("init")) = 3 /\ Len(Order("exit")) = 3
  /\ Len(Order("probe")) = 12 /\ Len(Order("unwind")) = 11 /\ Len(Order("remove")) = 12
BY DEF Order, InitOrder, ExitOrder, ProbeOrder, UnwindOrder, RemoveOrder

LEMMA InitPlaces ==
  /\ Place("init", "region") = 1 /\ Place("init", "class") = 2
  /\ Place("init", "driver") = 3
BY DEF Place, At, Order, InitOrder

LEMMA ExitPlaces ==
  /\ Place("exit", "driver") = 1 /\ Place("exit", "class") = 2
  /\ Place("exit", "region") = 3
BY DEF Place, At, Order, ExitOrder

LEMMA ProbePlaces ==
  /\ Place("probe", "lora") = 1 /\ Place("probe", "line") = 2
  /\ Place("probe", "dio0") = 3
  /\ Place("probe", "cdev") = 5 /\ Place("probe", "node") = 6
  /\ Place("probe", "receive") = 7 /\ Place("probe", "transmit") = 8
  /\ Place("probe", "cache") = 9 /\ Place("probe", "irq") = 10
BY DEF Place, At, Order, ProbeOrder

LEMMA UnwindPlaces ==
  /\ Place("unwind", "irq") = 1 /\ Place("unwind", "handled") = 2
  /\ Place("unwind", "cache") = 3 /\ Place("unwind", "transmit") = 4
  /\ Place("unwind", "receive") = 5 /\ Place("unwind", "node") = 6
  /\ Place("unwind", "cdev") = 7 /\ Place("unwind", "reset") = 8
  /\ Place("unwind", "dio0") = 9 /\ Place("unwind", "line") = 10
  /\ Place("unwind", "lora") = 11
BY DEF Place, At, Order, UnwindOrder

LEMMA RemovePlaces ==
  /\ Place("remove", "sleep") = 1 /\ Place("remove", "receive") = 2
  /\ Place("remove", "transmit") = 3 /\ Place("remove", "cache") = 4
  /\ Place("remove", "reset") = 5 /\ Place("remove", "dio0") = 6
  /\ Place("remove", "line") = 7 /\ Place("remove", "irq") = 8
  /\ Place("remove", "handled") = 9 /\ Place("remove", "node") = 10
  /\ Place("remove", "cdev") = 11 /\ Place("remove", "lora") = 12
BY DEF Place, At, Order, RemoveOrder

HasModule(p, k, l) ==
  \/ p[1] \in {"unbound", "probe", "unwind", "bound", "remove", "off"}
  \/ p[1] = "init" /\ p[2] > k
  \/ p[1] = "exit" /\ p[2] <= l

LEMMA HasOfModule ==
  ASSUME NEW p
  PROVE  /\ Has(p, "region") <=> HasModule(p, 1, 3)
         /\ Has(p, "class")  <=> HasModule(p, 2, 2)
         /\ Has(p, "driver") <=> HasModule(p, 3, 1)
BY InitPlaces, ExitPlaces DEF Has, OfModule, HasModule

HasDevice(p, k, l, m) ==
  \/ p[1] \in {"bound", "off"}
  \/ p[1] = "probe" /\ p[2] > k
  \/ p[1] = "unwind" /\ p[2] <= l
  \/ p[1] = "remove" /\ p[2] <= m

LEMMA HasOfDevice ==
  ASSUME NEW p
  PROVE  /\ Has(p, "lora")     <=> HasDevice(p, 1, 11, 12)
         /\ Has(p, "line")     <=> HasDevice(p, 2, 10, 7)
         /\ Has(p, "dio0")     <=> HasDevice(p, 3, 9, 6)
         /\ Has(p, "cdev")     <=> HasDevice(p, 5, 7, 11)
         /\ Has(p, "node")     <=> HasDevice(p, 6, 6, 10)
         /\ Has(p, "receive")  <=> HasDevice(p, 7, 5, 2)
         /\ Has(p, "transmit") <=> HasDevice(p, 8, 4, 3)
         /\ Has(p, "cache")    <=> HasDevice(p, 9, 3, 4)
         /\ Has(p, "irq")      <=> HasDevice(p, 10, 1, 8)
BY ProbePlaces, UnwindPlaces, RemovePlaces DEF Has, OfModule, HasDevice

\* Every step of a routine, by its number.
LEMMA InitSteps ==
  ASSUME In("init"), pc[2] \in 1 .. 3
  PROVE  <<pc[2], Step>> \in {<<1, "region">>, <<2, "class">>,
                              <<3, "driver">>}
<1>1. InitOrder[1] = "region" /\ InitOrder[2] = "class" /\
      InitOrder[3] = "driver"
  BY DEF InitOrder
<1>2. Step = InitOrder[pc[2]]
  BY DEF Step, Order
<1>3. pc[2] = 1 \/ pc[2] = 2 \/ pc[2] = 3
  OBVIOUS
<1> QED
  BY <1>1, <1>2, <1>3

LEMMA ExitSteps ==
  ASSUME In("exit"), pc[2] \in 1 .. 3
  PROVE  <<pc[2], Step>> \in {<<1, "driver">>, <<2, "class">>,
                              <<3, "region">>}
<1>1. ExitOrder[1] = "driver" /\ ExitOrder[2] = "class" /\
      ExitOrder[3] = "region"
  BY DEF ExitOrder
<1>2. Step = ExitOrder[pc[2]]
  BY DEF Step, Order
<1>3. pc[2] = 1 \/ pc[2] = 2 \/ pc[2] = 3
  OBVIOUS
<1> QED
  BY <1>1, <1>2, <1>3

LEMMA ProbeSteps ==
  ASSUME In("probe"), pc[2] \in 1 .. 12
  PROVE  <<pc[2], Step>> \in {<<1, "lora">>, <<2, "line">>, <<3, "dio0">>,
                              <<4, "setup">>, <<5, "cdev">>, <<6, "node">>,
                              <<7, "receive">>, <<8, "transmit">>,
                              <<9, "cache">>, <<10, "irq">>, <<11, "reset">>,
                              <<12, "program">>}
<1>1. ProbeOrder[1] = "lora" /\ ProbeOrder[2] = "line" /\
      ProbeOrder[3] = "dio0" /\ ProbeOrder[4] = "setup" /\
      ProbeOrder[5] = "cdev" /\ ProbeOrder[6] = "node" /\
      ProbeOrder[7] = "receive" /\ ProbeOrder[8] = "transmit" /\
      ProbeOrder[9] = "cache" /\ ProbeOrder[10] = "irq" /\
      ProbeOrder[11] = "reset" /\ ProbeOrder[12] = "program"
  BY DEF ProbeOrder
<1>2. Step = ProbeOrder[pc[2]]
  BY DEF Step, Order
<1>3. pc[2] = 1 \/ pc[2] = 2 \/ pc[2] = 3 \/ pc[2] = 4 \/ pc[2] = 5 \/
      pc[2] = 6 \/ pc[2] = 7 \/ pc[2] = 8 \/ pc[2] = 9 \/ pc[2] = 10 \/
      pc[2] = 11 \/ pc[2] = 12
  OBVIOUS
<1> QED
  BY <1>1, <1>2, <1>3

LEMMA UnwindSteps ==
  ASSUME In("unwind"), pc[2] \in 1 .. 11
  PROVE  <<pc[2], Step>> \in {<<1, "irq">>, <<2, "handled">>, <<3, "cache">>,
                              <<4, "transmit">>, <<5, "receive">>,
                              <<6, "node">>, <<7, "cdev">>, <<8, "reset">>,
                              <<9, "dio0">>, <<10, "line">>, <<11, "lora">>}
<1>1. UnwindOrder[1] = "irq" /\ UnwindOrder[2] = "handled" /\
      UnwindOrder[3] = "cache" /\ UnwindOrder[4] = "transmit" /\
      UnwindOrder[5] = "receive" /\ UnwindOrder[6] = "node" /\
      UnwindOrder[7] = "cdev" /\ UnwindOrder[8] = "reset" /\
      UnwindOrder[9] = "dio0" /\ UnwindOrder[10] = "line" /\
      UnwindOrder[11] = "lora"
  BY DEF UnwindOrder
<1>2. Step = UnwindOrder[pc[2]]
  BY DEF Step, Order
<1>3. pc[2] = 1 \/ pc[2] = 2 \/ pc[2] = 3 \/ pc[2] = 4 \/ pc[2] = 5 \/
      pc[2] = 6 \/ pc[2] = 7 \/ pc[2] = 8 \/ pc[2] = 9 \/ pc[2] = 10 \/
      pc[2] = 11
  OBVIOUS
<1> QED
  BY <1>1, <1>2, <1>3

LEMMA RemoveSteps ==
  ASSUME In("remove"), pc[2] \in 1 .. 12
  PROVE  <<pc[2], Step>> \in {<<1, "sleep">>, <<2, "receive">>,
                              <<3, "transmit">>, <<4, "cache">>,
                              <<5, "reset">>, <<6, "dio0">>, <<7, "line">>,
                              <<8, "irq">>, <<9, "handled">>, <<10, "node">>,
                              <<11, "cdev">>, <<12, "lora">>}
<1>1. RemoveOrder[1] = "sleep" /\ RemoveOrder[2] = "receive" /\
      RemoveOrder[3] = "transmit" /\ RemoveOrder[4] = "cache" /\
      RemoveOrder[5] = "reset" /\ RemoveOrder[6] = "dio0" /\
      RemoveOrder[7] = "line" /\ RemoveOrder[8] = "irq" /\
      RemoveOrder[9] = "handled" /\ RemoveOrder[10] = "node" /\
      RemoveOrder[11] = "cdev" /\ RemoveOrder[12] = "lora"
  BY DEF RemoveOrder
<1>2. Step = RemoveOrder[pc[2]]
  BY DEF Step, Order
<1>3. pc[2] = 1 \/ pc[2] = 2 \/ pc[2] = 3 \/ pc[2] = 4 \/ pc[2] = 5 \/
      pc[2] = 6 \/ pc[2] = 7 \/ pc[2] = 8 \/ pc[2] = 9 \/ pc[2] = 10 \/
      pc[2] = 11 \/ pc[2] = 12
  OBVIOUS
<1> QED
  BY <1>1, <1>2, <1>3

\* Where each routine goes on.
LEMMA Afters ==
  ASSUME TypeOK
  PROVE  /\ In("init")   => After = IF pc[2] < 3 THEN <<"init", pc[2] + 1>> ELSE <<"unbound", 1>>
         /\ In("exit")   => After = IF pc[2] < 3 THEN <<"exit", pc[2] + 1>> ELSE <<"out", 1>>
         /\ In("probe")  => After = IF pc[2] < 12 THEN <<"probe", pc[2] + 1>> ELSE <<"bound", 1>>
         /\ In("unwind") => After = IF pc[2] < 11 THEN <<"unwind", pc[2] + 1>> ELSE <<"unbound", 1>>
         /\ In("remove") => After = IF pc[2] < 12 THEN <<"remove", pc[2] + 1>>
                                    ELSE IF leaving THEN <<"exit", 1>> ELSE <<"unbound", 1>>
BY Lengths DEF After, Resting

\* The numbers the steps of a routine have.
LEMMA Numbers ==
  ASSUME TypeOK
  PROVE  /\ In("init") \/ In("exit") => pc[2] \in 1 .. 3
         /\ In("probe") \/ In("remove") => pc[2] \in 1 .. 12
         /\ In("unwind") => pc[2] \in 1 .. 11
         /\ pc[1] \in Rests \cup Routines
BY Lengths DEF TypeOK, Rests, Routines

\* Where a failing step goes to.
LEMMA Failures ==
  /\ Step = "region" => Failure = <<"out", 1>>
  /\ Step = "driver" => Failure = <<"exit", 2>>
  /\ Step = "lora" => Failure = <<"unbound", 1>>
  /\ Step \in {"setup", "cdev"} => Failure = <<"unwind", 8>>
  /\ Step = "receive" => Failure = <<"unwind", 6>>
  /\ Step = "transmit" => Failure = <<"unwind", 5>>
  /\ Step = "cache" => Failure = <<"unwind", 4>>
  /\ Step \in {"irq", "program"} => Failure = <<"unwind", 1>>
<1>1. \A r, x : At(r, x) = <<r, Place(r, x)>>
  BY DEF At, Place
<1> QED
  BY <1>1, ExitPlaces, UnwindPlaces DEF Failure, Resting

-----------------------------------------------------------------------------
(* The driver core's thread: what is held. *)

LEMMA SetupNowhere ==
  ASSUME In("probe"), pc[2] = 4
  PROVE  ~Has(pc, "setup")
<1>1. Place("probe", "setup") = 4
  BY DEF Place, At, Order, ProbeOrder
<1> QED
  BY <1>1 DEF Has, OfModule

\* A step that acquires something, or does not and is not noticed.
Onward == Acquire \/ Unnoticed

\* Where each step leads that goes onward, fails or releases.
LEMMA OnwardLeads ==
  ASSUME TypeOK, Onward
  PROVE  \/ /\ In("init")
            /\ <<pc[2], Step>> \in {<<1, "region">>, <<2, "class">>, <<3, "driver">>}
            /\ pc' = IF pc[2] < 3 THEN <<"init", pc[2] + 1>> ELSE <<"unbound", 1>>
         \/ /\ In("probe")
            /\ <<pc[2], Step>> \in {<<1, "lora">>, <<2, "line">>, <<3, "dio0">>,
                                    <<4, "setup">>, <<5, "cdev">>, <<6, "node">>,
                                    <<7, "receive">>, <<8, "transmit">>, <<9, "cache">>,
                                    <<10, "irq">>}
            /\ pc' = <<"probe", pc[2] + 1>>
<1>1. pc' = After /\ Step \notin {"reset", "program"} /\ (In("init") \/ In("probe"))
  BY DEF Onward, Acquire, Unnoticed
<1>2. CASE In("init")
  <2>1. <<pc[2], Step>> \in {<<1, "region">>, <<2, "class">>, <<3, "driver">>}
    BY <1>2, Numbers, InitSteps
  <2>2. pc' = IF pc[2] < 3 THEN <<"init", pc[2] + 1>> ELSE <<"unbound", 1>>
    BY <1>1, <1>2, Afters
  <2> QED
    BY <1>2, <2>1, <2>2
<1>3. CASE In("probe")
  <2>1. <<pc[2], Step>> \in {<<1, "lora">>, <<2, "line">>, <<3, "dio0">>, <<4, "setup">>,
                             <<5, "cdev">>, <<6, "node">>, <<7, "receive">>,
                             <<8, "transmit">>, <<9, "cache">>, <<10, "irq">>}
    BY <1>1, <1>3, Numbers, ProbeSteps
  <2>2. pc' = <<"probe", pc[2] + 1>>
    BY <1>1, <1>3, <2>1, Afters
  <2> QED
    BY <1>3, <2>1, <2>2
<1> QED
  BY <1>1, <1>2, <1>3

LEMMA FailLeads ==
  ASSUME TypeOK, Fail
  PROVE  \/ /\ In("init")
            /\ \/ pc[2] = 1 /\ Step = "region" /\ pc' = <<"out", 1>>
               \/ pc[2] = 3 /\ Step = "driver" /\ pc' = <<"exit", 2>>
         \/ /\ In("probe")
            /\ \/ pc[2] = 1 /\ Step = "lora"     /\ pc' = <<"unbound", 1>>
               \/ pc[2] = 4 /\ Step = "setup"    /\ pc' = <<"unwind", 8>>
               \/ pc[2] = 5 /\ Step = "cdev"     /\ pc' = <<"unwind", 8>>
               \/ pc[2] = 7 /\ Step = "receive"  /\ pc' = <<"unwind", 6>>
               \/ pc[2] = 8 /\ Step = "transmit" /\ pc' = <<"unwind", 5>>
               \/ pc[2] = 9 /\ Step = "cache"    /\ pc' = <<"unwind", 4>>
               \/ pc[2] = 10 /\ Step = "irq"     /\ pc' = <<"unwind", 1>>
<1>1. pc' = Failure
  BY DEF Fail
<1>2. CASE In("init")
  <2>1. <<pc[2], Step>> \in {<<1, "region">>, <<3, "driver">>}
    BY <1>2, Numbers, InitSteps DEF Fail
  <2> QED
    BY <1>1, <1>2, <2>1, Failures
<1>3. CASE In("probe")
  <2>1. <<pc[2], Step>> \in {<<1, "lora">>, <<4, "setup">>, <<5, "cdev">>, <<7, "receive">>,
                             <<8, "transmit">>, <<9, "cache">>, <<10, "irq">>}
    BY <1>3, Numbers, ProbeSteps DEF Fail
  <2> QED
    BY <1>1, <1>3, <2>1, Failures
<1> QED
  BY <1>2, <1>3 DEF Fail

LEMMA ReleaseLeads ==
  ASSUME TypeOK, Release
  PROVE  \/ /\ In("exit")
            /\ <<pc[2], Step>> \in {<<1, "driver">>, <<2, "class">>, <<3, "region">>}
            /\ pc' = IF pc[2] < 3 THEN <<"exit", pc[2] + 1>> ELSE <<"out", 1>>
         \/ /\ In("unwind")
            /\ <<pc[2], Step>> \in {<<1, "irq">>, <<2, "handled">>, <<3, "cache">>,
                                    <<4, "transmit">>, <<5, "receive">>, <<6, "node">>,
                                    <<7, "cdev">>, <<8, "reset">>, <<9, "dio0">>,
                                    <<10, "line">>, <<11, "lora">>}
            /\ pc' = IF pc[2] < 11 THEN <<"unwind", pc[2] + 1>> ELSE <<"unbound", 1>>
         \/ /\ In("remove")
            /\ <<pc[2], Step>> \in {<<2, "receive">>, <<3, "transmit">>, <<4, "cache">>,
                                    <<5, "reset">>, <<6, "dio0">>, <<7, "line">>,
                                    <<8, "irq">>, <<9, "handled">>, <<10, "node">>,
                                    <<11, "cdev">>, <<12, "lora">>}
            /\ pc' = IF pc[2] < 12 THEN <<"remove", pc[2] + 1>>
                     ELSE IF leaving THEN <<"exit", 1>> ELSE <<"unbound", 1>>
<1>1. pc' = After /\ Step # "sleep"
  BY DEF Release
<1>2. CASE In("exit")
  <2>1. <<pc[2], Step>> \in {<<1, "driver">>, <<2, "class">>, <<3, "region">>}
    BY <1>2, Numbers, ExitSteps
  <2>2. pc' = IF pc[2] < 3 THEN <<"exit", pc[2] + 1>> ELSE <<"out", 1>>
    BY <1>1, <1>2, Afters
  <2> QED
    BY <1>2, <2>1, <2>2
<1>3. CASE In("unwind")
  <2>1. pc' = IF pc[2] < 11 THEN <<"unwind", pc[2] + 1>> ELSE <<"unbound", 1>>
    BY <1>1, <1>3, Afters
  <2> QED
    BY <1>3, <2>1, Numbers, UnwindSteps
<1>4. CASE In("remove")
  <2>1. <<pc[2], Step>> \in {<<2, "receive">>, <<3, "transmit">>, <<4, "cache">>,
                             <<5, "reset">>, <<6, "dio0">>, <<7, "line">>, <<8, "irq">>,
                             <<9, "handled">>, <<10, "node">>, <<11, "cdev">>,
                             <<12, "lora">>}
    BY <1>1, <1>4, Numbers, RemoveSteps
  <2>2. pc' = IF pc[2] < 12 THEN <<"remove", pc[2] + 1>>
              ELSE IF leaving THEN <<"exit", 1>> ELSE <<"unbound", 1>>
    BY <1>1, <1>4, Afters
  <2> QED
    BY <1>4, <2>1, <2>2
<1> QED
  BY <1>2, <1>3, <1>4 DEF Release

\* What a step adds to what there should be, or takes from it.
LEMMA OnwardHas ==
  ASSUME TypeOK, Onward
  PROVE  /\ \A thing \in Things : Has(pc, thing)' <=> Has(pc, thing) \/ thing = Step
         /\ Step \in Things => ~Has(pc, Step)
         /\ In("init") => Step \in OfModule
         /\ ~Has(pc, "irq") /\ (Step \in {"class", "line", "dio0", "node"} => ~Has(pc, "node"))
<1>1. /\ \A thing \in Things : Has(pc, thing)' <=> Has(pc, thing) \/ thing = Step
      /\ Step \in Things => ~Has(pc, Step)
  BY OnwardLeads, HasOfModule, HasOfDevice DEF HasModule, HasDevice, Things, Buffers
<1>2. In("init") => Step \in OfModule
  BY OnwardLeads DEF OfModule
<1>3. ~Has(pc, "irq") /\ (Step \in {"class", "line", "dio0", "node"} => ~Has(pc, "node"))
  BY OnwardLeads, HasOfDevice DEF HasDevice
<1> QED
  BY <1>1, <1>2, <1>3

LEMMA FailHas ==
  ASSUME TypeOK, Fail
  PROVE  /\ \A thing \in Things :
              Has(pc, thing)' <=> Has(pc, thing) \/ (thing = "irq" /\ Step = "irq")
         /\ pc'[1] \in {"out", "exit", "unbound", "unwind"}
         /\ ~Has(pc, "irq")
         /\ Step = "irq" => pc'[1] = "unwind"
<1>1. /\ pc'[1] \in {"out", "exit", "unbound", "unwind"}
      /\ Step = "irq" => pc'[1] = "unwind"
  BY FailLeads
<1>2. ~Has(pc, "irq")
  BY FailLeads, HasOfDevice DEF HasDevice
<1>3. CASE In("init")
  BY <1>1, <1>2, <1>3, FailLeads, HasOfModule, HasOfDevice
     DEF HasModule, HasDevice, Things, Buffers
<1>4. CASE In("probe")
  <2>1. \A thing \in OfModule : Has(pc, thing)' /\ Has(pc, thing)
    BY <1>4, FailLeads, HasOfModule DEF HasModule, OfModule
  <2>2. \A thing \in OfDevice :
          Has(pc, thing)' <=> Has(pc, thing) \/ (thing = "irq" /\ Step = "irq")
    BY <1>4, FailLeads, HasOfDevice DEF HasDevice, OfDevice, OfModule, Things, Buffers
  <2>3. "irq" \notin OfModule
    BY DEF OfModule
  <2> QED
    BY <1>1, <1>2, <2>1, <2>2, <2>3 DEF OfDevice
<1> QED
  BY <1>3, <1>4 DEF Fail

LEMMA ReleaseHas ==
  ASSUME TypeOK, Release
  PROVE  /\ Step \in Things \cup {"reset", "handled"}
         /\ Step \in Things => Has(pc, Step)
         /\ Step = "node" => Has(pc, "class")
         /\ Step = "reset" => Has(pc, "line")
         /\ \A thing \in Things : Has(pc, thing)' <=> Has(pc, thing) /\ thing # Step
         /\ pc'[1] \in {"out", "exit", "unbound", "unwind", "remove"}
         /\ pc'[1] = "remove" => In("remove")
         /\ pc'[1] \in {"out", "unbound"} => Step \in {"region", "lora"}
<1>1. /\ Step \in Things \cup {"reset", "handled"}
      /\ pc'[1] \in {"out", "exit", "unbound", "unwind", "remove"}
      /\ pc'[1] = "remove" => In("remove")
  BY ReleaseLeads DEF Things, Buffers
<1>2. pc'[1] \in {"out", "unbound"} => Step \in {"region", "lora"}
  BY ReleaseLeads, Numbers
<1>3. Step = "node" => Has(pc, "class")
  BY ReleaseLeads, HasOfModule DEF HasModule
<1>4. Step = "reset" => Has(pc, "line")
  BY ReleaseLeads, HasOfDevice DEF HasDevice
<1>5. CASE In("exit")
  BY <1>1, <1>2, <1>3, <1>4, <1>5, ReleaseLeads, HasOfModule, HasOfDevice
     DEF HasModule, HasDevice, Things, Buffers
<1>6. CASE In("unwind")
  BY <1>1, <1>2, <1>3, <1>4, <1>6, ReleaseLeads, HasOfModule, HasOfDevice
     DEF HasModule, HasDevice, Things, Buffers
<1>7. CASE In("remove")
  BY <1>1, <1>2, <1>3, <1>4, <1>7, ReleaseLeads, HasOfModule, HasOfDevice
     DEF HasModule, HasDevice, Things, Buffers
<1> QED
  BY <1>5, <1>6, <1>7 DEF Release

\* The other steps of the driver core's thread acquire and release nothing.
Others == \/ Load \/ Bind \/ Reset \/ Program
          \/ Unbind \/ RemoveModule \/ Sleep \/ Shutdown

\* Where each of them leads.
LEMMA OthersLead ==
  ASSUME TypeOK, Others
  PROVE  \/ Load /\ In("out") /\ pc' = <<"init", 1>>
         \/ Bind /\ In("unbound") /\ pc' = <<"probe", 1>>
         \/ Reset /\ In("probe") /\ pc[2] = 11 /\ pc' = <<"probe", 12>>
         \/ Program /\ In("probe") /\ pc[2] = 12 /\ pc' \in {<<"bound", 1>>, <<"unwind", 1>>}
         \/ Unbind /\ In("bound") /\ pc' = <<"remove", 1>>
         \/ RemoveModule /\ In("bound") /\ pc' = <<"remove", 1>>
         \/ RemoveModule /\ In("unbound") /\ pc' = <<"exit", 1>>
         \/ Sleep /\ In("remove") /\ pc[2] = 1 /\ pc' = <<"remove", 2>>
         \/ Shutdown /\ In("bound") /\ pc' = <<"off", 1>>
<1>1. CASE Load
  BY <1>1 DEF Load, Resting
<1>2. CASE Bind
  BY <1>2 DEF Bind, Resting
<1>3. CASE Reset
  <2>1. In("probe") /\ pc[2] = 11
    BY <1>3, Numbers, ProbeSteps DEF Reset
  <2> QED
    BY <1>3, <2>1, Afters DEF Reset
<1>4. CASE Program
  <2>1. In("probe") /\ pc[2] = 12
    BY <1>4, Numbers, ProbeSteps DEF Program
  <2>2. At("unwind", "irq") = <<"unwind", 1>>
    BY UnwindPlaces DEF At, Place
  <2> QED
    BY <1>4, <2>1, <2>2, Afters DEF Program
<1>5. CASE Unbind
  BY <1>5 DEF Unbind, Resting
<1>6. CASE RemoveModule
  BY <1>6 DEF RemoveModule, Resting
<1>7. CASE Sleep
  <2>1. In("remove") /\ pc[2] = 1
    BY <1>7, Numbers, RemoveSteps DEF Sleep
  <2> QED
    BY <1>7, <2>1, Afters DEF Sleep
<1>8. CASE Shutdown
  BY <1>8 DEF Shutdown, Resting
<1> QED
  BY <1>1, <1>2, <1>3, <1>4, <1>5, <1>6, <1>7, <1>8 DEF Others

LEMMA OthersHas ==
  ASSUME TypeOK, Others
  PROVE  \A thing \in Things : Has(pc, thing) <=> Has(pc, thing)'
<1>1. \A thing \in Things :
        Has(pc, thing) <=> Has(<<pc[1], pc[2]>>, thing)
  BY DEF Has
<1> QED
  BY OthersLead, HasOfModule, HasOfDevice DEF HasModule, HasDevice, Things, Buffers

-----------------------------------------------------------------------------
(* What is held, what is missed, and what is released. *)

LEMMA OnwardHold ==
  ASSUME TypeOK, HoldInv, Onward
  PROVE  HoldInv'
<1> USE DEF HoldInv
<1>1. /\ pc'[1] \in {"init", "probe", "unbound"} /\ over' = over /\ refused' = refused
      /\ pc'[1] = "init" => In("init")
      /\ pc'[1] = "probe" => In("probe")
      /\ In("init") \/ In("probe")
  BY OnwardLeads DEF Onward, Acquire, Unnoticed
<1>2. "setup" \notin Things /\ OfModule \subseteq Things
  BY DEF Things, Buffers, OfModule
<1>3. OverInv'
  <2>1. over' = {}
    BY <1>1 DEF OverInv
  <2> QED
    BY <2>1 DEF OverInv, ReleasedOnce
<1>4. refused' => pc'[1] \notin {"probe", "bound", "remove", "off"}
  BY <1>1 DEF HeldInv
<1>5. Step \in Things => Step \notin held /\ Step \notin missed
  <2>1. Step \in Things => Step \notin held
    BY OnwardHas DEF HeldInv
  <2>2. Step \in Things => Step \notin missed
    BY <1>1, OnwardHas DEF MissedInv
  <2> QED
    BY <2>1, <2>2
<1>6. CASE Acquire
  <2>1. held' = held \cup ({Step} \ {"setup"}) /\ missed' = missed
    BY <1>6 DEF Acquire
  <2>2. Step = "node" => "class" \in held
    BY <1>6 DEF Acquire, Wants
  <2>3. Step = "irq" => "dio0" \in held
    BY <1>6 DEF Acquire, Wants
  <2>4. HeldInv'
    BY <1>2, <1>1, <1>4, <2>1, OnwardHas DEF HeldInv
  <2>5. missed' \subseteq Things /\ missed' \subseteq {"class", "line", "dio0", "node"}
    BY <2>1 DEF MissedInv, Things
  <2>6. ASSUME NEW thing \in missed'
        PROVE  /\ thing \notin held'
               /\ pc'[1] = "probe" \/ (pc'[1] = "init" /\ thing \in OfModule) => Has(pc, thing)'
    <3>1. thing \in missed /\ thing \in Things
      BY <2>1, <2>5, <2>6
    <3>2. thing \notin held'
      BY <1>5, <2>1, <3>1 DEF MissedInv
    <3> QED
      BY <1>1, <3>1, <3>2, OnwardHas DEF MissedInv
  <2>7. Has(pc, "node")' /\ "class" \in missed' => "node" \in missed'
    BY <2>1, <2>2, OnwardHas DEF MissedInv, Things
  <2>8. Has(pc, "irq")' => "dio0" \notin missed'
    BY <2>1, <2>3, OnwardHas DEF MissedInv, Things
  <2> QED
    BY <1>3, <2>4, <2>5, <2>6, <2>7, <2>8 DEF MissedInv
<1>7. CASE Unnoticed
  <2>1. /\ held' = held /\ missed' = missed \cup {Step}
        /\ Step \in {"class", "line", "dio0", "node"}
    BY <1>7 DEF Unnoticed
  <2>2. HeldInv'
    BY <1>1, <1>4, <2>1, OnwardHas DEF HeldInv
  <2>3. missed' \subseteq Things /\ missed' \subseteq {"class", "line", "dio0", "node"}
    BY <2>1 DEF MissedInv, Things
  <2>4. ASSUME NEW thing \in missed'
        PROVE  /\ thing \notin held'
               /\ pc'[1] = "probe" \/ (pc'[1] = "init" /\ thing \in OfModule) => Has(pc, thing)'
    <3>1. thing \in Things /\ (thing \in missed \/ thing = Step)
      BY <2>1, <2>3, <2>4
    <3>2. thing \notin held'
      BY <1>5, <2>1, <3>1 DEF MissedInv
    <3> QED
      BY <1>1, <3>1, <3>2, OnwardHas DEF MissedInv
  <2>5. Has(pc, "node")' => Step = "node"
    BY <2>1, OnwardHas DEF Things
  <2>6. ~Has(pc, "irq")'
    BY <2>1, OnwardHas DEF Things
  <2> QED
    BY <1>3, <2>1, <2>2, <2>3, <2>4, <2>5, <2>6 DEF MissedInv
<1> QED
  BY <1>6, <1>7 DEF Onward

LEMMA FailHold ==
  ASSUME TypeOK, HoldInv, Fail
  PROVE  HoldInv'
<1> USE DEF HoldInv
<1>1. /\ held' = held /\ over' = over /\ missed' = missed /\ (refused' <=> Step = "irq")
      /\ In("init") \/ In("probe")
  BY DEF Fail
<1>2. HeldInv'
  <2>1. \A thing \in Things : thing \in held => Has(pc, thing)'
    BY <1>1, FailHas DEF HeldInv
  <2>2. \A thing \in Things :
          Has(pc, thing)' => thing \in held \cup missed \/ (thing = "irq" /\ refused')
    BY <1>1, FailHas DEF HeldInv
  <2> QED
    BY <1>1, <2>1, <2>2, FailHas DEF HeldInv
<1>3. MissedInv'
  <2>1. Has(pc, "node")' => Has(pc, "node")
    BY FailHas DEF Things
  <2>2. Has(pc, "irq")' => pc'[1] = "unwind"
    BY FailHas DEF Things
  <2> QED
    BY <1>1, <2>1, <2>2, FailHas DEF MissedInv
<1>4. OverInv'
  <2>1. over' = {}
    BY <1>1 DEF OverInv
  <2> QED
    BY <2>1 DEF OverInv, ReleasedOnce
<1> QED
  BY <1>2, <1>3, <1>4

LEMMA ReleaseHold ==
  ASSUME TypeOK, HoldInv, Release
  PROVE  HoldInv'
<1> USE DEF HoldInv
<1>1. /\ held' = held \ {Step} /\ refused' = refused /\ missed' = missed
      /\ over' = Needs \ held
  BY DEF Release
<1>2. HeldInv'
  BY <1>1, ReleaseHas DEF HeldInv
<1>3. MissedInv'
  <2>1. Has(pc, "node")' => Has(pc, "node")
    BY ReleaseHas DEF Things
  <2>2. Has(pc, "irq")' => Has(pc, "irq")
    BY ReleaseHas DEF Things
  <2>3. Has(pc, "irq")' => pc'[1] \in {"unwind", "remove"}
    BY ReleaseHas, HasOfDevice DEF HasDevice
  <2>4. pc'[1] \notin {"probe", "init"} /\ (pc'[1] = "remove" => In("remove"))
    BY ReleaseHas
  <2> QED
    BY <1>1, <2>1, <2>2, <2>3, <2>4 DEF MissedInv
<1>4. OverInv'
  <2>1. Needs \subseteq Things /\ \A thing \in Needs : Has(pc, thing)
    BY ReleaseHas DEF Needs, Things
  <2>2. \A thing \in over' : thing \in missed \/ (thing = "irq" /\ refused)
    BY <1>1, <2>1 DEF HeldInv
  <2>3. pc'[1] \in {"out", "unbound"} => over' = {}
    <3> SUFFICES ASSUME pc'[1] \in {"out", "unbound"}
                 PROVE  over' = {}
      OBVIOUS
    <3>1. Needs \in {{"region"}, {"lora"}}
      BY ReleaseHas DEF Needs
    <3>2. "region" \notin missed /\ "lora" \notin missed
      BY DEF MissedInv
    <3> QED
      BY <1>1, <2>2, <3>1, <3>2
  <2>4. ReleasedOnce'
    BY <1>1, <2>2 DEF ReleasedOnce
  <2> QED
    BY <2>3, <2>4, ReleaseHas DEF OverInv
<1> QED
  BY <1>2, <1>3, <1>4

LEMMA OthersHold ==
  ASSUME TypeOK, HoldInv, Others
  PROVE  HoldInv'
<1> USE DEF HoldInv
<1>1. held' = held /\ over' = over
  BY DEF Others, Load, Bind, Reset, Program, Unbind, RemoveModule, Sleep, Shutdown
<1>2. /\ refused' = refused \/ (Bind /\ refused' = FALSE)
      /\ Bind => refused' = FALSE
  BY DEF Others, Load, Bind, Reset, Program, Unbind, RemoveModule, Sleep, Shutdown
<1>3. /\ Load => missed' = missed \ {"class"}
      /\ Bind => missed' = missed \cap {"class"}
      /\ ~Load /\ ~Bind => missed' = missed
  BY DEF Others, Load, Bind, Reset, Program, Unbind, RemoveModule, Sleep, Shutdown
<1>4. HeldInv'
  <2>1. refused' => pc'[1] \notin {"probe", "bound", "remove", "off"}
    <3>1. refused => pc[1] \notin {"probe", "bound", "remove", "off"}
      BY DEF HeldInv
    <3>2. Bind \/ pc'[1] \notin {"probe", "bound", "remove", "off"}
          \/ pc[1] \in {"probe", "bound", "remove", "off"}
      BY OthersLead
    <3> QED
      BY <1>2, <3>1, <3>2
  <2>2. \A thing \in Things : thing \in held' => Has(pc, thing)'
    BY <1>1, OthersHas DEF HeldInv
  <2>3. ASSUME NEW thing \in Things, Has(pc, thing)
        PROVE  thing \in held' \cup missed' \/ (thing = "irq" /\ refused')
    <3>1. thing \in held \cup missed \/ (thing = "irq" /\ refused)
      BY <2>3 DEF HeldInv
    <3>2. CASE Load
      <4>1. In("out")
        BY <3>2 DEF Load, Resting
      <4>2. ~Has(pc, thing)
        BY <4>1, HasOfModule, HasOfDevice DEF HasModule, HasDevice, Things, Buffers
      <4> QED
        BY <2>3, <4>2
    <3>3. CASE Bind
      <4>1. In("unbound")
        BY <3>3 DEF Bind, Resting
      <4>2. thing \in OfModule
        BY <2>3, <4>1, HasOfDevice DEF HasDevice, OfModule, Things, Buffers
      <4>3. thing \in missed => thing = "class"
        BY <4>2 DEF MissedInv, OfModule
      <4> QED
        BY <1>1, <1>3, <3>1, <3>3, <4>2, <4>3 DEF OfModule
    <3>4. CASE ~Load /\ ~Bind
      BY <1>1, <1>2, <1>3, <3>1, <3>4
    <3> QED
      BY <3>2, <3>3, <3>4
  <2> QED
    BY <2>1, <2>2, <2>3, OthersHas DEF HeldInv
<1>5. MissedInv'
  <2>1. missed' \subseteq missed
    BY <1>3
  <2>2. ASSUME NEW thing \in missed',
               pc'[1] = "probe" \/ (pc'[1] = "init" /\ thing \in OfModule)
        PROVE  Has(pc, thing)'
    <3>1. thing \in missed /\ thing \in Things
      BY <2>1, <2>2 DEF MissedInv, Things
    <3>2. CASE Load
      <4>1. pc' = <<"init", 1>>
        BY <3>2 DEF Load
      <4> QED
        BY <1>3, <2>2, <3>2, <4>1 DEF MissedInv, OfModule
    <3>3. CASE Bind
      <4>1. thing = "class" /\ In("unbound")
        BY <1>3, <2>2, <3>3 DEF Bind, Resting
      <4>2. Has(pc, "class")
        BY <4>1, HasOfModule DEF HasModule
      <4> QED
        BY <3>1, <4>1, <4>2, OthersHas
    <3>4. CASE ~Load /\ ~Bind
      <4>1. In("probe")
        BY <2>2, <3>4, OthersLead
      <4> QED
        BY <3>1, <4>1, OthersHas DEF MissedInv
    <3> QED
      BY <3>2, <3>3, <3>4
  <2>3. Has(pc, "node")' /\ "class" \in missed' => "node" \in missed'
    <3>1. Has(pc, "node")' => Has(pc, "node")
      BY OthersHas DEF Things
    <3>2. Has(pc, "node") => ~Load /\ ~Bind
      BY HasOfDevice DEF HasDevice, Load, Bind, Resting
    <3> QED
      BY <1>3, <3>1, <3>2 DEF MissedInv
  <2>4. Has(pc, "irq")' /\ pc'[1] # "unwind" => "dio0" \notin missed'
    <3>1. Has(pc, "irq")' => Has(pc, "irq")
      BY OthersHas DEF Things
    <3>2. ~In("unwind")
      BY OthersLead
    <3> QED
      BY <2>1, <3>1, <3>2 DEF MissedInv
  <2> QED
    BY <1>1, <2>1, <2>2, <2>3, <2>4 DEF MissedInv
<1>6. OverInv'
  <2>1. CASE Sleep
    <3>1. missed' = missed /\ refused' = refused /\ pc'[1] = "remove"
      <4>1. In("remove")
        BY <2>1 DEF Sleep
      <4> QED
        BY <2>1, <4>1, OthersLead DEF Sleep, Load, Bind, Reset, Program, Unbind, RemoveModule,
                                      Shutdown, Resting
    <3> QED
      BY <1>1, <3>1 DEF OverInv, ReleasedOnce
  <2>2. CASE ~Sleep
    <3>1. pc[1] \notin {"unwind", "remove", "exit"}
      BY <2>2, OthersLead
    <3>2. over' = {}
      BY <1>1, <3>1 DEF OverInv
    <3> QED
      BY <3>2 DEF OverInv, ReleasedOnce
  <2> QED
    BY <2>1, <2>2
<1> QED
  BY <1>4, <1>5, <1>6

LEMMA BootHold ==
  ASSUME TypeOK, HoldInv, Boot
  PROVE  HoldInv'
<1> USE DEF HoldInv
<1>1. /\ pc' = <<"out", 1>> /\ held' = {} /\ UNCHANGED <<over, refused, missed>>
      /\ In("off")
  BY DEF Boot, Resting
<1>2. \A thing \in Things : ~Has(pc, thing)'
  BY <1>1, HasOfModule, HasOfDevice DEF HasModule, HasDevice, Things, Buffers
<1>3. HeldInv'
  BY <1>1, <1>2 DEF HeldInv
<1>4. ~Has(pc, "node")' /\ ~Has(pc, "irq")'
  BY <1>2 DEF Things
<1>5. MissedInv'
  BY <1>1, <1>4 DEF MissedInv
<1>6. over' = {}
  BY <1>1 DEF OverInv
<1>7. OverInv'
  BY <1>6 DEF OverInv, ReleasedOnce
<1> QED
  BY <1>3, <1>5, <1>7

\* The steps of the handler, the work item and the process leave the core's alone.
LEMMA BesideHold ==
  ASSUME HoldInv, Driver \/ Process
  PROVE  HoldInv' /\ UNCHANGED <<core_vars, reset, programmed>>
<1>1. UNCHANGED <<core_vars, reset, programmed>>
  BY DEF Driver, Process, Interrupt, ReadFrame, HandlerReturns, WorkStarts, WorkEnds,
         Open, Call, Return, Close, chip_vars
<1>2. UNCHANGED <<pc, held, missed, over, refused>>
  BY <1>1 DEF core_vars
<1> QED
  BY <1>1, <1>2 DEF HoldInv, HeldInv, MissedInv, OverInv, ReleasedOnce, Has

-----------------------------------------------------------------------------
(* Types. *)

PlaceOK(p) == \/ p[1] \in Rests /\ p[2] = 1
              \/ p[1] \in Routines /\ p[2] \in 1 .. Len(Order(p[1]))

LEMMA PlacesOK ==
  ASSUME NEW p,
         \/ p[1] \in {"init", "exit"} /\ p[2] \in 1 .. 3
         \/ p[1] \in {"probe", "remove"} /\ p[2] \in 1 .. 12
         \/ p[1] = "unwind" /\ p[2] \in 1 .. 11
         \/ p[1] \in Rests /\ p[2] = 1
  PROVE  PlaceOK(p)
BY Lengths DEF PlaceOK, Routines

LEMMA CorePlace ==
  ASSUME TypeOK, Core
  PROVE  PlaceOK(pc)'
<1>1. \/ pc'[1] \in {"init", "exit"} /\ pc'[2] \in 1 .. 3
      \/ pc'[1] \in {"probe", "remove"} /\ pc'[2] \in 1 .. 12
      \/ pc'[1] = "unwind" /\ pc'[2] \in 1 .. 11
      \/ pc'[1] \in Rests /\ pc'[2] = 1
  <2>1. CASE Onward
    BY <2>1, OnwardLeads DEF Rests
  <2>2. CASE Fail
    BY <2>2, FailLeads DEF Rests
  <2>3. CASE Release
    BY <2>3, ReleaseLeads DEF Rests
  <2>4. CASE Others
    BY <2>4, OthersLead DEF Rests
  <2>5. CASE Boot
    BY <2>5 DEF Boot, Resting, Rests
  <2> QED
    BY <2>1, <2>2, <2>3, <2>4, <2>5 DEF Core, Others, Onward
<1>2. PlaceOK(pc')
  BY <1>1, PlacesOK
<1> QED
  BY <1>2 DEF PlaceOK

LEMMA CoreTypes ==
  ASSUME TypeOK, HoldInv', Core
  PROVE  TypeOK'
<1>1. \/ pc'[1] \in Rests /\ pc'[2] = 1
      \/ pc'[1] \in Routines /\ pc'[2] \in 1 .. Len(Order(pc'[1]))
  BY CorePlace DEF PlaceOK
<1>2. leaving' \in BOOLEAN /\ late' \in BOOLEAN
  BY DEF TypeOK, Core, Load, Bind, Acquire, Unnoticed, Fail, Reset, Program, Unbind,
         RemoveModule, Sleep, Release, Shutdown, Boot
<1>3. refused' \in BOOLEAN /\ flaky' \in BOOLEAN
  BY DEF TypeOK, Core, Load, Bind, Acquire, Unnoticed, Fail, Reset, Program, Unbind,
         RemoveModule, Sleep, Release, Shutdown, Boot
<1>4. taken' \in BOOLEAN
  BY DEF TypeOK, Core, Load, Bind, Acquire, Unnoticed, Fail, Reset, Program, Unbind,
         RemoveModule, Sleep, Release, Shutdown, Boot
<1>5. held' \subseteq Things
  <2>1. CASE Acquire
    <3>1. Step \in Things \cup {"setup"}
      BY <2>1, OnwardLeads DEF Onward, Things, Buffers
    <3> QED
      BY <2>1, <3>1 DEF Acquire, TypeOK
  <2>2. CASE ~Acquire
    BY <2>2 DEF TypeOK, Core, Load, Bind, Unnoticed, Fail, Reset, Program, Unbind,
                RemoveModule, Sleep, Release, Shutdown, Boot
  <2> QED
    BY <2>1, <2>2
<1>6. missed' \subseteq Things /\ over' \subseteq Things
  BY DEF HoldInv, MissedInv, OverInv, ReleasedOnce, Things
<1>7. /\ stray' \subseteq Things /\ handler' \in {"idle", "reading", "returning"}
      /\ work' \subseteq {"queued", "running"} /\ call' \in {"none", "some"}
  BY DEF TypeOK, Core, Load, Bind, Acquire, Unnoticed, Fail, Reset, Program, Unbind,
         RemoveModule, Sleep, Release, Shutdown, Boot, handler_vars, file_vars
<1>8. file' \in {"closed", "open", "stale"}
  BY DEF TypeOK, Core, Load, Bind, Acquire, Unnoticed, Fail, Reset, Program, Unbind,
         RemoveModule, Sleep, Release, Shutdown, Boot, file_vars
<1>9. mode' \in {"sleep", "standby", "rx"} /\ reset' \in {0, 1}
  BY DEF TypeOK, Core, Load, Bind, Acquire, Unnoticed, Fail, Reset, Program, Unbind,
         RemoveModule, Sleep, Release, Shutdown, Boot, chip_vars
<1>10. programmed' \in BOOLEAN
  BY DEF TypeOK, Core, Load, Bind, Acquire, Unnoticed, Fail, Reset, Program, Unbind,
         RemoveModule, Sleep, Release, Shutdown, Boot, chip_vars
<1> QED
  BY <1>1, <1>2, <1>3, <1>4, <1>5, <1>6, <1>7, <1>8, <1>9, <1>10 DEF TypeOK

LEMMA BesideTypes ==
  ASSUME TypeOK, Driver \/ Process
  PROVE  TypeOK'
<1>1. UNCHANGED <<pc, leaving, held, missed, taken, over, refused, flaky, reset, programmed>>
  BY DEF Driver, Process, Interrupt, ReadFrame, HandlerReturns, WorkStarts, WorkEnds,
         Open, Call, Return, Close, chip_vars, core_vars
<1>2. stray' \subseteq Things
  BY DEF Driver, Process, Interrupt, ReadFrame, HandlerReturns, WorkStarts, WorkEnds,
         Open, Call, Return, Close, handler_vars, Used, TypeOK, Things, Buffers
<1>3. mode' \in {"sleep", "standby", "rx"} /\ handler' \in {"idle", "reading", "returning"}
      /\ work' \subseteq {"queued", "running"}
  BY DEF Driver, Process, Interrupt, ReadFrame, HandlerReturns, WorkStarts, WorkEnds,
         Open, Call, Return, Close, chip_vars, handler_vars, TypeOK
<1>4. late' \in BOOLEAN /\ file' \in {"closed", "open", "stale"} /\ call' \in {"none", "some"}
  BY DEF Driver, Process, Interrupt, ReadFrame, HandlerReturns, WorkStarts, WorkEnds,
         Open, Call, Return, Close, file_vars, TypeOK
<1> QED
  BY <1>1, <1>2, <1>3, <1>4 DEF TypeOK

-----------------------------------------------------------------------------
(* The handler, the work item and the process. *)

LEMMA WorkPlaces ==
  ASSUME NEW p
  PROVE  /\ Interruptible(p) <=> \/ p[1] \in {"bound", "off"}
                                 \/ p[1] = "probe" /\ p[2] > 10
                                 \/ p[1] = "unwind" /\ p[2] <= 2
                                 \/ p[1] = "remove" /\ p[2] <= 9
         /\ Asleep(p) <=> p[1] = "off" \/ (p[1] = "remove" /\ p[2] > 1)
BY ProbePlaces, UnwindPlaces, RemovePlaces DEF Interruptible, Asleep

\* The interrupt goes only where the handler has been waited for.
LEMMA CoreInterruptible ==
  ASSUME TypeOK, Core
  PROVE  /\ Interruptible(pc) =>
              \/ Interruptible(pc')
              \/ Boot
              \/ Release /\ Step = "handled" /\ (In("unwind") \/ Asleep(pc))
         /\ Asleep(pc') => Sleep \/ Shutdown \/ (Release /\ Asleep(pc))
<1>1. CASE Onward
  BY <1>1, OnwardLeads, WorkPlaces
<1>2. CASE Fail
  BY <1>2, FailLeads, WorkPlaces
<1>3. CASE Release
  BY <1>3, ReleaseLeads, WorkPlaces
<1>4. CASE Others
  BY <1>4, OthersLead, WorkPlaces
<1>5. CASE Boot
  BY <1>5, WorkPlaces DEF Boot, Resting
<1> QED
  BY <1>1, <1>2, <1>3, <1>4, <1>5 DEF Core, Others, Onward

LEMMA CoreWork ==
  ASSUME TypeOK, WorkInv, Core
  PROVE  WorkInv'
<1>1. CASE Boot
  <2>1. ~Asleep(pc')
    BY <1>1, WorkPlaces DEF Boot, Resting
  <2> QED
    BY <1>1, <2>1 DEF Boot, WorkInv
<1>2. CASE Release
  <2>1. /\ UNCHANGED <<handler, work, stray>>
        /\ late' = (late \/ (Step = "handled" /\ In("unwind") /\ work # {}))
        /\ Step = "handled" => handler = "idle"
        /\ mode' = mode \/ mode' = "standby"
    BY <1>2 DEF Release, Waited, handler_vars
  <2>2. /\ Interruptible(pc) => \/ Interruptible(pc')
                                \/ Step = "handled" /\ (In("unwind") \/ Asleep(pc))
        /\ Asleep(pc') => Asleep(pc)
    <3>1. ~Boot /\ ~Sleep /\ ~Shutdown
      BY <1>2 DEF Boot, Sleep, Shutdown, Release, Resting
    <3> QED
      BY <3>1, CoreInterruptible
  <2>3. handler' # "idle" => Interruptible(pc')
    BY <2>1, <2>2 DEF WorkInv
  <2>4. ~late' => (work' # {} => Interruptible(pc'))
    BY <2>1, <2>2 DEF WorkInv
  <2>5. ~late' => (Asleep(pc') => mode' # "rx" /\ handler' = "idle" /\ work' = {})
                  /\ stray' = {}
    BY <2>1, <2>2 DEF WorkInv
  <2> QED
    BY <2>3, <2>4, <2>5 DEF WorkInv
<1>3. CASE Sleep \/ Shutdown
  <2>1. /\ UNCHANGED <<handler, work, stray>> /\ mode' = "sleep"
        /\ late' = (late \/ Active)
    BY <1>3 DEF Sleep, Shutdown, handler_vars
  <2>2. Interruptible(pc) => Interruptible(pc')
    <3>1. ~Boot /\ ~Release
      BY <1>3 DEF Boot, Sleep, Shutdown, Release, Resting
    <3> QED
      BY <3>1, CoreInterruptible
  <2>3. ~late' => ~late /\ handler = "idle" /\ work = {}
    BY <2>1 DEF Active
  <2> QED
    BY <2>1, <2>2, <2>3 DEF WorkInv
<1>4. CASE ~Boot /\ ~Release /\ ~Sleep /\ ~Shutdown
  <2>1. UNCHANGED <<handler, work, stray, late>>
    BY <1>4 DEF Core, Load, Bind, Acquire, Unnoticed, Fail, Reset, Program, Unbind,
                RemoveModule, handler_vars
  <2>2. (Interruptible(pc) => Interruptible(pc')) /\ ~Asleep(pc')
    BY <1>4, CoreInterruptible
  <2>3. ~late' => ~late
    BY <2>1
  <2> QED
    BY <2>1, <2>2, <2>3 DEF WorkInv
<1> QED
  BY <1>1, <1>2, <1>3, <1>4

\* What an interrupt's handler and the work use is there as long as they can come.
LEMMA WorkHas ==
  ASSUME TypeOK, HoldInv
  PROVE  /\ "irq" \in held => Interruptible(pc)
         /\ Interruptible(pc) => "lora" \in held
         /\ Interruptible(pc) /\ ~Asleep(pc) => {"lora"} \cup Buffers \subseteq held
<1>1. /\ "irq" \in held => Has(pc, "irq")
      /\ \A thing \in {"lora"} \cup Buffers : Has(pc, thing) => thing \in held
  BY DEF HoldInv, HeldInv, MissedInv, Things, Buffers
<1>2. /\ Has(pc, "irq") => Interruptible(pc)
      /\ Interruptible(pc) => Has(pc, "lora")
      /\ Interruptible(pc) /\ ~Asleep(pc) =>
           Has(pc, "lora") /\ Has(pc, "receive") /\ Has(pc, "transmit") /\ Has(pc, "cache")
  BY Numbers, WorkPlaces, HasOfDevice DEF HasDevice
<1> QED
  BY <1>1, <1>2 DEF Buffers

LEMMA BesideWork ==
  ASSUME TypeOK, HoldInv, WorkInv, Driver \/ Process
  PROVE  WorkInv'
<1>1. pc' = pc
  BY BesideHold DEF core_vars
<1>2. CASE Interrupt
  <2>1. /\ "irq" \in held /\ mode = "rx" /\ handler' = "reading" /\ mode' = "standby"
        /\ UNCHANGED <<work, stray, late>>
    BY <1>2 DEF Interrupt
  <2>2. Interruptible(pc) /\ (~late => ~Asleep(pc))
    BY <2>1, WorkHas DEF WorkInv
  <2> QED
    BY <1>1, <2>1, <2>2 DEF WorkInv
<1>3. CASE ReadFrame
  <2>1. /\ handler = "reading" /\ handler' = "returning" /\ UNCHANGED <<work, mode, late>>
        /\ stray' = stray \cup ({"lora", "cache"} \ held)
    BY <1>3 DEF ReadFrame, Used, chip_vars
  <2>2. Interruptible(pc) /\ (~late => ~Asleep(pc))
    BY <2>1 DEF WorkInv
  <2>3. ~late => {"lora", "cache"} \subseteq held
    BY <2>2, WorkHas DEF Buffers
  <2>4. ~late => stray' = {}
    BY <2>1, <2>3 DEF WorkInv
  <2> QED
    BY <1>1, <2>1, <2>2, <2>4 DEF WorkInv
<1>4. CASE HandlerReturns
  <2>1. /\ handler = "returning" /\ handler' = "idle" /\ UNCHANGED late
        /\ stray' = stray \cup ({"lora"} \ held)
    BY <1>4 DEF HandlerReturns, Used
  <2>2. Interruptible(pc) /\ (~late => ~Asleep(pc))
    BY <2>1 DEF WorkInv
  <2>3. ~late => stray' = {}
    BY <2>1, <2>2, WorkHas DEF WorkInv
  <2> QED
    BY <1>1, <2>1, <2>2, <2>3 DEF WorkInv
<1>5. CASE WorkStarts
  <2>1. work # {} /\ UNCHANGED <<handler, stray, mode, late>>
    BY <1>5 DEF WorkStarts, chip_vars
  <2> QED
    BY <1>1, <2>1 DEF WorkInv
<1>6. CASE WorkEnds
  <2>1. /\ work # {} /\ work' \subseteq work /\ UNCHANGED <<handler, mode, late>>
        /\ stray' = stray \cup (({"lora"} \cup Buffers) \ held)
    BY <1>6 DEF WorkEnds, Used, chip_vars
  <2>2. ~late => Interruptible(pc) /\ ~Asleep(pc)
    BY <2>1 DEF WorkInv
  <2>3. ~late => stray' = {}
    BY <2>1, <2>2, WorkHas DEF WorkInv
  <2> QED
    BY <1>1, <2>1, <2>2, <2>3 DEF WorkInv
<1>7. CASE Open \/ Call \/ Close
  <2>1. UNCHANGED <<handler, work, stray, mode, late>>
    BY <1>7 DEF Open, Call, Close, chip_vars, handler_vars
  <2> QED
    BY <1>1, <2>1 DEF WorkInv
<1>8. CASE Return
  <2>1. UNCHANGED <<handler, work, stray>> /\ late' = (late \/ In("remove") \/ In("off"))
    BY <1>8 DEF Return, handler_vars
  <2>2. ~late' => ~late /\ ~Asleep(pc)
    BY <2>1 DEF Asleep
  <2> QED
    BY <1>1, <2>1, <2>2 DEF WorkInv
<1> QED
  BY <1>2, <1>3, <1>4, <1>5, <1>6, <1>7, <1>8 DEF Driver, Process

LEMMA CoreFile ==
  ASSUME TypeOK, FileInv, Core
  PROVE  FileInv'
<1>1. CASE Onward
  <2>1. UNCHANGED <<leaving, file>>
    BY <1>1 DEF Onward, Acquire, Unnoticed, file_vars
  <2>2. Has(pc, "lora") => Has(pc, "lora")'
    BY <1>1, OnwardHas DEF Things
  <2> QED
    BY <1>1, <2>1, <2>2, OnwardLeads DEF FileInv
<1>2. CASE Fail
  <2>1. UNCHANGED <<leaving, file>>
    BY <1>2 DEF Fail, file_vars
  <2>2. Has(pc, "lora") => Has(pc, "lora")'
    BY <1>2, FailHas DEF Things
  <2> QED
    BY <1>2, <2>1, <2>2, FailLeads DEF FileInv
<1>3. CASE Release
  <2>1. UNCHANGED leaving /\ (file = "closed" => file' = "closed")
        /\ (file' = "open" => file = "open" /\ Step # "lora")
    BY <1>3 DEF Release
  <2>2. Step # "lora" => (Has(pc, "lora") => Has(pc, "lora")')
    BY <1>3, ReleaseHas DEF Things
  <2>3. leaving' => pc'[1] \in {"remove", "exit", "out"} /\ file' = "closed"
    BY <1>3, <2>1, ReleaseLeads DEF FileInv
  <2>4. pc'[1] \in {"out", "init", "exit"} => file' = "closed"
    BY <1>3, <2>1, ReleaseLeads DEF FileInv
  <2> QED
    BY <2>1, <2>2, <2>3, <2>4 DEF FileInv
<1>4. CASE Others
  <2>1. /\ file' = file
        /\ leaving' = leaving \/ leaving' = FALSE \/ RemoveModule
        /\ Load => leaving' = FALSE
    BY <1>4 DEF Others, Load, Bind, Reset, Program, Unbind, RemoveModule, Sleep,
                Shutdown, file_vars
  <2>2. RemoveModule => file = "closed" /\ pc'[1] \in {"remove", "exit"}
    BY DEF RemoveModule
  <2>3. Has(pc, "lora") => Has(pc, "lora")'
    BY <1>4, OthersHas DEF Things
  <2>4. CASE RemoveModule
    BY <2>1, <2>2, <2>4 DEF FileInv
  <2>5. CASE ~RemoveModule
    <3>1. leaving' => leaving /\ ~Load
      BY <2>1, <2>5
    <3>2. leaving' => pc'[1] \in {"remove", "exit", "out"} /\ file' = "closed"
      BY <1>4, <2>1, <2>5, <3>1, OthersLead DEF FileInv
    <3>3. pc'[1] \in {"out", "init", "exit"} => file' = "closed"
      BY <1>4, <2>1, <2>5, OthersLead DEF FileInv
    <3> QED
      BY <2>1, <2>3, <3>2, <3>3 DEF FileInv
  <2> QED
    BY <2>4, <2>5
<1>5. CASE Boot
  <2>1. pc' = <<"out", 1>> /\ In("off") /\ leaving' = leaving /\ file' = "closed"
    BY <1>5 DEF Boot, Resting
  <2> QED
    BY <2>1 DEF FileInv
<1> QED
  BY <1>1, <1>2, <1>3, <1>4, <1>5 DEF Core, Others, Onward

LEMMA BesideFile ==
  ASSUME TypeOK, HoldInv, FileInv, Driver \/ Process
  PROVE  FileInv'
<1>1. UNCHANGED <<pc, leaving>>
  BY BesideHold DEF core_vars
<1>2. Has(pc, "lora")' <=> Has(pc, "lora")
  BY <1>1 DEF Has
<1>3. CASE Open
  <2>1. ~leaving /\ "cdev" \in held
    BY <1>3 DEF Open
  <2>2. Has(pc, "cdev")
    BY <2>1 DEF HoldInv, HeldInv, Things
  <2>3. pc[1] \notin {"out", "init", "exit"} /\ Has(pc, "lora")
    BY <2>2, Numbers, HasOfDevice DEF HasDevice
  <2> QED
    BY <1>1, <1>2, <2>1, <2>3 DEF FileInv
<1>4. CASE ~Open
  <2>1. file' = file \/ file' = "closed"
    BY <1>4 DEF Driver, Process, Interrupt, ReadFrame, HandlerReturns, WorkStarts, WorkEnds,
                Call, Return, Close, file_vars
  <2> QED
    BY <1>1, <1>2, <2>1 DEF FileInv
<1> QED
  BY <1>3, <1>4

-----------------------------------------------------------------------------
(* The chip. *)

LEMMA ChipPlaces ==
  ASSUME NEW p
  PROVE  /\ HeldDown(p) <=> \/ p[1] = "unwind" /\ p[2] > 8
                            \/ p[1] = "remove" /\ p[2] > 5
         /\ Place("probe", "line") = 2
BY ProbePlaces, UnwindPlaces, RemovePlaces DEF HeldDown

LEMMA CoreChip ==
  ASSUME TypeOK, HoldInv, ChipInv, WorkInv, Core
  PROVE  ChipInv'
<1> USE DEF HoldInv
<1>1. CASE Acquire
  <2>1. /\ mode' = mode /\ missed' = missed /\ late' = late
        /\ reset' = IF Step = "line" THEN 1 ELSE reset
        /\ taken' = (taken \/ Step = "line")
    BY <1>1 DEF Acquire
  <2>2. CASE In("init")
    <3>1. Step # "line" /\ Deserted(pc) /\ pc'[1] \in {"init", "unbound"}
      BY <1>1, <2>2, OnwardLeads DEF Onward, Deserted
    <3> QED
      BY <2>1, <3>1 DEF ChipInv, Deserted
  <2>3. CASE In("probe")
    <3>1. pc' = <<"probe", pc[2] + 1>> /\ (Step = "line" => pc[2] = 2)
      BY <1>1, <2>3, OnwardLeads DEF Onward
    <3>2. taken => pc[2] > 2 /\ "line" \notin missed
      BY <2>3, ChipPlaces DEF ChipInv
    <3>3. Step = "line" => "line" \notin missed
      BY <1>1, <2>3, OnwardHas DEF Onward, MissedInv, Things
    <3>4. pc[2] \in Nat
      BY <2>3, Numbers
    <3>5. taken' => pc'[2] > 2 /\ "line" \notin missed'
      <4>1. pc'[2] = pc[2] + 1
        BY <3>1
      <4>2. taken => pc'[2] > 2
        BY <3>2, <3>4, <4>1
      <4>3. Step = "line" => pc'[2] > 2
        BY <3>1, <4>1
      <4> QED
        BY <2>1, <3>2, <3>3, <4>2, <4>3
    <3>6. ~Deserted(pc') /\ ~HeldDown(pc')
      BY <3>1, ChipPlaces DEF Deserted
    <3> QED
      BY <2>1, <3>1, <3>5, <3>6, ChipPlaces DEF ChipInv, TypeOK
  <2> QED
    BY <1>1, <2>2, <2>3 DEF Acquire
<1>2. CASE Unnoticed
  <2>1. /\ UNCHANGED <<mode, reset, taken, programmed, late>>
        /\ missed' = missed \cup {Step}
    BY <1>2 DEF Unnoticed, chip_vars
  <2>2. CASE In("init")
    <3>1. Deserted(pc) /\ pc'[1] \in {"init", "unbound"}
      BY <1>2, <2>2, OnwardLeads DEF Onward, Deserted
    <3> QED
      BY <2>1, <3>1 DEF ChipInv, Deserted
  <2>3. CASE In("probe")
    <3>1. pc' = <<"probe", pc[2] + 1>> /\ (Step = "line" => pc[2] = 2)
      BY <1>2, <2>3, OnwardLeads DEF Onward
    <3>2. taken => pc[2] > 2 /\ "line" \notin missed
      BY <2>3, ChipPlaces DEF ChipInv
    <3>3. pc[2] \in Nat
      BY <2>3, Numbers
    <3>4. taken' => pc'[2] > 2 /\ "line" \notin missed'
      BY <2>1, <3>1, <3>2, <3>3
    <3>5. ~Deserted(pc') /\ ~HeldDown(pc')
      BY <3>1, ChipPlaces DEF Deserted
    <3> QED
      BY <2>1, <3>1, <3>4, <3>5, ChipPlaces DEF ChipInv
  <2> QED
    BY <1>2, <2>2, <2>3 DEF Unnoticed
<1>3. CASE Fail
  <2>1. UNCHANGED <<mode, reset, taken, programmed, missed, late>>
    BY <1>3 DEF Fail, chip_vars
  <2>2. CASE In("init")
    <3>1. Deserted(pc) /\ pc'[1] \in {"out", "exit"}
      BY <1>3, <2>2, FailLeads DEF Deserted
    <3> QED
      BY <2>1, <3>1 DEF ChipInv, Deserted
  <2>3. CASE In("probe")
    <3>1. taken => pc[2] > 2 /\ "line" \notin missed
      BY <2>3, ChipPlaces DEF ChipInv
    <3>2. pc'[1] = "unwind" \/ (pc'[1] = "unbound" /\ pc[2] = 1)
      BY <1>3, <2>3, FailLeads
    <3>3. ~HeldDown(pc')
      BY <1>3, <2>3, FailLeads, ChipPlaces
    <3>4. ~taken \/ pc'[1] = "unwind"
      BY <3>1, <3>2
    <3> QED
      BY <2>1, <3>1, <3>2, <3>3, <3>4 DEF ChipInv, Deserted
  <2> QED
    BY <1>3, <2>2, <2>3 DEF Fail
<1>4. CASE Release
  <2>1. /\ reset' = IF Pulled THEN 0 ELSE reset
        /\ mode' = IF Pulled THEN "standby" ELSE mode
        /\ taken' = taken /\ missed' = missed /\ (late => late')
    BY <1>4 DEF Release
  <2>2. Step = "reset" => Pulled \/ "line" \in missed
    BY <1>4, ReleaseHas DEF Pulled, HeldInv, Things
  <2>3. reset' = 0 => mode' # "rx"
    BY <2>1 DEF ChipInv
  <2>4. taken /\ HeldDown(pc') => reset' = 0 \/ "line" \in missed
    <3>1. HeldDown(pc') => HeldDown(pc) \/ Step = "reset"
      BY <1>4, ReleaseLeads, ChipPlaces
    <3> QED
      BY <2>1, <2>2, <3>1 DEF ChipInv
  <2>5. Deserted(pc') => Deserted(pc) \/ (HeldDown(pc) /\ (In("unwind") \/ Asleep(pc)))
    BY <1>4, ReleaseLeads, ChipPlaces, WorkPlaces DEF Deserted
  <2>6. taken /\ Deserted(pc') => reset' = 0 \/ "line" \in missed
    BY <2>1, <2>5 DEF ChipInv
  <2>7. taken /\ Deserted(pc') => mode' # "rx" \/ (late' /\ "line" \in missed)
    <3> SUFFICES ASSUME taken, Deserted(pc'), mode' = "rx"
                 PROVE  late' /\ "line" \in missed
      OBVIOUS
    <3>1. "line" \in missed /\ mode = "rx"
      BY <2>1, <2>3, <2>6
    <3>2. CASE Deserted(pc)
      BY <2>1, <3>1, <3>2 DEF ChipInv
    <3>3. CASE HeldDown(pc) /\ (In("unwind") \/ Asleep(pc))
      <4>1. ~In("unwind")
        BY <3>1 DEF ChipInv
      <4> QED
        BY <2>1, <3>1, <3>3, <4>1 DEF WorkInv
    <3> QED
      BY <2>5, <3>2, <3>3
  <2>8. /\ pc'[1] \notin {"bound", "probe"}
        /\ pc'[1] = "unwind" => In("unwind")
    BY <1>4, ReleaseLeads
  <2> QED
    BY <2>1, <2>3, <2>4, <2>6, <2>7, <2>8 DEF ChipInv
<1>5. CASE Load
  <2>1. /\ UNCHANGED <<mode, reset, taken, programmed, late>>
        /\ missed' = missed \ {"class"}
        /\ pc' = <<"init", 1>> /\ Deserted(pc)
    BY <1>5 DEF Load, chip_vars, Resting, Deserted
  <2> QED
    BY <2>1 DEF ChipInv, Deserted, HeldDown
<1>6. CASE Bind
  <2>1. /\ UNCHANGED <<mode, reset>> /\ taken' = FALSE /\ pc' = <<"probe", 1>>
    BY <1>6 DEF Bind, chip_vars
  <2> QED
    BY <2>1 DEF ChipInv
<1>7. CASE Reset
  <2>1. /\ mode' \in {mode, "standby"} /\ UNCHANGED <<reset, taken, missed>>
        /\ pc' = <<"probe", 12>> /\ In("probe") /\ pc[2] = 11
    BY <1>7, OthersLead DEF Others, Reset, Load, Bind, Program, Unbind, RemoveModule, Sleep,
                            Shutdown, Resting
  <2>2. ~HeldDown(pc') /\ ~Deserted(pc')
    BY <2>1, ChipPlaces DEF Deserted
  <2> QED
    BY <2>1, <2>2, ChipPlaces DEF ChipInv
<1>8. CASE Program
  <2>1. PICK answers \in [1 .. 2 -> BOOLEAN] :
          /\ reset = 0 => ~answers[1] /\ ~answers[2]
          /\ pc' = IF answers[2] THEN After ELSE At("unwind", "irq")
          /\ programmed' = (programmed \/ answers[1])
          /\ mode' = IF answers[2] THEN "sleep" ELSE IF answers[1] THEN "standby" ELSE mode
          /\ flaky' = (~answers[1] /\ answers[2])
          /\ taken' = (taken \/ answers[2])
    BY <1>8 DEF Program
  <2>2. UNCHANGED <<missed, reset>> /\ In("probe")
    BY <1>8 DEF Program
  <2>3. pc' \in {<<"bound", 1>>, <<"unwind", 1>>}
    <3>1. pc[2] = 12
      BY <1>8, <2>2, Numbers, ProbeSteps DEF Program
    <3>2. At("unwind", "irq") = <<"unwind", 1>>
      BY UnwindPlaces DEF At, Place
    <3> QED
      BY <2>1, <2>2, <3>1, <3>2, Afters
  <2>4. At("unwind", "irq")[1] = "unwind"
    BY DEF At
  <2>5. pc'[1] = "bound" => answers[2]
    BY <2>1, <2>4
  <2>6. pc'[1] = "bound" => programmed' \/ flaky'
    BY <2>1, <2>5
  <2>7. ~answers[2] => pc'[1] = "unwind"
    BY <2>1, <2>4
  <2>8. pc'[1] = "unwind" => ~answers[2]
    <3> SUFFICES ASSUME answers[2]
                 PROVE  pc'[1] # "unwind"
      OBVIOUS
    <3>1. pc' = After
      BY <2>1
    <3> QED
      BY <2>2, <3>1, Afters
  <2>9. taken' /\ pc'[1] = "unwind" => "line" \notin missed'
    BY <2>1, <2>2, <2>8 DEF ChipInv
  <2>10. reset' = 0 => mode' # "rx"
    BY <2>1, <2>2 DEF ChipInv
  <2>11. ~HeldDown(pc') /\ ~Deserted(pc')
    BY <2>3, ChipPlaces DEF Deserted
  <2> QED
    BY <2>3, <2>6, <2>9, <2>10, <2>11 DEF ChipInv
<1>9. CASE Unbind \/ RemoveModule
  <2>1. UNCHANGED <<mode, reset, taken, missed, late>>
    BY <1>9 DEF Unbind, RemoveModule, chip_vars
  <2>2. pc' = <<"remove", 1>> \/ (pc' = <<"exit", 1>> /\ In("unbound"))
    BY <1>9 DEF Unbind, RemoveModule, Resting
  <2>3. ~HeldDown(pc') /\ (Deserted(pc') => Deserted(pc))
    BY <2>2, ChipPlaces DEF Deserted
  <2> QED
    BY <2>1, <2>2, <2>3 DEF ChipInv
<1>10. CASE Sleep \/ Shutdown
  <2>1. mode' = "sleep" /\ UNCHANGED <<reset, taken, missed>>
    BY <1>10 DEF Sleep, Shutdown
  <2>2. pc' = <<"remove", 2>> \/ pc' = <<"off", 1>>
    BY <1>10, OthersLead DEF Others, Load, Bind, Reset, Program, Unbind, RemoveModule, Sleep,
                             Shutdown, Resting
  <2>3. ~HeldDown(pc') /\ ~Deserted(pc')
    BY <2>2, ChipPlaces DEF Deserted
  <2> QED
    BY <2>1, <2>2, <2>3 DEF ChipInv
<1>11. CASE Boot
  <2>1. UNCHANGED <<mode, reset>> /\ taken' = FALSE /\ pc' = <<"out", 1>>
    BY <1>11 DEF Boot, chip_vars, Resting
  <2> QED
    BY <2>1 DEF ChipInv
<1> QED
  BY <1>1, <1>2, <1>3, <1>4, <1>5, <1>6, <1>7, <1>8, <1>9, <1>10, <1>11 DEF Core

LEMMA BesideChip ==
  ASSUME TypeOK, HoldInv, ChipInv, WorkInv, FileInv, Driver \/ Process
  PROVE  ChipInv'
<1>1. UNCHANGED <<pc, missed, taken, flaky, reset, programmed>>
  BY BesideHold DEF core_vars
<1>2. /\ mode' = "rx" => \/ mode = "rx"
                         \/ reset = 1 /\ handler # "idle"
                         \/ reset = 1 /\ file = "open"
      /\ late => late'
  <2>1. CASE Interrupt \/ HandlerReturns
    BY <2>1 DEF Interrupt, HandlerReturns
  <2>2. CASE ReadFrame \/ WorkStarts \/ WorkEnds \/ Open \/ Call \/ Close
    BY <2>2 DEF ReadFrame, WorkStarts, WorkEnds, Open, Call, Close, chip_vars
  <2>3. CASE Return
    <3>1. /\ mode' \in IF file = "open" /\ reset = 1 THEN {mode, "rx", "sleep"} ELSE {mode}
          /\ late' = (late \/ In("remove") \/ In("off"))
      BY <2>3 DEF Return
    <3> QED
      BY <3>1
  <2> QED
    BY <2>1, <2>2, <2>3 DEF Driver, Process
<1>3. Deserted(pc) => handler = "idle" /\ file # "open"
  <2>1. Deserted(pc) => ~Interruptible(pc)
    BY WorkPlaces DEF Deserted
  <2>2. Deserted(pc) => ~Has(pc, "lora")
    BY HasOfDevice DEF Deserted, HasDevice
  <2> QED
    BY <2>1, <2>2 DEF WorkInv, FileInv
<1>4. reset' = 0 => mode' # "rx"
  BY <1>1, <1>2 DEF ChipInv
<1>5. taken /\ Deserted(pc) => mode' # "rx" \/ (late' /\ "line" \in missed)
  BY <1>2, <1>3 DEF ChipInv
<1> QED
  BY <1>1, <1>4, <1>5 DEF ChipInv

-----------------------------------------------------------------------------
(* The theorems. *)

LEMMA InitInv == Init => Inv
<1> SUFFICES ASSUME Init
             PROVE  Inv
  OBVIOUS
<1>1. pc = <<"out", 1>>
  BY DEF Init, Resting
<1>2. TypeOK
  <2>1. pc[1] \in Rests /\ pc[2] = 1
    BY <1>1 DEF Rests
  <2>2. programmed \in BOOLEAN /\ refused = FALSE /\ flaky = FALSE
        /\ leaving = FALSE /\ late = FALSE
    BY DEF Init
  <2>3. mode \in {"sleep", "standby", "rx"} /\ reset \in {0, 1}
        /\ held = {} /\ missed = {} /\ over = {} /\ stray = {} /\ taken = FALSE
        /\ handler = "idle" /\ work = {} /\ file = "closed" /\ call = "none"
    BY DEF Init
  <2> QED
    BY <2>1, <2>2, <2>3 DEF TypeOK
<1>3. HoldInv
  <2>1. \A thing \in Things : ~Has(pc, thing)
    BY <1>1, HasOfModule, HasOfDevice DEF HasModule, HasDevice, Things, Buffers
  <2>2. ~Has(pc, "node") /\ ~Has(pc, "irq")
    BY <2>1 DEF Things
  <2> QED
    BY <1>1, <2>1, <2>2 DEF Init, HoldInv, HeldInv, MissedInv, OverInv, ReleasedOnce
<1>4. ChipInv
  BY <1>1 DEF Init, ChipInv
<1>5. WorkInv
  BY <1>1 DEF Init, WorkInv, Asleep
<1>6. FileInv
  BY <1>1 DEF Init, FileInv
<1> QED
  BY <1>2, <1>3, <1>4, <1>5, <1>6 DEF Inv

LEMMA NextInv == Inv /\ [Next]_vars => Inv'
<1> SUFFICES ASSUME Inv, [Next]_vars
             PROVE  Inv'
  OBVIOUS
<1> USE DEF Inv
<1>1. CASE Core
  <2>1. HoldInv'
    BY <1>1, OnwardHold, FailHold, ReleaseHold, OthersHold, BootHold DEF Core, Others, Onward
  <2> QED
    BY <1>1, <2>1, CoreTypes, CoreChip, CoreWork, CoreFile
<1>2. CASE Driver \/ Process
  BY <1>2, BesideHold, BesideTypes, BesideChip, BesideWork, BesideFile
<1>3. CASE UNCHANGED vars
  <2> USE <1>3 DEF vars, core_vars, chip_vars, handler_vars, file_vars
  <2>1. TypeOK'
    BY DEF TypeOK
  <2>2. HoldInv' /\ FileInv'
    BY DEF HoldInv, HeldInv, MissedInv, OverInv, ReleasedOnce, FileInv, Has
  <2>3. ChipInv' /\ WorkInv'
    BY DEF ChipInv, WorkInv
  <2> QED
    BY <2>1, <2>2, <2>3
<1> QED
  BY <1>1, <1>2, <1>3 DEF Next

LEMMA Always == Spec => []Inv
BY InitInv, NextInv, PTL DEF Spec

(***************************************************************************)
(* What is held is what should be, between the routines, whichever step of *)
(* which of them has failed, and whether or not that was noticed.          *)
(***************************************************************************)
THEOREM HoldsExact == Spec => []HeldExact
<1>1. Inv => HeldExact
  <2> SUFFICES ASSUME Inv
               PROVE  HeldExact
    OBVIOUS
  <2> USE DEF HoldInv
  <2>1. held \subseteq Things /\ \A thing \in Things : thing \in held => Has(pc, thing)
    BY DEF Inv, TypeOK, HeldInv
  <2>2. \A thing \in Things :
          Has(pc, thing) => thing \in held \cup missed \/ (thing = "irq" /\ refused)
    BY DEF Inv, HeldInv
  <2>3. \A thing \in missed : thing \notin held
    BY DEF Inv, MissedInv
  <2>4. CASE pc = Resting("unbound")
    <3>1. \A thing \in Things : Has(pc, thing) <=> thing \in OfModule
      BY <2>4, HasOfModule, HasOfDevice
         DEF Resting, HasModule, HasDevice, OfModule, Things, Buffers
    <3>2. OfModule \subseteq Things /\ "irq" \notin OfModule
      BY DEF OfModule, Things
    <3>3. \A thing \in held : thing \in OfModule \ missed
      BY <2>1, <2>3, <3>1
    <3>4. \A thing \in OfModule \ missed : thing \in held
      BY <2>2, <3>1, <3>2
    <3>5. held = {"region", "class", "driver"} \ missed
      BY <3>3, <3>4 DEF OfModule
    <3> QED
      BY <2>4, <3>5 DEF HeldExact, Inv, Resting
  <2>5. CASE pc = Resting("out")
    <3>1. \A thing \in Things : ~Has(pc, thing)
      BY <2>5, HasOfModule, HasOfDevice DEF Resting, HasModule, HasDevice, Things, Buffers
    <3>2. held = {}
      BY <2>1, <3>1
    <3> QED
      BY <2>5, <3>2 DEF HeldExact, Inv, Resting
  <2>6. CASE pc = Resting("bound")
    <3>1. \A thing \in Things : Has(pc, thing)
      BY <2>6, HasOfModule, HasOfDevice DEF Resting, HasModule, HasDevice, Things, Buffers
    <3>2. ~refused
      BY <2>6 DEF Inv, HeldInv, Resting
    <3>3. held = Things \ missed
      BY <2>1, <2>2, <2>3, <3>1, <3>2
    <3>4. programmed \/ flaky
      BY <2>6 DEF Inv, ChipInv, Resting
    <3>5. Has(pc, "node") /\ Has(pc, "irq") /\ ~In("unwind")
      BY <2>6, <3>1 DEF Things, Resting
    <3>6. missed \subseteq {"class", "node", "line"} /\ ("class" \in missed => "node" \in missed)
      BY <3>5 DEF Inv, MissedInv
    <3> QED
      BY <2>6, <3>3, <3>4, <3>6 DEF HeldExact, Inv, Resting
  <2> QED
    BY <2>4, <2>5, <2>6 DEF HeldExact, Inv
<1> QED
  BY <1>1, Always, PTL

(***************************************************************************)
(* The handler and the work use only what is there, unless they, or a      *)
(* process, were at it when the device began to go; the handler has its    *)
(* struct, and the module its code, even then.                             *)
(***************************************************************************)
THEOREM StaysLive == Spec => []UsesLive
<1>1. Inv => UsesLive
  <2> SUFFICES ASSUME Inv
               PROVE  UsesLive
    OBVIOUS
  <2>1. StructAlive
    <3>1. handler # "idle" => "lora" \in held
      BY WorkHas DEF Inv, WorkInv
    <3>2. /\ Has(pc, "cdev") => Has(pc, "lora")
          /\ Has(pc, "node") => Has(pc, "class") /\ Has(pc, "cdev")
      BY Numbers, HasOfModule, HasOfDevice DEF Inv, HasModule, HasDevice
    <3>3. \A thing \in {"lora", "cdev", "class", "node"} :
            /\ thing \in held => Has(pc, thing)
            /\ Has(pc, thing) => thing \in held \cup missed
      BY DEF Inv, HoldInv, HeldInv, Things
    <3>4. /\ "lora" \notin missed /\ "cdev" \notin missed
          /\ "node" \in held => "node" \notin missed
          /\ Has(pc, "node") /\ "class" \in missed => "node" \in missed
      BY DEF Inv, HoldInv, MissedInv
    <3> QED
      BY <3>1, <3>2, <3>3, <3>4 DEF StructAlive
  <2>2. CodeAlive
    <3>1. pc = Resting("out") => ~Interruptible(pc)
      BY WorkPlaces DEF Resting
    <3> QED
      BY <3>1 DEF CodeAlive, Inv, WorkInv, FileInv, Resting
  <2>3. stray = {} \/ late
    BY DEF Inv, WorkInv
  <2> QED
    BY <2>1, <2>2, <2>3 DEF UsesLive
<1> QED
  BY <1>1, Always, PTL

(***************************************************************************)
(* Nothing is released twice, or without having been acquired, or through  *)
(* what is not there, but for the interrupt that request_irq has refused   *)
(* and for what nobody has noticed to be missing.                          *)
(***************************************************************************)
THEOREM ReleasesOnce == Spec => []ReleasedOnce
<1>1. Inv => ReleasedOnce
  BY DEF Inv, HoldInv, OverInv
<1> QED
  BY <1>1, Always, PTL

(***************************************************************************)
(* When nobody is left to listen, the chip does not receive: it is held in *)
(* reset after a removal and after a probe that has failed, so that no     *)
(* late handler can set it to receive, and where there is no reset line,   *)
(* or the machine stops, it sleeps unless somebody was still at it.        *)
(***************************************************************************)
THEOREM LeavesQuiet == Spec => []Quiet
<1>1. Inv => Quiet
  <2> SUFFICES ASSUME Inv, taken, pc[1] \notin {"probe", "bound", "unwind", "remove"},
                      mode = "rx"
               PROVE  late /\ (In("off") \/ "line" \in missed)
    BY DEF Quiet
  <2>1. Deserted(pc) \/ In("off")
    BY Numbers DEF Inv, Deserted, Rests, Routines
  <2>2. CASE Deserted(pc)
    BY <2>2 DEF Inv, ChipInv
  <2>3. CASE In("off")
    <3>1. Asleep(pc)
      BY <2>3 DEF Asleep
    <3>2. late
      BY <3>1 DEF Inv, WorkInv
    <3> QED
      BY <2>3, <3>2
  <2> QED
    BY <2>1, <2>2, <2>3
<1> QED
  BY <1>1, Always, PTL

=============================================================================
