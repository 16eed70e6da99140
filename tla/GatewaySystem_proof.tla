------------------------ MODULE GatewaySystem_proof ------------------------
(***************************************************************************)
(* Safety of the gateway for every set of devices, schedules, commands and *)
(* frames and every SCAN_DURATION: type correctness, the signal mask, the  *)
(* hand-over of reports, and that the two processes implement Handshake.   *)
(***************************************************************************)
EXTENDS GatewaySystem, SequenceTheorems, WellFoundedInduction,
        TLAPS

-----------------------------------------------------------------------------
(* The inductive invariant. *)

(***************************************************************************)
(* What the parent is about at each place: without it neither the slot k   *)
(* read by a report nor the request named in a reply is known to exist.    *)
(***************************************************************************)
JobOK ==
  /\ pc \in {"top", "scan", "sock", "exec", "memcpy", "finish", "clear",
             "round_end"} => job = "none"
  /\ pc \in {"put", "signal"} =>
       job \in {"data", "reply", "failed", "dump", "disc"}
  /\ pc \in {"ack0", "lput", "kill"} => job = "list"
  /\ pc = "wait" => job # "none"
  /\ pc = "memcpy" \/ job \in {"data", "dump", "list"} => k \in DOMAIN nodes
  /\ pc = "memcpy" => op \in {MODE_MANUAL, MODE_AUTO}
  /\ job = "reply" => op \in {ADD_DEVICE, REMOVE_DEVICE}
  /\ timeout > 0 \/ pc \in {"round_end", "exited"} \/ job = "disc"

\* Between sessions the two threads of the child do not exist.
NoThreads == server # "join" => snd = "dead" /\ recv_t = "dead"

(***************************************************************************)
(* While the parent waits, its report is still to be sent, is being sent,  *)
(* or has been sent and acknowledged; a sender cancelled beforehand never  *)
(* gets past write().                                                      *)
(***************************************************************************)
ToSend == /\ ready_flag = 1 /\ ack = 0 /\ copies = 0
          /\ snd \in {"idle", "write", "dead"}
Sending == /\ ~snd_cancelled /\ ack = 0 /\ copies = 1
           /\ \/ snd = "clear"
              \/ snd \in {"nap", "ack"} /\ ready_flag = 0
Sent == ~snd_cancelled /\ ack = 1 /\ copies = 1 /\ ready_flag = 0 /\ snd = "idle"

\* While it does not wait, the sender has nothing to do.
Quiet == /\ ready_flag = 0
         /\ snd \in {"idle", "dead"}
         /\ pc \in {"signal", "kill"} => copies = 0
         /\ pc \in {"lput", "kill"} => ack = 0

HandshakeInv ==
  /\ torn => copies = 0
  /\ ~torn => copies <= 1
  /\ ~torn /\ (pc # "exited" \/ child_alive) =>
       IF pc = "wait" THEN ToSend \/ Sending \/ Sent ELSE Quiet

IndInv == TypeOK /\ JobOK /\ NoThreads /\ SignalMask /\ HandshakeInv

-----------------------------------------------------------------------------
(* Lemmas about the registry. *)

\* The lookup loops stop at a slot that holds the id they look for.
LEMMA FirstSlotFound ==
  ASSUME nodes \in Seq(AllIds), NEW id, Registered(id)
  PROVE  FirstSlot(id) \in DOMAIN nodes /\ nodes[FirstSlot(id)] = id
<1>1. SlotsOf(id) \subseteq Nat /\ SlotsOf(id) # {}
  BY DEF SlotsOf, Registered
<1> DEFINE Less == {p \in Nat \X Nat : p[1] < p[2]}
<1>2. PICK i \in SlotsOf(id) : \A j \in SlotsOf(id) : <<j, i>> \notin Less
  <2> HIDE DEF Less
  <2>1. IsWellFoundedOn(Less, Nat)
    BY NatLessThanWellFounded DEF Less, OpToRel
  <2> QED
    BY <1>1, <2>1, WFMin
<1>3. \A j \in SlotsOf(id) : i <= j
  <2> SUFFICES ASSUME NEW j \in SlotsOf(id), ~(i <= j)
               PROVE  FALSE
    OBVIOUS
  <2>1. i \in Nat /\ j \in Nat /\ j < i
    BY <1>1
  <2>2. <<j, i>> \in Less
    BY <2>1
  <2> QED
    BY <1>2, <2>2
<1>4. FirstSlot(id) \in SlotsOf(id)
  BY <1>3 DEF FirstSlot
<1> QED
  BY <1>4 DEF SlotsOf

\* The copying loop of remove_device leaves a list of one slot less.
LEMMA ShiftedIsSeq ==
  ASSUME NEW S, NEW s \in Seq(S), NEW i \in DOMAIN s
  PROVE  Shifted(s, i) \in Seq(S) /\ Len(Shifted(s, i)) = Len(s) - 1
<1>1. Len(s) - 1 \in Nat /\ DOMAIN s = 1 .. Len(s)
  BY LenProperties
<1>2. \A j \in 1 .. Len(s) - 1 : (IF j < i THEN s[j] ELSE s[j + 1]) \in S
  BY <1>1, ElementOfSeq
<1>3. Shifted(s, i) \in [1 .. Len(s) - 1 -> S]
  BY <1>2 DEF Shifted
<1>4. Shifted(s, i) \in Seq(S)
  BY <1>1, <1>3, SeqDef
<1>5. DOMAIN Shifted(s, i) = 1 .. Len(s) - 1
  BY DEF Shifted
<1>6. Len(Shifted(s, i)) \in Nat
      /\ DOMAIN Shifted(s, i) = 1 .. Len(Shifted(s, i))
  BY <1>4, LenProperties
<1>7. \A m, n \in Nat : 1 .. m = 1 .. n => m = n
  OBVIOUS
<1> QED
  BY <1>1, <1>4, <1>5, <1>6, <1>7

\* The block realloc leaves holds at least slot 0.
LEMMA SlotsInsideType ==
  ASSUME NEW n \in Nat
  PROVE  SlotsInside(n) \in Nat \ {0}
<1> DEFINE bytes == (IF n > 6 THEN 4 * n ELSE 24) - 8
<1>1. bytes \in Nat
  OBVIOUS
<1>2. bytes \div 88 \in Nat
  BY <1>1
<1> QED
  BY <1>2 DEF SlotsInside

-----------------------------------------------------------------------------
(* Steps of the parent. *)

USE DEF job_vars, registry_vars, round_vars, rx_vars, radio_vars, loop_vars,
        mailbox_vars, report_vars, shared_vars

LEMMA ControlKept ==
  ASSUME ControlTypeOK, SharedTypeOK, Parent
  PROVE  ControlTypeOK'
<1> USE DEF ControlTypeOK, Goto, NextIteration, Acked
<1>1. CASE PollNode \/ PollFault \/ SkipPoll \/ LeaveScan \/ NoSignal
  BY <1>1 DEF PollNode, PollFault, SkipPoll, LeaveScan, NoSignal
<1>2. CASE TakeReading \/ TakeOther \/ FinishFrame \/ FrameArrives \/ HeapReuse
  BY <1>2 DEF TakeReading, TakeOther, FinishFrame, FrameArrives, HeapReuse, Answered
<1>3. CASE NoCommandYet \/ TakeCommand \/ ClearFlag
  BY <1>3 DEF NoCommandYet, TakeCommand, ClearFlag, SharedTypeOK
<1>4. CASE AddDevice \/ RemoveDevice \/ GotSock \/ CtlSock \/ ModeLookup
           \/ ModeTransmit
  BY <1>4 DEF AddDevice, RemoveDevice, GotSock, CtlSock, ModeLookup, ModeTransmit
<1>5. CASE PutReport \/ Signal \/ ListAck0 \/ ListPut \/ ListKill
  BY <1>5 DEF PutReport, Signal, ListAck0, ListPut, ListKill
<1>6. CASE DataSent \/ ReplySent \/ ListSent \/ DumpSent \/ DisconnectSent
  BY <1>6 DEF DataSent, ReplySent, ListSent, DumpSent, DisconnectSent, Answered
<1>7. CASE ReportDisconnected \/ EndRound
  BY <1>7 DEF ReportDisconnected, EndRound
<1> QED
  BY <1>1, <1>2, <1>3, <1>4, <1>5, <1>6, <1>7 DEF Parent, ParentStep

LEMMA DataKept ==
  ASSUME DataTypeOK, CounterTypeOK, JobOK, SharedTypeOK, Parent
  PROVE  DataTypeOK'
<1> USE DEF DataTypeOK, Goto, NextIteration, Acked
<1>0. Len(nodes) \in Nat /\ DOMAIN nodes = 1 .. Len(nodes)
      /\ \A i \in 1 .. Len(nodes) : nodes[i] \in AllIds
  BY LenProperties, ElementOfSeq
<1>1. CASE PollFault \/ SkipPoll \/ LeaveScan \/ NoSignal
  BY <1>1 DEF PollFault, SkipPoll, LeaveScan, NoSignal
<1>2. CASE TakeOther \/ FinishFrame \/ FrameArrives
  BY <1>2 DEF TakeOther, FinishFrame, FrameArrives
<1>3. CASE NoCommandYet \/ TakeCommand \/ ClearFlag
  BY <1>3 DEF NoCommandYet, TakeCommand, ClearFlag
<1>4. CASE GotSock \/ CtlSock \/ ModeLookup
  BY <1>4 DEF GotSock, CtlSock, ModeLookup
<1>5. CASE PutReport \/ Signal \/ ListAck0 \/ ListPut \/ ListKill
  BY <1>5 DEF PutReport, Signal, ListAck0, ListPut, ListKill
<1>6. CASE DataSent \/ ReplySent \/ ListSent \/ DumpSent \/ DisconnectSent
  BY <1>6 DEF DataSent, ReplySent, ListSent, DumpSent, DisconnectSent, AllIds
<1>7. CASE ReportDisconnected \/ EndRound
  BY <1>7 DEF ReportDisconnected, EndRound
<1>8. CASE AddDevice
  BY <1>8, AppendProperties DEF AddDevice, SharedTypeOK
<1>9. CASE RemoveDevice
  BY <1>9, ShiftedIsSeq, FirstSlotFound DEF RemoveDevice
<1>10. CASE ModeTransmit
  <2>1. nodes[k] \in AllIds /\ op \in {MODE_MANUAL, MODE_AUTO}
    BY <1>0, <1>10 DEF ModeTransmit, JobOK
  <2>2. (IF op = MODE_MANUAL THEN user_set ELSE NoSchedule)
          \in Schedules \cup {NoSchedule}
    BY DEF SharedTypeOK
  <2>3. tx' \in Packet
    BY <1>10, <2>1, <2>2 DEF ModeTransmit, Packet
  <2> QED
    BY <1>10, <2>3 DEF ModeTransmit
<1>11. CASE PollNode
  <2>1. ASSUME cursor < Len(nodes)
        PROVE  nodes[cursor + 1] \in AllIds
    <3>1. cursor + 1 \in 1 .. Len(nodes)
      BY <1>0, <2>1, GatewayAssumption DEF CounterTypeOK
    <3> QED
      BY <1>0, <3>1
  <2>3. id_handling' \in AllIds
    BY <1>11, <2>1 DEF PollNode, AllIds
  <2>4. tx' \in Packet
    BY <1>11, <2>3 DEF PollNode, Packet
  <2> QED
    BY <1>11, <2>3, <2>4 DEF PollNode
<1>12. CASE HeapReuse
  BY <1>12, LenProperties DEF HeapReuse, AllIds
<1>13. CASE TakeReading
  BY <1>13, GatewayAssumption DEF TakeReading, AllIds, IsReading, Frame
<1> QED
  BY <1>1, <1>2, <1>3, <1>4, <1>5, <1>6, <1>7, <1>8, <1>9, <1>10, <1>11, <1>12,
     <1>13
     DEF Parent, ParentStep

LEMMA Ticked ==
  ASSUME CounterTypeOK, JobOK, pc = "scan", Tick
  PROVE  timeout' \in 0 .. SCAN_DURATION
<1>1. timeout > 0 /\ timeout \in 0 .. SCAN_DURATION
  BY DEF JobOK, CounterTypeOK
<1>2. timeout' = timeout - 1
  BY DEF Tick
<1> QED
  BY <1>1, <1>2, GatewayAssumption

LEMMA CountersKept ==
  ASSUME CounterTypeOK, DataTypeOK, JobOK, Parent
  PROVE  CounterTypeOK'
<1>0. Len(nodes) \in Nat /\ DOMAIN nodes = 1 .. Len(nodes)
  BY LenProperties DEF DataTypeOK
<1> USE DEF Goto, NextIteration, Acked
<1>1. CASE PollFault \/ SkipPoll \/ FinishFrame \/ FrameArrives \/ HeapReuse
  BY <1>1 DEF PollFault, SkipPoll, FinishFrame, FrameArrives, HeapReuse, CounterTypeOK
<1>2. CASE NoCommandYet \/ TakeCommand \/ ClearFlag \/ CtlSock
  BY <1>2 DEF NoCommandYet, TakeCommand, ClearFlag, CtlSock, CounterTypeOK
<1>3. CASE PutReport \/ Signal \/ ListAck0 \/ ListPut \/ ListKill
  BY <1>3 DEF PutReport, Signal, ListAck0, ListPut, ListKill, CounterTypeOK
<1>4. CASE LeaveScan \/ NoSignal \/ TakeOther
  BY <1>4, Ticked DEF LeaveScan, NoSignal, TakeOther, CounterTypeOK
<1>5. CASE TakeReading
  <2>1. timeout' \in 0 .. SCAN_DURATION
    BY <1>5, Ticked DEF TakeReading
  <2>2. Registered(rx_buffer.uid)
    BY <1>5 DEF TakeReading, IsReading
  <2>3. FirstSlot(rx_buffer.uid) \in Nat
    BY <1>0, <2>2, FirstSlotFound DEF DataTypeOK
  <2> QED
    BY <1>5, <2>1, <2>3 DEF TakeReading, CounterTypeOK
<1>6. CASE AddDevice
  <2>1. Len(nodes) + 1 \in Nat
    BY <1>0
  <2> QED
    BY <1>6, <2>1 DEF AddDevice, CounterTypeOK
<1>7. CASE RemoveDevice
  <2>1. Registered(id_to_handler) => Len(nodes) - 1 \in Nat
    BY <1>0 DEF Registered
  <2>2. Registered(id_to_handler) => SlotsInside(Len(nodes) - 1) \in Nat
    BY <2>1, SlotsInsideType
  <2>3. 0 \in Nat
    OBVIOUS
  <2>4. intact' \in Nat
    BY <1>7, <2>2, <2>3 DEF RemoveDevice, CounterTypeOK
  <2> QED
    BY <1>7, <2>4 DEF RemoveDevice, CounterTypeOK
<1>8. CASE GotSock
  <2>1. 1 \in Nat
    OBVIOUS
  <2> QED
    BY <1>8, <2>1 DEF GotSock, CounterTypeOK
<1>9. CASE ModeLookup
  <2>1. Registered(id_to_handler) => FirstSlot(id_to_handler) \in Nat
    BY <1>0, FirstSlotFound DEF DataTypeOK
  <2> QED
    BY <1>9, <2>1 DEF ModeLookup, CounterTypeOK
<1>10. CASE ModeTransmit
  <2>1. 0 \in Nat
    OBVIOUS
  <2> QED
    BY <1>10, <2>1 DEF ModeTransmit, CounterTypeOK
<1>11. CASE DataSent \/ ReplySent \/ ListSent \/ DumpSent
  <2>1. k \in Nat /\ k + 1 \in Nat /\ 1 \in Nat /\ 0 \in Nat
    BY DEF CounterTypeOK
  <2>2. k' \in Nat
    BY <1>11, <2>1 DEF DataSent, ReplySent, ListSent, DumpSent
  <2> QED
    BY <1>11, <2>2 DEF DataSent, ReplySent, ListSent, DumpSent, CounterTypeOK
<1>12. CASE DisconnectSent \/ EndRound \/ ReportDisconnected
  <2>1. SCAN_DURATION \in 0 .. SCAN_DURATION
    BY GatewayAssumption
  <2> QED
    BY <1>12, <2>1 DEF DisconnectSent, EndRound, ReportDisconnected, CounterTypeOK
<1>13. CASE PollNode
  <2>1. cursor \in 0 .. MaxCursor
    BY DEF CounterTypeOK
  <2>2. cursor < MaxCursor => cursor + 1 \in 0 .. MaxCursor
    BY <2>1, GatewayAssumption
  <2>3. 0 \in 0 .. MaxCursor
    BY GatewayAssumption
  <2>4. \/ cursor' = 0
        \/ cursor < MaxCursor /\ cursor' = cursor + 1
        \/ cursor' = cursor
    BY <1>13 DEF PollNode
  <2>5. cursor' \in 0 .. MaxCursor
    BY <2>1, <2>2, <2>3, <2>4
  <2> QED
    BY <1>13, <2>5 DEF PollNode, CounterTypeOK
<1> QED
  BY <1>1, <1>2, <1>3, <1>4, <1>5, <1>6, <1>7, <1>8, <1>9, <1>10, <1>11, <1>12,
     <1>13
     DEF Parent, ParentStep

LEMMA JobKept ==
  ASSUME JobOK, DataTypeOK, CounterTypeOK, ControlTypeOK, Parent
  PROVE  JobOK'
<1>0. Len(nodes) \in Nat /\ DOMAIN nodes = 1 .. Len(nodes)
  BY LenProperties DEF DataTypeOK
<1> USE DEF JobOK, Goto, NextIteration, Acked
<1>1. CASE PollNode \/ PollFault \/ SkipPoll \/ FrameArrives
  BY <1>1 DEF PollNode, PollFault, SkipPoll, FrameArrives
<1>2. CASE LeaveScan \/ NoSignal \/ TakeOther \/ FinishFrame
  BY <1>2 DEF LeaveScan, NoSignal, TakeOther, FinishFrame
<1>3. CASE HeapReuse
  BY <1>3 DEF HeapReuse
<1>4. CASE TakeReading
  BY <1>4, FirstSlotFound DEF TakeReading, IsReading, DataTypeOK
<1>5. CASE NoCommandYet \/ TakeCommand \/ ClearFlag
  BY <1>5 DEF NoCommandYet, TakeCommand, ClearFlag
<1>6. CASE AddDevice
  BY <1>6 DEF AddDevice
<1>7. CASE RemoveDevice
  BY <1>7 DEF RemoveDevice
<1>8. CASE GotSock
  <2>1. nodes # <<>> => 1 \in DOMAIN nodes
    BY <1>0, EmptySeq DEF DataTypeOK
  <2> QED
    BY <1>8, <2>1 DEF GotSock
<1>9. CASE CtlSock
  BY <1>9 DEF CtlSock
<1>10. CASE ModeLookup
  BY <1>10, FirstSlotFound DEF ModeLookup, DataTypeOK
<1>11. CASE ModeTransmit
  BY <1>11 DEF ModeTransmit
<1>12. CASE PutReport \/ Signal \/ ListAck0 \/ ListPut \/ ListKill
  BY <1>12 DEF PutReport, Signal, ListAck0, ListPut, ListKill
<1>13. CASE DataSent \/ ReplySent
  BY <1>13 DEF DataSent, ReplySent
<1>14. CASE ListSent \/ DumpSent
  <2>1. job \in {"list", "dump"} => k \in 1 .. Len(nodes)
    BY <1>0
  <2>2. job \in {"list", "dump"} /\ k < Len(nodes) => k + 1 \in DOMAIN nodes
    BY <1>0, <2>1
  <2>3. job \in {"list", "dump"} => 1 \in DOMAIN nodes
    BY <1>0, <2>1
  <2> QED
    BY <1>14, <2>2, <2>3 DEF ListSent, DumpSent
<1>15. CASE DisconnectSent \/ EndRound
  BY <1>15, GatewayAssumption DEF DisconnectSent, EndRound
<1>16. CASE ReportDisconnected
  BY <1>16 DEF ReportDisconnected
<1> QED
  BY <1>1, <1>2, <1>3, <1>4, <1>5, <1>6, <1>7, <1>8, <1>9, <1>10, <1>11, <1>12,
     <1>13, <1>14, <1>15, <1>16
     DEF Parent, ParentStep

LEMMA MaskKept ==
  ASSUME SignalMask, JobOK, ControlTypeOK, Parent
  PROVE  SignalMask'
<1> USE DEF SignalMask, JobOK, Goto, NextIteration, Acked
<1>1. CASE PollNode \/ PollFault \/ SkipPoll \/ LeaveScan \/ NoSignal
  BY <1>1 DEF PollNode, PollFault, SkipPoll, LeaveScan, NoSignal
<1>2. CASE TakeReading \/ TakeOther \/ FinishFrame
  BY <1>2 DEF TakeReading, TakeOther, FinishFrame
<1>3. CASE FrameArrives \/ HeapReuse
  BY <1>3 DEF FrameArrives, HeapReuse
<1>4. CASE NoCommandYet \/ TakeCommand \/ ClearFlag
  <2>1. UNCHANGED <<job, blocked, pending>>
    BY <1>4 DEF NoCommandYet, TakeCommand, ClearFlag
  <2>2. pc \in {"sock", "clear"} /\ pc' \in {"scan", "exec"}
    BY <1>4 DEF NoCommandYet, TakeCommand, ClearFlag
  <2> QED
    BY <2>1, <2>2
<1>5. CASE AddDevice \/ RemoveDevice \/ GotSock \/ CtlSock \/ ModeLookup
           \/ ModeTransmit
  BY <1>5 DEF AddDevice, RemoveDevice, GotSock, CtlSock, ModeLookup, ModeTransmit
<1>6. CASE PutReport \/ Signal \/ ListAck0 \/ ListPut \/ ListKill
  BY <1>6 DEF PutReport, Signal, ListAck0, ListPut, ListKill
<1>7. CASE DataSent \/ ReplySent \/ ListSent \/ DumpSent \/ DisconnectSent
  BY <1>7 DEF DataSent, ReplySent, ListSent, DumpSent, DisconnectSent
<1>8. CASE ReportDisconnected \/ EndRound
  BY <1>8 DEF ReportDisconnected, EndRound
<1> QED
  BY <1>1, <1>2, <1>3, <1>4, <1>5, <1>6, <1>7, <1>8 DEF Parent, ParentStep

\* The texts the parent may store.
LEMMA ReportTextType ==
  ASSUME DataTypeOK, SharedTypeOK, JobOK,
         pc \in {"put", "lput"}
  PROVE  ReportText \in Texts
<1>0. k \in DOMAIN nodes => nodes[k] \in AllIds
  BY LenProperties, ElementOfSeq DEF DataTypeOK
<1>1. job \in {"data", "dump", "list"} => nodes[k] \in AllIds
  BY <1>0 DEF JobOK
<1>2. job = "reply" => op \in {ADD_DEVICE, REMOVE_DEVICE}
  BY DEF JobOK
<1>3. id_to_handler \in AllIds /\ id_handling \in AllIds /\ ZeroId \in AllIds
  BY DEF SharedTypeOK, DataTypeOK, AllIds
<1> QED
  BY <1>1, <1>2, <1>3 DEF ReportText, Text, Texts, Failed

LEMMA SharedKept ==
  ASSUME SharedTypeOK, DataTypeOK, JobOK, Parent
  PROVE  SharedTypeOK'
<1> USE DEF SharedTypeOK, Goto
<1>1. CASE PollNode \/ PollFault \/ SkipPoll \/ LeaveScan \/ NoSignal
  BY <1>1 DEF PollNode, PollFault, SkipPoll, LeaveScan, NoSignal
<1>2. CASE TakeReading \/ TakeOther \/ FinishFrame \/ FrameArrives \/ HeapReuse
  BY <1>2 DEF TakeReading, TakeOther, FinishFrame, FrameArrives, HeapReuse
<1>3. CASE NoCommandYet \/ TakeCommand \/ ClearFlag
  BY <1>3 DEF NoCommandYet, TakeCommand, ClearFlag
<1>4. CASE AddDevice \/ RemoveDevice \/ GotSock \/ CtlSock \/ ModeLookup
           \/ ModeTransmit
  BY <1>4 DEF AddDevice, RemoveDevice, GotSock, CtlSock, ModeLookup, ModeTransmit
<1>5. CASE PutReport \/ ListPut
  BY <1>5, ReportTextType DEF PutReport, ListPut
<1>6. CASE Signal \/ ListAck0 \/ ListKill
  BY <1>6 DEF Signal, ListAck0, ListKill
<1>7. CASE DataSent \/ ReplySent \/ ListSent \/ DumpSent \/ DisconnectSent
  BY <1>7 DEF DataSent, ReplySent, ListSent, DumpSent, DisconnectSent
<1>8. CASE ReportDisconnected \/ EndRound
  BY <1>8 DEF ReportDisconnected, EndRound
<1> QED
  BY <1>1, <1>2, <1>3, <1>4, <1>5, <1>6, <1>7, <1>8 DEF Parent, ParentStep

-----------------------------------------------------------------------------
(* Steps of the child. *)

LEMMA ChildKeeps ==
  ASSUME SharedTypeOK, ChildTypeOK, NoThreads, Child
  PROVE  SharedTypeOK' /\ ChildTypeOK' /\ NoThreads'
<1> USE DEF SharedTypeOK, ChildTypeOK, NoThreads, thread_vars
<1>1. CASE Accept \/ StartThreads \/ JoinThreads \/ SignalClosed
  BY <1>1 DEF Accept, StartThreads, JoinThreads, SignalClosed, Requests
<1>2. CASE SndWake \/ SndWrite \/ SndClear \/ SndNapped \/ SndAck \/ SndDie
  BY <1>2 DEF SndWake, SndWrite, SndClear, SndNapped, SndAck, SndDie
<1>3. CASE \E c \in Commands : RecvCommand(c)
  <2>1. PICK c \in Commands : RecvCommand(c)
    BY <1>3
  <2>2. c.op \in Requests
    BY CommandAssumption DEF Command, Requests
  <2> QED
    BY <2>1, <2>2 DEF RecvCommand
<1>4. CASE RecvId \/ RecvSet
  <2>1. ASSUME cmd \in Commands
        PROVE  cmd.id \in AllIds /\ cmd.set \in Schedules \cup {NoSchedule}
    BY <2>1, CommandAssumption DEF Command, AllIds
  <2>2. NoCommand.id \in AllIds /\ NoCommand.set \in Schedules \cup {NoSchedule}
    BY DEF NoCommand, AllIds
  <2>3. cmd.id \in AllIds /\ cmd.set \in Schedules \cup {NoSchedule}
    BY <2>1, <2>2
  <2> QED
    BY <1>4, <2>3 DEF RecvId, RecvSet
<1>5. CASE RecvSignal \/ RecvExit \/ RecvEof \/ RecvAck \/ RecvClose \/ RecvError \/ RecvBroken
  BY <1>5 DEF RecvSignal, RecvExit, RecvEof, RecvAck, RecvClose, RecvError, RecvBroken
<1>6. CASE ClientCloses \/ ClientResets
  BY <1>6 DEF ClientCloses, ClientResets
<1> QED
  BY <1>1, <1>2, <1>3, <1>4, <1>5, <1>6
     DEF Child, MainThread, SendMsg, RecvMsg, Client

-----------------------------------------------------------------------------
(* The hand-over. *)

LEMMA HistoryKept ==
  ASSUME SharedTypeOK, ChildTypeOK, HistoryTypeOK, Track
  PROVE  HistoryTypeOK'
<1> USE DEF HistoryTypeOK
<1>1. torn' \in BOOLEAN
  BY DEF Track, TrackHandshake
<1>2. copies' \in 0 .. 2
  <2>1. copies \in 0 .. 2 /\ (copies < 2 => copies + 1 \in 0 .. 2) /\ 0 \in 0 .. 2
    OBVIOUS
  <2> QED
    BY <2>1 DEF Track, TrackHandshake
<1>3. overrun' \in BOOLEAN
  BY DEF Track, TrackCommands, Busy
<1>4. posted' \in Commands \cup {NoCommand}
  BY DEF Track, TrackCommands, ChildTypeOK
<1>5. view' \subseteq AllIds
  <2>1. data_to_send.id \in AllIds
    BY DEF SharedTypeOK, Texts
  <2> QED
    BY <2>1 DEF Track, TrackCommands
<1>6. round' \in {"unpolled", "polled", "answered"}
  BY DEF Track, TrackRound
<1>7. shrunk' \in BOOLEAN
  BY DEF Track, TrackRound
<1> QED
  BY <1>1, <1>2, <1>3, <1>4, <1>5, <1>6, <1>7

LEMMA ParentGoesOn ==
  ASSUME Parent
  PROVE  ~EndsWaiting
<1> USE DEF EndsWaiting, Goto, NextIteration, Acked
<1>1. CASE PollNode \/ PollFault \/ SkipPoll \/ LeaveScan \/ NoSignal
  BY <1>1 DEF PollNode, PollFault, SkipPoll, LeaveScan, NoSignal
<1>2. CASE TakeReading \/ TakeOther \/ FinishFrame \/ FrameArrives \/ HeapReuse
  BY <1>2 DEF TakeReading, TakeOther, FinishFrame, FrameArrives, HeapReuse
<1>3. CASE NoCommandYet \/ TakeCommand \/ ClearFlag
  BY <1>3 DEF NoCommandYet, TakeCommand, ClearFlag
<1>4. CASE AddDevice \/ RemoveDevice \/ GotSock \/ CtlSock \/ ModeLookup
           \/ ModeTransmit
  BY <1>4 DEF AddDevice, RemoveDevice, GotSock, CtlSock, ModeLookup, ModeTransmit
<1>5. CASE PutReport \/ Signal \/ ListAck0 \/ ListPut \/ ListKill
  BY <1>5 DEF PutReport, Signal, ListAck0, ListPut, ListKill
<1>6. CASE DataSent \/ ReplySent \/ ListSent \/ DumpSent \/ DisconnectSent
  BY <1>6 DEF DataSent, ReplySent, ListSent, DumpSent, DisconnectSent
<1>7. CASE ReportDisconnected \/ EndRound
  BY <1>7 DEF ReportDisconnected, EndRound
<1> QED
  BY <1>1, <1>2, <1>3, <1>4, <1>5, <1>6, <1>7 DEF Parent, ParentStep

\* A step of the parent tears nothing and writes nothing to the socket.
LEMMA ParentTracked ==
  ASSUME HistoryTypeOK, TrackHandshake, UNCHANGED child_vars, ~EndsWaiting
  PROVE  /\ torn' = torn
         /\ copies' = IF torn \/ StoresText THEN 0 ELSE copies
<1>1. ~Accepts /\ ~Writes /\ ~CancelsSnd /\ ~AcksAtEof
  BY DEF child_vars, Accepts, Writes, CancelsSnd, AcksAtEof
<1>2. torn' = torn
  BY <1>1 DEF TrackHandshake, Afresh, HistoryTypeOK
<1>3. copies' = IF torn' \/ StoresText THEN 0 ELSE copies
  BY <1>1 DEF TrackHandshake
<1> QED
  BY <1>2, <1>3

LEMMA ParentHandshake ==
  ASSUME IndInv, Parent, UNCHANGED child_vars, TrackHandshake
  PROVE  HandshakeInv'
<1> USE DEF HandshakeInv, ToSend, Sending, Sent, Quiet, StoresText
<1> USE DEF Goto, NextIteration, Acked
<1>1. UNCHANGED <<snd, snd_cancelled, child_alive>>
  BY DEF child_vars
<1>2. /\ torn' = torn
      /\ copies' = IF torn \/ StoresText THEN 0 ELSE copies
  BY ParentTracked, ParentGoesOn DEF IndInv, TypeOK
<1>3. copies \in 0 .. 2 /\ HandshakeInv
  BY DEF IndInv, TypeOK, HistoryTypeOK
<1>4. CASE PollNode \/ PollFault \/ SkipPoll \/ LeaveScan \/ NoSignal
  BY <1>1, <1>2, <1>3, <1>4
     DEF PollNode, PollFault, SkipPoll, LeaveScan, NoSignal
<1>5. CASE TakeReading \/ TakeOther \/ FinishFrame \/ FrameArrives \/ HeapReuse
  BY <1>1, <1>2, <1>3, <1>5
     DEF TakeReading, TakeOther, FinishFrame, FrameArrives, HeapReuse
<1>6. CASE NoCommandYet \/ TakeCommand \/ ClearFlag
  BY <1>1, <1>2, <1>3, <1>6 DEF NoCommandYet, TakeCommand, ClearFlag
<1>7. CASE AddDevice \/ RemoveDevice \/ GotSock \/ CtlSock \/ ModeLookup
           \/ ModeTransmit
  BY <1>1, <1>2, <1>3, <1>7
     DEF AddDevice, RemoveDevice, GotSock, CtlSock, ModeLookup, ModeTransmit
<1>8. CASE PutReport \/ ListAck0 \/ ListPut
  BY <1>1, <1>2, <1>3, <1>8 DEF PutReport, ListAck0, ListPut
<1>9. CASE Signal \/ ListKill
  BY <1>1, <1>2, <1>3, <1>9 DEF Signal, ListKill
<1>10. CASE DataSent \/ ReplySent \/ ListSent \/ DumpSent \/ DisconnectSent
  BY <1>1, <1>2, <1>3, <1>10
     DEF DataSent, ReplySent, ListSent, DumpSent, DisconnectSent
<1>11. CASE ReportDisconnected \/ EndRound
  BY <1>1, <1>2, <1>3, <1>11 DEF ReportDisconnected, EndRound
<1> QED
  BY <1>4, <1>5, <1>6, <1>7, <1>8, <1>9, <1>10, <1>11 DEF Parent, ParentStep

\* A step of the child that is no write(), accept, cancel or ack tears nothing.
LEMMA ChildTracked ==
  ASSUME HistoryTypeOK, TrackHandshake, UNCHANGED pc,
         ~Accepts, ~CancelsSnd, ~AcksAtEof
  PROVE  /\ torn' = torn
         /\ copies' = IF torn THEN 0
                      ELSE IF Writes /\ copies < 2 THEN copies + 1 ELSE copies
<1>1. torn' = torn
  BY DEF TrackHandshake, Afresh, HistoryTypeOK, EndsWaiting
<1>2. ~StoresText
  BY DEF StoresText
<1>3. copies' = IF torn' THEN 0
                ELSE IF Writes /\ copies < 2 THEN copies + 1 ELSE copies
  BY <1>2 DEF TrackHandshake
<1> QED
  BY <1>1, <1>3

LEMMA ChildHandshake ==
  ASSUME IndInv, Child, UNCHANGED parent_vars, TrackHandshake
  PROVE  HandshakeInv'
<1> USE DEF HandshakeInv, ToSend, Sending, Sent, Quiet, StoresText
<1>1. UNCHANGED pc
  BY DEF parent_vars
<1>2. copies \in 0 .. 2 /\ torn \in BOOLEAN /\ HistoryTypeOK /\ HandshakeInv
  BY DEF IndInv, TypeOK, HistoryTypeOK
<1>3. child_alive
  BY DEF Child
<1>4. snd_cancelled \in BOOLEAN /\ NoThreads
  BY DEF IndInv, TypeOK, ChildTypeOK
<1>5. CASE Accept
  <2>1. Accepts /\ ~Writes /\ ~CancelsSnd /\ ~AcksAtEof
    BY <1>5 DEF Accept, Accepts, Writes, CancelsSnd, AcksAtEof, thread_vars
  <2>2. torn' = (torn /\ ~Afresh)
    BY <1>1, <2>1 DEF TrackHandshake, EndsWaiting
  <2>3. copies' = IF torn' THEN 0 ELSE copies
    BY <1>1, <2>1 DEF TrackHandshake
  <2>4. snd = "dead"
    BY <1>4, <1>5 DEF NoThreads, Accept
  <2>5. UNCHANGED <<snd, snd_cancelled, ack, ready_flag, child_alive>>
    BY <1>5 DEF Accept, thread_vars
  <2>6. Afresh => ready_flag = 0 /\ pc \notin {"lput", "kill", "signal", "wait"}
    BY DEF Afresh, HandingOver
  <2>7. CASE torn /\ Afresh
    BY <1>1, <1>2, <2>2, <2>3, <2>4, <2>5, <2>6, <2>7
  <2>8. CASE ~(torn /\ Afresh)
    <3>1. torn' = torn
      BY <1>2, <2>2, <2>8
    <3> QED
      BY <1>1, <1>2, <1>3, <2>3, <2>5, <3>1
  <2> QED
    BY <2>7, <2>8
<1>6. CASE StartThreads \/ JoinThreads \/ SignalClosed
  <2>1. ~Accepts /\ ~Writes /\ ~CancelsSnd /\ ~AcksAtEof
    BY <1>6 DEF StartThreads, JoinThreads, SignalClosed, Accepts, Writes,
                CancelsSnd, AcksAtEof, thread_vars
  <2>2. torn' = torn /\ copies' = IF torn THEN 0 ELSE copies
    BY <1>1, <1>2, <2>1, ChildTracked
  <2> QED
    BY <1>1, <1>2, <1>3, <1>4, <1>6, <2>2
       DEF StartThreads, JoinThreads, SignalClosed, NoThreads, thread_vars
<1>7. CASE SndWake \/ SndClear \/ SndNapped \/ SndAck \/ SndDie
  <2>0. UNCHANGED <<snd_cancelled, child_alive>>
    BY <1>7 DEF SndWake, SndClear, SndNapped, SndAck, SndDie
  <2>1. ~Accepts /\ ~Writes /\ ~CancelsSnd /\ ~AcksAtEof
    BY <1>7 DEF SndWake, SndClear, SndNapped, SndAck, SndDie, Accepts, Writes,
                CancelsSnd, AcksAtEof
  <2>2. torn' = torn /\ copies' = IF torn THEN 0 ELSE copies
    BY <1>1, <1>2, <2>1, ChildTracked
  <2>3. CASE SndWake \/ SndClear
    BY <1>1, <1>2, <1>3, <2>0, <2>2, <2>3 DEF SndWake, SndClear
  <2>4. CASE SndNapped \/ SndAck
    BY <1>1, <1>2, <1>3, <2>0, <2>2, <2>4 DEF SndNapped, SndAck
  <2>5. CASE SndDie
    <3>1. torn => copies' = 0
      BY <2>2
    <3>2. ~torn => IF pc = "wait" THEN ToSend ELSE Quiet
      BY <1>2, <1>3, <2>5 DEF SndDie
    <3>3. snd' = "dead" /\ UNCHANGED <<ack, ready_flag>>
      BY <2>5 DEF SndDie
    <3> QED
      BY <1>1, <1>2, <2>0, <2>2, <3>1, <3>2, <3>3
  <2> QED
    BY <1>7, <2>3, <2>4, <2>5
<1>8. CASE SndWrite
  <2>1. ~Accepts /\ Writes /\ ~CancelsSnd /\ ~AcksAtEof
    BY <1>8 DEF SndWrite, Accepts, Writes, CancelsSnd, AcksAtEof
  <2>2. torn' = torn
        /\ copies' = IF torn THEN 0
                     ELSE IF copies < 2 THEN copies + 1 ELSE copies
    BY <1>1, <1>2, <2>1, ChildTracked
  <2>3. ~torn => ToSend /\ pc = "wait"
    BY <1>2, <1>3, <1>8 DEF SndWrite
  <2>4. ~torn => copies' = 1
    BY <2>2, <2>3
  <2> QED
    BY <1>1, <1>2, <1>8, <2>2, <2>3, <2>4 DEF SndWrite
<1>9. CASE RecvExit \/ RecvEof
  <2>1. ~Accepts /\ ~Writes /\ ~AcksAtEof
    BY <1>9 DEF RecvExit, RecvEof, Accepts, Writes, AcksAtEof
  <2>2. copies' = IF torn' THEN 0 ELSE copies
    BY <1>1, <2>1 DEF TrackHandshake
  <2>3. torn' = (torn \/ (CancelsSnd /\ pc = "wait"))
    BY <1>1, <2>1 DEF TrackHandshake, Afresh, EndsWaiting
  <2>4. UNCHANGED <<snd, ack, ready_flag, child_alive>> /\ snd_cancelled'
    BY <1>9 DEF RecvExit, RecvEof
  <2>5. CASE CancelsSnd /\ pc = "wait"
    BY <2>2, <2>3, <2>5
  <2>6. CASE ~CancelsSnd
    <3>1. snd_cancelled' = snd_cancelled /\ torn' = torn
      BY <1>2, <1>4, <1>9, <2>3, <2>4, <2>6 DEF CancelsSnd, RecvExit, RecvEof
    <3> QED
      BY <1>1, <1>2, <1>3, <2>2, <2>4, <3>1
  <2>7. CASE pc # "wait"
    <3>1. torn' = torn
      BY <1>2, <2>3, <2>7
    <3> QED
      BY <1>1, <1>2, <1>3, <2>2, <2>4, <2>7, <3>1
  <2> QED
    BY <2>5, <2>6, <2>7
<1>10. CASE RecvAck
  <2>1. ~Accepts /\ ~Writes /\ ~CancelsSnd /\ AcksAtEof
    BY <1>10 DEF RecvAck, Accepts, Writes, CancelsSnd, AcksAtEof
  <2>2. copies' = IF torn' THEN 0 ELSE copies
    BY <1>1, <2>1 DEF TrackHandshake
  <2>3. torn' = (torn \/ pc \in {"lput", "kill", "wait"})
    BY <1>1, <2>1 DEF TrackHandshake, Afresh, EndsWaiting
  <2>4. UNCHANGED <<snd, snd_cancelled, ready_flag, child_alive>>
    BY <1>10 DEF RecvAck
  <2> QED
    BY <1>1, <1>2, <1>3, <2>2, <2>3, <2>4
<1>11. CASE \/ \E c \in Commands : RecvCommand(c)
            \/ RecvId \/ RecvSet \/ RecvSignal \/ RecvClose \/ RecvError \/ RecvBroken
            \/ ClientCloses \/ ClientResets
  <2>1. ~Accepts /\ ~Writes /\ ~CancelsSnd /\ ~AcksAtEof
    BY <1>11 DEF RecvCommand, RecvId, RecvSet, RecvSignal, RecvClose, RecvError, RecvBroken,
                 ClientCloses, ClientResets, Accepts, Writes, CancelsSnd,
                 AcksAtEof, thread_vars
  <2>2. torn' = torn /\ copies' = IF torn THEN 0 ELSE copies
    BY <1>1, <1>2, <2>1, ChildTracked
  <2>3. UNCHANGED <<snd, snd_cancelled, ack, ready_flag>>
    BY <1>11 DEF RecvCommand, RecvId, RecvSet, RecvSignal, RecvClose, RecvError, RecvBroken,
                 ClientCloses, ClientResets, thread_vars
  <2> QED
    BY <1>1, <1>2, <1>3, <2>2, <2>3
<1> QED
  BY <1>5, <1>6, <1>7, <1>8, <1>9, <1>10, <1>11
     DEF Child, MainThread, SendMsg, RecvMsg, Client

-----------------------------------------------------------------------------
(* The invariant holds at the start and is kept by every step. *)

LEMMA InitInv == Init => IndInv
<1> SUFFICES ASSUME Init
             PROVE  IndInv
  OBVIOUS
<1>1. SharedInit /\ ParentInit /\ ChildInit
  BY DEF Init
<1>2. SharedTypeOK
  BY <1>1 DEF SharedInit, SharedTypeOK, Requests, UserRequests, Empty, Text, Texts,
              AllIds
<1>3. nodes \in Seq(AllIds)
  <2>1. nodes \in Seq(Ids)
    BY <1>1, GatewayAssumption DEF ParentInit
  <2> QED
    BY <2>1, SeqMonotonic DEF AllIds
<1>4. ControlTypeOK
  BY <1>1 DEF ParentInit, ControlTypeOK
<1>5. CounterTypeOK
  <2>1. k = 0 /\ timeout = SCAN_DURATION /\ intact = Len(nodes) /\ cursor = 0
    BY <1>1 DEF ParentInit
  <2>2. Len(nodes) \in Nat
    BY <1>3, LenProperties
  <2> QED
    BY <2>1, <2>2, GatewayAssumption DEF CounterTypeOK
<1>6. DataTypeOK
  BY <1>1, <1>3 DEF ParentInit, DataTypeOK, AllIds, NoPacket, Packet
<1>7. ChildTypeOK
  BY <1>1 DEF ChildInit, ChildTypeOK
<1>8. HistoryTypeOK
  <2>1. /\ torn = FALSE /\ overrun = FALSE /\ posted = NoCommand /\ copies = 0
        /\ view = {} /\ round = "unpolled" /\ shrunk = FALSE
    BY DEF Init
  <2>2. torn \in BOOLEAN /\ overrun \in BOOLEAN /\ shrunk \in BOOLEAN
    BY <2>1
  <2>3. copies \in 0 .. 2 /\ view \subseteq AllIds
    BY <2>1
  <2> QED
    BY <2>1, <2>2, <2>3 DEF HistoryTypeOK
<1>9. JobOK
  <2>1. pc = "top" /\ job = "none" /\ timeout = SCAN_DURATION
    BY <1>1 DEF ParentInit
  <2> QED
    BY <2>1, GatewayAssumption DEF JobOK
<1>10. NoThreads /\ SignalMask
  BY <1>1 DEF ParentInit, ChildInit, NoThreads, SignalMask
<1>11. HandshakeInv
  <2>1. torn = FALSE /\ copies = 0
    BY DEF Init
  <2>2. pc = "top" /\ ready_flag = 0 /\ snd = "dead"
    BY <1>1 DEF SharedInit, ParentInit, ChildInit
  <2> QED
    BY <2>1, <2>2 DEF HandshakeInv, Quiet
<1> QED
  BY <1>2, <1>4, <1>5, <1>6, <1>7, <1>8, <1>9, <1>10, <1>11
     DEF IndInv, TypeOK, ParentTypeOK

LEMMA StepInv == IndInv /\ [Next]_vars => IndInv'
<1> SUFFICES ASSUME IndInv, [Next]_vars
             PROVE  IndInv'
  OBVIOUS
<1>0. /\ SharedTypeOK /\ ControlTypeOK /\ CounterTypeOK /\ DataTypeOK
      /\ ChildTypeOK /\ HistoryTypeOK
      /\ JobOK /\ NoThreads /\ SignalMask /\ HandshakeInv
  BY DEF IndInv, TypeOK, ParentTypeOK
<1>1. CASE Parent /\ UNCHANGED child_vars /\ Track
  <2>1. SharedTypeOK' /\ ControlTypeOK' /\ CounterTypeOK' /\ DataTypeOK'
    BY <1>0, <1>1, SharedKept, ControlKept, CountersKept, DataKept
  <2>2. JobOK' /\ SignalMask'
    BY <1>0, <1>1, JobKept, MaskKept
  <2>3. ChildTypeOK' /\ NoThreads'
    BY <1>0, <1>1 DEF child_vars, ChildTypeOK, NoThreads
  <2>4. HistoryTypeOK'
    BY <1>0, <1>1, HistoryKept
  <2>5. HandshakeInv'
    BY <1>1, ParentHandshake DEF Track
  <2> QED
    BY <2>1, <2>2, <2>3, <2>4, <2>5 DEF IndInv, TypeOK, ParentTypeOK
<1>2. CASE Child /\ UNCHANGED parent_vars /\ Track
  <2>1. SharedTypeOK' /\ ChildTypeOK' /\ NoThreads'
    BY <1>0, <1>2, ChildKeeps
  <2>2. UNCHANGED <<pc, job, k, uid, op, timeout, nodes, intact, cursor, status,
                    id_handling, sock_status, rx_sig, blocked, pending,
                    rx_buffer, tx>>
    BY <1>2 DEF parent_vars
  <2>3. ControlTypeOK' /\ CounterTypeOK' /\ DataTypeOK'
    <3>1. ControlTypeOK'
      BY <1>0, <2>2 DEF ControlTypeOK
    <3>2. CounterTypeOK'
      BY <1>0, <2>2 DEF CounterTypeOK
    <3>3. DataTypeOK'
      BY <1>0, <2>2 DEF DataTypeOK
    <3> QED
      BY <3>1, <3>2, <3>3
  <2>4. JobOK' /\ SignalMask'
    BY <1>0, <2>2 DEF JobOK, SignalMask
  <2>5. HistoryTypeOK'
    BY <1>0, <1>2, HistoryKept
  <2>6. HandshakeInv'
    BY <1>2, ChildHandshake DEF Track
  <2> QED
    BY <2>1, <2>3, <2>4, <2>5, <2>6 DEF IndInv, TypeOK, ParentTypeOK
<1>3. CASE (SigChld \/ SigInt) /\ Track
  <2>1. pc # "exited" /\ pc' = "exited"
    BY <1>3 DEF SigChld, SigInt
  <2>2. UNCHANGED <<job, k, uid, op, timeout, nodes, intact, cursor, status,
                    id_handling, sock_status, rx_sig, blocked, pending,
                    rx_buffer, tx>>
    BY <1>3 DEF SigChld, SigInt
  <2>3. UNCHANGED shared_vars /\ UNCHANGED <<server, thread_vars, conn>>
    BY <1>3 DEF SigChld, SigInt, child_vars, thread_vars
  <2>4. SharedTypeOK' /\ ChildTypeOK' /\ NoThreads'
    <3>1. child_alive' \in BOOLEAN
      BY <1>0, <1>3 DEF SigChld, SigInt, child_vars, ChildTypeOK
    <3> QED
      BY <1>0, <2>3, <3>1 DEF SharedTypeOK, ChildTypeOK, NoThreads, thread_vars
  <2>5. ControlTypeOK' /\ CounterTypeOK' /\ DataTypeOK'
    BY <1>0, <2>1, <2>2 DEF ControlTypeOK, CounterTypeOK, DataTypeOK
  <2>6. JobOK' /\ SignalMask'
    BY <1>0, <2>1, <2>2 DEF JobOK, SignalMask
  <2>7. HistoryTypeOK'
    BY <1>0, <1>3, HistoryKept
  <2>8. HandshakeInv'
    <3>1. ~Accepts /\ ~Writes /\ ~CancelsSnd /\ ~AcksAtEof /\ ~StoresText
      BY <2>1, <2>3 DEF Accepts, Writes, CancelsSnd, AcksAtEof, StoresText, thread_vars
    <3>2. torn' = (torn \/ pc = "wait")
      BY <1>0, <1>3, <2>1, <3>1 DEF Track, TrackHandshake, Afresh, EndsWaiting, HistoryTypeOK
    <3>3. copies' = IF torn' THEN 0 ELSE copies
      BY <1>3, <3>1 DEF Track, TrackHandshake
    <3>4. ~torn /\ pc # "wait" => Quiet'
      BY <1>0, <2>1, <2>3 DEF HandshakeInv, Quiet, thread_vars
    <3> QED
      BY <1>0, <2>1, <3>2, <3>3, <3>4 DEF HandshakeInv
  <2> QED
    BY <2>4, <2>5, <2>6, <2>7, <2>8 DEF IndInv, TypeOK, ParentTypeOK
<1>4. CASE UNCHANGED vars
  <2> USE <1>0, <1>4 DEF vars, parent_vars, child_vars, history_vars
  <2>1. SharedTypeOK' /\ ChildTypeOK' /\ HistoryTypeOK' /\ NoThreads'
    BY DEF SharedTypeOK, ChildTypeOK, HistoryTypeOK, NoThreads
  <2>2. ControlTypeOK' /\ CounterTypeOK' /\ DataTypeOK'
    <3>1. ControlTypeOK'
      BY DEF ControlTypeOK
    <3>2. CounterTypeOK'
      BY DEF CounterTypeOK
    <3>3. DataTypeOK'
      BY DEF DataTypeOK
    <3> QED
      BY <3>1, <3>2, <3>3
  <2>3. JobOK' /\ SignalMask'
    BY DEF JobOK, SignalMask
  <2>4. HandshakeInv'
    BY DEF HandshakeInv, ToSend, Sending, Sent, Quiet
  <2> QED
    BY <2>1, <2>2, <2>3, <2>4 DEF IndInv, TypeOK, ParentTypeOK
<1> QED
  BY <1>1, <1>2, <1>3, <1>4 DEF Next, Over

\* What the invariant says of the hand-over of reports.
LEMMA InvImplies == IndInv => TypeOK /\ SignalMask /\ ExactlyOnce /\ NoRace
<1> SUFFICES ASSUME IndInv
             PROVE  TypeOK /\ SignalMask /\ ExactlyOnce /\ NoRace
  OBVIOUS
<1>1. TypeOK /\ SignalMask /\ HandshakeInv
  BY DEF IndInv
<1>2. ExactlyOnce
  BY <1>1 DEF ExactlyOnce, Acked, HandshakeInv, ToSend, Sending, Sent
<1>3. NoRace
  BY <1>1 DEF NoRace, HandshakeInv, Quiet
<1> QED
  BY <1>1, <1>2, <1>3

LEMMA InvAlways == Spec => []IndInv
  BY InitInv, StepInv, PTL DEF Spec

(***************************************************************************)
(* Type correctness.  That report texts and transmitted packets stay in    *)
(* their types rests on k naming a slot of newLoRa in every loop that      *)
(* reports or transmits, whatever remove_device and the heap do between.   *)
(***************************************************************************)
THEOREM TypeCorrect == Spec => []TypeOK
  BY InvAlways, InvImplies, PTL

(***************************************************************************)
(* get_data_from_node leaves SIGUSR1 blocked on no path, and no path       *)
(* outside it runs with the signal blocked.                                *)
(***************************************************************************)
THEOREM MaskCorrect == Spec => []SignalMask
  BY InvAlways, InvImplies, PTL

(***************************************************************************)
(* The hand-over: between sessions that end cleanly every report is        *)
(* written to the client once before the parent goes on.                   *)
(***************************************************************************)
THEOREM HandoverExactlyOnce == Spec => []ExactlyOnce
  BY InvAlways, InvImplies, PTL

(***************************************************************************)
(* ... and data_to_send and ready_flag are the sender's alone while it     *)
(* uses them.                                                              *)
(***************************************************************************)
THEOREM HandoverNoRace == Spec => []NoRace
  BY InvAlways, InvImplies, PTL
-----------------------------------------------------------------------------
(* The two processes implement Handshake: the invariant says in which      *)
(* phase each step of either process can be taken.                         *)

AtReport == {"signal", "kill", "wait"}

-----------------------------------------------------------------------------
(* Which step of Handshake a change of the mapped variables amounts to. *)

Implemented == [Handover!HandshakeNext]_(Handover!handshake_vars)

LEMMA Stays ==
  ASSUME Phase' = Phase,
         Phase = "stored" => UNCHANGED data_to_send,
         Phase # "void" => UNCHANGED copies
  PROVE  Implemented
BY DEF Implemented, Handover!handshake_vars

LEMMA Tears ==
  ASSUME torn' \/ pc' = "exited"
  PROVE  Implemented
<1>1. Phase' = "void"
  BY DEF Phase
<1>2. CASE Phase = "void"
  BY <1>1, <1>2, Stays
<1>3. CASE Phase # "void"
  BY <1>1, <1>3 DEF Implemented, Handover!HandshakeNext, Handover!Tear
<1> QED
  BY <1>2, <1>3

-----------------------------------------------------------------------------
(* Steps of the parent. *)

\* Where the parent can go, and that data_to_send is rewritten in two places.
LEMMA ParentMoves ==
  ASSUME ControlTypeOK, Parent
  PROVE  \/ pc = "put" /\ pc' = "signal"
         \/ pc = "lput" /\ pc' = "kill"
         \/ /\ UNCHANGED data_to_send
            /\ \/ pc \in {"signal", "kill"} /\ pc' = "wait"
               \/ pc = "wait" /\ ack = 1 /\ pc' \notin AtReport
               \/ pc \notin AtReport /\ pc' \notin AtReport
               \/ UNCHANGED pc
<1> USE DEF AtReport, Goto, NextIteration, Acked
<1>1. CASE PollNode \/ PollFault \/ SkipPoll \/ LeaveScan \/ NoSignal
  BY <1>1 DEF PollNode, PollFault, SkipPoll, LeaveScan, NoSignal
<1>2. CASE TakeReading \/ TakeOther \/ FinishFrame \/ FrameArrives \/ HeapReuse
  BY <1>2 DEF TakeReading, TakeOther, FinishFrame, FrameArrives, HeapReuse
<1>3. CASE NoCommandYet \/ TakeCommand \/ ClearFlag
  BY <1>3 DEF NoCommandYet, TakeCommand, ClearFlag
<1>4. CASE AddDevice \/ RemoveDevice \/ GotSock \/ CtlSock \/ ModeLookup
           \/ ModeTransmit
  BY <1>4 DEF AddDevice, RemoveDevice, GotSock, CtlSock, ModeLookup, ModeTransmit
<1>5. CASE PutReport \/ Signal \/ ListAck0 \/ ListPut \/ ListKill
  BY <1>5 DEF PutReport, Signal, ListAck0, ListPut, ListKill
<1>6. CASE DataSent \/ ReplySent \/ ListSent \/ DumpSent \/ DisconnectSent
  BY <1>6 DEF DataSent, ReplySent, ListSent, DumpSent, DisconnectSent
<1>7. CASE ReportDisconnected \/ EndRound
  BY <1>7 DEF ReportDisconnected, EndRound
<1> QED
  BY <1>1, <1>2, <1>3, <1>4, <1>5, <1>6, <1>7 DEF Parent, ParentStep

LEMMA ParentImplements ==
  ASSUME IndInv, Parent, UNCHANGED child_vars, TrackHandshake
  PROVE  Implemented
<1>1. /\ torn' = torn
      /\ copies' = IF torn \/ StoresText THEN 0 ELSE copies
  BY ParentTracked, ParentGoesOn DEF IndInv, TypeOK
<1>2. /\ ControlTypeOK /\ HandshakeInv
      /\ data_to_send' \in Texts
  BY SharedKept DEF IndInv, TypeOK, ParentTypeOK, SharedTypeOK
<1>3. CASE torn' \/ pc' = "exited"
  BY <1>3, Tears
<1>4. CASE ~torn' /\ pc' # "exited"
  <2>1. ~torn /\ (pc # "exited" => Phase # "void")
    BY <1>1, <1>4 DEF Phase
  <2>2. pc # "exited"
    BY <1>4 DEF Parent, ParentStep, PollNode, PollFault, SkipPoll, LeaveScan,
       NoSignal, TakeReading, TakeOther, FinishFrame, FrameArrives, HeapReuse,
       NoCommandYet, TakeCommand, ClearFlag, AddDevice, RemoveDevice, GotSock,
       CtlSock, ModeLookup, ModeTransmit, PutReport, Signal, ListAck0, ListPut,
       ListKill, DataSent, ReplySent, ListSent, DumpSent, DisconnectSent,
       ReportDisconnected, EndRound, Goto, NextIteration, Acked
  <2>3. CASE \/ pc = "put" /\ pc' = "signal"
             \/ pc = "lput" /\ pc' = "kill"
    <3>1. Phase = "idle"
      BY <2>1, <2>3 DEF Phase
    <3>2. copies' = 0
      BY <1>1, <2>3 DEF StoresText
    <3>3. Phase' = "stored"
      BY <1>4, <2>3, <3>2 DEF Phase
    <3> QED
      BY <1>2, <3>1, <3>2, <3>3
         DEF Implemented, Handover!HandshakeNext, Handover!Store
  <2>4. CASE pc \in {"signal", "kill"} /\ pc' = "wait" /\ UNCHANGED data_to_send
    <3>1. copies' = copies
      BY <1>1, <2>1, <2>4 DEF StoresText
    <3>2. Phase' = Phase
      BY <1>1, <1>4, <2>1, <2>4, <3>1 DEF Phase
    <3> QED
      BY <2>4, <3>1, <3>2, Stays
  <2>5. CASE pc = "wait" /\ ack = 1 /\ pc' \notin AtReport
    <3>1. copies = 1
      BY <1>2, <2>1, <2>5 DEF HandshakeInv, ToSend, Sending, Sent
    <3>2. Phase = "stored" /\ Phase' = "idle"
      BY <1>4, <2>1, <2>5 DEF Phase, AtReport
    <3>3. copies' = copies
      BY <1>1, <2>1, <2>5 DEF StoresText
    <3> QED
      BY <3>1, <3>2, <3>3
         DEF Implemented, Handover!HandshakeNext, Handover!GoOn
  <2>6. CASE pc \notin AtReport /\ pc' \notin AtReport
    <3>1. Phase = "idle" /\ Phase' = "idle"
      BY <1>4, <2>1, <2>2, <2>6 DEF Phase, AtReport
    <3>2. copies' = copies
      BY <1>1, <2>1, <2>6 DEF StoresText, AtReport
    <3> QED
      BY <3>1, <3>2, Stays
  <2>7. CASE UNCHANGED pc /\ UNCHANGED data_to_send
    <3>1. copies' = copies
      BY <1>1, <2>1, <2>7 DEF StoresText
    <3>2. Phase' = Phase
      BY <1>1, <2>7, <3>1 DEF Phase
    <3> QED
      BY <2>7, <3>1, <3>2, Stays
  <2> QED
    BY <1>2, <2>3, <2>4, <2>5, <2>6, <2>7, ParentMoves
<1> QED
  BY <1>3, <1>4

-----------------------------------------------------------------------------
(* Steps of the child. *)

\* The child never writes data_to_send, and raises one history flag at a time.
LEMMA ChildLeavesText ==
  ASSUME Child
  PROVE  /\ UNCHANGED data_to_send
         /\ Writes => ~Accepts /\ ~CancelsSnd /\ ~AcksAtEof /\ ~snd_cancelled
<1> USE DEF Writes, Accepts, CancelsSnd, AcksAtEof, thread_vars
<1>1. CASE Accept \/ StartThreads \/ JoinThreads \/ SignalClosed
  BY <1>1 DEF Accept, StartThreads, JoinThreads, SignalClosed
<1>2. CASE SndWake \/ SndWrite \/ SndClear \/ SndNapped \/ SndAck \/ SndDie
  BY <1>2 DEF SndWake, SndWrite, SndClear, SndNapped, SndAck, SndDie
<1>3. CASE \/ \E c \in Commands : RecvCommand(c)
           \/ RecvId \/ RecvSet \/ RecvSignal
  BY <1>3 DEF RecvCommand, RecvId, RecvSet, RecvSignal
<1>4. CASE RecvExit \/ RecvEof \/ RecvAck \/ RecvClose \/ RecvError \/ RecvBroken
  BY <1>4 DEF RecvExit, RecvEof, RecvAck, RecvClose, RecvError, RecvBroken
<1>5. CASE ClientCloses \/ ClientResets
  BY <1>5 DEF ClientCloses, ClientResets
<1> QED
  BY <1>1, <1>2, <1>3, <1>4, <1>5
     DEF Child, MainThread, SendMsg, RecvMsg, Client

LEMMA ChildImplements ==
  ASSUME IndInv, Child, UNCHANGED parent_vars, TrackHandshake
  PROVE  Implemented
<1>1. UNCHANGED pc
  BY DEF parent_vars
<1>2. UNCHANGED data_to_send
  BY ChildLeavesText
<1>3. HandshakeInv /\ torn \in BOOLEAN /\ copies \in 0 .. 2 /\ HistoryTypeOK
  BY DEF IndInv, TypeOK, HistoryTypeOK
<1>4. ~StoresText
  BY <1>1 DEF StoresText
<1>5. CASE torn' \/ pc = "exited"
  BY <1>1, <1>5, Tears
<1>6. CASE torn /\ ~torn' /\ pc # "exited"
  <2>1. Afresh
    BY <1>6 DEF TrackHandshake
  <2>2. pc \notin AtReport
    BY <2>1 DEF Afresh, HandingOver, AtReport
  <2>3. Phase = "void" /\ Phase' = "idle"
    BY <1>1, <1>6, <2>2 DEF Phase, AtReport
  <2>4. ~Writes
    BY <2>1, ChildLeavesText DEF Afresh
  <2>5. copies' = 0
    BY <1>3, <1>4, <1>6, <2>4 DEF TrackHandshake, HandshakeInv
  <2> QED
    BY <2>3, <2>5 DEF Implemented, Handover!HandshakeNext, Handover!Mend
<1>7. CASE ~torn /\ ~torn' /\ pc # "exited"
  <2>1. copies' = IF Writes /\ copies < 2 THEN copies + 1 ELSE copies
    BY <1>4, <1>7 DEF TrackHandshake
  <2>2. Phase' = Phase /\ Phase # "void"
    BY <1>1, <1>7 DEF Phase
  <2>3. CASE ~Writes
    BY <1>2, <2>1, <2>2, <2>3, Stays
  <2>4. CASE Writes
    <3>1. ~snd_cancelled /\ snd = "write"
      BY <2>4, ChildLeavesText DEF Writes
    <3>2. pc = "wait" /\ copies = 0
      BY <1>3, <1>7, <3>1 DEF HandshakeInv, ToSend, Sending, Sent, Quiet
    <3>3. copies' = 1
      BY <2>1, <2>4, <3>2
    <3>4. Phase = "stored"
      BY <1>7, <3>2 DEF Phase
    <3> QED
      BY <1>2, <2>2, <3>2, <3>3, <3>4
         DEF Implemented, Handover!HandshakeNext, Handover!Deliver
  <2> QED
    BY <2>3, <2>4
<1> QED
  BY <1>3, <1>5, <1>6, <1>7

-----------------------------------------------------------------------------
LEMMA InitImplements == Init => Handover!HandshakeInit
BY DEF Init, SharedInit, ParentInit, Phase, Handover!HandshakeInit

LEMMA StepImplements == IndInv /\ [Next]_vars => Implemented
<1> SUFFICES ASSUME IndInv, [Next]_vars
             PROVE  Implemented
  OBVIOUS
<1>1. CASE Parent /\ UNCHANGED child_vars /\ Track
  BY <1>1, ParentImplements DEF Track
<1>2. CASE Child /\ UNCHANGED parent_vars /\ Track
  BY <1>2, ChildImplements DEF Track
<1>3. CASE SigChld \/ SigInt
  BY <1>3, Tears DEF SigChld, SigInt
<1>4. CASE UNCHANGED vars
  <2>1. Phase' = Phase /\ UNCHANGED <<data_to_send, copies>>
    BY <1>4 DEF vars, parent_vars, history_vars, Phase
  <2> QED
    BY <2>1, Stays
<1> QED
  BY <1>1, <1>2, <1>3, <1>4 DEF Next, Over

(***************************************************************************)
(* The parent, the child, the signals and the shared memory implement the  *)
(* abstract hand-over: store, deliver once and unchanged, go on.  Every    *)
(* write() to the client counts as a delivery there.                       *)
(***************************************************************************)
THEOREM HandoverImplemented == Spec => HandshakeSpec
<1>1. IndInv /\ [Next]_vars => [Handover!HandshakeNext]_(Handover!handshake_vars)
  BY StepImplements DEF Implemented
<1> QED
  BY <1>1, InitImplements, InvAlways, PTL DEF Spec, HandshakeSpec, Handover!Spec

=============================================================================
