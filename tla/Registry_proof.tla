--------------------------- MODULE Registry_proof ---------------------------
(***************************************************************************)
(* The registry of devices, newLoRa: what add_device, remove_device and    *)
(* the heap can do to it; the rounds of polling over it: which node is     *)
(* asked, and which is reported silent; and the commands that change it,   *)
(* from the mailbox to the reply.  For every value of the constants.       *)
(***************************************************************************)
EXTENDS GatewaySystem_proof

USE DEF job_vars, registry_vars, round_vars, rx_vars, radio_vars, loop_vars,
        mailbox_vars, report_vars, shared_vars

-----------------------------------------------------------------------------
(* Which steps change the registry. *)

LEMMA RegistryMoves ==
  ASSUME Parent
  PROVE  AddDevice \/ RemoveDevice \/ HeapReuse \/ UNCHANGED nodes
<1> USE DEF NextIteration
<1>1. CASE PollNode \/ PollFault \/ SkipPoll \/ LeaveScan \/ NoSignal
  BY <1>1 DEF PollNode, PollFault, SkipPoll, LeaveScan, NoSignal
<1>2. CASE TakeReading \/ TakeOther \/ FinishFrame \/ FrameArrives
  BY <1>2 DEF TakeReading, TakeOther, FinishFrame, FrameArrives
<1>3. CASE NoCommandYet \/ TakeCommand \/ ClearFlag
  BY <1>3 DEF NoCommandYet, TakeCommand, ClearFlag
<1>4. CASE GotSock \/ CtlSock \/ ModeLookup \/ ModeTransmit
  BY <1>4 DEF GotSock, CtlSock, ModeLookup, ModeTransmit
<1>5. CASE PutReport \/ Signal \/ ListAck0 \/ ListPut \/ ListKill
  BY <1>5 DEF PutReport, Signal, ListAck0, ListPut, ListKill
<1>6. CASE DataSent \/ ReplySent \/ ListSent \/ DumpSent \/ DisconnectSent
  BY <1>6 DEF DataSent, ReplySent, ListSent, DumpSent, DisconnectSent, Acked
<1>7. CASE ReportDisconnected \/ EndRound
  BY <1>7 DEF ReportDisconnected, EndRound
<1> QED
  BY <1>1, <1>2, <1>3, <1>4, <1>5, <1>6, <1>7 DEF Parent, ParentStep

LEMMA RegistrySteps ==
  ASSUME [Next]_vars
  PROVE  AddDevice \/ RemoveDevice \/ HeapReuse \/ UNCHANGED nodes
<1>1. CASE Parent
  BY <1>1, RegistryMoves
<1>2. CASE Child /\ UNCHANGED parent_vars
  BY <1>2 DEF parent_vars
<1>3. CASE SigChld \/ SigInt
  BY <1>3 DEF SigChld, SigInt
<1>4. CASE UNCHANGED vars
  BY <1>4 DEF vars, parent_vars
<1> QED
  BY <1>1, <1>2, <1>3, <1>4 DEF Next, Over

-----------------------------------------------------------------------------
(* What they do to it. *)

LEMMA Appended ==
  ASSUME NEW S, NEW s \in Seq(S), NEW e \in S
  PROVE  /\ DOMAIN Append(s, e) = 1 .. Len(s) + 1
         /\ \A i \in 1 .. Len(s) : Append(s, e)[i] = s[i]
         /\ Append(s, e)[Len(s) + 1] = e
  BY AppendProperties, LenProperties

LEMMA ShiftedSlots ==
  ASSUME NEW S, NEW s \in Seq(S), NEW i \in DOMAIN s
  PROVE  /\ DOMAIN Shifted(s, i) = 1 .. Len(s) - 1
         /\ \A j \in 1 .. Len(s) - 1 : Shifted(s, i)[j] = IF j < i THEN s[j] ELSE s[j + 1]
  BY DEF Shifted

\* Every slot but i is still there, one place further down if it came after i.
LEMMA ShiftedKeeps ==
  ASSUME NEW S, NEW s \in Seq(S), NEW i \in DOMAIN s, NEW j \in DOMAIN s, j # i
  PROVE  \E m \in DOMAIN Shifted(s, i) : Shifted(s, i)[m] = s[j]
<1>1. DOMAIN s = 1 .. Len(s) /\ Len(s) \in Nat
  BY LenProperties
<1>2. CASE j < i
  <2>1. j \in 1 .. Len(s) - 1
    BY <1>1, <1>2
  <2> QED
    BY <1>2, <2>1, ShiftedSlots
<1>3. CASE j > i
  <2>1. j - 1 \in 1 .. Len(s) - 1 /\ ~(j - 1 < i) /\ (j - 1) + 1 = j
    BY <1>1, <1>3
  <2> QED
    BY <2>1, ShiftedSlots
<1> QED
  BY <1>1, <1>2, <1>3

Distinct(s) == \A i, j \in DOMAIN s : s[i] = s[j] /\ s[i] # Junk => i = j

LEMMA ShiftedDistinct ==
  ASSUME NEW S, NEW s \in Seq(S), NEW i \in DOMAIN s, Distinct(s)
  PROVE  Distinct(Shifted(s, i))
<1> DEFINE t == Shifted(s, i)
           From(j) == IF j < i THEN j ELSE j + 1
<1>1. DOMAIN s = 1 .. Len(s) /\ Len(s) \in Nat
  BY LenProperties
<1>2. DOMAIN t = 1 .. Len(s) - 1
  BY ShiftedSlots
<1>3. ASSUME NEW j \in DOMAIN t
      PROVE  From(j) \in DOMAIN s /\ t[j] = s[From(j)]
  BY <1>1, <1>2, <1>3, ShiftedSlots
<1>4. ASSUME NEW j \in DOMAIN t, NEW m \in DOMAIN t, From(j) = From(m)
      PROVE  j = m
  BY <1>1, <1>2, <1>4
<1> HIDE DEF t, From
<1>5. ASSUME NEW j \in DOMAIN t, NEW m \in DOMAIN t, t[j] = t[m], t[j] # Junk
      PROVE  j = m
  <2>1. From(j) = From(m)
    BY <1>3, <1>5 DEF Distinct
  <2> QED
    BY <1>4, <2>1
<1> QED
  BY <1>5 DEF Distinct, t

-----------------------------------------------------------------------------

LEMMA UniqueStep ==
  ASSUME TypeOK, RegistryUnique, [Next]_vars
  PROVE  RegistryUnique'
<1>1. nodes \in Seq(AllIds) /\ id_to_handler \in AllIds
  BY DEF TypeOK, ParentTypeOK, DataTypeOK, SharedTypeOK
<1>2. Distinct(nodes) /\ (RegistryUnique' <=> Distinct(nodes'))
  BY DEF RegistryUnique, Distinct
<1>3. DOMAIN nodes = 1 .. Len(nodes) /\ Len(nodes) \in Nat
  BY <1>1, LenProperties
<1>4. CASE AddDevice
  <2>1. CASE Registered(id_to_handler)
    BY <1>2, <1>4, <2>1 DEF AddDevice
  <2>2. CASE ~Registered(id_to_handler)
    <3>1. nodes' = Append(nodes, id_to_handler)
      BY <1>4, <2>2 DEF AddDevice
    <3>2. \A i \in DOMAIN nodes : nodes[i] # id_to_handler
      BY <2>2 DEF Registered
    <3>3. /\ DOMAIN nodes' = 1 .. Len(nodes) + 1
          /\ \A i \in 1 .. Len(nodes) : nodes'[i] = nodes[i]
          /\ nodes'[Len(nodes) + 1] = id_to_handler
      BY <1>1, <3>1, Appended
    <3>4. Distinct(nodes')
      BY <1>2, <1>3, <3>2, <3>3 DEF Distinct
    <3> QED
      BY <1>2, <3>4
  <2> QED
    BY <2>1, <2>2
<1>5. CASE RemoveDevice
  <2>1. CASE Registered(id_to_handler)
    BY <1>1, <1>2, <1>5, <2>1, FirstSlotFound, ShiftedDistinct DEF RemoveDevice
  <2>2. CASE ~Registered(id_to_handler)
    BY <1>2, <1>5, <2>2 DEF RemoveDevice
  <2> QED
    BY <2>1, <2>2
<1>6. CASE HeapReuse
  <2>1. PICK i \in DOMAIN nodes : nodes' = [nodes EXCEPT ![i] = Junk]
    BY <1>6 DEF HeapReuse
  <2>2. DOMAIN nodes' = DOMAIN nodes /\ \A j \in DOMAIN nodes :
          nodes'[j] = IF j = i THEN Junk ELSE nodes[j]
    BY <1>1, <2>1
  <2> QED
    BY <1>2, <2>2 DEF Distinct
<1>7. CASE UNCHANGED nodes
  BY <1>2, <1>7
<1> QED
  BY <1>4, <1>5, <1>6, <1>7, RegistrySteps

(***************************************************************************)
(* No device is registered twice (main.c:430-437), whatever is added,      *)
(* removed and overwritten, from any list setup_node may have read.        *)
(***************************************************************************)
THEOREM NeverTwice == Spec => []RegistryUnique
<1>1. Init => RegistryUnique
  BY GatewayAssumption DEF Init, ParentInit, RegistryUnique, IsInjective
<1>2. IndInv /\ RegistryUnique /\ [Next]_vars => RegistryUnique'
  BY UniqueStep, InvImplies
<1> QED
  BY <1>1, <1>2, InvAlways, PTL DEF Spec

LEMMA KeptStep ==
  ASSUME TypeOK, [Next]_vars, NEW id \in Ids, Registered(id), ~Registered(id)'
  PROVE  \/ op = REMOVE_DEVICE /\ pc = "exec" /\ id_to_handler = id
         \/ FirstSlot(id) > intact
<1>1. nodes \in Seq(AllIds) /\ id_to_handler \in AllIds
  BY DEF TypeOK, ParentTypeOK, DataTypeOK, SharedTypeOK
<1>2. PICK j \in DOMAIN nodes : nodes[j] = id
  BY DEF Registered
<1>3. DOMAIN nodes = 1 .. Len(nodes) /\ Len(nodes) \in Nat
  BY <1>1, LenProperties
<1>4. \A m \in DOMAIN nodes' : nodes'[m] # id
  BY DEF Registered
<1>5. CASE AddDevice
  <2>1. nodes' = Append(nodes, id_to_handler) \/ nodes' = nodes
    BY <1>5 DEF AddDevice
  <2>2. j \in DOMAIN nodes' /\ nodes'[j] = nodes[j]
    BY <1>1, <1>3, <2>1, Appended
  <2> QED
    BY <1>2, <1>4, <2>2
<1>6. CASE RemoveDevice
  <2>1. pc = "exec" /\ op = REMOVE_DEVICE
    BY <1>6 DEF RemoveDevice, Goto
  <2>2. CASE id_to_handler = id
    BY <2>1, <2>2
  <2>3. CASE id_to_handler # id
    <3>1. Registered(id_to_handler)
          /\ nodes' = Shifted(nodes, FirstSlot(id_to_handler))
      BY <1>2, <1>4, <1>6 DEF RemoveDevice
    <3>2. FirstSlot(id_to_handler) \in DOMAIN nodes /\ FirstSlot(id_to_handler) # j
      BY <1>1, <1>2, <2>3, <3>1, FirstSlotFound
    <3>3. \E m \in DOMAIN nodes' : nodes'[m] = nodes[j]
      BY <1>1, <3>1, <3>2, ShiftedKeeps
    <3> QED
      BY <1>2, <1>4, <3>3
  <2> QED
    BY <2>2, <2>3
<1>7. CASE HeapReuse
  <2>1. PICK i \in DOMAIN nodes : i > intact /\ nodes' = [nodes EXCEPT ![i] = Junk]
    BY <1>7 DEF HeapReuse
  <2>2. DOMAIN nodes' = DOMAIN nodes
        /\ \A m \in DOMAIN nodes : m # i => nodes'[m] = nodes[m]
    BY <1>1, <2>1
  <2>3. FirstSlot(id) \in DOMAIN nodes /\ nodes[FirstSlot(id)] = id
    BY <1>1, FirstSlotFound
  <2>4. FirstSlot(id) = i
    BY <1>4, <2>2, <2>3
  <2> QED
    BY <2>1, <2>4
<1>8. CASE UNCHANGED nodes
  BY <1>2, <1>4, <1>8
<1> QED
  BY <1>5, <1>6, <1>7, <1>8, RegistrySteps

(***************************************************************************)
(* remove_device shifts the slots after the removed one so that no other   *)
(* device goes with it (main.c:456-460), unless its slot was already       *)
(* outside the block an earlier removal has left.                          *)
(***************************************************************************)
THEOREM NoOtherRemoved == Spec => DevicesKept
<1>1. TypeOK /\ [Next]_vars =>
        \A id \in Ids : Registered(id) /\ ~Registered(id)' =>
          \/ op = REMOVE_DEVICE /\ pc = "exec" /\ id_to_handler = id
          \/ FirstSlot(id) > intact
  BY KeptStep
<1> QED
  BY <1>1, TypeCorrect, PTL DEF Spec, DevicesKept

-----------------------------------------------------------------------------
(* Rounds of polling. *)

\* Only a removal can leave the cursor outside the list.
CursorOK == ~shrunk => cursor = 0 \/ cursor < Len(nodes)

\* A reading of the node polled has been taken, or its hand-over is under way.
AnswerOK ==
  /\ round = "answered" => status = "HANDLED" \/ (job = "data" /\ uid = id_handling)
  /\ job = "disc" => status # "HANDLED"
  /\ tx.pkt_type = REQUEST_DATA => tx.destination_id = id_handling

\* What a round is about: the steps that change it, and that no other does.
LEMMA RoundMoves ==
  ASSUME Parent, JobOK, SignalMask
  PROVE  \/ PollNode
         \/ TakeReading \/ DataSent \/ ReportDisconnected \/ ModeTransmit
         \/ /\ UNCHANGED <<cursor, status, id_handling, tx>>
            /\ job' = "disc" => job = "disc"
            /\ job = "data" => job' = "data" /\ UNCHANGED uid
            /\ pc = "top" /\ pc' = "scan" => nodes = <<>>
            /\ ~blocked /\ blocked' => ~IsReading(rx_buffer)
<1> USE DEF Goto, NextIteration, Acked, JobOK
<1>1. CASE PollFault \/ SkipPoll \/ LeaveScan \/ NoSignal
  BY <1>1 DEF PollFault, SkipPoll, LeaveScan, NoSignal
<1>2. CASE TakeOther \/ FinishFrame \/ FrameArrives \/ HeapReuse
  BY <1>2 DEF TakeOther, FinishFrame, FrameArrives, HeapReuse
<1>3. CASE NoCommandYet \/ TakeCommand \/ ClearFlag
  BY <1>3 DEF NoCommandYet, TakeCommand, ClearFlag
<1>4. CASE AddDevice \/ RemoveDevice \/ GotSock \/ CtlSock \/ ModeLookup
  BY <1>4 DEF AddDevice, RemoveDevice, GotSock, CtlSock, ModeLookup
<1>5. CASE PutReport \/ Signal \/ ListAck0 \/ ListPut \/ ListKill
  BY <1>5 DEF PutReport, Signal, ListAck0, ListPut, ListKill
<1>6. CASE ReplySent \/ ListSent \/ DumpSent \/ DisconnectSent
  BY <1>6 DEF ReplySent, ListSent, DumpSent, DisconnectSent
<1>7. CASE EndRound
  BY <1>7 DEF EndRound
<1> QED
  BY <1>1, <1>2, <1>3, <1>4, <1>5, <1>6, <1>7 DEF Parent, ParentStep

LEMMA OtherRoundMoves ==
  ASSUME \/ Child /\ UNCHANGED parent_vars
         \/ SigChld \/ SigInt
         \/ UNCHANGED vars
  PROVE  /\ UNCHANGED <<cursor, status, id_handling, tx, job, uid, nodes, blocked>>
         /\ ~(pc = "top" /\ pc' = "scan")
<1>1. CASE Child /\ UNCHANGED parent_vars
  BY <1>1 DEF parent_vars
<1>2. CASE SigChld \/ SigInt
  BY <1>2 DEF SigChld, SigInt
<1>3. CASE UNCHANGED vars
  BY <1>3 DEF vars, parent_vars
<1> QED
  BY <1>1, <1>2, <1>3

LEMMA TrackedRound ==
  ASSUME [Next]_vars
  PROVE  /\ round' = "answered" =>
              \/ round = "answered" /\ ~(pc = "top" /\ pc' = "scan")
              \/ ~blocked /\ blocked' /\ IsReading(rx_buffer) /\ rx_buffer.uid = id_handling
         /\ ~shrunk' => ~shrunk /\ ~(Len(nodes') < Len(nodes))
<1>1. CASE TrackRound
  <2>1. shrunk' = (shrunk \/ Len(nodes') < Len(nodes))
    BY <1>1 DEF TrackRound
  <2>2. ~shrunk' => ~shrunk /\ ~(Len(nodes') < Len(nodes))
    BY <2>1, Zenon
  <2> DEFINE Answers == /\ ~blocked /\ blocked'
                        /\ IsReading(rx_buffer) /\ rx_buffer.uid = id_handling
             Polls == pc = "top" /\ pc' = "scan"
  <2>3. round' = CASE Polls   -> IF nodes = <<>> THEN "unpolled" ELSE "polled"
                   [] Answers -> "answered"
                   [] OTHER   -> round
    BY <1>1 DEF TrackRound
  <2> HIDE DEF Answers, Polls
  <2>4. round' = "answered" => (round = "answered" /\ ~Polls) \/ Answers
    BY <2>3
  <2> QED
    BY <2>2, <2>4 DEF Answers, Polls
<1>2. CASE UNCHANGED vars
  <2>1. UNCHANGED <<round, shrunk, nodes, pc>>
    BY <1>2 DEF vars, history_vars, parent_vars
  <2> QED
    BY <2>1
<1> QED
  BY <1>1, <1>2 DEF Next, Over, Track

LEMMA CursorStep ==
  ASSUME IndInv, CursorOK, [Next]_vars
  PROVE  CursorOK'
<1> SUFFICES ASSUME ~shrunk'
             PROVE  cursor' = 0 \/ cursor' < Len(nodes')
  BY DEF CursorOK
<1>1. ~shrunk /\ ~(Len(nodes') < Len(nodes))
  BY TrackedRound
<1>2. Len(nodes) \in Nat /\ Len(nodes') \in Nat /\ cursor \in Nat
  BY StepInv, LenProperties DEF IndInv, TypeOK, ParentTypeOK, DataTypeOK, CounterTypeOK
<1>3. CASE PollNode
  <2>1. nodes # <<>> /\ Len(nodes') = Len(nodes)
    BY <1>3 DEF PollNode
  <2>2. Len(nodes) > 0
    BY <1>2, <2>1, EmptySeq DEF IndInv, TypeOK, ParentTypeOK, DataTypeOK
  <2> QED
    BY <1>1, <1>2, <1>3, <2>1, <2>2 DEF PollNode, CursorOK
<1>4. CASE UNCHANGED cursor
  BY <1>1, <1>2, <1>4 DEF CursorOK
<1>5. PollNode \/ UNCHANGED cursor
  <2>1. CASE Parent
    BY <2>1, RoundMoves DEF IndInv, TakeReading, DataSent, ReportDisconnected, ModeTransmit
  <2> QED
    BY <2>1, OtherRoundMoves DEF Next, Over
<1> QED
  BY <1>3, <1>4, <1>5

(***************************************************************************)
(* A poll names a registered node (main.c:218-231): the cursor is moved    *)
(* and wrapped so that additions at any moment leave it inside the list.   *)
(***************************************************************************)
THEOREM PollsListed == Spec => PollsRegistered
<1>1. Init => CursorOK
  BY DEF Init, ParentInit, CursorOK
<1>2. IndInv /\ CursorOK /\ [Next]_vars =>
        (pc = "top" /\ pc' = "scan" /\ nodes # <<>> /\ ~shrunk
           => tx'.destination_id \in Range(nodes))
  <2> SUFFICES ASSUME IndInv, CursorOK, [Next]_vars, pc = "top", pc' = "scan", nodes # <<>>,
                      ~shrunk
               PROVE  tx'.destination_id \in Range(nodes)
    OBVIOUS
  <2>1. Parent
    BY OtherRoundMoves DEF Next, Over
  <2>2. PollNode
    BY <2>1, RoundMoves DEF IndInv, TakeReading, DataSent, ReportDisconnected, ModeTransmit,
                            NextIteration, Acked, Goto
  <2>3. nodes \in Seq(AllIds) /\ Len(nodes) \in Nat /\ cursor \in Nat
        /\ DOMAIN nodes = 1 .. Len(nodes)
    BY LenProperties DEF IndInv, TypeOK, ParentTypeOK, DataTypeOK, CounterTypeOK
  <2>4. Len(nodes) > 0
    BY <2>3, EmptySeq
  <2>5. cursor < Len(nodes) /\ cursor + 1 \in DOMAIN nodes
    BY <2>3, <2>4 DEF CursorOK
  <2>6. tx'.destination_id = nodes[cursor + 1]
    BY <2>2, <2>5 DEF PollNode
  <2> QED
    BY <2>5, <2>6 DEF Range
<1> QED
  BY <1>1, <1>2, CursorStep, InvAlways, PTL DEF Spec, PollsRegistered

LEMMA AnswerStep ==
  ASSUME IndInv, AnswerOK, [Next]_vars
  PROVE  AnswerOK'
<1> USE DEF AnswerOK
<1>1. CASE Parent
  <2> USE TrackedRound DEF Goto, NextIteration, Acked, JobOK, Answered
  <2>1. JobOK /\ SignalMask /\ tx \in Packet
    BY DEF IndInv, TypeOK, ParentTypeOK, DataTypeOK
  <2>2. CASE PollNode
    <3>1. tx'.destination_id = id_handling' /\ status' = "NOT_DONE" /\ job' = job
      BY <2>2 DEF PollNode
    <3>2. job = "none" /\ UNCHANGED blocked
      BY <2>1, <2>2 DEF PollNode
    <3>3. round' # "answered"
      BY <2>2, <3>2 DEF PollNode
    <3> QED
      BY <3>1, <3>2, <3>3
  <2>3. CASE TakeReading
    <3>1. job = "none" /\ round # "answered" /\ UNCHANGED <<tx, id_handling>>
      BY <2>1, <2>3 DEF TakeReading
    <3> QED
      BY <2>3, <3>1 DEF TakeReading
  <2>4. CASE DataSent
    BY <2>1, <2>4 DEF DataSent, SignalMask
  <2>5. CASE ReportDisconnected
    BY <2>1, <2>5 DEF ReportDisconnected, SignalMask
  <2>6. CASE ModeTransmit
    <3>1. tx'.pkt_type = op /\ op \in {MODE_MANUAL, MODE_AUTO} /\ UNCHANGED <<job, status, id_handling, uid>>
      BY <2>1, <2>6 DEF ModeTransmit
    <3>2. tx'.pkt_type # REQUEST_DATA
      BY <3>1 DEF MODE_MANUAL, MODE_AUTO, REQUEST_DATA
    <3>3. UNCHANGED blocked
      BY <2>6 DEF ModeTransmit
    <3> QED
      BY <3>1, <3>2, <3>3
  <2>7. CASE /\ UNCHANGED <<cursor, status, id_handling, tx>>
             /\ job' = "disc" => job = "disc"
             /\ job = "data" => job' = "data" /\ UNCHANGED uid
             /\ pc = "top" /\ pc' = "scan" => nodes = <<>>
             /\ ~blocked /\ blocked' => ~IsReading(rx_buffer)
    BY <2>7
  <2> QED
    BY <1>1, <2>1, <2>2, <2>3, <2>4, <2>5, <2>6, <2>7, RoundMoves
<1>2. CASE ~Parent
  BY <1>2, OtherRoundMoves, TrackedRound DEF Next, Over
<1> QED
  BY <1>1, <1>2

(***************************************************************************)
(* The node called disconnected is the one this round asked, and none of   *)
(* its readings was taken in the round (main.c:339-353), whatever frames   *)
(* and commands came in between and however long their hand-overs took.    *)
(***************************************************************************)
THEOREM SilentDisconnected == Spec => []DisconnectJustified
<1>1. Init => AnswerOK
  <2> SUFFICES ASSUME Init PROVE AnswerOK
    OBVIOUS
  <2>1. round = "unpolled"
    BY DEF Init
  <2>2. job = "none" /\ tx.pkt_type = ""
    BY DEF Init, ParentInit, NoPacket
  <2> QED
    BY <2>1, <2>2 DEF AnswerOK, REQUEST_DATA
<1>2. IndInv /\ AnswerOK => DisconnectJustified
  BY DEF IndInv, TypeOK, HistoryTypeOK, AnswerOK, DisconnectJustified
<1> QED
  BY <1>1, <1>2, AnswerStep, InvAlways, PTL DEF Spec
-----------------------------------------------------------------------------
(***************************************************************************)
(* Commands on their way through the mailbox: what the parent executes,    *)
(* what the client is told of it, and what it knows of the registry then,  *)
(* as long as no command is posted before the one before it is done.       *)
(***************************************************************************)

\* The mailbox holds what a line said.
Stored(line) ==
  /\ request = line.op /\ id_to_handler = line.id
  /\ line.op = MODE_MANUAL => user_set = line.set

ParentMail == Executing => socket_flag = 1 /\ op = request

PostedMail ==
  /\ posted # NoCommand => socket_flag = 1 /\ Stored(posted)
  /\ socket_flag = 1 /\ posted = NoCommand => request \in {GOT_SOCK, CTL_SOCK}

\* What recv_msg has stored so far of the line it is at, and the main thread.
ChildMail ==
  /\ recv_t \in {"id", "set", "kill"} =>
       socket_flag = 0 /\ cmd \in Commands /\ request = cmd.op
  /\ recv_t \in {"set", "kill"} => id_to_handler = cmd.id
  /\ recv_t = "kill" /\ cmd.op = MODE_MANUAL => user_set = cmd.set
  /\ server = "connected" => socket_flag = 0 /\ request = GOT_SOCK
  /\ server = "closing" => socket_flag = 0 /\ request = CTL_SOCK

MailInv ==
  /\ overrun => posted = NoCommand
  /\ ~overrun => ParentMail /\ PostedMail /\ ChildMail

-----------------------------------------------------------------------------
(* The history variables. *)

LEMMA NoRequestStored ==
  ASSUME TrackCommands, ~StoresRequest
  PROVE  overrun' = overrun
BY DEF TrackCommands, StoresRequest, Accepts

LEMMA StoredIdle ==
  ASSUME TrackCommands, StoresRequest, ~overrun'
  PROVE  ~Executing /\ socket_flag # 1 /\ (overrun => Accepts)
BY DEF TrackCommands, Busy, Executing

LEMMA PostedIs ==
  ASSUME TrackCommands
  PROVE  /\ overrun' => posted' = NoCommand
         /\ ~overrun' /\ recv_t = "kill" /\ recv_t' = "read"
              /\ ~(pc = "clear" /\ pc' = "scan") => posted' = cmd
         /\ ~overrun' /\ ~(recv_t = "kill" /\ recv_t' = "read") =>
              posted' = IF pc = "clear" /\ pc' = "scan" THEN NoCommand ELSE posted
BY DEF TrackCommands

LEMMA CommandIsPosted ==
  ASSUME cmd \in Commands
  PROVE  cmd # NoCommand /\ cmd.op \in UserRequests
<1>1. cmd \in [op : UserRequests, id : Ids, set : Schedules \cup {NoSchedule}]
  BY CommandAssumption DEF Command
<1>2. cmd.op \in UserRequests
  BY <1>1
<1>3. NoCommand.op = ""
  BY DEF NoCommand
<1>4. "" \notin UserRequests
  BY DEF UserRequests, ADD_DEVICE, REMOVE_DEVICE, MODE_MANUAL, MODE_AUTO
<1> QED
  BY <1>2, <1>3, <1>4

-----------------------------------------------------------------------------
(* Steps of the parent. *)

LEMMA ParentMailMoves ==
  ASSUME Parent, JobOK
  PROVE  \/ ClearFlag
         \/ TakeCommand
         \/ /\ UNCHANGED mailbox_vars
            /\ Executing' => Executing /\ op' = op
            /\ ~(pc = "clear" /\ pc' = "scan")
<1> USE DEF Goto, NextIteration, Acked, JobOK, Executing
<1>1. CASE PollNode \/ PollFault \/ SkipPoll \/ LeaveScan \/ NoSignal
  BY <1>1 DEF PollNode, PollFault, SkipPoll, LeaveScan, NoSignal
<1>2. CASE TakeReading \/ TakeOther \/ FinishFrame \/ FrameArrives \/ HeapReuse
  BY <1>2 DEF TakeReading, TakeOther, FinishFrame, FrameArrives, HeapReuse
<1>3. CASE NoCommandYet
  BY <1>3 DEF NoCommandYet
<1>4. CASE AddDevice \/ RemoveDevice
  BY <1>4 DEF AddDevice, RemoveDevice
<1>5. CASE GotSock \/ CtlSock \/ ModeLookup \/ ModeTransmit
  BY <1>5 DEF GotSock, CtlSock, ModeLookup, ModeTransmit
<1>6. CASE PutReport \/ Signal \/ ListAck0 \/ ListPut \/ ListKill
  BY <1>6 DEF PutReport, Signal, ListAck0, ListPut, ListKill
<1>7. CASE DataSent \/ ReplySent \/ ListSent \/ DumpSent \/ DisconnectSent
  BY <1>7 DEF DataSent, ReplySent, ListSent, DumpSent, DisconnectSent
<1>8. CASE ReportDisconnected \/ EndRound
  BY <1>8 DEF ReportDisconnected, EndRound
<1> QED
  BY <1>1, <1>2, <1>3, <1>4, <1>5, <1>6, <1>7, <1>8 DEF Parent, ParentStep

LEMMA ParentKeepsMail ==
  ASSUME JobOK, MailInv, Parent, UNCHANGED child_vars, TrackCommands
  PROVE  MailInv'
<1>1. UNCHANGED <<server, recv_t, cmd>>
  BY DEF child_vars
<1>2. ~StoresRequest /\ ~(recv_t = "kill" /\ recv_t' = "read")
  BY <1>1 DEF StoresRequest, Accepts
<1>3. overrun' = overrun
  BY <1>2, NoRequestStored
<1>4. CASE overrun
  BY <1>3, <1>4, PostedIs DEF MailInv
<1>5. CASE ~overrun /\ ClearFlag
  <2>1. pc = "clear" /\ pc' = "scan" /\ socket_flag' = 0 /\ UNCHANGED <<job, request, id_to_handler, user_set>>
    BY <1>5 DEF ClearFlag, Goto
  <2>2. socket_flag = 1 /\ job = "none"
    BY <1>5, <2>1 DEF MailInv, ParentMail, Executing, JobOK
  <2>3. posted' = NoCommand
    BY <1>2, <1>3, <1>5, <2>1, PostedIs
  <2>4. ParentMail'
    BY <2>1, <2>2 DEF ParentMail, Executing
  <2>5. PostedMail'
    BY <2>1, <2>3 DEF PostedMail
  <2>6. ChildMail'
    BY <1>1, <1>5, <2>1 DEF MailInv, ChildMail
  <2> QED
    BY <1>3, <1>5, <2>4, <2>5, <2>6 DEF MailInv
<1>6. CASE ~overrun /\ ~ClearFlag
  <2>1. UNCHANGED mailbox_vars /\ ~(pc = "clear" /\ pc' = "scan")
        /\ (Executing' => socket_flag = 1 /\ op' = request)
    <3>1. CASE TakeCommand
      BY <3>1 DEF TakeCommand, Goto
    <3>2. CASE ~TakeCommand
      BY <1>6, <3>2, ParentMailMoves DEF MailInv, ParentMail
    <3> QED
      BY <3>1, <3>2
  <2>2. posted' = posted
    BY <1>2, <1>3, <1>6, <2>1, PostedIs
  <2>3. ParentMail'
    BY <2>1 DEF ParentMail
  <2>4. PostedMail'
    BY <1>6, <2>1, <2>2 DEF MailInv, PostedMail, Stored
  <2>5. ChildMail'
    BY <1>1, <1>6, <2>1 DEF MailInv, ChildMail
  <2> QED
    BY <1>3, <1>6, <2>3, <2>4, <2>5 DEF MailInv
<1> QED
  BY <1>4, <1>5, <1>6

-----------------------------------------------------------------------------
(* Steps of the child. *)

LEMMA ChildKeepsMail ==
  ASSUME SharedTypeOK, NoThreads, MailInv, Child, UNCHANGED parent_vars, TrackCommands
  PROVE  MailInv'
<1>1. UNCHANGED <<pc, job, op>> /\ (Executing' <=> Executing)
  BY DEF parent_vars, Executing
<1>2. socket_flag \in {0, 1}
  BY DEF SharedTypeOK
<1>3. ~(pc = "clear" /\ pc' = "scan")
  BY <1>1
<1>4. CASE overrun'
  BY <1>4, PostedIs DEF MailInv
<1>5. CASE ~overrun' /\ StoresRequest
  <2>1. ~Executing /\ socket_flag = 0 /\ (overrun => Accepts)
    BY <1>2, <1>5, StoredIdle
  <2>2. posted = NoCommand
    BY <1>5, <2>1 DEF MailInv, PostedMail
  <2>3. CASE Accept
    <3>1. /\ server = "accept" /\ server' = "connected" /\ request' = GOT_SOCK
          /\ UNCHANGED <<recv_t, socket_flag>>
      BY <2>3 DEF Accept, thread_vars
    <3>2. recv_t = "dead"
      BY <3>1 DEF NoThreads
    <3>3. posted' = NoCommand
      BY <1>3, <1>5, <2>2, <3>1, <3>2, PostedIs
    <3> QED
      BY <1>1, <1>5, <2>1, <3>1, <3>2, <3>3 DEF MailInv, ParentMail, PostedMail, ChildMail
  <2>4. CASE JoinThreads
    <3>1. /\ server = "join" /\ server' = "closing" /\ request' = CTL_SOCK
          /\ recv_t = "dead" /\ UNCHANGED <<recv_t, socket_flag>>
      BY <2>4 DEF JoinThreads, thread_vars
    <3>2. posted' = NoCommand
      BY <1>3, <1>5, <2>2, <3>1, PostedIs
    <3> QED
      BY <1>1, <1>5, <2>1, <3>1, <3>2 DEF MailInv, ParentMail, PostedMail, ChildMail
  <2>5. ASSUME NEW c \in Commands, RecvCommand(c)
        PROVE  MailInv'
    <3>1. /\ recv_t = "read" /\ recv_t' = "id" /\ cmd' = c /\ request' = c.op
          /\ UNCHANGED <<server, socket_flag>>
      BY <2>5 DEF RecvCommand
    <3>2. server = "join"
      BY <3>1 DEF NoThreads
    <3>3. posted' = NoCommand
      BY <1>3, <1>5, <2>2, <3>1, PostedIs
    <3> QED
      BY <1>1, <1>5, <2>1, <2>5, <3>1, <3>2, <3>3
         DEF MailInv, ParentMail, PostedMail, ChildMail
  <2>6. Accept \/ JoinThreads \/ \E c \in Commands : RecvCommand(c)
    <3> USE DEF StoresRequest, Accepts, thread_vars
    <3>1. CASE StartThreads \/ SignalClosed
      BY <1>5, <3>1 DEF StartThreads, SignalClosed
    <3>2. CASE SendMsg
      BY <1>5, <3>2 DEF SendMsg, SndWake, SndWrite, SndClear, SndNapped, SndAck, SndDie
    <3>3. CASE \/ RecvId \/ RecvSet \/ RecvSignal \/ RecvExit \/ RecvEof \/ RecvAck
               \/ RecvClose \/ RecvError \/ RecvBroken
      BY <1>5, <3>3 DEF RecvId, RecvSet, RecvSignal, RecvExit, RecvEof, RecvAck,
                        RecvClose, RecvError, RecvBroken
    <3>4. CASE Client
      BY <1>5, <3>4 DEF Client, ClientCloses, ClientResets
    <3> QED
      BY <3>1, <3>2, <3>3, <3>4 DEF Child, MainThread, RecvMsg
  <2> QED
    BY <2>3, <2>4, <2>5, <2>6
<1>6. CASE ~overrun' /\ ~StoresRequest
  <2>1. ~overrun
    BY <1>6, NoRequestStored
  <2>2. ParentMail /\ PostedMail /\ ChildMail
    BY <2>1 DEF MailInv
  <2>3. ParentMail' /\ PostedMail' /\ ChildMail'
    <3> USE DEF StoresRequest, Accepts, thread_vars
    <3>1. CASE StartThreads
      <4>1. /\ server = "connected" /\ server' = "join" /\ socket_flag' = 1
            /\ recv_t = "dead" /\ recv_t' = "read"
            /\ UNCHANGED <<request, id_to_handler, user_set>>
        BY <3>1 DEF StartThreads, NoThreads
      <4>2. posted' = posted /\ posted = NoCommand /\ ~Executing /\ request = GOT_SOCK
        BY <1>3, <1>6, <2>2, <4>1, PostedIs DEF ParentMail, PostedMail, ChildMail
      <4> QED
        BY <1>1, <4>1, <4>2 DEF ParentMail, PostedMail, ChildMail
    <3>2. CASE SignalClosed
      <4>1. /\ server = "closing" /\ server' = "accept" /\ socket_flag' = 1
            /\ recv_t = "dead" /\ recv_t' = "dead"
            /\ UNCHANGED <<request, id_to_handler, user_set>>
        BY <3>2 DEF SignalClosed, NoThreads
      <4>2. posted' = posted /\ posted = NoCommand /\ ~Executing /\ request = CTL_SOCK
        BY <1>3, <1>6, <2>2, <4>1, PostedIs DEF ParentMail, PostedMail, ChildMail
      <4> QED
        BY <1>1, <4>1, <4>2 DEF ParentMail, PostedMail, ChildMail
    <3>3. CASE RecvId
      <4>1. /\ recv_t = "id" /\ id_to_handler' = cmd.id
            /\ recv_t' = IF cmd.op = MODE_MANUAL THEN "set" ELSE "kill"
            /\ UNCHANGED <<server, cmd, request, user_set, socket_flag>>
        BY <3>3 DEF RecvId
      <4>2. posted' = posted /\ posted = NoCommand /\ socket_flag = 0 /\ ~Executing
        BY <1>3, <1>6, <2>2, <4>1, PostedIs DEF ParentMail, PostedMail, ChildMail
      <4> QED
        BY <1>1, <2>2, <4>1, <4>2 DEF ParentMail, PostedMail, ChildMail
    <3>4. CASE RecvSet
      <4>1. /\ recv_t = "set" /\ recv_t' = "kill" /\ user_set' = cmd.set
            /\ UNCHANGED <<server, cmd, request, id_to_handler, socket_flag>>
        BY <3>4 DEF RecvSet
      <4>2. posted' = posted /\ posted = NoCommand /\ socket_flag = 0 /\ ~Executing
        BY <1>3, <1>6, <2>2, <4>1, PostedIs DEF ParentMail, PostedMail, ChildMail
      <4> QED
        BY <1>1, <2>2, <4>1, <4>2 DEF ParentMail, PostedMail, ChildMail
    <3>5. CASE RecvSignal
      <4>1. /\ recv_t = "kill" /\ recv_t' = "read" /\ socket_flag' = 1
            /\ UNCHANGED <<server, request, id_to_handler, user_set>>
        BY <3>5 DEF RecvSignal
      <4>2. posted' = cmd /\ cmd # NoCommand /\ ~Executing /\ Stored(cmd)
        BY <1>3, <1>6, <2>2, <4>1, PostedIs, CommandIsPosted DEF ParentMail, ChildMail, Stored
      <4>3. server = "join"
        BY <4>1 DEF NoThreads
      <4> QED
        BY <1>1, <4>1, <4>2, <4>3 DEF ParentMail, PostedMail, ChildMail, Stored
    <3>6. CASE /\ UNCHANGED <<request, id_to_handler, user_set, socket_flag, cmd>>
               /\ UNCHANGED server
               /\ \/ UNCHANGED recv_t
                  \/ recv_t \in {"read", "ack", "close"} /\ recv_t' \in {"ack", "close", "dead"}
      <4>1. posted' = posted
        BY <1>3, <1>6, <3>6, PostedIs
      <4> QED
        BY <1>1, <2>2, <3>6, <4>1 DEF ParentMail, PostedMail, ChildMail, Stored
    <3>7. \/ StartThreads \/ SignalClosed \/ RecvId \/ RecvSet \/ RecvSignal
          \/ /\ UNCHANGED <<request, id_to_handler, user_set, socket_flag, cmd>>
             /\ UNCHANGED server
             /\ \/ UNCHANGED recv_t
                \/ recv_t \in {"read", "ack", "close"} /\ recv_t' \in {"ack", "close", "dead"}
      <4>1. CASE Accept \/ JoinThreads \/ \E c \in Commands : RecvCommand(c)
        BY <1>6, <4>1 DEF Accept, JoinThreads, RecvCommand
      <4>2. CASE SendMsg
        BY <4>2 DEF SendMsg, SndWake, SndWrite, SndClear, SndNapped, SndAck, SndDie
      <4>3. CASE \/ RecvExit \/ RecvEof \/ RecvAck \/ RecvClose \/ RecvError \/ RecvBroken
        BY <4>3 DEF RecvExit, RecvEof, RecvAck, RecvClose, RecvError, RecvBroken
      <4>4. CASE Client
        BY <4>4 DEF Client, ClientCloses, ClientResets
      <4> QED
        BY <4>1, <4>2, <4>3, <4>4 DEF Child, MainThread, RecvMsg
    <3> QED
      BY <3>1, <3>2, <3>3, <3>4, <3>5, <3>6, <3>7
  <2> QED
    BY <1>6, <2>3 DEF MailInv
<1> QED
  BY <1>4, <1>5, <1>6

-----------------------------------------------------------------------------
(* Every step. *)

LEMMA ExitKeepsMail ==
  ASSUME MailInv, SigChld \/ SigInt, TrackCommands
  PROVE  MailInv'
<1>1. /\ pc' = "exited"
      /\ UNCHANGED <<job, op, mailbox_vars, server, recv_t, cmd>>
  BY DEF SigChld, SigInt, child_vars, thread_vars
<1>2. overrun' = overrun
  BY <1>1, NoRequestStored DEF StoresRequest, Accepts
<1>3. CASE overrun
  BY <1>2, <1>3, PostedIs DEF MailInv
<1>4. CASE ~overrun
  <2>1. posted' = posted
    BY <1>1, <1>2, <1>4, PostedIs
  <2> QED
    BY <1>1, <1>2, <1>4, <2>1
       DEF MailInv, ParentMail, PostedMail, ChildMail, Stored, Executing
<1> QED
  BY <1>3, <1>4

LEMMA StutterKeepsMail ==
  ASSUME MailInv, UNCHANGED vars
  PROVE  MailInv'
BY DEF MailInv, ParentMail, PostedMail, ChildMail, Stored, Executing, vars, parent_vars,
       child_vars, history_vars, thread_vars

LEMMA StepKeepsMail ==
  ASSUME IndInv, MailInv, [Next]_vars
  PROVE  MailInv'
<1>1. JobOK /\ NoThreads /\ SharedTypeOK
  BY DEF IndInv, TypeOK
<1>2. CASE Parent /\ UNCHANGED child_vars /\ Track
  BY <1>1, <1>2, ParentKeepsMail DEF Track
<1>3. CASE Child /\ UNCHANGED parent_vars /\ Track
  BY <1>1, <1>3, ChildKeepsMail DEF Track
<1>4. CASE (SigChld \/ SigInt) /\ Track
  BY <1>4, ExitKeepsMail DEF Track
<1>5. CASE UNCHANGED vars
  BY <1>5, StutterKeepsMail
<1> QED
  BY <1>2, <1>3, <1>4, <1>5 DEF Next, Over

LEMMA InitMail == Init => MailInv
<1> SUFFICES ASSUME Init PROVE MailInv
  OBVIOUS
<1>1. overrun = FALSE /\ posted = NoCommand
  BY DEF Init
<1>2. socket_flag = 0
  BY DEF Init, SharedInit
<1>3. pc = "top" /\ job = "none"
  BY DEF Init, ParentInit
<1>4. recv_t = "dead" /\ server = "accept"
  BY DEF Init, ChildInit
<1>5. ParentMail
  BY <1>3 DEF ParentMail, Executing
<1>6. PostedMail
  BY <1>1, <1>2 DEF PostedMail
<1>7. ChildMail
  BY <1>4 DEF ChildMail
<1> QED
  BY <1>1, <1>5, <1>6, <1>7 DEF MailInv

LEMMA MailAlways == Spec => []MailInv
  BY InitMail, StepKeepsMail, InvAlways, PTL DEF Spec

\* What is being executed is what was posted.
LEMMA Executed ==
  ASSUME TypeOK, MailInv, ~overrun, Executing, op \in UserRequests
  PROVE  /\ posted \in Command /\ op = posted.op /\ id_to_handler = posted.id
         /\ op = MODE_MANUAL => user_set = posted.set
<1>1. socket_flag = 1 /\ op = request
  BY DEF MailInv, ParentMail
<1>2. request \notin {GOT_SOCK, CTL_SOCK}
  BY <1>1 DEF UserRequests, ADD_DEVICE, REMOVE_DEVICE, MODE_MANUAL, MODE_AUTO, GOT_SOCK,
              CTL_SOCK
<1>3. posted # NoCommand /\ Stored(posted)
  BY <1>1, <1>2 DEF MailInv, PostedMail
<1>4. posted \in Command
  BY <1>3, CommandAssumption DEF TypeOK, HistoryTypeOK
<1> QED
  BY <1>1, <1>3, <1>4 DEF Stored

LEMMA MailImpliesExact == TypeOK /\ MailInv => MailboxExact
<1> SUFFICES ASSUME TypeOK, MailInv, ~overrun, pc \in {"exec", "memcpy"},
                    op \in UserRequests
             PROVE  /\ [posted EXCEPT !.set = NoSchedule]
                          = [op |-> op, id |-> id_to_handler, set |-> NoSchedule]
                    /\ op = MODE_MANUAL => user_set = posted.set
  BY DEF MailboxExact
<1>1. /\ posted \in Command /\ op = posted.op /\ id_to_handler = posted.id
      /\ op = MODE_MANUAL => user_set = posted.set
  BY Executed DEF Executing
<1>2. [posted EXCEPT !.set = NoSchedule]
        = [op |-> posted.op, id |-> posted.id, set |-> NoSchedule]
  BY <1>1 DEF Command
<1> QED
  BY <1>1, <1>2

(***************************************************************************)
(* The parent's separate reads of request, id_to_handler and user_set see  *)
(* one and the same command (main.c:238-335): what recv_msg stores in      *)
(* between belongs to a line that was posted too early.                    *)
(***************************************************************************)
THEOREM ExecutedAsPosted == Spec => []MailboxExact
  BY MailAlways, TypeCorrect, MailImpliesExact, PTL

-----------------------------------------------------------------------------
(* What the client is told of it. *)

\* From the change to newLoRa until the reply about it has been acked.
ReplyInv ==
  ~overrun /\ job = "reply" =>
    /\ SlotsOf(Junk) = {} => (Registered(posted.id) <=> posted.op = ADD_DEVICE)
    /\ pc \in {"signal", "wait"} => data_to_send = Text(posted.op, posted.id)

LEMMA ReplyMoves ==
  ASSUME Parent, JobOK, job' = "reply"
  PROVE  \/ AddDevice /\ pc = "exec" /\ pc' = "put" /\ op = ADD_DEVICE
         \/ RemoveDevice /\ pc = "exec" /\ pc' = "put" /\ op = REMOVE_DEVICE
         \/ /\ job = "reply" /\ pc # "clear"
            /\ \/ HeapReuse /\ UNCHANGED <<pc, data_to_send>>
               \/ PutReport /\ pc' = "signal" /\ UNCHANGED nodes
               \/ /\ UNCHANGED <<nodes, data_to_send>>
                  /\ pc' \in {"signal", "wait"} => pc \in {"signal", "wait"}
<1> USE DEF Goto, NextIteration, Acked, JobOK
<1>1. CASE PollNode \/ PollFault \/ SkipPoll \/ LeaveScan \/ NoSignal
  BY <1>1 DEF PollNode, PollFault, SkipPoll, LeaveScan, NoSignal
<1>2. CASE TakeReading \/ TakeOther \/ FinishFrame
  BY <1>2 DEF TakeReading, TakeOther, FinishFrame
<1>3. CASE NoCommandYet \/ TakeCommand \/ ClearFlag
  BY <1>3 DEF NoCommandYet, TakeCommand, ClearFlag
<1>4. CASE AddDevice \/ RemoveDevice
  BY <1>4 DEF AddDevice, RemoveDevice
<1>5. CASE GotSock \/ CtlSock \/ ModeLookup \/ ModeTransmit
  BY <1>5 DEF GotSock, CtlSock, ModeLookup, ModeTransmit
<1>6. CASE PutReport \/ Signal \/ ListAck0 \/ ListPut \/ ListKill
  BY <1>6 DEF PutReport, Signal, ListAck0, ListPut, ListKill
<1>7. CASE DataSent \/ ReplySent \/ ListSent \/ DumpSent \/ DisconnectSent
  BY <1>7 DEF DataSent, ReplySent, ListSent, DumpSent, DisconnectSent
<1>8. CASE ReportDisconnected \/ EndRound
  BY <1>8 DEF ReportDisconnected, EndRound
<1>9. CASE FrameArrives \/ HeapReuse
  BY <1>9 DEF FrameArrives, HeapReuse
<1> QED
  BY <1>1, <1>2, <1>3, <1>4, <1>5, <1>6, <1>7, <1>8, <1>9 DEF Parent, ParentStep

LEMMA AddDeviceTruthful ==
  ASSUME TypeOK, AddDevice, job' = "reply"
  PROVE  Registered(id_to_handler)'
<1>1. nodes \in Seq(AllIds) /\ id_to_handler \in AllIds
  BY DEF TypeOK, ParentTypeOK, DataTypeOK, SharedTypeOK
<1>2. nodes' = Append(nodes, id_to_handler) /\ id_to_handler' = id_to_handler
  BY DEF AddDevice
<1>3. Len(nodes) + 1 \in DOMAIN nodes' /\ nodes'[Len(nodes) + 1] = id_to_handler
  BY <1>1, <1>2, Appended, LenProperties
<1> QED
  BY <1>2, <1>3 DEF Registered

LEMMA RemoveDeviceTruthful ==
  ASSUME TypeOK, RegistryUnique, id_to_handler # Junk, RemoveDevice, job' = "reply"
  PROVE  ~Registered(id_to_handler)'
<1> DEFINE i == FirstSlot(id_to_handler)
           From(m) == IF m < i THEN m ELSE m + 1
<1>1. nodes \in Seq(AllIds) /\ DOMAIN nodes = 1 .. Len(nodes) /\ Len(nodes) \in Nat
  BY LenProperties DEF TypeOK, ParentTypeOK, DataTypeOK
<1>2. /\ Registered(id_to_handler) /\ nodes' = Shifted(nodes, i)
      /\ id_to_handler' = id_to_handler
  BY DEF RemoveDevice
<1>3. i \in DOMAIN nodes /\ nodes[i] = id_to_handler
  BY <1>1, <1>2, FirstSlotFound
<1> HIDE DEF i
<1>4. ASSUME NEW m \in DOMAIN nodes', nodes'[m] = id_to_handler
      PROVE  FALSE
  <2>1. From(m) \in DOMAIN nodes /\ nodes'[m] = nodes[From(m)]
    BY <1>1, <1>2, <1>3, <1>4, ShiftedSlots
  <2>2. From(m) # i
    BY <1>1, <1>2, <1>3, <1>4, ShiftedSlots
  <2>3. From(m) = i
    BY <1>3, <1>4, <2>1 DEF RegistryUnique
  <2> QED
    BY <2>2, <2>3
<1> QED
  BY <1>2, <1>4 DEF Registered

LEMMA JunkFound ==
  ASSUME TypeOK, HeapReuse
  PROVE  SlotsOf(Junk)' # {}
<1>1. nodes \in Seq(AllIds)
  BY DEF TypeOK, ParentTypeOK, DataTypeOK
<1>2. PICK i \in DOMAIN nodes : nodes' = [nodes EXCEPT ![i] = Junk]
  BY DEF HeapReuse
<1>3. i \in DOMAIN nodes' /\ nodes'[i] = Junk
  BY <1>1, <1>2
<1> QED
  BY <1>3 DEF SlotsOf

LEMMA ParentReplies ==
  ASSUME TypeOK, JobOK, MailInv, RegistryUnique, ReplyInv, Parent, UNCHANGED child_vars,
         TrackCommands
  PROVE  ReplyInv'
<1> SUFFICES ASSUME ~overrun', job' = "reply"
             PROVE  /\ SlotsOf(Junk)' = {} => (Registered(posted.id)' <=> posted.op' = ADD_DEVICE)
                    /\ pc' \in {"signal", "wait"} =>
                         data_to_send' = Text(posted.op, posted.id)'
  BY DEF ReplyInv
<1>1. UNCHANGED <<server, recv_t, cmd>>
  BY DEF child_vars
<1>2. ~StoresRequest /\ ~(recv_t = "kill" /\ recv_t' = "read")
  BY <1>1 DEF StoresRequest, Accepts
<1>3. ~overrun
  BY <1>2, NoRequestStored
<1>4. pc # "clear"
  BY ReplyMoves
<1>5. posted' = posted
  BY <1>2, <1>4, PostedIs
<1>6. CASE pc = "exec" /\ pc' = "put" /\ op \in {ADD_DEVICE, REMOVE_DEVICE}
  <2>1. posted \in Command /\ op = posted.op /\ id_to_handler = posted.id
    BY <1>3, <1>6, Executed DEF Executing, UserRequests
  <2>2. posted.id # Junk
    BY <2>1, IdAssumption DEF Command
  <2>3. CASE AddDevice /\ op = ADD_DEVICE
    <3>1. Registered(id_to_handler)' /\ id_to_handler' = id_to_handler
      BY <2>3, AddDeviceTruthful DEF AddDevice
    <3> QED
      BY <1>5, <1>6, <2>1, <2>3, <3>1
  <2>4. CASE RemoveDevice /\ op = REMOVE_DEVICE
    <3>1. ~Registered(id_to_handler)' /\ id_to_handler' = id_to_handler
      BY <2>1, <2>2, <2>4, RemoveDeviceTruthful DEF RemoveDevice
    <3> QED
      BY <1>5, <1>6, <2>1, <2>4, <3>1 DEF ADD_DEVICE, REMOVE_DEVICE
  <2> QED
    BY <1>6, <2>3, <2>4, ReplyMoves DEF JobOK
<1>7. CASE job = "reply" /\ HeapReuse /\ UNCHANGED <<pc, data_to_send>>
  <2>1. SlotsOf(Junk)' # {}
    BY <1>7, JunkFound
  <2> QED
    BY <1>3, <1>5, <1>7, <2>1 DEF ReplyInv
<1>8. CASE job = "reply" /\ PutReport /\ pc' = "signal" /\ UNCHANGED nodes
  <2>1. op = posted.op /\ id_to_handler = posted.id
    BY <1>3, <1>8, Executed DEF Executing, UserRequests, JobOK
  <2>2. data_to_send' = Text(posted.op, posted.id)
    BY <1>8, <2>1 DEF PutReport, ReportText
  <2> QED
    BY <1>3, <1>5, <1>8, <2>2 DEF ReplyInv, SlotsOf, Registered
<1>9. CASE /\ job = "reply" /\ UNCHANGED <<nodes, data_to_send>>
           /\ pc' \in {"signal", "wait"} => pc \in {"signal", "wait"}
  BY <1>3, <1>5, <1>9 DEF ReplyInv, SlotsOf, Registered
<1> QED
  BY <1>6, <1>7, <1>8, <1>9, ReplyMoves

LEMMA ChildWritesNoReport ==
  ASSUME Child
  PROVE  UNCHANGED data_to_send
<1>1. CASE Accept \/ StartThreads \/ JoinThreads \/ SignalClosed
  BY <1>1 DEF Accept, StartThreads, JoinThreads, SignalClosed
<1>2. CASE SendMsg
  BY <1>2 DEF SendMsg, SndWake, SndWrite, SndClear, SndNapped, SndAck, SndDie
<1>3. CASE \/ \E c \in Commands : RecvCommand(c)
           \/ RecvId \/ RecvSet \/ RecvSignal \/ RecvExit
  BY <1>3 DEF RecvCommand, RecvId, RecvSet, RecvSignal, RecvExit
<1>4. CASE RecvEof \/ RecvAck \/ RecvClose \/ RecvError \/ RecvBroken
  BY <1>4 DEF RecvEof, RecvAck, RecvClose, RecvError, RecvBroken
<1>5. CASE Client
  BY <1>5 DEF Client, ClientCloses, ClientResets
<1> QED
  BY <1>1, <1>2, <1>3, <1>4, <1>5 DEF Child, MainThread, RecvMsg

\* While a reply is on its way the flag is up, and the child posts nothing.
LEMMA ChildReplies ==
  ASSUME SharedTypeOK, MailInv, ReplyInv, Child, UNCHANGED parent_vars, TrackCommands
  PROVE  ReplyInv'
<1>1. UNCHANGED <<pc, job, nodes, data_to_send>>
  BY ChildWritesNoReport DEF parent_vars
<1> SUFFICES ASSUME ~overrun', job = "reply"
             PROVE  ReplyInv'
  BY <1>1 DEF ReplyInv
<1>2. ~StoresRequest
  BY StoredIdle DEF Executing
<1>3. ~overrun /\ socket_flag = 1
  BY <1>2, NoRequestStored DEF MailInv, ParentMail, Executing
<1>4. recv_t # "kill"
  BY <1>3 DEF MailInv, ChildMail
<1>5. posted' = posted
  BY <1>1, <1>4, PostedIs
<1> QED
  BY <1>1, <1>3, <1>5 DEF ReplyInv, SlotsOf, Registered

LEMMA ExitReplies ==
  ASSUME ReplyInv, SigChld \/ SigInt, TrackCommands
  PROVE  ReplyInv'
<1>1. pc' = "exited" /\ UNCHANGED <<job, nodes, server, recv_t>>
  BY DEF SigChld, SigInt, child_vars, thread_vars
<1>2. overrun' = overrun
  BY <1>1, NoRequestStored DEF StoresRequest, Accepts
<1>3. ~overrun' => posted' = posted
  BY <1>1, PostedIs
<1> QED
  BY <1>1, <1>2, <1>3 DEF ReplyInv, SlotsOf, Registered

LEMMA StepReplies ==
  ASSUME IndInv, MailInv, RegistryUnique, ReplyInv, [Next]_vars
  PROVE  ReplyInv'
<1>1. TypeOK /\ JobOK /\ SharedTypeOK
  BY DEF IndInv, TypeOK
<1>2. CASE Parent /\ UNCHANGED child_vars /\ Track
  BY <1>1, <1>2, ParentReplies DEF Track
<1>3. CASE Child /\ UNCHANGED parent_vars /\ Track
  BY <1>1, <1>3, ChildReplies DEF Track
<1>4. CASE (SigChld \/ SigInt) /\ Track
  BY <1>4, ExitReplies DEF Track
<1>5. CASE UNCHANGED vars
  BY <1>5 DEF ReplyInv, SlotsOf, Registered, vars, parent_vars, history_vars
<1> QED
  BY <1>2, <1>3, <1>4, <1>5 DEF Next, Over

(***************************************************************************)
(* The reply to an ADD_DEVICE or REMOVE_DEVICE (main.c:241-289) names the  *)
(* command and the device that were posted, although its text is made from *)
(* the mailbox after the registry was changed, and the registry still      *)
(* agrees with it when the client reads it.                                *)
(***************************************************************************)
THEOREM RepliesTruthful == Spec => []ReplyTruthful
<1>1. Init => ReplyInv
  BY DEF Init, ParentInit, ReplyInv
<1>2. ReplyInv => ReplyTruthful
  BY DEF ReplyInv, ReplyTruthful
<1> QED
  BY <1>1, <1>2, StepReplies, InvAlways, MailAlways, NeverTwice, PTL DEF Spec

-----------------------------------------------------------------------------
(* What the client knows of the registry. *)

\* A session in which nothing has gone wrong.
Live ==
  /\ ~torn /\ ~overrun /\ SlotsOf(Junk) = {}
  /\ server = "join" /\ ~snd_cancelled /\ pc # "exited"

\* GOT_SOCK stands in the mailbox, and its list has not been begun.
Greeting == socket_flag = 1 /\ request = GOT_SOCK
Unlisted == Greeting /\ (~Executing \/ pc = "exec")

\* The report the parent waits for has been written to the socket.
Written == pc = "wait" /\ copies = 1

Told(n) == {nodes[i] : i \in 1 .. n}

\* The client's picture during the list, during a reply, and otherwise.
Pictured ==
  /\ Unlisted => view = {}
  /\ job = "list" => view = IF Written THEN Told(k) ELSE Told(k - 1)
  /\ job = "reply" =>
       Range(nodes) = IF Written THEN view
                      ELSE IF op = ADD_DEVICE THEN view \cup {id_to_handler}
                      ELSE view \ {id_to_handler}
  /\ job \notin {"list", "reply"} /\ ~Unlisted => view = Range(nodes)

ViewInv ==
  /\ server = "connected" => view = {}
  /\ Live => Pictured

\* The text of a report that is no reply.
TextInv ==
  /\ job \in {"data", "dump", "disc", "failed"} /\ pc \in {"signal", "wait"} =>
       data_to_send.code \notin {ADD_DEVICE, REMOVE_DEVICE}
  /\ SlotsOf(Junk) = {} /\ job = "list" /\ pc \in {"kill", "wait"} =>
       data_to_send = Text(ADD_DEVICE, nodes[k])

LEMMA TextMoves ==
  ASSUME Parent, JobOK
  PROVE  \/ PutReport /\ pc' = "signal" /\ job' = job
         \/ ListPut /\ pc' = "kill" /\ job' = "list" /\ UNCHANGED <<nodes, k>>
         \/ HeapReuse /\ UNCHANGED <<pc, job, data_to_send>>
         \/ pc' \notin {"signal", "kill", "wait"}
         \/ /\ UNCHANGED <<nodes, data_to_send, job, k>>
            /\ \/ pc' = pc
               \/ pc = "signal" /\ pc' = "wait"
               \/ pc = "kill" /\ pc' = "wait"
<1> USE DEF Goto, NextIteration, Acked, JobOK
<1>1. CASE PollNode \/ PollFault \/ SkipPoll \/ LeaveScan \/ NoSignal
  BY <1>1 DEF PollNode, PollFault, SkipPoll, LeaveScan, NoSignal
<1>2. CASE TakeReading \/ TakeOther \/ FinishFrame \/ FrameArrives \/ HeapReuse
  BY <1>2 DEF TakeReading, TakeOther, FinishFrame, FrameArrives, HeapReuse
<1>3. CASE NoCommandYet \/ TakeCommand \/ ClearFlag \/ AddDevice \/ RemoveDevice
  BY <1>3 DEF NoCommandYet, TakeCommand, ClearFlag, AddDevice, RemoveDevice
<1>4. CASE GotSock \/ CtlSock \/ ModeLookup \/ ModeTransmit
  BY <1>4 DEF GotSock, CtlSock, ModeLookup, ModeTransmit
<1>5. CASE PutReport \/ Signal \/ ListAck0 \/ ListPut \/ ListKill
  BY <1>5 DEF PutReport, Signal, ListAck0, ListPut, ListKill
<1>6. CASE DataSent \/ ReplySent \/ ListSent \/ DumpSent \/ DisconnectSent
  BY <1>6 DEF DataSent, ReplySent, ListSent, DumpSent, DisconnectSent
<1>7. CASE ReportDisconnected \/ EndRound
  BY <1>7 DEF ReportDisconnected, EndRound
<1> QED
  BY <1>1, <1>2, <1>3, <1>4, <1>5, <1>6, <1>7 DEF Parent, ParentStep

LEMMA TextStep ==
  ASSUME IndInv, TextInv, [Next]_vars
  PROVE  TextInv'
<1> USE DEF TextInv
<1>1. TypeOK /\ JobOK
  BY DEF IndInv
<1>2. CASE Parent
  <2>1. CASE PutReport /\ pc' = "signal" /\ job' = job
    <3>1. data_to_send' = ReportText
      BY <2>1 DEF PutReport
    <3>2. job \in {"data", "dump", "disc", "failed"} =>
            ReportText.code \in {DATA_AVAILABLE, DISCONNECTED, FAILED}
      BY DEF ReportText, Text, Failed
    <3> QED
      BY <2>1, <3>1, <3>2
         DEF ADD_DEVICE, REMOVE_DEVICE, DATA_AVAILABLE, DISCONNECTED, FAILED
  <2>2. CASE ListPut /\ pc' = "kill" /\ job' = "list" /\ UNCHANGED <<nodes, k>>
    BY <1>1, <2>2 DEF ListPut, ReportText, JobOK, Goto
  <2>3. CASE HeapReuse /\ UNCHANGED <<pc, job, data_to_send>>
    BY <1>1, <2>3, JunkFound
  <2>4. CASE pc' \notin {"signal", "kill", "wait"}
    BY <2>4
  <2>5. CASE /\ UNCHANGED <<nodes, data_to_send, job, k>>
             /\ \/ pc' = pc
                \/ pc = "signal" /\ pc' = "wait"
                \/ pc = "kill" /\ pc' = "wait"
    BY <1>1, <2>5 DEF SlotsOf, JobOK
  <2> QED
    BY <1>1, <1>2, <2>1, <2>2, <2>3, <2>4, <2>5, TextMoves
<1>3. CASE Child /\ UNCHANGED parent_vars
  BY <1>3, ChildWritesNoReport DEF parent_vars, SlotsOf
<1>4. CASE SigChld \/ SigInt
  BY <1>4 DEF SigChld, SigInt
<1>5. CASE UNCHANGED vars
  BY <1>5 DEF vars, parent_vars, SlotsOf
<1> QED
  BY <1>2, <1>3, <1>4, <1>5 DEF Next, Over

-----------------------------------------------------------------------------
(* ... after a step of the parent. *)

LEMMA ViewTracked ==
  ASSUME TrackCommands, ~Writes
  PROVE  view' \in {view, {}} /\ (~Accepts /\ ~overrun' /\ ~torn' => view' = view)
BY DEF TrackCommands

\* A step of the parent shows the client nothing.
LEMMA ParentSees ==
  ASSUME HistoryTypeOK, Parent, UNCHANGED child_vars, Track
  PROVE  /\ view' \in {view, {}}
         /\ torn' = torn /\ overrun' = overrun
         /\ ~overrun /\ ~torn => view' = view
         /\ ~overrun /\ ~torn => copies' = IF StoresText THEN 0 ELSE copies
<1>1. UNCHANGED <<server, recv_t, snd>>
  BY DEF child_vars, thread_vars
<1>2. ~Accepts /\ ~Writes /\ ~StoresRequest
  BY <1>1 DEF Accepts, Writes, StoresRequest
<1>3. overrun' = overrun
  BY <1>2, NoRequestStored DEF Track
<1>4. torn' = torn /\ copies' = IF torn \/ StoresText THEN 0 ELSE copies
  BY ParentTracked, ParentGoesOn DEF Track
<1>5. view' \in {view, {}} /\ (~Accepts /\ ~overrun' /\ ~torn' => view' = view)
  BY <1>2, ViewTracked DEF Track
<1>6. ~overrun /\ ~torn => ~overrun' /\ ~torn'
  BY <1>3, <1>4
<1>7. ~overrun /\ ~torn => view' = view
  BY <1>2, <1>5, <1>6
<1>8. ~torn => copies' = IF StoresText THEN 0 ELSE copies
  BY <1>4
<1> QED
  BY <1>3, <1>4, <1>5, <1>7, <1>8

LEMMA ParentLive ==
  ASSUME IndInv, MailInv, Parent, UNCHANGED child_vars, Track, Live'
  PROVE  /\ Live /\ ~HeapReuse /\ view' = view
         /\ copies' = IF StoresText THEN 0 ELSE copies
<1>1. /\ TypeOK /\ HistoryTypeOK
      /\ nodes \in Seq(AllIds) /\ id_to_handler \in AllIds
  BY DEF IndInv, TypeOK, ParentTypeOK, DataTypeOK, SharedTypeOK
<1>2. ~overrun /\ ~torn
  BY <1>1, ParentSees DEF Live
<1>7. view' = view /\ copies' = IF StoresText THEN 0 ELSE copies
  BY <1>1, <1>2, ParentSees
<1>3. ~HeapReuse
  BY <1>1, JunkFound DEF Live
<1>4. SlotsOf(Junk) = {}
  <2> SUFFICES ASSUME NEW j \in DOMAIN nodes, nodes[j] = Junk
               PROVE  FALSE
    BY DEF SlotsOf
  <2>1. \A m \in DOMAIN nodes' : nodes'[m] # Junk
    BY DEF Live, SlotsOf
  <2>2. CASE AddDevice
    <3>1. nodes' = Append(nodes, id_to_handler) \/ nodes' = nodes
      BY <2>2 DEF AddDevice
    <3>2. DOMAIN nodes = 1 .. Len(nodes)
      BY <1>1, LenProperties
    <3>3. j \in DOMAIN nodes' /\ nodes'[j] = nodes[j]
      BY <1>1, <3>1, <3>2, Appended, LenProperties
    <3> QED
      BY <2>1, <3>3
  <2>3. CASE RemoveDevice
    <3>1. posted \in Command /\ id_to_handler = posted.id
      BY <1>1, <1>2, <2>3, Executed DEF RemoveDevice, Goto, Executing, UserRequests
    <3>2. id_to_handler # Junk
      BY <3>1, IdAssumption DEF Command
    <3>3. Registered(id_to_handler) /\ nodes' = Shifted(nodes, FirstSlot(id_to_handler))
      BY <2>1, <2>3 DEF RemoveDevice
    <3>4. FirstSlot(id_to_handler) \in DOMAIN nodes /\ FirstSlot(id_to_handler) # j
      BY <1>1, <3>2, <3>3, FirstSlotFound
    <3> QED
      BY <1>1, <2>1, <3>3, <3>4, ShiftedKeeps
  <2>4. CASE UNCHANGED nodes
    BY <2>1, <2>4
  <2> QED
    BY <1>3, <2>2, <2>3, <2>4, RegistryMoves
<1>5. pc # "exited"
  <2> USE DEF Goto, NextIteration, Acked
  <2>1. CASE \/ PollNode \/ SkipPoll \/ LeaveScan \/ NoSignal \/ TakeReading \/ TakeOther
             \/ FinishFrame \/ PollFault \/ FrameArrives \/ HeapReuse
    BY <2>1 DEF PollNode, SkipPoll, LeaveScan, NoSignal, TakeReading, TakeOther,
                FinishFrame, PollFault, FrameArrives, HeapReuse
  <2>2. CASE \/ NoCommandYet \/ TakeCommand \/ AddDevice \/ RemoveDevice \/ GotSock
             \/ CtlSock \/ ModeLookup \/ ModeTransmit \/ ClearFlag
    BY <2>2 DEF NoCommandYet, TakeCommand, AddDevice, RemoveDevice, GotSock,
                CtlSock, ModeLookup, ModeTransmit, ClearFlag
  <2>3. CASE \/ PutReport \/ Signal \/ ListAck0 \/ ListPut \/ ListKill
             \/ DataSent \/ ReplySent \/ ListSent \/ DumpSent \/ DisconnectSent
             \/ ReportDisconnected \/ EndRound
    BY <2>3 DEF PutReport, Signal, ListAck0, ListPut, ListKill, DataSent, ReplySent,
                ListSent, DumpSent, DisconnectSent, ReportDisconnected, EndRound
  <2> QED
    BY <2>1, <2>2, <2>3 DEF Parent, ParentStep
<1>6. server = "join" /\ ~snd_cancelled
  BY DEF Live, child_vars, thread_vars
<1> QED
  BY <1>2, <1>3, <1>4, <1>5, <1>6, <1>7 DEF Live

\* Where the client's picture is looked at in another way after the step.
LEMMA PictureMoves ==
  ASSUME Parent, JobOK, ~HeapReuse
  PROVE  \/ TakeCommand \/ ClearFlag
         \/ AddDevice \/ RemoveDevice \/ GotSock \/ CtlSock \/ ModeLookup \/ ModeTransmit
         \/ ReplySent \/ ListSent
         \/ /\ UNCHANGED <<nodes, socket_flag, request, op, id_to_handler>>
            /\ Executing' <=> Executing
            /\ pc' = "exec" <=> pc = "exec"
            /\ \/ UNCHANGED <<job, k>> /\ (pc' = "wait" => pc \in {"signal", "kill", "wait"})
                                       /\ (pc = "wait" => pc' = "wait")
               \/ {job, job'} \subseteq {"none", "data", "dump", "disc"}
<1> USE DEF Goto, NextIteration, Acked, JobOK, Executing
<1>1. CASE PollNode \/ PollFault \/ SkipPoll \/ LeaveScan \/ NoSignal
  BY <1>1 DEF PollNode, PollFault, SkipPoll, LeaveScan, NoSignal
<1>2. CASE TakeReading \/ TakeOther \/ FinishFrame
  BY <1>2 DEF TakeReading, TakeOther, FinishFrame
<1>3. CASE FrameArrives
  BY <1>3 DEF FrameArrives
<1>4. CASE NoCommandYet
  BY <1>4 DEF NoCommandYet
<1>5. CASE PutReport \/ Signal \/ ListAck0 \/ ListPut \/ ListKill
  BY <1>5 DEF PutReport, Signal, ListAck0, ListPut, ListKill
<1>6. CASE DataSent \/ DumpSent \/ DisconnectSent
  BY <1>6 DEF DataSent, DumpSent, DisconnectSent
<1>7. CASE ReportDisconnected \/ EndRound
  BY <1>7 DEF ReportDisconnected, EndRound
<1> QED
  BY <1>1, <1>2, <1>3, <1>4, <1>5, <1>6, <1>7 DEF Parent, ParentStep

LEMMA ToldAll ==
  ASSUME nodes \in Seq(AllIds)
  PROVE  Range(nodes) = Told(Len(nodes)) /\ Told(0) = {}
<1>1. DOMAIN nodes = 1 .. Len(nodes)
  BY LenProperties
<1> QED
  BY <1>1 DEF Range, Told

LEMMA AddedRange ==
  ASSUME TypeOK, AddDevice, ~Registered(id_to_handler)
  PROVE  Range(nodes)' = Range(nodes) \cup {id_to_handler}
<1>1. nodes \in Seq(AllIds) /\ id_to_handler \in AllIds /\ Len(nodes) \in Nat
  BY LenProperties DEF TypeOK, ParentTypeOK, DataTypeOK, SharedTypeOK
<1>2. nodes' = Append(nodes, id_to_handler)
  BY DEF AddDevice
<1>3. /\ DOMAIN nodes = 1 .. Len(nodes)
      /\ DOMAIN nodes' = 1 .. Len(nodes) + 1
      /\ \A i \in 1 .. Len(nodes) : nodes'[i] = nodes[i]
      /\ nodes'[Len(nodes) + 1] = id_to_handler
  BY <1>1, <1>2, Appended, LenProperties
<1>4. 1 .. Len(nodes) + 1 = (1 .. Len(nodes)) \cup {Len(nodes) + 1}
  BY <1>1
<1> QED
  BY <1>3, <1>4 DEF Range

LEMMA RemovedRange ==
  ASSUME TypeOK, RegistryUnique, id_to_handler # Junk, RemoveDevice,
         Registered(id_to_handler)
  PROVE  Range(nodes)' = Range(nodes) \ {id_to_handler}
<1> DEFINE i == FirstSlot(id_to_handler)
<1>1. nodes \in Seq(AllIds) /\ i \in DOMAIN nodes /\ nodes[i] = id_to_handler
  BY FirstSlotFound DEF TypeOK, ParentTypeOK, DataTypeOK
<1>2. nodes' = Shifted(nodes, i) /\ job' = "reply" /\ id_to_handler' = id_to_handler
  BY DEF RemoveDevice
<1>3. DOMAIN nodes = 1 .. Len(nodes) /\ Len(nodes) \in Nat
  BY <1>1, LenProperties
<1> HIDE DEF i
<1>4. ASSUME NEW m \in DOMAIN nodes'
      PROVE  \E j \in DOMAIN nodes : nodes'[m] = nodes[j]
  <2>1. m \in 1 .. Len(nodes) - 1
        /\ nodes'[m] = IF m < i THEN nodes[m] ELSE nodes[m + 1]
    BY <1>1, <1>2, <1>4, ShiftedSlots
  <2>2. m \in DOMAIN nodes /\ m + 1 \in DOMAIN nodes
    BY <1>3, <2>1
  <2> QED
    BY <2>1, <2>2
<1>5. \A m \in DOMAIN nodes' : nodes'[m] # id_to_handler
  BY <1>2, RemoveDeviceTruthful DEF Registered
<1>6. ASSUME NEW j \in DOMAIN nodes, nodes[j] # id_to_handler
      PROVE  \E m \in DOMAIN nodes' : nodes'[m] = nodes[j]
  BY <1>1, <1>2, <1>6, ShiftedKeeps
<1> QED
  BY <1>4, <1>5, <1>6 DEF Range

LEMMA ParentPictures ==
  ASSUME IndInv, MailInv, RegistryUnique, ViewInv, Parent, UNCHANGED child_vars, Track, Live'
  PROVE  Pictured'
<1>1. Live /\ ~HeapReuse /\ view' = view
  BY ParentLive
<1>2. Pictured
  BY <1>1 DEF ViewInv
<1>3. /\ TypeOK /\ JobOK /\ ParentMail
      /\ nodes \in Seq(AllIds) /\ DOMAIN nodes = 1 .. Len(nodes) /\ Len(nodes) \in Nat
  BY <1>1, LenProperties DEF IndInv, TypeOK, ParentTypeOK, DataTypeOK, MailInv, Live
<1>4. IF pc = "wait" THEN ToSend \/ Sending \/ Sent ELSE Quiet
  BY <1>1 DEF IndInv, HandshakeInv, Live
<1>5. Acked => Written
  BY <1>4 DEF Acked, Written, ToSend, Sending, Sent
<1>6. pc \in {"signal", "kill"} => copies = 0
  BY <1>4 DEF Quiet
<1>7. copies' = IF StoresText THEN 0 ELSE copies
  BY ParentLive
<1>8. CASE TakeCommand
  <2>1. pc = "sock" /\ pc' = "exec" /\ job = "none" /\ job' = "none"
        /\ UNCHANGED <<nodes, socket_flag, request>>
    BY <1>3, <1>8 DEF TakeCommand, Goto, JobOK
  <2> QED
    BY <1>1, <1>2, <2>1 DEF Pictured, Unlisted, Greeting, Executing
<1>9. CASE ClearFlag
  <2>1. pc = "clear" /\ job = "none" /\ job' = "none" /\ socket_flag' = 0
        /\ UNCHANGED nodes
    BY <1>3, <1>9 DEF ClearFlag, Goto, JobOK
  <2> QED
    BY <1>1, <1>2, <2>1 DEF Pictured, Unlisted, Greeting, Executing
<1>10. CASE AddDevice \/ RemoveDevice
  <2>1. /\ pc = "exec" /\ pc' = "put" /\ job = "none" /\ job' \in {"reply", "failed"}
        /\ op \in {ADD_DEVICE, REMOVE_DEVICE} /\ op' = op
        /\ (AddDevice <=> op = ADD_DEVICE)
        /\ UNCHANGED <<request, id_to_handler>>
    BY <1>3, <1>10 DEF AddDevice, RemoveDevice, Goto, JobOK, ADD_DEVICE, REMOVE_DEVICE
  <2>2. op = request
    BY <1>3, <2>1 DEF ParentMail, Executing
  <2>3. ~Greeting /\ ~Greeting'
    BY <2>1, <2>2 DEF Greeting, ADD_DEVICE, REMOVE_DEVICE, GOT_SOCK
  <2>4. view = Range(nodes)
    BY <1>2, <2>1, <2>3 DEF Pictured, Unlisted
  <2>5. job' = "failed" => nodes' = nodes
    BY <1>10 DEF AddDevice, RemoveDevice
  <2>6. job' = "reply" => Range(nodes)' = IF op = ADD_DEVICE THEN view \cup {id_to_handler}
                                          ELSE view \ {id_to_handler}
    <3> SUFFICES ASSUME job' = "reply"
                 PROVE  Range(nodes)' = IF op = ADD_DEVICE THEN view \cup {id_to_handler}
                                        ELSE view \ {id_to_handler}
      OBVIOUS
    <3>1. CASE AddDevice
      <4>1. ~Registered(id_to_handler)
        BY <3>1 DEF AddDevice
      <4> QED
        BY <1>3, <2>1, <2>4, <3>1, <4>1, AddedRange
    <3>2. CASE RemoveDevice /\ ~AddDevice
      <4>1. Registered(id_to_handler)
        BY <3>2 DEF RemoveDevice
      <4>2. posted \in Command /\ id_to_handler = posted.id
        BY <1>1, <1>3, <2>1, Executed DEF Executing, UserRequests, Live
      <4>3. id_to_handler # Junk
        BY <4>2, IdAssumption DEF Command
      <4> QED
        BY <1>3, <2>1, <2>4, <3>2, <4>1, <4>3, RemovedRange
    <3> QED
      BY <1>10, <3>1, <3>2
  <2> QED
    BY <1>1, <2>1, <2>3, <2>4, <2>5, <2>6 DEF Pictured, Unlisted, Written
<1>11. CASE GotSock
  <2>1. pc = "exec" /\ op = GOT_SOCK /\ job = "none" /\ UNCHANGED <<nodes>>
    BY <1>3, <1>11 DEF GotSock, JobOK
  <2>2. Unlisted
    BY <1>3, <2>1 DEF Unlisted, Greeting, ParentMail, Executing
  <2>3. view = {}
    BY <1>2, <2>2 DEF Pictured
  <2>4. CASE nodes = <<>>
    <3>1. pc' = "clear" /\ job' = "none"
      BY <1>11, <2>1, <2>4 DEF GotSock
    <3>2. Range(nodes) = {}
      BY <2>4 DEF Range
    <3> QED
      BY <1>1, <2>1, <2>3, <3>1, <3>2 DEF Pictured, Unlisted, Executing
  <2>5. CASE nodes # <<>>
    <3>1. pc' = "ack0" /\ job' = "list" /\ k' = 1
      BY <1>11, <2>5 DEF GotSock
    <3>2. Told(k - 1)' = {}
      BY <1>3, <2>1, <3>1 DEF Told
    <3> QED
      BY <1>1, <2>1, <2>3, <3>1, <3>2 DEF Pictured, Unlisted, Executing, Written
  <2> QED
    BY <2>4, <2>5
<1>12. CASE CtlSock \/ ModeLookup \/ ModeTransmit
  <2>1. /\ pc \in {"exec", "memcpy"} /\ pc' \in {"memcpy", "clear"} /\ job = "none"
        /\ op # GOT_SOCK /\ UNCHANGED <<job, nodes, request>>
    BY <1>3, <1>12 DEF CtlSock, ModeLookup, ModeTransmit, Goto, JobOK, GOT_SOCK, CTL_SOCK,
                       MODE_MANUAL, MODE_AUTO
  <2>2. ~Greeting /\ ~Greeting'
    BY <1>3, <2>1 DEF Greeting, ParentMail, Executing
  <2> QED
    BY <1>1, <1>2, <2>1, <2>2 DEF Pictured, Unlisted
<1>13. CASE ReplySent
  <2>1. Acked /\ job \in {"reply", "failed"} /\ pc' = "clear" /\ job' = "none"
        /\ UNCHANGED nodes
    BY <1>13 DEF ReplySent
  <2>2. view = Range(nodes)
    BY <1>2, <1>5, <2>1 DEF Pictured, Unlisted, Executing, Acked
  <2> QED
    BY <1>1, <2>1, <2>2 DEF Pictured, Unlisted, Executing
<1>14. CASE ListSent
  <2>1. Acked /\ job = "list" /\ k \in DOMAIN nodes /\ UNCHANGED nodes
    BY <1>3, <1>14 DEF ListSent, JobOK
  <2>2. view = Told(k)
    BY <1>2, <1>5, <2>1 DEF Pictured
  <2>3. CASE k < Len(nodes)
    <3>1. k' = k + 1 /\ pc' = "ack0" /\ job' = "list"
      BY <1>14, <2>1, <2>3 DEF ListSent
    <3>2. Told(k - 1)' = Told(k)
      BY <1>3, <2>1, <3>1 DEF Told
    <3> QED
      BY <1>1, <2>2, <3>1, <3>2 DEF Pictured, Unlisted, Executing, Written
  <2>4. CASE ~(k < Len(nodes))
    <3>1. pc' = "put" /\ job' = "dump"
      BY <1>14, <2>4 DEF ListSent
    <3>2. k = Len(nodes)
      BY <1>3, <2>1, <2>4
    <3>3. view = Range(nodes)
      BY <1>3, <2>2, <3>2, ToldAll
    <3> QED
      BY <1>1, <2>1, <3>1, <3>3 DEF Pictured, Unlisted, Executing
  <2> QED
    BY <2>3, <2>4
<1>15. CASE /\ UNCHANGED <<nodes, socket_flag, request, op, id_to_handler>>
            /\ Executing' <=> Executing
            /\ pc' = "exec" <=> pc = "exec"
            /\ \/ UNCHANGED <<job, k>> /\ (pc' = "wait" => pc \in {"signal", "kill", "wait"})
                                       /\ (pc = "wait" => pc' = "wait")
               \/ {job, job'} \subseteq {"none", "data", "dump", "disc"}
  <2>1. Unlisted' <=> Unlisted
    BY <1>15 DEF Unlisted, Greeting
  <2>2. CASE {job, job'} \subseteq {"none", "data", "dump", "disc"}
    BY <1>1, <1>2, <1>15, <2>1, <2>2 DEF Pictured
  <2>3. CASE UNCHANGED <<job, k>> /\ (pc' = "wait" => pc \in {"signal", "kill", "wait"})
             /\ (pc = "wait" => pc' = "wait")
    <3>1. pc \in {"signal", "kill", "wait"} => ~StoresText
      BY DEF StoresText
    <3>2. Written' <=> Written
      BY <1>6, <1>7, <2>3, <3>1 DEF Written
    <3>3. (Told(k) = Told(k)') /\ (Told(k - 1) = Told(k - 1)')
      BY <1>15, <2>3 DEF Told
    <3> QED
      BY <1>1, <1>2, <1>15, <2>1, <2>3, <3>2, <3>3 DEF Pictured
  <2> QED
    BY <1>15, <2>2, <2>3
<1> QED
  BY <1>1, <1>3, <1>8, <1>9, <1>10, <1>11, <1>12, <1>13, <1>14, <1>15, PictureMoves

-----------------------------------------------------------------------------
(* ... and after a step of the child. *)

LEMMA ChildMoves ==
  ASSUME Child
  PROVE  \/ Accept \/ StartThreads \/ SndWrite \/ RecvId \/ RecvSignal
         \/ \E c \in Commands : RecvCommand(c)
         \/ server' \notin {"connected", "join"} /\ ~Writes
         \/ /\ UNCHANGED <<server, request, id_to_handler, socket_flag>>
            /\ ~Writes
            /\ snd_cancelled => snd_cancelled'
<1>1. CASE JoinThreads \/ SignalClosed
  BY <1>1 DEF JoinThreads, SignalClosed, thread_vars, Writes
<1>2. CASE SndWake \/ SndClear \/ SndNapped \/ SndAck \/ SndDie
  BY <1>2 DEF SndWake, SndClear, SndNapped, SndAck, SndDie, Writes
<1>3. CASE RecvSet \/ RecvExit \/ RecvEof \/ RecvAck \/ RecvClose
  BY <1>3 DEF RecvSet, RecvExit, RecvEof, RecvAck, RecvClose, Writes
<1>4. CASE RecvError \/ RecvBroken \/ Client
  BY <1>4 DEF RecvError, RecvBroken, Client, ClientCloses, ClientResets, thread_vars, Writes
<1> QED
  BY <1>1, <1>2, <1>3, <1>4 DEF Child, MainThread, SendMsg, RecvMsg

LEMMA ChildSees ==
  ASSUME Track, UNCHANGED pc, server' = "join", server = "join", ~overrun', ~torn'
  PROVE  /\ ~overrun /\ ~torn
         /\ copies' = IF Writes /\ copies < 2 THEN copies + 1 ELSE copies
         /\ view' = CASE Writes /\ data_to_send.code = ADD_DEVICE -> view \cup {data_to_send.id}
                      [] Writes /\ data_to_send.code = REMOVE_DEVICE -> view \ {data_to_send.id}
                      [] OTHER -> view
<1>1. ~Accepts /\ ~StoresText
  BY DEF Accepts, StoresText
<1>2. ~overrun
  BY <1>1 DEF Track, TrackCommands
<1>3. ~torn
  BY <1>1, Zenon DEF Track, TrackHandshake, Afresh
<1>4. copies' = IF Writes /\ copies < 2 THEN copies + 1 ELSE copies
  BY <1>1 DEF Track, TrackHandshake
<1>5. view' = CASE Writes /\ data_to_send.code = ADD_DEVICE -> view \cup {data_to_send.id}
                [] Writes /\ data_to_send.code = REMOVE_DEVICE -> view \ {data_to_send.id}
                [] OTHER -> view
  BY <1>1 DEF Track, TrackCommands, ADD_DEVICE, REMOVE_DEVICE
<1> QED
  BY <1>2, <1>3, <1>4, <1>5

\* The sender writes the report that the parent waits for.
LEMMA WritePictures ==
  ASSUME IndInv, MailInv, ReplyInv, TextInv, Pictured, Live,
         SndWrite, UNCHANGED parent_vars, Track, Live'
  PROVE  Pictured'
<1>1. /\ TypeOK /\ JobOK /\ HandshakeInv
      /\ UNCHANGED <<pc, job, k, op, nodes, request, id_to_handler, socket_flag, data_to_send>>
  BY DEF IndInv, parent_vars, SndWrite
<1>2. ~overrun /\ ~torn /\ ~overrun' /\ ~torn' /\ server = "join" /\ server' = "join"
      /\ SlotsOf(Junk) = {} /\ pc # "exited"
  BY DEF Live
<1>3. snd = "write" /\ ~snd_cancelled /\ Writes
  BY DEF SndWrite, Writes
<1>4. pc = "wait" /\ ToSend
  BY <1>1, <1>2, <1>3 DEF HandshakeInv, ToSend, Sending, Sent, Quiet
<1>5. ~Written /\ Written'
  <2>1. copies' = 1
    BY <1>1, <1>2, <1>3, <1>4, ChildSees DEF ToSend
  <2> QED
    BY <1>1, <1>4, <2>1 DEF Written, ToSend
<1>6. view' = CASE data_to_send.code = ADD_DEVICE -> view \cup {data_to_send.id}
                [] data_to_send.code = REMOVE_DEVICE -> view \ {data_to_send.id}
                [] OTHER -> view
  BY <1>1, <1>2, <1>3, ChildSees
<1>7. Unlisted' <=> Unlisted
  BY <1>1 DEF Unlisted, Greeting, Executing
<1>8. CASE job \in {"data", "dump", "disc", "failed"}
  <2>1. view' = view
    BY <1>4, <1>6, <1>8 DEF TextInv
  <2> QED
    BY <1>1, <1>7, <1>8, <2>1 DEF Pictured
<1>9. CASE job = "list"
  <2>1. data_to_send = Text(ADD_DEVICE, nodes[k])
    BY <1>2, <1>4, <1>9 DEF TextInv
  <2>2. view' = Told(k - 1) \cup {nodes[k]}
    <3>1. data_to_send.code = ADD_DEVICE /\ data_to_send.id = nodes[k]
      BY <2>1 DEF Text
    <3>2. view = Told(k - 1)
      BY <1>5, <1>9 DEF Pictured
    <3> QED
      BY <1>6, <3>1, <3>2 DEF ADD_DEVICE, REMOVE_DEVICE
  <2>3. k \in Nat \ {0}
    <3>1. k \in DOMAIN nodes /\ nodes \in Seq(AllIds)
      BY <1>1, <1>9 DEF JobOK, TypeOK, ParentTypeOK, DataTypeOK
    <3>2. DOMAIN nodes = 1 .. Len(nodes) /\ Len(nodes) \in Nat
      BY <3>1, LenProperties
    <3> QED
      BY <3>1, <3>2
  <2>4. Told(k) = Told(k - 1) \cup {nodes[k]}
    BY <2>3 DEF Told
  <2>5. Told(k)' = Told(k)
    BY <1>1 DEF Told
  <2>6. ~Unlisted
    BY <1>4, <1>9 DEF Unlisted, Executing
  <2> QED
    BY <1>1, <1>5, <1>7, <1>9, <2>2, <2>4, <2>5, <2>6 DEF Pictured
<1>10. CASE job = "reply"
  <2>1. op \in {ADD_DEVICE, REMOVE_DEVICE}
    BY <1>1, <1>10 DEF JobOK
  <2>2. op = posted.op /\ id_to_handler = posted.id
    BY <1>1, <1>2, <1>10, <2>1, Executed DEF Executing, UserRequests
  <2>3. data_to_send = Text(op, id_to_handler)
    BY <1>2, <1>4, <1>10, <2>2 DEF ReplyInv
  <2>4. view' = IF op = ADD_DEVICE THEN view \cup {id_to_handler} ELSE view \ {id_to_handler}
    BY <1>6, <2>1, <2>3 DEF Text, ADD_DEVICE, REMOVE_DEVICE
  <2>5. Range(nodes) = view'
    BY <1>5, <1>10, <2>4 DEF Pictured
  <2>6. ~Unlisted
    BY <1>4, <1>10 DEF Unlisted, Executing
  <2> QED
    BY <1>1, <1>5, <1>7, <1>10, <2>5, <2>6 DEF Pictured
<1>11. job \in {"data", "dump", "disc", "failed", "list", "reply"}
  BY <1>1, <1>4 DEF JobOK, TypeOK, ParentTypeOK, ControlTypeOK
<1> QED
  BY <1>8, <1>9, <1>10, <1>11

\* Any other step of the child shows the client nothing.
LEMMA OtherPictures ==
  ASSUME Pictured, Live, UNCHANGED parent_vars, Track, Live', ~Writes,
         Unlisted' <=> Unlisted, job = "reply" => UNCHANGED id_to_handler
  PROVE  Pictured'
<1>1. UNCHANGED <<pc, job, k, op, nodes>>
  BY DEF parent_vars
<1>2. view' = view /\ copies' = copies
  BY <1>1, ChildSees DEF Live
<1>3. Written' <=> Written
  BY <1>1, <1>2 DEF Written
<1>4. Told(k)' = Told(k) /\ Told(k - 1)' = Told(k - 1)
  BY <1>1 DEF Told
<1> QED
  BY <1>1, <1>2, <1>3, <1>4 DEF Pictured

LEMMA ChildPictures ==
  ASSUME IndInv, MailInv, ReplyInv, TextInv, ViewInv, Child, UNCHANGED parent_vars, Track
  PROVE  ViewInv'
<1>1. /\ TypeOK /\ NoThreads /\ UNCHANGED <<pc, job, k, op, nodes>>
      /\ (Executing' <=> Executing)
  BY DEF IndInv, parent_vars, Executing
<1>2. CASE Accept
  <2>1. Accepts /\ ~Writes /\ server' = "connected"
    BY <1>2 DEF Accept, Accepts, Writes, thread_vars
  <2>2. view' = {}
    BY <2>1 DEF Track, TrackCommands
  <2> QED
    BY <2>1, <2>2 DEF ViewInv, Live
<1>3. CASE StartThreads
  <2>1. /\ server = "connected" /\ server' = "join" /\ snd = "dead" /\ socket_flag' = 1
        /\ request' = request /\ recv_t = "dead"
    BY <1>1, <1>3 DEF StartThreads, NoThreads
  <2>2. ~Writes /\ ~Accepts /\ ~StoresRequest
    BY <2>1 DEF Writes, Accepts, StoresRequest
  <2>3. view' = {}
    BY <2>1, <2>2, ViewTracked DEF Track, ViewInv
  <2>4. ~overrun' => Unlisted' /\ job \notin {"list", "reply"}
    <3>1. overrun' = overrun
      BY <2>2, NoRequestStored DEF Track
    <3>2. ~overrun => request = GOT_SOCK /\ ~Executing
      BY <2>1 DEF MailInv, ChildMail, ParentMail
    <3> QED
      BY <1>1, <2>1, <3>1, <3>2 DEF Unlisted, Greeting, Executing
  <2> QED
    BY <1>1, <2>1, <2>3, <2>4 DEF ViewInv, Live, Pictured
<1>4. CASE server' \notin {"connected", "join"}
  BY <1>4 DEF ViewInv, Live
<1>5. CASE /\ UNCHANGED server /\ (snd_cancelled => snd_cancelled')
           /\ (~Writes \/ SndWrite)
  <2>1. server' = "connected" => view' = {}
    <3>1. server = "connected" => ~Writes /\ view = {}
      BY <1>1 DEF NoThreads, Writes, ViewInv
    <3> QED
      BY <1>5, <3>1, ViewTracked DEF Track
  <2>2. Live' => Live
    <3> SUFFICES ASSUME Live'
                 PROVE  Live
      OBVIOUS
    <3>1. ~overrun /\ ~torn
      BY <1>1, <1>5, ChildSees DEF Live
    <3> QED
      BY <1>1, <1>5, <3>1 DEF Live, SlotsOf
  <2>3. Live' => Pictured'
    <3> SUFFICES ASSUME Live'
                 PROVE  Pictured'
      OBVIOUS
    <3>1. Live /\ Pictured
      BY <2>2 DEF ViewInv
    <3>2. ParentMail /\ ChildMail
      BY <3>1 DEF MailInv, Live
    <3>3. CASE SndWrite
      BY <3>1, <3>3, WritePictures
    <3>4. CASE ~Writes /\ UNCHANGED <<request, id_to_handler, socket_flag>>
      <4>1. Unlisted' <=> Unlisted
        BY <1>1, <3>4 DEF Unlisted, Greeting
      <4> QED
        BY <3>1, <3>4, <4>1, OtherPictures
    <3>5. CASE RecvId
      <4>1. socket_flag = 0 /\ ~Executing /\ UNCHANGED <<snd, request, socket_flag>>
        BY <3>2, <3>5 DEF RecvId, ChildMail, ParentMail
      <4>2. Unlisted' <=> Unlisted
        BY <1>1, <4>1 DEF Unlisted, Greeting
      <4>3. ~Writes /\ job # "reply"
        BY <4>1 DEF Writes, Executing
      <4> QED
        BY <3>1, <4>2, <4>3, OtherPictures
    <3>6. CASE RecvSignal
      <4>1. /\ socket_flag = 0 /\ cmd \in Commands /\ request = cmd.op
            /\ UNCHANGED <<snd, request, id_to_handler>>
        BY <3>2, <3>6 DEF RecvSignal, ChildMail
      <4>2. request # GOT_SOCK
        BY <4>1, CommandIsPosted
           DEF UserRequests, ADD_DEVICE, REMOVE_DEVICE, MODE_MANUAL, MODE_AUTO, GOT_SOCK
      <4>3. ~Unlisted /\ ~Unlisted' /\ ~Writes
        BY <4>1, <4>2 DEF Unlisted, Greeting, Writes
      <4> QED
        BY <3>1, <4>1, <4>3, OtherPictures
    <3>7. ASSUME NEW c \in Commands, RecvCommand(c)
          PROVE  Pictured'
      <4>1. StoresRequest /\ UNCHANGED <<snd, socket_flag, id_to_handler>>
        BY <3>7 DEF RecvCommand, StoresRequest
      <4>2. socket_flag # 1
        BY <4>1, StoredIdle DEF Track, Live
      <4>3. ~Unlisted /\ ~Unlisted' /\ ~Writes
        BY <4>1, <4>2 DEF Unlisted, Greeting, Writes
      <4> QED
        BY <3>1, <4>1, <4>3, OtherPictures
    <3>8. CASE Accept \/ StartThreads
      BY <1>5, <3>8 DEF Accept, StartThreads
    <3> QED
      BY <3>1, <3>3, <3>4, <3>5, <3>6, <3>7, <3>8, <1>5, ChildMoves DEF Live
  <2> QED
    BY <2>1, <2>3 DEF ViewInv
<1> QED
  <2>1. SndWrite \/ RecvId \/ RecvSignal \/ (\E c \in Commands : RecvCommand(c)) =>
          UNCHANGED <<server, snd_cancelled>>
    BY DEF SndWrite, RecvId, RecvSignal, RecvCommand
  <2>2. RecvId \/ RecvSignal \/ (\E c \in Commands : RecvCommand(c)) => ~Writes
    BY DEF RecvId, RecvSignal, RecvCommand, Writes
  <2> QED
    BY <1>2, <1>3, <1>4, <1>5, <2>1, <2>2, ChildMoves

-----------------------------------------------------------------------------
(* ... and after every step. *)

LEMMA ViewStep ==
  ASSUME IndInv, MailInv, RegistryUnique, ReplyInv, TextInv, ViewInv, [Next]_vars
  PROVE  ViewInv'
<1>1. CASE Parent /\ UNCHANGED child_vars /\ Track
  <2>1. server' = server /\ view' \in {view, {}}
    BY <1>1, ParentSees DEF IndInv, TypeOK, child_vars
  <2>2. Live' => Pictured'
    BY <1>1, ParentPictures
  <2> QED
    BY <2>1, <2>2 DEF ViewInv
<1>2. CASE Child /\ UNCHANGED parent_vars /\ Track
  BY <1>2, ChildPictures
<1>3. CASE (SigChld \/ SigInt) /\ Track
  <2>1. pc' = "exited" /\ UNCHANGED <<server, snd>>
    BY <1>3 DEF SigChld, SigInt, child_vars, thread_vars
  <2>2. view' \in {view, {}}
    BY <1>3, <2>1, ViewTracked DEF Track, Writes
  <2> QED
    BY <2>1, <2>2 DEF ViewInv, Live
<1>4. CASE UNCHANGED vars
  BY <1>4 DEF ViewInv, Live, Pictured, Unlisted, Greeting, Written, Told, Executing, SlotsOf,
              vars, parent_vars, child_vars, history_vars, thread_vars
<1> QED
  BY <1>1, <1>2, <1>3, <1>4 DEF Next, Over

(***************************************************************************)
(* Between two commands a client that has had its list (main.c:298-309)    *)
(* knows exactly the devices in newLoRa: the list told it every slot once, *)
(* and every reply since told it what changed, before the next command.    *)
(***************************************************************************)
THEOREM ClientKnowsRegistry == Spec => []ClientInStep
<1>1. Init => ViewInv /\ TextInv
  BY DEF Init, ParentInit, ChildInit, ViewInv, TextInv, Live
<1>2. IndInv /\ ViewInv => ClientInStep
  <2> SUFFICES ASSUME IndInv, ViewInv, Live, socket_flag = 0,
                      pc \in {"top", "scan", "sock", "round_end", "finish"}
               PROVE  view = Range(nodes)
    BY DEF ClientInStep, Live
  <2>1. Pictured /\ job = "none"
    BY DEF ViewInv, IndInv, JobOK
  <2> QED
    BY <2>1 DEF Pictured, Unlisted, Greeting
<1>3. Init => ReplyInv
  BY DEF Init, ParentInit, ReplyInv
<1> QED
  BY <1>1, <1>2, <1>3, TextStep, ViewStep, StepReplies, InvAlways, MailAlways, NeverTwice,
     PTL DEF Spec

=============================================================================
