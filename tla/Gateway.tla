------------------------------ MODULE Gateway ------------------------------
(***************************************************************************)
(* The parent process (main.c:186-359): the loop that polls the registered *)
(* nodes over LoRa in turn, waits for each answer while executing the      *)
(* commands the child relays, and reports to the client through            *)
(* data_to_send.  Every report is a hand-over: store the text, clear ack,  *)
(* raise the child's ready_flag, spin until ack.                           *)
(*                                                                         *)
(*   top -> scan -> (frame: put -> signal -> wait -> finish) -> sock       *)
(*   sock -> scan, or sock -> exec -> ... -> clear -> scan                 *)
(*   scan -> round_end -> (put -> signal -> wait) -> top                   *)
(*                                                                         *)
(* The slots of newLoRa keep their ids only: no decision of the program    *)
(* reads the readings and the schedule of a slot.                          *)
(***************************************************************************)
EXTENDS DeviceCommand

CONSTANTS SCAN_DURATION,  \* gateway.h:8, scaled down
          GATEWAY_ID,
          Frames,         \* what the radio may deliver to this receiver
          NoFrame,        \* the zeroed buffer of the driver
          BootLists,      \* what setup_node may find in NODE_FILE
          MaxCursor,      \* bound: the poll cursor is not counted past this
          MaxJunk         \* bound: slots of newLoRa lost to the allocator

REQUEST_DATA  == "REQUEST_DATA"
RESPONSE_DATA == "RESPONSE_DATA"

\* A packet; "fields" is how many fields of its data sscanf converts.
Frame == [pkt_type : {REQUEST_DATA, RESPONSE_DATA}, uid : Ids,
          destination_id : Ids \cup {GATEWAY_ID}, fields : 0..5]

\* What the gateway transmits: a poll, or a command with its schedule.
Packet == [pkt_type : {REQUEST_DATA, MODE_MANUAL, MODE_AUTO, ""},
           destination_id : AllIds, set : Schedules \cup {NoSchedule}]
NoPacket == [pkt_type |-> "", destination_id |-> ZeroId, set |-> NoSchedule]

ASSUME GatewayAssumption ==
  /\ SCAN_DURATION \in Nat \ {0}
  /\ GATEWAY_ID \notin Ids
  /\ Frames \subseteq Frame
  /\ NoFrame \notin Frame
  /\ BootLists \subseteq Seq(Ids)
  /\ \A list \in BootLists : IsInjective(list)   \* setup_node calls add_device
  /\ MaxCursor \in Nat
  /\ MaxJunk \in Nat

VARIABLES
  pc,           \* where the parent is
  job,          \* what the report being handed over is for
  k,            \* the slot of newLoRa that job, or a mode command, is about
  uid,          \* sender of the frame being handled
  op,           \* the request being executed
  timeout,
  nodes,        \* ids in newLoRa[0 .. node_count-1]
  intact,       \* leading slots of newLoRa that its malloc block still covers
  cursor,       \* i, the slot to poll next
  status,       \* raspi.status
  id_handling,  \* raspi.id_handling
  sock_status,
  rx_sig,       \* raised by SIGUSR1
  blocked,      \* SIGUSR1 is blocked ...
  pending,      \* ... and one is pending
  rx_buffer,    \* the driver's receive_buffer
  tx            \* the packet given to lora_transmit last

job_vars      == <<job, k, uid, op>>
registry_vars == <<nodes, intact>>
round_vars    == <<cursor, status, id_handling>>
rx_vars       == <<rx_sig, blocked, pending, rx_buffer>>
radio_vars    == <<rx_vars, tx>>
loop_vars     == <<timeout, round_vars, sock_status, radio_vars>>
parent_vars   == <<pc, job_vars, registry_vars, loop_vars>>

ControlTypeOK ==
  /\ pc \in {"top", "scan", "sock", "exec", "memcpy", "ack0", "lput", "kill",
             "put", "signal", "wait", "finish", "clear", "round_end", "exited"}
  /\ job \in {"none", "data", "reply", "failed", "list", "dump", "disc"}
  /\ op \in Requests \cup {""}
  /\ status \in {"NOT_DONE", "HANDLED"}
  /\ sock_status \in {0, 1}
  /\ rx_sig \in {0, 1}
  /\ blocked \in BOOLEAN
  /\ pending \in BOOLEAN

CounterTypeOK ==
  /\ k \in Nat
  /\ timeout \in 0..SCAN_DURATION
  /\ intact \in Nat
  /\ cursor \in 0..MaxCursor

DataTypeOK ==
  /\ nodes \in Seq(AllIds)
  /\ uid \in AllIds
  /\ id_handling \in AllIds
  /\ rx_buffer \in Frames \cup {NoFrame}
  /\ tx \in Packet

ParentTypeOK == ControlTypeOK /\ CounterTypeOK /\ DataTypeOK

\* raspi is an uninitialised local: its first status may be either value.
ParentInit ==
  /\ pc = "top"
  /\ job = "none" /\ k = 0 /\ uid = ZeroId /\ op = ""
  /\ timeout = SCAN_DURATION
  /\ nodes \in BootLists
  /\ intact = Len(nodes)
  /\ cursor = 0
  /\ status \in {"NOT_DONE", "HANDLED"}
  /\ id_handling = Junk
  /\ sock_status = 0
  /\ rx_sig = 0
  /\ blocked = FALSE
  /\ pending = FALSE
  /\ rx_buffer = NoFrame
  /\ tx = NoPacket

-----------------------------------------------------------------------------
(* The registry: newLoRa and node_count. *)

Registered(id) == \E i \in DOMAIN nodes : nodes[i] = id
SlotsOf(id)    == {i \in DOMAIN nodes : nodes[i] = id}
FirstSlot(id)  == CHOOSE i \in SlotsOf(id) : \A j \in SlotsOf(id) : i <= j

\* Mutant: the copying loop starts one slot late.
ShiftedLate(s, i) ==
  [j \in 1 .. Len(s) - 1 |-> IF j <= i THEN s[j] ELSE s[j + 1]]

Shifted(s, i) == [j \in 1 .. Len(s) - 1 |-> IF j < i THEN s[j] ELSE s[j + 1]]

(***************************************************************************)
(* remove_device shrinks the array to node_count * sizeof(uint32_t) bytes. *)
(* A slot takes 88 bytes with its id in bytes 4..7, and malloc's smallest  *)
(* block holds 24: these many ids are still inside the block.              *)
(***************************************************************************)
SlotsInside(n) == ((IF n > 6 THEN 4 * n ELSE 24) - 8) \div 88 + 1

(***************************************************************************)
(* Whatever the process allocates next may overwrite a slot outside it.    *)
(***************************************************************************)
HeapReuse ==
  /\ pc # "exited"
  /\ Cardinality(SlotsOf(Junk)) < MaxJunk
  /\ \E i \in DOMAIN nodes :
       /\ i > intact
       /\ nodes[i] # Junk
       /\ nodes' = [nodes EXCEPT ![i] = Junk]
  /\ UNCHANGED <<pc, job_vars, loop_vars, intact, shared_vars>>

-----------------------------------------------------------------------------
(* The head of the outer loop. *)

Goto(here, there) == pc = here /\ pc' = there

\* Mutant: the cursor never wraps.
PollNodeRunsOn ==
  /\ Goto("top", "scan")
  /\ nodes # <<>>
  /\ id_handling' \in IF cursor < Len(nodes) THEN {nodes[cursor + 1]}
                                             ELSE Ids \cup {Junk}
  /\ tx' = [pkt_type |-> REQUEST_DATA, destination_id |-> id_handling',
            set |-> NoSchedule]
  /\ status' = "NOT_DONE"
  /\ cursor' = cursor + 1
  /\ UNCHANGED <<job_vars, timeout, registry_vars, sock_status, rx_vars,
                 shared_vars>>

\* Mutant: the status of the last round is kept.
PollNodeKeepsStatus ==
  /\ Goto("top", "scan")
  /\ nodes # <<>>
  /\ id_handling' = nodes[1]
  /\ tx' = [pkt_type |-> REQUEST_DATA, destination_id |-> id_handling',
            set |-> NoSchedule]
  /\ UNCHANGED <<job_vars, timeout, registry_vars, status, cursor,
                 sock_status, rx_vars, shared_vars>>

\* Mutant: the first node is polled every time.
PollNodeFirst ==
  /\ Goto("top", "scan")
  /\ nodes # <<>>
  /\ id_handling' = nodes[1]
  /\ tx' = [pkt_type |-> REQUEST_DATA, destination_id |-> id_handling',
            set |-> NoSchedule]
  /\ status' = "NOT_DONE"
  /\ UNCHANGED <<job_vars, timeout, registry_vars, cursor, sock_status,
                 rx_vars, shared_vars>>

(***************************************************************************)
(* Past the end of the array newLoRa[i] reads old slots or other heap data *)
(* (and, far enough, faults: PollFault).                                   *)
(***************************************************************************)
PollNode ==
  /\ Goto("top", "scan")
  /\ nodes # <<>>
  /\ id_handling' \in IF cursor < Len(nodes) THEN {nodes[cursor + 1]}
                                             ELSE Ids \cup {Junk}
  /\ tx' = [pkt_type |-> REQUEST_DATA, destination_id |-> id_handling',
            set |-> NoSchedule]
  /\ status' = "NOT_DONE"
  /\ cursor' = CASE cursor = Len(nodes) - 1 -> 0
                 [] cursor # Len(nodes) - 1 /\ cursor < MaxCursor -> cursor + 1
                 [] OTHER -> cursor
  /\ UNCHANGED <<job_vars, timeout, registry_vars, sock_status, rx_vars,
                 shared_vars>>

PollFault ==
  /\ Goto("top", "exited")
  /\ cursor = MaxCursor
  /\ cursor > Len(nodes)
  /\ nodes # <<>>
  /\ UNCHANGED <<job_vars, loop_vars, registry_vars, shared_vars>>

SkipPoll ==
  /\ Goto("top", "scan")
  /\ nodes = <<>>
  /\ UNCHANGED <<job_vars, loop_vars, registry_vars, shared_vars>>

-----------------------------------------------------------------------------
(* The inner loop: while (--timeout), the test for HANDLED, then rx_sig. *)

Tick == timeout' = timeout - 1

LeaveScan ==
  /\ Goto("scan", "round_end")
  /\ Tick
  /\ timeout' = 0 \/ status = "HANDLED"
  /\ UNCHANGED <<job_vars, registry_vars, round_vars, sock_status, radio_vars,
                 shared_vars>>

NextIteration ==
  /\ pc = "scan"
  /\ Tick
  /\ timeout' > 0
  /\ status # "HANDLED"

NoSignal ==
  /\ NextIteration
  /\ rx_sig = 0
  /\ pc' = "sock"
  /\ UNCHANGED <<job_vars, registry_vars, round_vars, sock_status, radio_vars,
                 shared_vars>>

\* A frame get_data_from_node takes for a reading of a registered node.
IsReading(f) ==
  /\ f # NoFrame
  /\ f.pkt_type = RESPONSE_DATA
  /\ f.destination_id = GATEWAY_ID
  /\ Registered(f.uid)
  /\ f.fields = 5

Answered(id) == IF id = id_handling THEN "HANDLED" ELSE status

(***************************************************************************)
(* get_data_from_node down to the test of sock_status: SIGUSR1 is blocked  *)
(* from here to FinishFrame, the wait for the client's ack included.       *)
(* (Its first test, status = HANDLED, cannot succeed: the loop has just    *)
(* made it.)                                                               *)
(***************************************************************************)
TakeReading ==
  /\ NextIteration
  /\ rx_sig = 1
  /\ blocked' = TRUE
  /\ IsReading(rx_buffer)
  /\ IF sock_status = 1
       THEN /\ pc' = "put"
            /\ job' = "data"
            /\ k' = FirstSlot(rx_buffer.uid)
            /\ uid' = rx_buffer.uid
            /\ status' = status
       ELSE /\ pc' = "finish"
            /\ status' = Answered(rx_buffer.uid)
            /\ UNCHANGED <<job, k, uid>>
  /\ UNCHANGED <<op, registry_vars, cursor, id_handling, sock_status, rx_sig,
                 pending, rx_buffer, tx, shared_vars>>

TakeOther ==
  /\ NextIteration
  /\ rx_sig = 1
  /\ blocked' = TRUE
  /\ ~IsReading(rx_buffer)
  /\ pc' = "finish"
  /\ UNCHANGED <<job_vars, registry_vars, round_vars, sock_status, rx_sig,
                 pending, rx_buffer, tx, shared_vars>>

\* Mutant: the early return of get_data_from_node is always taken.
FinishFrameBlocked ==
  /\ Goto("finish", "sock")
  /\ rx_sig' = 0
  /\ UNCHANGED <<job_vars, timeout, registry_vars, round_vars, sock_status,
                 blocked, pending, rx_buffer, tx, shared_vars>>

\* Unblocking delivers a pending SIGUSR1, and then rx_sig is cleared.
FinishFrame ==
  /\ Goto("finish", "sock")
  /\ blocked' = FALSE
  /\ pending' = FALSE
  /\ rx_sig' = 0
  /\ UNCHANGED <<job_vars, timeout, registry_vars, round_vars, sock_status,
                 rx_buffer, tx, shared_vars>>

-----------------------------------------------------------------------------
(* Commands of the client: if (socket_flag) switch (request). *)

NoCommandYet ==
  /\ Goto("sock", "scan")
  /\ socket_flag = 0
  /\ UNCHANGED <<job_vars, loop_vars, registry_vars, shared_vars>>

TakeCommand ==
  /\ Goto("sock", "exec")
  /\ socket_flag = 1
  /\ op' = request
  /\ UNCHANGED <<job, k, uid, loop_vars, registry_vars, shared_vars>>

\* Mutant: newLoRa is not searched first.
AddDeviceAgain ==
  /\ Goto("exec", "put")
  /\ op = ADD_DEVICE
  /\ Len(nodes) < MaxCursor
  /\ job' = "reply"
  /\ nodes' = Append(nodes, id_to_handler)
  /\ intact' = Len(nodes) + 1
  /\ UNCHANGED <<k, uid, op, loop_vars, shared_vars>>

\* add_device and remove_device, with the report each result leads to.
AddDevice ==
  /\ Goto("exec", "put")
  /\ op = ADD_DEVICE
  /\ IF Registered(id_to_handler)
       THEN /\ job' = "failed"
            /\ UNCHANGED registry_vars
       ELSE /\ job' = "reply"
            /\ nodes' = Append(nodes, id_to_handler)
            /\ intact' = Len(nodes) + 1
  /\ UNCHANGED <<k, uid, op, loop_vars, shared_vars>>

\* Mutant: node_count is not decremented.
RemoveDeviceKeepsCount ==
  /\ Goto("exec", "put")
  /\ op = REMOVE_DEVICE
  /\ job' = IF Registered(id_to_handler) THEN "reply" ELSE "failed"
  /\ UNCHANGED <<k, uid, op, loop_vars, registry_vars, shared_vars>>

RemoveDevice ==
  /\ Goto("exec", "put")
  /\ op = REMOVE_DEVICE
  /\ IF Registered(id_to_handler)
       THEN /\ job' = "reply"
            /\ nodes' = Shifted(nodes, FirstSlot(id_to_handler))
            /\ intact' = IF Len(nodes) = 1 THEN 0
                         ELSE SlotsInside(Len(nodes) - 1)
       ELSE /\ job' = "failed"
            /\ UNCHANGED registry_vars
  /\ UNCHANGED <<k, uid, op, loop_vars, shared_vars>>

\* Mutant: the readings are sent without the list.
GotSockNoList ==
  /\ pc = "exec"
  /\ op = GOT_SOCK
  /\ IF nodes = <<>> THEN sock_status' = 1 /\ pc' = "clear"
                          /\ UNCHANGED <<job, k>>
                     ELSE job' = "dump" /\ k' = 1 /\ pc' = "put"
                          /\ UNCHANGED sock_status
  /\ UNCHANGED <<uid, op, timeout, registry_vars, round_vars, radio_vars,
                 shared_vars>>

(***************************************************************************)
(* GOT_SOCK: scan_node_list reports every node, then scand_node_data every *)
(* reading, each waiting for its ack; only then is the socket taken for    *)
(* open.                                                                   *)
(***************************************************************************)
GotSock ==
  /\ pc = "exec"
  /\ op = GOT_SOCK
  /\ IF nodes = <<>>
       THEN /\ sock_status' = 1
            /\ pc' = "clear"
            /\ UNCHANGED <<job, k>>
       ELSE /\ job' = "list"
            /\ k' = 1
            /\ pc' = "ack0"
            /\ UNCHANGED sock_status
  /\ UNCHANGED <<uid, op, timeout, registry_vars, round_vars, radio_vars,
                 shared_vars>>

CtlSock ==
  /\ Goto("exec", "clear")
  /\ op = CTL_SOCK
  /\ sock_status' = 0
  /\ UNCHANGED <<job_vars, timeout, registry_vars, round_vars, radio_vars,
                 shared_vars>>

(***************************************************************************)
(* MODE_MANUAL and MODE_AUTO look the device up and transmit to it; the    *)
(* schedule of MODE_MANUAL is read from user_set after the lookup.         *)
(***************************************************************************)
ModeLookup ==
  /\ pc = "exec"
  /\ op \in {MODE_MANUAL, MODE_AUTO}
  /\ IF Registered(id_to_handler)
       THEN /\ pc' = "memcpy"
            /\ k' = FirstSlot(id_to_handler)
       ELSE /\ pc' = "clear"
            /\ UNCHANGED k
  /\ UNCHANGED <<job, uid, op, loop_vars, registry_vars, shared_vars>>

ModeTransmit ==
  /\ Goto("memcpy", "clear")
  /\ tx' = [pkt_type |-> op, destination_id |-> nodes[k],
            set |-> IF op = MODE_MANUAL THEN user_set ELSE NoSchedule]
  /\ k' = 0
  /\ UNCHANGED <<job, uid, op, timeout, round_vars, sock_status, rx_vars,
                 registry_vars, shared_vars>>

\* socket_flag = 0, whatever has been posted since it was tested.
ClearFlag ==
  /\ Goto("clear", "scan")
  /\ socket_flag' = 0
  /\ op' = ""
  /\ UNCHANGED <<job, k, uid, loop_vars, registry_vars, request,
                 id_to_handler, user_set, report_vars>>

-----------------------------------------------------------------------------
(* Handing a report over. *)

\* The reply names id_to_handler as it is now, not as it was executed.
ReportText ==
  CASE job = "data"   -> Text(DATA_AVAILABLE, nodes[k])
    [] job = "dump"   -> Text(DATA_AVAILABLE, nodes[k])
    [] job = "list"   -> Text(ADD_DEVICE, nodes[k])
    [] job = "reply"  -> Text(op, id_to_handler)
    [] job = "disc"   -> Text(DISCONNECTED, id_handling)
    [] OTHER          -> Failed

PutReport ==
  /\ Goto("put", "signal")
  /\ data_to_send' = ReportText
  /\ UNCHANGED <<job_vars, loop_vars, registry_vars, mailbox_vars, ack,
                 ready_flag>>

\* Mutant: ack keeps the value of the report before.
SignalStaleAck ==
  /\ Goto("signal", "wait")
  /\ ready_flag' = 1
  /\ UNCHANGED <<job_vars, loop_vars, registry_vars, mailbox_vars,
                 data_to_send, ack>>

\* ack = 0 and kill: nothing the child does tells the order of the two.
Signal ==
  /\ Goto("signal", "wait")
  /\ ack' = 0
  /\ ready_flag' = 1
  /\ UNCHANGED <<job_vars, loop_vars, registry_vars, mailbox_vars,
                 data_to_send>>

\* scan_node_list clears ack before it stores the text.
ListAck0 ==
  /\ Goto("ack0", "lput")
  /\ ack' = 0
  /\ UNCHANGED <<job_vars, loop_vars, registry_vars, mailbox_vars,
                 data_to_send, ready_flag>>

ListPut ==
  /\ Goto("lput", "kill")
  /\ data_to_send' = ReportText
  /\ UNCHANGED <<job_vars, loop_vars, registry_vars, mailbox_vars, ack,
                 ready_flag>>

ListKill ==
  /\ Goto("kill", "wait")
  /\ ready_flag' = 1
  /\ UNCHANGED <<job_vars, loop_vars, registry_vars, mailbox_vars, ack,
                 data_to_send>>

-----------------------------------------------------------------------------
(* while (!ack) ends: what follows depends on what the report was for. *)

Acked == pc = "wait" /\ ack = 1

\* Mutant: the node polled is not marked as handled.
DataSentUnhandled ==
  /\ Acked
  /\ job = "data"
  /\ pc' = "finish"
  /\ job' = "none" /\ k' = 0 /\ uid' = ZeroId
  /\ UNCHANGED <<op, loop_vars, registry_vars, shared_vars>>

DataSent ==
  /\ Acked
  /\ job = "data"
  /\ status' = Answered(uid)
  /\ pc' = "finish"
  /\ job' = "none" /\ k' = 0 /\ uid' = ZeroId
  /\ UNCHANGED <<op, timeout, registry_vars, cursor, id_handling, sock_status,
                 radio_vars, shared_vars>>

ReplySent ==
  /\ Acked
  /\ job \in {"reply", "failed"}
  /\ pc' = "clear"
  /\ job' = "none"
  /\ UNCHANGED <<k, uid, op, loop_vars, registry_vars, shared_vars>>

ListSent ==
  /\ Acked
  /\ job = "list"
  /\ IF k < Len(nodes) THEN k' = k + 1 /\ pc' = "ack0" /\ job' = job
                       ELSE k' = 1     /\ pc' = "put"  /\ job' = "dump"
  /\ UNCHANGED <<uid, op, loop_vars, registry_vars, shared_vars>>

DumpSent ==
  /\ Acked
  /\ job = "dump"
  /\ IF k < Len(nodes)
       THEN /\ k' = k + 1
            /\ pc' = "put"
            /\ UNCHANGED <<job, sock_status>>
       ELSE /\ sock_status' = 1
            /\ pc' = "clear"
            /\ job' = "none"
            /\ k' = 0
  /\ UNCHANGED <<uid, op, timeout, registry_vars, round_vars, radio_vars,
                 shared_vars>>

DisconnectSent ==
  /\ Acked
  /\ job = "disc"
  /\ pc' = "top"
  /\ job' = "none"
  /\ timeout' = SCAN_DURATION
  /\ UNCHANGED <<k, uid, op, registry_vars, round_vars, sock_status,
                 radio_vars, shared_vars>>

-----------------------------------------------------------------------------
(* The end of a round. *)

ReportDisconnected ==
  /\ Goto("round_end", "put")
  /\ status # "HANDLED" /\ sock_status = 1 /\ nodes # <<>>
  /\ job' = "disc"
  /\ UNCHANGED <<k, uid, op, loop_vars, registry_vars, shared_vars>>

EndRound ==
  /\ Goto("round_end", "top")
  /\ ~(status # "HANDLED" /\ sock_status = 1 /\ nodes # <<>>)
  /\ timeout' = SCAN_DURATION
  /\ UNCHANGED <<job_vars, registry_vars, round_vars, sock_status, radio_vars,
                 shared_vars>>

-----------------------------------------------------------------------------
(***************************************************************************)
(* The radio: the driver stores a frame and sends SIGUSR1.  It drops a     *)
(* frame equal to the one it holds.                                        *)
(***************************************************************************)
FrameArrives ==
  /\ pc # "exited"
  /\ \E f \in Frames \ {rx_buffer} : rx_buffer' = f
  /\ IF blocked THEN pending' = TRUE /\ UNCHANGED rx_sig
                ELSE rx_sig' = 1     /\ UNCHANGED pending
  /\ UNCHANGED <<pc, job_vars, timeout, registry_vars, round_vars,
                 sock_status, blocked, tx, shared_vars>>

-----------------------------------------------------------------------------

\* What the process does by itself, one step at a time.
ParentStep ==
  \/ PollNode \/ SkipPoll
  \/ LeaveScan \/ NoSignal \/ TakeReading \/ TakeOther \/ FinishFrame
  \/ NoCommandYet \/ TakeCommand
  \/ AddDevice \/ RemoveDevice \/ GotSock \/ CtlSock
  \/ ModeLookup \/ ModeTransmit \/ ClearFlag
  \/ PutReport \/ Signal \/ ListAck0 \/ ListPut \/ ListKill
  \/ DataSent \/ ReplySent \/ ListSent \/ DumpSent \/ DisconnectSent
  \/ ReportDisconnected \/ EndRound

Parent == ParentStep \/ PollFault \/ HeapReuse \/ FrameArrives

=============================================================================
