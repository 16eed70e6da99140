--------------------------- MODULE DeviceCommand ---------------------------
(***************************************************************************)
(* What the two processes of the gateway share: the POSIX shared-memory    *)
(* object "foo" holding one struct device_command (Inc/gateway.h:50-57),   *)
(* and the two flags their SIGUSR2 handlers raise.  The parent (the LoRa   *)
(* gateway, module Gateway) and the child (the socket server, module       *)
(* SocketServer) both extend this module.                                  *)
(*                                                                         *)
(* Nothing in the program locks the structure.  Each field is read and     *)
(* written on its own, so a step of the model touches at most one field    *)
(* that the other process may be using at the same time.                   *)
(***************************************************************************)
EXTENDS Integers, Sequences, FiniteSets, Functions

CONSTANTS Ids,        \* device ids a user may register
          ZeroId,     \* id 0, what id_to_handler holds before any command
          Junk,       \* bytes that are no device id the program ever stored
          Schedules,  \* values of struct time_set a user may send
          NoSchedule  \* user_set before any MODE_MANUAL command

AllIds == Ids \cup {ZeroId, Junk}

ASSUME IdAssumption ==
  /\ ZeroId \notin Ids
  /\ Junk \notin Ids
  /\ ZeroId # Junk
  /\ NoSchedule \notin Schedules

(***************************************************************************)
(* Request and report codes (Inc/gateway.h:9-21), by name.                 *)
(***************************************************************************)
ADD_DEVICE     == "ADD_DEVICE"
REMOVE_DEVICE  == "REMOVE_DEVICE"
GOT_SOCK       == "GOT_SOCK"
CTL_SOCK       == "CTL_SOCK"
MODE_MANUAL    == "MODE_MANUAL"
MODE_AUTO      == "MODE_AUTO"
DATA_AVAILABLE == "DATA_AVAILABLE"
DISCONNECTED   == "DISCONNECTED"
FAILED         == "Failed"

UserRequests == {ADD_DEVICE, REMOVE_DEVICE, MODE_MANUAL, MODE_AUTO}
Requests     == UserRequests \cup {GOT_SOCK, CTL_SOCK}

(***************************************************************************)
(* The text in data_to_send: a code and the id it is about ("Failed"       *)
(* carries no id).  The readings that follow the id are left out.          *)
(***************************************************************************)
Text(code, id) == [code |-> code, id |-> id]
Failed         == Text(FAILED, ZeroId)
Empty          == Text("", ZeroId)
Texts ==
  [code : {ADD_DEVICE, REMOVE_DEVICE, DATA_AVAILABLE, DISCONNECTED, FAILED, ""},
   id : AllIds]

(***************************************************************************)
(* A command line of the client, as recv_msg parses it.                    *)
(***************************************************************************)
Command   == [op : UserRequests, id : Ids, set : Schedules \cup {NoSchedule}]
NoCommand == [op |-> "", id |-> ZeroId, set |-> NoSchedule]

VARIABLES
  request,        \* dev->request
  ack,            \* dev->ack
  data_to_send,   \* dev->data_to_send
  id_to_handler,  \* dev->id_to_handler
  user_set,       \* dev->user_set
  socket_flag,    \* raised in the parent by the child's SIGUSR2
  ready_flag      \* raised in the child by the parent's SIGUSR2

mailbox_vars == <<request, id_to_handler, user_set, socket_flag>>
report_vars  == <<ack, data_to_send, ready_flag>>
shared_vars  == <<mailbox_vars, report_vars>>

SharedTypeOK ==
  /\ request \in Requests
  /\ ack \in {0, 1}
  /\ data_to_send \in Texts
  /\ id_to_handler \in AllIds
  /\ user_set \in Schedules \cup {NoSchedule}
  /\ socket_flag \in {0, 1}
  /\ ready_flag \in {0, 1}

(***************************************************************************)
(* ftruncate zero-fills a new shared object: request = 0 is ADD_DEVICE.    *)
(***************************************************************************)
SharedInit ==
  /\ request = ADD_DEVICE
  /\ ack = 0
  /\ data_to_send = Empty
  /\ id_to_handler = ZeroId
  /\ user_set = NoSchedule
  /\ socket_flag = 0
  /\ ready_flag = 0

=============================================================================
