--------------------------- MODULE GatewaySystem ---------------------------
(***************************************************************************)
(* The whole program: the parent (Gateway), the child (SocketServer), the  *)
(* memory and signals they share (DeviceCommand), the client and the       *)
(* radio.  The properties here are about the protocol between the two      *)
(* processes, which no field, lock or sequence number of the program       *)
(* represents; the history variables below stand in for that.              *)
(***************************************************************************)
EXTENDS Gateway, SocketServer

CONSTANT Interrupts   \* bound: whether the program may also be interrupted

ASSUME InterruptAssumption == Interrupts \in BOOLEAN

VARIABLES
  torn,     \* a session, or the parent, ended while a report was being handed
            \* over, and the remains of that have not been cleaned up since
  overrun,  \* in this session a command was stored before the previous one
            \* had been executed
  posted,   \* the command line last signalled to the parent, until executed
  copies,   \* how often the text now in data_to_send was written (up to 2)
  view,     \* the devices the client knows of from what it was sent
  round,    \* "unpolled", "polled", or "answered" by the node polled
  shrunk    \* remove_device has shrunk newLoRa

history_vars == <<torn, overrun, posted, copies, view, round, shrunk>>
vars == <<parent_vars, child_vars, shared_vars, history_vars>>

HistoryTypeOK ==
  /\ torn \in BOOLEAN
  /\ overrun \in BOOLEAN
  /\ posted \in Commands \cup {NoCommand}
  /\ copies \in 0..2
  /\ view \subseteq AllIds
  /\ round \in {"unpolled", "polled", "answered"}
  /\ shrunk \in BOOLEAN

Init ==
  /\ SharedInit /\ ParentInit /\ ChildInit
  /\ torn = FALSE
  /\ overrun = FALSE
  /\ posted = NoCommand
  /\ copies = 0
  /\ view = {}
  /\ round = "unpolled"
  /\ shrunk = FALSE

-----------------------------------------------------------------------------
(* What the history variables record of a step. *)

Accepts      == server = "accept" /\ server' = "connected"
StoresRequest ==
  \/ Accepts
  \/ server = "join" /\ server' = "closing"
  \/ recv_t = "read" /\ recv_t' = "id"
StoresText   == pc \in {"put", "lput"} /\ pc' \in {"signal", "kill"}
Writes       == snd = "write" /\ snd' = "clear"
CancelsSnd   == ~snd_cancelled /\ snd_cancelled'
AcksAtEof    == recv_t = "ack" /\ recv_t' = "close"
EndsWaiting  == pc = "wait" /\ pc' = "exited"

\* The parent is executing a command, from the test of socket_flag to 339.
Executing ==
  \/ pc \in {"exec", "memcpy", "clear"}
  \/ job \in {"reply", "failed", "list", "dump"}

\* The parent has a command to execute, or is executing one.
Busy == socket_flag = 1 \/ Executing

HandingOver == pc \in {"ack0", "lput", "kill", "put", "signal", "wait"}

\* A session that starts with nothing in flight starts afresh.
Afresh == Accepts /\ ~HandingOver /\ ready_flag = 0

TrackHandshake ==
  /\ torn' = (\/ torn /\ ~Afresh
              \/ CancelsSnd /\ pc = "wait"
              \/ AcksAtEof /\ pc \in {"lput", "kill", "wait"}
              \/ EndsWaiting)
  /\ copies' = IF torn' \/ StoresText THEN 0
               ELSE IF Writes /\ copies < 2 THEN copies + 1 ELSE copies

\* posted and view are kept only while nothing has been overrun or torn.
TrackCommands ==
  /\ overrun' = IF StoresRequest THEN Busy \/ (overrun /\ ~Accepts)
                                 ELSE overrun
  /\ posted' = CASE overrun' -> NoCommand
                 [] ~overrun' /\ recv_t = "kill" /\ recv_t' = "read" -> cmd
                 [] ~overrun' /\ pc = "clear" /\ pc' = "scan" -> NoCommand
                 [] OTHER -> posted
  /\ view' = CASE Accepts \/ overrun' \/ torn' -> {}
               [] Writes /\ data_to_send.code = ADD_DEVICE
                  /\ ~overrun' /\ ~torn' -> view \cup {data_to_send.id}
               [] Writes /\ data_to_send.code = REMOVE_DEVICE
                  /\ ~overrun' /\ ~torn' -> view \ {data_to_send.id}
               [] OTHER -> view

TrackRound ==
  /\ round' = CASE pc = "top" /\ pc' = "scan" ->
                     IF nodes = <<>> THEN "unpolled" ELSE "polled"
                [] ~blocked /\ blocked' /\ IsReading(rx_buffer)
                   /\ rx_buffer.uid = id_handling -> "answered"
                [] OTHER -> round
  /\ shrunk' = (shrunk \/ Len(nodes') < Len(nodes))

Track == TrackHandshake /\ TrackCommands /\ TrackRound

-----------------------------------------------------------------------------

\* SIGCHLD: the parent removes the shared object and exits.
SigChld ==
  /\ ~child_alive
  /\ pc # "exited"
  /\ pc' = "exited"
  /\ UNCHANGED <<job_vars, registry_vars, loop_vars, child_vars, shared_vars>>

(***************************************************************************)
(* SIGINT: the parent puts the radio to sleep, unregisters, removes the    *)
(* shared object and exits, wherever it is.  From the keyboard the signal  *)
(* goes to the child too, which it ends; otherwise the child serves on.    *)
(***************************************************************************)
SigInt ==
  /\ Interrupts
  /\ pc # "exited"
  /\ pc' = "exited"
  /\ child_alive' \in {child_alive, FALSE}
  /\ UNCHANGED <<job_vars, registry_vars, loop_vars, server, thread_vars, conn,
                 shared_vars>>

\* Both processes are gone.
Over ==
  /\ pc = "exited"
  /\ ~child_alive
  /\ UNCHANGED vars

Next ==
  \/ /\ \/ Parent /\ UNCHANGED child_vars
        \/ Child /\ UNCHANGED parent_vars
        \/ SigChld \/ SigInt
     /\ Track
  \/ Over

Spec == Init /\ [][Next]_vars

(***************************************************************************)
(* Fairness: every thread that can run does.  accept(), read() and write() *)
(* wait for the client, which may come, send and read as it likes or not   *)
(* at all: they are not fair, and nothing is assumed of the radio either.  *)
(***************************************************************************)
ServerStep == StartThreads \/ JoinThreads \/ SignalClosed
SendStep   == SndWake \/ SndClear \/ SndNapped \/ SndAck \/ SndDie
RecvStep   == RecvId \/ RecvSet \/ RecvSignal \/ RecvEof \/ RecvAck
              \/ RecvClose \/ RecvError

Fairness ==
  /\ WF_vars(ParentStep /\ UNCHANGED child_vars /\ Track)
  /\ WF_vars(SigChld /\ Track)
  /\ WF_vars(child_alive /\ SendStep /\ UNCHANGED parent_vars /\ Track)
  /\ WF_vars(child_alive /\ RecvStep /\ UNCHANGED parent_vars /\ Track)
  /\ WF_vars(child_alive /\ ServerStep /\ UNCHANGED parent_vars /\ Track)

FairSpec == Spec /\ Fairness

TypeOK == SharedTypeOK /\ ParentTypeOK /\ ChildTypeOK /\ HistoryTypeOK

-----------------------------------------------------------------------------
(* The hand-over of a report. *)

(***************************************************************************)
(* The parent goes on after a report only when the sender thread has       *)
(* written that report to the socket, once: neither lost nor repeated, in  *)
(* every interleaving of the ack and ready_flag writes with the sender's,  *)
(* as long as no session ends in the middle of a hand-over.                *)
(***************************************************************************)
ExactlyOnce ==
  /\ ~torn => copies <= 1
  /\ ~torn /\ Acked => copies = 1

(***************************************************************************)
(* The sender thread is inside write() or clearing ready_flag only while   *)
(* the parent spins on ack: the parent never rewrites data_to_send under   *)
(* it, and no ready_flag raised by the parent is cleared unseen.           *)
(***************************************************************************)
NoRace ==
  ~torn /\ snd \in {"write", "clear"} /\ ~snd_cancelled =>
    pc \in {"wait", "exited"}

\* Where module Handshake sees the hand-over, and the report it is about.
Phase ==
  CASE torn \/ pc = "exited" -> "void"
    [] ~torn /\ pc \in {"signal", "kill", "wait"} -> "stored"
    [] OTHER -> "idle"

Handover ==
  INSTANCE Handshake WITH Report <- Texts, NoReport <- Empty, phase <- Phase,
    report <- IF Phase = "stored" THEN data_to_send ELSE Empty,
    deliveries <- IF Phase = "void" THEN 0 ELSE copies

(***************************************************************************)
(* The two processes together implement Handshake: the text the parent     *)
(* stores is the text the client gets, before the parent goes on and       *)
(* stores another, and every write() of the sender is the one delivery of  *)
(* a stored report: there is no second one, during the hand-over or after  *)
(* it.  For every interleaving of ack, ready_flag, the signals and         *)
(* data_to_send, until a session is torn.                                  *)
(***************************************************************************)
HandshakeSpec == Handover!Spec

-----------------------------------------------------------------------------
(* Commands. *)

(***************************************************************************)
(* A client that posts a command only when the one before it has been      *)
(* executed gets exactly that command executed: the parent's three         *)
(* separate reads (request, id_to_handler, user_set) all see it.           *)
(***************************************************************************)
MailboxExact ==
  ~overrun /\ pc \in {"exec", "memcpy"} /\ op \in UserRequests =>
    [posted EXCEPT !.set = NoSchedule]
      = [op |-> op, id |-> id_to_handler, set |-> NoSchedule]
    /\ (op = MODE_MANUAL => user_set = posted.set)

(***************************************************************************)
(* What such a client is told of its ADD_DEVICE or REMOVE_DEVICE is true   *)
(* of the registry when it is told: the device is registered, or is gone.  *)
(***************************************************************************)
ReplyTruthful ==
  ~overrun /\ ~torn /\ pc = "wait" /\ job = "reply" /\ SlotsOf(Junk) = {} =>
    /\ data_to_send = Text(posted.op, posted.id)
    /\ Registered(posted.id) <=> posted.op = ADD_DEVICE

\* add_device's scan of newLoRa keeps every id in it once.
RegistryUnique ==
  \A i, j \in DOMAIN nodes : nodes[i] = nodes[j] /\ nodes[i] # Junk => i = j

(***************************************************************************)
(* A device leaves the registry by its own REMOVE_DEVICE, or because       *)
(* remove_device, shrinking newLoRa to node_count * sizeof(uint32_t), left *)
(* its slot outside the malloc block: no removal costs another device.     *)
(***************************************************************************)
DevicesKept ==
  [][\A id \in Ids : Registered(id) /\ ~Registered(id)' =>
       \/ op = REMOVE_DEVICE /\ pc = "exec" /\ id_to_handler = id
       \/ FirstSlot(id) > intact]_vars

(***************************************************************************)
(* Once its list has been sent, a client knows exactly the registered      *)
(* devices whenever the parent is between two commands: the list of        *)
(* GOT_SOCK and the replies after it keep the two in step.                 *)
(***************************************************************************)
ClientInStep ==
  /\ ~torn /\ ~overrun /\ SlotsOf(Junk) = {}
  /\ conn = "open" /\ server = "join" /\ ~snd_cancelled
  /\ sock_status = 1 /\ socket_flag = 0
  /\ pc \in {"top", "scan", "sock", "round_end", "finish"}
  => view = Range(nodes)

-----------------------------------------------------------------------------
(* Polling. *)

(***************************************************************************)
(* A node is reported disconnected only if it is the one this round asked  *)
(* and no reading of it was taken in this round.  (When the list was empty *)
(* at the head of the round nobody was asked, and the report names a stale *)
(* or uninitialised id.)                                                   *)
(***************************************************************************)
DisconnectJustified ==
  job = "disc" /\ round # "unpolled" =>
    round = "polled" /\ (tx.pkt_type = REQUEST_DATA => tx.destination_id = id_handling)

(***************************************************************************)
(* What gateway.h:86 says of a response: light intensity, illuminance,     *)
(* voltage and current.  Such a response of the node being polled answers  *)
(* the poll.  (The code wants the fifth field of main.c:697 as well.)      *)
(***************************************************************************)
DocumentedResponseAnswers ==
  pc = "finish" /\ ~pending /\ rx_buffer.fields = 4
    /\ rx_buffer.pkt_type = RESPONSE_DATA
    /\ rx_buffer.destination_id = GATEWAY_ID /\ rx_buffer.uid = id_handling
    => status = "HANDLED"

\* SIGUSR1 is blocked exactly while a frame is being handled.
SignalMask ==
  /\ pc # "exited" => (blocked <=> pc = "finish" \/ job = "data")
  /\ pending => blocked

\* A poll names a registered node, until a removal has shrunk newLoRa.
PollsRegistered ==
  [][pc = "top" /\ pc' = "scan" /\ nodes # <<>> /\ ~shrunk
       => tx'.destination_id \in Range(nodes)]_vars

-----------------------------------------------------------------------------
(* Liveness. *)

\* A client that stays connected takes, sooner or later, what it is sent.
ClientReads == []<>~(snd = "write" /\ conn = "open")

(***************************************************************************)
(* While a session goes on, every report handed over in it is acknowledged *)
(* (or the session ends), if the client reads: write() may wait for ever   *)
(* for one that stays connected and does not, and the parent with it.      *)
(***************************************************************************)
ReportAcked ==
  ClientReads =>
    (pc = "wait" /\ ~torn /\ server = "join" /\ ~snd_cancelled
       ~> pc # "wait" \/ snd_cancelled)

\* The list is empty and HANDLED was never reset: no command is read again.
Deaf == nodes = <<>> /\ status = "HANDLED"

(***************************************************************************)
(* If clients keep coming and closing their connections, a socket_flag     *)
(* that is up while no command is being executed makes the parent execute  *)
(* what the mailbox holds, unless it has gone deaf or exits: no wait for   *)
(* an ack keeps it from that, torn hand-overs included.  (One raised while *)
(* a command is being executed is cleared with it, at main.c:339, and may  *)
(* never be looked at: nothing is promised of it.)                         *)
(***************************************************************************)
CommandsServed ==
  []<>(recv_t = "ack") =>
    (socket_flag = 1 /\ ~Executing ~> pc = "exec" \/ Deaf \/ pc = "exited")

(***************************************************************************)
(* Round robin: while nothing is removed and rounds keep starting, every   *)
(* registered node is polled again and again.                              *)
(***************************************************************************)
RoundRobin ==
  []~shrunk /\ []<>(pc = "top") =>
    \A id \in Ids :
      []<>(Registered(id) => pc = "scan" /\ id_handling = id)

=============================================================================
