---------------------------- MODULE SocketServer ----------------------------
(***************************************************************************)
(* The child process (main.c:360-406) and its two threads, send_msg        *)
(* (main.c:56-73) and recv_msg (main.c:74-171), with the one TCP client    *)
(* they serve at a time.                                                   *)
(*                                                                         *)
(* Threads are program counters:                                           *)
(*   server   "accept" -> "connected" -> "join" -> "closing" -> "accept"   *)
(*   snd      "idle" -> "write" -> "clear" -> "nap" -> "ack" -> "idle",    *)
(*            "dead" before the first session and once cancelled           *)
(*   recv_t   "read" -> "id" -> ["set" ->] "kill" -> "read", and from      *)
(*            "read" by "ack" or directly to "close" -> "dead"             *)
(*                                                                         *)
(* pthread_cancel is deferred: the sender dies only at write() or sleep(). *)
(* A signal is delivered in the step that sends it, which any later        *)
(* delivery amounts to: kill() is the sender's last step on the command.   *)
(***************************************************************************)
EXTENDS DeviceCommand

CONSTANTS Commands,  \* the command lines the clients send
          Rude       \* bound: whether clients also reset connections, or send
                     \* lines with fields missing

ASSUME CommandAssumption == Commands \subseteq Command /\ Rude \in BOOLEAN

VARIABLES
  server,         \* main thread of the child
  snd,            \* thread send_msg
  snd_cancelled,  \* a pthread_cancel(snd) is pending
  recv_t,         \* thread recv_msg
  cmd,            \* the line recv_msg is storing
  conn,           \* "closed", "open", "fin" (the client has closed), "rst"
                  \* (reset while open), "gone" (reset and reported once)
  child_alive     \* FALSE once a signal has killed the child

child_vars  == <<server, snd, snd_cancelled, recv_t, cmd, conn, child_alive>>
thread_vars == <<snd, snd_cancelled, recv_t, cmd>>

ChildTypeOK ==
  /\ server \in {"accept", "connected", "join", "closing"}
  /\ snd \in {"idle", "write", "clear", "nap", "ack", "dead"}
  /\ snd_cancelled \in BOOLEAN
  /\ recv_t \in {"read", "id", "set", "kill", "ack", "close", "dead"}
  /\ cmd \in Commands \cup {NoCommand}
  /\ conn \in {"closed", "open", "fin", "rst", "gone"}
  /\ child_alive \in BOOLEAN

ChildInit ==
  /\ server = "accept"
  /\ snd = "dead"
  /\ snd_cancelled = FALSE
  /\ recv_t = "dead"
  /\ cmd = NoCommand
  /\ conn = "closed"
  /\ child_alive = TRUE

-----------------------------------------------------------------------------
(* Main thread. *)

\* accept() returns; the request field is set before the parent is signalled.
Accept ==
  /\ server = "accept"
  /\ server' = "connected"
  /\ conn' = "open"
  /\ request' = GOT_SOCK
  /\ UNCHANGED <<thread_vars, child_alive, id_to_handler, user_set,
                 socket_flag, report_vars>>

\* kill(ppid, SIGUSR2), then both threads are created.
StartThreads ==
  /\ server = "connected"
  /\ server' = "join"
  /\ socket_flag' = 1
  /\ snd' = "idle"
  /\ snd_cancelled' = FALSE
  /\ recv_t' = "read"
  /\ UNCHANGED <<cmd, conn, child_alive, request, id_to_handler, user_set,
                 report_vars>>

JoinThreads ==
  /\ server = "join"
  /\ snd = "dead"
  /\ recv_t = "dead"
  /\ server' = "closing"
  /\ request' = CTL_SOCK
  /\ UNCHANGED <<thread_vars, conn, child_alive, id_to_handler, user_set,
                 socket_flag, report_vars>>

SignalClosed ==
  /\ server = "closing"
  /\ server' = "accept"
  /\ socket_flag' = 1
  /\ UNCHANGED <<thread_vars, conn, child_alive, request, id_to_handler,
                 user_set, report_vars>>

MainThread == Accept \/ StartThreads \/ JoinThreads \/ SignalClosed

-----------------------------------------------------------------------------
(* Thread send_msg. *)

\* Mutant: the report is acknowledged before it is written.
SndWakeAcks ==
  /\ snd = "idle"
  /\ ready_flag = 1
  /\ snd' = "write"
  /\ ack' = 1
  /\ UNCHANGED <<server, snd_cancelled, recv_t, cmd, conn, child_alive,
                 mailbox_vars, data_to_send, ready_flag>>

SndWake ==
  /\ snd = "idle"
  /\ ready_flag = 1
  /\ snd' = "write"
  /\ UNCHANGED <<server, snd_cancelled, recv_t, cmd, conn, child_alive,
                 shared_vars>>

(***************************************************************************)
(* write() to a peer that has closed succeeds, and may be answered by a    *)
(* reset.  A reset of an open connection is reported once, to write() or   *)
(* to read(); a write() after that raises SIGPIPE, which nobody handles.   *)
(* To a client that stays connected and does not read it may not return.   *)
(***************************************************************************)
SndWrite ==
  /\ snd = "write"
  /\ ~snd_cancelled
  /\ snd' = "clear"
  /\ conn' \in CASE conn = "fin" -> {"fin", "gone"}
               [] conn = "rst" -> {"gone"}
               [] OTHER        -> {conn}
  /\ child_alive' = (conn # "gone")
  /\ UNCHANGED <<server, snd_cancelled, recv_t, cmd, shared_vars>>

\* Mutant: ready_flag stays up.
SndClearForgotten ==
  /\ snd = "clear"
  /\ snd' = "nap"
  /\ UNCHANGED <<server, snd_cancelled, recv_t, cmd, conn, child_alive,
                 shared_vars>>

SndClear ==
  /\ snd = "clear"
  /\ snd' = "nap"
  /\ ready_flag' = 0
  /\ UNCHANGED <<server, snd_cancelled, recv_t, cmd, conn, child_alive,
                 mailbox_vars, ack, data_to_send>>

\* sleep(1) is over.
SndNapped ==
  /\ snd = "nap"
  /\ ~snd_cancelled
  /\ snd' = "ack"
  /\ UNCHANGED <<server, snd_cancelled, recv_t, cmd, conn, child_alive,
                 shared_vars>>

\* Mutant: the report is not acknowledged.
SndAckForgotten ==
  /\ snd = "ack"
  /\ snd' = "idle"
  /\ UNCHANGED <<server, snd_cancelled, recv_t, cmd, conn, child_alive,
                 shared_vars>>

SndAck ==
  /\ snd = "ack"
  /\ snd' = "idle"
  /\ ack' = 1
  /\ UNCHANGED <<server, snd_cancelled, recv_t, cmd, conn, child_alive,
                 mailbox_vars, data_to_send, ready_flag>>

\* The pending cancellation is acted upon at write(), sleep(1) or sleep(0.1).
SndDie ==
  /\ snd_cancelled
  /\ \/ snd \in {"write", "nap"}
     \/ snd = "idle" /\ ready_flag = 0
  /\ snd' = "dead"
  /\ UNCHANGED <<server, snd_cancelled, recv_t, cmd, conn, child_alive,
                 shared_vars>>

SendMsg == SndWake \/ SndWrite \/ SndClear \/ SndNapped \/ SndAck \/ SndDie

-----------------------------------------------------------------------------
(* Thread recv_msg. *)

\* read() returns a command line: the request field is stored first ...
RecvCommand(c) ==
  /\ recv_t = "read"
  /\ conn = "open"
  /\ recv_t' = "id"
  /\ cmd' = c
  /\ request' = c.op
  /\ UNCHANGED <<server, snd, snd_cancelled, conn, child_alive,
                 id_to_handler, user_set, socket_flag, report_vars>>

\* Mutant: the parent is signalled before the schedule is stored.
RecvIdEarly ==
  /\ recv_t = "id"
  /\ recv_t' = "kill"
  /\ id_to_handler' = cmd.id
  /\ UNCHANGED <<server, snd, snd_cancelled, cmd, conn, child_alive,
                 request, user_set, socket_flag, report_vars>>

\* ... then the id ...
RecvId ==
  /\ recv_t = "id"
  /\ recv_t' = IF cmd.op = MODE_MANUAL THEN "set" ELSE "kill"
  /\ id_to_handler' = cmd.id
  /\ UNCHANGED <<server, snd, snd_cancelled, cmd, conn, child_alive,
                 request, user_set, socket_flag, report_vars>>

\* ... for MODE_MANUAL the sixteen times of the schedule ...
RecvSet ==
  /\ recv_t = "set"
  /\ recv_t' = "kill"
  /\ user_set' = cmd.set
  /\ UNCHANGED <<server, snd, snd_cancelled, cmd, conn, child_alive,
                 request, id_to_handler, socket_flag, report_vars>>

\* ... and the parent is signalled.
RecvSignal ==
  /\ recv_t = "kill"
  /\ recv_t' = "read"
  /\ cmd' = NoCommand
  /\ socket_flag' = 1
  /\ UNCHANGED <<server, snd, snd_cancelled, conn, child_alive,
                 request, id_to_handler, user_set, report_vars>>

\* The line "exit": the sender is cancelled and nothing is acknowledged.
RecvExit ==
  /\ recv_t = "read"
  /\ conn = "open"
  /\ recv_t' = "close"
  /\ snd_cancelled' = TRUE
  /\ UNCHANGED <<server, snd, cmd, conn, child_alive, shared_vars>>

\* read() returns 0: the sender is cancelled ...
RecvEof ==
  /\ recv_t = "read"
  /\ conn \in {"fin", "gone"}
  /\ recv_t' = "ack"
  /\ snd_cancelled' = TRUE
  /\ UNCHANGED <<server, snd, cmd, conn, child_alive, shared_vars>>

\* ... and whatever the parent may be waiting for is acknowledged.
RecvAck ==
  /\ recv_t = "ack"
  /\ recv_t' = "close"
  /\ ack' = 1
  /\ UNCHANGED <<server, snd, snd_cancelled, cmd, conn, child_alive,
                 mailbox_vars, data_to_send, ready_flag>>

RecvClose ==
  /\ recv_t = "close"
  /\ recv_t' = "dead"
  /\ conn' = "closed"
  /\ UNCHANGED <<server, snd, snd_cancelled, cmd, child_alive, shared_vars>>

(***************************************************************************)
(* read() returns -1, which the test at main.c:83 takes for data: strtok   *)
(* finds no token in the zeroed buffer and atoi(NULL) ends the process.    *)
(***************************************************************************)
RecvError ==
  /\ recv_t = "read"
  /\ conn = "rst"
  /\ child_alive' = FALSE
  /\ UNCHANGED <<server, thread_vars, conn, shared_vars>>

(***************************************************************************)
(* A line with a field missing, or of blanks, ends the process likewise,   *)
(* whatever of it has been stored by then.  One whose first field is no    *)
(* code of a request changes nothing.                                      *)
(***************************************************************************)
RecvBroken ==
  /\ Rude
  /\ recv_t \in {"id", "set"} \/ (recv_t = "read" /\ conn = "open")
  /\ child_alive' = FALSE
  /\ UNCHANGED <<server, thread_vars, conn, shared_vars>>

RecvMsg ==
  \/ \E c \in Commands : RecvCommand(c)
  \/ RecvId \/ RecvSet \/ RecvSignal
  \/ RecvExit \/ RecvEof \/ RecvAck \/ RecvClose
  \/ RecvError \/ RecvBroken

-----------------------------------------------------------------------------
(* The client at the other end of the connection. *)

ClientCloses ==
  /\ conn = "open"
  /\ conn' = "fin"
  /\ UNCHANGED <<server, thread_vars, child_alive, shared_vars>>

ClientResets ==
  /\ Rude
  /\ conn \in {"open", "fin"}
  /\ conn' = IF conn = "open" THEN "rst" ELSE "gone"
  /\ UNCHANGED <<server, thread_vars, child_alive, shared_vars>>

Client == ClientCloses \/ ClientResets

Child ==
  /\ child_alive
  /\ MainThread \/ SendMsg \/ RecvMsg \/ Client

=============================================================================
