----------------------------- MODULE LoRaFrame -----------------------------
(***************************************************************************)
(* A packet on its way, byte by byte.  Down: the gateway formats it        *)
(* (lora.c), hands it to the driver as a C string, and the driver writes   *)
(* it to the chip as another one.  Up: the driver stores what came, drops  *)
(* echoes and repetitions by comparing C strings, copies the rest as a     *)
(* string, and the gateway takes it apart and looks the sender up with an  *)
(* 8-bit index.  A zero byte ends each of these strings.                   *)
(*                                                                         *)
(* A frame comes when the one before has been dealt with; module Sx1278    *)
(* has what happens when they overlap.  Buffers are indexed as in C.       *)
(***************************************************************************)
EXTENDS Integers, Sequences, Functions, FiniteSetsExt

CONSTANTS PACKET_SIZE, BASE_DATA,
          RESPONSE_DATA, GATEWAY_ID,
          MaxId,         \* UINT32_MAX in the code
          IndexValues,   \* how many values uint8_t i has
          Requests,      \* packets the gateway sends
          Answers,       \* packets others send
          NodeLists      \* ids in newLoRa

Byte == 0 .. 255
Id   == 0 .. MaxId
Text == Seq(1 .. 255)
Packet == [pkt_type : Byte, uid : Id, destination_id : Id, data : Text]

(***************************************************************************)
(* The layout of a packet, and texts that fit: two digits a time make at   *)
(* most 47 characters of the 50; BurstWrite needs a byte before and a zero *)
(* after the packet, the receiving side the zero.                          *)
(***************************************************************************)
ASSUME FrameAssumption ==
  /\ PACKET_SIZE \in 12 .. 255 /\ BASE_DATA = 10
  /\ MaxId \in Nat /\ MaxId \div 16777216 \in Byte
  /\ GATEWAY_ID \in Id /\ RESPONSE_DATA \in Byte \ {0}
  /\ IndexValues \in Nat \ {0}
  /\ Requests \subseteq Packet /\ Answers \subseteq Packet
  /\ \A p \in Requests : Len(p.data) <= PACKET_SIZE - BASE_DATA - 2
  /\ \A p \in Answers : Len(p.data) <= PACKET_SIZE - BASE_DATA - 1
  /\ NodeLists \subseteq Seq(Id)

Index  == 0 .. PACKET_SIZE - 1
Buffer == [Index -> Byte]
Zeros  == [n \in Index |-> 0]

-----------------------------------------------------------------------------
(* C strings. *)

\* The first zero: no string here fills its buffer.
strlen(b) ==
  LET zeros == {n \in Index : b[n] = 0}
  IN  IF zeros = {} THEN PACKET_SIZE ELSE Min(zeros)

\* The string in b, in a buffer that was cleared before.
Copied(b) ==
  LET len == strlen(b) IN [n \in Index |-> IF n < len THEN b[n] ELSE 0]

\* strncmp(b, c, strlen(b)) = 0.
Begins(b, c) == \A n \in 0 .. strlen(b) - 1 : b[n] = c[n]

-----------------------------------------------------------------------------
(* format_pkt, and the unpacking in handler_rx_data. *)

\* Byte k = 1 .. 4 of an id, the most significant first.
Weight == <<16777216, 65536, 256, 1>>
IdByte(id, k) == (id \div Weight[k]) % 256
IdAt(b, n) == b[n] * Weight[1] + b[n + 1] * Weight[2] + b[n + 2] * Weight[3] + b[n + 3]

format_pkt(pkt) ==
  [n \in Index |->
     CASE n = 0                                -> pkt.pkt_type
       [] n \in 1 .. 4                         -> IdByte(pkt.uid, n)
       [] n \in 5 .. 8                         -> IdByte(pkt.destination_id, n - 4)
       [] n = 9                                -> Len(pkt.data)
       [] n \in 10 .. 9 + Len(pkt.data)        -> pkt.data[n - 9]
       [] OTHER                                -> 0]

Unpacked(b) ==
  [pkt_type |-> b[0], uid |-> IdAt(b, 1), destination_id |-> IdAt(b, 5),
   data |-> [n \in 1 .. b[9] |-> b[BASE_DATA + n - 1]]]

-----------------------------------------------------------------------------

VARIABLES
  sender,           \* where the sending of a packet is
  asked,            \* history: the packet given to lora_transmit last
  transmit_buffer,
  air,              \* the FIFO as sent: what other radios get
  receiver,         \* where the frame that came is
  came,             \* history: the packet it was
  kept,             \* history: the packet stored last
  cache_buffer, receive_buffer, buff,
  foo,              \* the unpacked packet
  newLoRa,
  i                 \* the 8-bit index into newLoRa

down_vars == <<sender, asked, transmit_buffer, air>>
up_vars   == <<receiver, came, kept, cache_buffer, receive_buffer, buff, foo, i>>
vars      == <<down_vars, up_vars, newLoRa>>

Nothing == [pkt_type |-> 0, uid |-> 0, destination_id |-> 0, data |-> <<>>]

TypeOK ==
  /\ sender \in {"idle", "burst", "sent"}
  /\ receiver \in {"idle", "compare", "read", "unpack", "search", "found", "unknown"}
  /\ asked \in Requests \cup {Nothing}
  /\ came \in Answers \cup Requests \cup {Nothing}
  /\ kept \in Answers \cup Requests \cup {Nothing}
  /\ {transmit_buffer, air, cache_buffer, receive_buffer, buff} \subseteq Buffer
  /\ foo.uid \in Id
  /\ i \in 0 .. IndexValues - 1

Init ==
  /\ sender = "idle" /\ receiver = "idle"
  /\ asked = Nothing /\ came = Nothing /\ kept = Nothing
  /\ transmit_buffer = Zeros /\ air = Zeros
  /\ cache_buffer = Zeros /\ receive_buffer = Zeros /\ buff = Zeros
  /\ foo = Nothing /\ i = 0
  /\ newLoRa \in NodeLists

-----------------------------------------------------------------------------
(* Down. *)

\* A poll or a command: format_pkt into a buffer of main, then lora_transmit and
\* sx1278_write put its strlen bytes into the cleared buffer of the driver.
Transmit(p) ==
  /\ sender \in {"idle", "sent"}
  /\ sender' = "burst"
  /\ asked' = p
  /\ transmit_buffer' = Copied(format_pkt(p))
  /\ UNCHANGED <<air, up_vars, newLoRa>>

\* The string LoRa_BurstWrite builds: the FIFO's address, then the packet.
ToSend(len) ==
  [n \in Index |-> CASE n = 0           -> 128
                     [] n \in 1 .. len  -> transmit_buffer[n - 1]
                     [] OTHER           -> 0]

\* Mutant: the address is counted as a byte of the packet.
SentShort(to_send, length) ==
  LET filled == strlen(to_send) - 2
  IN  [n \in Index |-> IF n < length /\ n < filled THEN to_send[n + 1] ELSE 0]

\* Its strlen bytes fill the FIFO, and RegPayloadLength of them are sent.
Sent(to_send, length) ==
  LET filled == strlen(to_send) - 1
  IN  [n \in Index |-> IF n < length /\ n < filled THEN to_send[n + 1] ELSE 0]

LoRa_BurstWrite ==
  /\ sender = "burst"
  /\ sender' = "sent"
  /\ LET len == strlen(transmit_buffer) IN air' = Sent(ToSend(len), len)
  /\ UNCHANGED <<asked, transmit_buffer, up_vars, newLoRa>>

-----------------------------------------------------------------------------
(* Up. *)

\* LoRa_receive: an answer, or the gateway's own packet sent on by another radio.
LoRa_receive(p, frame) ==
  /\ receiver \in {"idle", "found", "unknown"}
  /\ receiver' = "compare"
  /\ came' = p
  /\ cache_buffer' = frame
  /\ UNCHANGED <<kept, receive_buffer, buff, foo, i, down_vars, newLoRa>>

\* Mutant: the comparison ends where the shorter string does.
IsEchoPrefix ==
  \/ Begins(cache_buffer, transmit_buffer) \/ Begins(transmit_buffer, cache_buffer)
  \/ Begins(cache_buffer, receive_buffer)

\* workqueue_fn: neither an echo nor a repetition is stored, nor signalled.
IsEcho == Begins(cache_buffer, transmit_buffer) \/ Begins(cache_buffer, receive_buffer)

Drop ==
  /\ receiver = "compare"
  /\ IsEcho
  /\ receiver' = "idle"
  /\ cache_buffer' = Zeros
  /\ UNCHANGED <<came, kept, receive_buffer, buff, foo, i, down_vars, newLoRa>>

Store ==
  /\ receiver = "compare"
  /\ ~IsEcho
  /\ receiver' = "read"
  /\ receive_buffer' = Copied(cache_buffer)
  /\ kept' = came
  /\ UNCHANGED <<came, cache_buffer, buff, foo, i, down_vars, newLoRa>>

\* Mutant: the buffer of get_data_from_node is not cleared first.
ReadOver ==
  /\ receiver = "read"
  /\ receiver' = "unpack"
  /\ buff' = [n \in Index |-> IF n < strlen(receive_buffer) THEN receive_buffer[n]
                                                            ELSE buff[n]]
  /\ UNCHANGED <<came, kept, cache_buffer, receive_buffer, foo, i, down_vars, newLoRa>>

\* lora_receive, sx1278_read: strlen bytes into the cleared buffer.
Read ==
  /\ receiver = "read"
  /\ receiver' = "unpack"
  /\ buff' = Copied(receive_buffer)
  /\ UNCHANGED <<came, kept, cache_buffer, receive_buffer, foo, i, down_vars, newLoRa>>

\* handler_rx_data: packets of other types, or for others, are left alone.
Unpack ==
  /\ receiver = "unpack"
  /\ foo' = IF buff[0] = RESPONSE_DATA THEN Unpacked(buff) ELSE Nothing
  /\ i' = 0
  /\ receiver' = IF foo'.pkt_type = RESPONSE_DATA /\ foo'.destination_id = GATEWAY_ID
                   THEN "search" ELSE "idle"
  /\ UNCHANGED <<came, kept, cache_buffer, receive_buffer, buff, down_vars, newLoRa>>

\* Mutant: the last slot is not looked at.
SearchShort ==
  /\ receiver = "search"
  /\ receiver' = CASE i + 1 >= Len(newLoRa) -> "unknown"
                   [] i + 1 < Len(newLoRa) /\ newLoRa[i + 1] = foo.uid -> "found"
                   [] OTHER -> "search"
  /\ i' = IF receiver' = "search" THEN (i + 1) % IndexValues ELSE i
  /\ UNCHANGED <<came, kept, cache_buffer, receive_buffer, buff, foo, down_vars, newLoRa>>

\* Mutant: the index is not advanced past a slot of somebody else.
SearchStays ==
  /\ receiver = "search"
  /\ receiver' = CASE i >= Len(newLoRa) -> "unknown"
                   [] i < Len(newLoRa) /\ newLoRa[i + 1] = foo.uid -> "found"
                   [] OTHER -> "search"
  /\ UNCHANGED <<i, came, kept, cache_buffer, receive_buffer, buff, foo, down_vars, newLoRa>>

\* One turn of for (i = 0; i < node_count; i++).
Search ==
  /\ receiver = "search"
  /\ receiver' = CASE i >= Len(newLoRa) -> "unknown"
                   [] i < Len(newLoRa) /\ newLoRa[i + 1] = foo.uid -> "found"
                   [] OTHER -> "search"
  /\ i' = IF receiver' = "search" THEN (i + 1) % IndexValues ELSE i
  /\ UNCHANGED <<came, kept, cache_buffer, receive_buffer, buff, foo, down_vars, newLoRa>>

Next ==
  \/ \E p \in Requests : Transmit(p)
  \/ LoRa_BurstWrite
  \/ \E p \in Answers : LoRa_receive(p, format_pkt(p))
  \/ sender = "sent" /\ LoRa_receive(asked, air)
  \/ Drop \/ Store \/ Read \/ Unpack \/ Search

Spec == Init /\ [][Next]_vars

\* The gateway's loop goes on.
FairSpec == Spec /\ WF_vars(Search)

-----------------------------------------------------------------------------

\* No zero byte comes before the text: node ids are chosen, types are not 0.
Clean(p) ==
  /\ p.pkt_type # 0
  /\ \A k \in 1 .. 4 : IdByte(p.uid, k) # 0 /\ IdByte(p.destination_id, k) # 0

(***************************************************************************)
(* The packet on the air is the packet the gateway meant, whatever strlen  *)
(* is taken of it on its way (lora.c:18, sx1278.c:145, 581-583), unless an *)
(* id has a zero byte.  A length byte of zero does no harm.                *)
(***************************************************************************)
DownExact == sender = "sent" /\ Clean(asked) => Unpacked(air) = asked

(***************************************************************************)
(* What handler_rx_data searches for and reports is what the node sent,    *)
(* through strncpy and sx1278_read's strlen (sx1278.c:100, 130-131).       *)
(***************************************************************************)
UpExact == receiver \in {"search", "found", "unknown"} /\ Clean(came) => foo = came

(***************************************************************************)
(* A frame with a text is dropped unseen only if it is the gateway's last  *)
(* packet or the frame stored last: never one that merely begins like      *)
(* them, as every frame of a node does (sx1278.c:93-97).  (A frame without *)
(* a text ends, as a string, before its length, and so begins them all.)   *)
(***************************************************************************)
OnlyRepeatsDropped ==
  [][Drop /\ Clean(came) /\ came.data # <<>> => came \in {asked, kept}]_vars

(***************************************************************************)
(* The sender is found if it is registered, whichever slot it has, as long *)
(* as the index reaches that slot (main.c:594-597).                        *)
(***************************************************************************)
SenderFound ==
  receiver = "unknown" => foo.uid \notin Range(newLoRa)

\* The search ends, if there are fewer nodes than the 8-bit index has values.
SearchEnds ==
  receiver = "search" ~> receiver # "search" \/ Len(newLoRa) >= IndexValues

=============================================================================
