---------------------------- MODULE MCLoRaFrame ----------------------------
(***************************************************************************)
(* Values of the constants for TLC: ids as in the repository (GATEWAY_ID   *)
(* and node_list.txt) and one with a zero byte, texts with a common        *)
(* beginning, the empty and the longest text.                              *)
(***************************************************************************)
EXTENDS LoRaFrame

Gw    == 20021163
NodeA == 20021164
NodeB == 20021165
Holey == 20054017   \* 01 32 00 01

Longest == [n \in 1 .. PACKET_SIZE - BASE_DATA - 2 |-> 50]
Poll(id, d)   == [pkt_type |-> 2, uid |-> Gw, destination_id |-> id, data |-> d]
Answer(id, d) == [pkt_type |-> 3, uid |-> id, destination_id |-> Gw, data |-> d]

Polls == {Poll(NodeA, <<49>>), Poll(NodeB, Longest), Poll(Holey, <<49>>),
          [Poll(NodeA, <<>>) EXCEPT !.pkt_type = 7]}
Responses ==
  {Answer(NodeA, <<49>>), Answer(NodeA, <<49, 50>>), Answer(NodeB, <<49>>),
   Answer(NodeA, <<>>),
   Answer(NodeB, Append(Longest, 50)), Answer(Holey, <<49>>),
   Poll(NodeA, <<49, 50>>)}

\* The code has 256 index values; four will do.
Lists == {<<>>, <<NodeB>>, <<NodeB, Holey, NodeA>>, <<Holey, Holey, Holey, NodeB, NodeA>>}
=============================================================================
