----------------------------- MODULE MCSsd1306 -----------------------------
(***************************************************************************)
(* Values of the constants for TLC: a display of three rows.  Line 0       *)
(* stands for the lines of getinfo that are cleared first.                 *)
(***************************************************************************)
EXTENDS Ssd1306

CONSTANTS a, b

Info == <<1, 0>>
NodeInfo == <<2>>
SomeTexts == [l \in 0 .. 2 |-> CASE l = 0 -> {<<a, b>>, <<b>>}
                               [] l = 1 -> {<<a, a>>}
                               [] l = 2 -> {<<a>>}]
LoRaGateway == [x |-> 1, y |-> 0, text |-> <<a>>]
PleaseWait  == [x |-> 0, y |-> 1, text |-> <<b>>]
Bye         == [x |-> 1, y |-> 0, text |-> <<b>>]

=============================================================================
