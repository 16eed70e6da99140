----------------------------- MODULE MCGateway -----------------------------
(***************************************************************************)
(* Values of the constants for TLC.                                        *)
(***************************************************************************)
EXTENDS GatewaySystem

CONSTANTS a, b, c, s1

None       == {}
Empty0     == {<<>>}
OneA       == {<<a>>}
MaybeA     == {<<>>, <<a>>}
OneOrThree == {<<a>>, <<a, b, c>>}

Line(o, id) == [op |-> o, id |-> id, set |-> NoSchedule]
Manual(id)  == [op |-> MODE_MANUAL, id |-> id, set |-> s1]

AddRemoveA == {Line(ADD_DEVICE, a), Line(REMOVE_DEVICE, a)}
AddB       == {Line(ADD_DEVICE, b)}
RemoveA    == {Line(REMOVE_DEVICE, a)}
Modes      == {Manual(a), Line(MODE_AUTO, a)}

Response(id, n) == [pkt_type |-> RESPONSE_DATA, uid |-> id,
                    destination_id |-> GATEWAY_ID, fields |-> n]
ReadingA   == {Response(a, 5)}
FourFields == {Response(a, 4)}
FormatsA   == {Response(a, 5), Response(a, 4)}
=============================================================================
