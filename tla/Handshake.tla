----------------------------- MODULE Handshake -----------------------------
(***************************************************************************)
(* What the hand-over of a report promises, without the two processes, the *)
(* signals and the flags: a report is stored, delivered to the client once *)
(* and unchanged, and only then followed by another one.  Every delivery   *)
(* counts, so that a second one, or one when there is nothing to hand      *)
(* over, is a step this specification does not have.  A session that ends  *)
(* in the middle voids the promise until a new one starts afresh.          *)
(* GatewaySystem implements this (HandshakeSpec there).                    *)
(***************************************************************************)
EXTENDS Naturals

CONSTANTS Report,    \* what may be handed over
          NoReport   \* nothing is being handed over

VARIABLES
  phase,       \* "idle", "stored", or "void" after a torn session
  report,      \* the report being handed over
  deliveries   \* how often the client has been given the last report

handshake_vars == <<phase, report, deliveries>>

HandshakeInit == phase = "idle" /\ report = NoReport /\ deliveries = 0

Store ==
  /\ phase = "idle"
  /\ phase' = "stored"
  /\ report' \in Report
  /\ deliveries' = 0

Deliver ==
  /\ phase = "stored"
  /\ deliveries = 0
  /\ deliveries' = deliveries + 1
  /\ UNCHANGED <<phase, report>>

GoOn ==
  /\ phase = "stored"
  /\ deliveries = 1
  /\ phase' = "idle"
  /\ report' = NoReport
  /\ UNCHANGED deliveries

Tear ==
  /\ phase # "void"
  /\ phase' = "void"
  /\ report' = NoReport
  /\ deliveries' = 0

Mend ==
  /\ phase = "void"
  /\ phase' = "idle"
  /\ report' = NoReport
  /\ deliveries' = 0

HandshakeNext == Store \/ Deliver \/ GoOn \/ Tear \/ Mend

Spec == HandshakeInit /\ [][HandshakeNext]_handshake_vars

=============================================================================
