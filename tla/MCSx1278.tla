------------------------------ MODULE MCSx1278 ------------------------------
(***************************************************************************)
(* Values of the constants for TLC.                                        *)
(***************************************************************************)
EXTENDS Sx1278

CONSTANTS f, g, p

\* TransmitEnds promises nothing once reception and transmission have met, and
\* without a restart that is for good: its counterexamples lie before it.
NotCrossed == ~crossed

=============================================================================
