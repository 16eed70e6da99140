-------------------------- MODULE MCSx1278Settings --------------------------
(***************************************************************************)
(* Values of the constants for TLC: extreme and neighbouring values of the *)
(* enumerations of sx1278.h.  No property names a process, so they are     *)
(* symmetric.                                                              *)
(***************************************************************************)
EXTENDS Sx1278Settings, TLC

AllCommands == Ioctls

(***************************************************************************)
(* The three modem settings share registers with each other, but with none *)
(* of the other settings: a run of the bounded model makes one kind only.  *)
(***************************************************************************)
ModemIoctls == {"BAND_WIDTH", "CODING_RATE", "SPREADING_FACTOR"}
ModemFields == {"bandWidth", "codingRate", "spreadingFactor"}
ModemRegs   == {"RegModemConfig1", "RegModemConfig2", "RegModemConfig3"}
Booted      == Programmed(ResetValues, Defaults)

ModemAsBooted ==
  /\ \A p \in Processes : cmd[p] \notin ModemIoctls
  /\ \A x \in ModemFields : lora[x] = Defaults[x]
  /\ \A r \in ModemRegs : reg[r] = Booted[r]
  /\ crossed \cap (ModemFields \cup {"lowDataRate"}) = {}
OthersAsBooted ==
  /\ \A p \in Processes : cmd[p] \in ModemIoctls \cup {None}
  /\ \A x \in DOMAIN lora \ ModemFields : lora[x] = Defaults[x]
  /\ \A r \in DOMAIN reg \ ModemRegs : reg[r] = Booted[r]
  /\ crossed \subseteq ModemFields \cup {"lowDataRate"}
OneKind == ModemAsBooted \/ OthersAsBooted

Symmetry == Permutations(Processes)
=============================================================================
