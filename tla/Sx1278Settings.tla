--------------------------- MODULE Sx1278Settings ---------------------------
(***************************************************************************)
(* The settings of the radio (sx1278.c, and lora.c above it): what an      *)
(* ioctl stores in the driver's struct, and which bits of which registers  *)
(* it then changes by reading and writing single bytes.  Only a byte is    *)
(* transferred under the mutex, so that the calls of two processes mix.    *)
(* What a change of mode does to a reception or a transmission is in       *)
(* module Sx1278; the chip here has been programmed by LoRa_init.          *)
(***************************************************************************)
EXTENDS Naturals

CONSTANTS
  Processes,
  Commands,           \* the ioctls they make
  Frequencies,        \* in MHz
  SFs,                \* SF_t: 6 to 12
  bandwidth_t, codingrate_t, power_t, SyncWords, lora_mode_t,
  Garbage             \* what an uninitialised byte may be

Byte == 0 .. 255

Ioctls == {"FREQUENCY", "SYNC_WORD", "POWER", "GOTO_MODE",
           "BAND_WIDTH", "CODING_RATE", "SPREADING_FACTOR"}

ASSUME SettingsAssumption ==
  /\ Commands \subseteq Ioctls
  /\ Frequencies \subseteq 137 .. 525
  /\ SFs \subseteq 6 .. 12 /\ bandwidth_t \subseteq 0 .. 9 /\ codingrate_t \subseteq 1 .. 4
  /\ power_t \subseteq Byte /\ SyncWords \subseteq Byte
  /\ lora_mode_t \subseteq 0 .. 7 /\ Garbage \subseteq Byte

-----------------------------------------------------------------------------
(* Bytes: the new value of a register, from what was read and the argument. *)

\* LoRa_setFrequency.
Fr(f)    == (f * 524288) \div 32
FrMsb(f) == (Fr(f) \div 65536) % 256
FrMid(f) == (Fr(f) \div 256) % 256
FrLsb(f) == Fr(f) % 256

Clamp(SF) == CASE SF > 12 -> 12 [] SF < 7 -> 7 [] OTHER -> SF

SpreadingFactor(read, SF) == Clamp(SF) * 16 + (read % 16)

BandWidth(read, BW) == BW * 16 + (read % 16)

CodingRate(read, cdRate) == (read \div 16) * 16 + cdRate * 2 + (read % 2)

LowDataRate(read, value) == (read \div 16) * 16 + (IF value THEN 8 ELSE 0) + (read % 8)

OpMode(read, mode) == (read \div 8) * 8 + mode

\* LoRa_setAutoLDO: the length of a symbol in milliseconds, rounded down.
BW_kHz10 == <<78, 104, 156, 208, 313, 417, 625, 1250, 2500, 5000>>
Optimized(SF, BW) == (2^SF * 10) \div BW_kHz10[BW + 1] > 16

OcpTrim(cur) ==
  CASE cur < 45             -> 0
    [] cur \in 45 .. 120    -> (cur - 45) \div 5
    [] cur \in 121 .. 240   -> (cur + 30) \div 10
    [] cur > 240            -> 27

SLEEP_MODE == 0
Defaults == [spreadingFactor |-> 7, bandWidth |-> 7, codingRate |-> 1, power |-> 255,
             current_mode |-> SLEEP_MODE]

\* The registers that matter, after a reset.
ResetValues ==
  [RegOpMode |-> 9, RegFrMsb |-> 108, RegFrMid |-> 128, RegFrLsb |-> 0, RegPaConfig |-> 79,
   RegOcp |-> 43, RegModemConfig1 |-> 114, RegModemConfig2 |-> 112, RegModemConfig3 |-> 4,
   RegSyncWord |-> 18]

\* LoRa_init, with what probe has set, and probe's LoRa_gotoMode.
Programmed(reg, lora) ==
  [RegOpMode       |-> OpMode(OpMode(reg.RegOpMode, SLEEP_MODE) + 128, SLEEP_MODE),
   RegFrMsb        |-> FrMsb(433),
   RegFrMid        |-> FrMid(433),
   RegFrLsb        |-> FrLsb(433),
   RegPaConfig     |-> lora.power,
   RegOcp          |-> OcpTrim(100) + 32,
   RegModemConfig2 |-> SpreadingFactor((reg.RegModemConfig2 \div 8) * 8 + 7, lora.spreadingFactor),
   RegModemConfig1 |-> lora.bandWidth * 16 + lora.codingRate * 2 + (reg.RegModemConfig1 % 2),
   RegModemConfig3 |-> LowDataRate(reg.RegModemConfig3,
                                   Optimized(lora.spreadingFactor, lora.bandWidth)),
   RegSyncWord     |-> reg.RegSyncWord]

-----------------------------------------------------------------------------
(* The ioctls. *)

Values(c) ==
  CASE c = "FREQUENCY"        -> Frequencies
    [] c = "SYNC_WORD"        -> SyncWords
    [] c = "POWER"            -> power_t
    [] c = "GOTO_MODE"        -> lora_mode_t
    [] c = "BAND_WIDTH"       -> bandwidth_t
    [] c = "CODING_RATE"      -> codingrate_t
    [] c = "SPREADING_FACTOR" -> SFs

\* The field an ioctl copies its argument to, and takes it from again.
Field == [POWER |-> "power", GOTO_MODE |-> "current_mode", BAND_WIDTH |-> "bandWidth",
          CODING_RATE |-> "codingRate", SPREADING_FACTOR |-> "spreadingFactor"]

\* Mutant: the power is written to the current limit, the register next but one.
RegisterNextButOne ==
  [POWER |-> "RegOcp", GOTO_MODE |-> "RegOpMode",
   BAND_WIDTH |-> "RegModemConfig1", CODING_RATE |-> "RegModemConfig1",
   SPREADING_FACTOR |-> "RegModemConfig2", SYNC_WORD |-> "RegSyncWord"]

Register == [POWER |-> "RegPaConfig", GOTO_MODE |-> "RegOpMode",
             BAND_WIDTH |-> "RegModemConfig1", CODING_RATE |-> "RegModemConfig1",
             SPREADING_FACTOR |-> "RegModemConfig2", SYNC_WORD |-> "RegSyncWord"]

Whats == {"FREQUENCY", "SYNC_WORD", "POWER", "GOTO_MODE", "bandWidth", "codingRate",
          "spreadingFactor", "lowDataRate"}

\* What is set by an ioctl; what it writes, with the rest of a register or from a field.
Sets(c) ==
  CASE c = "BAND_WIDTH"       -> {"bandWidth", "lowDataRate"}
    [] c = "SPREADING_FACTOR" -> {"spreadingFactor", "lowDataRate"}
    [] c = "CODING_RATE"      -> {"codingRate"}
    [] OTHER                  -> {c}
Writes(c) ==
  Sets(c) \cup (IF c \in {"BAND_WIDTH", "CODING_RATE"} THEN {"bandWidth", "codingRate"} ELSE {})
Spoilt(c, d) == Writes(c) \cap Writes(d) \cap (Sets(c) \cup Sets(d))

VARIABLES
  lora,      \* the fields of struct LoRa
  reg,       \* the chip's registers
  pc, cmd,   \* of each process: where its ioctl is, and which it is
  arg, data, \* its value, the byte to be written
  asked,     \* history: the last frequency and sync word, which no field keeps
  hit,       \* history: what of a process's ioctl another one may spoil
  crossed,   \* history: what may be spoilt, and has not been set anew
  garbled    \* history: an uninitialised byte has been written

call_vars == <<pc, cmd, arg, data>>
hist_vars == <<asked, hit, crossed, garbled>>
vars == <<lora, reg, call_vars, hist_vars>>

None == "none"

Init ==
  /\ lora = Defaults
  /\ reg = Programmed(ResetValues, Defaults)
  /\ pc = [p \in Processes |-> "idle"] /\ cmd = [p \in Processes |-> None]
  /\ arg = [p \in Processes |-> 0] /\ data = [p \in Processes |-> 0]
  /\ asked = [FREQUENCY |-> 433, SYNC_WORD |-> 18]
  /\ hit = [p \in Processes |-> {}] /\ crossed = {} /\ garbled = FALSE

Busy(what) == \E p \in Processes : pc[p] # "idle" /\ what \in Writes(cmd[p])

\* copy_from_user: to a field, or for two ioctls to the local foo.
Ioctl(p, c, value) ==
  /\ pc[p] = "idle"
  /\ cmd' = [cmd EXCEPT ![p] = c]
  /\ arg' = [arg EXCEPT ![p] = value]
  /\ pc' = [pc EXCEPT ![p] = CASE c = "FREQUENCY"   -> "msb"
                               [] c \in DOMAIN Field -> "fetch"
                               [] OTHER              -> "take"]
  /\ lora' = IF c \in DOMAIN Field THEN [lora EXCEPT ![Field[c]] = value] ELSE lora
  /\ asked' = IF c \in DOMAIN asked THEN [asked EXCEPT ![c] = value] ELSE asked
  /\ LET others == {q \in Processes \ {p} : pc[q] # "idle"}
         spoilt == UNION {Spoilt(c, cmd[q]) : q \in others}
     IN  /\ hit' = [q \in Processes |->
                      CASE q = p       -> spoilt
                        [] q \in others -> hit[q] \cup Spoilt(c, cmd[q])
                        [] OTHER       -> hit[q]]
         /\ crossed' = crossed \cup spoilt
  /\ UNCHANGED <<reg, data, garbled>>

\* The ioctl returns; what it has set undisturbed is right again.
Done(p) ==
  /\ pc' = [pc EXCEPT ![p] = "idle"] /\ cmd' = [cmd EXCEPT ![p] = None]
  /\ arg' = [arg EXCEPT ![p] = 0] /\ data' = [data EXCEPT ![p] = 0]
  /\ crossed' = crossed \ (Sets(cmd[p]) \ hit[p])
  /\ hit' = [hit EXCEPT ![p] = {}]

\* It goes on, after a byte was written.
Onward(p, where) ==
  /\ pc' = [pc EXCEPT ![p] = where]
  /\ UNCHANGED <<cmd, arg, data, crossed, hit>>

\* The argument of the setter: the field, as it is now.
Fetch(p) ==
  /\ pc[p] = "fetch"
  /\ arg' = [arg EXCEPT ![p] = lora[Field[cmd[p]]]]
  /\ pc' = [pc EXCEPT ![p] = "take"]
  /\ UNCHANGED <<lora, reg, cmd, data, hist_vars>>

\* LoRa_Read of the register whose other bits are kept.
Take(p) ==
  /\ pc[p] = "take"
  /\ ~(cmd[p] = "GOTO_MODE" /\ arg[p] \in {2, 4})
  /\ LET read == reg[Register[cmd[p]]]
         byte == CASE cmd[p] = "BAND_WIDTH"       -> BandWidth(read, arg[p])
                   [] cmd[p] = "CODING_RATE"      -> CodingRate(read, arg[p])
                   [] cmd[p] = "SPREADING_FACTOR" -> SpreadingFactor(read, arg[p])
                   [] cmd[p] = "GOTO_MODE"        -> OpMode(read, arg[p])
                   [] OTHER                       -> arg[p]
     IN  data' = [data EXCEPT ![p] = byte]
  /\ lora' = IF cmd[p] = "GOTO_MODE" THEN [lora EXCEPT !.current_mode = arg[p]] ELSE lora
  /\ pc' = [pc EXCEPT ![p] = "write"]
  /\ UNCHANGED <<reg, cmd, arg, hist_vars>>

\* LoRa_gotoMode has no case for FSTX and FSRX: it writes what is on the stack.
TakeGarbage(p) ==
  /\ pc[p] = "take" /\ cmd[p] = "GOTO_MODE" /\ arg[p] \in {2, 4}
  /\ \E byte \in Garbage : data' = [data EXCEPT ![p] = byte]
  /\ garbled' = TRUE
  /\ pc' = [pc EXCEPT ![p] = "write"]
  /\ UNCHANGED <<lora, reg, cmd, arg, asked, hit, crossed>>

\* The chip takes the LongRangeMode bit over only while it sleeps.
Taken(r, byte) ==
  IF r = "RegOpMode" /\ reg[r] % 8 # SLEEP_MODE
    THEN (reg[r] \div 128) * 128 + (byte % 128) ELSE byte

\* Mutant: a change of the bandwidth leaves the low data rate bit.
WriteBandWidthOnly(p) ==
  /\ pc[p] = "write"
  /\ LET r == Register[cmd[p]] IN reg' = [reg EXCEPT ![r] = Taken(r, data[p])]
  /\ IF cmd[p] = "SPREADING_FACTOR"
       THEN Onward(p, "ldo") ELSE Done(p)
  /\ UNCHANGED <<lora, asked, garbled>>

Write(p) ==
  /\ pc[p] = "write"
  /\ LET r == Register[cmd[p]] IN reg' = [reg EXCEPT ![r] = Taken(r, data[p])]
  /\ IF cmd[p] \in {"BAND_WIDTH", "SPREADING_FACTOR"}
       THEN Onward(p, "ldo") ELSE Done(p)
  /\ UNCHANGED <<lora, asked, garbled>>

\* LoRa_setAutoLDO: from the fields, not from what has just been written.
TakeLDO(p) ==
  /\ pc[p] = "ldo"
  /\ data' = [data EXCEPT ![p] = LowDataRate(reg.RegModemConfig3,
                                             Optimized(lora.spreadingFactor, lora.bandWidth))]
  /\ pc' = [pc EXCEPT ![p] = "ldoWrite"]
  /\ UNCHANGED <<lora, reg, cmd, arg, hist_vars>>

WriteLDO(p) ==
  /\ pc[p] = "ldoWrite"
  /\ reg' = [reg EXCEPT !.RegModemConfig3 = data[p]]
  /\ Done(p)
  /\ UNCHANGED <<lora, asked, garbled>>

\* Mutant: the middle byte is forgotten.
WriteFrNoMid(p) ==
  /\ \/ /\ pc[p] = "msb" /\ Onward(p, "lsb")
        /\ reg' = [reg EXCEPT !.RegFrMsb = FrMsb(arg[p])]
     \/ /\ pc[p] = "lsb" /\ Done(p)
        /\ reg' = [reg EXCEPT !.RegFrLsb = FrLsb(arg[p])]
  /\ UNCHANGED <<lora, asked, garbled>>

\* The three bytes of a frequency, 5 ms apart.
WriteFr(p) ==
  /\ \/ /\ pc[p] = "msb" /\ Onward(p, "mid")
        /\ reg' = [reg EXCEPT !.RegFrMsb = FrMsb(arg[p])]
     \/ /\ pc[p] = "mid" /\ Onward(p, "lsb")
        /\ reg' = [reg EXCEPT !.RegFrMid = FrMid(arg[p])]
     \/ /\ pc[p] = "lsb" /\ Done(p)
        /\ reg' = [reg EXCEPT !.RegFrLsb = FrLsb(arg[p])]
  /\ UNCHANGED <<lora, asked, garbled>>

\* lora.c: LoRa_setFrequency and its like open the device, make one ioctl, close it.
Set(p) == \E c \in Commands : \E value \in Values(c) : Ioctl(p, c, value)

Next ==
  \E p \in Processes :
    \/ Set(p) \/ Fetch(p) \/ Take(p) \/ TakeGarbage(p) \/ Write(p)
    \/ TakeLDO(p) \/ WriteLDO(p) \/ WriteFr(p)

Spec == Init /\ [][Next]_vars

-----------------------------------------------------------------------------

TypeOK ==
  /\ lora \in [spreadingFactor : SFs \cup {7}, bandWidth : bandwidth_t \cup {7},
               codingRate : codingrate_t \cup {1}, power : power_t \cup {255},
               current_mode : lora_mode_t \cup {SLEEP_MODE}]
  /\ reg \in [DOMAIN ResetValues -> Byte]
  /\ pc \in [Processes -> {"idle", "fetch", "take", "write", "ldo", "ldoWrite", "msb", "mid", "lsb"}]
  /\ cmd \in [Processes -> Commands \cup {None}]
  /\ data \in [Processes -> Byte]
  /\ garbled \in BOOLEAN

\* What the chip's bits mean.
ChipBW == reg.RegModemConfig1 \div 16
ChipSF == reg.RegModemConfig2 \div 16

Agrees(what) ==
  CASE what = "FREQUENCY"       -> reg.RegFrMsb * 65536 + reg.RegFrMid * 256 + reg.RegFrLsb
                                     = asked.FREQUENCY * 16384
    [] what = "SYNC_WORD"       -> reg.RegSyncWord = asked.SYNC_WORD
    [] what = "POWER"           -> reg.RegPaConfig = lora.power
    [] what = "GOTO_MODE"       -> garbled \/ reg.RegOpMode % 8 = lora.current_mode
    [] what = "bandWidth"       -> ChipBW = lora.bandWidth
    [] what = "codingRate"      -> (reg.RegModemConfig1 % 16) \div 2 = lora.codingRate
    [] what = "spreadingFactor" -> ChipSF = IF lora.spreadingFactor = 6
                                              THEN 7 ELSE lora.spreadingFactor

Settled(what) == what \notin crossed /\ ~Busy(what)

(***************************************************************************)
(* The chip has what the driver's fields say, or the last ioctl asked for, *)
(* whatever came before, setting by setting: unless two ioctls on the same *)
(* register overlapped, until the setting is made anew (sx1278.c:468-573). *)
(***************************************************************************)
SettingsExact == \A what \in Whats \ {"lowDataRate"} : Settled(what) => Agrees(what)

(***************************************************************************)
(* The low data rate bit fits the spreading factor and the bandwidth the   *)
(* chip has, not only the fields it was computed from (SF_6 is one the     *)
(* chip never gets): it is set for symbols of 17 ms and longer.            *)
(***************************************************************************)
LowDataRateFits ==
  (\A what \in {"bandWidth", "spreadingFactor", "lowDataRate"} : Settled(what))
    => (reg.RegModemConfig3 % 16 >= 8 <=> 2^ChipSF * 10 >= 17 * BW_kHz10[ChipBW + 1])

(***************************************************************************)
(* Whatever overlaps, the bits no ioctl sets stay as LoRa_init left them:  *)
(* explicit header, CRC and timeout, AGC, current limit, and LoRa mode at  *)
(* low frequency unless an uninitialised byte was written.  (And every     *)
(* variable has its type.)                                                 *)
(***************************************************************************)
RestKept ==
  /\ TypeOK
  /\ reg.RegModemConfig1 % 2 = 0
  /\ reg.RegModemConfig2 % 16 = 7
  /\ reg.RegModemConfig3 \div 16 = 0 /\ reg.RegModemConfig3 % 8 = 4
  /\ reg.RegOcp = 43
  /\ garbled \/ reg.RegOpMode \div 8 = 17

=============================================================================
