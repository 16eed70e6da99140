------------------------- MODULE Sx1278Settings_proof -------------------------
(***************************************************************************)
(* What is proved of Sx1278Settings, for every number of processes and     *)
(* every mix of their ioctls: the chip has the settings asked for, setting *)
(* by setting, the bits no ioctl sets are kept, and the low data rate bit  *)
(* fits.  The proof follows one setting through the one ioctl that may     *)
(* change it undisturbed (Own), and through those that only write it back  *)
(* with the rest of a register (Kept).                                     *)
(***************************************************************************)
EXTENDS Sx1278Settings, TLAPS

-----------------------------------------------------------------------------
(* Bytes: each changes the bits it sets and keeps the others.              *)

LEMMA BandWidthBits ==
  ASSUME NEW read \in Byte, NEW v \in 0 .. 9, NEW b, b = BandWidth(read, v)
  PROVE  b \in Byte /\ b \div 16 = v /\ b % 16 = read % 16 /\ b % 2 = read % 2
  BY DEF BandWidth, Byte

LEMMA CodingRateBits ==
  ASSUME NEW read \in Byte, NEW v \in 1 .. 4, NEW b, b = CodingRate(read, v)
  PROVE  /\ b \in Byte /\ b \div 16 = read \div 16
         /\ (b % 16) \div 2 = v /\ b % 2 = read % 2
  BY DEF CodingRate, Byte

LEMMA SpreadingFactorBits ==
  ASSUME NEW read \in Byte, NEW v \in 6 .. 12, NEW b, b = SpreadingFactor(read, v)
  PROVE  b \in Byte /\ b \div 16 = Clamp(v) /\ b % 16 = read % 16
  BY DEF SpreadingFactor, Clamp, Byte

LEMMA LowDataRateBits ==
  ASSUME NEW read \in Byte, NEW v, NEW b, b = LowDataRate(read, v)
  PROVE  /\ b \in Byte /\ b \div 16 = read \div 16 /\ b % 8 = read % 8
         /\ b % 16 >= 8 <=> v
<1>1. CASE v
  BY <1>1 DEF LowDataRate, Byte
<1>2. CASE ~v
  BY <1>2 DEF LowDataRate, Byte
<1> QED
  BY <1>1, <1>2

LEMMA OpModeBits ==
  ASSUME NEW read \in Byte, NEW v \in 0 .. 7, NEW b, b = OpMode(read, v)
  PROVE  b \in Byte /\ b % 8 = v /\ b \div 8 = read \div 8
  BY DEF OpMode, Byte

LEMMA LongRangeBits ==
  ASSUME NEW old \in Byte, NEW byte \in Byte, NEW b,
         b = (old \div 128) * 128 + (byte % 128)
  PROVE  /\ b \in Byte /\ b % 8 = byte % 8
         /\ old \div 8 = 17 /\ byte \div 8 = 17 => b \div 8 = 17
  BY SMT DEF Byte

\* The LongRangeMode bit is none of those a mode consists of.
LEMMA TakenBits ==
  ASSUME reg.RegOpMode \in Byte, NEW r, NEW byte \in Byte
  PROVE  /\ Taken(r, byte) \in Byte
         /\ r # "RegOpMode" => Taken(r, byte) = byte
         /\ r = "RegOpMode" =>
              /\ Taken(r, byte) % 8 = byte % 8
              /\ reg.RegOpMode \div 8 = 17 /\ byte \div 8 = 17
                   => Taken(r, byte) \div 8 = 17
<1>1. CASE Taken(r, byte) = byte
  BY <1>1
<1>2. CASE r = "RegOpMode" /\ Taken(r, byte) = (reg.RegOpMode \div 128) * 128 + (byte % 128)
  BY <1>2, LongRangeBits
<1> QED
  BY <1>1, <1>2 DEF Taken

\* A number is its quotient and its remainder.
LEMMA Digit ==
  ASSUME NEW x \in Nat, NEW q \in Nat, NEW z \in Nat, q = x \div 256, z = x % 256
  PROVE  x = q * 256 + z /\ z < 256
  BY SMT

LEMMA HighDigit ==
  ASSUME NEW x \in Nat, x < 16777216, NEW q \in Nat, q = x \div 256,
         NEW m \in Nat, m = q \div 256
  PROVE  m < 256 /\ m = x \div 65536
  BY SMT

LEMMA FrBits ==
  ASSUME NEW f \in 137 .. 525
  PROVE  /\ FrMsb(f) \in Byte /\ FrMid(f) \in Byte /\ FrLsb(f) \in Byte
         /\ FrMsb(f) * 65536 + FrMid(f) * 256 + FrLsb(f) = f * 16384
<1> DEFINE x == Fr(f)
           q == x \div 256
           m == q \div 256
           n == q % 256
           z == x % 256
<1>1. x = f * 16384
  BY SMT DEF Fr
<1>2. x \in Nat /\ x < 16777216
  BY <1>1, SMT
<1>3. q \in Nat /\ z \in Nat
  BY <1>2, SMT
<1>4. m \in Nat /\ n \in Nat
  BY <1>3, SMT
<1>5. x = q * 256 + z /\ z < 256
  BY <1>2, <1>3, Digit
<1>6. q = m * 256 + n /\ n < 256
  BY <1>3, <1>4, Digit
<1>7. m < 256 /\ m = x \div 65536
  BY <1>2, <1>3, <1>4, HighDigit
<1>8. FrMsb(f) = m /\ FrMid(f) = n /\ FrLsb(f) = z
  <2>1. m % 256 = m
    BY <1>4, <1>7, SMT
  <2> QED
    BY <1>7, <2>1 DEF FrMsb, FrMid, FrLsb
<1> HIDE DEF x, q, m, n, z
<1>9. m * 65536 + n * 256 + z = f * 16384
  BY <1>1, <1>2, <1>3, <1>4, <1>5, <1>6, SMT
<1> QED
  BY <1>3, <1>4, <1>5, <1>6, <1>7, <1>8, <1>9, SMT DEF Byte

LEMMA ClampValue ==
  ASSUME NEW SF \in 6 .. 12
  PROVE  Clamp(SF) = IF SF = 6 THEN 7 ELSE SF
<1>1. ~(SF > 12) /\ (SF < 7 <=> SF = 6)
  OBVIOUS
<1> QED
  BY <1>1 DEF Clamp

\* A symbol of 17 ms or longer is what LoRa_setAutoLDO takes for longer than 16;
\* with SF_6, which the chip does not get, as with SF_7 no bandwidth makes one.
LEMMA OptimizedFits ==
  ASSUME NEW SF \in 6 .. 12, NEW BW \in 0 .. 9
  PROVE  Optimized(SF, BW) <=> 2^Clamp(SF) * 10 >= 17 * BW_kHz10[BW + 1]
<1> DEFINE B == BW_kHz10[BW + 1]
           n == 2^SF
           c == 2^Clamp(SF)
<1>1. B \in {78, 104, 156, 208, 313, 417, 625, 1250, 2500, 5000}
  BY SMT DEF BW_kHz10
<1>2. n \in {64, 128, 256, 512, 1024, 2048, 4096}
  <2>1. SF \in {6, 7, 8, 9, 10, 11, 12}
    BY SMT
  <2>2. n \in {2^6, 2^7, 2^8, 2^9, 2^10, 2^11, 2^12}
    BY <2>1, Zenon
  <2> HIDE DEF n
  <2> QED
    BY <2>2, SMT
<1>3. SF = 6 => n = 2^6 /\ c = 2^7
  BY ClampValue, Zenon
<1>4. SF # 6 => c = n
  BY ClampValue, Zenon
<1>5. Optimized(SF, BW) <=> (n * 10) \div B > 16
  BY DEF Optimized
<1> HIDE DEF n, c, B
<1>6. (n * 10) \div B > 16 <=> n * 10 >= 17 * B
  BY <1>1, <1>2, SMT
<1>7. n * 10 >= 17 * B <=> c * 10 >= 17 * B
  <2>1. CASE SF = 6
    <3>1. n = 64 /\ c = 128
      BY <1>3, <2>1, SMT
    <3> QED
      BY <1>1, <3>1, SMT
  <2>2. CASE SF # 6
    BY <1>4, <2>2
  <2> QED
    BY <2>1, <2>2
<1> QED
  BY <1>5, <1>6, <1>7, Zenon DEF c, B

-----------------------------------------------------------------------------
(* The inductive invariant. *)

Running(p) == pc[p] # "idle"

\* Where an ioctl can be, and what it can have in hand there.
CallOK(p) ==
  /\ cmd[p] = None <=> pc[p] = "idle"
  /\ cmd[p] = "FREQUENCY" => pc[p] \in {"msb", "mid", "lsb"} /\ arg[p] \in Frequencies
  /\ cmd[p] = "SYNC_WORD" => pc[p] \in {"take", "write"} /\ arg[p] \in SyncWords
  /\ cmd[p] \in DOMAIN Field =>
       \/ pc[p] \in {"fetch", "take", "write"}
       \/ cmd[p] \in {"BAND_WIDTH", "SPREADING_FACTOR"} /\ pc[p] \in {"ldo", "ldoWrite"}
  /\ pc[p] = "take" =>
       CASE cmd[p] = "BAND_WIDTH"       -> arg[p] \in 0 .. 9
         [] cmd[p] = "CODING_RATE"      -> arg[p] \in 1 .. 4
         [] cmd[p] = "SPREADING_FACTOR" -> arg[p] \in 6 .. 12
         [] cmd[p] = "GOTO_MODE"        -> arg[p] \in lora_mode_t \cup {SLEEP_MODE}
         [] OTHER                       -> arg[p] \in Byte

\* The byte about to be written has the bits no ioctl sets.
DataOK(p) ==
  /\ pc[p] = "write" =>
       /\ cmd[p] \in {"BAND_WIDTH", "CODING_RATE"} => data[p] % 2 = 0
       /\ cmd[p] = "SPREADING_FACTOR" => data[p] % 16 = 7
       /\ cmd[p] = "GOTO_MODE" => garbled \/ data[p] \div 8 = 17
  /\ pc[p] = "ldoWrite" => data[p] \div 16 = 0 /\ data[p] % 8 = 4

Types ==
  /\ TypeOK
  /\ arg \in [Processes -> Nat]
  /\ asked \in [FREQUENCY : 137 .. 525, SYNC_WORD : Byte]
  /\ hit \in [Processes -> SUBSET Whats] /\ crossed \subseteq Whats

\* RestKept but for TypeOK.
RestOK ==
  /\ reg.RegModemConfig1 % 2 = 0
  /\ reg.RegModemConfig2 % 16 = 7
  /\ reg.RegModemConfig3 \div 16 = 0 /\ reg.RegModemConfig3 % 8 = 4
  /\ reg.RegOcp = 43
  /\ garbled \/ reg.RegOpMode \div 8 = 17

\* Two ioctls that can spoil each other know it, and the history does.
HistoryOK(p) ==
  /\ hit[p] \subseteq crossed
  /\ IF Running(p) THEN hit[p] \subseteq Writes(cmd[p]) ELSE hit[p] = {}
  /\ Running(p) =>
       \A q \in Processes \ {p} : Running(q) => Spoilt(cmd[p], cmd[q]) \subseteq hit[p]

RegisterOf ==
  [SYNC_WORD |-> "RegSyncWord", POWER |-> "RegPaConfig", GOTO_MODE |-> "RegOpMode",
   bandWidth |-> "RegModemConfig1", codingRate |-> "RegModemConfig1",
   spreadingFactor |-> "RegModemConfig2", lowDataRate |-> "RegModemConfig3"]

\* The byte b has what the setting should be, by the driver's fields l, the last
\* requests a, and whether a mode was garbled.
SaysIn(l, a, g, what, b) ==
  CASE what = "SYNC_WORD"       -> b = a.SYNC_WORD
    [] what = "POWER"           -> b = l.power
    [] what = "GOTO_MODE"       -> g \/ b % 8 = l.current_mode
    [] what = "bandWidth"       -> b \div 16 = l.bandWidth
    [] what = "codingRate"      -> (b % 16) \div 2 = l.codingRate
    [] what = "spreadingFactor" -> b \div 16 = Clamp(l.spreadingFactor)
    [] what = "lowDataRate"     -> b % 16 >= 8 <=> Optimized(l.spreadingFactor, l.bandWidth)

Says(what, b) == SaysIn(lora, asked, garbled, what, b)

FrIs(n) ==
  /\ n >= 1 => reg.RegFrMsb = FrMsb(asked.FREQUENCY)
  /\ n >= 2 => reg.RegFrMid = FrMid(asked.FREQUENCY)
  /\ n >= 3 => reg.RegFrLsb = FrLsb(asked.FREQUENCY)

Exact(what) ==
  IF what = "FREQUENCY" THEN FrIs(3) ELSE Says(what, reg[RegisterOf[what]])

Wanted(what) ==
  CASE what = "SYNC_WORD" -> asked.SYNC_WORD
    [] what = "POWER"     -> lora.power
    [] what = "GOTO_MODE" -> lora.current_mode
    [] OTHER              -> lora[what]

\* How far an ioctl has come with a setting of its own that no other spoils.
Progress(p, what) ==
  CASE what = "FREQUENCY" ->
         /\ arg[p] = asked.FREQUENCY
         /\ pc[p] = "mid" => FrIs(1)
         /\ pc[p] = "lsb" => FrIs(2)
    [] what = "lowDataRate" -> pc[p] = "ldoWrite" => Says(what, data[p])
    [] OTHER ->
         /\ pc[p] = "take" => arg[p] = Wanted(what)
         /\ pc[p] = "write" => Says(what, data[p])
         /\ pc[p] \in {"ldo", "ldoWrite"} => Exact(what)

Own(p) == Running(p) => \A what \in Sets(cmd[p]) \ hit[p] : Progress(p, what)

\* A setting nobody is about to change, and the bytes written back with it.
Kept(what) ==
  /\ what \notin crossed
  /\ \A p \in Processes : Running(p) => what \notin Sets(cmd[p])
  => /\ Exact(what)
     /\ \A p \in Processes :
          pc[p] = "write" /\ what \in Writes(cmd[p]) => Says(what, data[p])

RestInv == Types /\ RestOK /\ \A p \in Processes : CallOK(p) /\ DataOK(p)

History == \A p \in Processes : HistoryOK(p)

SettingInv ==
  (\A p \in Processes : Own(p)) /\ (\A what \in Whats : Kept(what))

-----------------------------------------------------------------------------
(* What an ioctl sets and writes. *)

Registers == {"RegOpMode", "RegFrMsb", "RegFrMid", "RegFrLsb", "RegPaConfig",
              "RegOcp", "RegModemConfig1", "RegModemConfig2", "RegModemConfig3",
              "RegSyncWord"}

LEMMA RegisterNames == DOMAIN ResetValues = Registers
  BY DEF ResetValues, Registers

LEMMA SetsOf ==
  /\ Sets("FREQUENCY") = {"FREQUENCY"} /\ Sets("SYNC_WORD") = {"SYNC_WORD"}
  /\ Sets("POWER") = {"POWER"} /\ Sets("GOTO_MODE") = {"GOTO_MODE"}
  /\ Sets("BAND_WIDTH") = {"bandWidth", "lowDataRate"}
  /\ Sets("CODING_RATE") = {"codingRate"}
  /\ Sets("SPREADING_FACTOR") = {"spreadingFactor", "lowDataRate"}
  BY DEF Sets

LEMMA WritesOf ==
  /\ \A c : Sets(c) \subseteq Writes(c)
  /\ \A c : c \notin {"BAND_WIDTH", "CODING_RATE"} => Writes(c) = Sets(c)
  /\ Writes("BAND_WIDTH") = {"bandWidth", "lowDataRate", "codingRate"}
  /\ Writes("CODING_RATE") = {"bandWidth", "codingRate"}
<1>1. \A c : Sets(c) \subseteq Writes(c)
  BY DEF Writes
<1>2. \A c : c \notin {"BAND_WIDTH", "CODING_RATE"} => Writes(c) = Sets(c)
  BY DEF Writes
<1> QED
  BY <1>1, <1>2, SetsOf DEF Writes

LEMMA SetsAreWhats == \A c \in Ioctls : Sets(c) \subseteq Whats /\ Writes(c) \subseteq Whats
  BY SetsOf, WritesOf DEF Ioctls, Whats

LEMMA InitRest == Init => RestInv
<1> SUFFICES ASSUME Init PROVE RestInv
  OBVIOUS
<1>1. ~Optimized(7, 7)
  <2>1. BW_kHz10[7 + 1] = 1250
    BY SMT DEF BW_kHz10
  <2>2. Optimized(7, 7) <=> (2^7 * 10) \div 1250 > 16
    BY <2>1, SMT DEF Optimized
  <2>3. ~((2^7 * 10) \div 1250 > 16)
    BY SMT
  <2> QED
    BY <2>2, <2>3, Zenon
<1>2. LowDataRate(4, Optimized(7, 7)) = 4
  BY <1>1, SMT DEF LowDataRate
<1>3. SpreadingFactor((112 \div 8) * 8 + 7, 7) = 119
  <2>1. Clamp(7) = 7
    BY SMT DEF Clamp
  <2> QED
    BY <2>1, SMT DEF SpreadingFactor
<1>4. OpMode(OpMode(9, SLEEP_MODE) + 128, SLEEP_MODE) = 136
  BY SMT DEF OpMode, SLEEP_MODE
<1>5. FrMsb(433) = 108 /\ FrMid(433) = 64 /\ FrLsb(433) = 0
  BY SMT DEF FrMsb, FrMid, FrLsb, Fr
<1>6. OcpTrim(100) = 11
  BY SMT DEF OcpTrim
<1>7. reg = [RegOpMode |-> 136, RegFrMsb |-> 108, RegFrMid |-> 64, RegFrLsb |-> 0,
             RegPaConfig |-> 255, RegOcp |-> 43, RegModemConfig2 |-> 119,
             RegModemConfig1 |-> 114, RegModemConfig3 |-> 4, RegSyncWord |-> 18]
  <2>1. 7 * 16 + 1 * 2 + (114 % 2) = 114 /\ OcpTrim(100) + 32 = 43
    BY <1>6, SMT
  <2> QED
    BY <1>2, <1>3, <1>4, <1>5, <2>1, SMT DEF Init, Programmed, ResetValues,
       Defaults
<1>8. reg \in [Registers -> Byte] /\ RestOK
  BY <1>7, SMT DEF Registers, Byte, RestOK
<1>9. TypeOK
  <2>1. lora \in [spreadingFactor : SFs \cup {7}, bandWidth : bandwidth_t \cup {7},
                  codingRate : codingrate_t \cup {1}, power : power_t \cup {255},
                  current_mode : lora_mode_t \cup {SLEEP_MODE}]
    BY DEF Init, Defaults
  <2>2. reg \in [DOMAIN ResetValues -> Byte]
    BY <1>8, RegisterNames
  <2>3. /\ pc \in [Processes -> {"idle", "fetch", "take", "write", "ldo", "ldoWrite",
                                "msb", "mid", "lsb"}]
        /\ cmd \in [Processes -> Commands \cup {None}]
        /\ data \in [Processes -> Byte]
    BY DEF Init, Byte
  <2> QED
    BY <2>1, <2>2, <2>3 DEF Init, TypeOK
<1>10. Types
  BY <1>9 DEF Types, Init, Byte
<1>11. \A p \in Processes : CallOK(p) /\ DataOK(p)
  BY DEF Init, CallOK, DataOK, None, Field
<1> QED
  BY <1>8, <1>10, <1>11 DEF RestInv

LEMMA InitHistory == Init => History /\ SettingInv
<1> SUFFICES ASSUME Init PROVE History /\ SettingInv
  OBVIOUS
<1>1. History
  BY DEF Init, History, HistoryOK, Running
<1>2. \A p \in Processes : Own(p)
  BY DEF Init, Own, Running
<1>3. Exact("FREQUENCY")
  BY SMT DEF Init, Programmed, Exact, FrIs
<1>4. Exact("SYNC_WORD") /\ Exact("POWER")
  BY SMT DEF Init, Programmed, ResetValues, Defaults, Exact, Says, SaysIn,
     RegisterOf
<1>5. Exact("GOTO_MODE")
  <2>1. OpMode(OpMode(9, 0) + 128, 0) % 8 = 0
    BY SMT DEF OpMode
  <2> QED
    BY <2>1, SMT DEF Init, Programmed, ResetValues, Defaults, SLEEP_MODE,
       Exact, Says, SaysIn, RegisterOf
<1>6. Exact("bandWidth") /\ Exact("codingRate")
  BY SMT DEF Init, Programmed, ResetValues, Defaults, Exact, Says, SaysIn,
     RegisterOf
<1>7. Exact("spreadingFactor")
  <2>1. SpreadingFactor((112 \div 8) * 8 + 7, 7) \div 16 = Clamp(7)
    <3>1. (112 \div 8) * 8 + 7 \in Byte
      BY SMT DEF Byte
    <3> QED
      BY <3>1, SpreadingFactorBits
  <2> QED
    BY <2>1, SMT DEF Init, Programmed, ResetValues, Defaults, Exact, Says,
       SaysIn, RegisterOf
<1>8. Exact("lowDataRate")
  <2>1. LowDataRate(4, Optimized(7, 7)) % 16 >= 8 <=> Optimized(7, 7)
    <3>1. 4 \in Byte
      BY SMT DEF Byte
    <3> QED
      BY <3>1, LowDataRateBits
  <2> QED
    BY <2>1, SMT DEF Init, Programmed, ResetValues, Defaults, Exact, Says,
       SaysIn, RegisterOf
<1>9. \A what \in Whats : Exact(what)
  BY <1>3, <1>4, <1>5, <1>6, <1>7, <1>8 DEF Whats
<1>10. \A p \in Processes : pc[p] # "write"
  BY DEF Init
<1> QED
  BY <1>1, <1>2, <1>9, <1>10 DEF SettingInv, Kept

-----------------------------------------------------------------------------
(* Types and the bits no ioctl sets.                                       *)

lora_t == [spreadingFactor : SFs \cup {7}, bandWidth : bandwidth_t \cup {7},
           codingRate : codingrate_t \cup {1}, power : power_t \cup {255},
           current_mode : lora_mode_t \cup {SLEEP_MODE}]

\* What is in data once the register has been read.
LEMMA TakeBits ==
  ASSUME RestInv, NEW p \in Processes, Take(p)
  PROVE  /\ data'[p] \in Byte
         /\ cmd[p] = "BAND_WIDTH" =>
              /\ data'[p] \div 16 = arg[p] /\ data'[p] % 2 = 0
              /\ (data'[p] % 16) \div 2 = (reg.RegModemConfig1 % 16) \div 2
         /\ cmd[p] = "CODING_RATE" =>
              /\ data'[p] \div 16 = reg.RegModemConfig1 \div 16 /\ data'[p] % 2 = 0
              /\ (data'[p] % 16) \div 2 = arg[p]
         /\ cmd[p] = "SPREADING_FACTOR" =>
              data'[p] \div 16 = Clamp(arg[p]) /\ data'[p] % 16 = 7
         /\ cmd[p] = "GOTO_MODE" =>
              data'[p] % 8 = arg[p] /\ (garbled \/ data'[p] \div 8 = 17)
         /\ cmd[p] \in {"POWER", "SYNC_WORD"} => data'[p] = arg[p]
<1>1. cmd[p] \in Ioctls /\ pc[p] = "take"
  BY SettingsAssumption DEF RestInv, Types, TypeOK, CallOK, Take
<1>2. /\ reg.RegModemConfig1 \in Byte /\ reg.RegModemConfig2 \in Byte
      /\ reg.RegOpMode \in Byte
  BY RegisterNames DEF RestInv, Types, TypeOK, Registers
<1>3. CASE cmd[p] = "BAND_WIDTH"
  <2>1. data'[p] = BandWidth(reg.RegModemConfig1, arg[p]) /\ arg[p] \in 0 .. 9
    BY <1>1, <1>3 DEF RestInv, Types, TypeOK, CallOK, Take, Register
  <2>2. reg.RegModemConfig1 % 2 = 0
    BY DEF RestInv, RestOK
  <2> QED
    BY <1>2, <1>3, <2>1, <2>2, BandWidthBits
<1>4. CASE cmd[p] = "CODING_RATE"
  <2>1. data'[p] = CodingRate(reg.RegModemConfig1, arg[p]) /\ arg[p] \in 1 .. 4
    BY <1>1, <1>4 DEF RestInv, Types, TypeOK, CallOK, Take, Register
  <2>2. reg.RegModemConfig1 % 2 = 0
    BY DEF RestInv, RestOK
  <2> QED
    BY <1>2, <1>4, <2>1, <2>2, CodingRateBits
<1>5. CASE cmd[p] = "SPREADING_FACTOR"
  <2>1. data'[p] = SpreadingFactor(reg.RegModemConfig2, arg[p]) /\ arg[p] \in 6 .. 12
    BY <1>1, <1>5 DEF RestInv, Types, TypeOK, CallOK, Take, Register
  <2>2. reg.RegModemConfig2 % 16 = 7
    BY DEF RestInv, RestOK
  <2> QED
    BY <1>2, <1>5, <2>1, <2>2, SpreadingFactorBits
<1>6. CASE cmd[p] = "GOTO_MODE"
  <2>1. data'[p] = OpMode(reg.RegOpMode, arg[p]) /\ arg[p] \in 0 .. 7
    BY <1>1, <1>6, SettingsAssumption
    DEF RestInv, Types, TypeOK, CallOK, Take, Register, SLEEP_MODE
  <2>2. garbled \/ reg.RegOpMode \div 8 = 17
    BY DEF RestInv, RestOK
  <2> QED
    BY <1>2, <1>6, <2>1, <2>2, OpModeBits
<1>7. CASE cmd[p] \in {"POWER", "SYNC_WORD"}
  <2>1. data'[p] = arg[p] /\ arg[p] \in Byte
    BY <1>1, <1>7, SettingsAssumption
    DEF RestInv, Types, TypeOK, CallOK, Take
  <2> QED
    BY <1>7, <2>1
<1>8. cmd[p] # "FREQUENCY"
  BY <1>1 DEF RestInv, CallOK
<1> QED
  BY <1>1, <1>3, <1>4, <1>5, <1>6, <1>7, <1>8 DEF Ioctls

LEMMA TakeLDOBits ==
  ASSUME RestInv, NEW p \in Processes, TakeLDO(p)
  PROVE  /\ data'[p] \in Byte /\ data'[p] \div 16 = 0 /\ data'[p] % 8 = 4
         /\ data'[p] % 16 >= 8 <=> Optimized(lora.spreadingFactor, lora.bandWidth)
<1>1. reg.RegModemConfig3 \in Byte
  BY RegisterNames DEF RestInv, Types, TypeOK, Registers
<1>2. reg.RegModemConfig3 \div 16 = 0 /\ reg.RegModemConfig3 % 8 = 4
  BY DEF RestInv, RestOK
<1>3. data'[p] = LowDataRate(reg.RegModemConfig3,
                             Optimized(lora.spreadingFactor, lora.bandWidth))
  BY DEF RestInv, Types, TypeOK, TakeLDO
<1> QED
  BY <1>1, <1>2, <1>3, LowDataRateBits

\* What the register has once data has been written.
LEMMA WriteBits ==
  ASSUME RestInv, NEW p \in Processes, Write(p)
  PROVE  /\ cmd[p] \in Ioctls \ {"FREQUENCY"} /\ Register[cmd[p]] \in Registers
         /\ \A r \in Registers \ {Register[cmd[p]]} : reg'[r] = reg[r]
         /\ reg'[Register[cmd[p]]] \in Byte
         /\ cmd[p] # "GOTO_MODE" => reg'[Register[cmd[p]]] = data[p]
         /\ cmd[p] = "GOTO_MODE" =>
              /\ reg'.RegOpMode % 8 = data[p] % 8
              /\ garbled \/ reg'.RegOpMode \div 8 = 17
<1>1. cmd[p] \in Ioctls \ {"FREQUENCY"}
  BY SettingsAssumption DEF RestInv, Types, TypeOK, CallOK, Write, None
<1>2. Register[cmd[p]] \in Registers
  BY <1>1 DEF Ioctls, Register, Registers
<1>3. cmd[p] = "GOTO_MODE" <=> Register[cmd[p]] = "RegOpMode"
  BY <1>1 DEF Ioctls, Register
<1>4. reg \in [Registers -> Byte] /\ data[p] \in Byte
  BY RegisterNames DEF RestInv, Types, TypeOK
<1>5. reg.RegOpMode \in Byte
  BY <1>4 DEF Registers
<1>6. reg' = [reg EXCEPT ![Register[cmd[p]]] = Taken(Register[cmd[p]], data[p])]
  BY DEF Write
<1>7. cmd[p] = "GOTO_MODE" =>
        garbled \/ (reg.RegOpMode \div 8 = 17 /\ data[p] \div 8 = 17)
  <2>1. DataOK(p) /\ pc[p] = "write"
    BY DEF RestInv, Write
  <2>2. garbled \/ reg.RegOpMode \div 8 = 17
    BY DEF RestInv, RestOK
  <2> QED
    BY <2>1, <2>2, Zenon DEF DataOK
<1>8. reg'[Register[cmd[p]]] = Taken(Register[cmd[p]], data[p])
  BY <1>2, <1>4, <1>6
<1>9. \A r \in Registers \ {Register[cmd[p]]} : reg'[r] = reg[r]
  BY <1>2, <1>4, <1>6
<1> QED
  BY <1>1, <1>2, <1>3, <1>4, <1>5, <1>7, <1>8, <1>9, TakenBits

LEMMA IoctlRest ==
  ASSUME RestInv, NEW p \in Processes, NEW c \in Commands, NEW value \in Values(c),
         Ioctl(p, c, value)
  PROVE  RestInv'
<1> USE SettingsAssumption
<1>1. c \in Ioctls /\ pc[p] = "idle"
  BY DEF Ioctl
<1>2. lora' \in lora_t
  BY <1>1 DEF RestInv, Types, TypeOK, lora_t, Ioctl, Values, Field, Ioctls
<1>3. /\ hit' \in [Processes -> SUBSET Whats] /\ crossed' \subseteq Whats
  BY <1>1, SetsAreWhats DEF RestInv, Types, TypeOK, Ioctl, Spoilt
<1>4. value \in Nat
  BY <1>1 DEF Values, Ioctls, Byte
<1>5. pc' \in [Processes -> {"idle", "fetch", "take", "write", "ldo", "ldoWrite",
                             "msb", "mid", "lsb"}]
  BY DEF RestInv, Types, TypeOK, Ioctl
<1>6. asked' \in [FREQUENCY : 137 .. 525, SYNC_WORD : Byte]
  BY <1>1 DEF RestInv, Types, Ioctl, Values, Ioctls
<1>7. TypeOK'
  BY <1>2, <1>5 DEF RestInv, Types, TypeOK, lora_t, Ioctl
<1>8. Types'
  BY <1>3, <1>4, <1>6, <1>7 DEF RestInv, Types, Ioctl
<1>9. RestOK'
  BY DEF RestInv, RestOK, Ioctl
<1>10. CallOK(p)'
  BY <1>1, <1>4 DEF RestInv, Types, TypeOK, CallOK, Ioctl, Values, Ioctls,
     Field, None, Byte
<1>11. DataOK(p)'
  BY <1>1 DEF RestInv, Types, TypeOK, DataOK, Ioctl
<1>12. ASSUME NEW q \in Processes \ {p} PROVE (CallOK(q) /\ DataOK(q))'
  BY DEF RestInv, Types, TypeOK, CallOK, DataOK, Ioctl
<1> QED
  BY <1>8, <1>9, <1>10, <1>11, <1>12 DEF RestInv

\* The steps of an ioctl once it has its argument.
Goes(p) ==
  \/ Fetch(p) \/ Take(p) \/ TakeGarbage(p) \/ Write(p) \/ TakeLDO(p) \/ WriteLDO(p)
  \/ WriteFr(p)

LEMMA OthersRest ==
  ASSUME RestInv, NEW p \in Processes, Goes(p), NEW q \in Processes \ {p}
  PROVE  (CallOK(q) /\ DataOK(q))'
<1>1. UNCHANGED <<pc[q], cmd[q], arg[q], data[q]>>
  BY DEF RestInv, Types, TypeOK, Goes, Fetch, Take, TakeGarbage, Write,
     TakeLDO, WriteLDO, WriteFr, Done, Onward
<1>2. garbled => garbled'
  BY DEF Goes, Fetch, Take, TakeGarbage, Write, TakeLDO, WriteLDO, WriteFr,
     Done, Onward, hist_vars
<1>3. CallOK(q)'
  BY <1>1 DEF RestInv, CallOK
<1>4. DataOK(q)'
  BY <1>1, <1>2 DEF RestInv, DataOK
<1> QED
  BY <1>3, <1>4

LEMMA GoesTypes ==
  ASSUME RestInv, NEW p \in Processes, Goes(p)
  PROVE  /\ pc' \in [Processes -> {"idle", "fetch", "take", "write", "ldo", "ldoWrite",
                                   "msb", "mid", "lsb"}]
         /\ cmd' \in [Processes -> Commands \cup {None}]
         /\ hit' \in [Processes -> SUBSET Whats] /\ crossed' \subseteq Whats
         /\ asked' \in [FREQUENCY : 137 .. 525, SYNC_WORD : Byte]
<1>1. asked' = asked
  BY DEF Goes, Fetch, Take, TakeGarbage, Write, TakeLDO, WriteLDO, WriteFr,
     Done, Onward, hist_vars
<1>2. hit' \in [Processes -> SUBSET Whats] /\ crossed' \subseteq Whats
  BY DEF RestInv, Types, Goes, Fetch, Take, TakeGarbage, Write, TakeLDO,
     WriteLDO, WriteFr, Done, Onward, hist_vars
<1>3. pc' \in [Processes -> {"idle", "fetch", "take", "write", "ldo", "ldoWrite",
                             "msb", "mid", "lsb"}]
  BY DEF RestInv, Types, TypeOK, Goes, Fetch, Take, TakeGarbage, Write,
     TakeLDO, WriteLDO, WriteFr, Done, Onward
<1>4. cmd' \in [Processes -> Commands \cup {None}]
  BY DEF RestInv, Types, TypeOK, Goes, Fetch, Take, TakeGarbage, Write,
     TakeLDO, WriteLDO, WriteFr, Done, Onward
<1> QED
  BY <1>1, <1>2, <1>3, <1>4 DEF RestInv, Types

LEMMA GoesRest == ASSUME RestInv, NEW p \in Processes, Goes(p) PROVE RestInv'
<1> USE SettingsAssumption
<1>1. ASSUME NEW q \in Processes \ {p} PROVE (CallOK(q) /\ DataOK(q))'
  BY OthersRest
<1> SUFFICES /\ lora' \in lora_t /\ reg' \in [Registers -> Byte]
             /\ data' \in [Processes -> Byte] /\ garbled' \in BOOLEAN
             /\ arg' \in [Processes -> Nat]
             /\ RestOK' /\ CallOK(p)' /\ DataOK(p)'
  BY <1>1, GoesTypes, RegisterNames DEF RestInv, Types, TypeOK, lora_t
<1>2. /\ lora \in lora_t /\ reg \in [Registers -> Byte]
      /\ data \in [Processes -> Byte] /\ garbled \in BOOLEAN
      /\ arg \in [Processes -> Nat]
      /\ RestOK /\ CallOK(p) /\ DataOK(p)
  BY RegisterNames DEF RestInv, Types, TypeOK, lora_t
<1>3. CASE Fetch(p)
  <2>1. cmd[p] \in DOMAIN Field
    BY <1>2, <1>3 DEF RestInv, Types, TypeOK, CallOK, Fetch, None, Field,
       Ioctls
  <2>2. /\ lora' = lora /\ reg' = reg /\ data' = data /\ garbled' = garbled
        /\ cmd' = cmd /\ pc'[p] = "take" /\ arg'[p] = lora[Field[cmd[p]]]
    BY <1>2, <1>3 DEF RestInv, Types, TypeOK, Fetch, hist_vars
  <2>3. arg'[p] \in Nat /\ CallOK(p)'
    BY <1>2, <2>1, <2>2 DEF lora_t, CallOK, Field, SLEEP_MODE, Byte, None
  <2>4. arg' \in [Processes -> Nat]
    BY <1>2, <1>3, <2>2, <2>3 DEF Fetch
  <2>5. RestOK' /\ DataOK(p)'
    BY <1>2, <2>2 DEF RestOK, DataOK
  <2> QED
    BY <1>2, <2>2, <2>3, <2>4, <2>5
<1>4. CASE Take(p)
  <2>1. /\ reg' = reg /\ garbled' = garbled /\ cmd' = cmd /\ arg' = arg
        /\ pc[p] = "take" /\ pc'[p] = "write"
    BY <1>4 DEF RestInv, Types, TypeOK, Take, hist_vars
  <2>2. lora' \in lora_t
    BY <1>2, <1>4 DEF Take, CallOK, lora_t
  <2>3. data' \in [Processes -> Byte]
    BY <1>2, <1>4, TakeBits DEF Take
  <2>4. CallOK(p)'
    BY <1>2, <2>1 DEF CallOK, Field, None
  <2>5. DataOK(p)'
    BY <1>4, <2>1, TakeBits, Zenon DEF DataOK
  <2>6. RestOK'
    BY <1>2, <2>1 DEF RestOK
  <2> QED
    BY <1>2, <2>1, <2>2, <2>3, <2>4, <2>5, <2>6
<1>5. CASE TakeGarbage(p)
  <2>1. /\ reg' = reg /\ lora' = lora /\ garbled' /\ garbled' \in BOOLEAN
        /\ cmd' = cmd /\ arg' = arg /\ cmd[p] = "GOTO_MODE" /\ pc'[p] = "write"
    BY <1>5 DEF RestInv, Types, TypeOK, TakeGarbage
  <2>2. data' \in [Processes -> Byte]
    BY <1>2, <1>5 DEF TakeGarbage
  <2>3. CallOK(p)'
    BY <1>2, <2>1 DEF CallOK, Field, None
  <2>4. DataOK(p)' /\ RestOK'
    BY <1>2, <2>1 DEF DataOK, RestOK
  <2> QED
    BY <1>2, <2>1, <2>2, <2>3, <2>4
<1>6. CASE Write(p)
  <2>1. lora' = lora /\ garbled' = garbled
    BY <1>6 DEF Write
  <2>2. reg' \in [Registers -> Byte]
    <3>1. reg' = [r \in Registers |-> reg'[r]]
      BY <1>2, <1>6 DEF Write
    <3> QED
      BY <1>2, <1>6, <3>1, WriteBits
  <2>3. data' \in [Processes -> Byte] /\ arg' \in [Processes -> Nat]
    BY <1>2, <1>6 DEF Write, Done, Onward, Byte
  <2>4. RestOK'
    <3>1. pc[p] = "write"
      BY <1>6 DEF Write
    <3>2. CASE cmd[p] = "GOTO_MODE"
      <4>1. \A r \in Registers \ {"RegOpMode"} : reg'[r] = reg[r]
        BY <1>6, <3>2, WriteBits DEF Register
      <4>2. garbled' \/ reg'.RegOpMode \div 8 = 17
        BY <1>6, <2>1, <3>2, WriteBits
      <4> QED
        BY <1>2, <4>1, <4>2 DEF RestOK, Registers
    <3>3. CASE cmd[p] # "GOTO_MODE"
      <4>1. /\ cmd[p] \in Ioctls \ {"FREQUENCY", "GOTO_MODE"}
            /\ \A r \in Registers \ {Register[cmd[p]]} : reg'[r] = reg[r]
            /\ reg'[Register[cmd[p]]] = data[p]
        BY <1>6, <3>3, WriteBits
      <4>2. Register[cmd[p]] = "RegModemConfig1" => data[p] % 2 = 0
        BY <1>2, <3>1, <4>1 DEF DataOK, Register, Ioctls
      <4>3. Register[cmd[p]] = "RegModemConfig2" => data[p] % 16 = 7
        BY <1>2, <3>1, <4>1 DEF DataOK, Register, Ioctls
      <4>4. Register[cmd[p]] \notin {"RegModemConfig3", "RegOcp", "RegOpMode"}
        BY <4>1 DEF Register, Ioctls
      <4> QED
        BY <1>2, <2>1, <4>1, <4>2, <4>3, <4>4 DEF RestOK, Registers
    <3> QED
      BY <3>2, <3>3
  <2>5. CallOK(p)' /\ DataOK(p)'
    <3>1. CASE cmd[p] \in {"BAND_WIDTH", "SPREADING_FACTOR"}
      <4>1. pc'[p] = "ldo" /\ cmd' = cmd
        BY <1>6, <3>1 DEF RestInv, Types, TypeOK, Write, Onward
      <4> QED
        BY <3>1, <4>1 DEF CallOK, DataOK, Field, None
    <3>2. CASE cmd[p] \notin {"BAND_WIDTH", "SPREADING_FACTOR"}
      <4>1. pc'[p] = "idle" /\ cmd'[p] = None
        BY <1>6, <3>2 DEF RestInv, Types, TypeOK, Write, Done
      <4> QED
        BY <4>1 DEF CallOK, DataOK, Field, None
    <3> QED
      BY <3>1, <3>2
  <2> QED
    BY <1>2, <2>1, <2>2, <2>3, <2>4, <2>5
<1>7. CASE TakeLDO(p)
  <2>1. /\ lora' = lora /\ reg' = reg /\ garbled' = garbled /\ cmd' = cmd /\ arg' = arg
        /\ pc[p] = "ldo" /\ pc'[p] = "ldoWrite"
    BY <1>7 DEF RestInv, Types, TypeOK, TakeLDO, hist_vars
  <2>2. data' \in [Processes -> Byte]
    BY <1>2, <1>7, TakeLDOBits DEF TakeLDO
  <2>3. CallOK(p)'
    BY <1>2, <2>1 DEF CallOK, Field, None
  <2>4. DataOK(p)'
    BY <1>7, <2>1, TakeLDOBits DEF DataOK
  <2>5. RestOK'
    BY <1>2, <2>1 DEF RestOK
  <2> QED
    BY <1>2, <2>1, <2>2, <2>3, <2>4, <2>5
<1>8. CASE WriteLDO(p)
  <2>1. /\ lora' = lora /\ garbled' = garbled /\ pc[p] = "ldoWrite"
        /\ pc'[p] = "idle" /\ cmd'[p] = None
        /\ reg' = [reg EXCEPT !.RegModemConfig3 = data[p]]
    BY <1>8 DEF RestInv, Types, TypeOK, WriteLDO, Done
  <2>2. reg' \in [Registers -> Byte]
    BY <1>2, <2>1
  <2>3. data' \in [Processes -> Byte] /\ arg' \in [Processes -> Nat]
    BY <1>2, <1>8 DEF WriteLDO, Done, Byte
  <2>4. RestOK'
    BY <1>2, <2>1 DEF RestOK, DataOK, Registers
  <2>5. CallOK(p)' /\ DataOK(p)'
    BY <2>1 DEF CallOK, DataOK, Field, None
  <2> QED
    BY <1>2, <2>1, <2>2, <2>3, <2>4, <2>5
<1>9. CASE WriteFr(p)
  <2>1. lora' = lora /\ garbled' = garbled
    BY <1>9 DEF WriteFr
  <2>2. cmd[p] = "FREQUENCY" /\ arg[p] \in 137 .. 525
    BY <1>2, <1>9 DEF RestInv, Types, TypeOK, CallOK, WriteFr, Ioctls, Field,
       None
  <2>3. reg' \in [Registers -> Byte]
    BY <1>2, <1>9, <2>2, FrBits DEF WriteFr
  <2>4. data' \in [Processes -> Byte] /\ arg' \in [Processes -> Nat]
    BY <1>2, <1>9 DEF WriteFr, Done, Onward, Byte
  <2>5. \A r \in Registers \ {"RegFrMsb", "RegFrMid", "RegFrLsb"} : reg'[r] = reg[r]
    BY <1>2, <1>9 DEF WriteFr
  <2>6. RestOK'
    BY <1>2, <2>1, <2>5 DEF RestOK, Registers
  <2>7. CallOK(p)' /\ DataOK(p)'
    <3>1. \/ pc'[p] \in {"mid", "lsb"} /\ cmd' = cmd /\ arg' = arg
          \/ pc'[p] = "idle" /\ cmd'[p] = None
      BY <1>9 DEF RestInv, Types, TypeOK, WriteFr, Done, Onward
    <3> QED
      BY <1>2, <2>2, <3>1 DEF CallOK, DataOK, Field, None
  <2> QED
    BY <1>2, <2>1, <2>3, <2>4, <2>6, <2>7
<1> QED
  BY <1>3, <1>4, <1>5, <1>6, <1>7, <1>8, <1>9 DEF Goes

LEMMA RestStep == RestInv /\ [Next]_vars => RestInv'
<1>1. ASSUME RestInv, Next PROVE RestInv'
  BY <1>1, IoctlRest, GoesRest DEF Next, Set, Goes
<1>2. ASSUME RestInv, UNCHANGED vars PROVE RestInv'
  BY <1>2 DEF RestInv, Types, TypeOK, RestOK, CallOK, DataOK, vars, call_vars,
     hist_vars
<1> QED
  BY <1>1, <1>2

-----------------------------------------------------------------------------
(* The history: who may spoil what.                                        *)

\* Where two ioctls meet, what one sets and the other writes is spoilt for both.
LEMMA Meeting ==
  ASSUME NEW c, NEW d, NEW what \in Sets(c), what \in Writes(d)
  PROVE  what \in Spoilt(c, d) /\ what \in Spoilt(d, c)
  BY WritesOf DEF Spoilt

LEMMA IoctlHistory ==
  ASSUME RestInv, History, NEW p \in Processes, NEW c \in Commands,
         NEW value \in Values(c), Ioctl(p, c, value)
  PROVE  History'
<1> DEFINE others == {q \in Processes \ {p} : pc[q] # "idle"}
           spoilt == UNION {Spoilt(c, cmd[q]) : q \in others}
<1>1. /\ pc[p] = "idle" /\ pc'[p] # "idle" /\ cmd'[p] = c
      /\ hit'[p] = spoilt /\ crossed' = crossed \cup spoilt
  BY DEF RestInv, Types, TypeOK, Ioctl
<1>2. \A q \in others : hit'[q] = hit[q] \cup Spoilt(c, cmd[q])
  BY DEF RestInv, Types, Ioctl
<1>3. \A q \in Processes \ {p} : pc[q] = "idle" => hit'[q] = hit[q]
  BY DEF RestInv, Types, Ioctl
<1>4. \A q \in Processes \ {p} : pc'[q] = pc[q] /\ cmd'[q] = cmd[q]
  BY DEF RestInv, Types, TypeOK, Ioctl
<1>5. \A x, y : Spoilt(x, y) = Spoilt(y, x)
  BY DEF Spoilt
<1>6. \A q \in others : Spoilt(c, cmd[q]) \subseteq spoilt
  OBVIOUS
<1> HIDE DEF spoilt
<1>7. HistoryOK(p)'
  <2>1. spoilt \subseteq Writes(c)
    BY DEF spoilt, Spoilt
  <2> QED
    BY <1>1, <1>4, <1>6, <2>1 DEF HistoryOK, Running
<1>8. ASSUME NEW q \in Processes \ {p} PROVE HistoryOK(q)'
  <2>1. HistoryOK(q)
    BY DEF History
  <2>2. hit'[q] \subseteq crossed'
    BY <1>1, <1>2, <1>3, <1>6, <2>1 DEF HistoryOK
  <2>3. ASSUME Running(q)', NEW r \in Processes \ {q}, Running(r)'
        PROVE  Spoilt(cmd'[q], cmd'[r]) \subseteq hit'[q]
    <3>1. CASE r = p
      BY <1>1, <1>2, <1>4, <1>5, <2>3, <3>1 DEF Running
    <3>2. CASE r # p
      BY <1>2, <1>4, <2>1, <2>3, <3>2 DEF HistoryOK, Running
    <3> QED
      BY <3>1, <3>2
  <2>4. IF Running(q)' THEN hit'[q] \subseteq Writes(cmd'[q]) ELSE hit'[q] = {}
    <3>1. Spoilt(c, cmd[q]) \subseteq Writes(cmd[q])
      BY DEF Spoilt
    <3> QED
      BY <1>2, <1>3, <1>4, <2>1, <3>1 DEF HistoryOK, Running
  <2> QED
    BY <2>2, <2>3, <2>4 DEF HistoryOK
<1> QED
  BY <1>7, <1>8 DEF History

\* An ioctl that returns, and one that does not.
Returns(p) ==
  /\ pc'[p] = "idle" /\ hit'[p] = {}
  /\ crossed' = crossed \ (Sets(cmd[p]) \ hit[p])

GoesOn(p) ==
  /\ Running(p)' /\ cmd'[p] = cmd[p] /\ hit'[p] = hit[p]
  /\ crossed' = crossed

LEMMA GoesHistory ==
  ASSUME RestInv, NEW p \in Processes, Goes(p)
  PROVE  /\ Running(p)
         /\ Returns(p) \/ GoesOn(p)
         /\ \A q \in Processes \ {p} :
              UNCHANGED <<pc[q], cmd[q], arg[q], data[q], hit[q]>>
         /\ asked' = asked
<1> USE DEF RestInv, Types, TypeOK
<1>1. Running(p) /\ asked' = asked
  BY DEF Goes, Fetch, Take, TakeGarbage, Write, TakeLDO, WriteLDO, WriteFr,
     Running, hist_vars
<1>2. ASSUME NEW q \in Processes \ {p}
      PROVE  UNCHANGED <<pc[q], cmd[q], arg[q], data[q], hit[q]>>
  BY DEF Goes, Fetch, Take, TakeGarbage, Write, TakeLDO, WriteLDO, WriteFr,
     Done, Onward, hist_vars
<1>3. CASE Fetch(p) \/ Take(p) \/ TakeGarbage(p) \/ TakeLDO(p)
  BY <1>3 DEF Fetch, Take, TakeGarbage, TakeLDO, GoesOn, Running, hist_vars
<1>4. CASE Write(p) \/ WriteLDO(p) \/ WriteFr(p)
  BY <1>4 DEF Write, WriteLDO, WriteFr, Done, Onward, GoesOn, Returns, Running
<1> QED
  BY <1>1, <1>2, <1>3, <1>4 DEF Goes

LEMMA GoesHistoryKeeps ==
  ASSUME RestInv, History, NEW p \in Processes, Goes(p)
  PROVE  History'
<1>1. Running(p) /\ HistoryOK(p)
  BY GoesHistory DEF History
<1>2. \A q \in Processes \ {p} : UNCHANGED <<pc[q], cmd[q], hit[q]>>
  BY GoesHistory
<1>3. CASE Returns(p)
  <2>1. HistoryOK(p)'
    BY <1>3 DEF Returns, HistoryOK, Running
  <2>2. ASSUME NEW q \in Processes \ {p} PROVE HistoryOK(q)'
    <3>1. HistoryOK(q)
      BY DEF History
    <3>2. ASSUME NEW what \in hit[q] PROVE what \notin Sets(cmd[p]) \ hit[p]
      <4>1. Running(q) /\ what \in Writes(cmd[q])
        BY <3>1, <3>2 DEF HistoryOK
      <4>2. Spoilt(cmd[p], cmd[q]) \subseteq hit[p]
        BY <1>1, <4>1 DEF HistoryOK
      <4> QED
        BY <4>1, <4>2, Meeting
    <3>3. hit'[q] \subseteq crossed'
      BY <1>2, <1>3, <3>1, <3>2 DEF Returns, HistoryOK
    <3> QED
      BY <1>2, <1>3, <3>1, <3>3 DEF Returns, HistoryOK, Running
  <2> QED
    BY <2>1, <2>2 DEF History
<1>4. CASE GoesOn(p)
  BY <1>1, <1>2, <1>4 DEF GoesOn, History, HistoryOK, Running
<1> QED
  BY <1>3, <1>4, GoesHistory

-----------------------------------------------------------------------------
(* The settings.                                                           *)

\* A step that is none of the setting's business.
Untouched(what) ==
  /\ what # "FREQUENCY" =>
       \A b : SaysIn(lora', asked', garbled', what, b)
                <=> SaysIn(lora, asked, garbled, what, b)
  /\ what \notin {"FREQUENCY", "lowDataRate"} => Wanted(what)' = Wanted(what)
  /\ what # "FREQUENCY" => reg'[RegisterOf[what]] = reg[RegisterOf[what]]
  /\ what = "FREQUENCY" =>
       UNCHANGED <<asked.FREQUENCY, reg.RegFrMsb, reg.RegFrMid, reg.RegFrLsb>>

LEMMA UntouchedExact ==
  ASSUME NEW what \in Whats, Untouched(what), Exact(what)
  PROVE  Exact(what)'
<1>1. CASE what = "FREQUENCY"
  BY <1>1 DEF Untouched, Exact, FrIs
<1>2. CASE what # "FREQUENCY"
  BY <1>2 DEF Untouched, Exact, Says
<1> QED
  BY <1>1, <1>2

LEMMA UntouchedProgress ==
  ASSUME NEW what \in Whats, Untouched(what), NEW q \in Processes,
         UNCHANGED <<pc[q], arg[q], data[q]>>, Progress(q, what)
  PROVE  Progress(q, what)'
<1>1. CASE what = "FREQUENCY"
  BY <1>1 DEF Untouched, Progress, FrIs
<1>2. CASE what = "lowDataRate"
  BY <1>2 DEF Untouched, Progress, Says
<1>3. CASE what \notin {"FREQUENCY", "lowDataRate"}
  <2>1. Exact(what) => Exact(what)'
    BY UntouchedExact
  <2> QED
    BY <1>3, <2>1 DEF Untouched, Progress, Says
<1> QED
  BY <1>1, <1>2, <1>3

\* A step changes no setting its ioctl does not write.
LEMMA GoesUntouched ==
  ASSUME RestInv, NEW p \in Processes, Goes(p), NEW what \in Whats \ Writes(cmd[p])
  PROVE  Untouched(what)
<1>1. cmd[p] \in Ioctls
  BY SettingsAssumption, GoesHistory DEF RestInv, Types, TypeOK, CallOK,
     Running
<1>2. asked' = asked
  BY GoesHistory
<1>3. CASE Fetch(p) \/ TakeLDO(p)
  BY <1>3 DEF Fetch, TakeLDO, Untouched, Wanted, hist_vars
<1>4. CASE Take(p) /\ cmd[p] # "GOTO_MODE"
  BY <1>4 DEF Take, Untouched, Wanted, hist_vars
<1>5. CASE (Take(p) \/ TakeGarbage(p)) /\ cmd[p] = "GOTO_MODE"
  <2>1. what # "GOTO_MODE"
    BY <1>5, SetsOf, WritesOf
  <2>2. reg' = reg
    BY <1>5 DEF Take, TakeGarbage
  <2>3. /\ lora'.power = lora.power /\ lora'.bandWidth = lora.bandWidth
        /\ lora'.codingRate = lora.codingRate /\ lora'.spreadingFactor = lora.spreadingFactor
    BY <1>5 DEF RestInv, Types, TypeOK, Take, TakeGarbage
  <2>4. \A b : SaysIn(lora', asked', garbled', what, b)
                 <=> SaysIn(lora, asked, garbled, what, b)
    BY <1>2, <2>1, <2>3 DEF SaysIn, Whats
  <2>5. what \notin {"FREQUENCY", "lowDataRate"} => Wanted(what)' = Wanted(what)
    BY <1>2, <2>1, <2>3 DEF Wanted, Whats
  <2> QED
    BY <1>2, <2>2, <2>4, <2>5 DEF Untouched
<1>6. CASE Write(p)
  <2>1. lora' = lora /\ garbled' = garbled
    BY <1>6 DEF Write
  <2>2. what = "FREQUENCY" \/ RegisterOf[what] \in Registers \ {Register[cmd[p]]}
    BY <1>1, <1>6, WriteBits, SetsOf, WritesOf DEF Ioctls, Whats, RegisterOf,
       Register, Registers
  <2>3. Register[cmd[p]] \notin {"RegFrMsb", "RegFrMid", "RegFrLsb"}
    BY <1>1, <1>6, WriteBits DEF Ioctls, Register
  <2> QED
    BY <1>2, <1>6, <2>1, <2>2, <2>3, WriteBits DEF Untouched, Wanted, Registers
<1>7. CASE WriteLDO(p)
  <2>1. lora' = lora /\ garbled' = garbled
    BY <1>7 DEF WriteLDO
  <2>2. what # "lowDataRate"
    BY <1>1, <1>7, SetsOf, WritesOf DEF RestInv, CallOK, WriteLDO, Ioctls,
       Field, None
  <2>3. \A r \in Registers \ {"RegModemConfig3"} : reg'[r] = reg[r]
    BY <1>7, RegisterNames DEF RestInv, Types, TypeOK, WriteLDO
  <2>4. what # "FREQUENCY" => RegisterOf[what] \in Registers \ {"RegModemConfig3"}
    BY <2>2 DEF Whats, RegisterOf, Registers
  <2> QED
    BY <1>2, <2>1, <2>3, <2>4 DEF Untouched, Wanted, Registers
<1>8. CASE WriteFr(p)
  <2>1. lora' = lora /\ garbled' = garbled
    BY <1>8 DEF WriteFr
  <2>2. what # "FREQUENCY"
    BY <1>1, <1>8, SetsOf, WritesOf DEF RestInv, CallOK, WriteFr, Ioctls, Field
  <2>3. \A r \in Registers \ {"RegFrMsb", "RegFrMid", "RegFrLsb"} : reg'[r] = reg[r]
    BY <1>8, RegisterNames DEF RestInv, Types, TypeOK, WriteFr
  <2>4. RegisterOf[what] \in Registers \ {"RegFrMsb", "RegFrMid", "RegFrLsb"}
    BY <2>2 DEF Whats, RegisterOf, Registers
  <2> QED
    BY <1>2, <2>1, <2>2, <2>3, <2>4 DEF Untouched, Wanted
<1> QED
  BY <1>3, <1>4, <1>5, <1>6, <1>7, <1>8 DEF Goes, TakeGarbage

\* Nor does an ioctl's beginning change one it does not set.
LEMMA IoctlUntouched ==
  ASSUME RestInv, NEW p \in Processes, NEW c \in Commands, NEW value \in Values(c),
         Ioctl(p, c, value), NEW what \in Whats \ Sets(c)
  PROVE  Untouched(what)
<1>1. c \in Ioctls
  BY SettingsAssumption
<1>2. reg' = reg /\ garbled' = garbled
  BY DEF Ioctl
<1>3. /\ c # "POWER" => lora'.power = lora.power
      /\ c # "GOTO_MODE" => lora'.current_mode = lora.current_mode
      /\ c # "BAND_WIDTH" => lora'.bandWidth = lora.bandWidth
      /\ c # "CODING_RATE" => lora'.codingRate = lora.codingRate
      /\ c # "SPREADING_FACTOR" => lora'.spreadingFactor = lora.spreadingFactor
  BY <1>1 DEF RestInv, Types, TypeOK, Ioctl, Field, Ioctls
<1>4. /\ c # "FREQUENCY" => asked'.FREQUENCY = asked.FREQUENCY
      /\ c # "SYNC_WORD" => asked'.SYNC_WORD = asked.SYNC_WORD
  BY <1>1 DEF RestInv, Types, Ioctl, Ioctls
<1>5. /\ what = "FREQUENCY" => asked'.FREQUENCY = asked.FREQUENCY
      /\ what = "SYNC_WORD" => asked'.SYNC_WORD = asked.SYNC_WORD
      /\ what = "POWER" => lora'.power = lora.power
      /\ what = "GOTO_MODE" => lora'.current_mode = lora.current_mode
      /\ what \in {"bandWidth", "lowDataRate"} => lora'.bandWidth = lora.bandWidth
      /\ what = "codingRate" => lora'.codingRate = lora.codingRate
      /\ what \in {"spreadingFactor", "lowDataRate"} =>
           lora'.spreadingFactor = lora.spreadingFactor
  BY <1>3, <1>4, SetsOf
<1>6. ASSUME what # "FREQUENCY", NEW b
      PROVE  SaysIn(lora', asked', garbled', what, b)
               <=> SaysIn(lora, asked, garbled, what, b)
  <2>1. CASE what = "lowDataRate"
    BY <1>5, <2>1 DEF SaysIn
  <2>2. CASE what = "GOTO_MODE"
    BY <1>2, <1>5, <2>2 DEF SaysIn
  <2>3. CASE what \in {"SYNC_WORD", "POWER"}
    BY <1>5, <2>3 DEF SaysIn
  <2>4. CASE what \in {"bandWidth", "codingRate", "spreadingFactor"}
    BY <1>5, <2>4 DEF SaysIn
  <2> QED
    BY <1>6, <2>1, <2>2, <2>3, <2>4 DEF Whats
<1>7. what \notin {"FREQUENCY", "lowDataRate"} => Wanted(what)' = Wanted(what)
  BY <1>5 DEF Wanted, Whats
<1> QED
  BY <1>2, <1>5, <1>6, <1>7 DEF Untouched

\* What an ioctl does, step by step, for a setting of its own.
LEMMA OwnGoes ==
  ASSUME RestInv, NEW p \in Processes, Goes(p), NEW what \in Sets(cmd[p]),
         Progress(p, what)
  PROVE  IF pc'[p] = "idle" THEN Exact(what)' ELSE Progress(p, what)'
<1>1. cmd[p] \in Ioctls /\ CallOK(p) /\ asked' = asked
  BY SettingsAssumption, GoesHistory DEF RestInv, Types, TypeOK, CallOK,
     Running
<1>2. /\ cmd[p] \in {"FREQUENCY", "SYNC_WORD", "POWER", "GOTO_MODE"} => what = cmd[p]
      /\ cmd[p] = "BAND_WIDTH" => what \in {"bandWidth", "lowDataRate"}
      /\ cmd[p] = "CODING_RATE" => what = "codingRate"
      /\ cmd[p] = "SPREADING_FACTOR" => what \in {"spreadingFactor", "lowDataRate"}
  BY SetsOf
<1>3. what = "lowDataRate" => cmd[p] \in {"BAND_WIDTH", "SPREADING_FACTOR"}
  BY <1>1, <1>2 DEF Ioctls
<1>4. CASE Fetch(p)
  <2>1. /\ lora' = lora /\ pc'[p] = "take" /\ arg'[p] = lora[Field[cmd[p]]]
        /\ cmd[p] \in Ioctls \ {"FREQUENCY", "SYNC_WORD"}
    BY <1>1, <1>4 DEF RestInv, Types, TypeOK, Fetch, CallOK
  <2>2. what \notin {"FREQUENCY", "lowDataRate"} => arg'[p] = Wanted(what)'
    BY <1>2, <2>1 DEF Wanted, Field, Ioctls
  <2>3. what # "FREQUENCY"
    BY <1>2, <2>1 DEF Ioctls
  <2> QED
    BY <2>1, <2>2, <2>3 DEF Progress
<1>5. CASE Take(p)
  <2>1. pc[p] = "take" /\ pc'[p] = "write" /\ cmd[p] # "FREQUENCY" /\ garbled' = garbled
    BY <1>1, <1>5 DEF RestInv, Types, TypeOK, Take, CallOK, hist_vars
  <2>2. CASE what = "lowDataRate"
    BY <2>1, <2>2 DEF Progress
  <2>3. CASE what # "lowDataRate"
    <3>1. what # "FREQUENCY"
      BY <1>1, <1>2, <2>1 DEF Ioctls
    <3>2. arg[p] = Wanted(what)
      BY <2>1, <2>3, <3>1 DEF Progress
    <3>3. CASE cmd[p] = "GOTO_MODE"
      <4>1. lora'.current_mode = arg[p] /\ data'[p] % 8 = arg[p]
        BY <1>5, <3>3, TakeBits DEF RestInv, Types, TypeOK, Take
      <4> QED
        BY <1>2, <2>1, <3>3, <4>1 DEF Progress, Says, SaysIn
    <3>4. CASE cmd[p] # "GOTO_MODE"
      <4>1. lora' = lora
        BY <1>5, <3>4 DEF Take
      <4>2. CASE cmd[p] = "BAND_WIDTH"
        <5>1. what = "bandWidth" /\ data'[p] \div 16 = lora'.bandWidth
          BY <1>2, <1>5, <2>3, <3>2, <4>1, <4>2, TakeBits DEF Wanted
        <5> QED
          BY <2>1, <5>1 DEF Progress, Says, SaysIn
      <4>3. CASE cmd[p] = "CODING_RATE"
        <5>1. what = "codingRate" /\ (data'[p] % 16) \div 2 = lora'.codingRate
          BY <1>2, <1>5, <2>3, <3>2, <4>1, <4>3, TakeBits DEF Wanted
        <5> QED
          BY <2>1, <5>1 DEF Progress, Says, SaysIn
      <4>4. CASE cmd[p] = "SPREADING_FACTOR"
        <5>1. what = "spreadingFactor" /\ data'[p] \div 16 = Clamp(lora'.spreadingFactor)
          BY <1>2, <1>5, <2>3, <3>2, <4>1, <4>4, TakeBits DEF Wanted
        <5> QED
          BY <2>1, <5>1 DEF Progress, Says, SaysIn
      <4>5. CASE cmd[p] \in {"POWER", "SYNC_WORD"}
        <5>1. what = cmd[p] /\ data'[p] = Wanted(what)'
          BY <1>1, <1>2, <1>5, <3>2, <4>1, <4>5, TakeBits DEF Wanted
        <5> QED
          BY <2>1, <4>5, <5>1 DEF Progress, Says, SaysIn, Wanted
      <4> QED
        BY <1>1, <2>1, <3>4, <4>2, <4>3, <4>4, <4>5 DEF Ioctls
    <3> QED
      BY <3>3, <3>4
  <2> QED
    BY <2>2, <2>3
<1>6. CASE TakeGarbage(p)
  BY <1>2, <1>6 DEF RestInv, Types, TypeOK, TakeGarbage, Progress, Says, SaysIn
<1>7. CASE Write(p)
  <2>1. pc[p] = "write" /\ lora' = lora /\ garbled' = garbled
    BY <1>7 DEF Write
  <2>2. pc'[p] = IF cmd[p] \in {"BAND_WIDTH", "SPREADING_FACTOR"} THEN "ldo" ELSE "idle"
    BY <1>7 DEF RestInv, Types, TypeOK, Write, Onward, Done
  <2>3. CASE what = "lowDataRate"
    BY <1>3, <2>2, <2>3 DEF Progress
  <2>4. CASE what # "lowDataRate"
    <3>1. cmd[p] # "FREQUENCY" /\ what # "FREQUENCY" /\ RegisterOf[what] = Register[cmd[p]]
      BY <1>1, <1>2, <1>7, <2>4, WriteBits DEF Ioctls, RegisterOf, Register
    <3>2. Says(what, data[p])
      BY <2>1, <2>4, <3>1 DEF Progress
    <3>3. CASE cmd[p] = "GOTO_MODE"
      <4>1. reg'.RegOpMode % 8 = data[p] % 8 /\ what = "GOTO_MODE"
        BY <1>2, <1>7, <3>3, WriteBits
      <4>2. Exact(what)'
        BY <2>1, <3>2, <4>1 DEF Exact, Says, SaysIn, RegisterOf
      <4> QED
        BY <2>2, <3>3, <4>2
    <3>4. CASE cmd[p] # "GOTO_MODE"
      <4>1. reg'[RegisterOf[what]] = data[p]
        BY <1>7, <3>1, <3>4, WriteBits
      <4>2. Exact(what)'
        BY <1>1, <2>1, <3>1, <3>2, <4>1 DEF Exact, Says
      <4> QED
        BY <2>2, <2>4, <3>1, <4>2 DEF Progress
    <3> QED
      BY <3>3, <3>4
  <2> QED
    BY <2>3, <2>4
<1>8. CASE TakeLDO(p)
  <2>1. /\ pc[p] = "ldo" /\ pc'[p] = "ldoWrite" /\ UNCHANGED <<lora, reg, garbled>>
        /\ what # "FREQUENCY"
    BY <1>1, <1>2, <1>8 DEF RestInv, Types, TypeOK, TakeLDO, hist_vars, CallOK,
       Ioctls
  <2>2. CASE what = "lowDataRate"
    BY <1>8, <2>1, <2>2, TakeLDOBits DEF Progress, Says, SaysIn
  <2>3. CASE what # "lowDataRate"
    BY <1>1, <2>1, <2>3 DEF Progress, Exact, Says
  <2> QED
    BY <2>2, <2>3
<1>9. CASE WriteLDO(p)
  <2>1. /\ pc[p] = "ldoWrite" /\ pc'[p] = "idle" /\ UNCHANGED <<lora, garbled>>
        /\ cmd[p] \in {"BAND_WIDTH", "SPREADING_FACTOR"}
    BY <1>1, <1>9 DEF RestInv, Types, TypeOK, WriteLDO, Done, CallOK, Ioctls,
       Field
  <2>2. /\ reg'.RegModemConfig3 = data[p]
        /\ \A r \in Registers \ {"RegModemConfig3"} : reg'[r] = reg[r]
    BY <1>9, RegisterNames DEF RestInv, Types, TypeOK, WriteLDO, Registers
  <2>3. CASE what = "lowDataRate"
    BY <1>1, <2>1, <2>2, <2>3 DEF Progress, Exact, Says, RegisterOf
  <2>4. CASE what # "lowDataRate"
    <3>1. what \in {"bandWidth", "spreadingFactor"}
      BY <1>2, <2>1, <2>4
    <3>2. RegisterOf[what] \in Registers \ {"RegModemConfig3"}
      BY <3>1 DEF RegisterOf, Registers
    <3> QED
      BY <1>1, <2>1, <2>2, <3>1, <3>2 DEF Progress, Exact, Says
  <2> QED
    BY <2>3, <2>4
<1>10. CASE WriteFr(p)
  <2>1. cmd[p] = "FREQUENCY" /\ what = "FREQUENCY"
    BY <1>1, <1>2, <1>10 DEF WriteFr, CallOK, Ioctls, Field
  <2>2. arg[p] = asked.FREQUENCY
    BY <2>1 DEF Progress
  <2>3. CASE pc[p] = "msb"
    <3>1. pc'[p] = "mid" /\ arg'[p] = arg[p] /\ reg'.RegFrMsb = FrMsb(arg[p])
      BY <1>10, <2>3, RegisterNames DEF RestInv, Types, TypeOK, WriteFr,
         Onward, Registers
    <3> QED
      BY <1>1, <2>1, <2>2, <3>1 DEF Progress, FrIs
  <2>4. CASE pc[p] = "mid"
    <3>1. /\ pc'[p] = "lsb" /\ arg'[p] = arg[p] /\ reg'.RegFrMsb = reg.RegFrMsb
          /\ reg'.RegFrMid = FrMid(arg[p])
      BY <1>10, <2>4, RegisterNames DEF RestInv, Types, TypeOK, WriteFr,
         Onward, Registers
    <3> QED
      BY <1>1, <2>1, <2>2, <2>4, <3>1 DEF Progress, FrIs
  <2>5. CASE pc[p] = "lsb"
    <3>1. /\ pc'[p] = "idle" /\ reg'.RegFrMsb = reg.RegFrMsb
          /\ reg'.RegFrMid = reg.RegFrMid /\ reg'.RegFrLsb = FrLsb(arg[p])
      BY <1>10, <2>5, RegisterNames DEF RestInv, Types, TypeOK, WriteFr, Done,
         Registers
    <3> QED
      BY <1>1, <2>1, <2>2, <2>5, <3>1 DEF Progress, Exact, FrIs
  <2> QED
    BY <1>10, <2>3, <2>4, <2>5 DEF WriteFr
<1> QED
  BY <1>4, <1>5, <1>6, <1>7, <1>8, <1>9, <1>10 DEF Goes

\* And for one it only writes back.
LEMMA WrittenBack ==
  ASSUME RestInv, NEW p \in Processes, Goes(p), NEW what \in Writes(cmd[p]) \ Sets(cmd[p]),
         Exact(what), pc[p] = "write" => Says(what, data[p])
  PROVE  /\ \A b : SaysIn(lora', asked', garbled', what, b)
                     <=> SaysIn(lora, asked, garbled, what, b)
         /\ Exact(what)'
         /\ pc'[p] = "write" => Says(what, data[p])'
<1>1. cmd[p] \in Ioctls /\ CallOK(p) /\ asked' = asked
  BY SettingsAssumption, GoesHistory DEF RestInv, Types, TypeOK, CallOK,
     Running
<1>2. \/ cmd[p] = "BAND_WIDTH" /\ what = "codingRate"
      \/ cmd[p] = "CODING_RATE" /\ what = "bandWidth"
  BY <1>1, SetsOf, WritesOf DEF Ioctls
<1>3. lora' = lora
  BY <1>2 DEF Goes, Fetch, Take, TakeGarbage, Write, TakeLDO, WriteLDO, WriteFr
<1>4. \A b : SaysIn(lora', asked', garbled', what, b) <=> SaysIn(lora, asked, garbled, what, b)
  BY <1>2, <1>3 DEF SaysIn
<1>5. RegisterOf[what] = "RegModemConfig1" /\ what # "FREQUENCY"
  BY <1>2 DEF RegisterOf
<1>6. CASE Fetch(p) \/ TakeLDO(p)
  BY <1>4, <1>5, <1>6 DEF RestInv, Types, TypeOK, Fetch, TakeLDO, Exact, Says
<1>7. CASE Take(p)
  <2>1. reg' = reg
    BY <1>7 DEF Take
  <2>2. Says(what, reg.RegModemConfig1)
    BY <1>5 DEF Exact
  <2>3. SaysIn(lora, asked, garbled, what, data'[p])
    BY <1>2, <1>7, <2>2, TakeBits DEF Says, SaysIn
  <2> QED
    BY <1>4, <1>5, <2>1, <2>2, <2>3 DEF Exact, Says
<1>8. CASE Write(p)
  <2>1. pc[p] = "write" /\ pc'[p] # "write"
    BY <1>8 DEF RestInv, Types, TypeOK, Write, Onward, Done
  <2>2. Register[cmd[p]] = "RegModemConfig1" /\ cmd[p] # "GOTO_MODE"
    BY <1>2 DEF Register
  <2>3. reg'.RegModemConfig1 = data[p]
    BY <1>8, <2>2, WriteBits
  <2> QED
    BY <1>4, <1>5, <2>1, <2>3 DEF Exact, Says
<1>9. CASE WriteLDO(p)
  <2>1. pc'[p] = "idle" /\ reg'.RegModemConfig1 = reg.RegModemConfig1
    BY <1>9, RegisterNames DEF RestInv, Types, TypeOK, WriteLDO, Done,
       Registers
  <2> QED
    BY <1>4, <1>5, <2>1 DEF Exact, Says
<1>10. ~TakeGarbage(p) /\ ~WriteFr(p)
  BY <1>1, <1>2 DEF TakeGarbage, WriteFr, CallOK, Field
<1> QED
  BY <1>4, <1>6, <1>7, <1>8, <1>9, <1>10 DEF Goes

\* No other process is about to write what one sets undisturbed.
LEMMA NoOther ==
  ASSUME RestInv, History, NEW p \in Processes, NEW q \in Processes \ {p},
         Running(p), Running(q), NEW what \in Sets(cmd[p]) \ hit[p]
  PROVE  what \notin Writes(cmd[q])
<1>1. Spoilt(cmd[p], cmd[q]) \subseteq hit[p]
  BY DEF History, HistoryOK
<1> QED
  BY <1>1, Meeting

LEMMA GoesOwn ==
  ASSUME RestInv, History, SettingInv, NEW p \in Processes, Goes(p), NEW q \in Processes
  PROVE  Own(q)'
<1>1. Running(p) /\ cmd[p] \in Ioctls
  BY SettingsAssumption, GoesHistory DEF RestInv, Types, TypeOK, CallOK,
     Running
<1>2. SUFFICES ASSUME Running(q)', NEW what \in (Sets(cmd[q]) \ hit[q])'
               PROVE  Progress(q, what)'
  BY DEF Own
<1>3. Own(q)
  BY DEF SettingInv
<1>4. CASE q = p
  <2>1. GoesOn(p)
    BY <1>2, <1>4, GoesHistory DEF Returns, Running
  <2>2. what \in Sets(cmd[p]) \ hit[p] /\ pc'[p] # "idle"
    BY <1>2, <1>4, <2>1 DEF GoesOn, Running
  <2>3. Progress(p, what)
    BY <1>1, <1>3, <1>4, <2>2 DEF Own
  <2> QED
    BY <1>4, <2>2, <2>3, OwnGoes
<1>5. CASE q # p
  <2>1. UNCHANGED <<pc[q], cmd[q], arg[q], data[q], hit[q]>>
    BY <1>5, GoesHistory
  <2>2. Running(q) /\ what \in Sets(cmd[q]) \ hit[q] /\ cmd[q] \in Ioctls
    BY <1>2, <2>1, SettingsAssumption DEF Running, RestInv, Types, TypeOK,
       CallOK
  <2>3. what \in Whats \ Writes(cmd[p])
    BY <1>1, <1>5, <2>2, NoOther, SetsAreWhats
  <2>4. Progress(q, what)
    BY <1>3, <2>2 DEF Own
  <2> QED
    BY <2>1, <2>3, <2>4, GoesUntouched, UntouchedProgress
<1> QED
  BY <1>4, <1>5

LEMMA GoesKept ==
  ASSUME RestInv, History, SettingInv, NEW p \in Processes, Goes(p), NEW what \in Whats
  PROVE  Kept(what)'
<1>1. /\ Running(p) /\ cmd[p] \in Ioctls /\ HistoryOK(p) /\ Own(p)
      /\ \A q \in Processes \ {p} :
           UNCHANGED <<pc[q], cmd[q], arg[q], data[q], hit[q]>>
  BY SettingsAssumption, GoesHistory
  DEF RestInv, Types, TypeOK, CallOK, Running, History, SettingInv
<1> SUFFICES ASSUME what \notin crossed',
                    \A q \in Processes : Running(q)' => what \notin Sets(cmd'[q])
             PROVE  /\ Exact(what)'
                    /\ \A q \in Processes :
                         pc'[q] = "write" /\ what \in Writes(cmd'[q]) => Says(what, data[q])'
  BY DEF Kept
<1>2. CASE what \in Sets(cmd[p])
  <2>1. Returns(p)
    BY <1>2, GoesHistory DEF GoesOn
  <2>2. what \notin hit[p]
    BY <1>1, <2>1 DEF Returns, HistoryOK
  <2>3. Progress(p, what)
    BY <1>1, <1>2, <2>2 DEF Own
  <2>4. Exact(what)'
    BY <1>2, <2>1, <2>3, OwnGoes DEF Returns
  <2>5. ASSUME NEW q \in Processes, pc'[q] = "write" PROVE what \notin Writes(cmd'[q])
    <3>1. q # p
      BY <2>1, <2>5 DEF Returns
    <3>2. Running(q) /\ cmd'[q] = cmd[q]
      BY <1>1, <2>5, <3>1 DEF Running
    <3> QED
      BY <1>1, <1>2, <2>2, <3>1, <3>2, NoOther
  <2> QED
    BY <2>4, <2>5
<1>3. CASE what \notin Sets(cmd[p])
  <2>1. what \notin crossed
    BY <1>3, GoesHistory DEF Returns, GoesOn
  <2>2. \A q \in Processes : Running(q) => what \notin Sets(cmd[q])
    BY <1>1, <1>3 DEF Running
  <2>3. /\ Exact(what)
        /\ \A q \in Processes :
             pc[q] = "write" /\ what \in Writes(cmd[q]) => Says(what, data[q])
    BY <2>1, <2>2 DEF SettingInv, Kept
  <2>4. /\ Exact(what)'
        /\ what # "FREQUENCY" =>
             \A b : SaysIn(lora', asked', garbled', what, b)
                      <=> SaysIn(lora, asked, garbled, what, b)
        /\ pc'[p] = "write" /\ what \in Writes(cmd'[p]) => Says(what, data[p])'
    <3>1. pc'[p] = "write" => cmd'[p] = cmd[p]
      BY GoesHistory DEF Returns, GoesOn
    <3>2. CASE what \in Writes(cmd[p])
      BY <1>3, <2>3, <3>1, <3>2, WrittenBack
    <3>3. CASE what \notin Writes(cmd[p])
      <4>1. Untouched(what)
        BY <3>3, GoesUntouched
      <4> QED
        BY <2>3, <3>1, <3>3, <4>1, UntouchedExact DEF Untouched
    <3> QED
      BY <3>2, <3>3
  <2>5. ASSUME NEW q \in Processes \ {p}, pc'[q] = "write", what \in Writes(cmd'[q])
        PROVE  Says(what, data[q])'
    <3>1. UNCHANGED <<pc[q], cmd[q], data[q]>>
      BY <1>1
    <3>2. Says(what, data[q])
      BY <2>3, <2>5, <3>1
    <3>3. what # "FREQUENCY"
      <4>1. cmd[q] \in Ioctls /\ CallOK(q) /\ pc[q] = "write"
        BY <2>5, <3>1, SettingsAssumption DEF RestInv, Types, TypeOK, CallOK
      <4>2. cmd[q] # "FREQUENCY"
        BY <4>1 DEF CallOK
      <4> QED
        BY <2>5, <3>1, <4>1, <4>2, SetsOf, WritesOf DEF Ioctls
    <3> QED
      BY <2>4, <3>1, <3>2, <3>3 DEF Says
  <2> QED
    BY <2>4, <2>5
<1> QED
  BY <1>2, <1>3
LEMMA IoctlSettings ==
  ASSUME RestInv, History, SettingInv, NEW p \in Processes, NEW c \in Commands,
         NEW value \in Values(c), Ioctl(p, c, value)
  PROVE  SettingInv'
<1>1. /\ c \in Ioctls /\ pc[p] = "idle" /\ cmd'[p] = c /\ arg'[p] = value
      /\ pc'[p] = (CASE c = "FREQUENCY"   -> "msb"
                     [] c \in DOMAIN Field -> "fetch"
                     [] OTHER              -> "take")
      /\ crossed \subseteq crossed' /\ reg' = reg
  BY SettingsAssumption DEF RestInv, Types, TypeOK, Ioctl
<1>2. \A q \in Processes \ {p} : UNCHANGED <<pc[q], cmd[q], arg[q], data[q]>>
  BY DEF RestInv, Types, TypeOK, Ioctl
<1>3. \A q \in Processes \ {p} : Running(q) => hit'[q] = hit[q] \cup Spoilt(c, cmd[q])
  BY DEF RestInv, Types, Ioctl, Running
<1>4. Own(p)'
  <2> SUFFICES ASSUME NEW what \in Sets(c) PROVE Progress(p, what)'
    BY <1>1 DEF Own
  <2>1. CASE c = "FREQUENCY"
    <3>1. asked'.FREQUENCY = value
      <4>1. asked' = [asked EXCEPT !["FREQUENCY"] = value]
        BY <2>1 DEF RestInv, Types, Ioctl
      <4> QED
        BY <4>1 DEF RestInv, Types
    <3>2. what = "FREQUENCY" /\ pc'[p] = "msb"
      BY <1>1, <2>1, SetsOf DEF Field
    <3> QED
      BY <1>1, <3>1, <3>2 DEF Progress
  <2>2. CASE c = "SYNC_WORD"
    <3>1. what = "SYNC_WORD" /\ asked'.SYNC_WORD = value /\ pc'[p] = "take"
      BY <1>1, <2>2, SetsOf DEF RestInv, Types, Ioctl, Field
    <3> QED
      BY <1>1, <3>1 DEF Progress, Wanted
  <2>3. CASE c \in DOMAIN Field
    <3>1. what # "FREQUENCY" /\ pc'[p] = "fetch"
      BY <1>1, <2>3, SetsOf DEF Field
    <3> QED
      BY <3>1 DEF Progress
  <2> QED
    BY <1>1, <2>1, <2>2, <2>3 DEF Ioctls, Field
<1>5. ASSUME NEW q \in Processes \ {p} PROVE Own(q)'
  <2>1. SUFFICES ASSUME Running(q)', NEW what \in (Sets(cmd[q]) \ hit[q])'
                 PROVE  Progress(q, what)'
    BY DEF Own
  <2>2. Running(q) /\ what \in Sets(cmd[q]) /\ cmd[q] \in Ioctls
    BY <1>2, <2>1, SettingsAssumption DEF Running, RestInv, Types, TypeOK,
       CallOK
  <2>3. what \notin hit[q] /\ what \notin Spoilt(c, cmd[q])
    BY <1>3, <2>1, <2>2
  <2>4. what \in Whats \ Sets(c)
    BY <2>2, <2>3, SetsAreWhats, WritesOf, Meeting
  <2>5. Progress(q, what)
    BY <2>2, <2>3 DEF SettingInv, Own
  <2> QED
    BY <1>2, <2>4, <2>5, IoctlUntouched, UntouchedProgress
<1>6. ASSUME NEW what \in Whats PROVE Kept(what)'
  <2>1. SUFFICES ASSUME what \notin crossed',
                        \A q \in Processes : Running(q)' => what \notin Sets(cmd'[q])
                 PROVE  /\ Exact(what)'
                        /\ \A q \in Processes :
                             pc'[q] = "write" /\ what \in Writes(cmd'[q])
                               => Says(what, data[q])'
    BY DEF Kept
  <2>2. what \notin Sets(c)
    BY <1>1, <2>1 DEF Running
  <2>3. \A q \in Processes : Running(q) => what \notin Sets(cmd[q])
    BY <1>1, <1>2, <2>1 DEF Running
  <2>4. /\ Exact(what)
        /\ \A q \in Processes :
             pc[q] = "write" /\ what \in Writes(cmd[q]) => Says(what, data[q])
    BY <1>1, <2>1, <2>3 DEF SettingInv, Kept
  <2>5. Untouched(what)
    BY <2>2, IoctlUntouched
  <2>6. ASSUME NEW q \in Processes, pc'[q] = "write", what \in Writes(cmd'[q])
        PROVE  Says(what, data[q])'
    <3>1. q # p
      BY <1>1, <2>6 DEF Ioctls, Field
    <3>2. UNCHANGED <<pc[q], cmd[q], data[q]>>
      BY <1>2, <3>1
    <3>3. what # "FREQUENCY"
      <4>1. cmd[q] \in Ioctls /\ CallOK(q) /\ pc[q] = "write"
        BY <2>6, <3>2, SettingsAssumption DEF RestInv, Types, TypeOK, CallOK
      <4>2. cmd[q] # "FREQUENCY"
        BY <4>1 DEF CallOK
      <4> QED
        BY <2>6, <3>2, <4>1, <4>2, SetsOf, WritesOf DEF Ioctls
    <3> QED
      BY <2>4, <2>5, <2>6, <3>2, <3>3 DEF Untouched, Says
  <2> QED
    BY <2>4, <2>5, <2>6, UntouchedExact
<1> QED
  BY <1>4, <1>5, <1>6 DEF SettingInv

LEMMA SettingStep ==
  ASSUME RestInv, History, SettingInv, [Next]_vars
  PROVE  History' /\ SettingInv'
<1>1. CASE Next
  <2>1. PICK p \in Processes : Set(p) \/ Goes(p)
    BY <1>1 DEF Next, Goes
  <2>2. CASE Set(p)
    BY <2>2, IoctlHistory, IoctlSettings DEF Set
  <2>3. CASE Goes(p)
    BY <2>3, GoesHistoryKeeps, GoesOwn, GoesKept DEF SettingInv
  <2> QED
    BY <2>1, <2>2, <2>3
<1>2. CASE UNCHANGED vars
  <2>1. History'
    BY <1>2 DEF History, HistoryOK, Running, vars, call_vars, hist_vars
  <2>2. \A what \in Whats : Untouched(what)
    BY <1>2 DEF Untouched, Wanted, vars, hist_vars
  <2>3. \A q \in Processes : UNCHANGED <<pc[q], cmd[q], arg[q], data[q], hit[q]>>
    BY <1>2 DEF vars, call_vars, hist_vars
  <2>4. ASSUME NEW q \in Processes PROVE Own(q)'
    <3>1. SUFFICES ASSUME Running(q)', NEW what \in (Sets(cmd[q]) \ hit[q])'
                   PROVE  Progress(q, what)'
      BY DEF Own
    <3>2. Running(q) /\ what \in Sets(cmd[q]) \ hit[q] /\ cmd[q] \in Ioctls
      BY <2>3, <3>1, SettingsAssumption DEF Running, RestInv, Types, TypeOK,
         CallOK
    <3>3. what \in Whats
      BY <3>2, SetsAreWhats
    <3> QED
      BY <2>2, <2>3, <3>2, <3>3, UntouchedProgress DEF SettingInv, Own
  <2>5. ASSUME NEW what \in Whats PROVE Kept(what)'
    BY <1>2 DEF SettingInv, Kept, Exact, FrIs, Says, Running, vars, call_vars,
       hist_vars
  <2> QED
    BY <2>1, <2>4, <2>5 DEF SettingInv
<1> QED
  BY <1>1, <1>2

LEMMA InvAlways == Spec => [](RestInv /\ History /\ SettingInv)
<1>1. Init => RestInv /\ History /\ SettingInv
  BY InitRest, InitHistory
<1>2. RestInv /\ History /\ SettingInv /\ [Next]_vars => (RestInv /\ History /\ SettingInv)'
  BY RestStep, SettingStep
<1> QED
  BY <1>1, <1>2, PTL DEF Spec

LEMMA FieldsRange ==
  ASSUME RestInv
  PROVE  /\ lora.spreadingFactor \in 6 .. 12 /\ lora.bandWidth \in 0 .. 9
         /\ asked.FREQUENCY \in 137 .. 525
<1>1. lora \in lora_t /\ asked \in [FREQUENCY : 137 .. 525, SYNC_WORD : Byte]
  BY DEF RestInv, Types, TypeOK, lora_t
<1>2. lora.spreadingFactor \in SFs \cup {7} /\ lora.bandWidth \in bandwidth_t \cup {7}
  BY <1>1 DEF lora_t
<1>3. /\ 7 \in 6 .. 12 /\ \A x \in SFs : x \in 6 .. 12
      /\ 7 \in 0 .. 9 /\ \A x \in bandwidth_t : x \in 0 .. 9
  BY SettingsAssumption
<1>4. asked.FREQUENCY \in 137 .. 525
  BY <1>1
<1>5. lora.spreadingFactor \in 6 .. 12
  BY <1>2, <1>3, Zenon
<1>6. lora.bandWidth \in 0 .. 9
  BY <1>2, <1>3, Zenon
<1> QED
  BY <1>4, <1>5, <1>6, Zenon

-----------------------------------------------------------------------------
(* The theorems.                                                           *)

(***************************************************************************)
(* Explicit header, CRC and timeout, AGC and the current limit stay as     *)
(* LoRa_init has set them (sx1278.c:697-747), however many ioctls overlap  *)
(* and however their single-byte transfers (sx1278.c:408-426) mix.         *)
(***************************************************************************)
THEOREM BitsKept == Spec => []RestKept
<1>1. RestInv => RestKept
  BY DEF RestInv, RestKept, Types, RestOK
<1> QED
  BY <1>1, InvAlways, PTL

\* A setting that is settled is in the chip.
LEMMA SettledExact ==
  ASSUME RestInv, SettingInv, NEW what \in Whats, Settled(what)
  PROVE  Exact(what)
<1>1. \A p \in Processes : Running(p) => what \notin Sets(cmd[p])
  BY WritesOf DEF Settled, Busy, Running
<1> QED
  BY <1>1 DEF SettingInv, Kept, Settled

(***************************************************************************)
(* What the setters leave in the chip (sx1278.c:436-573) is what the last  *)
(* ioctl asked for (sx1278.c:149-211), setting by setting, unless two      *)
(* ioctls that share it overlapped and it has not been set since.          *)
(***************************************************************************)
THEOREM SettingsRight == Spec => []SettingsExact
<1>1. ASSUME RestInv, SettingInv, NEW what \in Whats \ {"lowDataRate"}, Settled(what)
      PROVE  Agrees(what)
  <2>2. Exact(what)
    BY <1>1, SettledExact
  <2>3. CASE what = "FREQUENCY"
    <3>1. asked.FREQUENCY \in 137 .. 525
      BY <1>1, FieldsRange
    <3>2. FrIs(3)
      BY <2>2, <2>3 DEF Exact
    <3>3. /\ reg.RegFrMsb = FrMsb(asked.FREQUENCY) /\ reg.RegFrMid = FrMid(asked.FREQUENCY)
          /\ reg.RegFrLsb = FrLsb(asked.FREQUENCY)
      BY <3>2, SMT DEF FrIs
    <3>4. reg.RegFrMsb * 65536 + reg.RegFrMid * 256 + reg.RegFrLsb = asked.FREQUENCY * 16384
      BY <3>1, <3>3, FrBits, SMT
    <3> QED
      BY <2>3, <3>4, SMT DEF Agrees
  <2>4. CASE what \in {"SYNC_WORD", "POWER"}
    <3>1. CASE what = "SYNC_WORD"
      BY <2>2, <3>1, SMT DEF Agrees, Exact, Says, SaysIn, RegisterOf
    <3>2. CASE what = "POWER"
      BY <2>2, <3>2, SMT DEF Agrees, Exact, Says, SaysIn, RegisterOf
    <3> QED
      BY <2>4, <3>1, <3>2
  <2>5. CASE what = "GOTO_MODE"
    <3>1. garbled \/ reg.RegOpMode % 8 = lora.current_mode
      BY <2>2, <2>5 DEF Exact, Says, SaysIn, RegisterOf
    <3> QED
      BY <2>5, <3>1 DEF Agrees
  <2>6. CASE what = "bandWidth"
    BY <2>2, <2>6, SMT DEF Agrees, Exact, Says, SaysIn, RegisterOf, ChipBW
  <2>7. CASE what = "codingRate"
    BY <2>2, <2>7, SMT DEF Agrees, Exact, Says, SaysIn, RegisterOf
  <2>8. CASE what = "spreadingFactor"
    <3>1. lora.spreadingFactor \in 6 .. 12
      BY <1>1, FieldsRange
    <3>2. reg.RegModemConfig2 \div 16 = Clamp(lora.spreadingFactor)
      BY <2>2, <2>8 DEF Exact, Says, SaysIn, RegisterOf
    <3>3. ChipSF = IF lora.spreadingFactor = 6 THEN 7 ELSE lora.spreadingFactor
      BY <3>1, <3>2, ClampValue DEF ChipSF
    <3> QED
      BY <2>8, <3>3, SMT DEF Agrees
  <2> QED
    BY <2>3, <2>4, <2>5, <2>6, <2>7, <2>8 DEF Whats
<1>2. RestInv /\ SettingInv => SettingsExact
  BY <1>1 DEF SettingsExact
<1> QED
  BY <1>2, InvAlways, PTL

(***************************************************************************)
(* LoRa_setAutoLDO computes the low data rate bit from the driver's fields *)
(* (sx1278.c:544-550), after its caller has written its own byte; the bit  *)
(* fits the spreading factor and the bandwidth the chip has all the same.  *)
(***************************************************************************)
THEOREM LowDataRateRight == Spec => []LowDataRateFits
<1>1. ASSUME RestInv, SettingInv,
             \A what \in {"bandWidth", "spreadingFactor", "lowDataRate"} : Settled(what)
      PROVE  reg.RegModemConfig3 % 16 >= 8 <=> 2^ChipSF * 10 >= 17 * BW_kHz10[ChipBW + 1]
  <2>1. Exact("bandWidth") /\ Exact("spreadingFactor") /\ Exact("lowDataRate")
    BY <1>1, SettledExact DEF Whats
  <2>2. ChipBW = lora.bandWidth /\ ChipSF = Clamp(lora.spreadingFactor)
    BY <2>1 DEF Exact, Says, SaysIn, RegisterOf, ChipBW, ChipSF
  <2>3. reg.RegModemConfig3 % 16 >= 8 <=> Optimized(lora.spreadingFactor, lora.bandWidth)
    BY <2>1 DEF Exact, Says, SaysIn, RegisterOf
  <2>4. lora.spreadingFactor \in 6 .. 12 /\ lora.bandWidth \in 0 .. 9
    BY <1>1, FieldsRange
  <2> QED
    BY <2>2, <2>3, <2>4, OptimizedFits, Zenon
<1>2. RestInv /\ SettingInv => LowDataRateFits
  BY <1>1, Zenon DEF LowDataRateFits
<1> QED
  BY <1>2, InvAlways, PTL

=============================================================================
