-------------------------- MODULE LoRaFrame_proof --------------------------
(***************************************************************************)
(* The way of a packet for every packet, buffer size and list: nothing is  *)
(* lost or mistaken on it if no id has a zero byte.                        *)
(***************************************************************************)
EXTENDS LoRaFrame, WellFoundedInduction, SequenceTheorems, TLAPS

Fits(p) == p \in Packet /\ Len(p.data) <= PACKET_SIZE - BASE_DATA - 1

LEMMA Sizes ==
  /\ PACKET_SIZE \in Nat /\ 12 <= PACKET_SIZE /\ PACKET_SIZE <= 255 /\ BASE_DATA = 10
  /\ Index = 0 .. PACKET_SIZE - 1
BY FrameAssumption DEF Index

-----------------------------------------------------------------------------
(* Ids. *)

LEMMA Division ==
  ASSUME NEW n \in Nat, n \div 16777216 \in 0 .. 255
  PROVE  n = ((n \div 16777216) % 256) * 16777216 + ((n \div 65536) % 256) * 65536
               + ((n \div 256) % 256) * 256 + ((n \div 1) % 256)
BY SMT

LEMMA Remainder ==
  ASSUME NEW n \in Nat, NEW w \in Nat \ {0}
  PROVE  (n \div w) % 256 \in 0 .. 255
BY SMT

LEMMA IdBounds ==
  ASSUME NEW id \in Id
  PROVE  id \in Nat /\ id \div 16777216 \in 0 .. 255
<1>1. id \in Nat /\ id <= MaxId /\ MaxId \in Nat /\ MaxId \div 16777216 \in 0 .. 255
  BY FrameAssumption DEF Id, Byte
<1> QED
  BY SMT, <1>1

LEMMA IdByteType ==
  ASSUME NEW id \in Id, NEW k \in 1 .. 4
  PROVE  IdByte(id, k) \in Byte
<1>1. id \in Nat
  BY IdBounds
<1>2. Weight[k] \in Nat \ {0}
  BY SMT DEF Weight
<1> QED
  BY <1>1, <1>2, Remainder DEF IdByte, Byte

\* The bytes of an id give it back.
LEMMA IdFromBytes ==
  ASSUME NEW id \in Id
  PROVE  id = IdByte(id, 1) * Weight[1] + IdByte(id, 2) * Weight[2]
                + IdByte(id, 3) * Weight[3] + IdByte(id, 4)
<1>1. id \in Nat /\ id \div 16777216 \in 0 .. 255
  BY IdBounds
<1>2. Weight[1] = 16777216 /\ Weight[2] = 65536 /\ Weight[3] = 256 /\ Weight[4] = 1
  BY SMT DEF Weight
<1>3. id = ((id \div 16777216) % 256) * 16777216 + ((id \div 65536) % 256) * 65536
             + ((id \div 256) % 256) * 256 + ((id \div 1) % 256)
  BY <1>1, Division
<1> QED
  BY SMT, <1>1, <1>2, <1>3 DEF IdByte

-----------------------------------------------------------------------------
(* Strings. *)

\* The least-number principle, for a set.
LEMMA Least ==
  ASSUME NEW S \in SUBSET Nat, S # {}
  PROVE  \E x \in S : \A y \in S : x <= y
<1> DEFINE R == {ss \in Nat \X Nat : ss[1] < ss[2]}
<1>1. IsWellFoundedOn(R, Nat)
  BY NatLessThanWellFounded DEF OpToRel
<1> HIDE DEF R
<1>2. PICK x \in S : \A y \in S : ~ (<<y, x>> \in R)
  BY WFMin, <1>1, S \subseteq Nat, S # {}, Zenon
<1>3. \A y \in S : x <= y
  <2> TAKE y \in S
  <2>1. x \in Nat /\ y \in Nat
    BY S \subseteq Nat
  <2>2. <<y, x>> \notin R
    BY <1>2
  <2> QED
    BY <2>1, <2>2 DEF R
<1> QED
  BY <1>3

\* strlen finds the first zero, if there is one.
LEMMA StrlenFirst ==
  ASSUME NEW b \in Buffer, \E n \in Index : b[n] = 0
  PROVE  /\ strlen(b) \in Index /\ b[strlen(b)] = 0
         /\ \A n \in Index : n < strlen(b) => b[n] # 0
<1> DEFINE zeros == {n \in Index : b[n] = 0}
<1>1. zeros \in SUBSET Nat /\ zeros # {}
  BY Sizes
<1>2. \E x \in zeros : \A y \in zeros : x <= y
  BY <1>1, Least
<1>3. strlen(b) = CHOOSE x \in zeros : \A y \in zeros : x <= y
  BY <1>1 DEF strlen, Min
<1>4. strlen(b) \in zeros /\ \A y \in zeros : strlen(b) <= y
  BY <1>2, <1>3
<1>5. ASSUME NEW n \in Index, n < strlen(b), b[n] = 0
      PROVE  FALSE
  <2>1. strlen(b) <= n /\ strlen(b) \in Nat /\ n \in Nat
    BY <1>1, <1>4, <1>5
  <2> QED
    BY <1>5, <2>1
<1> QED
  BY <1>4, <1>5

LEMMA StrlenIs ==
  ASSUME NEW b \in Buffer, NEW n \in Index, b[n] = 0,
         \A m \in Index : m < n => b[m] # 0
  PROVE  strlen(b) = n
<1>1. /\ strlen(b) \in Index /\ b[strlen(b)] = 0
      /\ \A m \in Index : m < strlen(b) => b[m] # 0
  BY StrlenFirst
<1>2. strlen(b) \in Nat /\ n \in Nat
  BY <1>1, Sizes
<1>3. ~(strlen(b) < n) /\ ~(n < strlen(b))
  BY <1>1
<1> QED
  BY <1>2, <1>3

\* A string keeps its length when it is copied, and copying it again changes nothing.
LEMMA CopiedString ==
  ASSUME NEW b \in Buffer, \E n \in Index : b[n] = 0
  PROVE  /\ Copied(b) \in Buffer /\ strlen(Copied(b)) = strlen(b)
         /\ \A n \in Index : n < strlen(b) => Copied(b)[n] = b[n] /\ b[n] # 0
         /\ \A n \in Index : n >= strlen(b) => Copied(b)[n] = 0
         /\ Copied(Copied(b)) = Copied(b)
<1>1. /\ strlen(b) \in Index /\ b[strlen(b)] = 0
      /\ \A n \in Index : n < strlen(b) => b[n] # 0
  BY StrlenFirst
<1>2. strlen(b) \in Nat /\ \A n \in Index : n \in Nat
  BY <1>1, Sizes
<1>3. Copied(b) = [n \in Index |-> IF n < strlen(b) THEN b[n] ELSE 0]
  BY DEF Copied
<1>4. Copied(b) \in Buffer
  BY <1>3 DEF Buffer, Byte
<1>5. \A n \in Index : n < strlen(b) => Copied(b)[n] = b[n] /\ b[n] # 0
  BY <1>1, <1>3
<1>6. \A n \in Index : n >= strlen(b) => Copied(b)[n] = 0
  BY <1>2, <1>3
<1>7. strlen(Copied(b)) = strlen(b)
  <2>1. Copied(b)[strlen(b)] = 0
    BY <1>1, <1>2, <1>6
  <2>2. \A m \in Index : m < strlen(b) => Copied(b)[m] # 0
    BY <1>5
  <2> QED
    BY <1>1, <1>4, <2>1, <2>2, StrlenIs
<1>8. Copied(Copied(b)) = Copied(b)
  <2>1. Copied(Copied(b)) = [n \in Index |-> IF n < strlen(b) THEN Copied(b)[n] ELSE 0]
    BY <1>7 DEF Copied
  <2> QED
    BY <1>3, <2>1
<1> QED
  BY <1>4, <1>5, <1>6, <1>7, <1>8

-----------------------------------------------------------------------------
(* Packets. *)

\* The string a packet makes: what is left of it at its first zero byte.
Cut(p) == Copied(format_pkt(p))

\* Where a packet without a zero byte before its text ends.
EndOf(p) == IF p.data = <<>> THEN 9 ELSE 10 + Len(p.data)

LEMMA FormatBytes ==
  ASSUME NEW p, Fits(p)
  PROVE  /\ Len(p.data) \in Nat /\ Len(p.data) <= PACKET_SIZE - 11
         /\ p.data \in [1 .. Len(p.data) -> 1 .. 255]
         /\ format_pkt(p) \in Buffer
         /\ format_pkt(p)[0] = p.pkt_type
         /\ \A n \in 1 .. 4 : format_pkt(p)[n] = IdByte(p.uid, n)
         /\ \A n \in 5 .. 8 : format_pkt(p)[n] = IdByte(p.destination_id, n - 4)
         /\ format_pkt(p)[9] = Len(p.data)
         /\ \A n \in Index : n >= 10 /\ n <= 9 + Len(p.data)
                               => format_pkt(p)[n] = p.data[n - 9] /\ n - 9 \in 1 .. Len(p.data)
         /\ \A n \in Index : n >= 10 + Len(p.data) => format_pkt(p)[n] = 0
<1>1. /\ p.pkt_type \in Byte /\ p.uid \in Id /\ p.destination_id \in Id /\ p.data \in Seq(1 .. 255)
      /\ Len(p.data) <= PACKET_SIZE - 11
  BY Sizes DEF Fits, Packet, Text
<1>2. Len(p.data) \in Nat /\ p.data \in [1 .. Len(p.data) -> 1 .. 255]
  BY <1>1, LenProperties
<1> DEFINE f == format_pkt(p)
<1>3. \A k \in 1 .. 4 : IdByte(p.uid, k) \in Byte /\ IdByte(p.destination_id, k) \in Byte
  BY <1>1, IdByteType
<1>4. \A n \in Index : f[n] = CASE n = 0            -> p.pkt_type
             [] n \in 1 .. 4                         -> IdByte(p.uid, n)
             [] n \in 5 .. 8                         -> IdByte(p.destination_id, n - 4)
             [] n = 9                                -> Len(p.data)
             [] n \in 10 .. 9 + Len(p.data)          -> p.data[n - 9]
             [] OTHER                                -> 0
  BY DEF format_pkt
<1>5. f[0] = p.pkt_type
  BY <1>4, Sizes
<1>6. \A n \in 1 .. 4 : f[n] = IdByte(p.uid, n)
  BY <1>4, Sizes
<1>7. \A n \in 5 .. 8 : f[n] = IdByte(p.destination_id, n - 4)
  BY <1>4, Sizes
<1>8. f[9] = Len(p.data)
  BY <1>4, Sizes
<1>9. ASSUME NEW n \in Index, n >= 10, n <= 9 + Len(p.data)
      PROVE  f[n] = p.data[n - 9] /\ n - 9 \in 1 .. Len(p.data)
  BY <1>2, <1>4, <1>9, Sizes
<1>10. ASSUME NEW n \in Index, n >= 10 + Len(p.data)
       PROVE  f[n] = 0
  <2>1. n \in Nat /\ n # 0 /\ n # 9 /\ n \notin 1 .. 4 /\ n \notin 5 .. 8
        /\ n \notin 10 .. 9 + Len(p.data)
    BY <1>2, <1>10, Sizes
  <2> QED
    BY <1>4, <2>1
<1> HIDE DEF f
<1>11. ASSUME NEW n \in Index
       PROVE  f[n] \in Byte
  <2>1. n \in Nat
    BY Sizes
  <2>2. CASE n = 0
    BY <1>1, <1>5, <2>2
  <2>3. CASE n \in 1 .. 4
    BY <1>3, <1>6, <2>3
  <2>4. CASE n \in 5 .. 8
    <3>1. n - 4 \in 1 .. 4
      BY <2>4
    <3> QED
      BY <1>3, <1>7, <2>4, <3>1
  <2>5. CASE n = 9
    <3>1. Len(p.data) \in Nat /\ Len(p.data) <= PACKET_SIZE - 11
          /\ PACKET_SIZE \in Nat /\ PACKET_SIZE <= 255
      BY <1>1, <1>2, Sizes
    <3>2. ASSUME NEW len \in Nat, NEW size \in Nat, len <= size - 11, size <= 255
          PROVE  len \in 0 .. 255
      BY <3>2
    <3>3. Len(p.data) \in 0 .. 255
      BY <3>1, <3>2, Zenon
    <3> QED
      BY <1>8, <2>5, <3>3 DEF Byte
  <2>6. CASE n >= 10 /\ n <= 9 + Len(p.data)
    <3>1. f[n] = p.data[n - 9] /\ n - 9 \in 1 .. Len(p.data)
      BY <1>9, <2>6
    <3>2. p.data[n - 9] \in 1 .. 255
      BY <1>2, <3>1
    <3> QED
      BY <3>1, <3>2 DEF Byte
  <2>7. CASE n >= 10 + Len(p.data)
    <3>1. f[n] = 0
      BY <1>10, <2>7
    <3> QED
      BY <3>1 DEF Byte
  <2> QED
    BY <1>2, <2>1, <2>2, <2>3, <2>4, <2>5, <2>6, <2>7
<1>12. f \in Buffer
  BY <1>11 DEF f, Buffer, format_pkt
<1> USE DEF f
<1> QED
  BY <1>1, <1>2, <1>5, <1>6, <1>7, <1>8, <1>9, <1>10, <1>12

\* Whatever its bytes, a packet's string ends within it.
LEMMA CutString ==
  ASSUME NEW p, Fits(p)
  PROVE  /\ Cut(p) \in Buffer /\ \E n \in Index : Cut(p)[n] = 0
         /\ Copied(Cut(p)) = Cut(p)
         /\ strlen(Cut(p)) = strlen(format_pkt(p))
         /\ strlen(Cut(p)) \in Index /\ strlen(Cut(p)) <= 10 + Len(p.data)
         /\ \A n \in Index : n < strlen(Cut(p)) => Cut(p)[n] = format_pkt(p)[n] /\ Cut(p)[n] # 0
         /\ \A n \in Index : n >= strlen(Cut(p)) => Cut(p)[n] = 0
<1> DEFINE f == format_pkt(p)
           last == 10 + Len(p.data)
<1>1. /\ Len(p.data) \in Nat /\ Len(p.data) <= PACKET_SIZE - 11 /\ f \in Buffer
      /\ \A n \in Index : n >= last => f[n] = 0
  BY FormatBytes
<1>2. last \in Index /\ last \in Nat
  BY <1>1, Sizes
<1>3. f[last] = 0
  BY <1>1, <1>2
<1> HIDE DEF f, last
<1>4. /\ strlen(f) \in Index /\ f[strlen(f)] = 0
      /\ \A n \in Index : n < strlen(f) => f[n] # 0
  BY <1>1, <1>2, <1>3, StrlenFirst
<1>5. strlen(f) <= last
  <2>1. strlen(f) \in Nat /\ ~(last < strlen(f))
    BY <1>2, <1>3, <1>4, Sizes
  <2> QED
    BY <1>2, <2>1
<1>6. /\ Copied(f) \in Buffer /\ strlen(Copied(f)) = strlen(f)
      /\ \A n \in Index : n < strlen(f) => Copied(f)[n] = f[n] /\ f[n] # 0
      /\ \A n \in Index : n >= strlen(f) => Copied(f)[n] = 0
      /\ Copied(Copied(f)) = Copied(f)
  BY <1>1, <1>2, <1>3, CopiedString
<1>7. Copied(f)[last] = 0
  BY <1>2, <1>5, <1>6
<1>8. Cut(p) = Copied(f)
  BY DEF Cut, f
<1> QED
  BY <1>2, <1>4, <1>5, <1>6, <1>7, <1>8 DEF f, last

\* A packet without a zero byte before its text is all of its string.
LEMMA CleanString ==
  ASSUME NEW p, Fits(p), Clean(p)
  PROVE  /\ Cut(p) = format_pkt(p)
         /\ strlen(Cut(p)) = EndOf(p)
<1> DEFINE f == format_pkt(p)
           len == Len(p.data)
           end == EndOf(p)
<1>1. /\ len \in Nat /\ len <= PACKET_SIZE - 11 /\ f \in Buffer
      /\ p.data \in [1 .. len -> 1 .. 255]
      /\ f[0] = p.pkt_type /\ f[9] = len
      /\ \A n \in 1 .. 4 : f[n] = IdByte(p.uid, n)
      /\ \A n \in 5 .. 8 : f[n] = IdByte(p.destination_id, n - 4)
      /\ \A n \in Index : n >= 10 /\ n <= 9 + len => f[n] = p.data[n - 9] /\ n - 9 \in 1 .. len
      /\ \A n \in Index : n >= 10 + len => f[n] = 0
  BY FormatBytes
<1>2. \A n \in 0 .. 8 : f[n] # 0
  <2> TAKE n \in 0 .. 8
  <2>1. CASE n = 0
    BY <1>1, <2>1 DEF Clean
  <2>2. CASE n \in 1 .. 4
    BY <1>1, <2>2 DEF Clean
  <2>3. CASE n \in 5 .. 8
    <3>1. n - 4 \in 1 .. 4
      BY <2>3
    <3> QED
      BY <1>1, <2>3, <3>1 DEF Clean
  <2> QED
    BY <2>1, <2>2, <2>3
<1>3. end = (IF len = 0 THEN 9 ELSE 10 + len)
  <2>1. p.data \in Seq(1 .. 255)
    BY DEF Fits, Packet, Text
  <2>2. p.data = <<>> <=> len = 0
    BY <2>1, EmptySeq
  <2> QED
    BY <2>2 DEF EndOf
<1> HIDE DEF f, len, end
<1>4. end \in Index /\ end \in Nat
  BY <1>1, <1>3, Sizes
<1>5. ASSUME NEW n \in Index, n >= end
      PROVE  f[n] = 0
  <2>1. n \in Nat /\ ((len = 0 /\ n = 9) \/ n >= 10 + len)
    BY <1>1, <1>3, <1>5, Sizes
  <2> QED
    BY <1>1, <2>1
<1>6. ASSUME NEW n \in Index, n < end
      PROVE  f[n] # 0
  <2>1. n \in 0 .. 8 \/ (n = 9 /\ len # 0) \/ (n >= 10 /\ n <= 9 + len)
    <3>1. n \in Nat /\ len \in Nat
      BY <1>1, Sizes
    <3>2. CASE len = 0
      BY <1>3, <1>6, <3>1, <3>2
    <3>3. CASE len # 0
      BY <1>3, <1>6, <3>1, <3>3
    <3> QED
      BY <3>2, <3>3
  <2>2. ASSUME n >= 10 /\ n <= 9 + len
        PROVE  f[n] # 0
    <3>1. f[n] = p.data[n - 9] /\ n - 9 \in 1 .. len
      BY <1>1, <2>2
    <3>2. p.data[n - 9] \in 1 .. 255
      BY <1>1, <3>1
    <3> QED
      BY <3>1, <3>2
  <2> QED
    BY <1>1, <1>2, <2>1, <2>2
<1>7. f[end] = 0
  BY <1>4, <1>5
<1>8. strlen(f) = end
  BY <1>1, <1>4, <1>6, <1>7, StrlenIs
<1>9. Copied(f) = f
  <2>1. f = [n \in Index |-> f[n]]
    BY <1>1 DEF Buffer
  <2>2. \A n \in Index : f[n] = IF n < end THEN f[n] ELSE 0
    BY <1>4, <1>5, Sizes
  <2>3. Copied(f) = [n \in Index |-> IF n < end THEN f[n] ELSE 0]
    BY <1>8 DEF Copied
  <2> QED
    BY <2>1, <2>2, <2>3
<1> QED
  BY <1>8, <1>9 DEF f, end, Cut

\* Taking a formatted packet apart gives the packet.
LEMMA UnpackExact ==
  ASSUME NEW p, Fits(p)
  PROVE  Unpacked(format_pkt(p)) = p
<1> DEFINE f == format_pkt(p)
           len == Len(p.data)
<1>1. /\ p.pkt_type \in Byte /\ p.uid \in Id /\ p.destination_id \in Id
      /\ p = [pkt_type |-> p.pkt_type, uid |-> p.uid,
              destination_id |-> p.destination_id, data |-> p.data]
  BY DEF Fits, Packet
<1>2. /\ len \in Nat /\ len <= PACKET_SIZE - 11
      /\ p.data \in [1 .. len -> 1 .. 255]
      /\ f[0] = p.pkt_type /\ f[9] = len
      /\ \A n \in 1 .. 4 : f[n] = IdByte(p.uid, n)
      /\ \A n \in 5 .. 8 : f[n] = IdByte(p.destination_id, n - 4)
      /\ \A n \in Index : n >= 10 /\ n <= 9 + len => f[n] = p.data[n - 9] /\ n - 9 \in 1 .. len
  BY FormatBytes
<1> HIDE DEF f, len
<1>3. IdAt(f, 1) = p.uid
  <2>1. /\ f[1] = IdByte(p.uid, 1) /\ f[1 + 1] = IdByte(p.uid, 2)
        /\ f[1 + 2] = IdByte(p.uid, 3) /\ f[1 + 3] = IdByte(p.uid, 4)
    BY <1>2
  <2> QED
    BY <1>1, <2>1, IdFromBytes, Zenon DEF IdAt
<1>4. IdAt(f, 5) = p.destination_id
  <2>1. /\ f[5] = IdByte(p.destination_id, 1) /\ f[5 + 1] = IdByte(p.destination_id, 2)
        /\ f[5 + 2] = IdByte(p.destination_id, 3) /\ f[5 + 3] = IdByte(p.destination_id, 4)
    BY <1>2
  <2> QED
    BY <1>1, <2>1, IdFromBytes, Zenon DEF IdAt
<1>5. [n \in 1 .. len |-> f[BASE_DATA + n - 1]] = p.data
  <2>1. ASSUME NEW n \in 1 .. len
        PROVE  f[BASE_DATA + n - 1] = p.data[n]
    <3> DEFINE m == 9 + n
    <3>1. /\ m \in Index /\ m >= 10 /\ m <= 9 + len /\ m - 9 = n /\ BASE_DATA + n - 1 = m
      BY <1>2, Sizes
    <3> HIDE DEF m
    <3>2. f[m] = p.data[m - 9]
      BY <1>2, <3>1
    <3> QED
      BY <3>1, <3>2
  <2>2. p.data = [n \in 1 .. len |-> p.data[n]]
    BY <1>2
  <2> QED
    BY <2>1, <2>2, Zenon
<1>6. Unpacked(f) = [pkt_type |-> f[0], uid |-> IdAt(f, 1), destination_id |-> IdAt(f, 5),
                     data |-> [n \in 1 .. len |-> f[BASE_DATA + n - 1]]]
  BY <1>2 DEF Unpacked
<1>7. Unpacked(f) = p
  BY <1>1, <1>2, <1>3, <1>4, <1>5, <1>6, Zenon
<1> QED
  BY <1>7 DEF f

\* The driver sends the string it was given, with the FIFO's address put before it.
LEMMA SentExact ==
  ASSUME NEW p, Fits(p), Len(p.data) <= PACKET_SIZE - 12, transmit_buffer = Cut(p)
  PROVE  Sent(ToSend(strlen(transmit_buffer)), strlen(transmit_buffer)) = Cut(p)
<1> DEFINE len == strlen(Cut(p))
           to_send == ToSend(len)
<1>1. Len(p.data) \in Nat
  BY FormatBytes
<1>2. /\ Cut(p) \in Buffer /\ len \in Index /\ len <= 10 + Len(p.data)
      /\ \A n \in Index : n < len => Cut(p)[n] # 0
      /\ \A n \in Index : n >= len => Cut(p)[n] = 0
  BY CutString
<1>3. \A n \in Index : to_send[n] = CASE n = 0          -> 128
                                      [] n \in 1 .. len -> Cut(p)[n - 1]
                                      [] OTHER          -> 0
  BY DEF ToSend
<1>4. to_send = [n \in Index |-> to_send[n]]
  BY DEF ToSend
<1> HIDE DEF len, to_send
<1>5. len \in Nat /\ len + 1 \in Index
  <2>1. ASSUME NEW text \in Nat, NEW l \in Nat, text <= PACKET_SIZE - 12, l <= 10 + text
        PROVE  l + 1 \in 0 .. PACKET_SIZE - 1
    BY <2>1, Sizes
  <2>2. len \in Nat
    BY <1>2, Sizes
  <2>3. len + 1 \in 0 .. PACKET_SIZE - 1
    BY <1>1, <1>2, <2>1, <2>2, Zenon
  <2> QED
    BY <2>2, <2>3, Sizes
<1>6. ASSUME NEW n \in Index, n < len
      PROVE  n + 1 \in Index /\ to_send[n + 1] = Cut(p)[n]
  <2>1. n + 1 \in Index /\ n + 1 # 0 /\ n + 1 \in 1 .. len /\ (n + 1) - 1 = n
    BY <1>5, <1>6, Sizes
  <2> QED
    BY <1>3, <2>1
<1>7. ASSUME NEW n \in Index, n < len + 1
      PROVE  to_send[n] # 0 /\ to_send[n] \in Byte
  <2>1. n = 0 \/ (n \in 1 .. len /\ n - 1 \in Index /\ n - 1 < len)
    BY <1>5, <1>7, Sizes
  <2>2. CASE n = 0
    <3>1. to_send[n] = 128
      BY <1>3, <2>2
    <3> QED
      BY <3>1 DEF Byte
  <2>3. CASE n \in 1 .. len /\ n - 1 \in Index /\ n - 1 < len
    <3>1. to_send[n] = Cut(p)[n - 1]
      BY <1>3, <2>3
    <3> QED
      BY <1>2, <2>3, <3>1 DEF Buffer
  <2> QED
    BY <2>1, <2>2, <2>3
<1>8. ASSUME NEW n \in Index, n >= len + 1
      PROVE  to_send[n] = 0
  <2>1. n # 0 /\ n \notin 1 .. len
    BY <1>5, <1>8, Sizes
  <2> QED
    BY <1>3, <2>1
<1>9. to_send \in Buffer
  <2>1. \A n \in Index : n < len + 1 \/ n >= len + 1
    BY <1>5, Sizes
  <2>2. \A n \in Index : to_send[n] \in Byte
    BY <1>7, <1>8, <2>1 DEF Byte
  <2> QED
    BY <1>4, <2>2, Zenon DEF Buffer
<1>10. strlen(to_send) = len + 1
  <2>1. to_send[len + 1] = 0
    BY <1>5, <1>8
  <2> QED
    BY <1>5, <1>7, <1>9, <2>1, StrlenIs
<1>11. Sent(to_send, len) = [n \in Index |-> IF n < len THEN to_send[n + 1] ELSE 0]
  <2>1. strlen(to_send) - 1 = len
    BY <1>5, <1>10
  <2> QED
    BY <2>1 DEF Sent
<1>12. \A n \in Index : Cut(p)[n] = IF n < len THEN to_send[n + 1] ELSE 0
  BY <1>2, <1>5, <1>6, Sizes
<1>13. Sent(to_send, len) = Cut(p)
  <2>1. Cut(p) = [n \in Index |-> Cut(p)[n]]
    BY <1>2 DEF Buffer
  <2> QED
    BY <1>11, <1>12, <2>1
<1> QED
  BY <1>13 DEF len, to_send

\* Two packets of which one, with a text, begins the other are the same.
LEMMA BeginsSame ==
  ASSUME NEW p, NEW q, Fits(p), Fits(q), Clean(p), p.data # <<>>, Begins(Cut(p), Cut(q))
  PROVE  p = q
<1> DEFINE f == format_pkt(p)
           g == format_pkt(q)
           len == Len(p.data)
           end == strlen(Cut(p))
<1>1. end = 10 + len /\ end \in Index /\ len \in Nat /\ end \in Nat /\ f[9] = len
  BY CleanString, CutString, FormatBytes, Sizes DEF EndOf
<1>2. ASSUME NEW n \in Index, n < end
      PROVE  f[n] = g[n]
  <2>1. n \in 0 .. end - 1
    BY <1>1, <1>2, Sizes
  <2>2. Cut(p)[n] = Cut(q)[n]
    BY <2>1 DEF Begins
  <2>3. Cut(p)[n] = f[n] /\ Cut(p)[n] # 0
    BY <1>2, CutString
  <2>4. n < strlen(Cut(q))
    <3>1. strlen(Cut(q)) \in Index /\ (n >= strlen(Cut(q)) => Cut(q)[n] = 0)
      BY CutString
    <3> QED
      BY <2>2, <2>3, <3>1, Sizes
  <2>5. Cut(q)[n] = g[n]
    BY <2>4, CutString
  <2> QED
    BY <2>2, <2>3, <2>5
<1> HIDE DEF f, g, len, end
<1>3. \A n \in 0 .. 9 : f[n] = g[n]
  BY <1>1, <1>2, Sizes
<1>4. ASSUME NEW n \in 1 .. f[9]
      PROVE  f[BASE_DATA + n - 1] = g[BASE_DATA + n - 1]
  <2>1. BASE_DATA + n - 1 \in Index /\ BASE_DATA + n - 1 < end
    BY <1>1, Sizes
  <2> QED
    BY <1>2, <2>1
<1>5. IdAt(f, 1) = IdAt(g, 1) /\ IdAt(f, 5) = IdAt(g, 5)
  <2>1. /\ f[1] = g[1] /\ f[1 + 1] = g[1 + 1] /\ f[1 + 2] = g[1 + 2] /\ f[1 + 3] = g[1 + 3]
        /\ f[5] = g[5] /\ f[5 + 1] = g[5 + 1] /\ f[5 + 2] = g[5 + 2] /\ f[5 + 3] = g[5 + 3]
    BY <1>3
  <2> QED
    BY <2>1, Zenon DEF IdAt
<1>6. Unpacked(f) = Unpacked(g)
  <2>1. f[0] = g[0] /\ f[9] = g[9]
    BY <1>3
  <2>2. [n \in 1 .. f[9] |-> f[BASE_DATA + n - 1]] = [n \in 1 .. g[9] |-> g[BASE_DATA + n - 1]]
    BY <1>4, <2>1, Zenon
  <2> QED
    BY <1>5, <2>1, <2>2, Zenon DEF Unpacked
<1> QED
  BY <1>6, UnpackExact DEF f, g

-----------------------------------------------------------------------------
(***************************************************************************)
(* The inductive invariant: each buffer holds the string of a packet that  *)
(* one of the histories names, and the search has passed only slots of     *)
(* others.                                                                 *)
(***************************************************************************)
Packets == Requests \cup Answers \cup {Nothing}

Strings ==
  /\ asked \in Packets /\ came \in Packets /\ kept \in Packets
  /\ transmit_buffer = Cut(asked)
  /\ sender # "idle" => asked \in Requests
  /\ sender = "sent" => air = Cut(asked)
  /\ receiver \in {"compare", "read"} => cache_buffer \in {format_pkt(came), Cut(came)}
  /\ receive_buffer = Cut(kept)
  /\ receiver = "read" => kept = came
  /\ receiver = "unpack" => buff = Cut(came)
  /\ receiver \in {"search", "found", "unknown"} => (Clean(came) => foo = came)

Passed ==
  /\ i \in Nat /\ newLoRa \in Seq(Id)
  /\ receiver = "search" => \A k \in 1 .. i : newLoRa[k] # foo.uid
  /\ receiver = "unknown" => \A k \in 1 .. Len(newLoRa) : newLoRa[k] # foo.uid

IInv == Strings /\ Passed

LEMMA PacketsFit ==
  /\ \A p \in Packets : Fits(p)
  /\ \A p \in Requests : Len(p.data) <= PACKET_SIZE - 12
<1>1. ASSUME NEW p \in Requests
      PROVE  Fits(p) /\ Len(p.data) <= PACKET_SIZE - 12
  <2>1. p \in Packet /\ Len(p.data) <= PACKET_SIZE - BASE_DATA - 2
    BY FrameAssumption
  <2>2. p.data \in Seq(1 .. 255)
    BY <2>1 DEF Packet, Text
  <2>3. Len(p.data) \in Nat
    BY <2>2, LenProperties
  <2> QED
    BY <2>1, <2>3, Sizes DEF Fits
<1>2. ASSUME NEW p \in Answers
      PROVE  Fits(p)
  BY FrameAssumption DEF Fits
<1>3. Fits(Nothing)
  <2>1. <<>> \in Seq(1 .. 255) /\ Len(<<>>) = 0
    BY EmptySeq
  <2>2. 0 \in Byte /\ 0 \in Id
    BY FrameAssumption DEF Byte, Id
  <2>3. Nothing \in Packet /\ Nothing.data = <<>>
    BY <2>1, <2>2 DEF Nothing, Packet, Text
  <2>4. Len(Nothing.data) <= PACKET_SIZE - BASE_DATA - 1
    BY <2>1, <2>3, Sizes
  <2> QED
    BY <2>3, <2>4 DEF Fits
<1> QED
  BY <1>1, <1>2, <1>3 DEF Packets

LEMMA CutNothing == Cut(Nothing) = Zeros
<1>1. Fits(Nothing)
  BY PacketsFit DEF Packets
<1>2. format_pkt(Nothing)[0] = 0 /\ format_pkt(Nothing) \in Buffer
  BY <1>1, FormatBytes DEF Nothing
<1>3. strlen(format_pkt(Nothing)) = 0
  <2>1. 0 \in Index /\ \A m \in Index : ~(m < 0)
    BY Sizes
  <2> QED
    BY <1>2, <2>1, StrlenIs
<1>4. \A n \in Index : Cut(Nothing)[n] = 0
  BY <1>1, <1>3, CutString, Sizes
<1>5. Cut(Nothing) \in Buffer
  BY <1>1, CutString
<1> QED
  BY <1>4, <1>5 DEF Buffer, Zeros

\* A copy of a packet or of its string is its string; a clean packet is its string.
LEMMA CopyIsCut ==
  ASSUME NEW p \in Packets, NEW b \in {format_pkt(p), Cut(p)}
  PROVE  Copied(b) = Cut(p) /\ (Clean(p) => b = Cut(p))
BY PacketsFit, CutString, CleanString DEF Cut

LEMMA InitInvariant == Init => IInv
<1> SUFFICES ASSUME Init
             PROVE  IInv
  OBVIOUS
<1> USE DEF Init
<1>1. Strings
  BY CutNothing DEF Strings, Packets
<1>2. Passed
  BY FrameAssumption DEF Passed
<1> QED
  BY <1>1, <1>2 DEF IInv

LEMMA StepInvariant == IInv /\ [Next]_vars => IInv'
<1> SUFFICES ASSUME IInv, [Next]_vars
             PROVE  IInv'
  OBVIOUS
<1> USE DEF IInv
<1>1. ASSUME NEW p \in Requests, Transmit(p)
      PROVE  IInv'
  <2>1. Strings'
    BY <1>1 DEF Strings, Packets, Transmit, up_vars, Cut
  <2>2. Passed'
    BY <1>1 DEF Passed, Transmit, up_vars
  <2> QED
    BY <2>1, <2>2
<1>2. ASSUME LoRa_BurstWrite
      PROVE  IInv'
  <2>1. air' = Cut(asked)
    <3>1. asked \in Requests /\ transmit_buffer = Cut(asked)
      BY <1>2 DEF LoRa_BurstWrite, Strings
    <3> QED
      BY <1>2, <3>1, PacketsFit, SentExact DEF LoRa_BurstWrite, Packets
  <2>2. Strings'
    BY <1>2, <2>1 DEF Strings, LoRa_BurstWrite, up_vars
  <2>3. Passed'
    BY <1>2 DEF Passed, LoRa_BurstWrite, up_vars
  <2> QED
    BY <2>2, <2>3
<1>3. ASSUME NEW p \in Packets, NEW frame \in {format_pkt(p), Cut(p)}, LoRa_receive(p, frame)
      PROVE  IInv'
  <2>1. Strings'
    BY <1>3 DEF Strings, LoRa_receive, down_vars
  <2>2. Passed'
    BY <1>3 DEF Passed, LoRa_receive
  <2> QED
    BY <2>1, <2>2
<1>4. ASSUME NEW p \in Answers, LoRa_receive(p, format_pkt(p))
      PROVE  IInv'
  BY <1>3, <1>4 DEF Packets
<1>5. ASSUME sender = "sent", LoRa_receive(asked, air)
      PROVE  IInv'
  <2>1. asked \in Packets /\ air = Cut(asked)
    BY <1>5 DEF Strings
  <2> QED
    BY <1>3, <1>5, <2>1
<1>6. ASSUME Drop
      PROVE  IInv'
  <2>1. Strings'
    BY <1>6 DEF Strings, Drop, down_vars
  <2>2. Passed'
    BY <1>6 DEF Passed, Drop
  <2> QED
    BY <2>1, <2>2
<1>7. ASSUME Store
      PROVE  IInv'
  <2>1. receive_buffer' = Cut(came)
    BY <1>7, CopyIsCut DEF Store, Strings
  <2>2. Strings'
    BY <1>7, <2>1 DEF Strings, Store, down_vars
  <2>3. Passed'
    BY <1>7 DEF Passed, Store
  <2> QED
    BY <2>2, <2>3
<1>8. ASSUME Read
      PROVE  IInv'
  <2>1. buff' = Cut(came)
    BY <1>8, CopyIsCut DEF Read, Strings
  <2>2. Strings'
    BY <1>8, <2>1 DEF Strings, Read, down_vars
  <2>3. Passed'
    BY <1>8 DEF Passed, Read
  <2> QED
    BY <2>2, <2>3
<1>9. ASSUME Unpack
      PROVE  IInv'
  <2>1. /\ receiver' \in {"search", "idle"}
        /\ receiver' = "search" => foo' = Unpacked(buff)
    BY <1>9, FrameAssumption DEF Unpack, Nothing
  <2>2. ASSUME Clean(came), receiver' = "search"
        PROVE  foo' = came
    <3>1. buff = Cut(came) /\ came \in Packets
      BY <1>9 DEF Unpack, Strings
    <3>2. buff = format_pkt(came)
      BY <2>2, <3>1, PacketsFit, CleanString
    <3> QED
      BY <2>1, <2>2, <3>1, <3>2, PacketsFit, UnpackExact
  <2>3. Strings'
    BY <1>9, <2>1, <2>2 DEF Strings, Unpack, down_vars, Clean
  <2>4. Passed'
    BY <1>9, <2>1 DEF Passed, Unpack
  <2> QED
    BY <2>3, <2>4
<1>10. ASSUME Search
       PROVE  IInv'
  <2>1. /\ receiver = "search" /\ receiver' \in {"search", "found", "unknown"}
        /\ UNCHANGED <<came, kept, cache_buffer, receive_buffer, buff, foo, down_vars, newLoRa>>
    BY <1>10 DEF Search
  <2>2. Strings'
    BY <2>1 DEF Strings, down_vars, Clean
  <2>3. Passed'
    <3>1. i \in Nat /\ Len(newLoRa) \in Nat /\ IndexValues \in Nat \ {0}
      BY FrameAssumption, LenProperties DEF Passed
    <3>2. CASE i >= Len(newLoRa)
      BY <1>10, <2>1, <3>1, <3>2 DEF Passed, Search
    <3>3. CASE i < Len(newLoRa) /\ newLoRa[i + 1] = foo.uid
      BY <1>10, <2>1, <3>1, <3>3 DEF Passed, Search
    <3>4. CASE i < Len(newLoRa) /\ newLoRa[i + 1] # foo.uid
      <4>1. receiver' = "search" /\ i' = (i + 1) % IndexValues
        BY <1>10, <3>1, <3>4 DEF Search
      <4>2. i' \in Nat /\ i' <= i + 1
        <5>1. ASSUME NEW n \in Nat, NEW v \in Nat \ {0}
              PROVE  n % v \in Nat /\ n % v <= n
          BY SMT
        <5> QED
          BY <3>1, <4>1, <5>1
      <4>3. \A k \in 1 .. i + 1 : newLoRa[k] # foo.uid
        BY <2>1, <3>1, <3>4 DEF Passed
      <4> QED
        BY <2>1, <3>1, <4>1, <4>2, <4>3 DEF Passed
    <3> QED
      BY <3>1, <3>2, <3>3, <3>4
  <2> QED
    BY <2>2, <2>3
<1>11. ASSUME UNCHANGED vars
       PROVE  IInv'
  BY <1>11 DEF vars, down_vars, up_vars, Strings, Passed, Clean
<1> QED
  BY <1>1, <1>2, <1>4, <1>5, <1>6, <1>7, <1>8, <1>9, <1>10, <1>11 DEF Next

LEMMA Invariant == Spec => []IInv
BY InitInvariant, StepInvariant, PTL DEF Spec

-----------------------------------------------------------------------------

\* What is on the air is the packet lora_transmit was given (lora.c:18,
\* sx1278.c:145, 581-583), for every set of packets without a zero byte in an id.
THEOREM SendingExact == Spec => []DownExact
<1>1. IInv => DownExact
  <2> SUFFICES ASSUME IInv, sender = "sent", Clean(asked)
               PROVE  Unpacked(air) = asked
    BY DEF DownExact
  <2>1. air = Cut(asked) /\ asked \in Packets
    BY DEF IInv, Strings
  <2>2. air = format_pkt(asked)
    BY <2>1, PacketsFit, CleanString
  <2> QED
    BY <2>1, <2>2, PacketsFit, UnpackExact
<1> QED
  BY <1>1, Invariant, PTL

\* What handler_rx_data has unpacked is what the node sent (sx1278.c:100, 130-131).
THEOREM ReceivingExact == Spec => []UpExact
<1>1. IInv => UpExact
  BY DEF IInv, Strings, UpExact
<1> QED
  BY <1>1, Invariant, PTL

\* A sender the search has not found is in no slot (main.c:594-597).
THEOREM SearchExact == Spec => []SenderFound
<1>1. IInv => SenderFound
  BY LenProperties DEF IInv, Passed, SenderFound, Range
<1> QED
  BY <1>1, Invariant, PTL

\* Only the gateway's last packet and the last one stored are dropped
\* (sx1278.c:93-97), never a packet that begins like them.
THEOREM DroppingExact == Spec => OnlyRepeatsDropped
<1>1. ASSUME IInv, Drop, Clean(came), came.data # <<>>
      PROVE  came \in {asked, kept}
  <2>1. /\ asked \in Packets /\ came \in Packets /\ kept \in Packets
        /\ cache_buffer \in {format_pkt(came), Cut(came)}
        /\ transmit_buffer = Cut(asked) /\ receive_buffer = Cut(kept)
    BY <1>1 DEF IInv, Strings, Drop
  <2>2. cache_buffer = Cut(came)
    BY <1>1, <2>1, CopyIsCut
  <2>3. Begins(Cut(came), Cut(asked)) \/ Begins(Cut(came), Cut(kept))
    BY <1>1, <2>1, <2>2 DEF Drop, IsEcho
  <2> QED
    BY <1>1, <2>1, <2>3, PacketsFit, BeginsSame
<1>2. IInv => [Drop /\ Clean(came) /\ came.data # <<>> => came \in {asked, kept}]_vars
  BY <1>1
<1> QED
  BY <1>2, Invariant, PTL DEF OnlyRepeatsDropped

=============================================================================
