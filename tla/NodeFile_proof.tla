--------------------------- MODULE NodeFile_proof ---------------------------
(***************************************************************************)
(* The registry and its file, for every set of ids, every first file and   *)
(* every heap: what is in node_list.txt between two commands, and what a   *)
(* restart makes of it.                                                    *)
(***************************************************************************)
EXTENDS NodeFile, SequenceTheorems, WellFoundedInduction, TLAPS

-----------------------------------------------------------------------------
(* The inductive invariant. *)

\* What memory, file and disk hold at each place.
PlaceOK ==
  /\ pc \in {"down", "idle"} => ~loading
  /\ pc = "load" => loading
  /\ pc = "down" => nodes = <<>>
  /\ pc \in {"truncate", "write", "sync"} /\ loading => nodes # <<>>
  /\ pc = "truncate" => i = 1
  /\ pc \in {"write", "sync"} => file # NoFile
  /\ IsInjective(nodes)
  /\ file = NoFile <=> disk = NoFile

\* The file between two rewritings.
RestOK ==
  /\ pc = "idle" \/ (pc = "load" /\ nodes # <<>>) =>
       file = nodes /\ (file # <<>> => disk = file)
  /\ pc = "load" /\ nodes = <<>> =>
       /\ file # <<>> => buffer # <<>>
       /\ ~struck => buffer = file /\ (file # <<>> => disk = file)

\* ... and during one.
WriteOK ==
  pc \in {"write", "sync"} =>
    /\ Len(file) = i - 1 /\ \A j \in 1 .. i - 1 : file[j] = nodes[j]
    /\ pc = "write" => i <= Len(nodes)
    /\ pc = "sync" => i = Len(nodes) + 1

\* What a restart will find.
KnownOK ==
  /\ ~struck /\ pc = "down" => Order(file) = Order(known) /\ (file # <<>> => disk = file)
  /\ ~struck /\ loading => Order(nodes \o buffer) = Order(known)
  /\ pc = "idle" => Order(nodes) = Order(known)

FileInv == TypeOK /\ PlaceOK /\ (file # NoFile => RestOK /\ WriteOK /\ KnownOK)

-----------------------------------------------------------------------------
(* Lists of ids. *)

LEMMA NoFileIsNoList ==
  ASSUME NEW s \in Seq(Ids)
  PROVE  s # NoFile
  BY FileAssumption

LEMMA Lists1 ==
  ASSUME NEW s \in Seq(Ids)
  PROVE  DOMAIN s = 1 .. Len(s) /\ Len(s) \in Nat /\ (s = <<>> <=> Len(s) = 0)
<1>1. DOMAIN s = 1 .. Len(s) /\ Len(s) \in Nat
  BY LenProperties
<1>2. s # <<>> => Len(s) \in Nat \ {0}
  BY EmptySeq
<1>3. Len(<<>>) = 0
  BY EmptySeq
<1> QED
  BY <1>1, <1>2, <1>3

\* add_device's search, and the copy at the end of the list.
LEMMA AppendedNew ==
  ASSUME NEW s \in Seq(Ids), NEW id \in Ids, IsInjective(s), ~Contains(s, id)
  PROVE  /\ Append(s, id) \in Seq(Ids) /\ IsInjective(Append(s, id))
         /\ Append(s, id) # <<>>
<1> DEFINE t == Append(s, id)
<1>1. DOMAIN s = 1 .. Len(s) /\ Len(s) \in Nat
  BY LenProperties
<1>2. /\ t \in Seq(Ids) /\ t # <<>> /\ Len(t) = Len(s) + 1
      /\ \A m \in 1 .. Len(s) : t[m] = s[m]
      /\ t[Len(s) + 1] = id
  BY AppendProperties
<1>3. DOMAIN t = 1 .. Len(s) + 1
  BY <1>2, LenProperties
<1>4. \A m \in 1 .. Len(s) : s[m] # id
  BY DEF Contains
<1> HIDE DEF t
<1>5. IsInjective(t)
  BY <1>1, <1>2, <1>3, <1>4 DEF IsInjective
<1> QED
  BY <1>2, <1>5 DEF t

\* remove_device's copying loop.
LEMMA RemovedOne ==
  ASSUME NEW s \in Seq(Ids), NEW m \in DOMAIN s, IsInjective(s)
  PROVE  RemoveAt(s, m) \in Seq(Ids) /\ IsInjective(RemoveAt(s, m))
<1> DEFINE a == SubSeq(s, 1, m - 1)
           b == SubSeq(s, m + 1, Len(s))
           t == a \o b
<1>1. DOMAIN s = 1 .. Len(s) /\ Len(s) \in Nat /\ m \in 1 .. Len(s)
  BY LenProperties
<1>2. /\ a \in Seq(Ids) /\ Len(a) = m - 1
      /\ \A j \in 1 .. m - 1 : a[j] = s[j]
  <2>1. \A j \in 1 .. m - 1 : s[j] \in Ids
    BY <1>1, ElementOfSeq
  <2>2. /\ a \in Seq(Ids) /\ Len(a) = IF 1 <= m - 1 THEN m - 1 - 1 + 1 ELSE 0
        /\ \A j \in 1 .. m - 1 - 1 + 1 : a[j] = s[1 + j - 1]
    BY <1>1, <2>1, SubSeqProperties
  <2> QED
    BY <1>1, <2>2
<1>3. /\ b \in Seq(Ids) /\ Len(b) = Len(s) - m
      /\ \A j \in 1 .. Len(s) - m : b[j] = s[m + j]
  <2>1. \A j \in m + 1 .. Len(s) : s[j] \in Ids
    BY <1>1, ElementOfSeq
  <2>2. /\ b \in Seq(Ids) /\ Len(b) = IF m + 1 <= Len(s) THEN Len(s) - (m + 1) + 1 ELSE 0
        /\ \A j \in 1 .. Len(s) - (m + 1) + 1 : b[j] = s[m + 1 + j - 1]
    BY <1>1, <2>1, SubSeqProperties
  <2> QED
    BY <1>1, <2>2
<1> HIDE DEF a, b
<1>4. /\ t \in Seq(Ids) /\ Len(t) = Len(s) - 1
      /\ \A j \in 1 .. Len(s) - 1 : t[j] = IF j <= m - 1 THEN a[j] ELSE b[j - (m - 1)]
  <2>1. /\ t \in Seq(Ids) /\ Len(t) = Len(a) + Len(b)
        /\ \A j \in 1 .. Len(a) + Len(b) :
             t[j] = IF j <= Len(a) THEN a[j] ELSE b[j - Len(a)]
    BY <1>2, <1>3, ConcatProperties
  <2>2. Len(a) + Len(b) = Len(s) - 1
    BY <1>1, <1>2, <1>3
  <2> HIDE DEF t
  <2> QED
    BY <1>2, <2>1, <2>2
<1>5. DOMAIN t = 1 .. Len(s) - 1
  BY <1>4, LenProperties
<1> HIDE DEF t
<1>6. ASSUME NEW j \in DOMAIN t
      PROVE  t[j] = IF j < m THEN s[j] ELSE s[j + 1]
  <2>1. CASE j < m
    BY <1>1, <1>2, <1>4, <1>5, <2>1
  <2>2. CASE j >= m
    <3>1. j - (m - 1) \in 1 .. Len(s) - m /\ m + (j - (m - 1)) = j + 1
      BY <1>1, <1>5, <2>2
    <3>2. t[j] = b[j - (m - 1)]
      BY <1>1, <1>4, <1>5, <2>2
    <3>3. b[j - (m - 1)] = s[j + 1]
      BY <1>3, <3>1
    <3> QED
      BY <1>1, <1>5, <2>2, <3>2, <3>3
  <2> QED
    BY <1>1, <1>5, <2>1, <2>2
<1>7. IsInjective(t)
  BY <1>1, <1>5, <1>6 DEF IsInjective
<1> QED
  BY <1>4, <1>7 DEF RemoveAt, a, b, t

\* A token that repeats an id registered already tells nothing new.
LEMMA RepeatedToken ==
  ASSUME NEW s \in Seq(Ids), NEW u \in Seq(Ids), u # <<>>, Contains(s, Head(u))
  PROVE  Order(s \o Tail(u)) = Order(s \o u)
<1> DEFINE v == s \o u
           w == s \o Tail(u)
           n == Len(s)
<1>1. n \in Nat /\ Len(u) \in Nat \ {0}
  BY EmptySeq, LenProperties
<1>2. PICK c \in 1 .. n : s[c] = Head(u)
  BY DEF Contains
<1>3. /\ v \in Seq(Ids) /\ Len(v) = n + Len(u)
      /\ \A j \in 1 .. n + Len(u) : v[j] = IF j <= n THEN s[j] ELSE u[j - n]
  BY ConcatProperties
<1>4. /\ Tail(u) \in Seq(Ids) /\ Len(Tail(u)) = Len(u) - 1
      /\ \A j \in 1 .. Len(u) - 1 : Tail(u)[j] = u[j + 1]
  BY HeadTailProperties
<1>5. /\ w \in Seq(Ids) /\ Len(w) = n + Len(u) - 1
      /\ \A j \in 1 .. n + Len(u) - 1 : w[j] = IF j <= n THEN s[j] ELSE Tail(u)[j - n]
  BY <1>1, <1>4, ConcatProperties
<1>6. DOMAIN v = 1 .. n + Len(u) /\ DOMAIN w = 1 .. n + Len(u) - 1
  BY <1>3, <1>5, LenProperties
<1>7. u[1] = Head(u)
  OBVIOUS
<1> HIDE DEF v, w, n
<1>8. v[n + 1] = v[c] /\ c \in 1 .. n
  BY <1>1, <1>2, <1>3, <1>7
<1>9. ASSUME NEW j \in 1 .. n + Len(u) - 1
      PROVE  w[j] = IF j <= n THEN v[j] ELSE v[j + 1]
  <2>1. CASE j <= n
    <3>1. w[j] = s[j]
      BY <1>5, <2>1
    <3>2. j \in 1 .. n + Len(u)
      BY <1>1
    <3>3. v[j] = s[j]
      BY <1>3, <2>1, <3>2
    <3> QED
      BY <2>1, <3>1, <3>3
  <2>2. CASE j > n
    <3>1. j - n \in 1 .. Len(u) - 1 /\ (j - n) + 1 = (j + 1) - n /\ j + 1 \in 1 .. n + Len(u)
      BY <1>1, <2>2
    <3>2. w[j] = u[(j - n) + 1]
      BY <1>1, <1>4, <1>5, <2>2, <3>1
    <3>3. v[j + 1] = u[(j + 1) - n]
      BY <1>1, <1>3, <2>2, <3>1
    <3> QED
      BY <1>1, <2>2, <3>1, <3>2, <3>3
  <2> QED
    BY <1>1, <2>1, <2>2
<1>10. ASSUME NEW x, NEW y, NEW m \in DOMAIN v, v[m] = x,
              \A j \in 1 .. m - 1 : v[j] # y
       PROVE  \E k \in DOMAIN w : w[k] = x /\ \A j \in 1 .. k - 1 : w[j] # y
  <2>1. CASE m <= n
    <3>1. m \in DOMAIN w /\ w[m] = x
      BY <1>1, <1>6, <1>9, <1>10, <2>1
    <3>2. \A j \in 1 .. m - 1 : w[j] # y
      BY <1>1, <1>6, <1>9, <1>10, <2>1
    <3> QED
      BY <3>1, <3>2
  <2>2. CASE m = n + 1
    <3>1. c \in DOMAIN w /\ w[c] = x
      BY <1>1, <1>6, <1>8, <1>9, <1>10, <2>2
    <3>2. \A j \in 1 .. c - 1 : w[j] # y
      BY <1>1, <1>6, <1>8, <1>9, <1>10, <2>2
    <3> QED
      BY <3>1, <3>2
  <2>3. CASE m > n + 1
    <3>1. m - 1 \in DOMAIN w /\ w[m - 1] = x
      BY <1>1, <1>6, <1>9, <1>10, <2>3
    <3>2. \A j \in 1 .. (m - 1) - 1 : w[j] # y
      BY <1>1, <1>6, <1>9, <1>10, <2>3
    <3> QED
      BY <3>1, <3>2
  <2> QED
    BY <1>1, <1>6, <2>1, <2>2, <2>3
<1>11. ASSUME NEW x, NEW y, NEW m \in DOMAIN w, w[m] = x,
              \A j \in 1 .. m - 1 : w[j] # y
       PROVE  \E k \in DOMAIN v : v[k] = x /\ \A j \in 1 .. k - 1 : v[j] # y
  <2>1. CASE m <= n
    <3>1. m \in DOMAIN v /\ v[m] = x
      BY <1>1, <1>6, <1>9, <1>11, <2>1
    <3>2. \A j \in 1 .. m - 1 : v[j] # y
      BY <1>1, <1>6, <1>9, <1>11, <2>1
    <3> QED
      BY <3>1, <3>2
  <2>2. CASE m > n
    <3>1. m + 1 \in DOMAIN v /\ v[m + 1] = x
      BY <1>1, <1>6, <1>9, <1>11, <2>2
    <3>2. ASSUME NEW j \in 1 .. (m + 1) - 1
          PROVE  v[j] # y
      <4>1. CASE j <= n
        BY <1>1, <1>6, <1>9, <1>11, <2>2, <4>1
      <4>2. CASE j = n + 1
        <5>1. c \in 1 .. m - 1 /\ w[c] = v[c]
          BY <1>1, <1>6, <1>8, <1>9, <2>2
        <5> QED
          BY <1>8, <1>11, <4>2, <5>1
      <4>3. CASE j > n + 1
        <5>1. j - 1 \in 1 .. m - 1 /\ w[j - 1] = v[j]
          BY <1>1, <1>6, <1>9, <2>2, <4>3
        <5> QED
          BY <1>11, <5>1
      <4> QED
        BY <1>1, <2>2, <4>1, <4>2, <4>3
    <3> QED
      BY <3>1, <3>2
  <2> QED
    BY <1>1, <1>6, <2>1, <2>2
<1>12. Order(v) = Order(w)
  <2>1. ASSUME NEW p \in Ids \X Ids
        PROVE  (\E m \in DOMAIN v : v[m] = p[1] /\ \A j \in 1 .. m - 1 : v[j] # p[2])
               <=> (\E m \in DOMAIN w : w[m] = p[1] /\ \A j \in 1 .. m - 1 : w[j] # p[2])
    BY <1>10, <1>11
  <2> QED
    BY <2>1, Zenon DEF Order
<1> QED
  BY <1>12 DEF v, w

\* A token that is new moves from the buffer to the list.
LEMMA NewToken ==
  ASSUME NEW s \in Seq(Ids), NEW u \in Seq(Ids), u # <<>>
  PROVE  /\ Append(s, Head(u)) \o Tail(u) = s \o u
         /\ Head(u) \in Ids /\ Tail(u) \in Seq(Ids)
<1>1. /\ Head(u) \in Ids /\ Tail(u) \in Seq(Ids) /\ Len(Tail(u)) = Len(u) - 1
      /\ \A j \in 1 .. Len(Tail(u)) : Tail(u)[j] = u[j + 1]
  BY HeadTailProperties
<1>2. <<Head(u)>> \in Seq(Ids)
  BY <1>1
<1>3. Append(s, Head(u)) = s \o <<Head(u)>>
  BY <1>1, AppendIsConcat
<1>4. <<Head(u)>> \o Tail(u) = u
  <2> DEFINE h == <<Head(u)>>
  <2>1. h \in Seq(Ids) /\ Len(h) = 1 /\ h[1] = Head(u) /\ Head(u) = u[1]
    BY <1>2
  <2>2. Len(u) \in Nat \ {0}
    BY EmptySeq
  <2> HIDE DEF h
  <2>3. /\ h \o Tail(u) \in Seq(Ids) /\ Len(h \o Tail(u)) = Len(h) + Len(Tail(u))
        /\ \A j \in 1 .. Len(h) + Len(Tail(u)) :
             (h \o Tail(u))[j] = IF j <= Len(h) THEN h[j] ELSE Tail(u)[j - Len(h)]
    <3>1. h \in Seq(Ids) /\ Tail(u) \in Seq(Ids)
      BY <1>1, <2>1
    <3> QED
      BY <3>1, ConcatProperties
  <2>4. Len(h) + Len(Tail(u)) = Len(u)
    BY <1>1, <2>1, <2>2
  <2>5. Len(h \o Tail(u)) = Len(u)
    BY <2>3, <2>4
  <2>6. ASSUME NEW j \in 1 .. Len(u)
        PROVE  (h \o Tail(u))[j] = u[j]
    <3>1. CASE j = 1
      BY <2>1, <2>2, <2>3, <2>4, <3>1
    <3>2. CASE j # 1
      <4>1. j - 1 \in 1 .. Len(Tail(u)) /\ (j - 1) + 1 = j /\ ~(j <= 1)
        BY <1>1, <2>2, <3>2
      <4>2. (h \o Tail(u))[j] = Tail(u)[j - 1]
        BY <2>1, <2>3, <2>4, <4>1
      <4> QED
        BY <1>1, <4>1, <4>2
    <3> QED
      BY <3>1, <3>2
  <2>7. h \o Tail(u) = u
    BY <2>3, <2>5, <2>6, SeqEqual
  <2> QED
    BY <2>7 DEF h
<1>5. (s \o <<Head(u)>>) \o Tail(u) = s \o (<<Head(u)>> \o Tail(u))
  BY <1>1, <1>2, ConcatAssociative
<1> QED
  BY <1>1, <1>3, <1>4, <1>5
\* The order of a list without repetitions is the list.
LEMMA OrderLeads ==
  ASSUME NEW s \in Seq(Ids), NEW t \in Seq(Ids), IsInjective(s), IsInjective(t),
         Order(s) = Order(t)
  PROVE  \A m \in 1 .. Len(s) : m <= Len(t) /\ s[m] = t[m]
<1> DEFINE Bad == {m \in 1 .. Len(s) : ~(m <= Len(t) /\ s[m] = t[m])}
           Less == {p \in Nat \X Nat : p[1] < p[2]}
<1>1. /\ DOMAIN s = 1 .. Len(s) /\ Len(s) \in Nat
      /\ DOMAIN t = 1 .. Len(t) /\ Len(t) \in Nat
  BY LenProperties
<1> SUFFICES ASSUME Bad # {} PROVE FALSE
  OBVIOUS
<1>2. PICK m \in Bad : \A j \in Bad : <<j, m>> \notin Less
  <2>1. Bad \subseteq Nat
    BY <1>1
  <2> HIDE DEF Less, Bad
  <2>2. IsWellFoundedOn(Less, Nat)
    BY NatLessThanWellFounded DEF Less, OpToRel
  <2> QED
    BY <2>1, <2>2, WFMin
<1>3. m \in 1 .. Len(s) /\ ~(m <= Len(t) /\ s[m] = t[m]) /\ s[m] \in Ids
  BY ElementOfSeq
<1>4. ASSUME NEW j \in 1 .. m - 1
      PROVE  j <= Len(t) /\ s[j] = t[j]
  <2>1. <<j, m>> \in Less /\ j \in 1 .. Len(s)
    BY <1>1, <1>3
  <2> QED
    BY <1>2, <2>1
<1> HIDE DEF Bad, Less
<1>5. <<s[m], s[m]>> \in Order(s)
  <2>1. \A j \in 1 .. m - 1 : s[j] # s[m]
    BY <1>1, <1>3 DEF IsInjective
  <2> QED
    BY <1>1, <1>3, <2>1 DEF Order
<1>6. PICK p \in DOMAIN t : t[p] = s[m]
  BY <1>5 DEF Order
<1>7. p > m
  <2>1. ~(p < m)
    <3> SUFFICES ASSUME p < m PROVE FALSE
      OBVIOUS
    <3>1. p \in 1 .. m - 1 /\ p \in DOMAIN s
      BY <1>1, <1>3
    <3>2. s[p] = s[m]
      BY <1>4, <1>6, <3>1
    <3> QED
      BY <1>1, <1>3, <3>1, <3>2 DEF IsInjective
  <2>2. p # m
    BY <1>1, <1>3, <1>6
  <2> QED
    BY <1>1, <1>3, <2>1, <2>2
<1>8. m \in DOMAIN t /\ t[m] \in Ids /\ t[m] # s[m]
  <2>1. m \in 1 .. Len(t)
    BY <1>1, <1>3, <1>7
  <2> QED
    BY <1>1, <1>3, <2>1, ElementOfSeq
<1>9. <<t[m], s[m]>> \in Order(t)
  <2>1. \A j \in 1 .. m - 1 : t[j] # s[m]
    BY <1>1, <1>6, <1>7, <1>8 DEF IsInjective
  <2> QED
    BY <1>3, <1>8, <2>1 DEF Order
<1>10. PICK q \in DOMAIN s : s[q] = t[m] /\ \A j \in 1 .. q - 1 : s[j] # s[m]
  BY <1>9 DEF Order
<1>11. CASE q < m
  <2>1. q \in 1 .. m - 1 /\ q \in DOMAIN t
    BY <1>1, <1>4, <1>11, <1>3
  <2>2. t[q] = t[m]
    BY <1>4, <1>10, <2>1
  <2> QED
    BY <1>8, <1>11, <2>1, <2>2 DEF IsInjective
<1>12. CASE q = m
  BY <1>8, <1>10, <1>12
<1>13. CASE q > m
  <2>1. m \in 1 .. q - 1
    BY <1>1, <1>3, <1>13
  <2> QED
    BY <1>10, <2>1
<1> QED
  BY <1>1, <1>3, <1>11, <1>12, <1>13

LEMMA OrderDecides ==
  ASSUME NEW s \in Seq(Ids), NEW t \in Seq(Ids), Lists(s, t), IsInjective(t)
  PROVE  s = t
<1>1. Len(s) \in Nat /\ Len(t) \in Nat
  BY LenProperties
<1>2. \A m \in 1 .. Len(s) : m <= Len(t) /\ s[m] = t[m]
  BY OrderLeads DEF Lists
<1>3. \A m \in 1 .. Len(t) : m <= Len(s) /\ t[m] = s[m]
  BY OrderLeads DEF Lists
<1>4. Len(s) = Len(t)
  <2>1. Len(s) <= Len(t)
    BY <1>1, <1>2
  <2>2. Len(t) <= Len(s)
    BY <1>1, <1>3
  <2> QED
    BY <1>1, <2>1, <2>2
<1> QED
  BY <1>2, <1>4, SeqEqual

-----------------------------------------------------------------------------
(* The steps. *)

LEMMA NoTokens ==
  ASSUME NEW s \in Seq(Ids)
  PROVE  s \o <<>> = s /\ <<>> \o s = s
  BY ConcatEmptySeq

LEMMA FileInit == Init => FileInv
<1> SUFFICES ASSUME Init PROVE FileInv
  OBVIOUS
<1>1. file \in Seq(Ids) \cup {NoFile} /\ <<>> \in Seq(Ids) /\ Len(<<>>) = 0
  BY FileAssumption, EmptySeq DEF Init
<1>2. TypeOK
  <2>1. 1 \in 1 .. Len(<<>>) + 1
    BY <1>1
  <2>2. known \in Seq(Ids)
    BY <1>1 DEF Init
  <2> QED
    BY <1>1, <2>1, <2>2 DEF Init, TypeOK
<1>3. PlaceOK
  BY DEF Init, PlaceOK, IsInjective
<1> QED
  BY <1>2, <1>3 DEF Init, FileInv, RestOK, WriteOK, KnownOK

\* A change of the list, by a command or by setup_node.
LEMMA Changed ==
  ASSUME FileInv, pc \in {"load", "idle"}, NEW list \in Seq(Ids), IsInjective(list), Change(list),
         loading => list # <<>> /\ Order(list \o buffer') = Order(nodes \o buffer),
         buffer' \in Seq(Ids), UNCHANGED <<loading, file, disk, known, struck>>
  PROVE  FileInv'
<1>1. pc' = "truncate" /\ nodes' = list /\ i' = 1
  BY DEF Change
<1>2. Len(list) \in Nat
  BY LenProperties
<1>3. 1 \in 1 .. Len(list) + 1
  BY <1>2
<1>4. TypeOK'
  BY <1>1, <1>3 DEF FileInv, TypeOK
<1>5. PlaceOK'
  BY <1>1 DEF FileInv, PlaceOK
<1>6. file # NoFile => RestOK' /\ WriteOK'
  BY <1>1 DEF RestOK, WriteOK
<1>7. file # NoFile => KnownOK'
  BY <1>1 DEF FileInv, KnownOK
<1> QED
  BY <1>4, <1>5, <1>6, <1>7 DEF FileInv

LEMMA StartKeeps ==
  ASSUME FileInv, Start \/ StartStray
  PROVE  FileInv'
<1>1. /\ pc = "down" /\ pc' = "load" /\ loading' /\ nodes = <<>>
      /\ UNCHANGED <<nodes, file, disk, i, known>>
  BY DEF FileInv, PlaceOK, Start, StartStray
<1>2. CASE Start
  <2>1. buffer' = (IF file = NoFile THEN <<>> ELSE file) /\ struck' = struck
    BY <1>2 DEF Start
  <2>2. TypeOK'
    BY <1>1, <1>2, <2>1, EmptySeq DEF FileInv, TypeOK, Start
  <2>3. PlaceOK'
    BY <1>1, <1>2 DEF FileInv, PlaceOK, Start
  <2>4. ASSUME file # NoFile
        PROVE  RestOK' /\ WriteOK' /\ KnownOK'
    <3>1. nodes \o file = file
      BY <1>1, <2>4, NoTokens DEF FileInv, TypeOK
    <3> QED
      BY <1>1, <2>1, <2>4, <3>1 DEF FileInv, RestOK, WriteOK, KnownOK
  <2> QED
    BY <1>1, <2>2, <2>3, <2>4 DEF FileInv
<1>3. CASE StartStray
  <2>1. file # NoFile /\ buffer' = Append(file, Stray) /\ struck'
    BY <1>3 DEF StartStray
  <2>2. buffer' \in Seq(Ids) /\ buffer' # <<>>
    BY <2>1, FileAssumption, AppendProperties DEF FileInv, TypeOK
  <2>3. TypeOK'
    BY <1>1, <1>3, <2>2 DEF FileInv, TypeOK, StartStray
  <2>4. PlaceOK'
    BY <1>1, <1>3 DEF FileInv, PlaceOK, StartStray
  <2>5. RestOK' /\ WriteOK' /\ KnownOK'
    BY <1>1, <2>1, <2>2 DEF RestOK, WriteOK, KnownOK
  <2> QED
    BY <2>3, <2>4, <2>5 DEF FileInv
<1> QED
  BY <1>2, <1>3

LEMMA LoadKeeps ==
  ASSUME FileInv, Load
  PROVE  FileInv'
<1>1. /\ pc = "load" /\ buffer # <<>> /\ buffer' = Tail(buffer) /\ loading
      /\ nodes \in Seq(Ids) /\ buffer \in Seq(Ids) /\ IsInjective(nodes)
      /\ UNCHANGED <<loading, file, disk, known, struck>>
  BY DEF FileInv, TypeOK, PlaceOK, Load
<1>2. /\ Append(nodes, Head(buffer)) \o Tail(buffer) = nodes \o buffer
      /\ Head(buffer) \in Ids /\ Tail(buffer) \in Seq(Ids)
  BY <1>1, NewToken
<1>3. CASE Contains(nodes, Head(buffer))
  <2>1. UNCHANGED <<pc, nodes, i>>
    BY <1>3 DEF Load
  <2>2. nodes # <<>>
    <3>1. \E m \in 1 .. Len(nodes) : TRUE
      BY <1>3 DEF Contains
    <3> QED
      BY <3>1, EmptySeq
  <2>3. Order(nodes \o Tail(buffer)) = Order(nodes \o buffer)
    BY <1>1, <1>3, RepeatedToken
  <2>4. TypeOK' /\ PlaceOK'
    BY <1>1, <1>2, <2>1 DEF FileInv, TypeOK, PlaceOK
  <2>5. file # NoFile => RestOK' /\ WriteOK'
    BY <1>1, <2>1, <2>2 DEF FileInv, RestOK, WriteOK
  <2>6. file # NoFile => KnownOK'
    BY <1>1, <2>1, <2>3 DEF FileInv, KnownOK
  <2> QED
    BY <1>1, <2>4, <2>5, <2>6 DEF FileInv
<1>4. CASE ~Contains(nodes, Head(buffer))
  <2> DEFINE list == Append(nodes, Head(buffer))
  <2>1. Change(list)
    BY <1>4 DEF Load
  <2>2. list \in Seq(Ids) /\ IsInjective(list) /\ list # <<>>
    BY <1>1, <1>2, <1>4, AppendedNew
  <2>3. Order(list \o buffer') = Order(nodes \o buffer)
    BY <1>1, <1>2
  <2> HIDE DEF list
  <2> QED
    BY <1>1, <1>2, <2>1, <2>2, <2>3, Changed
<1> QED
  BY <1>3, <1>4

LEMMA LoadedKeeps ==
  ASSUME FileInv, Loaded
  PROVE  FileInv'
<1>1. /\ pc = "load" /\ pc' = "idle" /\ buffer = <<>> /\ ~loading' /\ loading /\ ~struck'
      /\ known' = IF struck THEN nodes ELSE known
      /\ UNCHANGED <<nodes, buffer, file, disk, i>>
  BY DEF FileInv, PlaceOK, Loaded
<1>2. TypeOK'
  BY <1>1 DEF FileInv, TypeOK, Loaded
<1>3. PlaceOK'
  BY <1>1 DEF FileInv, PlaceOK
<1>4. ASSUME file # NoFile
      PROVE  RestOK' /\ WriteOK' /\ KnownOK'
  <2>1. nodes \o buffer = nodes
    BY <1>1, NoTokens DEF FileInv, TypeOK
  <2>2. Order(nodes) = Order(known')
    BY <1>1, <1>4, <2>1 DEF FileInv, KnownOK
  <2>3. file = nodes /\ (file # <<>> => disk = file)
    BY <1>1, <1>4 DEF FileInv, RestOK
  <2> QED
    BY <1>1, <2>2, <2>3 DEF RestOK, WriteOK, KnownOK
<1> QED
  BY <1>1, <1>2, <1>3, <1>4 DEF FileInv

LEMMA CommandKeeps ==
  ASSUME FileInv, NEW id \in Ids, AddDevice(id) \/ RemoveDevice(id)
  PROVE  FileInv'
<1>1. /\ pc = "idle" /\ ~loading /\ nodes \in Seq(Ids) /\ IsInjective(nodes)
      /\ buffer \in Seq(Ids) /\ UNCHANGED <<loading, buffer, file, disk, known, struck>>
  BY DEF FileInv, TypeOK, PlaceOK, AddDevice, RemoveDevice
<1>2. CASE AddDevice(id)
  <2>1. ~Contains(nodes, id) /\ Change(Append(nodes, id))
    BY <1>2 DEF AddDevice
  <2>2. Append(nodes, id) \in Seq(Ids) /\ IsInjective(Append(nodes, id))
    BY <1>1, <2>1, AppendedNew
  <2> QED
    BY <1>1, <2>1, <2>2, Changed
<1>3. CASE RemoveDevice(id)
  <2>1. PICK m \in DOMAIN nodes : Change(RemoveAt(nodes, m))
    BY <1>3 DEF RemoveDevice
  <2>2. RemoveAt(nodes, m) \in Seq(Ids) /\ IsInjective(RemoveAt(nodes, m))
    BY <1>1, RemovedOne
  <2> QED
    BY <1>1, <2>1, <2>2, Changed
<1> QED
  BY <1>2, <1>3

\* Where sync_list_to_file returns to, with list and file agreeing.
LEMMA Returned ==
  ASSUME FileInv, pc \in {"truncate", "sync"}, Return,
         UNCHANGED <<nodes, loading, buffer, i, struck>>,
         file' \in Seq(Ids) \cup {NoFile}, disk' \in Seq(Ids) \cup {NoFile},
         file' = NoFile <=> disk' = NoFile, file' = NoFile <=> file = NoFile,
         file # NoFile => file' = nodes /\ (nodes # <<>> => disk' = file')
  PROVE  FileInv'
<1>1. /\ pc' = IF loading THEN "load" ELSE "idle"
      /\ known' = IF loading THEN known ELSE nodes
  BY DEF Return
<1>2. loading => nodes # <<>>
  BY DEF FileInv, PlaceOK
<1>3. TypeOK'
  BY <1>1 DEF FileInv, TypeOK
<1>4. PlaceOK'
  BY <1>1 DEF FileInv, PlaceOK
<1>5. ASSUME file # NoFile
      PROVE  RestOK' /\ WriteOK' /\ KnownOK'
  <2>1. RestOK'
    BY <1>1, <1>2, <1>5 DEF RestOK
  <2>2. WriteOK'
    BY <1>1 DEF WriteOK
  <2>3. KnownOK'
    BY <1>1, <1>5 DEF FileInv, KnownOK
  <2> QED
    BY <2>1, <2>2, <2>3
<1> QED
  BY <1>3, <1>4, <1>5 DEF FileInv

LEMMA SyncKeeps ==
  ASSUME FileInv, NothingToSync \/ Truncate \/ Write \/ Sync
  PROVE  FileInv'
<1>1. /\ TypeOK /\ nodes \in Seq(Ids) /\ DOMAIN nodes = 1 .. Len(nodes) /\ Len(nodes) \in Nat
      /\ i \in 1 .. Len(nodes) + 1 /\ <<>> \in Seq(Ids) /\ Len(<<>>) = 0
      /\ nodes # <<>> => Len(nodes) > 0
  BY LenProperties, EmptySeq DEF FileInv, TypeOK
<1>2. CASE NothingToSync
  BY <1>1, <1>2, Returned DEF NothingToSync, FileInv, TypeOK, PlaceOK
<1>3. CASE Truncate
  <2>1. /\ pc = "truncate" /\ file # NoFile /\ file' = <<>> /\ i = 1
        /\ UNCHANGED <<nodes, loading, buffer, disk, i, struck>>
    BY <1>3 DEF Truncate, FileInv, PlaceOK
  <2>2. <<>> # NoFile
    BY <1>1, NoFileIsNoList
  <2>3. CASE nodes = <<>>
    BY <1>1, <1>3, <2>1, <2>2, <2>3, Returned DEF Truncate, FileInv, TypeOK, PlaceOK
  <2>4. CASE nodes # <<>>
    <3>1. pc' = "write" /\ known' = known
      BY <1>3, <2>4 DEF Truncate
    <3>2. TypeOK' /\ PlaceOK'
      BY <1>1, <2>1, <2>2, <2>4, <3>1 DEF FileInv, TypeOK, PlaceOK
    <3>3. RestOK' /\ KnownOK'
      BY <2>1, <3>1 DEF FileInv, RestOK, KnownOK
    <3>4. WriteOK'
      BY <1>1, <2>1, <2>4, <3>1 DEF WriteOK
    <3> QED
      BY <3>2, <3>3, <3>4 DEF FileInv
  <2> QED
    BY <2>3, <2>4
<1>4. CASE Write
  <2>1. /\ pc = "write" /\ file' = Append(file, nodes[i]) /\ i' = i + 1
        /\ pc' = IF i = Len(nodes) THEN "sync" ELSE "write"
        /\ UNCHANGED <<nodes, loading, buffer, disk, known, struck>>
    BY <1>4 DEF Write
  <2>2. /\ file \in Seq(Ids) /\ file # NoFile /\ Len(file) = i - 1
        /\ \A j \in 1 .. i - 1 : file[j] = nodes[j]
        /\ i <= Len(nodes)
    BY <2>1 DEF FileInv, TypeOK, PlaceOK, WriteOK
  <2>3. nodes[i] \in Ids
    BY <1>1, <2>2, ElementOfSeq
  <2>4. /\ file' \in Seq(Ids) /\ Len(file') = Len(file) + 1
        /\ \A j \in 1 .. Len(file) : file'[j] = file[j]
        /\ file'[Len(file) + 1] = nodes[i]
    BY <2>1, <2>2, <2>3, AppendProperties
  <2>5. file' # NoFile
    BY <2>4, NoFileIsNoList
  <2>6. TypeOK'
    <3>1. i + 1 \in 1 .. Len(nodes) + 1
      BY <1>1, <2>2
    <3>2. pc' \in {"write", "sync"} /\ i' \in 1 .. Len(nodes') + 1
      BY <2>1, <3>1
    <3> QED
      BY <1>1, <2>1, <2>4, <3>2 DEF TypeOK
  <2>7. PlaceOK'
    BY <2>1, <2>2, <2>5 DEF FileInv, PlaceOK
  <2>8. WriteOK'
    <3>1. i \in Nat /\ i' = i + 1 /\ Len(file) = i - 1
      <4>1. i \in Nat
        BY <1>1
      <4> QED
        BY <2>1, <2>2, <4>1
    <3>2. Len(file') = i' - 1 /\ Len(file) + 1 = i
      BY <2>4, <3>1
    <3>3. ASSUME NEW j \in 1 .. i' - 1
          PROVE  file'[j] = nodes[j]
      <4>1. CASE j = i
        BY <2>4, <3>2, <4>1
      <4>2. CASE j # i
        <5>1. j \in 1 .. i - 1
          BY <3>1, <4>2
        <5> QED
          BY <2>2, <2>4, <3>1, <5>1
      <4> QED
        BY <4>1, <4>2
    <3>4. (pc' = "write" => i' <= Len(nodes)) /\ (pc' = "sync" => i' = Len(nodes) + 1)
      <4>1. CASE i = Len(nodes)
        BY <2>1, <4>1
      <4>2. CASE i # Len(nodes)
        <5>1. i + 1 <= Len(nodes)
          <6>1. i \in Nat /\ Len(nodes) \in Nat /\ i <= Len(nodes) /\ i # Len(nodes)
            BY <1>1, <2>2, <3>1, <4>2
          <6> QED
            BY <6>1
        <5> QED
          BY <2>1, <4>2, <5>1
      <4> QED
        BY <4>1, <4>2
    <3> QED
      BY <2>1, <3>2, <3>3, <3>4 DEF WriteOK
  <2>9. RestOK' /\ KnownOK'
    BY <2>1, <2>2 DEF FileInv, RestOK, KnownOK
  <2> QED
    BY <2>6, <2>7, <2>8, <2>9 DEF FileInv
<1>5. CASE Sync
  <2>1. /\ pc = "sync" /\ disk' = file /\ Return /\ file # NoFile /\ file \in Seq(Ids)
        /\ UNCHANGED <<nodes, loading, buffer, file, i, struck>>
    BY <1>5 DEF Sync, FileInv, TypeOK, PlaceOK
  <2>2. Len(file) = Len(nodes) /\ \A j \in 1 .. Len(file) : file[j] = nodes[j]
    BY <1>1, <2>1 DEF FileInv, WriteOK
  <2>3. file = nodes
    BY <1>1, <2>1, <2>2, SeqEqual
  <2> QED
    BY <2>1, <2>3, Returned
<1> QED
  BY <1>2, <1>3, <1>4, <1>5

LEMMA KernelKeeps ==
  ASSUME FileInv, Writeback
  PROVE  FileInv'
<1>1. disk' = file /\ UNCHANGED <<pc, nodes, loading, buffer, file, i, known, struck>>
  BY DEF Writeback
<1>2. TypeOK' /\ PlaceOK'
  BY <1>1 DEF FileInv, TypeOK, PlaceOK
<1>3. file # NoFile => RestOK' /\ WriteOK' /\ KnownOK'
  BY <1>1 DEF FileInv, RestOK, WriteOK, KnownOK
<1> QED
  BY <1>1, <1>2, <1>3 DEF FileInv

\* What an end leaves that was no strike.
LEMMA EndsWell ==
  ASSUME FileInv, ~struck, ~Rewriting, file # NoFile
  PROVE  Order(file) = Order(known) /\ (file # <<>> => disk = file)
<1>1. pc \in {"down", "load", "idle"} /\ file \in Seq(Ids)
  BY DEF FileInv, TypeOK, Rewriting
<1>2. CASE pc = "load"
  <2>1. Order(nodes \o buffer) = Order(known) /\ nodes \in Seq(Ids) /\ buffer \in Seq(Ids)
    BY <1>2 DEF FileInv, TypeOK, PlaceOK, KnownOK
  <2>2. CASE nodes = <<>>
    <3>1. buffer = file /\ (file # <<>> => disk = file)
      BY <1>2, <2>2 DEF FileInv, RestOK
    <3>2. nodes \o buffer = file
      BY <1>1, <2>2, <3>1, NoTokens
    <3> QED
      BY <2>1, <3>1, <3>2
  <2>3. CASE nodes # <<>>
    <3>1. buffer = <<>>
      BY <1>2, <2>3 DEF Rewriting
    <3>2. nodes \o buffer = nodes
      BY <2>1, <3>1, NoTokens
    <3> QED
      BY <1>2, <2>1, <2>3, <3>2 DEF FileInv, RestOK
  <2> QED
    BY <2>2, <2>3
<1>3. CASE pc # "load"
  BY <1>1, <1>3 DEF FileInv, RestOK, KnownOK
<1> QED
  BY <1>2, <1>3

LEMMA EndKeeps ==
  ASSUME FileInv, ProcessEnds \/ PowerLoss
  PROVE  FileInv'
<1>1. /\ pc' = "down" /\ nodes' = <<>> /\ loading' = FALSE /\ buffer' = <<>> /\ i' = 1
      /\ known' = known
      /\ file' \in {file, disk} /\ disk' = disk
  BY DEF ProcessEnds, PowerLoss, Down
<1>2. struck' \in BOOLEAN
  BY DEF FileInv, TypeOK, ProcessEnds, PowerLoss
<1>3. TypeOK'
  <2>1. <<>> \in Seq(Ids) /\ Len(<<>>) = 0
    BY EmptySeq
  <2>2. 1 \in 1 .. Len(nodes') + 1
    BY <1>1, <2>1
  <2> QED
    BY <1>1, <1>2, <2>1, <2>2 DEF FileInv, TypeOK
<1>4. PlaceOK'
  BY <1>1 DEF FileInv, PlaceOK, IsInjective
<1>5. ASSUME file' # NoFile
      PROVE  RestOK' /\ WriteOK' /\ KnownOK'
  <2>1. file # NoFile
    BY <1>1, <1>5 DEF FileInv, PlaceOK
  <2>2. ~struck' => ~struck /\ ~Rewriting /\ (file' = file \/ file # <<>>)
    BY DEF FileInv, TypeOK, ProcessEnds, PowerLoss
  <2>3. ~struck' => Order(file) = Order(known) /\ (file # <<>> => disk = file)
    BY <2>1, <2>2, EndsWell
  <2>4. ~struck' => Order(file') = Order(known) /\ (file' # <<>> => disk = file')
    BY <1>1, <2>2, <2>3
  <2> QED
    BY <1>1, <2>4 DEF RestOK, WriteOK, KnownOK
<1> QED
  BY <1>3, <1>4, <1>5 DEF FileInv

LEMMA FileStep == FileInv /\ [Next]_vars => FileInv'
<1> SUFFICES ASSUME FileInv, [Next]_vars PROVE FileInv'
  OBVIOUS
<1>1. CASE UNCHANGED vars
  BY <1>1 DEF vars, FileInv, TypeOK, PlaceOK, RestOK, WriteOK, KnownOK
<1> QED
  BY <1>1, StartKeeps, LoadKeeps, LoadedKeeps, CommandKeeps, SyncKeeps, KernelKeeps, EndKeeps
     DEF Next

LEMMA FileAlways == Spec => []FileInv
  BY FileInit, FileStep, PTL DEF Spec

-----------------------------------------------------------------------------

(***************************************************************************)
(* Type correctness: the loop of sync_list_to_file stays inside newLoRa.   *)
(***************************************************************************)
THEOREM FileTypes == Spec => []TypeOK
<1>1. FileInv => TypeOK
  BY DEF FileInv
<1> QED
  BY <1>1, FileAlways, PTL

(***************************************************************************)
(* A restart that nothing came before finds every id the last command      *)
(* left, and the first start every id of the file, once and in order       *)
(* (main.c:471-501), for every heap and every moment of the end.           *)
(***************************************************************************)
THEOREM RestartFinds == Spec => []RestartExact
<1>1. FileInv => RestartExact
  BY DEF FileInv, PlaceOK, KnownOK, RestartExact, Lists
<1> QED
  BY <1>1, FileAlways, PTL

(***************************************************************************)
(* After a first command, or with a file that repeats no id, that is the   *)
(* same list.                                                              *)
(***************************************************************************)
THEOREM RestartSame ==
  Spec => [](pc = "idle" /\ file # NoFile /\ IsInjective(known) => nodes = known)
<1>1. FileInv => (pc = "idle" /\ file # NoFile /\ IsInjective(known) => nodes = known)
  BY OrderDecides DEF FileInv, TypeOK, PlaceOK, KnownOK, Lists
<1> QED
  BY <1>1, FileAlways, PTL

(***************************************************************************)
(* Between two rewritings the file is the list, and during one a leading   *)
(* part of it (main.c:502-524).                                            *)
(***************************************************************************)
THEOREM FileKeepsStep == Spec => []FileInStep
<1>1. FileInv => FileInStep
  <2> SUFFICES ASSUME FileInv PROVE FileInStep
    OBVIOUS
  <2>1. pc = "idle" /\ file # NoFile => file = nodes
    BY DEF FileInv, RestOK
  <2>2. ASSUME pc \in {"write", "sync"}
        PROVE  IsPrefix(file, nodes)
    <3>1. /\ file \in Seq(Ids) /\ nodes \in Seq(Ids) /\ Len(file) \in Nat /\ Len(nodes) \in Nat
          /\ Len(file) = i - 1 /\ i \in 1 .. Len(nodes) + 1
          /\ \A j \in 1 .. i - 1 : file[j] = nodes[j]
      BY <2>2, LenProperties DEF FileInv, TypeOK, PlaceOK, WriteOK
    <3>2. \A j \in 1 .. Len(file) : file[j] \in Ids /\ nodes[j] = file[j]
      BY <3>1, ElementOfSeq
    <3> DEFINE n == Len(file)
               f == SubSeq(file, 1, n)
               g == SubSeq(nodes, 1, n)
    <3>3. /\ f \in Seq(Ids) /\ Len(f) = n
          /\ \A j \in 1 .. n : f[j] = file[j]
      <4>1. /\ f \in Seq(Ids) /\ Len(f) = IF 1 <= n THEN n - 1 + 1 ELSE 0
            /\ \A j \in 1 .. n - 1 + 1 : f[j] = file[1 + j - 1]
        BY <3>1, <3>2, SubSeqProperties
      <4> QED
        BY <3>1, <4>1
    <3>4. /\ g \in Seq(Ids) /\ Len(g) = n
          /\ \A j \in 1 .. n : g[j] = nodes[j]
      <4>1. /\ g \in Seq(Ids) /\ Len(g) = IF 1 <= n THEN n - 1 + 1 ELSE 0
            /\ \A j \in 1 .. n - 1 + 1 : g[j] = nodes[1 + j - 1]
        BY <3>1, <3>2, SubSeqProperties
      <4> QED
        BY <3>1, <4>1
    <3> HIDE DEF f, g
    <3>5. f = g
      BY <3>1, <3>2, <3>3, <3>4, SeqEqual
    <3> QED
      BY <3>1, <3>5 DEF IsPrefix, f, g
  <2> QED
    BY <2>1, <2>2 DEF FileInStep
<1> QED
  BY <1>1, FileAlways, PTL

=============================================================================
