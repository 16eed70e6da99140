--------------------------- MODULE Ssd1306_proof ---------------------------
(***************************************************************************)
(* What the display shows and what is left after a removal, for every size *)
(* of the display, every text and every choice of rows.                    *)
(***************************************************************************)
EXTENDS Ssd1306, SequenceTheorems, TLAPS

-----------------------------------------------------------------------------
(* The inductive invariant: where a thread can be in its call. *)

Prints(c) == c.name \in {"print", "string"}

\* Its rows will show the same, whatever they show now.
Fresh(c) == c.name = "clear" \/ (c.name = "print" /\ c.y # WALL_TIME)

\* A text fits into its row, and one over the time into the time.
Fits(c) ==
  /\ Prints(c) =>
       /\ Len(c.text) >= 1 /\ c.x + Len(c.text) <= max_X
       /\ c.y = WALL_TIME => \A s \in Texts[WALL_TIME] : c.x + Len(c.text) <= Len(s)
  /\ c.name = "print" =>
       /\ c.x = 0 /\ c.text \in Texts[c.y]
       /\ c.y = WALL_TIME => \A s \in Texts[WALL_TIME] : Len(s) = Len(c.text)

InGoto == {"bytes", "goto", "cursor"}
InText == {"char", "data", "advance", "printed"}

\* Which operations belong to which call.
CallOps(c) ==
  CASE c.name = "none"    -> {"none"}
    [] c.name = "picture" -> {"picture"}
    [] c.name = "clear"   -> {"blank", "cleared"} \cup InGoto
    [] c.name = "string"  -> InText \cup InGoto
    [] c.name = "print"   -> (IF c.y = WALL_TIME THEN {} ELSE {"blank"}) \cup InText \cup InGoto

PlaceOK(t) ==
  /\ op[t] \in CallOps(call[t])
  /\ Fits(call[t])
  /\ op[t] \in InGoto => /\ target[t].then \in {"blank", "char", "data", "cleared"}
                         /\ target[t].then \in CallOps(call[t])
                         /\ call[t].name = "clear" => target[t].then = "cleared"
  /\ op[t] \in InGoto /\ target[t].then \in {"blank", "char"} => n[t] = 0
  /\ op[t] = "blank" => n[t] < Blanks(call[t])
  /\ op[t] \in {"char", "data", "advance"} \/ (op[t] \in InGoto /\ target[t].then = "data")
       => n[t] < Len(call[t].text)
  /\ op[t] = "printed" => n[t] = Len(call[t].text)

-----------------------------------------------------------------------------
(* Where the chip and the cursor are for a thread that is undisturbed. *)

FollowsGoto(t) ==
  op[t] \in InGoto =>
    /\ target[t].then = "blank" => target[t].x = 0 /\ target[t].y = call[t].y
    /\ target[t].then = "char" => target[t].x = call[t].x /\ target[t].y = call[t].y
    /\ target[t].then # "data"
    /\ op[t] = "cursor" => pos = <<target[t].x, target[t].y>>

FollowsBlanks(t) ==
  op[t] = "blank" =>
    IF call[t].name = "clear" THEN window = <<call[t].x, call[t].y>>
    ELSE pos = <<n[t], call[t].y>>

\* How many characters of the text are in the chip's memory.
Sent(t) ==
  CASE op[t] \in {"char", "data", "printed"} -> n[t]
    [] op[t] = "advance"                     -> n[t] + 1
    [] OTHER                                 -> 0

FollowsText(t) ==
  op[t] \in {"char", "data", "advance"} =>
    /\ pos = <<call[t].x + Sent(t), call[t].y>>
    /\ current_X = call[t].x + n[t]

\* What an undisturbed thread has written.
Texted(t) ==
  Prints(call[t]) =>
    \A c \in call[t].x .. call[t].x + Sent(t) - 1 :
      screen[call[t].y][c] = call[t].text[c - call[t].x + 1]

RowBlanked(t) ==
  call[t].name = "print" /\ call[t].y # WALL_TIME =>
    /\ op[t] = "blank" => \A c \in 0 .. n[t] - 1 : screen[call[t].y][c] = Blank
    /\ op[t] \in InText \/ (op[t] \in InGoto /\ target[t].then = "char") =>
         \A c \in Sent(t) .. max_X - 1 : screen[call[t].y][c] = Blank

\* The place of a cell in the window, and how many cells ago it was written.
Index(y, r, c) == (r - y) * (max_X + 1) + c
Size(y) == (max_Y - y + 1) * (max_X + 1)
Behind(at, y, r, c) ==
  LET p == Index(y, at[2], at[1])
      i == Index(y, r, c)
  IN IF i < p THEN p - i - 1 ELSE p - i - 1 + Size(y)

AllBlanked(t) ==
  call[t].name = "clear" /\ call[t].x = 0 =>
    \A r \in call[t].y .. max_Y : \A c \in Cols :
      op[t] # "blank" \/ Behind(pos, call[t].y, r, c) < n[t] => screen[r][c] = Blank

Follows(t) ==
  /\ FollowsGoto(t) /\ FollowsBlanks(t) /\ FollowsText(t)
  /\ Texted(t) /\ RowBlanked(t) /\ AllBlanked(t)

-----------------------------------------------------------------------------
(* What a row holds. *)

Agrees(cells, row) == \A c \in 0 .. max_X - 1 : cells[c] = row[c]

\* What a row shows is known, will be when a thread has printed there, or will be
\* given up by one that was disturbed.
RowOK(r) ==
  shown[r] # NoRow =>
    \/ Agrees(screen[r], shown[r])
    \/ \E t \in Threads :
         /\ r \in RowsOf(call[t])
         /\ \/ disturbed[t] \/ Fresh(call[t])
            \/ Agrees(screen[r], Overlaid(call[t], Sent(t), shown[r]))

\* Nothing stands in the row of the time where no time would cover it.
TimeCovers ==
  shown[WALL_TIME] # NoRow =>
    \A s \in Texts[WALL_TIME] : \A c \in Len(s) .. max_X - 1 : shown[WALL_TIME][c] = Blank

PosInWindow == window[1] <= pos[1] /\ window[2] <= pos[2]

ScreenInv ==
  ~garbled =>
    /\ \A t \in Threads : ~disturbed[t] => Follows(t)
    /\ \A r \in Rows : RowOK(r)
    /\ TimeCovers /\ PosInWindow

-----------------------------------------------------------------------------
(* What of the periodic work there is in each phase. *)

LifeInv ==
  ~late =>
    /\ phase \in {"absent", "init", "boot"} => ~timer /\ ~handler /\ ~queued /\ ~Busy("work")
    /\ phase \in {"del_timer", "clear"} => ~queued /\ ~Busy("work")
    /\ phase = "clear" => ~timer

\* The driver's own thread rests between its phases, and no ioctl outlives the device.
CallersInv ==
  /\ phase \in {"absent", "up", "cancel", "del_timer", "off"} => ~Busy("drv")
  /\ phase \notin {"boot", "up"} => ~Busy("app")

Inv == TypeOK /\ (\A t \in Threads : PlaceOK(t)) /\ ScreenInv /\ LifeInv /\ CallersInv

-----------------------------------------------------------------------------
(* Types. *)

USE DEF Threads, NoThread

LEMMA Sizes == max_X \in 1 .. 255 /\ max_Y \in 1 .. 255
BY DisplayAssumption

ChipType ==
  /\ DOMAIN screen = Rows /\ \A r \in Rows : DOMAIN screen[r] = Cols
  /\ window \in Cols \X Rows /\ pos \in Cols \X Rows
  /\ command \in Threads \cup {NoThread}
  /\ current_X \in 0 .. 255 /\ current_Y \in Rows

PlaceType ==
  /\ call \in [Threads -> Calls]
  /\ op \in [Threads -> Operations]
  /\ target \in [Threads -> [x : Cols, y : Rows, then : Operations]]
  /\ n \in [Threads -> Nat]

TodoType == todo \in [Threads -> Seq(Todos)]

FlagType ==
  /\ phase \in Phases
  /\ timer \in BOOLEAN /\ handler \in BOOLEAN /\ queued \in BOOLEAN
  /\ dead \in BOOLEAN /\ garbled \in BOOLEAN /\ late \in BOOLEAN

HistoryType == disturbed \in [Threads -> BOOLEAN] /\ DOMAIN shown = Rows

LEMMA Types == TypeOK <=> ChipType /\ PlaceType /\ TodoType /\ FlagType /\ HistoryType
BY DEF TypeOK, ChipType, PlaceType, TodoType, FlagType, HistoryType

LEMMA TypesNext ==
  TypeOK' <=> ChipType' /\ PlaceType' /\ TodoType' /\ FlagType' /\ HistoryType'
BY DEF TypeOK, ChipType, PlaceType, TodoType, FlagType, HistoryType

LEMMA Zero == 0 \in Rows /\ 0 \in Cols
BY Sizes DEF Rows, Cols

LEMMA NoCallType == NoCall \in Calls /\ Home \in [x : Cols, y : Rows, then : Operations]
BY Zero DEF NoCall, Home, Calls, Operations

LEMMA TodoKinds ==
  ASSUME NEW o \in Todos
  PROVE  /\ o[1] = "print" => o[2] \in Rows
         /\ o[1] = "string" => o[2] \in Strings
BY DEF Todos

LEMMA HeadTail ==
  ASSUME TodoType, NEW t \in Threads, todo[t] # <<>>
  PROVE  Head(todo[t]) \in Todos /\ Tail(todo[t]) \in Seq(Todos)
<1>1. todo[t] \in Seq(Todos)
  BY DEF TodoType
<1> QED
  BY <1>1, HeadTailProperties

LEMMA DisturbType ==
  ASSUME HistoryType, NEW t \in Threads, Disturb(t)
  PROVE  disturbed' \in [Threads -> BOOLEAN]
BY DEF Disturb, HistoryType

LEMMA BeginsType ==
  ASSUME PlaceType, TodoType, HistoryType, NEW t \in Threads, todo[t] # <<>>,
         NEW c \in Calls, Begins(t, c)
  PROVE  /\ call' \in [Threads -> Calls] /\ n' \in [Threads -> Nat]
         /\ TodoType'
         /\ disturbed' \in [Threads -> BOOLEAN]
BY HeadTail DEF Begins, Counts, PlaceType, TodoType, HistoryType

LEMMA GotoType ==
  ASSUME PlaceType, NEW t \in Threads, NEW x \in Cols, NEW y \in Rows, NEW o \in Operations,
         ssd1306_goto_xy(t, x, y, o)
  PROVE  /\ op' \in [Threads -> Operations]
         /\ target' \in [Threads -> [x : Cols, y : Rows, then : Operations]]
BY DEF ssd1306_goto_xy, Becomes, PlaceType, Operations

LEMMA ReturnsType ==
  ASSUME PlaceType, NEW t \in Threads, Returns(t)
  PROVE  PlaceType'
BY NoCallType DEF Returns, Becomes, Counts, PlaceType, Operations

LEMMA BeginType ==
  ASSUME TypeOK, NEW t \in Threads, Begin(t) \/ PrintLine(t)
  PROVE  TypeOK'
<1> USE Types
<1>1. ChipType' /\ FlagType' /\ DOMAIN shown' = Rows
  BY DEF Begin, PrintLine, chip, cursor, life, ChipType, FlagType, HistoryType
<1>2. CASE Nexts(t, "picture") /\ Begin(t)
  <2>1. [name |-> "picture", x |-> 0, y |-> 0, text |-> <<>>] \in Calls
    BY Zero DEF Calls
  <2>2. /\ Begins(t, [name |-> "picture", x |-> 0, y |-> 0, text |-> <<>>])
        /\ Becomes(t, "picture") /\ UNCHANGED target
    BY <1>2 DEF Begin, Nexts
  <2>3. todo[t] # <<>>
    BY <1>2 DEF Nexts
  <2> QED
    BY <2>1, <2>2, <2>3, <1>1, BeginsType, TypesNext
    DEF Becomes, PlaceType, HistoryType, Operations
<1>3. CASE Nexts(t, "clear") /\ Begin(t)
  <2> DEFINE c == [name |-> "clear", x |-> window[1], y |-> window[2], text |-> <<>>]
  <2>1. c \in Calls
    BY DEF Calls, ChipType
  <2>2. Begins(t, c) /\ Becomes(t, "blank") /\ UNCHANGED target
    BY <1>3 DEF Begin, Nexts
  <2>3. todo[t] # <<>>
    BY <1>3 DEF Nexts
  <2> HIDE DEF c
  <2> QED
    BY <2>1, <2>2, <2>3, <1>1, BeginsType, TypesNext
    DEF Becomes, PlaceType, HistoryType, Operations
<1>4. CASE Nexts(t, "string") /\ Begin(t)
  <2> DEFINE o == Head(todo[t])[2]
             c == [name |-> "string", x |-> o.x, y |-> o.y, text |-> o.text]
  <2>1. todo[t] # <<>> /\ o \in Strings
    BY <1>4, HeadTail, TodoKinds DEF Nexts
  <2>2. o \in [x : Cols, y : Rows, text : Seq(Chars)]
    BY <2>1, DisplayAssumption
  <2>3. Begins(t, c) /\ ssd1306_goto_xy(t, o.x, o.y, "char")
    BY <1>4 DEF Begin, Nexts
  <2> HIDE DEF o
  <2>4. c \in Calls /\ o.x \in Cols /\ o.y \in Rows
    BY <2>2 DEF Calls
  <2> HIDE DEF c
  <2>5. "char" \in Operations
    BY DEF Operations
  <2> QED
    BY <2>1, <2>3, <2>4, <2>5, <1>1, BeginsType, GotoType, TypesNext DEF PlaceType, HistoryType
<1>5. CASE PrintLine(t)
  <2> DEFINE l == Head(todo[t])[2]
  <2>1. todo[t] # <<>> /\ l \in Rows
    BY <1>5, HeadTail, TodoKinds DEF Nexts, PrintLine
  <2>2. CASE todo' = [todo EXCEPT ![t] = Tail(@)] /\ UNCHANGED <<place, disturbed>>
    BY <2>1, <2>2, <1>1, HeadTail, TypesNext DEF TodoType, place, PlaceType, HistoryType
  <2>3. ASSUME NEW s \in Texts[l],
               Begins(t, [name |-> "print", x |-> 0, y |-> l, text |-> s]),
               ssd1306_goto_xy(t, 0, l, Line(l))
        PROVE  TypeOK'
    <3> HIDE DEF l
    <3>1. [name |-> "print", x |-> 0, y |-> l, text |-> s] \in Calls
      BY <2>1, Zero, DisplayAssumption DEF Calls
    <3>2. Line(l) \in Operations
      BY DEF Line, Operations
    <3> QED
      BY <2>1, <2>3, <3>1, <3>2, <1>1, BeginsType, GotoType, TypesNext, Zero
      DEF PlaceType, HistoryType
  <2> QED
    BY <1>5, <2>2, <2>3 DEF PrintLine
<1> QED
  BY <1>2, <1>3, <1>4, <1>5 DEF Begin

\* The operations that move neither a call nor the screen.
LEMMA MoveType ==
  ASSUME TypeOK, NEW t \in Threads,
         SendBytes(t) \/ Goto(t) \/ SetCursor(t) \/ SendChar(t) \/ Advance(t)
  PROVE  TypeOK'
<1> USE Types
<1>1. FlagType' /\ TodoType' /\ call' = call
  BY DEF SendBytes, Goto, SetCursor, SendChar, Advance, life, FlagType, TodoType
<1>2. disturbed' \in [Threads -> BOOLEAN]
  BY DisturbType DEF SendBytes, Goto, SetCursor, SendChar, Advance
<1>3. DOMAIN shown' = Rows
  BY DEF SendBytes, Goto, SetCursor, SendChar, Advance, HistoryType
<1>4. target[t].x \in Cols /\ target[t].y \in Rows /\ target[t].then \in Operations
  BY DEF PlaceType
<1>5. \A x \in Cols : x \in 0 .. 255
  BY Sizes DEF Cols
<1>6. ChipType'
  <2>1. CASE SendBytes(t)
    BY <2>1 DEF SendBytes, cursor, ChipType
  <2>2. CASE Goto(t)
    BY <2>2, <1>4 DEF Goto, cursor, ChipType
  <2>3. CASE SetCursor(t)
    BY <2>3, <1>4, <1>5 DEF SetCursor, chip, ChipType
  <2>4. CASE SendChar(t)
    <3>1. NextLine(current_Y) \in Rows
      BY Sizes DEF NextLine, ChipType, Rows
    <3> QED
      BY <2>4, <3>1 DEF SendChar, chip, ChipType
  <2>5. CASE Advance(t)
    <3>1. current_X \in 0 .. 255
      BY DEF ChipType
    <3>2. current_X' \in 0 .. 255
      BY <2>5, <3>1 DEF Advance
    <3> QED
      BY <2>5, <3>2 DEF Advance, chip, ChipType
  <2> QED
    BY <2>1, <2>2, <2>3, <2>4, <2>5
<1>7. PlaceType'
  <2>1. CASE SendBytes(t) \/ Goto(t) \/ SetCursor(t)
    BY <2>1, <1>4, <1>1 DEF SendBytes, Goto, SetCursor, Becomes, PlaceType, Operations
  <2>2. CASE SendChar(t)
    <3>1. NextLine(current_Y) \in Rows
      BY Sizes DEF NextLine, ChipType, Rows
    <3>2. CASE ssd1306_goto_xy(t, 0, NextLine(current_Y), "data")
      BY <2>2, <3>1, <3>2, <1>1, GotoType, Zero DEF SendChar, PlaceType, Operations
    <3>3. CASE Becomes(t, "data") /\ UNCHANGED <<current_Y, target>>
      BY <2>2, <3>3, <1>1 DEF SendChar, Becomes, PlaceType, Operations
    <3> QED
      BY <2>2, <3>2, <3>3 DEF SendChar
  <2>3. CASE Advance(t)
    BY <2>3, <1>1 DEF Advance, Becomes, Counts, PlaceType, Operations
  <2> QED
    BY <2>1, <2>2, <2>3
<1> QED
  BY <1>1, <1>2, <1>3, <1>6, <1>7, TypesNext DEF HistoryType

LEMMA CellsType ==
  ASSUME TypeOK, NEW t \in Threads, Blanked(t) \/ Drawn(t), UNCHANGED call
  PROVE  PlaceType'
<1> USE Types
<1>1. CASE Drawn(t)
  BY <1>1 DEF Drawn, Becomes, PlaceType, Operations
<1>2. CASE Blanked(t) /\ Counts(t, n[t] + 1) /\ UNCHANGED <<op, target>>
  BY <1>2 DEF Counts, PlaceType
<1>3. CASE Counts(t, 0) /\ ssd1306_goto_xy(t, 0, 0, "cleared")
  BY <1>3, GotoType, Zero DEF Counts, PlaceType, Operations
<1>4. CASE Counts(t, 0) /\ ssd1306_goto_xy(t, call[t].x, call[t].y, "char")
  <2>1. call[t].x \in Cols /\ call[t].y \in Rows
    BY DEF PlaceType, Calls
  <2> QED
    BY <2>1, <1>4, GotoType, Zero DEF Counts, PlaceType, Operations
<1> QED
  BY <1>1, <1>2, <1>3, <1>4 DEF Blanked

LEMMA NextPosType ==
  ASSUME ChipType
  PROVE  NextPos \in Cols \X Rows
BY Sizes DEF NextPos, ChipType, Cols, Rows

LEMMA WriteType ==
  ASSUME TypeOK, NEW t \in Threads, SendData(t) \/ Spoil(t) \/ SendPicture(t)
  PROVE  TypeOK'
<1> USE Types
<1>1. FlagType' /\ TodoType'
  BY DEF SendData, Spoil, SendPicture, life, FlagType, TodoType
<1>2. disturbed' \in [Threads -> BOOLEAN]
  BY DisturbType DEF SendData, Spoil, SendPicture
<1>3. DOMAIN shown' = Rows
  BY DEF SendData, Spoil, SendPicture, HistoryType
<1>4. PlaceType'
  BY CellsType, ReturnsType DEF SendData, Spoil, SendPicture
<1>5. ChipType'
  <2>1. CASE SendData(t)
    BY <2>1, NextPosType DEF SendData, ChipType, cursor
  <2>2. CASE Spoil(t) \/ SendPicture(t)
    BY <2>2 DEF Spoil, SendPicture, ChipType, cursor
  <2> QED
    BY <2>1, <2>2
<1> QED
  BY <1>1, <1>2, <1>3, <1>4, <1>5, TypesNext DEF HistoryType

LEMMA EndType ==
  ASSUME TypeOK, NEW t \in Threads, Cleared(t) \/ Printed(t)
  PROVE  TypeOK'
<1> USE Types
<1>1. ChipType' /\ FlagType' /\ TodoType'
  BY DEF Cleared, Printed, chip, cursor, life, ChipType, FlagType, TodoType
<1>2. disturbed' \in [Threads -> BOOLEAN]
  BY DEF Cleared, Printed, HistoryType
<1>3. DOMAIN shown' = Rows
  <2>1. CASE Cleared(t)
    BY <2>1 DEF Cleared
  <2>2. CASE Printed(t)
    BY <2>2 DEF Printed, HistoryType
  <2> QED
    BY <2>1, <2>2
<1>4. PlaceType'
  BY ReturnsType DEF Cleared, Printed
<1> QED
  BY <1>1, <1>2, <1>3, <1>4, TypesNext DEF HistoryType

LEMMA GarbleType ==
  ASSUME TypeOK, NEW t \in Threads, Garble(t)
  PROVE  TypeOK'
<1> USE Types DEF Garble
<1>1. PlaceType'
  BY ReturnsType
<1>2. TodoType'
  <2>1. <<"mod_timer">> \in Todos
    BY DEF Todos
  <2>2. <<<<"mod_timer">>>> \in Seq(Todos) /\ <<>> \in Seq(Todos)
    BY <2>1
  <2> QED
    BY <2>2 DEF TodoType
<1>3. ChipType'
  BY Zero DEF ChipType, BlankRow
<1>4. FlagType' /\ HistoryType'
  BY DEF FlagType, HistoryType, life
<1> QED
  BY <1>1, <1>2, <1>3, <1>4, TypesNext

LEMMA StepType ==
  ASSUME TypeOK, NEW t \in Threads, Step(t)
  PROVE  TypeOK'
BY BeginType, MoveType, WriteType, EndType, GarbleType DEF Step, Call
-----------------------------------------------------------------------------
(* Where each thread is. *)

\* No thread moves another one in its call.
LEMMA OthersStay ==
  ASSUME TypeOK, NEW t \in Threads, Step(t), NEW u \in Threads, u # t
  PROVE  call'[u] = call[u] /\ op'[u] = op[u] /\ target'[u] = target[u] /\ n'[u] = n[u]
<1> USE DEF PlaceType, Becomes, Counts, ssd1306_goto_xy, Returns
<1>1. PlaceType
  BY Types
<1>2. CASE Begin(t) \/ PrintLine(t)
  BY <1>1, <1>2 DEF Begin, PrintLine, Begins, place
<1>3. CASE SendBytes(t) \/ Goto(t) \/ SetCursor(t) \/ SendChar(t) \/ Advance(t)
  BY <1>1, <1>3 DEF SendBytes, Goto, SetCursor, SendChar, Advance
<1>4. CASE SendData(t) \/ Spoil(t)
  BY <1>1, <1>4 DEF SendData, Spoil, Blanked, Drawn
<1>5. CASE SendPicture(t) \/ Cleared(t) \/ Printed(t) \/ Garble(t)
  BY <1>1, <1>5 DEF SendPicture, Cleared, Printed, Garble
<1> QED
  BY <1>2, <1>3, <1>4, <1>5 DEF Step, Call

LEMMA PlaceSame ==
  ASSUME NEW t, PlaceOK(t),
         call'[t] = call[t], op'[t] = op[t], target'[t] = target[t], n'[t] = n[t]
  PROVE  PlaceOK(t)'
BY DEF PlaceOK

LEMMA ReturnsPlace ==
  ASSUME PlaceType, NEW t \in Threads, Returns(t)
  PROVE  PlaceOK(t)'
<1>1. op'[t] = "none" /\ call'[t] = NoCall
  BY DEF Returns, Becomes, PlaceType
<1> QED
  BY <1>1 DEF PlaceOK, NoCall, CallOps, Fits, Prints, InGoto

LEMMA LineFits ==
  ASSUME NEW l \in Rows, NEW s \in Texts[l]
  PROVE  Fits([name |-> "print", x |-> 0, y |-> l, text |-> s])
<1> DEFINE c == [name |-> "print", x |-> 0, y |-> l, text |-> s]
<1>1. c.name = "print" /\ c.x = 0 /\ c.y = l /\ c.text = s
  OBVIOUS
<1> HIDE DEF c
<1>2. Len(s) \in 1 .. max_X
  BY DisplayAssumption
<1>3. l = WALL_TIME => \A r \in Texts[WALL_TIME] : Len(r) = Len(s)
  BY DisplayAssumption
<1>4. Fits(c)
  BY <1>1, <1>2, <1>3, Sizes DEF Fits, Prints
<1> QED
  BY <1>4 DEF c

LEMMA StringFits ==
  ASSUME NEW o \in Strings
  PROVE  Fits([name |-> "string", x |-> o.x, y |-> o.y, text |-> o.text])
<1> DEFINE c == [name |-> "string", x |-> o.x, y |-> o.y, text |-> o.text]
<1>1. c.name = "string" /\ c.x = o.x /\ c.y = o.y /\ c.text = o.text
  OBVIOUS
<1> HIDE DEF c
<1>2. o.text \in Seq(Chars) /\ o.text # <<>> /\ o.x + Len(o.text) <= max_X
  BY DisplayAssumption
<1>3. Len(o.text) >= 1
  BY <1>2, EmptySeq, LenProperties
<1>4. o.y = WALL_TIME => \A s \in Texts[WALL_TIME] : o.x + Len(o.text) <= Len(s)
  BY DisplayAssumption
<1>5. Fits(c)
  BY <1>1, <1>2, <1>3, <1>4 DEF Fits, Prints
<1> QED
  BY <1>5 DEF c

LEMMA BeginPlace ==
  ASSUME TypeOK, NEW t \in Threads, Begin(t) \/ PrintLine(t), PlaceOK(t)
  PROVE  PlaceOK(t)'
<1> USE DEF InGoto, InText
<1>1. PlaceType /\ TodoType /\ ChipType
  BY Types
<1>2. CASE Nexts(t, "picture") /\ Begin(t)
  <2> DEFINE c == [name |-> "picture", x |-> 0, y |-> 0, text |-> <<>>]
  <2>1. Begins(t, c) /\ Becomes(t, "picture") /\ UNCHANGED target
    BY <1>2 DEF Begin, Nexts
  <2>2. call'[t] = c /\ op'[t] = "picture"
    BY <2>1, <1>1 DEF Begins, Becomes, PlaceType
  <2> QED
    BY <2>2 DEF PlaceOK, CallOps, Fits, Prints
<1>3. CASE Nexts(t, "clear") /\ Begin(t)
  <2> DEFINE c == [name |-> "clear", x |-> window[1], y |-> window[2], text |-> <<>>]
  <2>1. Begins(t, c) /\ Becomes(t, "blank") /\ UNCHANGED target
    BY <1>3 DEF Begin, Nexts
  <2>2. call'[t] = c /\ op'[t] = "blank" /\ n'[t] = 0
    BY <2>1, <1>1 DEF Begins, Becomes, Counts, PlaceType
  <2>3. (max_X + 1) * (max_Y + 1) > 0
    BY Sizes
  <2> QED
    BY <2>2, <2>3 DEF PlaceOK, CallOps, Fits, Prints, Blanks
<1>4. CASE Nexts(t, "string") /\ Begin(t)
  <2> DEFINE o == Head(todo[t])[2]
             c == [name |-> "string", x |-> o.x, y |-> o.y, text |-> o.text]
  <2>1. todo[t] # <<>> /\ o \in Strings
    BY <1>1, <1>4, HeadTail, TodoKinds DEF Nexts
  <2>2. Begins(t, c) /\ ssd1306_goto_xy(t, o.x, o.y, "char")
    BY <1>4 DEF Begin, Nexts
  <2> HIDE DEF o
  <2>3. Fits(c)
    BY <2>1, StringFits
  <2>4. call'[t] = c /\ op'[t] = "bytes" /\ n'[t] = 0 /\ target'[t].then = "char"
    BY <2>2, <1>1 DEF Begins, Becomes, Counts, ssd1306_goto_xy, PlaceType
  <2>5. c.name = "string"
    OBVIOUS
  <2> HIDE DEF c
  <2> QED
    BY <2>3, <2>4, <2>5 DEF PlaceOK, CallOps
<1>5. CASE PrintLine(t)
  <2> DEFINE l == Head(todo[t])[2]
  <2>1. todo[t] # <<>> /\ l \in Rows
    BY <1>1, <1>5, HeadTail, TodoKinds DEF Nexts, PrintLine
  <2>2. CASE UNCHANGED place
    BY <2>2, PlaceSame DEF place
  <2>3. ASSUME NEW s \in Texts[l],
               Begins(t, [name |-> "print", x |-> 0, y |-> l, text |-> s]),
               ssd1306_goto_xy(t, 0, l, Line(l))
        PROVE  PlaceOK(t)'
    <3> DEFINE c == [name |-> "print", x |-> 0, y |-> l, text |-> s]
    <3> HIDE DEF l
    <3>1. Fits(c)
      BY <2>1, LineFits
    <3>2. call'[t] = c /\ op'[t] = "bytes" /\ n'[t] = 0 /\ target'[t].then = Line(l)
      BY <2>3, <1>1 DEF Begins, Becomes, Counts, ssd1306_goto_xy, PlaceType
    <3>3. c.name = "print" /\ c.y = l
      OBVIOUS
    <3> HIDE DEF c
    <3> QED
      BY <3>1, <3>2, <3>3 DEF PlaceOK, CallOps, Line
  <2> QED
    BY <1>5, <2>2, <2>3 DEF PrintLine
<1> QED
  BY <1>2, <1>3, <1>4, <1>5 DEF Begin

LEMMA BlankedPlace ==
  ASSUME PlaceType, NEW t \in Threads, PlaceOK(t), Blanked(t), UNCHANGED call
  PROVE  PlaceOK(t)'
<1> USE DEF InGoto, InText
<1>1. Fits(call[t]) /\ op[t] = "blank" /\ n[t] \in Nat /\ op[t] \in CallOps(call[t])
  BY DEF PlaceOK, Blanked, PlaceType
<1>2. CASE n[t] + 1 < Blanks(call[t]) /\ Counts(t, n[t] + 1) /\ UNCHANGED <<op, target>>
  <2>1. n'[t] = n[t] + 1 /\ op'[t] = "blank" /\ call'[t] = call[t]
    BY <1>1, <1>2 DEF Counts, PlaceType
  <2> QED
    BY <1>1, <1>2, <2>1 DEF PlaceOK
<1>3. CASE Counts(t, 0) /\ call[t].name = "clear" /\ ssd1306_goto_xy(t, 0, 0, "cleared")
  <2>1. op'[t] = "bytes" /\ target'[t].then = "cleared" /\ call'[t] = call[t] /\ n'[t] = 0
    BY <1>3 DEF Counts, Becomes, ssd1306_goto_xy, PlaceType
  <2> QED
    BY <1>1, <1>3, <2>1 DEF PlaceOK, CallOps
<1>4. CASE /\ Counts(t, 0) /\ call[t].name # "clear"
           /\ ssd1306_goto_xy(t, call[t].x, call[t].y, "char")
  <2>1. op'[t] = "bytes" /\ target'[t].then = "char" /\ call'[t] = call[t] /\ n'[t] = 0
    BY <1>4 DEF Counts, Becomes, ssd1306_goto_xy, PlaceType
  <2>2. call[t].name = "print"
    BY <1>1, <1>4 DEF CallOps, PlaceType, Calls
  <2> QED
    BY <1>1, <2>1, <2>2 DEF PlaceOK, CallOps
<1> QED
  BY <1>2, <1>3, <1>4 DEF Blanked

LEMMA MovePlace ==
  ASSUME PlaceType, NEW t \in Threads, PlaceOK(t),
         SendBytes(t) \/ Goto(t) \/ SetCursor(t) \/ SendChar(t) \/ Advance(t) \/ Drawn(t),
         UNCHANGED call
  PROVE  PlaceOK(t)'
<1> USE DEF InGoto, InText, Becomes
<1>1. call'[t] = call[t] /\ Fits(call[t]) /\ op[t] \in CallOps(call[t]) /\ n[t] \in Nat
  BY DEF PlaceOK, PlaceType
<1>2. CASE SendBytes(t) \/ Goto(t)
  <2>1. /\ op[t] \in {"bytes", "goto"} /\ op'[t] \in {"goto", "cursor"}
        /\ target'[t] = target[t] /\ n'[t] = n[t]
    BY <1>2 DEF SendBytes, Goto, PlaceType
  <2>2. op'[t] \in CallOps(call[t])
    BY <1>1, <2>1 DEF CallOps, PlaceType, Calls
  <2> QED
    BY <1>1, <2>1, <2>2 DEF PlaceOK
<1>3. CASE SetCursor(t)
  <2>1. op[t] = "cursor" /\ op'[t] = target[t].then /\ target'[t] = target[t] /\ n'[t] = n[t]
    BY <1>3 DEF SetCursor, PlaceType
  <2>2. /\ target[t].then \in CallOps(call[t])
        /\ target[t].then \in {"blank", "char", "data", "cleared"}
    BY <2>1 DEF PlaceOK
  <2>3. CASE target[t].then = "blank"
    <3>1. call[t].name = "print" /\ n[t] = 0
      BY <2>1, <2>3, <2>2 DEF PlaceOK, CallOps, PlaceType, Calls
    <3> QED
      BY <1>1, <2>1, <2>2, <2>3, <3>1, Sizes DEF PlaceOK, Blanks
  <2>4. CASE target[t].then = "char"
    <3>1. Prints(call[t]) /\ n[t] = 0
      BY <2>1, <2>4, <2>2 DEF PlaceOK, CallOps, PlaceType, Calls, Prints
    <3>2. Len(call[t].text) >= 1 /\ Len(call[t].text) \in Nat
      BY <1>1, <3>1 DEF Fits, PlaceType, Calls
    <3> QED
      BY <1>1, <2>1, <2>2, <2>4, <3>1, <3>2 DEF PlaceOK
  <2>5. CASE target[t].then = "data"
    BY <1>1, <2>1, <2>2, <2>5 DEF PlaceOK
  <2>6. CASE target[t].then = "cleared"
    BY <1>1, <2>1, <2>2, <2>6 DEF PlaceOK
  <2> QED
    BY <2>2, <2>3, <2>4, <2>5, <2>6
<1>4. CASE SendChar(t)
  <2>1. op[t] = "char" /\ n'[t] = n[t] /\ n[t] < Len(call[t].text)
    BY <1>4 DEF SendChar, PlaceOK
  <2>2. Prints(call[t])
    BY <1>1, <2>1 DEF CallOps, PlaceType, Calls, Prints
  <2>3. op'[t] = "data" \/ (op'[t] = "bytes" /\ target'[t].then = "data")
    BY <1>4 DEF SendChar, ssd1306_goto_xy, PlaceType
  <2>4. op'[t] \in CallOps(call[t]) /\ "data" \in CallOps(call[t])
    BY <2>2, <2>3 DEF CallOps, Prints
  <2>5. call[t].name # "clear"
    BY <2>2 DEF Prints
  <2> QED
    BY <1>1, <2>1, <2>3, <2>4, <2>5 DEF PlaceOK
<1>5. CASE Advance(t)
  <2>1. /\ op[t] = "advance" /\ n'[t] = n[t] + 1 /\ n[t] < Len(call[t].text)
        /\ op'[t] = IF n[t] + 1 = Len(call[t].text) THEN "printed" ELSE "char"
    BY <1>5 DEF Advance, PlaceOK, Counts, PlaceType
  <2>2. Prints(call[t]) /\ Len(call[t].text) \in Nat
    BY <1>1, <2>1 DEF CallOps, PlaceType, Calls, Prints
  <2>3. op'[t] \in CallOps(call[t])
    BY <2>1, <2>2 DEF CallOps, Prints
  <2> QED
    BY <1>1, <2>1, <2>2, <2>3 DEF PlaceOK
<1>6. CASE Drawn(t)
  <2>1. /\ op[t] = "data" /\ op'[t] = "advance" /\ n'[t] = n[t] /\ n[t] < Len(call[t].text)
    BY <1>6 DEF Drawn, PlaceOK, PlaceType
  <2>2. op'[t] \in CallOps(call[t])
    BY <1>1, <2>1 DEF CallOps, PlaceType, Calls
  <2> QED
    BY <1>1, <2>1, <2>2 DEF PlaceOK
<1> QED
  BY <1>2, <1>3, <1>4, <1>5, <1>6

LEMMA StepPlace ==
  ASSUME TypeOK, NEW t \in Threads, Step(t), PlaceOK(t)
  PROVE  PlaceOK(t)'
<1>1. PlaceType
  BY Types
<1>2. CASE Begin(t) \/ PrintLine(t)
  BY <1>2, BeginPlace
<1>3. CASE SendBytes(t) \/ Goto(t) \/ SetCursor(t) \/ SendChar(t) \/ Advance(t)
  BY <1>1, <1>3, MovePlace DEF SendBytes, Goto, SetCursor, SendChar, Advance
<1>4. CASE SendData(t) \/ Spoil(t)
  BY <1>1, <1>4, MovePlace, BlankedPlace DEF SendData, Spoil
<1>5. CASE SendPicture(t) \/ Cleared(t) \/ Printed(t) \/ Garble(t)
  BY <1>1, <1>5, ReturnsPlace DEF SendPicture, Cleared, Printed, Garble
<1> QED
  BY <1>2, <1>3, <1>4, <1>5 DEF Step, Call

-----------------------------------------------------------------------------
(* What is no step of a thread. *)

LifeStep ==
  \/ TimerFires \/ tmHandler \/ getinfo \/ ModTimer \/ OpenFails \/ oled_ioctl
  \/ Probe \/ Register \/ RegisterFails \/ AddTimer
  \/ Remove \/ CancelWork \/ DelTimer \/ Removed
  \/ Shutdown \/ DisplayOff

LEMMA NextSteps ==
  ASSUME Next
  PROVE  LifeStep \/ UNCHANGED vars \/ \E t \in Threads : Step(t)
BY DEF Next, Work, Driver, Over, LifeStep

LEMMA LifeFrame ==
  ASSUME LifeStep
  PROVE  UNCHANGED <<chip, place, history>>
<1> USE DEF chip, place, history
<1>1. CASE TimerFires \/ tmHandler \/ getinfo \/ ModTimer \/ OpenFails \/ oled_ioctl
  BY <1>1 DEF TimerFires, tmHandler, getinfo, ModTimer, OpenFails,
     oled_ioctl
<1>2. CASE Probe \/ Register \/ RegisterFails \/ AddTimer
  BY <1>2 DEF Probe, Register, RegisterFails, AddTimer
<1>3. CASE Remove \/ CancelWork \/ DelTimer \/ Removed \/ Shutdown \/ DisplayOff
  BY <1>3 DEF Remove, CancelWork, DelTimer, Removed, Shutdown, DisplayOff
<1> QED
  BY <1>1, <1>2, <1>3 DEF LifeStep

LEMMA CursorKept ==
  ASSUME LifeStep, ~Probe
  PROVE  UNCHANGED cursor
<1> USE DEF cursor
<1>1. CASE TimerFires \/ tmHandler \/ getinfo \/ ModTimer \/ OpenFails \/ oled_ioctl
  BY <1>1 DEF TimerFires, tmHandler, getinfo, ModTimer, OpenFails,
     oled_ioctl
<1>2. CASE Register \/ RegisterFails \/ AddTimer
  BY <1>2 DEF Register, RegisterFails, AddTimer
<1>3. CASE Remove \/ CancelWork \/ DelTimer \/ Removed \/ Shutdown \/ DisplayOff
  BY <1>3 DEF Remove, CancelWork, DelTimer, Removed, Shutdown, DisplayOff
<1> QED
  BY <1>1, <1>2, <1>3 DEF LifeStep

LEMMA LinesType ==
  ASSUME NEW lines \in Seq(Rows)
  PROVE  PrintLines(lines) \in Seq(Todos)
<1>1. \A i \in 1 .. Len(lines) : lines[i] \in Rows
  BY ElementOfSeq
<1>2. \A i \in 1 .. Len(lines) : <<"print", lines[i]>> \in Todos
  BY <1>1 DEF Todos
<1>3. DOMAIN lines = 1 .. Len(lines) /\ Len(lines) \in Nat
  BY LenProperties
<1> QED
  BY <1>2, <1>3, SeqDef DEF PrintLines

LEMMA LifeTodo ==
  ASSUME TodoType, LifeStep
  PROVE  TodoType'
<1>1. /\ <<"clear">> \in Todos /\ <<"picture">> \in Todos /\ <<"mod_timer">> \in Todos
      /\ <<"string", Title>> \in Todos /\ <<"string", Wait>> \in Todos
      /\ <<"string", GoodBye>> \in Todos
  BY DEF Todos, Strings
<1>2. CASE getinfo
  <2>1. PrintLines(WorkLines) \in Seq(Todos) /\ <<<<"mod_timer">>>> \in Seq(Todos)
    BY <1>1, LinesType, DisplayAssumption
  <2>2. PrintLines(WorkLines) \o <<<<"mod_timer">>>> \in Seq(Todos)
    BY <2>1, ConcatProperties
  <2> QED
    BY <1>2, <2>2 DEF getinfo, TodoType
<1>3. CASE oled_ioctl
  BY <1>3, LinesType, DisplayAssumption DEF oled_ioctl, TodoType
<1>4. CASE ModTimer
  BY <1>4, HeadTail DEF ModTimer, Nexts, TodoType
<1>5. CASE TimerFires \/ tmHandler
  BY <1>5 DEF TimerFires, tmHandler, TodoType
<1>11. CASE OpenFails
  <2>1. <<>> \in Seq(Todos) /\ "work" \in Threads
    BY DEF Threads
  <2>2. todo' = [todo EXCEPT !["work"] = <<>>]
    BY <1>11 DEF OpenFails
  <2> QED
    BY <2>1, <2>2 DEF TodoType
<1>6. ASSUME NEW p, NEW s \in Seq(Todos), Enters(p, s)
      PROVE  TodoType'
  BY <1>6 DEF Enters, TodoType
<1>7. <<>> \in Seq(Todos) /\ <<<<"clear">>>> \in Seq(Todos)
  BY <1>1
<1>8. CASE Probe \/ DelTimer
  BY <1>6, <1>7, <1>8 DEF Probe, DelTimer
<1>9. CASE RegisterFails \/ AddTimer \/ Remove \/ CancelWork \/ Removed \/ DisplayOff
  BY <1>6, <1>7, <1>9 DEF RegisterFails, AddTimer, Remove, CancelWork, Removed, DisplayOff
<1>10. CASE Register
  <2>1. <<<<"picture">>, <<"clear">>, <<"string", Title>>, <<"string", Wait>>>> \in Seq(Todos)
    BY <1>1
  <2> QED
    BY <1>6, <1>10, <2>1 DEF Register
<1>12. CASE Shutdown
  <2>1. <<<<"clear">>, <<"picture">>, <<"clear">>, <<"string", GoodBye>>>> \in Seq(Todos)
    BY <1>1
  <2> QED
    BY <1>6, <1>12, <2>1 DEF Shutdown
<1> QED
  BY <1>2, <1>3, <1>4, <1>5, <1>8, <1>9, <1>10, <1>11, <1>12 DEF LifeStep

LEMMA LifeFlags ==
  ASSUME FlagType, LifeStep
  PROVE  FlagType'
<1> USE DEF FlagType, Phases, history
<1>1. CASE TimerFires \/ tmHandler \/ getinfo \/ ModTimer \/ OpenFails \/ oled_ioctl
  BY <1>1 DEF TimerFires, tmHandler, getinfo, ModTimer, OpenFails,
     oled_ioctl, life
<1>2. CASE Probe \/ Register \/ RegisterFails \/ AddTimer
  BY <1>2 DEF Probe, Register, RegisterFails, AddTimer, Enters
<1>3. CASE Remove \/ CancelWork \/ DelTimer \/ Removed \/ Shutdown \/ DisplayOff
  BY <1>3 DEF Remove, CancelWork, DelTimer, Removed, Shutdown, DisplayOff, Enters
<1> QED
  BY <1>1, <1>2, <1>3 DEF LifeStep

LEMMA LifeType ==
  ASSUME TypeOK, LifeStep
  PROVE  TypeOK'
<1> USE Types
<1>1. TodoType' /\ FlagType'
  BY LifeTodo, LifeFlags
<1>2. UNCHANGED <<chip, place, history>>
  BY LifeFrame
<1>3. PlaceType' /\ HistoryType'
  BY <1>2 DEF place, history, PlaceType, HistoryType
<1>4. current_X' \in 0 .. 255 /\ current_Y' \in Rows
  BY CursorKept, Zero DEF Probe, cursor, ChipType
<1>5. ChipType'
  BY <1>2, <1>4 DEF chip, ChipType
<1> QED
  BY <1>1, <1>3, <1>5, TypesNext

-----------------------------------------------------------------------------
(* Nothing of the periodic work is left after a removal. *)

LEMMA StepBusy ==
  ASSUME NEW t \in Threads, Step(t)
  PROVE  Busy(t) /\ UNCHANGED life
<1> USE DEF Busy
<1>1. CASE Begin(t) \/ PrintLine(t)
  BY <1>1 DEF Begin, PrintLine, Nexts
<1>2. CASE SendBytes(t) \/ Goto(t) \/ SetCursor(t) \/ SendChar(t) \/ Advance(t)
  BY <1>2 DEF SendBytes, Goto, SetCursor, SendChar, Advance
<1>3. CASE SendData(t) \/ Spoil(t)
  BY <1>3 DEF SendData, Spoil, Blanked, Drawn
<1>4. CASE SendPicture(t) \/ Cleared(t) \/ Printed(t) \/ Garble(t)
  BY <1>4 DEF SendPicture, Cleared, Printed, Garble
<1> QED
  BY <1>1, <1>2, <1>3, <1>4 DEF Step, Call

LEMMA OthersTodo ==
  ASSUME TodoType, NEW t \in Threads, Step(t), NEW u \in Threads, u # t
  PROVE  todo'[u] = todo[u]
<1> USE DEF TodoType
<1>1. CASE Begin(t) \/ PrintLine(t)
  BY <1>1 DEF Begin, PrintLine, Begins
<1>2. CASE SendBytes(t) \/ Goto(t) \/ SetCursor(t) \/ SendChar(t) \/ Advance(t)
  BY <1>2 DEF SendBytes, Goto, SetCursor, SendChar, Advance
<1>3. CASE SendData(t) \/ Spoil(t)
  BY <1>3 DEF SendData, Spoil
<1>4. CASE SendPicture(t) \/ Cleared(t) \/ Printed(t) \/ Garble(t)
  BY <1>4 DEF SendPicture, Cleared, Printed, Garble
<1> QED
  BY <1>1, <1>2, <1>3, <1>4 DEF Step, Call

LEMMA StaysIdle ==
  ASSUME TypeOK, NEW t \in Threads, Step(t), NEW u \in Threads, ~Busy(u)
  PROVE  ~Busy(u)'
<1>1. u # t
  BY StepBusy
<1> QED
  BY <1>1, OthersStay, OthersTodo, Types DEF Busy

\* What each of the other steps does to the calls.
LEMMA WorkSteps ==
  ASSUME TodoType, TimerFires \/ tmHandler \/ getinfo \/ ModTimer \/ OpenFails
  PROVE  /\ phase' = phase
         /\ Busy("drv")' = Busy("drv") /\ Busy("app")' = Busy("app")
         /\ Busy("work")' => getinfo \/ Busy("work")
BY DEF TimerFires, tmHandler, getinfo, ModTimer, OpenFails, Busy, Nexts, TodoType, place

LEMMA Entered ==
  ASSUME TodoType, NEW p, NEW s, Enters(p, s), UNCHANGED place
  PROVE  /\ phase' = p /\ Busy("work")' = Busy("work") /\ Busy("app")' = Busy("app")
         /\ s = <<>> /\ op["drv"] = "none" => ~Busy("drv")'
BY DEF Enters, Busy, TodoType, place

LEMMA LifeKept ==
  ASSUME TypeOK, LifeInv, CallersInv, LifeStep
  PROVE  LifeInv' /\ CallersInv'
<1> USE Types
<1> TodoType /\ FlagType
  OBVIOUS
<1>1. CASE TimerFires
  <2>1. Busy("work")' = Busy("work")
    BY <1>1 DEF TimerFires, Busy, place
  <2> QED
    BY <1>1, <2>1, WorkSteps DEF TimerFires, LifeInv, CallersInv
<1>2. CASE tmHandler
  BY <1>2, WorkSteps DEF tmHandler, LifeInv, CallersInv
<1>3. CASE getinfo
  BY <1>3, WorkSteps DEF getinfo, LifeInv, CallersInv
<1>4. CASE ModTimer
  BY <1>4, WorkSteps DEF ModTimer, Nexts, Busy, LifeInv, CallersInv
<1>5. CASE oled_ioctl
  <2>1. Busy("work")' = Busy("work") /\ Busy("drv")' = Busy("drv")
    BY <1>5 DEF oled_ioctl, Busy, place, TodoType
  <2> QED
    BY <1>5, <2>1 DEF oled_ioctl, life, LifeInv, CallersInv
<1>6. CASE Probe
  BY <1>6, Entered DEF Probe, LifeInv, CallersInv
<1>7. CASE Register
  BY <1>7, Entered DEF Register, LifeInv, CallersInv
<1>8. CASE RegisterFails
  BY <1>8, Entered DEF RegisterFails, Idle, Busy, LifeInv, CallersInv
<1>9. CASE AddTimer
  BY <1>9, Entered DEF AddTimer, Idle, Busy, LifeInv, CallersInv
<1>10. CASE Remove
  BY <1>10, Entered DEF Remove, Busy, LifeInv, CallersInv
<1>11. CASE CancelWork
  BY <1>11, Entered DEF CancelWork, Busy, LifeInv, CallersInv
<1>12. CASE DelTimer
  BY <1>12, Entered DEF DelTimer, LifeInv, CallersInv
<1>13. CASE Removed
  BY <1>13, Entered DEF Removed, Idle, Busy, LifeInv, CallersInv
<1>14. CASE Shutdown
  BY <1>14, Entered DEF Shutdown, LifeInv, CallersInv
<1>15. CASE DisplayOff
  BY <1>15, Entered DEF DisplayOff, Idle, Busy, LifeInv, CallersInv
<1>16. CASE OpenFails
  BY <1>16, WorkSteps DEF OpenFails, Nexts, Busy, LifeInv, CallersInv
<1> QED
  BY <1>1, <1>2, <1>3, <1>4, <1>5, <1>6, <1>7, <1>8, <1>9, <1>10, <1>11, <1>12, <1>13,
     <1>14, <1>15, <1>16 DEF LifeStep

LEMMA StepLife ==
  ASSUME TypeOK, LifeInv, CallersInv, NEW t \in Threads, Step(t)
  PROVE  LifeInv' /\ CallersInv'
<1>1. UNCHANGED life
  BY StepBusy
<1>2. /\ ~Busy("work") => ~Busy("work")'
      /\ ~Busy("drv") => ~Busy("drv")'
      /\ ~Busy("app") => ~Busy("app")'
  BY StaysIdle
<1> QED
  BY <1>1, <1>2 DEF life, LifeInv, CallersInv
-----------------------------------------------------------------------------
(* What an undisturbed thread knows of the chip. *)

LEMMA PlaceFacts ==
  ASSUME PlaceType, NEW t \in Threads
  PROVE  /\ call[t].x \in 0 .. max_X /\ call[t].y \in 0 .. max_Y /\ n[t] \in Nat
         /\ call[t].text \in Seq(Chars) /\ Len(call[t].text) \in Nat
         /\ call[t].name \in {"none", "picture", "clear", "print", "string"}
         /\ target[t].x \in 0 .. max_X /\ target[t].y \in 0 .. max_Y
         /\ op[t] \in Operations /\ target[t].then \in Operations
<1>1. /\ call[t] \in Calls /\ op[t] \in Operations /\ n[t] \in Nat
      /\ target[t] \in [x : Cols, y : Rows, then : Operations]
  BY DEF PlaceType
<1>2. /\ call[t].x \in Cols /\ call[t].y \in Rows /\ call[t].text \in Seq(Chars)
      /\ call[t].name \in {"none", "picture", "clear", "print", "string"}
  BY <1>1 DEF Calls
<1>3. target[t].x \in Cols /\ target[t].y \in Rows /\ target[t].then \in Operations
  BY <1>1
<1>4. Len(call[t].text) \in Nat
  BY <1>2
<1> QED
  BY <1>1, <1>2, <1>3, <1>4 DEF Cols, Rows

LEMMA PlaceNumbers ==
  ASSUME PlaceType, NEW t \in Threads
  PROVE  /\ call[t].x \in Cols /\ call[t].y \in Rows
         /\ call[t].x \in Nat /\ n[t] \in Nat /\ Len(call[t].text) \in Nat
<1>1. \A k \in 0 .. max_X : k \in Nat
  OBVIOUS
<1> QED
  BY <1>1, PlaceFacts DEF Cols, Rows

\* A thread whose place, and whose view of the chip, are what they were.
LEMMA FollowsSame ==
  ASSUME NEW t, Follows(t), UNCHANGED <<screen, window, pos, current_X>>,
         call'[t] = call[t], op'[t] = op[t], target'[t] = target[t], n'[t] = n[t]
  PROVE  Follows(t)'
BY DEF Follows, FollowsGoto, FollowsBlanks, FollowsText, Texted, RowBlanked, AllBlanked,
       Sent, Behind, Index

LEMMA RestFollows ==
  ASSUME NEW t, op'[t] \in {"none", "picture"}, call'[t].name \in {"none", "picture"}
  PROVE  Follows(t)'
BY DEF Follows, FollowsGoto, FollowsBlanks, FollowsText, Texted, RowBlanked, AllBlanked,
       Prints, InGoto

LEMMA AtRest ==
  ASSUME PlaceType, NEW t \in Threads, PlaceOK(t), op[t] = "none"
  PROVE  call[t].name = "none"
BY PlaceFacts DEF PlaceOK, CallOps, InGoto, InText

LEMMA ReturnFollows ==
  ASSUME PlaceType, NEW t \in Threads, Returns(t)
  PROVE  Follows(t)'
<1>1. op'[t] = "none" /\ call'[t] = NoCall
  BY DEF Returns, Becomes, PlaceType
<1> QED
  BY <1>1, RestFollows DEF NoCall

LEMMA OthersFollow ==
  ASSUME TypeOK, ~garbled, NEW t \in Threads, Call(t),
         NEW u \in Threads, u # t, PlaceOK(u),
         ~disturbed[u] => Follows(u)
  PROVE  ~disturbed'[u] => Follows(u)'
<1>1. PlaceType /\ HistoryType
  BY Types
<1>2. call'[u] = call[u] /\ op'[u] = op[u] /\ target'[u] = target[u] /\ n'[u] = n[u]
  BY OthersStay DEF Step
<1>3. CASE Begin(t) \/ PrintLine(t) \/ Cleared(t) \/ Printed(t)
  <2>1. UNCHANGED <<screen, window, pos, current_X>>
    BY <1>3 DEF Begin, PrintLine, Cleared, Printed, chip, cursor
  <2>2. disturbed'[u] = disturbed[u]
    BY <1>1, <1>3 DEF Begin, PrintLine, Begins, Cleared, Printed, HistoryType
  <2> QED
    BY <2>1, <2>2, <1>2, FollowsSame
<1>4. CASE \/ SendBytes(t) \/ Goto(t) \/ SetCursor(t) \/ SendData(t) \/ Spoil(t)
           \/ SendPicture(t) \/ SendChar(t) \/ Advance(t)
  <2>1. Disturb(t)
    BY <1>4 DEF SendBytes, Goto, SetCursor, SendData, Spoil, SendPicture, SendChar, Advance
  <2>2. disturbed'[u] \/ op[u] = "none"
    BY <2>1 DEF Disturb
  <2> QED
    BY <2>2, <1>1, <1>2, AtRest, RestFollows
<1> QED
  BY <1>3, <1>4 DEF Call

LEMMA BehindNat ==
  ASSUME NEW y \in 0 .. max_Y, NEW r \in y .. max_Y, NEW c \in Cols,
         NEW p \in Cols \X Rows, y <= p[2]
  PROVE  /\ Index(y, r, c) \in 0 .. Size(y) - 1
         /\ Index(y, p[2], p[1]) \in 0 .. Size(y) - 1
         /\ Behind(p, y, r, c) \in 0 .. Size(y) - 1
<1>1. \A i \in Nat, j \in Nat, a \in Cols : i <= j =>
        /\ i * (max_X + 1) + a \in 0 .. (j + 1) * (max_X + 1) - 1
  <2> TAKE i \in Nat, j \in Nat, a \in Cols
  <2> HAVE i <= j
  <2>1. \A k \in Nat : k * (max_X + 1) >= 0
    BY Sizes
  <2>2. (j + 1) * (max_X + 1) = i * (max_X + 1) + (j - i) * (max_X + 1) + (max_X + 1)
    BY Sizes
  <2>3. (j - i) * (max_X + 1) >= 0 /\ i * (max_X + 1) >= 0
    BY <2>1
  <2>4. i * (max_X + 1) \in Int /\ (j - i) * (max_X + 1) \in Int /\ (j + 1) * (max_X + 1) \in Int
    BY Sizes
  <2> QED
    BY <2>2, <2>3, <2>4, Sizes DEF Cols
<1>2. Index(y, r, c) \in 0 .. Size(y) - 1
  <2>1. r - y \in Nat /\ max_Y - y \in Nat /\ r - y <= max_Y - y
    BY Sizes
  <2> QED
    BY <1>1, <2>1 DEF Index, Size
<1>3. Index(y, p[2], p[1]) \in 0 .. Size(y) - 1
  <2>1. p[2] - y \in Nat /\ max_Y - y \in Nat /\ p[2] - y <= max_Y - y /\ p[1] \in Cols
    BY Sizes DEF Rows
  <2> QED
    BY <1>1, <2>1 DEF Index, Size
<1>4. Size(y) \in Int
  BY Sizes DEF Size
<1> QED
  BY <1>2, <1>3, <1>4 DEF Behind

LEMMA SizeBound ==
  ASSUME NEW y \in 0 .. max_Y
  PROVE  /\ Size(y) <= (max_X + 1) * (max_Y + 1)
         /\ Size(y) \in Int /\ (max_X + 1) * (max_Y + 1) \in Int
<1>1. (max_X + 1) * (max_Y + 1) = Size(y) + y * (max_X + 1)
  BY Sizes DEF Size
<1>2. y * (max_X + 1) >= 0 /\ y * (max_X + 1) \in Int
  BY Sizes
<1>3. Size(y) \in Int
  BY Sizes DEF Size
<1> QED
  BY <1>1, <1>2, <1>3

LEMMA IndexSame ==
  ASSUME NEW y \in 0 .. max_Y, NEW r \in y .. max_Y, NEW c \in Cols,
         NEW s \in y .. max_Y, NEW d \in Cols, Index(y, r, c) = Index(y, s, d)
  PROVE  r = s /\ c = d
<1>1. \A i \in Nat, j \in Nat, a \in Cols, b \in Cols :
        i < j => i * (max_X + 1) + a < j * (max_X + 1) + b
  <2> TAKE i \in Nat, j \in Nat, a \in Cols, b \in Cols
  <2> HAVE i < j
  <2>1. \A k \in Nat : k * (max_X + 1) >= 0
    BY Sizes
  <2>2. j * (max_X + 1) = i * (max_X + 1) + (j - i - 1) * (max_X + 1) + (max_X + 1)
    BY Sizes
  <2>3. (j - i - 1) * (max_X + 1) >= 0
    BY <2>1
  <2>4. /\ i * (max_X + 1) \in Int /\ (j - i - 1) * (max_X + 1) \in Int
        /\ j * (max_X + 1) \in Int
    BY Sizes
  <2> QED
    BY <2>2, <2>3, <2>4, Sizes DEF Cols
<1> DEFINE i == r - y
           j == s - y
<1>2. i \in Nat /\ j \in Nat
  BY Sizes
<1>6. i * (max_X + 1) + c = j * (max_X + 1) + d
  BY DEF Index
<1>7. i * (max_X + 1) + c \in Int /\ j * (max_X + 1) + d \in Int
  BY Sizes DEF Cols
<1>3. ~(i < j)
  <2> HIDE DEF i, j
  <2>1. i < j => i * (max_X + 1) + c < j * (max_X + 1) + d
    BY <1>1, <1>2
  <2> QED
    BY <2>1, <1>6, <1>7
<1>4. ~(j < i)
  <2> HIDE DEF i, j
  <2>1. j < i => j * (max_X + 1) + d < i * (max_X + 1) + c
    BY <1>1, <1>2
  <2> QED
    BY <2>1, <1>6, <1>7
<1>5. r = s
  BY <1>3, <1>4, Sizes
<1>8. (r - y) * (max_X + 1) \in Int
  BY Sizes
<1> QED
  BY <1>5, <1>6, <1>8 DEF Cols

\* The chip goes through the window cell by cell and begins again.
LEMMA IndexNext ==
  ASSUME NEW y \in 0 .. max_Y, pos \in Cols \X Rows, y <= pos[2], window = <<0, y>>
  PROVE  Index(y, NextPos[2], NextPos[1]) =
           IF Index(y, pos[2], pos[1]) + 1 = Size(y) THEN 0
           ELSE Index(y, pos[2], pos[1]) + 1
<1> DEFINE M == max_X + 1
           i == pos[2] - y
           k == max_Y - y
<1>1. M \in Nat /\ M >= 2 /\ i \in Nat /\ k \in Nat /\ i <= k
  BY Sizes DEF Rows
<1>2. pos[1] \in 0 .. max_X /\ pos[2] \in 0 .. max_Y
  BY DEF Cols, Rows
<1>3. /\ Index(y, pos[2], pos[1]) = i * M + pos[1]
      /\ Size(y) = (k + 1) * M
  BY DEF Index, Size
<1>4. /\ (k + 1) * M = i * M + (k - i) * M + M
      /\ (i + 1) * M = i * M + M
      /\ i * M \in Nat /\ (k - i) * M \in Nat
  <2> HIDE DEF M, i, k
  <2>1. k - i \in Nat
    BY <1>1
  <2> QED
    BY <1>1, <2>1
<1>5. i < k => (k - i) * M >= M
  <2> HIDE DEF M, i, k
  <2>1. ASSUME i < k PROVE (k - i) * M = (k - i - 1) * M + M /\ (k - i - 1) * M \in Nat
    <3>1. k - i - 1 \in Nat
      BY <1>1, <2>1
    <3> QED
      BY <1>1, <3>1
  <2> QED
    BY <2>1, <1>1
<1>6. i = k => (k - i) * M = 0
  BY <1>1
<1>7. CASE pos[1] < max_X
  <2>1. NextPos[1] = pos[1] + 1 /\ NextPos[2] = pos[2]
    BY <1>7 DEF NextPos
  <2>2. Index(y, NextPos[2], NextPos[1]) = i * M + pos[1] + 1
    BY <2>1, <1>2, <1>4 DEF Index
  <2>3. i * M + pos[1] + 1 # (k + 1) * M
    BY <1>2, <1>4, <1>7, Sizes
  <2> QED
    BY <2>2, <2>3, <1>3, <1>2, <1>4
<1>8. CASE pos[1] = max_X /\ pos[2] < max_Y
  <2>1. NextPos[1] = 0 /\ NextPos[2] = pos[2] + 1
    BY <1>8, Sizes DEF NextPos
  <2>2. Index(y, NextPos[2], NextPos[1]) = (i + 1) * M
    <3>1. Index(y, NextPos[2], NextPos[1]) = Index(y, pos[2] + 1, 0)
      BY <2>1
    <3>2. Index(y, pos[2] + 1, 0) = (pos[2] + 1 - y) * (max_X + 1) + 0
      <4> HIDE DEF M, i, k
      <4> QED
        BY <1>2, Sizes DEF Index
    <3>3. pos[2] + 1 - y = i + 1
      BY <1>2
    <3>4. (i + 1) * M \in Int
      BY <1>1
    <3>5. Index(y, pos[2] + 1, 0) = (i + 1) * M + 0
      BY <3>2, <3>3
    <3> HIDE DEF M, i
    <3> QED
      BY <3>1, <3>4, <3>5
  <2>3. i < k
    BY <1>8, <1>2, Sizes
  <2>4. i * M + pos[1] + 1 = i * M + M
    BY <1>8, <1>4, Sizes
  <2> HIDE DEF M, i, k
  <2> QED
    BY <2>2, <2>3, <2>4, <1>1, <1>3, <1>4, <1>5
<1>9. CASE pos[1] = max_X /\ pos[2] = max_Y
  <2>1. NextPos[1] = 0 /\ NextPos[2] = y
    BY <1>9, Sizes DEF NextPos
  <2>2. Index(y, NextPos[2], NextPos[1]) = 0
    BY <2>1, Sizes DEF Index
  <2>3. i = k
    BY <1>9
  <2>4. i * M + pos[1] + 1 = i * M + M
    BY <1>9, <1>4, Sizes
  <2> HIDE DEF M, i, k
  <2> QED
    BY <2>2, <2>3, <2>4, <1>1, <1>3, <1>4, <1>6
<1> QED
  BY <1>2, <1>7, <1>8, <1>9, Sizes

\* Every cell but the one just written is one write older.
LEMMA BehindNext ==
  ASSUME NEW y \in 0 .. max_Y, NEW r \in y .. max_Y, NEW c \in Cols,
         pos \in Cols \X Rows, y <= pos[2], window = <<0, y>>,
         <<c, r>> # pos
  PROVE  Behind(NextPos, y, r, c) = Behind(pos, y, r, c) + 1
<1> DEFINE I == Index(y, pos[2], pos[1])
           J == Index(y, r, c)
           K == Index(y, NextPos[2], NextPos[1])
<1>1. I \in 0 .. Size(y) - 1 /\ J \in 0 .. Size(y) - 1
  BY BehindNat
<1>2. J # I
  <2>1. pos[2] \in y .. max_Y /\ pos[1] \in Cols /\ pos = <<pos[1], pos[2]>>
    BY DEF Rows
  <2> QED
    BY <2>1, IndexSame
<1>3. K = IF I + 1 = Size(y) THEN 0 ELSE I + 1
  BY IndexNext
<1>4. Behind(NextPos, y, r, c) = IF J < K THEN K - J - 1 ELSE K - J - 1 + Size(y)
  BY DEF Behind
<1>5. Behind(pos, y, r, c) = IF J < I THEN I - J - 1 ELSE I - J - 1 + Size(y)
  BY DEF Behind
<1>6. Size(y) \in Int
  BY Sizes DEF Size
<1> HIDE DEF I, J, K
<1> QED
  BY <1>1, <1>2, <1>3, <1>4, <1>5, <1>6

LEMMA CellWritten ==
  ASSUME ChipType, NEW v, screen' = [screen EXCEPT ![pos[2]][pos[1]] = v],
         NEW r \in Rows, NEW c \in Cols
  PROVE  screen'[r][c] = IF r = pos[2] /\ c = pos[1] THEN v ELSE screen[r][c]
BY DEF ChipType

LEMMA BeginFollows ==
  ASSUME TypeOK, PosInWindow, NEW t \in Threads, Begin(t) \/ PrintLine(t),
         ~disturbed[t] => Follows(t)
  PROVE  ~disturbed'[t] => Follows(t)'
<1> USE DEF InGoto, InText
<1>1. PlaceType /\ TodoType /\ ChipType
  BY Types
<1>2. UNCHANGED <<screen, window, pos, current_X>>
  BY DEF Begin, PrintLine, chip, cursor
<1>3. CASE Nexts(t, "picture") /\ Begin(t)
  <2> DEFINE c == [name |-> "picture", x |-> 0, y |-> 0, text |-> <<>>]
  <2>1. Begins(t, c) /\ Becomes(t, "picture") /\ UNCHANGED target
    BY <1>3 DEF Begin, Nexts
  <2>2. call'[t] = c /\ op'[t] = "picture"
    BY <2>1, <1>1 DEF Begins, Becomes, PlaceType
  <2> QED
    BY <2>2, RestFollows
<1>4. CASE Nexts(t, "clear") /\ Begin(t)
  <2> DEFINE c == [name |-> "clear", x |-> window[1], y |-> window[2], text |-> <<>>]
  <2>1. Begins(t, c) /\ Becomes(t, "blank") /\ UNCHANGED target
    BY <1>4 DEF Begin, Nexts
  <2>2. call'[t] = c /\ op'[t] = "blank" /\ n'[t] = 0
    BY <2>1, <1>1 DEF Begins, Becomes, Counts, PlaceType
  <2>3. c.name = "clear" /\ c.x = window[1] /\ c.y = window[2]
    OBVIOUS
  <2> HIDE DEF c
  <2>4. FollowsBlanks(t)'
    <3>1. window = <<window[1], window[2]>>
      BY <1>1 DEF ChipType
    <3> QED
      BY <2>2, <2>3, <1>2, <3>1 DEF FollowsBlanks
  <2>5. AllBlanked(t)'
    <3>1. window[2] \in 0 .. max_Y /\ pos \in Cols \X Rows /\ window[2] <= pos[2]
      BY <1>1 DEF ChipType, PosInWindow, Rows
    <3>2. ASSUME NEW r \in window[2] .. max_Y, NEW d \in Cols
          PROVE  ~(Behind(pos, window[2], r, d) < 0)
      <4>1. Behind(pos, window[2], r, d) \in 0 .. Size(window[2]) - 1
        BY <3>1, BehindNat
      <4> QED
        BY <4>1
    <3> QED
      BY <2>2, <2>3, <1>2, <3>2 DEF AllBlanked
  <2>6. FollowsGoto(t)' /\ FollowsText(t)' /\ Texted(t)' /\ RowBlanked(t)'
    BY <2>2, <2>3 DEF FollowsGoto, FollowsText, Texted, RowBlanked, Prints
  <2> QED
    BY <2>4, <2>5, <2>6 DEF Follows
<1>5. ASSUME NEW c, NEW x \in Int, NEW y, NEW o \in {"blank", "char"},
             Begins(t, c), ssd1306_goto_xy(t, x, y, o),
             Prints(c), c.x = x, c.y = y, o = "blank" => x = 0,
             c.name = "print" /\ c.y # WALL_TIME => o = "blank"
      PROVE  Follows(t)'
  <2>1. /\ call'[t] = c /\ op'[t] = "bytes" /\ n'[t] = 0
        /\ target'[t] = [x |-> x, y |-> y, then |-> o]
    BY <1>1, <1>5 DEF Begins, Becomes, Counts, ssd1306_goto_xy, PlaceType
  <2>2. target'[t].x = x /\ target'[t].y = y /\ target'[t].then = o
    BY <2>1
  <2>3. Sent(t)' = 0
    BY <2>1 DEF Sent
  <2>4. FollowsGoto(t)' /\ FollowsBlanks(t)' /\ FollowsText(t)' /\ AllBlanked(t)'
    BY <2>1, <2>2, <1>5 DEF FollowsGoto, FollowsBlanks, FollowsText, AllBlanked, Prints
  <2>5. Texted(t)'
    <3>1. ~(\E d \in x .. x + 0 - 1 : TRUE)
      OBVIOUS
    <3> QED
      BY <2>1, <2>3, <1>5, <3>1 DEF Texted
  <2>6. RowBlanked(t)'
    BY <2>1, <2>2, <1>5 DEF RowBlanked
  <2> QED
    BY <2>4, <2>5, <2>6 DEF Follows
<1>6. CASE Nexts(t, "string") /\ Begin(t)
  <2> DEFINE o == Head(todo[t])[2]
             c == [name |-> "string", x |-> o.x, y |-> o.y, text |-> o.text]
  <2>1. todo[t] # <<>> /\ o \in Strings
    BY <1>1, <1>6, HeadTail, TodoKinds DEF Nexts
  <2>2. o.x \in Int
    BY <2>1, DisplayAssumption DEF Cols
  <2>3. Begins(t, c) /\ ssd1306_goto_xy(t, o.x, o.y, "char")
    BY <1>6 DEF Begin, Nexts
  <2> HIDE DEF o
  <2>4. c.name = "string" /\ c.x = o.x /\ c.y = o.y
    OBVIOUS
  <2> HIDE DEF c
  <2> QED
    BY <1>5, <2>2, <2>3, <2>4 DEF Prints
<1>7. CASE PrintLine(t)
  <2> DEFINE l == Head(todo[t])[2]
  <2>1. CASE UNCHANGED <<place, disturbed>>
    BY <2>1, <1>2, FollowsSame DEF place
  <2>2. ASSUME NEW s,
               Begins(t, [name |-> "print", x |-> 0, y |-> l, text |-> s]),
               ssd1306_goto_xy(t, 0, l, Line(l))
        PROVE  Follows(t)'
    <3> DEFINE c == [name |-> "print", x |-> 0, y |-> l, text |-> s]
    <3> HIDE DEF l
    <3>1. c.name = "print" /\ c.x = 0 /\ c.y = l
      OBVIOUS
    <3>2. Line(l) \in {"blank", "char"} /\ (l # WALL_TIME => Line(l) = "blank")
      BY DEF Line
    <3>3. Begins(t, c)
      BY <2>2
    <3> HIDE DEF c
    <3> QED
      BY <1>5, <2>2, <3>1, <3>2, <3>3 DEF Prints
  <2> QED
    BY <1>7, <2>1, <2>2 DEF PrintLine
<1> QED
  BY <1>3, <1>4, <1>6, <1>7 DEF Begin

\* The operations that write nothing.
LEMMA MoveFollows ==
  ASSUME TypeOK, NEW t \in Threads, PlaceOK(t), ~disturbed[t], Follows(t),
         SendBytes(t) \/ Goto(t) \/ SetCursor(t) \/ SendChar(t) \/ Advance(t)
  PROVE  Follows(t)'
<1> USE DEF InGoto, InText, Becomes
<1>1. PlaceType /\ ChipType
  BY Types
<1>2. call'[t] = call[t] /\ screen' = screen
  BY DEF SendBytes, Goto, SetCursor, SendChar, Advance, chip
<1>3. /\ FollowsGoto(t) /\ FollowsBlanks(t) /\ FollowsText(t)
      /\ Texted(t) /\ RowBlanked(t) /\ AllBlanked(t)
  BY DEF Follows
<1>4. CASE SendBytes(t)
  <2>1. op[t] = "bytes" /\ op'[t] = "goto" /\ target'[t] = target[t] /\ n'[t] = n[t]
    BY <1>1, <1>4 DEF SendBytes, PlaceType
  <2>2. Sent(t) = 0 /\ Sent(t)' = 0
    BY <2>1 DEF Sent
  <2>3. FollowsGoto(t)' /\ FollowsBlanks(t)' /\ FollowsText(t)' /\ AllBlanked(t)'
    BY <1>2, <1>3, <2>1 DEF FollowsGoto, FollowsBlanks, FollowsText, AllBlanked
  <2>4. Texted(t)' /\ RowBlanked(t)'
    BY <1>2, <1>3, <2>1, <2>2 DEF Texted, RowBlanked
  <2> QED
    BY <2>3, <2>4 DEF Follows
<1>5. CASE Goto(t)
  <2>1. /\ op[t] = "goto" /\ op'[t] = "cursor" /\ target'[t] = target[t] /\ n'[t] = n[t]
        /\ pos' = <<target[t].x, target[t].y>>
    BY <1>1, <1>5 DEF Goto, PlaceType
  <2>2. Sent(t) = 0 /\ Sent(t)' = 0
    BY <2>1 DEF Sent
  <2>3. FollowsGoto(t)' /\ FollowsBlanks(t)' /\ FollowsText(t)' /\ AllBlanked(t)'
    BY <1>2, <1>3, <2>1 DEF FollowsGoto, FollowsBlanks, FollowsText, AllBlanked
  <2>4. Texted(t)' /\ RowBlanked(t)'
    BY <1>2, <1>3, <2>1, <2>2 DEF Texted, RowBlanked
  <2> QED
    BY <2>3, <2>4 DEF Follows
<1>6. CASE SetCursor(t)
  <2>1. /\ op[t] = "cursor" /\ op'[t] = target[t].then /\ target'[t] = target[t]
        /\ n'[t] = n[t] /\ pos' = pos /\ current_X' = target[t].x
    BY <1>1, <1>6 DEF SetCursor, PlaceType, chip
  <2>2. /\ target[t].then \in {"blank", "char", "cleared"}
        /\ pos = <<target[t].x, target[t].y>>
    BY <1>3, <2>1 DEF PlaceOK, FollowsGoto
  <2>3. target[t].then \in CallOps(call[t])
    BY <2>1 DEF PlaceOK
  <2>4. target[t].then \in {"blank", "char"} => n[t] = 0
    BY <2>1 DEF PlaceOK
  <2>5. Sent(t) = 0 /\ Sent(t)' = 0
    BY <2>1, <2>2, <2>4 DEF Sent
  <2>6. FollowsGoto(t)'
    BY <2>1, <2>2 DEF FollowsGoto
  <2>7. FollowsBlanks(t)'
    <3>1. ASSUME target[t].then = "blank"
          PROVE  call[t].name = "print" /\ pos = <<n[t], call[t].y>>
      <4>1. call[t].name # "clear"
        BY <2>1, <3>1 DEF PlaceOK
      <4>2. call[t].name = "print"
        BY <4>1, <3>1, <2>3, <1>1, PlaceFacts DEF CallOps
      <4> QED
        BY <4>2, <3>1, <2>1, <2>2, <2>4, <1>3 DEF FollowsGoto
    <3> QED
      BY <2>1, <1>2, <3>1 DEF FollowsBlanks
  <2>8. FollowsText(t)'
    <3>1. ASSUME target[t].then = "char"
          PROVE  target[t].x = call[t].x /\ target[t].y = call[t].y /\ n[t] = 0
      BY <3>1, <2>1, <2>4, <1>3 DEF FollowsGoto
    <3>2. call[t].x \in Int
      BY <1>1, PlaceFacts
    <3>3. call[t].x + 0 = call[t].x
      BY <3>2
    <3> QED
      BY <1>2, <2>1, <2>2, <2>5, <3>1, <3>3 DEF FollowsText
  <2>9. Texted(t)'
    BY <1>2, <1>3, <2>5 DEF Texted
  <2>10. RowBlanked(t)'
    <3>1. target[t].then = "blank" => ~(\E c : c \in 0 .. n[t] - 1)
      BY <2>4
    <3> QED
      BY <1>2, <1>3, <2>1, <2>2, <2>5, <3>1 DEF RowBlanked
  <2>11. AllBlanked(t)'
    <3>1. call[t].name = "clear" => target[t].then = "cleared"
      BY <2>1 DEF PlaceOK
    <3> QED
      BY <1>2, <1>3, <2>1, <3>1 DEF AllBlanked
  <2> QED
    BY <2>6, <2>7, <2>8, <2>9, <2>10, <2>11 DEF Follows
<1>7. CASE SendChar(t)
  <2>1. op[t] = "char"
    BY <1>7 DEF SendChar
  <2>2. Prints(call[t]) /\ n[t] < Len(call[t].text)
    BY <2>1, <1>1, PlaceFacts DEF PlaceOK, CallOps, Prints
  <2>3. current_X = call[t].x + n[t] /\ current_X # max_X
    <3>1. call[t].x + Len(call[t].text) <= max_X
      BY <2>2 DEF PlaceOK, Fits
    <3>2. current_X = call[t].x + n[t]
      BY <2>1, <1>3 DEF FollowsText
    <3>3. call[t].x \in Nat /\ n[t] \in Nat /\ Len(call[t].text) \in Nat
      BY <1>1, PlaceNumbers
    <3> QED
      BY <2>1, <2>2, <3>1, <3>2, <3>3, Sizes
  <2>4. /\ op'[t] = "data" /\ n'[t] = n[t] /\ pos' = pos /\ current_X' = current_X
        /\ target' = target
    BY <1>7, <2>3, <1>1 DEF SendChar, PlaceType, chip
  <2>5. Sent(t)' = Sent(t)
    BY <2>1, <2>4 DEF Sent
  <2>6. FollowsGoto(t)' /\ FollowsBlanks(t)' /\ AllBlanked(t)'
    BY <1>2, <1>3, <2>1, <2>2, <2>4 DEF FollowsGoto, FollowsBlanks, AllBlanked, Prints
  <2>7. FollowsText(t)' /\ Texted(t)'
    BY <1>2, <1>3, <2>1, <2>4, <2>5 DEF FollowsText, Texted
  <2>8. RowBlanked(t)'
    BY <1>2, <1>3, <2>1, <2>4, <2>5 DEF RowBlanked
  <2> QED
    BY <2>6, <2>7, <2>8 DEF Follows
<1>8. CASE Advance(t)
  <2>1. op[t] = "advance" /\ n'[t] = n[t] + 1
    BY <1>8, <1>1 DEF Advance, Counts, PlaceType
  <2>2. Prints(call[t]) /\ n[t] < Len(call[t].text)
    BY <2>1, <1>1, PlaceFacts DEF PlaceOK, CallOps, Prints
  <2>3. /\ current_X = call[t].x + n[t] /\ current_X + 1 \in 0 .. 255
        /\ call[t].x + n'[t] = current_X + 1
    <3>1. call[t].x + Len(call[t].text) <= max_X
      BY <2>2 DEF PlaceOK, Fits
    <3>2. current_X = call[t].x + n[t]
      BY <2>1, <1>3 DEF FollowsText
    <3>3. call[t].x \in Nat /\ n[t] \in Nat /\ Len(call[t].text) \in Nat
      BY <1>1, PlaceNumbers
    <3>4. current_X + 1 \in 0 .. 255
      <4>1. \A x \in Nat, k \in Nat, l \in Nat :
              k < l /\ x + l <= max_X => (x + k) + 1 \in 0 .. 255
        BY Sizes
      <4>2. (call[t].x + n[t]) + 1 \in 0 .. 255
        BY <2>2, <3>1, <3>3, <4>1
      <4> QED
        BY <3>2, <4>2
    <3>5. call[t].x + n'[t] = current_X + 1
      BY <2>1, <3>2, <3>3
    <3> QED
      BY <3>2, <3>4, <3>5
  <2>4. current_X' = call[t].x + n'[t]
    <3>1. \A j \in 0 .. 255 : j % 256 = j
      OBVIOUS
    <3>2. current_X' = (current_X + 1) % 256
      BY <1>8 DEF Advance
    <3> QED
      BY <3>1, <3>2, <2>3
  <2>5. op'[t] \in {"char", "printed"} /\ pos' = pos
    BY <1>8, <1>1 DEF Advance, PlaceType, chip
  <2>6. Sent(t)' = Sent(t) /\ Sent(t)' = n'[t]
    BY <2>1, <2>5 DEF Sent
  <2>7. FollowsGoto(t)' /\ FollowsBlanks(t)' /\ AllBlanked(t)'
    BY <1>2, <1>3, <2>1, <2>2, <2>5 DEF FollowsGoto, FollowsBlanks, AllBlanked, Prints
  <2>8. FollowsText(t)'
    BY <1>2, <1>3, <2>1, <2>4, <2>5, <2>6 DEF FollowsText
  <2>9. Texted(t)' /\ RowBlanked(t)'
    BY <1>2, <1>3, <2>1, <2>5, <2>6 DEF Texted, RowBlanked
  <2> QED
    BY <2>7, <2>8, <2>9 DEF Follows
<1> QED
  BY <1>4, <1>5, <1>6, <1>7, <1>8

\* Where an undisturbed thread writes.
LEMMA DataAt ==
  ASSUME TypeOK, NEW t \in Threads, PlaceOK(t), Follows(t), op[t] = "data"
  PROVE  /\ pos = <<call[t].x + n[t], call[t].y>>
         /\ call[t].x + n[t] \in 0 .. max_X - 1
         /\ NextPos = <<call[t].x + n[t] + 1, call[t].y>>
         /\ Prints(call[t]) /\ n[t] + 1 \in 1 .. Len(call[t].text)
<1> USE Types
<1>1. Sent(t) = n[t]
  BY DEF Sent
<1>2. pos = <<call[t].x + n[t], call[t].y>>
  BY <1>1 DEF Follows, FollowsText
<1>3. Prints(call[t]) /\ n[t] < Len(call[t].text)
  BY PlaceFacts DEF PlaceOK, CallOps, Prints, InGoto
<1>4. call[t].x + Len(call[t].text) <= max_X
  BY <1>3 DEF PlaceOK, Fits
<1>5. call[t].x \in Nat /\ n[t] \in Nat /\ Len(call[t].text) \in Nat
  BY PlaceNumbers
<1>6. call[t].x + n[t] \in 0 .. max_X - 1 /\ n[t] + 1 \in 1 .. Len(call[t].text)
  <2>1. \A x \in Nat, k \in Nat, l \in Nat :
          k < l /\ x + l <= max_X => x + k \in 0 .. max_X - 1 /\ k + 1 \in 1 .. l
    BY Sizes
  <2> QED
    BY <2>1, <1>3, <1>4, <1>5
<1>7. NextPos = <<call[t].x + n[t] + 1, call[t].y>>
  <2>1. pos[1] = call[t].x + n[t] /\ pos[2] = call[t].y /\ call[t].x + n[t] < max_X
    BY <1>2, <1>6, Sizes
  <2> QED
    BY <2>1 DEF NextPos
<1> QED
  BY <1>2, <1>3, <1>6, <1>7

LEMMA BlankAt ==
  ASSUME TypeOK, NEW t \in Threads, PlaceOK(t), Follows(t), op[t] = "blank",
         call[t].name # "clear"
  PROVE  /\ call[t].name = "print" /\ call[t].y # WALL_TIME
         /\ pos = <<n[t], call[t].y>> /\ n[t] \in 0 .. max_X - 1
         /\ NextPos = <<n[t] + 1, call[t].y>>
<1> USE Types
<1>1. call[t].name = "print" /\ call[t].y # WALL_TIME
  BY PlaceFacts DEF PlaceOK, CallOps, InGoto, InText
<1>2. pos = <<n[t], call[t].y>>
  BY DEF Follows, FollowsBlanks
<1>3. n[t] < max_X /\ n[t] \in Nat
  BY PlaceFacts DEF PlaceOK, Blanks
<1>4. pos[1] = n[t] /\ pos[2] = call[t].y
  BY <1>2
<1> QED
  BY <1>1, <1>2, <1>3, <1>4, Sizes DEF NextPos

LEMMA ClearAt ==
  ASSUME TypeOK, PosInWindow, NEW t \in Threads, PlaceOK(t), Follows(t), op[t] = "blank",
         call[t].name = "clear"
  PROVE  window = <<call[t].x, call[t].y>> /\ pos[2] \in call[t].y .. max_Y
<1>1. window = <<call[t].x, call[t].y>>
  BY DEF Follows, FollowsBlanks
<1>2. call[t].y <= pos[2]
  BY <1>1 DEF PosInWindow
<1> QED
  BY <1>1, <1>2, Types, PlaceFacts, Sizes DEF ChipType, Rows

LEMMA DataFollows ==
  ASSUME TypeOK, PosInWindow, NEW t \in Threads, PlaceOK(t), ~disturbed[t], Follows(t),
         SendData(t)
  PROVE  Follows(t)'
<1> USE DEF InGoto, InText
<1>1. PlaceType /\ ChipType
  BY Types
<1>2. call'[t] = call[t] /\ pos' = NextPos /\ window' = window /\ current_X' = current_X
  BY DEF SendData, cursor
<1>3. /\ FollowsGoto(t) /\ FollowsBlanks(t) /\ FollowsText(t)
      /\ Texted(t) /\ RowBlanked(t) /\ AllBlanked(t)
  BY DEF Follows
<1> DEFINE v == IF op[t] = "blank" THEN Blank ELSE call[t].text[n[t] + 1]
<1>4. \A r \in Rows : \A c \in Cols :
        screen'[r][c] = IF r = pos[2] /\ c = pos[1] THEN v ELSE screen[r][c]
  <2>1. screen' = [screen EXCEPT ![pos[2]][pos[1]] = v]
    BY DEF SendData
  <2> HIDE DEF v
  <2> QED
    BY <2>1, <1>1 DEF ChipType
<1>5. call[t].y \in Rows /\ call[t].x \in Cols /\ n[t] \in Nat
  BY <1>1, PlaceNumbers
<1>6. CASE op[t] = "data"
  <2>1. op'[t] = "advance" /\ target'[t] = target[t] /\ n'[t] = n[t]
    BY <1>6, <1>1 DEF SendData, Drawn, Blanked, Becomes, PlaceType
  <2>2. /\ pos = <<call[t].x + n[t], call[t].y>>
        /\ call[t].x + n[t] \in 0 .. max_X - 1
        /\ NextPos = <<call[t].x + n[t] + 1, call[t].y>>
        /\ Prints(call[t]) /\ n[t] + 1 \in 1 .. Len(call[t].text)
    BY <1>6, DataAt
  <2>3. Sent(t) = n[t] /\ Sent(t)' = n[t] + 1
    BY <1>6, <2>1 DEF Sent
  <2>4. \A c \in Cols : screen'[call[t].y][c] =
          IF c = call[t].x + n[t] THEN call[t].text[n[t] + 1] ELSE screen[call[t].y][c]
    BY <1>4, <1>5, <1>6, <2>2
  <2>5. FollowsGoto(t)' /\ FollowsBlanks(t)' /\ AllBlanked(t)'
    BY <1>2, <2>1, <2>2 DEF FollowsGoto, FollowsBlanks, AllBlanked, Prints
  <2>6. FollowsText(t)'
    <3>1. current_X = call[t].x + n[t]
      BY <1>3, <1>6 DEF FollowsText
    <3>2. call[t].x + (n[t] + 1) = call[t].x + n[t] + 1
      BY <1>5 DEF Cols
    <3> QED
      BY <1>2, <2>1, <2>2, <2>3, <3>1, <3>2 DEF FollowsText
  <2>7. Texted(t)'
    <3> SUFFICES ASSUME NEW c \in call[t].x .. call[t].x + (n[t] + 1) - 1
                 PROVE  screen'[call[t].y][c] = call[t].text[c - call[t].x + 1]
      BY <1>2, <2>3 DEF Texted
    <3>1. c \in Cols /\ c <= call[t].x + n[t]
      <4>1. \A x \in Nat, k \in Nat : x + k \in 0 .. max_X - 1 =>
              \A d \in x .. x + (k + 1) - 1 : d \in 0 .. max_X /\ d <= x + k
        BY Sizes
      <4>2. call[t].x \in Nat
        BY <1>5 DEF Cols
      <4> QED
        BY <1>5, <2>2, <4>1, <4>2 DEF Cols
    <3>2. CASE c = call[t].x + n[t]
      <4>1. c - call[t].x + 1 = n[t] + 1
        BY <3>2, <1>5 DEF Cols
      <4> QED
        BY <2>4, <3>1, <3>2, <4>1
    <3>3. CASE c # call[t].x + n[t]
      <4>1. c \in call[t].x .. call[t].x + n[t] - 1
        BY <3>1, <3>3, <1>5 DEF Cols
      <4>2. screen[call[t].y][c] = call[t].text[c - call[t].x + 1]
        BY <1>3, <2>2, <2>3, <4>1 DEF Texted
      <4> QED
        BY <2>4, <3>1, <3>3, <4>2
    <3> QED
      BY <3>2, <3>3
  <2>8. RowBlanked(t)'
    <3> SUFFICES ASSUME call[t].name = "print", call[t].y # WALL_TIME,
                        NEW c \in (n[t] + 1) .. max_X - 1
                 PROVE  screen'[call[t].y][c] = Blank
      BY <1>2, <2>1, <2>3 DEF RowBlanked
    <3>1. call[t].x = 0
      BY DEF PlaceOK, Fits
    <3>2. c \in Cols /\ c # call[t].x + n[t] /\ c \in n[t] .. max_X - 1
      BY <3>1, <1>5, Sizes DEF Cols
    <3>3. screen[call[t].y][c] = Blank
      BY <1>3, <1>6, <2>3, <3>2 DEF RowBlanked
    <3> QED
      BY <2>4, <3>2, <3>3
  <2> QED
    BY <2>5, <2>6, <2>7, <2>8 DEF Follows
<1>7. CASE op[t] = "blank" /\ call[t].name # "clear"
  <2>1. /\ call[t].name = "print" /\ call[t].y # WALL_TIME
        /\ pos = <<n[t], call[t].y>> /\ n[t] \in 0 .. max_X - 1
        /\ NextPos = <<n[t] + 1, call[t].y>>
    BY <1>7, BlankAt
  <2>2. \A c \in Cols :
          screen'[call[t].y][c] = IF c = n[t] THEN Blank ELSE screen[call[t].y][c]
    BY <1>4, <1>5, <1>7, <2>1
  <2>3. \A c \in 0 .. n[t] : screen'[call[t].y][c] = Blank
    <3> TAKE c \in 0 .. n[t]
    <3>1. c \in Cols /\ (c = n[t] \/ c \in 0 .. n[t] - 1)
      BY <2>1, Sizes DEF Cols
    <3>2. c \in 0 .. n[t] - 1 => screen[call[t].y][c] = Blank
      BY <1>3, <1>7, <2>1 DEF RowBlanked
    <3> QED
      BY <2>2, <3>1, <3>2
  <2>4. CASE n[t] + 1 < Blanks(call[t]) /\ Counts(t, n[t] + 1) /\ UNCHANGED <<op, target>>
    <3>1. n'[t] = n[t] + 1 /\ op'[t] = "blank"
      BY <2>4, <1>1, <1>7 DEF Counts, PlaceType
    <3>2. Sent(t)' = 0
      BY <3>1 DEF Sent
    <3>3. FollowsGoto(t)' /\ FollowsBlanks(t)' /\ FollowsText(t)' /\ AllBlanked(t)'
      BY <1>2, <2>1, <3>1 DEF FollowsGoto, FollowsBlanks, FollowsText, AllBlanked
    <3>4. Texted(t)'
      <4>1. ~(\E d \in call[t].x .. call[t].x + 0 - 1 : TRUE)
        BY <1>5 DEF Cols
      <4> QED
        BY <1>2, <3>2, <4>1 DEF Texted
    <3>5. RowBlanked(t)'
      <4>1. \A c \in 0 .. (n[t] + 1) - 1 : c \in 0 .. n[t]
        BY <1>5
      <4> QED
        BY <1>2, <2>3, <3>1, <4>1 DEF RowBlanked
    <3> QED
      BY <3>3, <3>4, <3>5 DEF Follows
  <2>5. CASE /\ n[t] + 1 = Blanks(call[t]) /\ Counts(t, 0)
             /\ ssd1306_goto_xy(t, call[t].x, call[t].y, "char")
    <3>1. /\ n'[t] = 0 /\ op'[t] = "bytes"
          /\ target'[t] = [x |-> call[t].x, y |-> call[t].y, then |-> "char"]
      BY <2>5, <1>1 DEF Counts, ssd1306_goto_xy, Becomes, PlaceType
    <3>2. target'[t].x = call[t].x /\ target'[t].y = call[t].y /\ target'[t].then = "char"
      BY <3>1
    <3>3. Sent(t)' = 0
      BY <3>1 DEF Sent
    <3>4. FollowsGoto(t)' /\ FollowsBlanks(t)' /\ FollowsText(t)' /\ AllBlanked(t)'
      BY <1>2, <2>1, <3>1, <3>2 DEF FollowsGoto, FollowsBlanks, FollowsText, AllBlanked
    <3>5. Texted(t)'
      <4>1. ~(\E d \in call[t].x .. call[t].x + 0 - 1 : TRUE)
        BY <1>5 DEF Cols
      <4> QED
        BY <1>2, <3>3, <4>1 DEF Texted
    <3>6. RowBlanked(t)'
      <4>1. n[t] = max_X - 1
        BY <2>1, <2>5, Sizes DEF Blanks
      <4> QED
        BY <1>2, <2>3, <3>1, <3>3, <4>1 DEF RowBlanked
    <3> QED
      BY <3>4, <3>5, <3>6 DEF Follows
  <2> QED
    BY <1>7, <2>4, <2>5 DEF SendData, Drawn, Blanked
<1>8. CASE op[t] = "blank" /\ call[t].name = "clear"
  <2>1. window = <<call[t].x, call[t].y>> /\ pos[2] \in call[t].y .. max_Y
    BY <1>8, ClearAt
  <2>2. ASSUME call[t].x = 0, NEW r \in call[t].y .. max_Y, NEW c \in Cols,
               Behind(NextPos, call[t].y, r, c) < n[t] + 1
        PROVE  screen'[r][c] = Blank
    <3>1. r \in Rows /\ call[t].y \in 0 .. max_Y /\ call[t].y <= pos[2]
      BY <1>5, <2>1, Sizes DEF Rows
    <3>2. CASE r = pos[2] /\ c = pos[1]
      BY <1>4, <1>8, <3>1, <3>2
    <3>3. CASE ~(r = pos[2] /\ c = pos[1])
      <4>1. <<c, r>> # pos
        BY <3>3
      <4>2. pos \in Cols \X Rows /\ window = <<0, call[t].y>>
        BY <1>1, <2>1, <2>2 DEF ChipType
      <4>3. /\ Behind(NextPos, call[t].y, r, c) = Behind(pos, call[t].y, r, c) + 1
            /\ Behind(pos, call[t].y, r, c) \in 0 .. Size(call[t].y) - 1
        BY <3>1, <4>1, <4>2, BehindNext, BehindNat
      <4>4. Behind(pos, call[t].y, r, c) < n[t]
        BY <2>2, <4>3, <1>5
      <4>5. screen[r][c] = Blank
        BY <1>3, <1>8, <2>2, <4>4 DEF AllBlanked
      <4> QED
        BY <1>4, <3>1, <3>3, <4>5
    <3> QED
      BY <3>2, <3>3
  <2>3. CASE n[t] + 1 < Blanks(call[t]) /\ Counts(t, n[t] + 1) /\ UNCHANGED <<op, target>>
    <3>1. n'[t] = n[t] + 1 /\ op'[t] = "blank"
      BY <2>3, <1>1, <1>8 DEF Counts, PlaceType
    <3>2. FollowsGoto(t)' /\ FollowsBlanks(t)' /\ FollowsText(t)' /\ Texted(t)' /\ RowBlanked(t)'
      BY <1>2, <1>8, <2>1, <3>1
      DEF FollowsGoto, FollowsBlanks, FollowsText, Texted, RowBlanked, Prints
    <3>3. AllBlanked(t)'
      BY <1>2, <2>2, <3>1 DEF AllBlanked
    <3> QED
      BY <3>2, <3>3 DEF Follows
  <2>4. CASE /\ n[t] + 1 = Blanks(call[t]) /\ Counts(t, 0)
             /\ ssd1306_goto_xy(t, 0, 0, "cleared")
    <3>1. /\ op'[t] = "bytes" /\ target'[t] = [x |-> 0, y |-> 0, then |-> "cleared"]
      BY <2>4, <1>1 DEF ssd1306_goto_xy, Becomes, PlaceType
    <3>2. target'[t].then = "cleared"
      BY <3>1
    <3>3. /\ FollowsGoto(t)' /\ FollowsBlanks(t)' /\ FollowsText(t)'
          /\ Texted(t)' /\ RowBlanked(t)'
      BY <1>2, <1>8, <3>1, <3>2
      DEF FollowsGoto, FollowsBlanks, FollowsText, Texted, RowBlanked, Prints
    <3>4. AllBlanked(t)'
      <4> SUFFICES ASSUME call[t].x = 0, NEW r \in call[t].y .. max_Y, NEW c \in Cols
                   PROVE  screen'[r][c] = Blank
        BY <1>2 DEF AllBlanked
      <4>1. NextPos \in Cols \X Rows /\ call[t].y \in 0 .. max_Y
        BY <1>1, <1>5, NextPosType DEF Rows
      <4>2. call[t].y <= NextPos[2]
        BY <2>1, <4>1, Sizes DEF NextPos
      <4>3. Behind(NextPos, call[t].y, r, c) \in 0 .. Size(call[t].y) - 1
        BY <4>1, <4>2, BehindNat
      <4>4. Size(call[t].y) <= Blanks(call[t])
        BY <1>8, <4>1, SizeBound DEF Blanks
      <4>5. Size(call[t].y) \in Int /\ Blanks(call[t]) \in Int
        BY <1>8, <4>1, SizeBound DEF Blanks
      <4>6. Behind(NextPos, call[t].y, r, c) < n[t] + 1
        BY <2>4, <4>3, <4>4, <4>5
      <4> QED
        BY <2>2, <4>6
    <3> QED
      BY <3>3, <3>4 DEF Follows
  <2> QED
    BY <1>8, <2>3, <2>4 DEF SendData, Drawn, Blanked
<1> QED
  BY <1>6, <1>7, <1>8 DEF SendData, Blanked, Drawn
-----------------------------------------------------------------------------
(* What the rows hold. *)

LEMMA PosKept ==
  ASSUME TypeOK, PosInWindow, NEW t \in Threads, Call(t)
  PROVE  PosInWindow'
<1>1. ChipType /\ PlaceType
  BY Types
<1>2. CASE Goto(t)
  <2>1. target[t].x \in Cols /\ target[t].y \in Rows
    BY <1>1 DEF PlaceType
  <2> QED
    BY <1>2, <2>1 DEF Goto, PosInWindow, Cols, Rows
<1>3. CASE SendData(t)
  <2>1. pos' = NextPos /\ window' = window
    BY <1>3 DEF SendData
  <2>2. pos[1] \in Int /\ pos[2] \in Int /\ window[1] \in Int /\ window[2] \in Int
    BY <1>1 DEF ChipType, Cols, Rows
  <2>3. window[1] <= NextPos[1] /\ window[2] <= NextPos[2]
    BY <2>2 DEF PosInWindow, NextPos
  <2> QED
    BY <2>1, <2>3 DEF PosInWindow
<1>4. CASE Spoil(t)
  <2>1. pos' = window /\ window' = window
    BY <1>4 DEF Spoil
  <2>2. window[1] \in Int /\ window[2] \in Int
    BY <1>1 DEF ChipType, Cols, Rows
  <2> QED
    BY <2>1, <2>2 DEF PosInWindow
<1>5. CASE SendPicture(t) \/ SendBytes(t)
  BY <1>5 DEF SendPicture, SendBytes, PosInWindow
<1>6. CASE \/ Begin(t) \/ PrintLine(t) \/ SetCursor(t) \/ SendChar(t) \/ Advance(t)
           \/ Cleared(t) \/ Printed(t)
  BY <1>6
  DEF Begin, PrintLine, SetCursor, SendChar, Advance, Cleared, Printed, chip, PosInWindow
<1> QED
  BY <1>2, <1>3, <1>4, <1>5, <1>6 DEF Call

LEMMA OverlaidAt ==
  ASSUME NEW c, NEW k, NEW row, NEW col \in Cols
  PROVE  Overlaid(c, k, row)[col] =
           IF col \in c.x .. c.x + k - 1 THEN c.text[col - c.x + 1] ELSE row[col]
BY DEF Overlaid

LEMMA InRow == \A col \in 0 .. max_X - 1 : col \in Cols
BY Sizes DEF Cols

LEMMA RowsAre ==
  ASSUME PlaceType, NEW t \in Threads, NEW r
  PROVE  /\ r \in RowsOf(call[t]) <=>
              \/ call[t].name = "clear" /\ r \in call[t].y .. max_Y
              \/ Prints(call[t]) /\ r = call[t].y
         /\ r \in RowsOf(call[t]) /\ ~Fresh(call[t]) => Prints(call[t])
BY PlaceFacts DEF RowsOf, Prints, Fresh

\* The rows that are none of thread t's.
LEMMA RowKept ==
  ASSUME NEW t \in Threads, NEW r \in Rows, RowOK(r), r \notin RowsOf(call[t]),
         shown'[r] = shown[r],
         \A col \in 0 .. max_X - 1 : screen'[r][col] = screen[r][col],
         \A u \in Threads : u # t =>
           /\ call'[u] = call[u] /\ op'[u] = op[u] /\ n'[u] = n[u]
           /\ disturbed[u] => disturbed'[u]
  PROVE  RowOK(r)'
<1>1. \A row : Agrees(screen[r], row) => Agrees(screen'[r], row)
  BY DEF Agrees
<1>2. CASE shown[r] = NoRow \/ Agrees(screen[r], shown[r])
  BY <1>1, <1>2 DEF RowOK
<1>3. ASSUME NEW u \in Threads, r \in RowsOf(call[u]),
             \/ disturbed[u] \/ Fresh(call[u])
             \/ Agrees(screen[r], Overlaid(call[u], Sent(u), shown[r]))
      PROVE  RowOK(r)'
  <2>1. u # t
    BY <1>3
  <2>2. Sent(u)' = Sent(u) /\ call'[u] = call[u] /\ (disturbed[u] => disturbed'[u])
    BY <2>1 DEF Sent
  <2>3. \/ disturbed'[u] \/ Fresh(call'[u])
        \/ Agrees(screen'[r], Overlaid(call'[u], Sent(u)', shown'[r]))
    BY <1>1, <1>3, <2>2
  <2>4. r \in RowsOf(call'[u])
    BY <1>3, <2>2
  <2> QED
    BY <2>3, <2>4 DEF RowOK
<1> QED
  BY <1>2, <1>3 DEF RowOK

\* What the other threads are while thread t goes on.
LEMMA OthersUndisturbed ==
  ASSUME TypeOK, ~garbled, NEW t \in Threads, Call(t), NEW u \in Threads, u # t
  PROVE  /\ call'[u] = call[u] /\ op'[u] = op[u] /\ n'[u] = n[u] /\ target'[u] = target[u]
         /\ disturbed[u] => disturbed'[u]
<1>1. call'[u] = call[u] /\ op'[u] = op[u] /\ n'[u] = n[u] /\ target'[u] = target[u]
  BY OthersStay DEF Step
<1>2. HistoryType
  BY Types
<1>3. CASE Begin(t) \/ PrintLine(t) \/ Cleared(t) \/ Printed(t)
  BY <1>1, <1>2, <1>3 DEF Begin, PrintLine, Begins, Cleared, Printed, HistoryType
<1>4. CASE \/ SendBytes(t) \/ Goto(t) \/ SetCursor(t) \/ SendData(t) \/ Spoil(t)
           \/ SendPicture(t) \/ SendChar(t) \/ Advance(t)
  <2>1. Disturb(t)
    BY <1>4 DEF SendBytes, Goto, SetCursor, SendData, Spoil, SendPicture, SendChar, Advance
  <2> QED
    BY <1>1, <2>1 DEF Disturb
<1> QED
  BY <1>3, <1>4 DEF Call

LEMMA BeginRows ==
  ASSUME TypeOK, ~garbled, NEW t \in Threads, Begin(t) \/ PrintLine(t), PlaceOK(t),
         NEW r \in Rows, RowOK(r)
  PROVE  RowOK(r)'
<1>1. Call(t)
  BY DEF Call
<1>2. op[t] = "none"
  BY DEF Begin, PrintLine, Nexts
<1>3. r \notin RowsOf(call[t])
  BY <1>2, AtRest, RowsAre, Types DEF Prints
<1>4. shown' = shown /\ screen' = screen
  BY DEF Begin, PrintLine, chip
<1> QED
  BY <1>1, <1>3, <1>4, RowKept, OthersUndisturbed

\* The operations that write nothing leave as much of a text in the chip as there was.
LEMMA SentSame ==
  ASSUME TypeOK, NEW t \in Threads, PlaceOK(t), ~disturbed[t], Follows(t),
         SendBytes(t) \/ Goto(t) \/ SetCursor(t) \/ SendChar(t) \/ Advance(t)
  PROVE  Sent(t)' = Sent(t)
<1> USE DEF Sent, InGoto, InText, Becomes
<1>1. PlaceType
  BY Types
<1>2. CASE SendBytes(t) \/ Goto(t)
  BY <1>1, <1>2 DEF SendBytes, Goto, PlaceType
<1>3. CASE SetCursor(t)
  <2>1. op[t] = "cursor" /\ op'[t] = target[t].then /\ n'[t] = n[t]
    BY <1>1, <1>3 DEF SetCursor, PlaceType
  <2>2. target[t].then \in {"blank", "char", "cleared"}
    BY <2>1 DEF PlaceOK, Follows, FollowsGoto
  <2>3. target[t].then = "char" => n[t] = 0
    BY <2>1 DEF PlaceOK
  <2> QED
    BY <2>1, <2>2, <2>3
<1>4. CASE SendChar(t)
  <2>1. op[t] = "char" /\ n'[t] = n[t]
    BY <1>4 DEF SendChar
  <2>2. Prints(call[t]) /\ n[t] < Len(call[t].text)
    BY <2>1, <1>1, PlaceFacts DEF PlaceOK, CallOps, Prints
  <2>3. current_X # max_X
    <3>1. call[t].x + Len(call[t].text) <= max_X
      BY <2>2 DEF PlaceOK, Fits
    <3>2. current_X = call[t].x + n[t]
      BY <2>1 DEF Follows, FollowsText
    <3>3. call[t].x \in Nat /\ n[t] \in Nat /\ Len(call[t].text) \in Nat
      BY <1>1, PlaceNumbers
    <3> QED
      BY <2>2, <3>1, <3>2, <3>3, Sizes
  <2>4. op'[t] = "data"
    BY <1>4, <2>3, <1>1 DEF SendChar, PlaceType
  <2> QED
    BY <2>1, <2>4
<1>5. CASE Advance(t)
  <2>1. op[t] = "advance" /\ n'[t] = n[t] + 1 /\ op'[t] \in {"char", "printed"}
    BY <1>5, <1>1 DEF Advance, Counts, PlaceType
  <2> QED
    BY <2>1
<1> QED
  BY <1>2, <1>3, <1>4, <1>5

LEMMA MoveRows ==
  ASSUME TypeOK, ~garbled, NEW t \in Threads, PlaceOK(t), ~disturbed[t] => Follows(t),
         SendBytes(t) \/ Goto(t) \/ SetCursor(t) \/ SendChar(t) \/ Advance(t),
         NEW r \in Rows, RowOK(r)
  PROVE  RowOK(r)'
<1>1. Call(t)
  BY DEF Call
<1>2. call' = call /\ shown' = shown /\ screen' = screen
  BY DEF SendBytes, Goto, SetCursor, SendChar, Advance, chip
<1>3. \A u \in Threads : disturbed[u] => disturbed'[u]
  BY DEF SendBytes, Goto, SetCursor, SendChar, Advance, Disturb
<1>4. \A u \in Threads : ~disturbed[u] => Sent(u)' = Sent(u)
  <2>1. \A u \in Threads : u # t => Sent(u)' = Sent(u)
    BY <1>1, OthersUndisturbed DEF Sent
  <2> QED
    BY <2>1, SentSame
<1>5. CASE shown[r] = NoRow \/ Agrees(screen[r], shown[r])
  BY <1>2, <1>5 DEF RowOK
<1>6. ASSUME NEW u \in Threads, r \in RowsOf(call[u]),
             \/ disturbed[u] \/ Fresh(call[u])
             \/ Agrees(screen[r], Overlaid(call[u], Sent(u), shown[r]))
      PROVE  RowOK(r)'
  <2>1. \/ disturbed'[u] \/ Fresh(call'[u])
        \/ Agrees(screen'[r], Overlaid(call'[u], Sent(u)', shown'[r]))
    BY <1>2, <1>3, <1>4, <1>6
  <2>2. r \in RowsOf(call'[u])
    BY <1>2, <1>6
  <2> QED
    BY <2>1, <2>2 DEF RowOK
<1> QED
  BY <1>5, <1>6 DEF RowOK

LEMMA OthersDisturbed ==
  ASSUME PlaceType, NEW t \in Threads, Disturb(t), NEW u \in Threads, u # t, PlaceOK(u),
         NEW r, r \in RowsOf(call[u])
  PROVE  disturbed'[u]
<1>1. op[u] # "none"
  BY AtRest, RowsAre DEF Prints
<1> QED
  BY <1>1 DEF Disturb

LEMMA DataRows ==
  ASSUME TypeOK, PosInWindow, ~garbled, \A u \in Threads : PlaceOK(u),
         NEW t \in Threads, SendData(t), ~disturbed[t], Follows(t),
         NEW r \in Rows, RowOK(r)
  PROVE  RowOK(r)'
<1>1. PlaceType /\ ChipType /\ PlaceOK(t) /\ Call(t)
  BY Types DEF Call
<1>2. call' = call /\ shown' = shown /\ Disturb(t) /\ disturbed'[t] = disturbed[t]
  BY Types DEF SendData, Disturb, HistoryType
<1>3. \A col \in 0 .. max_X - 1 :
        (r = pos[2] => col # pos[1]) => screen'[r][col] = screen[r][col]
  <2> DEFINE v == IF op[t] = "blank" THEN Blank ELSE call[t].text[n[t] + 1]
  <2>1. screen' = [screen EXCEPT ![pos[2]][pos[1]] = v]
    BY DEF SendData
  <2> HIDE DEF v
  <2> QED
    BY <2>1, <1>1, CellWritten, InRow
<1>4. pos[2] \in RowsOf(call[t])
  <2>1. op[t] = "blank" \/ op[t] = "data"
    BY DEF SendData, Blanked, Drawn
  <2>2. CASE op[t] = "data"
    BY <2>2, <1>1, DataAt, RowsAre
  <2>3. CASE op[t] = "blank" /\ call[t].name = "clear"
    BY <2>3, <1>1, ClearAt, RowsAre
  <2>4. CASE op[t] = "blank" /\ call[t].name # "clear"
    <3>1. call[t].name = "print" /\ pos[2] = call[t].y
      BY <2>4, <1>1, BlankAt
    <3> QED
      BY <3>1, <1>1, RowsAre DEF Prints
  <2> QED
    BY <2>1, <2>2, <2>3, <2>4
<1>5. CASE r \notin RowsOf(call[t])
  <2>1. \A col \in 0 .. max_X - 1 : screen'[r][col] = screen[r][col]
    BY <1>3, <1>4, <1>5
  <2>2. \A u \in Threads : u # t =>
          /\ call'[u] = call[u] /\ op'[u] = op[u] /\ n'[u] = n[u]
          /\ disturbed[u] => disturbed'[u]
    BY <1>1, OthersUndisturbed
  <2> QED
    BY <1>2, <1>5, <2>1, <2>2, RowKept
<1>6. CASE r \in RowsOf(call[t]) /\ Fresh(call[t])
  BY <1>2, <1>6 DEF RowOK
<1>7. CASE r \in RowsOf(call[t]) /\ ~Fresh(call[t])
  <2>1. Prints(call[t]) /\ r = call[t].y
    BY <1>1, <1>7, RowsAre DEF Prints
  <2>2. op[t] = "data"
    <3>1. op[t] = "blank" => Fresh(call[t])
      BY <1>1, BlankAt DEF Fresh
    <3> QED
      BY <3>1, <1>7 DEF SendData, Blanked, Drawn
  <2>3. Sent(t) = n[t] /\ Sent(t)' = n[t] + 1
    <3>1. op'[t] = "advance" /\ n'[t] = n[t]
      BY <1>1, <2>2 DEF SendData, Drawn, Blanked, Becomes, PlaceType
    <3> QED
      BY <2>2, <3>1 DEF Sent
  <2>4. ASSUME \A col \in 0 .. max_X - 1 :
                 col \notin call[t].x .. call[t].x + n[t] - 1 => screen[r][col] = shown[r][col]
        PROVE  RowOK(r)'
    <3>1. Texted(t)'
      BY <1>1, DataFollows DEF Follows
    <3>2. \A col \in call[t].x .. call[t].x + Sent(t)' - 1 :
            screen'[r][col] = call[t].text[col - call[t].x + 1]
      BY <1>2, <2>1, <3>1 DEF Texted
    <3>3. \A col \in 0 .. max_X - 1 : col \notin call[t].x .. call[t].x + Sent(t)' - 1 =>
            screen'[r][col] = shown[r][col]
      <4>1. pos[1] = call[t].x + n[t]
        BY <1>1, <2>2, DataAt
      <4>2. \A x \in Nat, k \in Nat : \A col \in 0 .. max_X - 1 :
              col \notin x .. x + (k + 1) - 1 => col \notin x .. x + k - 1 /\ col # x + k
        BY Sizes
      <4>3. call[t].x \in Nat /\ n[t] \in Nat
        BY <1>1, PlaceNumbers
      <4>4. \A col \in 0 .. max_X - 1 :
              col \notin call[t].x .. call[t].x + (n[t] + 1) - 1 =>
                col \notin call[t].x .. call[t].x + n[t] - 1 /\ col # call[t].x + n[t]
        BY <4>2, <4>3
      <4> QED
        BY <4>1, <4>4, <2>3, <2>4, <1>3
    <3>4. Agrees(screen'[r], Overlaid(call'[t], Sent(t)', shown'[r]))
      BY <1>2, <3>2, <3>3, InRow, OverlaidAt DEF Agrees
    <3> QED
      BY <1>2, <1>7, <3>4 DEF RowOK
  <2>5. CASE shown[r] = NoRow
    BY <1>2, <2>5 DEF RowOK
  <2>6. CASE Agrees(screen[r], shown[r])
    BY <2>4, <2>6 DEF Agrees
  <2>7. CASE Agrees(screen[r], Overlaid(call[t], Sent(t), shown[r]))
    BY <2>3, <2>4, <2>7, InRow, OverlaidAt DEF Agrees
  <2>8. ASSUME NEW u \in Threads, u # t, r \in RowsOf(call[u])
        PROVE  RowOK(r)'
    BY <1>1, <1>2, <2>8, OthersDisturbed DEF RowOK
  <2> QED
    BY <1>7, <2>5, <2>6, <2>7, <2>8 DEF RowOK
<1> QED
  BY <1>5, <1>6, <1>7

LEMMA ClearedRows ==
  ASSUME TypeOK, ~garbled, NEW t \in Threads, PlaceOK(t), ~disturbed[t] => Follows(t),
         Cleared(t), NEW r \in Rows, RowOK(r)
  PROVE  RowOK(r)'
<1>1. PlaceType /\ Call(t)
  BY Types DEF Call
<1>2. screen' = screen
  BY DEF Cleared, chip
<1>3. op[t] = "cleared" /\ call[t].name = "clear"
  BY <1>1, PlaceFacts DEF Cleared, PlaceOK, CallOps, InGoto, InText
<1>4. shown'[r] = IF r < call[t].y THEN shown[r]
                  ELSE IF disturbed[t] \/ call[t].x # 0 THEN NoRow ELSE BlankRow
  BY DEF Cleared
<1>5. call[t].y \in Rows /\ (r < call[t].y \/ r \in call[t].y .. max_Y)
  <2>1. \A y \in 0 .. max_Y, q \in 0 .. max_Y : q < y \/ q \in y .. max_Y
    BY Sizes
  <2> QED
    BY <1>1, <2>1, PlaceNumbers DEF Rows
<1>6. CASE r < call[t].y
  <2>1. r \notin RowsOf(call[t])
    <3>1. r \notin call[t].y .. max_Y
      BY <1>5, <1>6 DEF Rows
    <3> QED
      BY <3>1, <1>1, <1>3, RowsAre DEF Prints
  <2>2. \A u \in Threads : u # t =>
          /\ call'[u] = call[u] /\ op'[u] = op[u] /\ n'[u] = n[u]
          /\ disturbed[u] => disturbed'[u]
    BY <1>1, OthersUndisturbed
  <2> QED
    BY <1>2, <1>4, <1>6, <2>1, <2>2, RowKept
<1>7. CASE r \in call[t].y .. max_Y
  <2>1. ~(r < call[t].y)
    BY <1>5, <1>7 DEF Rows
  <2>2. CASE disturbed[t] \/ call[t].x # 0
    BY <1>4, <2>1, <2>2 DEF RowOK
  <2>3. CASE ~disturbed[t] /\ call[t].x = 0
    <3>1. AllBlanked(t)
      BY <2>3 DEF Follows
    <3>2. \A c \in Cols : screen[r][c] = Blank
      BY <1>3, <1>7, <2>3, <3>1 DEF AllBlanked
    <3>3. shown'[r] = BlankRow
      BY <1>4, <2>1, <2>3
    <3>4. Agrees(screen'[r], shown'[r])
      BY <1>2, <3>2, <3>3, InRow DEF Agrees, BlankRow
    <3> QED
      BY <3>4 DEF RowOK
  <2> QED
    BY <2>2, <2>3
<1> QED
  BY <1>5, <1>6, <1>7

\* What a row is to show when a call has printed there.
LEMMA PrintedShown ==
  ASSUME TypeOK, NEW t \in Threads, PlaceOK(t), TimeCovers, Printed(t)
  PROVE  /\ Prints(call[t]) /\ call[t].y \in Rows
         /\ \A r \in Rows : r # call[t].y => shown'[r] = shown[r]
         /\ Sent(t) = Len(call[t].text)
         /\ shown'[call[t].y] # NoRow =>
              /\ ~disturbed[t]
              /\ call[t].name = "print" /\ Fresh(call[t]) =>
                   shown'[call[t].y] = Overlaid(call[t], Sent(t), BlankRow)
              /\ ~Fresh(call[t]) =>
                   /\ shown[call[t].y] # NoRow
                   /\ \A col \in 0 .. max_X - 1 :
                        shown'[call[t].y][col] =
                          Overlaid(call[t], Sent(t), shown[call[t].y])[col]
<1>1. PlaceType /\ HistoryType
  BY Types
<1>2. op[t] = "printed"
  BY DEF Printed
<1>3. Prints(call[t]) /\ call[t].y \in Rows
  BY <1>1, <1>2, PlaceFacts DEF PlaceOK, CallOps, Prints, InGoto, Rows
<1>4. Sent(t) = Len(call[t].text)
  BY <1>2 DEF PlaceOK, Sent
<1> DEFINE N == IF disturbed[t] \/ (Overprints(call[t]) /\ shown[call[t].y] = NoRow) THEN NoRow
                ELSE Overlaid(call[t], Len(call[t].text),
                       IF call[t].name = "string" THEN shown[call[t].y] ELSE BlankRow)
<1>5. shown' = [shown EXCEPT ![call[t].y] = N]
  BY DEF Printed
<1>6. shown'[call[t].y] = N /\ \A r \in Rows : r # call[t].y => shown'[r] = shown[r]
  <2> HIDE DEF N
  <2> QED
    BY <1>1, <1>3, <1>5 DEF HistoryType
<1>7. ASSUME N # NoRow, ~Fresh(call[t]), NEW col \in 0 .. max_X - 1
      PROVE  /\ shown[call[t].y] # NoRow
             /\ N[col] = Overlaid(call[t], Sent(t), shown[call[t].y])[col]
  <2>1. call[t].name = "string" \/ (call[t].name = "print" /\ call[t].y = WALL_TIME)
    BY <1>3, <1>7 DEF Prints, Fresh
  <2>2. ~disturbed[t] /\ shown[call[t].y] # NoRow
    BY <1>7, <2>1 DEF Overprints
  <2>3. N = Overlaid(call[t], Sent(t),
                     IF call[t].name = "string" THEN shown[call[t].y] ELSE BlankRow)
    BY <1>4, <2>2
  <2>4. CASE call[t].name = "string"
    BY <2>2, <2>3, <2>4
  <2>5. CASE call[t].name = "print" /\ call[t].y = WALL_TIME
    <3>1. call[t].x = 0 /\ call[t].text \in Texts[WALL_TIME]
      BY <2>5 DEF PlaceOK, Fits
    <3>2. \A c \in Len(call[t].text) .. max_X - 1 : shown[WALL_TIME][c] = Blank
      BY <2>2, <2>5, <3>1 DEF TimeCovers
    <3>3. col \notin 0 .. 0 + Sent(t) - 1 => shown[WALL_TIME][col] = BlankRow[col]
      <4>1. Sent(t) \in Nat
        BY <1>1, <1>4, PlaceFacts
      <4>2. col \notin 0 .. 0 + Sent(t) - 1 => col \in Sent(t) .. max_X - 1
        BY <4>1, Sizes
      <4>3. col \in Cols
        BY InRow
      <4> QED
        BY <1>4, <3>2, <4>2, <4>3 DEF BlankRow
    <3>4. N = Overlaid(call[t], Sent(t), BlankRow)
      BY <2>3, <2>5
    <3> HIDE DEF N
    <3> QED
      BY <2>2, <2>5, <3>1, <3>3, <3>4, InRow, OverlaidAt
  <2> QED
    BY <2>1, <2>4, <2>5
<1>8. ASSUME N # NoRow, call[t].name = "print", Fresh(call[t])
      PROVE  N = Overlaid(call[t], Sent(t), BlankRow)
  BY <1>4, <1>8
<1>9. N # NoRow => ~disturbed[t]
  OBVIOUS
<1>10. N # NoRow /\ ~Fresh(call[t]) => shown[call[t].y] # NoRow
  BY <1>3 DEF Prints, Fresh, Overprints
<1> HIDE DEF N
<1> QED
  BY <1>3, <1>4, <1>6, <1>7, <1>8, <1>9, <1>10

LEMMA PrintedRows ==
  ASSUME TypeOK, ~garbled, NEW t \in Threads, PlaceOK(t), ~disturbed[t] => Follows(t),
         TimeCovers, Printed(t), NEW r \in Rows, RowOK(r)
  PROVE  RowOK(r)'
<1>1. PlaceType /\ Call(t)
  BY Types DEF Call
<1>2. screen' = screen /\ op[t] = "printed"
  BY DEF Printed, chip
<1>3. /\ Prints(call[t]) /\ call[t].y \in Rows
      /\ \A q \in Rows : q # call[t].y => shown'[q] = shown[q]
      /\ Sent(t) = Len(call[t].text)
      /\ shown'[call[t].y] # NoRow =>
           /\ ~disturbed[t]
           /\ call[t].name = "print" /\ Fresh(call[t]) =>
                shown'[call[t].y] = Overlaid(call[t], Sent(t), BlankRow)
           /\ ~Fresh(call[t]) =>
                /\ shown[call[t].y] # NoRow
                /\ \A col \in 0 .. max_X - 1 :
                     shown'[call[t].y][col] =
                       Overlaid(call[t], Sent(t), shown[call[t].y])[col]
  BY PrintedShown
<1>4. \A u \in Threads : u # t =>
        /\ call'[u] = call[u] /\ op'[u] = op[u] /\ n'[u] = n[u]
        /\ disturbed[u] => disturbed'[u]
  BY <1>1, OthersUndisturbed
<1>5. CASE r # call[t].y
  <2>1. r \notin RowsOf(call[t])
    BY <1>1, <1>3, <1>5, RowsAre DEF Prints
  <2> QED
    BY <1>2, <1>3, <1>4, <1>5, <2>1, RowKept
<1>6. CASE r = call[t].y /\ shown'[r] = NoRow
  BY <1>6 DEF RowOK
<1>7. CASE r = call[t].y /\ shown'[r] # NoRow
  <2>1. Texted(t) /\ RowBlanked(t)
    BY <1>3, <1>7 DEF Follows
  <2>2. \A col \in call[t].x .. call[t].x + Sent(t) - 1 :
          screen[r][col] = call[t].text[col - call[t].x + 1]
    BY <1>3, <1>7, <2>1 DEF Texted
  <2>3. CASE Fresh(call[t])
    <3>1. call[t].name = "print" /\ call[t].y # WALL_TIME /\ call[t].x = 0
      BY <1>3, <2>3 DEF Fresh, Prints, PlaceOK, Fits
    <3>2. \A col \in Sent(t) .. max_X - 1 : screen[r][col] = Blank
      BY <1>2, <1>7, <2>1, <3>1 DEF RowBlanked, InText
    <3>3. Sent(t) \in Nat
      BY <1>1, <1>3, PlaceFacts
    <3>4. \A col \in 0 .. max_X - 1 : col \in 0 .. 0 + Sent(t) - 1 \/ col \in Sent(t) .. max_X - 1
      BY <3>3, Sizes
    <3>5. \A col \in 0 .. max_X - 1 : BlankRow[col] = Blank
      BY InRow DEF BlankRow
    <3>6. shown'[r] = Overlaid(call[t], Sent(t), BlankRow)
      BY <1>3, <1>7, <2>3, <3>1
    <3>7. Agrees(screen'[r], shown'[r])
      <4> SUFFICES ASSUME NEW col \in 0 .. max_X - 1
                   PROVE  screen[r][col] = Overlaid(call[t], Sent(t), BlankRow)[col]
        BY <1>2, <3>6 DEF Agrees
      <4> QED
        BY <2>2, <3>1, <3>2, <3>4, <3>5, InRow, OverlaidAt
    <3> QED
      BY <3>7 DEF RowOK
  <2>4. CASE ~Fresh(call[t])
    <3>1. /\ shown[r] # NoRow
          /\ \A col \in 0 .. max_X - 1 :
               shown'[r][col] = IF col \in call[t].x .. call[t].x + Sent(t) - 1
                                THEN call[t].text[col - call[t].x + 1] ELSE shown[r][col]
      BY <1>3, <1>7, <2>4, InRow, OverlaidAt
    <3>2. CASE Agrees(screen[r], shown[r])
      <4>1. Agrees(screen'[r], shown'[r])
        BY <1>2, <2>2, <3>1, <3>2 DEF Agrees
      <4> QED
        BY <4>1 DEF RowOK
    <3>3. CASE Agrees(screen[r], Overlaid(call[t], Sent(t), shown[r]))
      <4>1. Agrees(screen'[r], shown'[r])
        BY <1>2, <3>1, <3>3, InRow, OverlaidAt DEF Agrees
      <4> QED
        BY <4>1 DEF RowOK
    <3>4. ASSUME NEW u \in Threads, u # t, r \in RowsOf(call[u]),
                 \/ disturbed[u] \/ Fresh(call[u])
                 \/ Agrees(screen[r], Overlaid(call[u], Sent(u), shown[r]))
          PROVE  RowOK(r)'
      <4>1. /\ Sent(u)' = Sent(u) /\ call'[u] = call[u]
            /\ disturbed[u] => disturbed'[u]
        BY <1>4, <3>4 DEF Sent
      <4>2. Agrees(screen[r], Overlaid(call[u], Sent(u), shown[r])) =>
              Agrees(screen'[r], Overlaid(call[u], Sent(u), shown'[r]))
        BY <1>2, <2>2, <3>1, InRow, OverlaidAt DEF Agrees
      <4>3. \/ disturbed'[u] \/ Fresh(call'[u])
            \/ Agrees(screen'[r], Overlaid(call'[u], Sent(u)', shown'[r]))
        BY <3>4, <4>1, <4>2
      <4>4. r \in RowsOf(call'[u])
        BY <3>4, <4>1
      <4> QED
        BY <4>3, <4>4 DEF RowOK
    <3>5. ~disturbed[t]
      BY <1>3, <1>7
    <3> QED
      BY <2>4, <3>1, <3>2, <3>3, <3>4, <3>5 DEF RowOK
  <2> QED
    BY <2>3, <2>4
<1> QED
  BY <1>5, <1>6, <1>7

LEMMA CallRows ==
  ASSUME TypeOK, PosInWindow, TimeCovers, ~garbled, \A u \in Threads : PlaceOK(u),
         NEW t \in Threads, Call(t), ~disturbed[t] => Follows(t),
         NEW r \in Rows, RowOK(r)
  PROVE  RowOK(r)'
<1>1. CASE Begin(t) \/ PrintLine(t)
  BY <1>1, BeginRows
<1>2. CASE SendBytes(t) \/ Goto(t) \/ SetCursor(t) \/ SendChar(t) \/ Advance(t)
  BY <1>2, MoveRows
<1>3. CASE SendData(t)
  BY <1>3, DataRows DEF SendData
<1>4. CASE Spoil(t) \/ SendPicture(t)
  BY <1>4 DEF Spoil, SendPicture, RowOK
<1>5. CASE Cleared(t)
  BY <1>5, ClearedRows
<1>6. CASE Printed(t)
  BY <1>6, PrintedRows
<1> QED
  BY <1>1, <1>2, <1>3, <1>4, <1>5, <1>6 DEF Call

LEMMA CallCovers ==
  ASSUME TypeOK, TimeCovers, NEW t \in Threads, PlaceOK(t), Call(t)
  PROVE  TimeCovers'
<1>1. PlaceType /\ WALL_TIME \in Rows
  BY Types, DisplayAssumption
<1>2. CASE \/ Begin(t) \/ PrintLine(t) \/ SendBytes(t) \/ Goto(t) \/ SetCursor(t)
           \/ SendData(t) \/ SendChar(t) \/ Advance(t)
  <2>1. shown' = shown
    BY <1>2 DEF Begin, PrintLine, SendBytes, Goto, SetCursor, SendData, SendChar, Advance
  <2> QED
    BY <2>1 DEF TimeCovers
<1>3. CASE Spoil(t) \/ SendPicture(t)
  BY <1>1, <1>3 DEF Spoil, SendPicture, TimeCovers
<1>4. \A s \in Texts[WALL_TIME] : Len(s) \in 1 .. max_X
  BY <1>1, DisplayAssumption
<1>5. \A s \in Texts[WALL_TIME] : \A col \in Len(s) .. max_X - 1 :
        col \in 0 .. max_X - 1 /\ col \in Cols /\ BlankRow[col] = Blank
  <2>1. \A k \in 1 .. max_X : \A col \in k .. max_X - 1 : col \in 0 .. max_X - 1
    BY Sizes
  <2> QED
    BY <1>4, <2>1, InRow DEF BlankRow
<1>6. CASE Cleared(t)
  <2>1. shown'[WALL_TIME] \in {shown[WALL_TIME], NoRow, BlankRow}
    BY <1>1, <1>6 DEF Cleared
  <2> QED
    BY <1>5, <2>1 DEF TimeCovers
<1>7. call[t].x \in Nat /\ Len(call[t].text) \in Nat
  BY <1>1, PlaceNumbers
<1>8. CASE Printed(t)
  <2>1. /\ Prints(call[t]) /\ call[t].y \in Rows
        /\ \A r \in Rows : r # call[t].y => shown'[r] = shown[r]
        /\ Sent(t) = Len(call[t].text)
        /\ shown'[call[t].y] # NoRow =>
             /\ ~disturbed[t]
             /\ call[t].name = "print" /\ Fresh(call[t]) =>
                  shown'[call[t].y] = Overlaid(call[t], Sent(t), BlankRow)
             /\ ~Fresh(call[t]) =>
                  /\ shown[call[t].y] # NoRow
                  /\ \A col \in 0 .. max_X - 1 :
                       shown'[call[t].y][col] =
                         Overlaid(call[t], Sent(t), shown[call[t].y])[col]
    BY <1>8, PrintedShown
  <2>2. CASE call[t].y # WALL_TIME
    BY <1>1, <2>1, <2>2 DEF TimeCovers
  <2>3. CASE call[t].y = WALL_TIME
    <3>1. ~Fresh(call[t])
      BY <2>1, <2>3 DEF Fresh, Prints
    <3>2. SUFFICES ASSUME shown'[WALL_TIME] # NoRow, NEW s \in Texts[WALL_TIME],
                          NEW col \in Len(s) .. max_X - 1
                   PROVE  shown'[WALL_TIME][col] = Blank
      BY DEF TimeCovers
    <3>3. call[t].x + Len(call[t].text) <= Len(s)
      BY <2>1, <2>3 DEF PlaceOK, Fits
    <3>4. col \notin call[t].x .. call[t].x + Sent(t) - 1
      <4>1. \A x \in Nat, k \in Nat, l \in 1 .. max_X : x + k <= l =>
              \A d \in l .. max_X - 1 : d \notin x .. x + k - 1
        BY Sizes
      <4>2. Sent(t) \in Nat /\ Len(s) \in 1 .. max_X
        BY <1>4, <1>7, <2>1
      <4> QED
        BY <1>7, <2>1, <3>3, <4>1, <4>2
    <3>5. shown'[WALL_TIME][col] = shown[WALL_TIME][col] /\ shown[WALL_TIME] # NoRow
      BY <1>5, <2>1, <2>3, <3>1, <3>2, <3>4, OverlaidAt
    <3> QED
      BY <3>5 DEF TimeCovers
  <2> QED
    BY <2>2, <2>3
<1> QED
  BY <1>2, <1>3, <1>6, <1>8 DEF Call

LEMMA CallFollows ==
  ASSUME TypeOK, PosInWindow, ~garbled, NEW t \in Threads, Call(t), PlaceOK(t),
         ~disturbed[t] => Follows(t)
  PROVE  ~disturbed'[t] => Follows(t)'
<1>1. PlaceType /\ HistoryType
  BY Types
<1>2. CASE Begin(t) \/ PrintLine(t)
  BY <1>2, BeginFollows
<1>3. CASE \/ SendBytes(t) \/ Goto(t) \/ SetCursor(t) \/ SendChar(t) \/ Advance(t)
           \/ SendData(t)
  <2>1. Disturb(t)
    BY <1>3 DEF SendBytes, Goto, SetCursor, SendChar, Advance, SendData
  <2>2. disturbed'[t] = disturbed[t]
    BY <1>1, <2>1 DEF Disturb, HistoryType
  <2> QED
    BY <1>3, <2>2, MoveFollows, DataFollows
<1>4. CASE Spoil(t)
  BY <1>4 DEF Spoil, Disturb
<1>5. CASE SendPicture(t) \/ Cleared(t) \/ Printed(t)
  BY <1>1, <1>5, ReturnFollows DEF SendPicture, Cleared, Printed
<1> QED
  BY <1>2, <1>3, <1>4, <1>5 DEF Call

LEMMA StepScreen ==
  ASSUME TypeOK, \A u \in Threads : PlaceOK(u), ScreenInv, NEW t \in Threads, Step(t)
  PROVE  ScreenInv'
<1>1. CASE Garble(t)
  BY <1>1 DEF Garble, ScreenInv
<1>2. CASE ~garbled /\ Call(t)
  <2>1. /\ \A u \in Threads : ~disturbed[u] => Follows(u)
        /\ \A r \in Rows : RowOK(r)
        /\ TimeCovers /\ PosInWindow
    BY <1>2 DEF ScreenInv
  <2>2. \A u \in Threads : ~disturbed'[u] => Follows(u)'
    BY <1>2, <2>1, CallFollows, OthersFollow
  <2>3. \A r \in Rows : RowOK(r)'
    BY <1>2, <2>1, CallRows
  <2>4. TimeCovers' /\ PosInWindow'
    BY <1>2, <2>1, CallCovers, PosKept
  <2> QED
    BY <2>2, <2>3, <2>4 DEF ScreenInv
<1> QED
  BY <1>1, <1>2 DEF Step

\* What is no step of a thread leaves the chip alone, and a probe, which resets the
\* cursor, finds every thread at rest.
LEMMA LifeScreen ==
  ASSUME TypeOK, \A u \in Threads : PlaceOK(u), ScreenInv, LifeInv, CallersInv, LifeStep
  PROVE  ScreenInv'
<1>1. UNCHANGED <<chip, place, history>>
  BY LifeFrame
<1>2. PlaceType
  BY Types
<1> SUFFICES ASSUME ~garbled
             PROVE  /\ \A u \in Threads : ~disturbed'[u] => Follows(u)'
                    /\ \A r \in Rows : RowOK(r)'
                    /\ TimeCovers' /\ PosInWindow'
  BY <1>1 DEF ScreenInv, history
<1>3. \A u \in Threads : ~disturbed'[u] => Follows(u)'
  <2> SUFFICES ASSUME NEW u \in Threads, ~disturbed[u]
               PROVE  Follows(u)'
    BY <1>1 DEF history
  <2>1. Follows(u) /\ call' = call /\ op' = op /\ target' = target /\ n' = n
    BY <1>1 DEF ScreenInv, place
  <2>2. CASE Probe
    <3>1. ~Busy("drv") /\ ~Busy("work") /\ ~Busy("app")
      BY <2>2 DEF Probe, LifeInv, CallersInv
    <3>2. op[u] = "none"
      BY <3>1 DEF Busy
    <3> QED
      BY <1>2, <2>1, <3>2, AtRest, RestFollows
  <2>3. CASE ~Probe
    <3>1. UNCHANGED <<screen, window, pos, current_X>>
      BY <1>1, <2>3, CursorKept DEF chip, cursor
    <3> QED
      BY <2>1, <3>1, FollowsSame
  <2> QED
    BY <2>2, <2>3
<1>4. \A r \in Rows : RowOK(r)'
  <2>1. \A u \in Threads : Sent(u)' = Sent(u)
    BY <1>1 DEF Sent, place
  <2> QED
    BY <1>1, <2>1 DEF ScreenInv, RowOK, Agrees, chip, place, history
<1>5. TimeCovers' /\ PosInWindow'
  BY <1>1 DEF ScreenInv, TimeCovers, PosInWindow, chip, history
<1> QED
  BY <1>3, <1>4, <1>5
-----------------------------------------------------------------------------
(* The invariant, and what it says. *)

LEMMA InitInv ==
  ASSUME Init
  PROVE  Inv
<1>1. TypeOK
  <2>1. PlaceType /\ TodoType
    BY NoCallType DEF Init, PlaceType, TodoType, Operations
  <2>2. ChipType
    BY Zero DEF Init, ChipType, BlankRow
  <2>3. FlagType /\ HistoryType
    BY Zero DEF Init, FlagType, HistoryType, Phases
  <2> QED
    BY <2>1, <2>2, <2>3, Types
<1>2. \A t \in Threads : PlaceOK(t)
  BY DEF Init, PlaceOK, CallOps, Fits, Prints, InGoto, InText, NoCall
<1>3. ScreenInv
  <2>1. \A t \in Threads : Follows(t)
    BY DEF Init, Follows, FollowsGoto, FollowsBlanks, FollowsText, Texted, RowBlanked,
           AllBlanked, Prints, InGoto, NoCall
  <2>2. \A r \in Rows : RowOK(r)
    BY DEF Init, RowOK
  <2>3. TimeCovers
    BY DisplayAssumption DEF Init, TimeCovers
  <2>4. PosInWindow
    BY DEF Init, PosInWindow
  <2> QED
    BY <2>1, <2>2, <2>3, <2>4 DEF ScreenInv
<1>4. LifeInv /\ CallersInv
  BY DEF Init, LifeInv, CallersInv, Busy
<1> QED
  BY <1>1, <1>2, <1>3, <1>4 DEF Inv

LEMMA StepInv ==
  ASSUME Inv, [Next]_vars
  PROVE  Inv'
<1> USE DEF Inv
<1>1. ASSUME NEW t \in Threads, Step(t)
      PROVE  Inv'
  <2>1. TypeOK'
    BY <1>1, StepType
  <2>2. \A u \in Threads : PlaceOK(u)'
    <3>1. ASSUME NEW u \in Threads, u # t
          PROVE  PlaceOK(u)'
      BY <1>1, <3>1, OthersStay, PlaceSame
    <3>2. PlaceOK(t)'
      BY <1>1, StepPlace
    <3> QED
      BY <3>1, <3>2
  <2>3. ScreenInv'
    BY <1>1, StepScreen
  <2>4. LifeInv' /\ CallersInv'
    BY <1>1, StepLife
  <2> QED
    BY <2>1, <2>2, <2>3, <2>4
<1>2. CASE LifeStep
  <2>1. TypeOK'
    BY <1>2, LifeType
  <2>2. \A u \in Threads : PlaceOK(u)'
    BY <1>2, LifeFrame, PlaceSame DEF place
  <2>3. ScreenInv'
    BY <1>2, LifeScreen
  <2>4. LifeInv' /\ CallersInv'
    BY <1>2, LifeKept
  <2> QED
    BY <2>1, <2>2, <2>3, <2>4
<1>3. CASE UNCHANGED vars
  <2>1. TypeOK'
    BY <1>3 DEF TypeOK, vars, chip, cursor, place, life, history
  <2>2. \A u \in Threads : PlaceOK(u)'
    BY <1>3, PlaceSame DEF vars, place
  <2>3. ScreenInv'
    <3>1. \A u \in Threads : Follows(u) => Follows(u)'
      BY <1>3, FollowsSame DEF vars, chip, cursor, place
    <3>2. \A u \in Threads : Sent(u)' = Sent(u)
      BY <1>3 DEF Sent, vars, place
    <3>3. \A r \in Rows : RowOK(r) => RowOK(r)'
      BY <1>3, <3>2 DEF RowOK, Agrees, vars, chip, place, history
    <3>4. (TimeCovers => TimeCovers') /\ (PosInWindow => PosInWindow')
      BY <1>3 DEF TimeCovers, PosInWindow, vars, chip, history
    <3> QED
      BY <1>3, <3>1, <3>3, <3>4 DEF ScreenInv, vars, history
  <2>4. LifeInv' /\ CallersInv'
    BY <1>3 DEF LifeInv, CallersInv, Busy, vars, place, life
  <2> QED
    BY <2>1, <2>2, <2>3, <2>4
<1> QED
  BY <1>1, <1>2, <1>3, NextSteps

LEMMA Safe == Spec => []Inv
<1>1. Init => Inv
  BY InitInv
<1>2. Inv /\ [Next]_vars => Inv'
  BY StepInv
<1> QED
  BY <1>1, <1>2, PTL DEF Spec

(***************************************************************************)
(* A row shows what was printed there last (ssd1306.c:280-288), for every  *)
(* size of the display, every text that fits and every order of the three  *)
(* threads' calls: nobody prints there, so what RowOK allows besides the   *)
(* agreement has no thread.                                                *)
(***************************************************************************)
THEOREM ShowsExact == Spec => []RowsExact
<1>1. Inv => RowsExact
  <2> SUFFICES ASSUME Inv, ~garbled, NEW r \in Rows, shown[r] # NoRow, ~Printing(r)
               PROVE  \A c \in 0 .. max_X - 1 : screen[r][c] = shown[r][c]
    BY DEF RowsExact
  <2>1. RowOK(r)
    BY DEF Inv, ScreenInv
  <2> QED
    BY <2>1 DEF RowOK, Printing, Agrees
<1> QED
  BY <1>1, Safe, PTL

(***************************************************************************)
(* Every variable has its type, and once remove has returned nothing of    *)
(* the periodic work is left, unless the timer fired between the two       *)
(* calls that stop it (ssd1306.c:125-126).                                 *)
(***************************************************************************)
THEOREM LeavesNothing == Spec => []NothingLeft
<1>1. Inv => NothingLeft
  BY DEF Inv, LifeInv, NothingLeft
<1> QED
  BY <1>1, Safe, PTL

=============================================================================
