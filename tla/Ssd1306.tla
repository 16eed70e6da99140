------------------------------ MODULE Ssd1306 ------------------------------
(***************************************************************************)
(* The display driver (Driver/ssd1306.c): probe, remove and shutdown, the  *)
(* periodic work item and ioctl() share one chip, and the cursor           *)
(* current_X, current_Y.  The mutex covers one byte of a command or one    *)
(* burst; a line of text is many of them.                                  *)
(*                                                                         *)
(* A thread has a sequence of calls to make, todo, and is at one operation *)
(* of the call it has begun: a byte sequence, a cell, an assignment.       *)
(***************************************************************************)
EXTENDS Integers, Sequences

CONSTANTS max_X, max_Y,
          Chars,                \* what a text is made of
          Blank, Picture,       \* a cell of zeros, of a bitmap
          Unknown,              \* a cell that may hold anything
          NoRow,                \* a row of which nothing is promised
          WorkLines, AppLines,  \* the lines getinfo and the ioctl print, in order
          Texts,                \* line -> what may be printed there
          MaySkip,              \* lines that some errors leave unprinted
          NeedsFile,            \* lines of getinfo that are read from a file
          WALL_TIME,            \* printed without clear_row
          Title, Wait, GoodBye  \* [x, y, text]

Rows == 0 .. max_Y
Cols == 0 .. max_X
BlankRow == [c \in Cols |-> Blank]
Strings == {Title, Wait, GoodBye}

\* No text is longer than a row (sprintf into 20 bytes); a time is as long as any other,
\* and covers what else is printed there.
ASSUME DisplayAssumption ==
  /\ max_X \in 1 .. 255 /\ max_Y \in 1 .. 255
  /\ WALL_TIME \in Rows
  /\ WorkLines \in Seq(Rows) /\ AppLines \in Seq(Rows)
  /\ \A l \in Rows : \A s \in Texts[l] : s \in Seq(Chars) /\ Len(s) \in 1 .. max_X
  /\ \A o \in Strings :
       /\ o \in [x : Cols, y : Rows, text : Seq(Chars)]
       /\ o.text # <<>> /\ o.x + Len(o.text) <= max_X
  /\ \A s \in Texts[WALL_TIME] :
       /\ \A r \in Texts[WALL_TIME] : Len(r) = Len(s)
       /\ \A o \in Strings : o.y = WALL_TIME => o.x + Len(o.text) <= Len(s)

Threads == {"drv", "work", "app"}
NoThread == "none"

VARIABLES
  screen,              \* the chip's memory
  window,              \* where its column and page range begin
  pos,                 \* where it writes next
  command,             \* the thread of whose command it awaits more bytes
  current_X, current_Y,
  todo,                \* per thread: the calls it has still to make
  call,                \* per thread: the one it has begun,
  op,                  \* its next operation,
  target,              \* where goto_xy goes, and what comes then,
  n,                   \* and how many blanks or characters have been sent
  phase,               \* of the driver's life
  timer, handler,      \* armed; tmHandler has been called
  queued,              \* schedule_work, and getinfo has not started
  dead,                \* the worker has died in getinfo
  garbled,             \* history: the bytes of two commands were mixed
  disturbed,           \* history, per thread: another one worked during its call
  late,                \* history: tmHandler scheduled the work during remove
  shown                \* history: what each row should hold

chip == <<screen, window, pos, command>>
cursor == <<current_X, current_Y>>
place == <<call, op, target, n>>
life == <<phase, timer, handler, queued, dead, late>>
history == <<garbled, disturbed, shown>>
vars == <<chip, cursor, todo, place, life, history>>

Phases == {"absent", "init", "boot", "up", "cancel", "del_timer", "clear",
           "shutdown", "off"}
Operations == {"none", "picture", "blank", "bytes", "goto", "cursor", "char", "data",
               "advance", "cleared", "printed"}
Calls == [name : {"none", "picture", "clear", "print", "string"},
          x : Cols, y : Rows, text : Seq(Chars)]
Todos == {<<"clear">>, <<"picture">>, <<"mod_timer">>}
           \cup ({"print"} \X Rows) \cup ({"string"} \X Strings)

NoCall == [name |-> "none", x |-> 0, y |-> 0, text |-> <<>>]
Home   == [x |-> 0, y |-> 0, then |-> "char"]

TypeOK ==
  /\ DOMAIN screen = Rows /\ \A r \in Rows : DOMAIN screen[r] = Cols
  /\ window \in Cols \X Rows /\ pos \in Cols \X Rows
  /\ command \in Threads \cup {NoThread}
  /\ current_X \in 0 .. 255 /\ current_Y \in Rows
  /\ todo \in [Threads -> Seq(Todos)]
  /\ call \in [Threads -> Calls]
  /\ op \in [Threads -> Operations]
  /\ target \in [Threads -> [x : Cols, y : Rows, then : Operations]]
  /\ n \in [Threads -> Nat]
  /\ phase \in Phases
  /\ timer \in BOOLEAN /\ handler \in BOOLEAN /\ queued \in BOOLEAN
  /\ dead \in BOOLEAN /\ garbled \in BOOLEAN /\ late \in BOOLEAN
  /\ disturbed \in [Threads -> BOOLEAN]
  /\ DOMAIN shown = Rows

\* The chip after power-on, and no driver yet.
Init ==
  /\ screen = [r \in Rows |-> BlankRow]
  /\ window = <<0, 0>> /\ pos = <<0, 0>> /\ command = NoThread
  /\ current_X = 0 /\ current_Y = 0
  /\ todo = [t \in Threads |-> <<>>]
  /\ call = [t \in Threads |-> NoCall] /\ op = [t \in Threads |-> "none"]
  /\ target = [t \in Threads |-> Home] /\ n = [t \in Threads |-> 0]
  /\ phase = "absent" /\ timer = FALSE /\ handler = FALSE /\ queued = FALSE
  /\ dead = FALSE /\ late = FALSE /\ garbled = FALSE
  /\ disturbed = [t \in Threads |-> FALSE]
  /\ shown = [r \in Rows |-> NoRow]

-----------------------------------------------------------------------------
(* Where a thread is. *)

Nexts(t, name) == op[t] = "none" /\ todo[t] # <<>> /\ Head(todo[t])[1] = name

Busy(t) == op[t] # "none" \/ todo[t] # <<>>

Becomes(t, o) == op' = [op EXCEPT ![t] = o]

Counts(t, k) == n' = [n EXCEPT ![t] = k]

\* The bytes of goto_xy(x, y) come next, and then operation o.
ssd1306_goto_xy(t, x, y, o) ==
  /\ Becomes(t, "bytes")
  /\ target' = [target EXCEPT ![t] = [x |-> x, y |-> y, then |-> o]]

Begins(t, c) ==
  /\ todo' = [todo EXCEPT ![t] = Tail(@)]
  /\ call' = [call EXCEPT ![t] = c]
  /\ Counts(t, 0)
  /\ disturbed' = [disturbed EXCEPT ![t] = FALSE]

Returns(t) ==
  /\ Becomes(t, "none") /\ Counts(t, 0)
  /\ call' = [call EXCEPT ![t] = NoCall] /\ target' = [target EXCEPT ![t] = Home]

\* The other threads, if in the middle of something, no longer know where the
\* chip and the cursor are.
Disturb(t) ==
  disturbed' = [u \in Threads |-> disturbed[u] \/ (u # t /\ op[u] # "none")]

Uses(t) == command \in {NoThread, t}

-----------------------------------------------------------------------------
(* A step of thread t: a call begins. *)

\* The calls of the driver's own thread.  ssd1306_clear sends its blanks to where the
\* last goto_xy was, and to the rows from there on.
Begin(t) ==
  /\ \/ /\ Nexts(t, "picture")
        /\ Begins(t, [name |-> "picture", x |-> 0, y |-> 0, text |-> <<>>])
        /\ Becomes(t, "picture") /\ UNCHANGED target
     \/ /\ Nexts(t, "clear")
        /\ Begins(t, [name |-> "clear", x |-> window[1], y |-> window[2], text |-> <<>>])
        /\ Becomes(t, "blank") /\ UNCHANGED target
     \/ /\ Nexts(t, "string")
        /\ LET o == Head(todo[t])[2] IN
             /\ Begins(t, [name |-> "string", x |-> o.x, y |-> o.y, text |-> o.text])
             /\ ssd1306_goto_xy(t, o.x, o.y, "char")
  /\ UNCHANGED <<chip, cursor, life, garbled, shown>>

\* Mutant: a shorter text leaves the end of the longer one.
LineUncleared(l) == "char"

\* What the printing of a line starts with: clear_row, but not for the time.
Line(l) == IF l = WALL_TIME THEN "char" ELSE "blank"

\* One of the printing functions begins: it formats its text, or returns without it:
\* an interface without IPv4, a temperature that cannot be read or is no number.
PrintLine(t) ==
  /\ Nexts(t, "print")
  /\ LET l == Head(todo[t])[2] IN
       \/ \E s \in Texts[l] :
            /\ Begins(t, [name |-> "print", x |-> 0, y |-> l, text |-> s])
            /\ ssd1306_goto_xy(t, 0, l, Line(l))
       \/ /\ l \in MaySkip
          /\ todo' = [todo EXCEPT ![t] = Tail(@)]
          /\ UNCHANGED <<place, disturbed>>
  /\ UNCHANGED <<chip, cursor, life, garbled, shown>>

-----------------------------------------------------------------------------
(* The operations. *)

\* Bytes sent into another thread's command: from then on nothing is said of
\* chip and cursor, and the calls that use them are left out.
Garble(t) ==
  /\ Busy(t) /\ ~Nexts(t, "mod_timer")
  /\ \/ garbled
     \/ command \notin {NoThread, t} /\ op[t] \in {"bytes", "blank", "data", "picture"}
  /\ garbled' = TRUE
  /\ todo' = [todo EXCEPT ![t] = IF t = "work" THEN <<<<"mod_timer">>>> ELSE <<>>]
  /\ Returns(t)
  /\ screen' = [r \in Rows |-> BlankRow] /\ shown' = [r \in Rows |-> NoRow]
  /\ window' = <<0, 0>> /\ pos' = <<0, 0>> /\ command' = NoThread
  /\ current_X' = 0 /\ current_Y' = 0
  /\ disturbed' = [u \in Threads |-> FALSE]
  /\ UNCHANGED life

\* All bytes of the two commands but the last.
SendBytes(t) ==
  /\ op[t] = "bytes" /\ Uses(t)
  /\ command' = t
  /\ Becomes(t, "goto") /\ Disturb(t)
  /\ UNCHANGED <<screen, window, pos, cursor, todo, call, target, n, life, garbled, shown>>

Goto(t) ==
  /\ op[t] = "goto"
  /\ window' = <<target[t].x, target[t].y>> /\ pos' = window'
  /\ command' = NoThread
  /\ Becomes(t, "cursor") /\ Disturb(t)
  /\ UNCHANGED <<screen, cursor, todo, call, target, n, life, garbled, shown>>

SetCursor(t) ==
  /\ op[t] = "cursor"
  /\ current_X' = target[t].x /\ current_Y' = target[t].y
  /\ Becomes(t, target[t].then) /\ Disturb(t)
  /\ UNCHANGED <<chip, todo, call, target, n, life, garbled, shown>>

\* The chip goes on to the next page, and from the last one back.
NextPos ==
  IF pos[1] < max_X THEN <<pos[1] + 1, pos[2]>>
  ELSE <<window[1], IF pos[2] < max_Y THEN pos[2] + 1 ELSE window[2]>>

\* How many blanks ssd1306_clear and ssd1306_clear_row send.
Blanks(c) == IF c.name = "clear" THEN (max_X + 1) * (max_Y + 1) ELSE max_X

\* A blank is sent; after the last one the whole screen's cursor goes home, and in a
\* row the text begins.
Blanked(t) ==
  /\ op[t] = "blank"
  /\ \/ n[t] + 1 < Blanks(call[t]) /\ Counts(t, n[t] + 1) /\ UNCHANGED <<op, target>>
     \/ /\ n[t] + 1 = Blanks(call[t]) /\ Counts(t, 0)
        /\ IF call[t].name = "clear" THEN ssd1306_goto_xy(t, 0, 0, "cleared")
           ELSE ssd1306_goto_xy(t, call[t].x, call[t].y, "char")

Drawn(t) == op[t] = "data" /\ Becomes(t, "advance") /\ UNCHANGED <<target, n>>

SendData(t) ==
  /\ Uses(t) /\ ~disturbed[t]
  /\ Blanked(t) \/ Drawn(t)
  /\ screen' = [screen EXCEPT ![pos[2]][pos[1]] =
                  IF op[t] = "blank" THEN Blank ELSE call[t].text[n[t] + 1]]
  /\ pos' = NextPos
  /\ Disturb(t)
  /\ UNCHANGED <<window, command, cursor, todo, call, life, garbled, shown>>

\* A disturbed thread may write to any row. Where it leaves the chip does not
\* matter: a line begins with goto_xy, and a clear or a bitmap goes all round.
Spoil(t) ==
  /\ Uses(t) /\ disturbed[t]
  /\ Blanked(t) \/ Drawn(t)
  /\ screen' = [r \in Rows |-> [c \in Cols |-> Unknown]]
  /\ shown' = [r \in Rows |-> NoRow]
  /\ pos' = window
  /\ Disturb(t)
  /\ UNCHANGED <<window, command, cursor, todo, call, life, garbled>>

\* ssd1306_draw_bitmap: the whole bitmap in one burst. One stands for those of
\* an animation, each of which covers the one before.
SendPicture(t) ==
  /\ op[t] = "picture" /\ Uses(t)
  /\ screen' = [r \in Rows |-> [c \in Cols |->
                  IF r >= window[2] /\ c >= window[1] THEN Picture ELSE screen[r][c]]]
  /\ shown' = [r \in Rows |-> NoRow]
  /\ Returns(t) /\ Disturb(t)
  /\ UNCHANGED <<window, pos, command, cursor, todo, life, garbled>>

NextLine(y) == IF y = max_Y THEN 0 ELSE y + 1

\* send_char looks whether the row is full.
SendChar(t) ==
  /\ op[t] = "char"
  /\ IF current_X = max_X
       THEN /\ current_Y' = NextLine(current_Y)
            /\ ssd1306_goto_xy(t, 0, NextLine(current_Y), "data")
       ELSE Becomes(t, "data") /\ UNCHANGED <<current_Y, target>>
  /\ Disturb(t)
  /\ UNCHANGED <<chip, current_X, todo, call, n, life, garbled, shown>>

Advance(t) ==
  /\ op[t] = "advance"
  /\ current_X' = (current_X + 1) % 256
  /\ Counts(t, n[t] + 1)
  /\ Becomes(t, IF n[t] + 1 = Len(call[t].text) THEN "printed" ELSE "char")
  /\ Disturb(t)
  /\ UNCHANGED <<chip, current_Y, todo, call, target, life, garbled, shown>>

\* ssd1306_clear returns: the rows are blank, where it began with their first cell.
Cleared(t) ==
  /\ op[t] = "cleared"
  /\ shown' = [r \in Rows |->
                 IF r < call[t].y THEN shown[r]
                 ELSE IF disturbed[t] \/ call[t].x # 0 THEN NoRow ELSE BlankRow]
  /\ Returns(t)
  /\ disturbed' = [disturbed EXCEPT ![t] = FALSE]
  /\ UNCHANGED <<chip, cursor, todo, life, garbled>>

\* A row with the first k characters of a call's text.
Overlaid(c, k, row) ==
  [col \in Cols |-> IF col \in c.x .. c.x + k - 1 THEN c.text[col - c.x + 1] ELSE row[col]]

\* What comes to stand over what the row had, and shows only if that is known.
Overprints(c) == c.name = "string" \/ c.y = WALL_TIME

\* send_string returns.  A line is to show its text alone, a string stands over what
\* the row had.
Printed(t) ==
  /\ op[t] = "printed"
  /\ LET c == call[t] IN
       shown' = [shown EXCEPT ![c.y] =
                   IF disturbed[t] \/ (Overprints(c) /\ @ = NoRow) THEN NoRow
                   ELSE Overlaid(c, Len(c.text), IF c.name = "string" THEN @ ELSE BlankRow)]
  /\ Returns(t)
  /\ disturbed' = [disturbed EXCEPT ![t] = FALSE]
  /\ UNCHANGED <<chip, cursor, todo, life, garbled>>

Call(t) ==
  \/ Begin(t) \/ PrintLine(t)
  \/ SendBytes(t) \/ Goto(t) \/ SetCursor(t)
  \/ SendData(t) \/ Spoil(t) \/ SendPicture(t)
  \/ SendChar(t) \/ Advance(t)
  \/ Cleared(t) \/ Printed(t)

Step(t) == Garble(t) \/ (~garbled /\ Call(t))

-----------------------------------------------------------------------------
(* The timer and the work item. *)

PrintLines(lines) == [i \in DOMAIN lines |-> <<"print", lines[i]>>]

TimerFires ==
  /\ timer
  /\ timer' = FALSE /\ handler' = TRUE
  /\ UNCHANGED <<chip, cursor, todo, place, phase, queued, dead, late, history>>

tmHandler ==
  /\ handler
  /\ handler' = FALSE /\ queued' = TRUE
  /\ late' = (late \/ phase \in {"del_timer", "clear"})
  /\ UNCHANGED <<chip, cursor, todo, place, phase, timer, dead, history>>

getinfo ==
  /\ queued /\ ~Busy("work") /\ ~dead /\ phase # "absent"
  /\ queued' = FALSE
  /\ todo' = [todo EXCEPT !["work"] = PrintLines(WorkLines) \o <<<<"mod_timer">>>>]
  /\ UNCHANGED <<chip, cursor, place, phase, timer, handler, dead, late, history>>

\* Mutant: the work is done once.
ModTimerForgotten ==
  /\ Nexts("work", "mod_timer")
  /\ todo' = [todo EXCEPT !["work"] = Tail(@)]
  /\ UNCHANGED <<chip, cursor, place, life, history>>

ModTimer ==
  /\ Nexts("work", "mod_timer")
  /\ timer' = TRUE
  /\ todo' = [todo EXCEPT !["work"] = Tail(@)]
  /\ UNCHANGED <<chip, cursor, place, phase, handler, queued, dead, late, history>>

\* filp_open fails: its error pointer is tested for NULL only (385, 413) and used. The
\* worker dies of it, with the lines still to come and mod_timer.
OpenFails ==
  /\ Nexts("work", "print") /\ Head(todo["work"])[2] \in NeedsFile
  /\ dead' = TRUE
  /\ todo' = [todo EXCEPT !["work"] = <<>>]
  /\ UNCHANGED <<chip, cursor, place, phase, timer, handler, queued, late, history>>

Work == TimerFires \/ tmHandler \/ getinfo \/ ModTimer \/ OpenFails \/ Step("work")

\* ioctl(PUT_NODE_INFO), for each reading the gateway takes: show_lastest_node_info.
oled_ioctl ==
  /\ ~Busy("app")
  /\ phase \in {"boot", "up"}
  /\ todo' = [todo EXCEPT !["app"] = PrintLines(AppLines)]
  /\ UNCHANGED <<chip, cursor, place, life, history>>

-----------------------------------------------------------------------------
(* The driver's own thread. *)

Enters(p, ops) ==
  /\ phase' = p
  /\ todo' = [todo EXCEPT !["drv"] = ops]

Idle == ~Busy("drv")

\* oled_probe: ssd1306_init. The chip keeps what it held.
Probe ==
  /\ phase = "absent" /\ ~late
  /\ Enters("init", <<<<"clear">>>>)
  /\ current_X' = 0 /\ current_Y' = 0
  /\ UNCHANGED <<chip, place, timer, handler, queued, dead, late, history>>

\* misc_register: from here on the device can be opened.
Register ==
  /\ phase = "init" /\ Idle
  /\ Enters("boot", <<<<"picture">>, <<"clear">>, <<"string", Title>>,
                    <<"string", Wait>>>>)
  /\ UNCHANGED <<chip, cursor, place, timer, handler, queued, dead, late, history>>

RegisterFails ==
  /\ phase = "init" /\ Idle
  /\ Enters("absent", <<>>)
  /\ UNCHANGED <<chip, cursor, place, timer, handler, queued, dead, late, history>>

AddTimer ==
  /\ phase = "boot" /\ Idle
  /\ Enters("up", <<>>)
  /\ timer' = TRUE
  /\ UNCHANGED <<chip, cursor, place, handler, queued, dead, late, history>>

\* oled_remove, for rmmod: nobody has the device open, or can open it.
Remove ==
  /\ phase = "up" /\ ~Busy("app")
  /\ Enters("cancel", <<>>)
  /\ UNCHANGED <<chip, cursor, place, timer, handler, queued, dead, late, history>>

\* Mutant: cancel_work, which waits for nothing.
CancelWorkOnly ==
  /\ phase = "cancel"
  /\ queued' = FALSE
  /\ Enters("del_timer", <<>>)
  /\ UNCHANGED <<chip, cursor, place, timer, handler, dead, late, history>>

\* cancel_work_sync waits for a work item that runs, and for ever for one that died.
CancelWork ==
  /\ phase = "cancel" /\ ~Busy("work") /\ ~dead
  /\ queued' = FALSE
  /\ Enters("del_timer", <<>>)
  /\ UNCHANGED <<chip, cursor, place, timer, handler, dead, late, history>>

DelTimer ==
  /\ phase = "del_timer"
  /\ timer' = FALSE
  /\ Enters("clear", <<<<"clear">>>>)
  /\ UNCHANGED <<chip, cursor, place, handler, queued, dead, late, history>>

\* The buffer and the device are gone; the display is off. While the screen was
\* cleared tmHandler has long ended.
Removed ==
  /\ phase = "clear" /\ Idle /\ ~handler
  /\ Enters("absent", <<>>)
  /\ UNCHANGED <<chip, cursor, place, timer, handler, queued, dead, late, history>>

\* board_shutdown: processes have ended, but neither timer nor work is stopped.
Shutdown ==
  /\ phase = "up" /\ ~Busy("app")
  /\ Enters("shutdown", <<<<"clear">>, <<"picture">>, <<"clear">>,
                        <<"string", GoodBye>>>>)
  /\ UNCHANGED <<chip, cursor, place, timer, handler, queued, dead, late, history>>

DisplayOff ==
  /\ phase = "shutdown" /\ Idle
  /\ Enters("off", <<>>)
  /\ UNCHANGED <<chip, cursor, place, timer, handler, queued, dead, late, history>>

Driver ==
  \/ Probe \/ Register \/ RegisterFails \/ AddTimer
  \/ Remove \/ CancelWork \/ DelTimer \/ Removed
  \/ Shutdown \/ DisplayOff
  \/ Step("drv")

\* The work item of a driver that is gone uses freed memory.
\* After the shutdown the machine stops.  A remove may never return.
Over ==
  /\ \/ phase = "absent" /\ late
     \/ phase = "cancel" /\ dead
     \/ phase = "off"
  /\ UNCHANGED vars

Next == Work \/ oled_ioctl \/ Step("app") \/ Driver \/ Over

Spec == Init /\ [][Next]_vars

\* The kernel runs timers and work items.
FairSpec == Spec /\ WF_vars(Work)

-----------------------------------------------------------------------------

(***************************************************************************)
(* A row shows what was printed there last, and nothing of what stood      *)
(* there before (clear_row, ssd1306.c:280-288), if no other thread was at  *)
(* work during that line and none has run into the row since, whatever     *)
(* else happened before.  The last cell, where no text comes, is not       *)
(* cleared either.  The row of the time, printed without clear_row, is     *)
(* right only as long as it has never been disturbed (ssd1306.c:371-379).  *)
(***************************************************************************)
RowsOf(c) ==
  CASE c.name = "clear" -> c.y .. max_Y
    [] c.name \in {"print", "string"} -> {c.y}
    [] OTHER -> {}

Printing(r) == \E t \in Threads : r \in RowsOf(call[t])

RowsExact ==
  ~garbled =>
    \A r \in Rows : shown[r] # NoRow /\ ~Printing(r) =>
      \A c \in 0 .. max_X - 1 : screen[r][c] = shown[r][c]

(***************************************************************************)
(* Once remove has returned nothing of the periodic work is left           *)
(* (ssd1306.c:125-126): the work item is stopped before the timer that it  *)
(* arms again.  Unless the timer fires between the two calls.  (And every  *)
(* variable has its type.)                                                 *)
(***************************************************************************)
NothingLeft ==
  /\ TypeOK
  /\ phase = "absent" /\ ~late => ~timer /\ ~queued /\ ~Busy("work")

(***************************************************************************)
(* While the driver is there, the display is refreshed again and again:    *)
(* timer, handler and work item restart one another (ssd1306.c:322-338),   *)
(* also after a round that has left lines out, until the worker dies of a  *)
(* file that could not be opened: that round never comes to mod_timer.     *)
(***************************************************************************)
Refreshed == phase = "up" ~> Busy("work") \/ dead \/ phase # "up"

=============================================================================
