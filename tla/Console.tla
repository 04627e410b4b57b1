------------------------------ MODULE Console ------------------------------
(***************************************************************************)
(* The kernel's consoles (base/console.c): their cell buffers, what the    *)
(* control functions do to them, and what con_render leaves on the screen. *)
(*                                                                         *)
(* con_mtx makes a con_write, a con_print and a con_switch one after the   *)
(* other; a write is its characters one by one between Begin and End.  A   *)
(* cell is a character and an attribute; the rendered bits are a set of    *)
(* cells.  How a byte stream becomes control functions is ConsoleInput's.  *)
(***************************************************************************)
EXTENDS Integers, FiniteSets, FiniteSetsExt

CONSTANTS
  Consoles,    \* the consoles
  Columns, Rows,
  Ops,     \* control functions that are used
  Params,  \* values of their parameter
  MaxOps   \* bound: characters and control functions

First == CHOOSE i \in Consoles : TRUE
Nobody == "nobody"

X == 0 .. Columns - 1
Y == 0 .. Rows - 1
Cell == X \X Y
Attr == 0 .. 1
Content == {"blank", "a"} \X Attr
Default == 1 \* 0x00800000
Zero == <<"blank", 0>>

VARIABLES
  con,    \* con_array
  shown,  \* con_switch_state
  screen, \* per cell: what the frame buffer shows, and whether the cursor is on it
  busy,   \* the console that a write is under way for
  nops,   \* number of operations
  due,    \* consoles that con_switch has yet to write nothing to
  did,    \* history: the last operation
  kept    \* history, per console: the main screen as it was left

vars == <<con, shown, screen, busy, nops, due, did, kept>>

Blank == [c \in Cell |-> Zero]

\* con_init_variables, and the cell buffers zeroed: all of it unrendered.
Fresh ==
  [x |-> 0, y |-> 0, first |-> 0, last |-> Rows - 1, wrap |-> FALSE, visible |-> TRUE, attr |-> Default,
   tabs |-> {i \in X : i % 2 = 0} \cup {Columns - 1},
   alt |-> FALSE, cells |-> [main |-> Blank, alt |-> Blank], rendered |-> [main |-> {}, alt |-> {}],
   cursor |-> [attr |-> 0, x |-> 0, y |-> 0],
   saved |-> [attr |-> 0, x |-> 0, y |-> 0, first |-> 0, last |-> 0]]

Buf(s) == IF s.alt THEN "alt" ELSE "main"

StateOK(s) ==
  /\ s.x \in X /\ s.y \in Y /\ s.attr \in Attr
  /\ s.first \in Y /\ s.last \in Y /\ s.first <= s.last
  /\ s.cells \in [{"main", "alt"} -> [Cell -> Content]] /\ \A b \in {"main", "alt"} : s.rendered[b] \subseteq Cell
  /\ Columns - 1 \in s.tabs

TypeOK ==
  /\ \A i \in Consoles : StateOK(con[i])
  /\ shown \in Consoles \cup {Nobody} /\ busy \in Consoles \cup {Nobody}
  /\ screen \in [Cell -> Content \X BOOLEAN]

\* The first write after con_init draws what was not drawn yet.
Init ==
  /\ con = [i \in Consoles |-> Fresh] /\ shown = First
  /\ screen = [c \in Cell |-> <<Zero, FALSE>>]
  /\ busy = First /\ nops = 0 /\ due = {} /\ did = "none" /\ kept = [i \in Consoles |-> Fresh]

-----------------------------------------------------------------------------
(* Changing cells: a cell that gets new content is no longer rendered.      *)

StoreKeepsBits(s, f) == [s EXCEPT !.cells[Buf(s)] = f]

\* Cells of the current buffer become f's, where they differ.
Store(s, f) ==
  LET b == Buf(s) IN
  [s EXCEPT !.cells[b] = f, !.rendered[b] = {c \in @ : f[c] = s.cells[b][c]}]

\* Cells are written whatever they were.
Erase(s, set) ==
  LET b == Buf(s) IN
  [s EXCEPT !.cells[b] = [c \in Cell |-> IF c \in set THEN <<"blank", s.attr>> ELSE @[c]],
            !.rendered[b] = @ \ set]

ScrollUpAll(s, top, n) ==
  LET f == s.cells[Buf(s)] IN
  Store(s, [c \in Cell |->
    IF c[2] < top THEN f[c]
    ELSE IF c[2] + n < Rows THEN f[<<c[1], c[2] + n>>] ELSE <<"blank", s.attr>>])

\* con_scroll_up and con_scroll_down, n times, from the given first line.
ScrollUp(s, top, n) ==
  LET f == s.cells[Buf(s)] IN
  Store(s, [c \in Cell |->
    IF c[2] < top \/ c[2] > s.last THEN f[c]
    ELSE IF c[2] + n <= s.last THEN f[<<c[1], c[2] + n>>] ELSE <<"blank", s.attr>>])

ScrollDown(s, top, n) ==
  LET f == s.cells[Buf(s)] IN
  Store(s, [c \in Cell |->
    IF c[2] < top \/ c[2] > s.last THEN f[c]
    ELSE IF c[2] - n >= top THEN f[<<c[1], c[2] - n>>] ELSE <<"blank", s.attr>>])

\* con_increment_row.
IncrementRow(s) ==
  IF s.y + 1 = s.last + 1 THEN ScrollUp(s, s.first, 1)
  ELSE [s EXCEPT !.y = IF s.y + 1 >= Rows THEN Rows - 1 ELSE s.y + 1]

-----------------------------------------------------------------------------
(* con_write_locked: the characters.                                        *)

SettleNever(s) == s

\* The end of the loop: the delay is for the last column only.
Settle(s) == [s EXCEPT !.wrap = @ /\ s.x = Columns - 1]

Put(s, ch) ==
  LET t == IF s.wrap /\ s.x = Columns - 1 THEN IncrementRow([s EXCEPT !.x = 0]) ELSE s
      b == Buf(t)
      u == [t EXCEPT !.cells[b][<<t.x, t.y>>] = <<ch, t.attr>>, !.rendered[b] = @ \ {<<t.x, t.y>>}]
  IN  IF t.x + 1 >= Columns THEN [u EXCEPT !.x = Columns - 1, !.wrap = TRUE]
      ELSE [u EXCEPT !.x = t.x + 1]

\* The next tabulator stop, or the next line.
Tab(s) ==
  LET stops == {i \in s.tabs : i > s.x} IN
  IF stops = {} THEN [IncrementRow(s) EXCEPT !.x = 0] ELSE [s EXCEPT !.x = Min(stops)]

Control(s, op) ==
  CASE op = "a" -> Put(s, "a")
    [] op = "space" -> Put(s, "blank")
    [] op = "BS" -> [s EXCEPT !.x = IF s.x > 0 THEN s.x - 1 ELSE 0]
    [] op = "HT" -> Tab(s)
    [] op = "LF" -> IncrementRow([s EXCEPT !.x = 0])
    [] op = "CR" -> [s EXCEPT !.x = 0]

Controls == {"a", "space", "BS", "HT", "LF", "CR"}

-----------------------------------------------------------------------------
(* con_handle_escape: the control functions with their parameter n, which   *)
(* is one at least where the code makes it so.                              *)

ClampYLate(v) == IF v < 0 THEN 0 ELSE IF v > Rows THEN Rows - 1 ELSE v
ClampXLate(v) == IF v < 0 THEN 0 ELSE IF v > Columns THEN Columns - 1 ELSE v

ClampY(v) == IF v < 0 THEN 0 ELSE IF v >= Rows THEN Rows - 1 ELSE v
ClampX(v) == IF v < 0 THEN 0 ELSE IF v >= Columns THEN Columns - 1 ELSE v

MoveKeepsWrap(s, nx, ny) == [s EXCEPT !.x = ClampX(nx), !.y = ClampY(ny)]

\* The cursor is moved, which ends the delay.
Move(s, nx, ny) == [s EXCEPT !.x = ClampX(nx), !.y = ClampY(ny), !.wrap = FALSE]

\* The n-th stop after the cursor, or the last column.
ForwardTab(s, n) ==
  LET nth == {i \in s.tabs : i > s.x /\ Cardinality({j \in s.tabs : j > s.x /\ j <= i}) = n} IN
  IF nth # {} THEN Min(nth)
  ELSE Max({i \in s.tabs : i > s.x} \cup {Columns - 1})

\* The n-th stop before it, the first column being one.
BackTab(s, n) ==
  LET before == {i \in s.tabs \cup {0} : i < s.x}
      nth == {i \in before : Cardinality({j \in before : j >= i}) = n}
  IN  IF before = {} THEN s.x ELSE IF nth # {} THEN Min(nth) ELSE 0

Cursor(s, op, n) ==
  CASE op = "CUU" -> Move(s, s.x, s.y - n)
    [] op = "CUD" -> Move(s, s.x, s.y + n)
    [] op = "CUF" -> Move(s, s.x + n, s.y)
    [] op = "CUB" -> Move(s, s.x - n, s.y)
    [] op = "CNL" -> Move(s, 0, s.y + n)
    [] op = "CPL" -> Move(s, 0, s.y - n)
    [] op = "CHA" -> Move(s, n - 1, s.y)
    [] op = "CUP" -> Move(s, n - 1, n - 1)
    [] op = "VPA" -> Move(s, s.x, n - 1)
    [] op = "CHT" -> Move(s, ForwardTab(s, n), s.y)
    [] op = "CBT" -> Move(s, BackTab(s, n), s.y)

Cursors == {"CUU", "CUD", "CUF", "CUB", "CNL", "CPL", "CHA", "CUP", "VPA", "CHT", "CBT"}

Line(s) == {c \in Cell : c[2] = s.y}

\* Characters of the line move right or left.
InsertChar(s, n) ==
  LET f == s.cells[Buf(s)] IN
  Store(s, [c \in Cell |->
    IF c[2] # s.y \/ c[1] < s.x THEN f[c]
    ELSE IF c[1] - n >= s.x THEN f[<<c[1] - n, c[2]>>] ELSE <<"blank", s.attr>>])

DeleteChar(s, n) ==
  LET f == s.cells[Buf(s)] IN
  Store(s, [c \in Cell |->
    IF c[2] # s.y \/ c[1] < s.x THEN f[c]
    ELSE IF c[1] + n < Columns THEN f[<<c[1] + n, c[2]>>] ELSE <<"blank", s.attr>>])

EraseChar(s, n) ==
  LET f == s.cells[Buf(s)] IN
  Store(s, [c \in Cell |-> IF c[2] = s.y /\ c[1] >= s.x /\ c[1] < s.x + n THEN <<"blank", s.attr>> ELSE f[c]])

Before(s) == {c \in Cell : c[2] < s.y \/ (c[2] = s.y /\ c[1] <= s.x)}
After(s) == {c \in Cell : c[2] > s.y \/ (c[2] = s.y /\ c[1] >= s.x)}

\* IL and DL work from the cursor's line, inside the scrolling region only.
InRegion(s) == s.y >= s.first /\ s.y <= s.last

Edit(s, op, n) ==
  CASE op = "ICH" -> InsertChar(s, n)
    [] op = "DCH" -> DeleteChar(s, n)
    [] op = "ECH" -> EraseChar(s, n)
    [] op = "ED" -> Erase(s, IF n = 1 THEN Before(s) ELSE IF n \in {2, 3} THEN Cell ELSE {})
    [] op = "ED0" -> Erase(s, After(s))
    [] op = "EL" -> Erase(s, Line(s) \cap (IF n = 1 THEN Before(s) ELSE IF n = 2 THEN Cell ELSE {}))
    [] op = "EL0" -> Erase(s, Line(s) \cap After(s))
    [] op = "IL" -> IF InRegion(s) THEN ScrollDown(s, s.y, n) ELSE s
    [] op = "DL" -> IF InRegion(s) THEN ScrollUp(s, s.y, n) ELSE s
    [] op = "SU" -> ScrollUp(s, s.first, n)
    [] op = "SD" -> ScrollDown(s, s.first, n)
    [] op = "RI" -> IF s.y = s.first THEN ScrollDown(s, s.first, 1) ELSE [s EXCEPT !.y = IF s.y > 0 THEN s.y - 1 ELSE 0]

Edits == {"ICH", "DCH", "ECH", "ED", "ED0", "EL", "EL0", "IL", "DL", "SU", "SD", "RI"}

-----------------------------------------------------------------------------
(* Modes: con_handle_state, attributes, tabulators, the region, screens.    *)

SaveCursor(s) == [s EXCEPT !.cursor = [attr |-> s.attr, x |-> s.x, y |-> s.y]]
RestoreCursor(s) ==
  [s EXCEPT !.attr = s.cursor.attr, !.x = s.cursor.x, !.y = s.cursor.y, !.wrap = FALSE]
SaveMain(s) ==
  [s EXCEPT !.saved = [attr |-> s.attr, x |-> s.x, y |-> s.y, first |-> s.first, last |-> s.last]]
RestoreMain(s) ==
  [s EXCEPT !.attr = s.saved.attr, !.x = s.saved.x, !.y = s.saved.y,
            !.first = s.saved.first, !.last = s.saved.last, !.wrap = FALSE]

EnterAltAgain(s) ==
  [SaveMain(s) EXCEPT !.alt = TRUE, !.cells["alt"] = Blank, !.rendered["alt"] = {}]

\* CSI ? 1049 h and l.
EnterAlt(s) ==
  [(IF s.alt THEN s ELSE SaveMain(s)) EXCEPT !.alt = TRUE, !.cells["alt"] = Blank, !.rendered["alt"] = {}]
LeaveAlt(s) ==
  IF ~s.alt THEN s
  ELSE [RestoreMain(s) EXCEPT !.alt = FALSE, !.cells["alt"] = Blank, !.rendered = [main |-> {}, alt |-> {}]]

RegionEmpty(s, n, m) ==
  LET last == IF m = 0 \/ m > Rows THEN Rows ELSE m
  IN  [s EXCEPT !.first = (IF n = 0 THEN 1 ELSE n) - 1, !.last = last - 1]

\* Regions that CSI n ; m r can make of an empty or a too large parameter.
Region(s, n, m) ==
  LET last == IF m = 0 \/ m > Rows THEN Rows ELSE m
      first == IF n = 0 THEN 1 ELSE IF n > last THEN last ELSE n
  IN  [s EXCEPT !.first = first - 1, !.last = last - 1]

Mode(s, op, n) ==
  CASE op = "SGR" -> [s EXCEPT !.attr = n % 2]
    [] op = "HTS" -> [s EXCEPT !.tabs = @ \cup {s.x}]
    [] op = "TBC" -> [s EXCEPT !.tabs = IF n = 3 THEN {Columns - 1} ELSE @]
    [] op = "TBC0" -> [s EXCEPT !.tabs = @ \ ({s.x} \ {Columns - 1})]
    [] op = "STBM" -> Region(s, n, n + 1)
    [] op = "STBM0" -> Region(s, 0, n)
    [] op = "STBR" -> Region(s, n + 1, n)
    [] op = "SC" -> SaveCursor(s)
    [] op = "RC" -> RestoreCursor(s)
    [] op = "SHOW" -> [s EXCEPT !.visible = TRUE]
    [] op = "HIDE" -> [s EXCEPT !.visible = FALSE]
    [] op = "ALT" -> EnterAlt(s)
    [] op = "MAIN" -> LeaveAlt(s)
    [] op = "RIS" -> Fresh

Modes == {"SGR", "HTS", "TBC", "TBC0", "STBM", "STBM0", "STBR", "SC", "RC", "SHOW", "HIDE", "ALT", "MAIN", "RIS"}

-----------------------------------------------------------------------------
(* The screen.                                                              *)

\* con_render: what is not rendered is drawn, then the cursor over it.
Rendered(s) == [s EXCEPT !.rendered[Buf(s)] = Cell]
Drawn(s) ==
  LET b == Buf(s) IN
  [c \in Cell |->
    LET base == IF c \in s.rendered[b] THEN screen[c] ELSE <<s.cells[b][c], FALSE>> IN
    IF s.visible /\ c = <<s.x, s.y>> THEN <<base[1], TRUE>> ELSE base]

BeginKeepsBit(i) ==
  /\ busy = Nobody /\ nops < MaxOps /\ busy' = i /\ due' = due \ {i}
  /\ UNCHANGED <<con, shown, screen, nops, did, kept>>

\* con_write and con_print begin: the cell under the cursor is drawn again.
Begin(i) ==
  /\ busy = Nobody /\ (nops < MaxOps \/ i \in due) /\ busy' = i /\ due' = due \ {i}
  /\ LET s == con[i] IN
     con' = IF s.visible THEN [con EXCEPT ![i].rendered[Buf(s)] = @ \ {<<s.x, s.y>>}] ELSE con
  /\ UNCHANGED <<shown, screen, nops, did, kept>>

\* One character or control function.
Step(op, s) ==
  /\ did' = op
  /\ con' = [con EXCEPT ![busy] = s]
  /\ nops' = nops + 1
  /\ kept' = IF s.alt /\ ~con[busy].alt THEN [kept EXCEPT ![busy] = con[busy]] ELSE kept
  /\ UNCHANGED <<shown, screen, busy, due>>

Character(op) == busy # Nobody /\ nops < MaxOps /\ Step(op, Settle(Control(con[busy], op)))
MoveCursor(op, n) == busy # Nobody /\ nops < MaxOps /\ Step(op, Cursor(con[busy], op, n))
EditCells(op, n) == busy # Nobody /\ nops < MaxOps /\ Step(op, Edit(con[busy], op, n))
SetMode(op, n) == busy # Nobody /\ nops < MaxOps /\ Step(op, Mode(con[busy], op, n))

\* The end of a write: the console that is shown is rendered.
End ==
  /\ busy # Nobody /\ busy' = Nobody
  /\ IF shown = Nobody THEN UNCHANGED <<con, screen>>
     ELSE con' = [con EXCEPT ![shown] = Rendered(@)] /\ screen' = Drawn(con[shown])
  /\ UNCHANGED <<shown, nops, due, did, kept>>

SwitchKeepsBits(i) ==
  /\ busy = Nobody /\ nops < MaxOps /\ nops' = nops + 1
  /\ i # shown /\ shown' = i /\ due' = due \cup {i}
  /\ UNCHANGED <<con, screen, busy, did, kept>>

\* con_switch: another console is shown, all of it drawn by an empty write that
\* follows when the mutex is free again.  Coming back from no console, the screen is cleared first.
Switch(i) ==
  /\ busy = Nobody /\ nops < MaxOps /\ nops' = nops + 1
  /\ i # shown /\ shown' = i /\ due' = due \cup {i}
  /\ screen' = IF shown = Nobody THEN [c \in Cell |-> <<Zero, FALSE>>] ELSE screen
  /\ con' = [con EXCEPT ![i].rendered = [main |-> {}, alt |-> {}]]
  /\ UNCHANGED <<busy, did, kept>>

\* con_switch to none: the screen is for others.
SwitchOff ==
  /\ busy = Nobody /\ nops < MaxOps /\ nops' = nops + 1 /\ shown # Nobody
  /\ shown' = Nobody /\ screen' = [c \in Cell |-> <<Zero, FALSE>>]
  /\ UNCHANGED <<con, busy, due, did, kept>>

Next ==
  \/ \E i \in Consoles : Begin(i) \/ Switch(i)
  \/ SwitchOff \/ End
  \/ \E op \in Ops \cap Controls : Character(op)
  \/ \E op \in Ops \cap Cursors, n \in Params : MoveCursor(op, n)
  \/ \E op \in Ops \cap Edits, n \in Params : EditCells(op, n)
  \/ \E op \in Ops \cap Modes, n \in Params : SetMode(op, n)

Spec == Init /\ [][Next]_vars

-----------------------------------------------------------------------------
(* Between writes the screen shows the current buffer of the console that   *)
(* is switched to, with the cursor at its place and nowhere else, although  *)
(* only cells without the rendered bit are drawn (con_render).              *)
ScreenShows ==
  (busy = Nobody /\ shown # Nobody /\ shown \notin due) =>
    LET s == con[shown] IN
    \A c \in Cell :
      /\ s.cells[Buf(s)][c] = screen[c][1]
      /\ screen[c][2] = (s.visible /\ c = <<s.x, s.y>>)

(* The delayed wrap belongs to the last column: a cursor that was moved     *)
(* away never wraps the next character.                                     *)
WrapAtEdge == \A i \in Consoles : con[i].wrap => con[i].x = Columns - 1

(* Lines outside the scrolling region stay as they are when text scrolls:   *)
(* by a line feed or a tabulator, a reverse index, or lines inserted or deleted.  *)
RegionKept ==
  (nops' > nops /\ did' \in {"LF", "HT", "RI", "IL", "DL", "SU", "SD"} /\ busy # Nobody) =>
       LET s == con[busy] IN
       \A c \in Cell : (c[2] < s.first \/ c[2] > s.last) => con'[busy].cells[Buf(s)][c] = s.cells[Buf(s)][c]

(* The main screen waits behind the alternate one: its cells are untouched, *)
(* and leaving brings back its cursor, attribute and region.                *)
MainKept ==
  \A i \in Consoles :
       /\ con[i].alt /\ con'[i].alt => con'[i].cells["main"] = kept[i].cells["main"]
       /\ (con[i].alt /\ ~con'[i].alt /\ did' = "MAIN") =>
            /\ con'[i].cells["main"] = kept[i].cells["main"]
            /\ con'[i].x = kept[i].x /\ con'[i].y = kept[i].y /\ con'[i].attr = kept[i].attr
            /\ con'[i].first = kept[i].first /\ con'[i].last = kept[i].last
=============================================================================
