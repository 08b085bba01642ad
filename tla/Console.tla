------------------------------- MODULE Console -------------------------------
(***************************************************************************)
(* The text console: putc, scroll_up and clear (lib.c), the screen's side  *)
(* of terminal_switch and update_video_memory_paging (terminal.c) and of   *)
(* the keys that print (keyboard.c).                                       *)
(*                                                                         *)
(* There is one cursor.  The page at VIDEO_ADDR is the screen, and a 4 KB  *)
(* page behind it keeps the picture of each terminal that is not in view.  *)
(* The kernel writes through page table entry 184, which maps the address  *)
(* of the screen to the screen or to one of those pages.                   *)
(*                                                                         *)
(* The system call gate leaves interrupts on, so a key can be handled in   *)
(* the middle of a program's putc; the keys themselves are atomic.  Pages  *)
(* are abstracted to the terminals that the characters on them come from   *)
(* since they were last cleared: a program's from its own terminal, an     *)
(* echoed key's from the terminal in view.                                 *)
(***************************************************************************)
EXTENDS Integers

CONSTANTS
  NumRows, NumCols, \* NUM_ROWS, NUM_COLS (25, 80)
  PageCells,        \* character cells of a 4 KB page (2048)
  MaxTerms,         \* MAX_TERMS (3)
  KeyLimit,         \* keyb_char_count at which keys are dropped (127)
  Writes,           \* environment: the kinds of characters programs write
  Preempt,          \* environment: keys may fall inside a program's putc
  MaxRow            \* bound: programs stop writing below this row

Kinds == {"glyph", "newline", "backspace"}

ASSUME ConsoleAssumption ==
  /\ NumRows \in Nat \ {0} /\ NumCols \in Nat \ {0} /\ MaxTerms \in Nat \ {0}
  /\ PageCells \in Nat /\ PageCells >= NumRows * NumCols
  /\ KeyLimit \in Nat /\ KeyLimit <= (NumRows - 1) * NumCols
  /\ MaxRow \in Nat /\ MaxRow >= NumRows
  /\ Writes \subseteq Kinds
  /\ Preempt \in BOOLEAN

TIDs == 0 .. MaxTerms - 1

\* Pages in the order of their addresses: the screen, then terminals'.
VIDEO == 0
Pages == 0 .. MaxTerms
vidmem_data(t) == t + 1

VARIABLES
  screen,    \* screen_x, screen_y; the page entry 184 maps; the terminals each
             \* page has characters of; the position the hardware cursor blinks at
  keys,      \* keyb_char_count and enterKeyPressed
  terminals, \* what terminals[t] keeps of the cursor and of keys
  view_term, \* tid of the terminal in view
  opened,    \* terminals with a program
  running,   \* tid of the running program
  pc, char,  \* where its putc is, and what it prints there
  printed    \* history: a putc has ended since the last terminal_switch

vars == <<screen, keys, terminals, view_term, opened, running, pc, char,
          printed>>

Place(x, y) == y * NumCols + x

\* update_cursor: the position is written as two bytes.
Positions == 0 .. 65535

update_cursor(s) == [s EXCEPT !.shown = Place(s.x, s.y) % 65536]

\* Where update_video_memory_paging(t) maps the screen's address.
PageFor(t, viewed) == IF t = viewed THEN VIDEO ELSE vidmem_data(t)

update_video_memory_paging(s, t, viewed) ==
  [s EXCEPT !.mapping = PageFor(t, viewed)]

\* The page a cell is on: only the screen's own page is redirected.
PageAt(s, place) ==
  IF place < PageCells THEN s.mapping ELSE place \div PageCells

\* putc stores a character that comes from the given terminal.
Draw(s, kind, tid) ==
  LET page == PageAt(s, Place(s.x, s.y)) IN
    IF kind = "glyph" /\ page \in Pages
    THEN [s EXCEPT !.ink[page] = @ \cup {tid}] ELSE s

\* putc moves the cursor.  Move_NoWrap: a backspace stays on its row.
Move_NoWrap(s, kind) ==
  IF kind = "backspace" THEN [s EXCEPT !.x = @ - 1]
  ELSE IF kind = "newline" \/ s.x + 1 = NumCols
       THEN [s EXCEPT !.x = 0, !.y = @ + 1] ELSE [s EXCEPT !.x = @ + 1]
Move(s, kind) ==
  CASE kind = "backspace" /\ s.x = 0 ->
         [s EXCEPT !.x = NumCols - 1, !.y = @ - 1]
    [] kind = "backspace" /\ s.x # 0 -> [s EXCEPT !.x = @ - 1]
    [] kind = "newline" \/ (kind = "glyph" /\ (s.x + 1) % NumCols = 0) ->
         [s EXCEPT !.x = 0, !.y = @ + 1]
    [] OTHER -> [s EXCEPT !.x = (@ + 1) % NumCols]

\* scroll_up, when the cursor has left the last row.
\* Scroll_Late: "If screen_y == NUM_ROWS+1 scroll", as lib.c:258 has it.
Scroll_Late(s) == IF s.y = NumRows + 1 THEN [s EXCEPT !.x = 0, !.y = @ - 1] ELSE s
Scroll(s) == IF s.y = NumRows THEN [s EXCEPT !.x = 0, !.y = @ - 1] ELSE s

\* The end of putc: scroll, show the cursor, map the terminal in view.
\* Settle_Running: the running program's terminal is mapped again.
Settle_Running(s, viewed) ==
  update_video_memory_paging(update_cursor(Scroll(s)), running, viewed)
Settle(s, viewed) ==
  update_video_memory_paging(update_cursor(Scroll(s)), viewed, viewed)

\* The whole of putc, as the keyboard interrupt runs it.
Putc(s, kind, viewed) ==
  LET mapped == update_video_memory_paging(s, viewed, viewed)
  IN Settle(Move(Draw(mapped, kind, viewed), kind), viewed)

\* clear: through the mapping in place, which it does not set.
Clear(s) ==
  update_cursor([s EXCEPT !.ink[s.mapping] = {}, !.x = 0, !.y = 0])

\* The screen where the boot messages end.
Booted(x, y) == [x |-> x, y |-> y, mapping |-> VIDEO,
                 ink |-> [p \in Pages |-> {}], shown |-> Place(x, y) % 65536]

Init ==
  /\ \E x \in 0 .. NumCols - 1, y \in 0 .. NumRows - 1 : screen = Booted(x, y)
  /\ keys = [count |-> 0, entered |-> FALSE]
  /\ terminals = [t \in TIDs |-> [x |-> 0, y |-> 0, count |-> 0,
                                  entered |-> FALSE]]
  /\ view_term = 0 /\ opened = {0} /\ running = 0
  /\ pc = "user" /\ char = "glyph" /\ printed = TRUE

-----------------------------------------------------------------------------
(***************************************************************************)
(* A program's putc: it maps the terminal in view, stores the character    *)
(* and moves the cursor, and then looks at the row.                        *)
(***************************************************************************)
ProgramPutc(kind) ==
  /\ pc = "user" /\ kind \in Writes /\ screen.y <= MaxRow
  /\ pc' = "draw" /\ char' = kind
  /\ screen' = update_video_memory_paging(screen, view_term, view_term)
  /\ UNCHANGED <<keys, terminals, view_term, opened, running, printed>>

ProgramDraw ==
  /\ pc = "draw"
  /\ pc' = "settle"
  /\ screen' = Move(Draw(screen, char, running), char)
  /\ UNCHANGED <<keys, terminals, view_term, opened, running, char, printed>>

ProgramSettle ==
  /\ pc = "settle"
  /\ pc' = "user" /\ char' = "glyph"
  /\ screen' = Settle(screen, view_term) /\ printed' = TRUE
  /\ UNCHANGED <<keys, terminals, view_term, opened, running>>

\* terminal_read returns with a line: the end of it is with interrupts off.
ProgramRead ==
  /\ pc = "user" /\ keys.entered
  /\ keys' = [count |-> 0, entered |-> FALSE]
  /\ UNCHANGED <<screen, terminals, view_term, opened, running, pc, char,
                 printed>>

(***************************************************************************)
(* system_execute: the new program belongs to the terminal in view, and    *)
(* the mapping stays as it is.                                             *)
(***************************************************************************)
ProgramExecute ==
  /\ pc = "user"
  /\ running' = view_term
  /\ UNCHANGED <<screen, keys, terminals, view_term, opened, pc, char, printed>>

\* system_halt of a shell: its terminal loses it, the one in view gets one.
ShellHalt ==
  /\ pc = "user"
  /\ running' = view_term
  /\ opened' = (opened \ {running}) \cup {view_term}
  /\ UNCHANGED <<screen, keys, terminals, view_term, pc, char, printed>>

-----------------------------------------------------------------------------
\* The keyboard interrupt is taken.
MayPress == Preempt \/ pc = "user"

Type ==
  /\ MayPress /\ keys.count # KeyLimit
  /\ screen' = Putc(screen, "glyph", view_term)
  /\ keys' = [keys EXCEPT !.count = @ + 1] /\ printed' = TRUE
  /\ UNCHANGED <<terminals, view_term, opened, running, pc, char>>

Backspace ==
  /\ MayPress /\ keys.count > 0
  /\ screen' = Putc(screen, "backspace", view_term)
  /\ keys' = [keys EXCEPT !.count = @ - 1] /\ printed' = TRUE
  /\ UNCHANGED <<terminals, view_term, opened, running, pc, char>>

Enter ==
  /\ MayPress /\ keys.count # 0
  /\ screen' = Putc(screen, "newline", view_term)
  /\ keys' = [keys EXCEPT !.entered = TRUE] /\ printed' = TRUE
  /\ UNCHANGED <<terminals, view_term, opened, running, pc, char>>

\* CtrlL_KeepsCount: the line being typed is not forgotten.
CtrlL_KeepsCount ==
  /\ MayPress
  /\ screen' = Clear(screen)
  /\ UNCHANGED <<keys, terminals, view_term, opened, running, pc, char,
                 printed>>
CtrlL ==
  /\ MayPress
  /\ screen' = Clear(screen)
  /\ keys' = [keys EXCEPT !.count = 0]
  /\ UNCHANGED <<terminals, view_term, opened, running, pc, char, printed>>

(***************************************************************************)
(* terminal_switch: the screen is copied to the page of the terminal that  *)
(* leaves and filled from that of the one that comes; then the mapping is  *)
(* the running program's, the one interrupted.                             *)
(* Exchange_Reversed: the screen is filled first.                          *)
(***************************************************************************)
Exchange_Reversed(ink, from, to) ==
  [ink EXCEPT ![VIDEO] = ink[vidmem_data(to)],
              ![vidmem_data(from)] = ink[vidmem_data(to)]]
Exchange(ink, from, to) ==
  [ink EXCEPT ![VIDEO] = ink[vidmem_data(to)], ![vidmem_data(from)] = ink[VIDEO]]

\* The cursor of the terminal that comes into view.
\* TakeCursor_NotShown: only the variables are set.
TakeCursor_NotShown(s, term) == [s EXCEPT !.x = term.x, !.y = term.y]
TakeCursor(s, term) == update_cursor([s EXCEPT !.x = term.x, !.y = term.y])

(***************************************************************************)
(* A terminal without a program gets a shell, and the program that was     *)
(* interrupted is not returned to.                                         *)
(***************************************************************************)
TerminalSwitch(t) ==
  /\ MayPress /\ t # view_term
  /\ terminals' = [terminals EXCEPT ![view_term] =
                     [x |-> screen.x, y |-> screen.y, count |-> keys.count,
                      entered |-> keys.entered]]
  /\ keys' = [count |-> terminals[t].count, entered |-> terminals[t].entered]
  /\ LET copied == [screen EXCEPT !.ink = Exchange(@, view_term, t)]
         mapped == update_video_memory_paging(copied, running, t)
     IN screen' = TakeCursor(mapped, terminals[t])
  /\ view_term' = t
  /\ opened' = opened \cup {t} /\ printed' = FALSE
  /\ IF t \in opened THEN UNCHANGED <<running, pc, char>>
     ELSE running' = t /\ pc' = "user" /\ char' = "glyph"

Program ==
  \/ \E kind \in Kinds : ProgramPutc(kind)
  \/ ProgramDraw \/ ProgramSettle
  \/ ProgramRead \/ ProgramExecute \/ ShellHalt

User ==
  \/ Type \/ Backspace \/ Enter \/ CtrlL
  \/ \E t \in TIDs : TerminalSwitch(t)

Next == Program \/ User

Spec == Init /\ [][Next]_vars

-----------------------------------------------------------------------------
TypeOK ==
  /\ screen.x \in 0 .. NumCols /\ screen.y \in -1 .. MaxRow + 1
  /\ screen.mapping \in Pages
  /\ screen.ink \in [Pages -> SUBSET TIDs]
  /\ screen.shown \in Positions
  /\ keys \in [count : 0 .. KeyLimit, entered : BOOLEAN]
  /\ view_term \in opened /\ running \in opened /\ opened \subseteq TIDs
  /\ pc \in {"user", "draw", "settle"} /\ char \in Kinds
  /\ printed \in BOOLEAN

\* The cursor of terminal t, in view or not.
CursorOf(t) == IF t = view_term THEN [x |-> screen.x, y |-> screen.y]
               ELSE [x |-> terminals[t].x, y |-> terminals[t].y]

CountOf(t) == IF t = view_term THEN keys.count ELSE terminals[t].count

\* The picture of terminal t: the screen or the terminal's own page.
Picture(t) == screen.ink[PageFor(t, view_term)]

(***************************************************************************)
(* Between characters every terminal's cursor is on the screen: "If        *)
(* screen_y == NUM_ROWS+1 scroll", "Set screen_x and screen_y to correct   *)
(* spot" (lib.c:258-263), whatever is printed, typed, erased, cleared and  *)
(* looked at (lib.c:232-278; terminal.c:74-97).                            *)
(***************************************************************************)
CursorOnScreen ==
  pc = "user" =>
    \A t \in TIDs : /\ CursorOf(t).x \in 0 .. NumCols - 1
                    /\ CursorOf(t).y \in 0 .. NumRows - 1

(***************************************************************************)
(* "check if there is space to delete" (keyboard.c:263): the keyboard's    *)
(* count never exceeds the cells before the cursor, so that a backspace    *)
(* stays on the screen, although the screen scrolls and is cleared, lines  *)
(* keep their count after Enter and cursors and counts are saved apart     *)
(* (keyboard.c:149-157, 260-295; terminal.c:74-83, 95-96).                 *)
(***************************************************************************)
RoomToErase ==
  pc = "user" =>
    \A t \in TIDs : CountOf(t) <= Place(CursorOf(t).x, CursorOf(t).y)

(***************************************************************************)
(* Where characters go, whoever writes them: printing and echoing change   *)
(* the picture of the terminal in view and of no other, wherever the       *)
(* mapping was, and a switch loses nothing of any terminal's               *)
(* (terminal.c:88-92; lib.c:233, 268).  Ctrl+L is apart: see               *)
(* CtrlLClearsScreen.  Whose characters they are is said by OwnPictures.   *)
(***************************************************************************)
PicturesKept ==
  [][\A t \in TIDs : (t # view_term \/ view_term' # view_term)
                     => CtrlL \/ Picture(t)' = Picture(t)]_vars

(***************************************************************************)
(* "problem: putc was printing to the wrong terminal screen", fixed by     *)
(* mapping the terminal in view only "temporarily before restoring the     *)
(* video memory map back to the running terminal" (buglog.log:52-58): the  *)
(* picture of a terminal has no characters but its own program's and those *)
(* typed on it (lib.c:233, 249, 268).                                      *)
(***************************************************************************)
OwnPictures == pc = "user" => \A t \in TIDs : Picture(t) \subseteq {t}

(***************************************************************************)
(* Ctrl+L clears what the user sees: "call function to clear screen"       *)
(* (keyboard.c:151), through the mapping that the last putc left behind    *)
(* (lib.c:28-31, 268).  Until something is printed after a terminal_switch *)
(* it may not: the mapping is then the running program's (terminal.c:93).  *)
(***************************************************************************)
CtrlLClearsScreen ==
  [][CtrlL /\ printed => Picture(view_term)' = {}]_vars

(***************************************************************************)
(* The cursor blinks where the next character goes (lib.c:36, 267;         *)
(* terminal.c:97).                                                         *)
(***************************************************************************)
CursorIsShown ==
  pc = "user" => screen.shown = Place(screen.x, screen.y) % 65536

=============================================================================
