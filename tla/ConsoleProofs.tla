---------------------------- MODULE ConsoleProofs ----------------------------
(***************************************************************************)
(* Proofs about the console, for a screen of any size, any number of       *)
(* terminals and any limit of the line that leaves a row free.  Keys do    *)
(* not fall inside a program's putc (console_scroll shows what happens     *)
(* when they do), and programs write no backspace, as putc would leave the *)
(* screen at its top left corner.                                          *)
(***************************************************************************)
EXTENDS Console, TLAPS

Orderly == ~Preempt /\ "backspace" \notin Writes

-----------------------------------------------------------------------------
\* Arithmetic of cells: a position is a row and a column.

\* Counting columns modulo the width only matters at the last one.
LEMMA NextColumn ==
  ASSUME NEW x \in 0 .. NumCols - 1
  PROVE  IF x + 1 = NumCols THEN (x + 1) % NumCols = 0
         ELSE (x + 1) % NumCols = x + 1 /\ x + 1 \in 1 .. NumCols - 1
<1>1. NumCols \in Nat \ {0}
  BY ConsoleAssumption
<1>2. \A N \in Nat \ {0} : N % N = 0
  BY SMT
<1>3. \A N \in Nat \ {0} : \A a \in 0 .. N - 1 : a % N = a
  BY SMT
<1> QED BY <1>1, <1>2, <1>3

\* Places one row apart, and places of rows in order.
LEMMA Rows ==
  ASSUME NEW y \in Int
  PROVE  /\ y * NumCols \in Int
         /\ (y - 1) * NumCols = y * NumCols - NumCols
         /\ (y + 1) * NumCols = y * NumCols + NumCols
         /\ \A z \in Int : y <= z => y * NumCols <= z * NumCols
         /\ 0 <= y => 0 <= y * NumCols
<1>1. NumCols \in Nat
  BY ConsoleAssumption
<1>2. \A N \in Nat : \A a, b \in Int : a <= b => a * N <= b * N
  BY SMT
<1>3. \A N \in Nat : \A a \in Int : /\ (a - 1) * N = a * N - N
                                    /\ (a + 1) * N = a * N + N
                                    /\ a * N \in Int /\ 0 * N = 0
  BY SMT
<1> QED BY <1>1, <1>2, <1>3

-----------------------------------------------------------------------------
\* A cursor on the screen with at least n cells before it.
Fits(x, y, n) ==
  /\ x \in 0 .. NumCols - 1 /\ y \in 0 .. NumRows - 1
  /\ n \in 0 .. KeyLimit /\ n <= Place(x, y)

\* A putc between moving and scrolling: perhaps at the start of the row below.
Moved(x, y, n) ==
  Fits(x, y, n) \/ (x = 0 /\ y = NumRows /\ n \in 0 .. KeyLimit)

Screens == [x : Int, y : Int, mapping : Pages, ink : [Pages -> SUBSET TIDs],
            shown : Int]

Saved == [x : Int, y : Int, count : Nat, entered : BOOLEAN]

\* The place of a cursor is a number.
LEMMA PlaceIsInt == ASSUME NEW s \in Screens PROVE Place(s.x, s.y) \in Int
  BY Rows DEF Place, Screens

\* Every cell of the screen is in the screen's own page.
LEMMA OnePage ==
  ASSUME NEW s \in Screens, NEW n, Fits(s.x, s.y, n)
  PROVE  PageAt(s, Place(s.x, s.y)) = s.mapping
<1>1. s.y * NumCols <= (NumRows - 1) * NumCols
  BY Rows, ConsoleAssumption DEF Screens, Fits
<1>2. (NumRows - 1) * NumCols = NumRows * NumCols - NumCols
  BY Rows, ConsoleAssumption
<1>3. NumRows * NumCols \in Int /\ s.y * NumCols \in Int
  BY Rows, ConsoleAssumption DEF Screens
<1>4. Place(s.x, s.y) < PageCells
  BY <1>1, <1>2, <1>3, ConsoleAssumption DEF Place, Fits, Screens
<1> QED BY <1>4 DEF PageAt

\* Storing a character leaves the cursor, the mapping and all other pages.
LEMMA DrawKeeps ==
  ASSUME NEW s \in Screens, NEW kind, NEW t \in TIDs
  PROVE  /\ Draw(s, kind, t) \in Screens
         /\ Draw(s, kind, t).x = s.x /\ Draw(s, kind, t).y = s.y
         /\ Draw(s, kind, t).mapping = s.mapping
         /\ Draw(s, kind, t).shown = s.shown
         /\ \A p \in Pages : p # PageAt(s, Place(s.x, s.y)) =>
              Draw(s, kind, t).ink[p] = s.ink[p]
<1> DEFINE page == PageAt(s, Place(s.x, s.y))
<1>1. CASE kind = "glyph" /\ page \in Pages
  <2>1. Draw(s, kind, t) = [s EXCEPT !.ink[page] = @ \cup {t}]
    BY <1>1 DEF Draw
  <2> HIDE DEF page
  <2>2. s.ink \in [Pages -> SUBSET TIDs]
    BY DEF Screens
  <2> DEFINE ink == [s.ink EXCEPT ![page] = @ \cup {t}]
  <2>3. ink \in [Pages -> SUBSET TIDs] /\ \A p \in Pages : p # page => ink[p] = s.ink[p]
    BY <1>1, <2>2
  <2>4. Draw(s, kind, t) = [s EXCEPT !.ink = ink]
    BY <2>1, <2>2 DEF Screens
  <2> HIDE DEF ink
  <2> QED BY <2>3, <2>4 DEF Screens, page
<1>2. CASE ~(kind = "glyph" /\ page \in Pages)
  BY <1>2 DEF Draw
<1> QED BY <1>1, <1>2

\* The same screen with the cursor elsewhere.
At(s, a, b) == [s EXCEPT !.x = a, !.y = b]

\* Setting both coordinates changes nothing else.
LEMMA CursorSet ==
  ASSUME NEW s \in Screens, NEW a \in Int, NEW b \in Int
  PROVE  /\ At(s, a, b) \in Screens
         /\ At(s, a, b).x = a /\ At(s, a, b).y = b
         /\ At(s, a, b).mapping = s.mapping /\ At(s, a, b).ink = s.ink
         /\ At(s, a, b).shown = s.shown
<1> DEFINE half == [s EXCEPT !.x = a]
<1>1. /\ half \in Screens /\ half.x = a
      /\ half.mapping = s.mapping /\ half.ink = s.ink /\ half.shown = s.shown
  BY DEF Screens
<1>2. At(s, a, b) = [half EXCEPT !.y = b]
  BY DEF At
<1> HIDE DEF half
<1>3. LET after == [half EXCEPT !.y = b] IN
      /\ after \in Screens /\ after.x = half.x /\ after.y = b
      /\ after.mapping = half.mapping /\ after.ink = half.ink
      /\ after.shown = half.shown
  BY <1>1 DEF Screens
<1> QED BY <1>1, <1>2, <1>3

\* Moving the cursor changes nothing else.
LEMMA MoveKeeps ==
  ASSUME NEW s \in Screens, NEW kind \in Kinds,
         s.x \in 0 .. NumCols - 1
  PROVE  /\ Move(s, kind) \in Screens
         /\ Move(s, kind).mapping = s.mapping /\ Move(s, kind).ink = s.ink
         /\ Move(s, kind).shown = s.shown
<1>1. (s.x + 1) % NumCols \in Int /\ NumCols - 1 \in Int
  BY NextColumn, ConsoleAssumption
<1>2. CASE kind = "backspace"
  <2>1. CASE s.x = 0
    <3>1. Move(s, kind) = At(s, NumCols - 1, s.y - 1)
      BY <1>2, <2>1 DEF Move, At, Screens
    <3>2. s.y - 1 \in Int
      BY DEF Screens
    <3> QED BY <1>1, <3>1, <3>2, CursorSet
  <2>2. CASE s.x # 0
    <3>1. Move(s, kind) = [s EXCEPT !.x = s.x - 1]
      BY <1>2, <2>2 DEF Move, Screens
    <3> QED BY <3>1 DEF Screens
  <2> QED BY <2>1, <2>2
<1>3. CASE kind # "backspace"
  <2>1. \/ Move(s, kind) = At(s, 0, s.y + 1)
        \/ Move(s, kind) = [s EXCEPT !.x = (s.x + 1) % NumCols]
    BY <1>3 DEF Move, At, Kinds, Screens
  <2>2. s.y + 1 \in Int
    BY DEF Screens
  <2>3. CASE Move(s, kind) = At(s, 0, s.y + 1)
    BY <2>2, <2>3, CursorSet
  <2>4. CASE Move(s, kind) = [s EXCEPT !.x = (s.x + 1) % NumCols]
    BY <1>1, <2>4 DEF Screens
  <2> QED BY <2>1, <2>3, <2>4
<1> QED BY <1>2, <1>3

\* Where a character that is not a backspace takes the cursor.
LEMMA MovesOn ==
  ASSUME NEW s \in Screens, NEW kind \in Kinds \ {"backspace"}, NEW n,
         Fits(s.x, s.y, n)
  PROVE  Moved(Move(s, kind).x, Move(s, kind).y, n)
<1>1. s.x \in 0 .. NumCols - 1 /\ s.y \in 0 .. NumRows - 1 /\ n \in 0 .. KeyLimit
  BY DEF Fits
<1>2. CASE kind = "newline" \/ s.x + 1 = NumCols
  <2>1. Move(s, kind).x = 0 /\ Move(s, kind).y = s.y + 1
    BY <1>1, <1>2, NextColumn, ConsoleAssumption DEF Move, Kinds, Screens
  <2>2. (s.y + 1) * NumCols = s.y * NumCols + NumCols /\ s.y * NumCols \in Int
    BY <1>1, Rows, s.y \in Int DEF Screens
  <2>3. n <= Place(0, s.y + 1)
    BY <1>1, <2>2, ConsoleAssumption DEF Place, Fits
  <2> QED BY <1>1, <2>1, <2>3, ConsoleAssumption DEF Moved, Fits
<1>3. CASE kind = "glyph" /\ s.x + 1 # NumCols
  <2>1. Move(s, kind).x = s.x + 1 /\ Move(s, kind).y = s.y
        /\ s.x + 1 \in 0 .. NumCols - 1
    BY <1>1, <1>3, NextColumn, ConsoleAssumption DEF Move, Screens
  <2>2. s.y * NumCols \in Int
    BY Rows, s.y \in Int DEF Screens
  <2>3. n <= Place(s.x + 1, s.y)
    BY <1>1, <2>2 DEF Place, Fits
  <2> QED BY <1>1, <2>1, <2>3 DEF Moved, Fits
<1> QED BY <1>2, <1>3 DEF Kinds

\* A glyph leaves room for one more.
LEMMA GlyphMakesRoom ==
  ASSUME NEW s \in Screens, NEW n, Fits(s.x, s.y, n), n < KeyLimit
  PROVE  Moved(Move(s, "glyph").x, Move(s, "glyph").y, n + 1)
<1>1. s.x \in 0 .. NumCols - 1 /\ s.y \in 0 .. NumRows - 1 /\ n \in 0 .. KeyLimit
      /\ n + 1 \in 0 .. KeyLimit
  BY ConsoleAssumption DEF Fits
<1>2. s.y * NumCols \in Int /\ (s.y + 1) * NumCols = s.y * NumCols + NumCols
  BY Rows, s.y \in Int DEF Screens
<1>3. CASE s.x + 1 = NumCols
  <2>1. Move(s, "glyph").x = 0 /\ Move(s, "glyph").y = s.y + 1
    BY <1>1, <1>3, NextColumn, ConsoleAssumption DEF Move, Screens
  <2>2. n + 1 <= Place(0, s.y + 1)
    BY <1>1, <1>2, <1>3, ConsoleAssumption DEF Place, Fits
  <2> QED BY <1>1, <2>1, <2>2, ConsoleAssumption DEF Moved, Fits
<1>4. CASE s.x + 1 # NumCols
  <2>1. Move(s, "glyph").x = s.x + 1 /\ Move(s, "glyph").y = s.y
        /\ s.x + 1 \in 0 .. NumCols - 1
    BY <1>1, <1>4, NextColumn, ConsoleAssumption DEF Move, Screens
  <2>2. n + 1 <= Place(s.x + 1, s.y)
    BY <1>1, <1>2 DEF Place, Fits
  <2> QED BY <1>1, <2>1, <2>2 DEF Moved, Fits
<1> QED BY <1>3, <1>4

\* A backspace with something to erase stays on the screen.
LEMMA BackspaceStays ==
  ASSUME NEW s \in Screens, NEW n, Fits(s.x, s.y, n), n > 0
  PROVE  Fits(Move(s, "backspace").x, Move(s, "backspace").y, n - 1)
<1>1. s.x \in 0 .. NumCols - 1 /\ s.y \in 0 .. NumRows - 1 /\ n \in 0 .. KeyLimit
      /\ n - 1 \in 0 .. KeyLimit /\ NumCols \in Nat \ {0}
  BY ConsoleAssumption DEF Fits
<1>2. s.y * NumCols \in Int /\ (s.y - 1) * NumCols = s.y * NumCols - NumCols
  BY Rows, s.y \in Int DEF Screens
<1>3. CASE s.x = 0
  <2>1. Move(s, "backspace").x = NumCols - 1 /\ Move(s, "backspace").y = s.y - 1
    BY <1>3 DEF Move, Screens
  <2>2. s.y # 0
    <3> SUFFICES ASSUME s.y = 0 PROVE FALSE
      OBVIOUS
    <3>1. s.y * NumCols = 0
      BY <1>1
    <3> QED BY <1>1, <1>3, <3>1 DEF Place, Fits
  <2>3. n - 1 <= Place(NumCols - 1, s.y - 1)
    BY <1>1, <1>2, <1>3 DEF Place, Fits
  <2> QED BY <1>1, <2>1, <2>2, <2>3, ConsoleAssumption DEF Fits
<1>4. CASE s.x # 0
  <2>1. Move(s, "backspace").x = s.x - 1 /\ Move(s, "backspace").y = s.y
    BY <1>4 DEF Move, Screens
  <2>2. n - 1 <= Place(s.x - 1, s.y)
    BY <1>1, <1>2 DEF Place, Fits
  <2> QED BY <1>1, <1>4, <2>1, <2>2 DEF Fits
<1> QED BY <1>3, <1>4

(***************************************************************************)
(* Scrolling brings a cursor below the screen back, and the limit of the   *)
(* line is less than the rows above.                                       *)
(***************************************************************************)
LEMMA SettleFits ==
  ASSUME NEW s \in Screens, NEW n, NEW t \in TIDs, Moved(s.x, s.y, n)
  PROVE  LET after == Settle(s, t) IN
         /\ after \in Screens
         /\ Fits(after.x, after.y, n)
         /\ after.mapping = VIDEO /\ after.ink = s.ink
         /\ after.shown = Place(after.x, after.y) % 65536
<1> DEFINE scrolled == Scroll(s)
<1>1. scrolled \in Screens /\ scrolled.ink = s.ink
  <2>1. CASE s.y = NumRows
    <3>1. scrolled = At(s, 0, s.y - 1)
      BY <2>1 DEF Scroll, At, Screens
    <3>2. s.y - 1 \in Int
      BY DEF Screens
    <3> QED BY <3>1, <3>2, CursorSet
  <2>2. CASE s.y # NumRows
    BY <2>2 DEF Scroll
  <2> QED BY <2>1, <2>2
<1>2. Fits(scrolled.x, scrolled.y, n)
  <2>1. CASE s.y = NumRows
    <3>1. scrolled.x = 0 /\ scrolled.y = NumRows - 1
      BY <2>1 DEF Scroll, Screens
    <3>2. n \in 0 .. KeyLimit
      BY DEF Moved, Fits
    <3>3. (NumRows - 1) * NumCols \in Int
      BY Rows, ConsoleAssumption
    <3>4. n <= Place(0, NumRows - 1)
      BY <3>2, <3>3, ConsoleAssumption DEF Place
    <3> QED BY <3>1, <3>2, <3>4, ConsoleAssumption DEF Fits
  <2>2. CASE s.y # NumRows
    BY <2>2 DEF Scroll, Moved
  <2> QED BY <2>1, <2>2
<1>3. Place(scrolled.x, scrolled.y) % 65536 \in Int
  <2>1. Place(scrolled.x, scrolled.y) \in Int
    BY <1>1, Rows DEF Place, Screens
  <2> QED BY <2>1
<1>4. VIDEO \in Pages
  BY ConsoleAssumption DEF VIDEO, Pages
<1>5. Settle(s, t) = [[scrolled EXCEPT !.shown = Place(scrolled.x, scrolled.y) % 65536]
                        EXCEPT !.mapping = VIDEO]
  BY DEF Settle, update_video_memory_paging, PageFor, update_cursor
<1> HIDE DEF scrolled
<1> DEFINE shown == Place(scrolled.x, scrolled.y) % 65536
<1>6. shown = Place(scrolled.x, scrolled.y) % 65536
  OBVIOUS
<1>7. Settle(s, t) = [[scrolled EXCEPT !.shown = shown] EXCEPT !.mapping = VIDEO] /\ shown \in Int
  BY <1>3, <1>5
<1> HIDE DEF shown
<1>8. LET after == Settle(s, t) IN
      /\ after \in Screens /\ after.x = scrolled.x /\ after.y = scrolled.y
      /\ after.mapping = VIDEO /\ after.ink = s.ink /\ after.shown = shown
  BY <1>1, <1>4, <1>7 DEF Screens
<1> QED BY <1>2, <1>6, <1>8

(***************************************************************************)
(* A key's putc: a character that is typed adds one to what the line has,  *)
(* a backspace takes one away, and no page but the screen's changes.       *)
(***************************************************************************)
Counts(kind, n, m) ==
  \/ kind = "glyph" /\ n < KeyLimit /\ m = n + 1
  \/ kind = "newline" /\ m = n
  \/ kind = "backspace" /\ n > 0 /\ m = n - 1

LEMMA PutcFits ==
  ASSUME NEW s \in Screens, NEW kind \in Kinds, NEW t \in TIDs, NEW n, NEW m,
         Fits(s.x, s.y, n), Counts(kind, n, m)
  PROVE  LET after == Putc(s, kind, t) IN
         /\ after \in Screens
         /\ Fits(after.x, after.y, m)
         /\ after.shown = Place(after.x, after.y) % 65536
         /\ after.mapping = VIDEO
         /\ \A p \in Pages \ {VIDEO} : after.ink[p] = s.ink[p]
<1> DEFINE mapped == update_video_memory_paging(s, t, t)
<1>1. /\ mapped \in Screens /\ mapped.x = s.x /\ mapped.y = s.y
      /\ mapped.ink = s.ink /\ mapped.mapping = VIDEO
  <2>1. VIDEO \in Pages
    BY ConsoleAssumption DEF VIDEO, Pages
  <2>2. mapped = [s EXCEPT !.mapping = VIDEO]
    BY DEF update_video_memory_paging, PageFor
  <2> QED BY <2>1, <2>2 DEF Screens
<1>2. Putc(s, kind, t) = Settle(Move(Draw(mapped, kind, t), kind), t)
  BY DEF Putc
<1> HIDE DEF mapped
<1>3. PageAt(mapped, Place(mapped.x, mapped.y)) = VIDEO
  BY <1>1, OnePage
<1> DEFINE drawn == Draw(mapped, kind, t)
<1>4. /\ drawn \in Screens /\ drawn.x = s.x /\ drawn.y = s.y
      /\ \A p \in Pages \ {VIDEO} : drawn.ink[p] = s.ink[p]
  BY <1>1, <1>3, DrawKeeps
<1> HIDE DEF drawn
<1> DEFINE moved == Move(drawn, kind)
<1>5. moved \in Screens /\ moved.ink = drawn.ink
  BY <1>4, MoveKeeps DEF Fits
<1>6. Moved(moved.x, moved.y, m)
  <2>1. Fits(drawn.x, drawn.y, n)
    BY <1>4
  <2>2. CASE kind = "glyph" /\ n < KeyLimit /\ m = n + 1
    BY <1>4, <2>1, <2>2, GlyphMakesRoom
  <2>3. CASE kind = "newline" /\ m = n
    BY <1>4, <2>1, <2>3, MovesOn
  <2>4. CASE kind = "backspace" /\ n > 0 /\ m = n - 1
    BY <1>4, <2>1, <2>4, BackspaceStays DEF Moved
  <2> QED BY <2>2, <2>3, <2>4 DEF Counts
<1> HIDE DEF moved
<1>7. Putc(s, kind, t) = Settle(moved, t)
  BY <1>2 DEF moved, drawn
<1> QED BY <1>4, <1>5, <1>6, <1>7, SettleFits

-----------------------------------------------------------------------------
(***************************************************************************)
(* The inductive invariant: each terminal's cursor is on the screen with   *)
(* its typed characters before it, except between moving and scrolling;    *)
(* a putc that has begun writes to the screen.                             *)
(***************************************************************************)
Typed ==
  /\ screen \in Screens /\ screen.shown \in Positions
  /\ keys \in [count : Nat, entered : BOOLEAN]
  /\ terminals \in [TIDs -> Saved]
  /\ opened \subseteq TIDs /\ view_term \in opened /\ running \in opened
  /\ pc \in {"user", "draw", "settle"}
  /\ char \in Kinds \ {"backspace"}

InPlace ==
  /\ pc = "settle" => Moved(screen.x, screen.y, keys.count)
  /\ pc # "settle" => Fits(screen.x, screen.y, keys.count)
  /\ pc = "draw" => screen.mapping = VIDEO
  /\ pc = "user" => screen.shown = Place(screen.x, screen.y) % 65536
  /\ \A t \in TIDs : Fits(terminals[t].x, terminals[t].y, terminals[t].count)

Steady == Typed /\ InPlace

\* A remainder is less than what was divided by.
LEMMA RemainderInRange ==
  ASSUME NEW a \in Int, NEW b \in Int, NEW c \in Int, b > 0, c = b - 1
  PROVE  a % b \in 0 .. c
OBVIOUS

\* The position a cursor is shown at fits its two bytes.
LEMMA ShownInRange ==
  ASSUME NEW s \in Screens, s.shown = Place(s.x, s.y) % 65536
  PROVE  s.shown \in Positions
<1>1. Place(s.x, s.y) \in Int
  BY Rows DEF Place, Screens
<1> DEFINE place == Place(s.x, s.y)
           range == 65536
           top == 65535
<1>2. range \in Int /\ range > 0 /\ top \in Int /\ top = range - 1
  OBVIOUS
<1>3. place \in Int /\ s.shown = place % range /\ Positions = 0 .. top
  BY <1>1 DEF Positions
<1> HIDE DEF place, range, top
<1> DEFINE rest == place % range
<1>4. rest \in 0 .. top
  BY <1>2, <1>3, RemainderInRange
<1>5. s.shown = rest
  BY <1>3
<1> HIDE DEF rest
<1>6. s.shown \in 0 .. top
  BY <1>4, <1>5
<1> QED BY <1>3, <1>6

LEMMA InitSteady == Init => Steady
<1> SUFFICES ASSUME Init PROVE Steady
  OBVIOUS
<1>1. PICK x \in 0 .. NumCols - 1, y \in 0 .. NumRows - 1 :
        screen = Booted(x, y)
  BY DEF Init
<1>2. x \in Int /\ y \in Int /\ VIDEO \in Pages /\ 0 \in TIDs
  BY ConsoleAssumption DEF VIDEO, Pages, TIDs
<1>3. Place(x, y) \in Int /\ 0 <= Place(x, y)
  <2>1. y * NumCols \in Int /\ 0 <= y * NumCols
    BY <1>2, Rows
  <2> QED BY <2>1 DEF Place
<1>4. Place(x, y) % 65536 \in Int
  BY <1>3
<1>5. screen \in Screens /\ screen.x = x /\ screen.y = y
      /\ screen.shown = Place(x, y) % 65536
  BY <1>1, <1>2, <1>4 DEF Booted, Screens
<1>6. screen.shown \in Positions
  <2>1. screen.shown = Place(screen.x, screen.y) % 65536
    BY <1>5
  <2>2. screen \in Screens
    BY <1>5
  <2> QED BY <2>1, <2>2, ShownInRange
<1>7. keys.count = 0 /\ keys \in [count : Nat, entered : BOOLEAN]
  BY DEF Init
<1>8. Fits(screen.x, screen.y, keys.count)
  BY <1>3, <1>5, <1>7, ConsoleAssumption DEF Fits
<1>9. \A t \in TIDs : /\ terminals[t] \in Saved
                      /\ Fits(terminals[t].x, terminals[t].y, terminals[t].count)
  <2>1. 0 * NumCols = 0
    BY ConsoleAssumption
  <2> QED BY <2>1, ConsoleAssumption DEF Init, Saved, Fits, Place
<1>10. terminals \in [TIDs -> Saved]
  BY <1>9 DEF Init
<1>11. Typed
  <2>1. /\ opened \subseteq TIDs /\ view_term \in opened /\ running \in opened
        /\ pc \in {"user", "draw", "settle"} /\ char \in Kinds \ {"backspace"}
    BY <1>2 DEF Init, Kinds
  <2>2. screen \in Screens
    BY <1>5
  <2> QED BY <1>6, <1>7, <1>10, <2>1, <2>2 DEF Typed
<1>12. InPlace
  BY <1>5, <1>8, <1>9 DEF Init, InPlace
<1> QED BY <1>11, <1>12 DEF Steady

\* A key that prints: putc, and the count as it goes with the character.
LEMMA KeySteady ==
  ASSUME Steady, pc = "user", NEW kind \in Kinds,
         Counts(kind, keys.count, keys.count'),
         screen' = Putc(screen, kind, view_term),
         keys' \in [count : Nat, entered : BOOLEAN],
         UNCHANGED <<terminals, view_term, opened, running, pc, char>>
  PROVE  Steady'
<1>1. screen \in Screens /\ view_term \in TIDs
  BY DEF Steady, Typed
<1>2. Fits(screen.x, screen.y, keys.count)
  BY DEF Steady, InPlace
<1>3. /\ screen' \in Screens
      /\ Fits(screen'.x, screen'.y, keys'.count)
      /\ screen'.shown = Place(screen'.x, screen'.y) % 65536
  BY <1>1, <1>2, PutcFits
<1>4. screen'.shown \in Positions
  BY <1>3, ShownInRange
<1>5. Typed'
  BY <1>3, <1>4 DEF Steady, Typed, TIDs
<1>6. InPlace'
  BY <1>3 DEF Steady, InPlace, TIDs
<1> QED BY <1>5, <1>6 DEF Steady

LEMMA CtrlLSteady == ASSUME Steady, CtrlL, pc = "user" PROVE Steady'
<1>1. screen \in Screens /\ screen.mapping \in Pages
  BY DEF Steady, Typed, Screens
<1>2. screen' = update_cursor([screen EXCEPT !.ink[screen.mapping] = {}, !.x = 0, !.y = 0])
  BY DEF CtrlL, Clear
<1> DEFINE blank == [screen EXCEPT !.ink[screen.mapping] = {}]
<1>3. blank \in Screens
  <2> DEFINE ink == [screen.ink EXCEPT ![screen.mapping] = {}]
  <2>1. ink \in [Pages -> SUBSET TIDs]
    BY <1>1 DEF Screens
  <2>2. blank = [screen EXCEPT !.ink = ink]
    BY <1>1 DEF Screens
  <2> HIDE DEF ink, blank
  <2> QED BY <1>1, <2>1, <2>2 DEF Screens
<1>4. screen' = update_cursor(At(blank, 0, 0))
  BY <1>2 DEF At
<1> HIDE DEF blank
<1> DEFINE top == At(blank, 0, 0)
<1>5. top \in Screens /\ top.x = 0 /\ top.y = 0
  BY <1>3, CursorSet
<1> HIDE DEF top
<1>6. screen' = [top EXCEPT !.shown = Place(top.x, top.y) % 65536]
  BY <1>4 DEF update_cursor, top
<1> DEFINE shown == Place(top.x, top.y) % 65536
<1>7. shown \in Int
  <2>1. Place(top.x, top.y) \in Int
    BY <1>5, Rows DEF Place
  <2> QED BY <2>1
<1>8. screen' = [top EXCEPT !.shown = shown]
  BY <1>6
<1>9. shown = Place(top.x, top.y) % 65536
  OBVIOUS
<1> HIDE DEF shown
<1>10. /\ screen' \in Screens /\ screen'.x = 0 /\ screen'.y = 0
       /\ screen'.shown = shown
  BY <1>5, <1>7, <1>8 DEF Screens
<1>11. screen'.shown = Place(screen'.x, screen'.y) % 65536
  BY <1>5, <1>9, <1>10
<1>12. screen'.shown \in Positions
  BY <1>10, <1>11, ShownInRange
<1>13. keys' = [keys EXCEPT !.count = 0]
       /\ UNCHANGED <<terminals, view_term, opened, running, pc, char>>
  BY DEF CtrlL
<1>14. keys' \in [count : Nat, entered : BOOLEAN] /\ keys'.count = 0
  BY <1>13 DEF Steady, Typed
<1>15. Fits(screen'.x, screen'.y, keys'.count)
  <2>1. 0 * NumCols = 0
    BY ConsoleAssumption
  <2> QED BY <1>10, <1>14, <2>1, ConsoleAssumption DEF Fits, Place
<1>16. Typed'
  BY <1>10, <1>12, <1>13, <1>14 DEF Steady, Typed, TIDs
<1>17. InPlace'
  BY <1>11, <1>13, <1>15 DEF Steady, InPlace, TIDs
<1> QED BY <1>16, <1>17 DEF Steady

\* A switch exchanges cursors and counts that were in place.
LEMMA SwitchSteady ==
  ASSUME Steady, pc = "user", NEW t \in TIDs, TerminalSwitch(t)
  PROVE  Steady'
<1> DEFINE copied == [screen EXCEPT !.ink = Exchange(@, view_term, t)]
           mapped == update_video_memory_paging(copied, running, t)
           term == terminals[t]
           mine == [x |-> screen.x, y |-> screen.y, count |-> keys.count,
                    entered |-> keys.entered]
<1>0. /\ screen \in Screens /\ view_term \in TIDs /\ term \in Saved
      /\ running \in TIDs /\ keys \in [count : Nat, entered : BOOLEAN]
      /\ terminals \in [TIDs -> Saved]
  BY DEF Steady, Typed
<1>1. copied \in Screens
  <2>1. \A i \in TIDs : vidmem_data(i) \in Pages
    BY ConsoleAssumption DEF vidmem_data, Pages, TIDs
  <2>2. VIDEO \in Pages /\ screen.ink \in [Pages -> SUBSET TIDs]
    BY <1>0, ConsoleAssumption DEF VIDEO, Pages, Screens
  <2>3. Exchange(screen.ink, view_term, t) \in [Pages -> SUBSET TIDs]
    BY <1>0, <2>1, <2>2 DEF Exchange
  <2> QED BY <1>0, <2>3 DEF Screens
<1>2. mapped \in Screens
  <2>1. PageFor(running, t) \in Pages
    BY <1>0, ConsoleAssumption DEF PageFor, VIDEO, vidmem_data, Pages, TIDs
  <2> HIDE DEF copied
  <2> QED BY <1>1, <2>1 DEF update_video_memory_paging, Screens
<1>3. screen' = TakeCursor(mapped, term)
  BY DEF TerminalSwitch
<1> HIDE DEF mapped
<1> DEFINE moved == At(mapped, term.x, term.y)
<1>4. screen' = [moved EXCEPT !.shown = Place(moved.x, moved.y) % 65536]
  BY <1>3 DEF TakeCursor, update_cursor, At
<1>5. moved \in Screens /\ moved.x = term.x /\ moved.y = term.y
  BY <1>0, <1>2, CursorSet DEF Saved
<1> HIDE DEF moved
<1> DEFINE shown == Place(moved.x, moved.y) % 65536
<1>6. shown \in Int
  <2>1. Place(moved.x, moved.y) \in Int
    BY <1>5, PlaceIsInt
  <2> QED BY <2>1
<1>7. screen' = [moved EXCEPT !.shown = shown]
  BY <1>4
<1>8. shown = Place(moved.x, moved.y) % 65536
  OBVIOUS
<1> HIDE DEF shown
<1>9. /\ screen' \in Screens /\ screen'.x = term.x /\ screen'.y = term.y
      /\ screen'.shown = shown
  BY <1>5, <1>6, <1>7 DEF Screens
<1>10. screen'.shown = Place(screen'.x, screen'.y) % 65536
  BY <1>5, <1>8, <1>9
<1>11. screen'.shown \in Positions
  BY <1>9, <1>10, ShownInRange
<1>12. keys' = [count |-> term.count, entered |-> term.entered]
  BY DEF TerminalSwitch
<1>13. keys' \in [count : Nat, entered : BOOLEAN] /\ keys'.count = term.count
  BY <1>0, <1>12 DEF Saved
<1>14. Fits(screen'.x, screen'.y, keys'.count)
  BY <1>9, <1>13 DEF Steady, InPlace
<1>15. terminals' = [terminals EXCEPT ![view_term] = mine]
  BY DEF TerminalSwitch
<1>16. mine \in Saved /\ Fits(mine.x, mine.y, mine.count)
  BY <1>0 DEF Steady, InPlace, Saved, Screens
<1> HIDE DEF mine, term
<1>17. terminals' \in [TIDs -> Saved]
       /\ \A u \in TIDs : Fits(terminals'[u].x, terminals'[u].y, terminals'[u].count)
  BY <1>0, <1>15, <1>16 DEF Steady, InPlace
<1>18. /\ view_term' = t /\ opened' = opened \cup {t} /\ pc' = "user"
       /\ running' \in opened' /\ char' \in Kinds \ {"backspace"}
  BY DEF TerminalSwitch, Steady, Typed, Kinds
<1>19. Typed'
  BY <1>9, <1>11, <1>13, <1>17, <1>18 DEF Steady, Typed, TIDs
<1>20. InPlace'
  BY <1>10, <1>14, <1>17, <1>18 DEF InPlace, TIDs
<1> QED BY <1>19, <1>20 DEF Steady

\* The three steps of a program's putc.
LEMMA PutcSteady ==
  ASSUME Steady, Orderly, NEW kind \in Kinds,
         ProgramPutc(kind) \/ ProgramDraw \/ ProgramSettle
  PROVE  Steady'
<1>0. screen \in Screens /\ view_term \in TIDs /\ running \in TIDs
  BY DEF Steady, Typed
<1>1. CASE ProgramPutc(kind)
  <2>1. screen' = [screen EXCEPT !.mapping = VIDEO]
    BY <1>1 DEF ProgramPutc, update_video_memory_paging, PageFor
  <2>2. VIDEO \in Pages
    BY ConsoleAssumption DEF VIDEO, Pages
  <2>3. /\ screen' \in Screens /\ screen'.x = screen.x /\ screen'.y = screen.y
        /\ screen'.mapping = VIDEO /\ screen'.shown = screen.shown
    BY <1>0, <2>1, <2>2 DEF Screens
  <2>4. char' \in Kinds \ {"backspace"} /\ pc' = "draw" /\ pc = "user"
    BY <1>1 DEF ProgramPutc, Orderly
  <2>5. Typed'
    BY <1>1, <2>3, <2>4 DEF ProgramPutc, Steady, Typed, TIDs
  <2>6. InPlace'
    BY <1>1, <2>3, <2>4 DEF ProgramPutc, Steady, InPlace, TIDs
  <2> QED BY <2>5, <2>6 DEF Steady
<1>2. CASE ProgramDraw
  <2> DEFINE drawn == Draw(screen, char, running)
  <2>1. Fits(screen.x, screen.y, keys.count) /\ char \in Kinds \ {"backspace"}
    BY <1>2 DEF ProgramDraw, Steady, Typed, InPlace
  <2>2. /\ drawn \in Screens /\ drawn.x = screen.x /\ drawn.y = screen.y
        /\ drawn.shown = screen.shown
    BY <1>0, DrawKeeps
  <2>3. screen' = Move(drawn, char)
    BY <1>2 DEF ProgramDraw
  <2> HIDE DEF drawn
  <2>4. screen' \in Screens /\ screen'.shown = screen.shown
    BY <2>1, <2>2, <2>3, MoveKeeps DEF Fits
  <2>5. Moved(screen'.x, screen'.y, keys.count)
    BY <2>1, <2>2, <2>3, MovesOn
  <2>6. Typed'
    BY <1>2, <2>4 DEF ProgramDraw, Steady, Typed, TIDs
  <2>7. InPlace'
    BY <1>2, <2>5 DEF ProgramDraw, Steady, InPlace, TIDs
  <2> QED BY <2>6, <2>7 DEF Steady
<1>3. CASE ProgramSettle
  <2>1. Moved(screen.x, screen.y, keys.count)
    BY <1>3 DEF ProgramSettle, Steady, InPlace
  <2>2. /\ screen' \in Screens
        /\ Fits(screen'.x, screen'.y, keys.count)
        /\ screen'.shown = Place(screen'.x, screen'.y) % 65536
    BY <1>0, <1>3, <2>1, SettleFits DEF ProgramSettle
  <2>3. screen'.shown \in Positions
    BY <2>2, ShownInRange
  <2>4. Typed'
    BY <1>3, <2>2, <2>3 DEF ProgramSettle, Steady, Typed, TIDs, Kinds
  <2>5. InPlace'
    BY <1>3, <2>2 DEF ProgramSettle, Steady, InPlace, TIDs
  <2> QED BY <2>4, <2>5 DEF Steady
<1> QED BY <1>1, <1>2, <1>3

LEMMA NextSteady == ASSUME Orderly PROVE Steady /\ [Next]_vars => Steady'
<1> SUFFICES ASSUME Steady, [Next]_vars PROVE Steady'
  OBVIOUS
<1>0. MayPress => pc = "user"
  BY DEF Orderly, MayPress
<1>1. CASE Type
  <2>1. Counts("glyph", keys.count, keys.count')
    <3>1. keys.count \in 0 .. KeyLimit /\ keys.count # KeyLimit /\ KeyLimit \in Nat
      BY <1>0, <1>1, ConsoleAssumption DEF Type, Steady, InPlace, Fits
    <3>2. keys.count' = keys.count + 1
      BY <1>1 DEF Type, Steady, Typed
    <3> QED BY <3>1, <3>2 DEF Counts
  <2> QED BY <1>0, <1>1, <2>1, KeySteady DEF Type, Kinds, Steady, Typed
<1>2. CASE Backspace
  <2>1. /\ Counts("backspace", keys.count, keys.count')
        /\ keys' \in [count : Nat, entered : BOOLEAN]
    BY <1>2 DEF Backspace, Counts, Steady, Typed
  <2> QED BY <1>0, <1>2, <2>1, KeySteady DEF Backspace, Kinds
<1>3. CASE Enter
  <2>1. /\ Counts("newline", keys.count, keys.count')
        /\ keys' \in [count : Nat, entered : BOOLEAN]
    BY <1>3 DEF Enter, Counts, Steady, Typed
  <2> QED BY <1>0, <1>3, <2>1, KeySteady DEF Enter, Kinds
<1>4. CASE CtrlL
  BY <1>0, <1>4, CtrlLSteady DEF CtrlL
<1>5. ASSUME NEW t \in TIDs, TerminalSwitch(t) PROVE Steady'
  BY <1>0, <1>5, SwitchSteady DEF TerminalSwitch
<1>6. ASSUME NEW kind \in Kinds, ProgramPutc(kind) PROVE Steady'
  BY <1>6, PutcSteady
<1>7. CASE ProgramDraw \/ ProgramSettle
  BY <1>7, PutcSteady DEF Kinds
<1>8. CASE ProgramRead
  <2>1. keys' \in [count : Nat, entered : BOOLEAN] /\ keys'.count = 0
    BY <1>8 DEF ProgramRead
  <2>2. Fits(screen.x, screen.y, 0)
    <3>1. Fits(screen.x, screen.y, keys.count) /\ Place(screen.x, screen.y) \in Int
      BY <1>8, PlaceIsInt DEF ProgramRead, Steady, Typed, InPlace
    <3> QED BY <3>1, ConsoleAssumption DEF Fits
  <2>3. Typed'
    BY <1>8, <2>1 DEF ProgramRead, Steady, Typed, TIDs
  <2>4. InPlace'
    BY <1>8, <2>1, <2>2 DEF ProgramRead, Steady, InPlace, TIDs
  <2> QED BY <2>3, <2>4 DEF Steady
<1>9. CASE ProgramExecute
  <2>1. Typed'
    BY <1>9 DEF ProgramExecute, Steady, Typed
  <2>2. InPlace'
    BY <1>9 DEF ProgramExecute, Steady, InPlace
  <2> QED BY <2>1, <2>2 DEF Steady
<1>10. CASE ShellHalt
  <2>1. Typed'
    BY <1>10 DEF ShellHalt, Steady, Typed
  <2>2. InPlace'
    BY <1>10 DEF ShellHalt, Steady, InPlace
  <2> QED BY <2>1, <2>2 DEF Steady
<1>11. CASE UNCHANGED vars
  BY <1>11 DEF vars, Steady, Typed, InPlace
<1> QED BY <1>1, <1>2, <1>3, <1>4, <1>5, <1>6, <1>7, <1>8, <1>9, <1>10, <1>11
        DEF Next, Program, User

\* The inductive invariant holds throughout.
THEOREM SteadyHolds == ASSUME Orderly PROVE Spec => []Steady
<1>1. Steady /\ [Next]_vars => Steady'
  BY NextSteady
<1> QED BY InitSteady, <1>1, PTL DEF Spec

\* Once a putc has ended, and until a switch, the screen is what is mapped.
Mapped ==
  /\ printed \in BOOLEAN
  /\ pc = "user" /\ printed => screen.mapping = VIDEO

LEMMA NextMapped ==
  ASSUME Orderly PROVE Steady /\ Mapped /\ [Next]_vars => Mapped'
<1> SUFFICES ASSUME Steady, Mapped, [Next]_vars PROVE Mapped'
  OBVIOUS
<1>0. MayPress => pc = "user"
  BY DEF Orderly, MayPress
<1>1. screen \in Screens /\ view_term \in TIDs
  BY DEF Steady, Typed
<1>2. ASSUME pc = "user", NEW kind \in Kinds, printed' = TRUE,
             Counts(kind, keys.count, keys.count'),
             screen' = Putc(screen, kind, view_term)
      PROVE  Mapped'
  <2>1. Fits(screen.x, screen.y, keys.count)
    BY <1>2 DEF Steady, InPlace
  <2>2. screen'.mapping = VIDEO
    BY <1>1, <1>2, <2>1, PutcFits
  <2> QED BY <1>2, <2>2 DEF Mapped
<1>3. CASE Type
  <2>1. Counts("glyph", keys.count, keys.count')
    <3>1. keys.count \in 0 .. KeyLimit /\ keys.count # KeyLimit /\ KeyLimit \in Nat
      BY <1>0, <1>3, ConsoleAssumption DEF Type, Steady, InPlace, Fits
    <3>2. keys.count' = keys.count + 1
      BY <1>3 DEF Type, Steady, Typed
    <3> QED BY <3>1, <3>2 DEF Counts
  <2> QED BY <1>0, <1>2, <1>3, <2>1 DEF Type, Kinds
<1>4. CASE Backspace
  <2>1. Counts("backspace", keys.count, keys.count')
    BY <1>4 DEF Backspace, Counts, Steady, Typed
  <2> QED BY <1>0, <1>2, <1>4, <2>1 DEF Backspace, Kinds
<1>5. CASE Enter
  <2>1. Counts("newline", keys.count, keys.count')
    BY <1>5 DEF Enter, Counts, Steady, Typed
  <2> QED BY <1>0, <1>2, <1>5, <2>1 DEF Enter, Kinds
<1>6. CASE CtrlL
  <2>1. screen'.mapping = screen.mapping
    BY <1>1, <1>6 DEF CtrlL, Clear, update_cursor, Screens
  <2> QED BY <1>6, <2>1 DEF CtrlL, Mapped
<1>7. ASSUME NEW t \in TIDs, TerminalSwitch(t) PROVE Mapped'
  BY <1>7 DEF TerminalSwitch, Mapped
<1>8. ASSUME NEW kind \in Kinds, ProgramPutc(kind) PROVE Mapped'
  BY <1>8 DEF ProgramPutc, Mapped
<1>9. CASE ProgramDraw
  BY <1>9 DEF ProgramDraw, Mapped
<1>10. CASE ProgramSettle
  <2>1. Moved(screen.x, screen.y, keys.count)
    BY <1>10 DEF ProgramSettle, Steady, InPlace
  <2>2. screen'.mapping = VIDEO
    BY <1>1, <1>10, <2>1, SettleFits DEF ProgramSettle
  <2> QED BY <1>10, <2>2 DEF ProgramSettle, Mapped
<1>11. CASE ProgramRead \/ ProgramExecute \/ ShellHalt
  BY <1>11 DEF ProgramRead, ProgramExecute, ShellHalt, Mapped
<1>12. CASE UNCHANGED vars
  BY <1>12 DEF vars, Mapped
<1> QED BY <1>3, <1>4, <1>5, <1>6, <1>7, <1>8, <1>9, <1>10, <1>11, <1>12
        DEF Next, Program, User

\* After a putc and until a switch the kernel writes to the screen.
THEOREM MappedHolds == ASSUME Orderly PROVE Spec => []Mapped
<1>1. Init => Mapped
  BY DEF Init, Booted, Mapped
<1>2. Steady /\ Mapped /\ [Next]_vars => Mapped'
  BY NextMapped
<1> QED BY <1>1, <1>2, SteadyHolds, PTL DEF Spec

-----------------------------------------------------------------------------
\* The parts of the console stay in range.
THEOREM ConsoleTypeCorrect == ASSUME Orderly PROVE Spec => []TypeOK
<1>1. Steady /\ Mapped => TypeOK
  <2> SUFFICES ASSUME Steady, Mapped PROVE TypeOK
    OBVIOUS
  <2>1. /\ screen.x \in 0 .. NumCols /\ screen.y \in -1 .. MaxRow + 1
        /\ keys.count \in 0 .. KeyLimit
    BY ConsoleAssumption DEF Steady, Typed, InPlace, Moved, Fits
  <2>2. keys \in [count : 0 .. KeyLimit, entered : BOOLEAN]
    BY <2>1 DEF Steady, Typed
  <2> QED BY <2>1, <2>2 DEF TypeOK, Steady, Typed, Screens, Mapped
<1> QED BY <1>1, SteadyHolds, MappedHolds, PTL

(***************************************************************************)
(* On a screen of any size no terminal's cursor leaves it between          *)
(* characters, whatever is printed, typed, erased, cleared and looked at.  *)
(***************************************************************************)
THEOREM CursorOnScreenCorrect == ASSUME Orderly PROVE Spec => []CursorOnScreen
<1>1. Steady => CursorOnScreen
  BY DEF Steady, InPlace, Fits, CursorOnScreen, CursorOf
<1> QED BY <1>1, SteadyHolds, PTL

\* A line's typed characters always fit before the cursor of its terminal.
THEOREM RoomToEraseCorrect == ASSUME Orderly PROVE Spec => []RoomToErase
<1>1. Steady => RoomToErase
  BY DEF Steady, InPlace, Fits, RoomToErase, CountOf, CursorOf
<1> QED BY <1>1, SteadyHolds, PTL

\* The hardware cursor is where the next character goes.
THEOREM CursorIsShownCorrect == ASSUME Orderly PROVE Spec => []CursorIsShown
<1>1. Steady => CursorIsShown
  BY DEF Steady, InPlace, CursorIsShown
<1> QED BY <1>1, SteadyHolds, PTL

-----------------------------------------------------------------------------
\* A step that draws on the screen only, with the same terminal in view.
LEMMA OtherPicture ==
  ASSUME \A p \in Pages \ {VIDEO} : screen'.ink[p] = screen.ink[p],
         view_term' = view_term, NEW t \in TIDs, t # view_term
  PROVE  Picture(t)' = Picture(t)
<1>1. vidmem_data(t) \in Pages \ {VIDEO}
  BY ConsoleAssumption DEF vidmem_data, VIDEO, Pages, TIDs
<1> QED BY <1>1 DEF Picture, PageFor

\* What one step does to the picture of a terminal not looked at all along.
KeepsPictures ==
  \A t \in TIDs : (t # view_term \/ view_term' # view_term)
                  => CtrlL \/ Picture(t)' = Picture(t)

\* The exchange moves two pictures and loses none.
LEMMA SwitchKeepsPictures ==
  ASSUME Steady, NEW t \in TIDs, TerminalSwitch(t)
  PROVE  KeepsPictures
<1>0. /\ screen.ink \in [Pages -> SUBSET TIDs] /\ view_term \in TIDs
      /\ t # view_term /\ view_term' = t
  BY DEF Steady, Typed, Screens, TerminalSwitch
<1>1. screen'.ink = Exchange(screen.ink, view_term, t)
  <2> DEFINE copied == [screen EXCEPT !.ink = Exchange(@, view_term, t)]
             mapped == update_video_memory_paging(copied, running, t)
  <2>1. copied.ink = Exchange(screen.ink, view_term, t)
        /\ DOMAIN copied = {"x", "y", "mapping", "ink", "shown"}
    BY DEF Steady, Typed, Screens
  <2> HIDE DEF copied
  <2>2. mapped.ink = copied.ink /\ DOMAIN mapped = {"x", "y", "mapping", "ink", "shown"}
    BY <2>1 DEF update_video_memory_paging
  <2>3. screen' = TakeCursor(mapped, terminals[t])
    BY DEF TerminalSwitch, copied
  <2> HIDE DEF mapped
  <2>4. TakeCursor(mapped, terminals[t]).ink = mapped.ink
    BY <2>2 DEF TakeCursor, update_cursor
  <2> QED BY <2>1, <2>2, <2>3, <2>4
<1>2. VIDEO \in Pages /\ \A u \in TIDs : vidmem_data(u) \in Pages \ {VIDEO}
  BY ConsoleAssumption DEF vidmem_data, VIDEO, Pages, TIDs
<1>3. \A u, w \in TIDs : vidmem_data(u) = vidmem_data(w) => u = w
  BY DEF vidmem_data, TIDs
<1>4. ASSUME NEW u \in TIDs PROVE Picture(u)' = Picture(u)
  <2>1. Picture(u)' = screen'.ink[PageFor(u, t)]
    BY <1>0 DEF Picture
  <2>2. Picture(u) = screen.ink[PageFor(u, view_term)]
    BY DEF Picture
  <2>3. CASE u = t
    BY <1>0, <1>1, <1>2, <1>3, <2>1, <2>2, <2>3 DEF Exchange, PageFor
  <2>4. CASE u = view_term
    BY <1>0, <1>1, <1>2, <1>3, <2>1, <2>2, <2>4 DEF Exchange, PageFor
  <2>5. CASE u # t /\ u # view_term
    BY <1>0, <1>1, <1>2, <1>3, <2>1, <2>2, <2>5 DEF Exchange, PageFor
  <2> QED BY <2>3, <2>4, <2>5
<1> QED BY <1>4 DEF KeepsPictures

LEMMA NextKeepsPictures ==
  ASSUME Orderly PROVE Steady /\ [Next]_vars => KeepsPictures \/ UNCHANGED vars
<1> SUFFICES ASSUME Steady, Next PROVE KeepsPictures
  OBVIOUS
<1>0. MayPress => pc = "user"
  BY DEF Orderly, MayPress
<1>1. screen \in Screens /\ view_term \in TIDs /\ running \in TIDs
  BY DEF Steady, Typed
<1>2. ASSUME view_term' = view_term,
             \A p \in Pages \ {VIDEO} : screen'.ink[p] = screen.ink[p]
      PROVE  KeepsPictures
  BY <1>2, OtherPicture DEF KeepsPictures
<1>3. ASSUME pc = "user", NEW kind \in Kinds, UNCHANGED view_term,
             Counts(kind, keys.count, keys.count'),
             screen' = Putc(screen, kind, view_term)
      PROVE  KeepsPictures
  <2>1. Fits(screen.x, screen.y, keys.count)
    BY <1>3 DEF Steady, InPlace
  <2>2. \A p \in Pages \ {VIDEO} : screen'.ink[p] = screen.ink[p]
    BY <1>1, <1>3, <2>1, PutcFits
  <2> QED BY <1>2, <1>3, <2>2
<1>4. CASE Type
  <2>1. Counts("glyph", keys.count, keys.count')
    <3>1. keys.count \in 0 .. KeyLimit /\ keys.count # KeyLimit /\ KeyLimit \in Nat
      BY <1>0, <1>4, ConsoleAssumption DEF Type, Steady, InPlace, Fits
    <3>2. keys.count' = keys.count + 1
      BY <1>4 DEF Type, Steady, Typed
    <3> QED BY <3>1, <3>2 DEF Counts
  <2> QED BY <1>0, <1>3, <1>4, <2>1 DEF Type, Kinds
<1>5. CASE Backspace
  <2>1. Counts("backspace", keys.count, keys.count')
    BY <1>5 DEF Backspace, Counts, Steady, Typed
  <2> QED BY <1>0, <1>3, <1>5, <2>1 DEF Backspace, Kinds
<1>6. CASE Enter
  <2>1. Counts("newline", keys.count, keys.count')
    BY <1>6 DEF Enter, Counts, Steady, Typed
  <2> QED BY <1>0, <1>3, <1>6, <2>1 DEF Enter, Kinds
<1>7. CASE CtrlL
  BY <1>7 DEF KeepsPictures
<1>8. ASSUME NEW t \in TIDs, TerminalSwitch(t) PROVE KeepsPictures
  BY <1>8, SwitchKeepsPictures
<1>9. ASSUME NEW kind \in Kinds, ProgramPutc(kind) PROVE KeepsPictures
  <2>1. screen'.ink = screen.ink
    BY <1>1, <1>9 DEF ProgramPutc, update_video_memory_paging, Screens
  <2> QED BY <1>2, <1>9, <2>1 DEF ProgramPutc
<1>10. CASE ProgramDraw
  <2> DEFINE drawn == Draw(screen, char, running)
  <2>1. /\ Fits(screen.x, screen.y, keys.count) /\ screen.mapping = VIDEO
        /\ char \in Kinds
    BY <1>10 DEF ProgramDraw, Steady, Typed, InPlace
  <2>2. PageAt(screen, Place(screen.x, screen.y)) = VIDEO
    BY <1>1, <2>1, OnePage
  <2>3. /\ drawn \in Screens /\ drawn.x = screen.x
        /\ \A p \in Pages \ {VIDEO} : drawn.ink[p] = screen.ink[p]
    BY <1>1, <2>2, DrawKeeps
  <2>4. screen' = Move(drawn, char)
    BY <1>10 DEF ProgramDraw
  <2> HIDE DEF drawn
  <2>5. screen'.ink = drawn.ink
    BY <2>1, <2>3, <2>4, MoveKeeps DEF Fits
  <2> QED BY <1>2, <1>10, <2>3, <2>5 DEF ProgramDraw
<1>11. CASE ProgramSettle
  <2>1. Moved(screen.x, screen.y, keys.count)
    BY <1>11 DEF ProgramSettle, Steady, InPlace
  <2>2. screen'.ink = screen.ink
    BY <1>1, <1>11, <2>1, SettleFits DEF ProgramSettle
  <2> QED BY <1>2, <1>11, <2>2 DEF ProgramSettle
<1>12. CASE ProgramRead \/ ProgramExecute \/ ShellHalt
  BY <1>2, <1>12 DEF ProgramRead, ProgramExecute, ShellHalt
<1> QED BY <1>4, <1>5, <1>6, <1>7, <1>8, <1>9, <1>10, <1>11, <1>12
        DEF Next, Program, User

(***************************************************************************)
(* No step but Ctrl+L touches the picture of a terminal that is not in     *)
(* view before and after it, and a switch keeps every picture.             *)
(***************************************************************************)
THEOREM PicturesKeptCorrect == ASSUME Orderly PROVE Spec => PicturesKept
<1>1. Steady /\ [Next]_vars => [KeepsPictures]_vars
  BY NextKeepsPictures
<1> QED BY <1>1, SteadyHolds, PTL DEF Spec, PicturesKept, KeepsPictures

(***************************************************************************)
(* On a screen of any size Ctrl+L clears the picture of the terminal in    *)
(* view whenever something has been printed since it came into view.       *)
(***************************************************************************)
THEOREM CtrlLClearsScreenCorrect ==
  ASSUME Orderly PROVE Spec => CtrlLClearsScreen
<1> DEFINE Cleared == CtrlL /\ printed => Picture(view_term)' = {}
<1>1. Steady /\ Mapped /\ [Next]_vars => [Cleared]_vars
  <2> SUFFICES ASSUME Steady, Mapped, CtrlL, printed
               PROVE  Picture(view_term)' = {}
    OBVIOUS
  <2>1. /\ screen \in Screens /\ screen.ink \in [Pages -> SUBSET TIDs]
        /\ screen.mapping = VIDEO /\ view_term' = view_term
    BY DEF Orderly, MayPress, CtrlL, Steady, Typed, Screens, Mapped
  <2>2. VIDEO \in Pages
    BY ConsoleAssumption DEF VIDEO, Pages
  <2>3. screen'.ink = [screen.ink EXCEPT ![VIDEO] = {}]
    BY <2>1 DEF CtrlL, Clear, update_cursor, Screens
  <2>4. screen'.ink[VIDEO] = {}
    BY <2>1, <2>2, <2>3
  <2> QED BY <2>1, <2>4 DEF Picture, PageFor
<1> QED BY <1>1, SteadyHolds, MappedHolds, PTL DEF Spec, CtrlLClearsScreen

=============================================================================
