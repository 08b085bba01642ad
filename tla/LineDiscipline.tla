--------------------------- MODULE LineDiscipline ---------------------------
(***************************************************************************)
(* How typed characters become lines: the editing part of keyb_main        *)
(* (keyboard.c), terminal_read and the keyboard part of terminal_switch    *)
(* (terminal.c).                                                           *)
(*                                                                         *)
(* The keyboard interrupt runs with interrupts off, so each key is one     *)
(* action.  terminal_read waits with interrupts on and turns them off only *)
(* after its loop has seen the flag, so waiting, having seen the flag and  *)
(* copying are steps of their own, and any key may fall between them.      *)
(*                                                                         *)
(* One program runs: the one last started by opening a terminal.  The      *)
(* others are parked (see Process), and programs do not end here.          *)
(*                                                                         *)
(* The screen's side is kept in two history variables: what the user has   *)
(* typed on the current line and the line last finished with Enter.        *)
(***************************************************************************)
EXTENDS Integers, Sequences, FiniteSets

CONSTANTS
  Chars,        \* printable characters
  NL, SP, NUL,  \* '\n', ' ' and '\0' as key_buf holds them
  NoLine,       \* no line is waiting to be read
  MaxBufSize,   \* MAX_BUF_SIZE (128)
  MaxTerms,     \* MAX_TERMS (3)
  MaxLine,      \* bound: the user stops typing when a line has this length
  ReadSizes,    \* environment: the nbytes that programs pass to read
  Focused,      \* environment: keys are typed only where the program runs
  TypeAhead,    \* environment: keys may be typed while a line waits
  LeavePending  \* environment: Alt+Fn may be pressed while a line waits

ASSUME LineAssumption ==
  /\ MaxBufSize \in Nat \ {0}
  /\ MaxTerms \in Nat \ {0}
  /\ MaxLine \in Nat
  /\ ReadSizes \subseteq Nat \ {0}
  /\ NL \notin Chars /\ NoLine \notin Seq(Chars)
  /\ Focused \in BOOLEAN /\ TypeAhead \in BOOLEAN /\ LeavePending \in BOOLEAN

TIDs == 0 .. MaxTerms - 1
Indices == 0 .. MaxBufSize - 1
Codes == Chars \cup {NL, SP, NUL}

\* keyb_char_count at which keys are dropped: 127, leaving room for '\n'.
\* KeyLimit_Full: the room for '\n' is forgotten.
KeyLimit_Full == MaxBufSize
KeyLimit == MaxBufSize - 1

Keyboard == [key_buf : [Indices -> Codes],
             keyb_char_count : 0 .. MaxBufSize - 1,
             enterKeyPressed : BOOLEAN]

VARIABLES
  kb,        \* the global key_buf, keyb_char_count and enterKeyPressed
  saved,     \* the same three in terminals[t]
  view_term, \* tid of the terminal on screen
  opened,    \* terminals a shell was started on
  running,   \* the terminal whose program has the CPU
  pc,        \* where that program is: in user code, in terminal_read's loop,
             \* or past the loop and before cli
  nbytes,    \* argument of its read
  got,       \* what its read put before the '\n', until it reads again
  overrun,   \* terminal_read left key_buf: memory after it is read and zeroed
  typing,    \* typing[t]: the line being typed on screen t
  line       \* line[t]: the line last entered on t and not read, or NoLine

vars == <<kb, saved, view_term, opened, running, pc, nbytes, got, overrun,
          typing, line>>

\* The keyboard state of terminal t, wherever it is kept.
KeyboardOf(t) == IF t = view_term THEN kb ELSE saved[t]

(***************************************************************************)
(* init_terms.  The key_buf of every terminal is copied from a local       *)
(* variable nobody wrote: any code, taken to be the same in every cell.    *)
(***************************************************************************)
Init ==
  /\ \E garbage \in Codes :
       /\ kb = [key_buf |-> [i \in Indices |-> garbage], keyb_char_count |-> 0,
                enterKeyPressed |-> FALSE]
       /\ saved = [t \in TIDs |-> kb]
  /\ view_term = 0 /\ opened = {0} /\ running = 0
  /\ pc = "user" /\ nbytes = 0 /\ got = <<>> /\ overrun = FALSE
  /\ typing = [t \in TIDs |-> <<>>]
  /\ line = [t \in TIDs |-> NoLine]

-----------------------------------------------------------------------------
\* The user presses an editing key.
MayType ==
  /\ ~overrun
  /\ Focused => view_term = running
  /\ ~TypeAhead => ~kb.enterKeyPressed

\* A printable key; dropped when the buffer is at its limit.
Type(c) ==
  /\ MayType
  /\ Len(typing[view_term]) < MaxLine
  /\ kb.keyb_char_count # KeyLimit
  /\ kb' = [kb EXCEPT !.key_buf[kb.keyb_char_count] = c,
                      !.keyb_char_count = @ + 1]
  /\ typing' = [typing EXCEPT ![view_term] = Append(@, c)]
  /\ UNCHANGED <<saved, view_term, opened, running, pc, nbytes, got, overrun,
                 line>>

Backspace ==
  /\ MayType
  /\ kb.keyb_char_count > 0
  /\ kb' = [kb EXCEPT !.key_buf[kb.keyb_char_count] = SP,
                      !.keyb_char_count = @ - 1]
  /\ typing' = [typing EXCEPT ![view_term] =
                  IF @ = <<>> THEN @ ELSE SubSeq(@, 1, Len(@) - 1)]
  /\ UNCHANGED <<saved, view_term, opened, running, pc, nbytes, got, overrun,
                 line>>

\* Enter on an empty buffer is ignored; otherwise the count stays as it is.
Enter ==
  /\ MayType
  /\ kb.keyb_char_count # 0
  /\ kb' = [kb EXCEPT !.key_buf[kb.keyb_char_count] = NL,
                      !.enterKeyPressed = TRUE]
  /\ line' = [line EXCEPT ![view_term] = typing[view_term]]
  /\ typing' = [typing EXCEPT ![view_term] = <<>>]
  /\ UNCHANGED <<saved, view_term, opened, running, pc, nbytes, got, overrun>>

\* Ctrl+L clears the screen and forgets the line being typed.
\* CtrlL_KeepsCount: only the screen is cleared.
CtrlL_KeepsCount ==
  /\ MayType
  /\ typing' = [typing EXCEPT ![view_term] = <<>>]
  /\ UNCHANGED <<kb, saved, view_term, opened, running, pc, nbytes, got,
                 overrun, line>>
CtrlL ==
  /\ MayType
  /\ kb' = [kb EXCEPT !.keyb_char_count = 0]
  /\ typing' = [typing EXCEPT ![view_term] = <<>>]
  /\ UNCHANGED <<saved, view_term, opened, running, pc, nbytes, got, overrun,
                 line>>

(***************************************************************************)
(* Alt+Fn: terminal_switch exchanges the keyboard state, and opening a     *)
(* terminal starts a shell that has the CPU from then on.                  *)
(***************************************************************************)
TerminalSwitch(t) ==
  /\ ~overrun
  /\ ~LeavePending => ~kb.enterKeyPressed
  /\ t # view_term
  /\ saved' = [saved EXCEPT ![view_term] = kb]
  /\ kb' = saved[t]
  /\ view_term' = t
  /\ opened' = opened \cup {t}
  /\ IF t \in opened
     THEN UNCHANGED <<running, pc, nbytes>>
     ELSE running' = t /\ pc' = "user" /\ nbytes' = 0
  /\ UNCHANGED <<got, overrun, typing, line>>

-----------------------------------------------------------------------------
\* A program calls read(0, buf, n).
\* CallRead_ClearsEnter: it first forgets an Enter, as rtc_read does a tick.
CallRead_ClearsEnter(n) ==
  /\ ~overrun /\ pc = "user"
  /\ pc' = "spin" /\ nbytes' = n /\ got' = <<>>
  /\ kb' = [kb EXCEPT !.enterKeyPressed = FALSE]
  /\ UNCHANGED <<saved, view_term, opened, running, overrun, typing, line>>
CallRead(n) ==
  /\ ~overrun /\ pc = "user"
  /\ pc' = "spin" /\ nbytes' = n /\ got' = <<>>
  /\ UNCHANGED <<kb, saved, view_term, opened, running, overrun, typing, line>>

\* while(!enterKeyPressed) ends.
SeeEnter ==
  /\ ~overrun /\ pc = "spin" /\ kb.enterKeyPressed
  /\ pc' = "copy"
  /\ UNCHANGED <<kb, saved, view_term, opened, running, nbytes, got, overrun,
                 typing, line>>

(***************************************************************************)
(* The copy loop looks for '\n' in the first n - 1 characters, n being the *)
(* size of the caller's buffer and not that of key_buf.                    *)
(***************************************************************************)
Newlines(buf, n) == {i \in Indices : i < n - 1 /\ buf[i] = NL}

FirstNewline(buf, n) ==
  CHOOSE i \in Newlines(buf, n) : \A j \in Newlines(buf, n) : i <= j

\* How many characters are copied from key_buf.
\* Copied_LineOnly: the size of the caller's buffer is not looked at.
Copied_LineOnly(buf, n) ==
  IF Newlines(buf, MaxBufSize + 1) # {}
  THEN FirstNewline(buf, MaxBufSize + 1) ELSE MaxBufSize
Copied(buf, n) ==
  IF Newlines(buf, n) # {} THEN FirstNewline(buf, n)
  ELSE IF n - 1 <= MaxBufSize THEN n - 1 ELSE MaxBufSize

ReadCopy ==
  LET buf == kb.key_buf
      k == Copied(buf, nbytes)
  IN
    /\ ~overrun /\ pc = "copy"
    /\ pc' = "user" /\ nbytes' = 0
    /\ got' = [i \in 1 .. k |-> buf[i - 1]]
    /\ overrun' = (Newlines(buf, nbytes) = {} /\ nbytes - 1 > MaxBufSize)
    /\ kb' = [key_buf |-> [i \in Indices |->
                             IF i < k THEN NUL
                             ELSE IF i = k /\ buf[i] = NL /\ k < nbytes - 1
                                  THEN SP ELSE buf[i]],
              keyb_char_count |-> 0, enterKeyPressed |-> FALSE]
    /\ line' = [line EXCEPT ![view_term] = NoLine]
    /\ UNCHANGED <<saved, view_term, opened, running, typing>>

Reader == (\E n \in ReadSizes : CallRead(n)) \/ SeeEnter \/ ReadCopy

User ==
  \/ \E c \in Chars : Type(c)
  \/ Backspace
  \/ Enter
  \/ CtrlL
  \/ \E t \in TIDs : TerminalSwitch(t)

Next == Reader \/ User

Spec == Init /\ [][Next]_vars

(***************************************************************************)
(* The running program computes, calls read again and its loop runs, key   *)
(* presses being rare: each of its steps that stays possible is taken.     *)
(***************************************************************************)
FairSpec ==
  /\ Spec
  /\ WF_vars(\E n \in ReadSizes : CallRead(n))
  /\ WF_vars(SeeEnter)
  /\ WF_vars(ReadCopy)

-----------------------------------------------------------------------------
\* Buffers hold codes and the count always leaves room for '\n'.
TypeOK ==
  /\ kb \in Keyboard
  /\ saved \in [TIDs -> Keyboard]
  /\ view_term \in TIDs
  /\ opened \subseteq TIDs
  /\ running \in opened
  /\ pc \in {"user", "spin", "copy"}
  /\ nbytes \in ReadSizes \cup {0} /\ (pc # "user" => nbytes # 0)
  /\ got \in Seq(Codes)
  /\ overrun \in BOOLEAN
  /\ typing \in [TIDs -> Seq(Chars)]
  /\ line \in [TIDs -> Seq(Chars) \cup {NoLine}]

\* key_buf starts with the characters of s.
StartsWith(buf, s) ==
  /\ Len(s) <= MaxBufSize
  /\ \A i \in 1 .. Len(s) : buf[i - 1] = s[i]

(***************************************************************************)
(* What the screen shows is what will be read: for each terminal, in view  *)
(* or not, key_buf starts with the line being typed and the count is its   *)
(* length, or, once Enter is pressed, with the entered line and its '\n'   *)
(* (keyboard.c:260-314, terminal.c:78-85, 182-204).                        *)
(***************************************************************************)
BufferMatchesScreen ==
  \A t \in TIDs : LET k == KeyboardOf(t) IN
    IF k.enterKeyPressed
    THEN line[t] # NoLine /\ StartsWith(k.key_buf, Append(line[t], NL))
    ELSE /\ line[t] = NoLine
         /\ StartsWith(k.key_buf, typing[t])
         /\ k.keyb_char_count = Len(typing[t])

(***************************************************************************)
(* A read returns the line its own terminal's user entered, cut to the     *)
(* caller's buffer, and only key_buf is touched (terminal.c:166-207).      *)
(***************************************************************************)
Cut(s, n) == SubSeq(s, 1, IF Len(s) < n - 1 THEN Len(s) ELSE n - 1)

DeliversOwnLine ==
  [][ReadCopy => /\ ~overrun'
                 /\ line[running] # NoLine
                 /\ got' = Cut(line[running], nbytes)]_vars

(***************************************************************************)
(* An entered line is read by the program of its terminal, whatever that   *)
(* program was doing when Enter was pressed (terminal.c:171, 204).         *)
(***************************************************************************)
LineIsRead ==
  \A t \in TIDs : (line[t] # NoLine) ~> (line[t] = NoLine)

(***************************************************************************)
(* "We made enterKeyPressed an attribute of the terminal" (buglog.log:72): *)
(* a program does not read another terminal's line.                        *)
(***************************************************************************)
ReadsOwnTerminal == [][ReadCopy => view_term = running]_vars

=============================================================================
