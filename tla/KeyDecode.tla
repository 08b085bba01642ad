------------------------------- MODULE KeyDecode -------------------------------
(***************************************************************************)
(* What keyb_main makes of a scan code (keyboard.c), before the editing    *)
(* that LineDiscipline and Console model: the modifier flags and the table *)
(* a character is read from.                                               *)
(***************************************************************************)
EXTENDS Integers

\* Keys with a flag, keys that select a terminal, and one for all characters.
Modifiers == {"ctrl", "lshift", "rshift", "alt"}
FKeys == {"F1", "F2", "F3"}
Keys == Modifiers \cup FKeys \cup {"caps", "char"}

\* A scan code: the key and whether it went down.
Codes == [key : Keys, down : BOOLEAN]

Tables == {"LOWER_TBL", "UPPER_TBL", "LOCK_TBL"}

\* The flags, and the outcome of the last code.
Flags == [ctrl : BOOLEAN, shift : BOOLEAN, alt : BOOLEAN, caps : BOOLEAN]
NoFlags == [ctrl |-> FALSE, shift |-> FALSE, alt |-> FALSE, caps |-> FALSE]

\* The terminal of a function key.
TerminalOf == [F1 |-> 0, F2 |-> 1, F3 |-> 2]

\* The flags after a code.  Decoded_LeftOnly: the release of the right Shift
\* is not looked for.
Decoded_LeftOnly(f, code) ==
  CASE code.key = "ctrl" -> [f EXCEPT !.ctrl = code.down]
    [] code.key = "lshift" \/ (code.key = "rshift" /\ code.down) ->
         [f EXCEPT !.shift = code.down]
    [] code.key = "alt" -> [f EXCEPT !.alt = code.down]
    [] code.key = "caps" /\ code.down -> [f EXCEPT !.caps = ~@]
    [] OTHER -> f
Decoded(f, code) ==
  CASE code.key = "ctrl" -> [f EXCEPT !.ctrl = code.down]
    [] code.key \in {"lshift", "rshift"} -> [f EXCEPT !.shift = code.down]
    [] code.key = "alt" -> [f EXCEPT !.alt = code.down]
    [] code.key = "caps" /\ code.down -> [f EXCEPT !.caps = ~@]
    [] OTHER -> f

\* table_to_read_from: Shift wins over Caps Lock.
TableFor(f) ==
  CASE f.shift -> "UPPER_TBL"
    [] f.caps /\ ~f.shift -> "LOCK_TBL"
    [] OTHER -> "LOWER_TBL"

SwitchesTo(f, code, t) ==
  f.alt /\ code.down /\ code.key \in FKeys /\ TerminalOf[code.key] = t

=============================================================================
