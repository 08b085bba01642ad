------------------------------ MODULE LineProofs ------------------------------
(***************************************************************************)
(* Proofs about the line discipline, for buffers, reads and lines of any   *)
(* size and any number of terminals.  That the indices stay in range holds *)
(* under any keys; that what the screen shows is what is read holds for a  *)
(* user who types where the program runs and waits for it (Patient).       *)
(***************************************************************************)
EXTENDS LineDiscipline, SequenceTheorems, WellFoundedInduction, TLAPS

Patient == Focused /\ ~TypeAhead /\ ~LeavePending

-----------------------------------------------------------------------------
\* A set of numbers has a least one.
LEMMA LeastNumber ==
  ASSUME NEW S \in SUBSET Nat, S # {}
  PROVE  \E n \in S : \A m \in S : n <= m
<1> DEFINE Less == OpToRel(<, Nat)
<1>1. IsWellFoundedOn(Less, Nat)
  BY NatLessThanWellFounded
<1>2. \A m, n \in Nat : m < n => <<m, n>> \in Less
  BY DEF OpToRel
<1> HIDE DEF Less
<1>3. PICK n \in S : \A m \in S : <<m, n>> \notin Less
  BY <1>1, WFMin
<1>4. \A m \in S : ~(m < n)
  BY <1>2, <1>3
<1> QED BY <1>3, <1>4

\* The copy stops at a '\n' of the buffer, if the caller's has room for one.
LEMMA FirstNewlineFound ==
  ASSUME NEW buf, NEW n, Newlines(buf, n) # {}
  PROVE  /\ FirstNewline(buf, n) \in Newlines(buf, n)
         /\ \A j \in Newlines(buf, n) : FirstNewline(buf, n) <= j
<1>1. Newlines(buf, n) \in SUBSET Nat
  BY LineAssumption DEF Newlines, Indices
<1>2. \E i \in Newlines(buf, n) : \A j \in Newlines(buf, n) : i <= j
  BY <1>1, LeastNumber
<1> QED BY <1>2 DEF FirstNewline

\* What is copied fits both buffers.
LEMMA CopiedFits ==
  ASSUME NEW buf, NEW n \in Nat \ {0}
  PROVE  /\ Copied(buf, n) \in 0 .. MaxBufSize /\ Copied(buf, n) <= n - 1
<1>1. CASE Newlines(buf, n) # {}
  <2>1. FirstNewline(buf, n) \in Newlines(buf, n)
    BY <1>1, FirstNewlineFound
  <2>2. FirstNewline(buf, n) \in 0 .. MaxBufSize - 1 /\ FirstNewline(buf, n) < n - 1
    BY <2>1 DEF Newlines, Indices
  <2> QED BY <1>1, <2>2, LineAssumption DEF Copied
<1>2. CASE Newlines(buf, n) = {}
  BY <1>2, LineAssumption DEF Copied
<1> QED BY <1>1, <1>2

\* The first k cells of a buffer are a sequence.
LEMMA CellsAreSeq ==
  ASSUME NEW buf \in [Indices -> Codes], NEW k \in 0 .. MaxBufSize
  PROVE  /\ [i \in 1 .. k |-> buf[i - 1]] \in Seq(Codes)
         /\ Len([i \in 1 .. k |-> buf[i - 1]]) = k
<1>1. \A i \in 1 .. k : buf[i - 1] \in Codes
  BY LineAssumption DEF Indices
<1> QED BY <1>1, LineAssumption

-----------------------------------------------------------------------------
LEMMA InitTyped == Init => TypeOK
<1> SUFFICES ASSUME Init PROVE TypeOK
  OBVIOUS
<1>1. 0 \in TIDs
  BY LineAssumption DEF TIDs
<1>2. kb \in Keyboard /\ saved \in [TIDs -> Keyboard]
  <2>1. PICK garbage \in Codes :
          /\ kb = [key_buf |-> [i \in Indices |-> garbage], keyb_char_count |-> 0,
                   enterKeyPressed |-> FALSE]
          /\ saved = [t \in TIDs |-> kb]
    BY DEF Init
  <2>2. 0 \in 0 .. MaxBufSize - 1
    BY LineAssumption
  <2> QED BY <2>1, <2>2 DEF Keyboard
<1>3. /\ view_term \in TIDs /\ opened \subseteq TIDs /\ running \in opened
      /\ pc = "user" /\ nbytes = 0 /\ overrun = FALSE /\ got \in Seq(Codes)
  BY <1>1 DEF Init
<1>4. /\ typing \in [TIDs -> Seq(Chars)]
      /\ line \in [TIDs -> Seq(Chars) \cup {NoLine}]
  BY DEF Init
<1> QED BY <1>2, <1>3, <1>4 DEF TypeOK

LEMMA NextTyped == TypeOK /\ [Next]_vars => TypeOK'
<1> SUFFICES ASSUME TypeOK, [Next]_vars PROVE TypeOK'
  OBVIOUS
<1>0. /\ kb.keyb_char_count \in 0 .. MaxBufSize - 1
      /\ kb.key_buf \in [Indices -> Codes] /\ kb.enterKeyPressed \in BOOLEAN
  BY DEF TypeOK, Keyboard
<1>1. ASSUME NEW n \in ReadSizes, CallRead(n) PROVE TypeOK'
  BY <1>1, LineAssumption DEF CallRead, TypeOK
<1>2. CASE SeeEnter
  BY <1>2 DEF SeeEnter, TypeOK
<1>3. CASE ReadCopy
  <2> DEFINE k == Copied(kb.key_buf, nbytes)
  <2>1. nbytes \in Nat \ {0}
    BY <1>3, LineAssumption DEF ReadCopy, TypeOK
  <2>2. k \in 0 .. MaxBufSize
    BY <2>1, CopiedFits
  <2>3. got' \in Seq(Codes)
    <3>1. got' = [i \in 1 .. k |-> kb.key_buf[i - 1]]
      BY <1>3 DEF ReadCopy
    <3> HIDE DEF k
    <3> QED BY <1>0, <2>2, <3>1, CellsAreSeq
  <2>4. kb' \in Keyboard
    <3> DEFINE Cleared(i) == IF i < k THEN NUL
                             ELSE IF i = k /\ kb.key_buf[i] = NL /\ k < nbytes - 1
                                  THEN SP ELSE kb.key_buf[i]
    <3>1. \A i \in Indices : Cleared(i) \in Codes
      BY <1>0 DEF Codes
    <3>2. kb' = [key_buf |-> [i \in Indices |-> Cleared(i)],
                 keyb_char_count |-> 0, enterKeyPressed |-> FALSE]
      BY <1>3 DEF ReadCopy
    <3>3. 0 \in 0 .. MaxBufSize - 1
      BY LineAssumption
    <3> HIDE DEF Cleared
    <3> QED BY <3>1, <3>2, <3>3 DEF Keyboard
  <2>5. line' \in [TIDs -> Seq(Chars) \cup {NoLine}] /\ overrun' \in BOOLEAN
    BY <1>3 DEF ReadCopy, TypeOK
  <2> QED BY <1>3, <2>3, <2>4, <2>5 DEF ReadCopy, TypeOK
<1>4. ASSUME NEW c \in Chars, Type(c) PROVE TypeOK'
  <2>1. kb.keyb_char_count + 1 \in 0 .. MaxBufSize - 1
    BY <1>0, <1>4, LineAssumption DEF Type, KeyLimit
  <2>2. kb' \in Keyboard
    BY <1>4, <2>1 DEF Type, TypeOK, Keyboard, Codes
  <2>3. typing' \in [TIDs -> Seq(Chars)]
    BY <1>4 DEF Type, TypeOK
  <2> QED BY <1>4, <2>2, <2>3 DEF Type, TypeOK
<1>5. CASE Backspace
  <2>1. kb.keyb_char_count - 1 \in 0 .. MaxBufSize - 1
    BY <1>0, <1>5, LineAssumption DEF Backspace
  <2>2. kb' \in Keyboard
    BY <1>5, <2>1 DEF Backspace, TypeOK, Keyboard, Codes
  <2>3. typing' \in [TIDs -> Seq(Chars)]
    <3>1. typing[view_term] \in Seq(Chars)
      BY DEF TypeOK
    <3>2. typing[view_term] # <<>> =>
            SubSeq(typing[view_term], 1, Len(typing[view_term]) - 1) \in Seq(Chars)
      BY <3>1
    <3> QED BY <1>5, <3>1, <3>2 DEF Backspace, TypeOK
  <2> QED BY <1>5, <2>2, <2>3 DEF Backspace, TypeOK
<1>6. CASE Enter
  <2>1. kb' \in Keyboard
    BY <1>6 DEF Enter, TypeOK, Keyboard, Codes
  <2>2. /\ typing' \in [TIDs -> Seq(Chars)]
        /\ line' \in [TIDs -> Seq(Chars) \cup {NoLine}]
    BY <1>6 DEF Enter, TypeOK
  <2> QED BY <1>6, <2>1, <2>2 DEF Enter, TypeOK
<1>7. CASE CtrlL
  <2>1. kb' \in Keyboard
    <3>1. 0 \in 0 .. MaxBufSize - 1 /\ kb \in Keyboard
      BY LineAssumption DEF TypeOK
    <3>2. kb' = [kb EXCEPT !.keyb_char_count = 0]
      BY <1>7 DEF CtrlL
    <3> QED BY <3>1, <3>2 DEF Keyboard
  <2>2. typing' \in [TIDs -> Seq(Chars)]
    BY <1>7 DEF CtrlL, TypeOK
  <2> QED BY <1>7, <2>1, <2>2 DEF CtrlL, TypeOK
<1>8. ASSUME NEW t \in TIDs, TerminalSwitch(t) PROVE TypeOK'
  BY <1>8 DEF TerminalSwitch, TypeOK
<1>9. CASE UNCHANGED vars
  BY <1>9 DEF vars, TypeOK
<1> QED BY <1>1, <1>2, <1>3, <1>4, <1>5, <1>6, <1>7, <1>8, <1>9
        DEF Next, Reader, User

(***************************************************************************)
(* Under any keys and reads, no key is stored outside key_buf and no count *)
(* leaves it.                                                              *)
(***************************************************************************)
THEOREM LineTypeCorrect == Spec => []TypeOK
<1> QED BY InitTyped, NextTyped, PTL DEF Spec

-----------------------------------------------------------------------------
(***************************************************************************)
(* One keyboard, the line entered on its screen and the line being typed   *)
(* there: BufferMatchesScreen, and that nothing is typed behind an entered *)
(* line.                                                                   *)
(***************************************************************************)
Shows(k, entered, s) ==
  IF k.enterKeyPressed
  THEN /\ entered # NoLine /\ StartsWith(k.key_buf, Append(entered, NL))
       /\ s = <<>>
  ELSE /\ entered = NoLine /\ StartsWith(k.key_buf, s)
       /\ k.keyb_char_count = Len(s)

InStep ==
  /\ ~overrun
  /\ \A t \in TIDs : Shows(KeyboardOf(t), line[t], typing[t])
  /\ \A t \in TIDs : KeyboardOf(t).enterKeyPressed => t = view_term /\ t = running
  /\ pc = "copy" => kb.enterKeyPressed

\* Typing, deleting, entering and clearing keep the buffer and the screen alike.
LEMMA TypeShows ==
  ASSUME NEW k \in Keyboard, NEW entered, NEW s \in Seq(Chars), NEW c \in Chars,
         Shows(k, entered, s), ~k.enterKeyPressed, k.keyb_char_count # KeyLimit
  PROVE  Shows([k EXCEPT !.key_buf[k.keyb_char_count] = c, !.keyb_char_count = @ + 1],
               entered, Append(s, c))
<1> DEFINE k2 == [k EXCEPT !.key_buf[k.keyb_char_count] = c, !.keyb_char_count = @ + 1]
           s2 == Append(s, c)
<1>1. /\ k.keyb_char_count = Len(s) /\ StartsWith(k.key_buf, s) /\ entered = NoLine
      /\ Len(s) \in 0 .. MaxBufSize - 2 /\ k.key_buf \in [Indices -> Codes]
  BY LineAssumption DEF Shows, Keyboard, KeyLimit
<1>2. /\ k2.keyb_char_count = Len(s) + 1 /\ ~k2.enterKeyPressed
      /\ k2.key_buf = [k.key_buf EXCEPT ![Len(s)] = c]
  BY <1>1 DEF Keyboard
<1>3. /\ Len(s2) = Len(s) + 1 /\ s2[Len(s) + 1] = c
      /\ \A i \in 1 .. Len(s) : s2[i] = s[i]
  BY AppendProperties
<1> HIDE DEF k2, s2
<1>4. ASSUME NEW i \in 1 .. Len(s) + 1 PROVE k2.key_buf[i - 1] = s2[i]
  <2>1. i - 1 \in Indices /\ Len(s) \in Indices
    BY <1>1, LineAssumption DEF Indices
  <2>2. CASE i = Len(s) + 1
    BY <1>1, <1>2, <1>3, <2>1, <2>2
  <2>3. CASE i # Len(s) + 1
    <3>1. i \in 1 .. Len(s) /\ i - 1 # Len(s)
      BY <1>1, <2>3
    <3> QED BY <1>1, <1>2, <1>3, <2>1, <3>1 DEF StartsWith
  <2> QED BY <2>2, <2>3
<1>5. StartsWith(k2.key_buf, s2)
  <2>1. Len(s2) <= MaxBufSize
    BY <1>1, <1>3, LineAssumption
  <2>2. \A i \in 1 .. Len(s2) : k2.key_buf[i - 1] = s2[i]
    BY <1>3, <1>4
  <2> QED BY <2>1, <2>2 DEF StartsWith
<1>6. Shows(k2, entered, s2)
  BY <1>1, <1>2, <1>3, <1>5 DEF Shows
<1> QED BY <1>6 DEF k2, s2

LEMMA BackspaceShows ==
  ASSUME NEW k \in Keyboard, NEW entered, NEW s \in Seq(Chars),
         Shows(k, entered, s), ~k.enterKeyPressed, k.keyb_char_count > 0
  PROVE  /\ s # <<>>
         /\ Shows([k EXCEPT !.key_buf[k.keyb_char_count] = SP, !.keyb_char_count = @ - 1],
                  entered, SubSeq(s, 1, Len(s) - 1))
<1> DEFINE k2 == [k EXCEPT !.key_buf[k.keyb_char_count] = SP, !.keyb_char_count = @ - 1]
           s2 == SubSeq(s, 1, Len(s) - 1)
<1>1. /\ k.keyb_char_count = Len(s) /\ StartsWith(k.key_buf, s) /\ entered = NoLine
      /\ Len(s) \in 1 .. MaxBufSize - 1 /\ k.key_buf \in [Indices -> Codes]
  BY LineAssumption DEF Shows, Keyboard
<1>2. /\ k2.keyb_char_count = Len(s) - 1 /\ ~k2.enterKeyPressed
      /\ k2.key_buf = [k.key_buf EXCEPT ![Len(s)] = SP]
  BY <1>1 DEF Keyboard
<1>3. Len(s2) = Len(s) - 1 /\ \A i \in 1 .. Len(s) - 1 : s2[i] = s[i]
  <2> HIDE DEF k2
  <2> DEFINE n == Len(s) - 1
  <2>1. n \in Nat /\ \A i \in 1 .. n : s[i] \in Chars
    BY <1>1, LineAssumption
  <2> HIDE DEF n
  <2>2. /\ Len(SubSeq(s, 1, n)) = IF 1 <= n THEN n - 1 + 1 ELSE 0
        /\ \A i \in 1 .. n - 1 + 1 : SubSeq(s, 1, n)[i] = s[1 + i - 1]
    BY <2>1, SubSeqProperties
  <2>3. /\ n - 1 + 1 = n /\ \A i \in 1 .. n : 1 + i - 1 = i
        /\ (IF 1 <= n THEN n - 1 + 1 ELSE 0) = n
    BY <2>1
  <2>4. Len(SubSeq(s, 1, n)) = n /\ \A i \in 1 .. n : SubSeq(s, 1, n)[i] = s[i]
    BY <2>2, <2>3, Zenon
  <2> QED BY <2>4 DEF n
<1> HIDE DEF k2, s2
<1>4. ASSUME NEW i \in 1 .. Len(s) - 1 PROVE k2.key_buf[i - 1] = s2[i]
  BY <1>1, <1>2, <1>3, LineAssumption DEF StartsWith, Indices
<1>5. Shows(k2, entered, s2)
  <2>1. Len(s2) <= MaxBufSize
    BY <1>1, <1>3, LineAssumption
  <2>2. \A i \in 1 .. Len(s2) : k2.key_buf[i - 1] = s2[i]
    BY <1>3, <1>4
  <2>3. StartsWith(k2.key_buf, s2)
    BY <2>1, <2>2 DEF StartsWith
  <2> QED BY <1>1, <1>2, <1>3, <2>3 DEF Shows
<1> QED BY <1>1, <1>5 DEF k2, s2

LEMMA EnterShows ==
  ASSUME NEW k \in Keyboard, NEW entered, NEW s \in Seq(Chars),
         Shows(k, entered, s), ~k.enterKeyPressed
  PROVE  Shows([k EXCEPT !.key_buf[k.keyb_char_count] = NL, !.enterKeyPressed = TRUE],
               s, <<>>)
<1> DEFINE k2 == [k EXCEPT !.key_buf[k.keyb_char_count] = NL, !.enterKeyPressed = TRUE]
           s2 == Append(s, NL)
<1>1. /\ k.keyb_char_count = Len(s) /\ StartsWith(k.key_buf, s)
      /\ Len(s) \in 0 .. MaxBufSize - 1 /\ k.key_buf \in [Indices -> Codes]
  BY LineAssumption DEF Shows, Keyboard
<1>2. k2.enterKeyPressed /\ k2.key_buf = [k.key_buf EXCEPT ![Len(s)] = NL]
  BY <1>1 DEF Keyboard
<1>3. /\ Len(s2) = Len(s) + 1 /\ s2[Len(s) + 1] = NL
      /\ \A i \in 1 .. Len(s) : s2[i] = s[i]
  <2>1. s \in Seq(Codes) /\ NL \in Codes
    BY SeqMonotonic DEF Codes
  <2> QED BY <2>1, AppendProperties
<1>4. s # NoLine
  BY LineAssumption
<1> HIDE DEF k2, s2
<1>5. ASSUME NEW i \in 1 .. Len(s) + 1 PROVE k2.key_buf[i - 1] = s2[i]
  <2>1. i - 1 \in Indices /\ Len(s) \in Indices
    BY <1>1, LineAssumption DEF Indices
  <2>2. CASE i = Len(s) + 1
    BY <1>1, <1>2, <1>3, <2>1, <2>2
  <2>3. CASE i # Len(s) + 1
    <3>1. i \in 1 .. Len(s) /\ i - 1 # Len(s)
      BY <1>1, <2>3
    <3> QED BY <1>1, <1>2, <1>3, <2>1, <3>1 DEF StartsWith
  <2> QED BY <2>2, <2>3
<1>6. StartsWith(k2.key_buf, s2)
  BY <1>1, <1>3, <1>5, LineAssumption DEF StartsWith
<1> QED BY <1>2, <1>4, <1>6 DEF Shows, k2, s2

\* A keyboard with nothing on it.
LEMMA EmptyShows ==
  ASSUME NEW k, ~k.enterKeyPressed, k.keyb_char_count = 0
  PROVE  Shows(k, NoLine, <<>>)
BY LineAssumption DEF Shows, StartsWith

(***************************************************************************)
(* The copy: an entered line is copied up to its end or to the end of the  *)
(* caller's buffer, whichever comes first.                                 *)
(***************************************************************************)
LEMMA LineIsCopied ==
  ASSUME NEW buf \in [Indices -> Codes], NEW l \in Seq(Chars), NEW n \in Nat \ {0},
         StartsWith(buf, Append(l, NL))
  PROVE  /\ [i \in 1 .. Copied(buf, n) |-> buf[i - 1]] = Cut(l, n)
         /\ Newlines(buf, n) # {} \/ n - 1 <= MaxBufSize
<1>1. /\ Len(l) \in 0 .. MaxBufSize - 1 /\ buf[Len(l)] = NL
      /\ \A i \in 1 .. Len(l) : buf[i - 1] = l[i]
  <2> DEFINE whole == Append(l, NL)
  <2>1. l \in Seq(Codes) /\ NL \in Codes
    BY SeqMonotonic DEF Codes
  <2>2. /\ Len(whole) = Len(l) + 1 /\ whole[Len(l) + 1] = NL
        /\ \A i \in 1 .. Len(l) : whole[i] = l[i]
    BY <2>1, AppendProperties
  <2>3. Len(whole) <= MaxBufSize /\ \A i \in 1 .. Len(whole) : buf[i - 1] = whole[i]
    BY DEF StartsWith
  <2> HIDE DEF whole
  <2>4. Len(l) \in Nat
    OBVIOUS
  <2>5. buf[(Len(l) + 1) - 1] = NL
    BY <2>2, <2>3, <2>4
  <2> QED BY <2>2, <2>3, <2>4, <2>5, LineAssumption
<1>2. ASSUME NEW i \in Nat, i < Len(l) PROVE buf[i] # NL
  <2>1. i + 1 \in 1 .. Len(l) /\ (i + 1) - 1 = i
    BY <1>1, <1>2
  <2>2. buf[i] = l[i + 1] /\ l[i + 1] \in Chars
    BY <1>1, <2>1
  <2> QED BY <2>2, LineAssumption
<1>3. Copied(buf, n) = IF Len(l) < n - 1 THEN Len(l) ELSE n - 1
  <2>1. CASE Len(l) < n - 1
    <3>1. Len(l) \in Newlines(buf, n)
      BY <1>1, <2>1, LineAssumption DEF Newlines, Indices
    <3>2. FirstNewline(buf, n) \in Newlines(buf, n) /\ FirstNewline(buf, n) <= Len(l)
      BY <3>1, FirstNewlineFound
    <3>3. FirstNewline(buf, n) \in Nat /\ buf[FirstNewline(buf, n)] = NL
      BY <3>2, LineAssumption DEF Newlines, Indices
    <3>4. FirstNewline(buf, n) = Len(l)
      BY <1>1, <1>2, <3>2, <3>3
    <3> QED BY <2>1, <3>1, <3>4 DEF Copied
  <2>2. CASE ~(Len(l) < n - 1)
    <3>1. Newlines(buf, n) = {}
      BY <1>1, <1>2, <2>2, LineAssumption DEF Newlines, Indices
    <3> QED BY <1>1, <2>2, <3>1, LineAssumption DEF Copied
  <2> QED BY <2>1, <2>2
<1>4. Newlines(buf, n) # {} \/ n - 1 <= MaxBufSize
  <2>1. CASE Len(l) < n - 1
    BY <1>1, <2>1, LineAssumption DEF Newlines, Indices
  <2>2. CASE ~(Len(l) < n - 1)
    BY <1>1, <2>2, LineAssumption
  <2> QED BY <2>1, <2>2
<1>5. [i \in 1 .. Copied(buf, n) |-> buf[i - 1]] = Cut(l, n)
  <2> DEFINE m == IF Len(l) < n - 1 THEN Len(l) ELSE n - 1
             copy == [i \in 1 .. m |-> buf[i - 1]]
  <2>1. m \in 0 .. Len(l)
    BY <1>1
  <2>2. Cut(l, n) = SubSeq(l, 1, m)
    BY DEF Cut
  <2> HIDE DEF m
  <2>3. SubSeq(l, 1, m) = [i \in 1 .. m |-> l[i]]
    BY <2>1
  <2>4. \A i \in 1 .. m : buf[i - 1] = l[i]
    BY <1>1, <2>1
  <2>5. copy = [i \in 1 .. m |-> l[i]]
    BY <2>4
  <2> QED BY <1>3, <2>2, <2>3, <2>5 DEF m
<1> QED BY <1>4, <1>5

-----------------------------------------------------------------------------
LEMMA InitInStep == Init => InStep
<1> SUFFICES ASSUME Init PROVE InStep
  OBVIOUS
<1>1. /\ ~overrun /\ pc = "user" /\ view_term = 0
      /\ ~kb.enterKeyPressed /\ kb.keyb_char_count = 0
      /\ saved = [t \in TIDs |-> kb]
  BY DEF Init
<1>2. \A t \in TIDs : KeyboardOf(t) = kb
  BY <1>1 DEF KeyboardOf
<1>3. \A t \in TIDs : line[t] = NoLine /\ typing[t] = <<>>
  BY DEF Init
<1> QED BY <1>1, <1>2, <1>3, EmptyShows DEF InStep

LEMMA NextInStep ==
  ASSUME Patient, TypeOK, InStep, [Next]_vars
  PROVE  InStep'
<1>0. /\ kb \in Keyboard /\ view_term \in TIDs
      /\ typing \in [TIDs -> Seq(Chars)]
      /\ line \in [TIDs -> Seq(Chars) \cup {NoLine}]
      /\ saved \in [TIDs -> Keyboard]
      /\ KeyboardOf(view_term) = kb
  BY DEF TypeOK, KeyboardOf
\* An editing key: only the keyboard, the line and the typing of the terminal in
\* view change, and nothing waited before.
<1>K. ASSUME MayType, UNCHANGED <<saved, view_term, running, pc, overrun>>,
             Shows(kb', line'[view_term], typing'[view_term]),
             \A t \in TIDs \ {view_term} : line'[t] = line[t] /\ typing'[t] = typing[t]
      PROVE  InStep'
  <2>1. ~kb.enterKeyPressed /\ view_term = running
    BY <1>K DEF MayType, Patient
  <2>2. pc # "copy"
    BY <2>1 DEF InStep
  <2>3. ASSUME NEW t \in TIDs \ {view_term}
        PROVE  /\ KeyboardOf(t)' = KeyboardOf(t) /\ ~KeyboardOf(t).enterKeyPressed
    BY <1>K DEF KeyboardOf, InStep
  <2>4. KeyboardOf(view_term)' = kb'
    BY <1>K DEF KeyboardOf
  <2>5. ASSUME NEW t \in TIDs
        PROVE  /\ Shows(KeyboardOf(t), line[t], typing[t])'
               /\ (KeyboardOf(t).enterKeyPressed)' => t = view_term /\ t = running
    <3>1. CASE t = view_term
      BY <1>K, <2>1, <2>4, <3>1 DEF Shows
    <3>2. CASE t # view_term
      <4>1. line'[t] = line[t] /\ typing'[t] = typing[t]
        BY <1>K, <3>2
      <4>2. Shows(KeyboardOf(t), line[t], typing[t])
        BY DEF InStep
      <4> QED BY <2>3, <3>2, <4>1, <4>2 DEF Shows
    <3> QED BY <3>1, <3>2
  <2> QED BY <1>K, <2>2, <2>5 DEF InStep
<1>1. ASSUME NEW c \in Chars, Type(c) PROVE InStep'
  <2>1. ~kb.enterKeyPressed
    BY <1>1 DEF Type, MayType, Patient
  <2>2. typing[view_term] \in Seq(Chars) /\ Shows(kb, line[view_term], typing[view_term])
    BY <1>0 DEF InStep
  <2>3. Shows(kb', line[view_term], Append(typing[view_term], c))
    BY <1>0, <1>1, <2>1, <2>2, TypeShows DEF Type
  <2>4. Shows(kb', line'[view_term], typing'[view_term])
    BY <1>0, <1>1, <2>3 DEF Type
  <2>5. \A t \in TIDs \ {view_term} : line'[t] = line[t] /\ typing'[t] = typing[t]
    BY <1>0, <1>1 DEF Type
  <2> QED BY <1>1, <1>K, <2>4, <2>5 DEF Type
<1>2. CASE Backspace
  <2>1. ~kb.enterKeyPressed
    BY <1>2 DEF Backspace, MayType, Patient
  <2> DEFINE s == typing[view_term]
  <2>2. s \in Seq(Chars) /\ Shows(kb, line[view_term], s)
    BY <1>0 DEF InStep
  <2>3. s # <<>> /\ Shows(kb', line[view_term], SubSeq(s, 1, Len(s) - 1))
    <3> HIDE DEF s
    <3> QED BY <1>0, <1>2, <2>1, <2>2, BackspaceShows DEF Backspace
  <2>4. Shows(kb', line'[view_term], typing'[view_term])
    BY <1>0, <1>2, <2>3 DEF Backspace
  <2>5. \A t \in TIDs \ {view_term} : line'[t] = line[t] /\ typing'[t] = typing[t]
    BY <1>0, <1>2 DEF Backspace
  <2> QED BY <1>2, <1>K, <2>4, <2>5 DEF Backspace
<1>3. CASE Enter
  <2>1. ~kb.enterKeyPressed
    BY <1>3 DEF Enter, MayType, Patient
  <2>2. typing[view_term] \in Seq(Chars) /\ Shows(kb, line[view_term], typing[view_term])
    BY <1>0 DEF InStep
  <2>3. Shows(kb', typing[view_term], <<>>)
    BY <1>0, <1>3, <2>1, <2>2, EnterShows DEF Enter
  <2>4. Shows(kb', line'[view_term], typing'[view_term])
    BY <1>0, <1>3, <2>3 DEF Enter
  <2>5. \A t \in TIDs \ {view_term} : line'[t] = line[t] /\ typing'[t] = typing[t]
    BY <1>0, <1>3 DEF Enter
  <2> QED BY <1>3, <1>K, <2>4, <2>5 DEF Enter
<1>4. CASE CtrlL
  <2>1. ~kb.enterKeyPressed
    BY <1>4 DEF CtrlL, MayType, Patient
  <2>2. ~kb'.enterKeyPressed /\ kb'.keyb_char_count = 0
    BY <1>0, <1>4, <2>1 DEF CtrlL, Keyboard
  <2>3. line[view_term] = NoLine
    BY <1>0, <2>1 DEF InStep, Shows
  <2>4. Shows(kb', line'[view_term], typing'[view_term])
    BY <1>0, <1>4, <2>2, <2>3, EmptyShows DEF CtrlL
  <2>5. \A t \in TIDs \ {view_term} : line'[t] = line[t] /\ typing'[t] = typing[t]
    BY <1>0, <1>4 DEF CtrlL
  <2> QED BY <1>4, <1>K, <2>4, <2>5 DEF CtrlL
\* The exchange: nothing waits, so every terminal keeps its own.
<1>5. ASSUME NEW t \in TIDs, TerminalSwitch(t) PROVE InStep'
  <2>1. ~kb.enterKeyPressed /\ t # view_term
    BY <1>5 DEF TerminalSwitch, Patient
  <2>2. ASSUME NEW u \in TIDs PROVE KeyboardOf(u)' = KeyboardOf(u)
    BY <1>0, <1>5 DEF TerminalSwitch, KeyboardOf
  <2>3. \A u \in TIDs : ~KeyboardOf(u).enterKeyPressed
    BY <1>0, <2>1 DEF InStep
  <2>4. \A u \in TIDs : Shows(KeyboardOf(u), line[u], typing[u])'
    BY <1>5, <2>2 DEF TerminalSwitch, InStep, Shows
  <2>5. pc # "copy" /\ pc' # "copy" /\ ~overrun'
    BY <1>5, <2>1 DEF InStep, TerminalSwitch
  <2> QED BY <2>2, <2>3, <2>4, <2>5 DEF InStep
<1>6. ASSUME NEW n \in ReadSizes, CallRead(n) PROVE InStep'
  BY <1>6 DEF CallRead, InStep, KeyboardOf, Shows
<1>7. CASE SeeEnter
  BY <1>7 DEF SeeEnter, InStep, KeyboardOf, Shows
\* The copy takes the line of the terminal in view, where nothing is typed yet.
<1>8. CASE ReadCopy
  <2>1. kb.enterKeyPressed /\ view_term = running
    BY <1>0, <1>8 DEF ReadCopy, InStep
  <2>2. /\ Shows(kb, line[view_term], typing[view_term])
        /\ kb.key_buf \in [Indices -> Codes]
    BY <1>0 DEF InStep, Keyboard
  <2>3. /\ typing[view_term] = <<>> /\ line[view_term] \in Seq(Chars)
        /\ StartsWith(kb.key_buf, Append(line[view_term], NL))
    BY <1>0, <2>1, <2>2 DEF Shows
  <2>4. nbytes \in Nat \ {0}
    BY <1>8, LineAssumption DEF ReadCopy, TypeOK
  <2>5. ~overrun'
    <3>1. Newlines(kb.key_buf, nbytes) # {} \/ nbytes - 1 <= MaxBufSize
      BY <2>2, <2>3, <2>4, LineIsCopied
    <3>2. ~(Newlines(kb.key_buf, nbytes) = {} /\ nbytes - 1 > MaxBufSize)
      BY <2>4, <3>1, LineAssumption
    <3> QED BY <1>8, <3>2, Zenon DEF ReadCopy
  <2>6. ~kb'.enterKeyPressed /\ kb'.keyb_char_count = 0
    BY <1>8 DEF ReadCopy
  <2>7. line'[view_term] = NoLine /\ typing'[view_term] = <<>>
    BY <1>0, <1>8, <2>3 DEF ReadCopy
  <2>8. ASSUME NEW t \in TIDs
        PROVE  /\ Shows(KeyboardOf(t), line[t], typing[t])'
               /\ ~(KeyboardOf(t).enterKeyPressed)'
    <3>1. CASE t = view_term
      BY <1>8, <2>6, <2>7, <3>1, EmptyShows DEF ReadCopy, KeyboardOf, Shows
    <3>2. CASE t # view_term
      <4>1. /\ KeyboardOf(t)' = KeyboardOf(t) /\ line'[t] = line[t]
            /\ typing'[t] = typing[t]
        BY <1>0, <1>8, <3>2 DEF ReadCopy, KeyboardOf
      <4>2. Shows(KeyboardOf(t), line[t], typing[t]) /\ ~KeyboardOf(t).enterKeyPressed
        BY <3>2 DEF InStep
      <4> QED BY <4>1, <4>2 DEF Shows
    <3> QED BY <3>1, <3>2
  <2>9. pc' = "user"
    BY <1>8 DEF ReadCopy
  <2> QED BY <2>5, <2>8, <2>9 DEF InStep
<1>9. CASE UNCHANGED vars
  BY <1>9 DEF vars, InStep, KeyboardOf, Shows
<1> QED BY <1>1, <1>2, <1>3, <1>4, <1>5, <1>6, <1>7, <1>8, <1>9
        DEF Next, Reader, User

\* The inductive invariant of a patient user.
THEOREM InStepHolds == ASSUME Patient PROVE Spec => []InStep
<1>1. TypeOK /\ InStep /\ [Next]_vars => InStep'
  BY NextInStep
<1> QED BY InitInStep, <1>1, LineTypeCorrect, PTL DEF Spec

(***************************************************************************)
(* What the screen of any terminal shows is what will be read there, for   *)
(* buffers and lines of any length.                                        *)
(***************************************************************************)
THEOREM BufferMatchesScreenCorrect ==
  ASSUME Patient PROVE Spec => []BufferMatchesScreen
<1>1. InStep => BufferMatchesScreen
  BY DEF InStep, Shows, BufferMatchesScreen
<1> QED BY <1>1, InStepHolds, PTL

(***************************************************************************)
(* A read returns the line its own terminal's user entered, cut to the     *)
(* caller's buffer, and stays within key_buf whatever size it asks for.    *)
(***************************************************************************)
THEOREM DeliversOwnLineCorrect ==
  ASSUME Patient PROVE Spec => DeliversOwnLine
<1>1. ASSUME TypeOK, InStep, ReadCopy
      PROVE  /\ ~overrun' /\ line[running] # NoLine
             /\ got' = Cut(line[running], nbytes)
  <2>1. kb \in Keyboard /\ view_term \in TIDs /\ KeyboardOf(view_term) = kb
        /\ line \in [TIDs -> Seq(Chars) \cup {NoLine}]
    BY <1>1 DEF TypeOK, KeyboardOf
  <2>2. kb.enterKeyPressed /\ view_term = running
    BY <1>1, <2>1 DEF ReadCopy, InStep
  <2>3. Shows(kb, line[running], typing[running])
    BY <1>1, <2>1, <2>2 DEF InStep
  <2>4. /\ line[running] # NoLine /\ line[running] \in Seq(Chars)
        /\ StartsWith(kb.key_buf, Append(line[running], NL))
        /\ kb.key_buf \in [Indices -> Codes]
    BY <2>1, <2>2, <2>3 DEF Shows, Keyboard
  <2>5. nbytes \in Nat \ {0}
    BY <1>1, LineAssumption DEF ReadCopy, TypeOK
  <2>6. got' = [i \in 1 .. Copied(kb.key_buf, nbytes) |-> kb.key_buf[i - 1]]
        /\ overrun' = (Newlines(kb.key_buf, nbytes) = {} /\ nbytes - 1 > MaxBufSize)
    BY <1>1 DEF ReadCopy
  <2>7. got' = Cut(line[running], nbytes)
    BY <2>4, <2>5, <2>6, LineIsCopied
  <2>8. Newlines(kb.key_buf, nbytes) # {} \/ nbytes - 1 <= MaxBufSize
    BY <2>4, <2>5, LineIsCopied
  <2>9. ~overrun'
    <3>1. ~(Newlines(kb.key_buf, nbytes) = {} /\ nbytes - 1 > MaxBufSize)
      BY <2>5, <2>8, LineAssumption
    <3> QED BY <2>6, <3>1, Zenon
  <2> QED BY <2>4, <2>7, <2>9
<1>2. TypeOK /\ InStep /\ [Next]_vars
        => [ReadCopy => /\ ~overrun'
                        /\ line[running] # NoLine
                        /\ got' = Cut(line[running], nbytes)]_vars
  BY <1>1
<1> QED BY <1>2, InStepHolds, LineTypeCorrect, PTL DEF Spec, DeliversOwnLine

=============================================================================
