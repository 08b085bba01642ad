------------------------------ MODULE Interrupts ------------------------------
(***************************************************************************)
(* Interrupts: the boot order of entry (kernel.c), the gates (idt.c), the  *)
(* wrappers (int_handler.S), the handlers of the keyboard (keyboard.c) and *)
(* of the RTC (rtc.c), and the system calls that race them: rtc_open,      *)
(* rtc_write with freq_change, and rtc_read.                               *)
(*                                                                         *)
(* The CPU runs one program, from boot on, and the handlers that interrupt *)
(* it.  System calls keep interrupts on, so between any two steps of one a *)
(* handler may run.  The devices go on by themselves.                      *)
(***************************************************************************)
EXTENDS Integers, Sequences, Pic, KeyDecode

CONSTANTS
  Hertz,     \* environment: the rates that programs write
  MaxTerms,  \* MAX_TERMS (3)
  Held,      \* environment: the modifier keys the user has
  Typed,     \* environment: the other keys
  FifoSize   \* bound: scan codes the keyboard controller holds

ASSUME InterruptsAssumption ==
  /\ Hertz \subseteq Nat /\ MaxTerms \in Nat \ {0} /\ FifoSize \in Nat \ {0}
  /\ Held \subseteq Modifiers /\ Typed \subseteq Keys \ Modifiers

KEYB == 1
RTC_IRQ == 8
PIT == 0

TIDs == 0 .. MaxTerms - 1

VARIABLES
  eflags_IF,    \* interrupts are on
  pic,          \* the interrupt controllers
  frames,       \* handlers on the stack: what each does next, and the IF that
                \* its iret restores
  prog, arg,    \* what the interrupted program does next, and with which rate
  rtc,          \* index register, rate in register A, periodic interrupts on,
                \* and a tick that register C still tells
  rtcInterrupt, \* the flag between the handler and rtc_read
  freq,         \* history: the rate last accepted
  ticked,       \* history: handled ticks since rtc_read was called
  fifo, held,   \* scan codes not yet read, and the modifiers down
  flags,        \* the flags of keyb_main
  view_term, opened

vars == <<eflags_IF, pic, frames, prog, arg, rtc, rtcInterrupt, freq, ticked,
          fifo, held, flags, view_term, opened>>

cpuVars == <<eflags_IF, frames>>
rtcVars == <<rtc, rtcInterrupt, freq, ticked>>
keyVars == <<fifo, held, flags>>
termVars == <<view_term, opened>>

(***************************************************************************)
(* init: the gates.  Exceptions and devices have interrupt gates, which    *)
(* turn interrupts off; the system call has a trap gate (reserved3 = 1),   *)
(* which leaves them, and alone can be called from user mode.              *)
(* TurnsOff_NotKeyboard: the keyboard's gate is a trap gate too.           *)
(***************************************************************************)
NUM_EXCEPTIONS == 21
Exceptions == (0 .. NUM_EXCEPTIONS - 1) \ {15}
Vector(irq) == 32 + irq
SYSCALL_VEC == 128

Present(v) == v \in Exceptions \cup {Vector(PIT), Vector(KEYB), Vector(RTC_IRQ), SYSCALL_VEC}

TurnsOff_NotKeyboard(v) == v \notin {SYSCALL_VEC, Vector(KEYB)}
TurnsOff(v) == v # SYSCALL_VEC

\* log2: how often the value can be halved before it is 0.
log2[val \in Nat] == IF val < 2 THEN 0 ELSE 1 + log2[val \div 2]

\* freq_change's rate, and the rate that the device then ticks at.
Rate(hz) == log2[32768 \div hz] + 1
TickRate(rate) == 32768 \div 2 ^ (rate - 1)

\* rtc_write accepts powers of two from 2 to 1024.
\* Accepts_Any: whether it is a power of two is not looked at.
Accepts_Any(hz) == hz \in 2 .. 1024
Accepts(hz) == hz \in 2 .. 1024 /\ \E k \in 1 .. 10 : hz = 2 ^ k

-----------------------------------------------------------------------------
(***************************************************************************)
(* entry up to the first shell: interrupts are off until freq_change, in   *)
(* rtc_init, turns them on.                                                *)
(***************************************************************************)
Init ==
  /\ eflags_IF = FALSE
  /\ pic = i8259_init({PIT})
  /\ frames = <<>> /\ prog = "rtc_init" /\ arg = 2
  /\ rtc = [index |-> "B", rate |-> Rate(1024), on |-> FALSE, c |-> FALSE]
  /\ rtcInterrupt = 0 /\ freq = 2 /\ ticked = FALSE
  /\ fifo = <<>> /\ held = {} /\ flags = NoFlags
  /\ view_term = 0 /\ opened = {}

\* rtc_init sets bit 6 of register B and calls freq_change.
BootRtc ==
  /\ frames = <<>> /\ prog = "rtc_init"
  /\ prog' = "select"
  /\ rtc' = [rtc EXCEPT !.on = TRUE]
  /\ UNCHANGED <<cpuVars, pic, arg, rtcInterrupt, freq, ticked, keyVars, termVars>>

\* ... and then enable_irq(RTC_IRQ), and keyb_init enable_irq(1).
BootEnable ==
  /\ frames = <<>> /\ prog \in {"boot rtc", "boot keyb"}
  /\ prog' = IF prog = "boot rtc" THEN "boot keyb" ELSE "init_terms"
  /\ pic' = enable_irq(pic, IF prog = "boot rtc" THEN RTC_IRQ ELSE KEYB)
  /\ UNCHANGED <<cpuVars, arg, rtcVars, keyVars, termVars>>

\* page_init, populate_fops and init_terms, which starts the shell.
BootTerms ==
  /\ frames = <<>> /\ prog = "init_terms"
  /\ prog' = "user"
  /\ opened' = {0}
  /\ UNCHANGED <<cpuVars, pic, arg, rtcVars, keyVars, view_term>>

Boot == BootRtc \/ BootEnable \/ BootTerms

-----------------------------------------------------------------------------
(***************************************************************************)
(* rtc_open and an accepted rtc_write: freq_change turns interrupts off,   *)
(* selects register A, loads it, selects it again, and stores the rate.  A *)
(* rate that the device lacks is ignored, and success reported.            *)
(* Cli_Missing: interrupts stay on.                                        *)
(***************************************************************************)
Cli_Missing == eflags_IF
Cli == FALSE

freq_change(hz) ==
  /\ frames = <<>> /\ prog = "user"
  /\ freq' = hz
  /\ IF Rate(hz) \in 3 .. 15
     THEN prog' = "select" /\ arg' = hz /\ eflags_IF' = Cli
     ELSE UNCHANGED <<prog, arg, eflags_IF>>
  /\ UNCHANGED <<frames, pic, rtc, rtcInterrupt, ticked, keyVars, termVars>>

rtc_open == freq_change(2)

rtc_write(hz) == Accepts(hz) /\ freq_change(hz)

Select ==
  /\ frames = <<>> /\ prog \in {"select", "select again"}
  /\ prog' = IF prog = "select" THEN "load" ELSE "store"
  /\ rtc' = [rtc EXCEPT !.index = "A"]
  /\ UNCHANGED <<cpuVars, pic, arg, rtcInterrupt, freq, ticked, keyVars, termVars>>

\* Reading register C takes the tick it tells.
Load ==
  /\ frames = <<>> /\ prog = "load"
  /\ prog' = "select again"
  /\ rtc' = IF rtc.index = "C" THEN [rtc EXCEPT !.c = FALSE] ELSE rtc
  /\ UNCHANGED <<cpuVars, pic, arg, rtcInterrupt, freq, ticked, keyVars, termVars>>

\* Register C cannot be written.
Store ==
  /\ frames = <<>> /\ prog = "store"
  /\ prog' = "sti"
  /\ rtc' = IF rtc.index = "A" THEN [rtc EXCEPT !.rate = Rate(arg)] ELSE rtc
  /\ UNCHANGED <<cpuVars, pic, arg, rtcInterrupt, freq, ticked, keyVars, termVars>>

\* sti, and on to the rest of rtc_init or back to user mode.
Sti ==
  /\ frames = <<>> /\ prog = "sti"
  /\ prog' = IF opened = {} THEN "boot rtc" ELSE "user"
  /\ eflags_IF' = TRUE /\ arg' = 2
  /\ UNCHANGED <<frames, pic, rtcVars, keyVars, termVars>>

\* rtc_read: rtcInterrupt = 0; while(rtcInterrupt == 0);
CallRead ==
  /\ frames = <<>> /\ prog = "user"
  /\ prog' = "clear" /\ ticked' = FALSE
  /\ UNCHANGED <<cpuVars, pic, arg, rtc, rtcInterrupt, freq, keyVars, termVars>>

\* Cleared_Not: the flag keeps what the handler set before.
Cleared_Not == rtcInterrupt
Cleared == 0

ClearFlag ==
  /\ frames = <<>> /\ prog = "clear"
  /\ prog' = "spin" /\ rtcInterrupt' = Cleared
  /\ UNCHANGED <<cpuVars, pic, arg, rtc, freq, ticked, keyVars, termVars>>

Spin == frames = <<>> /\ prog = "spin" /\ rtcInterrupt = 0 /\ UNCHANGED vars

ReadReturns ==
  /\ frames = <<>> /\ prog = "spin" /\ rtcInterrupt # 0
  /\ prog' = "user" /\ ticked' = FALSE
  /\ UNCHANGED <<cpuVars, pic, arg, rtc, rtcInterrupt, freq, keyVars, termVars>>

(***************************************************************************)
(* Whatever else the kernel does for a program with interrupts off: an     *)
(* exception prints and calls system_halt(256); system_halt and            *)
(* system_execute begin with cli and end with sti, in another program.     *)
(***************************************************************************)
Exception(v) ==
  /\ frames = <<>> /\ prog = "user"
  /\ Present(v) /\ v # SYSCALL_VEC
  /\ prog' = "halt"
  /\ eflags_IF' = (eflags_IF /\ ~TurnsOff(v))
  /\ UNCHANGED <<frames, pic, arg, rtcVars, keyVars, termVars>>

HaltOrExecute ==
  /\ frames = <<>> /\ prog = "user"
  /\ prog' = "halt" /\ eflags_IF' = FALSE
  /\ UNCHANGED <<frames, pic, arg, rtcVars, keyVars, termVars>>

NextProgram ==
  /\ frames = <<>> /\ prog = "halt"
  /\ prog' = "user" /\ eflags_IF' = TRUE
  /\ UNCHANGED <<frames, pic, arg, rtcVars, keyVars, termVars>>

Calls ==
  \/ rtc_open \/ (\E hz \in Hertz : rtc_write(hz)) \/ CallRead
  \/ (\E v \in Exceptions : Exception(v)) \/ HaltOrExecute

\* The program goes on with what it is in.
Continue ==
  \/ Boot
  \/ Select \/ Load \/ Store \/ Sti
  \/ ClearFlag \/ Spin \/ ReadReturns
  \/ NextProgram

-----------------------------------------------------------------------------
\* The CPU takes the interrupt of a line.
Interrupt(irq) ==
  /\ eflags_IF /\ Delivered(pic, irq)
  /\ Present(Vector(irq))
  /\ pic' = Acknowledge(pic, irq)
  /\ frames' = Append(frames, [line |-> irq, done |-> FALSE, flag |-> eflags_IF])
  /\ eflags_IF' = (eflags_IF /\ ~TurnsOff(Vector(irq)))
  /\ UNCHANGED <<prog, arg, rtcVars, keyVars, termVars>>

Handles(irq, done) ==
  /\ frames # <<>>
  /\ frames[Len(frames)].line = irq /\ frames[Len(frames)].done = done

HandlerDone == frames' = [frames EXCEPT ![Len(frames)].done = TRUE]

\* send_eoi and iret.
Return(irq) ==
  /\ Handles(irq, TRUE)
  /\ pic' = send_eoi(pic, irq)
  /\ eflags_IF' = frames[Len(frames)].flag
  /\ frames' = SubSeq(frames, 1, Len(frames) - 1)
  /\ UNCHANGED <<prog, arg, rtcVars, keyVars, termVars>>

\* rtc_handle reads register C, which lets the device tick again.
\* ReadC_Not: it does not.
ReadC_Not(r) == [r EXCEPT !.index = "C"]
ReadC(r) == [r EXCEPT !.index = "C", !.c = FALSE]

rtc_handle ==
  /\ Handles(RTC_IRQ, FALSE) /\ HandlerDone
  /\ rtc' = ReadC(rtc)
  /\ rtcInterrupt' = 1 /\ ticked' = TRUE
  /\ UNCHANGED <<eflags_IF, pic, prog, arg, freq, keyVars, termVars>>

\* keyb_main takes one code; the controller asks again if it has another.
Code == Head(fifo)
More(p) == IF Len(fifo) > 1 THEN Request(p, KEYB) ELSE p

Reads ==
  /\ Handles(KEYB, FALSE) /\ fifo # <<>>
  /\ fifo' = Tail(fifo)
  /\ flags' = Decoded(flags, Code)
  /\ UNCHANGED <<arg, rtcVars, held>>

keyb_main ==
  /\ Reads
  /\ \A t \in TIDs : SwitchesTo(flags, Code, t) => t = view_term
  /\ HandlerDone
  /\ pic' = More(pic)
  /\ UNCHANGED <<eflags_IF, prog, termVars>>

\* terminal_switch sends its own end of interrupt.
\* SwitchEoi_Missing: it does not.
SwitchEoi_Missing(p) == p
SwitchEoi(p) == send_eoi(p, KEYB)

\* Back to keyb_main: the terminal is open, or there is no slot for its shell.
SwitchView(t) ==
  /\ Reads /\ SwitchesTo(flags, Code, t) /\ t # view_term
  /\ view_term' = t
  /\ pic' = SwitchEoi(More(pic))
  /\ HandlerDone
  /\ UNCHANGED <<eflags_IF, prog, opened>>

\* A new one: system_execute leaves the handler for the shell.
SwitchLaunch(t) ==
  /\ Reads /\ SwitchesTo(flags, Code, t) /\ t # view_term
  /\ t \notin opened
  /\ view_term' = t /\ opened' = opened \cup {t}
  /\ pic' = SwitchEoi(More(pic))
  /\ frames' = <<>> /\ prog' = "user" /\ eflags_IF' = TRUE

Handler ==
  \/ rtc_handle \/ keyb_main
  \/ \E t \in TIDs : SwitchView(t) \/ SwitchLaunch(t)
  \/ \E irq \in {KEYB, RTC_IRQ} : Return(irq)

-----------------------------------------------------------------------------
\* The RTC's period ends; it asks only if register C was read since.
Tick ==
  /\ rtc.on /\ ~rtc.c
  /\ rtc' = [rtc EXCEPT !.c = TRUE]
  /\ pic' = Request(pic, RTC_IRQ)
  /\ UNCHANGED <<cpuVars, prog, arg, rtcInterrupt, freq, ticked, keyVars, termVars>>

\* The user presses or releases a key, once the first shell runs.
Key(code) ==
  /\ opened # {} /\ Len(fifo) < FifoSize
  /\ code.down \/ code.key \in held
  /\ fifo' = Append(fifo, code)
  /\ held' = IF code.key \notin Held THEN held
             ELSE IF code.down THEN held \cup {code.key} ELSE held \ {code.key}
  /\ pic' = IF fifo = <<>> THEN Request(pic, KEYB) ELSE pic
  /\ UNCHANGED <<cpuVars, prog, arg, rtcVars, flags, termVars>>

KeyCodes == {c \in Codes : c.key \in Held \/ (c.key \in Typed /\ c.down)}

Devices == Tick \/ \E c \in KeyCodes : Key(c)

CPU == Calls \/ Continue \/ (\E irq \in {PIT, KEYB, RTC_IRQ} : Interrupt(irq)) \/ Handler

Next == CPU \/ Devices

Spec == Init /\ [][Next]_vars

(***************************************************************************)
(* The RTC keeps ticking, handlers run to their end, the program gets on   *)
(* between interrupts, and an interrupt that can be taken again and again  *)
(* is taken.                                                               *)
(***************************************************************************)
FairSpec ==
  /\ Spec
  /\ WF_vars(Tick)
  /\ WF_vars(Handler)
  /\ SF_vars(Continue)
  /\ \A irq \in {KEYB, RTC_IRQ} : SF_vars(Interrupt(irq))

-----------------------------------------------------------------------------
TypeOK ==
  /\ eflags_IF \in BOOLEAN
  /\ pic \in PicState
  /\ \A i \in 1 .. Len(frames) :
       frames[i] \in [line : {KEYB, RTC_IRQ}, done : BOOLEAN, flag : BOOLEAN]
  /\ rtc \in [index : {"A", "B", "C"}, rate : 3 .. 15, on : BOOLEAN, c : BOOLEAN]
  /\ rtcInterrupt \in {0, 1} /\ freq \in Nat /\ ticked \in BOOLEAN
  /\ Len(fifo) <= FifoSize /\ held \subseteq Held /\ flags \in Flags
  /\ opened \subseteq TIDs /\ view_term \in TIDs

(***************************************************************************)
(* Handlers are atomic: none is interrupted, whatever is pending, so that  *)
(* each key is one step for the program (idt.c:148-169; keyboard.c:112).   *)
(***************************************************************************)
HandlersAtomic == frames # <<>> => Len(frames) = 1 /\ ~eflags_IF

(***************************************************************************)
(* "the keyboard stopped accepting new interrupts" (buglog.log:32): when   *)
(* no handler runs, no line is left in service, also when a handler was    *)
(* left for a new terminal's shell (terminal.c:99-103; i8259.c:104-119).   *)
(***************************************************************************)
NothingLeftInService == frames = <<>> => pic.in_service = {}

(***************************************************************************)
(* The timer asks all the time and is never heard: no mask written for     *)
(* another line uncovers line 0, whose handler would switch programs where *)
(* the rest of the kernel expects none (i8259.c:43-69; pit.c:26).          *)
(***************************************************************************)
TimerNeverRuns == ~Presented(pic, PIT)

(***************************************************************************)
(* The RTC ticks at the rate last accepted, although its handler uses the  *)
(* same index register (rtc.c:52-57, 104-143).                             *)
(***************************************************************************)
RateIsWhatWasWritten ==
  prog \in {"user", "clear", "spin", "init_terms"} => TickRate(rtc.rate) = freq

(***************************************************************************)
(* "rtc_read must return only after an RTC interrupt has occured"          *)
(* (rtc.c:85): one after the call.                                         *)
(***************************************************************************)
ReadWaitsForTick == [][ReadReturns => ticked]_vars

(***************************************************************************)
(* "make this non sticky" (keyboard.c:170): once the codes are read,       *)
(* nothing acts as a modifier that is not down.  Two Shift keys share a    *)
(* flag, so a Shift may be down in vain (keyboard.c:139-195, 247-258).     *)
(***************************************************************************)
FlagsFollowKeys ==
  fifo = <<>> =>
    /\ flags.ctrl = ("ctrl" \in held) /\ flags.alt = ("alt" \in held)
    /\ TableFor(flags) = "UPPER_TBL" => held \cap {"lshift", "rshift"} # {}

(***************************************************************************)
(* Every key is handled, whatever the program does and whichever way the   *)
(* handler took for the keys before it: each of keyb_main's returns sends  *)
(* its end of interrupt (keyboard.c:139-322).                              *)
(***************************************************************************)
KeysAreHandled == (Len(fifo) = FifoSize) ~> (Len(fifo) < FifoSize)

\* The user is slower than the keyboard's handler: again and again the
\* keyboard, which has the higher priority, leaves the CPU a moment.
UserPauses == []<>(frames = <<>> /\ ~Presented(pic, KEYB))

(***************************************************************************)
(* A program waiting in rtc_read goes on: ticks keep coming, since the     *)
(* handler reads register C (rtc.c:52-57, 86-90).                          *)
(***************************************************************************)
RtcReadReturns == UserPauses => ((prog = "spin") ~> (prog # "spin"))

=============================================================================
