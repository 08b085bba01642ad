--------------------------- MODULE InterruptsProofs ---------------------------
(***************************************************************************)
(* Proofs about the interrupts, the RTC and the keyboard's flags, for any  *)
(* rates, any terminals, any keys and however many scan codes the keyboard *)
(* controller holds.                                                       *)
(*                                                                         *)
(* The inductive invariant has four main parts: what the stack of handlers *)
(* and the interrupt flag are together (Control), what is then masked and  *)
(* in service (Lines), which Control needs too, the RTC's registers while  *)
(* freq_change loads them (Clock), and the modifier flags against the      *)
(* codes not yet read (Modifying).                                         *)
(***************************************************************************)
EXTENDS Interrupts, WellFoundedInduction, NaturalsInduction, TLAPS

\* A set of numbers has a least one.
LEMMA LeastNumber ==
  ASSUME NEW S \in SUBSET Nat, S # {}
  PROVE  \E n \in S : \A m \in S : n <= m
<1> DEFINE Less == OpToRel(<, Nat)
<1>1. IsWellFoundedOn(Less, Nat)
  BY NatLessThanWellFounded
<1>2. \A m, n \in Nat : m < n => <<m, n>> \in Less
  BY DEF OpToRel
<1> HIDE DEF Less
<1>3. PICK n \in S : \A m \in S : <<m, n>> \notin Less
  BY <1>1, WFMin
<1>4. \A m \in S : ~(m < n)
  BY <1>2, <1>3
<1> QED BY <1>3, <1>4

\* What log2 makes of a value, given its results for smaller ones.
Halving(g, val) == IF val < 2 THEN 0 ELSE 1 + g[val \div 2]

\* The functions that are log2 as far as n.
UpTo(n) == {g \in [0 .. n -> Nat] : \A val \in 0 .. n : g[val] = Halving(g, val)}

\* The recursion of log2 goes down.
LEMMA HalfIsLess ==
  ASSUME NEW n \in Nat, n >= 2
  PROVE  n \div 2 \in 0 .. n - 1
OBVIOUS

\* log2 can be computed as far as any n ...
LEMMA Log2Computes == \A n \in Nat : UpTo(n) # {}
<1> DEFINE Bad == {n \in Nat : UpTo(n) = {}}
<1> SUFFICES ASSUME Bad # {} PROVE FALSE
  OBVIOUS
<1>1. PICK n \in Bad : \A m \in Bad : n <= m
  BY LeastNumber
<1>2. n \in Nat /\ UpTo(n) = {}
  OBVIOUS
<1>3. CASE n = 0
  <2> DEFINE g == [val \in 0 .. n |-> 0]
  <2>1. \A val \in 0 .. n : g[val] = Halving(g, val)
    BY <1>3 DEF Halving
  <2>2. g \in UpTo(n)
    BY <2>1 DEF UpTo
  <2> QED BY <1>2, <2>2
<1>4. CASE n # 0
  <2>1. n - 1 \in Nat /\ n - 1 \notin Bad
    BY <1>1, <1>2, <1>4
  <2>2. PICK g \in UpTo(n - 1) : TRUE
    BY <2>1
  <2>3. g \in [0 .. n - 1 -> Nat] /\ \A val \in 0 .. n - 1 : g[val] = Halving(g, val)
    BY DEF UpTo
  <2> DEFINE h == [val \in 0 .. n |-> IF val = n THEN Halving(g, n) ELSE g[val]]
  <2>4. \A val \in 0 .. n : Halving(h, val) = Halving(g, val)
    BY <1>2, HalfIsLess DEF Halving
  <2>5. Halving(g, n) \in Nat
    BY <1>2, <2>3, HalfIsLess DEF Halving
  <2>6. h \in [0 .. n -> Nat]
    BY <1>2, <2>3, <2>5
  <2>7. \A val \in 0 .. n : h[val] = Halving(g, val)
    BY <1>2, <2>3
  <2> HIDE DEF h
  <2>8. h \in UpTo(n)
    BY <2>4, <2>6, <2>7 DEF UpTo
  <2> QED BY <1>2, <2>8
<1> QED BY <1>3, <1>4

\* ... in one way.
LEMMA Log2Agrees ==
  ASSUME NEW m \in Nat, NEW n \in Nat, m <= n,
         NEW g \in UpTo(m), NEW h \in UpTo(n)
  PROVE  \A val \in 0 .. m : g[val] = h[val]
<1> DEFINE Bad == {val \in 0 .. m : g[val] # h[val]}
<1> SUFFICES ASSUME Bad # {} PROVE FALSE
  OBVIOUS
<1>1. PICK v \in Bad : \A w \in Bad : v <= w
  <2>1. Bad \in SUBSET Nat
    OBVIOUS
  <2> QED BY <2>1, LeastNumber
<1>2. v \in 0 .. m /\ v \in 0 .. n /\ v \in Nat /\ g[v] # h[v]
  OBVIOUS
<1>3. g[v] = Halving(g, v) /\ h[v] = Halving(h, v)
  BY <1>2 DEF UpTo
<1>4. v >= 2
  BY <1>2, <1>3 DEF Halving
<1>5. v \div 2 \in 0 .. v - 1
  BY <1>2, <1>4, HalfIsLess
<1>6. v \div 2 \in 0 .. m /\ v \div 2 \notin Bad
  BY <1>1, <1>2, <1>5
<1>7. g[v \div 2] = h[v \div 2]
  BY <1>6
<1> QED BY <1>2, <1>3, <1>7 DEF Halving

\* log2 is what its definition says.
LEMMA Log2Halves == \A val \in Nat : log2[val] = Halving(log2, val)
<1> DEFINE F == [val \in Nat |-> (CHOOSE g \in UpTo(val) : TRUE)[val]]
<1>1. ASSUME NEW val \in Nat PROVE F[val] = Halving(F, val)
  <2>1. PICK g : g = CHOOSE f \in UpTo(val) : TRUE
    OBVIOUS
  <2>2. g \in UpTo(val) /\ F[val] = g[val]
    BY <2>1, Log2Computes
  <2>3. g[val] = Halving(g, val)
    BY <2>2 DEF UpTo
  <2>4. ASSUME val >= 2 PROVE F[val \div 2] = g[val \div 2]
    <3> DEFINE half == val \div 2
    <3>1. half \in Nat /\ half <= val
      BY <2>4, HalfIsLess
    <3> HIDE DEF half
    <3>2. PICK h : h = CHOOSE f \in UpTo(half) : TRUE
      OBVIOUS
    <3>3. h \in UpTo(half) /\ F[half] = h[half]
      BY <3>1, <3>2, Log2Computes
    <3>4. h[half] = g[half]
      BY <2>2, <3>1, <3>3, Log2Agrees
    <3> QED BY <3>3, <3>4 DEF half
  <2> HIDE DEF F
  <2> QED BY <2>2, <2>3, <2>4 DEF Halving
<1>2. F = [val \in Nat |-> IF val < 2 THEN 0 ELSE 1 + F[val \div 2]]
  <2>1. F = [val \in Nat |-> F[val]]
    OBVIOUS
  <2> HIDE DEF F
  <2> QED BY <1>1, <2>1 DEF Halving
<1> HIDE DEF F
<1>3. \E f : f = [val \in Nat |-> IF val < 2 THEN 0 ELSE 1 + f[val \div 2]]
  BY <1>2
<1>4. log2 = [val \in Nat |-> IF val < 2 THEN 0 ELSE 1 + log2[val \div 2]]
  BY <1>3 DEF log2
<1> QED BY <1>4 DEF Halving

\* ... which is a number.
LEMMA Log2IsNat == \A val \in Nat : log2[val] \in Nat
<1> DEFINE Bad == {val \in Nat : log2[val] \notin Nat}
<1> SUFFICES ASSUME Bad # {} PROVE FALSE
  OBVIOUS
<1>1. PICK n \in Bad : \A m \in Bad : n <= m
  BY LeastNumber
<1>2. n \in Nat /\ log2[n] = Halving(log2, n) /\ log2[n] \notin Nat
  BY Log2Halves
<1>3. n >= 2
  BY <1>2 DEF Halving
<1>4. n \div 2 \in 0 .. n - 1
  BY <1>2, <1>3, HalfIsLess
<1>5. n \div 2 \in Nat /\ n \div 2 \notin Bad
  BY <1>1, <1>2, <1>4
<1> QED BY <1>2, <1>3, <1>5 DEF Halving

\* The device has the rate, and ticks as often as asked.
Available(hz) == Rate(hz) \in 3 .. 15 /\ TickRate(Rate(hz)) = hz

\* Every rate that rtc_write accepts is one that the device has.
LEMMA AcceptedRates ==
  ASSUME NEW hz \in Nat, Accepts(hz)
  PROVE  Available(hz)
<1>1. log2[1] = 0 /\ \A val \in Nat : val >= 1 => log2[2 * val] = log2[val] + 1
  <2>1. log2[1] = 0
    BY Log2Halves DEF Halving
  <2>2. ASSUME NEW val \in Nat, val >= 1
        PROVE  log2[2 * val] = 1 + log2[val]
    <3>1. 2 * val \in Nat /\ 2 * val >= 2 /\ (2 * val) \div 2 = val
      BY <2>2
    <3> QED BY <3>1, Log2Halves DEF Halving
  <2> QED BY <2>1, <2>2, Log2IsNat
<1>2. /\ log2[32] = 5 /\ log2[64] = 6 /\ log2[128] = 7 /\ log2[256] = 8
      /\ log2[512] = 9 /\ log2[1024] = 10 /\ log2[2048] = 11
      /\ log2[4096] = 12 /\ log2[8192] = 13 /\ log2[16384] = 14
  <2>1. log2[2] = 1 /\ log2[4] = 2 /\ log2[8] = 3 /\ log2[16] = 4
    BY <1>1
  <2>2. log2[32] = 5 /\ log2[64] = 6 /\ log2[128] = 7 /\ log2[256] = 8
    BY <1>1, <2>1
  <2>3. /\ log2[512] = 9 /\ log2[1024] = 10 /\ log2[2048] = 11
        /\ log2[4096] = 12 /\ log2[8192] = 13 /\ log2[16384] = 14
    BY <1>1, <2>2
  <2> QED BY <2>2, <2>3
<1>3. /\ Available(2) /\ Available(4) /\ Available(8) /\ Available(16)
      /\ Available(32) /\ Available(64) /\ Available(128) /\ Available(256)
      /\ Available(512) /\ Available(1024)
  <2>1. /\ Rate(2) = 15 /\ Rate(4) = 14 /\ Rate(8) = 13 /\ Rate(16) = 12
        /\ Rate(32) = 11 /\ Rate(64) = 10 /\ Rate(128) = 9 /\ Rate(256) = 8
        /\ Rate(512) = 7 /\ Rate(1024) = 6
    BY <1>2 DEF Rate
  <2>2. /\ TickRate(15) = 2 /\ TickRate(14) = 4 /\ TickRate(13) = 8 /\ TickRate(12) = 16
        /\ TickRate(11) = 32 /\ TickRate(10) = 64 /\ TickRate(9) = 128 /\ TickRate(8) = 256
        /\ TickRate(7) = 512 /\ TickRate(6) = 1024
    BY DEF TickRate
  <2> QED BY <2>1, <2>2 DEF Available
<1>4. PICK k \in 1 .. 10 : hz = 2 ^ k
  BY DEF Accepts
<1>5. CASE k = 1
  <2>1. hz = 2
    BY <1>4, <1>5
  <2> QED BY <2>1, <1>3
<1>6. CASE k = 2
  <2>1. hz = 4
    BY <1>4, <1>6
  <2> QED BY <2>1, <1>3
<1>7. CASE k = 3
  <2>1. hz = 8
    BY <1>4, <1>7
  <2> QED BY <2>1, <1>3
<1>8. CASE k = 4
  <2>1. hz = 16
    BY <1>4, <1>8
  <2> QED BY <2>1, <1>3
<1>9. CASE k = 5
  <2>1. hz = 32
    BY <1>4, <1>9
  <2> QED BY <2>1, <1>3
<1>10. CASE k = 6
  <2>1. hz = 64
    BY <1>4, <1>10
  <2> QED BY <2>1, <1>3
<1>11. CASE k = 7
  <2>1. hz = 128
    BY <1>4, <1>11
  <2> QED BY <2>1, <1>3
<1>12. CASE k = 8
  <2>1. hz = 256
    BY <1>4, <1>12
  <2> QED BY <2>1, <1>3
<1>13. CASE k = 9
  <2>1. hz = 512
    BY <1>4, <1>13
  <2> QED BY <2>1, <1>3
<1>14. CASE k = 10
  <2>1. hz = 1024
    BY <1>4, <1>14
  <2> QED BY <2>1, <1>3
<1> QED BY <1>5, <1>6, <1>7, <1>8, <1>9, <1>10, <1>11, <1>12, <1>13, <1>14
-----------------------------------------------------------------------------
\* rtc_init up to its sti, and freq_change.
Setting == {"rtc_init", "select", "load", "select again", "store", "sti"}

Positions == Setting \cup {"boot rtc", "boot keyb", "init_terms", "user",
                           "clear", "spin", "halt"}

Frame == [line : {KEYB, RTC_IRQ}, done : BOOLEAN, flag : {TRUE}]

(***************************************************************************)
(* A handler runs with interrupts off, over a program that had them on,    *)
(* and freq_change is never what it runs over.                             *)
(***************************************************************************)
Control ==
  /\ eflags_IF \in BOOLEAN /\ prog \in Positions
  /\ frames = <<>> \/ (~eflags_IF /\ \E f \in Frame : frames = <<f>>)
  /\ prog \in Setting => frames = <<>> /\ ~eflags_IF

\* What the interrupt of a line puts in service.
InService(irq) == IF irq = RTC_IRQ THEN {RTC_IRQ, Cascade} ELSE {irq}

\* In service is only what a handler on the stack ends; line 0 is masked.
Lines ==
  /\ pic \in PicState
  /\ PIT \in pic.mask /\ PIT \in pic.imr
  /\ frames = <<>> => pic.in_service = {}
  /\ frames # <<>> => pic.in_service \subseteq InService(frames[1].line)

\* Registers of the RTC, and what freq_change has done to them so far.
Clock ==
  /\ rtc \in [index : {"A", "B", "C"}, rate : 3 .. 15, on : BOOLEAN, c : BOOLEAN]
  /\ rtcInterrupt \in {0, 1} /\ freq \in Nat /\ ticked \in BOOLEAN
  /\ prog \in Setting => arg = freq /\ Available(freq)
  /\ prog \notin Setting => TickRate(rtc.rate) = freq
  /\ prog = "store" => rtc.index = "A"
  /\ prog = "sti" => rtc.rate = Rate(freq)
  /\ prog = "spin" /\ rtcInterrupt # 0 => ticked

\* Code i is the last one of a key of K; there is none.
LastOf(codes, K, i) ==
  /\ i \in 1 .. Len(codes) /\ codes[i].key \in K
  /\ \A j \in i + 1 .. Len(codes) : codes[j].key \notin K

NoneOf(codes, K) == \A i \in 1 .. Len(codes) : codes[i].key \notin K

\* The flag will be whether the key is down, once the codes are read.
WillFollow(codes, flag, key, keys) ==
  /\ NoneOf(codes, {key}) => flag = (key \in keys)
  /\ \A i \in 1 .. Len(codes) :
       LastOf(codes, {key}, i) => codes[i].down = (key \in keys)

\* The flag of the two Shift keys will not be set with neither down.
Shifts == {"lshift", "rshift"}

ShiftWillFollow(codes, flag, keys) ==
  /\ NoneOf(codes, Shifts) /\ flag => keys \cap Shifts # {}
  /\ \A i \in 1 .. Len(codes) :
       LastOf(codes, Shifts, i) /\ codes[i].down => codes[i].key \in keys

Modifying ==
  /\ fifo \in Seq(KeyCodes) /\ Len(fifo) <= FifoSize
  /\ held \subseteq Held /\ flags \in Flags
  /\ WillFollow(fifo, flags.ctrl, "ctrl", held)
  /\ WillFollow(fifo, flags.alt, "alt", held)
  /\ ShiftWillFollow(fifo, flags.shift, held)

Terminals == opened \subseteq TIDs /\ view_term \in TIDs

-----------------------------------------------------------------------------
\* The handler on the stack is the one whose line it says.
LEMMA HandlerOnStack ==
  ASSUME Control, frames # <<>>
  PROVE  /\ Len(frames) = 1 /\ ~eflags_IF
         /\ frames[1] \in Frame /\ frames[1].flag
         /\ prog \notin Setting
<1>1. PICK f \in Frame : frames = <<f>>
  BY DEF Control
<1> QED BY <1>1 DEF Control, Frame

\* keyb_main and rtc_handle run to their end on the same frame.
LEMMA HandlerStays ==
  ASSUME Control, frames # <<>>, HandlerDone
  PROVE  /\ \E f \in Frame : frames' = <<f>>
         /\ frames' # <<>> /\ frames'[1].line = frames[1].line
<1>1. PICK f \in Frame : frames = <<f>>
  BY DEF Control
<1> DEFINE g == [f EXCEPT !.done = TRUE]
<1>2. g \in Frame /\ g.line = f.line
  BY DEF Frame
<1>3. frames' = <<g>>
  <2>1. frames' = [frames EXCEPT ![1].done = TRUE]
    BY HandlerOnStack DEF HandlerDone
  <2>2. frames' = [<<f>> EXCEPT ![1] = g]
    BY <1>1, <2>1
  <2> HIDE DEF g
  <2> QED BY <2>2
<1> HIDE DEF g
<1> QED BY <1>1, <1>2, <1>3

\* What is left to show of a step after which no handler runs.
LEMMA ControlIdle ==
  ASSUME frames' = <<>>, eflags_IF' \in BOOLEAN, prog' \in Positions,
         prog' \notin Setting \/ ~eflags_IF'
  PROVE  Control'
BY DEF Control

\* Line 0 is never heard.
LEMMA TimerIsMasked == Lines => ~Presented(pic, PIT) /\ ~Interrupt(PIT)
BY DEF Lines, Presented, Interrupt, Delivered

\* entry starts with interrupts off, in rtc_init.
LEMMA InitControl == Init => Control
BY DEF Init, Control, Setting, Positions

\* Stack, flag and program go together, whichever step is taken.
LEMMA NextControl == Control /\ Lines /\ [Next]_vars => Control'
<1> SUFFICES ASSUME Control, Lines, [Next]_vars PROVE Control'
  OBVIOUS
<1>0. eflags_IF \in BOOLEAN /\ prog \in Positions
        /\ (prog \in Setting => ~eflags_IF)
  BY DEF Control
<1>1. CASE Calls
  <2>1. ASSUME NEW hz, freq_change(hz) PROVE Control'
    <3>1. /\ frames' = <<>> /\ prog = "user"
          /\ \/ prog' = "select" /\ eflags_IF' = FALSE
             \/ prog' = prog /\ eflags_IF' = eflags_IF
      BY <2>1 DEF freq_change, Cli
    <3> QED BY <1>0, <3>1, ControlIdle DEF Setting, Positions
  <2>2. ASSUME CallRead \/ HaltOrExecute PROVE Control'
    <3>1. frames' = <<>> /\ eflags_IF' \in BOOLEAN /\ prog' \in {"clear", "halt"}
      BY <1>0, <2>2 DEF CallRead, HaltOrExecute, cpuVars
    <3> QED BY <3>1, ControlIdle DEF Setting, Positions
  <2>3. ASSUME NEW v, Exception(v) PROVE Control'
    <3>1. frames' = <<>> /\ eflags_IF' \in BOOLEAN /\ prog' = "halt"
      BY <2>3 DEF Exception
    <3> QED BY <3>1, ControlIdle DEF Setting, Positions
  <2> QED BY <1>1, <2>1, <2>2, <2>3 DEF Calls, rtc_open, rtc_write
<1>2. CASE Boot
  <2>1. /\ frames' = <<>> /\ eflags_IF' = eflags_IF
        /\ \/ prog = "rtc_init" /\ prog' = "select"
           \/ prog' \in {"boot keyb", "init_terms", "user"}
    BY <1>2 DEF Boot, BootRtc, BootEnable, BootTerms, cpuVars
  <2> QED BY <1>0, <2>1, ControlIdle DEF Setting, Positions
<1>3. CASE Select \/ Load \/ Store
  <2>1. frames' = <<>> /\ eflags_IF' = eflags_IF /\ prog \in Setting
          /\ prog' \in {"load", "store", "select again", "sti"}
    BY <1>3 DEF Select, Load, Store, cpuVars, Setting
  <2> QED BY <1>0, <2>1, ControlIdle DEF Setting, Positions
<1>4. CASE Sti \/ ClearFlag \/ ReadReturns \/ NextProgram
  <2>1. frames' = <<>> /\ eflags_IF' \in BOOLEAN
          /\ prog' \in {"boot rtc", "user", "spin"}
    BY <1>0, <1>4 DEF Sti, ClearFlag, ReadReturns, NextProgram, cpuVars
  <2> QED BY <2>1, ControlIdle DEF Setting, Positions
<1>5. ASSUME NEW irq \in {PIT, KEYB, RTC_IRQ}, Interrupt(irq) PROVE Control'
  <2> DEFINE f == [line |-> irq, done |-> FALSE, flag |-> eflags_IF]
  <2>1. eflags_IF = TRUE /\ frames = <<>> /\ irq # PIT
    BY <1>0, <1>5, HandlerOnStack, TimerIsMasked DEF Interrupt
  <2>2. f \in Frame
    BY <2>1 DEF Frame
  <2>3. frames' = Append(frames, f)
    BY <1>5 DEF Interrupt
  <2> HIDE DEF f
  <2>4. frames' = <<f>>
    BY <2>1, <2>3
  <2>5. TurnsOff(Vector(irq))
    BY DEF TurnsOff, Vector, SYSCALL_VEC, KEYB, RTC_IRQ, PIT
  <2>6. ~eflags_IF' /\ prog' = prog /\ prog \notin Setting
    BY <1>0, <1>5, <2>1, <2>5 DEF Interrupt
  <2>7. eflags_IF' \in BOOLEAN
    BY <1>5 DEF Interrupt
  <2> QED BY <1>0, <2>2, <2>4, <2>6, <2>7 DEF Control
<1>6. CASE Handler
  <2>1. ASSUME rtc_handle \/ keyb_main \/ \E t \in TIDs : SwitchView(t)
        PROVE  Control'
    <3>1. frames # <<>> /\ HandlerDone /\ UNCHANGED <<eflags_IF, prog>>
      BY <2>1 DEF rtc_handle, keyb_main, SwitchView, Reads, Handles
    <3> QED BY <3>1, HandlerOnStack, HandlerStays DEF Control
  <2>2. ASSUME NEW t \in TIDs, SwitchLaunch(t) PROVE Control'
    BY <2>2, ControlIdle DEF SwitchLaunch, Setting, Positions
  <2>3. ASSUME NEW irq \in {KEYB, RTC_IRQ}, Return(irq) PROVE Control'
    <3>1. frames # <<>> /\ frames' = SubSeq(frames, 1, Len(frames) - 1)
            /\ eflags_IF' = frames[Len(frames)].flag /\ prog' = prog
      BY <2>3 DEF Return, Handles
    <3>2. Len(frames) = 1 /\ frames[1].flag = TRUE /\ prog \notin Setting
      BY <3>1, HandlerOnStack DEF Frame
    <3>3. eflags_IF' = TRUE
      BY <3>1, <3>2
    <3>4. frames' = <<>>
      BY <3>1, <3>2
    <3> QED BY <1>0, <3>1, <3>2, <3>3, <3>4, ControlIdle
  <2> QED BY <1>6, <2>1, <2>2, <2>3 DEF Handler
<1>7. CASE Spin \/ Devices \/ UNCHANGED vars
  <2>1. UNCHANGED <<eflags_IF, frames, prog>>
    BY <1>7 DEF Devices, Tick, Key, Spin, vars, cpuVars
  <2> QED BY <2>1 DEF Control
<1> QED BY <1>1, <1>2, <1>3, <1>4, <1>5, <1>6, <1>7 DEF Next, CPU, Continue

-----------------------------------------------------------------------------
\* Enabling another line leaves line 0 masked, on both sides.
LEMMA EnableKeeps ==
  ASSUME NEW p \in PicState, NEW irq \in 1 .. 15, PIT \in p.mask,
         irq >= 8 => PIT \in p.imr
  PROVE  /\ enable_irq(p, irq) \in PicState
         /\ PIT \in enable_irq(p, irq).mask /\ PIT \in enable_irq(p, irq).imr
         /\ enable_irq(p, irq).in_service = p.in_service
<1> DEFINE q == [p EXCEPT !.mask = @ \ {irq}]
           r == [q EXCEPT !.imr = (@ \ SamePort(irq)) \cup Written(q, irq)]
<1>1. q \in PicState /\ q.mask = p.mask \ {irq} /\ q.imr = p.imr
        /\ q.in_service = p.in_service
  BY DEF PicState
<1>2. enable_irq(p, irq) = r
  BY DEF enable_irq
<1>3. PIT \in q.mask /\ PIT \in OfMaster /\ PIT % 8 = 0
  BY <1>1 DEF PIT, OfMaster
<1> HIDE DEF q
<1>4. Written(q, irq) \subseteq SamePort(irq) /\ SamePort(irq) \subseteq AllLines
  BY DEF Written, SamePort, OfMaster, OfSlave, AllLines
<1>5. PIT \in q.imr \ SamePort(irq) \/ PIT \in Written(q, irq)
  <2>1. CASE irq < 8
    <3>1. PIT % 8 \in {l % 8 : l \in q.mask \cap OfMaster}
      BY <1>3
    <3> QED BY <2>1, <3>1, <1>3 DEF Written, SamePort
  <2>2. CASE irq >= 8
    BY <2>2, <1>1 DEF SamePort, OfSlave, PIT
  <2> QED BY <2>1, <2>2
<1>6. r \in PicState /\ r.mask = q.mask /\ r.in_service = q.in_service
        /\ r.imr = (q.imr \ SamePort(irq)) \cup Written(q, irq)
  BY <1>1, <1>4 DEF PicState
<1> QED BY <1>1, <1>2, <1>3, <1>5, <1>6

\* Requests, ends of interrupts and acknowledgements leave the masks alone.
LEMMA RequestKeeps ==
  ASSUME NEW p \in PicState, NEW l \in AllLines
  PROVE  /\ Request(p, l) \in PicState
         /\ Request(p, l).mask = p.mask /\ Request(p, l).imr = p.imr
         /\ Request(p, l).in_service = p.in_service
BY DEF Request, PicState

\* An end of interrupt ends what the interrupt put in service ...
LEMMA EoiKeeps ==
  ASSUME NEW p \in PicState, NEW irq \in {KEYB, RTC_IRQ}
  PROVE  /\ send_eoi(p, irq) \in PicState
         /\ send_eoi(p, irq).mask = p.mask /\ send_eoi(p, irq).imr = p.imr
         /\ send_eoi(p, irq).in_service = p.in_service \ InService(irq)
BY DEF send_eoi, PicState, InService, KEYB, RTC_IRQ

\* ... which is the line and, for the RTC, the line between controllers.
LEMMA AcknowledgeKeeps ==
  ASSUME NEW p \in PicState, NEW irq \in {KEYB, RTC_IRQ}
  PROVE  /\ Acknowledge(p, irq) \in PicState
         /\ Acknowledge(p, irq).mask = p.mask /\ Acknowledge(p, irq).imr = p.imr
         /\ Acknowledge(p, irq).in_service = p.in_service \cup InService(irq)
<1>1. IF irq = RTC_IRQ THEN irq \in OfSlave ELSE irq \notin OfSlave
  BY DEF OfSlave, KEYB, RTC_IRQ
<1>2. irq \in AllLines /\ Cascade \in AllLines
  BY DEF AllLines, Cascade, KEYB, RTC_IRQ
<1> QED BY <1>1, <1>2 DEF Acknowledge, PicState, InService

\* i8259_init unmasks line 2 and no other of the first controller.
LEMMA InitLines == Init => Lines
<1> SUFFICES ASSUME Init PROVE Lines
  OBVIOUS
<1> DEFINE p == [mask |-> AllLines, imr |-> {}, requested |-> {PIT}, in_service |-> {}]
<1>1. p \in PicState /\ PIT \in p.mask /\ p.in_service = {}
  BY DEF PicState, AllLines, PIT
<1>2. pic = enable_irq(p, Cascade) /\ Cascade \in 1 .. 15 /\ ~(Cascade >= 8)
  BY DEF Init, i8259_init, Cascade
<1> HIDE DEF p
<1>3. pic \in PicState /\ PIT \in pic.mask /\ PIT \in pic.imr /\ pic.in_service = {}
  BY <1>1, <1>2, EnableKeeps
<1> QED BY <1>3 DEF Init, Lines

\* In service is what the handlers on the stack end, at every step.
LEMMA NextLines == Control /\ Lines /\ [Next]_vars => Lines'
<1> SUFFICES ASSUME Control, Lines, [Next]_vars PROVE Lines'
  OBVIOUS
<1>0. pic \in PicState /\ PIT \in pic.mask /\ PIT \in pic.imr
  BY DEF Lines
<1>1. CASE BootEnable
  <2>1. PICK irq \in {KEYB, RTC_IRQ} : pic' = enable_irq(pic, irq)
    BY <1>1 DEF BootEnable
  <2>2. irq \in 1 .. 15
    BY DEF KEYB, RTC_IRQ
  <2>3. frames = <<>> /\ frames' = frames
    BY <1>1 DEF BootEnable, cpuVars
  <2> QED BY <1>0, <2>1, <2>2, <2>3, EnableKeeps DEF Lines
<1>2. CASE Calls \/ BootRtc \/ BootTerms \/ Select \/ Load \/ Store \/ Sti
           \/ ClearFlag \/ Spin \/ ReadReturns \/ NextProgram \/ UNCHANGED vars
  <2>1. UNCHANGED <<pic, frames>>
    BY <1>2 DEF Calls, rtc_open, rtc_write, freq_change, CallRead, Exception,
      HaltOrExecute, BootRtc, BootTerms, Select, Load, Store, Sti, ClearFlag, Spin,
      ReadReturns, NextProgram, cpuVars, vars
  <2> QED BY <2>1 DEF Lines
<1>3. ASSUME NEW irq \in {PIT, KEYB, RTC_IRQ}, Interrupt(irq) PROVE Lines'
  <2>1. eflags_IF /\ pic' = Acknowledge(pic, irq) /\ irq # PIT
    BY <1>3, TimerIsMasked DEF Interrupt
  <2>2. frames = <<>> /\ pic.in_service = {}
    BY <2>1, HandlerOnStack DEF Lines
  <2>3. frames' # <<>> /\ frames'[1].line = irq
    BY <1>3, <2>2 DEF Interrupt
  <2>4. pic' \in PicState /\ pic'.mask = pic.mask /\ pic'.imr = pic.imr
          /\ pic'.in_service = InService(irq)
    BY <1>0, <2>1, <2>2, AcknowledgeKeeps
  <2> QED BY <1>0, <2>3, <2>4 DEF Lines
<1>4. ASSUME NEW irq \in {KEYB, RTC_IRQ}, Return(irq) PROVE Lines'
  <2>1. frames # <<>> /\ frames[Len(frames)].line = irq
          /\ frames' = SubSeq(frames, 1, Len(frames) - 1) /\ pic' = send_eoi(pic, irq)
    BY <1>4 DEF Return, Handles
  <2>2. Len(frames) = 1
    BY <2>1, HandlerOnStack
  <2>3. frames[1].line = irq /\ frames' = <<>>
    BY <2>1, <2>2
  <2>4. pic.in_service \ InService(irq) = {}
    BY <2>1, <2>3 DEF Lines
  <2> QED BY <1>0, <2>1, <2>3, <2>4, EoiKeeps DEF Lines
<1>5. CASE rtc_handle
  <2>1. frames # <<>> /\ HandlerDone /\ pic' = pic
    BY <1>5 DEF rtc_handle, Handles
  <2> QED BY <2>1, HandlerStays DEF Lines
<1>6. More(pic) \in PicState /\ More(pic).mask = pic.mask /\ More(pic).imr = pic.imr
        /\ More(pic).in_service = pic.in_service
  BY <1>0, RequestKeeps DEF More, KEYB, AllLines
<1>7. SwitchEoi(More(pic)) \in PicState /\ SwitchEoi(More(pic)).mask = pic.mask
        /\ SwitchEoi(More(pic)).imr = pic.imr
        /\ SwitchEoi(More(pic)).in_service = pic.in_service \ InService(KEYB)
  BY <1>6, EoiKeeps DEF SwitchEoi
<1>8. ASSUME keyb_main \/ \E t \in TIDs : SwitchView(t) PROVE Lines'
  <2>1. frames # <<>> /\ HandlerDone /\ pic' \in {More(pic), SwitchEoi(More(pic))}
    BY <1>8 DEF keyb_main, SwitchView, Reads, Handles
  <2>2. pic.in_service \subseteq InService(frames[1].line)
    BY <2>1 DEF Lines
  <2> QED BY <1>0, <1>6, <1>7, <2>1, <2>2, HandlerStays DEF Lines
<1>9. ASSUME NEW t \in TIDs, SwitchLaunch(t) PROVE Lines'
  <2>1. frames # <<>> /\ frames[Len(frames)].line = KEYB
          /\ frames' = <<>> /\ pic' = SwitchEoi(More(pic))
    BY <1>9 DEF SwitchLaunch, Reads, Handles
  <2>2. pic.in_service \ InService(KEYB) = {}
    BY <2>1, HandlerOnStack DEF Lines
  <2> QED BY <1>0, <1>7, <2>1, <2>2 DEF Lines
<1>10. CASE Devices
  <2>1. PICK l \in AllLines : pic' \in {pic, Request(pic, l)}
    BY <1>10 DEF Devices, Tick, Key, KEYB, RTC_IRQ, AllLines
  <2>2. frames' = frames
    BY <1>10 DEF Devices, Tick, Key, cpuVars
  <2> QED BY <1>0, <2>1, <2>2, RequestKeeps DEF Lines
<1> QED BY <1>1, <1>2, <1>3, <1>4, <1>5, <1>8, <1>9, <1>10
        DEF Next, CPU, Continue, Boot, Handler

-----------------------------------------------------------------------------
\* The rates of rtc_init.
LEMMA BootRates == Available(2) /\ Available(1024)
<1>1. Accepts(2)
  <2>1. 1 \in 1 .. 10 /\ 2 = 2 ^ 1
    OBVIOUS
  <2> QED BY <2>1 DEF Accepts
<1>2. Accepts(1024)
  <2>1. 10 \in 1 .. 10 /\ 1024 = 2 ^ 10
    OBVIOUS
  <2> QED BY <2>1 DEF Accepts
<1> QED BY <1>1, <1>2, AcceptedRates

\* freq_change(2) is what rtc_init is about to call.
LEMMA InitClock == Init => Clock
<1> SUFFICES ASSUME Init PROVE Clock
  OBVIOUS
<1>1. rtc \in [index : {"A", "B", "C"}, rate : 3 .. 15, on : BOOLEAN, c : BOOLEAN]
  BY BootRates DEF Init, Available
<1> QED BY <1>1, BootRates DEF Init, Clock, Setting

\* What is left to show of a step outside freq_change.
LEMMA ClockIdle ==
  ASSUME Clock, rtc' = rtc, rtcInterrupt' = rtcInterrupt, ticked' = ticked,
         freq' = freq, prog \notin Setting, prog' \notin Setting, prog' # "spin"
  PROVE  Clock'
BY DEF Clock, Setting

\* The RTC keeps the rate accepted last, whatever interrupts it.
LEMMA NextClock == Control /\ Clock /\ [Next]_vars => Clock'
<1> SUFFICES ASSUME Control, Clock, [Next]_vars PROVE Clock'
  OBVIOUS
<1> DEFINE Registers == [index : {"A", "B", "C"}, rate : 3 .. 15, on : BOOLEAN,
                         c : BOOLEAN]
<1>0. rtc \in Registers /\ rtcInterrupt \in {0, 1} /\ freq \in Nat
        /\ ticked \in BOOLEAN
  BY DEF Clock
<1>1. ASSUME NEW hz \in Nat, Available(hz), freq_change(hz) PROVE Clock'
  <2>1. /\ prog' = "select" /\ arg' = hz /\ freq' = hz /\ rtc' = rtc
        /\ rtcInterrupt' = rtcInterrupt /\ ticked' = ticked
    BY <1>1 DEF freq_change, Available
  <2> QED BY <1>0, <1>1, <2>1 DEF Clock, Setting
<1>2. CASE rtc_open \/ \E hz \in Hertz : rtc_write(hz)
  <2>1. PICK hz \in Nat : Available(hz) /\ freq_change(hz)
    BY <1>2, BootRates, AcceptedRates, InterruptsAssumption DEF rtc_open, rtc_write
  <2> QED BY <1>1, <2>1
<1>3. CASE CallRead \/ HaltOrExecute \/ \E v \in Exceptions : Exception(v)
  <2>1. /\ prog = "user" /\ prog' \in {"clear", "halt"} /\ rtc' = rtc
        /\ freq' = freq /\ rtcInterrupt' = rtcInterrupt /\ ticked' \in {ticked, FALSE}
    BY <1>3 DEF CallRead, HaltOrExecute, Exception, rtcVars
  <2> QED BY <1>0, <2>1 DEF Clock, Setting
<1>4. CASE BootRtc
  <2>1. /\ prog = "rtc_init" /\ prog' = "select" /\ rtc' = [rtc EXCEPT !.on = TRUE]
        /\ UNCHANGED <<arg, freq, rtcInterrupt, ticked>>
    BY <1>4 DEF BootRtc
  <2>2. rtc' \in Registers
    BY <1>0, <2>1
  <2> QED BY <1>0, <2>1, <2>2 DEF Clock, Setting
<1>5. CASE BootEnable \/ BootTerms \/ NextProgram
  <2>1. /\ prog \notin Setting /\ prog' \notin Setting /\ prog' # "spin"
        /\ UNCHANGED rtcVars
    BY <1>5 DEF BootEnable, BootTerms, NextProgram, Setting
  <2> QED BY <2>1, ClockIdle DEF rtcVars
<1>6. CASE Select
  <2>1. /\ prog \in {"select", "select again"}
        /\ prog' = IF prog = "select" THEN "load" ELSE "store"
        /\ rtc' = [rtc EXCEPT !.index = "A"]
        /\ UNCHANGED <<arg, freq, rtcInterrupt, ticked>>
    BY <1>6 DEF Select
  <2>2. rtc' \in Registers /\ rtc'.index = "A"
    BY <1>0, <2>1
  <2> QED BY <1>0, <2>1, <2>2 DEF Clock, Setting
<1>7. CASE Load
  <2>1. /\ prog = "load" /\ prog' = "select again"
        /\ rtc' \in {rtc, [rtc EXCEPT !.c = FALSE]}
        /\ UNCHANGED <<arg, freq, rtcInterrupt, ticked>>
    BY <1>7 DEF Load
  <2>2. rtc' \in Registers
    BY <1>0, <2>1
  <2> QED BY <1>0, <2>1, <2>2 DEF Clock, Setting
<1>8. CASE Store
  <2>1. /\ prog = "store" /\ prog' = "sti" /\ rtc.index = "A"
        /\ arg = freq /\ Available(freq)
        /\ rtc' = [rtc EXCEPT !.rate = Rate(arg)]
        /\ UNCHANGED <<arg, freq, rtcInterrupt, ticked>>
    BY <1>8 DEF Store, Clock, Setting
  <2>2. rtc' \in Registers /\ rtc'.rate = Rate(freq)
    BY <1>0, <2>1 DEF Available
  <2> QED BY <1>0, <2>1, <2>2 DEF Clock, Setting
<1>9. CASE Sti
  <2>1. /\ prog = "sti" /\ prog' \in {"boot rtc", "user"} /\ rtc.rate = Rate(freq)
        /\ Available(freq) /\ UNCHANGED <<rtc, freq, rtcInterrupt, ticked>>
    BY <1>9 DEF Sti, rtcVars, Clock, Setting
  <2> QED BY <1>0, <2>1 DEF Clock, Setting, Available
<1>10. CASE ClearFlag
  <2>1. /\ prog = "clear" /\ prog' = "spin" /\ rtcInterrupt' = 0
        /\ UNCHANGED <<rtc, freq, ticked>>
    BY <1>10 DEF ClearFlag, Cleared
  <2> QED BY <1>0, <2>1 DEF Clock, Setting
<1>11. CASE ReadReturns
  <2>1. /\ prog = "spin" /\ prog' = "user" /\ ticked' = FALSE
        /\ UNCHANGED <<rtc, freq, rtcInterrupt>>
    BY <1>11 DEF ReadReturns
  <2> QED BY <1>0, <2>1 DEF Clock, Setting
<1>12. CASE rtc_handle
  <2>1. /\ rtc' = [rtc EXCEPT !.index = "C", !.c = FALSE]
        /\ rtcInterrupt' = 1 /\ ticked' = TRUE
        /\ UNCHANGED <<prog, arg, freq>> /\ frames # <<>>
    BY <1>12 DEF rtc_handle, ReadC, Handles
  <2>2. prog \notin Setting
    BY <2>1, HandlerOnStack
  <2>3. rtc' \in Registers /\ rtc'.rate = rtc.rate
    BY <1>0, <2>1
  <2> QED BY <1>0, <2>1, <2>2, <2>3 DEF Clock, Setting
<1>13. ASSUME NEW t \in TIDs, SwitchLaunch(t) PROVE Clock'
  <2>1. prog \notin Setting
    BY <1>13, HandlerOnStack DEF SwitchLaunch, Reads, Handles
  <2>2. prog' = "user" /\ UNCHANGED rtcVars
    BY <1>13 DEF SwitchLaunch, Reads
  <2> QED BY <2>1, <2>2, ClockIdle DEF rtcVars, Setting
<1>14. CASE Tick
  <2>1. /\ rtc' = [rtc EXCEPT !.c = TRUE]
        /\ UNCHANGED <<prog, arg, freq, rtcInterrupt, ticked>>
    BY <1>14 DEF Tick
  <2>2. rtc' \in Registers /\ rtc'.rate = rtc.rate /\ rtc'.index = rtc.index
    BY <1>0, <2>1
  <2> QED BY <1>0, <2>1, <2>2 DEF Clock
<1>15. ASSUME \/ Spin \/ keyb_main \/ UNCHANGED vars
              \/ \E t \in TIDs : SwitchView(t)
              \/ \E irq \in {PIT, KEYB, RTC_IRQ} : Interrupt(irq) \/ Return(irq)
              \/ \E c \in KeyCodes : Key(c)
       PROVE  Clock'
  <2>1. UNCHANGED <<prog, arg, rtc, freq, rtcInterrupt, ticked>>
    BY <1>15 DEF Spin, keyb_main, SwitchView, Reads, Interrupt, Return, Key, vars, rtcVars
  <2> QED BY <2>1 DEF Clock
<1> QED BY <1>2, <1>3, <1>4, <1>5, <1>6, <1>7, <1>8, <1>9, <1>10, <1>11, <1>12,
           <1>13, <1>14, <1>15
        DEF Next, CPU, Calls, Continue, Boot, Handler, Devices

-----------------------------------------------------------------------------
\* Reading the first code: what is last, or missing, in the rest of them.
LEMMA LastOfTail ==
  ASSUME NEW codes \in Seq(KeyCodes), codes # <<>>, NEW K
  PROVE  /\ \A i \in 1 .. Len(Tail(codes)) :
              /\ i + 1 \in 1 .. Len(codes) /\ Tail(codes)[i] = codes[i + 1]
              /\ LastOf(Tail(codes), K, i) => LastOf(codes, K, i + 1)
         /\ NoneOf(Tail(codes), K) =>
              IF Head(codes).key \in K THEN LastOf(codes, K, 1) ELSE NoneOf(codes, K)
<1> DEFINE rest == Tail(codes)
<1>1. /\ rest \in Seq(KeyCodes) /\ Len(codes) \in Nat \ {0} /\ Len(rest) = Len(codes) - 1
      /\ \A i \in 1 .. Len(rest) : rest[i] = codes[i + 1]
      /\ Head(codes) = codes[1]
  OBVIOUS
<1> HIDE DEF rest
<1>2. \A j \in 2 .. Len(codes) : j - 1 \in 1 .. Len(rest) /\ codes[j] = rest[j - 1]
  BY <1>1
<1>3. ASSUME NEW i \in 1 .. Len(rest), LastOf(rest, K, i) PROVE LastOf(codes, K, i + 1)
  <2>1. i + 1 \in 1 .. Len(codes) /\ codes[i + 1].key \in K
    BY <1>1, <1>3 DEF LastOf
  <2>2. ASSUME NEW j \in i + 1 + 1 .. Len(codes) PROVE codes[j].key \notin K
    <3>1. j - 1 \in i + 1 .. Len(rest) /\ codes[j] = rest[j - 1]
      BY <1>1, <1>2
    <3> QED BY <1>3, <3>1 DEF LastOf
  <2> QED BY <2>1, <2>2 DEF LastOf
<1>4. ASSUME NoneOf(rest, K)
      PROVE  IF Head(codes).key \in K THEN LastOf(codes, K, 1) ELSE NoneOf(codes, K)
  <2>1. \A j \in 2 .. Len(codes) : codes[j].key \notin K
    BY <1>2, <1>4 DEF NoneOf
  <2>2. CASE codes[1].key \in K
    BY <1>1, <2>1, <2>2 DEF LastOf
  <2>3. CASE codes[1].key \notin K
    <3>1. \A j \in 1 .. Len(codes) : j = 1 \/ j \in 2 .. Len(codes)
      BY <1>1
    <3> QED BY <1>1, <2>1, <2>3, <3>1 DEF NoneOf
  <2> QED BY <2>2, <2>3
<1>5. \A i \in 1 .. Len(rest) : i + 1 \in 1 .. Len(codes)
  BY <1>1
<1> QED BY <1>1, <1>3, <1>4, <1>5 DEF rest

\* A new code: what is last, or missing, before it.
LEMMA LastOfAppend ==
  ASSUME NEW codes \in Seq(KeyCodes), NEW code \in KeyCodes, NEW K
  PROVE  LET more == Append(codes, code) IN
         /\ \A i \in 1 .. Len(more) : LastOf(more, K, i) =>
              \/ more[i] = code /\ code.key \in K
              \/ /\ code.key \notin K /\ more[i] = codes[i]
                 /\ i \in 1 .. Len(codes) /\ LastOf(codes, K, i)
         /\ NoneOf(more, K) => code.key \notin K /\ NoneOf(codes, K)
<1> DEFINE more == Append(codes, code)
           n == Len(codes)
<1>1. /\ n \in Nat /\ Len(more) = n + 1 /\ more[n + 1] = code
      /\ \A i \in 1 .. n : more[i] = codes[i]
  OBVIOUS
<1> HIDE DEF more, n
<1>2. ASSUME NEW i \in 1 .. Len(more), LastOf(more, K, i)
      PROVE  \/ more[i] = code /\ code.key \in K
             \/ /\ code.key \notin K /\ more[i] = codes[i]
                /\ i \in 1 .. n /\ LastOf(codes, K, i)
  <2>1. CASE i = n + 1
    BY <2>1, <1>1, <1>2 DEF LastOf
  <2>2. CASE i # n + 1
    <3>1. i \in 1 .. n /\ n + 1 \in i + 1 .. Len(more)
      BY <2>2, <1>1
    <3>2. more[i].key \in K /\ \A j \in i + 1 .. Len(more) : more[j].key \notin K
      BY <1>2 DEF LastOf
    <3>3. \A j \in i + 1 .. n : j \in i + 1 .. Len(more) /\ more[j] = codes[j]
      BY <1>1, <3>1
    <3>4. LastOf(codes, K, i)
      BY <1>1, <3>1, <3>2, <3>3 DEF LastOf, n
    <3> QED BY <1>1, <3>1, <3>2, <3>4
  <2> QED BY <2>1, <2>2
<1>3. ASSUME NoneOf(more, K) PROVE code.key \notin K /\ NoneOf(codes, K)
  <2>1. \A i \in 1 .. n : i \in 1 .. Len(more) /\ more[i] = codes[i]
    BY <1>1
  <2>2. n + 1 \in 1 .. Len(more)
    BY <1>1
  <2> QED BY <1>1, <1>3, <2>1, <2>2 DEF NoneOf, n
<1> QED BY <1>2, <1>3 DEF more, n

\* keyb_main sets the flag of the key that a code tells of, and no other.
LEMMA DecodedFlags ==
  ASSUME NEW f \in Flags, NEW code \in Codes
  PROVE  LET g == Decoded(f, code) IN
         /\ g \in Flags
         /\ g.ctrl = IF code.key = "ctrl" THEN code.down ELSE f.ctrl
         /\ g.alt = IF code.key = "alt" THEN code.down ELSE f.alt
         /\ g.shift = IF code.key \in Shifts THEN code.down ELSE f.shift
<1>1. code.down \in BOOLEAN /\ (~f.caps) \in BOOLEAN
  BY DEF Codes, Flags
<1>2. CASE code.key = "ctrl"
  BY <1>1, <1>2 DEF Decoded, Flags, Shifts
<1>3. CASE code.key \in Shifts
  BY <1>1, <1>3 DEF Decoded, Flags, Shifts
<1>4. CASE code.key = "alt"
  BY <1>1, <1>4 DEF Decoded, Flags, Shifts
<1>5. CASE code.key = "caps" /\ code.down
  BY <1>1, <1>5 DEF Decoded, Flags, Shifts
<1>6. CASE code.key \notin {"ctrl", "alt"} \cup Shifts /\ ~(code.key = "caps" /\ code.down)
  <2>1. Decoded(f, code) = f
    BY <1>6 DEF Decoded, Shifts
  <2> QED BY <1>6, <2>1
<1> QED BY <1>2, <1>3, <1>4, <1>5, <1>6

\* The codes of a user are scan codes, and a modifier's is one she holds.
LEMMA CodesOfUser ==
  /\ KeyCodes \subseteq Codes
  /\ \A code \in KeyCodes : code.down \in BOOLEAN
                            /\ (code.key \in Modifiers => code.key \in Held)
BY InterruptsAssumption DEF KeyCodes, Codes

\* Decoding the first code leaves what follows a key's flag in the rest.
LEMMA ReadFollows ==
  ASSUME NEW codes \in Seq(KeyCodes), codes # <<>>,
         NEW flag, NEW keys, NEW key,
         WillFollow(codes, flag, key, keys)
  PROVE  WillFollow(Tail(codes),
                    IF Head(codes).key = key THEN Head(codes).down ELSE flag,
                    key, keys)
<1> DEFINE rest == Tail(codes)
           now == IF Head(codes).key = key THEN Head(codes).down ELSE flag
<1>1. ASSUME NoneOf(rest, {key}) PROVE now = (key \in keys)
  <2>1. CASE Head(codes).key = key
    <3>1. LastOf(codes, {key}, 1) /\ Head(codes) = codes[1]
      BY <1>1, <2>1, LastOfTail
    <3>2. codes[1].down = (key \in keys)
      BY <3>1 DEF WillFollow, LastOf
    <3> QED BY <2>1, <3>1, <3>2
  <2>2. CASE Head(codes).key # key
    <3>1. NoneOf(codes, {key})
      BY <1>1, <2>2, LastOfTail
    <3> QED BY <2>2, <3>1 DEF WillFollow
  <2> QED BY <2>1, <2>2
<1>2. ASSUME NEW i \in 1 .. Len(rest), LastOf(rest, {key}, i)
      PROVE  rest[i].down = (key \in keys)
  <2>1. /\ i + 1 \in 1 .. Len(codes) /\ rest[i] = codes[i + 1]
        /\ LastOf(codes, {key}, i + 1)
    BY <1>2, LastOfTail
  <2>2. codes[i + 1].down = (key \in keys)
    BY <2>1 DEF WillFollow
  <2> QED BY <2>1, <2>2
<1> HIDE DEF now, rest
<1>3. WillFollow(rest, now, key, keys)
  BY <1>1, <1>2 DEF WillFollow
<1> QED BY <1>3 DEF now, rest

\* So it does for the flag of the two Shift keys.
LEMMA ReadShift ==
  ASSUME NEW codes \in Seq(KeyCodes), codes # <<>>,
         NEW flag, NEW keys,
         ShiftWillFollow(codes, flag, keys)
  PROVE  ShiftWillFollow(Tail(codes),
                    IF Head(codes).key \in Shifts THEN Head(codes).down ELSE flag,
                    keys)
<1> DEFINE rest == Tail(codes)
           now == IF Head(codes).key \in Shifts THEN Head(codes).down ELSE flag
<1>1. ASSUME NoneOf(rest, Shifts), now PROVE keys \cap Shifts # {}
  <2>1. CASE Head(codes).key \in Shifts
    <3>1. LastOf(codes, Shifts, 1) /\ Head(codes) = codes[1]
      BY <1>1, <2>1, LastOfTail
    <3>2. codes[1].key \in keys
      BY <1>1, <2>1, <3>1 DEF ShiftWillFollow, LastOf
    <3> QED BY <2>1, <3>1, <3>2
  <2>2. CASE Head(codes).key \notin Shifts
    <3>1. NoneOf(codes, Shifts)
      BY <1>1, <2>2, LastOfTail
    <3> QED BY <1>1, <2>2, <3>1 DEF ShiftWillFollow
  <2> QED BY <2>1, <2>2
<1>2. ASSUME NEW i \in 1 .. Len(rest), LastOf(rest, Shifts, i), rest[i].down
      PROVE  rest[i].key \in keys
  BY <1>2, LastOfTail DEF ShiftWillFollow
<1> HIDE DEF now, rest
<1>3. ShiftWillFollow(rest, now, keys)
  BY <1>1, <1>2 DEF ShiftWillFollow
<1> QED BY <1>3 DEF now, rest

\* Pressing or releasing a key adds a code that says so.
LEMMA KeyFollows ==
  ASSUME NEW codes \in Seq(KeyCodes), NEW code \in KeyCodes, NEW flag,
         NEW keys, NEW keys2, NEW key \in Modifiers,
         keys2 = IF code.key \notin Held THEN keys
                 ELSE IF code.down THEN keys \cup {code.key} ELSE keys \ {code.key},
         WillFollow(codes, flag, key, keys)
  PROVE  WillFollow(Append(codes, code), flag, key, keys2)
<1> DEFINE more == Append(codes, code)
<1>1. code.key = key => code.down = (key \in keys2)
  BY CodesOfUser
<1>2. code.key # key => (key \in keys2) = (key \in keys)
  BY CodesOfUser
<1>3. NoneOf(more, {key}) => flag = (key \in keys2)
  BY <1>2, LastOfAppend DEF WillFollow
<1>4. ASSUME NEW i \in 1 .. Len(more), LastOf(more, {key}, i)
      PROVE  more[i].down = (key \in keys2)
  <2>1. CASE more[i] = code /\ code.key = key
    BY <1>1, <2>1
  <2>2. CASE /\ code.key # key /\ more[i] = codes[i]
             /\ i \in 1 .. Len(codes) /\ LastOf(codes, {key}, i)
    <3>1. codes[i].down = (key \in keys)
      BY <2>2 DEF WillFollow
    <3> QED BY <1>2, <2>2, <3>1
  <2> QED BY <1>4, <2>1, <2>2, LastOfAppend
<1> HIDE DEF more
<1>5. WillFollow(more, flag, key, keys2)
  BY <1>3, <1>4 DEF WillFollow
<1> QED BY <1>5 DEF more

\* Pressing or releasing a Shift key adds a code that says so.
LEMMA KeyShift ==
  ASSUME NEW codes \in Seq(KeyCodes), NEW code \in KeyCodes, NEW flag,
         NEW keys, NEW keys2,
         keys2 = IF code.key \notin Held THEN keys
                 ELSE IF code.down THEN keys \cup {code.key} ELSE keys \ {code.key},
         ShiftWillFollow(codes, flag, keys)
  PROVE  ShiftWillFollow(Append(codes, code), flag, keys2)
<1> DEFINE more == Append(codes, code)
<1>1. Shifts \subseteq Modifiers
  BY DEF Shifts, Modifiers
<1>2. code.key \in Shifts /\ code.down => code.key \in keys2
  BY <1>1, CodesOfUser
<1>3. code.key \notin Shifts => \A k \in Shifts : k \in keys2 <=> k \in keys
  OBVIOUS
<1>4. NoneOf(more, Shifts) /\ flag => keys2 \cap Shifts # {}
  BY <1>3, LastOfAppend DEF ShiftWillFollow
<1>5. ASSUME NEW i \in 1 .. Len(more), LastOf(more, Shifts, i), more[i].down
      PROVE  more[i].key \in keys2
  <2>1. more[i].key \in Shifts
    BY <1>5 DEF LastOf
  <2>2. CASE more[i] = code /\ code.key \in Shifts
    BY <1>2, <1>5, <2>2
  <2>3. CASE /\ code.key \notin Shifts /\ more[i] = codes[i]
             /\ i \in 1 .. Len(codes) /\ LastOf(codes, Shifts, i)
    BY <1>3, <1>5, <2>1, <2>3 DEF ShiftWillFollow
  <2> QED BY <1>5, <2>2, <2>3, LastOfAppend
<1> HIDE DEF more
<1>6. ShiftWillFollow(more, flag, keys2)
  BY <1>4, <1>5 DEF ShiftWillFollow
<1> QED BY <1>6 DEF more

\* No key is down, no code waits and no flag is set.
LEMMA InitModifying == Init => Modifying
<1> SUFFICES ASSUME Init PROVE Modifying
  OBVIOUS
<1>1. fifo = <<>> /\ held = {} /\ flags = NoFlags
  BY DEF Init
<1>2. fifo \in Seq(KeyCodes) /\ Len(fifo) <= FifoSize /\ Len(fifo) = 0
  BY <1>1, InterruptsAssumption
<1>3. /\ flags \in Flags /\ flags.ctrl = FALSE /\ flags.alt = FALSE
      /\ flags.shift = FALSE
  BY <1>1 DEF NoFlags, Flags
<1>4. \A i \in 1 .. Len(fifo) : FALSE
  BY <1>2
<1>5. ASSUME NEW key PROVE WillFollow(fifo, FALSE, key, held)
  BY <1>1, <1>4 DEF WillFollow
<1>6. ShiftWillFollow(fifo, FALSE, held)
  BY <1>4 DEF ShiftWillFollow
<1> QED BY <1>1, <1>2, <1>3, <1>5, <1>6 DEF Modifying

\* The flags keep up with the keys, however the codes queue.
LEMMA NextModifying == Modifying /\ [Next]_vars => Modifying'
<1> SUFFICES ASSUME Modifying, [Next]_vars PROVE Modifying'
  OBVIOUS
<1>0. /\ fifo \in Seq(KeyCodes) /\ Len(fifo) <= FifoSize
      /\ held \subseteq Held /\ flags \in Flags
      /\ WillFollow(fifo, flags.ctrl, "ctrl", held)
      /\ WillFollow(fifo, flags.alt, "alt", held)
      /\ ShiftWillFollow(fifo, flags.shift, held)
  BY DEF Modifying
<1>1. CASE Reads
  <2>1. /\ fifo # <<>> /\ fifo' = Tail(fifo) /\ held' = held
        /\ flags' = Decoded(flags, Head(fifo))
    BY <1>1 DEF Reads, Code
  <2>2. fifo' \in Seq(KeyCodes) /\ Len(fifo') <= FifoSize /\ Head(fifo) \in KeyCodes
    BY <1>0, <2>1, InterruptsAssumption
  <2>3. /\ flags' \in Flags
        /\ flags'.ctrl = IF Head(fifo).key = "ctrl" THEN Head(fifo).down ELSE flags.ctrl
        /\ flags'.alt = IF Head(fifo).key = "alt" THEN Head(fifo).down ELSE flags.alt
        /\ flags'.shift = IF Head(fifo).key \in Shifts THEN Head(fifo).down
                          ELSE flags.shift
    BY <1>0, <2>1, <2>2, DecodedFlags, CodesOfUser
  <2>4. WillFollow(fifo', flags'.ctrl, "ctrl", held)
    BY <1>0, <2>1, <2>3, ReadFollows
  <2>5. WillFollow(fifo', flags'.alt, "alt", held)
    BY <1>0, <2>1, <2>3, ReadFollows
  <2>6. ShiftWillFollow(fifo', flags'.shift, held)
    BY <1>0, <2>1, <2>3, ReadShift
  <2> QED BY <1>0, <2>1, <2>2, <2>3, <2>4, <2>5, <2>6 DEF Modifying
<1>2. ASSUME NEW code \in KeyCodes, Key(code) PROVE Modifying'
  <2>1. /\ fifo' = Append(fifo, code) /\ Len(fifo) < FifoSize /\ flags' = flags
        /\ held' = IF code.key \notin Held THEN held
                   ELSE IF code.down THEN held \cup {code.key} ELSE held \ {code.key}
    BY <1>2 DEF Key
  <2>2. fifo' \in Seq(KeyCodes) /\ Len(fifo') <= FifoSize
    BY <1>0, <2>1, InterruptsAssumption
  <2>3. held' \subseteq Held
    BY <1>0, <2>1
  <2>4. WillFollow(fifo', flags.ctrl, "ctrl", held')
    BY <1>0, <2>1, KeyFollows DEF Modifiers
  <2>5. WillFollow(fifo', flags.alt, "alt", held')
    BY <1>0, <2>1, KeyFollows DEF Modifiers
  <2>6. ShiftWillFollow(fifo', flags.shift, held')
    BY <1>0, <2>1, KeyShift
  <2> QED BY <1>0, <2>1, <2>2, <2>3, <2>4, <2>5, <2>6 DEF Modifying
<1>3. CASE UNCHANGED keyVars
  BY <1>3 DEF keyVars, Modifying
<1>4. Reads \/ (\E code \in KeyCodes : Key(code)) \/ UNCHANGED keyVars
  <2>1. Calls => UNCHANGED keyVars
    BY DEF Calls, rtc_open, rtc_write, freq_change, CallRead, Exception, HaltOrExecute
  <2>2. Continue => UNCHANGED keyVars
    BY DEF Continue, Boot, BootRtc, BootEnable, BootTerms, Select, Load, Store, Sti,
           ClearFlag, Spin, ReadReturns, NextProgram, vars, keyVars
  <2>3. Handler => Reads \/ UNCHANGED keyVars
    BY DEF Handler, rtc_handle, keyb_main, SwitchView, SwitchLaunch, Return
  <2>4. \A irq : Interrupt(irq) => UNCHANGED keyVars
    BY DEF Interrupt
  <2>5. Tick => UNCHANGED keyVars
    BY DEF Tick
  <2>6. UNCHANGED vars => UNCHANGED keyVars
    BY DEF vars, keyVars
  <2> QED BY <2>1, <2>2, <2>3, <2>4, <2>5, <2>6 DEF Next, CPU, Devices
<1> QED BY <1>1, <1>2, <1>3, <1>4

-----------------------------------------------------------------------------
\* The terminal in view and those opened are terminals.
LEMMA InitTerminals == Init => Terminals
BY InterruptsAssumption DEF Init, Terminals, TIDs

\* A function key selects one of the terminals.
LEMMA NextTerminals == Terminals /\ [Next]_vars => Terminals'
<1> SUFFICES ASSUME Terminals, [Next]_vars PROVE Terminals'
  OBVIOUS
<1>1. CASE UNCHANGED termVars
  BY <1>1 DEF termVars, Terminals
<1>2. CASE BootTerms
  BY <1>2, InterruptsAssumption DEF BootTerms, Terminals, TIDs
<1>3. ASSUME NEW t \in TIDs, SwitchView(t) \/ SwitchLaunch(t) PROVE Terminals'
  BY <1>3 DEF SwitchView, SwitchLaunch, Terminals
<1>4. BootTerms \/ UNCHANGED termVars \/ \E t \in TIDs : SwitchView(t) \/ SwitchLaunch(t)
  <2>1. Calls => UNCHANGED termVars
    BY DEF Calls, rtc_open, rtc_write, freq_change, CallRead, Exception, HaltOrExecute
  <2>2. Continue => BootTerms \/ UNCHANGED termVars
    BY DEF Continue, Boot, BootRtc, BootEnable, Select, Load, Store, Sti,
           ClearFlag, Spin, ReadReturns, NextProgram, vars, termVars
  <2>3. Handler => \/ \E t \in TIDs : SwitchView(t) \/ SwitchLaunch(t)
                   \/ UNCHANGED termVars
    BY DEF Handler, rtc_handle, keyb_main, Return
  <2>4. \A irq : Interrupt(irq) => UNCHANGED termVars
    BY DEF Interrupt
  <2>5. Devices => UNCHANGED termVars
    BY DEF Devices, Tick, Key
  <2>6. UNCHANGED vars => UNCHANGED termVars
    BY DEF vars, termVars
  <2> QED BY <2>1, <2>2, <2>3, <2>4, <2>5, <2>6 DEF Next, CPU
<1> QED BY <1>1, <1>2, <1>3, <1>4

Inductive == Control /\ Lines /\ Clock /\ Modifying /\ Terminals

\* The four parts and the terminals' range hold throughout.
THEOREM InductiveHolds == Spec => []Inductive
<1>1. Init => Inductive
  BY InitControl, InitLines, InitClock, InitModifying, InitTerminals DEF Inductive
<1>2. Inductive /\ [Next]_vars => Inductive'
  BY NextControl, NextLines, NextClock, NextModifying, NextTerminals DEF Inductive
<1> QED BY <1>1, <1>2, PTL DEF Spec

\* Registers, controllers, handlers and flags stay in range.
THEOREM TypeCorrect == Spec => []TypeOK
<1>1. Inductive => TypeOK
  <2> SUFFICES ASSUME Inductive PROVE TypeOK
    OBVIOUS
  <2>1. ASSUME NEW i \in 1 .. Len(frames)
        PROVE  frames[i] \in [line : {KEYB, RTC_IRQ}, done : BOOLEAN, flag : BOOLEAN]
    <3>1. frames # <<>>
      OBVIOUS
    <3>2. Len(frames) = 1 /\ frames[1] \in Frame
      BY <3>1, HandlerOnStack DEF Inductive
    <3>3. i = 1
      BY <3>2
    <3> QED BY <3>2, <3>3 DEF Frame
  <2> QED BY <2>1 DEF Inductive, Control, Lines, Clock, Modifying, Terminals, TypeOK
<1> QED BY <1>1, InductiveHolds, PTL

(***************************************************************************)
(* No handler is interrupted: the gate of each device's vector turns       *)
(* interrupts off and only an iret or the shell turns them on.             *)
(***************************************************************************)
THEOREM HandlersAtomicCorrect == Spec => []HandlersAtomic
<1>1. Inductive => HandlersAtomic
  BY HandlerOnStack DEF Inductive, HandlersAtomic
<1> QED BY <1>1, InductiveHolds, PTL

(***************************************************************************)
(* Whichever way a handler is left, its lines' end of interrupt has been   *)
(* sent, so the keyboard goes on being heard.                              *)
(***************************************************************************)
THEOREM NothingLeftCorrect == Spec => []NothingLeftInService
<1>1. Inductive => NothingLeftInService
  BY DEF Inductive, Lines, NothingLeftInService
<1> QED BY <1>1, InductiveHolds, PTL

\* The timer's line stays masked through every write for other lines.
THEOREM TimerNeverRunsCorrect == Spec => []TimerNeverRuns
<1>1. Inductive => TimerNeverRuns
  BY TimerIsMasked DEF Inductive, TimerNeverRuns
<1> QED BY <1>1, InductiveHolds, PTL

(***************************************************************************)
(* For every rate that rtc_write accepts, the RTC ticks at the one asked   *)
(* for last, although the handler shares its index register.               *)
(***************************************************************************)
THEOREM RateCorrect == Spec => []RateIsWhatWasWritten
<1>1. Inductive => RateIsWhatWasWritten
  BY DEF Inductive, Clock, Setting, RateIsWhatWasWritten
<1> QED BY <1>1, InductiveHolds, PTL

(***************************************************************************)
(* Once the codes are read no flag is set of a key that is up, however     *)
(* many codes queued, for any set of modifier keys.                        *)
(***************************************************************************)
THEOREM FlagsFollowCorrect == Spec => []FlagsFollowKeys
<1>1. Inductive => FlagsFollowKeys
  <2> SUFFICES ASSUME Inductive, fifo = <<>>
               PROVE  /\ flags.ctrl = ("ctrl" \in held) /\ flags.alt = ("alt" \in held)
                      /\ TableFor(flags) = "UPPER_TBL" => held \cap Shifts # {}
    BY DEF FlagsFollowKeys, Shifts
  <2>1. \A K : NoneOf(fifo, K)
    BY DEF NoneOf
  <2>2. flags.ctrl = ("ctrl" \in held) /\ flags.alt = ("alt" \in held)
    BY <2>1 DEF Inductive, Modifying, WillFollow
  <2>3. flags.shift => held \cap Shifts # {}
    BY <2>1 DEF Inductive, Modifying, ShiftWillFollow
  <2>4. TableFor(flags) = "UPPER_TBL" => flags.shift
    BY DEF TableFor
  <2> QED BY <2>2, <2>3, <2>4
<1> QED BY <1>1, InductiveHolds, PTL

(***************************************************************************)
(* rtc_read returns only after a tick handled since it was called, not for *)
(* one that came before.                                                   *)
(***************************************************************************)
THEOREM ReadWaitsCorrect == Spec => ReadWaitsForTick
<1>1. Inductive /\ [Next]_vars => [ReadReturns => ticked]_vars
  BY DEF Inductive, Clock, ReadReturns
<1> QED BY <1>1, InductiveHolds, PTL DEF Spec, ReadWaitsForTick

=============================================================================
