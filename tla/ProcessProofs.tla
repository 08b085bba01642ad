---------------------------- MODULE ProcessProofs ----------------------------
(***************************************************************************)
(* Proofs about process control, for any number of slots and terminals and *)
(* for programs that start and end in any order.                           *)
(*                                                                         *)
(* The inductive invariant numbers the programs of a terminal from its     *)
(* shell up (Stacked): a launch gives the new program the number after the *)
(* one shown, and a halt takes away the highest number, so whatever is     *)
(* left of the terminal is still a stack below the program shown.  That is *)
(* so until a halt that is returned into takes a terminal's program from   *)
(* it (orphaned); the ranges, the page and the trap stack hold even then.  *)
(***************************************************************************)
EXTENDS Process, TLAPS

\* The running program is shown, and a numbering makes the jobs stacks.
StackedUp ==
  /\ RunningIsShown
  /\ \E d \in [PIDs -> Nat] : Stacked(process_slots, pcb, terminals, d)

InRange == TypeOK /\ AddressSpaceFollowsPid

Inductive == InRange /\ (Lost \/ orphaned \/ StackedUp)

-----------------------------------------------------------------------------

\* Entering user mode with stack s only marks the frames on s as gone.
LEMMA EnterUserMarks ==
  ASSUME NEW blocks \in [PIDs -> PCB], NEW s \in PIDs, NEW p \in PIDs
  PROVE  LET now == EnterUser(s, blocks)[p]
             f == blocks[p].frame
         IN  /\ now \in PCB
             /\ now.parent_pid = blocks[p].parent_pid
             /\ now.tid = blocks[p].tid
             /\ f.stack # s => now.frame = f
<1> DEFINE f == blocks[p].frame
           b == (f.intact /\ f.stack # s)
           g == [f EXCEPT !.intact = b]
<1>1. blocks[p] \in PCB /\ f \in Frame
  BY DEF PCB
<1>2. EnterUser(s, blocks)[p] = [blocks[p] EXCEPT !.frame = g]
  BY DEF EnterUser
<1>3. b \in BOOLEAN
  OBVIOUS
<1>4. f.stack # s => b = f.intact
  <2>1. f.intact \in BOOLEAN
    BY <1>1 DEF Frame
  <2> QED BY <2>1
<1> HIDE DEF b, f
<1>5. g \in Frame
  BY <1>1, <1>3 DEF Frame
<1>6. f.stack # s => g = f
  BY <1>1, <1>4 DEF Frame
<1> HIDE DEF g
<1> QED BY <1>1, <1>2, <1>5, <1>6 DEF PCB, f

\* It leaves the PCBs PCBs, and their parents and terminals alone.
LEMMA EnterUserKeeps ==
  ASSUME NEW blocks \in [PIDs -> PCB], NEW s \in PIDs
  PROVE  /\ EnterUser(s, blocks) \in [PIDs -> PCB]
         /\ \A p \in PIDs :
              /\ EnterUser(s, blocks)[p].parent_pid = blocks[p].parent_pid
              /\ EnterUser(s, blocks)[p].tid = blocks[p].tid
<1>1. \A p \in PIDs : EnterUser(s, blocks)[p] \in PCB
  BY EnterUserMarks
<1>2. EnterUser(s, blocks) = [p \in PIDs |-> EnterUser(s, blocks)[p]]
  BY DEF EnterUser
<1> HIDE DEF EnterUser
<1>3. EnterUser(s, blocks) \in [PIDs -> PCB]
  BY <1>1, <1>2
<1> QED BY <1>3, EnterUserMarks

(***************************************************************************)
(* system_execute puts its program on top of the stack of the terminal it  *)
(* is started on, and leaves a stack on every terminal.                    *)
(***************************************************************************)
LEMMA LaunchStacks ==
  ASSUME NEW slots \in [PIDs -> {0, 1}], NEW blocks \in [PIDs -> PCB],
         NEW terms \in [TIDs -> PIDs \cup {NoPid}], NEW d \in [PIDs -> Nat],
         NEW v \in TIDs, NEW p \in PIDs, NEW new \in [PIDs -> PCB],
         Stacked(slots, blocks, terms, d),
         slots[p] = 0,
         new[p].parent_pid = terms[v], new[p].tid = v,
         \A q \in PIDs \ {p} : /\ new[q].parent_pid = blocks[q].parent_pid
                               /\ new[q].tid = blocks[q].tid
  PROVE  \E e \in [PIDs -> Nat] :
           Stacked([slots EXCEPT ![p] = 1], new, [terms EXCEPT ![v] = p], e)
<1> DEFINE top == terms[v]
           e == [d EXCEPT ![p] = IF top = NoPid THEN 0 ELSE d[top] + 1]
           slots2 == [slots EXCEPT ![p] = 1]
           terms2 == [terms EXCEPT ![v] = p]
<1>0. NoPid \notin PIDs
  BY ProcessAssumption DEF NoPid, PIDs
<1>1. top = NoPid \/ (top \in PIDs /\ slots[top] = 1 /\ blocks[top].tid = v /\ top # p)
  BY DEF Stacked, Jobs
<1>2. e \in [PIDs -> Nat]
  BY <1>1
<1>3. /\ slots2[p] = 1 /\ terms2[v] = p
      /\ \A q \in PIDs \ {p} : slots2[q] = slots[q] /\ e[q] = d[q]
      /\ \A t \in TIDs \ {v} : terms2[t] = terms[t]
      /\ e[p] = IF top = NoPid THEN 0 ELSE d[top] + 1
  BY <1>1
<1> HIDE DEF e, slots2, terms2
<1>4. \A t \in TIDs : Jobs(slots2, new, t) =
        IF t = v THEN Jobs(slots, blocks, v) \cup {p} ELSE Jobs(slots, blocks, t)
  BY <1>3 DEF Jobs
<1>5. ASSUME NEW q \in PIDs, slots2[q] = 1
      PROVE  IF new[q].parent_pid = NoPid
             THEN e[q] = 0
             ELSE /\ new[q].parent_pid \in Jobs(slots2, new, new[q].tid)
                  /\ e[q] = e[new[q].parent_pid] + 1
  <2>1. CASE q = p
    BY <2>1, <1>0, <1>1, <1>3, <1>4 DEF Jobs
  <2>2. CASE q # p
    <3>1. slots[q] = 1 /\ new[q].parent_pid = blocks[q].parent_pid
             /\ new[q].tid = blocks[q].tid /\ e[q] = d[q]
      BY <2>2, <1>3, <1>5
    <3>2. CASE blocks[q].parent_pid = NoPid
      BY <3>1, <3>2 DEF Stacked
    <3>3. CASE blocks[q].parent_pid # NoPid
      <4>1. /\ blocks[q].parent_pid \in Jobs(slots, blocks, blocks[q].tid)
            /\ d[q] = d[blocks[q].parent_pid] + 1
        BY <3>1, <3>3 DEF Stacked
      <4>2. blocks[q].parent_pid # p /\ blocks[q].parent_pid \in PIDs
        BY <4>1 DEF Jobs
      <4>3. blocks[q].tid \in TIDs
        BY DEF PCB
      <4> QED BY <3>1, <3>3, <4>1, <4>2, <4>3, <1>3, <1>4
    <3> QED BY <3>2, <3>3
  <2> QED BY <2>1, <2>2
<1>6. ASSUME NEW q \in PIDs, NEW r \in PIDs, slots2[q] = 1, slots2[r] = 1,
             new[q].tid = new[r].tid, e[q] = e[r]
      PROVE  q = r
  <2>1. ASSUME NEW x \in PIDs, x # p, slots2[x] = 1, new[x].tid = v
        PROVE  e[x] < e[p]
    <3>1. slots[x] = 1 /\ blocks[x].tid = v /\ e[x] = d[x]
      BY <2>1, <1>3
    <3>2. x \in Jobs(slots, blocks, v)
      BY <3>1 DEF Jobs
    <3>3. top # NoPid /\ d[x] <= d[top]
      BY <3>2 DEF Stacked
    <3>4. d[x] \in Nat /\ d[top] \in Nat
      BY <3>3, <1>1
    <3> QED BY <3>1, <3>3, <3>4, <1>3
  <2>2. e[q] \in Nat /\ e[r] \in Nat
    BY <1>2 DEF e
  <2>3. CASE q = p /\ r # p
    BY <2>1, <2>2, <2>3, <1>6
  <2>4. CASE r = p /\ q # p
    BY <2>1, <2>2, <2>4, <1>6
  <2>5. CASE q # p /\ r # p
    <3>1. slots[q] = 1 /\ slots[r] = 1 /\ blocks[q].tid = blocks[r].tid
            /\ d[q] = d[r]
      BY <2>5, <1>3, <1>6
    <3> QED BY <3>1 DEF Stacked
  <2> QED BY <2>3, <2>4, <2>5
<1>7. ASSUME NEW t \in TIDs
      PROVE  IF terms2[t] = NoPid
             THEN Jobs(slots2, new, t) = {}
             ELSE /\ terms2[t] \in Jobs(slots2, new, t)
                  /\ \A q \in Jobs(slots2, new, t) : e[q] <= e[terms2[t]]
  <2>1. CASE t = v
    <3>1. p \in Jobs(slots2, new, t) /\ terms2[t] = p /\ p # NoPid
      BY <2>1, <1>0, <1>3, <1>4
    <3>2. ASSUME NEW q \in Jobs(slots2, new, t), q # p
          PROVE  e[q] <= e[p]
      <4>1. q \in Jobs(slots, blocks, v) /\ q \in PIDs /\ e[q] = d[q]
        BY <2>1, <3>2, <1>3, <1>4 DEF Jobs
      <4>2. top # NoPid /\ d[q] <= d[top]
        BY <4>1 DEF Stacked
      <4>3. d[q] \in Nat /\ d[top] \in Nat
        BY <4>1, <4>2, <1>1
      <4> QED BY <4>1, <4>2, <4>3, <1>3
    <3>3. e[p] <= e[p]
      BY <1>2 DEF e
    <3> QED BY <3>1, <3>2, <3>3
  <2>2. CASE t # v
    <3>1. terms2[t] = terms[t] /\ Jobs(slots2, new, t) = Jobs(slots, blocks, t)
      BY <2>2, <1>3, <1>4
    <3>2. \A q \in Jobs(slots, blocks, t) : q \in PIDs /\ q # p
      BY DEF Jobs
    <3> QED BY <3>1, <3>2, <1>3 DEF Stacked
  <2> QED BY <2>1, <2>2
<1>8. Stacked(slots2, new, terms2, e)
  BY <1>5, <1>6, <1>7 DEF Stacked
<1>9. e \in [PIDs -> Nat]
  BY <1>2 DEF e
<1> QED BY <1>8, <1>9 DEF slots2, terms2

(***************************************************************************)
(* system_halt takes the program that its terminal shows off the terminal; *)
(* the one beneath, its parent, is shown next, or nothing is left.         *)
(***************************************************************************)
LEMMA HaltStacks ==
  ASSUME NEW slots \in [PIDs -> {0, 1}], NEW blocks \in [PIDs -> PCB],
         NEW terms \in [TIDs -> PIDs \cup {NoPid}], NEW d \in [PIDs -> Nat],
         NEW c \in PIDs,
         Stacked(slots, blocks, terms, d),
         slots[c] = 1, terms[blocks[c].tid] = c
  PROVE  Stacked([slots EXCEPT ![c] = 0], blocks,
                 [terms EXCEPT ![blocks[c].tid] = blocks[c].parent_pid], d)
<1> DEFINE t0 == blocks[c].tid
           parent == blocks[c].parent_pid
           slots2 == [slots EXCEPT ![c] = 0]
           terms2 == [terms EXCEPT ![t0] = parent]
<1>0. NoPid \notin PIDs
  BY ProcessAssumption DEF NoPid, PIDs
<1>1. /\ t0 \in TIDs /\ parent \in PIDs \cup {NoPid}
      /\ terms2[t0] = parent /\ \A t \in TIDs \ {t0} : terms2[t] = terms[t]
      /\ slots2[c] = 0 /\ \A q \in PIDs \ {c} : slots2[q] = slots[q]
  BY DEF PCB
<1>2. c \in Jobs(slots, blocks, t0)
  BY DEF Jobs
<1>3. \A q \in Jobs(slots, blocks, t0) : d[q] <= d[c]
  BY <1>0, <1>1 DEF Stacked
<1>4. IF parent = NoPid THEN d[c] = 0
      ELSE parent \in Jobs(slots, blocks, t0) /\ d[c] = d[parent] + 1
  BY DEF Stacked
<1> HIDE DEF slots2, terms2
<1>5. \A t \in TIDs : Jobs(slots2, blocks, t) = Jobs(slots, blocks, t) \ {c}
  BY <1>1 DEF Jobs
<1>6. ASSUME NEW q \in Jobs(slots, blocks, t0), q # c
      PROVE  d[q] < d[c]
  <2>1. q \in PIDs /\ slots[q] = 1 /\ blocks[q].tid = t0
    BY DEF Jobs
  <2>2. d[q] # d[c]
    BY <1>6, <2>1 DEF Stacked
  <2>3. d[q] \in Nat /\ d[c] \in Nat
    BY <2>1
  <2> QED BY <1>3, <2>2, <2>3
<1>7. ASSUME NEW q \in PIDs, slots2[q] = 1
      PROVE  IF blocks[q].parent_pid = NoPid
             THEN d[q] = 0
             ELSE /\ blocks[q].parent_pid \in Jobs(slots2, blocks, blocks[q].tid)
                  /\ d[q] = d[blocks[q].parent_pid] + 1
  <2>1. q # c /\ slots[q] = 1
    BY <1>1, <1>7
  <2>2. CASE blocks[q].parent_pid = NoPid
    BY <2>1, <2>2 DEF Stacked
  <2>3. CASE blocks[q].parent_pid # NoPid
    <3>1. /\ blocks[q].parent_pid \in Jobs(slots, blocks, blocks[q].tid)
          /\ d[q] = d[blocks[q].parent_pid] + 1
      BY <2>1, <2>3 DEF Stacked
    <3>2. blocks[q].parent_pid # c
      <4>1. SUFFICES ASSUME blocks[q].parent_pid = c PROVE FALSE
        OBVIOUS
      <4>2. q \in Jobs(slots, blocks, t0) /\ d[q] = d[c] + 1
        BY <2>1, <3>1, <4>1 DEF Jobs
      <4>3. d[q] \in Nat /\ d[c] \in Nat
        OBVIOUS
      <4> QED BY <1>3, <4>2, <4>3
    <3>3. blocks[q].tid \in TIDs
      BY DEF PCB
    <3> QED BY <2>3, <3>1, <3>2, <3>3, <1>5
  <2> QED BY <2>2, <2>3
<1>8. ASSUME NEW q \in PIDs, NEW r \in PIDs, slots2[q] = 1, slots2[r] = 1,
             blocks[q].tid = blocks[r].tid, d[q] = d[r]
      PROVE  q = r
  <2>1. slots[q] = 1 /\ slots[r] = 1
    BY <1>1, <1>8
  <2> QED BY <1>8, <2>1 DEF Stacked
<1>9. ASSUME NEW t \in TIDs
      PROVE  IF terms2[t] = NoPid
             THEN Jobs(slots2, blocks, t) = {}
             ELSE /\ terms2[t] \in Jobs(slots2, blocks, t)
                  /\ \A q \in Jobs(slots2, blocks, t) : d[q] <= d[terms2[t]]
  <2>1. CASE t = t0 /\ parent = NoPid
    <3>1. ASSUME NEW q \in Jobs(slots, blocks, t0), q # c PROVE FALSE
      <4>1. q \in PIDs /\ d[q] \in Nat
        BY DEF Jobs
      <4> QED BY <1>4, <1>6, <2>1, <3>1, <4>1
    <3> QED BY <1>1, <1>5, <2>1, <3>1
  <2>2. CASE t = t0 /\ parent # NoPid
    <3>1. parent # c /\ parent \in PIDs /\ d[c] \in Nat /\ d[parent] \in Nat
      BY <1>1, <1>4, <2>2
    <3>2. ASSUME NEW q \in Jobs(slots, blocks, t0), q # c
          PROVE  d[q] <= d[parent]
      <4>1. q \in PIDs /\ d[q] \in Nat
        BY DEF Jobs
      <4> QED BY <1>4, <1>6, <2>2, <3>1, <3>2, <4>1
    <3> QED BY <1>1, <1>4, <1>5, <2>2, <3>1, <3>2
  <2>3. CASE t # t0
    <3>1. c \notin Jobs(slots, blocks, t) /\ terms2[t] = terms[t]
      BY <1>1, <2>3 DEF Jobs
    <3> QED BY <1>5, <3>1 DEF Stacked
  <2> QED BY <2>1, <2>2, <2>3
<1>10. Stacked(slots2, blocks, terms2, d)
  BY <1>7, <1>8, <1>9 DEF Stacked
<1> QED BY <1>10 DEF slots2, terms2

-----------------------------------------------------------------------------

\* The state from which launch, halt and switch go on: typed and stacked.
LEMMA InitInductive == Init => Inductive
<1> SUFFICES ASSUME Init PROVE Inductive
  OBVIOUS
<1>1. /\ 0 \in PIDs /\ 0 \in TIDs /\ NoPid \notin PIDs
      /\ \A p \in PIDs : Live(p) <=> p = 0
  BY ProcessAssumption DEF PIDs, TIDs, NoPid, Init, Live
<1>2. BootPCB \in PCB
  BY <1>1 DEF BootPCB, PCB, Frame
<1>3. TypeOK
  BY <1>1, <1>2 DEF Init, TypeOK
<1>4. Stacked(process_slots, pcb, terminals, [p \in PIDs |-> 0])
  BY <1>1 DEF Init, Stacked, Jobs, BootPCB, NoPid
<1>5. StackedUp
  BY <1>1, <1>4 DEF StackedUp, RunningIsShown, Init, Live, BootPCB
<1> QED BY <1>3, <1>5 DEF Inductive, InRange, AddressSpaceFollowsPid, Init

(***************************************************************************)
(* What a launch does, whose frame is on the stack the kernel is on.       *)
(***************************************************************************)
NewBlock(terms, v, from) ==
  [parent_pid |-> terms[v], tid |-> v,
   frame |-> [stack |-> StackInUse, caller |-> cpu,
              from |-> from, intact |-> TRUE]]

LaunchedAs(p, slots, terms, v, from) ==
  /\ slots[p] = 0
  /\ process_slots' = [slots EXCEPT ![p] = 1]
  /\ terminals' = [terms EXCEPT ![v] = p]
  /\ view_term' = v
  /\ cur_PID' = p /\ user_page' = p /\ tss_esp0' = p /\ cpu' = p
  /\ resumed' = NoPid /\ orphaned' = orphaned
  /\ NewBlock(terms, v, from) \in PCB
  /\ pcb' = EnterUser(p, [pcb EXCEPT ![p] = NewBlock(terms, v, from)])
  /\ pcb' \in [PIDs -> PCB]
  /\ pcb'[p].parent_pid = terms[v] /\ pcb'[p].tid = v
  /\ \A q \in PIDs \ {p} : /\ pcb'[q].parent_pid = pcb[q].parent_pid
                           /\ pcb'[q].tid = pcb[q].tid

LEMMA LaunchDoes ==
  ASSUME TypeOK, ~Lost,
         NEW slots \in [PIDs -> {0, 1}],
         NEW terms \in [TIDs -> PIDs \cup {NoPid}],
         NEW v \in TIDs, NEW from \in {"execute", "switch", "halt"},
         Launch(slots, terms, v, from)
  PROVE  \E p \in PIDs : LaunchedAs(p, slots, terms, v, from)
<1> DEFINE block == NewBlock(terms, v, from)
<1>1. PICK p \in PIDs :
        /\ FirstFree(slots, p)
        /\ process_slots' = [slots EXCEPT ![p] = 1]
        /\ cur_PID' = p
        /\ user_page' = p
        /\ pcb' = EnterUser(p, [pcb EXCEPT ![p] = block])
        /\ terminals' = [terms EXCEPT ![v] = p]
        /\ view_term' = v
        /\ tss_esp0' = p
        /\ cpu' = p
        /\ resumed' = NoPid
        /\ orphaned' = orphaned
  BY DEF Launch, ParentOf, KernelStack, ShowJob, NewBlock
<1>2. block \in PCB
  <2>1. StackInUse \in PIDs
    BY DEF StackInUse, TypeOK
  <2> QED BY <2>1 DEF NewBlock, TypeOK, PCB, Frame
<1>3. block.parent_pid = terms[v] /\ block.tid = v
  BY DEF NewBlock
<1> HIDE DEF block
<1> DEFINE blocks == [pcb EXCEPT ![p] = block]
<1>4. /\ blocks \in [PIDs -> PCB]
      /\ blocks[p].parent_pid = terms[v] /\ blocks[p].tid = v
      /\ \A q \in PIDs \ {p} : blocks[q] = pcb[q]
  BY <1>2, <1>3 DEF TypeOK
<1>5. pcb' = EnterUser(p, blocks)
  BY <1>1
<1> HIDE DEF blocks
<1>6. /\ pcb' \in [PIDs -> PCB]
      /\ pcb'[p].parent_pid = terms[v] /\ pcb'[p].tid = v
      /\ \A q \in PIDs \ {p} : /\ pcb'[q].parent_pid = pcb[q].parent_pid
                               /\ pcb'[q].tid = pcb[q].tid
  BY <1>4, <1>5, EnterUserKeeps
<1>7. slots[p] = 0
  BY <1>1 DEF FirstFree
<1> QED BY <1>1, <1>2, <1>6, <1>7 DEF block, LaunchedAs

\* A launch keeps the ranges, and the page and the trap stack follow.
LEMMA LaunchInRange ==
  ASSUME TypeOK, ~Lost,
         NEW slots \in [PIDs -> {0, 1}],
         NEW terms \in [TIDs -> PIDs \cup {NoPid}],
         NEW v \in TIDs, NEW from \in {"execute", "switch", "halt"},
         Launch(slots, terms, v, from)
  PROVE  InRange'
<1>1. PICK p \in PIDs : LaunchedAs(p, slots, terms, v, from)
  BY LaunchDoes
<1>2. TypeOK'
  BY <1>1 DEF LaunchedAs, TypeOK
<1> QED BY <1>1, <1>2 DEF LaunchedAs, InRange, AddressSpaceFollowsPid

\* A launch from a stacked state, the PCBs being the current ones.
LEMMA LaunchStackedUp ==
  ASSUME TypeOK, ~Lost,
         NEW slots \in [PIDs -> {0, 1}],
         NEW terms \in [TIDs -> PIDs \cup {NoPid}],
         NEW d \in [PIDs -> Nat], Stacked(slots, pcb, terms, d),
         NEW v \in TIDs, NEW from \in {"execute", "switch", "halt"},
         Launch(slots, terms, v, from)
  PROVE  StackedUp'
<1>0. PICK p \in PIDs : LaunchedAs(p, slots, terms, v, from)
  BY LaunchDoes
<1>1. /\ slots[p] = 0
      /\ process_slots' = [slots EXCEPT ![p] = 1]
      /\ terminals' = [terms EXCEPT ![v] = p]
      /\ cur_PID' = p
      /\ pcb' \in [PIDs -> PCB]
      /\ pcb'[p].parent_pid = terms[v] /\ pcb'[p].tid = v
      /\ \A q \in PIDs \ {p} : /\ pcb'[q].parent_pid = pcb[q].parent_pid
                               /\ pcb'[q].tid = pcb[q].tid
  BY <1>0 DEF LaunchedAs
<1>2. \E e \in [PIDs -> Nat] : Stacked(process_slots', pcb', terminals', e)
  <2>1. \E e \in [PIDs -> Nat] :
          Stacked([slots EXCEPT ![p] = 1], pcb', [terms EXCEPT ![v] = p], e)
    BY <1>1, LaunchStacks DEF TypeOK
  <2> QED BY <1>1, <2>1
<1>3. process_slots'[p] = 1 /\ terminals'[v] = p
  BY <1>1
<1> QED BY <1>1, <1>2, <1>3 DEF StackedUp, RunningIsShown, Live

\* What system_halt leaves of the PCBs when it returns to its parent.
LEMMA HaltKeepsBlocks ==
  ASSUME TypeOK, HaltChild
  PROVE  /\ pcb' \in [PIDs -> PCB]
         /\ \A q \in PIDs : /\ pcb'[q].parent_pid = pcb[q].parent_pid
                            /\ pcb'[q].tid = pcb[q].tid
<1> DEFINE me == pcb[cur_PID]
<1>1. pcb' = IF Returnable(me.frame)
             THEN EnterUser(me.parent_pid, pcb) ELSE pcb
  BY DEF HaltChild, KernelStack
<1>2. me.parent_pid \in PIDs
  <2>1. cur_PID \in PIDs
    BY DEF HaltChild, CanStartOrEnd, Lost, TypeOK
  <2> QED BY <2>1 DEF HaltChild, TypeOK, PCB
<1> HIDE DEF me
<1>3. CASE Returnable(me.frame)
  BY <1>1, <1>2, <1>3, EnterUserKeeps DEF TypeOK
<1>4. CASE ~Returnable(me.frame)
  BY <1>1, <1>4 DEF TypeOK
<1> QED BY <1>3, <1>4

\* The ranges are kept by every step, stacks or not.
LEMMA NextInRange == InRange /\ [Next]_vars => InRange'
<1> SUFFICES ASSUME InRange, [Next]_vars PROVE InRange'
  OBVIOUS
<1>0. TypeOK /\ NoPid \notin PIDs /\ AddressSpaceFollowsPid
  BY ProcessAssumption DEF InRange, NoPid, PIDs
<1> DEFINE me == pcb[cur_PID]
<1>1. ~Lost => /\ cur_PID \in PIDs /\ me.tid \in TIDs
               /\ me.parent_pid \in PIDs \cup {NoPid} /\ me.frame \in Frame
  BY <1>0 DEF TypeOK, PCB
<1>2. CASE SysExecute
  BY <1>0, <1>2, LaunchInRange DEF SysExecute, CanStartOrEnd, TypeOK, Lost
<1>3. CASE ExecuteFails
  <2>1. PICK p \in PIDs : /\ process_slots' = [process_slots EXCEPT ![p] = 1]
                          /\ cur_PID' = p /\ user_page' = p
    BY <1>3 DEF ExecuteFails
  <2>2. /\ cpu' = NoPid
        /\ UNCHANGED <<pcb, terminals, view_term, tss_esp0, resumed, orphaned>>
    BY <1>3 DEF ExecuteFails
  <2>3. cpu # NoPid /\ resumed = NoPid
    BY <1>0, <1>3 DEF ExecuteFails, CanStartOrEnd, TypeOK
  <2>4. Lost'
    BY <2>2, <2>3 DEF Lost
  <2>5. TypeOK'
    BY <1>0, <2>1, <2>2, <2>4 DEF TypeOK
  <2> QED BY <2>4, <2>5 DEF InRange, AddressSpaceFollowsPid
<1>4. CASE HaltBase
  <2> DEFINE slots == [process_slots EXCEPT ![cur_PID] = 0]
             terms == [terminals EXCEPT ![me.tid] = NoPid]
  <2>1. Launch(slots, terms, view_term, "halt") /\ ~Lost
    BY <1>4 DEF HaltBase, FreeSlot, ShowJob, CanStartOrEnd, Lost
  <2>2. /\ slots \in [PIDs -> {0, 1}] /\ terms \in [TIDs -> PIDs \cup {NoPid}]
        /\ view_term \in TIDs
    BY <1>0 DEF TypeOK
  <2> HIDE DEF slots, terms
  <2> QED BY <1>0, <2>1, <2>2, LaunchInRange
<1>5. CASE HaltChild
  <2>1. ~Lost /\ me.parent_pid \in PIDs
    BY <1>1, <1>5 DEF HaltChild, CanStartOrEnd, Lost
  <2>2. /\ terminals' = [terminals EXCEPT ![me.tid] = me.parent_pid]
        /\ process_slots' = [process_slots EXCEPT ![cur_PID] = 0]
        /\ cur_PID' = me.parent_pid /\ tss_esp0' = me.parent_pid
        /\ user_page' = me.parent_pid
        /\ view_term' = view_term /\ orphaned' = orphaned
    BY <1>5 DEF HaltChild, KernelStack, ShowJob, FreeSlot
  <2>3. /\ cpu' \in PIDs \cup {NoPid} /\ resumed' \in PIDs \cup {NoPid}
        /\ cpu' = NoPid \/ resumed' = NoPid
    <3>1. /\ cpu' = IF Returnable(me.frame) THEN me.frame.caller ELSE NoPid
          /\ resumed' = IF Resumable(me.frame) THEN me.frame.stack ELSE NoPid
      BY <1>5 DEF HaltChild
    <3>2. ~(Returnable(me.frame) /\ Resumable(me.frame))
      BY DEF Returnable, Resumable
    <3> QED BY <1>1, <2>1, <3>1, <3>2 DEF Frame
  <2>4. pcb' \in [PIDs -> PCB]
    BY <1>0, <1>5, HaltKeepsBlocks
  <2>5. TypeOK'
    BY <1>0, <1>1, <2>1, <2>2, <2>3, <2>4 DEF TypeOK
  <2> QED BY <2>2, <2>5 DEF InRange, AddressSpaceFollowsPid
<1>6. CASE ResumedShows
  <2>1. /\ resumed \in PIDs
        /\ terminals' = [terminals EXCEPT ![pcb[resumed].tid]
                                            = pcb[resumed].parent_pid]
        /\ orphaned' \in BOOLEAN
        /\ UNCHANGED <<process_slots, cur_PID, pcb, view_term, tss_esp0,
                       user_page, cpu, resumed>>
    BY <1>0, <1>6 DEF ResumedShows, ShowParent, ShowJob, TypeOK
  <2>2. pcb[resumed].parent_pid \in PIDs \cup {NoPid}
    BY <1>0, <2>1 DEF TypeOK, PCB
  <2>3. TypeOK'
    BY <1>0, <2>1, <2>2 DEF TypeOK, Lost
  <2> QED BY <1>0, <2>1, <2>3 DEF InRange, AddressSpaceFollowsPid, Lost
<1>7. CASE ResumedFaults
  <2>1. /\ resumed \in PIDs /\ cpu = NoPid
        /\ terminals' = [terminals EXCEPT ![pcb[resumed].tid]
                                            = pcb[resumed].parent_pid]
        /\ orphaned' \in BOOLEAN
        /\ cur_PID' = pcb[resumed].parent_pid
        /\ tss_esp0' = pcb[resumed].parent_pid
        /\ user_page' = pcb[resumed].parent_pid
        /\ process_slots' = [process_slots EXCEPT ![resumed] = 0]
        /\ resumed' = NoPid
        /\ UNCHANGED <<pcb, view_term, cpu>>
    BY <1>0, <1>7 DEF ResumedFaults, ShowParent, ShowJob, FreeSlot, KernelStack,
                      TypeOK
  <2>2. pcb[resumed].parent_pid \in PIDs \cup {NoPid}
    BY <1>0, <2>1 DEF TypeOK, PCB
  <2>3. Lost'
    BY <2>1 DEF Lost
  <2>4. TypeOK'
    BY <1>0, <2>1, <2>2, <2>3 DEF TypeOK
  <2> QED BY <2>3, <2>4 DEF InRange, AddressSpaceFollowsPid
<1>8. ASSUME NEW t \in TIDs, SwitchLaunch(t) PROVE InRange'
  BY <1>0, <1>8, LaunchInRange DEF SwitchLaunch, TypeOK
<1>9. ASSUME NEW t \in TIDs, SwitchView(t) PROVE InRange'
  BY <1>0, <1>9 DEF SwitchView, InRange, TypeOK, Lost, AddressSpaceFollowsPid
<1>10. CASE FaultForEver
  BY <1>0, <1>10 DEF FaultForEver, InRange, TypeOK, Lost, AddressSpaceFollowsPid
<1>11. CASE UNCHANGED vars
  BY <1>0, <1>11 DEF vars, InRange, TypeOK, Lost, AddressSpaceFollowsPid
<1> QED BY <1>2, <1>3, <1>4, <1>5, <1>6, <1>7, <1>8, <1>9, <1>10, <1>11
        DEF Next, SysHalt, TerminalSwitch

(***************************************************************************)
(* A step from a stacked state leaves stacks, or nothing to follow, or a   *)
(* terminal that a halt returned into has taken the program from.          *)
(***************************************************************************)
LEMMA NextStackedUp ==
  ASSUME InRange, ~Lost, StackedUp, Next
  PROVE  Lost' \/ orphaned' \/ StackedUp'
<1>0. TypeOK /\ NoPid \notin PIDs /\ cur_PID \in PIDs
  BY ProcessAssumption DEF InRange, TypeOK, NoPid, PIDs
<1>1. PICK d \in [PIDs -> Nat] : Stacked(process_slots, pcb, terminals, d)
  BY DEF StackedUp
<1>2. Live(cur_PID) /\ terminals[pcb[cur_PID].tid] = cur_PID
  BY DEF StackedUp, RunningIsShown
<1> DEFINE me == pcb[cur_PID]
           slots2 == [process_slots EXCEPT ![cur_PID] = 0]
           terms2 == [terminals EXCEPT ![me.tid] = me.parent_pid]
<1>3. /\ Stacked(slots2, pcb, terms2, d)
      /\ slots2 \in [PIDs -> {0, 1}]
      /\ terms2 \in [TIDs -> PIDs \cup {NoPid}]
      /\ me.tid \in TIDs /\ me.parent_pid \in PIDs \cup {NoPid}
  <2>1. me \in PCB
    BY <1>0 DEF TypeOK
  <2>2. me.tid \in TIDs /\ me.parent_pid \in PIDs \cup {NoPid}
    BY <2>1 DEF PCB
  <2> QED BY <1>0, <1>1, <1>2, <2>2, HaltStacks DEF TypeOK, Live
<1>4. CASE SysExecute
  BY <1>0, <1>1, <1>4, LaunchStackedUp DEF SysExecute, TypeOK
<1>5. CASE ExecuteFails
  BY <1>0, <1>5 DEF ExecuteFails, CanStartOrEnd, TypeOK, Lost
<1>6. CASE HaltBase
  <2>1. FreeSlot(process_slots, cur_PID) = slots2
    BY DEF FreeSlot
  <2>2. ShowJob(terminals, me.tid, NoPid) = terms2
    BY <1>6 DEF HaltBase, ShowJob
  <2>3. Launch(slots2, terms2, view_term, "halt") /\ view_term \in TIDs
    BY <1>0, <1>6, <2>1, <2>2 DEF HaltBase, TypeOK
  <2> HIDE DEF slots2, terms2
  <2> QED BY <1>0, <1>3, <2>3, LaunchStackedUp
<1>7. CASE HaltChild
  <2> DEFINE parent == me.parent_pid
  <2>1. /\ parent # NoPid /\ terminals' = terms2 /\ process_slots' = slots2
        /\ cur_PID' = parent
    BY <1>7 DEF HaltChild, ShowJob, FreeSlot
  <2>2. parent \in PIDs /\ parent \in Jobs(process_slots, pcb, me.tid)
          /\ d[cur_PID] = d[parent] + 1
    BY <1>0, <1>1, <1>2, <1>3, <2>1 DEF Stacked, Live
  <2>3. \A q \in PIDs : /\ pcb'[q].parent_pid = pcb[q].parent_pid
                        /\ pcb'[q].tid = pcb[q].tid
    BY <1>0, <1>7, HaltKeepsBlocks
  <2>4. Stacked(process_slots', pcb', terminals', d)
    <3>1. \A t \in TIDs : Jobs(slots2, pcb', t) = Jobs(slots2, pcb, t)
      BY <2>3 DEF Jobs
    <3>2. \A q \in PIDs : pcb[q].tid \in TIDs
      BY <1>0 DEF TypeOK, PCB
    <3> HIDE DEF slots2, terms2
    <3> QED BY <1>3, <2>1, <2>3, <3>1, <3>2 DEF Stacked
  <2>5. RunningIsShown'
    <3>1. parent # cur_PID
      BY <1>0, <2>2
    <3>2. process_slots'[parent] = 1 /\ pcb[parent].tid = me.tid
      BY <1>0, <2>1, <2>2, <3>1 DEF Jobs, TypeOK
    <3>3. terminals'[me.tid] = parent
      BY <1>0, <1>3, <2>1 DEF TypeOK
    <3> QED BY <2>1, <2>2, <2>3, <3>2, <3>3 DEF RunningIsShown, Live
  <2> QED BY <2>4, <2>5 DEF StackedUp
<1>8. CASE ResumedShows
  BY <1>8 DEF ResumedShows, ShowParent, StackedUp, RunningIsShown, Live
<1>9. CASE ResumedFaults
  BY <1>0, <1>9 DEF ResumedFaults, ShowParent, TypeOK, Lost
<1>10. ASSUME NEW t \in TIDs, SwitchLaunch(t) PROVE StackedUp'
  BY <1>0, <1>1, <1>10, LaunchStackedUp DEF SwitchLaunch, TypeOK
<1>11. ASSUME NEW t \in TIDs, SwitchView(t) PROVE StackedUp'
  BY <1>11 DEF SwitchView, StackedUp, RunningIsShown, Live
<1>12. CASE FaultForEver
  BY <1>12 DEF FaultForEver, Lost
<1> QED BY <1>4, <1>5, <1>6, <1>7, <1>8, <1>9, <1>10, <1>11, <1>12
        DEF Next, SysHalt, TerminalSwitch

\* A lost kernel takes no step, and what a halt took is not given back.
LEMMA LostOrOrphanedStays ==
  ASSUME TypeOK, Next
  PROVE  ~Lost /\ (orphaned => orphaned')
<1>1. CanStartOrEnd => ~Lost
  BY DEF CanStartOrEnd, Lost
<1>2. CASE SysExecute \/ SysHalt
  <2>1. CanStartOrEnd
    BY <1>2 DEF SysExecute, SysHalt, HaltBase, HaltChild
  <2>2. orphaned' = orphaned
    BY <1>2 DEF SysExecute, SysHalt, HaltBase, HaltChild, Launch
  <2> QED BY <1>1, <2>1, <2>2
<1>3. CASE ExecuteFails
  BY <1>1, <1>3 DEF ExecuteFails
<1>4. CASE ResumedShows \/ ResumedFaults
  BY <1>4 DEF ResumedShows, ResumedFaults, ShowParent, Lost
<1>5. ASSUME NEW t \in TIDs, TerminalSwitch(t)
      PROVE  ~Lost /\ (orphaned => orphaned')
  <2>1. CASE SwitchLaunch(t)
    <3>1. ~Lost /\ Launch(process_slots, terminals, t, "switch")
      BY <2>1 DEF SwitchLaunch
    <3>2. orphaned' = orphaned
      BY <3>1 DEF Launch
    <3> QED BY <3>1, <3>2
  <2>2. CASE SwitchView(t)
    BY <2>2 DEF SwitchView
  <2> QED BY <1>5, <2>1, <2>2 DEF TerminalSwitch
<1>6. CASE FaultForEver
  BY <1>6 DEF FaultForEver
<1> QED BY <1>2, <1>3, <1>4, <1>5, <1>6 DEF Next

\* Every action of the kernel keeps the inductive invariant.
LEMMA NextInductive == Inductive /\ [Next]_vars => Inductive'
<1>1. ASSUME Inductive, Next PROVE Inductive'
  <2>1. InRange' /\ ~Lost /\ (orphaned => orphaned')
    BY <1>1, NextInRange, LostOrOrphanedStays DEF Inductive, InRange
  <2>2. CASE orphaned
    BY <2>1, <2>2 DEF Inductive
  <2>3. CASE ~orphaned
    BY <1>1, <2>1, <2>3, NextStackedUp DEF Inductive
  <2> QED BY <2>2, <2>3
<1>2. ASSUME Inductive, UNCHANGED vars PROVE Inductive'
  <2>1. InRange'
    BY <1>2, NextInRange DEF Inductive
  <2> QED BY <1>2, <2>1 DEF Inductive, vars, Lost, StackedUp, RunningIsShown, Live
<1> QED BY <1>1, <1>2

\* The inductive invariant holds throughout.
THEOREM InductiveHolds == Spec => []Inductive
<1> QED BY InitInductive, NextInductive, PTL DEF Spec

-----------------------------------------------------------------------------

\* A numbering of the programs from their shell up makes them stacks.
LEMMA NumberedIsStacked == TypeOK /\ StackedUp => JobStacks
<1> SUFFICES ASSUME TypeOK, StackedUp PROVE JobStacks
  OBVIOUS
<1>0. TypeOK /\ NoPid \notin PIDs
  BY ProcessAssumption DEF NoPid, PIDs
<1>1. PICK d \in [PIDs -> Nat] : Stacked(process_slots, pcb, terminals, d)
  BY DEF StackedUp
<1>2. \A p \in PIDs : pcb[p].tid \in TIDs /\ d[p] \in Nat
  BY <1>0 DEF TypeOK, PCB
<1>3. TerminalShowsItsJob
  BY <1>1 DEF Stacked, TerminalShowsItsJob, JobsOn
<1>4. \A p \in PIDs : (Live(p) /\ pcb[p].parent_pid # NoPid) =>
        /\ pcb[p].parent_pid \in JobsOn(pcb[p].tid)
        /\ d[p] = d[pcb[p].parent_pid] + 1
  BY <1>1 DEF Stacked, JobsOn, Live
<1>5. ParentsWait
  <2> SUFFICES ASSUME NEW p \in PIDs, Live(p), pcb[p].parent_pid # NoPid,
                      NEW q \in PIDs, Live(q),
                      pcb[q].parent_pid = pcb[p].parent_pid
               PROVE  q = p
    BY <1>4 DEF ParentsWait
  <2>1. pcb[q].tid = pcb[p].tid /\ d[q] = d[p]
    BY <1>4 DEF JobsOn, Jobs
  <2> QED BY <1>1, <2>1 DEF Stacked, Live
<1>6. TopHasNoChild
  <2> SUFFICES ASSUME NEW p \in PIDs, Live(p), NEW t \in TIDs,
                      terminals[t] # NoPid,
                      pcb[p].parent_pid = terminals[t]
               PROVE  FALSE
    BY DEF TopHasNoChild
  <2>1. /\ terminals[t] \in Jobs(process_slots, pcb, t)
        /\ \A q \in Jobs(process_slots, pcb, t) : d[q] <= d[terminals[t]]
    BY <1>1 DEF Stacked
  <2>2. d[p] = d[terminals[t]] + 1 /\ p \in Jobs(process_slots, pcb, t)
    BY <1>4, <2>1 DEF JobsOn, Jobs, Live
  <2>3. terminals[t] \in PIDs
    BY <2>1 DEF Jobs
  <2> QED BY <1>2, <2>1, <2>2, <2>3
<1>7. OneShell
  BY <1>1 DEF Stacked, OneShell, Live
<1>8. RunningIsShown
  BY DEF StackedUp
<1> QED BY <1>3, <1>5, <1>6, <1>7, <1>8 DEF JobStacks

\* No field leaves its range, whatever is started, ended and looked at.
THEOREM TypeCorrect == Spec => []TypeOK
<1>1. Inductive => TypeOK
  BY DEF Inductive, InRange
<1> QED BY InductiveHolds, <1>1, PTL

(***************************************************************************)
(* The slot table, the parent links and the terminals' pids are one stack  *)
(* of programs per terminal in every reachable state up to the return into *)
(* a halt that takes a terminal's program from it.                         *)
(***************************************************************************)
THEOREM StacksCorrect == Spec => []StacksUnlessOrphaned
<1>1. Inductive => StacksUnlessOrphaned
  BY NumberedIsStacked DEF Inductive, InRange, StacksUnlessOrphaned
<1> QED BY InductiveHolds, <1>1, PTL

\* The mapped user page and the trap stack are those of cur_PID, always.
THEOREM AddressSpaceCorrect == Spec => []AddressSpaceFollowsPid
<1>1. Inductive => AddressSpaceFollowsPid
  BY DEF Inductive, InRange
<1> QED BY InductiveHolds, <1>1, PTL


-----------------------------------------------------------------------------

\* The frame that CallersWait wants of a program with the given parent.
CallerFrame(parent) == [stack |-> parent, caller |-> parent,
                        from |-> "execute", intact |-> TRUE]

(***************************************************************************)
(* A launch keeps the frames of the programs that wait, and gives the new  *)
(* one the frame of its parent or no parent at all.                        *)
(***************************************************************************)
LEMMA LaunchKeepsCallers ==
  ASSUME TypeOK, ~Lost, resumed = NoPid, ~orphaned,
         NEW slots \in [PIDs -> {0, 1}],
         NEW terms \in [TIDs -> PIDs \cup {NoPid}],
         NEW v \in TIDs, NEW from \in {"execute", "switch", "halt"},
         Launch(slots, terms, v, from),
         \A q \in PIDs : (slots[q] = 1 /\ pcb[q].parent_pid # NoPid) =>
           /\ slots[pcb[q].parent_pid] = 1
           /\ pcb[q].parent_pid \in PIDs
           /\ pcb[q].frame = CallerFrame(pcb[q].parent_pid),
         \/ terms[v] = NoPid
         \/ /\ terms[v] = cpu /\ tss_esp0 = cpu /\ slots[cpu] = 1
            /\ from = "execute"
  PROVE  CallersWait'
<1> DEFINE block == NewBlock(terms, v, from)
<1>0. PICK p \in PIDs : LaunchedAs(p, slots, terms, v, from)
  BY LaunchDoes
<1>1. /\ slots[p] = 0
      /\ process_slots' = [slots EXCEPT ![p] = 1]
      /\ cur_PID' = p /\ cpu' = p
      /\ resumed' = NoPid /\ orphaned' = orphaned
      /\ block \in PCB
      /\ pcb' = EnterUser(p, [pcb EXCEPT ![p] = block])
  BY <1>0 DEF LaunchedAs
<1>2. /\ block.parent_pid = terms[v]
      /\ block.frame = [stack |-> tss_esp0, caller |-> cpu,
                        from |-> from, intact |-> TRUE]
  BY DEF NewBlock, StackInUse
<1> DEFINE blocks == [pcb EXCEPT ![p] = block]
<1>3. /\ blocks \in [PIDs -> PCB]
      /\ blocks[p] = block
      /\ \A q \in PIDs \ {p} : blocks[q] = pcb[q]
  BY <1>1 DEF TypeOK
<1>4. pcb' = EnterUser(p, blocks) /\ slots[p] = 0
  BY <1>1
<1> HIDE DEF block, blocks
<1>5. block.parent_pid # NoPid =>
        block.frame = CallerFrame(block.parent_pid) /\ block.frame.stack # p
  <2> SUFFICES ASSUME terms[v] # NoPid
               PROVE  /\ block.frame = CallerFrame(terms[v])
                      /\ block.frame.stack # p
    BY <1>2
  <2>1. terms[v] = cpu /\ tss_esp0 = cpu /\ slots[cpu] = 1 /\ from = "execute"
    OBVIOUS
  <2>2. block.frame = CallerFrame(cpu)
    BY <1>2, <2>1 DEF CallerFrame
  <2>3. block.frame.stack = cpu
    BY <1>2, <2>1
  <2>4. cpu # p
    BY <2>1, <1>4
  <2> QED BY <2>1, <2>2, <2>3, <2>4
<1>7. ASSUME NEW q \in PIDs, process_slots'[q] = 1, pcb'[q].parent_pid # NoPid
      PROVE  pcb'[q].frame = CallerFrame(pcb'[q].parent_pid)
  <2>1. /\ pcb'[q].parent_pid = blocks[q].parent_pid
        /\ blocks[q].frame.stack # p => pcb'[q].frame = blocks[q].frame
    BY <1>3, <1>4, EnterUserMarks
  <2>2. CASE q = p
    BY <2>1, <2>2, <1>3, <1>5, <1>7
  <2>3. CASE q # p
    <3>1. slots[q] = 1 /\ blocks[q] = pcb[q]
      BY <2>3, <1>1, <1>3, <1>7
    <3>2. /\ slots[pcb[q].parent_pid] = 1
          /\ pcb[q].frame = CallerFrame(pcb[q].parent_pid)
      BY <2>1, <3>1, <1>7
    <3>3. pcb[q].frame.stack # p
      BY <3>2, <1>4 DEF CallerFrame
    <3> QED BY <2>1, <3>1, <3>2, <3>3
  <2> QED BY <2>2, <2>3
<1> QED BY <1>1, <1>7 DEF CallersWait, CallerFrame, Live

\* Every action keeps CallersWait when programs start and end in view.
LEMMA NextKeepsCallers ==
  ASSUME Focused
  PROVE  Inductive /\ CallersWait /\ [Next]_vars => CallersWait'
<1>12. ASSUME CallersWait, UNCHANGED vars PROVE CallersWait'
  BY <1>12 DEF vars, CallersWait, Live, Lost
<1> SUFFICES ASSUME Inductive, CallersWait, Next PROVE CallersWait'
  BY <1>12
<1>0. TypeOK /\ NoPid \notin PIDs /\ AddressSpaceFollowsPid /\ ~Lost
  BY ProcessAssumption, LostOrOrphanedStays DEF Inductive, InRange, NoPid, PIDs
<1>1. JobStacks /\ resumed = NoPid /\ ~orphaned
  BY <1>0, NumberedIsStacked DEF Inductive, CallersWait
<1>2. \A q \in PIDs : (Live(q) /\ pcb[q].parent_pid # NoPid) =>
        /\ Live(pcb[q].parent_pid) /\ pcb[q].parent_pid \in PIDs
        /\ pcb[q].frame = CallerFrame(pcb[q].parent_pid)
  BY <1>0, <1>1 DEF JobStacks, ParentsWait, CallersWait, CallerFrame, JobsOn,
                    Jobs, Live
<1>3. Live(cur_PID) /\ terminals[pcb[cur_PID].tid] = cur_PID /\ cur_PID \in PIDs
        /\ pcb[cur_PID].tid \in TIDs
  BY <1>0, <1>1 DEF JobStacks, RunningIsShown, TypeOK, PCB
<1>4. \A q \in PIDs : Live(q) => pcb[q].parent_pid # cur_PID
  BY <1>0, <1>1, <1>3 DEF JobStacks, TopHasNoChild
<1>5. CanStartOrEnd => cpu = cur_PID /\ view_term = pcb[cur_PID].tid
  BY <1>0 DEF CanStartOrEnd, CallersWait
<1>6. CASE SysExecute
  <2>1. terminals[view_term] = cpu /\ tss_esp0 = cpu /\ process_slots[cpu] = 1
    BY <1>0, <1>3, <1>5, <1>6 DEF SysExecute, AddressSpaceFollowsPid, Live
  <2>2. Launch(process_slots, terminals, view_term, "execute") /\ cpu \in PIDs
    BY <1>3, <1>5, <1>6 DEF SysExecute
  <2> QED BY <1>0, <1>1, <1>2, <2>1, <2>2, LaunchKeepsCallers DEF TypeOK, Live
<1>13. CASE ExecuteFails
  <2>1. Lost' /\ resumed' = NoPid /\ ~orphaned'
    BY <1>1, <1>13 DEF ExecuteFails, Lost
  <2> QED BY <2>1 DEF CallersWait
<1>14. CASE ResumedShows \/ ResumedFaults
  BY <1>1, <1>14 DEF ResumedShows, ResumedFaults, ShowParent
<1>7. CASE HaltBase
  <2> DEFINE slots2 == [process_slots EXCEPT ![cur_PID] = 0]
             terms2 == [terminals EXCEPT ![pcb[cur_PID].tid] = NoPid]
  <2>1. Launch(slots2, terms2, view_term, "halt") /\ cpu \in PIDs
    BY <1>3, <1>5, <1>7 DEF HaltBase, FreeSlot, ShowJob
  <2>2. /\ slots2 \in [PIDs -> {0, 1}]
        /\ terms2 \in [TIDs -> PIDs \cup {NoPid}]
        /\ terms2[view_term] = NoPid
    BY <1>0, <1>5, <1>7 DEF HaltBase, TypeOK
  <2>3. \A q \in PIDs : (slots2[q] = 1 /\ pcb[q].parent_pid # NoPid) =>
          /\ slots2[pcb[q].parent_pid] = 1
          /\ pcb[q].parent_pid \in PIDs
          /\ pcb[q].frame = CallerFrame(pcb[q].parent_pid)
    <3>1. \A q \in PIDs : slots2[q] = IF q = cur_PID THEN 0 ELSE process_slots[q]
      BY <1>0, <1>3 DEF TypeOK
    <3> HIDE DEF slots2
    <3> QED BY <1>2, <1>4, <3>1 DEF Live
  <2> HIDE DEF slots2, terms2
  <2> QED BY <1>0, <1>1, <2>1, <2>2, <2>3, LaunchKeepsCallers DEF TypeOK
<1>8. CASE HaltChild
  <2> DEFINE me == pcb[cur_PID]
             parent == me.parent_pid
  <2>1. /\ parent # NoPid
        /\ cur_PID' = parent
        /\ process_slots' = [process_slots EXCEPT ![cur_PID] = 0]
        /\ pcb' = IF Returnable(me.frame) THEN EnterUser(parent, pcb) ELSE pcb
        /\ cpu' = IF Returnable(me.frame) THEN me.frame.caller ELSE NoPid
        /\ resumed' = IF Resumable(me.frame) THEN me.frame.stack ELSE NoPid
        /\ orphaned' = orphaned
    BY <1>8 DEF HaltChild, FreeSlot, KernelStack
  <2>2. me.frame = CallerFrame(parent) /\ parent \in PIDs
    BY <1>2, <1>3, <2>1
  <2>3. /\ cpu' = cur_PID' /\ pcb' = EnterUser(parent, pcb)
        /\ resumed' = NoPid /\ ~orphaned'
    BY <1>1, <2>1, <2>2 DEF Returnable, Resumable, CallerFrame
  <2>4. ASSUME NEW q \in PIDs, process_slots'[q] = 1, pcb'[q].parent_pid # NoPid
        PROVE  pcb'[q].frame = CallerFrame(pcb'[q].parent_pid)
    <3>1. Live(q) /\ q # cur_PID
      BY <1>0, <1>3, <2>1, <2>4 DEF Live, TypeOK
    <3>2. /\ pcb'[q].parent_pid = pcb[q].parent_pid
          /\ pcb[q].frame.stack # parent => pcb'[q].frame = pcb[q].frame
      BY <1>0, <2>2, <2>3, EnterUserMarks DEF TypeOK
    <3>3. pcb[q].parent_pid # parent
      BY <1>1, <1>3, <2>1, <3>1 DEF JobStacks, ParentsWait
    <3>4. pcb[q].frame = CallerFrame(pcb[q].parent_pid)
      BY <1>2, <2>4, <3>1, <3>2
    <3>5. pcb[q].frame.stack # parent
      BY <3>3, <3>4 DEF CallerFrame
    <3> QED BY <3>2, <3>4, <3>5
  <2> QED BY <2>3, <2>4 DEF CallersWait, CallerFrame, Live
<1>9. ASSUME NEW t \in TIDs, SwitchLaunch(t) PROVE CallersWait'
  <2>1. Launch(process_slots, terminals, t, "switch") /\ terminals[t] = NoPid
    BY <1>9 DEF SwitchLaunch
  <2> QED BY <1>0, <1>1, <1>2, <2>1, LaunchKeepsCallers DEF TypeOK, Live
<1>10. ASSUME NEW t \in TIDs, SwitchView(t) PROVE CallersWait'
  BY <1>10 DEF SwitchView, CallersWait, Live, Lost
<1>11. CASE FaultForEver
  <2>1. Lost' /\ resumed' = NoPid /\ ~orphaned'
    BY <1>1, <1>11 DEF FaultForEver, Lost
  <2> QED BY <2>1 DEF CallersWait
<1> QED BY <1>6, <1>7, <1>8, <1>9, <1>10, <1>11, <1>13, <1>14
        DEF Next, SysHalt, TerminalSwitch

(***************************************************************************)
(* While programs start and end in view, every child has the intact frame  *)
(* of its parent's system_execute to return through.                       *)
(***************************************************************************)
THEOREM CallersWaitCorrect == ASSUME Focused PROVE Spec => []CallersWait
<1>1. Init => CallersWait
  BY DEF Init, CallersWait, BootPCB, NoPid
<1>2. Inductive /\ CallersWait /\ [Next]_vars => CallersWait'
  BY NextKeepsCallers
<1> QED BY <1>1, <1>2, InductiveHolds, PTL DEF Spec

\* Then no halt is returned into and the terminals are stacks to the end.
THEOREM FocusedStacksCorrect ==
  ASSUME Focused PROVE Spec => [](Lost \/ JobStacks)
<1>1. Inductive /\ CallersWait => Lost \/ JobStacks
  BY NumberedIsStacked DEF Inductive, InRange, CallersWait
<1> QED BY <1>1, InductiveHolds, CallersWaitCorrect, PTL

(***************************************************************************)
(* Then a halt leaves the CPU with the parent's registers, which is what   *)
(* the comment on system_halt says of it.                                  *)
(***************************************************************************)
THEOREM HaltReturnsCorrect == ASSUME Focused PROVE Spec => HaltReturnsToParent
<1>1. Inductive /\ CallersWait /\ [Next]_vars =>
        [HaltChild => cpu' = pcb[cur_PID].parent_pid]_vars
  <2> SUFFICES ASSUME Inductive, CallersWait, HaltChild
               PROVE  cpu' = pcb[cur_PID].parent_pid
    OBVIOUS
  <2>1. ~Lost
    BY DEF HaltChild, CanStartOrEnd, Lost
  <2>2. Live(cur_PID) /\ cur_PID \in PIDs
    BY <2>1 DEF Inductive, InRange, CallersWait, StackedUp, RunningIsShown, TypeOK
  <2>3. pcb[cur_PID].frame = CallerFrame(pcb[cur_PID].parent_pid)
    BY <2>1, <2>2 DEF HaltChild, CallersWait, CallerFrame
  <2> QED BY <2>3 DEF HaltChild, Returnable, CallerFrame
<1> QED BY <1>1, CallersWaitCorrect, InductiveHolds, PTL
        DEF Spec, HaltReturnsToParent

=============================================================================
