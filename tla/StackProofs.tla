----------------------------- MODULE StackProofs -----------------------------
(***************************************************************************)
(* Proofs that process control keeps one stack of programs per terminal,   *)
(* as TerminalStacks describes them.                                       *)
(***************************************************************************)
EXTENDS MCProcess, ProcessProofs, FiniteSetTheorems, NaturalsInduction

\* A set of numbers has a least one.
LEMMA LeastNumber ==
  ASSUME NEW S \in SUBSET Nat, S # {}
  PROVE  \E n \in S : \A m \in S : n <= m
<1> DEFINE Less == OpToRel(<, Nat)
<1>1. IsWellFoundedOn(Less, Nat)
  BY NatLessThanWellFounded
<1>2. \A m, n \in Nat : m < n => <<m, n>> \in Less
  BY DEF OpToRel
<1> HIDE DEF Less
<1>3. PICK n \in S : \A m \in S : <<m, n>> \notin Less
  BY <1>1, WFMin
<1>4. \A m \in S : ~(m < n)
  BY <1>2, <1>3
<1> QED BY <1>3, <1>4

(***************************************************************************)
(* A job of a terminal has jobs of the same terminal with every number     *)
(* below its own: the parent links lead down to the shell in steps of one. *)
(***************************************************************************)
LEMMA EveryDepthTaken ==
  ASSUME NEW slots \in [PIDs -> {0, 1}], NEW blocks \in [PIDs -> PCB],
         NEW terms \in [TIDs -> PIDs \cup {NoPid}], NEW d \in [PIDs -> Nat],
         Stacked(slots, blocks, terms, d),
         NEW t \in TIDs, NEW p \in Jobs(slots, blocks, t), NEW k \in 0 .. d[p]
  PROVE  \E q \in Jobs(slots, blocks, t) : d[q] = k
<1> DEFINE J == Jobs(slots, blocks, t)
           Above == {d[q] : q \in {x \in J : k <= d[x]}}
<1>1. \A q \in J : q \in PIDs /\ d[q] \in Nat /\ slots[q] = 1 /\ blocks[q].tid = t
  BY DEF Jobs
<1>2. \A q \in J : d[q] # 0 =>
        blocks[q].parent_pid \in J /\ d[q] = d[blocks[q].parent_pid] + 1
  BY <1>1 DEF Stacked
<1>3. k \in Nat /\ p \in J /\ k <= d[p]
  BY <1>1
<1> HIDE DEF J
<1>4. Above \in SUBSET Nat /\ Above # {}
  BY <1>1, <1>3
<1>5. PICK n \in Above : \A m \in Above : n <= m
  BY <1>4, LeastNumber
<1>6. PICK q \in J : k <= d[q] /\ d[q] = n
  BY <1>5
<1>7. CASE d[q] = k
  BY <1>6, <1>7 DEF J
<1>8. CASE d[q] # k
  <2>1. d[q] # 0 /\ d[q] > k
    BY <1>1, <1>3, <1>6, <1>8
  <2> DEFINE r == blocks[q].parent_pid
  <2>2. r \in J /\ d[q] = d[r] + 1
    BY <1>2, <1>6, <2>1
  <2> HIDE DEF r
  <2>3. d[r] \in Nat /\ d[q] \in Nat
    BY <1>1, <1>6, <2>2
  <2>4. k <= d[r] /\ d[r] < d[q]
    BY <1>3, <2>1, <2>2, <2>3
  <2>5. d[r] \in Above
    BY <2>2, <2>4
  <2> QED BY <1>5, <1>6, <2>3, <2>4, <2>5
<1> QED BY <1>7, <1>8

\* There are finitely many pids, NumSlots of them.
LEMMA PidsAreFinite == IsFiniteSet(PIDs) /\ Cardinality(PIDs) = NumSlots
<1>1. 0 \in Int /\ NumSlots - 1 \in Int /\ ~(0 > NumSlots - 1)
  BY ProcessAssumption
<1>2. /\ IsFiniteSet(PIDs)
      /\ Cardinality(PIDs) =
           IF 0 > NumSlots - 1 THEN 0 ELSE NumSlots - 1 - 0 + 1
  BY <1>1, FS_Interval DEF PIDs
<1> QED BY <1>1, <1>2, ProcessAssumption

\* The jobs of a terminal are some of the pids.
LEMMA JobsAreFinite ==
  ASSUME NEW slots, NEW blocks, NEW t
  PROVE  /\ IsFiniteSet(Jobs(slots, blocks, t))
         /\ Cardinality(Jobs(slots, blocks, t)) \in Nat
         /\ Cardinality(Jobs(slots, blocks, t)) <= NumSlots
<1>1. Jobs(slots, blocks, t) \in SUBSET PIDs
  BY DEF Jobs
<1> QED BY <1>1, PidsAreFinite, FS_Subset, FS_CardinalityType

\* A terminal has more jobs than the number of any of them.
LEMMA DepthIsBounded ==
  ASSUME NEW slots \in [PIDs -> {0, 1}], NEW blocks \in [PIDs -> PCB],
         NEW terms \in [TIDs -> PIDs \cup {NoPid}], NEW d \in [PIDs -> Nat],
         Stacked(slots, blocks, terms, d),
         NEW t \in TIDs, NEW p \in Jobs(slots, blocks, t)
  PROVE  d[p] + 1 <= Cardinality(Jobs(slots, blocks, t))
<1> DEFINE J == Jobs(slots, blocks, t)
           f == [k \in 0 .. d[p] |-> CHOOSE q \in J : d[q] = k]
<1>0. \A k \in 0 .. d[p] : \E q \in J : d[q] = k
  BY EveryDepthTaken
<1>1. \A k \in 0 .. d[p] : f[k] \in J /\ d[f[k]] = k
  <2> HIDE DEF J
  <2> QED BY <1>0
<1>2. f \in [0 .. d[p] -> J]
  BY <1>1
<1> HIDE DEF f
<1>3. f \in Injection(0 .. d[p], J)
  BY <1>1, <1>2 DEF Injection, IsInjective
<1>4. d[p] \in Nat
  BY DEF Jobs
<1>5. IsFiniteSet(J) /\ Cardinality(J) \in Nat
  BY JobsAreFinite
<1> HIDE DEF J
<1>6. Cardinality(0 .. d[p]) <= Cardinality(J)
  BY <1>3, <1>5, FS_Injection
<1>7. Cardinality(0 .. d[p]) = IF 0 > d[p] THEN 0 ELSE d[p] - 0 + 1
  BY <1>4, FS_Interval
<1>8. d[p] + 1 <= Cardinality(J)
  BY <1>4, <1>5, <1>6, <1>7
<1> QED BY <1>8 DEF J

-----------------------------------------------------------------------------

\* The kernel is not lost and every terminal has a stack.
OnStacks == TypeOK /\ ~Lost /\ StackedUp

(***************************************************************************)
(* What a launch makes of the slots, the parents and the terminals.        *)
(***************************************************************************)
LEMMA LaunchEffect ==
  ASSUME TypeOK, ~Lost,
         NEW slots \in [PIDs -> {0, 1}],
         NEW terms \in [TIDs -> PIDs \cup {NoPid}],
         NEW v \in TIDs, NEW from \in {"execute", "switch", "halt"},
         Launch(slots, terms, v, from)
  PROVE  \E p \in PIDs :
           /\ slots[p] = 0
           /\ process_slots' = [slots EXCEPT ![p] = 1]
           /\ terminals' = [terms EXCEPT ![v] = p]
           /\ view_term' = v /\ cur_PID' = p /\ cpu' = p
           /\ \A q \in PIDs :
                /\ pcb'[q].parent_pid = IF q = p THEN terms[v] ELSE pcb[q].parent_pid
                /\ pcb'[q].tid = IF q = p THEN v ELSE pcb[q].tid
           /\ \A t \in TIDs : JobsOn(t)' =
                IF t = v THEN Jobs(slots, pcb, t) \cup {p} ELSE Jobs(slots, pcb, t)
<1>0. PICK p \in PIDs : LaunchedAs(p, slots, terms, v, from)
  BY LaunchDoes
<1>1. /\ slots[p] = 0
      /\ process_slots' = [slots EXCEPT ![p] = 1]
      /\ terminals' = [terms EXCEPT ![v] = p]
      /\ view_term' = v /\ cur_PID' = p /\ cpu' = p
  BY <1>0 DEF LaunchedAs
<1>6. \A q \in PIDs :
        /\ pcb'[q].parent_pid = IF q = p THEN terms[v] ELSE pcb[q].parent_pid
        /\ pcb'[q].tid = IF q = p THEN v ELSE pcb[q].tid
  BY <1>0 DEF LaunchedAs
<1>7. \A q \in PIDs : process_slots'[q] = IF q = p THEN 1 ELSE slots[q]
  BY <1>1
<1>8. ASSUME NEW t \in TIDs
      PROVE  JobsOn(t)' =
        IF t = v THEN Jobs(slots, pcb, t) \cup {p} ELSE Jobs(slots, pcb, t)
  <2>1. JobsOn(t)' = {q \in PIDs : process_slots'[q] = 1 /\ pcb'[q].tid = t}
    BY DEF JobsOn, Jobs
  <2> QED BY <2>1, <1>1, <1>6, <1>7 DEF Jobs
<1> QED BY <1>1, <1>6, <1>8

\* What a halt that returns to its parent makes of them.
LEMMA HaltEffect ==
  ASSUME OnStacks, HaltChild
  PROVE  LET c == cur_PID
             t0 == pcb[c].tid
             parent == pcb[c].parent_pid
         IN  /\ parent \in PIDs /\ parent # c /\ parent \in JobsOn(t0)
             /\ c \in JobsOn(t0) /\ terminals[t0] = c /\ t0 \in TIDs
             /\ process_slots' = [process_slots EXCEPT ![c] = 0]
             /\ terminals' = [terminals EXCEPT ![t0] = parent]
             /\ view_term' = view_term /\ cur_PID' = parent
             /\ \A q \in PIDs : /\ pcb'[q].parent_pid = pcb[q].parent_pid
                                /\ pcb'[q].tid = pcb[q].tid
             /\ \A t \in TIDs : JobsOn(t)' = JobsOn(t) \ {c}
<1> DEFINE c == cur_PID
           t0 == pcb[c].tid
           parent == pcb[c].parent_pid
<1>0. TypeOK /\ JobStacks /\ NoPid \notin PIDs /\ ~Lost
  BY NumberedIsStacked, ProcessAssumption DEF OnStacks, NoPid, PIDs
<1>1. /\ parent # NoPid
      /\ terminals' = [terminals EXCEPT ![t0] = parent]
      /\ process_slots' = [process_slots EXCEPT ![c] = 0]
      /\ cur_PID' = parent
      /\ view_term' = view_term
  BY DEF HaltChild, FreeSlot, ShowJob
<1>2. c \in PIDs /\ process_slots[c] = 1 /\ terminals[t0] = c /\ t0 \in TIDs
  BY <1>0 DEF JobStacks, RunningIsShown, TypeOK, PCB, Live
<1>3. parent \in JobsOn(t0) /\ parent \in PIDs
  BY <1>0, <1>1, <1>2 DEF JobStacks, ParentsWait, Live, JobsOn, Jobs
<1>4. parent # c
  BY <1>0, <1>1, <1>2 DEF JobStacks, TopHasNoChild, Live
<1>5. \A q \in PIDs : /\ pcb'[q].parent_pid = pcb[q].parent_pid
                      /\ pcb'[q].tid = pcb[q].tid
  BY <1>0, HaltKeepsBlocks
<1>6. \A q \in PIDs : process_slots'[q] = IF q = c THEN 0 ELSE process_slots[q]
  BY <1>0, <1>1 DEF TypeOK
<1>7. c \in JobsOn(t0)
  BY <1>2 DEF JobsOn, Jobs
<1>8. ASSUME NEW t \in TIDs PROVE JobsOn(t)' = JobsOn(t) \ {c}
  <2>1. JobsOn(t)' = {q \in PIDs : process_slots'[q] = 1 /\ pcb'[q].tid = t}
    BY DEF JobsOn, Jobs
  <2> QED BY <2>1, <1>5, <1>6 DEF JobsOn, Jobs
<1> QED BY <1>1, <1>2, <1>3, <1>4, <1>5, <1>7, <1>8

\* What is left when a terminal's shell ends: a free slot and no job there.
LEMMA BaseEffect ==
  ASSUME OnStacks, HaltBase
  PROVE  LET c == cur_PID
             t0 == pcb[c].tid
             slots == [process_slots EXCEPT ![c] = 0]
             terms == [terminals EXCEPT ![t0] = NoPid]
         IN  /\ c \in JobsOn(t0) /\ terminals[t0] = c /\ t0 \in TIDs
             /\ slots \in [PIDs -> {0, 1}]
             /\ terms \in [TIDs -> PIDs \cup {NoPid}]
             /\ Launch(slots, terms, view_term, "halt")
             /\ cpu \in PIDs /\ view_term \in TIDs
             /\ JobsOn(t0) = {c}
             /\ \A t \in TIDs : Jobs(slots, pcb, t) = JobsOn(t) \ {c}
<1> DEFINE c == cur_PID
           t0 == pcb[c].tid
           slots == [process_slots EXCEPT ![c] = 0]
           terms == [terminals EXCEPT ![t0] = NoPid]
<1>0. TypeOK /\ JobStacks /\ NoPid \notin PIDs /\ ~Lost
  BY NumberedIsStacked, ProcessAssumption DEF OnStacks, NoPid, PIDs
<1>1. /\ Launch(slots, terms, view_term, "halt")
      /\ pcb[c].parent_pid = NoPid
      /\ cpu # NoPid
  BY DEF HaltBase, FreeSlot, ShowJob, CanStartOrEnd
<1>2. c \in PIDs /\ process_slots[c] = 1 /\ terminals[t0] = c /\ t0 \in TIDs
  BY <1>0 DEF JobStacks, RunningIsShown, TypeOK, PCB, Live
<1>3. c \in JobsOn(t0)
  BY <1>2 DEF JobsOn, Jobs
<1>4. /\ slots \in [PIDs -> {0, 1}]
      /\ terms \in [TIDs -> PIDs \cup {NoPid}]
      /\ cpu \in PIDs /\ view_term \in TIDs
  BY <1>0, <1>1, <1>2 DEF TypeOK
<1>5. JobsOn(t0) = {c}
  <2>1. PICK d \in [PIDs -> Nat] : Stacked(process_slots, pcb, terminals, d)
    BY DEF OnStacks, StackedUp
  <2>2. d[c] = 0
    BY <1>1, <1>2, <2>1 DEF Stacked
  <2>3. \A q \in JobsOn(t0) : q \in PIDs /\ process_slots[q] = 1
                                /\ pcb[q].tid = t0 /\ d[q] \in Nat
    BY DEF JobsOn, Jobs
  <2>4. \A q \in JobsOn(t0) : d[q] <= d[c]
    BY <1>0, <1>2, <2>1 DEF Stacked, JobsOn
  <2>5. \A q \in JobsOn(t0) : d[q] = d[c]
    BY <2>2, <2>3, <2>4
  <2> QED BY <1>2, <1>3, <2>1, <2>3, <2>5 DEF Stacked
<1>6. \A t \in TIDs : Jobs(slots, pcb, t) = JobsOn(t) \ {c}
  <2>1. \A q \in PIDs : slots[q] = IF q = c THEN 0 ELSE process_slots[q]
    BY <1>0 DEF TypeOK
  <2> QED BY <2>1 DEF Jobs, JobsOn
<1> QED BY <1>1, <1>2, <1>3, <1>4, <1>5, <1>6

-----------------------------------------------------------------------------

\* No terminal has more programs than the user nests.
Room == \A t \in TIDs : Cardinality(JobsOn(t)) <= MaxJobs

(***************************************************************************)
(* When the table has a slot for every program the user may have open, an  *)
(* empty terminal leaves a slot free: the jobs of the others are told      *)
(* apart by their terminal and their number, and these are too few pairs.  *)
(***************************************************************************)
LEMMA EmptyTerminalHasSlot ==
  ASSUME OnStacks, Room, NumSlots >= MaxTerms * MaxJobs, MaxJobs >= 1,
         NEW t \in TIDs, terminals[t] = NoPid
  PROVE  ~Full(process_slots)
<1> SUFFICES ASSUME Full(process_slots) PROVE FALSE
  OBVIOUS
<1> DEFINE Others == TIDs \ {t}
           Depths == 0 .. MaxJobs - 1
<1>0. /\ TypeOK /\ MaxTerms \in Nat /\ MaxTerms > 0 /\ NumSlots \in Nat
      /\ MaxJobs \in Nat
  BY ProcessAssumption DEF OnStacks
<1>1. PICK d \in [PIDs -> Nat] : Stacked(process_slots, pcb, terminals, d)
  BY DEF OnStacks, StackedUp
<1>2. \A p \in PIDs : process_slots[p] = 1
  BY DEF Full
<1>3. JobsOn(t) = {}
  BY <1>1 DEF Stacked, JobsOn
<1>4. ASSUME NEW p \in PIDs PROVE pcb[p].tid \in Others /\ d[p] \in Depths
  <2>1. pcb[p].tid \in TIDs /\ p \in JobsOn(pcb[p].tid)
    BY <1>0, <1>2 DEF TypeOK, PCB, JobsOn, Jobs
  <2>2. pcb[p].tid # t
    BY <1>3, <2>1
  <2>3. /\ d[p] + 1 <= Cardinality(JobsOn(pcb[p].tid))
        /\ Cardinality(JobsOn(pcb[p].tid)) \in Nat
    BY <1>0, <1>1, <2>1, DepthIsBounded, JobsAreFinite DEF JobsOn, TypeOK
  <2>4. Cardinality(JobsOn(pcb[p].tid)) <= MaxJobs
    BY <2>1 DEF Room
  <2>5. d[p] \in Nat
    OBVIOUS
  <2>6. d[p] \in Depths
    BY <1>0, <2>3, <2>4, <2>5
  <2> QED BY <2>1, <2>2, <2>6
<1> DEFINE pair == [p \in PIDs |-> <<pcb[p].tid, d[p]>>]
<1>5. pair \in Injection(PIDs, Others \X Depths)
  <2>1. pair \in [PIDs -> Others \X Depths]
    BY <1>4
  <2>2. ASSUME NEW p \in PIDs, NEW q \in PIDs, pair[p] = pair[q] PROVE p = q
    <3>1. pcb[p].tid = pcb[q].tid /\ d[p] = d[q]
      BY <2>2
    <3> QED BY <1>1, <1>2, <3>1 DEF Stacked
  <2> HIDE DEF pair
  <2> QED BY <2>1, <2>2 DEF Injection, IsInjective
<1>6. IsFiniteSet(Others) /\ Cardinality(Others) = MaxTerms - 1
  <2>1. IsFiniteSet(TIDs) /\ Cardinality(TIDs) = MaxTerms
    <3>1. 0 \in Int /\ MaxTerms - 1 \in Int /\ ~(0 > MaxTerms - 1)
      BY <1>0
    <3>2. /\ IsFiniteSet(TIDs)
          /\ Cardinality(TIDs) =
               IF 0 > MaxTerms - 1 THEN 0 ELSE MaxTerms - 1 - 0 + 1
      BY <3>1, FS_Interval DEF TIDs
    <3> QED BY <1>0, <3>1, <3>2
  <2> QED BY <2>1, FS_RemoveElement
<1>7. IsFiniteSet(Depths) /\ Cardinality(Depths) = MaxJobs
  <2>1. 0 \in Int /\ MaxJobs - 1 \in Int /\ ~(0 > MaxJobs - 1)
    BY <1>0
  <2>2. /\ IsFiniteSet(Depths)
        /\ Cardinality(Depths) =
             IF 0 > MaxJobs - 1 THEN 0 ELSE MaxJobs - 1 - 0 + 1
    BY <2>1, FS_Interval
  <2> QED BY <1>0, <2>1, <2>2
<1> HIDE DEF pair, Others, Depths
<1>8. /\ IsFiniteSet(Others \X Depths)
      /\ Cardinality(Others \X Depths) = (MaxTerms - 1) * MaxJobs
  BY <1>6, <1>7, FS_Product
<1>9. NumSlots <= (MaxTerms - 1) * MaxJobs
  BY <1>5, <1>8, FS_Injection, PidsAreFinite
<1>10. (MaxTerms - 1) * MaxJobs = MaxTerms * MaxJobs - MaxJobs
  BY <1>0
<1>11. MaxTerms * MaxJobs \in Nat
  BY <1>0
<1> QED BY <1>0, <1>9, <1>10, <1>11

(***************************************************************************)
(* With programs started and ended in view and a slot for each, the CPU    *)
(* always has a context and the terminal in view a program.                *)
(***************************************************************************)
Settled == Room /\ Viewable /\ NeverLost

\* A launch leaves the new program running on the terminal in view.
LEMMA LaunchSettles ==
  ASSUME TypeOK, ~Lost,
         NEW slots \in [PIDs -> {0, 1}],
         NEW terms \in [TIDs -> PIDs \cup {NoPid}],
         NEW v \in TIDs, NEW from \in {"execute", "switch", "halt"},
         Launch(slots, terms, v, from),
         \A t \in TIDs : Cardinality(Jobs(slots, pcb, t)) <= MaxJobs,
         Cardinality(Jobs(slots, pcb, v)) < MaxJobs
  PROVE  Settled'
<1>0. NoPid \notin PIDs /\ MaxJobs \in Nat
  BY ProcessAssumption DEF NoPid, PIDs
<1>1. PICK p \in PIDs :
        /\ terminals' = [terms EXCEPT ![v] = p]
        /\ view_term' = v /\ cpu' = p
        /\ \A t \in TIDs : JobsOn(t)' =
             IF t = v THEN Jobs(slots, pcb, t) \cup {p} ELSE Jobs(slots, pcb, t)
  BY LaunchEffect
<1>2. Viewable' /\ NeverLost'
  BY <1>0, <1>1 DEF Viewable, NeverLost
<1>3. ASSUME NEW t \in TIDs PROVE Cardinality(JobsOn(t)') <= MaxJobs
  <2>1. CASE t # v
    BY <1>1, <2>1
  <2>2. CASE t = v
    <3> DEFINE J == Jobs(slots, pcb, v)
    <3>1. IsFiniteSet(J) /\ Cardinality(J) \in Nat /\ Cardinality(J) < MaxJobs
      BY JobsAreFinite
    <3> HIDE DEF J
    <3>2. Cardinality(J \cup {p}) =
            IF p \in J THEN Cardinality(J) ELSE Cardinality(J) + 1
      BY <3>1, FS_AddElement
    <3>3. CASE p \in J
      BY <1>1, <2>2, <3>1, <3>2, <3>3 DEF J
    <3>4. CASE p \notin J
      <4>1. Cardinality(J \cup {p}) <= MaxJobs
        BY <1>0, <3>1, <3>2, <3>4
      <4> QED BY <1>1, <2>2, <4>1 DEF J
    <3> QED BY <3>3, <3>4
  <2> QED BY <2>1, <2>2
<1>4. Room'
  BY <1>3 DEF Room
<1> QED BY <1>2, <1>4 DEF Settled

\* Every action leaves the kernel settled.
LEMMA NextSettles ==
  ASSUME Focused, Whole, MaxJobs >= 1, NumSlots >= MaxTerms * MaxJobs
  PROVE  Inductive /\ CallersWait /\ Settled /\ [Next]_vars => Settled'
<1> SUFFICES ASSUME Inductive, CallersWait, Settled, [Next]_vars PROVE Settled'
  OBVIOUS
<1>0. /\ TypeOK /\ NoPid \notin PIDs /\ MaxJobs \in Nat /\ cpu \in PIDs
      /\ Room /\ Viewable /\ resumed = NoPid /\ ~Lost
  BY ProcessAssumption DEF Inductive, InRange, NoPid, PIDs, Settled, NeverLost,
                           TypeOK, CallersWait, Lost
<1>9. OnStacks
  BY <1>0 DEF Inductive, CallersWait, OnStacks
<1>1. \A t \in TIDs : /\ Cardinality(JobsOn(t)) <= MaxJobs
                      /\ IsFiniteSet(JobsOn(t))
                      /\ Cardinality(JobsOn(t)) \in Nat
  BY <1>0, JobsAreFinite DEF Room, JobsOn
<1>2. CASE SysExecute
  <2>1. /\ Cardinality(Jobs(process_slots, pcb, view_term)) < MaxJobs
        /\ Launch(process_slots, terminals, view_term, "execute")
    BY <1>2 DEF SysExecute, JobsOn
  <2> QED BY <1>0, <1>1, <2>1, LaunchSettles DEF TypeOK, JobsOn
<1>3. CASE HaltBase
  <2> DEFINE c == cur_PID
             t0 == pcb[c].tid
             slots == [process_slots EXCEPT ![c] = 0]
             terms == [terminals EXCEPT ![t0] = NoPid]
  <2>1. /\ t0 \in TIDs /\ slots \in [PIDs -> {0, 1}]
        /\ terms \in [TIDs -> PIDs \cup {NoPid}]
        /\ Launch(slots, terms, view_term, "halt")
        /\ JobsOn(t0) = {c}
        /\ \A t \in TIDs : Jobs(slots, pcb, t) = JobsOn(t) \ {c}
    BY <1>3, <1>9, BaseEffect
  <2>2. view_term = t0
    BY <1>3 DEF HaltBase, CanStartOrEnd
  <2> HIDE DEF slots, terms
  <2>3. \A t \in TIDs : Cardinality(Jobs(slots, pcb, t)) <= MaxJobs
    <3> SUFFICES ASSUME NEW t \in TIDs
                 PROVE  Cardinality(JobsOn(t) \ {c}) <= MaxJobs
      BY <2>1
    <3>1. /\ Cardinality(JobsOn(t) \ {c}) <= Cardinality(JobsOn(t))
          /\ Cardinality(JobsOn(t) \ {c}) \in Nat
      BY <1>1, FS_RemoveElement, FS_Subset, FS_CardinalityType
    <3> QED BY <1>0, <1>1, <3>1
  <2>4. Cardinality(Jobs(slots, pcb, view_term)) = 0
    <3>1. Jobs(slots, pcb, view_term) = {}
      BY <2>1, <2>2
    <3> QED BY <3>1, FS_EmptySet
  <2>5. Cardinality(Jobs(slots, pcb, view_term)) < MaxJobs
    BY <1>0, <2>4
  <2> QED BY <1>0, <2>1, <2>2, <2>3, <2>5, LaunchSettles
<1>4. CASE HaltChild
  <2> DEFINE c == cur_PID
             t0 == pcb[c].tid
             parent == pcb[c].parent_pid
  <2>1. /\ parent \in PIDs /\ t0 \in TIDs
        /\ terminals' = [terminals EXCEPT ![t0] = parent]
        /\ view_term' = view_term /\ c \in PIDs /\ process_slots[c] = 1
        /\ \A t \in TIDs : JobsOn(t)' = JobsOn(t) \ {c}
    BY <1>4, <1>9, HaltEffect DEF JobsOn, Jobs
  <2>2. view_term = t0
    BY <1>4 DEF HaltChild, CanStartOrEnd
  <2>3. Viewable'
    BY <1>0, <2>1, <2>2 DEF Viewable, TypeOK
  <2>4. cpu' = parent
    <3>1. pcb[c].frame = CallerFrame(parent)
      BY <1>0, <2>1 DEF CallersWait, CallerFrame, Live
    <3> QED BY <1>4, <3>1 DEF HaltChild, Returnable, CallerFrame
  <2>5. NeverLost'
    BY <1>0, <2>1, <2>4 DEF NeverLost
  <2>6. Room'
    <3> SUFFICES ASSUME NEW t \in TIDs
                 PROVE  Cardinality(JobsOn(t) \ {c}) <= MaxJobs
      BY <2>1 DEF Room
    <3>1. /\ Cardinality(JobsOn(t) \ {c}) <= Cardinality(JobsOn(t))
          /\ Cardinality(JobsOn(t) \ {c}) \in Nat
      BY <1>1, FS_RemoveElement, FS_Subset, FS_CardinalityType
    <3> QED BY <1>0, <1>1, <3>1
  <2> QED BY <2>3, <2>5, <2>6 DEF Settled
<1>5. ASSUME NEW t \in TIDs, SwitchLaunch(t) PROVE Settled'
  <2>1. terminals[t] = NoPid /\ Launch(process_slots, terminals, t, "switch")
    BY <1>5 DEF SwitchLaunch
  <2>2. JobsOn(t) = {}
    BY <1>9, <2>1, NumberedIsStacked DEF OnStacks, JobStacks, TerminalShowsItsJob
  <2>3. Cardinality(JobsOn(t)) < MaxJobs
    BY <1>0, <2>2, FS_EmptySet
  <2> QED BY <1>0, <1>1, <2>1, <2>3, LaunchSettles DEF TypeOK, JobsOn
<1>6. ASSUME NEW t \in TIDs, SwitchView(t) PROVE Settled'
  <2>1. terminals[t] # NoPid
    BY <1>0, <1>6, <1>9, EmptyTerminalHasSlot DEF SwitchView
  <2>2. /\ view_term' = t
        /\ UNCHANGED <<process_slots, pcb, terminals, cpu>>
    BY <1>6 DEF SwitchView
  <2>3. Viewable' /\ NeverLost'
    BY <2>1, <2>2 DEF Viewable, NeverLost, Settled
  <2>4. Room'
    BY <1>0, <2>2 DEF Room, JobsOn, Jobs
  <2> QED BY <2>3, <2>4 DEF Settled
<1>7. ~FaultForEver
  BY <1>0 DEF FaultForEver
<1>8. CASE UNCHANGED vars
  BY <1>8 DEF vars, Settled, Room, Viewable, NeverLost, JobsOn, Jobs
<1>10. ~ExecuteFails /\ ~ResumedShows /\ ~ResumedFaults
  BY <1>0 DEF ExecuteFails, ResumedShows, ResumedFaults, ShowParent
<1> QED BY <1>2, <1>3, <1>4, <1>5, <1>6, <1>7, <1>8, <1>10
        DEF Next, SysHalt, TerminalSwitch

(***************************************************************************)
(* With a slot for every program the user may have open, started and ended *)
(* in view, and a file system that has every block of its programs, the    *)
(* kernel always has a program to go back to.                              *)
(***************************************************************************)
THEOREM NeverLostCorrect ==
  ASSUME Focused, Whole, MaxJobs >= 1, NumSlots >= MaxTerms * MaxJobs
  PROVE  Spec => []NeverLost
<1>1. Init => Settled
  <2> SUFFICES ASSUME Init PROVE Settled
    OBVIOUS
  <2>1. 0 \in TIDs /\ 0 \in PIDs /\ MaxJobs \in Nat
    BY ProcessAssumption DEF TIDs, PIDs
  <2>2. Viewable /\ NeverLost
    BY <2>1 DEF Init, Viewable, NeverLost, NoPid
  <2>3. ASSUME NEW t \in TIDs PROVE Cardinality(JobsOn(t)) <= MaxJobs
    <3>1. JobsOn(t) = IF t = 0 THEN {0} ELSE {}
      BY <2>1 DEF Init, JobsOn, Jobs, BootPCB
    <3>2. Cardinality({0}) = 1 /\ Cardinality({}) = 0
      BY FS_Singleton, FS_EmptySet
    <3> QED BY <2>1, <3>1, <3>2
  <2> QED BY <2>2, <2>3 DEF Settled, Room
<1>2. Inductive /\ CallersWait /\ Settled /\ [Next]_vars => Settled'
  BY NextSettles
<1>3. Settled => NeverLost
  BY DEF Settled
<1> QED BY <1>1, <1>2, <1>3, InductiveHolds, CallersWaitCorrect, PTL DEF Spec

-----------------------------------------------------------------------------

\* A short sequence of pids is a sequence of pids.
LEMMA ShortAreSeqs ==
  ASSUME NEW s \in SeqOf(PIDs, NumSlots)
  PROVE  s \in Seq(PIDs)
<1>1. PICK m \in 0 .. NumSlots : s \in [1 .. m -> PIDs]
  BY DEF SeqOf
<1>2. m \in Nat
  BY ProcessAssumption
<1> QED BY <1>1, <1>2

(***************************************************************************)
(* The program on top fixes the rest: following the parent links down from *)
(* it there is one way to end at a program without a parent.               *)
(***************************************************************************)
LEMMA LinkedIsUnique ==
  ASSUME NEW s \in Seq(PIDs), NEW u \in Seq(PIDs), NEW blocks, NEW top,
         Linked(s, blocks, top), Linked(u, blocks, top)
  PROVE  s = u
<1> DEFINE m == Len(s)
           n == Len(u)
<1>0. NoPid \notin PIDs
  BY ProcessAssumption DEF NoPid, PIDs
<1>1. CASE top = NoPid
  BY <1>1 DEF Linked
<1>2. CASE top # NoPid
  <2>1. /\ m \in Nat /\ n \in Nat /\ m > 0 /\ n > 0
        /\ s[m] = top /\ u[n] = top
        /\ \A i \in 1 .. m : s[i] \in PIDs
        /\ \A i \in 1 .. n : u[i] \in PIDs
    BY <1>2 DEF Linked
  <2>2. /\ \A i \in 1 .. m : blocks[s[i]].parent_pid = IF i = 1 THEN NoPid ELSE s[i - 1]
        /\ \A i \in 1 .. n : blocks[u[i]].parent_pid = IF i = 1 THEN NoPid ELSE u[i - 1]
    BY <1>2 DEF Linked
  <2> HIDE DEF m, n
  <2> DEFINE Differ == {k \in Nat : k < m /\ k < n /\ s[m - k] # u[n - k]}
  <2>3. Differ = {}
    <3> SUFFICES ASSUME Differ # {} PROVE FALSE
      OBVIOUS
    <3>1. Differ \in SUBSET Nat
      OBVIOUS
    <3>2. PICK k \in Differ : \A j \in Differ : k <= j
      <4> HIDE DEF Differ
      <4> QED BY <3>1, LeastNumber
    <3>3. k \in Nat /\ k < m /\ k < n /\ s[m - k] # u[n - k]
      OBVIOUS
    <3>4. k # 0
      BY <2>1, <3>3
    <3>5. k - 1 \in Nat /\ k - 1 < m /\ k - 1 < n /\ ~(k <= k - 1)
      BY <3>3, <3>4, <2>1
    <3>6. s[m - (k - 1)] = u[n - (k - 1)]
      BY <3>2, <3>5
    <3> DEFINE i == m - (k - 1)
               j == n - (k - 1)
    <3>7. /\ i \in 1 .. m /\ j \in 1 .. n /\ i # 1 /\ j # 1
          /\ i - 1 = m - k /\ j - 1 = n - k
      BY <2>1, <3>3, <3>4
    <3> HIDE DEF i, j, Differ
    <3>8. s[i] = u[j]
      BY <3>6 DEF i, j
    <3>9. s[i - 1] = u[j - 1]
      BY <2>2, <3>7, <3>8
    <3> QED BY <3>3, <3>7, <3>9
  <2>4. \A k \in Nat : k < m /\ k < n => s[m - k] = u[n - k]
    BY <2>3
  <2> HIDE DEF Differ
  <2>5. ~(m < n)
    <3> SUFFICES ASSUME m < n PROVE FALSE
      OBVIOUS
    <3> DEFINE j == n - (m - 1)
    <3>1. m - 1 \in Nat /\ m - 1 < m /\ m - 1 < n /\ m - (m - 1) = 1 /\ 1 \in 1 .. m
      BY <2>1
    <3>2. j \in 1 .. n /\ j # 1 /\ j - 1 \in 1 .. n
      BY <2>1
    <3>3. s[1] = u[j]
      BY <2>4, <3>1
    <3> HIDE DEF j
    <3>4. blocks[s[1]].parent_pid = NoPid
      BY <2>2, <3>1
    <3>5. blocks[u[j]].parent_pid = u[j - 1]
      BY <2>2, <3>2
    <3> QED BY <1>0, <2>1, <3>2, <3>3, <3>4, <3>5
  <2>6. ~(n < m)
    <3> SUFFICES ASSUME n < m PROVE FALSE
      OBVIOUS
    <3> DEFINE j == m - (n - 1)
    <3>1. n - 1 \in Nat /\ n - 1 < m /\ n - 1 < n /\ n - (n - 1) = 1 /\ 1 \in 1 .. n
      BY <2>1
    <3>2. j \in 1 .. m /\ j # 1 /\ j - 1 \in 1 .. m
      BY <2>1
    <3>3. u[1] = s[j]
      BY <2>4, <3>1
    <3> HIDE DEF j
    <3>4. blocks[u[1]].parent_pid = NoPid
      BY <2>2, <3>1
    <3>5. blocks[s[j]].parent_pid = s[j - 1]
      BY <2>2, <3>2
    <3> QED BY <1>0, <2>1, <3>2, <3>3, <3>4, <3>5
  <2>7. m = n
    BY <2>1, <2>5, <2>6
  <2>8. ASSUME NEW i \in 1 .. m PROVE s[i] = u[i]
    <3>1. m - i \in Nat /\ m - i < m /\ m - (m - i) = i
      BY <2>1
    <3> QED BY <2>4, <2>7, <3>1
  <2> QED BY <2>7, <2>8 DEF m, n
<1> QED BY <1>1, <1>2

(***************************************************************************)
(* The jobs of a terminal in the order of their numbers are linked, so the *)
(* terminal's stack exists, fits in the table and has all its jobs.        *)
(***************************************************************************)
LEMMA StackExists ==
  ASSUME NEW slots \in [PIDs -> {0, 1}], NEW blocks \in [PIDs -> PCB],
         NEW terms \in [TIDs -> PIDs \cup {NoPid}], NEW d \in [PIDs -> Nat],
         Stacked(slots, blocks, terms, d), NEW t \in TIDs
  PROVE  \E s \in SeqOf(PIDs, NumSlots) :
           Linked(s, blocks, terms[t]) /\ Range(s) = Jobs(slots, blocks, t)
<1> DEFINE J == Jobs(slots, blocks, t)
           top == terms[t]
<1>0. NumSlots \in Nat /\ NoPid \notin PIDs
  BY ProcessAssumption DEF NoPid, PIDs
<1>1. CASE top = NoPid
  <2>1. J = {}
    BY <1>1 DEF Stacked
  <2>2. <<>> \in SeqOf(PIDs, NumSlots)
    <3>1. 0 \in 0 .. NumSlots
      BY <1>0
    <3>2. <<>> \in [1 .. 0 -> PIDs]
      OBVIOUS
    <3> QED BY <3>1, <3>2 DEF SeqOf
  <2>3. Range(<<>>) = {}
    BY DEF Range
  <2> QED BY <1>1, <2>1, <2>2, <2>3 DEF Linked
<1>2. CASE top # NoPid
  <2>1. top \in J /\ top \in PIDs /\ \A q \in J : d[q] <= d[top]
    BY <1>2 DEF Stacked, Jobs
  <2>2. \A q \in J : q \in PIDs /\ d[q] \in Nat
    BY DEF Jobs
  <2>3. \A q, r \in J : d[q] = d[r] => q = r
    BY DEF Stacked, Jobs
  <2>4. \A q \in J : IF blocks[q].parent_pid = NoPid
                     THEN d[q] = 0
                     ELSE blocks[q].parent_pid \in J
                            /\ d[q] = d[blocks[q].parent_pid] + 1
    BY DEF Stacked, Jobs
  <2>5. \A k \in 0 .. d[top] : \E q \in J : d[q] = k
    BY <2>1, EveryDepthTaken
  <2>6. d[top] + 1 <= NumSlots
    <3>1. /\ d[top] + 1 <= Cardinality(J)
          /\ Cardinality(J) \in Nat /\ Cardinality(J) <= NumSlots
      BY <2>1, DepthIsBounded, JobsAreFinite
    <3> HIDE DEF J, top
    <3> QED BY <1>0, <2>1, <2>2, <3>1
  <2> DEFINE n == d[top] + 1
             s == [i \in 1 .. n |-> CHOOSE q \in J : d[q] = i - 1]
  <2>7. n \in 0 .. NumSlots /\ n > 0
    <3> HIDE DEF J, top
    <3> QED BY <1>0, <2>1, <2>2, <2>6
  <2>8. \A i \in 1 .. n : s[i] \in J /\ d[s[i]] = i - 1
    <3> SUFFICES ASSUME NEW i \in 1 .. n
                 PROVE  s[i] \in J /\ d[s[i]] = i - 1
      OBVIOUS
    <3> HIDE DEF J, top
    <3>1. i - 1 \in 0 .. d[top]
      BY <2>1, <2>2
    <3>2. \E q \in J : d[q] = i - 1
      BY <2>5, <3>1
    <3> QED BY <3>2
  <2>9. s \in [1 .. n -> J] /\ s \in [1 .. n -> PIDs]
    <3> HIDE DEF J
    <3> QED BY <2>2, <2>8
  <2> HIDE DEF s, J, top
  <2>10. s \in SeqOf(PIDs, NumSlots) /\ s \in Seq(PIDs) /\ Len(s) = n
    <3>1. s \in SeqOf(PIDs, NumSlots)
      BY <2>7, <2>9 DEF SeqOf
    <3>2. n \in Nat
      BY <1>0, <2>7
    <3> HIDE DEF n
    <3>3. s \in Seq(PIDs) /\ Len(s) = n
      BY <2>9, <3>2
    <3> QED BY <3>1, <3>3
  <2>11. s[n] = top
    <3>1. n \in 1 .. n /\ n - 1 = d[top]
      BY <2>1, <2>2
    <3> QED BY <2>1, <2>3, <2>8, <3>1
  <2>12. ASSUME NEW i \in 1 .. n
         PROVE  blocks[s[i]].parent_pid = IF i = 1 THEN NoPid ELSE s[i - 1]
    <3>1. s[i] \in J /\ d[s[i]] = i - 1 /\ n \in Nat
      BY <1>0, <2>7, <2>8
    <3> HIDE DEF n
    <3>2. CASE i = 1
      <4>1. d[s[i]] = 0
        BY <3>1, <3>2
      <4> QED BY <2>2, <2>4, <3>1, <3>2, <4>1
    <3>3. CASE i # 1
      <4>1. i - 1 \in 1 .. n /\ d[s[i]] # 0
        BY <3>1, <3>3
      <4> DEFINE r == blocks[s[i]].parent_pid
      <4>2. r \in J /\ d[s[i]] = d[r] + 1
        BY <2>4, <3>1, <4>1
      <4>3. s[i - 1] \in J /\ d[s[i - 1]] = (i - 1) - 1
        BY <2>8, <4>1
      <4> HIDE DEF r
      <4>4. d[r] = d[s[i - 1]]
        BY <2>2, <3>1, <4>2, <4>3
      <4>5. r = s[i - 1]
        BY <2>3, <4>2, <4>3, <4>4
      <4> QED BY <3>3, <4>5 DEF r
    <3> QED BY <3>2, <3>3
  <2>13. s # <<>>
    BY <2>7, <2>10
  <2>14. Linked(s, blocks, top)
    <3> HIDE DEF n
    <3> QED BY <1>2, <2>10, <2>11, <2>12, <2>13 DEF Linked
  <2>15. Range(s) = J
    <3>1. ASSUME NEW q \in J PROVE \E i \in 1 .. n : s[i] = q
      <4>1. d[q] + 1 \in 1 .. n /\ d[q] \in Nat
        BY <2>1, <2>2
      <4>2. s[d[q] + 1] \in J /\ d[s[d[q] + 1]] = d[q]
        BY <2>8, <4>1
      <4>3. s[d[q] + 1] = q
        BY <2>3, <4>2
      <4> QED BY <4>1, <4>3
    <3> HIDE DEF n
    <3> QED BY <2>9, <3>1 DEF Range
  <2> QED BY <2>10, <2>14, <2>15 DEF J, top
<1> QED BY <1>1, <1>2

\* The stack found is linked and has all the jobs of the terminal that shows top.
LEMMA StackInIsLinked ==
  ASSUME NEW slots \in [PIDs -> {0, 1}], NEW blocks \in [PIDs -> PCB],
         NEW terms \in [TIDs -> PIDs \cup {NoPid}], NEW d \in [PIDs -> Nat],
         Stacked(slots, blocks, terms, d), NEW t \in TIDs
  PROVE  LET s == StackIn(blocks, terms[t]) IN
           /\ s \in Seq(PIDs)
           /\ Linked(s, blocks, terms[t])
           /\ Range(s) = Jobs(slots, blocks, t)
<1>1. PICK x \in SeqOf(PIDs, NumSlots) :
        Linked(x, blocks, terms[t]) /\ Range(x) = Jobs(slots, blocks, t)
  BY StackExists
<1>2. /\ StackIn(blocks, terms[t]) \in SeqOf(PIDs, NumSlots)
      /\ Linked(StackIn(blocks, terms[t]), blocks, terms[t])
  BY <1>1 DEF StackIn
<1>3. StackIn(blocks, terms[t]) = x
  BY <1>1, <1>2, ShortAreSeqs, LinkedIsUnique
<1> QED BY <1>1, <1>2, <1>3, ShortAreSeqs

\* Any linked sequence under top is that stack.
LEMMA LinkedIsStackIn ==
  ASSUME NEW slots \in [PIDs -> {0, 1}], NEW blocks \in [PIDs -> PCB],
         NEW terms \in [TIDs -> PIDs \cup {NoPid}], NEW d \in [PIDs -> Nat],
         Stacked(slots, blocks, terms, d), NEW t \in TIDs,
         NEW s \in Seq(PIDs), Linked(s, blocks, terms[t])
  PROVE  StackIn(blocks, terms[t]) = s
<1> QED BY StackInIsLinked, LinkedIsUnique

-----------------------------------------------------------------------------

\* The stacks of all terminals, as the abstract module sees them.
StacksIn(blocks, terms) == [t \in TIDs |-> StackIn(blocks, terms[t])]

\* The stacks the refinement mapping gives are those of the current state.
LEMMA MappedStacks ==
  /\ [t \in TIDs |-> StackOf(t)] = StacksIn(pcb, terminals)
  /\ [t \in TIDs |-> StackOf(t)]' = StacksIn(pcb', terminals')
<1> QED BY DEF StacksIn, StackOf

\* A pid that no live program has is on no stack, and the other way round.
LEMMA FreeSlotsAreFree ==
  ASSUME NEW slots \in [PIDs -> {0, 1}], NEW blocks \in [PIDs -> PCB],
         NEW terms \in [TIDs -> PIDs \cup {NoPid}], NEW d \in [PIDs -> Nat],
         Stacked(slots, blocks, terms, d), NEW p \in PIDs
  PROVE  Abstract!Free(StacksIn(blocks, terms), p) <=> slots[p] = 0
<1>1. \A t \in TIDs : Range(StacksIn(blocks, terms)[t]) = Jobs(slots, blocks, t)
  BY StackInIsLinked DEF StacksIn
<1>2. Abstract!Free(StacksIn(blocks, terms), p)
        <=> \A t \in TIDs : p \notin Jobs(slots, blocks, t)
  <2>1. \A f : Abstract!Range(f) = Range(f)
    BY DEF Abstract!Range, Range
  <2> QED BY <1>1, <2>1 DEF Abstract!Free
<1>3. blocks[p].tid \in TIDs /\ slots[p] \in {0, 1}
  BY DEF PCB
<1> QED BY <1>2, <1>3 DEF Jobs

(***************************************************************************)
(* Launch is Run: the program it starts takes a pid on no stack and goes   *)
(* on top of the stack of the terminal it is started on.                   *)
(***************************************************************************)
LEMMA LaunchIsRun ==
  ASSUME TypeOK, ~Lost,
         NEW slots \in [PIDs -> {0, 1}],
         NEW terms \in [TIDs -> PIDs \cup {NoPid}],
         NEW d \in [PIDs -> Nat], Stacked(slots, pcb, terms, d),
         NEW v \in TIDs, NEW from \in {"execute", "switch", "halt"},
         Launch(slots, terms, v, from)
  PROVE  /\ Abstract!Run(StacksIn(pcb, terms), v)
         /\ \E p \in PIDs : slots[p] = 0
         /\ view_term' = v
<1>0. NoPid \notin PIDs /\ pcb \in [PIDs -> PCB]
  BY ProcessAssumption DEF NoPid, PIDs, TypeOK
<1>1. PICK p \in PIDs :
        /\ slots[p] = 0
        /\ process_slots' = [slots EXCEPT ![p] = 1]
        /\ terminals' = [terms EXCEPT ![v] = p]
        /\ view_term' = v /\ cur_PID' = p
        /\ \A q \in PIDs :
             /\ pcb'[q].parent_pid = IF q = p THEN terms[v] ELSE pcb[q].parent_pid
             /\ pcb'[q].tid = IF q = p THEN v ELSE pcb[q].tid
  BY LaunchEffect
<1>2. TypeOK' /\ StackedUp'
  BY LaunchInRange, LaunchStackedUp DEF InRange
<1>3. PICK e \in [PIDs -> Nat] : Stacked(process_slots', pcb', terminals', e)
  BY <1>2 DEF StackedUp
<1>4. /\ process_slots' \in [PIDs -> {0, 1}]
      /\ pcb' \in [PIDs -> PCB]
      /\ terminals' \in [TIDs -> PIDs \cup {NoPid}]
  BY <1>2 DEF TypeOK
<1> DEFINE old == StacksIn(pcb, terms)
           new == StacksIn(pcb', terminals')
<1>5. ASSUME NEW t \in TIDs
      PROVE  new[t] = IF t = v THEN Append(old[t], p) ELSE old[t]
  <2> DEFINE s == StackIn(pcb, terms[t])
  <2>1. s \in Seq(PIDs) /\ Linked(s, pcb, terms[t]) /\ Range(s) = Jobs(slots, pcb, t)
    BY <1>0, StackInIsLinked
  <2>2. old[t] = s /\ new[t] = StackIn(pcb', terminals'[t])
    BY DEF StacksIn
  <2> HIDE DEF s, old, new
  <2>3. Len(s) \in Nat /\ \A i \in 1 .. Len(s) : s[i] \in PIDs /\ s[i] # p
    <3>1. Len(s) \in Nat /\ \A i \in 1 .. Len(s) : s[i] \in PIDs /\ s[i] \in Range(s)
      BY <2>1 DEF Range
    <3> QED BY <1>1, <2>1, <3>1 DEF Jobs
  <2>4. \A i \in 1 .. Len(s) : pcb'[s[i]].parent_pid = pcb[s[i]].parent_pid
    BY <1>1, <2>3
  <2>5. CASE t # v
    <3>1. terminals'[t] = terms[t]
      BY <1>1, <2>5
    <3>2. Linked(s, pcb', terminals'[t])
      BY <2>1, <2>4, <3>1 DEF Linked
    <3> QED BY <1>3, <1>4, <2>1, <2>2, <2>5, <3>2, LinkedIsStackIn
  <2>6. CASE t = v
    <3> DEFINE u == Append(s, p)
    <3>1. u \in Seq(PIDs) /\ u # <<>> /\ Len(u) = Len(s) + 1 /\ u[Len(u)] = p
            /\ \A i \in 1 .. Len(s) : u[i] = s[i]
      <4>1. s \in Seq(PIDs)
        BY <2>1
      <4>2. u \in Seq(PIDs) /\ Len(u) = Len(s) + 1 /\ Len(s) \in Nat
        BY <4>1
      <4>3. u[Len(s) + 1] = p /\ \A i \in 1 .. Len(s) : u[i] = s[i]
        BY <4>1
      <4> HIDE DEF u
      <4>4. u # <<>>
        BY <4>2
      <4> QED BY <4>2, <4>3, <4>4
    <3> HIDE DEF u
    <3>2. terminals'[t] = p
      BY <1>1, <2>6
    <3>3. ASSUME NEW i \in 1 .. Len(u)
          PROVE  pcb'[u[i]].parent_pid = IF i = 1 THEN NoPid ELSE u[i - 1]
      <4>1. CASE i = Len(u)
        <5>1. pcb'[u[i]].parent_pid = terms[t]
          BY <1>1, <2>6, <3>1, <4>1
        <5>2. CASE terms[t] = NoPid
          <6>1. s = <<>>
            BY <2>1, <5>2 DEF Linked
          <6>2. Len(u) = 1
            BY <3>1, <6>1
          <6> QED BY <4>1, <5>1, <5>2, <6>2
        <5>3. CASE terms[t] # NoPid
          <6>1. s # <<>> /\ s[Len(s)] = terms[t]
            BY <2>1, <5>3 DEF Linked
          <6>2. Len(s) # 0
            BY <2>1, <6>1
          <6>3. i # 1 /\ i - 1 = Len(s) /\ Len(s) \in 1 .. Len(s)
            BY <2>3, <3>1, <4>1, <6>2
          <6> QED BY <3>1, <5>1, <6>1, <6>3
        <5> QED BY <5>2, <5>3
      <4>2. CASE i # Len(u)
        <5>1. i \in 1 .. Len(s) /\ (i # 1 => i - 1 \in 1 .. Len(s))
          BY <2>3, <3>1, <4>2
        <5>2. pcb[s[i]].parent_pid = IF i = 1 THEN NoPid ELSE s[i - 1]
          <6>1. s # <<>>
            BY <2>3, <5>1
          <6> QED BY <2>1, <5>1, <6>1 DEF Linked
        <5> QED BY <2>4, <3>1, <5>1, <5>2
      <4> QED BY <4>1, <4>2
    <3>4. Linked(u, pcb', terminals'[t])
      BY <1>0, <3>1, <3>2, <3>3 DEF Linked
    <3>5. new[t] = u
      BY <1>3, <1>4, <2>2, <3>1, <3>4, LinkedIsStackIn
    <3> QED BY <2>2, <2>6, <3>5 DEF u
  <2> QED BY <2>5, <2>6
<1>6. Abstract!Free(old, p)
  BY <1>0, <1>1, FreeSlotsAreFree
<1>7. new = Abstract!Push(old, v, p)
  <2>1. new = [t \in TIDs |-> new[t]] /\ old = [t \in TIDs |-> old[t]]
    BY DEF StacksIn
  <2> HIDE DEF new, old
  <2> QED BY <2>1, <1>5 DEF Abstract!Push
<1>8. Abstract!Run(old, v)
  <2>1. [t \in TIDs |-> StackOf(t)]' = new
    BY MappedStacks
  <2> HIDE DEF old, new
  <2> QED BY <1>1, <1>6, <1>7, <2>1 DEF Abstract!Run
<1> QED BY <1>1, <1>8

\* The operators on sequences are the same seen through the instance.
LEMMA SameOperators ==
  /\ \A s : Abstract!Last(s) = Last(s) /\ Abstract!Front(s) = Front(s)
  /\ \A s : Abstract!Last(s) = s[Len(s)]
<1> QED BY DEF Abstract!Last, Abstract!Front, Last, Front

(***************************************************************************)
(* The stack of the running program: it is on top, its parent beneath it.  *)
(***************************************************************************)
LEMMA RunningOnTop ==
  ASSUME OnStacks
  PROVE  LET t0 == pcb[cur_PID].tid
             s == StacksIn(pcb, terminals)[t0]
         IN  /\ t0 \in TIDs /\ s \in Seq(PIDs) /\ s # <<>>
             /\ Linked(s, pcb, cur_PID) /\ Range(s) = JobsOn(t0)
             /\ s[Len(s)] = cur_PID /\ Len(s) \in Nat /\ Len(s) > 0
             /\ pcb[cur_PID].parent_pid =
                  IF Len(s) = 1 THEN NoPid ELSE s[Len(s) - 1]
             /\ Len(s) = 1 <=> pcb[cur_PID].parent_pid = NoPid
<1> DEFINE c == cur_PID
           t0 == pcb[c].tid
           s == StacksIn(pcb, terminals)[t0]
<1>0. TypeOK /\ NoPid \notin PIDs /\ RunningIsShown /\ ~Lost
  BY ProcessAssumption DEF OnStacks, StackedUp, NoPid, PIDs
<1>1. t0 \in TIDs /\ terminals[t0] = c /\ c \in PIDs
  BY <1>0 DEF TypeOK, PCB, RunningIsShown
<1>2. s = StackIn(pcb, terminals[t0])
  BY <1>1 DEF StacksIn
<1>3. PICK d \in [PIDs -> Nat] : Stacked(process_slots, pcb, terminals, d)
  BY DEF OnStacks, StackedUp
<1> HIDE DEF s, t0
<1>4. s \in Seq(PIDs) /\ Linked(s, pcb, terminals[t0]) /\ Range(s) = JobsOn(t0)
  BY <1>0, <1>1, <1>2, <1>3, StackInIsLinked DEF TypeOK, JobsOn
<1>5. /\ s # <<>> /\ s[Len(s)] = c
      /\ \A i \in 1 .. Len(s) : pcb[s[i]].parent_pid = IF i = 1 THEN NoPid ELSE s[i - 1]
  BY <1>0, <1>1, <1>4 DEF Linked
<1>6. Len(s) \in Nat /\ Len(s) > 0 /\ Len(s) \in 1 .. Len(s)
  BY <1>4, <1>5
<1>7. pcb[c].parent_pid = IF Len(s) = 1 THEN NoPid ELSE s[Len(s) - 1]
  BY <1>5, <1>6
<1>8. Len(s) # 1 => s[Len(s) - 1] \in PIDs
  <2>1. \A i \in 1 .. Len(s) : s[i] \in PIDs
    BY <1>4
  <2>2. Len(s) # 1 => Len(s) - 1 \in 1 .. Len(s)
    <3> DEFINE n == Len(s)
    <3>1. n \in Nat /\ n > 0
      BY <1>6
    <3> HIDE DEF n
    <3>2. n # 1 => n - 1 \in 1 .. n
      BY <3>1
    <3> QED BY <3>2 DEF n
  <2> QED BY <2>1, <2>2
<1>9. Len(s) = 1 <=> pcb[c].parent_pid = NoPid
  BY <1>0, <1>7, <1>8
<1>10. Linked(s, pcb, c)
  BY <1>1, <1>4
<1> QED BY <1>1, <1>4, <1>5, <1>6, <1>7, <1>9, <1>10 DEF s, t0

(***************************************************************************)
(* A halt that returns to the parent is the end of a child: the stack of   *)
(* its terminal loses its top and the one beneath runs.                    *)
(***************************************************************************)
LEMMA HaltChildIsEndChild ==
  ASSUME OnStacks, TypeOK', StackedUp', HaltChild
  PROVE  Abstract!EndChild(pcb[cur_PID].tid)
<1> DEFINE c == cur_PID
           t0 == pcb[c].tid
           parent == pcb[c].parent_pid
           old == StacksIn(pcb, terminals)
           new == StacksIn(pcb', terminals')
           s == old[t0]
           u == Front(s)
<1>0. /\ TypeOK /\ NoPid \notin PIDs /\ ~Lost
      /\ process_slots' \in [PIDs -> {0, 1}]
      /\ pcb' \in [PIDs -> PCB]
      /\ terminals' \in [TIDs -> PIDs \cup {NoPid}]
  BY ProcessAssumption DEF OnStacks, TypeOK, NoPid, PIDs
<1>1. /\ parent \in PIDs
      /\ terminals' = [terminals EXCEPT ![t0] = parent]
      /\ view_term' = view_term /\ cur_PID' = parent
      /\ \A q \in PIDs : pcb'[q].parent_pid = pcb[q].parent_pid
  BY HaltEffect
<1>2. /\ t0 \in TIDs /\ s \in Seq(PIDs) /\ s # <<>> /\ Linked(s, pcb, c)
      /\ s[Len(s)] = c /\ Len(s) \in Nat /\ Len(s) > 0
      /\ parent = IF Len(s) = 1 THEN NoPid ELSE s[Len(s) - 1]
  BY RunningOnTop
<1>3. Len(s) \in Nat /\ Len(s) > 1 /\ parent = s[Len(s) - 1]
  <2> HIDE DEF s, parent
  <2>1. Len(s) # 1
    BY <1>0, <1>1, <1>2
  <2> DEFINE n == Len(s)
  <2>2. n \in Nat /\ n > 0 /\ n # 1
    BY <1>2, <2>1
  <2> HIDE DEF n
  <2>3. n > 1
    BY <2>2
  <2> QED BY <1>2, <2>1, <2>2, <2>3 DEF n
<1>4. PICK d \in [PIDs -> Nat] : Stacked(process_slots, pcb, terminals, d)
  BY DEF OnStacks, StackedUp
<1>5. PICK e \in [PIDs -> Nat] : Stacked(process_slots', pcb', terminals', e)
  BY DEF OnStacks, StackedUp
<1>6. /\ terminals'[t0] = parent
      /\ \A t \in TIDs \ {t0} : terminals'[t] = terminals[t]
  BY <1>0, <1>1, <1>2 DEF TypeOK
<1>7. ASSUME NEW t \in TIDs, t # t0 PROVE new[t] = old[t]
  <2> DEFINE x == StackIn(pcb, terminals[t])
  <2>1. x \in Seq(PIDs) /\ Linked(x, pcb, terminals[t])
    BY <1>0, <1>4, StackInIsLinked DEF TypeOK
  <2>2. old[t] = x /\ new[t] = StackIn(pcb', terminals'[t])
    BY DEF StacksIn
  <2> HIDE DEF x, old, new
  <2>3. \A i \in 1 .. Len(x) : x[i] \in PIDs
    BY <2>1
  <2>4. Linked(x, pcb', terminals'[t])
    BY <1>1, <1>6, <1>7, <2>1, <2>3 DEF Linked
  <2> QED BY <1>0, <1>5, <2>1, <2>2, <2>4, LinkedIsStackIn
<1>8. new[t0] = u
  <2>1. new[t0] = StackIn(pcb', terminals'[t0])
    BY <1>2 DEF StacksIn
  <2> HIDE DEF old, new, s
  <2>2. /\ u \in Seq(PIDs) /\ Len(u) = Len(s) - 1
        /\ \A i \in 1 .. Len(s) - 1 : u[i] = s[i]
    BY <1>2, <1>3 DEF Front
  <2> HIDE DEF u
  <2>3. u # <<>> /\ u[Len(u)] = parent
    <3>1. Len(u) \in 1 .. Len(s) - 1 /\ Len(u) = Len(s) - 1 /\ Len(u) # 0
      <4> DEFINE m == Len(s)
                 n == Len(u)
      <4>1. m \in Nat /\ m > 1 /\ n = m - 1
        BY <1>3, <2>2
      <4> HIDE DEF m, n
      <4>2. n \in 1 .. m - 1 /\ n # 0
        BY <4>1
      <4> QED BY <4>1, <4>2 DEF m, n
    <3>2. u # <<>>
      BY <3>1
    <3>3. u[Len(u)] = s[Len(s) - 1]
      BY <2>2, <3>1
    <3> QED BY <1>3, <3>2, <3>3
  <2>4. \A i \in 1 .. Len(s) : /\ s[i] \in PIDs
                               /\ pcb[s[i]].parent_pid = IF i = 1 THEN NoPid ELSE s[i - 1]
    <3>1. c # NoPid
      BY <1>0 DEF TypeOK
    <3> QED BY <1>2, <3>1 DEF Linked
  <2>5. ASSUME NEW i \in 1 .. Len(u)
        PROVE  pcb'[u[i]].parent_pid = IF i = 1 THEN NoPid ELSE u[i - 1]
    <3>1. i \in 1 .. Len(s) - 1 /\ i \in 1 .. Len(s)
            /\ (i # 1 => i - 1 \in 1 .. Len(s) - 1)
      <4> DEFINE m == Len(s)
                 n == Len(u)
      <4>1. m \in Nat /\ m > 1 /\ n = m - 1 /\ i \in 1 .. n
        BY <1>3, <2>2
      <4> HIDE DEF m, n
      <4>2. i \in 1 .. m - 1 /\ i \in 1 .. m /\ (i # 1 => i - 1 \in 1 .. m - 1)
        BY <4>1
      <4> QED BY <4>2 DEF m
    <3>2. u[i] = s[i] /\ (i # 1 => u[i - 1] = s[i - 1])
      BY <2>2, <3>1
    <3> QED BY <1>1, <2>4, <3>1, <3>2
  <2>6. Linked(u, pcb', terminals'[t0])
    BY <1>0, <1>1, <1>6, <2>3, <2>5 DEF Linked
  <2> QED BY <1>0, <1>2, <1>5, <2>1, <2>2, <2>6, LinkedIsStackIn
<1>9. new = [old EXCEPT ![t0] = u]
  <2>1. new = [t \in TIDs |-> new[t]] /\ old = [t \in TIDs |-> old[t]]
    BY DEF StacksIn
  <2> HIDE DEF new, old, u
  <2> QED BY <1>7, <1>8, <2>1
<1>10. /\ [t \in TIDs |-> StackOf(t)] = old
       /\ [t \in TIDs |-> StackOf(t)]' = new
  BY MappedStacks
<1> HIDE DEF old, new
<1> QED BY <1>1, <1>2, <1>3, <1>9, <1>10, SameOperators
        DEF Abstract!EndChild, Abstract!OnTop

\* The halt of a shell is the end of a shell, and a launch where the user looks.
LEMMA HaltBaseIsEndShell ==
  ASSUME OnStacks, HaltBase
  PROVE  Abstract!EndShell(pcb[cur_PID].tid)
<1> DEFINE c == cur_PID
           t0 == pcb[c].tid
           slots == [process_slots EXCEPT ![c] = 0]
           terms == [terminals EXCEPT ![t0] = NoPid]
           old == StacksIn(pcb, terminals)
           s == old[t0]
<1>0. TypeOK /\ NoPid \notin PIDs /\ ~Lost
  BY ProcessAssumption DEF OnStacks, NoPid, PIDs
<1>1. /\ terminals[t0] = c /\ t0 \in TIDs
      /\ slots \in [PIDs -> {0, 1}]
      /\ terms \in [TIDs -> PIDs \cup {NoPid}]
      /\ Launch(slots, terms, view_term, "halt")
      /\ cpu \in PIDs /\ view_term \in TIDs
      /\ c \in PIDs /\ process_slots[c] = 1
  BY BaseEffect DEF JobsOn, Jobs
<1>2. pcb[c].parent_pid = NoPid
  BY DEF HaltBase
<1>3. s # <<>> /\ s[Len(s)] = c /\ Len(s) = 1
  BY <1>2, RunningOnTop
<1>4. PICK d \in [PIDs -> Nat] : Stacked(process_slots, pcb, terminals, d)
  BY DEF OnStacks, StackedUp
<1>5. Stacked(slots, pcb, terms, d)
  BY <1>0, <1>1, <1>2, <1>4, HaltStacks DEF TypeOK
<1>6. StacksIn(pcb, terms) = [old EXCEPT ![t0] = <<>>]
  <2>1. StackIn(pcb, terms[t0]) = <<>>
    <3>1. terms[t0] = NoPid
      BY <1>0, <1>1 DEF TypeOK
    <3>2. Linked(StackIn(pcb, terms[t0]), pcb, terms[t0])
      BY <1>0, <1>1, <1>5, StackInIsLinked DEF TypeOK
    <3> QED BY <3>1, <3>2 DEF Linked
  <2>2. \A t \in TIDs \ {t0} : terms[t] = terminals[t]
    BY <1>0 DEF TypeOK
  <2> HIDE DEF terms
  <2> QED BY <1>1, <2>1, <2>2 DEF StacksIn
<1>7. Abstract!Run(StacksIn(pcb, terms), view_term) /\ view_term' = view_term
  <2> HIDE DEF slots, terms
  <2> QED BY <1>0, <1>1, <1>5, LaunchIsRun
<1>8. [t \in TIDs |-> StackOf(t)] = old
  BY MappedStacks
<1> HIDE DEF old, slots, terms
<1> QED BY <1>3, <1>6, <1>7, <1>8, SameOperators
        DEF Abstract!EndShell, Abstract!OnTop

-----------------------------------------------------------------------------

\* At boot terminal 0 has a stack of one program and the others are empty.
LEMMA InitImplements == Init => Abstract!Init
<1> SUFFICES ASSUME Init PROVE Abstract!Init
  OBVIOUS
<1> DEFINE old == StacksIn(pcb, terminals)
<1>0. 0 \in PIDs /\ 0 \in TIDs /\ NoPid \notin PIDs /\ NumSlots \in Nat
  BY ProcessAssumption DEF PIDs, TIDs, NoPid
<1>1. TypeOK /\ StackedUp /\ ~Lost /\ ~orphaned
  <2>1. 0 # NoPid
    BY DEF NoPid
  <2> QED BY <2>1, InitInductive DEF Inductive, InRange, Init, Lost
<1>2. PICK d \in [PIDs -> Nat] : Stacked(process_slots, pcb, terminals, d)
  BY <1>1 DEF StackedUp
<1>3. TypeOK
  BY <1>1
<1>4. old[0] = <<0>>
  <2>1. terminals[0] = 0 /\ pcb[0].parent_pid = NoPid
    BY <1>0 DEF Init, BootPCB
  <2> DEFINE s == <<0>>
  <2>2. s \in Seq(PIDs) /\ s # <<>> /\ Len(s) = 1 /\ s[1] = 0
    BY <1>0
  <2> HIDE DEF s
  <2>3. Linked(s, pcb, terminals[0])
    BY <1>0, <2>1, <2>2 DEF Linked
  <2>4. StackIn(pcb, terminals[0]) = s
    BY <1>0, <1>2, <1>3, <2>2, <2>3, LinkedIsStackIn DEF TypeOK
  <2> QED BY <1>0, <2>4 DEF StacksIn, s
<1>5. ASSUME NEW t \in TIDs, t # 0 PROVE old[t] = <<>>
  <2>1. terminals[t] = NoPid
    BY <1>5 DEF Init
  <2>2. Linked(StackIn(pcb, terminals[t]), pcb, terminals[t])
    BY <1>2, <1>3, StackInIsLinked DEF TypeOK
  <2> QED BY <2>1, <2>2 DEF Linked, StacksIn
<1>6. old = Abstract!Push([t \in TIDs |-> <<>>], 0, 0)
  <2>1. old = [t \in TIDs |-> old[t]]
    BY DEF StacksIn
  <2>2. Append(<<>>, 0) = <<0>>
    OBVIOUS
  <2> HIDE DEF old
  <2>3. \A t \in TIDs : old[t] = IF t = 0 THEN Append(<<>>, 0) ELSE <<>>
    BY <1>4, <1>5, <2>2
  <2> QED BY <2>1, <2>3 DEF Abstract!Push
<1>7. cur_PID = 0 /\ view_term = 0
  BY DEF Init
<1>8. [t \in TIDs |-> StackOf(t)] = old
  BY MappedStacks
<1> HIDE DEF old
<1> QED BY <1>0, <1>1, <1>6, <1>7, <1>8 DEF Abstract!Init

\* Steps that leave what the stacks are made of alone show nothing.
LEMMA HiddenStep ==
  ASSUME UNCHANGED <<pcb, terminals, view_term, cur_PID, cpu, resumed, orphaned>>
  PROVE  UNCHANGED Abstract!svars
<1>1. StacksIn(pcb', terminals') = StacksIn(pcb, terminals)
  OBVIOUS
<1> QED BY <1>1, MappedStacks DEF Abstract!svars, Lost

(***************************************************************************)
(* Every step of process control is a step of the stacks or shows nothing. *)
(***************************************************************************)
LEMMA KeptImplements ==
  ASSUME OnStacks, ~orphaned, OnStacks', ~orphaned', Next
  PROVE  Abstract!Keep \/ UNCHANGED Abstract!svars
<1> DEFINE old == StacksIn(pcb, terminals)
           new == StacksIn(pcb', terminals')
<1>0. TypeOK /\ TypeOK' /\ NoPid \notin PIDs /\ ~Lost /\ ~Lost'
  BY ProcessAssumption DEF OnStacks, NoPid, PIDs
<1>1. PICK d \in [PIDs -> Nat] : Stacked(process_slots, pcb, terminals, d)
  BY DEF OnStacks, StackedUp
<1>2. /\ [t \in TIDs |-> StackOf(t)] = old
      /\ [t \in TIDs |-> StackOf(t)]' = new
  BY MappedStacks
<1>3. CASE SysExecute
  <2>1. Launch(process_slots, terminals, view_term, "execute")
    BY <1>3 DEF SysExecute
  <2>2. Abstract!Run(old, view_term) /\ view_term' = view_term
    BY <1>0, <1>1, <2>1, LaunchIsRun DEF TypeOK
  <2> HIDE DEF old
  <2> QED BY <1>0, <1>2, <2>2 DEF Abstract!Keep, Abstract!Start
<1>4. CASE HaltBase
  <2>1. Abstract!EndShell(pcb[cur_PID].tid) /\ pcb[cur_PID].tid \in TIDs
    BY <1>4, HaltBaseIsEndShell, RunningOnTop
  <2> QED BY <1>0, <2>1 DEF Abstract!Keep
<1>5. CASE HaltChild
  <2>1. Abstract!EndChild(pcb[cur_PID].tid) /\ pcb[cur_PID].tid \in TIDs
    BY <1>5, HaltChildIsEndChild, RunningOnTop DEF OnStacks
  <2> QED BY <1>0, <2>1 DEF Abstract!Keep
<1>6. ASSUME NEW t \in TIDs, SwitchLaunch(t) PROVE Abstract!View(t)
  <2>1. /\ Launch(process_slots, terminals, t, "switch")
        /\ t # view_term /\ terminals[t] = NoPid
    BY <1>6 DEF SwitchLaunch
  <2>2. /\ Abstract!Run(old, t) /\ view_term' = t
        /\ \E p \in PIDs : process_slots[p] = 0
    BY <1>0, <1>1, <2>1, LaunchIsRun DEF TypeOK
  <2>3. \E p \in PIDs : Abstract!Free(old, p)
    BY <1>0, <1>1, <2>2, FreeSlotsAreFree DEF TypeOK
  <2>4. old[t] = <<>>
    <3>1. Linked(StackIn(pcb, terminals[t]), pcb, terminals[t])
      BY <1>0, <1>1, StackInIsLinked DEF TypeOK
    <3> QED BY <2>1, <3>1 DEF Linked, StacksIn
  <2> HIDE DEF old
  <2> QED BY <1>2, <2>1, <2>2, <2>3, <2>4 DEF Abstract!View
<1>7. ASSUME NEW t \in TIDs, SwitchView(t) PROVE Abstract!View(t)
  <2>1. /\ t # view_term /\ view_term' = t
        /\ terminals[t] # NoPid \/ Full(process_slots)
        /\ UNCHANGED <<pcb, terminals, cur_PID>>
    BY <1>7 DEF SwitchView
  <2>2. new = old
    BY <2>1
  <2>3. ~(old[t] = <<>> /\ \E p \in PIDs : Abstract!Free(old, p))
    <3>1. CASE terminals[t] # NoPid
      <4>1. Linked(StackIn(pcb, terminals[t]), pcb, terminals[t])
        BY <1>0, <1>1, StackInIsLinked DEF TypeOK
      <4> QED BY <3>1, <4>1 DEF Linked, StacksIn
    <3>2. CASE Full(process_slots)
      <4>1. \A p \in PIDs : Abstract!Free(old, p) <=> process_slots[p] = 0
        BY <1>0, <1>1, FreeSlotsAreFree DEF TypeOK
      <4>2. \A p \in PIDs : process_slots[p] = 1
        BY <3>2 DEF Full
      <4> HIDE DEF old
      <4> QED BY <4>1, <4>2
    <3> QED BY <2>1, <3>1, <3>2
  <2> HIDE DEF old, new
  <2> QED BY <1>2, <2>1, <2>2, <2>3 DEF Abstract!View
<1>8. CASE ResumedShows
  <2>1. terminals' = terminals
    BY <1>8 DEF ResumedShows, ShowParent
  <2>2. orphaned' = orphaned
    BY <1>0, <1>8, <2>1 DEF ResumedShows, ShowParent, TypeOK
  <2> QED BY <1>8, <2>1, <2>2, HiddenStep DEF ResumedShows
<1>9. ~FaultForEver /\ ~ExecuteFails /\ ~ResumedFaults
  BY <1>0 DEF FaultForEver, ExecuteFails, CanStartOrEnd, ResumedFaults,
              ShowParent, TypeOK, Lost
<1>10. ASSUME NEW t \in TIDs, TerminalSwitch(t) PROVE Abstract!Keep
  BY <1>0, <1>6, <1>7, <1>10 DEF TerminalSwitch, Abstract!Keep
<1> QED BY <1>3, <1>4, <1>5, <1>8, <1>9, <1>10 DEF Next, SysHalt

LEMMA StepImplements ==
  Inductive /\ Inductive' /\ [Next]_vars => [Abstract!Next]_(Abstract!svars)
<1>1. ASSUME Inductive, Inductive', Next, ~Lost', ~orphaned'
      PROVE  Abstract!Next \/ UNCHANGED Abstract!svars
  <2>1. ~Lost /\ ~orphaned
    BY <1>1, LostOrOrphanedStays DEF Inductive, InRange
  <2>2. OnStacks /\ OnStacks'
    BY <1>1, <2>1 DEF Inductive, InRange, OnStacks
  <2> QED BY <1>1, <2>1, <2>2, KeptImplements DEF Abstract!Next
<1>2. ASSUME Lost' \/ orphaned' PROVE Abstract!Next
  BY <1>2 DEF Abstract!Next, Abstract!Break
<1>3. ASSUME UNCHANGED vars PROVE UNCHANGED Abstract!svars
  BY <1>3, HiddenStep DEF vars
<1> QED BY <1>1, <1>2, <1>3

(***************************************************************************)
(* Process control implements one stack of programs per terminal, for any  *)
(* number of slots and terminals and whatever the user does, until a halt  *)
(* that is returned into takes a terminal's program or the kernel is lost. *)
(***************************************************************************)
THEOREM ImplementsStacksCorrect == Spec => ImplementsStacks
<1> QED BY InitImplements, StepImplements, InductiveHolds, PTL
        DEF Spec, ImplementsStacks, Abstract!Spec

=============================================================================
