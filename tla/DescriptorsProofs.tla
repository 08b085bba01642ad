------------------------- MODULE DescriptorsProofs -------------------------
(***************************************************************************)
(* Proofs about the descriptors, for any number of slots, terminals and    *)
(* descriptors.  They rest on process control: the descriptors' steps are  *)
(* steps of Process or leave its variables alone, so what is proved of it  *)
(* holds here too; EntryChanges then lists all that can happen to an entry.*)
(***************************************************************************)
EXTENDS Descriptors, ProcessProofs

\* Descriptors never stop or steer process control.
LEMMA FdStepIsStep == [FdNext]_fdVars => [Next]_vars
<1> SUFFICES ASSUME [FdNext]_fdVars PROVE [Next]_vars
  OBVIOUS
<1>1. CASE FdStart
  BY <1>1 DEF FdStart, Next, TerminalSwitch
<1>2. CASE FdHaltBase
  BY <1>2 DEF FdHaltBase, Next, SysHalt
<1>3. CASE FdHaltChild
  BY <1>3 DEF FdHaltChild, Next, SysHalt
<1>4. CASE FdSwitch
  BY <1>4 DEF FdSwitch, Next, TerminalSwitch
<1>5. ASSUME NEW type \in FileTypes, Open(type) PROVE [Next]_vars
  BY <1>5 DEF Open, Calling
<1>6. ASSUME NEW f \in FDs, Close(f) PROVE [Next]_vars
  BY <1>6 DEF Close, Calling
<1>7. ASSUME NEW f \in FDs, NEW n \in Sizes, Read(f, n) PROVE [Next]_vars
  BY <1>7 DEF Read, Calling
<1>8. ASSUME NEW f \in FDs, NEW hz \in Hertz, WriteRtc(f, hz) PROVE [Next]_vars
  BY <1>8 DEF WriteRtc, Calling
<1>9. CASE UNCHANGED fdVars
  BY <1>9 DEF fdVars
<1> QED BY <1>1, <1>2, <1>3, <1>4, <1>5, <1>6, <1>7, <1>8, <1>9 DEF FdNext

(***************************************************************************)
(* A system with descriptors is a system of processes: every behaviour of  *)
(* it is one of Process, and has what is proved of Process.                *)
(***************************************************************************)
THEOREM ImplementsProcess == FdSpec => Spec
<1> QED BY FdStepIsStep, PTL DEF FdSpec, FdInit, Spec

-----------------------------------------------------------------------------

\* Nothing happens once the kernel is lost.
LEMMA NotLostYet ==
  ASSUME TypeOK, FdNext
  PROVE  ~Lost /\ cur_PID \in PIDs
<1>1. Next \/ cpu # NoPid
  BY DEF FdNext, FdStart, FdHaltBase, FdHaltChild, FdSwitch, Open, Close, Read,
         WriteRtc, Calling, Next, SysHalt, TerminalSwitch
<1>2. ~Lost
  BY <1>1, LostOrOrphanedStays DEF Lost
<1> QED BY <1>2 DEF TypeOK

\* What a step may do to entry f of program p.
Untouched(p, f) ==
  /\ fd_arr'[p][f] = fd_arr[p][f]
  /\ ~Lost' => (Live(p)' => Live(p))
Started(p, f) == p = cur_PID' /\ fd_arr'[p][f] = FreshTable[f]
Closed(p, f) ==
  /\ Closable(fd_arr[p], f)
  /\ fd_arr'[p][f] = [fd_arr[p][f] EXCEPT !.flags = 0]
  /\ Live(p)' => Live(p)
OpenedNow(p, f) ==
  /\ p = cur_PID /\ cpu # NoPid /\ held' = [held EXCEPT ![cpu] = @ \cup {f}]
  /\ fd_arr[p][f].flags = 0
  /\ \E type \in FileTypes : fd_arr'[p][f] = Opened(fd_arr[p][f], type)
  /\ Live(p)' => Live(p)
ReadNow(p, f) ==
  /\ fd_arr[p][f].fops \in {"dir", "file"}
  /\ fd_arr[p][f].fpos < EndOf(fd_arr[p][f])
  /\ \E n \in Sizes : fd_arr'[p][f] =
       [fd_arr[p][f] EXCEPT !.fpos = @ + Advance(fd_arr[p][f], n)]
  /\ Live(p)' => Live(p)

\* Ending one program makes no other program live but the one started.
LEMMA LaunchLives ==
  ASSUME NEW slots \in [PIDs -> {0, 1}], NEW terms, NEW v, NEW from,
         Launch(slots, terms, v, from), TypeOK,
         NEW p \in PIDs, p # cur_PID', \A q \in PIDs : slots[q] = 1 => Live(q)
  PROVE  Live(p)' => Live(p)
<1>1. PICK q \in PIDs : process_slots' = [slots EXCEPT ![q] = 1] /\ cur_PID' = q
  BY DEF Launch
<1> QED BY <1>1 DEF Live

LEMMA EntryChanges ==
  ASSUME FdTypeOK, TypeOK, TypeOK', FdNext, NEW p \in PIDs, NEW f \in FDs
  PROVE  \/ Untouched(p, f) \/ Started(p, f) \/ Closed(p, f)
         \/ OpenedNow(p, f) \/ ReadNow(p, f)
<1>0. /\ fd_arr \in [PIDs -> [FDs -> FileDescriptor]]
      /\ cur_PID \in PIDs
      /\ process_slots \in [PIDs -> {0, 1}]
  BY NotLostYet DEF FdTypeOK, TypeOK
<1>a. CloseAll(fd_arr[p])[f] =
        IF Closable(fd_arr[p], f) THEN [fd_arr[p][f] EXCEPT !.flags = 0]
        ELSE fd_arr[p][f]
  <2>1. fd_arr[p][f] \in FileDescriptor
    BY <1>0
  <2>2. [fd_arr[p][f] EXCEPT !.flags = fd_arr[p][f].flags] = fd_arr[p][f]
    BY <2>1 DEF FileDescriptor
  <2> QED BY <2>2 DEF CloseAll
<1>1. CASE FdStart
  <2>1. fd_arr' = [fd_arr EXCEPT ![cur_PID'] = FreshTable]
    BY <1>1 DEF FdStart
  <2>2. ASSUME p # cur_PID' PROVE Live(p)' => Live(p)
    BY <1>0, <1>1, <2>2, LaunchLives
       DEF FdStart, SysExecute, SwitchLaunch, Live
  <2> QED BY <1>0, <2>1, <2>2 DEF Untouched, Started
<1>2. CASE FdHaltBase
  <2>1. fd_arr'[p] = IF p = cur_PID' THEN FreshTable
                     ELSE IF p = cur_PID THEN CloseAll(fd_arr[p]) ELSE fd_arr[p]
    BY <1>0, <1>2 DEF FdHaltBase
  <2>2. ASSUME p # cur_PID' PROVE Live(p)' => Live(p)
    <3> DEFINE slots == [process_slots EXCEPT ![cur_PID] = 0]
    <3>1. /\ slots \in [PIDs -> {0, 1}]
          /\ \A q \in PIDs : slots[q] = 1 => Live(q)
      BY <1>0 DEF Live
    <3>2. Launch(slots, ShowJob(terminals, pcb[cur_PID].tid, NoPid),
                 view_term, "halt")
      BY <1>2 DEF FdHaltBase, HaltBase, FreeSlot
    <3> HIDE DEF slots
    <3> QED BY <2>2, <3>1, <3>2, LaunchLives
  <2> QED BY <1>a, <2>1, <2>2 DEF Untouched, Started, Closed
<1>3. CASE FdHaltChild
  <2>1. fd_arr'[p] = IF p = cur_PID' THEN CloseAll(fd_arr[p]) ELSE fd_arr[p]
    BY <1>0, <1>3 DEF FdHaltChild
  <2>2. Live(p)' => Live(p)
    BY <1>0, <1>3 DEF FdHaltChild, HaltChild, FreeSlot, Live
  <2> QED BY <1>a, <2>1, <2>2 DEF Untouched, Closed
<1>4. CASE FdSwitch
  <2>1. fd_arr' = fd_arr
    BY <1>4 DEF FdSwitch
  <2>2. CASE ExecuteFails
    BY <2>1, <2>2 DEF ExecuteFails, CanStartOrEnd, TypeOK, Untouched, Lost
  <2>3. CASE ~ExecuteFails
    <3>1. Live(p)' => Live(p)
      BY <1>0, <1>4, <2>3
         DEF FdSwitch, FaultForEver, ResumedShows, ResumedFaults, SwitchView,
             FreeSlot, Live
    <3> QED BY <2>1, <3>1 DEF Untouched
  <2> QED BY <2>2, <2>3
<1>5. ASSUME NEW type \in FileTypes, Open(type)
      PROVE  Untouched(p, f) \/ OpenedNow(p, f)
  <2>1. PICK g \in FDs :
          /\ LowestFree(fd_arr[cur_PID], g)
          /\ fd_arr' = [fd_arr EXCEPT ![cur_PID][g] = Opened(@, type)]
          /\ held' = [held EXCEPT ![cpu] = @ \cup {g}]
          /\ cpu # NoPid /\ UNCHANGED vars
    BY <1>5 DEF Open, RunningPCB, Calling
  <2>2. Live(p)' => Live(p)
    BY <2>1 DEF vars, Live
  <2>3. CASE p = cur_PID /\ f = g
    BY <1>0, <2>1, <2>2, <2>3 DEF OpenedNow, LowestFree
  <2>4. CASE ~(p = cur_PID /\ f = g)
    BY <1>0, <2>1, <2>2, <2>4 DEF Untouched
  <2> QED BY <2>3, <2>4
<1>6. ASSUME NEW g \in FDs, Close(g) PROVE Untouched(p, f) \/ Closed(p, f)
  <2>1. /\ Closable(fd_arr[cur_PID], g) /\ UNCHANGED vars
        /\ fd_arr' = [fd_arr EXCEPT ![cur_PID][g].flags = 0]
    BY <1>6 DEF Close, RunningPCB, Calling
  <2>2. Live(p)' => Live(p)
    BY <2>1 DEF vars, Live
  <2> QED BY <1>0, <2>1, <2>2 DEF Untouched, Closed
<1>7. ASSUME NEW g \in FDs, NEW n \in Sizes, Read(g, n)
      PROVE  Untouched(p, f) \/ ReadNow(p, f)
  <2> DEFINE e == fd_arr[cur_PID][g]
  <2>1. /\ e.fops \in {"dir", "file"} /\ e.fpos < EndOf(e) /\ UNCHANGED vars
        /\ fd_arr' = [fd_arr EXCEPT ![cur_PID][g].fpos = @ + Advance(e, n)]
    BY <1>7 DEF Read, RunningPCB, Calling
  <2>2. Live(p)' => Live(p)
    BY <2>1 DEF vars, Live
  <2> QED BY <1>0, <2>1, <2>2 DEF Untouched, ReadNow
<1>8. ASSUME NEW g \in FDs, NEW hz \in Hertz, WriteRtc(g, hz)
      PROVE  Untouched(p, f)
  BY <1>8 DEF WriteRtc, Calling, vars, Untouched, Live
<1> QED BY <1>1, <1>2, <1>3, <1>4, <1>5, <1>6, <1>7, <1>8 DEF FdNext

-----------------------------------------------------------------------------

LEMMA FreshTableTyped ==
  /\ FreshTable \in [FDs -> FileDescriptor]
  /\ \A f \in FDs :
       /\ f \in Nat
       /\ FreshTable[f].fpos = 0
       /\ FreshTable[f].flags # 0 => f \in {0, 1} /\ FreshTable[f].fops # "nul"
       /\ FreshTable[f].fops \in {"stdin", "stdout", "nul"}
<1> SUFFICES ASSUME NEW f \in FDs
             PROVE  /\ FreshTable[f] \in FileDescriptor
                    /\ f \in Nat
                    /\ FreshTable[f].fpos = 0
                    /\ FreshTable[f].flags # 0 =>
                         f \in {0, 1} /\ FreshTable[f].fops # "nul"
                    /\ FreshTable[f].fops \in {"stdin", "stdout", "nul"}
  BY DEF FreshTable
<1>1. f \in Nat
  BY DescriptorsAssumption DEF FDs
<1>2. CASE f = 0
  BY <1>2 DEF FreshTable, FileDescriptor
<1>3. CASE f = 1
  BY <1>3 DEF FreshTable, FileDescriptor
<1>4. CASE f > 1
  BY <1>1, <1>4 DEF FreshTable, FileDescriptor
<1> QED BY <1>1, <1>2, <1>3, <1>4

LEMMA FdInitTypeOK == FdInit => FdTypeOK
<1> SUFFICES ASSUME FdInit PROVE FdTypeOK
  OBVIOUS
<1>1. /\ FreshTable \in [FDs -> FileDescriptor]
      /\ \A f \in FDs : FreshTable[f].flags # 0 => FreshTable[f].fops # "nul"
  BY FreshTableTyped
<1>2. /\ ZeroTable \in [FDs -> FileDescriptor]
      /\ \A f \in FDs : ZeroTable[f].flags = 0
  BY DEF ZeroTable, FileDescriptor
<1>3. \A p \in PIDs : fd_arr[p] = IF p = 0 THEN FreshTable ELSE ZeroTable
  BY DEF FdInit
<1>4. fd_arr \in [PIDs -> [FDs -> FileDescriptor]]
  BY <1>1, <1>2 DEF FdInit
<1> HIDE DEF FreshTable, ZeroTable
<1>5. \A p \in PIDs, f \in FDs : IsOpen(p, f) => fd_arr[p][f].fops # "nul"
  BY <1>1, <1>2, <1>3 DEF IsOpen
<1> QED BY <1>4, <1>5, DescriptorsAssumption DEF FdInit, FdTypeOK

\* An entry that satisfies FdTypeOK still does after whatever a step does.
LEMMA EntryStaysTyped ==
  ASSUME FdTypeOK, TypeOK, TypeOK', FdNext, NEW p \in PIDs, NEW f \in FDs
  PROVE  /\ fd_arr'[p][f] \in FileDescriptor
         /\ fd_arr'[p][f].flags # 0 => fd_arr'[p][f].fops # "nul"
<1> DEFINE e == fd_arr[p][f]
<1>0. e \in FileDescriptor /\ (e.flags # 0 => e.fops # "nul")
  BY DEF FdTypeOK, IsOpen
<1>1. CASE Untouched(p, f)
  BY <1>0, <1>1 DEF Untouched
<1>2. CASE Started(p, f)
  BY <1>2, FreshTableTyped DEF Started
<1>3. CASE Closed(p, f)
  BY <1>0, <1>3 DEF Closed, FileDescriptor
<1>4. CASE OpenedNow(p, f)
  BY <1>4 DEF OpenedNow, Opened, FileDescriptor, FileTypes
<1>5. CASE ReadNow(p, f)
  <2>1. PICK n \in Sizes : fd_arr'[p][f] = [e EXCEPT !.fpos = @ + Advance(e, n)]
    BY <1>5 DEF ReadNow
  <2>2. e.fpos + Advance(e, n) \in Nat
    <3>1. e.fpos \in Nat /\ n \in Nat /\ FileLen \in Nat
      BY <1>0, DescriptorsAssumption DEF FileDescriptor
    <3> QED BY <1>5, <3>1 DEF ReadNow, Advance, EndOf
  <2> QED BY <1>0, <2>1, <2>2 DEF FileDescriptor
<1> QED BY <1>1, <1>2, <1>3, <1>4, <1>5, EntryChanges

\* The tables stay tables.
Shaped(tables) ==
  /\ tables = [p \in PIDs |-> tables[p]]
  /\ \A p \in PIDs : tables[p] = [f \in FDs |-> tables[p][f]]

LEMMA FdNextShape ==
  ASSUME FdTypeOK, TypeOK, TypeOK', FdNext
  PROVE  /\ Shaped(fd_arr')
         /\ rtc_freq' \in Hertz /\ held' \in [PIDs -> SUBSET FDs]
<1>0. /\ fd_arr \in [PIDs -> [FDs -> FileDescriptor]]
      /\ cur_PID \in PIDs
      /\ rtc_freq \in Hertz /\ held \in [PIDs -> SUBSET FDs]
      /\ cpu \in PIDs \cup {NoPid}
      /\ 2 \in Hertz
  BY DescriptorsAssumption, NotLostYet DEF FdTypeOK, TypeOK
<1>a. ASSUME NEW tables, Shaped(tables), NEW q,
             NEW table, table = [f \in FDs |-> table[f]]
      PROVE  Shaped([tables EXCEPT ![q] = table])
  BY <1>a DEF Shaped
<1>b. Shaped(fd_arr)
  BY <1>0 DEF Shaped
<1>1. CASE FdStart
  BY <1>0, <1>a, <1>b, <1>1 DEF FdStart, FreshTable
<1>2. CASE FdHaltBase
  <2> DEFINE closed == [fd_arr EXCEPT ![cur_PID] = CloseAll(fd_arr[cur_PID])]
  <2>1. Shaped(closed)
    BY <1>a, <1>b DEF CloseAll
  <2>2. fd_arr' = [closed EXCEPT ![cur_PID'] = FreshTable]
    BY <1>2 DEF FdHaltBase
  <2>3. rtc_freq' = rtc_freq /\ held' = [held EXCEPT ![cur_PID'] = {}]
    BY <1>2 DEF FdHaltBase
  <2> HIDE DEF closed
  <2>4. Shaped(fd_arr')
    BY <1>a, <2>1, <2>2 DEF FreshTable
  <2> QED BY <1>0, <2>3, <2>4
<1>3. CASE FdHaltChild
  BY <1>0, <1>a, <1>b, <1>3 DEF FdHaltChild, CloseAll
<1>4. CASE FdSwitch
  BY <1>0, <1>b, <1>4 DEF FdSwitch
<1>5. ASSUME NEW type \in FileTypes, Open(type)
      PROVE  /\ Shaped(fd_arr')
             /\ rtc_freq' \in Hertz /\ held' \in [PIDs -> SUBSET FDs]
  <2>1. PICK g \in FDs :
          /\ fd_arr' = [fd_arr EXCEPT ![cur_PID][g] = Opened(@, type)]
          /\ rtc_freq' = IF type = "rtc" THEN 2 ELSE rtc_freq
          /\ held' = [held EXCEPT ![cpu] = @ \cup {g}]
    BY <1>5 DEF Open, RunningPCB
  <2>2. Shaped(fd_arr')
    BY <1>b, <2>1 DEF Shaped
  <2>3. held' \in [PIDs -> SUBSET FDs]
    BY <1>0, <2>1
  <2> QED BY <1>0, <2>1, <2>2, <2>3
<1>6. ASSUME NEW g \in FDs, Close(g)
      PROVE  /\ Shaped(fd_arr')
             /\ rtc_freq' \in Hertz /\ held' \in [PIDs -> SUBSET FDs]
  BY <1>0, <1>b, <1>6 DEF Close, RunningPCB, Shaped
<1>7. ASSUME NEW g \in FDs, NEW n \in Sizes, Read(g, n)
      PROVE  /\ Shaped(fd_arr')
             /\ rtc_freq' \in Hertz /\ held' \in [PIDs -> SUBSET FDs]
  BY <1>0, <1>b, <1>7 DEF Read, RunningPCB, Shaped
<1>8. ASSUME NEW g \in FDs, NEW hz \in Hertz, WriteRtc(g, hz)
      PROVE  /\ Shaped(fd_arr')
             /\ rtc_freq' \in Hertz /\ held' \in [PIDs -> SUBSET FDs]
  BY <1>0, <1>b, <1>8 DEF WriteRtc
<1> QED BY <1>1, <1>2, <1>3, <1>4, <1>5, <1>6, <1>7, <1>8 DEF FdNext

LEMMA FdNextTypeOK ==
  FdTypeOK /\ TypeOK /\ TypeOK' /\ [FdNext]_fdVars => FdTypeOK'
<1> SUFFICES ASSUME FdTypeOK, TypeOK, TypeOK', [FdNext]_fdVars
             PROVE  FdTypeOK'
  OBVIOUS
<1>1. CASE FdNext
  <2>1. \A p \in PIDs, f \in FDs :
          /\ fd_arr'[p][f] \in FileDescriptor
          /\ fd_arr'[p][f].flags # 0 => fd_arr'[p][f].fops # "nul"
    BY <1>1, EntryStaysTyped
  <2>2. /\ Shaped(fd_arr')
        /\ rtc_freq' \in Hertz /\ held' \in [PIDs -> SUBSET FDs]
    BY <1>1, FdNextShape
  <2>3. fd_arr' \in [PIDs -> [FDs -> FileDescriptor]]
    BY <2>1, <2>2 DEF Shaped
  <2> QED BY <2>1, <2>2, <2>3 DEF FdTypeOK, IsOpen
<1>2. CASE UNCHANGED fdVars
  BY <1>2 DEF fdVars, FdTypeOK, IsOpen
<1> QED BY <1>1, <1>2

(***************************************************************************)
(* Entries stay in range, and an open one has file operations to call, in  *)
(* every reachable state.                                                  *)
(***************************************************************************)
THEOREM FdTypeCorrect == FdSpec => []FdTypeOK
<1> QED BY FdInitTypeOK, FdNextTypeOK, ImplementsProcess, TypeCorrect, PTL
        DEF FdSpec

-----------------------------------------------------------------------------

\* A program that lives after a step lived before it, or has just started.
LEMMA StreamsKept ==
  ASSUME FdTypeOK, TypeOK, TypeOK', FdNext, StandardStreams, ~Lost',
         NEW p \in PIDs, Live(p)', NEW f \in {0, 1}
  PROVE  /\ fd_arr'[p][f].flags # 0
         /\ fd_arr'[p][f].fops = IF f = 0 THEN "stdin" ELSE "stdout"
<1>0. f \in FDs /\ ~Lost
  BY DescriptorsAssumption, NotLostYet DEF FDs
<1>1. Live(p) => /\ fd_arr[p][f].flags # 0
                 /\ fd_arr[p][f].fops = IF f = 0 THEN "stdin" ELSE "stdout"
  BY <1>0 DEF StandardStreams, IsOpen
<1>2. CASE Untouched(p, f)
  BY <1>1, <1>2 DEF Untouched
<1>3. CASE Started(p, f)
  BY <1>0, <1>3 DEF Started, FreshTable
<1>4. CASE Closed(p, f)
  BY <1>4 DEF Closed, Closable
<1>5. CASE OpenedNow(p, f)
  BY <1>1, <1>5 DEF OpenedNow
<1>6. CASE ReadNow(p, f)
  BY <1>1, <1>6 DEF ReadNow
<1> QED BY <1>0, <1>2, <1>3, <1>4, <1>5, <1>6, EntryChanges

(***************************************************************************)
(* Every live program has stdin and stdout as long as the kernel has one   *)
(* to run: no sequence of opens, closes, launches and halts takes them     *)
(* away.                                                                   *)
(***************************************************************************)
THEOREM StandardStreamsCorrect == FdSpec => []StandardStreams
<1>1. FdInit => StandardStreams
  BY DescriptorsAssumption
     DEF FdInit, Init, StandardStreams, IsOpen, Live, FreshTable, FDs, PIDs
<1>2. FdTypeOK /\ TypeOK /\ TypeOK' /\ StandardStreams /\ [FdNext]_fdVars
        => StandardStreams'
  <2> SUFFICES ASSUME FdTypeOK, TypeOK, TypeOK', StandardStreams,
                      [FdNext]_fdVars
               PROVE  StandardStreams'
    OBVIOUS
  <2>1. CASE FdNext
    <3> SUFFICES ASSUME NEW p \in PIDs, Live(p)', ~Lost'
                 PROVE  /\ fd_arr'[p][0].flags # 0
                        /\ fd_arr'[p][0].fops = "stdin"
                        /\ fd_arr'[p][1].flags # 0
                        /\ fd_arr'[p][1].fops = "stdout"
      BY DEF StandardStreams, IsOpen
    <3>1. \A f \in {0, 1} :
            /\ fd_arr'[p][f].flags # 0
            /\ fd_arr'[p][f].fops = IF f = 0 THEN "stdin" ELSE "stdout"
      BY <2>1, StreamsKept
    <3> QED BY <3>1
  <2>2. CASE UNCHANGED fdVars
    BY <2>2 DEF fdVars, vars, StandardStreams, IsOpen, Live, Lost
  <2> QED BY <2>1, <2>2
<1> QED BY <1>1, <1>2, FdTypeCorrect, ImplementsProcess, TypeCorrect, PTL
        DEF FdSpec

(***************************************************************************)
(* No position is ever past the end of what its entry is open on.          *)
(***************************************************************************)
LEMMA PositionKept ==
  ASSUME FdTypeOK, TypeOK, TypeOK', FdNext, PositionsInRange,
         NEW p \in PIDs, NEW f \in FDs,
         fd_arr'[p][f].flags # 0, fd_arr'[p][f].fops \in {"dir", "file"}
  PROVE  fd_arr'[p][f].fpos <= EndOf(fd_arr'[p][f])
<1> DEFINE e == fd_arr[p][f]
<1>0. e \in FileDescriptor /\ FileLen \in Nat /\ DirLen \in Nat
  BY DescriptorsAssumption DEF FdTypeOK
<1>1. e.flags # 0 /\ e.fops \in {"dir", "file"} => e.fpos <= EndOf(e)
  BY DEF PositionsInRange, IsOpen
<1>2. CASE Untouched(p, f)
  BY <1>1, <1>2 DEF Untouched
<1>3. CASE Started(p, f)
  BY <1>3, FreshTableTyped DEF Started
<1>4. CASE Closed(p, f)
  BY <1>0, <1>4 DEF Closed, FileDescriptor
<1>5. CASE OpenedNow(p, f)
  BY <1>0, <1>5 DEF OpenedNow, Opened, EndOf
<1>6. CASE ReadNow(p, f)
  <2>1. PICK n \in Sizes : fd_arr'[p][f] = [e EXCEPT !.fpos = @ + Advance(e, n)]
    BY <1>6 DEF ReadNow
  <2>2. /\ fd_arr'[p][f].fpos = e.fpos + Advance(e, n)
        /\ fd_arr'[p][f].fops = e.fops
    BY <1>0, <2>1 DEF FileDescriptor
  <2>3. e.fpos + Advance(e, n) <= EndOf(e)
    <3>1. e.fpos \in Nat /\ n \in Nat
      BY <1>0, DescriptorsAssumption DEF FileDescriptor
    <3> QED BY <1>0, <1>6, <3>1 DEF ReadNow, Advance, EndOf
  <2> QED BY <2>2, <2>3 DEF EndOf
<1> QED BY <1>2, <1>3, <1>4, <1>5, <1>6, EntryChanges

\* No descriptor's position passes the end of its file or directory.
THEOREM PositionsCorrect == FdSpec => []PositionsInRange
<1>1. FdInit => PositionsInRange
  <2> SUFFICES ASSUME FdInit, NEW p \in PIDs, NEW f \in FDs
               PROVE  ~(IsOpen(p, f) /\ fd_arr[p][f].fops \in {"dir", "file"})
    BY DEF PositionsInRange
  <2>1. fd_arr[p][f] = IF p = 0 THEN FreshTable[f] ELSE ZeroTable[f]
    BY DEF FdInit
  <2> QED BY <2>1, FreshTableTyped DEF ZeroTable, IsOpen
<1>2. FdTypeOK /\ TypeOK /\ TypeOK' /\ PositionsInRange /\ [FdNext]_fdVars
        => PositionsInRange'
  <2> SUFFICES ASSUME FdTypeOK, TypeOK, TypeOK', PositionsInRange,
                      [FdNext]_fdVars
               PROVE  PositionsInRange'
    OBVIOUS
  <2>1. CASE FdNext
    <3> SUFFICES ASSUME NEW p \in PIDs, NEW f \in FDs,
                        fd_arr'[p][f].flags # 0,
                        fd_arr'[p][f].fops \in {"dir", "file"}
                 PROVE  fd_arr'[p][f].fpos <= EndOf(fd_arr'[p][f])
      BY DEF PositionsInRange, IsOpen, EndOf
    <3> QED BY <2>1, PositionKept
  <2>2. CASE UNCHANGED fdVars
    BY <2>2 DEF fdVars, PositionsInRange, IsOpen, EndOf
  <2> QED BY <2>1, <2>2
<1> QED BY <1>1, <1>2, FdTypeCorrect, ImplementsProcess, TypeCorrect, PTL
        DEF FdSpec

-----------------------------------------------------------------------------

\* What a program holds it goes on holding, until it closes it or is replaced.
LEMMA HeldKept ==
  ASSUME FdTypeOK, TypeOK, TypeOK', FdNext, cpu \in {cur_PID, NoPid},
         NEW p \in PIDs, NEW f \in FDs, f \in held[p]
  PROVE  f \in held'[p] \/ fd_arr'[p][f].flags = 0 \/ fd_arr'[p] = FreshTable
<1>0. /\ fd_arr \in [PIDs -> [FDs -> FileDescriptor]]
      /\ held \in [PIDs -> SUBSET FDs]
      /\ cur_PID \in PIDs
  BY NotLostYet DEF FdTypeOK, TypeOK
<1>1. CASE FdStart
  BY <1>0, <1>1 DEF FdStart
<1>2. CASE FdHaltBase
  BY <1>0, <1>2 DEF FdHaltBase
<1>3. CASE FdHaltChild
  BY <1>3 DEF FdHaltChild
<1>4. CASE FdSwitch
  BY <1>4 DEF FdSwitch
<1>5. ASSUME NEW type \in FileTypes, Open(type) PROVE f \in held'[p]
  BY <1>0, <1>5 DEF Open
<1>6. ASSUME NEW g \in FDs, Close(g)
      PROVE  f \in held'[p] \/ fd_arr'[p][f].flags = 0
  <2>1. /\ cpu = cur_PID
        /\ fd_arr' = [fd_arr EXCEPT ![cur_PID][g].flags = 0]
        /\ held' = [held EXCEPT ![cpu] = @ \ {g}]
    BY <1>6 DEF Close, Calling, RunningPCB
  <2>2. CASE p = cur_PID /\ f = g
    BY <1>0, <2>1, <2>2 DEF FileDescriptor
  <2>3. CASE ~(p = cur_PID /\ f = g)
    BY <1>0, <2>1, <2>3
  <2> QED BY <2>2, <2>3
<1>7. ASSUME NEW g \in FDs, NEW n \in Sizes, Read(g, n) PROVE f \in held'[p]
  BY <1>7 DEF Read
<1>8. ASSUME NEW g \in FDs, NEW hz \in Hertz, WriteRtc(g, hz)
      PROVE  f \in held'[p]
  BY <1>8 DEF WriteRtc
<1> QED BY <1>1, <1>2, <1>3, <1>4, <1>5, <1>6, <1>7, <1>8 DEF FdNext

LEMMA OpenIsHeld ==
  ASSUME FdTypeOK, TypeOK, TypeOK', FdNext, cpu \in {cur_PID, NoPid},
         NoForeignFiles, ~Lost',
         NEW p \in PIDs, Live(p)', NEW f \in FDs, fd_arr'[p][f].flags # 0
  PROVE  f \in held'[p] \cup {0, 1}
<1>0. /\ held \in [PIDs -> SUBSET FDs] /\ fd_arr[p][f] \in FileDescriptor
      /\ ~Lost
  BY NotLostYet DEF FdTypeOK
<1>1. ASSUME Live(p), fd_arr[p][f].flags # 0
      PROVE  f \in held'[p] \cup {0, 1}
  <2>1. f \in held[p] \cup {0, 1}
    BY <1>0, <1>1 DEF NoForeignFiles, IsOpen
  <2> QED BY <2>1, HeldKept, FreshTableTyped
<1>2. CASE Untouched(p, f)
  BY <1>1, <1>2 DEF Untouched
<1>3. CASE Started(p, f)
  BY <1>3, FreshTableTyped DEF Started
<1>4. CASE Closed(p, f)
  BY <1>0, <1>4 DEF Closed, FileDescriptor
<1>5. CASE OpenedNow(p, f)
  BY <1>0, <1>5 DEF OpenedNow
<1>6. CASE ReadNow(p, f)
  <2>1. Live(p) /\ fd_arr'[p][f].flags = fd_arr[p][f].flags
    BY <1>0, <1>6 DEF ReadNow, FileDescriptor
  <2> QED BY <1>1, <2>1
<1> QED BY <1>2, <1>3, <1>4, <1>5, <1>6, EntryChanges

(***************************************************************************)
(* While programs start and end in view, what is open in a live program is *)
(* what it opened itself.  Otherwise the calls of one program work on the  *)
(* table of another, and the theorem's assumption cannot be dropped.       *)
(***************************************************************************)
THEOREM NoForeignFilesCorrect == ASSUME Focused PROVE FdSpec => []NoForeignFiles
<1>1. FdInit => NoForeignFiles
  <2> SUFFICES ASSUME FdInit, NEW p \in PIDs, Live(p), NEW f \in FDs,
                      fd_arr[p][f].flags # 0
               PROVE  f \in {0, 1}
    BY DEF NoForeignFiles, IsOpen
  <2>1. fd_arr[p][f] = FreshTable[f]
    BY DEF FdInit, Init, Live
  <2> QED BY <2>1, FreshTableTyped
<1>2. FdTypeOK /\ TypeOK /\ TypeOK' /\ CallersWait /\ NoForeignFiles
        /\ [FdNext]_fdVars => NoForeignFiles'
  <2> SUFFICES ASSUME FdTypeOK, TypeOK, TypeOK', CallersWait, NoForeignFiles,
                      [FdNext]_fdVars
               PROVE  NoForeignFiles'
    OBVIOUS
  <2>1. CASE FdNext
    <3> SUFFICES ASSUME NEW p \in PIDs, Live(p)', ~Lost', NEW f \in FDs,
                        fd_arr'[p][f].flags # 0
                 PROVE  f \in held'[p] \cup {0, 1}
      BY DEF NoForeignFiles, IsOpen
    <3> QED BY <2>1, OpenIsHeld DEF CallersWait, Lost
  <2>2. CASE UNCHANGED fdVars
    BY <2>2 DEF fdVars, vars, NoForeignFiles, IsOpen, Live, Lost
  <2> QED BY <2>1, <2>2
<1>3. Spec => []CallersWait
  BY CallersWaitCorrect
<1> QED BY <1>1, <1>2, <1>3, FdTypeCorrect, ImplementsProcess, TypeCorrect, PTL
        DEF FdSpec

=============================================================================
