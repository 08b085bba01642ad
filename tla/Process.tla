------------------------------- MODULE Process -------------------------------
(***************************************************************************)
(* Process control: the slot table, the process control blocks, the job    *)
(* that each terminal shows, and the three ways the CPU changes hands:     *)
(* system_execute, system_halt (process.c) and terminal_switch             *)
(* (terminal.c), which the keyboard interrupt calls for Alt+F1..F3.        *)
(*                                                                         *)
(* system_execute and system_halt run with interrupts off from their first *)
(* statement to the sti just before the iret or jump that ends them, and   *)
(* terminal_switch runs inside an interrupt gate, so each is one atomic    *)
(* action here.  (A keyboard interrupt taken between that sti and the iret *)
(* parks the program before its first instruction instead of after it.)    *)
(* IRQ 0 is never unmasked (pit.c:26 is a comment), so the timer hands     *)
(* over nothing and these actions are all the context switches there are.  *)
(*                                                                         *)
(* A failed check_exec returns before any of this state changes and a full *)
(* slot table makes system_execute return with nothing done: both are      *)
(* stuttering steps of the syscall and have no action.  Reading the image  *)
(* fails (process.c:326) if the file system lacks one of its blocks; the *)
(* shell has been loaded at boot and the file system is never written, so  *)
(* only the execute system call meets that (ExecuteFails).  Reading four   *)
(* bytes at 24 (process.c:370) does not fail after check_exec read forty.  *)
(***************************************************************************)
EXTENDS Integers, FiniteSets

CONSTANTS
  NumSlots,   \* length of process_slots (6)
  MaxTerms,   \* MAX_TERMS (3)
  MaxJobs,    \* environment: how many programs the user nests in a terminal
  Whole,      \* environment: the file system has every block of its programs
  Focused     \* environment: TRUE when programs are only started and only end
              \* while the user is looking at the terminal they run in

ASSUME ProcessAssumption ==
  /\ NumSlots \in Nat \ {0}
  /\ MaxTerms \in Nat \ {0}
  /\ MaxJobs \in Nat
  /\ Whole \in BOOLEAN
  /\ Focused \in BOOLEAN

NoPid == -1
PIDs == 0 .. NumSlots - 1
TIDs == 0 .. MaxTerms - 1

(***************************************************************************)
(* Where the frame lies that process_esp and process_ebp point to: which   *)
(* kernel stack, which context waits under it, who called system_execute,  *)
(* and whether a later trap has already been pushed over it.               *)
(***************************************************************************)
Frame == [stack : PIDs, caller : PIDs \cup {NoPid},
          from : {"boot", "execute", "switch", "halt"}, intact : BOOLEAN]

PCB == [parent_pid : PIDs \cup {NoPid}, tid : TIDs, frame : Frame]

VARIABLES
  process_slots,  \* 0 free, 1 taken
  cur_PID,        \* pid getRunningPCB() looks up
  pcb,            \* process control blocks; stale for a free slot
  terminals,      \* terminals[t].pid
  view_term,      \* tid of the terminal on screen
  tss_esp0,       \* pid whose kernel stack the next trap from user mode uses
  user_page,      \* pid whose 4 MB page is mapped at 128 MB
  cpu,            \* pid whose user registers the CPU has, or NoPid
  resumed,        \* pid whose system_halt the kernel has returned into, after
                  \* the shell it started ended; otherwise NoPid
  orphaned        \* history: such a halt took a terminal's pid away

vars == <<process_slots, cur_PID, pcb, terminals, view_term, tss_esp0,
          user_page, cpu, resumed, orphaned>>

(***************************************************************************)
(* Neither a program nor an earlier halt goes on: the kernel jumped        *)
(* through a frame that was overwritten, faults for ever, or returned to a *)
(* program whose page is gone.  What happens then is not followed.         *)
(***************************************************************************)
Lost == cpu = NoPid /\ resumed = NoPid

Live(p) == process_slots[p] = 1

FirstFree(slots, p) == slots[p] = 0 /\ \A q \in 0 .. p - 1 : slots[q] = 1

Full(slots) == \A p \in PIDs : slots[p] = 1

\* The live programs of terminal t.
Jobs(slots, blocks, t) == {p \in PIDs : slots[p] = 1 /\ blocks[p].tid = t}

JobsOn(t) == Jobs(process_slots, pcb, t)

(***************************************************************************)
(* Traps from user mode start at the top of the stack in tss.esp0, so once *)
(* user code runs with stack s there, no frame on s can be returned to.    *)
(***************************************************************************)
EnterUser(s, blocks) ==
  [p \in PIDs |->
     [blocks[p] EXCEPT !.frame.intact = @ /\ blocks[p].frame.stack # s]]

\* process_slots[pid] = 0.  FreeSlot_Forgotten: the assignment is left out.
FreeSlot_Forgotten(slots, p) == slots
FreeSlot(slots, p) == [slots EXCEPT ![p] = 0]

\* The parent of a new program is the program its terminal shows.
\* ParentOf_Running: it is the program that was running, on any terminal.
ParentOf_Running(terms, v) == cur_PID
ParentOf(terms, v) == terms[v]

\* Top of the kernel stack of p, 0x800000 - 0x2000 * p, as the pid it belongs
\* to.  KernelStack_Bottom: 0x800000 - 0x2000 * (p + 1), where p's PCB is.
\* KernelStack_Stale: the stack in use is left where it is.
KernelStack_Bottom(p) == p + 1
KernelStack_Stale(p) == tss_esp0
KernelStack(p) == p

\* The kernel stack that a trap or interrupt is pushed on.
StackInUse == IF resumed = NoPid THEN tss_esp0 ELSE resumed

\* terminals[tid].pid = pid.
ShowJob(terms, t, p) == [terms EXCEPT ![t] = p]

(***************************************************************************)
(* system_execute once the file is known to be a program, entered with the *)
(* given slot table and terminal pids while terminal v is in view.         *)
(***************************************************************************)
Launch(slots, terms, v, from) ==
  \E p \in PIDs :
    /\ FirstFree(slots, p)
    /\ process_slots' = [slots EXCEPT ![p] = 1]
    /\ cur_PID' = p
    /\ user_page' = p
    /\ pcb' = EnterUser(KernelStack(p), [pcb EXCEPT ![p] =
                [parent_pid |-> ParentOf(terms, v),
                 tid |-> v,
                 frame |-> [stack |-> StackInUse, caller |-> cpu,
                            from |-> from, intact |-> TRUE]]])
    /\ terminals' = ShowJob(terms, v, p)
    /\ view_term' = v
    /\ tss_esp0' = KernelStack(p)
    /\ cpu' = p
    /\ resumed' = NoPid
    /\ UNCHANGED orphaned

(***************************************************************************)
(* entry() and init_terms: the first shell runs on terminal 0.  The boot   *)
(* stack is the stack of pid 0, so its frames are gone.                    *)
(***************************************************************************)
BootPCB == [parent_pid |-> NoPid, tid |-> 0,
            frame |-> [stack |-> 0, caller |-> NoPid,
                       from |-> "boot", intact |-> FALSE]]

Init ==
  /\ process_slots = [p \in PIDs |-> IF p = 0 THEN 1 ELSE 0]
  /\ cur_PID = 0
  /\ pcb = [p \in PIDs |-> BootPCB]
  /\ terminals = [t \in TIDs |-> IF t = 0 THEN 0 ELSE NoPid]
  /\ view_term = 0
  /\ tss_esp0 = 0
  /\ user_page = 0
  /\ cpu = 0
  /\ resumed = NoPid
  /\ orphaned = FALSE

(***************************************************************************)
(* User mode may trap: the CPU has a context, and where Focused says so the *)
(* user is looking at the terminal that program belongs to.                *)
(***************************************************************************)
CanStartOrEnd ==
  /\ cpu # NoPid
  /\ Focused => view_term = pcb[cur_PID].tid

\* The execute system call with a runnable program and a free slot.
SysExecute ==
  /\ CanStartOrEnd
  /\ Cardinality(JobsOn(view_term)) < MaxJobs
  /\ Launch(process_slots, terminals, view_term, "execute")

(***************************************************************************)
(* The execute system call with a program that cannot be read: the slot is *)
(* taken and the caller's page is gone when it returns to the caller.      *)
(***************************************************************************)
ExecuteFails ==
  /\ ~Whole
  /\ CanStartOrEnd
  /\ \E p \in PIDs :
       /\ FirstFree(process_slots, p)
       /\ process_slots' = [process_slots EXCEPT ![p] = 1]
       /\ cur_PID' = p
       /\ user_page' = p
  /\ cpu' = NoPid
  /\ UNCHANGED <<pcb, terminals, view_term, tss_esp0, resumed, orphaned>>

(***************************************************************************)
(* system_halt of a terminal's first program: free the slot, then start a  *)
(* shell from inside halt.  It is started on the terminal in view.         *)
(***************************************************************************)
HaltBase ==
  /\ CanStartOrEnd
  /\ pcb[cur_PID].parent_pid = NoPid
  /\ Launch(FreeSlot(process_slots, cur_PID),
            ShowJob(terminals, pcb[cur_PID].tid, NoPid),
            view_term, "halt")

\* The frame that system_halt loads leads back to a program.
Returnable(f) == f.from = "execute" /\ f.intact

\* It leads back into the system_halt that started this shell.
Resumable(f) == f.from = "halt" /\ f.intact

(***************************************************************************)
(* system_halt of any other program, by a system call or by an exception:  *)
(* the parent's pid, page and kernel stack are put back, interrupts are    *)
(* enabled, then the stack pointer saved at system_execute is loaded and   *)
(* EXECUTE_RETURN runs: system_execute returns to its caller.              *)
(***************************************************************************)
HaltChild ==
  LET me == pcb[cur_PID]
      parent == me.parent_pid
  IN
    /\ CanStartOrEnd
    /\ parent # NoPid
    /\ terminals' = ShowJob(terminals, me.tid, parent)
    /\ cur_PID' = parent
    /\ tss_esp0' = KernelStack(parent)
    /\ user_page' = parent
    /\ process_slots' = FreeSlot(process_slots, cur_PID)
    /\ cpu' = IF Returnable(me.frame) THEN me.frame.caller ELSE NoPid
    /\ resumed' = IF Resumable(me.frame) THEN me.frame.stack ELSE NoPid
    /\ pcb' = IF Returnable(me.frame)
              THEN EnterUser(KernelStack(parent), pcb) ELSE pcb
    /\ UNCHANGED <<view_term, orphaned>>

(***************************************************************************)
(* The system_halt returned into goes on behind line 139, with interrupts  *)
(* on and with the PCB it began with, whose parent is -1: line 142.        *)
(***************************************************************************)
ShowParent ==
  /\ resumed # NoPid
  /\ terminals' = ShowJob(terminals, pcb[resumed].tid, pcb[resumed].parent_pid)
  /\ orphaned' = (orphaned \/ terminals' # terminals)

\* Line 142 alone: a key is pressed behind it.
ResumedShows ==
  /\ ShowParent
  /\ UNCHANGED <<process_slots, cur_PID, pcb, view_term, tss_esp0, user_page,
                 cpu, resumed>>

(***************************************************************************)
(* Lines 142 to 165, up to the first close that asks for a PCB: that of    *)
(* pid -1 is not mapped.  A key behind line 146 meets the same fault.      *)
(***************************************************************************)
ResumedFaults ==
  LET parent == pcb[resumed].parent_pid IN
    /\ ShowParent
    /\ cur_PID' = parent
    /\ tss_esp0' = KernelStack(parent)
    /\ user_page' = parent
    /\ process_slots' = FreeSlot(process_slots, resumed)
    /\ resumed' = NoPid
    /\ UNCHANGED <<pcb, view_term, cpu>>

SysHalt == HaltBase \/ HaltChild

(***************************************************************************)
(* terminal_switch(t).  Its first update_video_memory_paging reads the PCB *)
(* of the viewed terminal's pid; the PCB of pid -1 is in an unmapped page. *)
(***************************************************************************)
Viewable == terminals[view_term] # NoPid

SwitchLaunch(t) ==
  /\ ~Lost /\ Viewable
  /\ t # view_term
  /\ terminals[t] = NoPid
  /\ Launch(process_slots, terminals, t, "switch")

SwitchView(t) ==
  /\ ~Lost /\ Viewable
  /\ t # view_term
  /\ terminals[t] # NoPid \/ Full(process_slots)
  /\ view_term' = t
  /\ UNCHANGED <<process_slots, cur_PID, pcb, terminals, tss_esp0,
                 user_page, cpu, resumed, orphaned>>

TerminalSwitch(t) == SwitchLaunch(t) \/ SwitchView(t)

(***************************************************************************)
(* A key echo, a terminal write or a terminal_switch while the viewed      *)
(* terminal has no pid: update_video_memory_paging faults, and page_fault  *)
(* prints through putc, which faults again.                                *)
(***************************************************************************)
FaultForEver ==
  /\ ~Lost /\ ~Viewable
  /\ cpu' = NoPid /\ resumed' = NoPid
  /\ UNCHANGED <<process_slots, cur_PID, pcb, terminals, view_term, tss_esp0,
                 user_page, orphaned>>

Next ==
  \/ SysExecute \/ ExecuteFails
  \/ SysHalt \/ ResumedShows \/ ResumedFaults
  \/ \E t \in TIDs : TerminalSwitch(t)
  \/ FaultForEver

Spec == Init /\ [][Next]_vars

-----------------------------------------------------------------------------
(***************************************************************************)
(* Properties.                                                             *)
(***************************************************************************)

\* Every field stays in the range the kernel's arrays and addresses have.
TypeOK ==
  /\ process_slots \in [PIDs -> {0, 1}]
  /\ cur_PID \in PIDs \cup {NoPid}
  /\ pcb \in [PIDs -> PCB]
  /\ terminals \in [TIDs -> PIDs \cup {NoPid}]
  /\ view_term \in TIDs
  /\ tss_esp0 \in PIDs \cup {NoPid}
  /\ user_page \in PIDs \cup {NoPid}
  /\ cpu \in PIDs \cup {NoPid}
  /\ resumed \in PIDs \cup {NoPid}
  /\ orphaned \in BOOLEAN
  /\ cpu = NoPid \/ resumed = NoPid
  /\ ~Lost => cur_PID \in PIDs /\ tss_esp0 \in PIDs /\ user_page \in PIDs

(***************************************************************************)
(* A terminal shows a live program of its own; it shows none only when it  *)
(* has none.                                                               *)
(***************************************************************************)
TerminalShowsItsJob ==
  \A t \in TIDs :
    IF terminals[t] = NoPid
    THEN JobsOn(t) = {}
    ELSE terminals[t] \in JobsOn(t)

(***************************************************************************)
(* A program's parent is still there when the program ends, on the same    *)
(* terminal, and waits for no other program.                               *)
(***************************************************************************)
ParentsWait ==
  \A p \in PIDs :
    (Live(p) /\ pcb[p].parent_pid # NoPid) =>
      /\ pcb[p].parent_pid \in JobsOn(pcb[p].tid)
      /\ \A q \in PIDs :
           (Live(q) /\ pcb[q].parent_pid = pcb[p].parent_pid) => q = p

\* The program a terminal shows is the one no other program was started over.
TopHasNoChild ==
  \A p \in PIDs : Live(p) => pcb[p].parent_pid \notin
    {terminals[t] : t \in TIDs} \ {NoPid}

\* A terminal has one program without a parent: its shell.
OneShell ==
  \A p, q \in PIDs :
    /\ Live(p) /\ pcb[p].parent_pid = NoPid
    /\ Live(q) /\ pcb[q].parent_pid = NoPid
    /\ pcb[p].tid = pcb[q].tid
    => p = q

\* The running PCB is live and is the one its terminal shows.
RunningIsShown ==
  Live(cur_PID) /\ terminals[pcb[cur_PID].tid] = cur_PID

JobStacks ==
  /\ TerminalShowsItsJob
  /\ ParentsWait
  /\ TopHasNoChild
  /\ OneShell
  /\ RunningIsShown

(***************************************************************************)
(* The slot table, the parent links and the terminals' pids together are   *)
(* one stack of programs per terminal, whatever the user runs, ends and    *)
(* looks at, in any order, with one exception: a halt of a terminal's      *)
(* first program that is returned into later and takes that terminal's new *)
(* program from it (process.c:133-148, 302-348; terminal.c:101).           *)
(***************************************************************************)
StacksUnlessOrphaned == Lost \/ orphaned \/ JobStacks

(***************************************************************************)
(* Inductive form of JobStacks: d numbers the programs of a terminal from  *)
(* its shell (0) upwards, so that the parent links have no cycle.          *)
(***************************************************************************)
Stacked(slots, blocks, terms, d) ==
  /\ \A p \in PIDs : slots[p] = 1 =>
       IF blocks[p].parent_pid = NoPid
       THEN d[p] = 0
       ELSE /\ blocks[p].parent_pid \in Jobs(slots, blocks, blocks[p].tid)
            /\ d[p] = d[blocks[p].parent_pid] + 1
  /\ \A p, q \in PIDs :
       /\ slots[p] = 1 /\ slots[q] = 1
       /\ blocks[p].tid = blocks[q].tid /\ d[p] = d[q]
       => p = q
  /\ \A t \in TIDs :
       IF terms[t] = NoPid
       THEN Jobs(slots, blocks, t) = {}
       ELSE /\ terms[t] \in Jobs(slots, blocks, t)
            /\ \A p \in Jobs(slots, blocks, t) : d[p] <= d[terms[t]]

(***************************************************************************)
(* The 4 MB user page and the kernel stack for traps are always those of   *)
(* the PCB that system calls use (process.c:146-151, 311-314, 380).        *)
(***************************************************************************)
AddressSpaceFollowsPid == Lost \/ (user_page = cur_PID /\ tss_esp0 = cur_PID)

(***************************************************************************)
(* As long as the user only starts and ends programs in the terminal being *)
(* looked at, each child can be returned from: the frame its halt loads is *)
(* that of the parent's own system_execute, on the parent's kernel stack   *)
(* and with no later trap pushed over it, the CPU runs the program whose   *)
(* page is mapped, and no halt is ever returned into (process.c:139-142,   *)
(* 194-222, 374-380).                                                      *)
(***************************************************************************)
CallersWait ==
  /\ resumed = NoPid /\ ~orphaned
  /\ ~Lost =>
       /\ cpu = cur_PID
       /\ \A p \in PIDs : LET parent == pcb[p].parent_pid IN
            (Live(p) /\ parent # NoPid) =>
               pcb[p].frame = [stack |-> parent, caller |-> parent,
                               from |-> "execute", intact |-> TRUE]

(***************************************************************************)
(* With a slot for every program the user may have open and nothing wrong  *)
(* with the file system, the kernel always has a program to go back to: no *)
(* jump through a dead frame, and no terminal in view without a process    *)
(* (process.c:101, 308; terminal.c:101).                                   *)
(***************************************************************************)
NeverLost == cpu # NoPid

(***************************************************************************)
(* "The halt system call terminates a process, returning the specified     *)
(* value to its parent process" (syscall.c:16): a halt leaves the CPU with *)
(* the parent's registers.                                                 *)
(***************************************************************************)
HaltReturnsToParent == [][HaltChild => cpu' = pcb[cur_PID].parent_pid]_vars

=============================================================================
