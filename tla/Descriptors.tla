---------------------------- MODULE Descriptors ----------------------------
(***************************************************************************)
(* The file descriptors in every process control block: open, close, read  *)
(* and write (syscall.c), the file operations they call as far as they     *)
(* change descriptors or the RTC (filesys.c, rtc.c), and what starting,    *)
(* ending and switching (Process) do to them.                              *)
(*                                                                         *)
(* Every call works on the table of getRunningPCB(), that is of cur_PID,   *)
(* whichever program made it.  The actions are whole system calls: a key   *)
(* press may fall into one, but then parks the program (Process) or leaves *)
(* descriptors alone.  A call that fails its checks changes nothing and is *)
(* a stuttering step.                                                      *)
(***************************************************************************)
EXTENDS Process

CONSTANTS
  NumFDs,    \* length of fd_arr (8)
  FileLen,   \* length of a regular file
  DirLen,    \* entries read_dentry_by_index accepts, NUM_DENTRIES_BOOT (63)
  Sizes,     \* environment: the nbytes that programs pass to read
  Hertz      \* environment: frequencies rtc_write accepts, and the default

ASSUME DescriptorsAssumption ==
  /\ NumFDs \in Nat /\ NumFDs >= 2
  /\ FileLen \in Nat /\ DirLen \in Nat
  /\ Sizes \subseteq Nat \ {0}
  /\ 2 \in Hertz

FDs == 0 .. NumFDs - 1

FileTypes == {"rtc", "dir", "file"}

FileDescriptor == [fops : FileTypes \cup {"nul", "stdin", "stdout"},
                   fpos : Nat, flags : {0, 1}]

VARIABLES
  fd_arr,   \* fd_arr[p]: the descriptors in the PCB of p
  rtc_freq, \* the frequency the RTC is programmed to
  held      \* history: held[p] is what program p has opened and not closed

fdVars == <<vars, fd_arr, rtc_freq, held>>

\* pcb->fd_arr as system_execute fills it.
FreshTable ==
  [f \in FDs |->
     [fops |-> IF f = 0 THEN "stdin" ELSE IF f = 1 THEN "stdout" ELSE "nul",
      fpos |-> 0,
      flags |-> IF f <= 1 THEN 1 ELSE 0]]

\* The PCB whose table the system calls use.
\* RunningPCB_Viewed: that of the terminal in view, as in process.c:125.
RunningPCB_Viewed == IF Viewable THEN terminals[view_term] ELSE cur_PID
RunningPCB == cur_PID

IsOpen(p, f) == fd_arr[p][f].flags # 0

\* May close(f) go ahead?  Closable_Any: stdin and stdout are not special.
Closable_Any(table, f) == table[f].flags # 0
Closable(table, f) == f >= 2 /\ table[f].flags # 0

\* close(0) .. close(NumFDs - 1), as system_halt does.
CloseAll(table) ==
  [f \in FDs |-> [table[f] EXCEPT !.flags = IF Closable(table, f) THEN 0 ELSE @]]

\* A PCB no program has had yet is unwritten memory, taken to be zero.
ZeroTable == [f \in FDs |-> [fops |-> "nul", fpos |-> 0, flags |-> 0]]

FdInit ==
  /\ Init
  /\ fd_arr = [p \in PIDs |-> IF p = 0 THEN FreshTable ELSE ZeroTable]
  /\ rtc_freq = 2
  /\ held = [p \in PIDs |-> {}]

-----------------------------------------------------------------------------
(***************************************************************************)
(* Starting, ending and switching.                                         *)
(***************************************************************************)

\* A program starts: by execute, or as the shell of a terminal just opened.
FdStart ==
  /\ SysExecute \/ \E t \in TIDs : SwitchLaunch(t)
  /\ fd_arr' = [fd_arr EXCEPT ![cur_PID'] = FreshTable]
  /\ held' = [held EXCEPT ![cur_PID'] = {}]
  /\ UNCHANGED rtc_freq

\* A terminal's first program ends: its descriptors are closed, then a shell
\* starts, perhaps in the slot just freed.
FdHaltBase ==
  /\ HaltBase
  /\ fd_arr' = LET closed == [fd_arr EXCEPT ![cur_PID] = CloseAll(@)]
               IN [closed EXCEPT ![cur_PID'] = FreshTable]
  /\ held' = [held EXCEPT ![cur_PID'] = {}]
  /\ UNCHANGED rtc_freq

\* Any other program ends.  cur_PID is already the parent's when close runs.
FdHaltChild ==
  /\ HaltChild
  /\ fd_arr' = [fd_arr EXCEPT ![cur_PID'] = CloseAll(@)]
  /\ UNCHANGED <<rtc_freq, held>>

\* The kernel turns to another terminal, or is on its way to get lost.
FdSwitch ==
  /\ \/ FaultForEver \/ ExecuteFails \/ ResumedShows \/ ResumedFaults
     \/ \E t \in TIDs : SwitchView(t)
  /\ UNCHANGED <<fd_arr, rtc_freq, held>>

-----------------------------------------------------------------------------
(***************************************************************************)
(* System calls on descriptors by the program that has the CPU.            *)
(***************************************************************************)
Calling == cpu # NoPid /\ UNCHANGED vars

LowestFree(table, f) ==
  /\ table[f].flags = 0
  /\ \A g \in 0 .. f - 1 : table[g].flags # 0

\* What open writes into the entry.
\* Opened_KeepsPosition: the position of its last use is left in it.
\* Opened_NoDirCase: the switch on the file type has no case 1.
Opened_KeepsPosition(entry, type) ==
  [fops |-> type, fpos |-> entry.fpos, flags |-> 1]
Opened_NoDirCase(entry, type) ==
  [fops |-> IF type = "dir" THEN entry.fops ELSE type, fpos |-> 0, flags |-> 1]
Opened(entry, type) == [fops |-> type, fpos |-> 0, flags |-> 1]

\* open of an existing name; rtc_open sets the rate back to 2 Hz.
Open(type) ==
  \E f \in FDs :
    /\ Calling
    /\ LowestFree(fd_arr[RunningPCB], f)
    /\ fd_arr' = [fd_arr EXCEPT ![RunningPCB][f] = Opened(@, type)]
    /\ rtc_freq' = IF type = "rtc" THEN 2 ELSE rtc_freq
    /\ held' = [held EXCEPT ![cpu] = @ \cup {f}]

\* close leaves the file operations in the entry.
Close(f) ==
  /\ Calling
  /\ Closable(fd_arr[RunningPCB], f)
  /\ fd_arr' = [fd_arr EXCEPT ![RunningPCB][f].flags = 0]
  /\ held' = [held EXCEPT ![cpu] = @ \ {f}]
  /\ UNCHANGED rtc_freq

\* How far a read moves the position: file_read cuts the last read short.
Advance(entry, n) ==
  IF entry.fops = "dir" THEN 1
  ELSE IF entry.fpos + n > FileLen THEN FileLen - entry.fpos ELSE n

EndOf(entry) == IF entry.fops = "dir" THEN DirLen ELSE FileLen

\* read of a file or directory that is not at its end.
Read(f, n) ==
  LET entry == fd_arr[RunningPCB][f] IN
    /\ Calling
    /\ f # 1 /\ entry.flags # 0
    /\ entry.fops \in {"dir", "file"}
    /\ entry.fpos < EndOf(entry)
    /\ fd_arr' = [fd_arr EXCEPT ![RunningPCB][f].fpos = @ + Advance(entry, n)]
    /\ UNCHANGED <<rtc_freq, held>>

\* write of a new rate.  write does not look at flags.
WriteRtc(f, hz) ==
  /\ Calling
  /\ f >= 1
  /\ fd_arr[RunningPCB][f].fops = "rtc"
  /\ rtc_freq' = hz
  /\ UNCHANGED <<fd_arr, held>>

FdNext ==
  \/ FdStart
  \/ FdHaltBase
  \/ FdHaltChild
  \/ FdSwitch
  \/ \E type \in FileTypes : Open(type)
  \/ \E f \in FDs : Close(f)
  \/ \E f \in FDs, n \in Sizes : Read(f, n)
  \/ \E f \in FDs, hz \in Hertz : WriteRtc(f, hz)

FdSpec == FdInit /\ [][FdNext]_fdVars

-----------------------------------------------------------------------------
(***************************************************************************)
(* Properties.                                                             *)
(***************************************************************************)

\* Entries stay in range, and an open one has file operations to call.
FdTypeOK ==
  /\ fd_arr \in [PIDs -> [FDs -> FileDescriptor]]
  /\ rtc_freq \in Hertz
  /\ held \in [PIDs -> SUBSET FDs]
  /\ \A p \in PIDs, f \in FDs : IsOpen(p, f) => fd_arr[p][f].fops # "nul"

(***************************************************************************)
(* A live program has its stdin and stdout, whatever it opens and closes   *)
(* and whatever programs it runs (syscall.c:175-182, process.c:351-358).   *)
(***************************************************************************)
StandardStreams ==
  ~Lost => \A p \in PIDs : Live(p) =>
    /\ IsOpen(p, 0) /\ fd_arr[p][0].fops = "stdin"
    /\ IsOpen(p, 1) /\ fd_arr[p][1].fops = "stdout"

(***************************************************************************)
(* While programs start and end in view, what is open in a program is what *)
(* that program opened itself: no descriptor comes from the slot's last    *)
(* program or from another terminal's (process.c:351-364, syscall.c:133).  *)
(***************************************************************************)
NoForeignFiles ==
  ~Lost => \A p \in PIDs : Live(p) =>
    {f \in FDs : IsOpen(p, f)} \subseteq held[p] \cup {0, 1}

(***************************************************************************)
(* A position is within what the entry is open on, also when the entry was *)
(* used for something longer before (filesys.c:194-217, syscall.c:163).    *)
(***************************************************************************)
PositionsInRange ==
  \A p \in PIDs, f \in FDs :
    IsOpen(p, f) /\ fd_arr[p][f].fops \in {"dir", "file"}
      => fd_arr[p][f].fpos <= EndOf(fd_arr[p][f])

(***************************************************************************)
(* "Restore parent data" (process.c:116): when a program ends, its parent  *)
(* still has the files it had open.                                        *)
(***************************************************************************)
ParentKeepsFiles ==
  [][FdHaltChild =>
       \A f \in FDs : IsOpen(cur_PID', f) => fd_arr'[cur_PID'][f].flags = 1]_fdVars

=============================================================================
