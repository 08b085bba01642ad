-------------------------------- MODULE VidMap --------------------------------
(***************************************************************************)
(* The window that programs get on the screen: the vidmap system call      *)
(* (syscall.c), the second page table of page_init (page.c), and what      *)
(* system_execute and system_halt do to them (process.c), over process     *)
(* control.                                                                *)
(*                                                                         *)
(* vidmap hands out the address of entry 0 of page_video_map.  It also     *)
(* fills entry 34, through vidmap_page_change, and that is the only entry  *)
(* a halt takes back.  Entry 184, which update_video_memory_paging sets,   *)
(* is never open to user mode and no kernel code uses its address, so it   *)
(* is left out.                                                            *)
(*                                                                         *)
(* The system call gate leaves interrupts on and vidmap does not turn them *)
(* off, so it is one step for each of its writes: the user may look at     *)
(* another terminal between two, and opening one cuts the call off there.  *)
(***************************************************************************)
EXTENDS Process

VARIABLES
  page_video_map,  \* entries 0 and 34: present, user, the frame at base_addr
  directory_entry, \* page_directory[34]: "absent"; open to user mode but
                   \* "bare" of an address; or leading to the "table"
  vidmap_present,  \* of each PCB; never reset when a slot is taken
  vidmap_line,     \* line of vidmap the running program is at, or 0
  asked,           \* history: programs that were given a window
  first_call       \* history: "none" has returned yet, one has "returned", or
                   \* none has and one was "cut" off

vidVars == <<page_video_map, directory_entry, vidmap_present, vidmap_line,
             asked, first_call>>

KERNEL_IDX == 1
USER_IDX == 32
VIDMAP_IDX == 34

\* Memory: the screen and the page kept for each terminal behind it; the low
\* memory that page_init leaves in every entry of page_video_map; the kernel;
\* and the 4 MB of each program.
Screen == 0
vidmem_data(t) == t + 1
ScreenMemory == {Screen} \cup {vidmem_data(t) : t \in TIDs}
LowMemory == -1
KernelMemory == -2
\* That of pid -1 is the kernel's.
ProgramMemory(p) == IF p = NoPid THEN KernelMemory ELSE MaxTerms + 1 + p
AnyMemory == ScreenMemory \cup {LowMemory} \cup {ProgramMemory(p) : p \in PIDs \cup {NoPid}}

Entry(present, user, frame) ==
  [present |-> present, user |-> user, frame |-> frame]

\* vidmap_page_change.
vidmap_page_change(table, frame, present) ==
  [table EXCEPT ![VIDMAP_IDX] = Entry(present, TRUE, frame)]

\* The frame entry 0 gets.  Framed_Not: its base_addr stays as it is.
Framed_Not(entry) == entry
Framed(entry) == Entry(entry.present, entry.user, Screen)

\* page_init; nobody writes vidmap_present of a PCB before its first use.
VidInit ==
  /\ Init
  /\ page_video_map = [i \in {0, VIDMAP_IDX} |-> Entry(FALSE, FALSE, LowMemory)]
  /\ directory_entry = "absent"
  /\ \E garbage \in BOOLEAN : vidmap_present = [p \in PIDs |-> garbage]
  /\ vidmap_line = 0
  /\ asked = {} /\ first_call = "none"

(***************************************************************************)
(* The vidmap system call, given an address in the user page.              *)
(***************************************************************************)
At(line, next) ==
  /\ cpu # NoPid
  /\ vidmap_line = line /\ vidmap_line' = next
  /\ UNCHANGED vars

OpenDirectory ==
  /\ At(0, 221)
  /\ directory_entry' = IF directory_entry = "absent" THEN "bare"
                        ELSE directory_entry
  /\ UNCHANGED <<page_video_map, vidmap_present, asked, first_call>>

NameTable ==
  /\ At(221, 224)
  /\ directory_entry' = "table"
  /\ UNCHANGED <<page_video_map, vidmap_present, asked, first_call>>

PresentEntry ==
  /\ At(224, 230)
  /\ page_video_map' = [page_video_map EXCEPT ![0] = Entry(TRUE, @.user, @.frame)]
  /\ UNCHANGED <<directory_entry, vidmap_present, asked, first_call>>

MarkPCB ==
  /\ At(230, 240)
  /\ vidmap_present' = [vidmap_present EXCEPT ![cur_PID] = TRUE]
  /\ UNCHANGED <<page_video_map, directory_entry, asked, first_call>>

MapBehind ==
  /\ At(240, 245)
  /\ page_video_map' =
       vidmap_page_change(page_video_map, vidmem_data(view_term), TRUE)
  /\ UNCHANGED <<directory_entry, vidmap_present, asked, first_call>>

UserEntry ==
  /\ At(245, 246)
  /\ page_video_map' = [page_video_map EXCEPT ![0] = Entry(@.present, TRUE, @.frame)]
  /\ UNCHANGED <<directory_entry, vidmap_present, asked, first_call>>

FrameEntry ==
  /\ At(246, 0)
  /\ page_video_map' = [page_video_map EXCEPT ![0] = Framed(@)]
  /\ asked' = asked \cup {cur_PID}
  /\ first_call' = "returned"
  /\ UNCHANGED <<directory_entry, vidmap_present>>

Vidmap ==
  \/ OpenDirectory \/ NameTable \/ PresentEntry \/ MarkPCB
  \/ MapBehind \/ UserEntry \/ FrameEntry

\* The program in slot p is a new one; a vidmap call under way is cut off.
NewProgram(p) ==
  /\ asked' = {q \in asked \ {p} : process_slots'[q] = 1}
  /\ vidmap_line' = 0
  /\ first_call' = IF vidmap_line # 0 /\ first_call = "none" THEN "cut"
                   ELSE first_call
  /\ UNCHANGED <<page_video_map, directory_entry, vidmap_present>>

(***************************************************************************)
(* system_halt of a child takes its entry 34 back.                         *)
(* Revoke_Window: it takes back entry 0, the one that was handed out.      *)
(***************************************************************************)
Revoke_Window(table) == [table EXCEPT ![0] = Entry(FALSE, TRUE, Screen)]
Revoke(table) == vidmap_page_change(table, Screen, FALSE)

ForgetWindow ==
  /\ page_video_map' = IF vidmap_present[cur_PID]
                       THEN Revoke(page_video_map) ELSE page_video_map
  /\ vidmap_present' = [vidmap_present EXCEPT ![cur_PID] = FALSE]
  /\ asked' = asked \ {cur_PID}
  /\ UNCHANGED <<directory_entry, vidmap_line, first_call>>

InUserMode == cpu # NoPid /\ vidmap_line = 0

\* What changes neither programs nor windows.
KeepWindows ==
  /\ \/ FaultForEver \/ ResumedShows \/ ResumedFaults
     \/ InUserMode /\ ExecuteFails
     \/ \E t \in TIDs : SwitchView(t)
  /\ UNCHANGED vidVars

VidNext ==
  \/ Vidmap
  \/ InUserMode /\ SysExecute /\ NewProgram(cur_PID')
  \/ InUserMode /\ HaltBase /\ NewProgram(cur_PID')
  \/ InUserMode /\ HaltChild /\ ForgetWindow
  \/ \E t \in TIDs : SwitchLaunch(t) /\ NewProgram(cur_PID')
  \/ KeepWindows

VidSpec == VidInit /\ [][VidNext]_<<vars, vidVars>>

-----------------------------------------------------------------------------
\* What the window leads to: without a table address, to whatever is there.
BehindWindow ==
  CASE directory_entry = "absent" -> {}
    [] directory_entry = "bare" -> AnyMemory
    [] directory_entry = "table" ->
         {page_video_map[e].frame : e \in
            {f \in {0, VIDMAP_IDX} :
               page_video_map[f].present /\ page_video_map[f].user}}

\* page_directory and the tables under it, as page_init and user_page_setup
\* leave them: what is mapped at all, and what of it user mode reaches.
Mapped ==
  [i \in {0, KERNEL_IDX, USER_IDX, VIDMAP_IDX} |->
     CASE i = 0 -> [user |-> FALSE, memory |-> ScreenMemory]
       [] i = KERNEL_IDX -> [user |-> FALSE, memory |-> {KernelMemory}]
       [] i = USER_IDX -> [user |-> TRUE, memory |-> {ProgramMemory(user_page)}]
       [] i = VIDMAP_IDX -> [user |-> TRUE, memory |-> BehindWindow]]

UserReaches == UNION {Mapped[i].memory : i \in {j \in DOMAIN Mapped : Mapped[j].user}}

(***************************************************************************)
(* A program that has a window keeps it for as long as it lives, although  *)
(* its children and the programs of other terminals ask for windows and    *)
(* end, in any order, and there is one page table for all of them          *)
(* (syscall.c:218-246; process.c:170-182).                                 *)
(***************************************************************************)
WindowKept ==
  \A p \in asked : Live(p) =>
    directory_entry = "table" /\ page_video_map[0] = Entry(TRUE, TRUE, Screen)

(***************************************************************************)
(* User mode reaches screen memory and the 4 MB of the program that the    *)
(* system calls take for the running one, never the kernel or the low      *)
(* frames that page_init puts in the table, although vidmap opens the      *)
(* directory and the entry to user mode before it says where they lead:    *)
(* unless the very first call is cut off by the opening of a terminal      *)
(* (page.c:22-118, 121-141; syscall.c:218-246; terminal.c:101).            *)
(***************************************************************************)
OnlyScreenMemory ==
  InUserMode /\ first_call # "cut"
    => UserReaches \subseteq ScreenMemory \cup {ProgramMemory(cur_PID)}

=============================================================================
