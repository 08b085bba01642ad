----------------------------- MODULE VidMapProofs -----------------------------
(***************************************************************************)
(* Proofs about the programs' windows on the screen, for any number of     *)
(* slots and terminals.  They rest on process control: every step is one   *)
(* of Process, so its invariants hold here too.                            *)
(***************************************************************************)
EXTENDS VidMap, ProcessProofs

\* The window never stops or steers process control.
LEMMA VidStepIsStep == [VidNext]_<<vars, vidVars>> => [Next]_vars
<1> SUFFICES ASSUME [VidNext]_<<vars, vidVars>> PROVE [Next]_vars
  OBVIOUS
<1>1. CASE Vidmap
  BY <1>1 DEF Vidmap, OpenDirectory, NameTable, PresentEntry, MarkPCB, MapBehind,
              UserEntry, FrameEntry, At
<1>2. CASE HaltBase \/ HaltChild
  BY <1>2 DEF Next, SysHalt
<1>3. ASSUME NEW t \in TIDs, SwitchLaunch(t) \/ SwitchView(t) PROVE [Next]_vars
  BY <1>3 DEF Next, TerminalSwitch
<1>4. CASE SysExecute \/ ExecuteFails \/ ResumedShows \/ ResumedFaults \/ FaultForEver
  BY <1>4 DEF Next
<1>5. CASE UNCHANGED <<vars, vidVars>>
  BY <1>5
<1> QED BY <1>1, <1>2, <1>3, <1>4, <1>5 DEF VidNext, KeepWindows

(***************************************************************************)
(* A system with windows is a system of processes: every behaviour of it   *)
(* is one of Process, and has what is proved of Process.                   *)
(***************************************************************************)
THEOREM VidImplementsProcess == VidSpec => Spec
<1> QED BY VidStepIsStep, PTL DEF VidSpec, VidInit, Spec

Entries == [present : BOOLEAN, user : BOOLEAN, frame : Int]

(***************************************************************************)
(* The page table under the window: entry 34, if user mode may use it, is  *)
(* on the screen or on a terminal's page; the directory leads to the table *)
(* once a call is past the line that says so, and for good once a call has *)
(* returned, and entry 0 is the screen from then on.                       *)
(***************************************************************************)
Shape(table) ==
  /\ table \in [{0, VIDMAP_IDX} -> Entries]
  /\ table[VIDMAP_IDX].user => table[VIDMAP_IDX].frame \in ScreenMemory

IsPresent(entry) == entry.present = TRUE
IsUser(entry) == entry.user = TRUE
IsScreen(entry) == entry = Entry(TRUE, TRUE, Screen)

Progress(line, first, directory, entry) ==
  /\ line \in {0, 221, 224, 230, 240, 245, 246}
  /\ first \in {"none", "returned", "cut"}
  /\ first = "none" /\ line = 0 => directory = "absent"
  /\ line \in {224, 230, 240, 245, 246} => directory = "table"
  /\ line \in {230, 240, 245, 246} => IsPresent(entry)
  /\ line = 246 => IsUser(entry)
  /\ first = "returned" => directory = "table" /\ IsScreen(entry)

WindowTable ==
  /\ Shape(page_video_map)
  /\ Progress(vidmap_line, first_call, directory_entry, page_video_map[0])
  /\ asked # {} => first_call = "returned"

LEMMA WindowTableInit == VidInit => WindowTable
<1> SUFFICES ASSUME VidInit PROVE WindowTable
  OBVIOUS
<1>1. Entry(FALSE, FALSE, LowMemory) \in Entries
  BY DEF Entries, Entry, LowMemory
<1>2. \A i \in {0, VIDMAP_IDX} : page_video_map[i] = Entry(FALSE, FALSE, LowMemory)
  BY DEF VidInit
<1>3. ~Entry(FALSE, FALSE, LowMemory).user
  BY DEF Entry
<1>4. Shape(page_video_map)
  BY <1>1, <1>2, <1>3 DEF VidInit, Shape
<1>5. /\ vidmap_line = 0 /\ vidmap_line \notin {221, 224, 230, 240, 245, 246}
      /\ first_call = "none" /\ directory_entry = "absent" /\ asked = {}
  BY DEF VidInit
<1>6. Progress(vidmap_line, first_call, directory_entry, page_video_map[0])
  BY <1>5 DEF Progress
<1> QED BY <1>4, <1>5, <1>6 DEF WindowTable

\* An entry that points at the screen or at a terminal's page.
LEMMA ScreenEntry ==
  ASSUME NEW frame \in ScreenMemory, NEW present \in BOOLEAN
  PROVE  /\ Entry(present, TRUE, frame) \in Entries
         /\ Entry(present, TRUE, frame).frame \in ScreenMemory
<1>1. frame \in Int
  <2>1. ASSUME NEW t \in TIDs, frame = vidmem_data(t) PROVE frame \in Int
    BY <2>1 DEF vidmem_data, TIDs
  <2> QED BY <2>1 DEF ScreenMemory, Screen
<1> QED BY <1>1 DEF Entry, Entries

\* vidmap_page_change leaves entry 0 alone and points entry 34 at the screen.
LEMMA PageChanged ==
  ASSUME NEW frame \in ScreenMemory, NEW present \in BOOLEAN,
         NEW table \in [{0, VIDMAP_IDX} -> Entries]
  PROVE  /\ vidmap_page_change(table, frame, present) \in [{0, VIDMAP_IDX} -> Entries]
         /\ vidmap_page_change(table, frame, present)[0] = table[0]
         /\ vidmap_page_change(table, frame, present)[VIDMAP_IDX].frame \in ScreenMemory
<1> DEFINE entry == Entry(present, TRUE, frame)
<1>1. entry \in Entries /\ entry.frame \in ScreenMemory
  BY ScreenEntry
<1>2. vidmap_page_change(table, frame, present) = [table EXCEPT ![VIDMAP_IDX] = entry]
  BY DEF vidmap_page_change
<1> HIDE DEF entry
<1> QED BY <1>1, <1>2 DEF VIDMAP_IDX

\* vidmap writes entry 0 field by field; the last field makes it the screen.
LEMMA EntryFilled ==
  ASSUME NEW entry \in Entries
  PROVE  /\ Entry(TRUE, entry.user, entry.frame) \in Entries
         /\ Entry(entry.present, TRUE, entry.frame) \in Entries
         /\ Framed(entry) \in Entries
BY DEF Entries, Entry, Framed, Screen

LEMMA ScreenStays ==
  ASSUME NEW entry, entry = Entry(TRUE, TRUE, Screen)
  PROVE  /\ Entry(TRUE, entry.user, entry.frame) = entry
         /\ Entry(entry.present, TRUE, entry.frame) = entry
BY DEF Entry

\* Writing entry 0 does not disturb entry 34.
LEMMA ShapeKept ==
  ASSUME Shape(page_video_map), NEW entry \in Entries,
         page_video_map' = [page_video_map EXCEPT ![0] = entry]
  PROVE  Shape(page_video_map') /\ page_video_map'[0] = entry
<1>1. VIDMAP_IDX # 0
  BY DEF VIDMAP_IDX
<1> QED BY <1>1 DEF Shape

LEMMA VidmapKeepsTable ==
  ASSUME WindowTable, TypeOK, Vidmap
  PROVE  WindowTable'
<1> DEFINE entry == page_video_map[0]
<1>1. /\ Shape(page_video_map) /\ entry \in Entries
      /\ Progress(vidmap_line, first_call, directory_entry, entry)
      /\ asked # {} => first_call = "returned"
  BY DEF WindowTable, Shape
<1>2. SUFFICES /\ Shape(page_video_map')
               /\ Progress(vidmap_line', first_call', directory_entry', entry')
               /\ asked' # {} => first_call' = "returned"
  BY DEF WindowTable, Shape, ScreenMemory
<1> HIDE DEF entry
<1>3. ASSUME UNCHANGED page_video_map PROVE entry' = entry
  BY <1>3 DEF entry
<1>4. CASE OpenDirectory
  BY <1>1, <1>3, <1>4 DEF OpenDirectory, At, Progress
<1>5. CASE NameTable
  BY <1>1, <1>3, <1>5 DEF NameTable, At, Progress
<1>6. CASE PresentEntry
  <2>1. /\ page_video_map' =
             [page_video_map EXCEPT ![0] = Entry(TRUE, entry.user, entry.frame)]
        /\ vidmap_line = 224 /\ vidmap_line' = 230
        /\ UNCHANGED <<directory_entry, asked, first_call>>
    BY <1>6 DEF PresentEntry, At, entry
  <2>0. Shape(page_video_map')
    BY <1>1, <2>1, ShapeKept, EntryFilled DEF entry
  <2>2. entry' = Entry(TRUE, entry.user, entry.frame)
    BY <1>1, <2>1, ShapeKept, EntryFilled DEF entry
  <2>3. IsPresent(entry')
    BY <2>2 DEF Entry, IsPresent
  <2>4. IsScreen(entry) => IsScreen(entry')
    BY <2>2, ScreenStays DEF IsScreen
  <2> QED BY <1>1, <2>0, <2>1, <2>3, <2>4 DEF Progress
<1>7. CASE MarkPCB
  BY <1>1, <1>3, <1>7 DEF MarkPCB, At, Progress
<1>8. CASE MapBehind
  <2>1. /\ page_video_map' =
             vidmap_page_change(page_video_map, vidmem_data(view_term), TRUE)
        /\ vidmap_line = 240 /\ vidmap_line' = 245
        /\ UNCHANGED <<directory_entry, asked, first_call>>
    BY <1>8 DEF MapBehind, At
  <2>2. vidmem_data(view_term) \in ScreenMemory
    BY DEF ScreenMemory, TypeOK
  <2>3. Shape(page_video_map') /\ entry' = entry
    BY <1>1, <2>1, <2>2, PageChanged DEF Shape, entry
  <2>4. /\ vidmap_line = 240 /\ vidmap_line' = 245
        /\ UNCHANGED <<directory_entry, asked, first_call>>
    BY <2>1
  <2> QED BY <1>1, <2>3, <2>4 DEF Progress
<1>9. CASE UserEntry
  <2>1. /\ page_video_map' =
             [page_video_map EXCEPT ![0] = Entry(entry.present, TRUE, entry.frame)]
        /\ vidmap_line = 245 /\ vidmap_line' = 246
        /\ UNCHANGED <<directory_entry, asked, first_call>>
    BY <1>9 DEF UserEntry, At, entry
  <2>0. Shape(page_video_map')
    BY <1>1, <2>1, ShapeKept, EntryFilled DEF entry
  <2>2. entry' = Entry(entry.present, TRUE, entry.frame)
    BY <1>1, <2>1, ShapeKept, EntryFilled DEF entry
  <2>3. IsUser(entry') /\ (IsPresent(entry) => IsPresent(entry'))
    BY <2>2 DEF Entry, IsUser, IsPresent
  <2>4. IsScreen(entry) => IsScreen(entry')
    BY <2>2, ScreenStays DEF IsScreen
  <2> QED BY <1>1, <2>0, <2>1, <2>3, <2>4 DEF Progress
<1>10. CASE FrameEntry
  <2>1. /\ page_video_map' = [page_video_map EXCEPT ![0] = Framed(entry)]
        /\ vidmap_line = 246 /\ vidmap_line' = 0
        /\ directory_entry' = directory_entry /\ first_call' = "returned"
    BY <1>10 DEF FrameEntry, At, entry
  <2>2. Shape(page_video_map') /\ entry' = Framed(entry)
    BY <1>1, <2>1, ShapeKept, EntryFilled DEF entry
  <2>3. IsPresent(entry) /\ IsUser(entry) /\ directory_entry = "table"
    BY <1>1, <2>1 DEF Progress
  <2>4. IsScreen(entry')
    BY <2>2, <2>3 DEF Framed, IsPresent, IsUser, IsScreen
  <2> QED BY <2>1, <2>2, <2>3, <2>4 DEF Progress
<1> QED BY <1>4, <1>5, <1>6, <1>7, <1>8, <1>9, <1>10 DEF Vidmap

LEMMA WindowTableKept ==
  WindowTable /\ TypeOK /\ [VidNext]_<<vars, vidVars>> => WindowTable'
<1> SUFFICES ASSUME WindowTable, TypeOK, [VidNext]_<<vars, vidVars>>
             PROVE  WindowTable'
  OBVIOUS
<1>1. /\ Shape(page_video_map)
      /\ Progress(vidmap_line, first_call, directory_entry, page_video_map[0])
      /\ asked # {} => first_call = "returned"
  BY DEF WindowTable
<1>2. SUFFICES ASSUME ~Vidmap
               PROVE  /\ Shape(page_video_map')
                      /\ Progress(vidmap_line', first_call', directory_entry',
                                  page_video_map'[0])
                      /\ asked' # {} => first_call' = "returned"
  BY VidmapKeepsTable DEF WindowTable, Shape, ScreenMemory
<1>3. CASE HaltChild /\ ForgetWindow
  <2>1. /\ UNCHANGED <<directory_entry, vidmap_line, first_call>>
        /\ asked' # {} => asked # {}
    BY <1>3 DEF ForgetWindow
  <2>2. Shape(page_video_map') /\ page_video_map'[0] = page_video_map[0]
    <3>1. CASE page_video_map' = vidmap_page_change(page_video_map, Screen, FALSE)
      BY <1>1, <3>1, PageChanged DEF Shape, ScreenMemory
    <3>2. CASE page_video_map' = page_video_map
      BY <1>1, <3>2
    <3> QED BY <1>3, <3>1, <3>2 DEF ForgetWindow, Revoke
  <2> QED BY <1>1, <2>1, <2>2
<1>4. ASSUME NEW p, NewProgram(p)
      PROVE  /\ Shape(page_video_map')
             /\ Progress(vidmap_line', first_call', directory_entry',
                         page_video_map'[0])
             /\ asked' # {} => first_call' = "returned"
  <2>1. /\ UNCHANGED <<page_video_map, directory_entry>>
        /\ asked' # {} => asked # {}
        /\ vidmap_line' = 0
        /\ first_call' = IF vidmap_line # 0 /\ first_call = "none" THEN "cut"
                         ELSE first_call
    BY <1>4 DEF NewProgram
  <2> QED BY <1>1, <2>1 DEF Progress
<1>5. CASE UNCHANGED vidVars
  BY <1>1, <1>5 DEF vidVars
<1> QED BY <1>2, <1>3, <1>4, <1>5 DEF VidNext, KeepWindows

\* Every program start, end, switch and vidmap call keeps the table in order.
THEOREM WindowTableHolds == VidSpec => []WindowTable
<1> QED BY WindowTableInit, WindowTableKept, TypeCorrect, VidImplementsProcess,
           PTL DEF VidSpec

(***************************************************************************)
(* A program that was given the window keeps it for as long as it lives,   *)
(* whatever programs ask for windows and end in the meantime.              *)
(***************************************************************************)
THEOREM WindowKeptCorrect == VidSpec => []WindowKept
<1>1. WindowTable => WindowKept
  BY DEF WindowTable, Progress, IsScreen, WindowKept
<1> QED BY <1>1, WindowTableHolds, PTL

\* What user mode reaches is in the running program's page or the window.
LEMMA MappedForUser ==
  ASSUME NEW i \in DOMAIN Mapped, Mapped[i].user
  PROVE  \/ Mapped[i].memory = {ProgramMemory(user_page)}
         \/ Mapped[i].memory = BehindWindow
<1>1. i \in {0, KERNEL_IDX, USER_IDX, VIDMAP_IDX}
  BY DEF Mapped
<1>2. 0 # KERNEL_IDX /\ 0 # USER_IDX /\ 0 # VIDMAP_IDX
  BY DEF KERNEL_IDX, USER_IDX, VIDMAP_IDX
<1>3. KERNEL_IDX # USER_IDX /\ KERNEL_IDX # VIDMAP_IDX /\ USER_IDX # VIDMAP_IDX
  BY DEF KERNEL_IDX, USER_IDX, VIDMAP_IDX
<1>4. CASE i = 0
  <2>1. Mapped[i] = [user |-> FALSE, memory |-> ScreenMemory]
    BY <1>2, <1>4 DEF Mapped
  <2> QED BY <2>1
<1>5. CASE i = KERNEL_IDX
  <2>1. Mapped[i] = [user |-> FALSE, memory |-> {KernelMemory}]
    BY <1>2, <1>3, <1>5 DEF Mapped
  <2> QED BY <2>1
<1>6. CASE i = USER_IDX
  <2>1. Mapped[i] = [user |-> TRUE, memory |-> {ProgramMemory(user_page)}]
    BY <1>2, <1>3, <1>6 DEF Mapped
  <2> QED BY <2>1
<1>7. CASE i = VIDMAP_IDX
  <2>1. Mapped[i] = [user |-> TRUE, memory |-> BehindWindow]
    BY <1>2, <1>3, <1>7 DEF Mapped
  <2> QED BY <2>1
<1> QED BY <1>1, <1>4, <1>5, <1>6, <1>7

(***************************************************************************)
(* A program in user mode reaches the screen, the terminals' pages and its *)
(* own memory, never the kernel or the low frames, although vidmap opens   *)
(* the window before it points it there; unless the first call of all was  *)
(* cut off half-way.                                                       *)
(***************************************************************************)
THEOREM OnlyScreenMemoryCorrect == VidSpec => []OnlyScreenMemory
<1>1. WindowTable /\ AddressSpaceFollowsPid => OnlyScreenMemory
  <2> SUFFICES ASSUME WindowTable, AddressSpaceFollowsPid,
                      InUserMode, first_call # "cut",
                      NEW i \in DOMAIN Mapped, Mapped[i].user,
                      NEW x \in Mapped[i].memory
               PROVE  x \in ScreenMemory \cup {ProgramMemory(cur_PID)}
    BY DEF OnlyScreenMemory, UserReaches
  <2>1. user_page = cur_PID
    BY DEF AddressSpaceFollowsPid, InUserMode, Lost
  <2>2. Progress(0, first_call, directory_entry, page_video_map[0])
    BY DEF WindowTable, InUserMode
  <2>3. /\ directory_entry \in {"absent", "table"}
        /\ directory_entry = "table" => IsScreen(page_video_map[0])
    BY <2>2 DEF Progress
  <2>4. CASE Mapped[i].memory = {ProgramMemory(user_page)}
    BY <2>1, <2>4
  <2>5. CASE Mapped[i].memory = BehindWindow
    <3>1. directory_entry = "table"
      BY <2>3, <2>5 DEF BehindWindow
    <3>2. PICK e \in {0, VIDMAP_IDX} :
            page_video_map[e].user /\ x = page_video_map[e].frame
      BY <2>5, <3>1 DEF BehindWindow
    <3>3. page_video_map[0].frame = Screen
      BY <2>3, <3>1 DEF IsScreen, Entry
    <3> QED BY <3>2, <3>3 DEF WindowTable, Shape, ScreenMemory
  <2> QED BY <2>4, <2>5, MappedForUser
<1> QED BY <1>1, WindowTableHolds, AddressSpaceCorrect, VidImplementsProcess, PTL

=============================================================================
