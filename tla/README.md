# TLA+ models of the kernel_colonels_os kernel

`student-distrib/` holds a small i386 kernel: three text terminals, six process
slots, ten system calls, a read-only file system in memory, a keyboard, an RTC.
Programs run in user mode with one 4 MB page each, and every program has an 8 KB
kernel stack with its process control block (PCB) at the bottom. There is one
CPU. The scheduler is written but never runs (see *Scheduler* below), so the CPU
changes hands only when a program executes another, when a program halts, and
when the user opens a terminal with Alt+F1..F3.

The modules here model that kernel from its source. TLC checks them on small
instances and TLAPS proves every safety property of the passing runs for every size.

## Inventory

| component | state | operations | talks to | what is hard | correct when | module |
|---|---|---|---|---|---|---|
| Process control (`process.c`, `terminal.c`) | `process_slots`, `cur_PID`, PCBs (`parent_pid`, `tid`, saved esp/ebp), `terminals[].pid`, `view_term`, `tss.esp0`, user page | `system_execute`, `system_halt`, `terminal_switch` | keyboard (Alt+Fn), system calls, exceptions, paging | programs of three terminals nest in any order; the parent is taken from the viewed terminal while the stack frame belongs to the caller; slots run out; six hand-written steps per hand-over | slots, parent links and terminals form one stack per terminal, but for one named exception; a halt resumes the parent with its own memory, stack and registers | Process, TerminalStacks |
| System calls and descriptors (`syscall-handler/`) | `fd_arr[8]` per PCB | `open`, `close`, `read`, `write` | process control (launch and halt), file system, RTC, terminal | which PCB a call works on; tables reused with their slot; entries reused for other files | a program has its streams and the files it opened, and nothing else | Descriptors |
| Video mapping (`syscall.c`, `page.c`) | directory entry 34, `page_video_map`, `vidmap_present` | `vidmap`, its end in `system_halt` | process control, page tables | granted in one entry and revoked in another; one table for all programs; opened to user mode before it leads anywhere, with the keyboard in between | a window stays with the program that asked, and leads to the screen only | VidMap |
| Line discipline (`keyboard.c`, `terminal.c`) | `key_buf`, `keyb_char_count`, `enterKeyPressed`, and a copy per terminal | keys, `terminal_read`, the exchange in `terminal_switch` | console echo, process control | the interrupt edits what a read is about to copy; one global buffer for three terminals; a full buffer | a program reads exactly the line its user saw, once | LineDiscipline |
| Console output (`lib.c`, `terminal.c`) | cursor, video page, three shadow pages, one mapping | `putc`, `scroll_up`, `clear`, `update_video_memory_paging` | keyboard echo, `terminal_write`, switch | `putc` of a program is interrupted by `putc` of the keyboard; the mapping is left where the last one needed it | cursor on the screen; no terminal's picture is lost or written on while another is in view; each screen has its own terminal's programs on it (it does not) | Console |
| Interrupts (`i8259.c`, `idt.c`, `int_handler.S`, `kernel.c`) | masks, requests, in-service bits, gates | mask, EOI, gate entry, the boot order | everything | the handler that starts a shell never returns; devices unmasked by accident | handlers are atomic and no line stays blocked | Pic, Interrupts |
| RTC (`rtc.c`) | tick flag, index register, rate | open, read, write, interrupt | descriptors, interrupts | a tick between clearing and waiting, or between selecting and storing a register; one rate for all | a read returns after the next tick; the rate is the last one accepted | Interrupts |
| Keyboard decoding (`keyboard.c`) | Shift, Ctrl, Alt, Caps Lock flags | scan codes | interrupts, line discipline | releases; two keys on one flag | flags follow the keys | KeyDecode, Interrupts |
| File system (`filesys.c`) | read-only image | lookup by name and index, `read_data`, `file_read`, `directory_read` | execute, descriptors | block boundaries, end of file, names that fill their field, a directory of 63, a block the image lacks | each read returns the bytes of the file at the position | FileSystem |
| Commands (`process.c`, `syscall.c`) | `arg1` pointer in the PCB | `parse_command`, `check_exec`, loading, `getargs` | shell, file system | a pointer into a frame; fields, blanks and types; failure after the shell's page is gone | the program named runs, with the argument typed | Commands |
| Page tables, boot (`page.c`, `kernel.c`) | directory and tables | `page_init`, `entry` | all | what is mapped for whom; what runs before what | user mode reaches no kernel memory | VidMap, Interrupts |
| Scheduler (`pit.c`, `process.c`) | none at run time | `pit_handler`, `next_process` | | never reached | | Interrupts shows that |
| Library, tests, user programs | | | | straight-line or environment | | partly |

`PROJECT.json` lists the hazards at their lines.

## Modules

```
TerminalStacks   <--implements--   Process   <--extends--   Descriptors
                                   (MCProcess)  <--extends--   VidMap
LineDiscipline        Console
Pic, KeyDecode   <--extends--   Interrupts
FileSystem       <--extends--   Commands   (MCCommands)
ProcessProofs  <--extends--  StackProofs (with MCProcess), DescriptorsProofs, VidMapProofs
ConsoleProofs, LineProofs, InterruptsProofs, CommandsProofs
```

Process is the trunk. `Descriptors` and `VidMap` conjoin each of its actions with
what the code does to their state in it, so a behaviour of theirs is one of Process
(proved: `ImplementsProcess`, `VidImplementsProcess`). `LineDiscipline` and `Console`
take from it what they need: who runs, and that opening a terminal takes the CPU.
That a key is one step for them is a fact about gates, `HandlersAtomic` of
`Interrupts`. `Commands` runs the file system through what `Descriptors` calls a
position.

### Process

`Process.tla` is the core. Its variables are the kernel's own tables. A PCB's
saved `esp`/`ebp` are abstracted to a *frame*: on whose kernel stack it lies, which program called
`system_execute`, from where (a system call, `terminal_switch`, `system_halt`),
and whether a later trap has been pushed over it. `cpu` is the program whose user
registers the CPU holds; the code has no such variable, and that it can differ
from `cur_PID` is the point.

| action | code |
|---|---|
| `Launch` | `system_execute` from the free slot on (299-397) |
| `SysExecute` | the execute system call |
| `ExecuteFails` | the same when the image cannot be read (326): the slot, `cur_PID` and the page have changed |
| `HaltBase` | `system_halt` of a terminal's first program, which starts a shell from inside halt (132-140) |
| `HaltChild` | `system_halt` of any other (142-222), ending at `EXECUTE_RETURN` |
| `ResumedShows`, `ResumedFaults` | the rest of a `system_halt` that `EXECUTE_RETURN` comes back into: line 142, and 142 to the fault at `close` (165) |
| `SwitchLaunch`, `SwitchView` | `terminal_switch` to a terminal without and with a program |
| `FaultForEver` | `update_video_memory_paging` with pid -1: an unmapped PCB, and a fault handler that prints |

Both long functions run with interrupts off, and the keyboard handler is an
interrupt gate, so each is one action. A failed `check_exec` and a full slot table
return without a state change; they are stuttering steps. So would be a failing second read
(370), but it asks for bytes that `check_exec` has already read. Exceptions end in
`system_halt(256)` and are `SysHalt` too. Exit statuses are not kept.

`EnterUser` is the rule that makes frames die: traps from user mode start at the
top of the stack in `tss.esp0`, so once user code runs with a stack, no older
frame on that stack can be returned to.

A frame need not lead back to a program. A shell that `HaltBase` started with
another terminal in view runs *there*, as a child of the program in view; when
it halts, `EXECUTE_RETURN` comes back into the `system_halt` that started it, behind
line 139, with the PCB of the program that ended long ago. `resumed` is that program.
The CPU is then in the kernel with interrupts on (`sti` at line 210), so keys can still open
terminals. Line 142 sets its terminal's pid to -1 (its comment says "most recent process
pid, not -1"), lines 146-163 set `cur_PID`, the kernel stack and the page for pid -1 and free its slot, and
`close` reads a PCB that is not mapped. If that terminal has a program by then,
it has lost it: `orphaned` records that. `Lost` is a CPU with nowhere to go: the kernel
jumped through an overwritten frame, faults for ever, or returned to a program whose page is
gone; what a program or the processor does then is not followed. `Whole` says whether the
file system has all blocks of its programs; without it `ExecuteFails` happens.

`TerminalStacks.tla` is the abstract specification: terminals with stacks of
programs, and no slots, links or pages. `MCProcess.tla` says which stack the PCBs of a
terminal hold (`Linked`: each program is the parent of the one above it, the shown one
is on top) and states that Process implements it. `kept` is the abstract name for
"neither lost nor orphaned"; the abstract system may stop keeping stacks at any step,
but never in a way that goes unrecorded.

### Descriptors

`Descriptors.tla` extends Process with `fd_arr`. Every process step is conjoined
with what the code does to the tables at that point (a fresh table in
`system_execute`; the loop over `close` in both branches of `system_halt`,
with `cur_PID` as it is *then*), and the system calls are actions of their own. File
contents are left out; a position moves as `file_read` and `directory_read` move
it. `held` is a history variable: what each program opened and did not close.
A PCB that no program has had is taken to be zero.

### LineDiscipline

`LineDiscipline.tla` has the keyboard interrupt (one action per editing key, since
it runs with interrupts off), `terminal_read` in the three steps that interrupts
can fall between (the loop, the gap before `cli`, the copy), and the keyboard part
of `terminal_switch`. `typing` and `line` are history variables: what the screen
shows being typed on each terminal, and the line entered there. `key_buf` starts
with an unknown code, because `init_terms` copies an unwritten local. If
`terminal_read` runs past `key_buf` the model records `overrun` and stops.
`while(!enterKeyPressed)` reads a plain `int`; the Makefile sets no optimisation,
so each turn of the loop loads it, and the model reads it afresh.

### VidMap

`VidMap.tla` extends Process with entries 0 and 34 of `page_video_map`, the
directory entry over them and `vidmap_present`. The call is one step for each thing it
writes (`OpenDirectory` to `FrameEntry`, at the lines `vidmap_line` names), because it runs with
interrupts on: the user may change the view between two steps, and opening a terminal there
starts a shell that finds the tables as they are and cuts the call off. `ForgetWindow` is
what `system_halt` does for a child: it withdraws entry 34 while
programs were given entry 0. `Mapped` is the directory as `page_init` and
`user_page_setup` leave it, `BehindWindow` what the window leads to, and `UserReaches` what of it
all user mode reaches. `first_call` is a history variable: if the first call of all is cut
off, the window is left open to user mode over low memory or over no table at all, which
`OnlyScreenMemory` leaves out by name; once one call has returned, later ones write what is
already there.
`asked` is a history variable. `vidmap` checks the pointer it is given before any of
this; the model passes one in the user page. The upper end of that check is one byte
too generous (`syscall.c:210`), which concerns one byte of an unmapped page and
is left out.

### Console

`Console.tla` has one action for each key that prints, since the keyboard handler is
not interrupted, and three for a program's `putc`: mapping the screen, storing and
moving, and looking at the row. `Preempt` says whether keys may fall between them. A page is
abstracted to the terminals whose characters are on it: a key's echo counts for the terminal in view,
a program's output for the terminal of the program, wherever it lands. That is what `OwnPictures`
asks about (each screen has its own terminal's characters only), and it is false. `Draw`, `Clear`, `Exchange` are the accesses to it. The
mapping is kept as code keeps it: `putc` sets it to the terminal in view,
`terminal_switch` to the one that runs, and `clear` uses what it finds: straight after a switch
that is the page of the running program's terminal, so Ctrl+L wipes a picture that is not in
view and leaves the screen. `printed` says that a `putc` has ended since the switch and mended the
mapping, and `CtrlLClearsScreen` is about that case. `update_cursor`
truncates to 16 bits. `KeyLimit <= (NumRows - 1) * NumCols` is what 127 is to 25 rows of 80.

### Interrupts, Pic, KeyDecode

`Pic.tla` is `i8259.c` on a record of the two controllers, with their priority rule
as the external part. `KeyDecode.tla` is what `keyb_main` does before it edits: flags and
table. `Interrupts.tla` composes both with the CPU: the interrupt flag, a stack of
handlers, one program. It begins with interrupts off in `entry`; `freq_change` turns
them on in the middle of it, as in the code. `freq_change` is one step per port access,
`rtc_read` one per access to its flag. The RTC asks again only when its register C
was read. `SwitchLaunch` is the handler that never returns: it acknowledges, and the stack of
handlers is gone.

### FileSystem, Commands

`FileSystem.tla` has the functions of `filesys.c` as operators on an image (the loop of
`read_data` is a recursive function), beside a reference for what a file contains.
`IsImage` is what the code takes for granted of an image: names that differ and fit
their field, inode numbers of inodes, block lists as long as the files, `"."` for the
directory, and no program in an inode that a directory or a device names, since
`check_exec` does not ask for the type. `filesys_img` has all of it (its inode 0 is
empty). That a block exists is not taken for granted. Of the programs an image may have
only `cat` and `ls` are followed. Names keep
what the code makes of them: a name that fills its field has no end, and `strlen` goes
into the file type. The search goes one entry past the directory, into the first
inode. Every data byte is different from all others, so a wrong, missing or repeated one
shows. `Commands.tla` is a line at the shell until its next prompt: parse, check, load,
and `cat` or `ls` reading until 0 or -1. An argument that was never written is a
nondeterministic choice. `MCCommands.tla` has the images and lines.

### Proof modules

`ProcessProofs`, `DescriptorsProofs`, `VidMapProofs`, `ConsoleProofs`, `LineProofs`,
`InterruptsProofs` and `CommandsProofs` are about the modules they are named for (the
last about `FileSystem` too); `StackProofs` is about `MCProcess`: stacks, room and
refinement.

## Runs

Passing runs:

| run | question | instance | states |
|---|---|---|---|
| `process_any` | do the tables stay stacks, and implement TerminalStacks, whatever the user does, until the kernel is lost? | 4 slots, 2 terminals, 4 nested programs, any terminal in view, some programs unreadable | 89 000 |
| `process_focused` (VidMap) | does every halt resume its parent while programs start and end in view? Do windows stay, and open nothing else? | 6 slots, 3 terminals (the real numbers), 2 nested | 1 978 000 |
| `descriptors` | do programs keep their streams and only their own files? | 3 slots, 2 terminals, 3 descriptors, file of length 1, directory of 2 | 207 000 |
| `line_patient` | does a user who waits for each read get exactly the lines typed, and does each line get read? | buffer of 3, 2 terminals, reads of 2 and 6 | 192 000 |
| `console` | do cursors stay on the screen, shown, with room to erase, and pictures out of view stay whole? Does Ctrl+L clear the screen? | 2 by 2 cells, 2 terminals, pages of 5 cells | 6 921 000 |
| `interrupts` | are handlers atomic and acknowledged, is every key handled, does the RTC tick at the rate set, does a read wait for a tick and return? | all 16 lines, 21 exceptions, 5 keys, 3 rates | 186 000 |
| `commands` | does what is named run, get its argument, read what the file has, and tell the user the truth? | 87 images, 375 lines, three read sizes | 103 000 |

Assumptions about the environment are constants, and hypotheses of theorems:

* `Focused` (Process): programs start and end only while their terminal is in view.
  Without it `HaltReturnsToParent` and `NoForeignFiles` are false (`halt_returns`).
* `Whole` (Process): the file system has every block of its programs. Without it an
  execute may lose the kernel.
* `Focused`, `TypeAhead`, `LeavePending` (LineDiscipline): whether keys are typed on
  other terminals than the running program's, while a line waits, and whether the user
  switches away with a line waiting.
* `Preempt`, `Writes` (Console): whether keys fall inside a program's `putc`, and what
  programs write. `console_scroll` shows what the first is for. A program that
  writes backspaces can walk off the top of the screen as `terminal_write` lets it; the
  shipped programs never do.

These runs end in a counterexample, and each is a disagreement between the code
and what its comments or its log say:

| run | what happens | said in |
|---|---|---|
| `halt_returns` | a program run from a terminal not in view becomes a child of the viewed one's program; its halt resumes one program's registers with another's memory | `syscall.c:16` |
| `files_survive` | a halting child closes its parent's files | `process.c:116` |
| `line_owner` | a program reads another terminal's line | `buglog.log:72` |
| `console_background` | a program prints on the screen of another terminal, the one in view | `buglog.log:52-58` |
| `console_scroll` | a key between `screen_y++` and its comparison leaves the cursor below the screen | `lib.c:258` |

Others that the models contain, without a run of their own:

* With the slots used up `system_execute` returns 0 and starts nothing
  (`process.c:308`), and `terminal_switch` leaves a terminal in view without a process
  (`terminal.c:66`, `101`). `NeverLost` holds in `process_focused` because two programs
  on three terminals fit in six slots.
* Ctrl+L straight after a switch back wipes the picture of the running program's terminal and
  leaves the screen (`keyboard.c:151`, `terminal.c:93`).
* A `vidmap` that is the first of all and is cut off by the opening of a terminal leaves low
  memory open to user mode (`syscall.c:245`).
* A halt that is returned into takes the program of its terminal away (`process.c:142`), and a program that
  cannot be read takes its caller's memory (`process.c:326`).
* The program of a terminal that was left never runs again (`pit.c:46-48`): no action
  of Process gives the CPU back.
* A closed RTC descriptor still accepts writes, which look at the file operations and
  not at the flags (`syscall.c:113`, against `ece391syserr.c:189`).
* Keys typed ahead of the read join the line entered (`keyboard.c:280`, against
  `buglog.log:396-398`); hence `TypeAhead`.
* `rtc_write` reports success for rates `freq_change` ignores, but none that it lets
  through is ignored (`RateIsWhatWasWritten`).

Every property of a passing run is also broken by a one-line change of the model
that a programmer could have made (the `..._...` definitions beside the originals):
a slot not freed, a stack pointer left stale, a position not reset, a screen filled before it is
saved, a missing end of interrupt, a flag not cleared, `>` for `>=` at a block's end.

### Bounds

* Process: the interesting cases are two programs on a terminal, two terminals, and
  no slot left; four slots and two terminals have all of them, with every
  interleaving of launches, halts and switches. `MaxJobs` bounds nesting only
  where slots would not. The real 6 and 3 fit when programs start in view. Halts are returned
  into with four slots, but find their terminal empty there: to have it hold a program again takes six
  slots (TLC finds it in 22 steps with 2 terminals and `MaxJobs = 5`). With four
  slots `StacksUnlessOrphaned` is therefore checked without its exception; the
  theorem is about all sizes.
* VidMap: three terminals and six slots have a call cut off at each of its steps, with and without
  an earlier call that returned, and windows of parents, children and other terminals together.
* Descriptors: `open` takes the lowest free entry, so one entry beside the streams
  has reuse by another type of file, by another program, and a full table. The
  directory is longer than the file so that a stale position shows. Proved for any number.
* Line: a buffer of 3 holds two characters and `'\n'`: full, partly full and empty.
  One printable character is enough as the code never compares two. A read of 2 cuts a line,
  one of 6 is longer than the buffer. `MaxLine` only bounds the history variable.
* Console: two rows have a last row to scroll and one above it, two columns an end of
  line and a place before it. A page holds one cell more than the screen, as the real
  one holds 48 more, so that a cell below the last row is still on it. `MaxRow` keeps programs from
  writing for ever below the screen once they are there. Proved for any screen.
* Interrupts: two modifiers that share a flag and one that does not, a key that selects a
  terminal and one that toggles; rates refused (3), at the top of the range (1024) and
  above it (2048), beside the 2 Hz of `open`. `FifoSize` bounds the codes waiting.
* Commands: `FILENAME_LEN = 2`, `EXT2_DATA_BLOCK_SIZE = 2`, `NUM_DENTRIES_BOOT = 5`,
  `HeaderLen = 2`, `CMD_SIZE = 3`. Files of 0 to 5 bytes end before, at and behind a
  boundary, with blocks in and out of order and missing. Names fill their field, exceed it
  and are the ones behind the directory. Lines have every combination of blanks.
  Reads of 1, 3 and 8 fit neither blocks nor files.
* Deadlock is checked in all passing runs but `process_any`, where the kernel can get lost with
  no program to return to.

### Fairness

* LineDiscipline: weak fairness of each step of the running program: the CPU executes
  it whenever no interrupt runs, and keys are finitely many between two
  instructions. Calling `read` again is part of it: that is the shell's loop. Keys have
  no fairness.
* Interrupts: weak fairness of the RTC's tick and of a running handler (nothing
  interrupts it); strong fairness of the program and of each interrupt, which other interrupts
  disable for a while but not for ever. `RtcReadReturns` also assumes
  `UserPauses`: the keyboard has the higher priority, and one that never stopped would
  keep the RTC waiting. `KeysAreHandled` needs no such assumption.

## Proofs

All theorems hold for any number of slots, terminals and descriptors and any size of
screen and buffer; the other hypotheses are the environment constants above, where a
theorem names them.

*Process.* `JobStacks` (each terminal shows a live program of its own, parents wait,
one shell per terminal) is not inductive: that the program below the top has no
second child does not follow from its parts once links could form a cycle. The
invariant `Inductive` has a numbering instead (`StackedUp`): the programs of each terminal
can be numbered from the shell (0) up, each one more than its parent, no two the
same, the shown one highest (`Stacked`). `LaunchStacks` shows a launch may give the new
program the next number, `HaltStacks` that removing the highest leaves a
stack; `HaltBase` is a halt followed by a launch. A halt that is returned into keeps the
numbering too, as long as it does not change what a terminal shows; when it does, the state is
`orphaned`, and `LostOrOrphanedStays` shows nothing undoes that. `InRange`, the types and
`AddressSpaceFollowsPid`, holds in orphaned states as well. `NumberedIsStacked` gets `JobStacks` from
the numbering (`StacksCorrect`). With `Focused`, `CallersWait` is inductive over that: each child's
frame is that of its parent's own `system_execute`, untouched because only the
parent's stack could be overwritten and a parent with a child does not run; so no frame
of a halt is ever loaded, and the exception is gone (`FocusedStacksCorrect`).
`HaltReturnsCorrect` follows.

*Descriptors.* `ImplementsProcess` shows every behaviour is one of Process, which
gives all of the above. `EntryChanges` lists what any step can do to one entry:
nothing, start, close, open, read. Each invariant is then five short cases.

*VidMap.* `WindowTable` ties what the directory and entry 0 hold to how far the current
`vidmap` call has got (`Progress`): behind line 221 there is a table, behind 224 the entry is
present, behind 245 open. So the last step makes it the screen, and once a call has returned it stays:
the steps of later calls write what is there (`ScreenStays`), and no other action writes entry 0.
Before that, and unless a call was cut off, the directory entry is absent whenever no call is under
way. `OnlyScreenMemoryCorrect` joins it with `AddressSpaceFollowsPid`, which comes from Process.

*Console.* Under `Orderly` (no key inside a `putc`, no backspace written by a program)
the invariant is `Steady`: parts in range (`Typed`), and each terminal in place, its
cursor on the screen with at least as many cells before it as keys it counts
(`InPlace`, `Fits`). The point is arithmetic: `Move` and `Scroll` together keep
a cursor on the screen and lose at most the room a scroll takes, and `KeyLimit` is
less than what is left. `PicturesKeptCorrect` needs that terminals' pages are
different from each other and from the screen, and that `Draw` goes to the screen's page.
`CtrlLClearsScreenCorrect` rests on `Mapped`: once something is `printed` the mapping is the screen.

*LineDiscipline.* `LineTypeCorrect` needs no assumption about the user: whatever is typed
and read, no index leaves `key_buf`. For a `Patient` user (types where the program runs,
waits for each read) `InStep` is inductive: every terminal's buffer starts with what its
screen shows (`Shows`), an entered line is on the terminal in view, whose program is
the running one, and nothing is typed behind it. `LineIsCopied` is the algorithm of
`terminal_read`: the copy is the line up to its end or to that of the caller's buffer, and
since a `'\n'` is in `key_buf` it stays inside, whatever `nbytes` is. That a `'\n'` has a first
occurrence is the least-number principle, from the library's `WFMin`.

*Stacks* (`StackProofs`). `NumberedBySlots` bounds the numbers of `Stacked` by the slots: a
program numbered n has n others below it, one for each smaller number
(`EveryDepthTaken`, from the least number missing), so with `NumSlots` slots no number
reaches `NumSlots`. `NeverLostCorrect` counts: with `Focused`
only the terminal in view gains programs and no more than `MaxJobs` (`Room`), so if the
terminal in view has none, the others hold fewer programs than there are slots
(`EmptyTerminalHasSlot`) and its shell finds one. The hypotheses are what makes it true:
`Focused`, `Whole`, `MaxJobs >= 1` and `NumSlots >= MaxTerms * MaxJobs`; without the last one the
kernel does get lost. `ImplementsStacksCorrect` is the refinement, with no such hypothesis: while the stacks are `kept` every step is
one of theirs, and the steps that end that are `Break`.
The links of a PCB table determine at most one `Linked` sequence (`LinkedIsUnique`, comparing two
from the top down) and by `Stacked` there is one (`StackExists`: order the jobs by number), so
the mapped `stacks` are known wherever one can show a linked sequence. Each action then has its
own lemma: a launch appends to one stack (`LaunchIsRun`), a halt takes the last element
(`HaltChildIsEndChild`), a shell's halt does and starts another
(`HaltBaseIsEndShell`), and what is left is a change of view or a stutter (`HiddenStep`).

*Interrupts.* `Inductive` has five parts: what the
stack of handlers and the interrupt flag can be together (`Control`: a handler on the stack
means interrupts are off and it is the only one); what is then masked and in service
(`Lines`: only lines of the handler on the stack are in service, and line 0 is masked); the RTC's index and rate at each port access of `freq_change`
(`Clock`); the modifier flags against the codes still queued (`Modifying`: the last code of
a key in the queue, or the flag if there is none, agrees with the key itself, and for the two
Shift keys, which share a flag, says no more than that one is down;
`LastOfTail` and `LastOfAppend` are what reading and typing do to that); and the terminals'
range. `Control` and `Lines` need each other: a line that is in service is not presented, and
the timer never is. `HandlersAtomic`, `NothingLeftInService`, `TimerNeverRuns`,
`RateIsWhatWasWritten`, `FlagsFollowKeys` and the action property `ReadWaitsForTick` follow for any
rates, terminals, keys and length of the queue. That a rate `rtc_write` accepts is one `freq_change`
sets needs what the kernel's `log2` loop computes, for every number: `Log2Halves` shows that
the recursive function exists and satisfies its equation, by least numbers.

*File system and commands.* `InductiveHolds` rests on four groups of lemmas. Names:
`FilenameFacts` is the length of a name that may have no end, `DentryFacts` and `ByName` that
the search finds exactly the entry whose name is the word clipped to the field, the
inode behind a full directory included. Data: `RecursionExists` gives the states
of a loop their recursive equation, `ReadByteIsNext` is one turn of `read_data` (after i
bytes the block and the place in it are those of byte `offset + i`), `ReadDataIs` its result,
`FileReadIs` and `DirectoryReadIs` what a descriptor's read returns; `PiecesJoin`
and `ListingGrows` put successive reads together. Lines: `FieldEndIs`, `FirstWordIs`, `ArgIs`
cut a line into its fields whatever blanks it has. Then the invariant: from
`Start` on the page is the contents of the file named (`HasStarted`) and `arg1` the second
field if there is one (`HasArgument`); in the loop what was written is the file, or the
listing, up to the descriptor's position (`HasCopied`, `HasListed`), which is why the whole is
written when a read returns 0. `CheckExecIs` shows that the 40 bytes `check_exec` reads decide,
and that nothing but a missing block lets the loading fail afterwards.

All safety properties of the passing runs are theorems. Only model-checked are the liveness
properties `LineIsRead`, `KeysAreHandled` and `RtcReadReturns` (fairness is out of the
prover's reach), and the five counterexamples. The lemma `LeastNumber` stands in
four modules, which share nothing else.

## Not modelled

* Scheduler: `pit_init` comes after `init_terms`, which does not return
  (`kernel.c:177-178`), and its `enable_irq(0)` is a comment (`pit.c:26`).
  `TimerNeverRuns` shows that no other mask uncovers line 0. Modelling
  `next_process` would model code that cannot run.
* Before the first shell: a key pressed between `freq_change`'s `sti` and `init_terms`
  meets a null `view_term`; the user of `Interrupts` waits for the shell.
* First fields of ten characters and more run over `cmd` on the kernel stack
  (`process.c:238`); `Lose` stands for whatever follows.
* `terminal_read` with `nbytes` 0 or 1 writes `'\n'` to the caller's buffer all the
  same; reads here are of 1 and more, and `got` keeps what comes before it.
* Exceptions raised by the kernel itself, `paging.S`, multiboot and descriptor table
  layouts, and port timing: no state of the program.
* `printf`, `itoa`, `puts`, `strrev`, `mem*` and `strcpy`: sequential and stateless.
* `tests.c` is not called (`kernel.c:197`). The programs under `syscalls/` and `fish/`
  other than the shell, `cat` and `ls` are the environment: any system call at any time.
