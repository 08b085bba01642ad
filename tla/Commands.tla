------------------------------ MODULE Commands ------------------------------
(***************************************************************************)
(* A line at the shell from Enter to the next prompt: the shell (shell.c), *)
(* parse_command, check_exec and the loading of system_execute             *)
(* (process.c), getargs (syscall.c), and the programs cat and ls, which    *)
(* read the file system through a descriptor (FileSystem).                 *)
(***************************************************************************)
EXTENDS FileSystem

CONSTANTS
  CMD_SIZE,   \* 10
  HeaderLen,  \* bytes check_exec reads (40)
  Images,     \* environment: images
  Lines,      \* environment: lines typed, without the Enter
  ReadSizes   \* environment: nbytes of cat's reads

Space == " "

ASSUME CommandsAssumption ==
  /\ CMD_SIZE \in Nat \ {0} /\ HeaderLen \in Nat \ {0}
  /\ ReadSizes \subseteq Nat \ {0}
  /\ {Space, ".", "?"} \subseteq Chars
  /\ \A im \in Images : IsImage(im)
  /\ \A l \in Lines : IsText(l) /\ l # <<>>

VARIABLES
  img,     \* the image mounted
  pc,      \* who runs: the shell, with a status ("shell") or waiting for a line
           \* ("prompt"); the kernel ("execute"); the program ("start", "loop");
           \* "lost" when the kernel overwrote its stack or unmapped the shell
  line,    \* command
  arg1,    \* as a C string
  page,    \* the program image loaded
  fd,      \* descriptor 2
  out,     \* what the program has written to descriptor 1
  status   \* of the last command: what execute returned

vars == <<img, pc, line, arg1, page, fd, out, status>>

NoFd == [filetype |-> FileType, inode_num |-> 0, fpos |-> 0]

\* init_fs mounts the image.
Init ==
  /\ img \in Images
  /\ pc = "prompt" /\ line = <<>> /\ arg1 = CString(<<>>)
  /\ page = <<>> /\ fd = NoFd /\ out = <<>> /\ status = 0

\* The shell says what became of the command and prompts for the next one.
Prompt ==
  /\ pc = "shell"
  /\ pc' = "prompt"
  /\ line' = <<>> /\ arg1' = CString(<<>>)
  /\ out' = <<>> /\ status' = 0 /\ page' = <<>>
  /\ UNCHANGED <<img, fd>>

\* The shell reads a line and calls execute.
Enter(l) ==
  /\ pc = "prompt"
  /\ pc' = "execute" /\ line' = l
  /\ UNCHANGED <<img, arg1, page, fd, out, status>>

(***************************************************************************)
(* parse_command: each field ends at a blank or at the end of the line,    *)
(* and the second begins just after the first one's end.                   *)
(* FieldEnd_SkipsBlanks: a blank at the start of a field does not end it.  *)
(* Ends_NotBlank: there is one field.                                      *)
(***************************************************************************)
Ends_NotBlank(c) == c = NUL
Ends(c) == c \in {Space, NUL}

FieldEnd_SkipsBlanks(command, i) ==
  Min({j \in i .. Len(command) : Ends(command[j]) /\ (j > i \/ command[j] = NUL)})
FieldEnd(command, i) == Min({j \in i .. Len(command) : Ends(command[j])})

Cmd(command) == SubSeq(command, 1, FieldEnd(command, 1) - 1)

HasArg(command) == command[FieldEnd(command, 1)] # NUL

Arg(command) ==
  LET start == FieldEnd(command, 1) + 1
  IN SubSeq(command, start, FieldEnd(command, start) - 1)

\* Without a second field arg1 keeps what the stack held.
Args(command) ==
  IF HasArg(command) THEN {CString(Arg(command))}
  ELSE {CString(<<>>), CString(<<"?">>)}

\* check_exec.  IsExec_AnyType: the magic number is not looked at.
IsExec_AnyType(d) == read_data(img, d.inode_num, 0, HeaderLen).n = HeaderLen
IsExec(d) ==
  LET header == read_data(img, d.inode_num, 0, HeaderLen)
  IN header.n = HeaderLen /\ header.buf[1] \in {Byte(b, 0) : b \in DOMAIN img.elf}

DentryOf(command) == read_dentry_by_name(img, CString(Cmd(command)))

check_exec(command) == DentryOf(command).ok /\ IsExec(DentryOf(command).dentry)

\* Not a program.  (A slot is free: Process has the slot table.)
Refuse(command) ==
  /\ pc = "execute"
  /\ ~check_exec(command)
  /\ pc' = "shell"
  /\ status' = Failure
  /\ UNCHANGED <<img, line, arg1, page, fd, out>>

Load(command) ==
  LET num == DentryOf(command).dentry.inode_num
  IN read_data(img, num, 0, img.inodes[num + 1].len)

\* The program is loaded and starts.
Start(command) ==
  /\ pc = "execute"
  /\ check_exec(command)
  /\ Load(command).n # Failure
  /\ arg1' \in Args(command)
  /\ page' = Load(command).buf
  /\ pc' = "start"
  /\ UNCHANGED <<img, line, fd, out, status>>

\* A first field that cmd has no room for (what it spills over may also be out
\* of use: then the above); or, when the program cannot be read to its end, -1
\* for a shell whose own page is no longer mapped.
Lose(command) ==
  /\ pc = "execute"
  /\ \/ Len(Cmd(command)) >= CMD_SIZE
     \/ check_exec(command) /\ Load(command).n = Failure
  /\ pc' = "lost"
  /\ UNCHANGED <<img, line, arg1, page, fd, out, status>>

Execute ==
  \/ Refuse(CString(line)) \/ Start(CString(line)) \/ Lose(CString(line))
  \/ pc = "lost" /\ UNCHANGED vars

-----------------------------------------------------------------------------
\* The program in the page.
Program == img.elf[page[1][1]]

\* halt, and the shell prints its next prompt.
Halt(code) == pc' = "shell" /\ status' = code

\* getargs and open, for cat, or open(".") for ls.
GetArgs == arg1[1] # NUL

Opens ==
  read_dentry_by_name(img, IF Program = "cat" THEN arg1 ELSE CString(<<".">>))

NoArgument ==
  /\ pc = "start" /\ Program = "cat" /\ ~GetArgs
  /\ Halt(3)
  /\ UNCHANGED <<img, line, arg1, page, fd, out>>

NoFile ==
  /\ pc = "start" /\ (Program = "cat" => GetArgs)
  /\ ~Opens.ok
  /\ Halt(2)
  /\ UNCHANGED <<img, line, arg1, page, fd, out>>

Open ==
  /\ pc = "start" /\ (Program = "cat" => GetArgs)
  /\ Opens.ok
  /\ pc' = "loop"
  /\ LET d == Opens.dentry
     IN fd' = [filetype |-> d.filetype,
               inode_num |-> IF d.filetype = FileType THEN d.inode_num ELSE 0,
               fpos |-> 0]
  /\ UNCHANGED <<img, line, arg1, page, out, status>>

\* read: by the type of file; the RTC's returns 0 after a tick.
Reads(n) ==
  CASE fd.filetype = FileType -> file_read(img, fd, n)
    [] fd.filetype = DirType -> directory_read(img, fd, n)
    [] fd.filetype = RtcType -> [n |-> 0, buf |-> <<>>, fpos |-> fd.fpos]

\* ls asks for one byte less than its buffer has and puts a newline there.
Ask == IF Program = "cat" THEN ReadSizes ELSE {FILENAME_LEN}
Written(buf) == IF Program = "cat" THEN buf ELSE Append(buf, "newline")

ReadSome(n) ==
  /\ pc = "loop" /\ n \in Ask /\ Reads(n).n > 0
  /\ out' = out \o Written(Reads(n).buf)
  /\ fd' = [fd EXCEPT !.fpos = Reads(n).fpos]
  /\ UNCHANGED <<img, pc, line, arg1, page, status>>

ReadEnds(n) ==
  /\ pc = "loop" /\ n \in Ask /\ Reads(n).n <= 0
  /\ Halt(IF Reads(n).n = 0 THEN 0 ELSE 3)
  /\ fd' = NoFd
  /\ UNCHANGED <<img, line, arg1, page, out>>

User ==
  \/ NoArgument \/ NoFile \/ Open
  \/ \E n \in ReadSizes \cup {FILENAME_LEN} : ReadSome(n) \/ ReadEnds(n)

Next == Prompt \/ (\E l \in Lines : Enter(l)) \/ Execute \/ User

Spec == Init /\ [][Next]_vars

-----------------------------------------------------------------------------
\* For reference: the fields of a line.
IsField(w) == \A i \in 1 .. Len(w) : w[i] # Space

FirstField(l) == CHOOSE w \in Prefixes(l) :
                   IsField(w) /\ (w = l \/ l[Len(w) + 1] = Space)

FirstWord == FirstField(line)

ArgWord == SubSeq(arg1, 1, strlen(arg1))

Ran(program) == page # <<>> /\ Program = program

StartsElf(num) == Contents(img, num)[1] \in {Byte(b, 0) : b \in DOMAIN img.elf}

(***************************************************************************)
(* What runs is the whole of the file that the first field names, and it   *)
(* is a program, although check_exec looks at 40 bytes of it and not at    *)
(* its type, and names are clipped (process.c:268-277, 325; filesys.c).    *)
(***************************************************************************)
RunsWhatWasNamed ==
  pc \in {"start", "loop"} =>
    \E d \in Named(img, FirstWord) :
      /\ d.filetype = FileType
      /\ page = Contents(img, d.inode_num) /\ StartsElf(d.inode_num)

(***************************************************************************)
(* A program gets the second field as its argument, whatever follows it    *)
(* (process.c:234-260; syscall.c:194-200).                                 *)
(***************************************************************************)
ArgIsSecondField ==
  pc \in {"start", "loop"} /\ ~IsField(line) =>
    \E rest \in Suffixes(line) :
      /\ line = FirstWord \o <<Space>> \o ArgWord \o rest
      /\ IsField(ArgWord) /\ (rest # <<>> => rest[1] = Space)

(***************************************************************************)
(* cat writes the file's bytes, each once and in order, and all of them    *)
(* when it succeeds, whatever it asks read for at a time and however the   *)
(* file lies on its blocks (filesys.c:177-209, 303-354; ece391cat.c).      *)
(***************************************************************************)
CatPrintsTheFile ==
  Ran("cat") =>
    \A d \in Named(img, ArgWord) :
      d.filetype = FileType =>
        /\ IsPrefix(out, Contents(img, d.inode_num))
        /\ pc = "shell" /\ status = 0 => out = Contents(img, d.inode_num)

(***************************************************************************)
(* ls writes every name, each once and in the directory's order, those     *)
(* that fill their field and a full directory included (filesys.c:79-115;  *)
(* ece391ls.c).                                                            *)
(***************************************************************************)
LsPrintsEveryName ==
  Ran("ls") /\ pc = "shell" /\ status = 0 =>
    out = FlattenSeq([i \in 1 .. Len(img.dentries) |->
                        Append(img.dentries[i].name, "newline")])

(***************************************************************************)
(* What the user is told is so: "no such command" when no program has that *)
(* name, "file not found" when no entry has it, and a failed read only of  *)
(* a file the image does not have in full (ece391shell.c; ece391cat.c;     *)
(* filesys.c:237-268, 336-339).                                            *)
(***************************************************************************)
StatusIsTrue ==
  pc = "shell" =>
    /\ status = Failure =>
         \A d \in Named(img, FirstWord) :
           \/ img.inodes[d.inode_num + 1].len < HeaderLen
           \/ ~StartsElf(d.inode_num) \/ ~Readable(img, d.inode_num)
    /\ status = 2 => Named(img, IF Ran("cat") THEN ArgWord ELSE <<".">>) = {}
    /\ status = 3 =>
         ArgWord = <<>> \/ \E d \in Named(img, ArgWord) : ~Readable(img, d.inode_num)

(***************************************************************************)
(* Once check_exec has accepted a file the image has in full, nothing that *)
(* system_execute does after it took a slot and mapped the new page fails, *)
(* and short names fit into cmd (process.c:286-372).                       *)
(***************************************************************************)
ShellSurvives ==
  pc = "lost" =>
    \/ Len(FirstWord) >= CMD_SIZE
    \/ \E d \in Named(img, FirstWord) : ~Readable(img, d.inode_num)

=============================================================================
