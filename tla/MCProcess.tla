------------------------------ MODULE MCProcess ------------------------------
(***************************************************************************)
(* Process, and the terminal stacks it implements.                         *)
(***************************************************************************)
EXTENDS Process, Sequences, SequencesExt

(***************************************************************************)
(* s holds the programs of a terminal that shows top, from its shell up:   *)
(* each is the parent of the one above it.                                 *)
(***************************************************************************)
Linked(s, blocks, top) ==
  IF top = NoPid THEN s = <<>>
  ELSE /\ s # <<>> /\ s[Len(s)] = top
       /\ \A i \in 1 .. Len(s) :
            blocks[s[i]].parent_pid = IF i = 1 THEN NoPid ELSE s[i - 1]

\* The stack that the PCBs hold under the program top.
StackIn(blocks, top) ==
  CHOOSE s \in SeqOf(PIDs, NumSlots) : Linked(s, blocks, top)

StackOf(t) == StackIn(pcb, terminals[t])

Abstract == INSTANCE TerminalStacks WITH
  Pids <- PIDs,
  Terminals <- TIDs,
  stacks <- [t \in TIDs |-> StackOf(t)],
  viewed <- view_term,
  running <- cur_PID,
  kept <- ~Lost /\ ~orphaned

(***************************************************************************)
(* Process control implements one stack of programs per terminal: every    *)
(* execute, halt and terminal switch of the code is a push, a pop or a     *)
(* change of view there, whatever order they come in, until a halt that is *)
(* returned into takes a terminal's program from it or the kernel is lost. *)
(***************************************************************************)
ImplementsStacks == Abstract!Spec

=============================================================================
