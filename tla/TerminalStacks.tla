--------------------------- MODULE TerminalStacks ---------------------------
(***************************************************************************)
(* What process control promises the user, with no slot table, PCB, parent *)
(* link or page: every terminal has a stack of programs.  A new program    *)
(* goes on top of the stack of the terminal in view; when the running      *)
(* program, which is on top of its stack, ends, the one beneath resumes,   *)
(* and a terminal whose last program ends makes a new shell start on the   *)
(* terminal in view.  A pid is in use by at most one program.  All this is *)
(* promised for as long as kept is true; who uses the module says when it  *)
(* stops.                                                                  *)
(***************************************************************************)
EXTENDS Integers, Sequences, SequencesExt

CONSTANTS Pids, Terminals

VARIABLES stacks, viewed, running, kept

svars == <<stacks, viewed, running, kept>>

Free(s, p) == \A t \in Terminals : p \notin Range(s[t])

Push(s, t, p) ==
  [u \in Terminals |-> IF u = t THEN Append(s[u], p) ELSE s[u]]

\* A fresh program on terminal t of the stacks s.
Run(s, t) ==
  \E p \in Pids :
    /\ Free(s, p)
    /\ stacks' = Push(s, t, p)
    /\ running' = p

OnTop(t) == stacks[t] # <<>> /\ Last(stacks[t]) = running

Init ==
  /\ \E p \in Pids, t \in Terminals :
       /\ stacks = Push([u \in Terminals |-> <<>>], t, p)
       /\ running = p
       /\ viewed = t
  /\ kept = TRUE

Start == Run(stacks, viewed) /\ UNCHANGED viewed

\* The running program of terminal t ends and the one beneath resumes.
EndChild(t) ==
  /\ OnTop(t) /\ Len(stacks[t]) > 1
  /\ stacks' = [stacks EXCEPT ![t] = Front(@)]
  /\ running' = stacks[t][Len(stacks[t]) - 1]
  /\ UNCHANGED viewed

\* The only program of terminal t ends and a shell starts where the user looks.
EndShell(t) ==
  /\ OnTop(t) /\ Len(stacks[t]) = 1
  /\ Run([stacks EXCEPT ![t] = <<>>], viewed)
  /\ UNCHANGED viewed

View(t) ==
  /\ t # viewed
  /\ viewed' = t
  /\ IF stacks[t] = <<>> /\ \E p \in Pids : Free(stacks, p)
     THEN Run(stacks, t)
     ELSE UNCHANGED <<stacks, running>>

Keep ==
  /\ kept /\ kept'
  /\ Start \/ \E t \in Terminals : EndChild(t) \/ EndShell(t) \/ View(t)

\* The promise ends, and never begins again.
Break == ~kept'

Next == Keep \/ Break

Spec == Init /\ [][Next]_svars

=============================================================================
