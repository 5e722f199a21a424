------------------------------ MODULE MCKernel ------------------------------
(***************************************************************************)
(* Kernel and Paging for TLC, and the sessions the pcbs stand for.         *)
(***************************************************************************)
EXTENDS Paging, Sequences

\* The line of processes that ends in process p, as the parent fields give
\* it, the root first.
Line[p \in Pids \cup {NoPid}] ==
  IF p \notin Live THEN <<>> ELSE Append(Line[pcb_ptr[p].parent], p)

\* pcb_num[] and the parent fields are a stack of programs for each terminal.
Stacks == [t \in Terminals |-> Line[pcb_num[t]]]

S == INSTANCE Sessions WITH
       MaxPrograms <- MaxPcb,
       sessions    <- Stacks,
       running     <- current_terminal,
       view        <- terminal_number

\* Every execute(), halt(), tick and Alt-Fn key is the step of the sessions
\* that its caller expects: a program started by a program runs in its place
\* and gives the CPU back to it, only a failed first visit skips a turn, and
\* every open terminal gets the CPU again and again.
KernelRunsSessions == S!Spec
=============================================================================
