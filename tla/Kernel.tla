------------------------------- MODULE Kernel -------------------------------
(***************************************************************************)
(* Processes, scheduling and terminal switching.                           *)
(*                                                                         *)
(* One CPU is shared by the processes of a few terminals.  Each terminal   *)
(* runs a line of processes: its shell at the root, each process waiting   *)
(* in execute() for the child it started, the youngest one runnable.  The  *)
(* code keeps this in pcb_ptr[] and the parent fields (pcb.c), in          *)
(* pcb_num[], the runnable process of each terminal (syscall.c), and in    *)
(* current_terminal, the terminal that has the CPU (scheduling.c).         *)
(*                                                                         *)
(* Every action is one handler.  execute(), halt() and the bodies of the   *)
(* PIT and keyboard handlers run with interrupts disabled from their first *)
(* cli() until the CPU is in another context, so a handler is one step.    *)
(*                                                                         *)
(* A saved stack pointer is abstracted to what matters about it:           *)
(*   "null"    it is 0, as new_pcb() left it                               *)
(*   "frame"   it points at the frame in which the process is suspended    *)
(*   "popped"  it is not 0, but the process has run since and the frame it *)
(*             pointed at is gone                                          *)
(*                                                                         *)
(* An operator named Mutant_X is not part of the specification: it is the  *)
(* slip in X that one of the properties at the end must catch.             *)
(***************************************************************************)
EXTENDS Naturals

CONSTANTS
  NumTerminals,  \* TOTAL_TERMINALS
  MaxPcb,        \* MAX_PCB_NUM
  NULL           \* an entry of pcb_ptr[] that points at no pcb

Terminals == 0 .. NumTerminals - 1

\* A process is named by its pcb number; its page directory is one less.
Pids == 1 .. MaxPcb
NoPid == 0

\* The physical 4KB pages behind the user video address: the screen, and one
\* background buffer for each terminal.
VideoPage == 0
\* Mutant: counts the terminals from one, as the keys do.
Mutant_BufferPage(t) == t + 2
BufferPage(t) == t + 1
Pages == 0 .. NumTerminals

StackPointer == {"null", "frame", "popped"}

\* struct pcb_struct.  The files and the arguments are not in this module, the
\* pid is the index, and nothing writes retval after new_pcb().
Pcb == [parent          : Pids \cup {NoPid},
        terminal_number : Terminals,
        sched_esp       : StackPointer,  \* left by the scheduler
        esp             : StackPointer]  \* left by execute() in a parent

ASSUME KernelAssumption ==
  /\ NumTerminals \in Nat \ {0}
  /\ MaxPcb \in Nat \ {0}
  /\ NULL \notin Pcb

VARIABLES
  pcb_ptr,           \* pcb_ptr[]: what each entry points at
  pcb_num,           \* pcb_num[]: the runnable process of each terminal
  current_terminal,  \* the terminal being scheduled
  terminal_number,   \* the terminal on the screen
  run_shell,         \* termis[].run_shell
  cr3,               \* the page directory in use
  esp0,              \* tss.esp0, as the process whose kernel stack it names
  vidmem             \* vidmem_pt[][0].base_address of each process

vars == <<pcb_ptr, pcb_num, current_terminal, terminal_number, run_shell,
          cr3, esp0, vidmem>>

TypeOK ==
  /\ pcb_ptr \in [Pids -> Pcb \cup {NULL}]
  /\ pcb_num \in [Terminals -> Pids \cup {NoPid}]
  /\ current_terminal \in Terminals
  /\ terminal_number \in Terminals
  /\ run_shell \in [Terminals -> BOOLEAN]
  /\ cr3 \in 0 .. MaxPcb - 1
  /\ esp0 \in Pids \cup {NoPid}
  /\ vidmem \in [Pids -> Pages]

\* entry() just before it executes the first shell: paging is set up, the
\* pcbs and the terminals are initialised, interrupts are enabled.
Init ==
  /\ pcb_ptr = [p \in Pids |-> NULL]
  /\ pcb_num = [t \in Terminals |-> NoPid]
  /\ current_terminal = 0
  /\ terminal_number = 0
  /\ run_shell = [t \in Terminals |-> t = 0]
  /\ cr3 = 0
  /\ esp0 = NoPid
  /\ vidmem = [p \in Pids |-> VideoPage]

Live    == {p \in Pids : pcb_ptr[p] # NULL}
Running == pcb_num[current_terminal]
Booting == Running = NoPid

-----------------------------------------------------------------------------
(* Starting a program.                                                     *)

\* find_new_pcb(): n is the first free entry of pcbs.
FindNewPcb(pcbs, n) ==
  /\ n \in Pids
  /\ pcbs[n] = NULL
  /\ \A p \in 1 .. n - 1 : pcbs[p] # NULL

\* The pcbs after new_pcb(n, up), called while terminal shown is on the
\* screen, and after execute() has stored its frame in the parent.
\* Mutant: execute() does not store its frame.
Mutant_NewPcb(pcbs, up, shown, n) ==
  [pcbs EXCEPT ![n] = [parent |-> up, terminal_number |-> shown,
                       sched_esp |-> "null", esp |-> "null"]]
NewPcb(pcbs, up, shown, n) ==
  [p \in Pids |->
     CASE p = n  -> [parent |-> up, terminal_number |-> shown,
                     sched_esp |-> "null", esp |-> "null"]
       [] p = up -> [pcbs[up] EXCEPT !.esp = "frame"]
       [] OTHER  -> pcbs[p]]

\* The pcb part of execute(), called in terminal t by process up, or by no
\* process: the CPU enters the new process in user mode.
StartProgram(t, up, pcbs, shown) ==
  \E n \in Pids :
    /\ FindNewPcb(pcbs, n)
    /\ pcb_ptr' = NewPcb(pcbs, up, shown, n)
    /\ pcb_num' = [pcb_num EXCEPT ![t] = n]
    /\ cr3' = n - 1
    /\ esp0' = n

\* entry() executes the first shell.
Boot ==
  /\ Booting
  /\ StartProgram(current_terminal, NoPid, pcb_ptr, terminal_number)
  /\ UNCHANGED <<current_terminal, terminal_number, run_shell, vidmem>>

\* The running process calls execute() on a program that exists.  When it
\* does not exist, is not an ELF file, or every pcb is in use, execute()
\* returns -1 and nothing here changes.
Execute ==
  /\ ~Booting
  /\ StartProgram(current_terminal, Running, pcb_ptr, terminal_number)
  /\ UNCHANGED <<current_terminal, terminal_number, run_shell, vidmem>>

-----------------------------------------------------------------------------
(* halt().                                                                 *)

\* pcb_ptr[] and the video page tables once p has given back what it had.
\* Mutants: the entry, or the page, is kept.
Mutant_Freed(p) == pcb_ptr
Freed(p) == [pcb_ptr EXCEPT ![p] = NULL]
Mutant_RestorePage(p) == vidmem
RestorePage(p) == [vidmem EXCEPT ![p] = VideoPage]

\* The running process has a parent: the CPU returns from the parent's
\* execute(), in the frame the parent's esp points at.
HaltToParent ==
  LET up == pcb_ptr[Running].parent
  IN /\ ~Booting
     /\ up # NoPid
     /\ pcb_ptr' = [Freed(Running) EXCEPT ![up].esp = "popped"]
     /\ vidmem' = RestorePage(Running)
     /\ pcb_num' = [pcb_num EXCEPT ![current_terminal] = up]
     /\ cr3' = up - 1
     /\ esp0' = up
     /\ UNCHANGED <<current_terminal, terminal_number, run_shell>>

\* The running process is the root of its terminal: halt() forgets it and
\* executes a new shell in the same terminal.
HaltRoot ==
  /\ ~Booting
  /\ pcb_ptr[Running].parent = NoPid
  /\ vidmem' = RestorePage(Running)
  /\ StartProgram(current_terminal, NoPid, Freed(Running), terminal_number)
  /\ UNCHANGED <<current_terminal, terminal_number, run_shell>>

-----------------------------------------------------------------------------
(* schedule_next_process().                                                *)

\* The pcbs once the interrupted process is saved.
\* Mutant: the process is not saved.
Mutant_SaveContext == pcb_ptr
SaveContext == [pcb_ptr EXCEPT ![Running].sched_esp = "frame"]

\* The search that starts after terminal c stops at terminal n, the first one
\* that has a process.
NextTerminal(c, n) ==
  \E k \in 1 .. NumTerminals :
    /\ n = (c + k) % NumTerminals
    /\ pcb_num[n] # NoPid
    /\ \A j \in 1 .. k - 1 : pcb_num[(c + j) % NumTerminals] = NoPid

\* The CPU goes to the process of terminal n: page directory, kernel stack,
\* and the frame the process was suspended in.  A process with a null pointer
\* sends the scheduler back to the process it interrupted.
\* Mutant: leaves the TSS alone.
Mutant_Dispatch(n, pcbs) ==
  /\ current_terminal' = n
  /\ cr3' = pcb_num[n] - 1
  /\ pcb_ptr' = [pcbs EXCEPT ![pcb_num[n]].sched_esp = "popped"]
  /\ UNCHANGED esp0
Dispatch(n, pcbs) ==
  LET next    == pcb_num[n]
      saved   == pcbs[next].sched_esp # "null"
      resumed == IF saved THEN next ELSE Running
  IN /\ current_terminal' = n
     /\ cr3' = IF saved THEN next - 1 ELSE cr3
     /\ esp0' = IF saved THEN next ELSE esp0
     /\ pcb_ptr' = [pcbs EXCEPT ![resumed].sched_esp = "popped"]

\* pit_handler().  While the kernel boots there is no process to save and the
\* handler changes nothing.
PitTick ==
  /\ ~Booting
  /\ \E n \in Terminals : NextTerminal(current_terminal, n)
                          /\ Dispatch(n, SaveContext)
  /\ UNCHANGED <<pcb_num, terminal_number, run_shell, vidmem>>

-----------------------------------------------------------------------------
(* The Alt-F1, Alt-F2 and Alt-F3 keys of kb_handler().                     *)

\* remap_page(): the processes of the old terminal draw in its buffer, those
\* of the new one on the screen.
RemapPage(old, new) ==
  [p \in Pids |->
     IF pcb_ptr[p] = NULL THEN vidmem[p]
     ELSE CASE pcb_ptr[p].terminal_number = new -> VideoPage
            [] pcb_ptr[p].terminal_number = old -> BufferPage(old)
            [] OTHER -> vidmem[p]]

Show(t) ==
  /\ t # terminal_number
  /\ vidmem' = RemapPage(terminal_number, t)
  /\ terminal_number' = t

\* A terminal that has been opened before, or a kernel that has no process
\* yet: only the screen changes.
SwitchTerminal(t) ==
  /\ Show(t)
  /\ run_shell[t] \/ Booting
  /\ UNCHANGED <<pcb_ptr, pcb_num, current_terminal, run_shell, cr3, esp0>>

\* The first visit to a terminal: the interrupted process is saved, as for a
\* tick, and the CPU starts a shell in the new terminal.
\* Mutant: the shell is a child of the interrupted process.
Mutant_OpenTerminal(t) ==
  /\ Show(t)
  /\ ~run_shell[t]
  /\ ~Booting
  /\ run_shell' = [run_shell EXCEPT ![t] = TRUE]
  /\ current_terminal' = t
  /\ StartProgram(t, Running, SaveContext, t)
OpenTerminal(t) ==
  /\ Show(t)
  /\ ~run_shell[t]
  /\ ~Booting
  /\ run_shell' = [run_shell EXCEPT ![t] = TRUE]
  /\ current_terminal' = t
  /\ StartProgram(t, pcb_num[t], SaveContext, t)

\* The same when every pcb is in use: execute() fails, and the search for the
\* next process goes on from the terminal that was not opened.
OpenTerminalFails(t) ==
  /\ Show(t)
  /\ ~run_shell[t]
  /\ ~Booting
  /\ Live = Pids
  /\ run_shell' = [run_shell EXCEPT ![t] = TRUE]
  /\ \E n \in Terminals : NextTerminal(t, n) /\ Dispatch(n, SaveContext)
  /\ UNCHANGED pcb_num

-----------------------------------------------------------------------------
Next ==
  \/ Boot
  \/ Execute
  \/ HaltToParent
  \/ HaltRoot
  \/ PitTick
  \/ \E t \in Terminals :
       SwitchTerminal(t) \/ OpenTerminal(t) \/ OpenTerminalFails(t)

\* The PIT is a free-running timer whose line is unmasked at every switch.
Spec == Init /\ [][Next]_vars /\ WF_vars(PitTick)
-----------------------------------------------------------------------------
(* Safety.                                                                 *)

\* The page directory, the kernel stack of the TSS and pcb_num[] name the same
\* process, whichever of execute(), halt() and the scheduler set them last, so
\* that find_pcb(pcb_num[get_current_process()]), with which every system call
\* begins, finds the pcb of its caller.
ContextConsistent ==
  ~Booting => /\ Running \in Live
              /\ cr3 = Running - 1
              /\ esp0 = Running

\* The scheduler finds a live frame behind sched_esp of every process it may
\* switch to, never a null pointer and never one left from an earlier switch:
\* the process that runs is always saved before another terminal gets the CPU,
\* although a parent's pointers go stale while its children run and halt.
SuspendedIsSaved ==
  \A t \in Terminals \ {current_terminal} :
    pcb_num[t] # NoPid => pcb_ptr[pcb_num[t]].sched_esp = "frame"

\* halt() finds a live frame behind esp of the parent of every process.
ParentIsSaved ==
  \A p \in Live : pcb_ptr[p].parent # NoPid =>
                   pcb_ptr[pcb_ptr[p].parent].esp = "frame"

\* The live pcbs form one line for each terminal: the runnable processes are
\* live and different, a parent lives as long as its child and is nobody
\* else's parent, and a process that is not runnable waits for a child.
\* Nothing that execute() allocates is ever lost.
ProcessLines ==
  /\ \A t \in Terminals : pcb_num[t] # NoPid =>
       /\ pcb_num[t] \in Live
       /\ \A u \in Terminals \ {t} : pcb_num[u] # pcb_num[t]
       /\ \A p \in Live : pcb_ptr[p].parent # pcb_num[t]
  /\ \A p \in Live : pcb_ptr[p].parent # NoPid =>
       /\ pcb_ptr[p].parent \in Live
       /\ \A q \in Live \ {p} : pcb_ptr[q].parent # pcb_ptr[p].parent
  /\ \A p \in Live : \/ \E t \in Terminals : pcb_num[t] = p
                     \/ \E q \in Live : pcb_ptr[q].parent = p

\* After any sequence of switches, forks and exits, a live process draws on
\* the screen when the terminal recorded in its pcb is the one shown and in
\* the buffer of that terminal otherwise; a free pcb is always left on the
\* screen page, where the next process to use it starts.
RecordedTerminalMapped ==
  \A p \in Pids :
    vidmem[p] =
      IF p \in Live /\ pcb_ptr[p].terminal_number # terminal_number
      THEN BufferPage(pcb_ptr[p].terminal_number) ELSE VideoPage

\* What the comments of remap_page() and restore_page() promise: the runnable
\* process of the terminal on the screen draws on the screen, that of any
\* other terminal in its terminal's buffer.
ForegroundOwnsScreen ==
  \A t \in Terminals : pcb_num[t] # NoPid =>
    vidmem[pcb_num[t]] = IF t = terminal_number THEN VideoPage
                                                ELSE BufferPage(t)

-----------------------------------------------------------------------------
(* An action property.                                                     *)

\* A terminal that has a process keeps one for ever: halting the last one
\* starts a new shell in the same step.
TerminalStaysOpen ==
  [][\A t \in Terminals : pcb_num[t] # NoPid => pcb_num'[t] # NoPid]_vars
=============================================================================
