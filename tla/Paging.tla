------------------------------- MODULE Paging -------------------------------
(***************************************************************************)
(* Virtual memory under the processes of module Kernel: what map_page()    *)
(* put into the page directories, the translations the CPU may still hold  *)
(* of them, and where the kernel stack and the pcb of a process are.       *)
(*                                                                         *)
(* Addresses and page numbers are the numbers of types.h.  A directory has *)
(* the index of its process, which is the pid less one.  CR4_VAL turns on  *)
(* pages of 4MB and not the global pages, so loading cr3 forgets every     *)
(* translation, whatever the G bits say.                                   *)
(***************************************************************************)
EXTENDS Kernel

FOUR_KB       == 4096
FOUR_MB       == 1024 * FOUR_KB
EIGHT_MB      == 2 * FOUR_MB
VIDEO         == 184 * FOUR_KB  \* 0xB8000
KERNEL_ADDR   == FOUR_MB
KERNEL_BOTTOM == EIGHT_MB - 1
STACK_SIZE    == 2 * FOUR_KB
TASK_NUMBER   == 10

\* The entries of a page directory that are present, and of its first table.
START      == 0
KERNEL     == 1
PROGRAM    == 32
USER_VIDEO == 33
VIDEO_MEM  == 184

PROGRAM_ADDR    == PROGRAM * FOUR_MB     \* 0x8000000
USER_VIDEO_ADDR == USER_VIDEO * FOUR_MB  \* 0x8400000

\* Every process has a page directory, and every terminal a buffer in it.
ASSUME PagingAssumption == MaxPcb <= TASK_NUMBER /\ NumTerminals <= 3

VARIABLE tlb  \* translations the CPU may have cached: [at, frame]

pvars == <<vars, tlb>>

-----------------------------------------------------------------------------
(* map_page().                                                             *)

\* The base of the 4MB page of directory d, counted in pages of 4KB.
ProgramBase(d) == 1024 * ((EIGHT_MB + d * FOUR_MB) \div FOUR_MB)

\* The table behind the user video address: the page the process draws on,
\* which the kernel changes, and the buffers of the three terminals.
VideoBase(d, entry) ==
  VIDEO \div FOUR_KB + (IF entry = 0 THEN vidmem[d + 1] ELSE entry)

\* Where virtual page a of directory d is, or NULL when a user may not touch
\* it.  The kernel's own pages, START and KERNEL, are the same everywhere.
Translate(d, a) ==
  LET pde == a \div FOUR_MB
      pte == (a % FOUR_MB) \div FOUR_KB
  IN CASE pde = PROGRAM                   -> (ProgramBase(d) + pte) * FOUR_KB
       [] pde = USER_VIDEO /\ pte \in 0 .. 3 -> VideoBase(d, pte) * FOUR_KB
       [] OTHER                           -> NULL
KernelTranslate(a) ==
  LET pde == a \div FOUR_MB
      pte == (a % FOUR_MB) \div FOUR_KB
  IN CASE pde = START /\ pte = VIDEO_MEM -> VIDEO
       [] pde = KERNEL                   -> KERNEL_ADDR + (a % FOUR_MB)
       [] OTHER                          -> NULL

\* All that a program may touch: one page of 4MB and four of 4KB.
UserPages ==
  {PROGRAM_ADDR} \cup {USER_VIDEO_ADDR + k * FOUR_KB : k \in 0 .. 3}

\* What the CPU finds there when it walks the directory in cr3.
Walk == {[at |-> a, frame |-> Translate(cr3, a)] : a \in UserPages}

-----------------------------------------------------------------------------
(* set_register(), remap_page(): what becomes of the cached translations.  *)

\* set_new_task() loads cr3 with the new directory.
SetNewTask == tlb' = Walk'

\* remap_page() loads cr3 with itself.
\* Mutant: it does not.
Mutant_FlushTlb == tlb' = tlb \cup Walk'
FlushTlb == tlb' = Walk'

\* set_paging() and the first cr3.
PagingInit ==
  /\ Init
  /\ tlb = Walk

\* A tick reaches set_new_task() when the next process has been saved.
TickAndLoad ==
  /\ PitTick
  /\ IF SaveContext[pcb_num[current_terminal']].sched_esp # "null"
       THEN SetNewTask ELSE tlb' = tlb \cup Walk'

PagingNext ==
  \/ (Boot \/ Execute \/ HaltToParent \/ HaltRoot) /\ SetNewTask
  \/ TickAndLoad
  \/ \E t \in Terminals :
       \/ SwitchTerminal(t) /\ FlushTlb
       \/ OpenTerminal(t) /\ SetNewTask
       \/ OpenTerminalFails(t) /\ FlushTlb

PagingSpec == PagingInit /\ [][PagingNext]_pvars /\ WF_pvars(TickAndLoad)

-----------------------------------------------------------------------------
(* Kernel stacks.                                                          *)

\* tss.esp0 of process p, and its pcb at the end of the same 8KB.
StackBottom(p) == KERNEL_BOTTOM - STACK_SIZE * (p - 1)
PcbAddress(p)  == STACK_SIZE * (StackBottom(p) \div STACK_SIZE)

-----------------------------------------------------------------------------
(* Properties.                                                             *)

\* The 4MB a program is in are no memory of the kernel, and overlap those of
\* no other live process.
ProgramIsOwn ==
  \A e \in tlb : e.at = PROGRAM_ADDR =>
    /\ e.frame >= EIGHT_MB
    /\ \A q \in Live \ {Running} :
         \/ e.frame + FOUR_MB <= Translate(q - 1, PROGRAM_ADDR)
         \/ Translate(q - 1, PROGRAM_ADDR) + FOUR_MB <= e.frame

\* The first page of the screen is the one shown, or the buffer, of the
\* terminal recorded in the pcb: no translation is from before the last switch
\* of the process or of the terminal that is shown.
ScreenIsCurrent ==
  LET recorded == pcb_ptr[Running].terminal_number
  IN \A e \in tlb : e.at = USER_VIDEO_ADDR =>
       e.frame = VIDEO + FOUR_KB * (IF recorded = terminal_number THEN 0
                                    ELSE recorded + 1)

\* The other pages are the screen and the buffers of the terminals, the same
\* ones for every program.
RestIsScreens ==
  \A e \in tlb : e.at # PROGRAM_ADDR =>
    e.frame \in {VIDEO + FOUR_KB * k : k \in 0 .. 3}

\* The stack that grows down from tss.esp0 ends at the pcb of the running
\* process, in memory that every directory maps, before any other process.
StackIsOwn ==
  /\ KernelTranslate(PcbAddress(esp0)) = PcbAddress(esp0)
  /\ \A q \in Live \ {Running} :
       StackBottom(q) < PcbAddress(esp0) \/ StackBottom(esp0) < PcbAddress(q)

\* Whatever is executed, halted, scheduled or shown, set_new_task(),
\* remap_page() and the stack of the TSS leave the process that has the CPU its
\* own program and kernel stack, the screen of the terminal recorded in its pcb,
\* and beyond these no memory but the text of the terminals.  That text every
\* program may write (map_page() maps all of it for users), and the recorded
\* terminal need not be the one the process runs on (pcb.c:170).
ReachIsConfined ==
  ~Booting => ProgramIsOwn /\ ScreenIsCurrent /\ RestIsScreens /\ StackIsOwn
=============================================================================
