---------------------------- MODULE KernelProofs ----------------------------
(***************************************************************************)
(* The safety properties of Kernel, for any number of terminals and pcbs,  *)
(* and ReachIsConfined of Paging, for as many processes as there are page  *)
(* directories.                                                            *)
(*                                                                         *)
(* None of them is inductive alone: the type of pcb_ptr[] needs that the   *)
(* running process has a pcb, that needs the saved frames, and the frames  *)
(* need the shape of the lines.  They are proved together, with Visited,   *)
(* as the invariant Inv.                                                   *)
(*                                                                         *)
(* The CPU holds no translation but those of the present page tables:      *)
(* every handler that changes a table, or the directory, loads cr3 after   *)
(* it, and the tick that would not is impossible because every process the *)
(* scheduler may choose has been saved, by Inv.  What else ReachIsConfined *)
(* says is about the present tables only.                                  *)
(*                                                                         *)
(* The last part is the safety half of the refinement of Sessions.  The    *)
(* stacks of the refinement mapping are a recursive function of the parent *)
(* fields.  What is inductive is not that function but Stacked, which says *)
(* where each process is; a step pushes a process, pops one or leaves them *)
(* alone, and Stacked determines the function before and after it.         *)
(***************************************************************************)
EXTENDS MCKernel, SequenceTheorems, WellFoundedInduction, TLAPS

\* A terminal without run_shell has no process, and the terminal that is
\* scheduled has it, also while the kernel boots.
Visited ==
  /\ run_shell[current_terminal]
  /\ \A t \in Terminals : pcb_num[t] # NoPid => run_shell[t]

Inv ==
  /\ TypeOK
  /\ ContextConsistent
  /\ SuspendedIsSaved
  /\ ParentIsSaved
  /\ ProcessLines
  /\ RecordedTerminalMapped
  /\ Visited

-----------------------------------------------------------------------------
(* The operators.                                                          *)

\* What the pcbs are after new_pcb(), one by one.
LEMMA NewPcbAt ==
  ASSUME NEW pcbs \in [Pids -> Pcb \cup {NULL}],
         NEW up \in Pids \cup {NoPid}, NEW shown \in Terminals,
         NEW n \in Pids, n # up, up # NoPid => pcbs[up] # NULL
  PROVE  LET new == NewPcb(pcbs, up, shown, n)
         IN /\ new[n] = [parent |-> up, terminal_number |-> shown,
                         sched_esp |-> "null", esp |-> "null"]
            /\ up # NoPid =>
                 /\ new[up] \in Pcb
                 /\ new[up].parent = pcbs[up].parent
                 /\ new[up].terminal_number = pcbs[up].terminal_number
                 /\ new[up].sched_esp = pcbs[up].sched_esp
                 /\ new[up].esp = "frame"
            /\ \A p \in Pids \ {n, up} : new[p] = pcbs[p]
<1>1. up # NoPid => pcbs[up] \in Pcb
  BY DEF Pids, NoPid
<1> QED BY <1>1 DEF NewPcb, Pcb, StackPointer, NoPid, Pids

\* A new pcb, and the frame stored in its parent, keep pcb_ptr[] typed.
LEMMA NewPcbType ==
  ASSUME NEW pcbs \in [Pids -> Pcb \cup {NULL}],
         NEW up \in Pids \cup {NoPid}, NEW shown \in Terminals,
         NEW n \in Pids, n # up, up # NoPid => pcbs[up] # NULL
  PROVE  NewPcb(pcbs, up, shown, n) \in [Pids -> Pcb \cup {NULL}]
<1> DEFINE new == NewPcb(pcbs, up, shown, n)
<1> HIDE DEF new
<1>1. /\ new[n] = [parent |-> up, terminal_number |-> shown,
                  sched_esp |-> "null", esp |-> "null"]
      /\ up # NoPid => new[up] \in Pcb
      /\ \A p \in Pids \ {n, up} : new[p] = pcbs[p]
  BY NewPcbAt DEF new
<1>3. new[n] \in Pcb
  BY <1>1 DEF Pcb, StackPointer
<1>2. \A p \in Pids : new[p] \in Pcb \cup {NULL}
  BY <1>1, <1>3 DEF Pids, NoPid
<1> QED BY <1>2 DEF new, NewPcb

\* Saving the running process changes only its sched_esp.
LEMMA SaveContextAt ==
  ASSUME TypeOK, Running \in Live
  PROVE  /\ SaveContext \in [Pids -> Pcb \cup {NULL}]
         /\ SaveContext[Running] \in Pcb
         /\ SaveContext[Running].parent = pcb_ptr[Running].parent
         /\ SaveContext[Running].terminal_number
              = pcb_ptr[Running].terminal_number
         /\ SaveContext[Running].esp = pcb_ptr[Running].esp
         /\ SaveContext[Running].sched_esp = "frame"
         /\ \A p \in Pids \ {Running} : SaveContext[p] = pcb_ptr[p]
BY DEF TypeOK, Live, SaveContext, Pcb, StackPointer

-----------------------------------------------------------------------------
(* The lines of processes, as a property of any pcbs and runnable           *)
(* processes, so that the states inside execute() and halt() have it too.   *)

Alive(pcbs) == {p \in Pids : pcbs[p] # NULL}

Lines(pcbs, tops) ==
  /\ \A t \in Terminals : tops[t] # NoPid =>
       /\ tops[t] \in Alive(pcbs)
       /\ \A u \in Terminals \ {t} : tops[u] # tops[t]
       /\ \A p \in Alive(pcbs) : pcbs[p].parent # tops[t]
  /\ \A p \in Alive(pcbs) : pcbs[p].parent # NoPid =>
       /\ pcbs[p].parent \in Alive(pcbs)
       /\ \A q \in Alive(pcbs) \ {p} : pcbs[q].parent # pcbs[p].parent
  /\ \A p \in Alive(pcbs) : \/ \E t \in Terminals : tops[t] = p
                            \/ \E q \in Alive(pcbs) : pcbs[q].parent = p

Frames(pcbs) ==
  \A p \in Alive(pcbs) : pcbs[p].parent # NoPid =>
                           pcbs[pcbs[p].parent].esp = "frame"

Pcbs == [Pids -> Pcb \cup {NULL}]
Tops == [Terminals -> Pids \cup {NoPid}]

LEMMA LinesOfState ==
  /\ ProcessLines <=> Lines(pcb_ptr, pcb_num)
  /\ ParentIsSaved <=> Frames(pcb_ptr)
BY DEF ProcessLines, ParentIsSaved, Lines, Frames, Alive, Live

\* The stack pointers do not matter to the lines.
LEMMA SameLines ==
  ASSUME NEW old \in Pcbs, NEW new \in Pcbs, NEW tops \in Tops,
         \A p \in Pids : /\ old[p] = NULL <=> new[p] = NULL
                         /\ old[p] # NULL => new[p].parent = old[p].parent,
         Lines(old, tops)
  PROVE  Lines(new, tops)
<1>1. Alive(new) = Alive(old)
  BY DEF Alive
<1>2. \A p \in Alive(old) : new[p].parent = old[p].parent
  BY DEF Alive
<1> QED BY <1>1, <1>2 DEF Lines

\* The new pcb is live and the child of up, whose frame is saved.
LEMMA NewPcbAlive ==
  ASSUME NEW pcbs \in Pcbs, NEW up \in Pids \cup {NoPid},
         NEW shown \in Terminals, NEW n \in Pids, n \notin Alive(pcbs),
         n # up, up # NoPid => up \in Alive(pcbs)
  PROVE  LET new == NewPcb(pcbs, up, shown, n)
         IN /\ new \in Pcbs
            /\ new[n].parent = up
            /\ Alive(new) = Alive(pcbs) \cup {n}
            /\ \A p \in Alive(pcbs) :
                 /\ new[p].parent = pcbs[p].parent
                 /\ new[p].esp = IF p = up THEN "frame" ELSE pcbs[p].esp
<1> DEFINE new == NewPcb(pcbs, up, shown, n)
<1> HIDE DEF new
<1>1. /\ up # NoPid => pcbs[up] # NULL
      /\ pcbs \in [Pids -> Pcb \cup {NULL}]
      /\ n # NoPid
  BY DEF Alive, Pcbs, Pids, NoPid
<1>2. new \in Pcbs
  BY <1>1, NewPcbType DEF new, Pcbs
<1>3. /\ new[n] = [parent |-> up, terminal_number |-> shown,
                   sched_esp |-> "null", esp |-> "null"]
      /\ up # NoPid => /\ new[up] \in Pcb
                       /\ new[up].parent = pcbs[up].parent
                       /\ new[up].esp = "frame"
      /\ \A p \in Pids \ {n, up} : new[p] = pcbs[p]
  BY <1>1, NewPcbAt DEF new
<1>4. new[n] \in Pcb /\ new[n].parent = up
  BY <1>3 DEF Pcb, StackPointer
<1>5. Alive(new) = Alive(pcbs) \cup {n}
  <2>1. n \in Alive(new) /\ (up # NoPid => up \in Alive(new))
    BY <1>1, <1>3, <1>4, KernelAssumption DEF Alive
  <2>2. \A p \in Pids \ {n, up} : p \in Alive(new) <=> p \in Alive(pcbs)
    BY <1>3 DEF Alive
  <2>3. /\ Alive(new) \subseteq Pids
        /\ Alive(pcbs) \subseteq Pids
        /\ NoPid \notin Pids
    BY DEF Alive, Pids, NoPid
  <2> QED BY <2>1, <2>2, <2>3
<1>6. ASSUME NEW p \in Alive(pcbs)
      PROVE  /\ new[p].parent = pcbs[p].parent
             /\ new[p].esp = IF p = up THEN "frame" ELSE pcbs[p].esp
  <2>1. CASE p = up
    BY <1>3, <2>1 DEF Alive, Pids, NoPid
  <2>2. CASE p # up
    <3>1. new[p] = pcbs[p]
      BY <1>3, <2>2 DEF Alive
    <3> QED BY <2>2, <3>1
  <2> QED BY <2>1, <2>2
<1> QED BY <1>2, <1>4, <1>5, <1>6 DEF new

\* execute() puts the new process at the end of the line of terminal t, which
\* ended in up.
LEMMA StartLines ==
  ASSUME NEW pcbs \in Pcbs, NEW tops \in Tops,
         NEW t \in Terminals, NEW up \in Pids \cup {NoPid},
         NEW shown \in Terminals, NEW n, FindNewPcb(pcbs, n),
         tops[t] = up, Lines(pcbs, tops), Frames(pcbs)
  PROVE  /\ NewPcb(pcbs, up, shown, n) \in Pcbs
         /\ Lines(NewPcb(pcbs, up, shown, n), [tops EXCEPT ![t] = n])
         /\ Frames(NewPcb(pcbs, up, shown, n))
<1> DEFINE new  == NewPcb(pcbs, up, shown, n)
           next == [tops EXCEPT ![t] = n]
<1>1. /\ n \in Pids /\ n # NoPid
      /\ n \notin Alive(pcbs)
      /\ up # NoPid => up \in Alive(pcbs)
      /\ n # up
  BY DEF FindNewPcb, Lines, Alive, Pids, NoPid
<1>2. new \in Pcbs
  BY <1>1, NewPcbType DEF Pcbs, Alive
<1>3. /\ new[n].parent = up
      /\ Alive(new) = Alive(pcbs) \cup {n}
      /\ \A p \in Alive(pcbs) : /\ new[p].parent = pcbs[p].parent
                                /\ new[p].esp = IF p = up THEN "frame"
                                                ELSE pcbs[p].esp
  BY <1>1, NewPcbAlive
<1> HIDE DEF new
<1>4. /\ next[t] = n
      /\ \A u \in Terminals \ {t} : next[u] = tops[u]
  BY DEF Tops
<1> HIDE DEF next
<1>5. \A p \in Alive(pcbs) : pcbs[p].parent # n
  BY <1>1 DEF Lines
<1>6. Lines(new, next)
  <2>1. ASSUME NEW u \in Terminals, next[u] # NoPid
        PROVE  /\ next[u] \in Alive(new)
               /\ \A v \in Terminals \ {u} : next[v] # next[u]
               /\ \A p \in Alive(new) : new[p].parent # next[u]
    <3>1. CASE u = t
      BY <1>1, <1>3, <1>4, <1>5, <3>1 DEF Lines
    <3>2. CASE u # t
      <4>1. /\ next[u] = tops[u] /\ tops[u] \in Alive(pcbs)
            /\ tops[u] # up
        BY <1>4, <2>1, <3>2 DEF Lines
      <4> QED BY <1>1, <1>3, <1>4, <2>1, <4>1 DEF Lines
    <3> QED BY <3>1, <3>2
  <2>2. ASSUME NEW p \in Alive(new), new[p].parent # NoPid
        PROVE  /\ new[p].parent \in Alive(new)
               /\ \A q \in Alive(new) \ {p} : new[q].parent # new[p].parent
    <3>1. CASE p = n
      <4>1. \A q \in Alive(pcbs) : pcbs[q].parent # up
        BY <1>3, <2>2, <3>1 DEF Lines
      <4> QED BY <1>1, <1>3, <2>2, <3>1, <4>1
    <3>2. CASE p # n
      <4>1. pcbs[p].parent # up
        BY <1>3, <2>2, <3>2 DEF Lines
      <4> QED BY <1>3, <2>2, <3>2, <4>1 DEF Lines
    <3> QED BY <3>1, <3>2
  <2>3. ASSUME NEW p \in Alive(new)
        PROVE  \/ \E u \in Terminals : next[u] = p
               \/ \E q \in Alive(new) : new[q].parent = p
    <3>1. CASE p = n
      BY <1>4, <3>1
    <3>2. CASE p = up
      BY <1>3, <3>2
    <3>3. CASE p # n /\ p # up
      BY <1>3, <1>4, <3>3 DEF Lines
    <3> QED BY <3>1, <3>2, <3>3
  <2> QED BY <2>1, <2>2, <2>3 DEF Lines
<1>7. Frames(new)
  <2>1. ASSUME NEW p \in Alive(new), new[p].parent # NoPid
        PROVE  new[new[p].parent].esp = "frame"
    BY <1>1, <1>3, <2>1 DEF Lines, Frames
  <2> QED BY <2>1 DEF Frames
<1> QED BY <1>2, <1>6, <1>7 DEF new, next

\* halt() takes the last process off its line, which then ends in its parent.
LEMMA HaltLines ==
  ASSUME TypeOK, ~Booting, Lines(pcb_ptr, pcb_num), Frames(pcb_ptr)
  PROVE  /\ Freed(Running) \in Pcbs
         /\ pcb_ptr[Running] \in Pcb
         /\ Lines(Freed(Running), [pcb_num EXCEPT ![current_terminal]
                                      = pcb_ptr[Running].parent])
         /\ Frames(Freed(Running))
         /\ \A p \in Alive(Freed(Running)) :
              Freed(Running)[p].parent # NoPid =>
                Freed(Running)[p].parent # pcb_ptr[Running].parent
<1> DEFINE new  == Freed(Running)
           up   == pcb_ptr[Running].parent
           next == [pcb_num EXCEPT ![current_terminal] = up]
<1>1. /\ Running \in Alive(pcb_ptr)
      /\ \A p \in Alive(pcb_ptr) : pcb_ptr[p].parent # Running
      /\ Running # NoPid
  BY DEF TypeOK, Lines, Booting, Running
<1>2. /\ pcb_ptr[Running] \in Pcb
      /\ up \in Pids \cup {NoPid}
  BY <1>1 DEF TypeOK, Alive, Pcb
<1>3. /\ new \in Pcbs
      /\ Alive(new) = Alive(pcb_ptr) \ {Running}
      /\ \A p \in Alive(new) : new[p] = pcb_ptr[p]
  BY <1>1 DEF TypeOK, Freed, Pcbs, Alive
<1> HIDE DEF new
<1>4. /\ next[current_terminal] = up
      /\ \A u \in Terminals \ {current_terminal} : next[u] = pcb_num[u]
      /\ \A u \in Terminals \ {current_terminal} : pcb_num[u] # Running
  BY <1>1 DEF TypeOK, Running, Lines
<1> HIDE DEF next
<1>5. /\ up # NoPid => /\ up \in Alive(new)
                       /\ \A t \in Terminals : pcb_num[t] # up
      /\ \A p \in Alive(new) : new[p].parent # NoPid => new[p].parent # up
  BY <1>1, <1>3 DEF Lines
<1>6. Lines(new, next)
  <2>1. ASSUME NEW u \in Terminals, next[u] # NoPid
        PROVE  /\ next[u] \in Alive(new)
               /\ \A v \in Terminals \ {u} : next[v] # next[u]
               /\ \A p \in Alive(new) : new[p].parent # next[u]
    <3>1. CASE u = current_terminal
      BY <1>4, <1>5, <2>1, <3>1
    <3>2. CASE u # current_terminal
      BY <1>3, <1>4, <1>5, <2>1, <3>2 DEF Lines
    <3> QED BY <3>1, <3>2
  <2>2. ASSUME NEW p \in Alive(new), new[p].parent # NoPid
        PROVE  /\ new[p].parent \in Alive(new)
               /\ \A q \in Alive(new) \ {p} : new[q].parent # new[p].parent
    BY <1>1, <1>3, <2>2 DEF Lines
  <2>3. ASSUME NEW p \in Alive(new)
        PROVE  \/ \E u \in Terminals : next[u] = p
               \/ \E q \in Alive(new) : new[q].parent = p
    <3>1. CASE p = up
      BY <1>4, <3>1 DEF TypeOK
    <3>2. CASE p # up
      <4>1. CASE \E u \in Terminals : pcb_num[u] = p
        BY <1>3, <1>4, <4>1 DEF Running
      <4>2. CASE \E q \in Alive(pcb_ptr) : pcb_ptr[q].parent = p
        BY <1>3, <3>2, <4>2
      <4> QED BY <1>3, <4>1, <4>2 DEF Lines
    <3> QED BY <3>1, <3>2
  <2> QED BY <2>1, <2>2, <2>3 DEF Lines
<1>7. Frames(new)
  <2>1. ASSUME NEW p \in Alive(new), new[p].parent # NoPid
        PROVE  new[new[p].parent].esp = "frame"
    <3>1. new[p].parent \in Alive(new)
      BY <1>6, <2>1 DEF Lines
    <3> QED BY <1>3, <2>1, <3>1 DEF Frames
  <2> QED BY <2>1 DEF Frames
<1> QED BY <1>2, <1>3, <1>5, <1>6, <1>7 DEF new, next

-----------------------------------------------------------------------------
(* The actions.                                                            *)

\* The page every process should draw on while terminal shown is displayed.
Mapped(pages, pcbs, shown) ==
  \A p \in Pids :
    pages[p] = IF p \in Alive(pcbs) /\ pcbs[p].terminal_number # shown
               THEN BufferPage(pcbs[p].terminal_number) ELSE VideoPage

LEMMA InitInv == Init => Inv
<1> SUFFICES ASSUME Init PROVE Inv
  OBVIOUS
<1> USE KernelAssumption DEF Init
<1>1. TypeOK
  BY DEF TypeOK, Terminals, Pids, NoPid, Pages, VideoPage
<1>2. Live = {}
  BY DEF Live
<1>3. Booting
  BY DEF Booting, Running, Terminals
<1>4. ContextConsistent /\ SuspendedIsSaved /\ ParentIsSaved
  BY <1>2, <1>3 DEF ContextConsistent, SuspendedIsSaved, ParentIsSaved
<1>5. ProcessLines /\ RecordedTerminalMapped
  BY <1>2 DEF ProcessLines, RecordedTerminalMapped
<1>6. Visited
  <2>1. 0 \in Terminals
    BY DEF Terminals
  <2>2. \A t \in Terminals : pcb_num[t] = NoPid
    OBVIOUS
  <2> QED BY <2>1, <2>2, Zenon DEF Visited
<1> QED BY <1>1, <1>4, <1>5, <1>6 DEF Inv

\* Whenever execute() gives the CPU to a new process in terminal t, in the
\* process itself, after a halt() or for an Alt-Fn key, the kernel is left in
\* a state of the invariant.
LEMMA StartInv ==
  ASSUME TypeOK,
         NEW pcbs \in Pcbs, NEW tops \in Tops, NEW t \in Terminals,
         NEW up \in Pids \cup {NoPid}, NEW shown \in Terminals,
         tops[t] = up, \A u \in Terminals \ {t} : tops[u] = pcb_num[u],
         Lines(pcbs, tops), Frames(pcbs),
         \A u \in Terminals \ {t} :
           pcb_num[u] # NoPid => pcbs[pcb_num[u]].sched_esp = "frame",
         StartProgram(t, up, pcbs, shown),
         current_terminal' = t, terminal_number' = shown,
         run_shell' \in [Terminals -> BOOLEAN],
         run_shell'[t],
         \A u \in Terminals \ {t} : pcb_num[u] # NoPid => run_shell'[u],
         vidmem' \in [Pids -> Pages], Mapped(vidmem', pcbs, shown)
  PROVE  Inv'
<1>1. PICK n \in Pids : /\ FindNewPcb(pcbs, n)
                        /\ pcb_ptr' = NewPcb(pcbs, up, shown, n)
                        /\ pcb_num' = [pcb_num EXCEPT ![t] = n]
                        /\ cr3' = n - 1
                        /\ esp0' = n
  BY DEF StartProgram
<1>2. /\ n # NoPid /\ n \notin Alive(pcbs) /\ n # up
      /\ up # NoPid => up \in Alive(pcbs)
  BY <1>1 DEF FindNewPcb, Alive, Pids, NoPid, Lines
<1>3. [tops EXCEPT ![t] = n] = pcb_num'
  BY <1>1 DEF TypeOK, Tops
<1>4. pcb_ptr' \in Pcbs /\ Lines(pcb_ptr', pcb_num') /\ Frames(pcb_ptr')
  BY <1>1, <1>3, StartLines
<1>5. /\ pcb_ptr'[n] = [parent |-> up, terminal_number |-> shown,
                        sched_esp |-> "null", esp |-> "null"]
      /\ up # NoPid =>
           /\ pcb_ptr'[up] \in Pcb
           /\ pcb_ptr'[up].terminal_number = pcbs[up].terminal_number
      /\ \A p \in Pids \ {n, up} : pcb_ptr'[p] = pcbs[p]
  BY <1>1, <1>2, NewPcbAt DEF Pcbs, Alive
<1>6. /\ pcb_num'[t] = n
      /\ \A u \in Terminals \ {t} : pcb_num'[u] = pcb_num[u]
  BY <1>1 DEF TypeOK
<1>7. Running' = n /\ ~Booting'
  BY <1>2, <1>6 DEF Running, Booting
<1>8. n \in Live'
  <2>1. pcb_ptr'[n] \in Pcb
    BY <1>5 DEF Pcb, StackPointer
  <2> QED BY <2>1, KernelAssumption DEF Live
<1>9. TypeOK'
  <2>1. pcb_num' \in [Terminals -> Pids \cup {NoPid}]
    BY <1>1 DEF TypeOK
  <2>2. cr3' \in 0 .. MaxPcb - 1
    BY <1>1, KernelAssumption DEF Pids
  <2> QED BY <1>1, <1>4, <2>1, <2>2 DEF TypeOK, Pcbs
<1>10. ContextConsistent'
  BY <1>1, <1>7, <1>8 DEF ContextConsistent
<1>11. SuspendedIsSaved'
  <2>1. ASSUME NEW u \in Terminals \ {t}, pcb_num[u] # NoPid
        PROVE  pcb_ptr'[pcb_num[u]].sched_esp = "frame"
    <3>1. /\ pcb_num[u] \in Alive(pcbs)
          /\ pcb_num[u] # up
      BY <2>1 DEF Lines, NoPid, Pids
    <3>2. pcb_ptr'[pcb_num[u]] = pcbs[pcb_num[u]]
      BY <1>2, <1>5, <3>1 DEF Alive
    <3> QED BY <2>1, <3>2
  <2> QED BY <1>6, <2>1 DEF SuspendedIsSaved
<1>12. ParentIsSaved' /\ ProcessLines'
  BY <1>4 DEF ParentIsSaved, ProcessLines, Lines, Frames, Alive, Live
<1>13. RecordedTerminalMapped'
  <2>1. ASSUME NEW p \in Pids
        PROVE  vidmem'[p] =
                 IF p \in Live' /\ pcb_ptr'[p].terminal_number # shown
                 THEN BufferPage(pcb_ptr'[p].terminal_number) ELSE VideoPage
    <3>1. CASE p = n
      BY <1>2, <1>5, <3>1 DEF Mapped
    <3>2. CASE p = up
      <4>1. p \in Alive(pcbs) /\ p \in Live'
        BY <1>2, <1>5, <3>2, KernelAssumption DEF Live, Pids, NoPid
      <4> QED BY <1>5, <3>2, <4>1 DEF Mapped, Pids, NoPid
    <3>3. CASE p # n /\ p # up
      BY <1>5, <3>3 DEF Mapped, Alive, Live
    <3> QED BY <3>1, <3>2, <3>3
  <2> QED BY <2>1 DEF RecordedTerminalMapped
<1>14. Visited'
  BY <1>6, <1>7 DEF Visited
<1> QED BY <1>9, <1>10, <1>11, <1>12, <1>13, <1>14 DEF Inv

LEMMA BootInv == Inv /\ Boot => Inv'
<1> SUFFICES ASSUME Inv, Boot PROVE Inv'
  OBVIOUS
<1>1. /\ TypeOK /\ Visited /\ Lines(pcb_ptr, pcb_num) /\ Frames(pcb_ptr)
      /\ pcb_ptr \in Pcbs /\ pcb_num \in Tops
  BY LinesOfState DEF Inv, TypeOK, Pcbs, Tops
<1>2. /\ current_terminal \in Terminals /\ terminal_number \in Terminals
      /\ pcb_num[current_terminal] = NoPid /\ NoPid \in Pids \cup {NoPid}
  BY DEF Inv, TypeOK, Boot, Booting, Running
<1>3. \A u \in Terminals \ {current_terminal} :
        pcb_num[u] # NoPid => pcb_ptr[pcb_num[u]].sched_esp = "frame"
  BY DEF Inv, SuspendedIsSaved
<1>4. Mapped(vidmem', pcb_ptr, terminal_number)
  BY DEF Inv, RecordedTerminalMapped, Mapped, Alive, Live, Boot
<1>5. /\ StartProgram(current_terminal, NoPid, pcb_ptr, terminal_number)
      /\ UNCHANGED <<current_terminal, terminal_number, run_shell, vidmem>>
  BY DEF Boot
<1>6. /\ run_shell' \in [Terminals -> BOOLEAN] /\ run_shell'[current_terminal]
      /\ \A u \in Terminals : pcb_num[u] # NoPid => run_shell'[u]
      /\ vidmem' \in [Pids -> Pages]
  BY <1>5 DEF Inv, Visited, TypeOK
<1> QED BY <1>1, <1>2, <1>3, <1>4, <1>5, <1>6, StartInv

LEMMA ExecuteInv == Inv /\ Execute => Inv'
<1> SUFFICES ASSUME Inv, Execute PROVE Inv'
  OBVIOUS
<1>1. /\ TypeOK /\ Visited /\ Lines(pcb_ptr, pcb_num) /\ Frames(pcb_ptr)
      /\ pcb_ptr \in Pcbs /\ pcb_num \in Tops
  BY LinesOfState DEF Inv, TypeOK, Pcbs, Tops
<1>2. /\ current_terminal \in Terminals /\ terminal_number \in Terminals
      /\ pcb_num[current_terminal] = Running /\ Running \in Pids \cup {NoPid}
  BY DEF Inv, TypeOK, Running
<1>3. \A u \in Terminals \ {current_terminal} :
        pcb_num[u] # NoPid => pcb_ptr[pcb_num[u]].sched_esp = "frame"
  BY DEF Inv, SuspendedIsSaved
<1>4. Mapped(vidmem', pcb_ptr, terminal_number)
  BY DEF Inv, RecordedTerminalMapped, Mapped, Alive, Live, Execute
<1>5. /\ StartProgram(current_terminal, Running, pcb_ptr, terminal_number)
      /\ UNCHANGED <<current_terminal, terminal_number, run_shell, vidmem>>
  BY DEF Execute
<1>6. /\ run_shell' \in [Terminals -> BOOLEAN] /\ run_shell'[current_terminal]
      /\ \A u \in Terminals : pcb_num[u] # NoPid => run_shell'[u]
      /\ vidmem' \in [Pids -> Pages]
  BY <1>5 DEF Inv, Visited, TypeOK
<1> QED BY <1>1, <1>2, <1>3, <1>4, <1>5, <1>6, StartInv

\* The page tables after a halt are right for the pcbs that are left.
LEMMA HaltMapped ==
  ASSUME Inv, ~Booting, vidmem' = RestorePage(Running)
  PROVE  /\ Mapped(vidmem', Freed(Running), terminal_number)
         /\ vidmem' \in [Pids -> Pages]
<1>1. Running \in Pids
  BY DEF Inv, ContextConsistent, Live
<1>2. vidmem' \in [Pids -> Pages]
  <2>1. VideoPage \in Pages /\ vidmem \in [Pids -> Pages]
    BY KernelAssumption DEF Inv, TypeOK, VideoPage, Pages
  <2> QED BY <2>1 DEF RestorePage
<1>3. Mapped(vidmem', Freed(Running), terminal_number)
  <2>1. ASSUME NEW p \in Pids
        PROVE  vidmem'[p] =
                 IF /\ p \in Alive(Freed(Running))
                    /\ Freed(Running)[p].terminal_number # terminal_number
                 THEN BufferPage(Freed(Running)[p].terminal_number)
                 ELSE VideoPage
    <3>1. CASE p = Running
      <4>1. Freed(Running)[p] = NULL /\ vidmem'[p] = VideoPage
        BY <3>1 DEF Inv, TypeOK, Freed, RestorePage
      <4> QED BY <4>1 DEF Alive
    <3>2. CASE p # Running
      <4>1. Freed(Running)[p] = pcb_ptr[p] /\ vidmem'[p] = vidmem[p]
        BY <3>2 DEF Inv, TypeOK, Freed, RestorePage
      <4> QED BY <4>1 DEF Inv, RecordedTerminalMapped, Alive, Live
    <3> QED BY <3>1, <3>2
  <2> QED BY <2>1 DEF Mapped
<1> QED BY <1>2, <1>3

LEMMA HaltRootInv == Inv /\ HaltRoot => Inv'
<1> SUFFICES ASSUME Inv, HaltRoot PROVE Inv'
  OBVIOUS
<1> DEFINE tops == [pcb_num EXCEPT ![current_terminal] = NoPid]
<1>1. /\ TypeOK /\ ~Booting /\ pcb_ptr[Running].parent = NoPid
      /\ Lines(pcb_ptr, pcb_num) /\ Frames(pcb_ptr)
  BY LinesOfState DEF Inv, HaltRoot
<1>2. /\ Freed(Running) \in Pcbs
      /\ Lines(Freed(Running), tops)
      /\ Frames(Freed(Running))
  BY <1>1, HaltLines
<1>3. /\ current_terminal \in Terminals /\ terminal_number \in Terminals
      /\ tops \in Tops /\ tops[current_terminal] = NoPid
      /\ \A u \in Terminals \ {current_terminal} : tops[u] = pcb_num[u]
      /\ NoPid \in Pids \cup {NoPid}
  BY DEF Inv, TypeOK, Tops
<1>4. \A u \in Terminals \ {current_terminal} :
        pcb_num[u] # NoPid => Freed(Running)[pcb_num[u]].sched_esp = "frame"
  <2>1. ASSUME NEW u \in Terminals \ {current_terminal}, pcb_num[u] # NoPid
        PROVE  Freed(Running)[pcb_num[u]].sched_esp = "frame"
    <3>1. pcb_num[u] # Running /\ pcb_num[u] \in Pids
      BY <2>1 DEF Inv, ProcessLines, TypeOK, Running
    <3>2. Freed(Running)[pcb_num[u]] = pcb_ptr[pcb_num[u]]
      BY <3>1 DEF Inv, TypeOK, Freed
    <3> QED BY <2>1, <3>2 DEF Inv, SuspendedIsSaved
  <2> QED BY <2>1
<1>5. /\ StartProgram(current_terminal, NoPid, Freed(Running), terminal_number)
      /\ vidmem' = RestorePage(Running)
      /\ UNCHANGED <<current_terminal, terminal_number, run_shell>>
  BY DEF HaltRoot
<1>6. /\ Mapped(vidmem', Freed(Running), terminal_number)
      /\ vidmem' \in [Pids -> Pages]
  BY <1>1, <1>5, HaltMapped
<1>7. /\ run_shell' \in [Terminals -> BOOLEAN] /\ run_shell'[current_terminal]
      /\ \A u \in Terminals : pcb_num[u] # NoPid => run_shell'[u]
  BY <1>5 DEF Inv, Visited, TypeOK
<1> HIDE DEF tops
<1> QED BY <1>1, <1>2, <1>3, <1>4, <1>5, <1>6, <1>7, StartInv

LEMMA HaltToParentInv == Inv /\ HaltToParent => Inv'
<1> SUFFICES ASSUME Inv, HaltToParent PROVE Inv'
  OBVIOUS
<1> DEFINE up    == pcb_ptr[Running].parent
           freed == Freed(Running)
           tops  == [pcb_num EXCEPT ![current_terminal] = up]
<1>1. /\ TypeOK /\ ~Booting /\ up # NoPid
      /\ Lines(pcb_ptr, pcb_num) /\ Frames(pcb_ptr)
      /\ pcb_ptr' = [freed EXCEPT ![up].esp = "popped"]
      /\ pcb_num' = tops
  BY LinesOfState DEF Inv, HaltToParent
<1>2. /\ freed \in Pcbs /\ pcb_ptr[Running] \in Pcb
      /\ Lines(freed, tops) /\ Frames(freed)
      /\ \A p \in Alive(freed) :
            freed[p].parent # NoPid => freed[p].parent # up
  BY <1>1, HaltLines
<1>3. /\ current_terminal \in Terminals /\ Running \in Pids
      /\ tops \in Tops /\ tops[current_terminal] = up
      /\ \A u \in Terminals \ {current_terminal} : tops[u] = pcb_num[u]
      /\ up \in Pids
  BY <1>1, <1>2 DEF Inv, TypeOK, Tops, Pcb, ContextConsistent, Live
<1>4. \A u \in Terminals \ {current_terminal} : pcb_num[u] # up
  BY <1>1, <1>2, <1>3 DEF Lines
<1>5. up \in Alive(freed) /\ freed[up] \in Pcb
  BY <1>1, <1>2, <1>3 DEF Lines, Alive, Pcbs
<1> HIDE DEF freed
<1>6. /\ pcb_ptr' \in Pcbs
      /\ pcb_ptr'[up] \in Pcb
      /\ pcb_ptr'[up].parent = freed[up].parent
      /\ pcb_ptr'[up].terminal_number = freed[up].terminal_number
      /\ pcb_ptr'[up].sched_esp = freed[up].sched_esp
      /\ \A p \in Pids \ {up} : pcb_ptr'[p] = freed[p]
  BY <1>1, <1>2, <1>5, <1>3 DEF Pcbs, Pcb, StackPointer
<1>7. NULL \notin Pcb
  BY KernelAssumption
<1>8. \A p \in Pids : /\ freed[p] = NULL <=> pcb_ptr'[p] = NULL
                      /\ freed[p] # NULL =>
                           pcb_ptr'[p].parent = freed[p].parent
  BY <1>5, <1>6, <1>7
<1>9. Lines(pcb_ptr', tops)
  BY <1>2, <1>3, <1>6, <1>8, SameLines
<1>10. Alive(pcb_ptr') = Alive(freed)
  BY <1>8 DEF Alive
<1>11. Running' = up /\ ~Booting'
  BY <1>1, <1>3 DEF Running, Booting, HaltToParent
<1> HIDE DEF up, tops
<1>12. TypeOK'
  <2>1. vidmem' \in [Pids -> Pages]
    BY HaltMapped DEF HaltToParent
  <2>2. cr3' \in 0 .. MaxPcb - 1 /\ esp0' \in Pids
    BY <1>3, KernelAssumption DEF HaltToParent, up, Pids
  <2> QED BY <1>1, <1>3, <1>6, <2>1, <2>2
          DEF TypeOK, Pcbs, Tops, HaltToParent
<1>13. ContextConsistent'
  <2>1. up \in Live'
    BY <1>5, <1>10, <1>3 DEF Live, Alive
  <2> QED BY <1>11, <2>1 DEF ContextConsistent, HaltToParent, up
<1>14. SuspendedIsSaved'
  <2>1. ASSUME NEW u \in Terminals \ {current_terminal}, pcb_num[u] # NoPid
        PROVE  pcb_ptr'[pcb_num[u]].sched_esp = "frame"
    <3>1. /\ pcb_num[u] # Running /\ pcb_num[u] \in Pids
          /\ pcb_num[u] # up
      BY <1>4, <2>1 DEF Inv, ProcessLines, TypeOK, Running
    <3>2. pcb_ptr'[pcb_num[u]] = pcb_ptr[pcb_num[u]]
      BY <1>6, <3>1 DEF Inv, TypeOK, freed, Freed
    <3> QED BY <2>1, <3>2 DEF Inv, SuspendedIsSaved
  <2> QED BY <1>1, <1>3, <2>1 DEF SuspendedIsSaved, HaltToParent
<1>15. Frames(pcb_ptr')
  <2>1. ASSUME NEW p \in Alive(freed), pcb_ptr'[p].parent # NoPid
        PROVE  pcb_ptr'[pcb_ptr'[p].parent].esp = "frame"
    <3>1. pcb_ptr'[p].parent = freed[p].parent
      BY <1>8 DEF Alive
    <3>2. freed[p].parent \in Pids \ {up}
      BY <1>2, <2>1, <3>1 DEF Lines, Alive
    <3> QED BY <1>2, <1>6, <2>1, <3>1, <3>2 DEF Frames
  <2> QED BY <1>10, <2>1 DEF Frames
<1>16. ParentIsSaved' /\ ProcessLines'
  BY <1>1, <1>9, <1>15
     DEF ParentIsSaved, ProcessLines, Lines, Frames, Alive, Live
<1>17. RecordedTerminalMapped'
  <2>1. Mapped(vidmem', freed, terminal_number)
    BY <1>1, HaltMapped DEF HaltToParent, freed
  <2>2. \A p \in Alive(freed) :
          pcb_ptr'[p].terminal_number = freed[p].terminal_number
    BY <1>6 DEF Alive
  <2> QED BY <1>10, <2>1, <2>2
          DEF RecordedTerminalMapped, Mapped, Alive, Live, HaltToParent
<1>18. Visited'
  BY <1>1, <1>3, <1>11 DEF Inv, Visited, Booting, Running, HaltToParent
<1> QED BY <1>12, <1>13, <1>14, <1>16, <1>17, <1>18 DEF Inv

\* Whenever the scheduler gives the CPU to the next terminal.
LEMMA DispatchInv ==
  ASSUME Inv, ~Booting,
         NEW c \in Terminals, NEW n \in Terminals,
         NextTerminal(c, n), Dispatch(n, SaveContext),
         pcb_num' = pcb_num,
         terminal_number' \in Terminals,
         run_shell' \in [Terminals -> BOOLEAN],
         \A u \in Terminals : pcb_num[u] # NoPid => run_shell'[u],
         vidmem' \in [Pids -> Pages], Mapped(vidmem', pcb_ptr, terminal_number')
  PROVE  Inv'
<1> DEFINE next  == pcb_num[n]
           saved == SaveContext
<1>1. /\ TypeOK /\ Running \in Live
      /\ current_terminal \in Terminals
      /\ pcb_num[current_terminal] = Running
      /\ NULL \notin Pcb
      /\ Lines(pcb_ptr, pcb_num) /\ Frames(pcb_ptr)
      /\ pcb_ptr \in Pcbs /\ pcb_num \in Tops
  BY KernelAssumption, LinesOfState
     DEF Inv, ContextConsistent, TypeOK, Running, Pcbs, Tops
<1>2. /\ saved \in Pcbs
      /\ saved[Running] \in Pcb
      /\ saved[Running].parent = pcb_ptr[Running].parent
      /\ saved[Running].terminal_number = pcb_ptr[Running].terminal_number
      /\ saved[Running].esp = pcb_ptr[Running].esp
      /\ saved[Running].sched_esp = "frame"
      /\ \A p \in Pids \ {Running} : saved[p] = pcb_ptr[p]
  BY <1>1, SaveContextAt DEF Pcbs
<1> HIDE DEF saved
<1>3. /\ next # NoPid /\ next \in Pids /\ next \in Live
      /\ \A u \in Terminals \ {n} : pcb_num[u] # next
  BY <1>1 DEF NextTerminal, TypeOK, Inv, ProcessLines
<1>4. \A u \in Terminals :
        pcb_num[u] # NoPid => saved[pcb_num[u]].sched_esp = "frame"
  <2>1. ASSUME NEW u \in Terminals, pcb_num[u] # NoPid
        PROVE  saved[pcb_num[u]].sched_esp = "frame"
    <3>1. CASE u = current_terminal
      BY <1>1, <1>2, <3>1
    <3>2. CASE u # current_terminal
      <4>1. pcb_num[u] \in Pids /\ pcb_num[u] # Running
        BY <1>1, <2>1, <3>2 DEF TypeOK, Inv, ProcessLines, NoPid, Running
      <4> QED BY <1>2, <2>1, <3>2, <4>1 DEF Inv, SuspendedIsSaved
    <3> QED BY <3>1, <3>2
  <2> QED BY <2>1
<1>5. /\ current_terminal' = n
      /\ cr3' = next - 1
      /\ esp0' = next
      /\ pcb_ptr' = [saved EXCEPT ![next].sched_esp = "popped"]
  BY <1>3, <1>4 DEF Dispatch, saved
<1>6. saved[next] \in Pcb
  BY <1>1, <1>2, <1>3 DEF Live, TypeOK
<1>7. /\ pcb_ptr' \in Pcbs
      /\ pcb_ptr'[next] \in Pcb
      /\ pcb_ptr'[next].parent = saved[next].parent
      /\ pcb_ptr'[next].terminal_number = saved[next].terminal_number
      /\ pcb_ptr'[next].esp = saved[next].esp
      /\ \A p \in Pids \ {next} : pcb_ptr'[p] = saved[p]
  BY <1>2, <1>3, <1>5, <1>6 DEF Pcbs, Pcb, StackPointer
<1>8. Running' = next /\ ~Booting'
  BY <1>3, <1>5 DEF Running, Booting
<1> HIDE DEF next
<1>9. \A p \in Pids :
        /\ pcb_ptr[p] = NULL <=> pcb_ptr'[p] = NULL
        /\ pcb_ptr[p] # NULL =>
             /\ pcb_ptr'[p].parent = pcb_ptr[p].parent
             /\ pcb_ptr'[p].terminal_number = pcb_ptr[p].terminal_number
             /\ pcb_ptr'[p].esp = pcb_ptr[p].esp
  <2> SUFFICES ASSUME NEW p \in Pids
               PROVE  /\ pcb_ptr[p] = NULL <=> pcb_ptr'[p] = NULL
                      /\ pcb_ptr[p] # NULL =>
                           /\ pcb_ptr'[p].parent = pcb_ptr[p].parent
                           /\ pcb_ptr'[p].terminal_number
                                = pcb_ptr[p].terminal_number
                           /\ pcb_ptr'[p].esp = pcb_ptr[p].esp
    OBVIOUS
  <2>1. /\ pcb_ptr[p] = NULL <=> saved[p] = NULL
        /\ pcb_ptr[p] # NULL =>
             /\ saved[p].parent = pcb_ptr[p].parent
             /\ saved[p].terminal_number = pcb_ptr[p].terminal_number
             /\ saved[p].esp = pcb_ptr[p].esp
    BY <1>1, <1>2 DEF Live
  <2>2. CASE p = next
    BY <1>1, <1>6, <1>7, <2>1, <2>2
  <2>3. CASE p # next
    BY <1>7, <2>1, <2>3
  <2> QED BY <2>2, <2>3
<1>10. Alive(pcb_ptr') = Alive(pcb_ptr) /\ Live' = Live
  BY <1>9 DEF Alive, Live
<1>11. TypeOK'
  <2>1. cr3' \in 0 .. MaxPcb - 1 /\ esp0' \in Pids
    BY <1>3, <1>5, KernelAssumption DEF Pids
  <2> QED BY <1>1, <1>5, <1>7, <2>1 DEF TypeOK, Pcbs
<1>12. ContextConsistent'
  BY <1>3, <1>5, <1>8, <1>10 DEF ContextConsistent
<1>13. SuspendedIsSaved'
  <2>1. ASSUME NEW u \in Terminals \ {n}, pcb_num[u] # NoPid
        PROVE  pcb_ptr'[pcb_num[u]].sched_esp = "frame"
    <3>1. pcb_num[u] \in Pids \ {next}
      BY <1>1, <1>3, <2>1 DEF TypeOK
    <3> QED BY <1>4, <1>7, <2>1, <3>1
  <2> QED BY <1>5, <2>1 DEF SuspendedIsSaved
<1>14. Lines(pcb_ptr', pcb_num')
  <2>1. Lines(pcb_ptr', pcb_num)
    BY <1>1, <1>7, <1>9, SameLines
  <2> QED BY <2>1
<1>15. Frames(pcb_ptr')
  <2>1. ASSUME NEW p \in Alive(pcb_ptr), pcb_ptr[p].parent # NoPid
        PROVE  pcb_ptr'[pcb_ptr[p].parent].esp = "frame"
    <3>1. pcb_ptr[p].parent \in Alive(pcb_ptr)
      BY <1>1, <2>1 DEF Lines
    <3>2. pcb_ptr[pcb_ptr[p].parent].esp = "frame"
      BY <1>1, <2>1 DEF Frames
    <3> QED BY <1>9, <3>1, <3>2 DEF Alive
  <2>2. \A p \in Alive(pcb_ptr) : pcb_ptr'[p].parent = pcb_ptr[p].parent
    BY <1>9 DEF Alive
  <2> QED BY <1>10, <2>1, <2>2 DEF Frames
<1>16. ParentIsSaved' /\ ProcessLines'
  BY <1>14, <1>15 DEF ParentIsSaved, ProcessLines, Lines, Frames, Alive, Live
<1>17. RecordedTerminalMapped'
  <2>1. \A p \in Alive(pcb_ptr) :
          pcb_ptr'[p].terminal_number = pcb_ptr[p].terminal_number
    BY <1>9 DEF Alive
  <2>2. Live = Alive(pcb_ptr)
    BY DEF Live, Alive
  <2> QED BY <1>10, <2>1, <2>2 DEF RecordedTerminalMapped, Mapped
<1>18. Visited'
  BY <1>3, <1>5 DEF Visited, next
<1> QED BY <1>11, <1>12, <1>13, <1>16, <1>17, <1>18 DEF Inv

LEMMA PitTickInv == Inv /\ PitTick => Inv'
<1> SUFFICES ASSUME Inv, PitTick PROVE Inv'
  OBVIOUS
<1>1. PICK n \in Terminals : /\ NextTerminal(current_terminal, n)
                             /\ Dispatch(n, SaveContext)
  BY DEF PitTick
<1>2. /\ ~Booting
      /\ UNCHANGED <<pcb_num, terminal_number, run_shell, vidmem>>
  BY DEF PitTick
<1>3. /\ current_terminal \in Terminals /\ terminal_number' \in Terminals
      /\ run_shell' \in [Terminals -> BOOLEAN]
      /\ \A u \in Terminals : pcb_num[u] # NoPid => run_shell'[u]
      /\ vidmem' \in [Pids -> Pages]
  BY <1>2 DEF Inv, TypeOK, Visited
<1>4. Mapped(vidmem', pcb_ptr, terminal_number')
  BY <1>2 DEF Inv, RecordedTerminalMapped, Mapped, Alive, Live
<1> QED BY <1>1, <1>2, <1>3, <1>4, DispatchInv

\* remap_page() leaves every process on the right page for the new terminal.
LEMMA ShowMapped ==
  ASSUME Inv, NEW t \in Terminals, Show(t)
  PROVE  /\ vidmem' \in [Pids -> Pages]
         /\ Mapped(vidmem', pcb_ptr, t)
<1>1. \A u \in Terminals : BufferPage(u) \in Pages
  BY KernelAssumption DEF BufferPage, Terminals, Pages
<1>2. VideoPage \in Pages
  BY KernelAssumption DEF VideoPage, Pages
<1>3. \A p \in Pids : pcb_ptr[p] # NULL => pcb_ptr[p].terminal_number \in Terminals
  BY DEF Inv, TypeOK, Pcb
<1>4. ASSUME NEW p \in Pids
      PROVE  /\ vidmem'[p] \in Pages
             /\ vidmem'[p] = IF p \in Alive(pcb_ptr)
                                /\ pcb_ptr[p].terminal_number # t
                             THEN BufferPage(pcb_ptr[p].terminal_number)
                             ELSE VideoPage
  <2>1. vidmem[p] = IF p \in Alive(pcb_ptr)
                       /\ pcb_ptr[p].terminal_number # terminal_number
                    THEN BufferPage(pcb_ptr[p].terminal_number)
                    ELSE VideoPage
    BY DEF Inv, RecordedTerminalMapped, Live, Alive
  <2>2. CASE pcb_ptr[p] = NULL
    BY <1>2, <2>1, <2>2 DEF Show, RemapPage, Alive
  <2>3. CASE pcb_ptr[p] # NULL /\ pcb_ptr[p].terminal_number = t
    BY <1>2, <2>3 DEF Show, RemapPage, Alive
  <2>4. CASE pcb_ptr[p] # NULL /\ pcb_ptr[p].terminal_number = terminal_number
    BY <1>1, <1>3, <2>4 DEF Show, RemapPage, Alive
  <2>5. CASE /\ pcb_ptr[p] # NULL
             /\ pcb_ptr[p].terminal_number \notin {t, terminal_number}
    BY <1>1, <1>3, <2>1, <2>5 DEF Show, RemapPage, Alive
  <2> QED BY <2>2, <2>3, <2>4, <2>5
<1> QED BY <1>4 DEF Show, RemapPage, Mapped

LEMMA SwitchTerminalInv ==
  ASSUME Inv, NEW t \in Terminals, SwitchTerminal(t)
  PROVE  Inv'
<1>1. /\ Show(t) /\ terminal_number' = t
      /\ UNCHANGED <<pcb_ptr, pcb_num, current_terminal, run_shell, cr3, esp0>>
  BY DEF SwitchTerminal, Show
<1>2. vidmem' \in [Pids -> Pages] /\ Mapped(vidmem', pcb_ptr, t)
  BY <1>1, ShowMapped
<1>3. TypeOK'
  BY <1>1, <1>2 DEF Inv, TypeOK
<1>4. /\ ContextConsistent' /\ SuspendedIsSaved' /\ ParentIsSaved'
      /\ ProcessLines' /\ Visited'
  BY <1>1 DEF Inv, ContextConsistent, SuspendedIsSaved, ParentIsSaved,
              ProcessLines, Visited, Live, Running, Booting
<1>5. RecordedTerminalMapped'
  BY <1>1, <1>2 DEF RecordedTerminalMapped, Mapped, Alive, Live
<1> QED BY <1>3, <1>4, <1>5 DEF Inv

LEMMA OpenTerminalInv ==
  ASSUME Inv, NEW t \in Terminals, OpenTerminal(t)
  PROVE  Inv'
<1>1. /\ Show(t) /\ terminal_number' = t /\ current_terminal' = t
      /\ ~run_shell[t] /\ ~Booting
      /\ run_shell' = [run_shell EXCEPT ![t] = TRUE]
      /\ StartProgram(t, pcb_num[t], SaveContext, t)
  BY DEF OpenTerminal, Show
<1>2. /\ TypeOK /\ Running \in Live
      /\ Lines(pcb_ptr, pcb_num) /\ Frames(pcb_ptr)
      /\ pcb_ptr \in Pcbs /\ pcb_num \in Tops
      /\ current_terminal \in Terminals
  BY <1>1, LinesOfState DEF Inv, ContextConsistent, TypeOK, Pcbs, Tops
<1>3. /\ pcb_num[t] = NoPid
      /\ NoPid \in Pids \cup {NoPid}
      /\ t # current_terminal
  BY <1>1 DEF Inv, Visited
<1>4. /\ SaveContext \in Pcbs
      /\ SaveContext[Running] \in Pcb
      /\ SaveContext[Running].parent = pcb_ptr[Running].parent
      /\ SaveContext[Running].terminal_number
           = pcb_ptr[Running].terminal_number
      /\ SaveContext[Running].esp = pcb_ptr[Running].esp
      /\ SaveContext[Running].sched_esp = "frame"
      /\ \A p \in Pids \ {Running} : SaveContext[p] = pcb_ptr[p]
  BY <1>2, SaveContextAt DEF Pcbs
<1>5. \A p \in Pids :
        /\ pcb_ptr[p] = NULL <=> SaveContext[p] = NULL
        /\ pcb_ptr[p] # NULL =>
             /\ SaveContext[p].parent = pcb_ptr[p].parent
             /\ SaveContext[p].terminal_number = pcb_ptr[p].terminal_number
             /\ SaveContext[p].esp = pcb_ptr[p].esp
  BY <1>2, <1>4, KernelAssumption DEF Live
<1>6. Alive(SaveContext) = Alive(pcb_ptr)
  BY <1>5 DEF Alive
<1>7. Lines(SaveContext, pcb_num)
  BY <1>2, <1>4, <1>5, SameLines
<1>8. Frames(SaveContext)
  <2>1. ASSUME NEW p \in Alive(pcb_ptr), pcb_ptr[p].parent # NoPid
        PROVE  SaveContext[pcb_ptr[p].parent].esp = "frame"
    <3>1. pcb_ptr[p].parent \in Alive(pcb_ptr)
      BY <1>2, <2>1 DEF Lines
    <3>2. pcb_ptr[pcb_ptr[p].parent].esp = "frame"
      BY <1>2, <2>1 DEF Frames
    <3> QED BY <1>5, <3>1, <3>2 DEF Alive
  <2>2. \A p \in Alive(pcb_ptr) : SaveContext[p].parent = pcb_ptr[p].parent
    BY <1>5 DEF Alive
  <2> QED BY <1>6, <2>1, <2>2 DEF Frames
<1>9. ASSUME NEW u \in Terminals \ {t}, pcb_num[u] # NoPid
      PROVE  SaveContext[pcb_num[u]].sched_esp = "frame"
  <2>1. CASE u = current_terminal
    BY <1>4, <2>1 DEF Running
  <2>2. CASE u # current_terminal
    <3>1. pcb_num[u] \in Pids /\ pcb_num[u] # Running
      BY <1>2, <1>9, <2>2 DEF TypeOK, Inv, ProcessLines, Running
    <3> QED BY <1>4, <1>9, <2>2, <3>1 DEF Inv, SuspendedIsSaved
  <2> QED BY <2>1, <2>2
<1>10. /\ vidmem' \in [Pids -> Pages]
       /\ Mapped(vidmem', SaveContext, t)
  <2>1. vidmem' \in [Pids -> Pages] /\ Mapped(vidmem', pcb_ptr, t)
    BY <1>1, ShowMapped
  <2>2. \A p \in Alive(pcb_ptr) :
          SaveContext[p].terminal_number = pcb_ptr[p].terminal_number
    BY <1>5 DEF Alive
  <2> QED BY <1>6, <2>1, <2>2 DEF Mapped
<1>11. /\ run_shell' \in [Terminals -> BOOLEAN] /\ run_shell'[t]
       /\ \A u \in Terminals \ {t} : pcb_num[u] # NoPid => run_shell'[u]
  BY <1>1 DEF Inv, TypeOK, Visited
<1> QED BY <1>1, <1>2, <1>3, <1>4, <1>7, <1>8, <1>9, <1>10, <1>11, StartInv

LEMMA OpenTerminalFailsInv ==
  ASSUME Inv, NEW t \in Terminals, OpenTerminalFails(t)
  PROVE  Inv'
<1>1. PICK n \in Terminals : NextTerminal(t, n) /\ Dispatch(n, SaveContext)
  BY DEF OpenTerminalFails
<1>2. /\ ~Booting /\ Show(t) /\ terminal_number' = t
      /\ run_shell' = [run_shell EXCEPT ![t] = TRUE]
      /\ pcb_num' = pcb_num
  BY DEF OpenTerminalFails, Show
<1>3. /\ vidmem' \in [Pids -> Pages]
      /\ Mapped(vidmem', pcb_ptr, terminal_number')
  BY <1>2, ShowMapped
<1>4. /\ run_shell' \in [Terminals -> BOOLEAN]
      /\ \A u \in Terminals : pcb_num[u] # NoPid => run_shell'[u]
  BY <1>2 DEF Inv, TypeOK, Visited
<1> QED BY <1>1, <1>2, <1>3, <1>4, DispatchInv

-----------------------------------------------------------------------------
(* The theorems.                                                           *)

LEMMA StepInv == Inv /\ [Next]_vars => Inv'
<1> SUFFICES ASSUME Inv, [Next]_vars PROVE Inv'
  OBVIOUS
<1>1. CASE UNCHANGED vars
  BY <1>1 DEF vars, Inv, TypeOK, ContextConsistent, SuspendedIsSaved,
              ParentIsSaved, ProcessLines, RecordedTerminalMapped, Visited,
              Live, Running, Booting
<1>2. CASE \E t \in Terminals :
             SwitchTerminal(t) \/ OpenTerminal(t) \/ OpenTerminalFails(t)
  BY <1>2, SwitchTerminalInv, OpenTerminalInv, OpenTerminalFailsInv
<1> QED BY <1>1, <1>2, BootInv, ExecuteInv, HaltToParentInv, HaltRootInv,
           PitTickInv DEF Next

\* Inv holds in every state of the kernel.
THEOREM Invariance == Spec => []Inv
BY InitInv, StepInv, PTL DEF Spec

\* All variables keep their types: no handler ever uses a null pcb.
THEOREM TypeCorrect == Spec => []TypeOK
<1>1. Inv => TypeOK
  BY DEF Inv
<1> QED BY <1>1, Invariance, PTL

\* The page directory, the TSS and pcb_num[] always name the same process.
THEOREM ContextIsConsistent == Spec => []ContextConsistent
<1>1. Inv => ContextConsistent
  BY DEF Inv
<1> QED BY <1>1, Invariance, PTL

\* The scheduler only ever returns into a frame that exists.
THEOREM FramesAreSaved == Spec => []SuspendedIsSaved
<1>1. Inv => SuspendedIsSaved
  BY DEF Inv
<1> QED BY <1>1, Invariance, PTL

\* halt() only ever returns into the frame that execute() left in the parent,
\* whatever the scheduler has saved of it since.
THEOREM ParentsAreSaved == Spec => []ParentIsSaved
<1>1. Inv => ParentIsSaved
  BY DEF Inv
<1> QED BY <1>1, Invariance, PTL

\* The live processes are always one line for each terminal.
THEOREM LinesAreKept == Spec => []ProcessLines
<1>1. Inv => ProcessLines
  BY DEF Inv
<1> QED BY <1>1, Invariance, PTL

\* A process always draws where the terminal recorded in its pcb is.
THEOREM PagesAreMapped == Spec => []RecordedTerminalMapped
<1>1. Inv => RecordedTerminalMapped
  BY DEF Inv
<1> QED BY <1>1, Invariance, PTL

\* No step takes the last process of a terminal away.
THEOREM TerminalsStayOpen == Spec => TerminalStaysOpen
<1>1. Inv /\ [Next]_vars =>
        [\A t \in Terminals : pcb_num[t] # NoPid => pcb_num'[t] # NoPid]_vars
  <2> SUFFICES ASSUME Inv, Next, NEW t \in Terminals, pcb_num[t] # NoPid
               PROVE  pcb_num'[t] # NoPid
    OBVIOUS
  <2>1. pcb_num \in [Terminals -> Pids \cup {NoPid}] /\ NoPid \notin Pids
    BY DEF Inv, TypeOK, Pids, NoPid
  <2>2. ASSUME NEW u, NEW up, NEW pcbs, NEW shown,
               StartProgram(u, up, pcbs, shown)
        PROVE  pcb_num'[t] # NoPid
    BY <2>1, <2>2 DEF StartProgram
  <2>3. CASE HaltToParent
    BY <2>1, <2>3 DEF HaltToParent
  <2>4. CASE pcb_num' = pcb_num
    BY <2>4
  <2> QED BY <2>2, <2>3, <2>4
          DEF Next, Boot, Execute, HaltRoot, PitTick, SwitchTerminal,
              OpenTerminal, OpenTerminalFails
<1> QED BY <1>1, Invariance, PTL DEF Spec, TerminalStaysOpen

-----------------------------------------------------------------------------
(* The tables and the stacks.                                              *)

\* The invariant of Paging: every translation is that of a present table.
PagingInv == Inv /\ tlb = Walk

\* Pids are numbers of page directories, counted from one.
LEMMA ProcessNumbers ==
  ASSUME NEW p \in Pids
  PROVE  p \in Nat /\ 1 <= p /\ p <= 10 /\ p - 1 + 1 = p
BY KernelAssumption, PagingAssumption DEF Pids, TASK_NUMBER

\* Where the program of directory d is.
LEMMA ProgramAt ==
  ASSUME NEW d \in 0 .. 9
  PROVE  Translate(d, PROGRAM_ADDR) = (d + 2) * 4194304
<1>1. PROGRAM_ADDR = 134217728
  BY DEF PROGRAM_ADDR, PROGRAM, FOUR_MB, FOUR_KB
<1>2. 134217728 \div 4194304 = 32 /\ (134217728 % 4194304) \div 4096 = 0
  BY SMT
<1>3. ProgramBase(d) = 1024 * (d + 2)
  <2>1. (8388608 + d * 4194304) \div 4194304 = d + 2
    BY SMT
  <2> QED BY <2>1 DEF ProgramBase, EIGHT_MB, FOUR_MB, FOUR_KB
<1>4. Translate(d, PROGRAM_ADDR) = (ProgramBase(d) + 0) * 4096
  BY <1>1, <1>2, SMT
     DEF Translate, FOUR_MB, FOUR_KB, PROGRAM, USER_VIDEO
<1> QED BY <1>3, <1>4, SMT

\* Where the pages of its screen are.
LEMMA ScreenAt ==
  ASSUME NEW d \in 0 .. 9, NEW k \in 0 .. 3, vidmem[d + 1] \in Nat
  PROVE  Translate(d, USER_VIDEO_ADDR + k * FOUR_KB)
           = 753664 + 4096 * (IF k = 0 THEN vidmem[d + 1] ELSE k)
<1> DEFINE page == IF k = 0 THEN vidmem[d + 1] ELSE k
<1>1. USER_VIDEO_ADDR + k * FOUR_KB = 138412032 + k * 4096
  BY DEF USER_VIDEO_ADDR, USER_VIDEO, FOUR_MB, FOUR_KB
<1>2. /\ (138412032 + k * 4096) \div 4194304 = 33
      /\ ((138412032 + k * 4096) % 4194304) \div 4096 = k
  BY SMT
<1>3. VideoBase(d, k) = 184 + page
  <2>1. 753664 \div 4096 = 184
    BY SMT
  <2> QED BY <2>1 DEF VideoBase, VIDEO, FOUR_KB
<1>4. Translate(d, USER_VIDEO_ADDR + k * FOUR_KB) = VideoBase(d, k) * 4096
  BY <1>1, <1>2 DEF Translate, FOUR_MB, FOUR_KB, PROGRAM, USER_VIDEO
<1> QED BY <1>3, <1>4, SMT

\* Every process has 8KB of the last page of the kernel.
LEMMA StackAt ==
  ASSUME NEW p \in Pids
  PROVE  /\ StackBottom(p) = 8388607 - 8192 * (p - 1)
         /\ PcbAddress(p) = 8380416 - 8192 * (p - 1)
         /\ KernelTranslate(PcbAddress(p)) = PcbAddress(p)
<1>1. p \in 1 .. 10
  BY ProcessNumbers
<1>2. StackBottom(p) = 8388607 - 8192 * (p - 1)
  BY <1>1 DEF StackBottom, KERNEL_BOTTOM, EIGHT_MB, FOUR_MB, FOUR_KB,
              STACK_SIZE
<1>3. (8388607 - 8192 * (p - 1)) \div 8192 = 1023 - (p - 1)
  BY <1>1, SMT
<1>4. PcbAddress(p) = 8380416 - 8192 * (p - 1)
  BY <1>1, <1>2, <1>3 DEF PcbAddress, STACK_SIZE, FOUR_KB
<1>5. /\ (8380416 - 8192 * (p - 1)) \div 4194304 = 1
      /\ (8380416 - 8192 * (p - 1)) % 4194304
           = 4186112 - 8192 * (p - 1)
  BY <1>1, SMT
<1>6. KernelTranslate(PcbAddress(p))
        = 4194304 + (4186112 - 8192 * (p - 1))
  BY <1>4, <1>5 DEF KernelTranslate, KERNEL_ADDR, KERNEL, START, FOUR_MB,
                    FOUR_KB
<1> QED BY <1>1, <1>2, <1>4, <1>6, SMT

-----------------------------------------------------------------------------
(* The invariant.                                                          *)

\* What the scheduler chooses has been saved.
LEMMA ChosenIsSaved ==
  ASSUME Inv, NEW n \in Terminals, ~Booting, pcb_num[n] # NoPid
  PROVE  SaveContext[pcb_num[n]].sched_esp = "frame"
<1>1. /\ SaveContext[Running].sched_esp = "frame"
      /\ \A p \in Pids \ {Running} : SaveContext[p] = pcb_ptr[p]
  BY SaveContextAt DEF Inv, ContextConsistent
<1>2. CASE n = current_terminal
  BY <1>1, <1>2 DEF Running
<1>3. CASE n # current_terminal
  <2>1. pcb_num[n] \in Pids /\ pcb_num[n] # Running
    BY <1>3 DEF Inv, TypeOK, ProcessLines, Running
  <2> QED BY <1>1, <1>3, <2>1 DEF Inv, SuspendedIsSaved
<1> QED BY <1>2, <1>3

LEMMA PagingStep ==
  ASSUME PagingInv, [PagingNext]_pvars
  PROVE  PagingInv' /\ [Next]_vars
<1>1. CASE UNCHANGED pvars
  <2>1. UNCHANGED vars /\ tlb' = tlb /\ Walk' = Walk
    BY <1>1 DEF pvars, vars, Walk, Translate, VideoBase
  <2> QED BY <2>1, StepInv DEF PagingInv
<1>2. CASE PagingNext
  <2>1. Next
    BY <1>2 DEF PagingNext, TickAndLoad, Next
  <2>2. tlb' = Walk'
    <3>1. CASE TickAndLoad
      <4>1. PICK n \in Terminals :
              NextTerminal(current_terminal, n) /\ current_terminal' = n
        BY <3>1 DEF TickAndLoad, PitTick, Dispatch
      <4>2. ~Booting /\ pcb_num' = pcb_num /\ pcb_num[n] # NoPid
        BY <3>1, <4>1 DEF TickAndLoad, PitTick, NextTerminal
      <4>3. SaveContext[pcb_num[n]].sched_esp = "frame"
        BY <4>2, ChosenIsSaved DEF PagingInv
      <4> QED BY <3>1, <4>1, <4>3 DEF TickAndLoad, SetNewTask
    <3> QED BY <1>2, <3>1 DEF PagingNext, SetNewTask, FlushTlb
  <2> QED BY <2>1, <2>2, StepInv DEF PagingInv
<1> QED BY <1>1, <1>2

\* The kernel stays the kernel when it is seen with its translations.
THEOREM PagingIsKernel == PagingSpec => Init /\ [][Next]_vars
<1>1. PagingInit => PagingInv
  BY InitInv DEF PagingInit, PagingInv
<1>2. PagingInit => Init
  BY DEF PagingInit
<1> QED BY <1>1, <1>2, PagingStep, PTL DEF PagingSpec

-----------------------------------------------------------------------------
(* The property.                                                           *)

LEMMA InvMeansConfined == PagingInv => ReachIsConfined
<1> SUFFICES ASSUME PagingInv, ~Booting
             PROVE  /\ ProgramIsOwn /\ ScreenIsCurrent /\ RestIsScreens
                    /\ StackIsOwn
  BY DEF ReachIsConfined
<1>1. /\ Running \in Live /\ Running \in Pids
      /\ cr3 = Running - 1 /\ esp0 = Running
      /\ Live \subseteq Pids
  BY DEF PagingInv, Inv, ContextConsistent, Live
<1>2. \A p \in Pids : p \in 1 .. 10 /\ p - 1 \in 0 .. 9 /\ p - 1 + 1 = p
  BY ProcessNumbers
<1>3. \A p \in Pids : Translate(p - 1, PROGRAM_ADDR) = (p + 1) * 4194304
  <2> TAKE p \in Pids
  <2>1. Translate(p - 1, PROGRAM_ADDR) = (p - 1 + 2) * 4194304
    BY <1>2, ProgramAt
  <2> QED BY <1>2, <2>1
<1>4. \A k \in 0 .. 3 :
        /\ USER_VIDEO_ADDR + k * FOUR_KB # PROGRAM_ADDR
        /\ USER_VIDEO_ADDR + k * FOUR_KB = USER_VIDEO_ADDR => k = 0
  BY DEF PROGRAM_ADDR, USER_VIDEO_ADDR, PROGRAM, USER_VIDEO, FOUR_MB, FOUR_KB
<1>5. ProgramIsOwn
  <2> SUFFICES ASSUME NEW e \in tlb, e.at = PROGRAM_ADDR
               PROVE  /\ e.frame >= EIGHT_MB
                      /\ \A q \in Live \ {Running} :
                           \/ e.frame + FOUR_MB
                                <= Translate(q - 1, PROGRAM_ADDR)
                           \/ Translate(q - 1, PROGRAM_ADDR) + FOUR_MB
                                <= e.frame
    BY DEF ProgramIsOwn
  <2>1. e.frame = (Running + 1) * 4194304
    <3>1. e.frame = Translate(cr3, PROGRAM_ADDR)
      BY <1>4 DEF PagingInv, Walk, UserPages
    <3> QED BY <1>1, <1>3, <3>1
  <2>2. \A q \in Live \ {Running} :
          \/ e.frame + 4194304 <= Translate(q - 1, PROGRAM_ADDR)
          \/ Translate(q - 1, PROGRAM_ADDR) + 4194304 <= e.frame
    <3> TAKE q \in Live \ {Running}
    <3>1. /\ Translate(q - 1, PROGRAM_ADDR) = (q + 1) * 4194304
          /\ q \in 1 .. 10 /\ Running \in 1 .. 10 /\ q # Running
      BY <1>1, <1>2, <1>3
    <3> QED BY <2>1, <3>1
  <2> QED BY <1>1, <1>2, <2>1, <2>2 DEF EIGHT_MB, FOUR_MB, FOUR_KB
<1> DEFINE recorded == pcb_ptr[Running].terminal_number
           shown    == IF recorded # terminal_number THEN recorded + 1 ELSE 0
<1>6. \A k \in 0 .. 3, e \in tlb :
        e.at = USER_VIDEO_ADDR + k * FOUR_KB =>
          \E i \in 0 .. 3 :
            /\ e.at = USER_VIDEO_ADDR + i * FOUR_KB
            /\ e.frame = 753664 + 4096 * (IF i = 0 THEN shown ELSE i)
  <2> TAKE k \in 0 .. 3, e \in tlb
  <2> HAVE e.at = USER_VIDEO_ADDR + k * FOUR_KB
  <2>1. PICK i \in 0 .. 3 : e.at = USER_VIDEO_ADDR + i * FOUR_KB
                            /\ e.frame = Translate(cr3, e.at)
    BY <1>4 DEF PagingInv, Walk, UserPages
  <2>2. vidmem[Running] = shown
    BY <1>1 DEF PagingInv, Inv, RecordedTerminalMapped, BufferPage, VideoPage
  <2>3. vidmem[Running] \in Nat
    BY <1>1, KernelAssumption DEF PagingInv, Inv, TypeOK, Pages
  <2>4. e.frame = 753664 + 4096 * (IF i = 0 THEN vidmem[Running] ELSE i)
    BY <1>1, <1>2, <2>1, <2>3, ScreenAt
  <2> QED BY <2>1, <2>2, <2>4
<1>8. ScreenIsCurrent
  <2> SUFFICES ASSUME NEW e \in tlb, e.at = USER_VIDEO_ADDR
               PROVE  e.frame = VIDEO + FOUR_KB *
                        (IF recorded = terminal_number THEN 0 ELSE recorded + 1)
    BY DEF ScreenIsCurrent
  <2>1. e.at = USER_VIDEO_ADDR + 0 * FOUR_KB
    BY DEF USER_VIDEO_ADDR, USER_VIDEO, FOUR_MB, FOUR_KB
  <2>2. e.frame = 753664 + 4096 * shown
    BY <1>4, <1>6, <2>1
  <2> QED BY <2>2, SMT DEF VIDEO, FOUR_KB
<1>9. RestIsScreens
  <2> SUFFICES ASSUME NEW e \in tlb, e.at # PROGRAM_ADDR
               PROVE  e.frame \in {VIDEO + FOUR_KB * k : k \in 0 .. 3}
    BY DEF RestIsScreens
  <2>1. PICK k \in 0 .. 3 : e.at = USER_VIDEO_ADDR + k * FOUR_KB
    BY DEF PagingInv, Walk, UserPages
  <2>2. PICK i \in 0 .. 3 :
          e.frame = 753664 + 4096 * (IF i = 0 THEN shown ELSE i)
    BY <1>6, <2>1
  <2>3. shown \in 0 .. 3
    <3>1. recorded \in Terminals
      BY <1>1 DEF PagingInv, Inv, TypeOK, Live, Pcb
    <3>2. NumTerminals \in Nat /\ NumTerminals <= 3
      BY KernelAssumption, PagingAssumption
    <3> QED BY <3>1, <3>2, SMT DEF Terminals
  <2> QED BY <2>2, <2>3, SMT DEF VIDEO, FOUR_KB
<1>7. StackIsOwn
  <2>1. \A q \in Live \ {Running} :
          \/ StackBottom(q) < PcbAddress(esp0)
          \/ StackBottom(esp0) < PcbAddress(q)
    <3> TAKE q \in Live \ {Running}
    <3>1. /\ q \in Pids /\ q \in 1 .. 10 /\ Running \in 1 .. 10
          /\ q # Running
      BY <1>1, <1>2
    <3>2. /\ StackBottom(q) = 8388607 - 8192 * (q - 1)
          /\ PcbAddress(q) = 8380416 - 8192 * (q - 1)
          /\ StackBottom(Running) = 8388607 - 8192 * (Running - 1)
          /\ PcbAddress(Running) = 8380416 - 8192 * (Running - 1)
      BY <1>1, <3>1, StackAt
    <3> QED BY <1>1, <3>1, <3>2
  <2> QED BY <1>1, <2>1, StackAt DEF StackIsOwn
<1> QED BY <1>5, <1>7, <1>8, <1>9

\* Every translation the CPU may hold leads to the running process's own
\* program, to the current screen of its recorded terminal or to the text that
\* all programs share, and its kernel stack meets no other process's.
THEOREM ReachStaysConfined == PagingSpec => []ReachIsConfined
<1>1. PagingInit => PagingInv
  BY InitInv DEF PagingInit, PagingInv
<1> QED BY <1>1, PagingStep, InvMeansConfined, PTL DEF PagingSpec

-----------------------------------------------------------------------------
(* The sessions.                                                           *)

\* L is what the pcbs and the runnable processes are as stacks: each process
\* in one place of one of them, above its parent.
Stacked(pcbs, tops, L) ==
  /\ \A t \in Terminals :
       tops[t] = IF L[t] = <<>> THEN NoPid ELSE L[t][Len(L[t])]
  /\ \A t \in Terminals : \A i \in 1 .. Len(L[t]) :
       /\ L[t][i] \in Alive(pcbs)
       /\ pcbs[L[t][i]].parent = IF i = 1 THEN NoPid ELSE L[t][i - 1]
       /\ \A u \in Terminals : \A j \in 1 .. Len(L[u]) :
            L[t][i] = L[u][j] => t = u /\ i = j
  /\ \A p \in Alive(pcbs) :
       \E t \in Terminals : \E i \in 1 .. Len(L[t]) : L[t][i] = p

Shapes == [Terminals -> Seq(Pids)]

LEMMA LeastNat ==
  ASSUME NEW T, T \subseteq Nat, T # {}
  PROVE  \E n \in T : \A m \in T : n <= m
<1>1. PICK n \in T : \A m \in T : ~ (<<m, n>> \in OpToRel(<, Nat))
  BY NatLessThanWellFounded, WFMin, Zenon
<1>2. \A m \in T : ~ m < n
  BY <1>1, Zenon DEF OpToRel
<1> QED BY <1>2

\* The beginning of a stack.
LEMMA Beginning ==
  ASSUME NEW s \in Seq(Pids), NEW i \in 1 .. Len(s)
  PROVE  /\ SubSeq(s, 1, i) \in Seq(Pids)
         /\ SubSeq(s, 1, i) = Append(SubSeq(s, 1, i - 1), s[i])
         /\ i = 1 => SubSeq(s, 1, i) = Append(<<>>, s[i])
<1>1. PICK n \in Nat : n = Len(s)
  BY LenProperties
<1>2. i \in 1 .. n /\ \A k \in 1 .. n : s[k] \in Pids
  BY <1>1, ElementOfSeq
<1>3. SubSeq(s, 1, i) \in Seq(Pids) /\ SubSeq(s, 1, i - 1) \in Seq(Pids)
  BY <1>2, SubSeqProperties
<1>4. SubSeq(s, 1, i) = SubSeq(s, 1, i - 1) \o <<s[i]>>
  <2>1. 1 \in 1 .. Len(s) /\ i \in 1 .. Len(s)
    BY <1>1
  <2> QED BY <2>1, SubSeqRecursiveSecond
<1>5. SubSeq(s, 1, i) = Append(SubSeq(s, 1, i - 1), s[i])
  BY <1>2, <1>3, <1>4, AppendIsConcat
<1>6. i = 1 => SubSeq(s, 1, i - 1) = <<>>
  BY SubSeqEmpty
<1> QED BY <1>3, <1>5, <1>6

\* Line is a recursive function, whose value is that of any function that
\* satisfies its definition.
LEMMA LineRecursion ==
  ASSUME NEW f, f = [q \in Pids \cup {NoPid} |->
                       IF q \notin Live THEN <<>>
                       ELSE Append(f[pcb_ptr[q].parent], q)]
  PROVE  Line = [q \in Pids \cup {NoPid} |->
                   IF q \notin Live THEN <<>>
                   ELSE Append(Line[pcb_ptr[q].parent], q)]
<1> DEFINE line == CHOOSE g : g = [q \in Pids \cup {NoPid} |->
                       IF q \notin Live THEN <<>>
                       ELSE Append(g[pcb_ptr[q].parent], q)]
<1>1. Line = line
  BY Zenon DEF Line
<1>2. line = [q \in Pids \cup {NoPid} |->
                       IF q \notin Live THEN <<>>
                       ELSE Append(line[pcb_ptr[q].parent], q)]
  BY Zenon
<1> HIDE DEF line
<1> QED BY <1>1, <1>2, Zenon

\* When the pcbs are stacks, the lines of the parent fields are these stacks:
\* a statement about one state, used before and after a step.
StacksAreLines ==
  \A L \in Shapes : Stacked(pcb_ptr, pcb_num, L) => Stacks = L

LEMMA StacksOfState == StacksAreLines
<1> SUFFICES ASSUME NEW L \in Shapes, Stacked(pcb_ptr, pcb_num, L)
             PROVE  Stacks = L
  BY DEF StacksAreLines
<1> DEFINE N(t) == Len(L[t])
           Base(t, i) == SubSeq(L[t], 1, i)
<1>1. \A t \in Terminals : L[t] \in Seq(Pids) /\ N(t) \in Nat
  BY LenProperties DEF Shapes
<1>2. /\ Live \subseteq Pids /\ NoPid \notin Live
      /\ Alive(pcb_ptr) = Live
  BY DEF Live, Alive, Pids, NoPid
<1>3. ASSUME NEW t \in Terminals, NEW i \in 1 .. N(t)
      PROVE  /\ Base(t, i) \in Seq(Pids)
             /\ i # 1 => Base(t, i) = Append(Base(t, i - 1), L[t][i])
             /\ i = 1 => Base(t, i) = Append(<<>>, L[t][i])
  BY <1>1, Beginning
<1> HIDE DEF Base
<1>4. \A t \in Terminals : \A i \in 1 .. N(t) :
        /\ L[t][i] \in Live
        /\ pcb_ptr[L[t][i]].parent = IF i = 1 THEN NoPid ELSE L[t][i - 1]
        /\ \A u \in Terminals : \A j \in 1 .. N(u) :
             L[t][i] = L[u][j] => t = u /\ i = j
  BY <1>2 DEF Stacked
<1>5. \A p \in Live : \E t \in Terminals : \E i \in 1 .. N(t) : L[t][i] = p
  BY <1>2 DEF Stacked
<1>6. \A t \in Terminals :
        pcb_num[t] = IF L[t] = <<>> THEN NoPid ELSE L[t][N(t)]
  BY DEF Stacked
<1>7. \A t \in Terminals : L[t] # <<>> => N(t) \in 1 .. N(t)
  BY <1>1, EmptySeq
<1>8. \A t \in Terminals : L[t] # <<>> => Base(t, N(t)) = L[t]
  BY <1>1, <1>7, SubSeqFull DEF Base
<1> HIDE DEF N
<1> DEFINE At(q, s) == \E t \in Terminals : \E i \in 1 .. N(t) :
                         L[t][i] = q /\ s = Base(t, i)
           f == [q \in Pids \cup {NoPid} |->
                   IF q \notin Live THEN <<>> ELSE CHOOSE s : At(q, s)]
<1>9. ASSUME NEW t \in Terminals, NEW i \in 1 .. N(t)
      PROVE  f[L[t][i]] = Base(t, i)
  <2>1. L[t][i] \in Live /\ L[t][i] \in Pids \cup {NoPid}
    BY <1>2, <1>4
  <2>2. \A s : At(L[t][i], s) <=> s = Base(t, i)
    BY <1>4
  <2>3. (CHOOSE s : At(L[t][i], s)) = Base(t, i)
    <3> HIDE DEF At
    <3> QED BY <2>2
  <2> QED BY <2>1, <2>3
<1>10. f[NoPid] = <<>>
  BY <1>2
<1>11. f = [q \in Pids \cup {NoPid} |->
              IF q \notin Live THEN <<>>
              ELSE Append(f[pcb_ptr[q].parent], q)]
  <2>1. ASSUME NEW q \in Live PROVE f[q] = Append(f[pcb_ptr[q].parent], q)
    <3>1. PICK t \in Terminals : \E i \in 1 .. N(t) : L[t][i] = q
      BY <1>5
    <3>2. PICK i \in 1 .. N(t) : L[t][i] = q
      BY <3>1
    <3> HIDE DEF f
    <3>3. f[q] = Base(t, i)
      BY <1>9, <3>2
    <3>4. CASE i = 1
      <4>1. pcb_ptr[q].parent = NoPid
        BY <1>4, <3>2, <3>4
      <4>2. Base(t, i) = Append(<<>>, q)
        BY <1>3, <3>2, <3>4
      <4> QED BY <1>10, <3>3, <4>1, <4>2
    <3>5. CASE i # 1
      <4>1. i - 1 \in 1 .. N(t)
        BY <1>1, <3>5
      <4>2. f[L[t][i - 1]] = Base(t, i - 1)
        BY <1>9, <4>1
      <4>3. pcb_ptr[q].parent = L[t][i - 1]
        BY <1>4, <3>2, <3>5
      <4>4. Base(t, i) = Append(Base(t, i - 1), q)
        BY <1>3, <3>2, <3>5
      <4> QED BY <3>3, <4>2, <4>3, <4>4
    <3> QED BY <3>4, <3>5
  <2>2. \A q \in Pids \cup {NoPid} : q \notin Live => f[q] = <<>>
    OBVIOUS
  <2>3. f = [q \in Pids \cup {NoPid} |-> f[q]]
    OBVIOUS
  <2> HIDE DEF f
  <2>4. \A q \in Pids \cup {NoPid} :
          f[q] = IF q \notin Live THEN <<>>
                 ELSE Append(f[pcb_ptr[q].parent], q)
    BY <2>1, <2>2
  <2> QED BY <2>3, <2>4, Zenon
<1> HIDE DEF f
<1>12. Line = [q \in Pids \cup {NoPid} |->
                 IF q \notin Live THEN <<>>
                 ELSE Append(Line[pcb_ptr[q].parent], q)]
  BY <1>11, LineRecursion, Zenon
<1>13. /\ Line[NoPid] = <<>>
       /\ \A q \in Live : Line[q] = Append(Line[pcb_ptr[q].parent], q)
  <2>1. \A q \in Pids \cup {NoPid} :
          Line[q] = IF q \notin Live THEN <<>>
                    ELSE Append(Line[pcb_ptr[q].parent], q)
    BY <1>12, Zenon
  <2> QED BY <1>2, <2>1
<1> DEFINE D == {i \in Nat : \E t \in Terminals :
                   i \in 1 .. N(t) /\ Line[L[t][i]] # Base(t, i)}
<1>14. D = {}
  <2> SUFFICES ASSUME D # {} PROVE FALSE
    OBVIOUS
  <2>1. D \subseteq Nat
    OBVIOUS
  <2>2. PICK i \in D : \A j \in D : i <= j
    <3> HIDE DEF D
    <3> QED BY <2>1, LeastNat
  <2>3. PICK t \in Terminals :
          i \in 1 .. N(t) /\ Line[L[t][i]] # Base(t, i)
    OBVIOUS
  <2>4. Line[L[t][i]] = Append(Line[pcb_ptr[L[t][i]].parent], L[t][i])
    BY <1>4, <1>13, <2>3
  <2>5. CASE i = 1
    <3>1. pcb_ptr[L[t][i]].parent = NoPid
      BY <1>4, <2>3, <2>5
    <3>2. Base(t, i) = Append(<<>>, L[t][i])
      BY <1>3, <2>3, <2>5
    <3> QED BY <1>13, <2>3, <2>4, <3>1, <3>2
  <2>6. CASE i # 1
    <3>1. i - 1 \in 1 .. N(t) /\ i - 1 \in Nat /\ ~ i <= i - 1
      BY <1>1, <2>3, <2>6
    <3>2. Line[L[t][i - 1]] = Base(t, i - 1)
      BY <2>2, <2>3, <3>1
    <3>3. pcb_ptr[L[t][i]].parent = L[t][i - 1]
      BY <1>4, <2>3, <2>6
    <3>4. Base(t, i) = Append(Base(t, i - 1), L[t][i])
      BY <1>3, <2>3, <2>6
    <3> QED BY <2>3, <2>4, <3>2, <3>3, <3>4
  <2> QED BY <2>5, <2>6
<1>15. ASSUME NEW t \in Terminals PROVE Line[pcb_num[t]] = L[t]
  <2>1. CASE L[t] = <<>>
    BY <1>6, <1>13, <2>1
  <2>2. CASE L[t] # <<>>
    <3>1. N(t) \in 1 .. N(t) /\ N(t) \in Nat
      BY <1>1, <1>7, <2>2
    <3>2. Line[L[t][N(t)]] = Base(t, N(t))
      BY <1>14, <3>1
    <3> QED BY <1>6, <1>8, <2>2, <3>2
  <2> QED BY <2>1, <2>2
<1> QED BY <1>15 DEF Stacks, Shapes

\* A process in each place of a stack, and one that ends it.
LEMMA PlacesOf ==
  ASSUME NEW pcbs, NEW tops, NEW L \in Shapes, Stacked(pcbs, tops, L),
         NEW t \in Terminals
  PROVE  /\ L[t] \in Seq(Pids) /\ Len(L[t]) \in Nat
         /\ \A i \in 1 .. Len(L[t]) : L[t][i] \in Pids
         /\ tops[t] = NoPid <=> L[t] = <<>>
         /\ L[t] # <<>> => Len(L[t]) \in 1 .. Len(L[t])
<1>1. L[t] \in Seq(Pids) /\ Len(L[t]) \in Nat
  BY LenProperties DEF Shapes
<1>2. L[t] # <<>> => Len(L[t]) \in 1 .. Len(L[t])
  BY <1>1, EmptySeq
<1>3. \A i \in 1 .. Len(L[t]) : L[t][i] \in Pids
  BY <1>1, ElementOfSeq
<1>4. tops[t] = NoPid <=> L[t] = <<>>
  BY <1>2, <1>3 DEF Stacked, Pids, NoPid
<1> QED BY <1>1, <1>2, <1>3, <1>4

\* Only the parents matter to the stacks.
LEMMA SameStacks ==
  ASSUME NEW old \in Pcbs, NEW new \in Pcbs, NEW tops, NEW L \in Shapes,
         Alive(new) = Alive(old),
         \A p \in Alive(old) : new[p].parent = old[p].parent,
         Stacked(old, tops, L)
  PROVE  Stacked(new, tops, L)
BY DEF Stacked

\* A process that is started above the one that called execute().
LEMMA PushStacks ==
  ASSUME NEW old \in Pcbs, NEW new \in Pcbs, NEW tops \in Tops,
         NEW L \in Shapes, NEW t \in Terminals, NEW n \in Pids,
         n \notin Alive(old), Alive(new) = Alive(old) \cup {n},
         new[n].parent = tops[t],
         \A p \in Alive(old) : new[p].parent = old[p].parent,
         Stacked(old, tops, L)
  PROVE  /\ [L EXCEPT ![t] = Append(@, n)] \in Shapes
         /\ Stacked(new, [tops EXCEPT ![t] = n],
                    [L EXCEPT ![t] = Append(@, n)])
<1> DEFINE M == [L EXCEPT ![t] = Append(@, n)]
           next == [tops EXCEPT ![t] = n]
<1>1. /\ L[t] \in Seq(Pids) /\ Len(L[t]) \in Nat
      /\ tops[t] = NoPid <=> L[t] = <<>>
  BY PlacesOf
<1>2. /\ Append(L[t], n) \in Seq(Pids)
      /\ Append(L[t], n) # <<>>
      /\ Len(Append(L[t], n)) = Len(L[t]) + 1
      /\ \A i \in 1 .. Len(L[t]) : Append(L[t], n)[i] = L[t][i]
      /\ Append(L[t], n)[Len(L[t]) + 1] = n
  BY <1>1, AppendProperties
<1>3. /\ M \in Shapes
      /\ M[t] = Append(L[t], n)
      /\ \A u \in Terminals \ {t} : M[u] = L[u]
  BY <1>2 DEF Shapes
<1>4. next[t] = n /\ \A u \in Terminals \ {t} : next[u] = tops[u]
  BY DEF Tops
<1>5. PICK m \in Nat : m = Len(L[t])
  BY <1>1
<1>6. /\ m + 1 = Len(M[t]) /\ M[t] # <<>> /\ M[t][m + 1] = n
      /\ \A i \in 1 .. m : M[t][i] = L[t][i]
  BY <1>2, <1>3, <1>5
<1>7. \A i \in 1 .. m + 1 : i # m + 1 => i \in 1 .. m
  OBVIOUS
<1> HIDE DEF M, next
<1>8. next[t] = M[t][Len(M[t])]
  BY <1>4, <1>6
<1>9. ASSUME NEW u \in Terminals, NEW i \in 1 .. Len(M[u])
      PROVE  \/ u = t /\ i = m + 1 /\ M[u][i] = n
             \/ /\ i \in 1 .. Len(L[u])
                /\ M[u][i] = L[u][i]
                /\ L[u][i] \in Alive(old)
                /\ L[u][i] # n
  <2>1. CASE u # t
    BY <1>3, <2>1 DEF Stacked
  <2>2. CASE u = t /\ i = m + 1
    BY <1>6, <2>2
  <2>3. CASE u = t /\ i # m + 1
    <3>1. i \in 1 .. Len(L[u]) /\ M[u][i] = L[u][i]
      BY <1>5, <1>6, <1>7, <2>3
    <3> QED BY <3>1 DEF Stacked
  <2> QED BY <2>1, <2>2, <2>3
<1>10. ASSUME NEW u \in Terminals, NEW i \in 1 .. Len(M[u])
       PROVE  new[M[u][i]].parent = IF i = 1 THEN NoPid ELSE M[u][i - 1]
  <2>1. CASE u = t /\ i = m + 1 /\ M[u][i] = n
    <3>1. CASE L[t] = <<>>
      <4>1. m = 0 /\ tops[t] = NoPid
        BY <1>1, <1>5, <3>1
      <4> QED BY <2>1, <4>1
    <3>2. CASE L[t] # <<>>
      <4>1. m \in 1 .. m /\ m # 0
        BY <1>1, <1>5, <3>2, EmptySeq
      <4>2. tops[t] = L[t][m]
        BY <1>5, <3>2 DEF Stacked
      <4>3. i - 1 = m /\ i # 1
        BY <2>1, <4>1
      <4> QED BY <1>6, <2>1, <4>1, <4>2, <4>3
    <3> QED BY <3>1, <3>2
  <2>2. CASE /\ i \in 1 .. Len(L[u])
             /\ M[u][i] = L[u][i]
             /\ L[u][i] \in Alive(old)
             /\ L[u][i] # n
    <3>1. new[M[u][i]].parent = IF i = 1 THEN NoPid ELSE L[u][i - 1]
      BY <2>2 DEF Stacked
    <3>2. i # 1 => M[u][i - 1] = L[u][i - 1]
      <4>1. CASE u = t
        <5>1. i # 1 => i - 1 \in 1 .. m
          BY <1>5, <2>2, <4>1
        <5> QED BY <1>6, <4>1, <5>1
      <4>2. CASE u # t
        BY <1>3, <4>2
      <4> QED BY <4>1, <4>2
    <3> QED BY <3>1, <3>2
  <2> QED BY <1>9, <2>1, <2>2
<1>11. ASSUME NEW u \in Terminals, NEW i \in 1 .. Len(M[u]),
              NEW v \in Terminals, NEW j \in 1 .. Len(M[v]),
              M[u][i] = M[v][j]
       PROVE  u = v /\ i = j
  <2>1. CASE M[u][i] = n
    <3>1. u = t /\ i = m + 1
      BY <1>9, <2>1
    <3>2. v = t /\ j = m + 1
      <4>1. M[v][j] = n
        BY <1>11, <2>1
      <4> QED BY <1>9, <4>1
    <3> QED BY <3>1, <3>2
  <2>2. CASE M[u][i] # n
    <3>1. i \in 1 .. Len(L[u]) /\ M[u][i] = L[u][i]
      BY <1>9, <2>2
    <3>2. j \in 1 .. Len(L[v]) /\ M[v][j] = L[v][j]
      <4>1. M[v][j] # n
        BY <1>11, <2>2
      <4> QED BY <1>9, <4>1
    <3>3. L[u][i] = L[v][j]
      BY <1>11, <3>1, <3>2
    <3> QED BY <3>1, <3>2, <3>3 DEF Stacked
  <2> QED BY <2>1, <2>2
<1>12. ASSUME NEW p \in Alive(new)
       PROVE  \E u \in Terminals : \E i \in 1 .. Len(M[u]) : M[u][i] = p
  <2>1. CASE p = n
    <3>1. m + 1 \in 1 .. Len(M[t])
      BY <1>6
    <3> QED BY <1>6, <2>1, <3>1
  <2>2. CASE p # n
    <3>1. PICK u \in Terminals : \E i \in 1 .. Len(L[u]) : L[u][i] = p
      BY <2>2 DEF Stacked
    <3>2. PICK i \in 1 .. Len(L[u]) : L[u][i] = p
      BY <3>1
    <3>3. CASE u = t
      <4>1. i \in 1 .. m /\ i \in 1 .. m + 1
        BY <1>5, <3>3
      <4>2. i \in 1 .. Len(M[t]) /\ M[t][i] = p
        BY <1>6, <3>2, <3>3, <4>1
      <4> QED BY <4>2
    <3>4. CASE u # t
      BY <1>3, <3>2, <3>4
    <3> QED BY <3>3, <3>4
  <2> QED BY <2>1, <2>2
<1>13. \A u \in Terminals :
         next[u] = IF M[u] = <<>> THEN NoPid ELSE M[u][Len(M[u])]
  BY <1>3, <1>4, <1>6, <1>8 DEF Stacked
<1>14. \A u \in Terminals : \A i \in 1 .. Len(M[u]) : M[u][i] \in Alive(new)
  BY <1>9
<1>15. Stacked(new, next, M)
  BY <1>10, <1>11, <1>12, <1>13, <1>14 DEF Stacked
<1> QED BY <1>3, <1>15 DEF M, next

\* The process that ends a stack is halted.
LEMMA PopStacks ==
  ASSUME NEW old \in Pcbs, NEW new \in Pcbs, NEW tops \in Tops,
         NEW L \in Shapes, NEW t \in Terminals, tops[t] # NoPid,
         Alive(new) = Alive(old) \ {tops[t]},
         \A p \in Alive(new) : new[p].parent = old[p].parent,
         Stacked(old, tops, L)
  PROVE  LET M == [L EXCEPT ![t] = SubSeq(@, 1, Len(@) - 1)]
         IN /\ M \in Shapes
            /\ Stacked(new, [tops EXCEPT ![t] = old[tops[t]].parent], M)
            /\ Len(L[t]) > 1 <=> old[tops[t]].parent # NoPid
<1> DEFINE M == [L EXCEPT ![t] = SubSeq(@, 1, Len(@) - 1)]
           next == [tops EXCEPT ![t] = old[tops[t]].parent]
<1>1. /\ L[t] \in Seq(Pids) /\ L[t] # <<>>
      /\ \A i \in 1 .. Len(L[t]) : L[t][i] \in Pids
  BY PlacesOf
<1>2. PICK m \in Nat : m + 1 = Len(L[t])
  <2>1. PICK k \in Nat \ {0} : k = Len(L[t])
    BY <1>1, EmptySeq
  <2>2. k - 1 \in Nat /\ (k - 1) + 1 = k
    BY <2>1
  <2> QED BY <2>1, <2>2
<1>3. /\ SubSeq(L[t], 1, m) \in Seq(Pids)
      /\ m = Len(SubSeq(L[t], 1, m))
      /\ \A i \in 1 .. m : SubSeq(L[t], 1, m)[i] = L[t][i]
  <2>1. \A i \in 1 .. m : i \in 1 .. m + 1 /\ 1 + i - 1 = i
    OBVIOUS
  <2>2. \A i \in 1 .. m : L[t][i] \in Pids
    BY <1>1, <1>2, <2>1
  <2>3. /\ SubSeq(L[t], 1, m) \in Seq(Pids)
        /\ Len(SubSeq(L[t], 1, m)) = IF 1 <= m THEN m - 1 + 1 ELSE 0
        /\ \A i \in 1 .. m - 1 + 1 : SubSeq(L[t], 1, m)[i] = L[t][1 + i - 1]
    BY <2>2, SubSeqProperties
  <2> QED BY <2>1, <2>3
<1>4. /\ M \in Shapes
      /\ M[t] = SubSeq(L[t], 1, m)
      /\ \A u \in Terminals \ {t} : M[u] = L[u]
  <2>1. Len(L[t]) - 1 = m
    BY <1>2
  <2> QED BY <1>3, <2>1 DEF Shapes
<1>5. /\ m = Len(M[t]) /\ M[t] \in Seq(Pids)
      /\ \A i \in 1 .. m : M[t][i] = L[t][i]
  BY <1>3, <1>4
<1>6. tops[t] = L[t][m + 1] /\ m + 1 \in 1 .. m + 1
  BY <1>1, <1>2 DEF Stacked
<1>7. old[tops[t]].parent = IF m = 0 THEN NoPid ELSE L[t][m]
  <2>1. old[L[t][m + 1]].parent
          = IF m + 1 = 1 THEN NoPid ELSE L[t][m + 1 - 1]
    BY <1>2, <1>6 DEF Stacked
  <2> QED BY <1>6, <2>1
<1>8. next[t] = old[tops[t]].parent
      /\ \A u \in Terminals \ {t} : next[u] = tops[u]
  BY DEF Tops
<1>9. m # 0 => m \in 1 .. m /\ m \in 1 .. m + 1
  OBVIOUS
<1>10. old[tops[t]].parent = NoPid <=> m = 0
  <2>1. m # 0 => L[t][m] \in Pids
    BY <1>1, <1>2, <1>9
  <2> QED BY <1>7, <2>1 DEF Pids, NoPid
<1> HIDE DEF M, next
<1>11. ASSUME NEW u \in Terminals, NEW i \in 1 .. Len(M[u])
       PROVE  /\ i \in 1 .. Len(L[u])
              /\ M[u][i] = L[u][i]
              /\ L[u][i] # tops[t]
              /\ i # 1 => M[u][i - 1] = L[u][i - 1]
  <2>1. CASE u # t
    <3>1. L[u][i] # L[t][m + 1]
      BY <1>2, <1>4, <1>6, <2>1 DEF Stacked
    <3> QED BY <1>4, <1>6, <2>1, <3>1
  <2>2. CASE u = t
    <3>1. /\ i \in 1 .. m /\ i \in 1 .. m + 1 /\ i # m + 1
          /\ i # 1 => i - 1 \in 1 .. m
      BY <1>5, <2>2
    <3>2. L[t][i] # L[t][m + 1]
      BY <1>2, <1>6, <3>1 DEF Stacked
    <3> QED BY <1>2, <1>5, <1>6, <2>2, <3>1, <3>2
  <2> QED BY <2>1, <2>2
<1>12. ASSUME NEW u \in Terminals
       PROVE  next[u] = IF M[u] = <<>> THEN NoPid ELSE M[u][Len(M[u])]
  <2>1. CASE u # t
    BY <1>4, <1>8, <2>1 DEF Stacked
  <2>2. CASE u = t /\ m = 0
    <3>1. M[t] = <<>>
      BY <1>4, <2>2, SubSeqEmpty
    <3> QED BY <1>8, <1>10, <2>2, <3>1
  <2>3. CASE u = t /\ m # 0
    <3>1. M[t] # <<>>
      BY <1>5, <2>3, EmptySeq
    <3>2. M[t][m] = L[t][m]
      BY <1>5, <1>9, <2>3
    <3> QED BY <1>5, <1>7, <1>8, <2>3, <3>1, <3>2
  <2> QED BY <2>1, <2>2, <2>3
<1>13. ASSUME NEW u \in Terminals, NEW i \in 1 .. Len(M[u])
       PROVE  /\ M[u][i] \in Alive(new)
              /\ new[M[u][i]].parent = IF i = 1 THEN NoPid ELSE M[u][i - 1]
  <2>1. L[u][i] \in Alive(old)
    BY <1>11 DEF Stacked
  <2>2. L[u][i] \in Alive(new)
    BY <1>11, <2>1
  <2>3. old[L[u][i]].parent = IF i = 1 THEN NoPid ELSE L[u][i - 1]
    BY <1>11 DEF Stacked
  <2>4. new[L[u][i]].parent = old[L[u][i]].parent
    BY <2>2
  <2> QED BY <1>11, <2>2, <2>3, <2>4
<1>14. ASSUME NEW u \in Terminals, NEW i \in 1 .. Len(M[u]),
              NEW v \in Terminals, NEW j \in 1 .. Len(M[v]),
              M[u][i] = M[v][j]
       PROVE  u = v /\ i = j
  <2>1. L[u][i] = L[v][j] /\ i \in 1 .. Len(L[u]) /\ j \in 1 .. Len(L[v])
    BY <1>11, <1>14
  <2> QED BY <2>1 DEF Stacked
<1>15. ASSUME NEW p \in Alive(new)
       PROVE  \E u \in Terminals : \E i \in 1 .. Len(M[u]) : M[u][i] = p
  <2>1. PICK u \in Terminals : \E i \in 1 .. Len(L[u]) : L[u][i] = p
    BY DEF Stacked
  <2>2. PICK i \in 1 .. Len(L[u]) : L[u][i] = p
    BY <2>1
  <2>3. CASE u # t
    BY <1>4, <2>2, <2>3
  <2>4. CASE u = t
    <3>1. i # m + 1
      BY <1>6, <2>2, <2>4
    <3>2. i \in 1 .. m
      BY <1>2, <2>4, <3>1
    <3> QED BY <1>5, <2>2, <2>4, <3>2
  <2> QED BY <2>3, <2>4
<1>16. Stacked(new, next, M)
  BY <1>12, <1>13, <1>14, <1>15 DEF Stacked
<1>17. Len(L[t]) > 1 <=> old[tops[t]].parent # NoPid
  BY <1>2, <1>10
<1> QED BY <1>4, <1>16, <1>17 DEF M, next

-----------------------------------------------------------------------------
(* The steps.                                                              *)

\* The stacks of the refinement mapping are those of the pcbs.
Shaped == Stacks \in Shapes /\ Stacked(pcb_ptr, pcb_num, Stacks)

\* Until the first shell has started no terminal has a process.
SessionInv ==
  /\ Inv
  /\ Booting => \A t \in Terminals : pcb_num[t] = NoPid
  /\ Shaped

\* What the sessions see of the pcbs.
LEMMA SessionsSee ==
  ASSUME SessionInv
  PROVE  /\ S!Terminals = Terminals /\ S!Programs = Pids
         /\ \A t \in Terminals : t \in S!Open <=> pcb_num[t] # NoPid
         /\ S!Open \subseteq Terminals
         /\ S!Free = Pids \ Alive(pcb_ptr)
         /\ \A t \in Terminals : Stacks[t] = <<>> <=> pcb_num[t] = NoPid
<1>1. S!Terminals = Terminals /\ S!Programs = Pids
  BY DEF S!Terminals, Terminals, S!Programs, Pids
<1>2. ASSUME NEW t \in Terminals
      PROVE  /\ pcb_num[t] = NoPid <=> Stacks[t] = <<>>
             /\ Stacks[t] \in Seq(Pids)
             /\ S!Range(Stacks[t]) = {Stacks[t][i] : i \in 1 .. Len(Stacks[t])}
  <2>1. /\ pcb_num[t] = NoPid <=> Stacks[t] = <<>>
        /\ Stacks[t] \in Seq(Pids)
    BY PlacesOf DEF SessionInv, Shaped
  <2> QED BY <2>1, LenProperties DEF S!Range
<1>3. S!Used = Alive(pcb_ptr)
  <2>1. ASSUME NEW p \in S!Used PROVE p \in Alive(pcb_ptr)
    <3>1. PICK t \in Terminals : p \in S!Range(Stacks[t])
      BY <1>1 DEF S!Used
    <3>2. PICK i \in 1 .. Len(Stacks[t]) : p = Stacks[t][i]
      BY <1>2, <3>1
    <3> QED BY <3>2 DEF SessionInv, Shaped, Stacked
  <2>2. ASSUME NEW p \in Alive(pcb_ptr) PROVE p \in S!Used
    <3>1. PICK t \in Terminals :
            \E i \in 1 .. Len(Stacks[t]) : Stacks[t][i] = p
      BY DEF SessionInv, Shaped, Stacked
    <3>2. p \in S!Range(Stacks[t])
      BY <1>2, <3>1
    <3> QED BY <1>1, <3>2 DEF S!Used
  <2> QED BY <2>1, <2>2
<1> QED BY <1>1, <1>2, <1>3 DEF S!Open, S!Free

\* The scheduler's search is a turn.
LEMMA SearchIsTurn ==
  ASSUME SessionInv, NEW c \in Terminals, NEW n, NextTerminal(c, n)
  PROVE  S!Turn(c, n) /\ n \in Terminals /\ pcb_num[n] # NoPid
<1>1. \A k \in Nat : (c + k) % NumTerminals \in Terminals
  BY KernelAssumption DEF Terminals
<1>2. PICK k \in 1 .. NumTerminals :
        /\ n = (c + k) % NumTerminals
        /\ pcb_num[n] # NoPid
        /\ \A j \in 1 .. k - 1 : pcb_num[(c + j) % NumTerminals] = NoPid
  BY DEF NextTerminal
<1>3. k \in Nat /\ \A j \in 1 .. k - 1 : j \in Nat
  BY KernelAssumption
<1>4. n \in Terminals
  BY <1>1, <1>2, <1>3
<1>5. \A j \in 1 .. k - 1 : (c + j) % NumTerminals \notin S!Open
  BY <1>1, <1>2, <1>3, SessionsSee
<1>6. n \in S!Open
  BY <1>2, <1>4, SessionsSee
<1> QED BY <1>2, <1>4, <1>5, <1>6 DEF S!Turn

\* execute() in terminal t, with the pcbs and the runnable processes as the
\* handler has left them so far.
LEMMA StartStacks ==
  ASSUME NEW pcbs \in Pcbs, NEW tops \in Tops, NEW t \in Terminals,
         NEW up \in Pids \cup {NoPid}, NEW shown \in Terminals,
         NEW L \in Shapes, Stacked(pcbs, tops, L), tops[t] = up,
         pcb_num \in Tops,
         \A u \in Terminals \ {t} : tops[u] = pcb_num[u],
         StartProgram(t, up, pcbs, shown), StacksAreLines'
  PROVE  /\ Shaped'
         /\ pcb_num'[t] # NoPid
         /\ \E n \in Pids : /\ n \notin Alive(pcbs)
                            /\ Stacks' = [L EXCEPT ![t] = Append(@, n)]
<1>1. PICK n \in Pids : /\ FindNewPcb(pcbs, n)
                        /\ pcb_ptr' = NewPcb(pcbs, up, shown, n)
                        /\ pcb_num' = [pcb_num EXCEPT ![t] = n]
  BY DEF StartProgram
<1>2. /\ n \notin Alive(pcbs)
      /\ up # NoPid => up \in Alive(pcbs)
      /\ n # up
  <2>1. L[t] # <<>> => Len(L[t]) \in 1 .. Len(L[t])
    BY PlacesOf
  <2>2. up # NoPid => up \in Alive(pcbs)
    BY <2>1 DEF Stacked
  <2> QED BY <1>1, <2>2 DEF FindNewPcb, Alive, Pids, NoPid
<1>3. [tops EXCEPT ![t] = n] = pcb_num'
  BY <1>1 DEF Tops
<1>4. /\ pcb_ptr' \in Pcbs
      /\ pcb_ptr'[n].parent = up
      /\ Alive(pcb_ptr') = Alive(pcbs) \cup {n}
      /\ \A p \in Alive(pcbs) : pcb_ptr'[p].parent = pcbs[p].parent
  BY <1>1, <1>2, NewPcbAlive
<1> DEFINE M == [L EXCEPT ![t] = Append(@, n)]
<1>5. M \in Shapes /\ Stacked(pcb_ptr', pcb_num', M)
  BY <1>2, <1>3, <1>4, PushStacks
<1>6. Stacks' = M
  BY <1>5 DEF StacksAreLines
<1>7. pcb_num'[t] # NoPid
  BY <1>1 DEF Tops, Pids, NoPid
<1>8. Shaped'
  BY <1>5, <1>6 DEF Shaped
<1> QED BY <1>2, <1>6, <1>7, <1>8

\* A step that leaves the parents and the runnable processes alone.
LEMMA KeepStacks ==
  ASSUME SessionInv, pcb_ptr' \in Pcbs, pcb_num' = pcb_num, StacksAreLines',
         \A p \in Pids : /\ pcb_ptr[p] = NULL <=> pcb_ptr'[p] = NULL
                         /\ pcb_ptr[p] # NULL =>
                              pcb_ptr'[p].parent = pcb_ptr[p].parent
  PROVE  Shaped' /\ Stacks' = Stacks
<1>1. PICK L \in Shapes : L = Stacks
  BY DEF SessionInv, Shaped
<1>2. /\ Alive(pcb_ptr') = Alive(pcb_ptr)
      /\ \A p \in Alive(pcb_ptr) : pcb_ptr'[p].parent = pcb_ptr[p].parent
  BY DEF Alive
<1>3. Stacked(pcb_ptr, pcb_num, L) /\ pcb_ptr \in Pcbs
  BY <1>1 DEF SessionInv, Shaped, Inv, TypeOK, Pcbs
<1>4. Stacked(pcb_ptr', pcb_num, L)
  BY <1>2, <1>3, SameStacks
<1>5. Stacks' = L
  BY <1>4 DEF StacksAreLines
<1> QED BY <1>1, <1>4, <1>5 DEF Shaped

\* What halt() gives back.
LEMMA FreedAt ==
  ASSUME TypeOK, Running \in Live
  PROVE  /\ Freed(Running) \in Pcbs
         /\ Alive(Freed(Running)) = Alive(pcb_ptr) \ {Running}
         /\ \A p \in Alive(Freed(Running)) : Freed(Running)[p] = pcb_ptr[p]
BY DEF TypeOK, Freed, Pcbs, Alive, Live

\* The state that every handler starts in.
LEMMA SessionFacts ==
  ASSUME SessionInv
  PROVE  /\ TypeOK /\ pcb_ptr \in Pcbs /\ pcb_num \in Tops
         /\ current_terminal \in Terminals /\ terminal_number \in Terminals
         /\ pcb_num[current_terminal] = Running
         /\ Running \in Pids \cup {NoPid}
         /\ ~Booting => /\ Running \in Live /\ Running \in Pids
                        /\ pcb_ptr[Running] \in Pcb
                        /\ Running # NoPid
         /\ Stacks \in Shapes /\ Stacked(pcb_ptr, pcb_num, Stacks)
BY DEF SessionInv, Shaped, Inv, TypeOK, Pcbs, Tops, Running, Booting,
       ContextConsistent, Live

\* entry() starts the first session.
LEMMA BootStep ==
  ASSUME SessionInv, Boot, StacksAreLines'
  PROVE  S!Start /\ Shaped' /\ ~Booting'
<1>1. PICK L \in Shapes : L = Stacks
  BY SessionFacts
<1>2. /\ Shaped' /\ pcb_num'[current_terminal] # NoPid
      /\ \E n \in Pids :
           /\ n \notin Alive(pcb_ptr)
           /\ Stacks' = [L EXCEPT ![current_terminal] = Append(@, n)]
  BY <1>1, SessionFacts, StartStacks DEF Boot, Booting
<1>3. PICK n \in Pids : Stacks' = [L EXCEPT ![current_terminal] = Append(@, n)]
  BY <1>2
<1>4. /\ \A t \in Terminals : pcb_num[t] = NoPid
      /\ UNCHANGED <<current_terminal, terminal_number>>
  BY DEF SessionInv, Boot
<1>5. S!Open = {} /\ L[current_terminal] = <<>>
  BY <1>1, <1>4, SessionsSee, SessionFacts
<1>6. Append(<<>>, n) = <<n>>
  OBVIOUS
<1>7. n \in S!Programs
        /\ Stacks' = [Stacks EXCEPT ![current_terminal] = <<n>>]
  BY <1>1, <1>3, <1>5, <1>6, SessionsSee
<1> QED BY <1>2, <1>4, <1>5, <1>7 DEF S!Start, Booting, Running

\* execute() puts a program on the stack of the terminal that runs.
LEMMA ExecuteStep ==
  ASSUME SessionInv, Execute, StacksAreLines'
  PROVE  S!Launch /\ Shaped' /\ ~Booting'
<1>1. PICK L \in Shapes : L = Stacks
  BY SessionFacts
<1>2. /\ Shaped' /\ pcb_num'[current_terminal] # NoPid
      /\ \E n \in Pids :
           /\ n \notin Alive(pcb_ptr)
           /\ Stacks' = [L EXCEPT ![current_terminal] = Append(@, n)]
  BY <1>1, SessionFacts, StartStacks DEF Execute
<1>3. /\ ~Booting
      /\ UNCHANGED <<current_terminal, terminal_number>>
  BY DEF Execute
<1>4. current_terminal \in S!Open
  BY <1>3, SessionsSee, SessionFacts
<1>5. \E n \in S!Free :
        Stacks' = [Stacks EXCEPT ![current_terminal] = Append(@, n)]
  BY <1>1, <1>2, SessionsSee
<1> QED BY <1>2, <1>3, <1>4, <1>5 DEF S!Launch, Booting, Running

\* The stack of the running process without it.
LEMMA HaltStacks ==
  ASSUME SessionInv, ~Booting, NEW L \in Shapes, L = Stacks
  PROVE  LET M == [L EXCEPT ![current_terminal] = SubSeq(@, 1, Len(@) - 1)]
         IN /\ M \in Shapes
            /\ Stacked(Freed(Running),
                       [pcb_num EXCEPT ![current_terminal]
                          = pcb_ptr[Running].parent], M)
            /\ Len(L[current_terminal]) > 1
                 <=> pcb_ptr[Running].parent # NoPid
<1> DEFINE freed == Freed(Running)
<1>1. /\ freed \in Pcbs /\ Alive(freed) = Alive(pcb_ptr) \ {Running}
      /\ \A p \in Alive(freed) : freed[p].parent = pcb_ptr[p].parent
  BY FreedAt, SessionFacts
<1> HIDE DEF freed
<1>2. /\ pcb_ptr \in Pcbs /\ pcb_num \in Tops
      /\ current_terminal \in Terminals
      /\ pcb_num[current_terminal] = Running
      /\ pcb_num[current_terminal] # NoPid
      /\ Stacked(pcb_ptr, pcb_num, L)
  BY SessionFacts
<1>3. LET M == [L EXCEPT ![current_terminal] = SubSeq(@, 1, Len(@) - 1)]
      IN /\ M \in Shapes
         /\ Stacked(freed,
                    [pcb_num EXCEPT ![current_terminal]
                       = pcb_ptr[pcb_num[current_terminal]].parent], M)
         /\ Len(L[current_terminal]) > 1
              <=> pcb_ptr[pcb_num[current_terminal]].parent # NoPid
  BY ONLY <1>1, <1>2, PopStacks
<1> QED BY <1>2, <1>3, Zenon DEF freed

\* halt() takes the program off it, and the one below runs again.
LEMMA HaltToParentStep ==
  ASSUME SessionInv, HaltToParent, StacksAreLines'
  PROVE  S!Finish /\ Shaped' /\ ~Booting'
<1> DEFINE up    == pcb_ptr[Running].parent
           freed == Freed(Running)
           tops  == [pcb_num EXCEPT ![current_terminal] = up]
<1>1. PICK L \in Shapes : L = Stacks
  BY SessionFacts
<1>2. /\ ~Booting /\ up # NoPid
      /\ pcb_ptr' = [freed EXCEPT ![up].esp = "popped"]
      /\ pcb_num' = tops
      /\ UNCHANGED <<current_terminal, terminal_number>>
  BY DEF HaltToParent
<1>3. PICK M \in Shapes :
        /\ M = [L EXCEPT ![current_terminal] = SubSeq(@, 1, Len(@) - 1)]
        /\ Stacked(freed, tops, M)
  BY <1>1, <1>2, HaltStacks
<1>4. Len(L[current_terminal]) > 1
  BY <1>1, <1>2, HaltStacks
<1>5. /\ up \in Pids /\ freed \in Pcbs
      /\ tops[current_terminal] = up
  BY <1>2, SessionFacts, FreedAt DEF Pcb, Tops
<1>6. up \in Alive(freed)
  <2>1. current_terminal \in Terminals
    BY SessionFacts
  <2> HIDE DEF up, freed, tops
  <2>2. M[current_terminal] # <<>> =>
          Len(M[current_terminal]) \in 1 .. Len(M[current_terminal])
    BY <1>3, <2>1, PlacesOf
  <2> QED BY <1>2, <1>3, <1>5, <2>1, <2>2 DEF Stacked
<1>7. freed[up] \in Pcb
  BY <1>5, <1>6 DEF Alive, Pcbs
<1> HIDE DEF freed
<1>8. /\ pcb_ptr' \in Pcbs
      /\ pcb_ptr'[up] \in Pcb
      /\ pcb_ptr'[up].parent = freed[up].parent
      /\ \A p \in Pids \ {up} : pcb_ptr'[p] = freed[p]
  BY <1>2, <1>5, <1>7 DEF Pcbs, Pcb, StackPointer
<1>9. /\ Alive(pcb_ptr') = Alive(freed)
      /\ \A p \in Alive(freed) : pcb_ptr'[p].parent = freed[p].parent
  BY <1>6, <1>8, KernelAssumption DEF Alive
<1>10. Stacked(pcb_ptr', tops, M)
  BY <1>3, <1>5, <1>8, <1>9, SameStacks
<1>11. Stacks' = M
  BY <1>2, <1>10 DEF StacksAreLines
<1>12. current_terminal \in S!Open
  BY <1>2, SessionsSee, SessionFacts
<1>13. Stacks' = [Stacks EXCEPT ![current_terminal] = S!Front(@)]
  BY <1>1, <1>3, <1>11 DEF S!Front
<1>14. Shaped'
  BY <1>2, <1>10, <1>11 DEF Shaped
<1>15. ~Booting'
  BY <1>2, <1>5 DEF Booting, Running
<1> QED BY <1>1, <1>2, <1>4, <1>12, <1>13, <1>14, <1>15 DEF S!Finish

\* halt() of the last program starts the session again.
LEMMA HaltRootStep ==
  ASSUME SessionInv, HaltRoot, StacksAreLines'
  PROVE  S!Restart /\ Shaped' /\ ~Booting'
<1>1. PICK L \in Shapes : L = Stacks
  BY SessionFacts
<1>2. PICK freed \in Pcbs : freed = Freed(Running)
  BY FreedAt, SessionFacts DEF HaltRoot
<1>3. PICK tops \in Tops : tops = [pcb_num EXCEPT ![current_terminal] = NoPid]
  BY SessionFacts DEF Tops
<1>4. /\ ~Booting /\ pcb_ptr[Running].parent = NoPid
      /\ StartProgram(current_terminal, NoPid, freed, terminal_number)
      /\ UNCHANGED <<current_terminal, terminal_number>>
  BY <1>2 DEF HaltRoot
<1>5. PICK M \in Shapes :
        /\ M = [L EXCEPT ![current_terminal] = SubSeq(@, 1, Len(@) - 1)]
        /\ Stacked(freed, tops, M)
  BY <1>1, <1>2, <1>3, <1>4, HaltStacks
<1>6. M \in Shapes /\ Stacked(freed, tops, M)
  BY <1>5
<1>7. /\ tops[current_terminal] = NoPid
      /\ \A u \in Terminals \ {current_terminal} : tops[u] = pcb_num[u]
      /\ NoPid \in Pids \cup {NoPid}
  BY <1>3, SessionFacts DEF Tops
<1>8. M[current_terminal] = <<>>
  <2>1. current_terminal \in Terminals
    BY SessionFacts
  <2>2. tops[current_terminal] = NoPid <=> M[current_terminal] = <<>>
    BY <1>6, <2>1, PlacesOf, Zenon
  <2> QED BY <1>7, <2>2
<1>9. Len(L[current_terminal]) = 1
  <2>1. /\ ~ Len(L[current_terminal]) > 1
        /\ L[current_terminal] # <<>>
        /\ L[current_terminal] \in Seq(Pids)
    BY <1>1, <1>4, HaltStacks, SessionsSee, SessionFacts DEF Shapes
  <2>2. PICK k \in Nat \ {0} : k = Len(L[current_terminal])
    BY <2>1, EmptySeq
  <2>3. ~ k > 1
    BY <2>1, <2>2
  <2>4. k = 1
    BY <2>3
  <2> QED BY <2>2, <2>4
<1>10. /\ Shaped' /\ pcb_num'[current_terminal] # NoPid
      /\ \E n \in Pids :
           /\ n \notin Alive(freed)
           /\ Stacks' = [M EXCEPT ![current_terminal] = Append(@, n)]
  <2>1. /\ pcb_num \in Tops
        /\ current_terminal \in Terminals /\ terminal_number \in Terminals
    BY SessionFacts
  <2>2. StartProgram(current_terminal, NoPid, freed, terminal_number)
    BY <1>4
  <2>3. freed \in Pcbs /\ tops \in Tops
    BY <1>2, <1>3
  <2> QED BY ONLY <1>6, <1>7, <2>1, <2>2, <2>3, StacksAreLines', StartStacks
<1>11. PICK n \in Pids :
        /\ n \notin Alive(freed)
        /\ Stacks' = [M EXCEPT ![current_terminal] = Append(@, n)]
  BY <1>10
<1>12. Stacks' = [L EXCEPT ![current_terminal] = <<n>>]
  <2>1. Append(<<>>, n) = <<n>>
    OBVIOUS
  <2>2. Stacks' = [M EXCEPT ![current_terminal] = <<n>>]
    BY <1>8, <1>11, <2>1
  <2> QED BY <1>5, <2>2, SessionFacts DEF Shapes
<1>13. n \in S!Free \cup S!Range(L[current_terminal])
  <2>1. n \notin Alive(pcb_ptr) \/ n = Running
    BY <1>4, <1>11, <1>2, FreedAt, SessionFacts
  <2>2. L[current_terminal] \in Seq(Pids)
    BY SessionFacts DEF Shapes
  <2>3. Running = L[current_terminal][1]
    BY <1>1, <1>4, <1>9, SessionFacts DEF Stacked
  <2>4. Running \in S!Range(L[current_terminal])
    BY <1>9, <2>2, <2>3, LenProperties DEF S!Range
  <2> QED BY <2>1, <2>4, SessionsSee
<1>14. current_terminal \in S!Open
  BY <1>4, SessionsSee, SessionFacts
<1> QED BY <1>1, <1>4, <1>9, <1>10, <1>12, <1>13, <1>14
        DEF S!Restart, Booting, Running

\* The scheduler finds its process, and changes only stack pointers.
LEMMA DispatchStep ==
  ASSUME SessionInv, ~Booting, NEW c \in Terminals, NEW n \in Terminals,
         NextTerminal(c, n), Dispatch(n, SaveContext), pcb_num' = pcb_num,
         StacksAreLines'
  PROVE  /\ Shaped' /\ Stacks' = Stacks
         /\ current_terminal' = n /\ ~Booting'
<1>1. PICK saved \in Pcbs : saved = SaveContext
  BY SaveContextAt, SessionFacts DEF Pcbs
<1>2. /\ saved[Running] \in Pcb
      /\ saved[Running].parent = pcb_ptr[Running].parent
      /\ \A p \in Pids \ {Running} : saved[p] = pcb_ptr[p]
  BY <1>1, SaveContextAt, SessionFacts
<1>3. PICK resumed \in Pids :
        /\ resumed \in Live
        /\ pcb_ptr' = [saved EXCEPT ![resumed].sched_esp = "popped"]
  <2>1. pcb_num[n] \in Live /\ pcb_num[n] \in Pids
    BY SessionFacts DEF NextTerminal, SessionInv, Inv, ProcessLines, Live
  <2> QED BY <1>1, <2>1, SessionFacts DEF Dispatch
<1>4. saved[resumed] \in Pcb
  BY <1>2, <1>3, SessionFacts DEF Live, Pcbs
<1>5. /\ pcb_ptr' \in Pcbs
      /\ pcb_ptr'[resumed] \in Pcb
      /\ pcb_ptr'[resumed].parent = saved[resumed].parent
      /\ \A p \in Pids \ {resumed} : pcb_ptr'[p] = saved[p]
  BY <1>1, <1>3, <1>4 DEF Pcbs, Pcb, StackPointer
<1>6. ASSUME NEW p \in Pids
      PROVE  /\ pcb_ptr[p] = NULL <=> pcb_ptr'[p] = NULL
             /\ pcb_ptr[p] # NULL => pcb_ptr'[p].parent = pcb_ptr[p].parent
  <2>1. /\ pcb_ptr[p] = NULL <=> saved[p] = NULL
        /\ pcb_ptr[p] # NULL => saved[p].parent = pcb_ptr[p].parent
    BY <1>2, SessionFacts, KernelAssumption DEF Live
  <2>2. /\ saved[p] = NULL <=> pcb_ptr'[p] = NULL
        /\ saved[p] # NULL => pcb_ptr'[p].parent = saved[p].parent
    BY <1>4, <1>5, KernelAssumption
  <2> QED BY <2>1, <2>2
<1>7. Shaped' /\ Stacks' = Stacks
  BY <1>5, <1>6, KeepStacks
<1>8. current_terminal' = n /\ pcb_num[n] # NoPid
  BY DEF Dispatch, NextTerminal
<1> QED BY <1>7, <1>8 DEF Booting, Running

\* A tick gives the next open terminal its turn.
LEMMA PitTickStep ==
  ASSUME SessionInv, PitTick, StacksAreLines'
  PROVE  S!Rotate /\ Shaped' /\ ~Booting'
<1>1. PICK n \in Terminals : /\ NextTerminal(current_terminal, n)
                             /\ Dispatch(n, SaveContext)
  BY DEF PitTick
<1>2. ~Booting /\ UNCHANGED <<pcb_num, terminal_number>>
  BY DEF PitTick
<1>3. /\ Shaped' /\ Stacks' = Stacks
      /\ current_terminal' = n /\ ~Booting'
  BY <1>1, <1>2, DispatchStep, SessionFacts
<1>4. S!Turn(current_terminal, n) /\ n \in S!Terminals
  BY <1>1, SearchIsTurn, SessionFacts, SessionsSee
<1> QED BY <1>2, <1>3, <1>4 DEF S!Rotate

\* An Alt-Fn key shows another terminal.
LEMMA SwitchTerminalStep ==
  ASSUME SessionInv, NEW t \in Terminals, SwitchTerminal(t), StacksAreLines'
  PROVE  /\ S!Look(t) /\ Shaped'
         /\ pcb_num' = pcb_num /\ current_terminal' = current_terminal
<1>1. /\ UNCHANGED <<pcb_ptr, pcb_num, current_terminal>>
      /\ terminal_number' = t
  BY DEF SwitchTerminal, Show
<1>2. Shaped' /\ Stacks' = Stacks
  BY <1>1, KeepStacks, SessionFacts
<1> QED BY <1>1, <1>2 DEF S!Look

\* The first one opens it.
LEMMA OpenTerminalStep ==
  ASSUME SessionInv, NEW t \in Terminals, OpenTerminal(t), StacksAreLines'
  PROVE  S!Visit(t) /\ Shaped' /\ ~Booting'
<1>1. /\ ~Booting /\ ~run_shell[t]
      /\ current_terminal' = t /\ terminal_number' = t
      /\ StartProgram(t, pcb_num[t], SaveContext, t)
  BY DEF OpenTerminal, Show
<1>2. pcb_num[t] = NoPid
  BY <1>1 DEF SessionInv, Inv, Visited
<1>3. PICK saved \in Pcbs : saved = SaveContext
  BY <1>1, SaveContextAt, SessionFacts DEF Pcbs
<1>4. /\ Alive(saved) = Alive(pcb_ptr)
      /\ \A p \in Alive(pcb_ptr) : saved[p].parent = pcb_ptr[p].parent
  <2>1. /\ saved[Running] \in Pcb
        /\ saved[Running].parent = pcb_ptr[Running].parent
        /\ \A p \in Pids \ {Running} : saved[p] = pcb_ptr[p]
    BY <1>1, <1>3, SaveContextAt, SessionFacts
  <2> QED BY <1>1, <2>1, SessionFacts, KernelAssumption DEF Alive, Live
<1>5. PICK L \in Shapes : L = Stacks
  BY SessionFacts
<1>6. Stacked(saved, pcb_num, L)
  BY <1>4, <1>5, SameStacks, SessionFacts
<1>7. /\ Shaped' /\ pcb_num'[t] # NoPid
      /\ \E n \in Pids : /\ n \notin Alive(saved)
                         /\ Stacks' = [L EXCEPT ![t] = Append(@, n)]
  <2>1. pcb_num \in Tops /\ NoPid \in Pids \cup {NoPid}
    BY SessionFacts
  <2>2. StartProgram(t, NoPid, saved, t)
    BY <1>1, <1>2, <1>3
  <2> QED BY ONLY <1>2, <1>6, <2>1, <2>2, StacksAreLines', StartStacks
<1>8. PICK n \in Pids : /\ n \notin Alive(pcb_ptr)
                        /\ Stacks' = [L EXCEPT ![t] = Append(@, n)]
  BY <1>4, <1>7
<1>9. Stacks' = [Stacks EXCEPT ![t] = <<n>>] /\ n \in S!Free
  <2>1. L[t] = <<>> /\ Append(<<>>, n) = <<n>>
    BY <1>2, <1>5, SessionsSee
  <2> QED BY <1>5, <1>8, <2>1, SessionsSee
<1>10. S!Open # {} /\ t \notin S!Open
  BY <1>1, <1>2, SessionsSee, SessionFacts
<1> QED BY <1>1, <1>7, <1>9, <1>10 DEF S!Visit, Booting, Running

\* Without a free pcb the terminal stays closed and loses its turn.
LEMMA OpenTerminalFailsStep ==
  ASSUME SessionInv, NEW t \in Terminals, OpenTerminalFails(t),
         StacksAreLines'
  PROVE  S!VisitInVain(t) /\ Shaped' /\ ~Booting'
<1>1. PICK n \in Terminals : NextTerminal(t, n) /\ Dispatch(n, SaveContext)
  BY DEF OpenTerminalFails
<1>2. /\ ~Booting /\ ~run_shell[t] /\ Live = Pids
      /\ pcb_num' = pcb_num /\ terminal_number' = t
  BY DEF OpenTerminalFails, Show
<1>3. /\ Shaped' /\ Stacks' = Stacks
      /\ current_terminal' = n /\ ~Booting'
  BY <1>1, <1>2, DispatchStep
<1>4. S!Turn(t, n)
  BY <1>1, SearchIsTurn
<1>5. S!Open # {} /\ t \notin S!Open
  BY <1>2, SessionsSee, SessionFacts DEF SessionInv, Inv, Visited
<1>6. S!Free = {}
  BY <1>2, SessionsSee DEF Live, Alive
<1> QED BY <1>2, <1>3, <1>4, <1>5, <1>6 DEF S!VisitInVain

-----------------------------------------------------------------------------
\* No session is open before the first shell.
LEMMA InitSessions == Init /\ StacksAreLines => SessionInv /\ S!Init
<1> SUFFICES ASSUME Init, StacksAreLines PROVE SessionInv /\ S!Init
  OBVIOUS
<1>1. PICK L \in Shapes : L = [t \in Terminals |-> <<>>]
  BY EmptySeq DEF Shapes
<1>2. Alive(pcb_ptr) = {} /\ \A t \in Terminals : pcb_num[t] = NoPid
  BY DEF Init, Alive
<1>3. Stacked(pcb_ptr, pcb_num, L)
  <2>1. \A t \in Terminals : L[t] = <<>> /\ 1 .. Len(L[t]) = {}
    BY <1>1
  <2> QED BY <1>2, <2>1 DEF Stacked
<1>4. Stacks = L
  BY <1>3 DEF StacksAreLines
<1>5. SessionInv
  BY <1>2, <1>3, <1>4, InitInv DEF SessionInv, Shaped
<1> QED BY <1>1, <1>4, <1>5, SessionsSee DEF Init, S!Init

\* The refinement, one step at a time.
LEMMA SessionStep ==
  SessionInv /\ [Next]_vars /\ StacksAreLines'
    => SessionInv' /\ [S!Next]_(S!vars)
<1> SUFFICES ASSUME SessionInv, [Next]_vars, StacksAreLines'
             PROVE  SessionInv' /\ [S!Next]_(S!vars)
  OBVIOUS
<1>1. Inv'
  BY StepInv DEF SessionInv
<1>2. S!Terminals = Terminals
  BY SessionsSee
<1>3. CASE UNCHANGED vars
  <2>1. /\ UNCHANGED <<pcb_ptr, pcb_num, current_terminal, terminal_number>>
        /\ Shaped' /\ Stacks' = Stacks
    BY <1>3, KeepStacks, SessionFacts DEF vars
  <2> QED BY <1>1, <2>1 DEF SessionInv, Booting, Running, S!vars
<1>4. CASE \E t \in Terminals : SwitchTerminal(t)
  <2>1. PICK t \in Terminals : SwitchTerminal(t)
    BY <1>4
  <2>2. /\ S!Look(t) /\ Shaped'
        /\ pcb_num' = pcb_num /\ current_terminal' = current_terminal
    BY <2>1, SwitchTerminalStep
  <2> QED BY <1>1, <1>2, <2>2 DEF SessionInv, Booting, Running, S!Next
<1>5. CASE Next /\ ~ \E t \in Terminals : SwitchTerminal(t)
  <2>1. S!Next /\ Shaped' /\ ~Booting'
    BY <1>2, <1>5, BootStep, ExecuteStep, HaltToParentStep, HaltRootStep,
       PitTickStep, OpenTerminalStep, OpenTerminalFailsStep DEF Next, S!Next
  <2> QED BY <1>1, <2>1 DEF SessionInv
<1> QED BY <1>3, <1>4, <1>5

\* Every execute(), halt(), tick and Alt-Fn key is the step of the sessions
\* that its caller expects, or changes nothing of them.
THEOREM KernelStepsAreSessions == Spec => S!Init /\ [][S!Next]_(S!vars)
BY InitSessions, SessionStep, StacksOfState, PTL DEF Spec

\* The same of the kernel with its page tables and translations.
THEOREM PagingStepsAreSessions ==
  PagingSpec => S!Init /\ [][S!Next]_(S!vars)
BY PagingIsKernel, InitSessions, SessionStep, StacksOfState, PTL
=============================================================================
