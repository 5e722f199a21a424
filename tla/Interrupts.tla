----------------------------- MODULE Interrupts -----------------------------
(***************************************************************************)
(* The 8259 interrupt controllers, interrupt_handler(), the process        *)
(* switches in the middle of it, and entry(), which turns the devices on   *)
(* one by one with interrupts enabled.                                     *)
(*                                                                         *)
(* Each open terminal has one runnable process with a kernel stack.  An    *)
(* interrupt pushes a frame on the stack of the process that runs, and     *)
(* the handler goes on with interrupts enabled: others may nest in it, and *)
(* the handler of the timer leaves the frame where it is and gives the CPU *)
(* to another process.  The masks, the in-service bits and the requests    *)
(* belong to the controller and stay as they are during the switch.  The   *)
(* stack that entry() runs on is shown as that of the first terminal.      *)
(*                                                                         *)
(* A line is named by its number, a smaller number having priority.  The   *)
(* line 2 of the slave is not shown: it is never masked, and it is in      *)
(* service when RTC is.                                                    *)
(***************************************************************************)
EXTENDS Naturals, Sequences, FiniteSets, SequencesExt

CONSTANTS
  NumTerminals,  \* TOTAL_TERMINALS
  Burst          \* how many scan codes the keyboard sends for one key

Terminals == 0 .. NumTerminals - 1
PIT == 0
KB  == 1
RTC == 8
Irqs == {PIT, KB, RTC}

ASSUME InterruptsAssumption ==
  /\ NumTerminals \in Nat \ {0}
  /\ Burst \in Nat \ {0}

\* What entry() does next; "done" when the first shell has been started.
BootSteps == {"pit", "keyboard", "slave", "terminals", "clock", "shell",
              "done"}

\* Where a handler is: before disable_irq(), before send_eoi(), before the
\* handler of the device, and before the last enable_irq() with interrupts
\* enabled or disabled.
Stages == {"entered", "masked", "acked", "handled", "returned"}

VARIABLES
  boot,     \* where entry() is
  irq_handler,  \* the lines with an entry in irq_handler[]
  mask,     \* the lines that are masked in master_mask and slave_mask
  irr,      \* requests the controller has latched
  isr,      \* requests in service: no EOI has been sent
  due,      \* devices whose data the handler has not fetched
  frames,   \* the interrupt frames on each kernel stack, the newest last
  open,     \* terminals that have a process
  shown,    \* terminals with run_shell set: they are opened only once
  running,  \* current_terminal
  slack     \* history: how many requests of each device the CPU can still
            \*   get before all work is done

pic    == <<mask, irr, isr>>
system == <<open, shown, running>>
set_up == <<boot, irq_handler>>
vars   == <<pic, due, frames, system, set_up, slack>>

TypeOK ==
  /\ mask \subseteq Irqs /\ irr \subseteq Irqs /\ isr \subseteq Irqs
  /\ due \subseteq {KB, RTC}
  /\ frames \in [Terminals -> Seq([irq : Irqs, stage : Stages])]
  /\ shown \subseteq Terminals /\ open \subseteq shown
  /\ boot \in BootSteps /\ (boot = "done" => running \in open)
  /\ irq_handler \subseteq Irqs
  /\ slack \in [Irqs -> 0 .. Burst]

\* A device gets data, or time, for one request; the keyboard for a key.
Slack == [i \in Irqs |-> IF i = KB THEN Burst ELSE 1]

\* i8259_init() has masked every line and enables interrupts.
Init ==
  /\ mask = Irqs /\ irr = {} /\ isr = {} /\ due = {}
  /\ frames = [t \in Terminals |-> <<>>]
  /\ open = {} /\ shown = {} /\ running = 0
  /\ boot = "pit" /\ irq_handler = {}
  /\ slack = Slack

Stack == frames[running]
Top   == Last(Stack)
Deliverable(i) == i \in irr \ mask /\ \A s \in isr : i < s

\* The CPU is in no handler and has nothing to handle: every device whose last
\* request it has taken may make others.
Calm == Stack = <<>> /\ ~\E i \in Irqs : Deliverable(i)
Rest(left) ==
  slack' = [i \in Irqs |-> IF Calm' /\ i \notin irr' THEN Slack[i] ELSE left[i]]
-----------------------------------------------------------------------------
(* The devices.                                                            *)

\* The timer ticks all the time; the keyboard and the clock wait until their
\* data is fetched, and the clock until it is turned on.  All are slow: between
\* two keys, or two requests of another device, the CPU does what there is to
\* do.
Raise(i) ==
  /\ i \notin due /\ slack[i] > 0
  /\ i = RTC => boot \in {"clock", "shell", "done"}
  /\ irr' = irr \cup {i}
  /\ due' = due \cup ({i} \ {PIT})
  /\ UNCHANGED <<mask, isr, frames, system, set_up>>
  /\ Rest([slack EXCEPT ![i] = @ - 1])

-----------------------------------------------------------------------------
(* common_interrupt_num and interrupt_handler().                           *)

SetTop(stage) == [frames EXCEPT ![running] = Front(@) \o
                                 <<[irq |-> Top.irq, stage |-> stage]>>]
At(stage) == Stack # <<>> /\ Top.stage = stage

\* The CPU takes the request, and the gate and the sti that follows it leave
\* interrupts enabled.  enable_irq() left them disabled in entry(), too.
Deliver(i) ==
  /\ ~At("returned") /\ boot # "terminals"
  /\ Deliverable(i)
  /\ irr' = irr \ {i}
  /\ isr' = isr \cup {i}
  /\ frames' = [frames EXCEPT ![running] =
                  Append(@, [irq |-> i, stage |-> "entered"])]
  /\ UNCHANGED <<mask, due, system, set_up>>
  /\ Rest(slack)

\* Mutant: the line is not masked.
Mutant_DisableIrq ==
  /\ At("entered")
  /\ frames' = SetTop("masked")
  /\ UNCHANGED <<pic, due, system, set_up>>
  /\ Rest(slack)
DisableIrq ==
  /\ At("entered")
  /\ mask' = mask \cup {Top.irq}
  /\ frames' = SetTop("masked")
  /\ UNCHANGED <<irr, isr, due, system, set_up>>
  /\ Rest(slack)

\* Mutant: no EOI is sent.
Mutant_SendEoi ==
  /\ At("masked")
  /\ frames' = SetTop("acked")
  /\ UNCHANGED <<pic, due, system, set_up>>
  /\ Rest(slack)
SendEoi ==
  /\ At("masked")
  /\ isr' = isr \ {Top.irq}
  /\ frames' = SetTop("acked")
  /\ UNCHANGED <<mask, irr, due, system, set_up>>
  /\ Rest(slack)

\* enable_irq() disables interrupts, which stay so until the iret.
\* Mutant: the line stays masked.
Mutant_EnableIrq ==
  /\ At("handled") \/ At("returned")
  /\ frames' = [frames EXCEPT ![running] = Front(@)]
  /\ UNCHANGED <<pic, due, system, set_up>>
  /\ Rest(slack)
EnableIrq ==
  /\ At("handled") \/ At("returned")
  /\ mask' = mask \ {Top.irq}
  /\ frames' = [frames EXCEPT ![running] = Front(@)]
  /\ UNCHANGED <<irr, isr, due, system, set_up>>
  /\ Rest(slack)

-----------------------------------------------------------------------------
(* The handlers of the devices, each with interrupts disabled.             *)

\* rtc_handler(), and a key that ends at the last line of kb_handler(), which
\* enables interrupts, or at one of the returns before.
Fetch ==
  /\ At("acked") /\ Top.irq \in {KB, RTC}
  /\ due' = due \ {Top.irq}
  /\ \/ frames' = SetTop("handled")
     \/ Top.irq = KB /\ frames' = SetTop("returned")
  /\ UNCHANGED <<pic, system, set_up>>
  /\ Rest(slack)

\* The scheduler's search from terminal t.  As long as there is no process it
\* returns before the search.
\* Mutant: it takes the next terminal, whether a process runs there or not.
Mutant_NextTerminal(t, n) ==
  n = IF open = {} THEN running ELSE (t + 1) % NumTerminals
NextTerminal(t, n) ==
  \/ open = {} /\ n = running
  \/ \E k \in 1 .. NumTerminals :
       /\ n = (t + k) % NumTerminals
       /\ n \in open
       /\ \A j \in 1 .. k - 1 : (t + j) % NumTerminals \notin open

\* pit_handler(): the timer is unmasked, and the process that is resumed is
\* wherever it was, in the timer's handler or in the keyboard's.
\* Mutant: the timer is unmasked when this process runs again.
Mutant_Tick ==
  /\ At("acked") /\ Top.irq = PIT
  /\ frames' = SetTop("handled")
  /\ NextTerminal(running, running')
  /\ UNCHANGED <<pic, due, open, shown, set_up>>
  /\ Rest(slack)
Tick ==
  /\ At("acked") /\ Top.irq = PIT
  /\ mask' = mask \ {PIT}
  /\ frames' = SetTop("handled")
  /\ NextTerminal(running, running')
  /\ UNCHANGED <<irr, isr, due, open, shown, set_up>>
  /\ Rest(slack)

\* kb_handler() when Alt-Fn shows terminal t for the first time: the scheduler
\* unmasks the timer and the keyboard and starts a shell there.
\* Mutant: it unmasks neither, as they will be when the handler returns.
Mutant_OpenTerminal(t) ==
  /\ At("acked") /\ Top.irq = KB
  /\ t \notin shown /\ open # {}
  /\ shown' = shown \cup {t}
  /\ due' = due \ {KB}
  /\ frames' = SetTop("returned")
  /\ open' = open \cup {t} /\ running' = t
  /\ UNCHANGED <<pic, set_up>>
  /\ Rest(slack)
OpenTerminal(t) ==
  /\ At("acked") /\ Top.irq = KB
  /\ t \notin shown /\ open # {}
  /\ shown' = shown \cup {t}
  /\ due' = due \ {KB}
  /\ mask' = mask \ {PIT, KB}
  /\ frames' = SetTop("returned")
  /\ open' = open \cup {t} /\ running' = t
  /\ UNCHANGED <<irr, isr, set_up>>
  /\ Rest(slack)

\* The same when every pcb is in use: the search goes on from terminal t.
OpenTerminalFails(t) ==
  /\ At("acked") /\ Top.irq = KB
  /\ t \notin shown /\ open # {}
  /\ shown' = shown \cup {t}
  /\ due' = due \ {KB}
  /\ mask' = mask \ {PIT, KB}
  /\ frames' = SetTop("returned")
  /\ NextTerminal(t, running')
  /\ UNCHANGED <<irr, isr, open, set_up>>
  /\ Rest(slack)

\* Alt-Fn before the first shell: the scheduler unmasks the timer, finds no
\* process to leave, and does not mark the terminal as opened.
OpenTooEarly ==
  /\ At("acked") /\ Top.irq = KB
  /\ open = {}
  /\ due' = due \ {KB}
  /\ mask' = mask \ {PIT}
  /\ frames' = SetTop("returned")
  /\ UNCHANGED <<irr, isr, system, set_up>>
  /\ Rest(slack)

-----------------------------------------------------------------------------
(* entry(), and open_rtc(), which sets the clock up once more.             *)

\* entry() goes from one step to the next when no handler interrupts it.
GoOn(from, to) == Stack = <<>> /\ boot = from /\ boot' = to

\* set_interrupt(): the handler is there before its line is unmasked.
SetInterrupt(i) ==
  /\ irq_handler' = irq_handler \cup {i}
  /\ mask' = mask \ {i}
  /\ UNCHANGED <<irr, isr, due, frames, system>>
  /\ Rest(slack)

InitializePit == GoOn("pit", "keyboard") /\ SetInterrupt(PIT)
SetKb == GoOn("keyboard", "slave") /\ SetInterrupt(KB)

\* enable_irq() for the line of the slave, which is not shown.  Interrupts stay
\* disabled through init_termis(), until init_rtc() has turned the clock on.
EnableSlave ==
  /\ GoOn("slave", "terminals")
  /\ UNCHANGED <<pic, due, frames, system, irq_handler>>
  /\ Rest(slack)
InitTermis ==
  /\ GoOn("terminals", "clock")
  /\ UNCHANGED <<pic, due, frames, system, irq_handler>>
  /\ Rest(slack)
InitRtc == GoOn("clock", "shell") /\ SetInterrupt(RTC)

\* entry() executes the first shell.
FirstShell ==
  /\ GoOn("shell", "done")
  /\ open' = {0} /\ shown' = {0}
  /\ UNCHANGED <<pic, due, frames, running, irq_handler>>
  /\ Rest(slack)

\* A process opens the clock, which may unmask the line in the middle of a
\* handler that another process is in.
OpenRtc == boot = "done" /\ GoOn("done", "done") /\ SetInterrupt(RTC)

-----------------------------------------------------------------------------
Kernel ==
  \/ DisableIrq \/ SendEoi \/ EnableIrq \/ Fetch \/ Tick \/ OpenTooEarly
  \/ \E t \in Terminals : OpenTerminal(t) \/ OpenTerminalFails(t)

Entry ==
  \/ InitializePit \/ SetKb \/ EnableSlave \/ InitTermis \/ InitRtc
  \/ FirstShell

Next == Kernel \/ Entry \/ OpenRtc \/ \E i \in Irqs : Raise(i) \/ Deliver(i)

\* The CPU goes on, takes what it may take, and the timer does not stop.  The
\* devices are slow, so entry() goes on between any two interrupts.
Fairness ==
  /\ WF_vars(Kernel)
  /\ SF_vars(Entry)
  /\ \A i \in Irqs : WF_vars(Deliver(i))
  /\ WF_vars(Raise(PIT))

Spec == Init /\ [][Next]_vars /\ Fairness
-----------------------------------------------------------------------------
Frames(t) == Range(frames[t])

\* The processes that are in a handler of line i, at one of these stages.
Owners(i, stages) ==
  {t \in Terminals : \E f \in Frames(t) : f.irq = i /\ f.stage \in stages}

\* Once it has been set up, the timer is masked only while the process that
\* runs is on its way to the scheduler: whatever was interrupted and left, no
\* process is resumed or started with the timer masked, and so none can keep
\* the CPU.
TimerIsUnmasked ==
  PIT \in mask \cap irq_handler =>
    \E f \in Frames(running) : f.irq = PIT /\ f.stage \in {"masked", "acked"}

\* No line is lost in a process switch or by a mask that another process or
\* entry() changes: one that is masked has not been set up yet or will be
\* unmasked by a handler that somebody is in, and one in service, which blocks
\* those behind it, is waiting for the EOI of exactly one handler, which may
\* belong to a process that was left.
LinesHaveOwners ==
  /\ \A i \in mask \cap irq_handler : Owners(i, Stages \ {"entered"}) # {}
  /\ \A i \in isr : \E t \in Terminals :
       Owners(i, {"entered", "masked"}) = {t}

\* Interrupts that nest do not pile up on a kernel stack, although
\* pit_handler() enables interrupts before its frame is gone, handlers of
\* processes that were left are still to end, and a first visit to a terminal
\* or the opening of the clock unmasks lines in the middle of them: a handler
\* is entered again on a stack that it is already on only when it has fetched
\* its data, and at most once for every other terminal.
NestingIsBounded ==
  \A t \in Terminals, i \in Irqs :
    LET again == {n \in DOMAIN frames[t] : frames[t][n].irq = i}
    IN /\ Cardinality(again) <= NumTerminals
       /\ i # PIT => \A m, n \in again :
                       m < n => frames[t][m].stage = "handled"

\* Every key is fetched, and every interrupt of the clock acknowledged, also
\* when the process whose handler masks the line has lost the CPU.
DeviceIsServed == \A i \in {KB, RTC} : i \in due ~> i \notin due

\* No handler keeps the CPU, or stops the timer, for ever.
TimeIsShared == \A t \in Terminals : t \in open ~> running = t
=============================================================================
