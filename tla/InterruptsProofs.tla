-------------------------- MODULE InterruptsProofs --------------------------
(***************************************************************************)
(* The masks, the in-service bits and the kernel stacks, for any number of *)
(* terminals and of scan codes to a key.                                   *)
(***************************************************************************)
EXTENDS Interrupts, SequenceTheorems, FiniteSetTheorems, TLAPS

Frame == [irq : Irqs, stage : Stages]

Types == TypeOK /\ running \in Terminals

\* f is a frame of line i, and its handler is at one of these stages.
Of(f, i, stages) == f.irq = i /\ f.stage \in stages

\* Only a process has a stack with frames, or entry() before there is one.
Places ==
  /\ \A t \in Terminals : t \notin open \cup {running} => frames[t] = <<>>
  /\ open = {} => running = 0 /\ shown = {}
  /\ open # {} => running \in open
  /\ boot = "done" <=> open # {}

\* A masked line will be unmasked by a handler that somebody is in.
MaskIsOwned ==
  \A i \in mask \cap irq_handler : \E t \in Terminals :
    \E n \in 1 .. Len(frames[t]) : Of(frames[t][n], i, Stages \ {"entered"})

TimerIsOwned ==
  PIT \in mask \cap irq_handler =>
    \E n \in 1 .. Len(Stack) : Of(Stack[n], PIT, {"masked", "acked"})

\* A line is in service exactly if one handler, and no other, is ahead of its
\* EOI.  The controller delivers no line that is in service; this is why the
\* handler is the only one.
Unacked == {"entered", "masked"}
InService ==
  \A i \in Irqs :
    /\ i \in isr => \E t \in Terminals : \E n \in 1 .. Len(frames[t]) :
                      Of(frames[t][n], i, Unacked)
    /\ \A t \in Terminals : \A n \in 1 .. Len(frames[t]) :
         Of(frames[t][n], i, Unacked) =>
           /\ i \in isr
           /\ \A u \in Terminals : \A m \in 1 .. Len(frames[u]) :
                Of(frames[u][m], i, Unacked) => u = t /\ m = n

\* The same for the data of a device that waits until it has been fetched.
Pending == Unacked \cup {"acked"}
OneRequest ==
  \A i \in {KB, RTC} :
    /\ i \in irr => i \in due
    /\ \A t \in Terminals : \A n \in 1 .. Len(frames[t]) :
         Of(frames[t][n], i, Pending) =>
           /\ i \in due \ irr
           /\ \A u \in Terminals : \A m \in 1 .. Len(frames[u]) :
                Of(frames[u][m], i, Pending) => u = t /\ m = n

\* kb_handler() returns with interrupts disabled: nothing nests above it.
ReturnedOnTop ==
  \A t \in Terminals : \A n \in 1 .. Len(frames[t]) :
    frames[t][n].stage = "returned" =>
      n = Len(frames[t]) /\ frames[t][n].irq = KB

\* Below the top of a stack are handlers that have fetched their data.
Fetched ==
  \A t \in Terminals : \A m, n \in 1 .. Len(frames[t]) :
    m < n /\ frames[t][m].irq = frames[t][n].irq /\ frames[t][m].irq # PIT =>
      frames[t][m].stage = "handled"

-----------------------------------------------------------------------------
(* The stacks.                                                             *)

LEMMA TopOfStack ==
  ASSUME NEW s \in Seq(Frame), s # <<>>
  PROVE  /\ Len(s) \in Nat /\ Len(s) >= 1 /\ Last(s) = s[Len(s)]
         /\ Last(s) \in Frame
BY DEF Last

\* What Append, Front and a new top do to a stack.
LEMMA Pushed ==
  ASSUME NEW s \in Seq(Frame), NEW f \in Frame
  PROVE  LET r == Append(s, f)
         IN /\ r \in Seq(Frame) /\ Len(r) = Len(s) + 1 /\ r # <<>>
            /\ \A n \in 1 .. Len(s) : r[n] = s[n]
            /\ r[Len(s) + 1] = f
OBVIOUS

LEMMA Popped ==
  ASSUME NEW s \in Seq(Frame), s # <<>>
  PROVE  /\ Front(s) \in Seq(Frame) /\ Len(Front(s)) = Len(s) - 1
         /\ \A n \in 1 .. Len(s) - 1 : Front(s)[n] = s[n]
<1> DEFINE r == SubSeq(s, 1, Len(s) - 1)
<1>1. PICK k \in Nat : Len(s) = k
  OBVIOUS
<1>2. k # 0
  BY <1>1
<1>3. r \in Seq(Frame) /\ \A n \in 1 .. Len(s) - 1 : r[n] = s[n]
  BY <1>1, <1>2
<1>4. Len(SubSeq(s, 1, k - 1)) = k - 1
  BY <1>1, <1>2
<1>5. Len(r) = Len(s) - 1
  BY <1>1, <1>4
<1> HIDE DEF r
<1>6. Front(s) = r
  BY DEF Front, r
<1> QED BY <1>3, <1>5, <1>6

LEMMA TopReplaced ==
  ASSUME NEW s \in Seq(Frame), s # <<>>, NEW f \in Frame
  PROVE  LET r == Front(s) \o <<f>>
         IN /\ r \in Seq(Frame) /\ Len(r) = Len(s) /\ r # <<>>
            /\ \A n \in 1 .. Len(s) - 1 : r[n] = s[n]
            /\ r[Len(s)] = f
<1> DEFINE t == Front(s)
<1>1. Len(s) \in Nat /\ Len(s) >= 1
  BY TopOfStack
<1>2. /\ t \in Seq(Frame) /\ Len(t) = Len(s) - 1
      /\ \A n \in 1 .. Len(s) - 1 : t[n] = s[n]
  BY Popped
<1> HIDE DEF t
<1>3. t \o <<f>> = Append(t, f)
  BY <1>2
<1>4. /\ t \o <<f>> \in Seq(Frame) /\ Len(t \o <<f>>) = Len(s)
      /\ t \o <<f>> # <<>>
      /\ \A n \in 1 .. Len(s) - 1 : (t \o <<f>>)[n] = s[n]
      /\ (t \o <<f>>)[Len(s)] = f
  BY <1>1, <1>2, <1>3, Pushed
<1> QED BY <1>4 DEF t

-----------------------------------------------------------------------------
(* The three changes of the stacks, frame by frame.                        *)

LEMMA SetTopFrames ==
  ASSUME Types, Stack # <<>>, NEW stage \in Stages, frames' = SetTop(stage)
  PROVE  /\ frames' \in [Terminals -> Seq(Frame)]
         /\ frames'[running] # <<>>
         /\ \A t \in Terminals :
              /\ Len(frames'[t]) = Len(frames[t])
              /\ t # running => frames'[t] = frames[t]
         /\ \A n \in 1 .. Len(Stack) - 1 : frames'[running][n] = Stack[n]
         /\ frames'[running][Len(Stack)] =
              [irq |-> Top.irq, stage |-> stage]
<1> DEFINE f == [irq |-> Top.irq, stage |-> stage]
           r == Front(Stack) \o <<f>>
<1>1. /\ frames \in [Terminals -> Seq(Frame)] /\ running \in Terminals
      /\ Stack \in Seq(Frame)
  BY DEF Types, TypeOK, Stack, Frame
<1>2. Top \in Frame
  BY <1>1, TopOfStack DEF Top
<1>3. f \in Frame
  BY <1>2 DEF Frame
<1>4. frames' = [frames EXCEPT ![running] = r]
  BY <1>1 DEF SetTop, Stack
<1> HIDE DEF f
<1>5. /\ r \in Seq(Frame) /\ Len(r) = Len(Stack) /\ r # <<>>
      /\ \A n \in 1 .. Len(Stack) - 1 : r[n] = Stack[n]
      /\ r[Len(Stack)] = f
  BY <1>1, <1>3, TopReplaced
<1> HIDE DEF r
<1>6. /\ frames' \in [Terminals -> Seq(Frame)] /\ frames'[running] = r
      /\ \A t \in Terminals \ {running} : frames'[t] = frames[t]
  BY <1>1, <1>4, <1>5
<1> QED BY <1>1, <1>5, <1>6 DEF f, Stack

LEMMA PushFrames ==
  ASSUME Types, NEW i \in Irqs,
         frames' = [frames EXCEPT ![running] =
                      Append(@, [irq |-> i, stage |-> "entered"])]
  PROVE  /\ frames' \in [Terminals -> Seq(Frame)]
         /\ frames'[running] # <<>>
         /\ Len(frames'[running]) = Len(Stack) + 1
         /\ \A t \in Terminals : t # running => frames'[t] = frames[t]
         /\ \A n \in 1 .. Len(Stack) : frames'[running][n] = Stack[n]
         /\ frames'[running][Len(Stack) + 1] =
              [irq |-> i, stage |-> "entered"]
<1> DEFINE f == [irq |-> i, stage |-> "entered"]
           r == Append(Stack, f)
<1>1. /\ frames \in [Terminals -> Seq(Frame)] /\ running \in Terminals
      /\ Stack \in Seq(Frame) /\ f \in Frame
  BY DEF Types, TypeOK, Stack, Frame, Stages
<1>2. frames' = [frames EXCEPT ![running] = r]
  BY <1>1 DEF Stack
<1> HIDE DEF f
<1>3. /\ r \in Seq(Frame) /\ Len(r) = Len(Stack) + 1 /\ r # <<>>
      /\ \A n \in 1 .. Len(Stack) : r[n] = Stack[n]
      /\ r[Len(Stack) + 1] = f
  BY <1>1, Pushed
<1> HIDE DEF r
<1>4. /\ frames' \in [Terminals -> Seq(Frame)] /\ frames'[running] = r
      /\ \A t \in Terminals \ {running} : frames'[t] = frames[t]
  BY <1>1, <1>2, <1>3
<1> QED BY <1>1, <1>3, <1>4 DEF f

LEMMA PopFrames ==
  ASSUME Types, Stack # <<>>,
         frames' = [frames EXCEPT ![running] = Front(@)]
  PROVE  /\ frames' \in [Terminals -> Seq(Frame)]
         /\ Len(frames'[running]) = Len(Stack) - 1
         /\ \A t \in Terminals : t # running => frames'[t] = frames[t]
         /\ \A n \in 1 .. Len(Stack) - 1 : frames'[running][n] = Stack[n]
<1> DEFINE r == Front(Stack)
<1>1. /\ frames \in [Terminals -> Seq(Frame)] /\ running \in Terminals
      /\ Stack \in Seq(Frame)
  BY DEF Types, TypeOK, Stack, Frame
<1>2. frames' = [frames EXCEPT ![running] = r]
  BY <1>1 DEF Stack
<1>3. /\ r \in Seq(Frame) /\ Len(r) = Len(Stack) - 1
      /\ \A n \in 1 .. Len(Stack) - 1 : r[n] = Stack[n]
  BY <1>1, Popped
<1> HIDE DEF r
<1>4. /\ frames' \in [Terminals -> Seq(Frame)] /\ frames'[running] = r
      /\ \A t \in Terminals \ {running} : frames'[t] = frames[t]
  BY <1>1, <1>2, <1>3
<1> QED BY <1>1, <1>3, <1>4

-----------------------------------------------------------------------------
(* Types and places.                                                       *)

LEMMA RestTypes ==
  ASSUME NEW left \in [Irqs -> 0 .. Burst], Rest(left)
  PROVE  slack' \in [Irqs -> 0 .. Burst]
<1>1. Slack \in [Irqs -> 0 .. Burst]
  BY InterruptsAssumption DEF Slack
<1> QED BY <1>1 DEF Rest

LEMMA NextTerminalIs ==
  ASSUME NEW t \in Terminals, NEW n, NextTerminal(t, n)
  PROVE  n \in open \/ (open = {} /\ n = running)
BY DEF NextTerminal

LEMMA HandlerTypes ==
  ASSUME Types, Kernel
  PROVE  Types'
<1> USE DEF Types, TypeOK, pic, system, set_up, At
<1>0. slack \in [Irqs -> 0 .. Burst]
  OBVIOUS
<1>1. \A stage \in Stages :
        Stack # <<>> /\ frames' = SetTop(stage) =>
          frames' \in [Terminals -> Seq(Frame)]
  BY SetTopFrames
<1>2. "masked" \in Stages /\ "acked" \in Stages /\ "handled" \in Stages
      /\ "returned" \in Stages
  BY DEF Stages
<1>3. Stack # <<>> => Top.irq \in Irqs
  <2>1. Stack \in Seq(Frame)
    BY DEF Stack, Frame
  <2> QED BY <2>1, TopOfStack DEF Top, Frame
<1>4. CASE DisableIrq
  BY <1>0, <1>1, <1>2, <1>3, <1>4, RestTypes DEF DisableIrq, Frame
<1>5. CASE SendEoi
  BY <1>0, <1>1, <1>2, <1>5, RestTypes DEF SendEoi, Frame
<1>6. CASE EnableIrq
  <2>1. frames' \in [Terminals -> Seq(Frame)]
    BY <1>6, PopFrames DEF EnableIrq
  <2> QED BY <1>0, <1>6, <2>1, RestTypes DEF EnableIrq, Frame
<1>7. CASE Fetch
  BY <1>0, <1>1, <1>2, <1>7, RestTypes DEF Fetch, Frame
<1>8. CASE Tick
  <2>1. running' \in Terminals /\ (boot' = "done" => running' \in open')
    BY <1>8, NextTerminalIs DEF Tick
  <2> QED BY <1>0, <1>1, <1>2, <1>8, <2>1, RestTypes DEF Tick, Frame
<1>9. CASE OpenTooEarly
  BY <1>0, <1>1, <1>2, <1>9, RestTypes DEF OpenTooEarly, Frame
<1>10. ASSUME NEW t \in Terminals, OpenTerminal(t) PROVE Types'
  BY <1>0, <1>1, <1>2, <1>10, RestTypes DEF OpenTerminal, Frame
<1>11. ASSUME NEW t \in Terminals, OpenTerminalFails(t) PROVE Types'
  <2>1. running' \in Terminals /\ running' \in open'
    BY <1>11, NextTerminalIs DEF OpenTerminalFails
  <2> QED BY <1>0, <1>1, <1>2, <1>11, <2>1, RestTypes
          DEF OpenTerminalFails, Frame
<1> QED BY <1>4, <1>5, <1>6, <1>7, <1>8, <1>9, <1>10, <1>11 DEF Kernel

LEMMA DeviceTypes ==
  ASSUME Types, NEW i \in Irqs, Raise(i) \/ Deliver(i)
  PROVE  Types'
<1> USE DEF Types, TypeOK, pic, system, set_up
<1>1. CASE Raise(i)
  <2>1. [slack EXCEPT ![i] = @ - 1] \in [Irqs -> 0 .. Burst]
    BY <1>1, InterruptsAssumption DEF Raise
  <2>2. slack' \in [Irqs -> 0 .. Burst]
    BY <1>1, <2>1, RestTypes DEF Raise
  <2> QED BY <1>1, <2>2 DEF Raise, Irqs
<1>2. CASE Deliver(i)
  <2>1. frames' \in [Terminals -> Seq(Frame)]
    BY <1>2, PushFrames DEF Deliver
  <2>2. slack' \in [Irqs -> 0 .. Burst]
    BY <1>2, RestTypes DEF Deliver
  <2> QED BY <1>2, <2>1, <2>2 DEF Deliver, Frame
<1> QED BY <1>1, <1>2

LEMMA EntryTypes ==
  ASSUME Types, Places, Entry \/ OpenRtc
  PROVE  Types'
<1> USE DEF Types, TypeOK, pic, system, set_up, GoOn, SetInterrupt
<1>1. slack \in [Irqs -> 0 .. Burst] /\ 0 \in Terminals
  BY InterruptsAssumption DEF Terminals
<1>2. Rest(slack)
  BY DEF Entry, OpenRtc, InitializePit, SetKb, EnableSlave, InitTermis,
         InitRtc, FirstShell
<1>3. slack' \in [Irqs -> 0 .. Burst]
  BY <1>1, <1>2, RestTypes
<1>4. CASE FirstShell
  BY <1>1, <1>3, <1>4 DEF FirstShell, BootSteps, Places
<1>5. CASE ~FirstShell
  BY <1>3, <1>5 DEF Entry, OpenRtc, InitializePit, SetKb, EnableSlave,
                    InitTermis, InitRtc, BootSteps, Irqs
<1> QED BY <1>4, <1>5

\* A step changes the stack of the process that runs, and no other.
LEMMA OtherStacks ==
  ASSUME Types, [Next]_vars
  PROVE  \A t \in Terminals : t # running => frames'[t] = frames[t]
<1> USE DEF At
<1>1. "masked" \in Stages /\ "acked" \in Stages /\ "handled" \in Stages
      /\ "returned" \in Stages
  BY DEF Stages
<1>2. CASE \E stage \in Stages : Stack # <<>> /\ frames' = SetTop(stage)
  BY <1>2, SetTopFrames
<1>3. CASE EnableIrq
  BY <1>3, PopFrames DEF EnableIrq
<1>4. ASSUME NEW i \in Irqs, Deliver(i)
      PROVE  \A t \in Terminals : t # running => frames'[t] = frames[t]
  BY <1>4, PushFrames DEF Deliver
<1>5. CASE UNCHANGED frames
  BY <1>5
<1>6. ASSUME Kernel, ~EnableIrq
      PROVE  \E stage \in Stages : Stack # <<>> /\ frames' = SetTop(stage)
  BY <1>1, <1>6 DEF Kernel, DisableIrq, SendEoi, Fetch, Tick, OpenTooEarly,
                    OpenTerminal, OpenTerminalFails
<1>7. ASSUME Entry \/ OpenRtc \/ \E i \in Irqs : Raise(i)
      PROVE  UNCHANGED frames
  BY <1>7 DEF Entry, OpenRtc, InitializePit, SetKb, EnableSlave, InitTermis,
              InitRtc, FirstShell, SetInterrupt, Raise
<1>8. CASE UNCHANGED vars
  BY <1>5, <1>8 DEF vars
<1> QED BY <1>2, <1>3, <1>4, <1>5, <1>6, <1>7, <1>8 DEF Next

LEMMA PlacesStep ==
  ASSUME Types, Places, [Next]_vars
  PROVE  Places'
<1> USE DEF Places, Types, TypeOK, system, set_up
<1>1. \A t \in Terminals : t # running => frames'[t] = frames[t]
  BY OtherStacks
<1>2. CASE Tick
  BY <1>1, <1>2, NextTerminalIs DEF Tick
<1>3. ASSUME NEW t \in Terminals, OpenTerminal(t) PROVE Places'
  BY <1>1, <1>3 DEF OpenTerminal
<1>4. ASSUME NEW t \in Terminals, OpenTerminalFails(t) PROVE Places'
  BY <1>1, <1>4, NextTerminalIs DEF OpenTerminalFails
<1>5. CASE FirstShell
  BY <1>1, <1>5 DEF FirstShell, GoOn
<1>6. CASE OpenTooEarly
  BY <1>1, <1>6 DEF OpenTooEarly
<1>7. CASE DisableIrq \/ SendEoi \/ EnableIrq \/ Fetch
  BY <1>1, <1>7 DEF DisableIrq, SendEoi, EnableIrq, Fetch
<1>8. CASE InitializePit \/ SetKb \/ InitRtc \/ OpenRtc
  BY <1>1, <1>8 DEF InitializePit, SetKb, InitRtc, OpenRtc, SetInterrupt, GoOn
<1>9. CASE EnableSlave \/ InitTermis
  BY <1>1, <1>9 DEF EnableSlave, InitTermis, GoOn
<1>10. ASSUME NEW i \in Irqs, Raise(i) \/ Deliver(i) PROVE Places'
  BY <1>1, <1>10 DEF Raise, Deliver
<1>11. CASE UNCHANGED vars
  BY <1>1, <1>11 DEF vars
<1> QED BY <1>2, <1>3, <1>4, <1>5, <1>6, <1>7, <1>8, <1>9, <1>10, <1>11
        DEF Next, Kernel, Entry

-----------------------------------------------------------------------------
(* The lines and their handlers.                                           *)

Lines ==
  /\ MaskIsOwned /\ TimerIsOwned /\ InService
  /\ OneRequest /\ ReturnedOnTop /\ Fetched

\* What a handler's step to a stage does to the frames, one by one.
LEMMA TopIs ==
  ASSUME Types, Stack # <<>>
  PROVE  /\ Len(frames[running]) \in Nat /\ Len(frames[running]) # 0
         /\ Top = frames[running][Len(frames[running])]
         /\ Top.irq \in Irqs /\ Top.stage \in Stages
<1>1. frames[running] \in Seq(Frame) /\ frames[running] # <<>>
  BY DEF Types, TypeOK, Stack, Frame
<1>2. PICK k \in Nat : k = Len(frames[running])
  BY <1>1
<1>3. k # 0 /\ frames[running][k] \in Frame
  BY <1>1, <1>2
<1> QED BY <1>2, <1>3 DEF Top, Stack, Frame, Last

LEMMA FramesAfterTop ==
  ASSUME Types, Stack # <<>>, NEW stage \in Stages, frames' = SetTop(stage)
  PROVE  \A t \in Terminals :
           /\ Len(frames'[t]) = Len(frames[t])
           /\ \A n \in 1 .. Len(frames[t]) :
                /\ frames'[t][n].irq = frames[t][n].irq
                /\ frames'[t][n].stage =
                     IF t = running /\ n = Len(frames[running])
                     THEN stage ELSE frames[t][n].stage
<1>1. frames \in [Terminals -> Seq(Frame)] /\ running \in Terminals
  BY DEF Types, TypeOK, Frame
<1>2. ASSUME NEW t \in Terminals, NEW n \in 1 .. Len(frames[t]),
             ~(t = running /\ n = Len(frames[running]))
      PROVE  frames'[t][n] = frames[t][n]
  <2>1. CASE t = running
    <3>1. PICK k \in Nat : k = Len(Stack)
      BY <1>1 DEF Stack
    <3>2. n \in 1 .. k - 1
      BY <1>2, <2>1, <3>1 DEF Stack
    <3> QED BY <2>1, <3>1, <3>2, SetTopFrames DEF Stack
  <2> QED BY <1>2, <2>1, SetTopFrames
<1>3. frames'[running][Len(frames[running])] =
        [irq |-> Top.irq, stage |-> stage]
  BY SetTopFrames DEF Stack
<1>4. Top = frames[running][Len(frames[running])]
  BY TopIs
<1> QED BY <1>2, <1>3, <1>4, SetTopFrames

\* The handlers that are ahead of their EOI, or of the data of their device,
\* stay the same ones.
LEMMA SameUnacked ==
  ASSUME InService, isr' = isr,
         \A t \in Terminals :
           /\ Len(frames'[t]) = Len(frames[t])
           /\ \A n \in 1 .. Len(frames[t]) :
                /\ frames'[t][n].irq = frames[t][n].irq
                /\ frames'[t][n].stage \in Unacked <=>
                     frames[t][n].stage \in Unacked
  PROVE  InService'
<1>1. ASSUME NEW i \in Irqs, NEW t \in Terminals, NEW n \in 1 .. Len(frames[t])
      PROVE  Of(frames'[t][n], i, Unacked) <=> Of(frames[t][n], i, Unacked)
  BY <1>1 DEF Of
<1> SUFFICES ASSUME NEW i \in Irqs
             PROVE  /\ i \in isr => \E t \in Terminals :
                         \E n \in 1 .. Len(frames'[t]) :
                           Of(frames'[t][n], i, Unacked)
                    /\ \A t \in Terminals : \A n \in 1 .. Len(frames'[t]) :
                         Of(frames'[t][n], i, Unacked) =>
                           /\ i \in isr
                           /\ \A u \in Terminals :
                                \A m \in 1 .. Len(frames'[u]) :
                                  Of(frames'[u][m], i, Unacked) =>
                                    u = t /\ m = n
  BY DEF InService, Of
<1>2. i \in isr => \E t \in Terminals : \E n \in 1 .. Len(frames'[t]) :
                     Of(frames'[t][n], i, Unacked)
  BY <1>1 DEF InService
<1>3. ASSUME NEW t \in Terminals, NEW n \in 1 .. Len(frames'[t]),
             Of(frames'[t][n], i, Unacked)
      PROVE  /\ i \in isr
             /\ \A u \in Terminals : \A m \in 1 .. Len(frames'[u]) :
                  Of(frames'[u][m], i, Unacked) => u = t /\ m = n
  BY <1>1, <1>3 DEF InService
<1> QED BY <1>2, <1>3

LEMMA SamePending ==
  ASSUME OneRequest, irr' = irr, due' = due,
         \A t \in Terminals :
           /\ Len(frames'[t]) = Len(frames[t])
           /\ \A n \in 1 .. Len(frames[t]) :
                /\ frames'[t][n].irq = frames[t][n].irq
                /\ frames'[t][n].stage \in Pending <=>
                     frames[t][n].stage \in Pending
  PROVE  OneRequest'
BY DEF OneRequest, Of

\* The handler on top sends its EOI, or fetches the data of its device.
LEMMA TopAcked ==
  ASSUME Types, InService, Stack # <<>>, Top.stage \in Unacked,
         isr' = isr \ {Top.irq},
         NEW stage \in Stages \ Unacked, frames' = SetTop(stage)
  PROVE  InService'
<1>1. /\ Len(frames[running]) \in Nat /\ Len(frames[running]) # 0
      /\ Top = frames[running][Len(frames[running])]
      /\ Top.irq \in Irqs /\ running \in Terminals
  BY TopIs DEF Types
<1>2. \A t \in Terminals :
           /\ Len(frames'[t]) = Len(frames[t])
           /\ \A n \in 1 .. Len(frames[t]) :
                /\ frames'[t][n].irq = frames[t][n].irq
                /\ frames'[t][n].stage =
                     IF t = running /\ n = Len(frames[running])
                     THEN stage ELSE frames[t][n].stage
  BY FramesAfterTop
<1>3. \A t \in Terminals : \A n \in 1 .. Len(frames[t]) :
        frames'[t][n].stage \in Unacked <=>
          /\ frames[t][n].stage \in Unacked
          /\ ~(t = running /\ n = Len(frames[running]))
  BY <1>2
<1>4. \A t \in Terminals : \A n \in 1 .. Len(frames[t]) :
        frames[t][n].irq = Top.irq /\ frames[t][n].stage \in Unacked =>
          t = running /\ n = Len(frames[running])
  BY <1>1 DEF InService, Of
<1>5. ASSUME NEW i \in Irqs, i \in isr'
      PROVE  \E t \in Terminals : \E n \in 1 .. Len(frames'[t]) :
               Of(frames'[t][n], i, Unacked)
  <2>1. i \in isr /\ i # Top.irq
    BY <1>5
  <2>2. PICK t \in Terminals : \E n \in 1 .. Len(frames[t]) :
          frames[t][n].irq = i /\ frames[t][n].stage \in Unacked
    BY <2>1 DEF InService, Of
  <2>3. PICK n \in 1 .. Len(frames[t]) :
          frames[t][n].irq = i /\ frames[t][n].stage \in Unacked
    BY <2>2
  <2>4. ~(t = running /\ n = Len(frames[running]))
    BY <1>1, <2>1, <2>3
  <2> QED BY <1>2, <1>3, <2>3, <2>4 DEF Of
<1>6. ASSUME NEW i \in Irqs, NEW t \in Terminals,
             NEW n \in 1 .. Len(frames'[t]), Of(frames'[t][n], i, Unacked)
      PROVE  /\ i \in isr'
             /\ \A u \in Terminals : \A m \in 1 .. Len(frames'[u]) :
                  Of(frames'[u][m], i, Unacked) => u = t /\ m = n
  <2>1. Of(frames[t][n], i, Unacked) /\ i # Top.irq /\ n \in 1 .. Len(frames[t])
    BY <1>2, <1>3, <1>4, <1>6 DEF Of
  <2>2. i \in isr
    BY <2>1 DEF InService
  <2>3. ASSUME NEW u \in Terminals, NEW m \in 1 .. Len(frames'[u]),
               Of(frames'[u][m], i, Unacked)
        PROVE  u = t /\ m = n
    <3>1. Of(frames[u][m], i, Unacked) /\ m \in 1 .. Len(frames[u])
      BY <1>2, <1>3, <2>3 DEF Of
    <3> QED BY <2>1, <3>1 DEF InService
  <2> QED BY <2>1, <2>2, <2>3
<1> QED BY <1>5, <1>6 DEF InService

LEMMA TopFetched ==
  ASSUME Types, OneRequest, Stack # <<>>, Top.stage \in Pending,
         irr' = irr, due' = due \ {Top.irq},
         NEW stage \in Stages \ Pending, frames' = SetTop(stage)
  PROVE  OneRequest'
<1>1. /\ Len(frames[running]) \in Nat /\ Len(frames[running]) # 0
      /\ Top = frames[running][Len(frames[running])]
      /\ Top.irq \in Irqs /\ running \in Terminals
  BY TopIs DEF Types
<1>2. \A t \in Terminals :
           /\ Len(frames'[t]) = Len(frames[t])
           /\ \A n \in 1 .. Len(frames[t]) :
                /\ frames'[t][n].irq = frames[t][n].irq
                /\ frames'[t][n].stage =
                     IF t = running /\ n = Len(frames[running])
                     THEN stage ELSE frames[t][n].stage
  BY FramesAfterTop
<1>3. \A t \in Terminals : \A n \in 1 .. Len(frames[t]) :
        frames'[t][n].stage \in Pending <=>
          /\ frames[t][n].stage \in Pending
          /\ ~(t = running /\ n = Len(frames[running]))
  BY <1>2
<1>4. Top.irq \in {KB, RTC} =>
        /\ Top.irq \notin irr
        /\ \A t \in Terminals : \A n \in 1 .. Len(frames[t]) :
             frames[t][n].irq = Top.irq /\ frames[t][n].stage \in Pending =>
               t = running /\ n = Len(frames[running])
  BY <1>1 DEF OneRequest, Of
<1>5. ASSUME NEW i \in {KB, RTC}, i \in irr' PROVE i \in due'
  BY <1>1, <1>4, <1>5 DEF OneRequest
<1>6. ASSUME NEW i \in {KB, RTC}, NEW t \in Terminals,
             NEW n \in 1 .. Len(frames'[t]), Of(frames'[t][n], i, Pending)
      PROVE  /\ i \in due' \ irr'
             /\ \A u \in Terminals : \A m \in 1 .. Len(frames'[u]) :
                  Of(frames'[u][m], i, Pending) => u = t /\ m = n
  <2>1. Of(frames[t][n], i, Pending) /\ i # Top.irq /\ n \in 1 .. Len(frames[t])
    BY <1>2, <1>3, <1>4, <1>6 DEF Of
  <2>2. i \in due \ irr
    BY <2>1 DEF OneRequest
  <2>3. ASSUME NEW u \in Terminals, NEW m \in 1 .. Len(frames'[u]),
               Of(frames'[u][m], i, Pending)
        PROVE  u = t /\ m = n
    <3>1. Of(frames[u][m], i, Pending) /\ m \in 1 .. Len(frames[u])
      BY <1>2, <1>3, <2>3 DEF Of
    <3> QED BY <2>1, <3>1 DEF OneRequest
  <2> QED BY <2>1, <2>2, <2>3
<1> QED BY <1>5, <1>6 DEF OneRequest

LEMMA TopOrder ==
  ASSUME Types, ReturnedOnTop, Fetched, Stack # <<>>, Top.stage # "returned",
         NEW stage \in Stages, frames' = SetTop(stage),
         stage = "returned" => Top.irq = KB
  PROVE  ReturnedOnTop' /\ Fetched'
<1>1. /\ Len(frames[running]) \in Nat /\ Len(frames[running]) # 0
      /\ Top = frames[running][Len(frames[running])]
  BY TopIs DEF Types
<1>2. \A t \in Terminals :
           /\ Len(frames'[t]) = Len(frames[t])
           /\ \A n \in 1 .. Len(frames[t]) :
                /\ frames'[t][n].irq = frames[t][n].irq
                /\ frames'[t][n].stage =
                     IF t = running /\ n = Len(frames[running])
                     THEN stage ELSE frames[t][n].stage
  BY FramesAfterTop
<1>3. ReturnedOnTop'
  BY <1>1, <1>2 DEF ReturnedOnTop
<1>4. ASSUME NEW t \in Terminals, NEW m \in 1 .. Len(frames'[t]),
             NEW n \in 1 .. Len(frames'[t]), m < n,
             frames'[t][m].irq = frames'[t][n].irq, frames'[t][m].irq # PIT
      PROVE  frames'[t][m].stage = "handled"
  <2>1. m \in 1 .. Len(frames[t]) /\ n \in 1 .. Len(frames[t])
    BY <1>2
  <2>2. frames[t][m].stage = "handled"
    BY <1>2, <1>4, <2>1 DEF Fetched
  <2>3. ~(t = running /\ m = Len(frames[running]))
    BY <1>1, <1>4, <2>1
  <2> QED BY <1>2, <2>1, <2>2, <2>3
<1> QED BY <1>3, <1>4 DEF Fetched

LEMMA TopOwned ==
  ASSUME Types, MaskIsOwned, Stack # <<>>,
         NEW stage \in Stages \ {"entered"}, frames' = SetTop(stage),
         mask' \subseteq mask \cup {Top.irq},
         Top.irq \in mask' => Top.irq \in mask \/ stage = "masked",
         irq_handler' = irq_handler
  PROVE  MaskIsOwned'
<1>1. /\ Len(frames[running]) \in Nat /\ Len(frames[running]) # 0
      /\ Top = frames[running][Len(frames[running])]
      /\ running \in Terminals
  BY TopIs DEF Types
<1>2. \A t \in Terminals :
           /\ Len(frames'[t]) = Len(frames[t])
           /\ \A n \in 1 .. Len(frames[t]) :
                /\ frames'[t][n].irq = frames[t][n].irq
                /\ frames'[t][n].stage =
                     IF t = running /\ n = Len(frames[running])
                     THEN stage ELSE frames[t][n].stage
  BY FramesAfterTop
<1> QED BY SMTT(30), <1>1, <1>2 DEF MaskIsOwned, Of

LEMMA TopTimer ==
  ASSUME Types, TimerIsOwned, Stack # <<>>,
         NEW stage \in Stages, frames' = SetTop(stage),
         Top.irq = PIT => stage \in {"masked", "acked"},
         PIT \in mask' => PIT \in mask \/ Top.irq = PIT,
         irq_handler' = irq_handler, running' = running
  PROVE  TimerIsOwned'
<1>1. /\ Len(frames[running]) \in Nat /\ Len(frames[running]) # 0
      /\ Top = frames[running][Len(frames[running])]
      /\ running \in Terminals
  BY TopIs DEF Types
<1>2. /\ Len(frames'[running]) = Len(frames[running])
      /\ \A n \in 1 .. Len(frames[running]) :
           /\ frames'[running][n].irq = frames[running][n].irq
           /\ frames'[running][n].stage =
                IF n = Len(frames[running])
                THEN stage ELSE frames[running][n].stage
  BY <1>1, FramesAfterTop
<1> QED BY <1>1, <1>2 DEF TimerIsOwned, Of, Stack

-----------------------------------------------------------------------------
(* One step of a handler.                                                  *)

LEMMA DisableIrqLines ==
  ASSUME Types, Lines, DisableIrq
  PROVE  Lines'
<1>1. /\ Stack # <<>> /\ Top.stage = "entered" /\ frames' = SetTop("masked")
      /\ mask' = mask \cup {Top.irq}
      /\ irr' = irr /\ isr' = isr /\ due' = due /\ running' = running
      /\ irq_handler' = irq_handler
  BY DEF DisableIrq, At, system, set_up
<1>2. "masked" \in Stages
  BY DEF Stages
<1>3. MaskIsOwned'
  BY <1>1, <1>2, TopOwned DEF Lines
<1>4. TimerIsOwned'
  BY <1>1, <1>2, TopTimer DEF Lines
<1>5. ReturnedOnTop' /\ Fetched'
  BY <1>1, <1>2, TopOrder DEF Lines
<1>6. \A t \in Terminals :
        /\ Len(frames'[t]) = Len(frames[t])
        /\ \A n \in 1 .. Len(frames[t]) :
             /\ frames'[t][n].irq = frames[t][n].irq
             /\ frames'[t][n].stage \in Unacked <=>
                  frames[t][n].stage \in Unacked
             /\ frames'[t][n].stage \in Pending <=>
                  frames[t][n].stage \in Pending
  BY <1>1, <1>2, TopIs, FramesAfterTop DEF Unacked, Pending
<1>7. InService'
  BY <1>1, <1>6, SameUnacked DEF Lines
<1>8. OneRequest'
  BY <1>1, <1>6, SamePending DEF Lines
<1> QED BY <1>3, <1>4, <1>5, <1>7, <1>8 DEF Lines

LEMMA SendEoiLines ==
  ASSUME Types, Lines, SendEoi
  PROVE  Lines'
<1>1. /\ Stack # <<>> /\ Top.stage = "masked" /\ frames' = SetTop("acked")
      /\ isr' = isr \ {Top.irq}
      /\ irr' = irr /\ mask' = mask /\ due' = due /\ running' = running
      /\ irq_handler' = irq_handler
  BY DEF SendEoi, At, system, set_up
<1>2. "acked" \in Stages /\ "acked" \notin Unacked /\ "masked" \in Unacked
  BY DEF Stages, Unacked
<1>3. MaskIsOwned'
  BY <1>1, <1>2, TopOwned DEF Lines
<1>4. TimerIsOwned'
  BY <1>1, <1>2, TopTimer DEF Lines
<1>5. ReturnedOnTop' /\ Fetched'
  BY <1>1, <1>2, TopOrder DEF Lines
<1>6. \A t \in Terminals :
        /\ Len(frames'[t]) = Len(frames[t])
        /\ \A n \in 1 .. Len(frames[t]) :
             /\ frames'[t][n].irq = frames[t][n].irq
             /\ frames'[t][n].stage \in Pending <=>
                  frames[t][n].stage \in Pending
  BY <1>1, <1>2, TopIs, FramesAfterTop DEF Unacked, Pending
<1>7. InService'
  BY <1>1, <1>2, TopAcked DEF Lines
<1>8. OneRequest'
  BY <1>1, <1>6, SamePending DEF Lines
<1> QED BY <1>3, <1>4, <1>5, <1>7, <1>8 DEF Lines

\* The handler of a device has the CPU until it is done with it: rtc_handler(),
\* pit_handler() and kb_handler(), whatever they unmask and whoever runs next.
LEMMA DeviceLines ==
  ASSUME Types, Lines, Stack # <<>>, Top.stage = "acked",
         NEW stage \in {"handled", "returned"}, frames' = SetTop(stage),
         stage = "returned" => Top.irq = KB,
         mask' \subseteq mask, due' = due \ {Top.irq},
         irr' = irr, isr' = isr, irq_handler' = irq_handler,
         (Top.irq # PIT /\ running' = running) \/ PIT \notin mask'
  PROVE  Lines'
<1>1. /\ stage \in Stages /\ stage \notin Pending /\ stage # "entered"
      /\ "acked" \in Pending
  BY DEF Stages, Pending, Unacked
<1>2. MaskIsOwned'
  BY <1>1, TopOwned DEF Lines
<1>3. TimerIsOwned'
  <2>1. CASE PIT \notin mask'
    BY <2>1 DEF TimerIsOwned
  <2>2. CASE Top.irq # PIT /\ running' = running
    BY <1>1, <2>2, TopTimer DEF Lines
  <2> QED BY <2>1, <2>2
<1>4. ReturnedOnTop' /\ Fetched'
  BY <1>1, TopOrder DEF Lines
<1>5. \A t \in Terminals :
        /\ Len(frames'[t]) = Len(frames[t])
        /\ \A n \in 1 .. Len(frames[t]) :
             /\ frames'[t][n].irq = frames[t][n].irq
             /\ frames'[t][n].stage \in Unacked <=>
                  frames[t][n].stage \in Unacked
  BY <1>1, TopIs, FramesAfterTop DEF Unacked, Pending
<1>6. InService'
  BY <1>5, SameUnacked DEF Lines
<1>7. OneRequest'
  BY <1>1, TopFetched DEF Lines
<1> QED BY <1>2, <1>3, <1>4, <1>6, <1>7 DEF Lines

LEMMA FramesAfterPop ==
  ASSUME Types, Stack # <<>>,
         frames' = [frames EXCEPT ![running] = Front(@)]
  PROVE  \A t \in Terminals : \A n \in Nat :
           /\ n \in 1 .. Len(frames'[t]) <=>
                /\ n \in 1 .. Len(frames[t])
                /\ ~(t = running /\ n = Len(frames[running]))
           /\ n \in 1 .. Len(frames'[t]) => frames'[t][n] = frames[t][n]
<1>1. frames \in [Terminals -> Seq(Frame)] /\ running \in Terminals
  BY DEF Types, TypeOK, Frame
<1>2. PICK k \in Nat : k = Len(Stack)
  BY <1>1 DEF Stack
<1>3. Len(frames'[running]) = k - 1
  BY <1>2, PopFrames
<1>4. ASSUME NEW t \in Terminals, NEW n \in Nat
      PROVE  /\ n \in 1 .. Len(frames'[t]) <=>
                  /\ n \in 1 .. Len(frames[t])
                  /\ ~(t = running /\ n = Len(frames[running]))
             /\ n \in 1 .. Len(frames'[t]) => frames'[t][n] = frames[t][n]
  <2>1. CASE t = running
    BY <1>2, <1>3, <2>1, PopFrames DEF Stack
  <2>2. CASE t # running
    BY <2>2, PopFrames
  <2> QED BY <2>1, <2>2
<1> QED BY <1>4

LEMMA EnableIrqLines ==
  ASSUME Types, Lines, EnableIrq
  PROVE  Lines'
<1>1. /\ Stack # <<>> /\ Top.stage \in {"handled", "returned"}
      /\ mask' = mask \ {Top.irq}
      /\ frames' = [frames EXCEPT ![running] = Front(@)]
      /\ irr' = irr /\ isr' = isr /\ due' = due /\ running' = running
      /\ irq_handler' = irq_handler
  BY DEF EnableIrq, At, system, set_up
<1>2. /\ Len(frames[running]) \in Nat /\ Len(frames[running]) # 0
      /\ Top = frames[running][Len(frames[running])]
      /\ Top.irq \in Irqs /\ running \in Terminals
  BY <1>1, TopIs DEF Types
<1>3. \A t \in Terminals : \A n \in Nat :
        /\ n \in 1 .. Len(frames'[t]) <=>
             /\ n \in 1 .. Len(frames[t])
             /\ ~(t = running /\ n = Len(frames[running]))
        /\ n \in 1 .. Len(frames'[t]) => frames'[t][n] = frames[t][n]
  BY <1>1, FramesAfterPop
<1>4. ASSUME NEW i \in mask' \cap irq_handler'
      PROVE  \E t \in Terminals : \E n \in 1 .. Len(frames'[t]) :
               Of(frames'[t][n], i, Stages \ {"entered"})
  <2>1. i \in mask \cap irq_handler /\ i # Top.irq
    BY <1>1
  <2>2. PICK t \in Terminals : \E n \in 1 .. Len(frames[t]) :
          Of(frames[t][n], i, Stages \ {"entered"})
    BY <2>1 DEF Lines, MaskIsOwned
  <2>3. PICK n \in 1 .. Len(frames[t]) :
          Of(frames[t][n], i, Stages \ {"entered"})
    BY <2>2
  <2>4. ~(t = running /\ n = Len(frames[running]))
    BY <1>2, <2>1, <2>3 DEF Of
  <2>5. n \in 1 .. Len(frames'[t]) /\ frames'[t][n] = frames[t][n]
    BY <1>3, <2>4
  <2> QED BY <2>3, <2>5
<1>5. ASSUME PIT \in mask' \cap irq_handler'
      PROVE  \E n \in 1 .. Len(frames'[running]) :
               Of(frames'[running][n], PIT, {"masked", "acked"})
  <2>1. PICK n \in 1 .. Len(frames[running]) :
          Of(frames[running][n], PIT, {"masked", "acked"})
    BY <1>1, <1>5 DEF Lines, TimerIsOwned, Stack
  <2>2. n # Len(frames[running])
    BY <1>1, <1>2, <2>1 DEF Of
  <2>3. n \in 1 .. Len(frames'[running]) /\ frames'[running][n] = frames[running][n]
    BY <1>2, <1>3, <2>2
  <2> QED BY <2>1, <2>3
<1>6. \A t \in Terminals : \A n \in 1 .. Len(frames[t]) :
        frames[t][n].stage \in Pending => n \in 1 .. Len(frames'[t])
  BY <1>1, <1>2, <1>3 DEF Pending, Unacked
<1>7. InService'
  <2>1. Unacked \subseteq Pending
    BY DEF Pending
  <2> QED BY <1>1, <1>3, <1>6, <2>1 DEF Lines, InService, Of
<1>8. OneRequest'
  BY <1>1, <1>3 DEF Lines, OneRequest, Of
<1>9. ReturnedOnTop'
  BY <1>2, <1>3 DEF Lines, ReturnedOnTop
<1>10. Fetched'
  BY <1>3 DEF Lines, Fetched
<1> QED BY <1>1, <1>4, <1>5, <1>7, <1>8, <1>9, <1>10
        DEF Lines, MaskIsOwned, TimerIsOwned, Stack

-----------------------------------------------------------------------------
(* One step of the controller or of entry().                               *)

LEMMA FramesAfterPush ==
  ASSUME Types, NEW i \in Irqs,
         frames' = [frames EXCEPT ![running] =
                      Append(@, [irq |-> i, stage |-> "entered"])]
  PROVE  \A t \in Terminals : \A n \in Nat :
           /\ n \in 1 .. Len(frames'[t]) <=>
                \/ n \in 1 .. Len(frames[t])
                \/ t = running /\ n = Len(frames[running]) + 1
           /\ n \in 1 .. Len(frames[t]) => frames'[t][n] = frames[t][n]
           /\ t = running /\ n = Len(frames[running]) + 1 =>
                frames'[t][n] = [irq |-> i, stage |-> "entered"]
<1>1. frames \in [Terminals -> Seq(Frame)] /\ running \in Terminals
  BY DEF Types, TypeOK, Frame
<1>2. PICK k \in Nat : k = Len(Stack)
  BY <1>1 DEF Stack
<1>3. /\ Len(frames'[running]) = k + 1
      /\ frames'[running][k + 1] = [irq |-> i, stage |-> "entered"]
      /\ \A n \in 1 .. k : frames'[running][n] = Stack[n]
  BY <1>2, PushFrames
<1>4. ASSUME NEW n \in Nat
      PROVE  /\ n \in 1 .. Len(frames'[running]) <=>
                  n \in 1 .. Len(frames[running]) \/ n = k + 1
             /\ n \in 1 .. Len(frames[running]) =>
                  frames'[running][n] = frames[running][n]
             /\ n = k + 1 =>
                  frames'[running][n] = [irq |-> i, stage |-> "entered"]
  BY <1>2, <1>3 DEF Stack
<1>5. \A t \in Terminals : t # running => frames'[t] = frames[t]
  BY PushFrames
<1> QED BY <1>1, <1>2, <1>4, <1>5 DEF Stack

\* The controller delivers a line only when no handler of it is ahead of its
\* EOI, and the device asks again only when its data has been fetched.
LEMMA DeliverLines ==
  ASSUME Types, Lines, NEW i \in Irqs, Deliver(i)
  PROVE  Lines'
<1> DEFINE New(t, n) == t = running /\ n = Len(frames[running]) + 1
<1>1. /\ i \in irr /\ \A s \in isr : i < s
      /\ irr' = irr \ {i} /\ isr' = isr \cup {i}
      /\ frames' = [frames EXCEPT ![running] =
                      Append(@, [irq |-> i, stage |-> "entered"])]
      /\ mask' = mask /\ due' = due /\ running' = running
      /\ irq_handler' = irq_handler
  BY DEF Deliver, Deliverable, system, set_up
<1>2. i \notin isr
  BY <1>1 DEF Irqs, PIT, KB, RTC
<1>3. /\ running \in Terminals /\ Len(frames[running]) \in Nat
      /\ Len(frames[running]) + 1 \in Nat
  BY DEF Types, TypeOK
<1>4. \A t \in Terminals : \A n \in Nat :
        /\ n \in 1 .. Len(frames'[t]) <=>
             n \in 1 .. Len(frames[t]) \/ New(t, n)
        /\ n \in 1 .. Len(frames[t]) => frames'[t][n] = frames[t][n]
        /\ New(t, n) => frames'[t][n] = [irq |-> i, stage |-> "entered"]
  BY <1>1, FramesAfterPush
<1>5. Len(frames[running]) + 1 \in 1 .. Len(frames'[running])
  BY <1>3, <1>4
<1> HIDE DEF New
<1>6. ASSUME NEW j \in mask' \cap irq_handler'
      PROVE  \E t \in Terminals : \E n \in 1 .. Len(frames'[t]) :
               Of(frames'[t][n], j, Stages \ {"entered"})
  <2>1. \E t \in Terminals : \E n \in 1 .. Len(frames[t]) :
          Of(frames[t][n], j, Stages \ {"entered"})
    BY <1>1, <1>6 DEF Lines, MaskIsOwned
  <2> QED BY <1>4, <2>1
<1>7. TimerIsOwned'
  BY <1>1, <1>3, <1>4 DEF Lines, TimerIsOwned, Stack
<1>8. InService'
  <2>1. \A t \in Terminals : \A n \in 1 .. Len(frames[t]) :
          ~Of(frames[t][n], i, Unacked)
    BY <1>2 DEF Lines, InService
  <2>2. ASSUME NEW j \in Irqs, j \in isr'
        PROVE  \E t \in Terminals : \E n \in 1 .. Len(frames'[t]) :
                 Of(frames'[t][n], j, Unacked)
    <3>1. CASE j = i
      <4>1. frames'[running][Len(frames[running]) + 1] =
              [irq |-> i, stage |-> "entered"]
        BY <1>3, <1>4 DEF New
      <4> QED BY <1>3, <1>5, <3>1, <4>1 DEF Of, Unacked
    <3>2. CASE j \in isr
      BY <1>4, <3>2 DEF Lines, InService
    <3> QED BY <1>1, <2>2, <3>1, <3>2
  <2>3. ASSUME NEW j \in Irqs, NEW t \in Terminals,
               NEW n \in 1 .. Len(frames'[t]), Of(frames'[t][n], j, Unacked)
        PROVE  /\ j \in isr'
               /\ \A u \in Terminals : \A m \in 1 .. Len(frames'[u]) :
                    Of(frames'[u][m], j, Unacked) => u = t /\ m = n
    <3>1. CASE j = i
      <4>1. \A u \in Terminals : \A m \in 1 .. Len(frames'[u]) :
              Of(frames'[u][m], i, Unacked) => New(u, m)
        BY <1>4, <2>1
      <4> QED BY <1>1, <2>3, <3>1, <4>1 DEF New
    <3>2. CASE j # i
      <4>1. \A u \in Terminals : \A m \in 1 .. Len(frames'[u]) :
              Of(frames'[u][m], j, Unacked) =>
                m \in 1 .. Len(frames[u]) /\ Of(frames[u][m], j, Unacked)
        BY <1>4, <3>2 DEF Of
      <4> QED BY <1>1, <2>3, <4>1 DEF Lines, InService
    <3> QED BY <3>1, <3>2
  <2> QED BY <2>2, <2>3 DEF InService
<1>9. i # PIT => \A t \in Terminals : \A n \in 1 .. Len(frames[t]) :
        ~Of(frames[t][n], i, Pending)
  BY <1>1 DEF Lines, OneRequest, Irqs
<1>10. OneRequest'
  <2>1. ASSUME NEW j \in {KB, RTC}, j \in irr' PROVE j \in due'
    BY <1>1, <2>1 DEF Lines, OneRequest
  <2>2. ASSUME NEW j \in {KB, RTC}, NEW t \in Terminals,
               NEW n \in 1 .. Len(frames'[t]), Of(frames'[t][n], j, Pending)
        PROVE  /\ j \in due' \ irr'
               /\ \A u \in Terminals : \A m \in 1 .. Len(frames'[u]) :
                    Of(frames'[u][m], j, Pending) => u = t /\ m = n
    <3>1. CASE j = i
      <4>1. \A u \in Terminals : \A m \in 1 .. Len(frames'[u]) :
              Of(frames'[u][m], i, Pending) => New(u, m)
        BY <1>4, <1>9, <3>1 DEF PIT, KB, RTC
      <4>2. i \in due
        BY <1>1, <3>1 DEF Lines, OneRequest
      <4> QED BY <1>1, <2>2, <3>1, <4>1, <4>2 DEF New
    <3>2. CASE j # i
      <4>1. \A u \in Terminals : \A m \in 1 .. Len(frames'[u]) :
              Of(frames'[u][m], j, Pending) =>
                m \in 1 .. Len(frames[u]) /\ Of(frames[u][m], j, Pending)
        BY <1>4, <3>2 DEF Of
      <4> QED BY <1>1, <2>2, <4>1 DEF Lines, OneRequest
    <3> QED BY <3>1, <3>2
  <2> QED BY <2>1, <2>2 DEF OneRequest
<1>11. \A n \in 1 .. Len(frames[running]) :
         frames[running][n].stage # "returned"
  <2>1. ASSUME NEW n \in 1 .. Len(frames[running]),
               frames[running][n].stage = "returned"
        PROVE  FALSE
    <3>1. Stack # <<>> /\ n = Len(frames[running])
      BY <1>3, <2>1 DEF Lines, ReturnedOnTop, Stack
    <3>2. At("returned")
      BY <2>1, <3>1, TopIs DEF At
    <3> QED BY <3>2 DEF Deliver
  <2> QED BY <2>1
<1>12. ReturnedOnTop'
  <2>1. \A t \in Terminals : \A n \in 1 .. Len(frames'[t]) :
          frames'[t][n].stage = "returned" =>
            /\ t # running /\ n \in 1 .. Len(frames[t])
            /\ frames'[t] = frames[t]
    <3>1. \A t \in Terminals : t # running => frames'[t] = frames[t]
      BY <1>1, PushFrames
    <3> QED BY <1>4, <1>11, <3>1 DEF New
  <2> QED BY <2>1 DEF Lines, ReturnedOnTop
<1>13. ASSUME NEW t \in Terminals, NEW m \in 1 .. Len(frames'[t]),
              NEW n \in 1 .. Len(frames'[t]), m < n,
              frames'[t][m].irq = frames'[t][n].irq, frames'[t][m].irq # PIT
       PROVE  frames'[t][m].stage = "handled"
  <2>1. CASE New(t, n)
    <3>1. m \in 1 .. Len(frames[t]) /\ frames[t][m].irq = i /\ i # PIT
      BY <1>3, <1>4, <1>13, <2>1 DEF New
    <3>2. frames[t][m].stage \in Stages
      <4>1. frames[t] \in Seq(Frame)
        BY DEF Types, TypeOK, Frame
      <4>2. frames[t][m] \in Frame
        BY <3>1, <4>1
      <4> QED BY <4>2 DEF Frame
    <3>3. frames[t][m].stage \notin Pending
      BY <1>9, <3>1 DEF Of
    <3>4. frames[t][m].stage # "returned"
      BY <1>11, <2>1, <3>1 DEF New
    <3> QED BY <1>4, <3>1, <3>2, <3>3, <3>4 DEF Stages, Pending, Unacked
  <2>2. CASE ~New(t, n)
    <3>1. n \in 1 .. Len(frames[t])
      BY <1>4, <2>2
    <3>2. m \in 1 .. Len(frames[t])
      BY <1>4, <1>13, <3>1
    <3> QED BY <1>4, <1>13, <3>1, <3>2 DEF Lines, Fetched
  <2> QED BY <2>1, <2>2
<1> QED BY <1>6, <1>7, <1>8, <1>10, <1>12, <1>13
        DEF Lines, MaskIsOwned, Fetched

LEMMA RaiseLines ==
  ASSUME Types, Lines, NEW i \in Irqs, Raise(i)
  PROVE  Lines'
<1>1. /\ i \notin due /\ irr' = irr \cup {i} /\ due' = due \cup ({i} \ {PIT})
      /\ frames' = frames /\ mask' = mask /\ isr' = isr
      /\ running' = running /\ irq_handler' = irq_handler
  BY DEF Raise, system, set_up
<1>2. OneRequest'
  BY <1>1 DEF Lines, OneRequest, Of, PIT, KB, RTC
<1>3. MaskIsOwned' /\ TimerIsOwned'
  BY <1>1 DEF Lines, MaskIsOwned, TimerIsOwned, Stack
<1>4. InService'
  BY <1>1 DEF Lines, InService
<1>5. ReturnedOnTop' /\ Fetched'
  BY <1>1 DEF Lines, ReturnedOnTop, Fetched
<1> QED BY <1>2, <1>3, <1>4, <1>5 DEF Lines

\* set_interrupt() unmasks the line whose handler it installs, and what else
\* entry() does leaves the controller alone.
LEMMA EntryLines ==
  ASSUME Lines, Entry \/ OpenRtc \/ UNCHANGED vars
  PROVE  Lines'
<1>1. /\ mask' \cap irq_handler' \subseteq mask \cap irq_handler
      /\ frames' = frames /\ irr' = irr /\ isr' = isr /\ due' = due
      /\ running' = running
  BY DEF Entry, OpenRtc, InitializePit, SetKb, EnableSlave, InitTermis,
         InitRtc, FirstShell, SetInterrupt, GoOn, pic, system, set_up, vars
<1>2. MaskIsOwned' /\ TimerIsOwned'
  BY <1>1 DEF Lines, MaskIsOwned, TimerIsOwned, Stack
<1>3. InService' /\ OneRequest'
  BY <1>1 DEF Lines, InService, OneRequest
<1>4. ReturnedOnTop' /\ Fetched'
  BY <1>1 DEF Lines, ReturnedOnTop, Fetched
<1> QED BY <1>2, <1>3, <1>4 DEF Lines

LEMMA HandlerLines ==
  ASSUME Types, Lines, Kernel
  PROVE  Lines'
<1> USE DEF At, pic, system, set_up
<1>1. due \subseteq {KB, RTC} /\ PIT \notin {KB, RTC}
  BY DEF Types, TypeOK, PIT, KB, RTC
<1>2. CASE Fetch
  BY <1>1, <1>2, DeviceLines DEF Fetch
<1>3. CASE Tick
  BY <1>1, <1>3, DeviceLines DEF Tick
<1>4. CASE OpenTooEarly
  BY <1>1, <1>4, DeviceLines DEF OpenTooEarly
<1>5. ASSUME NEW t \in Terminals, OpenTerminal(t) \/ OpenTerminalFails(t)
      PROVE  Lines'
  BY <1>1, <1>5, DeviceLines DEF OpenTerminal, OpenTerminalFails
<1> QED BY <1>2, <1>3, <1>4, <1>5, DisableIrqLines, SendEoiLines, EnableIrqLines
        DEF Kernel

LEMMA LinesStep ==
  ASSUME Types, Places, Lines, [Next]_vars
  PROVE  Types' /\ Lines'
<1>1. CASE Kernel
  BY <1>1, HandlerTypes, HandlerLines
<1>2. ASSUME NEW i \in Irqs, Raise(i) \/ Deliver(i) PROVE Types' /\ Lines'
  BY <1>2, DeviceTypes, RaiseLines, DeliverLines
<1>3. CASE Entry \/ OpenRtc
  BY <1>3, EntryTypes, EntryLines
<1>4. CASE UNCHANGED vars
  <2>1. Types'
    BY <1>4 DEF vars, pic, system, set_up, Types, TypeOK
  <2> QED BY <1>4, <2>1, EntryLines
<1> QED BY <1>1, <1>2, <1>3, <1>4 DEF Next

LEMMA LinesInit == Init => Types /\ Places /\ Lines
<1> SUFFICES ASSUME Init PROVE Types /\ Places /\ Lines
  OBVIOUS
<1>1. 0 \in Terminals /\ Slack \in [Irqs -> 0 .. Burst]
  BY InterruptsAssumption DEF Terminals, Slack
<1>2. \A t \in Terminals : frames[t] = <<>> /\ 1 .. Len(frames[t]) = {}
  BY DEF Init
<1>3. Types /\ Places
  BY <1>1, <1>2 DEF Init, Types, TypeOK, Places, BootSteps
<1>4. Lines
  BY <1>1, <1>2 DEF Init, Lines, MaskIsOwned, TimerIsOwned, InService,
                    OneRequest, ReturnedOnTop, Fetched, Stack
<1> QED BY <1>3, <1>4

-----------------------------------------------------------------------------
(* The properties of the lines.                                            *)

LEMMA FramesOfStack ==
  ASSUME Types, NEW t \in Terminals
  PROVE  \A f : f \in Frames(t) <=> \E n \in 1 .. Len(frames[t]) : f = frames[t][n]
<1>1. frames[t] \in Seq(Frame)
  BY DEF Types, TypeOK, Frame
<1>2. DOMAIN frames[t] = 1 .. Len(frames[t])
  BY <1>1
<1> QED BY <1>2 DEF Frames, Range

LEMMA LinesImply ==
  ASSUME Types, Lines
  PROVE  TimerIsUnmasked /\ LinesHaveOwners
<1>1. TimerIsUnmasked
  BY FramesOfStack DEF Types, Lines, TimerIsOwned, TimerIsUnmasked, Stack, Of
<1>2. ASSUME NEW i \in mask \cap irq_handler
      PROVE  Owners(i, Stages \ {"entered"}) # {}
  <2>1. PICK t \in Terminals : \E n \in 1 .. Len(frames[t]) :
          Of(frames[t][n], i, Stages \ {"entered"})
    BY DEF Lines, MaskIsOwned
  <2> QED BY <2>1, FramesOfStack DEF Owners, Of
<1>3. ASSUME NEW i \in isr
      PROVE  \E t \in Terminals : Owners(i, {"entered", "masked"}) = {t}
  <2>1. i \in Irqs
    BY DEF Types, TypeOK
  <2>2. PICK t \in Terminals : \E n \in 1 .. Len(frames[t]) :
          Of(frames[t][n], i, Unacked)
    BY <2>1 DEF Lines, InService
  <2>3. \A u \in Terminals : \A m \in 1 .. Len(frames[u]) :
          Of(frames[u][m], i, Unacked) => u = t
    BY <2>1, <2>2 DEF Lines, InService
  <2>4. \A u \in Terminals :
          (\E f \in Frames(u) : f.irq = i /\ f.stage \in Unacked) <=> u = t
    BY <2>2, <2>3, FramesOfStack DEF Of
  <2> QED BY <2>4 DEF Owners, Unacked
<1> QED BY <1>1, <1>2, <1>3 DEF LinesHaveOwners

LEMMA LinesAlways == Spec => [](Types /\ Places /\ Lines)
<1>1. Types /\ Places /\ Lines /\ [Next]_vars => (Types /\ Places /\ Lines)'
  BY LinesStep, PlacesStep
<1> QED BY <1>1, LinesInit, PTL DEF Spec

\* The variables of the controller, of the stacks and of entry() keep their
\* types.
THEOREM InterruptTypes == Spec => []TypeOK
<1>1. Types => TypeOK
  BY DEF Types
<1> QED BY <1>1, LinesAlways, PTL

\* No process is resumed or started with the timer masked, whichever handler
\* it, or the process that was left, is in the middle of.
THEOREM TimerStaysUnmasked == Spec => []TimerIsUnmasked
<1>1. Types /\ Lines => TimerIsUnmasked
  BY LinesImply
<1> QED BY <1>1, LinesAlways, PTL

\* A masked line has a handler that will unmask it, and a line in service one
\* handler, and no other, that will acknowledge it, for any number of processes
\* that were left in the middle of one.
THEOREM LinesKeepOwners == Spec => []LinesHaveOwners
<1>1. Types /\ Lines => LinesHaveOwners
  BY LinesImply
<1> QED BY <1>1, LinesAlways, PTL

-----------------------------------------------------------------------------
(* Counting frames.                                                        *)

\* The handlers of line i among the first k frames of s; the keyboard's that
\* are on their way out are not counted.
Busy(s, i, k)   == {n \in 1 .. k : s[n].irq = i /\ s[n].stage # "returned"}
Nested(s, i, k) == Cardinality(Busy(s, i, k))
Count(s, i)     == Nested(s, i, Len(s))

LEMMA NestedTypes ==
  ASSUME NEW s, NEW i, NEW k \in Nat
  PROVE  /\ IsFiniteSet(Busy(s, i, k)) /\ Nested(s, i, k) \in Nat
         /\ k = 0 => Nested(s, i, k) <= 0
<1>1. IsFiniteSet(1 .. k)
  BY FS_Interval
<1>2. IsFiniteSet(Busy(s, i, k))
  BY <1>1, FS_Subset DEF Busy
<1>3. k = 0 => Busy(s, i, k) = {}
  BY DEF Busy
<1> QED BY <1>2, <1>3, FS_CardinalityType, FS_EmptySet DEF Nested

LEMMA NestedSame ==
  ASSUME NEW s, NEW r, NEW i, NEW k \in Nat,
         \A n \in 1 .. k : /\ r[n].irq = s[n].irq
                           /\ r[n].stage = "returned" <=> s[n].stage = "returned"
  PROVE  Nested(r, i, k) = Nested(s, i, k)
<1>1. Busy(r, i, k) = Busy(s, i, k)
  BY DEF Busy
<1> QED BY <1>1 DEF Nested

LEMMA NestedNext ==
  ASSUME NEW s, NEW i, NEW k \in Nat
  PROVE  /\ s[k + 1].irq = i /\ s[k + 1].stage # "returned" =>
              Nested(s, i, k + 1) = Nested(s, i, k) + 1
         /\ ~(s[k + 1].irq = i /\ s[k + 1].stage # "returned") =>
              Nested(s, i, k + 1) = Nested(s, i, k)
<1>1. IsFiniteSet(Busy(s, i, k)) /\ k + 1 \notin Busy(s, i, k)
  <2>1. k + 1 \notin 1 .. k
    OBVIOUS
  <2>2. k + 1 \notin Busy(s, i, k)
    BY <2>1 DEF Busy
  <2> QED BY <2>2, NestedTypes
<1>2. CASE s[k + 1].irq = i /\ s[k + 1].stage # "returned"
  <2>1. Busy(s, i, k + 1) = Busy(s, i, k) \cup {k + 1}
    BY <1>2 DEF Busy
  <2> QED BY <1>1, <1>2, <2>1, FS_AddElement DEF Nested
<1>3. CASE ~(s[k + 1].irq = i /\ s[k + 1].stage # "returned")
  <2>1. Busy(s, i, k + 1) = Busy(s, i, k)
    BY <1>3 DEF Busy
  <2> QED BY <1>3, <2>1 DEF Nested
<1> QED BY <1>2, <1>3

LEMMA CountAfterTop ==
  ASSUME Types, Stack # <<>>, Top.stage # "returned",
         NEW stage \in Stages, frames' = SetTop(stage)
  PROVE  /\ \A i : /\ Top.irq # i \/ stage # "returned" =>
                        Count(frames'[running], i) = Count(Stack, i)
                   /\ Top.irq = i /\ stage = "returned" =>
                        Count(Stack, i) = Count(frames'[running], i) + 1
         /\ \A i : \A p \in 1 .. Len(Stack) :
              Nested(frames'[running], i, p - 1) = Nested(Stack, i, p - 1)
<1> DEFINE s == frames'[running]
<1>1. Stack \in Seq(Frame)
  BY DEF Types, TypeOK, Stack, Frame
<1>2. PICK k \in Nat : k + 1 = Len(Stack)
  <2>1. PICK l \in Nat : l = Len(Stack)
    BY <1>1
  <2>2. l # 0
    BY <1>1, <2>1
  <2> QED BY <2>1, <2>2
<1>3. /\ Len(s) = k + 1
      /\ \A n \in 1 .. k : s[n] = Stack[n]
      /\ s[k + 1] = [irq |-> Top.irq, stage |-> stage]
  <2>1. 1 .. k = 1 .. Len(Stack) - 1 /\ running \in Terminals
    BY <1>2 DEF Types
  <2> QED BY <1>2, <2>1, SetTopFrames DEF Stack
<1>4. Stack[k + 1] = Top
  BY <1>2, TopIs DEF Stack
<1> HIDE DEF s
<1>5. \A j \in 0 .. k : \A i : Nested(s, i, j) = Nested(Stack, i, j)
  BY <1>3, NestedSame
<1>6. ASSUME NEW i
      PROVE  /\ Top.irq # i \/ stage # "returned" => Count(s, i) = Count(Stack, i)
             /\ Top.irq = i /\ stage = "returned" =>
                  Count(Stack, i) = Count(s, i) + 1
  <2>1. /\ Top.irq = i => Nested(Stack, i, k + 1) = Nested(Stack, i, k) + 1
        /\ Top.irq # i => Nested(Stack, i, k + 1) = Nested(Stack, i, k)
    BY <1>4, NestedNext
  <2>2. /\ Top.irq = i /\ stage # "returned" =>
             Nested(s, i, k + 1) = Nested(s, i, k) + 1
        /\ ~(Top.irq = i /\ stage # "returned") =>
             Nested(s, i, k + 1) = Nested(s, i, k)
    BY <1>3, NestedNext
  <2>3. Nested(s, i, k) = Nested(Stack, i, k)
    BY <1>5
  <2>4. Count(s, i) = Nested(s, i, k + 1)
    BY <1>3 DEF Count
  <2>5. Count(Stack, i) = Nested(Stack, i, k + 1)
    BY <1>2 DEF Count
  <2> QED BY <2>1, <2>2, <2>3, <2>4, <2>5
<1>7. ASSUME NEW i, NEW p \in 1 .. Len(Stack)
      PROVE  Nested(s, i, p - 1) = Nested(Stack, i, p - 1)
  <2>1. p - 1 \in 0 .. k
    BY <1>2
  <2> QED BY <1>5, <2>1
<1> QED BY <1>6, <1>7 DEF s

LEMMA CountAfterPush ==
  ASSUME Types, NEW j \in Irqs,
         frames' = [frames EXCEPT ![running] =
                      Append(@, [irq |-> j, stage |-> "entered"])]
  PROVE  /\ \A i \in Irqs :
              /\ i # j => Count(frames'[running], i) = Count(Stack, i)
              /\ i = j => Count(frames'[running], i) = Count(Stack, i) + 1
         /\ \A i : \A p \in 1 .. Len(Stack) + 1 :
              Nested(frames'[running], i, p - 1) = Nested(Stack, i, p - 1)
<1> DEFINE s == frames'[running]
<1>1. Stack \in Seq(Frame)
  BY DEF Types, TypeOK, Stack, Frame
<1>2. PICK k \in Nat : k = Len(Stack)
  BY <1>1
<1>3. /\ Len(s) = k + 1
      /\ \A n \in 1 .. k : s[n] = Stack[n]
      /\ s[k + 1] = [irq |-> j, stage |-> "entered"]
  BY <1>2, PushFrames
<1> HIDE DEF s
<1>4. \A l \in 0 .. k : \A i : Nested(s, i, l) = Nested(Stack, i, l)
  BY <1>3, NestedSame
<1>5. ASSUME NEW i \in Irqs
      PROVE  /\ i # j => Count(s, i) = Count(Stack, i)
             /\ i = j => Count(s, i) = Count(Stack, i) + 1
  <2>1. /\ i = j => Nested(s, i, k + 1) = Nested(s, i, k) + 1
        /\ i # j => Nested(s, i, k + 1) = Nested(s, i, k)
    BY <1>3, NestedNext
  <2>2. Nested(s, i, k) = Nested(Stack, i, k)
    BY <1>4
  <2>3. Count(s, i) = Nested(s, i, k + 1) /\ Count(Stack, i) = Nested(Stack, i, k)
    BY <1>2, <1>3 DEF Count
  <2> QED BY <2>1, <2>2, <2>3
<1>6. ASSUME NEW i, NEW p \in 1 .. Len(Stack) + 1
      PROVE  Nested(s, i, p - 1) = Nested(Stack, i, p - 1)
  <2>1. p - 1 \in 0 .. k
    BY <1>2
  <2> QED BY <1>4, <2>1
<1> QED BY <1>5, <1>6 DEF s

LEMMA CountAfterPop ==
  ASSUME Types, Stack # <<>>,
         frames' = [frames EXCEPT ![running] = Front(@)]
  PROVE  /\ \A i : /\ Top.irq = i /\ Top.stage # "returned" =>
                        Count(Stack, i) = Count(frames'[running], i) + 1
                   /\ ~(Top.irq = i /\ Top.stage # "returned") =>
                        Count(frames'[running], i) = Count(Stack, i)
         /\ \A i : \A p \in 1 .. Len(frames'[running]) :
              Nested(frames'[running], i, p - 1) = Nested(Stack, i, p - 1)
<1> DEFINE s == frames'[running]
<1>1. Stack \in Seq(Frame)
  BY DEF Types, TypeOK, Stack, Frame
<1>2. PICK k \in Nat : k + 1 = Len(Stack)
  <2>1. PICK l \in Nat : l = Len(Stack)
    BY <1>1
  <2>2. l # 0
    BY <1>1, <2>1
  <2> QED BY <2>1, <2>2
<1>3. Len(s) = k /\ \A n \in 1 .. k : s[n] = Stack[n]
  <2>1. 1 .. k = 1 .. Len(Stack) - 1
    BY <1>2
  <2> QED BY <1>2, <2>1, PopFrames
<1>4. Stack[k + 1] = Top
  BY <1>2, TopIs DEF Stack
<1> HIDE DEF s
<1>5. \A l \in 0 .. k : \A i : Nested(s, i, l) = Nested(Stack, i, l)
  BY <1>3, NestedSame
<1>6. ASSUME NEW i
      PROVE  /\ Top.irq = i /\ Top.stage # "returned" =>
                  Count(Stack, i) = Count(s, i) + 1
             /\ ~(Top.irq = i /\ Top.stage # "returned") =>
                  Count(s, i) = Count(Stack, i)
  <2>1. /\ Top.irq = i /\ Top.stage # "returned" =>
             Nested(Stack, i, k + 1) = Nested(Stack, i, k) + 1
        /\ ~(Top.irq = i /\ Top.stage # "returned") =>
             Nested(Stack, i, k + 1) = Nested(Stack, i, k)
    BY <1>4, NestedNext
  <2>2. Nested(s, i, k) = Nested(Stack, i, k)
    BY <1>5
  <2>3. Count(s, i) = Nested(s, i, k)
    BY <1>3 DEF Count
  <2>4. Count(Stack, i) = Nested(Stack, i, k + 1)
    BY <1>2 DEF Count
  <2> QED BY <2>1, <2>2, <2>3, <2>4
<1>7. ASSUME NEW i, NEW p \in 1 .. Len(s)
      PROVE  Nested(s, i, p - 1) = Nested(Stack, i, p - 1)
  <2>1. p - 1 \in 0 .. k
    BY <1>3
  <2> QED BY <1>5, <2>1
<1> QED BY <1>6, <1>7 DEF s

-----------------------------------------------------------------------------
(* What bounds the handlers of a device on a stack s.                      *)

\* No handler of line i can be entered on s before one that is there has
\* unmasked the line.
Closed(m, s, i) ==
  \/ /\ i \in m
     /\ \A n \in 1 .. Len(s) : ~(s[n].irq = i /\ s[n].stage = "returned")
  \/ \E n \in 1 .. Len(s) : s[n].irq = i /\ s[n].stage = "entered"

\* How many handlers of line i there may be on s before the process is left.
Ceiling(m, s, i) == IF Closed(m, s, i) THEN Count(s, i) ELSE Count(s, i) + 1

\* At most b handlers of line i are below a handler of the timer that is still
\* to switch to another process, and will be left with that process.
Under(s, i, b) ==
  \A p \in 1 .. Len(s) :
    s[p].irq = PIT /\ s[p].stage \in Pending => Nested(s, i, p - 1) <= b

LEMMA UnderIs ==
  ASSUME NEW s \in Seq(Frame), NEW i, NEW b \in Int, NEW c \in Int, b <= c
  PROVE  /\ Count(s, i) <= b => Under(s, i, b)
         /\ Under(s, i, b) => Under(s, i, c)
<1>1. Len(s) \in Nat
  OBVIOUS
<1>2. ASSUME NEW p \in 1 .. Len(s)
      PROVE  Nested(s, i, p - 1) \in Nat /\ Nested(s, i, p - 1) <= Count(s, i)
  <2>1. Busy(s, i, p - 1) \subseteq Busy(s, i, Len(s))
    BY <1>1 DEF Busy
  <2>2. IsFiniteSet(Busy(s, i, Len(s))) /\ p - 1 \in Nat
    BY <1>1, NestedTypes
  <2> QED BY <2>1, <2>2, NestedTypes, FS_Subset DEF Nested, Count
<1>3. Count(s, i) \in Nat
  BY <1>1, NestedTypes DEF Count
<1> QED BY <1>2, <1>3 DEF Under

LEMMA CountTypes ==
  ASSUME NEW s \in Seq(Frame), NEW i
  PROVE  /\ Count(s, i) \in Nat
         /\ \A m : /\ Ceiling(m, s, i) \in Nat
                   /\ Count(s, i) <= Ceiling(m, s, i)
                   /\ Ceiling(m, s, i) <= Count(s, i) + 1
         /\ s = <<>> => /\ Count(s, i) <= 0
                        /\ \A m : Ceiling(m, s, i) <= 1
                        /\ \A b : Under(s, i, b)
<1>1. Len(s) \in Nat
  OBVIOUS
<1>2. Count(s, i) \in Nat
  BY <1>1, NestedTypes DEF Count
<1>3. ASSUME s = <<>>
      PROVE  /\ Count(s, i) <= 0
             /\ \A b : Under(s, i, b)
  <2>1. Nested(<<>>, i, 0) <= 0
    BY NestedTypes
  <2>2. Len(<<>>) = 0
    OBVIOUS
  <2>3. Count(<<>>, i) = Nested(<<>>, i, 0)
    BY <2>2 DEF Count
  <2> QED BY <1>3, <2>1, <2>2, <2>3 DEF Under
<1> QED BY <1>2, <1>3 DEF Ceiling

\* A handler's step to the next stage leaves the bounds as they are: the line
\* of a handler that is on its way out is unmasked, but that one is not counted.
LEMMA TopKept ==
  ASSUME Types, Types', ReturnedOnTop, Stack # <<>>, Top.stage \in Pending,
         NEW stage \in Stages \ {"entered"}, frames' = SetTop(stage),
         Top.stage = "entered" => Top.irq \in mask',
         NEW i \in Irqs
  PROVE  /\ i \in mask' \/ i \notin mask \/ (stage = "returned" /\ Top.irq = i)
              => Ceiling(mask', frames'[running], i) <= Ceiling(mask, Stack, i)
         /\ Count(frames'[running], i) <= Count(Stack, i)
         /\ \A b : Under(Stack, i, b) => Under(frames'[running], i, b)
<1> DEFINE s == frames'[running]
<1>1. /\ Len(frames[running]) \in Nat /\ Len(frames[running]) # 0
      /\ Top = frames[running][Len(frames[running])]
      /\ running \in Terminals /\ Top.stage # "returned"
  BY TopIs DEF Types, Pending, Unacked
<1>2. /\ Len(s) = Len(Stack)
      /\ \A n \in 1 .. Len(Stack) :
           /\ s[n].irq = Stack[n].irq
           /\ s[n].stage = IF n = Len(Stack) THEN stage ELSE Stack[n].stage
  BY <1>1, FramesAfterTop DEF Stack
<1>3. /\ Top.irq # i \/ stage # "returned" => Count(s, i) = Count(Stack, i)
      /\ Top.irq = i /\ stage = "returned" => Count(Stack, i) = Count(s, i) + 1
      /\ \A p \in 1 .. Len(Stack) :
           Nested(s, i, p - 1) = Nested(Stack, i, p - 1)
  BY <1>1, CountAfterTop
<1>4. /\ Count(s, i) \in Nat /\ Count(Stack, i) \in Nat
  <2>1. Len(s) \in Nat /\ Len(Stack) \in Nat
    BY <1>1, <1>2 DEF Stack
  <2> QED BY <2>1, NestedTypes DEF Count
<1>5. Count(s, i) <= Count(Stack, i)
  BY <1>3, <1>4
<1>6. ASSUME NEW b, Under(Stack, i, b) PROVE Under(s, i, b)
  <2>1. \A p \in 1 .. Len(Stack) :
          s[p].stage \in Pending => Stack[p].stage \in Pending
    BY <1>1, <1>2 DEF Stack
  <2> QED BY <1>2, <1>3, <1>6, <2>1 DEF Under
<1>7. ASSUME i \in mask' \/ i \notin mask \/ (stage = "returned" /\ Top.irq = i)
      PROVE  Ceiling(mask', s, i) <= Ceiling(mask, Stack, i)
  <2>1. CASE stage = "returned" /\ Top.irq = i
    BY <1>3, <1>4, <2>1 DEF Ceiling
  <2>2. CASE ~(stage = "returned" /\ Top.irq = i)
    <3>1. \A n \in 1 .. Len(s) : ~(s[n].irq = i /\ s[n].stage = "returned")
      BY <1>1, <1>2, <2>2 DEF ReturnedOnTop, Stack
    <3>2. Closed(mask, Stack, i) => Closed(mask', s, i)
      <4>1. CASE i \in mask
        BY <1>7, <2>2, <3>1, <4>1 DEF Closed
      <4>2. CASE \E n \in 1 .. Len(Stack) :
                   Stack[n].irq = i /\ Stack[n].stage = "entered"
        <5>1. PICK n \in 1 .. Len(Stack) :
                Stack[n].irq = i /\ Stack[n].stage = "entered"
          BY <4>2
        <5>2. CASE n = Len(Stack)
          BY <1>1, <3>1, <5>1, <5>2 DEF Closed, Stack
        <5>3. CASE n # Len(Stack)
          BY <1>2, <5>1, <5>3 DEF Closed
        <5> QED BY <5>2, <5>3
      <4> QED BY <4>1, <4>2 DEF Closed
    <3> QED BY <1>3, <1>4, <2>2, <3>2 DEF Ceiling
  <2> QED BY <2>1, <2>2
<1> QED BY <1>5, <1>6, <1>7 DEF s

LEMMA PopKept ==
  ASSUME Types, Types', EnableIrq, NEW i \in Irqs
  PROVE  /\ Ceiling(mask', frames'[running], i) <= Ceiling(mask, Stack, i)
         /\ Count(frames'[running], i) <= Count(Stack, i)
         /\ \A b : Under(Stack, i, b) => Under(frames'[running], i, b)
<1> DEFINE s == frames'[running]
<1>1. /\ Stack # <<>> /\ Top.stage \in {"handled", "returned"}
      /\ mask' = mask \ {Top.irq}
      /\ frames' = [frames EXCEPT ![running] = Front(@)]
  BY DEF EnableIrq, At
<1>2. /\ Len(frames[running]) \in Nat /\ Len(frames[running]) # 0
      /\ Top = frames[running][Len(frames[running])]
      /\ running \in Terminals
  BY <1>1, TopIs DEF Types
<1>3. \A n \in Nat :
        /\ n \in 1 .. Len(s) <=> n \in 1 .. Len(Stack) /\ n # Len(Stack)
        /\ n \in 1 .. Len(s) => s[n] = Stack[n]
  BY <1>1, <1>2, FramesAfterPop DEF Stack
<1>4. /\ Top.irq = i /\ Top.stage # "returned" =>
           Count(Stack, i) = Count(s, i) + 1
      /\ ~(Top.irq = i /\ Top.stage # "returned") => Count(s, i) = Count(Stack, i)
      /\ \A p \in 1 .. Len(s) : Nested(s, i, p - 1) = Nested(Stack, i, p - 1)
  BY <1>1, CountAfterPop
<1>5. /\ Count(s, i) \in Nat /\ Count(Stack, i) \in Nat
  <2>1. Len(Stack) \in Nat
    BY <1>2 DEF Stack
  <2>2. Len(s) \in Nat
    BY <1>2 DEF Types, TypeOK
  <2> QED BY <2>1, <2>2, NestedTypes DEF Count
<1>6. Count(s, i) <= Count(Stack, i)
  BY <1>4, <1>5
<1>7. ASSUME NEW b, Under(Stack, i, b) PROVE Under(s, i, b)
  <2>1. ASSUME NEW p \in 1 .. Len(s), s[p].irq = PIT, s[p].stage \in Pending
        PROVE  Nested(s, i, p - 1) <= b
    <3>1. p \in 1 .. Len(Stack) /\ s[p] = Stack[p]
      BY <1>3
    <3> QED BY <1>4, <1>7, <2>1, <3>1 DEF Under
  <2> QED BY <2>1 DEF Under
<1>8. Ceiling(mask', s, i) <= Ceiling(mask, Stack, i)
  <2>1. CASE Top.irq = i /\ Top.stage # "returned"
    BY <1>4, <1>5, <2>1 DEF Ceiling
  <2>2. CASE ~(Top.irq = i /\ Top.stage # "returned")
    <3>1. Closed(mask, Stack, i) => Closed(mask', s, i)
      <4>1. CASE \E n \in 1 .. Len(Stack) :
                   Stack[n].irq = i /\ Stack[n].stage = "entered"
        <5>1. PICK n \in 1 .. Len(Stack) :
                Stack[n].irq = i /\ Stack[n].stage = "entered"
          BY <4>1
        <5>2. n # Len(Stack)
          BY <1>1, <1>2, <5>1 DEF Stack
        <5> QED BY <1>3, <5>1, <5>2 DEF Closed
      <4>2. CASE /\ i \in mask
                 /\ \A n \in 1 .. Len(Stack) :
                      ~(Stack[n].irq = i /\ Stack[n].stage = "returned")
        <5>1. Len(Stack) \in 1 .. Len(Stack) /\ Top = Stack[Len(Stack)]
          BY <1>2 DEF Stack
        <5>2. i \in mask'
          BY <1>1, <2>2, <4>2, <5>1
        <5> QED BY <1>3, <4>2, <5>2 DEF Closed
      <4> QED BY <4>1, <4>2 DEF Closed
    <3> QED BY <1>4, <1>5, <2>2, <3>1 DEF Ceiling
  <2> QED BY <2>1, <2>2
<1> QED BY <1>6, <1>7, <1>8 DEF s

LEMMA DeliverKept ==
  ASSUME Types, Types', InService, NEW j \in Irqs, Deliver(j), NEW i \in Irqs
  PROVE  /\ Ceiling(mask', frames'[running], i) <= Ceiling(mask, Stack, i)
         /\ i # j => Count(frames'[running], i) <= Count(Stack, i)
         /\ Count(frames'[running], i) <= Count(Stack, i) + 1
         /\ \A b : /\ Under(Stack, i, b)
                   /\ j = PIT => Count(Stack, i) <= b
                   => Under(frames'[running], i, b)
<1> DEFINE s == frames'[running]
           f == [irq |-> j, stage |-> "entered"]
<1>1. /\ j \in irr \ mask /\ \A k \in isr : j < k
      /\ mask' = mask
      /\ frames' = [frames EXCEPT ![running] =
                      Append(@, [irq |-> j, stage |-> "entered"])]
  BY DEF Deliver, Deliverable
<1>2. running \in Terminals /\ Len(Stack) \in Nat
  BY DEF Types, TypeOK, Stack
<1>3. \A n \in Nat :
        /\ n \in 1 .. Len(s) <=> n \in 1 .. Len(Stack) \/ n = Len(Stack) + 1
        /\ n \in 1 .. Len(Stack) => s[n] = Stack[n]
        /\ n = Len(Stack) + 1 => s[n] = f
  BY ZenonT(60), <1>1, <1>2, FramesAfterPush DEF Stack
<1>4. /\ i # j => Count(s, i) = Count(Stack, i)
      /\ i = j => Count(s, i) = Count(Stack, i) + 1
      /\ \A p \in 1 .. Len(Stack) + 1 :
           Nested(s, i, p - 1) = Nested(Stack, i, p - 1)
  BY <1>1, CountAfterPush
<1>5. /\ Count(s, i) \in Nat /\ Count(Stack, i) \in Nat
  <2>1. Len(s) \in Nat
    BY <1>2 DEF Types, TypeOK
  <2> QED BY <1>2, <2>1, NestedTypes DEF Count
<1>6. /\ i # j => Count(s, i) <= Count(Stack, i)
      /\ Count(s, i) <= Count(Stack, i) + 1
  BY <1>4, <1>5
<1>7. f.irq = j /\ f.stage = "entered"
  OBVIOUS
<1> HIDE DEF f
<1>8. ASSUME NEW b, Under(Stack, i, b), j = PIT => Count(Stack, i) <= b
      PROVE  Under(s, i, b)
  <2>1. ASSUME NEW p \in 1 .. Len(s), s[p].irq = PIT, s[p].stage \in Pending
        PROVE  Nested(s, i, p - 1) <= b
    <3>1. CASE p \in 1 .. Len(Stack)
      BY <1>2, <1>3, <1>4, <1>8, <2>1, <3>1 DEF Under
    <3>2. CASE p = Len(Stack) + 1
      <4>1. j = PIT
        BY <1>2, <1>3, <1>7, <2>1, <3>2
      <4>2. Nested(s, i, p - 1) = Nested(Stack, i, Len(Stack))
        BY <1>2, <1>4, <3>2
      <4> QED BY <1>8, <4>1, <4>2 DEF Count
    <3> QED BY <1>3, <2>1, <3>1, <3>2
  <2> QED BY <2>1 DEF Under
<1>9. Ceiling(mask', s, i) <= Ceiling(mask, Stack, i)
  <2>1. CASE i = j
    <3>1. ~Closed(mask, Stack, i)
      <4>1. i \notin isr
        BY <1>1, <2>1 DEF Irqs, PIT, KB, RTC
      <4>2. \A n \in 1 .. Len(Stack) :
              ~(Stack[n].irq = i /\ Stack[n].stage = "entered")
        BY <1>2, <4>1 DEF InService, Of, Unacked, Stack
      <4> QED BY <1>1, <2>1, <4>2 DEF Closed
    <3>2. Closed(mask', s, i)
      <4>1. Len(Stack) + 1 \in 1 .. Len(s) /\ s[Len(Stack) + 1] = f
        BY <1>2, <1>3
      <4> QED BY <1>7, <2>1, <4>1 DEF Closed
    <3> QED BY <1>4, <1>5, <2>1, <3>1, <3>2 DEF Ceiling
  <2>2. CASE i # j
    <3>1. Closed(mask, Stack, i) => Closed(mask', s, i)
      <4>1. CASE \E n \in 1 .. Len(Stack) :
                   Stack[n].irq = i /\ Stack[n].stage = "entered"
        BY <1>3, <4>1 DEF Closed
      <4>2. CASE /\ i \in mask
                 /\ \A n \in 1 .. Len(Stack) :
                      ~(Stack[n].irq = i /\ Stack[n].stage = "returned")
        <5>1. \A n \in 1 .. Len(s) :
                ~(s[n].irq = i /\ s[n].stage = "returned")
          BY <1>2, <1>3, <1>7, <4>2
        <5> QED BY <1>1, <4>2, <5>1 DEF Closed
      <4> QED BY <4>1, <4>2 DEF Closed
    <3> QED BY <1>4, <1>5, <2>2, <3>1 DEF Ceiling
  <2> QED BY <2>1, <2>2
<1> QED BY <1>6, <1>8, <1>9 DEF s

-----------------------------------------------------------------------------
(* The bound: one more handler for every terminal that has been shown.     *)

\* The timer has asked, or may ask, for a switch that is still to come.
Token    == slack[PIT] > 0 \/ PIT \in irr
OneToken == slack[PIT] <= 1 /\ ~(slack[PIT] > 0 /\ PIT \in irr)

Devices == {KB, RTC}
AtLeastOne(k) == IF k < 1 THEN 1 ELSE k

\* With n terminals shown, a process that was left has at most n - 1 handlers
\* of a device on its stack, and the one that runs at most n.  A process is
\* left in a handler of the timer, which took the place of the last switch that
\* was asked for, or in one of the keyboard that shows another terminal.
TicksBounded(fr, r, n, token) ==
  /\ \A t \in Terminals : Count(fr[t], PIT) <= AtLeastOne(n - 1)
  /\ token => \/ Count(fr[r], PIT) <= 0
              \/ \A t \in Terminals : Count(fr[t], PIT) <= n - 2

LeftBounded(fr, r, n, token) ==
  \A i \in Devices :
    /\ \A t \in Terminals \ {r} :
         Count(fr[t], i) <= 0 \/ Count(fr[t], i) <= n - 1
    /\ token => \/ Count(fr[r], PIT) <= 0
                \/ \A t \in Terminals \ {r} : Count(fr[t], i) <= n - 2

RunningBounded(fr, r, m, n, token) ==
  \A i \in Devices :
    /\ Ceiling(m, fr[r], i) <= AtLeastOne(n)
    /\ Under(fr[r], i, AtLeastOne(n - 1))
    /\ token => /\ Ceiling(m, fr[r], i) <= AtLeastOne(n - 1)
                /\ Under(fr[r], i, n - 2)

Bounded(fr, r, m, n, token) ==
  /\ TicksBounded(fr, r, n, token) /\ LeftBounded(fr, r, n, token)
  /\ RunningBounded(fr, r, m, n, token)

\* A token is used up by the handler of the timer that it asks for, and there
\* is no other before the CPU has nothing to do.
LEMMA TokenStep ==
  ASSUME Types, OneToken, [Next]_vars
  PROVE  /\ OneToken'
         /\ Token' /\ Stack' # <<>> => Token /\ ~Deliver(PIT)
<1>1. Slack[PIT] = 1
  BY DEF Slack, PIT, KB, Irqs
<1>2. slack \in [Irqs -> 0 .. Burst] /\ PIT \in Irqs
  BY DEF Types, TypeOK, Irqs
<1>3. ASSUME NEW left \in [Irqs -> Int], Rest(left)
      PROVE  slack'[PIT] = IF Calm' /\ PIT \notin irr' THEN 1 ELSE left[PIT]
  BY <1>1, <1>2, <1>3 DEF Rest
<1>4. Calm' => Stack' = <<>>
  BY DEF Calm
<1>5. slack[PIT] \in 0 .. Burst /\ slack \in [Irqs -> Int]
  BY <1>2
<1>6. CASE Raise(PIT)
  <2>1. slack[PIT] > 0 /\ PIT \in irr'
    BY <1>6 DEF Raise
  <2>2. slack'[PIT] = slack[PIT] - 1
    <3>1. [slack EXCEPT ![PIT] = @ - 1] \in [Irqs -> Int]
      BY <1>2
    <3>2. [slack EXCEPT ![PIT] = @ - 1][PIT] = slack[PIT] - 1
      BY <1>2
    <3>3. Rest([slack EXCEPT ![PIT] = @ - 1])
      BY <1>6 DEF Raise
    <3> QED BY <1>3, <2>1, <3>1, <3>2, <3>3
  <2>3. ~Deliver(PIT)
    <3>1. irr' = irr \cup {PIT}
      BY <1>6 DEF Raise
    <3> QED BY <3>1 DEF Deliver, Deliverable
  <2> QED BY <1>5, <2>1, <2>2, <2>3 DEF OneToken, Token
<1>7. CASE UNCHANGED vars
  <2>1. slack' = slack /\ irr' = irr
    BY <1>7 DEF vars, pic
  <2>2. ~Deliver(PIT)
    BY <2>1 DEF Deliver, Deliverable
  <2> QED BY <2>1, <2>2 DEF OneToken, Token
<1>8. ASSUME ~Raise(PIT), Next
      PROVE  /\ slack'[PIT] = IF Calm' /\ PIT \notin irr' THEN 1 ELSE slack[PIT]
             /\ PIT \in irr' => PIT \in irr
             /\ PIT \in irr \ irr' <=> Deliver(PIT)
             /\ Deliver(PIT) => PIT \in irr
  <2>1. ASSUME NEW i \in Irqs \ {PIT}, Raise(i)
        PROVE  /\ slack'[PIT] =
                    IF Calm' /\ PIT \notin irr' THEN 1 ELSE slack[PIT]
               /\ PIT \in irr' <=> PIT \in irr
    <3>1. /\ [slack EXCEPT ![i] = @ - 1] \in [Irqs -> Int]
          /\ [slack EXCEPT ![i] = @ - 1][PIT] = slack[PIT]
      BY <1>2
    <3>2. Rest([slack EXCEPT ![i] = @ - 1]) /\ irr' = irr \cup {i}
      BY <2>1 DEF Raise
    <3> QED BY <1>3, <3>1, <3>2
  <2>2. ASSUME NEW i \in Irqs, Deliver(i)
        PROVE  Rest(slack) /\ irr' = irr \ {i} /\ i \in irr
    BY <2>2 DEF Deliver, Deliverable
  <2>3. ASSUME Kernel \/ Entry \/ OpenRtc
        PROVE  Rest(slack) /\ irr' = irr
    BY <2>3 DEF Kernel, DisableIrq, SendEoi, EnableIrq, Fetch, Tick,
                OpenTerminal, OpenTerminalFails, OpenTooEarly, Entry, OpenRtc,
                InitializePit, SetKb, EnableSlave, InitTermis, InitRtc,
                FirstShell, SetInterrupt, pic
  <2>4. Deliver(PIT) => PIT \in irr /\ PIT \notin irr'
    BY DEF Deliver, Deliverable
  <2>5. CASE \E i \in Irqs : Raise(i)
    BY <1>8, <2>1, <2>4, <2>5
  <2>6. CASE \E i \in Irqs : Deliver(i)
    BY <1>2, <1>3, <1>5, <2>2, <2>4, <2>6
  <2>7. CASE Kernel \/ Entry \/ OpenRtc
    BY <1>3, <1>5, <2>3, <2>4, <2>7
  <2> QED BY <1>8, <2>5, <2>6, <2>7 DEF Next
<1>9. CASE ~Raise(PIT) /\ Next
  BY <1>4, <1>5, <1>8, <1>9 DEF OneToken, Token
<1> QED BY <1>6, <1>7, <1>9

\* The same process goes on, or entry() does.
LEMMA StayBounded ==
  ASSUME NEW f \in [Terminals -> Seq(Frame)], NEW r \in Terminals, NEW m,
         NEW n \in Nat, NEW a, Bounded(f, r, m, n, a),
         NEW g \in [Terminals -> Seq(Frame)], NEW l, NEW b,
         \A t \in Terminals : t # r => g[t] = f[t],
         Count(g[r], PIT) <= Count(f[r], PIT),
         \A i \in Devices : \A k : Under(f[r], i, k) => Under(g[r], i, k),
         \A i \in Devices :
           Ceiling(l, g[r], i) <= Ceiling(m, f[r], i) \/ g[r] = <<>>,
         b => g[r] = <<>> \/ a
  PROVE  Bounded(g, r, l, n, b)
<1>1. \A t \in Terminals : \A i : Count(f[t], i) \in Nat /\ Count(g[t], i) \in Nat
  BY CountTypes
<1>2. /\ \A i : Ceiling(m, f[r], i) \in Nat /\ Ceiling(l, g[r], i) \in Nat
      /\ g[r] = <<>> => \A i : /\ Count(g[r], i) <= 0
                               /\ Ceiling(l, g[r], i) <= 1
                               /\ \A k : Under(g[r], i, k)
  BY CountTypes
<1>3. TicksBounded(g, r, n, b)
  <2>1. \A t \in Terminals : Count(g[t], PIT) <= Count(f[t], PIT)
    BY <1>1
  <2>2. AtLeastOne(n - 1) \in Int
    BY DEF AtLeastOne
  <2>3. \A t \in Terminals : Count(g[t], PIT) <= AtLeastOne(n - 1)
    BY <1>1, <2>1, <2>2 DEF Bounded, TicksBounded
  <2>4. ASSUME b, ~(Count(g[r], PIT) <= 0)
        PROVE  \A t \in Terminals : Count(g[t], PIT) <= n - 2
    <3>1. a /\ ~(Count(f[r], PIT) <= 0)
      BY <1>1, <1>2, <2>4
    <3>2. \A t \in Terminals : Count(f[t], PIT) <= n - 2
      BY <3>1 DEF Bounded, TicksBounded
    <3> QED BY <1>1, <2>1, <3>2
  <2> QED BY <2>3, <2>4 DEF TicksBounded
<1>4. LeftBounded(g, r, n, b)
  BY <1>1, <1>2 DEF Bounded, LeftBounded
<1>5. RunningBounded(g, r, l, n, b)
  BY <1>2 DEF Bounded, RunningBounded, AtLeastOne
<1> QED BY <1>3, <1>4, <1>5 DEF Bounded

LEMMA NoFramesBounded ==
  ASSUME NEW g \in [Terminals -> Seq(Frame)], NEW r \in Terminals, NEW l,
         NEW n \in Nat, NEW b, \A t \in Terminals : g[t] = <<>>
  PROVE  Bounded(g, r, l, n, b)
<1>1. \A t \in Terminals : \A i :
        /\ Count(g[t], i) \in Nat /\ Count(g[t], i) <= 0
        /\ Ceiling(l, g[t], i) \in Nat /\ Ceiling(l, g[t], i) <= 1
        /\ \A k : Under(g[t], i, k)
  BY CountTypes
<1>2. \A k \in Int : 1 <= AtLeastOne(k) /\ AtLeastOne(k) \in Int
  BY DEF AtLeastOne
<1>3. TicksBounded(g, r, n, b)
  BY <1>1, <1>2 DEF TicksBounded
<1>4. LeftBounded(g, r, n, b)
  BY <1>1 DEF LeftBounded
<1>5. RunningBounded(g, r, l, n, b)
  <2>1. /\ AtLeastOne(n) \in Int /\ 1 <= AtLeastOne(n)
        /\ AtLeastOne(n - 1) \in Int /\ 1 <= AtLeastOne(n - 1)
    BY <1>2
  <2>2. ASSUME NEW i \in Devices
        PROVE  /\ Ceiling(l, g[r], i) <= AtLeastOne(n)
               /\ Ceiling(l, g[r], i) <= AtLeastOne(n - 1)
    <3>1. Ceiling(l, g[r], i) \in Nat /\ Ceiling(l, g[r], i) <= 1
      BY <1>1
    <3> QED BY <2>1, <3>1
  <2> QED BY <1>1, <2>2 DEF RunningBounded
<1> QED BY <1>3, <1>4, <1>5 DEF Bounded

\* The handler of the timer is entered, with the token.
LEMMA TimerBounded ==
  ASSUME NEW f \in [Terminals -> Seq(Frame)], NEW r \in Terminals, NEW m,
         NEW n \in Nat, NEW a, a, Bounded(f, r, m, n, a),
         NEW g \in [Terminals -> Seq(Frame)], NEW l, NEW b, ~b,
         \A t \in Terminals : t # r => g[t] = f[t],
         Count(g[r], PIT) <= Count(f[r], PIT) + 1,
         \A i \in Devices : \A k :
           Under(f[r], i, k) /\ Count(f[r], i) <= k => Under(g[r], i, k),
         \A i \in Devices : Ceiling(l, g[r], i) <= Ceiling(m, f[r], i)
  PROVE  Bounded(g, r, l, n, b)
<1>1. \A t \in Terminals : \A i : Count(f[t], i) \in Nat /\ Count(g[t], i) \in Nat
  BY CountTypes
<1>2. \A i : /\ Ceiling(m, f[r], i) \in Nat /\ Ceiling(l, g[r], i) \in Nat
             /\ Count(f[r], i) <= Ceiling(m, f[r], i)
  BY CountTypes
<1>3. /\ AtLeastOne(n - 1) \in Int /\ AtLeastOne(n) \in Int
      /\ 1 <= AtLeastOne(n - 1) /\ n - 1 <= AtLeastOne(n - 1)
  BY DEF AtLeastOne
<1>4. TicksBounded(g, r, n, b)
  <2>1. Count(g[r], PIT) <= AtLeastOne(n - 1)
    BY <1>1, <1>3 DEF Bounded, TicksBounded
  <2>2. ASSUME NEW t \in Terminals PROVE Count(g[t], PIT) <= AtLeastOne(n - 1)
    BY <2>1 DEF Bounded, TicksBounded
  <2> QED BY <2>2 DEF TicksBounded
<1>5. LeftBounded(g, r, n, b)
  BY DEF Bounded, LeftBounded
<1>6. ASSUME NEW i \in Devices
      PROVE  /\ Ceiling(l, g[r], i) <= AtLeastOne(n)
             /\ Under(g[r], i, AtLeastOne(n - 1))
  <2>1. Ceiling(l, g[r], i) <= AtLeastOne(n)
    BY <1>2, <1>3 DEF Bounded, RunningBounded
  <2>2. Count(f[r], i) <= AtLeastOne(n - 1)
    BY <1>1, <1>2, <1>3 DEF Bounded, RunningBounded
  <2> QED BY <2>1, <2>2 DEF Bounded, RunningBounded
<1> QED BY <1>4, <1>5, <1>6 DEF Bounded, RunningBounded

\* The timer's handler on r gives the CPU to v.
LEMMA SwitchBounded ==
  ASSUME NEW f \in [Terminals -> Seq(Frame)], NEW r \in Terminals, NEW m,
         NEW n \in Nat, NEW a, Bounded(f, r, m, n, a),
         NEW g \in [Terminals -> Seq(Frame)], NEW v \in Terminals, NEW l, NEW b,
         v # r, n >= 2,
         \A t \in Terminals : t # r => g[t] = f[t],
         Count(g[r], PIT) <= Count(f[r], PIT), Count(f[r], PIT) >= 1,
         \A i \in Devices : \A k : Under(f[r], i, k) => Count(g[r], i) <= k,
         b => g[v] = <<>> \/ a
  PROVE  Bounded(g, v, l, n, b)
<1>1. \A t \in Terminals : \A i : Count(f[t], i) \in Nat /\ Count(g[t], i) \in Nat
  BY CountTypes
<1>2. AtLeastOne(n - 1) = n - 1 /\ AtLeastOne(n) = n
  BY DEF AtLeastOne
<1>3. g[v] = <<>> => \A i : /\ Count(g[v], i) <= 0
                            /\ Ceiling(l, g[v], i) <= 1
                            /\ \A k : Under(g[v], i, k)
  BY CountTypes
<1>4. ASSUME b, g[v] # <<>>
      PROVE  /\ \A t \in Terminals : Count(f[t], PIT) <= n - 2
             /\ \A i \in Devices : \A t \in Terminals : Count(g[t], i) <= n - 2
  <2>1. a /\ ~(Count(f[r], PIT) <= 0)
    BY <1>1, <1>4
  <2>2. \A t \in Terminals : Count(f[t], PIT) <= n - 2
    BY <2>1 DEF Bounded, TicksBounded
  <2>3. ASSUME NEW i \in Devices
        PROVE  \A t \in Terminals : Count(g[t], i) <= n - 2
    <3>1. \A t \in Terminals \ {r} : Count(f[t], i) <= n - 2
      BY <2>1 DEF Bounded, LeftBounded
    <3>2. Count(g[r], i) <= n - 2
      BY <2>1 DEF Bounded, RunningBounded
    <3> QED BY <3>1, <3>2
  <2> QED BY <2>2, <2>3
<1>5. ASSUME NEW t \in Terminals PROVE Count(g[t], PIT) <= Count(f[t], PIT)
  <2>1. CASE t = r
    BY <2>1
  <2>2. CASE t # r
    <3>1. g[t] = f[t] /\ Count(f[t], PIT) \in Nat
      BY <1>1, <2>2
    <3> QED BY <3>1
  <2> QED BY <2>1, <2>2
<1>6. TicksBounded(g, v, n, b)
  <2>1. \A t \in Terminals : Count(f[t], PIT) <= n - 1
    BY <1>2 DEF Bounded, TicksBounded
  <2>2. \A t \in Terminals : Count(g[t], PIT) <= AtLeastOne(n - 1)
    BY <1>1, <1>2, <1>5, <2>1
  <2>3. b => \/ Count(g[v], PIT) <= 0
             \/ \A t \in Terminals : Count(g[t], PIT) <= n - 2
    BY <1>1, <1>3, <1>4, <1>5
  <2> QED BY <2>2, <2>3 DEF TicksBounded
<1>7. \A i \in Devices : \A t \in Terminals : Count(g[t], i) <= n - 1
  <2>1. ASSUME NEW i \in Devices, NEW t \in Terminals \ {r}
        PROVE  Count(g[t], i) <= n - 1
    <3>1. Count(f[t], i) <= 0 \/ Count(f[t], i) <= n - 1
      BY <2>1 DEF Bounded, LeftBounded
    <3> QED BY <1>1, <3>1
  <2>2. ASSUME NEW i \in Devices PROVE Count(g[r], i) <= n - 1
    BY <1>2, <2>2 DEF Bounded, RunningBounded
  <2> QED BY <2>1, <2>2
<1>8. LeftBounded(g, v, n, b)
  BY <1>3, <1>4, <1>7 DEF LeftBounded
<1>9. ASSUME NEW i \in Devices
      PROVE  /\ Ceiling(l, g[v], i) <= AtLeastOne(n)
             /\ Under(g[v], i, AtLeastOne(n - 1))
             /\ b => /\ Ceiling(l, g[v], i) <= AtLeastOne(n - 1)
                     /\ Under(g[v], i, n - 2)
  <2>1. /\ Ceiling(l, g[v], i) \in Nat
        /\ Ceiling(l, g[v], i) <= Count(g[v], i) + 1
    BY CountTypes
  <2>2. Count(g[v], i) <= n - 1 /\ Count(g[v], i) \in Nat
    BY <1>1, <1>7
  <2>3. Ceiling(l, g[v], i) <= n
    BY <2>1, <2>2
  <2>4. Under(g[v], i, n - 1)
    BY <2>2, UnderIs
  <2>5. ASSUME b, g[v] # <<>>
        PROVE  Ceiling(l, g[v], i) <= n - 1 /\ Under(g[v], i, n - 2)
    <3>1. Count(g[v], i) <= n - 2
      BY <1>4, <2>5
    <3>2. Under(g[v], i, n - 2)
      BY <3>1, UnderIs
    <3> QED BY <2>1, <2>2, <3>1, <3>2
  <2>6. ASSUME g[v] = <<>>
        PROVE  Ceiling(l, g[v], i) <= n - 1 /\ Under(g[v], i, n - 2)
    BY <1>3, <2>1, <2>6
  <2> QED BY <1>2, <2>3, <2>4, <2>5, <2>6
<1> QED BY <1>6, <1>8, <1>9 DEF Bounded, RunningBounded

\* The keyboard's handler on r has shown another terminal and gives the CPU to
\* v, which is another process, a new one, or r again.
LEMMA ShowBounded ==
  ASSUME NEW f \in [Terminals -> Seq(Frame)], NEW r \in Terminals, NEW m,
         NEW n \in Nat, NEW a, Bounded(f, r, m, n, a),
         NEW g \in [Terminals -> Seq(Frame)], NEW v \in Terminals, NEW l, NEW b,
         n >= 1, v = r \/ n >= 2 \/ g[v] = <<>>,
         \A t \in Terminals : t # r => g[t] = f[t],
         Count(g[r], PIT) <= Count(f[r], PIT),
         \A i \in Devices : \A k : Under(f[r], i, k) => Under(g[r], i, k),
         \A i \in Devices : Ceiling(l, g[r], i) <= Ceiling(m, f[r], i),
         b => g[v] = <<>> \/ a
  PROVE  Bounded(g, v, l, n + 1, b)
<1>1. \A t \in Terminals : \A i : Count(f[t], i) \in Nat /\ Count(g[t], i) \in Nat
  BY CountTypes
<1>2. /\ AtLeastOne(n) = n /\ AtLeastOne(n + 1) = n + 1
      /\ n >= 2 => AtLeastOne(n - 1) = n - 1
      /\ AtLeastOne(n - 1) <= n /\ AtLeastOne(n - 1) \in Int
      /\ (n + 1) - 1 = n /\ (n + 1) - 2 = n - 1
  BY DEF AtLeastOne
<1>3. g[v] = <<>> => \A i : /\ Count(g[v], i) <= 0
                            /\ Ceiling(l, g[v], i) <= 1
                            /\ \A k : Under(g[v], i, k)
  BY CountTypes
<1>4. ASSUME NEW t \in Terminals PROVE Count(g[t], PIT) <= Count(f[t], PIT)
  <2>1. CASE t = r
    BY <2>1
  <2>2. CASE t # r
    <3>1. g[t] = f[t] /\ Count(f[t], PIT) \in Nat
      BY <1>1, <2>2
    <3> QED BY <3>1
  <2> QED BY <2>1, <2>2
<1>5. ASSUME NEW i \in Devices
      PROVE  /\ Ceiling(l, g[r], i) \in Nat
             /\ Count(g[r], i) <= Ceiling(l, g[r], i)
             /\ Ceiling(l, g[r], i) <= n
             /\ a => Ceiling(l, g[r], i) <= AtLeastOne(n - 1)
             /\ Under(g[r], i, AtLeastOne(n - 1))
             /\ a => Under(g[r], i, n - 2)
  <2>1. /\ Ceiling(l, g[r], i) \in Nat
        /\ Count(g[r], i) <= Ceiling(l, g[r], i)
        /\ Ceiling(m, f[r], i) \in Nat
    BY CountTypes
  <2>2. /\ Ceiling(m, f[r], i) <= n
        /\ a => Ceiling(m, f[r], i) <= AtLeastOne(n - 1)
        /\ Under(f[r], i, AtLeastOne(n - 1))
        /\ a => Under(f[r], i, n - 2)
    BY <1>2 DEF Bounded, RunningBounded
  <2>3. Ceiling(l, g[r], i) <= n
    BY <2>1, <2>2
  <2>4. a => Ceiling(l, g[r], i) <= AtLeastOne(n - 1)
    BY <1>2, <2>1, <2>2
  <2> QED BY <2>1, <2>2, <2>3, <2>4
<1>6. TicksBounded(g, v, n + 1, b)
  <2>1. \A t \in Terminals : Count(f[t], PIT) <= AtLeastOne(n - 1)
    BY DEF Bounded, TicksBounded
  <2>2. ASSUME NEW t \in Terminals
        PROVE  /\ Count(g[t], PIT) <= n
               /\ n >= 2 => Count(g[t], PIT) <= n - 1
    <3>1. Count(g[t], PIT) <= AtLeastOne(n - 1)
      BY <1>1, <1>2, <1>4, <2>1
    <3> QED BY <1>1, <1>2, <3>1
  <2>3. ASSUME b
        PROVE  \/ Count(g[v], PIT) <= 0
               \/ \A t \in Terminals : Count(g[t], PIT) <= n - 1
    <3>1. CASE g[v] = <<>>
      BY <1>3, <3>1
    <3>2. CASE n >= 2
      BY <2>2, <3>2
    <3>3. CASE a /\ v = r /\ ~(n >= 2)
      <4>1. \/ Count(f[r], PIT) <= 0
            \/ \A t \in Terminals : Count(f[t], PIT) <= n - 2
        BY <3>3 DEF Bounded, TicksBounded
      <4>2. Count(f[r], PIT) <= 0
        BY <1>1, <3>3, <4>1
      <4> QED BY <1>1, <1>4, <3>3, <4>2
    <3> QED BY <2>3, <3>1, <3>2, <3>3
  <2> QED BY <1>2, <2>2, <2>3 DEF TicksBounded
<1>7. ASSUME NEW i \in Devices, NEW t \in Terminals, t # r
      PROVE  Count(g[t], i) <= n - 1
  <2>1. Count(g[t], i) <= 0 \/ Count(g[t], i) <= n - 1
    BY <1>7 DEF Bounded, LeftBounded
  <2> QED BY <1>1, <2>1
<1>8. ASSUME NEW i \in Devices
      PROVE  /\ Count(g[r], i) <= n
             /\ a /\ n >= 2 => Count(g[r], i) <= n - 1
  BY <1>1, <1>2, <1>5
<1>9. LeftBounded(g, v, n + 1, b)
  <2>1. ASSUME NEW i \in Devices, NEW t \in Terminals PROVE Count(g[t], i) <= n
    <3>1. CASE t = r
      BY <1>8, <3>1
    <3>2. CASE t # r
      BY <1>1, <1>7, <3>2
    <3> QED BY <3>1, <3>2
  <2>2. ASSUME NEW i \in Devices, b, ~(Count(g[v], PIT) <= 0),
               NEW t \in Terminals \ {v}
        PROVE  Count(g[t], i) <= n - 1
    <3>1. a /\ g[v] # <<>>
      BY <1>3, <2>2
    <3>2. CASE t = r
      BY <1>8, <2>2, <3>1, <3>2
    <3>3. CASE t # r
      BY <1>7, <3>3
    <3> QED BY <3>2, <3>3
  <2> QED BY <1>2, <2>1, <2>2 DEF LeftBounded
<1>10. ASSUME NEW i \in Devices
       PROVE  /\ Ceiling(l, g[v], i) <= n + 1 /\ Under(g[v], i, n)
              /\ b => /\ Ceiling(l, g[v], i) <= n
                      /\ Under(g[v], i, n - 1)
  <2>1. CASE v = r
    <3>1. Ceiling(l, g[r], i) <= n /\ Ceiling(l, g[r], i) <= n + 1
      BY <1>5
    <3>2. Under(g[r], i, n)
      BY <1>2, <1>5, UnderIs
    <3>3. a => Under(g[r], i, n - 1)
      BY <1>5, UnderIs
    <3> QED BY <1>3, <2>1, <3>1, <3>2, <3>3
  <2>2. CASE v # r
    <3>1. Count(g[v], i) <= n - 1 /\ Count(g[v], i) \in Nat
      BY <1>1, <1>7, <2>2
    <3>2. /\ Ceiling(l, g[v], i) \in Nat
          /\ Ceiling(l, g[v], i) <= Count(g[v], i) + 1
      BY CountTypes
    <3>3. Ceiling(l, g[v], i) <= n /\ Ceiling(l, g[v], i) <= n + 1
      BY <3>1, <3>2
    <3>4. Under(g[v], i, n - 1) /\ Under(g[v], i, n)
      BY <3>1, UnderIs
    <3> QED BY <3>3, <3>4
  <2> QED BY <2>1, <2>2
<1> QED BY <1>2, <1>6, <1>9, <1>10 DEF Bounded, RunningBounded

-----------------------------------------------------------------------------
(* One step of the bound.                                                  *)

LEMMA KernelKept ==
  ASSUME Types, Types', ReturnedOnTop, Kernel, NEW i \in Irqs
  PROVE  /\ i \in Devices => Ceiling(mask', frames'[running], i) <=
                               Ceiling(mask, Stack, i)
         /\ Count(frames'[running], i) <= Count(Stack, i)
         /\ \A b : Under(Stack, i, b) => Under(frames'[running], i, b)
<1>1. CASE EnableIrq
  BY <1>1, PopKept
<1>2. ASSUME ~EnableIrq
      PROVE  \E stage \in Stages \ {"entered"} :
               /\ Stack # <<>> /\ Top.stage \in Pending
               /\ frames' = SetTop(stage)
               /\ Top.stage = "entered" => Top.irq \in mask'
               /\ i \in Devices => \/ i \in mask' \/ i \notin mask
                                   \/ stage = "returned" /\ Top.irq = i
  <2>1. /\ "masked" \in Stages \ {"entered"} /\ "acked" \in Stages \ {"entered"}
        /\ "handled" \in Stages \ {"entered"}
        /\ "returned" \in Stages \ {"entered"}
        /\ "entered" \in Pending /\ "masked" \in Pending /\ "acked" \in Pending
    BY DEF Stages, Pending, Unacked
  <2>2. CASE DisableIrq
    BY <2>1, <2>2 DEF DisableIrq, At
  <2>3. CASE SendEoi
    BY <2>1, <2>3 DEF SendEoi, At
  <2>4. CASE Fetch
    BY <2>1, <2>4 DEF Fetch, At, pic
  <2>5. CASE Tick
    BY <2>1, <2>5 DEF Tick, At, Devices, PIT, KB, RTC
  <2>6. CASE OpenTooEarly
    BY <2>1, <2>6 DEF OpenTooEarly, At, Devices, PIT, KB, RTC
  <2>7. CASE \E t \in Terminals : OpenTerminal(t) \/ OpenTerminalFails(t)
    BY <2>1, <2>7 DEF OpenTerminal, OpenTerminalFails, At, Devices,
                      PIT, KB, RTC
  <2> QED BY <1>2, <2>2, <2>3, <2>4, <2>5, <2>6, <2>7 DEF Kernel
<1>3. CASE ~EnableIrq
  <2>1. PICK stage \in Stages \ {"entered"} :
               /\ Stack # <<>> /\ Top.stage \in Pending
               /\ frames' = SetTop(stage)
               /\ Top.stage = "entered" => Top.irq \in mask'
               /\ i \in Devices => \/ i \in mask' \/ i \notin mask
                                   \/ stage = "returned" /\ Top.irq = i
    BY <1>2, <1>3
  <2> QED BY <2>1, TopKept
<1> QED BY <1>1, <1>3

LEMMA ShownIs ==
  ASSUME Types
  PROVE  /\ IsFiniteSet(shown) /\ Cardinality(shown) \in Nat
         /\ Cardinality(shown) <= NumTerminals
         /\ \A t, u \in shown : t # u => Cardinality(shown) >= 2
         /\ \A t \in shown : Cardinality(shown) >= 1
         /\ \A t \in Terminals \ shown :
              Cardinality(shown \cup {t}) = Cardinality(shown) + 1
<1>1. shown \subseteq 0 .. NumTerminals - 1
  BY DEF Types, TypeOK, Terminals
<1>2. /\ IsFiniteSet(0 .. NumTerminals - 1)
      /\ Cardinality(0 .. NumTerminals - 1) = NumTerminals
  <2>1. NumTerminals - 1 \in Int /\ 0 \in Int
    BY InterruptsAssumption
  <2> QED BY <2>1, FS_Interval, InterruptsAssumption
<1>3. /\ IsFiniteSet(shown) /\ Cardinality(shown) \in Nat
      /\ Cardinality(shown) <= NumTerminals
  BY <1>1, <1>2, FS_Subset, FS_CardinalityType
<1>4. ASSUME NEW t \in shown PROVE Cardinality(shown) >= 1
  <2>1. {t} \subseteq shown /\ Cardinality({t}) = 1
    BY FS_Singleton
  <2> QED BY <1>3, <2>1, FS_Subset
<1>5. ASSUME NEW t \in shown, NEW u \in shown, t # u
      PROVE  Cardinality(shown) >= 2
  <2>1. IsFiniteSet({t}) /\ Cardinality({t}) = 1 /\ u \notin {t}
    BY <1>5, FS_Singleton
  <2>2. Cardinality({t} \cup {u}) = 2
    BY <2>1, FS_AddElement
  <2>3. {t} \cup {u} \subseteq shown
    OBVIOUS
  <2> QED BY <1>3, <2>2, <2>3, FS_Subset
<1>6. ASSUME NEW t \in Terminals \ shown
      PROVE  Cardinality(shown \cup {t}) = Cardinality(shown) + 1
  BY <1>3, FS_AddElement
<1> QED BY <1>3, <1>4, <1>5, <1>6

\* The handlers on r when the timer's is on top, on its way to the scheduler.
LEMMA TimerOnTop ==
  ASSUME NEW s \in Seq(Frame), s # <<>>, s[Len(s)].irq = PIT,
         s[Len(s)].stage \in Pending
  PROVE  /\ Count(s, PIT) >= 1
         /\ \A i \in Devices : \A k : Under(s, i, k) => Count(s, i) <= k
<1>1. PICK k \in Nat : k + 1 = Len(s)
  <2>1. PICK l \in Nat : l = Len(s)
    OBVIOUS
  <2>2. l # 0
    BY <2>1
  <2> QED BY <2>1, <2>2
<1>2. s[k + 1].irq = PIT /\ s[k + 1].stage # "returned"
  BY <1>1 DEF Pending, Unacked
<1>3. Count(s, PIT) >= 1
  <2>1. Nested(s, PIT, k + 1) = Nested(s, PIT, k) + 1 /\ Nested(s, PIT, k) \in Nat
    BY <1>2, NestedNext, NestedTypes
  <2> QED BY <1>1, <2>1 DEF Count
<1>4. ASSUME NEW i \in Devices, NEW b, Under(s, i, b) PROVE Count(s, i) <= b
  <2>1. Nested(s, i, k + 1) = Nested(s, i, k)
    BY <1>2, NestedNext DEF Devices, PIT, KB, RTC
  <2>2. k + 1 \in 1 .. Len(s) /\ (k + 1) - 1 = k
    BY <1>1
  <2>3. Nested(s, i, k) <= b
    BY <1>1, <1>4, <2>2 DEF Under
  <2> QED BY <1>1, <2>1, <2>3 DEF Count
<1> QED BY <1>3, <1>4

Nesting ==
  /\ OneToken
  /\ Bounded(frames, running, mask, Cardinality(shown), Token)

LEMMA NestingStep ==
  ASSUME Types, Types', Places, Lines, Nesting, [Next]_vars
  PROVE  Nesting'
<1> DEFINE n == Cardinality(shown)
<1>1. /\ frames \in [Terminals -> Seq(Frame)] /\ running \in Terminals
      /\ frames' \in [Terminals -> Seq(Frame)] /\ running' \in Terminals
  BY DEF Types, TypeOK, Frame
<1>2. \A t \in Terminals : t # running => frames'[t] = frames[t]
  BY OtherStacks
<1>3. /\ OneToken'
      /\ Token' => frames'[running'] = <<>> \/ Token
      /\ Token' /\ frames'[running'] # <<>> => ~Deliver(PIT)
  BY TokenStep DEF Nesting, Stack
<1>4. n \in Nat /\ Bounded(frames, running, mask, n, Token)
  BY ShownIs DEF Nesting
<1>5. Devices \subseteq Irqs /\ PIT \in Irqs /\ PIT \notin Devices
  BY DEF Devices, Irqs, PIT, KB, RTC
<1> HIDE DEF n
<1>6. ASSUME running' = running,
             Count(frames'[running], PIT) <= Count(frames[running], PIT),
             \A i \in Devices : \A k :
               Under(frames[running], i, k) => Under(frames'[running], i, k),
             \A i \in Devices :
               \/ Ceiling(mask', frames'[running], i) <=
                    Ceiling(mask, frames[running], i)
               \/ frames'[running] = <<>>
      PROVE  Bounded(frames', running', mask', n, Token')
  <2>1. Token' => frames'[running] = <<>> \/ Token
    BY <1>3, <1>6
  <2>2. Bounded(frames', running, mask', n, Token')
    BY <1>1, <1>2, <1>4, <1>6, <2>1, StayBounded
  <2> QED BY <1>6, <2>2
<1>7. ASSUME Kernel
      PROVE  /\ Count(frames'[running], PIT) <= Count(frames[running], PIT)
             /\ \A i \in Devices : \A k :
                  Under(frames[running], i, k) => Under(frames'[running], i, k)
             /\ \A i \in Devices :
                  Ceiling(mask', frames'[running], i) <=
                    Ceiling(mask, frames[running], i)
  BY <1>5, <1>7, KernelKept DEF Lines, Stack
<1>8. CASE Kernel /\ running' = running /\ shown' = shown
  <2>1. Bounded(frames', running', mask', n, Token')
    BY <1>6, <1>7, <1>8
  <2> QED BY <1>3, <1>8, <2>1 DEF Nesting, n
<1>9. CASE Tick /\ running' # running
  <2>1. /\ Stack # <<>> /\ Top.stage = "acked" /\ Top.irq = PIT
        /\ frames' = SetTop("handled") /\ shown' = shown
        /\ running' \in open
    BY <1>9, <1>1, NextTerminalIs DEF Tick, At
  <2>2. n >= 2
    <3>1. running \in shown /\ running' \in shown
      BY <2>1 DEF Places, Types, TypeOK
    <3> QED BY <1>9, <3>1, ShownIs DEF n
  <2>3. /\ frames[running] # <<>>
        /\ frames[running][Len(frames[running])].irq = PIT
        /\ frames[running][Len(frames[running])].stage \in Pending
    BY <2>1, TopIs DEF Stack, Pending
  <2>4. /\ Count(frames[running], PIT) >= 1
        /\ \A i \in Devices : \A k :
             Under(frames[running], i, k) => Count(frames[running], i) <= k
    BY <1>1, <2>3, TimerOnTop
  <2>5. \A i \in Devices : Count(frames'[running], i) = Count(frames[running], i)
    <3>1. "handled" \in Stages
      BY DEF Stages
    <3> QED BY <2>1, <3>1, CountAfterTop DEF Stack
  <2>6. \A i \in Devices : \A k :
          Under(frames[running], i, k) => Count(frames'[running], i) <= k
    BY <2>4, <2>5
  <2>7. Count(frames'[running], PIT) <= Count(frames[running], PIT)
    BY <1>7, <1>9 DEF Kernel
  <2>8. Bounded(frames', running', mask', n, Token')
    BY <1>1, <1>2, <1>3, <1>4, <1>9, <2>2, <2>4, <2>6, <2>7, SwitchBounded
  <2> QED BY <1>3, <2>1, <2>8 DEF Nesting, n
<1>10. ASSUME NEW t \in Terminals, OpenTerminal(t) \/ OpenTerminalFails(t)
       PROVE  Nesting'
  <2>1. /\ t \notin shown /\ open # {} /\ shown' = shown \cup {t}
        /\ running' = t \/ running' \in open
    BY <1>10, NextTerminalIs DEF OpenTerminal, OpenTerminalFails
  <2>2. running \in open /\ open \subseteq shown
    BY <2>1 DEF Places, Types, TypeOK
  <2>3. n >= 1 /\ Cardinality(shown') = n + 1
    BY <2>1, <2>2, ShownIs DEF n
  <2>4. running' = running \/ n >= 2 \/ frames'[running'] = <<>>
    <3>1. CASE running' \in open /\ running' # running
      BY <2>2, <3>1, ShownIs DEF n
    <3>2. CASE running' = t
      <4>1. t # running /\ t \notin open \cup {running}
        BY <2>1, <2>2
      <4>2. frames[t] = <<>>
        BY <4>1 DEF Places
      <4> QED BY <1>2, <3>2, <4>1, <4>2
    <3> QED BY <2>1, <3>1, <3>2
  <2>5. Kernel
    BY <1>10 DEF Kernel
  <2>6. Bounded(frames', running', mask', n + 1, Token')
    BY <1>1, <1>2, <1>3, <1>4, <1>7, <2>3, <2>4, <2>5, ShowBounded
  <2> QED BY <1>3, <2>3, <2>6 DEF Nesting
<1>11. CASE Kernel
  BY <1>8, <1>9, <1>10, <1>11
     DEF Kernel, DisableIrq, SendEoi, EnableIrq, Fetch, Tick, OpenTooEarly,
         system
<1>12. ASSUME NEW j \in Irqs, Deliver(j) PROVE Nesting'
  <2>1. running' = running /\ shown' = shown
    BY <1>12 DEF Deliver, system
  <2>2. /\ \A i \in Devices : Ceiling(mask', frames'[running], i) <=
                                Ceiling(mask, frames[running], i)
        /\ PIT # j =>
             Count(frames'[running], PIT) <= Count(frames[running], PIT)
        /\ Count(frames'[running], PIT) <= Count(frames[running], PIT) + 1
        /\ \A i \in Devices : \A b :
             /\ Under(frames[running], i, b)
             /\ j = PIT => Count(frames[running], i) <= b
             => Under(frames'[running], i, b)
    BY <1>5, <1>12, DeliverKept DEF Lines, Stack
  <2>3. CASE j # PIT
    <3>1. Bounded(frames', running', mask', n, Token')
      BY <1>6, <2>1, <2>2, <2>3
    <3> QED BY <1>3, <2>1, <3>1 DEF Nesting, n
  <2>4. CASE j = PIT
    <3>1. frames'[running] # <<>>
      BY <1>12, PushFrames DEF Deliver
    <3>2. Token /\ ~Token'
      BY <1>3, <1>12, <2>1, <2>4, <3>1 DEF Deliver, Deliverable, Token
    <3>3. Bounded(frames', running, mask', n, Token')
      BY <1>1, <1>2, <1>4, <2>2, <2>4, <3>2, TimerBounded
    <3> QED BY <1>3, <2>1, <3>3 DEF Nesting, n
  <2> QED BY <2>3, <2>4
<1>13. CASE FirstShell
  <2>1. \A t \in Terminals : frames'[t] = <<>>
    BY <1>1, <1>13 DEF FirstShell, GoOn, Places, Stack
  <2>2. Cardinality(shown') \in Nat
    BY <1>13, FS_Singleton DEF FirstShell
  <2>3. Bounded(frames', running', mask', Cardinality(shown'), Token')
    BY <1>1, <2>1, <2>2, NoFramesBounded
  <2> QED BY <1>3, <2>3 DEF Nesting
<1>14. ASSUME frames' = frames, running' = running, shown' = shown,
              mask' = mask \/ Stack = <<>>
       PROVE  Nesting'
  <2>1. \A i : /\ Count(frames[running], i) \in Nat
               /\ Ceiling(mask, frames[running], i) \in Nat
    BY <1>1, CountTypes
  <2>2. \A i \in Devices :
               \/ Ceiling(mask', frames'[running], i) <=
                    Ceiling(mask, frames[running], i)
               \/ frames'[running] = <<>>
    BY <1>14, <2>1 DEF Stack
  <2>3. Bounded(frames', running', mask', n, Token')
    BY <1>6, <1>14, <2>1, <2>2
  <2> QED BY <1>3, <1>14, <2>3 DEF Nesting, n
<1>15. ASSUME NEW i \in Irqs, Raise(i) PROVE Nesting'
  BY <1>14, <1>15 DEF Raise, system
<1>16. CASE (Entry /\ ~FirstShell) \/ OpenRtc
  BY <1>14, <1>16 DEF Entry, OpenRtc, InitializePit, SetKb, EnableSlave,
                      InitTermis, InitRtc, SetInterrupt, GoOn, pic, system
<1>17. CASE UNCHANGED vars
  BY <1>14, <1>17 DEF vars, pic, system
<1> QED BY <1>11, <1>12, <1>13, <1>15, <1>16, <1>17 DEF Next

-----------------------------------------------------------------------------
(* The property of the stacks.                                             *)

OfLine(s, i) == {n \in DOMAIN s : s[n].irq = i}

\* At most the handler on top is on its way out and was not counted.
LEMMA AllOfLine ==
  ASSUME NEW s \in Seq(Frame), NEW i,
         \A n \in 1 .. Len(s) : s[n].stage = "returned" => n = Len(s)
  PROVE  /\ Cardinality(OfLine(s, i)) \in Nat
         /\ Cardinality(OfLine(s, i)) <= Count(s, i) + 1
         /\ (\A n \in 1 .. Len(s) :
               ~(s[n].irq = i /\ s[n].stage = "returned"))
              => Cardinality(OfLine(s, i)) <= Count(s, i)
<1> DEFINE busy == Busy(s, i, Len(s))
           all  == busy \cup {Len(s)}
<1>1. Len(s) \in Nat /\ DOMAIN s = 1 .. Len(s)
  OBVIOUS
<1>2. IsFiniteSet(busy) /\ Count(s, i) = Cardinality(busy) /\ Count(s, i) \in Nat
  BY <1>1, NestedTypes DEF Count, Nested
<1>3. OfLine(s, i) \subseteq all
  BY <1>1 DEF Busy, OfLine
<1>4. (\A n \in 1 .. Len(s) : ~(s[n].irq = i /\ s[n].stage = "returned"))
        => OfLine(s, i) = busy
  BY <1>1 DEF Busy, OfLine
<1> HIDE DEF busy
<1>5. /\ IsFiniteSet(all)
      /\ Cardinality(all) = IF Len(s) \in busy THEN Cardinality(busy)
                                               ELSE Cardinality(busy) + 1
  BY <1>2, FS_AddElement
<1>6. Cardinality(all) <= Count(s, i) + 1
  BY <1>2, <1>5
<1> HIDE DEF all
<1>7. /\ IsFiniteSet(OfLine(s, i))
      /\ Cardinality(OfLine(s, i)) <= Cardinality(all)
  BY <1>3, <1>5, FS_Subset
<1>8. Cardinality(OfLine(s, i)) \in Nat /\ Cardinality(all) \in Nat
  BY <1>5, <1>7, FS_CardinalityType
<1>9. Cardinality(OfLine(s, i)) <= Count(s, i) + 1
  BY <1>2, <1>6, <1>7, <1>8
<1> QED BY <1>2, <1>4, <1>8, <1>9

LEMMA NestingImplies ==
  ASSUME Types, Lines, Nesting
  PROVE  NestingIsBounded
<1> DEFINE N == Cardinality(shown)
<1>1. frames \in [Terminals -> Seq(Frame)] /\ running \in Terminals
  BY DEF Types, TypeOK, Frame
<1>2. N \in Nat /\ N <= NumTerminals /\ NumTerminals \in Nat /\ NumTerminals >= 1
  BY ShownIs, InterruptsAssumption
<1>3. Bounded(frames, running, mask, N, Token)
  BY DEF Nesting
<1>4. ReturnedOnTop /\ Fetched
  BY DEF Lines
<1> HIDE DEF N
<1>5. AtLeastOne(N) <= NumTerminals /\ AtLeastOne(N - 1) <= NumTerminals
      /\ AtLeastOne(N) \in Int /\ AtLeastOne(N - 1) \in Int
  BY <1>2 DEF AtLeastOne
<1>6. ASSUME NEW t \in Terminals, NEW i \in Irqs
      PROVE  Cardinality(OfLine(frames[t], i)) <= NumTerminals
  <2>1. /\ Cardinality(OfLine(frames[t], i)) \in Nat
        /\ Cardinality(OfLine(frames[t], i)) <= Count(frames[t], i) + 1
        /\ (\A n \in 1 .. Len(frames[t]) :
              ~(frames[t][n].irq = i /\ frames[t][n].stage = "returned"))
             => Cardinality(OfLine(frames[t], i)) <= Count(frames[t], i)
    <3>1. \A n \in 1 .. Len(frames[t]) :
            frames[t][n].stage = "returned" => n = Len(frames[t])
      BY <1>4 DEF ReturnedOnTop
    <3> QED BY <1>1, <3>1, AllOfLine
  <2>2. /\ Count(frames[t], i) \in Nat
        /\ Ceiling(mask, frames[t], i) \in Nat
        /\ Count(frames[t], i) <= Ceiling(mask, frames[t], i)
    BY <1>1, CountTypes
  <2>3. CASE i = PIT
    <3>1. Cardinality(OfLine(frames[t], i)) <= Count(frames[t], i)
      BY <1>4, <2>1, <2>3 DEF ReturnedOnTop, PIT, KB
    <3>2. Count(frames[t], i) <= AtLeastOne(N - 1)
      BY <1>3, <2>3 DEF Bounded, TicksBounded
    <3> QED BY <1>2, <1>5, <2>1, <2>2, <3>1, <3>2
  <2>4. CASE i # PIT /\ t # running
    <3>1. Count(frames[t], i) <= 0 \/ Count(frames[t], i) <= N - 1
      BY <1>3, <2>4 DEF Bounded, LeftBounded, Devices, Irqs
    <3> QED BY <1>2, <2>1, <2>2, <3>1
  <2>5. CASE i # PIT /\ t = running
    <3>1. Ceiling(mask, frames[t], i) <= AtLeastOne(N)
      BY <1>3, <2>5 DEF Bounded, RunningBounded, Devices, Irqs
    <3>2. CASE \E n \in 1 .. Len(frames[t]) :
                 frames[t][n].irq = i /\ frames[t][n].stage = "returned"
      <4>1. ~Closed(mask, frames[t], i)
        <5>1. PICK k \in 1 .. Len(frames[t]) :
                frames[t][k].irq = i /\ frames[t][k].stage = "returned"
          BY <3>2
        <5>2. k = Len(frames[t])
          BY <1>4, <5>1 DEF ReturnedOnTop
        <5>3. ASSUME NEW m \in 1 .. Len(frames[t]), frames[t][m].irq = i,
                     frames[t][m].stage = "entered"
              PROVE  FALSE
          <6>1. m < k
            BY <5>1, <5>2, <5>3
          <6> QED BY <1>4, <2>5, <5>1, <5>3, <6>1 DEF Fetched
        <5> QED BY <5>1, <5>3 DEF Closed
      <4>2. Ceiling(mask, frames[t], i) = Count(frames[t], i) + 1
        BY <4>1 DEF Ceiling
      <4> QED BY <1>2, <1>5, <2>1, <2>2, <3>1, <4>2
    <3>3. CASE ~\E n \in 1 .. Len(frames[t]) :
                 frames[t][n].irq = i /\ frames[t][n].stage = "returned"
      <4>1. Cardinality(OfLine(frames[t], i)) <= Count(frames[t], i)
        BY <2>1, <3>3
      <4> QED BY <1>2, <1>5, <2>1, <2>2, <3>1, <4>1
    <3> QED BY <3>2, <3>3
  <2> QED BY <2>3, <2>4, <2>5
<1>7. ASSUME NEW t \in Terminals, NEW i \in Irqs, i # PIT,
             NEW m \in OfLine(frames[t], i), NEW n \in OfLine(frames[t], i), m < n
      PROVE  frames[t][m].stage = "handled"
  <2>1. DOMAIN frames[t] = 1 .. Len(frames[t])
    BY <1>1
  <2> QED BY <1>4, <1>7, <2>1 DEF Fetched, OfLine
<1> QED BY <1>6, <1>7 DEF NestingIsBounded, OfLine

LEMMA NestingInit == Init => Nesting
<1> SUFFICES ASSUME Init PROVE Nesting
  OBVIOUS
<1>1. /\ frames \in [Terminals -> Seq(Frame)] /\ running \in Terminals
      /\ \A t \in Terminals : frames[t] = <<>>
  BY InterruptsAssumption DEF Init, Terminals
<1>2. Cardinality(shown) \in Nat
  BY FS_EmptySet DEF Init
<1>3. Bounded(frames, running, mask, Cardinality(shown), Token)
  BY <1>1, <1>2, NoFramesBounded
<1>4. OneToken
  BY DEF Init, OneToken, Slack, Irqs, PIT, KB
<1> QED BY <1>3, <1>4 DEF Nesting

\* However handlers nest and processes are left in the middle of them, no line
\* is handled more often at a time on a kernel stack than there are terminals,
\* and no device but the timer is asked again before its data was fetched.
THEOREM NestingStaysBounded == Spec => []NestingIsBounded
<1> DEFINE Inv == Types /\ Places /\ Lines /\ Nesting
<1>1. Init => Inv
  BY LinesInit, NestingInit
<1>2. Inv /\ [Next]_vars => Inv'
  BY LinesStep, PlacesStep, NestingStep
<1>3. Inv => NestingIsBounded
  BY NestingImplies
<1> QED BY <1>1, <1>2, <1>3, PTL DEF Spec
=============================================================================
