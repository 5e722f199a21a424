-------------------------------- MODULE Rtc --------------------------------
(***************************************************************************)
(* The real-time clock and the processes that use its driver.              *)
(*                                                                         *)
(* The chip has one index port and one data port.  The driver changes the  *)
(* rate in four port instructions with interrupts enabled, so that the     *)
(* clock's own handler and the driver calls of other processes may move    *)
(* the index between any two of them.  Each instruction is a step here; a  *)
(* part of the driver that runs between cli() and sti() is one step.       *)
(*                                                                         *)
(* A byte is the set of the numbers of its bits that are one.  The         *)
(* processes are the runnable ones of the terminals: rtc_interrupt_occured *)
(* is indexed by terminal.                                                 *)
(***************************************************************************)
EXTENDS Naturals

CONSTANTS
  Users,     \* the terminals whose processes use the clock
  Writable   \* the rates they ask write_rtc() for

Byte == 0 .. 7
High == 4 .. 7
Low  == 0 .. 3

thirtytwo == {0, 1, 3}  \* 0x0B
PIE_BIT   == 6          \* of register B
IRQF      == 7          \* of register C: the interrupt line

ASSUME RtcAssumption ==
  /\ Users # {}
  /\ Writable \subseteq SUBSET Low

Rates == Writable \cup {thirtytwo}

VARIABLES
  index,     \* the register the data port gives access to
  A, B, C,   \* the registers RA, RB and RC
  rtc_interrupt_occured,
  pc,        \* what each process does next
  rate,      \* the local rate of write_rtc(), or the one init_rtc() sets
  prev,      \* the local prev
  ticked,    \* history: the handler ran since the process began to wait
  asked      \* history: the rates asked for since boot

vars == <<index, A, B, C, rtc_interrupt_occured, pc, rate, prev, ticked, asked>>
chip == <<index, A, B, C>>

TypeOK ==
  /\ index \in {"A", "B", "C"}
  /\ A \subseteq Byte /\ B \subseteq Byte /\ C \subseteq Byte
  /\ rtc_interrupt_occured \in [Users -> BOOLEAN]
  /\ pc \in [Users -> {"user", "indexed", "read", "reindexed", "write", "set",
                       "clear", "wait"}]
  /\ rate \in [Users -> Rates]
  /\ prev \in [Users -> SUBSET Byte]
  /\ ticked \in [Users -> BOOLEAN]
  /\ asked \subseteq Rates

\* entry() has called init_rtc().  Bit 5 of A is the divider for the clock's
\* crystal and bit 1 of B its 24-hour mode.
Init ==
  /\ index = "A" /\ A = {5} \cup thirtytwo /\ B = {1, PIE_BIT} /\ C = {}
  /\ rtc_interrupt_occured = [p \in Users |-> FALSE]
  /\ pc = [p \in Users |-> "user"]
  /\ rate = [p \in Users |-> thirtytwo]
  /\ prev = [p \in Users |-> {}]
  /\ ticked = [p \in Users |-> FALSE]
  /\ asked = {thirtytwo}

Goto(p, from, to) == pc[p] = from /\ pc' = [pc EXCEPT ![p] = to]
-----------------------------------------------------------------------------
(* The chip.                                                               *)

\* The periodic interrupt: no other is raised until C has been read.
Tick ==
  /\ PIE_BIT \in B /\ C = {}
  /\ C' = {PIE_BIT, IRQF}
  /\ UNCHANGED <<index, A, B, rtc_interrupt_occured, pc, rate, prev, ticked,
                 asked>>

Data == CASE index = "A" -> A [] index = "B" -> B [] OTHER -> C

\* A write to the data port; C cannot be written.
WriteData(byte) ==
  /\ A' = IF index = "A" THEN byte ELSE A
  /\ B' = IF index = "B" THEN byte ELSE B
  /\ UNCHANGED <<index, C>>

\* A read of the data port clears C when it is the register read.
ReadData == C' = IF index = "C" THEN {} ELSE C

-----------------------------------------------------------------------------
(* rtc_handler().                                                          *)

\* Mutant: only one terminal is told.
Mutant_Handler ==
  LET first == CHOOSE p \in Users : TRUE
  IN /\ IRQF \in C
     /\ index' = "C" /\ C' = {}
     /\ rtc_interrupt_occured' = [rtc_interrupt_occured EXCEPT ![first] = TRUE]
     /\ ticked' = [p \in Users |-> pc[p] = "wait"]
     /\ UNCHANGED <<A, B, pc, rate, prev, asked>>
Handler ==
  /\ IRQF \in C
  /\ index' = "C" /\ C' = {}
  /\ rtc_interrupt_occured' = [p \in Users |-> TRUE]
  /\ ticked' = [p \in Users |-> pc[p] = "wait"]
  /\ UNCHANGED <<A, B, pc, rate, prev, asked>>

-----------------------------------------------------------------------------
(* open_rtc() and write_rtc().                                             *)

\* init_rtc(): the periodic interrupt is enabled with interrupts off, and the
\* rate is then set as in write_rtc().  set_interrupt() changes nothing.
\* Mutant: sets the frequency, 32, in place of its rate.
Mutant_Open(p) ==
  /\ Goto(p, "user", "indexed")
  /\ index' = "B" /\ B' = B \cup {PIE_BIT}
  /\ rate' = [rate EXCEPT ![p] = {5}]
  /\ asked' = asked \cup {{5}}
  /\ UNCHANGED <<A, C, rtc_interrupt_occured, prev, ticked>>
Open(p) ==
  /\ Goto(p, "user", "indexed")
  /\ index' = "B" /\ B' = B \cup {PIE_BIT}
  /\ rate' = [rate EXCEPT ![p] = thirtytwo]
  /\ asked' = asked \cup {thirtytwo}
  /\ UNCHANGED <<A, C, rtc_interrupt_occured, prev, ticked>>

\* write_rtc() with a frequency it accepts.  With any other one, or a length
\* that is not 4, it returns -1 and nothing changes.
Write(p, r) ==
  /\ Goto(p, "user", "indexed")
  /\ rate' = [rate EXCEPT ![p] = r]
  /\ asked' = asked \cup {r}
  /\ UNCHANGED <<chip, rtc_interrupt_occured, prev, ticked>>

\* outb(RA, CMD_P), before the read and again before the write.
SelectA(p) ==
  /\ Goto(p, "indexed", "read") \/ Goto(p, "reindexed", "write")
  /\ index' = "A"
  /\ UNCHANGED <<A, B, C, rtc_interrupt_occured, rate, prev, ticked, asked>>

ReadPrev(p) ==
  /\ Goto(p, "read", "reindexed")
  /\ prev' = [prev EXCEPT ![p] = Data]
  /\ ReadData
  /\ UNCHANGED <<index, A, B, rtc_interrupt_occured, rate, ticked, asked>>

\* Mutant: the old rate is not masked out.
Mutant_WriteRate(p) ==
  /\ Goto(p, "write", "set")
  /\ WriteData(rate[p] \cup prev[p])
  /\ UNCHANGED <<rtc_interrupt_occured, rate, prev, ticked, asked>>
WriteRate(p) ==
  /\ Goto(p, "write", "set")
  /\ WriteData(rate[p] \cup (prev[p] \cap High))
  /\ UNCHANGED <<rtc_interrupt_occured, rate, prev, ticked, asked>>

\* The locals are gone.
ReturnZero(p) ==
  /\ Goto(p, "set", "user")
  /\ rate' = [rate EXCEPT ![p] = thirtytwo]
  /\ prev' = [prev EXCEPT ![p] = {}]
  /\ UNCHANGED <<chip, rtc_interrupt_occured, ticked, asked>>

-----------------------------------------------------------------------------
(* read_rtc().                                                             *)

CallRead(p) ==
  /\ Goto(p, "user", "clear")
  /\ UNCHANGED <<chip, rtc_interrupt_occured, rate, prev, ticked, asked>>

\* Mutant: the flag is not cleared, and an old tick is taken for a new one.
Mutant_ClearFlag(p) ==
  /\ Goto(p, "clear", "wait")
  /\ ticked' = [ticked EXCEPT ![p] = FALSE]
  /\ UNCHANGED <<chip, rtc_interrupt_occured, rate, prev, asked>>
ClearFlag(p) ==
  /\ Goto(p, "clear", "wait")
  /\ rtc_interrupt_occured' = [rtc_interrupt_occured EXCEPT ![p] = FALSE]
  /\ ticked' = [ticked EXCEPT ![p] = FALSE]
  /\ UNCHANGED <<chip, rate, prev, asked>>

\* The while loop sees the flag.
SeeFlag(p) ==
  /\ rtc_interrupt_occured[p]
  /\ Goto(p, "wait", "user")
  /\ ticked' = [ticked EXCEPT ![p] = FALSE]
  /\ UNCHANGED <<chip, rtc_interrupt_occured, rate, prev, asked>>

\* The driver call a process is in goes on.
Continue(p) ==
  \/ SelectA(p) \/ ReadPrev(p) \/ WriteRate(p) \/ ReturnZero(p)
  \/ ClearFlag(p) \/ SeeFlag(p)

Call(p) == Open(p) \/ CallRead(p) \/ \E r \in Writable : Write(p, r)

Next == Tick \/ Handler \/ \E p \in Users : Call(p) \/ Continue(p)

\* The clock runs, its handler is called, and the scheduler runs everybody.
Fairness ==
  /\ WF_vars(Tick)
  /\ WF_vars(Handler)
  /\ \A p \in Users : WF_vars(Continue(p))

Spec == Init /\ [][Next]_vars /\ Fairness
-----------------------------------------------------------------------------
\* Whoever wins a race for the index port, the rate in the chip is always one
\* that some process asked for, never a mixture of two.
RateWasAsked == A \cap Low \in asked

\* "wait till a interrupt has occured": read_rtc() does not return for a tick
\* that came before it was called.
ReadWaitsForTick ==
  [][\A p \in Users : SeeFlag(p) => ticked[p]]_vars

\* "RETURN VALUE: always 0": read_rtc() returns.
ReadReturns == \A p \in Users : pc[p] = "wait" ~> pc[p] = "user"

\* It does when nobody has turned the periodic interrupt off, which a rate that
\* lands in register B does; an open of the clock turns it on again.
ReadReturnsWhileEnabled ==
  \A p \in Users : pc[p] = "wait" ~> (pc[p] = "user" \/ PIE_BIT \notin B)
=============================================================================
