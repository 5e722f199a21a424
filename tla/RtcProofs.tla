----------------------------- MODULE RtcProofs ------------------------------
(***************************************************************************)
(* The rate of the clock and the ticks of its readers, for any number of   *)
(* processes that race for the index port.                                 *)
(*                                                                         *)
(* A process on its way through write_rtc() may find any register behind   *)
(* the data port.  The argument is that it does not matter: what it writes *)
(* has the low bits of its own rate, which was asked for, wherever the     *)
(* high bits come from.                                                    *)
(***************************************************************************)
EXTENDS Rtc, TLAPS

\* Every local rate is one that somebody asked for; so is the one init_rtc()
\* sets, which the locals have outside of the driver.
RatesWereAsked ==
  /\ thirtytwo \in asked
  /\ \A p \in Users : rate[p] \in asked

\* A flag that is set while its process waits was set by a tick in the wait.
FlagsAreTicks ==
  \A p \in Users :
    pc[p] = "wait" /\ rtc_interrupt_occured[p] => ticked[p]

RtcInv == TypeOK /\ RatesWereAsked /\ RateWasAsked /\ FlagsAreTicks

-----------------------------------------------------------------------------
\* The rates and the bits above them do not meet, so that a byte made of a rate
\* and of high bits holds the rate.
LEMMA RateOfByte ==
  ASSUME NEW r \in Rates, NEW byte \in SUBSET Byte
  PROVE  /\ r \cup (byte \cap High) \in SUBSET Byte
         /\ (r \cup (byte \cap High)) \cap Low = r
<1>1. r \subseteq Low
  BY RtcAssumption DEF Rates, thirtytwo, Low
<1>2. Low \cap High = {} /\ Low \subseteq Byte /\ High \subseteq Byte
  BY DEF Low, High, Byte
<1> QED BY <1>1, <1>2

LEMMA RtcInit == Init => RtcInv
<1> SUFFICES ASSUME Init PROVE RtcInv
  OBVIOUS
<1>1. thirtytwo \in Rates /\ thirtytwo \subseteq Byte
  BY DEF Rates, thirtytwo, Byte
<1>2. TypeOK
  BY <1>1 DEF Init, TypeOK, Byte, PIE_BIT
<1>3. RateWasAsked
  BY DEF Init, RateWasAsked, thirtytwo, Low
<1> QED BY <1>2, <1>3 DEF Init, RtcInv, RatesWereAsked, FlagsAreTicks

-----------------------------------------------------------------------------
(* One step of a process, of the chip, or of the handler.                  *)

\* A call of the driver: only open_rtc() touches the chip, and not the rate.
LEMMA CallInv ==
  ASSUME RtcInv, NEW p \in Users, Call(p)
  PROVE  RtcInv'
<1> USE DEF RtcInv, TypeOK, RatesWereAsked, RateWasAsked, FlagsAreTicks, Goto
<1>1. CASE Open(p)
  <2>1. thirtytwo \in Rates /\ PIE_BIT \in Byte
    BY DEF Rates, PIE_BIT, Byte
  <2> QED BY <1>1, <2>1 DEF Open
<1>2. CASE CallRead(p)
  BY <1>2 DEF CallRead, chip
<1>3. ASSUME NEW r \in Writable, Write(p, r) PROVE RtcInv'
  <2>1. r \in Rates
    BY DEF Rates
  <2> QED BY <1>3, <2>1 DEF Write, chip
<1> QED BY <1>1, <1>2, <1>3 DEF Call

\* A step in a call: whatever register the byte of WriteRate lands in, the low
\* bits of A are those of a rate that was asked for.
LEMMA ContinueInv ==
  ASSUME RtcInv, NEW p \in Users, Continue(p)
  PROVE  RtcInv'
<1> USE DEF RtcInv, TypeOK, RatesWereAsked, RateWasAsked, FlagsAreTicks, Goto
<1>1. CASE SelectA(p)
  BY <1>1 DEF SelectA
<1>2. CASE ReadPrev(p)
  <2>1. Data \in SUBSET Byte
    BY DEF Data
  <2> QED BY <1>2, <2>1 DEF ReadPrev, ReadData
<1>3. CASE WriteRate(p)
  <2> DEFINE byte == rate[p] \cup (prev[p] \cap High)
  <2>1. byte \in SUBSET Byte /\ byte \cap Low = rate[p]
    BY RateOfByte
  <2> HIDE DEF byte
  <2>2. /\ A' = (IF index = "A" THEN byte ELSE A)
        /\ B' = (IF index = "B" THEN byte ELSE B)
        /\ pc' = [pc EXCEPT ![p] = "set"]
        /\ UNCHANGED <<index, C, rtc_interrupt_occured, rate, prev, ticked,
                       asked>>
    BY <1>3 DEF WriteRate, WriteData, byte
  <2> QED BY <2>1, <2>2
<1>4. CASE ReturnZero(p)
  <2>1. thirtytwo \in Rates
    BY DEF Rates
  <2> QED BY <1>4, <2>1 DEF ReturnZero, chip
<1>5. CASE ClearFlag(p)
  BY <1>5 DEF ClearFlag, chip
<1>6. CASE SeeFlag(p)
  BY <1>6 DEF SeeFlag, chip
<1> QED BY <1>1, <1>2, <1>3, <1>4, <1>5, <1>6 DEF Continue

LEMMA RtcStep == RtcInv /\ [Next]_vars => RtcInv'
<1> SUFFICES ASSUME RtcInv, [Next]_vars PROVE RtcInv'
  OBVIOUS
<1>1. CASE Tick
  BY <1>1 DEF Tick, RtcInv, TypeOK, RatesWereAsked, RateWasAsked,
              FlagsAreTicks, PIE_BIT, IRQF, Byte
<1>2. CASE Handler
  BY <1>2 DEF Handler, RtcInv, TypeOK, RatesWereAsked, RateWasAsked,
              FlagsAreTicks
<1>3. CASE UNCHANGED vars
  BY <1>3 DEF vars, RtcInv, TypeOK, RatesWereAsked, RateWasAsked,
              FlagsAreTicks
<1> QED BY <1>1, <1>2, <1>3, CallInv, ContinueInv DEF Next

-----------------------------------------------------------------------------
\* The variables of the driver and of the chip keep their types.
THEOREM ClockTypes == Spec => []TypeOK
<1>1. RtcInv => TypeOK
  BY DEF RtcInv
<1> QED BY <1>1, RtcInit, RtcStep, PTL DEF Spec

\* Whoever wins a race for the index port between the outb() and the inb() of
\* init_rtc() and write_rtc(), the clock runs at a rate that was asked for.
THEOREM RateStaysAsked == Spec => []RateWasAsked
<1>1. RtcInv => RateWasAsked
  BY DEF RtcInv
<1> QED BY <1>1, RtcInit, RtcStep, PTL DEF Spec

\* The loop of read_rtc() is left only after an interrupt that came behind its
\* own reset of rtc_interrupt_occured[], whichever other processes wait.
THEOREM ReadsAwaitTicks == Spec => ReadWaitsForTick
<1>1. RtcInv => (\A p \in Users : SeeFlag(p) => ticked[p])
  BY DEF RtcInv, FlagsAreTicks, SeeFlag, Goto
<1>2. RtcInv /\ [Next]_vars => [\A p \in Users : SeeFlag(p) => ticked[p]]_vars
  BY <1>1
<1> QED BY <1>2, RtcInit, RtcStep, PTL DEF Spec, ReadWaitsForTick
=============================================================================
