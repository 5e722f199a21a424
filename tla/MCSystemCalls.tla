--------------------------- MODULE MCSystemCalls ----------------------------
(***************************************************************************)
(* SystemCalls with three programs, a, ab and the shell s.                 *)
(*                                                                         *)
(* Before the processes run, one call is made of a function of the library *)
(* or of the parsing of execute(), with small arguments of every kind, to  *)
(* compare its result with what it should be.                              *)
(***************************************************************************)
EXTENDS SystemCalls

\* The characters of the texts, a and b.
ChA == 97
ChB == 98

MCParseArray == {<<ChA, Nul>>, <<ChA, ChB, Nul>>, <<115, Nul>>}
MCImage == [s \in MCParseArray |->
              IF s = <<ChA, Nul>> THEN "text"
              ELSE IF s = <<ChA, ChB, Nul>> THEN "missing" ELSE "program"]
MCShell == <<115, NewLine, Nul, Nul>>

\* The shell, with one argument, and without a separator but with something
\* behind the string; programs that cannot be executed.
MCCommands ==
  {MCShell, <<115, Blank, ChA, Nul, Nul>>, <<115, Nul, ChB, ChB, Nul>>,
   <<ChA, ChB, NewLine, Nul, Nul>>, <<ChA, Nul, Nul>>}

VARIABLE probe  \* the call that is made first

NoProbe == [kind |-> "none"]

\* Every command of up to three characters, and the byte behind it.
CommandProbes ==
  [kind : {"command"},
   text : UNION {[1 .. n -> {ChA, ChB, Blank, NewLine}] : n \in 0 .. 3},
   behind : {Nul, ChB}]
Memory(c) == c.text \o <<Nul, c.behind, Nul>>

StringProbes ==
  [kind : {"string"},
   one : UNION {[1 .. n -> {ChA, ChB}] : n \in 0 .. 3},
   two : UNION {[1 .. n -> {ChA, ChB}] : n \in 0 .. 3},
   n : 0 .. 4]

NumberProbes == [kind : {"number"}, value : 0 .. Word - 1]

\* What is in a format string, and what it should print.  A percent sign at
\* the end of a string takes the Nul with it, and what follows is printed too.
Texts(value) ==
  {[text |-> <<ChA>>, args |-> <<>>, prints |-> <<ChA>>],
   [text |-> <<Percent, Percent>>, args |-> <<>>, prints |-> <<Percent>>],
   [text |-> <<Percent, Letters.c>>, args |-> <<ChB>>, prints |-> <<ChB>>],
   [text |-> <<Percent, Letters.s>>, args |-> <<<<ChA, ChB, Nul>>>>,
    prints |-> <<ChA, ChB>>],
   [text |-> <<Percent, Letters.u>>, args |-> <<value>>,
    prints |-> CString(Itoa(value, 10))],
   [text |-> <<Percent, Letters.d>>, args |-> <<value>>,
    prints |-> Signed(value)],
   [text |-> <<Percent, Letters.x>>, args |-> <<value>>,
    prints |-> CString(Itoa(value, 16))],
   [text |-> <<Percent, Sharp, Letters.x>>, args |-> <<value>>,
    prints |-> PadHex(value)],
   [text |-> <<Percent, Nul>>, args |-> <<>>, prints |-> <<>>]}
Values == {0, 10, Word - 1}
FormatProbes ==
  [kind : {"format"},
   items : UNION {[1 .. n -> UNION {Texts(v) : v \in Values}] : n \in 0 .. 2}]

MemoryProbes ==
  [kind : {"memory"}, dest : 0 .. 7, src : 0 .. 7, n : 0 .. 8]
Bytes == [address \in 0 .. 15 |-> address]

VidmapProbes == [kind : {"vidmap"}, address : 0 .. Word - 1]
-----------------------------------------------------------------------------
MCInit ==
  /\ Init
  /\ \/ probe \in CommandProbes \/ probe \in StringProbes
     \/ probe \in NumberProbes  \/ probe \in FormatProbes
     \/ probe \in MemoryProbes  \/ probe \in VidmapProbes
     \/ probe = NoProbe

ProbeReturns ==
  /\ probe # NoProbe
  /\ probe' = NoProbe
  /\ UNCHANGED vars

MCNext ==
  \/ ProbeReturns
  \/ probe = NoProbe /\ Next /\ UNCHANGED probe

MCSpec == MCInit /\ [][MCNext]_<<vars, probe>>
-----------------------------------------------------------------------------
CommandIsSplit ==
  IsSeparated(Memory(probe)) =>
    IsSplit(probe.text, CString(TestCommand(Memory(probe))),
            CString(Buffer(Memory(probe))))

StringsAreRight ==
  LET one == probe.one \o <<Nul>>
      two == probe.two \o <<Nul, ChB, ChB, ChB, ChB>>
  IN /\ (StrNCmp(one, two, probe.n) = 0) = Same(one, two, probe.n)
     /\ CString(StrRev(one)) = Reverse(probe.one)
     /\ Len(probe.one) <= Len(probe.two) + 4 =>
          CString(StrCpy(two, one)) = probe.one

NumberIsRight ==
  LET v == probe.value
      hex == PadHex(v)
      negative == v >= Word \div 2
  IN /\ \A radix \in {2, 10, 16} : Writes(CString(Itoa(v, radix)), v, radix)
     /\ Len(hex) = HexDigits /\ ValueOf(hex, 16) = v
     /\ negative = (Signed(v)[1] = Minus)
     /\ negative => Writes(Tail(Signed(v)), Word - v, 10)

FormatIsRight ==
  LET text   == [i \in DOMAIN probe.items |-> probe.items[i].text]
      values == [i \in DOMAIN probe.items |-> probe.items[i].args]
      prints == [i \in DOMAIN probe.items |-> probe.items[i].prints]
  IN Printf(FlattenSeq(text) \o <<Nul>>, FlattenSeq(values)) = FlattenSeq(prints)

MemoryIsRight ==
  LET d == probe.dest
      s == probe.src
      n == probe.n
      right == BlockMoved(Bytes, d, s, n)
  IN /\ d <= s \/ s + n <= d => MemCpy(Bytes, d, s, n) = right
     /\ MemMove(Bytes, d, s, n) = right
     /\ MemSet(Bytes, d, 256 + 99, n) =
          [i \in DOMAIN Bytes |-> IF i \in d .. d + n - 1 THEN 99 ELSE i]

\* An address is accepted when FOUR_KB from it are in the page of the program,
\* unless the sum is no uint32_t.
VidmapIsRight ==
  probe.address + FOUR_KB < Word =>
    (VidmapAnswer(probe.address) = 0) =
      (probe.address .. probe.address + FOUR_KB \subseteq
         PROG_START .. PROG_START + FOUR_MB - 1)

\* The functions of the library, the parsing of execute() and the test of
\* vidmap() compute what they should from arguments of every kind: a string is
\* turned round, compared and copied, a number is written with its value, a
\* message is printed with every argument in the place of its conversion, and a
\* block is copied with its odd bytes at both ends.
LibraryIsRight ==
  /\ probe.kind = "command" => CommandIsSplit
  /\ probe.kind = "string"  => StringsAreRight
  /\ probe.kind = "number"  => NumberIsRight
  /\ probe.kind = "format"  => FormatIsRight
  /\ probe.kind = "memory"  => MemoryIsRight
  /\ probe.kind = "vidmap"  => VidmapIsRight
=============================================================================
