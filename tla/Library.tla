------------------------------ MODULE Library -------------------------------
(***************************************************************************)
(* The functions of lib.c that the kernel computes with: strings, numbers  *)
(* in a message, and blocks of memory.                                     *)
(*                                                                         *)
(* A character is its ASCII code.  A string in memory is a sequence of     *)
(* characters with a Nul among them; position i of the code is element     *)
(* i + 1.  What is behind the Nul is whatever the memory holds there.      *)
(***************************************************************************)
EXTENDS Integers, Sequences, SequencesExt

CONSTANTS
  Word,       \* 2^32, the number of values of a uint32_t
  HexDigits   \* the number of hexadecimal digits of a word, 8

SixteenTo[n \in Nat] == IF n = 0 THEN 1 ELSE 16 * SixteenTo[n - 1]

ASSUME LibraryAssumption ==
  /\ HexDigits \in Nat \ {0}
  /\ Word = SixteenTo[HexDigits]

Nul     == 0
NewLine == 10
Blank   == 32
Sharp   == 35
Percent == 37
Minus   == 45
Zero    == 48
-----------------------------------------------------------------------------
\* Strings.

\* The position of the first character from position i on that is in stop.
FirstOf(s, i, stop) ==
  LET first[k \in Nat] == IF s[k + 1] \in stop THEN k ELSE first[k + 1]
  IN first[i]

StrLen(s)  == FirstOf(s, 0, {Nul})
CString(s) == SubSeq(s, 1, StrLen(s))

StrNCmp(s1, s2, n) ==
  LET last(i) == s1[i + 1] # s2[i + 1] \/ s1[i + 1] = Nul
      first[i \in 0 .. n] == IF i = n \/ last(i) THEN i ELSE first[i + 1]
      m == first[0]
  IN IF m = n THEN 0 ELSE s1[m + 1] - s2[m + 1]

\* What dest holds after strcpy(): the string with its Nul over the old bytes.
StrCpy(dest, src) ==
  [i \in DOMAIN dest |-> IF i <= StrLen(src) + 1 THEN src[i] ELSE dest[i]]

\* The n bytes that strncpy() writes: the string, then Nul up to the end, and
\* no Nul at all when the string is as long as n.
StrNCpy(src, n) ==
  [i \in 1 .. n |-> IF i <= StrLen(src) THEN src[i] ELSE Nul]

\* The loop of strrev() swaps from both ends until they meet.
StrRev(s) ==
  LET n == StrLen(s)
      swapped[k \in 0 .. n \div 2] ==
        IF k = 0 THEN s
        ELSE LET t == swapped[k - 1]
             IN [t EXCEPT ![k] = t[n + 1 - k], ![n + 1 - k] = t[k]]
  IN swapped[n \div 2]
-----------------------------------------------------------------------------
\* Numbers.

Digit(i) == IF i < 10 THEN Zero + i ELSE Zero + 7 + i

\* The digits are found from the last to the first, and then turned round.
Itoa(value, radix) ==
  LET newbuf[v \in Nat] ==
        IF v = 0 THEN <<Nul>> ELSE <<Digit(v % radix)>> \o newbuf[v \div radix]
  IN IF value = 0 THEN <<Zero, Nul>> ELSE StrRev(newbuf[value])

\* %#x: the number is written behind HexDigits bytes, and the rest of these
\* is filled with zeros from the position that is the length of the number.
PadHex(value) ==
  LET digits == CString(Itoa(value, 16))
  IN [i \in 1 .. HexDigits - Len(digits) |-> Zero] \o digits

\* %d: a word is negative from the middle of its range on, and the minus sign
\* of the least one, which has no positive value, leaves the word as it is.
Signed(value) ==
  IF value >= Word \div 2 THEN <<Minus>> \o CString(Itoa(Word - value, 10))
                          ELSE CString(Itoa(value, 10))

\* The conversions of printf().  An argument is a word, or a string in memory.
Letters == [x |-> 120, u |-> 117, d |-> 100, c |-> 99, s |-> 115]
Shown(letter, argument, alternate) ==
  CASE letter = Letters.x -> IF alternate THEN PadHex(argument)
                             ELSE CString(Itoa(argument, 16))
    [] letter = Letters.u -> CString(Itoa(argument, 10))
    [] letter = Letters.d -> Signed(argument)
    [] letter = Letters.c -> <<argument % 256>>
    [] letter = Letters.s -> CString(argument)

\* printf() character by character: what is printed, the arguments that are
\* left, and whether the character is text or belongs to a conversion.  Only a
\* Nul in the text ends the message: one that follows a percent sign is skipped
\* like any other character without a meaning there, and printing goes on with
\* what is behind the string.
PrintState(out, args, mode) == [out |-> out, args |-> args, mode |-> mode]
PrintfStep(st, ch) ==
  LET text == st.mode = "text"
      inside == st.mode \in {"conversion", "alternate"}
      shown == Shown(ch, Head(st.args), st.mode = "alternate")
  IN CASE st.mode = "done" -> st
       [] text /\ ch = Nul -> PrintState(st.out, st.args, "done")
       [] text /\ ch = Percent -> PrintState(st.out, st.args, "conversion")
       [] (text /\ ch \notin {Nul, Percent}) \/ (inside /\ ch = Percent) ->
            PrintState(Append(st.out, ch), st.args, "text")
       [] inside /\ ch = Sharp -> PrintState(st.out, st.args, "alternate")
       [] inside /\ \E f \in DOMAIN Letters : Letters[f] = ch ->
            PrintState(st.out \o shown, Tail(st.args), "text")
       [] OTHER -> PrintState(st.out, st.args, "text")

\* format is the string with what the memory holds behind it.
Printf(format, args) ==
  LET st[k \in 0 .. Len(format)] ==
        IF k = 0 THEN PrintState(<<>>, args, "text")
        ELSE PrintfStep(st[k - 1], format[k])
  IN st[Len(format)].out
-----------------------------------------------------------------------------
\* Blocks of memory.  mem maps addresses to bytes.

\* w bytes are read at s and then written at d.
Moved(mem, d, s, w) ==
  [a \in DOMAIN mem |-> IF a \in d .. d + w - 1 THEN mem[s + (a - d)] ELSE mem[a]]

\* The steps of memcpy() and memset(): single bytes up to an aligned address
\* of dest, four bytes at once, and the single bytes that are left.
\* Mutant: the bytes that are left are forgotten.
Mutant_Pieces(dest, n) ==
  LET head == Min({n, (4 - (dest % 4)) % 4})
      rest == n - head
  IN [i \in 1 .. head + rest \div 4 |-> IF i <= head THEN 1 ELSE 4]
Pieces(dest, n) ==
  LET head == Min({n, (4 - (dest % 4)) % 4})
      rest == n - head
  IN [i \in 1 .. head + rest \div 4 + (rest % 4) |->
        IF i \in head + 1 .. head + rest \div 4 THEN 4 ELSE 1]

MemCpy(mem, dest, src, n) ==
  LET pieces == Pieces(dest, n)
      copied[k \in 0 .. Len(pieces)] ==
        IF k = 0 THEN [mem |-> mem, at |-> 0]
        ELSE LET st == copied[k - 1]
             IN [mem |-> Moved(st.mem, dest + st.at, src + st.at, pieces[k]),
                 at  |-> st.at + pieces[k]]
  IN copied[Len(pieces)].mem

MemSet(mem, dest, c, n) ==
  LET pieces == Pieces(dest, n)
      written[k \in 0 .. Len(pieces)] ==
        IF k = 0 THEN [mem |-> mem, at |-> dest]
        ELSE LET st == written[k - 1]
             IN [mem |-> [i \in DOMAIN mem |->
                            IF i \in st.at .. st.at + pieces[k] - 1 THEN c % 256
                            ELSE st.mem[i]],
                 at  |-> st.at + pieces[k]]
  IN written[Len(pieces)].mem

\* memmove() goes upwards from a source above dest, downwards from one below,
\* and then leaves the direction flag set.  The flag is not part of the model:
\* memcpy(), memset() and memmove() itself clear it before they use it.
MemMove(mem, dest, src, n) ==
  LET place(k) == IF src >= dest THEN k - 1 ELSE n - k
      moved[k \in 0 .. n] ==
        IF k = 0 THEN mem
        ELSE Moved(moved[k - 1], dest + place(k), src + place(k), 1)
  IN moved[n]
-----------------------------------------------------------------------------
\* What the functions should compute.

IsString(s) == \E i \in DOMAIN s : s[i] = Nul

\* A number is written in a radix with the fewest digits that give its value.
DigitValue(ch) == IF ch <= Zero + 9 THEN ch - Zero ELSE ch - Zero - 7
ValueOf(digits, radix) ==
  LET value[k \in 0 .. Len(digits)] ==
        IF k = 0 THEN 0 ELSE value[k - 1] * radix + DigitValue(digits[k])
  IN value[Len(digits)]
Writes(digits, value, radix) ==
  /\ digits # <<>>
  /\ ValueOf(digits, radix) = value
  /\ \A i \in DOMAIN digits : DigitValue(digits[i]) \in 0 .. radix - 1
  /\ Len(digits) > 1 => digits[1] # Zero

\* Two strings are the same up to n characters when they print the same.
Same(s1, s2, n) ==
  LET start(s) == SubSeq(CString(s), 1, Min({n, StrLen(s)}))
  IN start(s1) = start(s2)

\* A block is copied as if all of it were read first.
BlockMoved(mem, dest, src, n) == Moved(mem, dest, src, n)
=============================================================================
