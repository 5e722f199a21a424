----------------------------- MODULE LineInput -----------------------------
(***************************************************************************)
(* The keyboard handler and read_terminal() on one terminal.               *)
(*                                                                         *)
(* The handler edits buffer[] and copies it to storage_buffer[] after      *)
(* every key.  The reader copies storage_buffer[] to its caller, again and *)
(* again, until it sees enter_flag.  A key is one step, because the        *)
(* handler has interrupts disabled; the reader has them enabled and is     *)
(* interrupted between any two characters.                                 *)
(*                                                                         *)
(* buffer[] is the sequence of its first buffer_size characters: the cells *)
(* behind are always zero.  The echo and buffer_flag are not modelled.     *)
(***************************************************************************)
EXTENDS Naturals, Sequences, SequencesExt

CONSTANTS
  MaxBuffer,   \* MAX_BUFFER_SIZE
  TabSpaces,   \* TAB_SPACE_NUM
  Letters,     \* the printable characters
  Requests     \* the values of nbytes the programs use

\* Three characters that are not letters.  NUL also comes from the keyboard:
\* the tables have no character for some keys and the handler stores it.
NUL == "nul"
SPACE == "space"
LF == "linefeed"

Chars == Letters \cup {NUL, SPACE, LF}
Cells == 0 .. MaxBuffer - 1

ASSUME LineInputAssumption ==
  /\ MaxBuffer \in Nat \ {0}
  /\ TabSpaces \in Nat
  /\ Letters \cap {NUL, SPACE, LF} = {}
  /\ Requests \subseteq Nat

VARIABLES
  buffer,          \* termis[].buffer
  storage_buffer,  \* termis[].storage_buffer
  enter_flag,      \* termis[].enter_flag
  pc,              \* where the reader is: in the program, at the while test,
                   \*   in the copying loop, or in the cleaning loop
  buf,             \* the first MaxBuffer bytes behind the reader's buf
  nbytes,          \* what the program asked for
  j,               \* the reader's loop counter
  len,             \* what read_terminal() returns
  line,            \* history: the line ended by the last Enter
  entered,         \* history: Enter was pressed since the read began
  settled,         \* history: passes over storage_buffer since the last key
  hasty            \* history: a key came too early (see Patient)

vars == <<buffer, storage_buffer, enter_flag, pc, buf, nbytes, j, len, line,
          entered, settled, hasty>>
keyVars  == <<buffer, storage_buffer, enter_flag, line, entered, hasty>>
readVars == <<pc, buf, nbytes, j, len>>

TypeOK ==
  /\ buffer \in Seq(Chars) /\ Len(buffer) <= MaxBuffer
  /\ storage_buffer \in [Cells -> Chars]
  /\ enter_flag \in BOOLEAN
  /\ pc \in {"program", "test", "copy", "clean"}
  /\ buf \in [Cells -> Chars]
  /\ nbytes \in Requests
  /\ j \in 0 .. MaxBuffer
  /\ len \in 0 .. MaxBuffer
  /\ line \in Seq(Chars) /\ Len(line) <= MaxBuffer
  /\ entered \in BOOLEAN
  /\ settled \in 0 .. 2
  /\ hasty \in BOOLEAN

Stored(s) == [i \in Cells |-> IF i < Len(s) THEN s[i + 1] ELSE NUL]

Init ==
  /\ buffer = <<>> /\ storage_buffer = Stored(<<>>) /\ enter_flag = FALSE
  /\ pc = "program" /\ buf = Stored(<<>>) /\ nbytes \in Requests
  /\ j = 0 /\ len = 0
  /\ line = <<>> /\ entered = FALSE /\ settled = 0 /\ hasty = FALSE

Reading == pc \in {"test", "copy"}
-----------------------------------------------------------------------------
(* keyboard_fill_buffer().                                                 *)

\* A patient user gives the reader time for a whole pass after each key, and
\* presses Enter only when a program is reading, and no key after it until the
\* line has been read.
Patient(isEnter) ==
  \/ pc = "program" /\ ~isEnter
  \/ Reading /\ settled = 2

\* The buffer becomes s and is copied.
Fill(s) ==
  /\ buffer' = s
  /\ storage_buffer' = Stored(s)

KeyPressed(isEnter) ==
  /\ hasty' = (hasty \/ ~Patient(isEnter))
  /\ settled' = 0
  /\ UNCHANGED readVars

PressCharacter(c) ==
  /\ KeyPressed(FALSE)
  /\ IF Len(buffer) < MaxBuffer THEN Fill(Append(buffer, c))
                                ELSE UNCHANGED <<buffer, storage_buffer>>
  /\ UNCHANGED <<enter_flag, line, entered>>

\* Mutant: a tab is not cut at the end of the buffer.
Mutant_PressTab ==
  /\ KeyPressed(FALSE)
  /\ Fill(buffer \o [i \in 1 .. TabSpaces |-> SPACE])
  /\ UNCHANGED <<enter_flag, line, entered>>
PressTab ==
  LET n == IF MaxBuffer - Len(buffer) < TabSpaces
           THEN MaxBuffer - Len(buffer) ELSE TabSpaces
  IN /\ KeyPressed(FALSE)
     /\ IF n > 0 THEN Fill(buffer \o [i \in 1 .. n |-> SPACE])
                 ELSE UNCHANGED <<buffer, storage_buffer>>
     /\ UNCHANGED <<enter_flag, line, entered>>

\* Mutant: the shorter line is not copied.
Mutant_PressBackspace ==
  /\ KeyPressed(FALSE)
  /\ buffer' = IF buffer = <<>> THEN <<>> ELSE Front(buffer)
  /\ UNCHANGED <<enter_flag, line, entered, storage_buffer>>
PressBackspace ==
  /\ KeyPressed(FALSE)
  /\ Fill(IF buffer = <<>> THEN <<>> ELSE Front(buffer))
  /\ UNCHANGED <<enter_flag, line, entered>>

\* Ctrl-L.
PressClear ==
  /\ KeyPressed(FALSE)
  /\ Fill(<<>>)
  /\ UNCHANGED <<enter_flag, line, entered>>

\* Mutants: cleans the buffer before it is copied; ignores an empty line.
Mutant_PressEnter ==
  /\ KeyPressed(TRUE)
  /\ Fill(<<>>)
  /\ enter_flag' = TRUE
  /\ line' = buffer
  /\ entered' = TRUE
Mutant_PressEnter2 ==
  /\ KeyPressed(TRUE)
  /\ storage_buffer' = Stored(buffer)
  /\ buffer' = <<>>
  /\ enter_flag' = (enter_flag \/ buffer # <<>>)
  /\ line' = buffer
  /\ entered' = TRUE
PressEnter ==
  /\ KeyPressed(TRUE)
  /\ storage_buffer' = Stored(buffer)
  /\ buffer' = <<>>
  /\ enter_flag' = TRUE
  /\ line' = buffer
  /\ entered' = TRUE

PressKey ==
  \/ \E c \in Letters \cup {NUL, SPACE} : PressCharacter(c)
  \/ PressTab \/ PressBackspace \/ PressClear \/ PressEnter

-----------------------------------------------------------------------------
(* read_terminal().                                                        *)

\* The size of the caller's buffer the reader believes in.
ReadLength(n) == IF n <= MaxBuffer THEN n ELSE MaxBuffer

\* Mutant: an old Enter is not forgotten.
Mutant_CallRead ==
  /\ pc = "program"
  /\ pc' = "test"
  /\ nbytes' \in Requests
  /\ entered' = FALSE
  /\ settled' = 0
  /\ UNCHANGED <<buffer, storage_buffer, enter_flag, buf, j, len, line,
                 hasty>>
CallRead ==
  /\ pc = "program"
  /\ pc' = "test"
  /\ nbytes' \in Requests
  /\ enter_flag' = FALSE
  /\ entered' = FALSE
  /\ settled' = 0
  /\ UNCHANGED <<buffer, storage_buffer, buf, j, len, line, hasty>>

\* No Enter yet: the caller's buffer is cleared for another pass.
NextPass ==
  /\ pc = "test" /\ ~enter_flag
  /\ pc' = IF ReadLength(nbytes) = 0 THEN "test" ELSE "copy"
  /\ j' = 0
  /\ buf' = [i \in Cells |-> IF i < ReadLength(nbytes) THEN NUL ELSE buf[i]]
  /\ settled' = IF ReadLength(nbytes) = 0 THEN 2
                ELSE IF settled = 0 THEN 1 ELSE settled
  /\ UNCHANGED <<keyVars, nbytes, len>>

CopyCharacter ==
  /\ pc = "copy"
  /\ buf' = [buf EXCEPT ![j] = storage_buffer[j]]
  /\ IF j + 1 < ReadLength(nbytes)
     THEN /\ j' = j + 1
          /\ UNCHANGED <<pc, settled>>
     ELSE /\ j' = 0
          /\ pc' = "test"
          /\ settled' = IF settled = 1 THEN 2 ELSE settled
  /\ UNCHANGED <<keyVars, nbytes, len>>

\* The index of the first zero once the last byte is set to zero.
\* Mutant: the last byte is not set to zero, and the next one is.
Mutant_FirstZero(b) ==
  CHOOSE i \in 0 .. MaxBuffer : /\ i = MaxBuffer \/ b[i] = NUL
                                /\ \A k \in Cells : k < i => b[k] # NUL
FirstZero(b) ==
  CHOOSE i \in Cells : /\ i = MaxBuffer - 1 \/ b[i] = NUL
                       /\ \A k \in Cells : k < i => b[k] # NUL

\* Enter was pressed: the line is measured and ended.  When it was pressed
\* before the first pass, buf is what the program had in it.  The flag is reset
\* a few instructions after it was tested; no other Enter can tell the
\* difference, since the next read resets it again.
FinishLine ==
  LET n == FirstZero(buf)
  IN /\ pc = "test" /\ enter_flag
     /\ len' = n + 1
     /\ buf' = [buf EXCEPT ![n] = LF, ![MaxBuffer - 1] = LF]
     /\ enter_flag' = FALSE
     /\ pc' = "clean"
     /\ j' = 0
     /\ UNCHANGED <<buffer, storage_buffer, nbytes, line, entered, settled,
                    hasty>>

\* The storage buffer is cleaned, and the read returns.
CleanCharacter ==
  /\ pc = "clean"
  /\ storage_buffer' = [storage_buffer EXCEPT ![j] = NUL]
  /\ IF j + 1 < MaxBuffer
     THEN j' = j + 1 /\ UNCHANGED <<pc, len>>
     ELSE j' = 0 /\ pc' = "program" /\ len' = 0
  /\ UNCHANGED <<buffer, enter_flag, buf, nbytes, line, entered, settled,
                 hasty>>

ReadStep == NextPass \/ CopyCharacter \/ FinishLine \/ CleanCharacter

\* close_terminal(): the program halts and what was typed ahead is dropped.
CloseTerminal ==
  /\ pc = "program"
  /\ Fill(<<>>)
  /\ settled' = 0
  /\ UNCHANGED <<enter_flag, line, entered, hasty, readVars>>

Next == PressKey \/ CallRead \/ ReadStep \/ CloseTerminal

\* The reader is a process that the scheduler runs again and again.
Spec == Init /\ [][Next]_vars /\ WF_vars(ReadStep)
-----------------------------------------------------------------------------
\* What a program should get of line s: up to the first key without a
\* character, and one character less than the buffer holds.
Delivered(s) ==
  LET stop == CHOOSE i \in 1 .. Len(s) + 1 :
                /\ i = Len(s) + 1 \/ i = MaxBuffer \/ s[i] = NUL
                /\ \A k \in 1 .. i - 1 : k # MaxBuffer /\ s[k] # NUL
  IN SubSeq(s, 1, stop - 1)

Returned == [i \in 1 .. len - 1 |-> buf[i - 1]]

\* "read one line from terminal": what read_terminal() returns is the line
\* that the last Enter ended.
ReadReturnsLine == pc = "clean" => Returned = Delivered(line)

\* It is when every key so far has left the reader its time, whatever the line
\* is, whatever was typed ahead or taken back, and however often the buffer was
\* full; and when the program asked for as much as a line can hold.
PatientReadReturnsLine ==
  ~hasty /\ nbytes >= MaxBuffer => ReadReturnsLine

\* Whatever the program asked for, whatever was in its buffer, and whenever
\* the keys came, what it gets is text that ends with a line feed, within the
\* largest buffer: the length returned never leads to a NUL or past the end.
\* It may be more than was asked for, since the end of a shorter request is
\* not marked.
ReadEndsLine ==
  pc = "clean" =>
    /\ len \in 1 .. MaxBuffer
    /\ buf[len - 1] = LF
    /\ \A i \in 0 .. len - 2 : buf[i] # NUL

\* A read never returns because of an Enter that was pressed before it began,
\* or of one that an earlier read has used.
ReadWaitsForEnter == pc = "clean" => entered

\* At any moment storage_buffer is made of one line only, the finished one or
\* the one being typed, of which the reader may have cleaned some characters:
\* keys typed while it cleans never leave a mixture behind.
StorageIsOneLine ==
  \E s \in {line, buffer} :
    \A i \in Cells : storage_buffer[i] \in {NUL, Stored(s)[i]}

\* A read during which Enter is pressed returns, however many keys follow.
EnterIsAnswered == (Reading /\ entered) ~> pc = "clean"
=============================================================================
