-------------------------- MODULE LineInputProofs --------------------------
(***************************************************************************)
(* Reading a line, for buffers of any size, any characters, and keys that  *)
(* come between any two steps of the reader.                               *)
(*                                                                         *)
(* Three invariants carry the properties.  Types holds of every behaviour, *)
(* with what the flags say of each other.  The storage buffer never mixes  *)
(* two lines: that one is inductive as it stands.  And as long as no key   *)
(* was hasty, storage_buffer is exactly one line and what the reader has   *)
(* copied of it in this pass agrees with it: from that the line returned   *)
(* is the line typed.                                                      *)
(***************************************************************************)
EXTENDS LineInput, SequenceTheorems, WellFoundedInduction, TLAPS

USE LineInputAssumption

\* The index of the reader's loops is in the buffers; a read and its Enter.
Indices ==
  /\ pc = "copy" => j < ReadLength(nbytes)
  /\ pc = "clean" => j < MaxBuffer

EnterIsSeen ==
  /\ Reading => (enter_flag <=> entered)
  /\ Reading /\ entered => settled = 0
  /\ pc = "clean" => entered

\* TypeOK in three parts, each about variables that change together.
BuffersOK ==
  /\ buffer \in Seq(Chars) /\ Len(buffer) <= MaxBuffer
  /\ line \in Seq(Chars) /\ Len(line) <= MaxBuffer
  /\ storage_buffer \in [Cells -> Chars]
  /\ buf \in [Cells -> Chars]
FlagsOK ==
  enter_flag \in BOOLEAN /\ entered \in BOOLEAN /\ hasty \in BOOLEAN
ReaderOK ==
  /\ pc \in {"program", "test", "copy", "clean"}
  /\ nbytes \in Requests
  /\ j \in 0 .. MaxBuffer
  /\ len \in 0 .. MaxBuffer
  /\ settled \in 0 .. 2

Types == BuffersOK /\ FlagsOK /\ ReaderOK /\ Indices /\ EnterIsSeen

\* storage_buffer, as long as the user is patient.
PatientStorage ==
  /\ pc = "program" \/ (Reading /\ ~entered) =>
       storage_buffer = Stored(buffer)
  /\ Reading /\ entered => storage_buffer = Stored(line) /\ buffer = <<>>
  /\ pc = "clean" =>
       /\ buffer = <<>>
       /\ \A i \in Cells : i < j => storage_buffer[i] = NUL

\* buf, when no key came in the pass, or when the last one was Enter, which
\* does not change what is copied.
PatientCopy ==
  /\ pc = "test" /\ (settled = 2 \/ entered) => buf = storage_buffer
  /\ pc = "copy" /\ (settled # 0 \/ entered) =>
       \A i \in Cells : i < j => buf[i] = storage_buffer[i]
  /\ pc = "test" => settled # 1
  /\ pc = "clean" => Returned = Delivered(line)

PatientInv ==
  ~hasty => /\ PatientStorage
            /\ nbytes >= MaxBuffer => PatientCopy
-----------------------------------------------------------------------------
(* The helpers: a stored line, and the first zero of a buffer.             *)

LEMMA StoredType ==
  ASSUME NEW s \in Seq(Chars)
  PROVE  /\ Stored(s) \in [Cells -> Chars]
         /\ \A i \in Cells : i < Len(s) => Stored(s)[i] = s[i + 1]
         /\ \A i \in Cells : i >= Len(s) => Stored(s)[i] = NUL
<1>1. ASSUME NEW i \in Cells, i < Len(s) PROVE s[i + 1] \in Chars
  <2>1. PICK n \in Nat : n = Len(s)
    OBVIOUS
  <2>2. i + 1 \in 1 .. Len(s)
    BY <1>1, <2>1 DEF Cells
  <2> QED BY <2>2
<1>2. NUL \in Chars
  BY DEF Chars
<1> QED BY <1>1, <1>2 DEF Stored, Cells

\* A set of numbers that is not empty has a least one.
LEMMA LeastNat ==
  ASSUME NEW T, T \subseteq Nat, T # {}
  PROVE  \E n \in T : \A m \in T : n <= m
<1>1. PICK n \in T : \A m \in T : ~ (<<m, n>> \in OpToRel(<, Nat))
  BY NatLessThanWellFounded, WFMin, Zenon
<1>2. \A m \in T : ~ m < n
  BY <1>1, Zenon DEF OpToRel
<1> QED BY <1>2

\* The measuring loop always stops, at the last byte at the latest.
LEMMA FirstZeroStops ==
  ASSUME NEW b \in [Cells -> Chars]
  PROVE  /\ FirstZero(b) \in Cells
         /\ FirstZero(b) = MaxBuffer - 1 \/ b[FirstZero(b)] = NUL
         /\ \A k \in Cells : k < FirstZero(b) => b[k] # NUL
<1> DEFINE T == {i \in Cells : i = MaxBuffer - 1 \/ b[i] = NUL}
<1>1. T \subseteq Nat /\ MaxBuffer - 1 \in T
  BY DEF Cells
<1>2. PICK i \in T : \A m \in T : i <= m
  BY <1>1, LeastNat
<1>3. \A k \in Cells : k < i => b[k] # NUL
  BY <1>1, <1>2 DEF Cells
<1> QED BY <1>2, <1>3 DEF FirstZero

\* What FinishLine makes of a stored line is what the program should get.
LEMMA LineIsDelivered ==
  ASSUME NEW s \in Seq(Chars), Len(s) <= MaxBuffer
  PROVE  LET n == FirstZero(Stored(s))
         IN /\ n <= Len(s)
            /\ Delivered(s) = [i \in 1 .. n |-> s[i]]
<1> DEFINE n == FirstZero(Stored(s))
<1>1. PICK l \in Nat : l = Len(s)
  OBVIOUS
<1>2. Stored(s) \in [Cells -> Chars]
  BY StoredType
<1>3. /\ n \in Cells
      /\ n = MaxBuffer - 1 \/ Stored(s)[n] = NUL
      /\ \A k \in Cells : k < n => Stored(s)[k] # NUL
  BY <1>2, FirstZeroStops
<1> HIDE DEF n
<1>4. \A k \in Cells : k < n => k < l /\ s[k + 1] # NUL
  <2>1. \A k \in Cells : k < n => k < l
    BY <1>1, <1>3, StoredType DEF Cells
  <2> QED BY <1>1, <1>3, <2>1, StoredType
<1>5. n <= l
  <2>1. CASE n = 0
    BY <2>1
  <2>2. CASE n # 0
    <3>1. n - 1 \in Cells /\ n - 1 < n
      BY <1>3, <2>2 DEF Cells
    <3> QED BY <1>3, <1>4, <3>1 DEF Cells
  <2> QED BY <2>1, <2>2
<1> DEFINE Stops(i) == /\ i = Len(s) + 1 \/ i = MaxBuffer \/ s[i] = NUL
                       /\ \A k \in 1 .. i - 1 : k # MaxBuffer /\ s[k] # NUL
<1>6. n + 1 \in 1 .. Len(s) + 1 /\ Stops(n + 1)
  <2>1. n + 1 \in 1 .. Len(s) + 1
    BY <1>1, <1>3, <1>5 DEF Cells
  <2>2. n + 1 = Len(s) + 1 \/ n + 1 = MaxBuffer \/ s[n + 1] = NUL
    <3>1. CASE n < l
      BY <1>1, <1>3, <3>1, StoredType DEF Cells
    <3>2. CASE n = l
      BY <1>1, <3>2
    <3> QED BY <1>3, <1>5, <3>1, <3>2 DEF Cells
  <2>3. ASSUME NEW k \in 1 .. n + 1 - 1 PROVE k # MaxBuffer /\ s[k] # NUL
    <3>1. k - 1 \in Cells /\ k - 1 < n /\ k - 1 + 1 = k
      BY <1>3, <2>3 DEF Cells
    <3> QED BY SMTT(30), <1>3, <1>4, <3>1 DEF Cells
  <2> QED BY <1>1, <1>3, <2>1, <2>2, <2>3 DEF Cells
<1>7. ASSUME NEW i \in 1 .. Len(s) + 1, Stops(i) PROVE i = n + 1
  <2>1. ~ i < n + 1
    <3>1. i < n + 1 => i \in 1 .. n + 1 - 1 /\ i # Len(s) + 1
      BY <1>1, <1>3, <1>5, <1>7 DEF Cells
    <3> QED BY <1>6, <1>7, <3>1
  <2>2. ~ n + 1 < i
    <3>1. n + 1 < i => n + 1 \in 1 .. i - 1 /\ n + 1 # Len(s) + 1
      BY <1>1, <1>3, <1>5, <1>7 DEF Cells
    <3> QED BY <1>6, <1>7, <3>1
  <2> QED BY <1>1, <1>3, <2>1, <2>2 DEF Cells
<1> DEFINE stop == CHOOSE i \in 1 .. Len(s) + 1 : Stops(i)
<1>8. stop = n + 1
  BY <1>6, <1>7
<1>9. Delivered(s) = SubSeq(s, 1, n)
  <2>1. Delivered(s) = SubSeq(s, 1, stop - 1)
    BY Zenon DEF Delivered
  <2> HIDE DEF stop
  <2>2. stop - 1 = n
    BY <1>3, <1>8 DEF Cells
  <2> QED BY <2>1, <2>2
<1>10. SubSeq(s, 1, n) = [i \in 1 .. n |-> s[i]]
  BY <1>3 DEF Cells
<1> QED BY <1>1, <1>3, <1>5, <1>9, <1>10 DEF n, Cells

-----------------------------------------------------------------------------
(* The keys.                                                               *)

\* A key other than Enter leaves a buffer that fits, and either copies it or
\* changes nothing.
Edit ==
  /\ KeyPressed(FALSE)
  /\ buffer' \in Seq(Chars) /\ Len(buffer') <= MaxBuffer
  /\ \/ storage_buffer' = Stored(buffer')
     \/ UNCHANGED <<buffer, storage_buffer>>
  /\ UNCHANGED <<enter_flag, line, entered>>

LEMMA PressIsEdit ==
  ASSUME TypeOK, PressKey
  PROVE  Edit \/ PressEnter
<1>1. buffer \in Seq(Chars) /\ Len(buffer) <= MaxBuffer
  BY DEF TypeOK
<1>2. PICK l \in Nat : l = Len(buffer)
  BY <1>1
<1>3. ASSUME NEW c \in Letters \cup {NUL, SPACE}, PressCharacter(c)
      PROVE  Edit
  <2>1. c \in Chars
    BY DEF Chars
  <2>2. CASE Len(buffer) < MaxBuffer
    <3>1. Fill(Append(buffer, c))
      BY <1>3, <2>2 DEF PressCharacter
    <3>2. Append(buffer, c) \in Seq(Chars) /\ Len(Append(buffer, c)) = l + 1
      BY <1>1, <1>2, <2>1
    <3>3. Len(Append(buffer, c)) <= MaxBuffer
      BY <1>2, <2>2, <3>2
    <3> QED BY <1>3, <3>1, <3>2, <3>3 DEF PressCharacter, Edit, Fill
  <2>3. CASE ~ Len(buffer) < MaxBuffer
    BY <1>1, <1>3, <2>3 DEF PressCharacter, Edit
  <2> QED BY <2>2, <2>3
<1>4. CASE PressTab
  <2> DEFINE n == IF MaxBuffer - Len(buffer) < TabSpaces
                  THEN MaxBuffer - Len(buffer) ELSE TabSpaces
             tab == [i \in 1 .. n |-> SPACE]
  <2>1. n \in Nat /\ l + n <= MaxBuffer
    BY <1>1, <1>2
  <2>2. /\ KeyPressed(FALSE)
        /\ UNCHANGED <<enter_flag, line, entered>>
        /\ IF n > 0 THEN Fill(buffer \o tab)
                    ELSE UNCHANGED <<buffer, storage_buffer>>
    BY <1>4 DEF PressTab
  <2> HIDE DEF n
  <2>3. tab \in Seq(Chars) /\ Len(tab) = n
    BY <2>1 DEF Chars
  <2> HIDE DEF tab
  <2>4. buffer \o tab \in Seq(Chars) /\ Len(buffer \o tab) = l + n
    BY <1>1, <1>2, <2>3
  <2>5. Len(buffer \o tab) <= MaxBuffer
    BY <1>2, <2>1, <2>4
  <2>6. CASE n > 0
    BY <2>2, <2>4, <2>5, <2>6 DEF Edit, Fill
  <2>7. CASE ~ n > 0
    BY <1>1, <2>2, <2>7 DEF Edit
  <2> QED BY <2>6, <2>7
<1>5. CASE PressBackspace
  <2>1. CASE buffer = <<>>
    <3>1. Fill(buffer)
      BY <1>5, <2>1 DEF PressBackspace
    <3> QED BY <1>1, <1>5, <3>1 DEF PressBackspace, Edit, Fill
  <2>2. CASE buffer # <<>>
    <3>1. Fill(Front(buffer))
      BY <1>5, <2>2 DEF PressBackspace
    <3>2. l # 0
      BY <1>1, <1>2, <2>2
    <3>3. /\ Front(buffer) \in Seq(Chars)
          /\ Len(Front(buffer)) = l - 1
      BY <1>1, <1>2, <3>2 DEF Front
    <3>4. Len(Front(buffer)) <= MaxBuffer
      BY <1>1, <1>2, <3>2, <3>3
    <3> QED BY <1>5, <3>1, <3>3, <3>4 DEF PressBackspace, Edit, Fill
  <2> QED BY <2>1, <2>2
<1>6. CASE PressClear
  <2>1. <<>> \in Seq(Chars) /\ Len(<<>>) <= MaxBuffer
    OBVIOUS
  <2>2. buffer' = <<>> /\ storage_buffer' = Stored(<<>>)
    BY <1>6 DEF PressClear, Fill
  <2>3. buffer' \in Seq(Chars) /\ Len(buffer') <= MaxBuffer
    BY <2>1, <2>2
  <2>4. storage_buffer' = Stored(buffer')
    BY <2>2
  <2> QED BY <1>6, <2>3, <2>4 DEF PressClear, Edit
<1> QED BY <1>3, <1>4, <1>5, <1>6 DEF PressKey

-----------------------------------------------------------------------------
(* The types, and that a read waits for its Enter.                         *)

LEMMA TypesImplyTypeOK == Types => TypeOK
BY DEF Types, BuffersOK, FlagsOK, ReaderOK, TypeOK

LEMMA TypesInit == Init => Types
<1> SUFFICES ASSUME Init PROVE Types
  OBVIOUS
<1>1. <<>> \in Seq(Chars) /\ Len(<<>>) <= MaxBuffer
  OBVIOUS
<1>2. Stored(<<>>) \in [Cells -> Chars]
  BY <1>1, StoredType
<1>3. BuffersOK
  BY <1>1, <1>2 DEF Init, BuffersOK
<1>4. FlagsOK /\ Indices /\ EnterIsSeen
  BY DEF Init, FlagsOK, Indices, EnterIsSeen, Reading
<1>5. ReaderOK
  BY DEF Init, ReaderOK
<1> QED BY <1>3, <1>4, <1>5 DEF Types

LEMMA TypesNext == Types /\ [Next]_vars => Types'
<1> SUFFICES ASSUME Types, [Next]_vars PROVE Types'
  OBVIOUS
<1>1. NUL \in Chars /\ LF \in Chars
  BY DEF Chars
<1>2. /\ nbytes \in Nat
      /\ ReadLength(nbytes) \in Nat
      /\ ReadLength(nbytes) <= MaxBuffer
  BY DEF Types, ReaderOK, ReadLength
<1> USE DEF BuffersOK, FlagsOK, ReaderOK, Indices, EnterIsSeen, Reading
<1>3. CASE Edit
  <2>1. BuffersOK'
    <3>1. storage_buffer' \in [Cells -> Chars]
      BY <1>3, StoredType DEF Edit, Types
    <3> QED BY <1>3, <3>1 DEF Edit, Types, KeyPressed, readVars
  <2>2. FlagsOK'
    BY <1>3 DEF Edit, Types, KeyPressed
  <2>3. ReaderOK' /\ Indices' /\ EnterIsSeen'
    BY <1>3 DEF Edit, Types, KeyPressed, readVars
  <2> QED BY <2>1, <2>2, <2>3 DEF Types
<1>4. CASE PressEnter
  <2>1. BuffersOK'
    <3>1. storage_buffer' \in [Cells -> Chars]
      BY <1>4, StoredType DEF PressEnter, Types
    <3>2. <<>> \in Seq(Chars) /\ Len(<<>>) <= MaxBuffer
      OBVIOUS
    <3> QED BY <1>4, <3>1, <3>2 DEF PressEnter, Types, KeyPressed, readVars
  <2>2. FlagsOK'
    BY <1>4 DEF PressEnter, Types, KeyPressed
  <2>3. ReaderOK' /\ Indices' /\ EnterIsSeen'
    BY <1>4 DEF PressEnter, Types, KeyPressed, readVars
  <2> QED BY <2>1, <2>2, <2>3 DEF Types
<1>5. CASE CallRead
  <2>1. BuffersOK' /\ FlagsOK'
    BY <1>5 DEF CallRead, Types
  <2>2. ReaderOK' /\ Indices' /\ EnterIsSeen'
    BY <1>5 DEF CallRead, Types
  <2> QED BY <2>1, <2>2 DEF Types
<1>6. CASE NextPass
  <2>1. BuffersOK' /\ FlagsOK'
    <3>1. buf' \in [Cells -> Chars]
      BY <1>1, <1>6 DEF NextPass, Types
    <3> QED BY <1>6, <3>1 DEF NextPass, Types, keyVars
  <2>2. ReaderOK' /\ Indices'
    BY <1>2, <1>6 DEF NextPass, Types
  <2>3. EnterIsSeen'
    BY <1>6 DEF NextPass, Types, keyVars
  <2> QED BY <2>1, <2>2, <2>3 DEF Types
<1>7. CASE CopyCharacter
  <2>1. j \in Cells
    BY <1>2, <1>7 DEF CopyCharacter, Types, Cells
  <2>2. BuffersOK' /\ FlagsOK'
    <3>1. buf' \in [Cells -> Chars]
      BY <1>7, <2>1 DEF CopyCharacter, Types
    <3> QED BY <1>7, <3>1 DEF CopyCharacter, Types, keyVars
  <2>3. ReaderOK' /\ Indices'
    BY <1>2, <1>7, <2>1 DEF CopyCharacter, Types, Cells
  <2>4. EnterIsSeen'
    BY <1>7 DEF CopyCharacter, Types, keyVars
  <2> QED BY <2>2, <2>3, <2>4 DEF Types
<1>8. CASE FinishLine
  <2>1. FirstZero(buf) \in Cells
    BY FirstZeroStops DEF Types
  <2>2. BuffersOK'
    <3>1. buf' \in [Cells -> Chars]
      BY <1>1, <1>8 DEF FinishLine, Types
    <3> QED BY <1>8, <3>1 DEF FinishLine, Types
  <2>3. FlagsOK'
    BY <1>8 DEF FinishLine, Types
  <2>4. EnterIsSeen'
    BY <1>8 DEF FinishLine, Types
  <2>5. ReaderOK' /\ Indices'
    BY <1>8, <2>1 DEF FinishLine, Types, Cells
  <2> QED BY <2>2, <2>3, <2>4, <2>5 DEF Types
<1>9. CASE CleanCharacter
  <2>1. BuffersOK'
    <3>1. storage_buffer' \in [Cells -> Chars]
      BY <1>1, <1>9 DEF CleanCharacter, Types
    <3> QED BY <1>9, <3>1 DEF CleanCharacter, Types
  <2>2. FlagsOK' /\ EnterIsSeen'
    BY <1>9 DEF CleanCharacter, Types
  <2>3. ReaderOK' /\ Indices'
    BY <1>9 DEF CleanCharacter, Types
  <2> QED BY <2>1, <2>2, <2>3 DEF Types
<1>10. CASE CloseTerminal
  <2>1. BuffersOK'
    <3>1. <<>> \in Seq(Chars) /\ Len(<<>>) <= MaxBuffer
      OBVIOUS
    <3>2. Stored(<<>>) \in [Cells -> Chars]
      BY <3>1, StoredType
    <3> QED BY <1>10, <3>1, <3>2 DEF CloseTerminal, Fill, Types, readVars
  <2>2. FlagsOK' /\ ReaderOK' /\ Indices' /\ EnterIsSeen'
    BY <1>10 DEF CloseTerminal, Types, readVars
  <2> QED BY <2>1, <2>2 DEF Types
<1>11. CASE UNCHANGED vars
  <2>1. BuffersOK' /\ FlagsOK'
    BY <1>11 DEF vars, Types
  <2>2. ReaderOK' /\ Indices' /\ EnterIsSeen'
    BY <1>11 DEF vars, Types
  <2> QED BY <2>1, <2>2 DEF Types
<1> QED
  BY <1>3, <1>4, <1>5, <1>6, <1>7, <1>8, <1>9, <1>10, <1>11, PressIsEdit,
     TypesImplyTypeOK DEF Next, ReadStep

\* Every variable keeps its type: the buffers never hold more than they can,
\* and the loops of the reader stay in them, whenever the keys come.
THEOREM LineInputTypes == Spec => []TypeOK
<1>1. Spec => []Types
  BY TypesInit, TypesNext, PTL DEF Spec
<1> QED BY <1>1, TypesImplyTypeOK, PTL

\* read_terminal() never returns because of an Enter that came before the call
\* or that an earlier call has used.
THEOREM ReadsWaitForEnter == Spec => []ReadWaitsForEnter
<1>1. Spec => []Types
  BY TypesInit, TypesNext, PTL DEF Spec
<1>2. Types => ReadWaitsForEnter
  BY DEF Types, EnterIsSeen, ReadWaitsForEnter
<1> QED BY <1>1, <1>2, PTL

-----------------------------------------------------------------------------
(* The line returned ends with its line feed.                              *)

LEMMA LineEnded ==
  ASSUME Types, FinishLine
  PROVE  ReadEndsLine'
<1> DEFINE n == FirstZero(buf)
<1>1. buf \in [Cells -> Chars] /\ LF # NUL
  BY DEF Types, BuffersOK, LF, NUL
<1>2. n \in Cells /\ \A k \in Cells : k < n => buf[k] # NUL
  BY <1>1, FirstZeroStops
<1>3. /\ len' = n + 1
      /\ buf' = [buf EXCEPT ![n] = LF, ![MaxBuffer - 1] = LF]
  BY DEF FinishLine
<1> HIDE DEF n
<1>4. len' \in 1 .. MaxBuffer /\ len' - 1 = n
  BY <1>2, <1>3 DEF Cells
<1>5. buf'[n] = LF
  BY <1>1, <1>2, <1>3
<1>6. ASSUME NEW i \in 0 .. len' - 2 PROVE buf'[i] # NUL
  <2>1. i \in Cells /\ i < n
    BY <1>2, <1>3 DEF Cells
  <2> QED BY <1>1, <1>2, <1>3, <2>1
<1> QED BY <1>4, <1>5, <1>6 DEF ReadEndsLine

LEMMA LineEndsNext == Types /\ ReadEndsLine /\ [Next]_vars => ReadEndsLine'
<1> SUFFICES ASSUME Types, ReadEndsLine, [Next]_vars PROVE ReadEndsLine'
  OBVIOUS
<1>1. CASE UNCHANGED readVars
  BY <1>1 DEF ReadEndsLine, readVars
<1>2. CASE CallRead
  BY <1>2 DEF CallRead, ReadEndsLine
<1>3. CASE NextPass
  BY <1>3 DEF NextPass, ReadEndsLine
<1>4. CASE CopyCharacter
  BY <1>4 DEF CopyCharacter, ReadEndsLine
<1>5. CASE FinishLine
  BY <1>5, LineEnded
<1>6. CASE CleanCharacter
  BY <1>6 DEF CleanCharacter, ReadEndsLine
<1>7. PressKey \/ CloseTerminal \/ UNCHANGED vars => UNCHANGED readVars
  BY DEF PressKey, PressCharacter, PressTab, PressBackspace, PressClear,
         PressEnter, KeyPressed, CloseTerminal, vars, readVars
<1> QED BY <1>1, <1>2, <1>3, <1>4, <1>5, <1>6, <1>7 DEF Next, ReadStep

\* Whatever was asked for and whenever the keys came, the length that
\* read_terminal() returns leads to a line feed, in the buffer, and to no NUL
\* before it.
THEOREM LinesEnd == Spec => []ReadEndsLine
<1>1. Spec => []Types
  BY TypesInit, TypesNext, PTL DEF Spec
<1>2. Init => ReadEndsLine
  BY DEF Init, ReadEndsLine
<1> QED BY <1>1, <1>2, LineEndsNext, PTL DEF Spec

-----------------------------------------------------------------------------
(* The storage buffer holds characters of one line.                        *)

LEMMA OneLineNext ==
  Types /\ StorageIsOneLine /\ [Next]_vars => StorageIsOneLine'
<1> SUFFICES ASSUME Types, StorageIsOneLine, [Next]_vars
             PROVE  StorageIsOneLine'
  OBVIOUS
<1> USE DEF StorageIsOneLine
<1>1. ASSUME NEW s \in {line', buffer'}, storage_buffer' = Stored(s)
      PROVE  StorageIsOneLine'
  BY <1>1
<1>2. CASE UNCHANGED <<buffer, storage_buffer, line>>
  BY <1>2
<1>3. CASE Edit
  BY <1>1, <1>2, <1>3 DEF Edit
<1>4. CASE PressEnter
  <2>1. storage_buffer' = Stored(line') /\ line' \in {line', buffer'}
    BY <1>4 DEF PressEnter
  <2> QED BY <1>1, <2>1
<1>5. CASE CloseTerminal
  <2>1. storage_buffer' = Stored(buffer') /\ buffer' \in {line', buffer'}
    BY <1>5 DEF CloseTerminal, Fill
  <2> QED BY <1>1, <2>1
<1>6. CASE CleanCharacter
  <2>1. /\ storage_buffer \in [Cells -> Chars]
        /\ storage_buffer' = [storage_buffer EXCEPT ![j] = NUL]
        /\ UNCHANGED <<buffer, line>>
    BY <1>6 DEF CleanCharacter, Types, BuffersOK
  <2>2. \A i \in Cells : storage_buffer'[i] \in {NUL, storage_buffer[i]}
    BY <2>1
  <2> QED BY <2>1, <2>2
<1>7. CASE CallRead \/ NextPass \/ CopyCharacter \/ FinishLine
           \/ UNCHANGED vars
  <2>1. UNCHANGED <<buffer, storage_buffer, line>>
    BY <1>7 DEF CallRead, NextPass, CopyCharacter, FinishLine, vars, keyVars
  <2> QED BY <1>2, <2>1
<1> QED BY <1>3, <1>4, <1>5, <1>6, <1>7, PressIsEdit, TypesImplyTypeOK
        DEF Next, ReadStep

\* The handler and the reader, which write storage_buffer[] both, never leave
\* a mixture of two lines in it, however their steps fall.
THEOREM StorageStaysOneLine == Spec => []StorageIsOneLine
<1>1. Spec => []Types
  BY TypesInit, TypesNext, PTL DEF Spec
<1>2. Init => StorageIsOneLine
  BY DEF Init, StorageIsOneLine
<1> QED BY <1>1, <1>2, OneLineNext, PTL DEF Spec

-----------------------------------------------------------------------------
(* What a patient user typed is what the program gets.                     *)

LEMMA PatientInit == Init => PatientInv
BY DEF Init, PatientInv, PatientStorage, PatientCopy, Reading

\* The keys: a patient one comes between two lines, or after a whole pass.
LEMMA PatientKey ==
  ASSUME Types, PatientInv, Edit \/ PressEnter, ~hasty'
  PROVE  PatientInv'
<1>1. FlagsOK
  BY DEF Types
<1>2. UNCHANGED readVars /\ settled' = 0
  BY DEF Edit, PressEnter, KeyPressed
<1>3. CASE Edit
  <2>1. ~hasty /\ (pc = "program" \/ (Reading /\ settled = 2))
    BY <1>1, <1>3 DEF Edit, KeyPressed, Patient, FlagsOK
  <2>2. PatientStorage /\ (Reading => ~entered)
    BY <2>1 DEF PatientInv, Types, EnterIsSeen, Reading
  <2>3. UNCHANGED <<pc, entered>> /\ pc # "clean"
    BY <1>2, <1>3, <2>1 DEF readVars, Edit, Reading
  <2>4. storage_buffer' = Stored(buffer')
    BY <1>3, <2>1, <2>2 DEF Edit, PatientStorage
  <2>5. PatientStorage'
    BY <2>2, <2>3, <2>4 DEF PatientStorage, Reading
  <2>6. PatientCopy'
    BY <1>2, <2>2, <2>3 DEF PatientCopy, Reading
  <2> QED BY <2>5, <2>6 DEF PatientInv
<1>4. CASE PressEnter
  <2>1. ~hasty /\ Reading /\ settled = 2
    BY <1>1, <1>4 DEF PressEnter, KeyPressed, Patient, FlagsOK
  <2>2. PatientStorage /\ ~entered
    BY <2>1 DEF PatientInv, Types, EnterIsSeen
  <2>3. storage_buffer' = storage_buffer /\ storage_buffer' = Stored(line')
        /\ buffer' = <<>> /\ entered'
    BY <1>4, <2>1, <2>2 DEF PressEnter, PatientStorage
  <2>4. PatientStorage'
    BY <1>2, <2>1, <2>3 DEF PatientStorage, Reading, readVars
  <2>5. ASSUME nbytes' >= MaxBuffer PROVE PatientCopy'
    <3>1. PatientCopy
      BY <1>2, <2>1, <2>5 DEF PatientInv, readVars
    <3> QED BY <1>2, <2>1, <2>3, <3>1 DEF PatientCopy, Reading, readVars
  <2> QED BY <2>4, <2>5 DEF PatientInv
<1> QED BY <1>3, <1>4

\* A character of the line, in a pass over the whole buffer.
LEMMA PatientCharacter ==
  ASSUME Types, PatientInv, CopyCharacter, ~hasty
  PROVE  PatientInv'
<1>1. PatientStorage
  BY DEF PatientInv
<1>2. /\ pc = "copy" /\ UNCHANGED <<buffer, storage_buffer, line, entered,
                                     hasty, nbytes>>
      /\ buf' = [buf EXCEPT ![j] = storage_buffer[j]]
      /\ pc' \in {"test", "copy"}
  BY DEF CopyCharacter, keyVars
<1>3. PatientStorage'
  BY <1>1, <1>2 DEF PatientStorage, Reading
<1>4. ASSUME nbytes' >= MaxBuffer PROVE PatientCopy'
  <2>1. PatientCopy
    BY <1>2, <1>4 DEF PatientInv
  <2>2. ReadLength(nbytes) = MaxBuffer
    BY <1>2, <1>4 DEF ReadLength, Types, ReaderOK
  <2>3. j \in Cells
    BY <1>2, <2>2 DEF Types, ReaderOK, Indices, Cells
  <2>4. /\ buf \in [Cells -> Chars] /\ buf' \in [Cells -> Chars]
        /\ storage_buffer \in [Cells -> Chars]
    BY <1>2, <2>3 DEF Types, BuffersOK
  <2>5. ASSUME settled # 0 \/ entered
        PROVE  \A i \in Cells : i < j + 1 => buf'[i] = storage_buffer[i]
    BY <1>2, <2>1, <2>3, <2>4, <2>5 DEF PatientCopy, Cells
  <2>6. CASE j + 1 < MaxBuffer
    <3>1. j' = j + 1 /\ pc' = "copy" /\ settled' = settled
      BY <1>2, <2>2, <2>6 DEF CopyCharacter
    <3> QED BY <1>2, <2>5, <3>1 DEF PatientCopy
  <2>7. CASE ~ j + 1 < MaxBuffer
    <3>1. /\ pc' = "test"
          /\ settled' = IF settled = 1 THEN 2 ELSE settled
      BY <1>2, <2>2, <2>7 DEF CopyCharacter
    <3>2. \A i \in Cells : i < j + 1
      BY <2>3, <2>7 DEF Cells
    <3>3. settled # 0 \/ entered => buf' = storage_buffer
      BY <2>4, <2>5, <3>2
    <3> QED BY <1>2, <3>1, <3>3 DEF PatientCopy
  <2> QED BY <2>6, <2>7
<1> QED BY <1>3, <1>4 DEF PatientInv

\* The line is ended: what was copied is the line, up to its first zero.
LEMMA PatientFinish ==
  ASSUME Types, PatientInv, FinishLine, ~hasty
  PROVE  PatientInv'
<1> DEFINE n == FirstZero(buf)
<1>1. PatientStorage /\ Reading /\ entered
  BY DEF PatientInv, FinishLine, Types, EnterIsSeen, Reading
<1>2. /\ len' = n + 1 /\ pc' = "clean" /\ j' = 0 /\ pc = "test"
      /\ buf' = [buf EXCEPT ![n] = LF, ![MaxBuffer - 1] = LF]
      /\ UNCHANGED <<buffer, storage_buffer, nbytes, line>>
  BY DEF FinishLine
<1>3. PatientStorage'
  BY <1>1, <1>2 DEF PatientStorage, Reading, Cells
<1>4. ASSUME nbytes' >= MaxBuffer PROVE PatientCopy'
  <2>1. buf = Stored(line)
    BY <1>1, <1>2, <1>4 DEF PatientInv, PatientCopy, PatientStorage
  <2>2. line \in Seq(Chars) /\ Len(line) <= MaxBuffer
    BY DEF Types, BuffersOK
  <2>3. buf \in [Cells -> Chars] /\ n \in Cells
    BY FirstZeroStops DEF Types, BuffersOK
  <2>4. n <= Len(line) /\ Delivered(line) = [i \in 1 .. n |-> line[i]]
    BY <2>1, <2>2, LineIsDelivered
  <2> HIDE DEF n
  <2>5. ASSUME NEW i \in 1 .. n PROVE buf'[i - 1] = line[i]
    <3>1. i - 1 \in Cells /\ i - 1 < n /\ i - 1 + 1 = i
      BY <2>3 DEF Cells
    <3>2. buf'[i - 1] = buf[i - 1]
      BY <1>2, <2>3, <3>1 DEF Cells
    <3>3. PICK l \in Nat : l = Len(line)
      BY <2>2
    <3>4. i - 1 < Len(line)
      BY <2>3, <2>4, <3>1, <3>3 DEF Cells
    <3> QED BY <2>1, <2>2, <3>1, <3>2, <3>4, StoredType
  <2>6. Returned' = [i \in 1 .. n |-> buf'[i - 1]]
    <3>1. len' - 1 = n
      BY <1>2, <2>3 DEF Cells
    <3> QED BY <3>1 DEF Returned
  <2>7. Returned' = Delivered(line')
    BY <1>2, <2>4, <2>5, <2>6
  <2> QED BY <1>2, <2>7 DEF PatientCopy
<1> QED BY <1>3, <1>4 DEF PatientInv

LEMMA PatientClean ==
  ASSUME Types, PatientInv, CleanCharacter, ~hasty
  PROVE  PatientInv'
<1>1. PatientStorage /\ storage_buffer \in [Cells -> Chars]
  BY DEF PatientInv, Types, BuffersOK
<1>2. /\ pc = "clean" /\ j \in Cells
      /\ storage_buffer' = [storage_buffer EXCEPT ![j] = NUL]
      /\ UNCHANGED <<buffer, nbytes, line, entered, buf, settled>>
  BY DEF CleanCharacter, Types, ReaderOK, Indices, Cells
<1>3. \A i \in Cells : i < j + 1 => storage_buffer'[i] = NUL
  BY <1>1, <1>2 DEF PatientStorage, Cells
<1>4. CASE j + 1 < MaxBuffer
  <2>1. j' = j + 1 /\ pc' = "clean" /\ len' = len
    BY <1>4 DEF CleanCharacter
  <2>2. PatientStorage'
    BY <1>1, <1>2, <1>3, <2>1 DEF PatientStorage, Reading
  <2>3. PatientCopy => PatientCopy'
    BY <1>2, <2>1 DEF PatientCopy, Returned
  <2> QED BY <1>2, <2>2, <2>3 DEF PatientInv
<1>5. CASE ~ j + 1 < MaxBuffer
  <2>1. pc' = "program" /\ buffer' = <<>>
    BY <1>1, <1>2, <1>5 DEF CleanCharacter, PatientStorage
  <2>2. \A i \in Cells : storage_buffer'[i] = NUL
    BY <1>2, <1>3, <1>5 DEF Cells
  <2>3. storage_buffer' = Stored(<<>>)
    <3>1. \A i \in Cells : ~ i < Len(<<>>)
      BY DEF Cells
    <3>2. Stored(<<>>) = [i \in Cells |-> NUL]
      BY <3>1 DEF Stored
    <3> QED BY <1>1, <1>2, <2>2, <3>2
  <2> QED BY <2>1, <2>3 DEF PatientInv, PatientStorage, PatientCopy, Reading
<1> QED BY <1>4, <1>5

LEMMA PatientNext == Types /\ PatientInv /\ [Next]_vars => PatientInv'
<1> SUFFICES ASSUME Types, PatientInv, [Next]_vars, ~hasty'
             PROVE  PatientInv'
  BY DEF PatientInv
<1>1. CASE PressKey
  BY <1>1, PressIsEdit, PatientKey, TypesImplyTypeOK
<1>2. CASE CallRead
  <2>1. PatientStorage /\ pc = "program"
    BY <1>2 DEF CallRead, PatientInv
  <2> QED BY <1>2, <2>1
          DEF CallRead, PatientInv, PatientStorage, PatientCopy, Reading
<1>3. CASE NextPass
  <2>1. ~hasty /\ PatientStorage
    BY <1>3 DEF NextPass, keyVars, PatientInv
  <2>2. PatientStorage'
    BY <1>3, <2>1 DEF NextPass, keyVars, PatientStorage, Reading
  <2>3. ASSUME nbytes' >= MaxBuffer PROVE PatientCopy'
    <3>1. ReadLength(nbytes) # 0
      BY <1>3, <2>3 DEF NextPass, ReadLength, Types, ReaderOK
    <3>2. pc' = "copy" /\ j' = 0
      BY <1>3, <3>1 DEF NextPass
    <3> QED BY <3>2 DEF PatientCopy, Cells
  <2> QED BY <2>2, <2>3 DEF PatientInv
<1>4. CASE CopyCharacter
  BY <1>4, PatientCharacter DEF CopyCharacter, keyVars
<1>5. CASE FinishLine
  BY <1>5, PatientFinish DEF FinishLine
<1>6. CASE CleanCharacter
  BY <1>6, PatientClean DEF CleanCharacter
<1>7. CASE CloseTerminal
  <2>1. pc' = "program" /\ storage_buffer' = Stored(buffer')
    BY <1>7 DEF CloseTerminal, Fill, readVars
  <2> QED BY <2>1 DEF PatientInv, PatientStorage, PatientCopy, Reading
<1>8. CASE UNCHANGED vars
  BY <1>8 DEF vars, PatientInv, PatientStorage, PatientCopy, Reading, Returned
<1> QED BY <1>1, <1>2, <1>3, <1>4, <1>5, <1>6, <1>7, <1>8 DEF Next, ReadStep

\* When every key left the reader its time and the program asked for a whole
\* buffer, what read_terminal() returns is the line that Enter ended, up to the
\* first key without a character: nothing is lost, and nothing of an earlier
\* or later line is in it.
THEOREM PatientReadsReturnLine == Spec => []PatientReadReturnsLine
<1>1. Spec => [](Types /\ PatientInv)
  BY TypesInit, TypesNext, PatientInit, PatientNext, PTL DEF Spec
<1>2. Types /\ PatientInv => PatientReadReturnsLine
  BY DEF PatientInv, PatientCopy, PatientReadReturnsLine, ReadReturnsLine
<1> QED BY <1>1, <1>2, PTL
=============================================================================
