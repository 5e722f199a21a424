-------------------------- MODULE SystemCallsProofs -------------------------
(***************************************************************************)
(* A process finds in eax what its system call returned, and in its pcb    *)
(* the arguments of its own command: for any number of processes and any   *)
(* commands, statuses and results.                                         *)
(*                                                                         *)
(* All processes share error_code.  The argument is that a process that is *)
(* on the way out of the gate has the CPU, from the cli behind the call to *)
(* iret, so that at most one process relies on the variable.  That the     *)
(* arguments are right rests on what the loops over strings find, which    *)
(* are recursive functions of the library.                                 *)
(***************************************************************************)
EXTENDS MCSystemCalls, SequenceTheorems, WellFoundedInduction, TLAPS

Types ==
  /\ stage \in [Pids -> Stages]
  /\ parent \in [Pids -> Pids \cup {NoPid}]
  /\ running \in Pids
  /\ eax \in [Pids -> Int]
  /\ answer \in [Pids -> Int]

\* Only the running process is on the way out.
OneOnTheWay ==
  \A p \in Pids : stage[p] \in {"leaving", "stored"} => p = running

\* Where the result of each process is.
ResultIsThere ==
  \A p \in Pids :
    /\ stage[p] \in {"user", "leaving"} => eax[p] = answer[p]
    /\ stage[p] = "stored" => error_code = answer[p]

ResultInv == Types /\ OneOnTheWay /\ ResultIsThere

\* The first process has made no call.
LEMMA ResultInit == Init => ResultInv
<1> SUFFICES ASSUME Init PROVE ResultInv
  OBVIOUS
<1>0. 1 \in Pids
  BY SystemCallsAssumption DEF Pids
<1>1. Types
  BY <1>0 DEF Init, Types, Stages, NoPid
<1>2. OneOnTheWay /\ ResultIsThere
  BY DEF Init, OneOnTheWay, ResultIsThere, Types
<1> QED BY <1>1, <1>2 DEF ResultInv

\* A call of the running process that returns n leaves it on the way out with
\* n in eax.
LEMMA ReturnKeeps ==
  ASSUME ResultInv, Inside \/ Program, NEW n \in Int,
         Return(running, n), UNCHANGED <<parent, running, error_code>>
  PROVE  ResultInv'
<1>1. /\ stage' = [stage EXCEPT ![running] = "leaving"]
      /\ eax' = [eax EXCEPT ![running] = n]
      /\ answer' = [answer EXCEPT ![running] = n]
  BY DEF Return
<1>2. Types'
  BY <1>1 DEF ResultInv, Types, Stages
<1>3. OneOnTheWay'
  BY <1>1 DEF ResultInv, Types, OneOnTheWay
<1>4. ResultIsThere'
  BY <1>1 DEF ResultInv, Types, OneOnTheWay, ResultIsThere
<1> QED BY <1>2, <1>3, <1>4 DEF ResultInv

\* A process that starts while no other is on the way out.
LEMMA StartKeeps ==
  ASSUME ResultInv, NEW c \in Pids, NEW q \in Pids \cup {NoPid}, NEW command,
         NEW stages \in [Pids -> Stages],
         \A p \in Pids : /\ stages[p] \notin {"leaving", "stored"}
                         /\ stages[p] = "user" => stage[p] = "user",
         Start(c, q, command, stages)
  PROVE  ResultInv'
<1>1. /\ stage' = [stages EXCEPT ![c] = "user"]
      /\ parent' = [parent EXCEPT ![c] = q]
      /\ running' = c
      /\ eax' = [eax EXCEPT ![c] = 0]
      /\ answer' = [answer EXCEPT ![c] = 0]
  BY DEF Start
<1>2. Types'
  BY <1>1 DEF ResultInv, Types, Stages
<1>3. OneOnTheWay'
  BY <1>1 DEF OneOnTheWay
<1>4. ResultIsThere'
  BY <1>1 DEF ResultInv, Types, ResultIsThere
<1> QED BY <1>2, <1>3, <1>4 DEF ResultInv

\* Every step of the kernel and of its programs keeps the results.
LEMMA ResultStep == ResultInv /\ [Next]_vars => ResultInv'
<1> SUFFICES ASSUME ResultInv, [Next]_vars PROVE ResultInv'
  OBVIOUS
<1> USE DEF Program, Inside
<1>1. CASE Enter
  <2>1. Types'
    BY <1>1 DEF Enter, history, ResultInv, Types, Stages
  <2>2. OneOnTheWay' /\ ResultIsThere'
    BY <1>1 DEF Enter, history, ResultInv, Types, OneOnTheWay, ResultIsThere
  <2> QED BY <2>1, <2>2 DEF ResultInv
<1>2. CASE EnterError
  <2>1. -1 \in Int
    OBVIOUS
  <2> QED BY <1>2, <2>1, ReturnKeeps DEF EnterError
<1>3. CASE ReturnResult
  <2>1. PICK n \in Results \cup {VidmapAnswer(a) : a \in Addresses} \cup {-1} :
          Return(running, n)
    BY <1>3 DEF ReturnResult
  <2>2. n \in Int
    BY SystemCallsAssumption DEF VidmapAnswer
  <2> QED BY <1>3, <2>1, <2>2, ReturnKeeps DEF ReturnResult
<1>4. CASE GetArgs
  <2>1. PICK n \in {-1, 0} : Return(running, n)
    BY <1>4 DEF GetArgs
  <2>2. n \in Int
    OBVIOUS
  <2> QED BY <1>4, <2>1, <2>2, ReturnKeeps DEF GetArgs
<1>5. CASE ExecuteFails
  <2>1. -1 \in Int
    OBVIOUS
  <2> QED BY <1>5, <2>1, ReturnKeeps DEF ExecuteFails
<1>6. CASE Execute
  <2>1. PICK command \in Commands, c \in Pids :
          Start(c, running, command, [stage EXCEPT ![running] = "waiting"])
    BY <1>6 DEF Execute
  <2> DEFINE stages == [stage EXCEPT ![running] = "waiting"]
  <2>2. stages \in [Pids -> Stages]
    BY DEF ResultInv, Types, Stages
  <2>3. \A p \in Pids : /\ stages[p] \notin {"leaving", "stored"}
                        /\ stages[p] = "user" => stage[p] = "user"
    BY DEF ResultInv, Types, OneOnTheWay
  <2>4. running \in Pids \cup {NoPid}
    BY DEF ResultInv, Types
  <2> QED BY <2>1, <2>2, <2>3, <2>4, StartKeeps
<1>7. CASE Halt
  <2> DEFINE p == parent[running]
  <2>1. p \in Pids
    BY <1>7 DEF Halt, ResultInv, Types
  <2>2. PICK status \in Statuses :
          /\ eax' = [eax EXCEPT ![p] = status]
          /\ answer' = [answer EXCEPT ![p] = status]
    BY <1>7 DEF Halt
  <2>3. /\ running' = p
        /\ stage' = [stage EXCEPT ![running] = "free", ![p] = "leaving"]
        /\ parent' = [parent EXCEPT ![running] = NoPid]
    BY <1>7 DEF Halt
  <2> HIDE DEF p
  <2>4. Types'
    BY <2>1, <2>2, <2>3, SystemCallsAssumption DEF ResultInv, Types, Stages
  <2>5. OneOnTheWay'
    BY <2>1, <2>3 DEF ResultInv, Types, OneOnTheWay
  <2>6. ResultIsThere'
    BY <2>1, <2>2, <2>3 DEF ResultInv, Types, OneOnTheWay, ResultIsThere
  <2> QED BY <2>4, <2>5, <2>6 DEF ResultInv
<1>8. CASE HaltRoot
  <2>1. PICK c \in Pids :
          Start(c, NoPid, Shell, [stage EXCEPT ![running] = "free"])
    BY <1>8 DEF HaltRoot
  <2> DEFINE stages == [stage EXCEPT ![running] = "free"]
  <2>2. stages \in [Pids -> Stages]
    BY DEF ResultInv, Types, Stages
  <2>3. \A p \in Pids : /\ stages[p] \notin {"leaving", "stored"}
                        /\ stages[p] = "user" => stage[p] = "user"
    BY DEF ResultInv, Types, OneOnTheWay
  <2> QED BY <2>1, <2>2, <2>3, StartKeeps
<1>9. CASE StoreResult
  <2>1. Types'
    BY <1>9 DEF StoreResult, history, ResultInv, Types, Stages
  <2>2. OneOnTheWay' /\ ResultIsThere'
    BY <1>9 DEF StoreResult, history, ResultInv, Types, OneOnTheWay,
                ResultIsThere
  <2> QED BY <2>1, <2>2 DEF ResultInv
<1>10. CASE LoadResult
  <2>1. error_code = answer[running]
    BY <1>10 DEF LoadResult, ResultInv, Types, ResultIsThere
  <2>2. Types'
    BY <1>10, <2>1 DEF LoadResult, history, ResultInv, Types, Stages
  <2>3. OneOnTheWay' /\ ResultIsThere'
    BY <1>10, <2>1 DEF LoadResult, history, ResultInv, Types, OneOnTheWay,
                       ResultIsThere
  <2> QED BY <2>2, <2>3 DEF ResultInv
<1>11. CASE Preempt
  <2>1. stage[running] \notin {"leaving", "stored"}
    BY <1>11 DEF Preempt, InterruptsOn
  <2>2. running' \in Pids
    BY <1>11 DEF Preempt, Live
  <2> QED BY <1>11, <2>1, <2>2 DEF Preempt, history, ResultInv, Types,
                                   OneOnTheWay, ResultIsThere
<1>12. CASE OpenTerminal
  <2>1. PICK c \in Pids : Start(c, NoPid, Shell, stage)
    BY <1>12 DEF OpenTerminal
  <2>2. \A p \in Pids : stage[p] \notin {"leaving", "stored"}
    BY <1>12 DEF OpenTerminal, InterruptsOn, ResultInv, OneOnTheWay
  <2>3. stage \in [Pids -> Stages]
    BY DEF ResultInv, Types
  <2> QED BY <2>1, <2>2, <2>3, StartKeeps
<1>13. CASE Exception
  BY <1>13 DEF Exception, history, ResultInv, Types, OneOnTheWay,
               ResultIsThere
<1>14. CASE UNCHANGED vars
  BY <1>14 DEF vars, history, ResultInv, Types, OneOnTheWay, ResultIsThere
<1>15. CASE Spin
  BY <1>14, <1>15 DEF Spin
<1> QED
  BY <1>1, <1>2, <1>3, <1>4, <1>5, <1>6, <1>7, <1>8, <1>9, <1>10, <1>11,
     <1>12, <1>13, <1>14, <1>15 DEF Next

\* A program finds in eax what its own call returned, whatever the others have
\* stored in error_code: idt_gate.S, lines 344 to 360.
THEOREM ResultsAreKept == Spec => []ResultIsKept
<1>1. ResultInv => ResultIsKept
  BY DEF ResultInv, ResultIsThere, ResultIsKept, Live
<1> QED BY <1>1, ResultInit, ResultStep, PTL DEF Spec

-----------------------------------------------------------------------------
(* Strings.                                                                *)

\* The least element of a set of naturals.
LEMMA LeastNat ==
  ASSUME NEW T, T \subseteq Nat, T # {}
  PROVE  \E n \in T : \A m \in T : n <= m
<1>1. PICK n \in T : \A m \in T : ~ (<<m, n>> \in OpToRel(<, Nat))
  BY NatLessThanWellFounded, WFMin, Zenon
<1>2. \A m \in T : ~ m < n
  BY <1>1, Zenon DEF OpToRel
<1> QED BY <1>2

\* Two functions that start with the same value and make the same steps.
LEMMA SameSteps ==
  ASSUME NEW n \in Nat, NEW f, NEW g, f[0] = g[0],
         \A k \in 1 .. n : f[k - 1] = g[k - 1] => f[k] = g[k]
  PROVE  f[n] = g[n]
<1> DEFINE D == {k \in 0 .. n : f[k] # g[k]}
<1>1. D = {}
  <2> SUFFICES ASSUME D # {} PROVE FALSE
    OBVIOUS
  <2>1. D \subseteq Nat
    OBVIOUS
  <2>2. PICK k \in D : \A l \in D : k <= l
    <3> HIDE DEF D
    <3> QED BY <2>1, LeastNat
  <2>3. k \in 1 .. n /\ f[k] # g[k]
    BY <2>2
  <2>4. k - 1 \in 0 .. n /\ ~(k <= k - 1)
    BY <2>3
  <2>5. f[k - 1] = g[k - 1]
    BY <2>2, <2>4
  <2> QED BY <2>3, <2>5
<1> QED BY <1>1

\* FirstOf is a recursive function, which has a value because this function
\* satisfies its definition.
LEMMA FirstOfRecursion ==
  ASSUME NEW s, NEW stop
  PROVE  \E f : f = [k \in Nat |-> IF s[k + 1] \in stop THEN k ELSE f[k + 1]]
<1> DEFINE T(k) == {n \in Nat : k <= n /\ s[n + 1] \in stop}
           G(k) == CHOOSE n \in T(k) : \A m \in T(k) : n <= m
           g == [k \in Nat |-> G(k)]
<1>1. ASSUME NEW k \in Nat, s[k + 1] \in stop
      PROVE  G(k) = k
  <2>1. k \in T(k) /\ \A m \in T(k) : k <= m
    BY <1>1
  <2>2. G(k) \in T(k) /\ \A m \in T(k) : G(k) <= m
    BY <2>1
  <2> HIDE DEF G
  <2> QED BY <2>1, <2>2
<1>2. ASSUME NEW k \in Nat, s[k + 1] \notin stop
      PROVE  G(k) = G(k + 1)
  <2>1. T(k) = T(k + 1)
    BY <1>2
  <2> HIDE DEF T
  <2> QED BY <2>1
<1> HIDE DEF G
<1>3. g = [k \in Nat |-> IF s[k + 1] \in stop THEN k ELSE g[k + 1]]
  BY <1>1, <1>2
<1> QED BY <1>3

\* The loop stops at m when m is the first position to stop at.
LEMMA FirstOfIs ==
  ASSUME NEW s, NEW i \in Nat, NEW stop, NEW m \in Nat, i <= m,
         s[m + 1] \in stop, \A k \in i .. m - 1 : s[k + 1] \notin stop
  PROVE  FirstOf(s, i, stop) = m
<1> DEFINE first == CHOOSE f :
             f = [k \in Nat |-> IF s[k + 1] \in stop THEN k ELSE f[k + 1]]
<1>1. FirstOf(s, i, stop) = first[i]
  BY Zenon DEF FirstOf
<1>2. first = [k \in Nat |-> IF s[k + 1] \in stop THEN k ELSE first[k + 1]]
  BY FirstOfRecursion, Zenon
<1> HIDE DEF first
<1>3. \A k \in Nat : first[k] = IF s[k + 1] \in stop THEN k ELSE first[k + 1]
  BY <1>2, Zenon
<1> DEFINE D == {n \in 0 .. m - i : first[m - n] # m}
<1>4. D = {}
  <2> SUFFICES ASSUME D # {} PROVE FALSE
    OBVIOUS
  <2>1. D \subseteq Nat
    OBVIOUS
  <2>2. PICK n \in D : \A l \in D : n <= l
    <3> HIDE DEF D
    <3> QED BY <2>1, LeastNat
  <2>3. CASE n = 0
    <3>1. first[m] = m
      BY <1>3
    <3> QED BY <2>3, <3>1
  <2>4. CASE n # 0
    <3>1. n - 1 \in 0 .. m - i /\ ~(n <= n - 1) /\ m - n \in Nat
          /\ m - n \in i .. m - 1 /\ (m - n) + 1 = m - (n - 1)
      BY <2>4
    <3>2. first[m - (n - 1)] = m
      BY <2>2, <3>1
    <3>3. first[m - n] = first[(m - n) + 1]
      BY <1>3, <3>1
    <3> QED BY <3>1, <3>2, <3>3
  <2> QED BY <2>3, <2>4
<1>5. m - i \in 0 .. m - i /\ m - (m - i) = i
  OBVIOUS
<1> QED BY <1>1, <1>4, <1>5

\* The first stop, when there is one.
LEMMA FirstOfStops ==
  ASSUME NEW s, NEW i \in Nat, NEW stop, NEW j \in Nat, i <= j,
         s[j + 1] \in stop
  PROVE  /\ FirstOf(s, i, stop) \in i .. j
         /\ s[FirstOf(s, i, stop) + 1] \in stop
         /\ \A k \in i .. FirstOf(s, i, stop) - 1 : s[k + 1] \notin stop
<1> DEFINE T == {n \in Nat : i <= n /\ s[n + 1] \in stop}
<1>1. T \subseteq Nat /\ j \in T
  OBVIOUS
<1>2. PICK m \in T : \A n \in T : m <= n
  <2> HIDE DEF T
  <2> QED BY <1>1, LeastNat
<1>3. /\ m \in i .. j /\ s[m + 1] \in stop
      /\ \A k \in i .. m - 1 : s[k + 1] \notin stop
  BY <1>1, <1>2
<1>4. FirstOf(s, i, stop) = m
  BY <1>3, FirstOfIs
<1> QED BY <1>3, <1>4

-----------------------------------------------------------------------------
\* What holds t and then a Nul is the string t.
LEMMA CStringIs ==
  ASSUME NEW s \in Seq(Int), NEW t \in Seq(Int), Len(t) < Len(s),
         \A k \in 1 .. Len(t) : s[k] = t[k] /\ t[k] # Nul,
         s[Len(t) + 1] = Nul
  PROVE  StrLen(s) = Len(t) /\ CString(s) = t
<1>1. PICK n \in Nat : n = Len(t)
  BY LenProperties
<1>2. StrLen(s) = n
  <2>1. ASSUME NEW k \in 0 .. n - 1 PROVE s[k + 1] \notin {Nul}
    <3>1. k + 1 \in 1 .. n
      OBVIOUS
    <3> QED BY <3>1, <1>1
  <2>2. s[n + 1] \in {Nul} /\ 0 \in Nat /\ 0 <= n
    BY <1>1
  <2>3. FirstOf(s, 0, {Nul}) = n
    BY <2>1, <2>2, FirstOfIs
  <2> QED BY <2>3, Zenon DEF StrLen
<1>3. SubSeq(s, 1, n) = t
  <2>1. SubSeq(s, 1, n) \in Seq(Int) /\ Len(SubSeq(s, 1, n)) = n
        /\ \A k \in 1 .. n : SubSeq(s, 1, n)[k] = s[k]
    BY <1>1, LenProperties
  <2> QED BY <1>1, <2>1, SeqEqual
<1> QED BY <1>1, <1>2, <1>3 DEF CString

\* strlen() finds a Nul, and the first one.
LEMMA StringEnds ==
  ASSUME NEW s \in Seq(Int), IsString(s)
  PROVE  /\ StrLen(s) \in 0 .. Len(s) - 1 /\ s[StrLen(s) + 1] = Nul
         /\ \A k \in 1 .. StrLen(s) : s[k] # Nul
<1>1. PICK i \in 1 .. Len(s) : s[i] = Nul
  BY DEF IsString
<1>2. /\ FirstOf(s, 0, {Nul}) \in 0 .. i - 1
      /\ s[FirstOf(s, 0, {Nul}) + 1] \in {Nul}
      /\ \A k \in 0 .. FirstOf(s, 0, {Nul}) - 1 : s[k + 1] \notin {Nul}
  <2>1. i - 1 \in Nat /\ 0 \in Nat /\ 0 <= i - 1 /\ (i - 1) + 1 = i
    BY LenProperties
  <2>2. s[(i - 1) + 1] \in {Nul}
    BY <1>1, <2>1
  <2> HIDE DEF Nul
  <2> QED BY <2>1, <2>2, FirstOfStops
<1>3. PICK n \in Nat : n = StrLen(s)
  BY <1>2 DEF StrLen
<1>4. \A k \in 1 .. n : s[k] # Nul
  <2> SUFFICES ASSUME NEW k \in 1 .. n PROVE s[k] # Nul
    OBVIOUS
  <2>1. k - 1 \in 0 .. n - 1 /\ (k - 1) + 1 = k
    OBVIOUS
  <2> QED BY <1>2, <1>3, <2>1 DEF StrLen
<1>5. n \in 0 .. Len(s) - 1 /\ s[n + 1] = Nul
  <2>1. PICK l \in Nat : l = Len(s)
    BY LenProperties
  <2> QED BY <1>2, <1>3, <2>1 DEF StrLen
<1> QED BY <1>3, <1>4, <1>5

\* Memory in which execute() finds the end of a command.
IsCommand(c) ==
  /\ c \in Seq(Int) /\ IsString(c)
  /\ \E i \in FirstOf(c, 0, Separators) + 2 .. Len(c) : c[i] = Nul

LEMMA CommandsEnd ==
  ASSUME NEW c \in Commands \cup {Shell}
  PROVE  IsCommand(c)
<1>1. c \in Seq(0 .. 255) /\ 0 .. 255 \subseteq Int
  BY CommandsAssumption
<1>2. c \in Seq(Int)
  BY <1>1, SeqMonotonic
<1> QED BY <1>2, CommandsAssumption, SystemCallsAssumption DEF IsCommand

\* What execute() makes of a command: where the name and the arguments end.
LEMMA CommandParts ==
  ASSUME NEW c, IsCommand(c)
  PROVE  \E n, m, k \in Nat :
           /\ n = StrLen(c) /\ c[n + 1] = Nul /\ \A i \in 1 .. n : c[i] # Nul
           /\ m <= n /\ c[m + 1] \in Separators
           /\ \A i \in 1 .. m : c[i] \notin Separators
           /\ m < k /\ k < Len(c) /\ c[k + 1] = Nul
           /\ \A i \in m + 2 .. k : c[i] # Nul
           /\ TestCommand(c) = SubSeq(c, 1, m) \o <<Nul>>
           /\ Buffer(c) = SubSeq(c, m + 2, k) \o <<Nul>>
<1>1. c \in Seq(Int) /\ IsString(c)
  BY DEF IsCommand
<1>2. PICK n \in Nat : n = StrLen(c)
  BY <1>1, StringEnds
<1>3. c[n + 1] = Nul /\ \A i \in 1 .. n : c[i] # Nul
  BY <1>1, <1>2, StringEnds
<1>4. /\ FirstOf(c, 0, Separators) \in 0 .. n
      /\ c[FirstOf(c, 0, Separators) + 1] \in Separators
      /\ \A i \in 0 .. FirstOf(c, 0, Separators) - 1 :
           c[i + 1] \notin Separators
  BY <1>3, FirstOfStops DEF Separators
<1>5. PICK m \in Nat : m = FirstOf(c, 0, Separators)
  BY <1>4
<1>6. PICK j \in m + 2 .. Len(c) : c[j] = Nul
  BY <1>5 DEF IsCommand
<1>7. /\ FirstOf(c, m + 1, {Nul}) \in m + 1 .. j - 1
      /\ c[FirstOf(c, m + 1, {Nul}) + 1] \in {Nul}
      /\ \A i \in m + 1 .. FirstOf(c, m + 1, {Nul}) - 1 : c[i + 1] \notin {Nul}
  <2>1. m + 1 \in Nat /\ j - 1 \in Nat /\ m + 1 <= j - 1 /\ (j - 1) + 1 = j
    BY LenProperties, <1>1
  <2> QED BY <1>6, <2>1, FirstOfStops
<1>8. PICK k \in Nat : k = FirstOf(c, m + 1, {Nul})
  BY <1>7
<1>9. \A i \in 1 .. m : c[i] \notin Separators
  <2> SUFFICES ASSUME NEW i \in 1 .. m PROVE c[i] \notin Separators
    OBVIOUS
  <2>1. i - 1 \in 0 .. m - 1 /\ (i - 1) + 1 = i
    OBVIOUS
  <2> QED BY <1>4, <1>5, <2>1
<1>10. \A i \in m + 2 .. k : c[i] # Nul
  <2> SUFFICES ASSUME NEW i \in m + 2 .. k PROVE c[i] # Nul
    OBVIOUS
  <2>1. i - 1 \in m + 1 .. k - 1 /\ (i - 1) + 1 = i
    OBVIOUS
  <2> QED BY <1>7, <1>8, <2>1
<1>11. TestCommand(c) = SubSeq(c, 1, m) \o <<Nul>>
  BY <1>5, Zenon DEF TestCommand
<1>12. Buffer(c) = SubSeq(c, m + 2, k) \o <<Nul>>
  <2>1. Buffer(c) = SubSeq(c, (m + 1) + 1, k) \o <<Nul>>
    BY <1>5, <1>8, Zenon DEF Buffer
  <2>2. (m + 1) + 1 = m + 2
    OBVIOUS
  <2> QED BY <2>1, <2>2
<1>13. /\ m <= n /\ m < k /\ k < Len(c)
       /\ c[m + 1] \in Separators /\ c[k + 1] = Nul
  <2>1. Len(c) \in Nat
    BY <1>1, LenProperties
  <2> QED BY <1>4, <1>5, <1>7, <1>8, <2>1
<1> QED BY <1>2, <1>3, <1>9, <1>10, <1>11, <1>12, <1>13

\* A piece of a string.
LEMMA Piece ==
  ASSUME NEW s \in Seq(Int), NEW i \in Nat, i >= 1, NEW k \in Nat,
         k + 1 >= i, k <= Len(s)
  PROVE  /\ SubSeq(s, i, k) \in Seq(Int) /\ Len(SubSeq(s, i, k)) = k - i + 1
         /\ \A l \in 1 .. k - i + 1 : SubSeq(s, i, k)[l] = s[i + l - 1]
<1>1. i .. k \subseteq 1 .. Len(s)
  OBVIOUS
<1> QED BY <1>1, LenProperties, SubSeqProperties

\* Two pieces behind each other.
LEMMA Joined ==
  ASSUME NEW s \in Seq(Int), NEW t \in Seq(Int),
         NEW p \in Nat, NEW q \in Nat, p = Len(s), q = Len(t)
  PROVE  /\ s \o t \in Seq(Int) /\ Len(s \o t) = p + q
         /\ \A i \in 1 .. p : (s \o t)[i] = s[i]
         /\ \A i \in 1 .. q : (s \o t)[p + i] = t[i]
<1>1. /\ s \o t \in Seq(Int) /\ Len(s \o t) = Len(s) + Len(t)
      /\ \A i \in 1 .. Len(s) + Len(t) : (s \o t)[i] =
           IF i <= Len(s) THEN s[i] ELSE t[i - Len(s)]
  BY ConcatProperties
<1>2. ASSUME NEW i \in 1 .. q PROVE (s \o t)[p + i] = t[i]
  <2>1. p + i \in 1 .. p + q /\ ~(p + i <= p) /\ p + i - p = i
    OBVIOUS
  <2> QED BY <1>1, <2>1
<1> QED BY <1>1, <1>2

\* A piece without a Nul, ended with one, is the string that it holds.
LEMMA EndedPiece ==
  ASSUME NEW t \in Seq(Int), \A l \in 1 .. Len(t) : t[l] # Nul
  PROVE  /\ t \o <<Nul>> \in Seq(Int) /\ Len(t \o <<Nul>>) = Len(t) + 1
         /\ StrLen(t \o <<Nul>>) = Len(t) /\ CString(t \o <<Nul>>) = t
         /\ (t \o <<Nul>>)[Len(t) + 1] = Nul
<1>1. <<Nul>> \in Seq(Int) /\ Len(<<Nul>>) = 1 /\ <<Nul>>[1] = Nul
  BY DEF Nul
<1>2. PICK n \in Nat : n = Len(t)
  BY LenProperties
<1> DEFINE s == t \o <<Nul>>
<1>3. /\ s \in Seq(Int) /\ Len(s) = n + 1 /\ s[n + 1] = Nul
      /\ \A l \in 1 .. n : s[l] = t[l]
  BY <1>1, <1>2, ConcatProperties
<1> HIDE DEF s
<1>4. Len(t) < Len(s)
  BY <1>2, <1>3
<1>5. StrLen(s) = Len(t) /\ CString(s) = t
  BY <1>2, <1>3, <1>4, CStringIs
<1> QED BY <1>2, <1>3, <1>5 DEF s

\* The name and the arguments are the two parts of the command.
LEMMA CommandSplits ==
  ASSUME NEW c, IsCommand(c), IsSeparated(c)
  PROVE  IsSplit(CString(c), CString(TestCommand(c)), CString(Buffer(c)))
<1>1. PICK n, m, k \in Nat :
           /\ n = StrLen(c) /\ c[n + 1] = Nul /\ \A i \in 1 .. n : c[i] # Nul
           /\ m <= n /\ c[m + 1] \in Separators
           /\ \A i \in 1 .. m : c[i] \notin Separators
           /\ m < k /\ k < Len(c) /\ c[k + 1] = Nul
           /\ \A i \in m + 2 .. k : c[i] # Nul
           /\ TestCommand(c) = SubSeq(c, 1, m) \o <<Nul>>
           /\ Buffer(c) = SubSeq(c, m + 2, k) \o <<Nul>>
  BY CommandParts
<1>2. c \in Seq(Int) /\ n < Len(c)
  <2>1. c \in Seq(Int) /\ IsString(c)
    BY DEF IsCommand
  <2> QED BY <1>1, <2>1, StringEnds
<1> DEFINE name == SubSeq(c, 1, m)
           arguments == SubSeq(c, m + 2, k)
<1>3. /\ name \in Seq(Int) /\ Len(name) = m
      /\ \A i \in 1 .. m : name[i] = c[i]
  <2>1. /\ 1 \in Nat /\ m + 1 >= 1 /\ m <= Len(c) /\ m - 1 + 1 = m
        /\ \A i \in 1 .. m : 1 + i - 1 = i
    BY <1>1, <1>2, LenProperties
  <2>2. /\ name \in Seq(Int) /\ Len(name) = m - 1 + 1
        /\ \A i \in 1 .. m - 1 + 1 : name[i] = c[1 + i - 1]
    BY <1>2, <2>1, Piece
  <2> HIDE DEF name
  <2> QED BY <2>1, <2>2
<1>4. /\ arguments \in Seq(Int) /\ Len(arguments) = k - (m + 1)
      /\ \A i \in 1 .. k - (m + 1) : arguments[i] = c[m + 1 + i]
  BY SMTT(30), <1>1, <1>2, Piece
<1>5. CString(TestCommand(c)) = name
  <2>1. \A i \in 1 .. Len(name) : name[i] # Nul
    BY <1>1, <1>3 DEF Separators
  <2> HIDE DEF name
  <2> QED BY <1>1, <1>3, <2>1, EndedPiece DEF name
<1>6. CString(Buffer(c)) = arguments
  <2>1. ASSUME NEW i \in 1 .. Len(arguments) PROVE arguments[i] # Nul
    <3>1. m + 1 + i \in m + 2 .. k /\ i \in 1 .. k - (m + 1)
      BY <1>1, <1>4
    <3> QED BY <1>1, <1>4, <3>1
  <2> HIDE DEF arguments
  <2> QED BY <1>1, <1>4, <2>1, EndedPiece DEF arguments
<1>7. CString(c) = SubSeq(c, 1, n)
  BY <1>1, Zenon DEF CString
<1>8. /\ SubSeq(c, 1, n) \in Seq(Int) /\ Len(SubSeq(c, 1, n)) = n
      /\ \A i \in 1 .. n : SubSeq(c, 1, n)[i] = c[i]
  <2>1. n <= Len(c) /\ n + 1 >= 1
    BY <1>2, LenProperties
  <2> QED BY <1>2, <2>1, Piece
<1> HIDE DEF name, arguments
<1>9. \A i \in DOMAIN name : name[i] \notin Separators
  BY <1>1, <1>3, LenProperties
<1>10. CASE m = n
  <2>1. k = n + 1
    <3>1. \A i \in 1 .. n : c[i] \notin Separators
      BY <1>1, <1>10
    <3>2. c[n + 2] = Nul
      BY <1>1, <3>1 DEF IsSeparated
    <3>3. ~(n + 2 <= k)
      BY <1>1, <1>10, <3>2
    <3> QED BY <1>1, <1>10, <3>3
  <2>2. arguments = <<>>
    BY <1>4, <1>10, <2>1, EmptySeq
  <2>3. SubSeq(c, 1, n) = name
    BY <1>10 DEF name
  <2> QED BY <1>5, <1>6, <1>7, <1>9, <2>2, <2>3 DEF IsSplit
<1>11. CASE m < n
  <2>1. k = n
    <3>1. ~(n < k)
      <4> SUFFICES ASSUME n < k PROVE FALSE
        OBVIOUS
      <4>1. n + 1 \in m + 2 .. k
        BY <1>11
      <4> QED BY <1>1, <4>1
    <3>2. ~(k < n)
      <4> SUFFICES ASSUME k < n PROVE FALSE
        OBVIOUS
      <4>1. k + 1 \in 1 .. n
        OBVIOUS
      <4> QED BY <1>1, <4>1
    <3> QED BY <3>1, <3>2
  <2> DEFINE one == <<c[m + 1]>>
             front == name \o one
             text == front \o arguments
  <2>2. c[m + 1] \in Int
    BY <1>1, <1>2, ElementOfSeq
  <2>3. one \in Seq(Int) /\ one[1] = c[m + 1]
    BY <2>2
  <2>4. PICK e \in Nat : e = Len(one) /\ e = 1
    OBVIOUS
  <2> HIDE DEF one
  <2>5. /\ front \in Seq(Int) /\ Len(front) = m + e
        /\ \A i \in 1 .. m : front[i] = name[i]
        /\ \A i \in 1 .. e : front[m + i] = one[i]
    <3>1. /\ m = Len(name) /\ e = Len(one) /\ m \in Nat /\ e \in Nat
          /\ name \in Seq(Int) /\ one \in Seq(Int)
      BY <1>1, <1>3, <2>3, <2>4
    <3> QED BY <3>1, Joined
  <2> HIDE DEF front
  <2>6. PICK f, q \in Nat : f = m + 1 /\ q = k - (m + 1)
    BY <1>1
  <2>7. Len(front) = f /\ \A i \in 1 .. f : front[i] = c[i]
    <3>1. front[m + 1] = c[m + 1]
      BY <2>3, <2>4, <2>5
    <3>2. ASSUME NEW i \in 1 .. f PROVE front[i] = c[i]
      <4>1. i \in 1 .. m \/ i = m + 1
        BY <2>6
      <4> QED BY <1>3, <2>5, <3>1, <4>1
    <3>3. Len(front) = f
      BY <2>4, <2>5, <2>6
    <3> QED BY <3>2, <3>3
  <2>8. /\ text \in Seq(Int) /\ Len(text) = f + q
        /\ \A i \in 1 .. f : text[i] = front[i]
        /\ \A i \in 1 .. q : text[f + i] = arguments[i]
    <3>1. /\ f = Len(front) /\ q = Len(arguments) /\ f \in Nat /\ q \in Nat
          /\ front \in Seq(Int) /\ arguments \in Seq(Int)
      BY <1>4, <2>5, <2>6, <2>7
    <3> QED BY <3>1, Joined
  <2> HIDE DEF text
  <2>9. ASSUME NEW i \in 1 .. n PROVE text[i] = c[i]
    <3>1. CASE i <= f
      <4>1. i \in 1 .. f
        BY <2>6, <3>1
      <4> QED BY <2>7, <2>8, <4>1
    <3>2. CASE i > f
      <4>1. PICK l \in 1 .. q : i = f + l
        <5>1. i - f \in 1 .. q /\ i = f + (i - f)
          BY <2>1, <2>6, <3>2
        <5> QED BY <5>1
      <4>2. arguments[l] = c[m + 1 + l] /\ f + l = m + 1 + l
        BY <1>4, <2>6
      <4> QED BY <2>8, <4>1, <4>2
    <3> QED BY <3>1, <3>2, <2>6, <1>1
  <2>10. SubSeq(c, 1, n) = text
    <3>1. Len(text) = n
      BY <2>1, <2>6, <2>8
    <3> QED BY <1>8, <2>8, <2>9, <3>1, SeqEqual
  <2> QED BY <1>1, <1>5, <1>6, <1>7, <1>9, <2>10 DEF IsSplit, text, front, one
<1> QED BY <1>1, <1>10, <1>11

-----------------------------------------------------------------------------
(* The array args.                                                         *)

Array == [1 .. ArgSize -> Int]

\* The args of a pcb are a sequence of ArgSize characters.
LEMMA ArrayIsSequence ==
  ASSUME NEW a \in Array
  PROVE  a \in Seq(Int) /\ ArgSize = Len(a)
BY CommandsAssumption DEF Array

\* new_pcb() and strcpy() leave the arguments and nothing of the old ones.
LEMMA NewArgsHold ==
  ASSUME NEW old \in Array, NEW c \in Commands \cup {Shell}
  PROVE  /\ NewArgs(old, c) \in Array /\ IsString(NewArgs(old, c))
         /\ CString(NewArgs(old, c)) = CString(Buffer(c))
<1>1. PICK n, m, k \in Nat :
           /\ n = StrLen(c) /\ c[n + 1] = Nul /\ \A i \in 1 .. n : c[i] # Nul
           /\ m <= n /\ c[m + 1] \in Separators
           /\ \A i \in 1 .. m : c[i] \notin Separators
           /\ m < k /\ k < Len(c) /\ c[k + 1] = Nul
           /\ \A i \in m + 2 .. k : c[i] # Nul
           /\ TestCommand(c) = SubSeq(c, 1, m) \o <<Nul>>
           /\ Buffer(c) = SubSeq(c, m + 2, k) \o <<Nul>>
  BY CommandParts, CommandsEnd
<1>2. c \in Seq(Int)
  <2>1. c \in Seq(0 .. 255) /\ 0 .. 255 \subseteq Int
    BY CommandsAssumption
  <2> QED BY <2>1, SeqMonotonic
<1> DEFINE arguments == SubSeq(c, m + 2, k)
<1>3. /\ arguments \in Seq(Int) /\ Len(arguments) = k - (m + 1)
      /\ \A i \in 1 .. k - (m + 1) : arguments[i] = c[m + 1 + i]
  BY SMTT(30), <1>1, <1>2, Piece
<1>4. ASSUME NEW i \in 1 .. Len(arguments) PROVE arguments[i] # Nul
  <2>1. m + 1 + i \in m + 2 .. k /\ i \in 1 .. k - (m + 1)
    BY <1>1, <1>3
  <2> QED BY <1>1, <1>3, <2>1
<1> DEFINE b == Buffer(c)
<1>5. b = arguments \o <<Nul>>
  BY <1>1
<1> HIDE DEF arguments, b
<1>6. PICK l \in Nat : l = Len(arguments)
  BY <1>3, LenProperties
<1>7. /\ b \in Seq(Int) /\ l + 1 = Len(b) /\ StrLen(b) = l
      /\ CString(b) = arguments /\ b[l + 1] = Nul
      /\ \A i \in 1 .. l : b[i] = arguments[i]
  <2>1. <<Nul>> \in Seq(Int)
    BY DEF Nul
  <2>2. \A i \in 1 .. l : b[i] = arguments[i]
    BY <1>3, <1>5, <1>6, <2>1, ConcatProperties
  <2> QED BY <1>3, <1>4, <1>5, <1>6, <2>2, EndedPiece
<1>8. l < ArgSize /\ ArgSize \in Nat
  BY <1>7, CommandsAssumption DEF b
<1> DEFINE a == NewArgs(old, c)
<1>9. a = [i \in 1 .. ArgSize |-> IF i <= l + 1 THEN b[i] ELSE Nul]
  <2>1. DOMAIN old = 1 .. ArgSize
    BY DEF Array
  <2>2. StrLen(Buffer(c)) = l
    BY <1>7 DEF b
  <2>3. a = [i \in 1 .. ArgSize |-> IF i <= l + 1 THEN Buffer(c)[i] ELSE Nul]
    BY <2>1, <2>2 DEF NewArgs, StrCpy
  <2> QED BY <2>3 DEF b
<1> HIDE DEF a
<1>10. a \in Array
  <2>1. \A i \in 1 .. l + 1 : b[i] \in Int
    BY <1>7, ElementOfSeq
  <2>2. \A i \in 1 .. ArgSize : (IF i <= l + 1 THEN b[i] ELSE Nul) \in Int
    BY <2>1, <1>8 DEF Nul
  <2> QED BY <1>9, <2>2 DEF Array
<1>11. /\ a[l + 1] = Nul /\ \A i \in 1 .. l : a[i] = arguments[i]
       /\ l + 1 \in DOMAIN a
  BY <1>7, <1>8, <1>9
<1>12. a \in Seq(Int) /\ ArgSize = Len(a)
  BY <1>10, ArrayIsSequence
<1>13. CString(a) = arguments
  <2>1. Len(arguments) < Len(a)
    BY <1>6, <1>8, <1>12
  <2>2. \A i \in 1 .. Len(arguments) : a[i] = arguments[i] /\ arguments[i] # Nul
    BY <1>4, <1>6, <1>11
  <2>3. a[Len(arguments) + 1] = Nul
    BY <1>6, <1>11
  <2> QED BY <1>3, <1>12, <2>1, <2>2, <2>3, CStringIs
<1>14. IsString(a)
  BY <1>11 DEF IsString
<1> QED BY <1>7, <1>10, <1>13, <1>14 DEF a, b

\* An array of a pcb that has never been used.
LEMMA EmptyArgsHold ==
  ASSUME NEW a \in Array, \A i \in 1 .. ArgSize : a[i] = Nul
  PROVE  IsString(a) /\ CString(a) = CString(Buffer(Shell))
<1>1. 1 \in DOMAIN a /\ a[1] = Nul
  BY CommandsAssumption DEF Array
<1>2. CString(a) = <<>>
  <2>1. PICK t \in Seq(Int) : t = <<>>
    <3>1. <<>> \in Seq(Int)
      OBVIOUS
    <3> QED BY <3>1, Zenon
  <2>2. PICK z \in Nat : z = Len(t) /\ z = 0
    BY <2>1
  <2>3. PICK n \in Nat : n = ArgSize /\ 0 < n
    BY CommandsAssumption
  <2>4. a \in Seq(Int) /\ n = Len(a)
    BY <1>1, <2>3, ArrayIsSequence
  <2>5. /\ Len(t) < Len(a) /\ a[Len(t) + 1] = Nul
        /\ \A i \in 1 .. Len(t) : a[i] = t[i] /\ t[i] # Nul
    <3>1. z < n /\ a[z + 1] = Nul /\ \A i \in 1 .. z : a[i] = t[i] /\ t[i] # Nul
      BY <1>1, <2>2, <2>3
    <3> QED BY <2>2, <2>4, <3>1
  <2> QED BY <2>1, <2>4, <2>5, CStringIs
<1>3. CString(Buffer(Shell)) = <<>>
  <2>1. Buffer(Shell) = <<>> \o <<Nul>>
    BY CommandsAssumption
  <2>2. <<>> \in Seq(Int) /\ \A l \in 1 .. Len(<<>>) : <<>>[l] # Nul
    OBVIOUS
  <2> QED BY <2>1, <2>2, EndedPiece
<1> QED BY <1>1, <1>2, <1>3 DEF IsString

-----------------------------------------------------------------------------
(* The invariant.                                                          *)

\* The running process is alive and has the CPU for its own code.
RunningIsUp == running \in Pids /\ stage[running] \notin {"free", "waiting"}

\* The arrays, also of the pcbs that are free, and the copies of getargs().
ArgsInv ==
  /\ args \in [Pids -> Array] /\ \A p \in Pids : IsString(args[p])
  /\ given \in [Pids -> Commands \cup {Shell}]
  /\ \A p \in Pids : CString(args[p]) = CString(Buffer(given[p]))
  /\ DOMAIN buf = Pids
  /\ \A p \in Pids : \A i \in DOMAIN buf[p] :
       buf[p][i] = IF i <= StrLen(args[p]) THEN args[p][i] ELSE Nul

CallInv == ResultInv /\ RunningIsUp /\ ArgsInv

\* The first shell has no arguments.
LEMMA CallInit == Init => CallInv
<1> SUFFICES ASSUME Init PROVE CallInv
  OBVIOUS
<1>1. 1 \in Pids /\ "user" \notin {"free", "waiting"}
  BY SystemCallsAssumption DEF Pids
<1>2. RunningIsUp
  BY <1>1 DEF Init, RunningIsUp
<1> DEFINE empty == [i \in 1 .. ArgSize |-> Nul]
<1>3. /\ empty \in Array /\ IsString(empty)
      /\ CString(empty) = CString(Buffer(Shell))
  <2>1. empty \in Array /\ \A i \in 1 .. ArgSize : empty[i] = Nul
    BY DEF Array, Nul
  <2> HIDE DEF empty
  <2> QED BY <2>1, EmptyArgsHold
<1>4. args = [p \in Pids |-> empty] /\ given = [p \in Pids |-> Shell]
      /\ buf = [p \in Pids |-> <<>>]
  BY DEF Init
<1> HIDE DEF empty
<1>5. ArgsInv
  BY <1>3, <1>4 DEF ArgsInv
<1> QED BY <1>2, <1>5, ResultInit DEF CallInv

\* A process that starts gets the arguments of its command.
LEMMA StartGivesArgs ==
  ASSUME ArgsInv, NEW c \in Pids, NEW q, NEW command \in Commands \cup {Shell},
         NEW stages \in [Pids -> Stages], Start(c, q, command, stages)
  PROVE  RunningIsUp' /\ ArgsInv'
<1>1. /\ stage' = [stages EXCEPT ![c] = "user"] /\ running' = c
      /\ given' = [given EXCEPT ![c] = command]
      /\ buf' = [buf EXCEPT ![c] = <<>>]
      /\ args' = [args EXCEPT ![c] = NewArgs(args[c], command)]
  BY DEF Start
<1>2. args[c] \in Array
  BY DEF ArgsInv
<1> DEFINE new == NewArgs(args[c], command)
<1>3. new \in Array /\ IsString(new) /\ CString(new) = CString(Buffer(command))
  BY <1>2, NewArgsHold
<1>4. args' = [args EXCEPT ![c] = new]
  BY <1>1
<1> HIDE DEF new
<1>5. RunningIsUp'
  BY <1>1 DEF RunningIsUp
<1>6. args' \in [Pids -> Array] /\ \A p \in Pids : IsString(args'[p])
  BY <1>3, <1>4 DEF ArgsInv
<1>7. given' \in [Pids -> Commands \cup {Shell}] /\ DOMAIN buf' = Pids
  BY <1>1 DEF ArgsInv
<1>8. \A p \in Pids : CString(args'[p]) = CString(Buffer(given'[p]))
  BY <1>1, <1>3, <1>4 DEF ArgsInv
<1>9. ASSUME NEW p \in Pids, NEW i \in DOMAIN buf'[p]
      PROVE  buf'[p][i] = IF i <= StrLen(args'[p]) THEN args'[p][i] ELSE Nul
  <2>1. CASE p = c
    <3>1. buf'[p] = <<>>
      BY <1>1, <2>1 DEF ArgsInv
    <3> QED BY <3>1
  <2>2. CASE p # c
    BY <1>1, <1>4, <2>2 DEF ArgsInv
  <2> QED BY <2>1, <2>2
<1> QED BY <1>5, <1>6, <1>7, <1>8, <1>9 DEF ArgsInv

\* Every other step leaves the arrays alone but getargs(), which copies one.
LEMMA CallStep == CallInv /\ [Next]_vars => CallInv'
<1> SUFFICES ASSUME CallInv, [Next]_vars PROVE CallInv'
  OBVIOUS
<1>1. ResultInv'
  BY ResultStep DEF CallInv
<1>2. /\ stage \in [Pids -> Stages] /\ running \in Pids
      /\ parent \in [Pids -> Pids \cup {NoPid}]
  BY DEF CallInv, ResultInv, Types
<1>3. ASSUME UNCHANGED <<args, given, buf>>
      PROVE  ArgsInv'
  BY <1>3 DEF CallInv, ArgsInv
<1>4. ASSUME NEW n, Return(running, n), running' = running
      PROVE  RunningIsUp'
  BY <1>2, <1>4 DEF Return, RunningIsUp
<1>5. RunningIsUp' /\ ArgsInv'
  <2>1. CASE Enter
    <3>1. RunningIsUp'
      BY <1>2, <2>1 DEF Enter, RunningIsUp
    <3> QED BY <1>3, <2>1, <3>1 DEF Enter, history
  <2>2. CASE EnterError
    BY <1>3, <1>4, <2>2 DEF EnterError
  <2>3. CASE ReturnResult
    BY <1>3, <1>4, <2>3 DEF ReturnResult
  <2>4. CASE GetArgs
    <3>1. RunningIsUp'
      <4>1. PICK n \in {-1, 0} : Return(running, n)
        BY <2>4 DEF GetArgs
      <4> QED BY <1>4, <2>4, <4>1 DEF GetArgs
    <3>2. CASE buf' = buf
      BY <1>3, <2>4, <3>1, <3>2 DEF GetArgs
    <3>3. ASSUME NEW nbytes \in Lengths,
                 buf' = [buf EXCEPT ![running] = StrNCpy(args[running], nbytes)]
          PROVE  ArgsInv'
      <4>1. args' = args /\ given' = given
        BY <2>4 DEF GetArgs
      <4>2. StrNCpy(args[running], nbytes) =
              [i \in 1 .. nbytes |-> IF i <= StrLen(args[running])
                                     THEN args[running][i] ELSE Nul]
        BY DEF StrNCpy
      <4>3. \A p \in Pids : \A i \in DOMAIN buf'[p] :
              buf'[p][i] = IF i <= StrLen(args[p]) THEN args[p][i] ELSE Nul
        <5>1. ASSUME NEW p \in Pids, p # running PROVE buf'[p] = buf[p]
          BY <3>3, <5>1 DEF CallInv, ArgsInv
        <5>2. buf'[running] = [i \in 1 .. nbytes |->
                IF i <= StrLen(args[running]) THEN args[running][i] ELSE Nul]
          BY <1>2, <3>3, <4>2 DEF CallInv, ArgsInv
        <5>3. \A i \in DOMAIN buf'[running] : buf'[running][i] =
                IF i <= StrLen(args[running]) THEN args[running][i] ELSE Nul
          BY <5>2
        <5>4. \A p \in Pids : \A i \in DOMAIN buf[p] :
                buf[p][i] = IF i <= StrLen(args[p]) THEN args[p][i] ELSE Nul
          BY DEF CallInv, ArgsInv
        <5> QED BY <5>1, <5>3, <5>4
      <4> QED BY <3>3, <4>1, <4>3 DEF CallInv, ArgsInv
    <3> QED BY <2>4, <3>1, <3>2, <3>3 DEF GetArgs
  <2>5. CASE ExecuteFails
    BY <1>3, <1>4, <2>5 DEF ExecuteFails
  <2>6. CASE Execute
    <3>1. PICK command \in Commands, c \in Pids :
            Start(c, running, command, [stage EXCEPT ![running] = "waiting"])
      BY <2>6 DEF Execute
    <3>2. [stage EXCEPT ![running] = "waiting"] \in [Pids -> Stages]
      BY <1>2 DEF Stages
    <3> QED BY <3>1, <3>2, StartGivesArgs DEF CallInv
  <2>7. CASE Halt
    <3>1. running' = parent[running] /\ running' \in Pids
          /\ stage' = [stage EXCEPT ![running] = "free",
                                    ![parent[running]] = "leaving"]
      BY <1>2, <2>7 DEF Halt
    <3>2. stage'[running'] = "leaving"
      BY <1>2, <3>1
    <3> QED BY <1>3, <2>7, <3>1, <3>2 DEF Halt, RunningIsUp
  <2>8. CASE HaltRoot
    <3>1. PICK c \in Pids :
            Start(c, NoPid, Shell, [stage EXCEPT ![running] = "free"])
      BY <2>8 DEF HaltRoot
    <3>2. [stage EXCEPT ![running] = "free"] \in [Pids -> Stages]
      BY <1>2 DEF Stages
    <3> QED BY <3>1, <3>2, StartGivesArgs DEF CallInv
  <2>9. CASE StoreResult
    BY <1>2, <1>3, <2>9 DEF StoreResult, history, RunningIsUp, CallInv
  <2>10. CASE LoadResult
    BY <1>2, <1>3, <2>10 DEF LoadResult, history, RunningIsUp, CallInv
  <2>11. CASE Preempt
    BY <1>3, <2>11 DEF Preempt, history, RunningIsUp, Live
  <2>12. CASE OpenTerminal
    <3>1. PICK c \in Pids : Start(c, NoPid, Shell, stage)
      BY <2>12 DEF OpenTerminal
    <3> QED BY <1>2, <3>1, StartGivesArgs DEF CallInv
  <2>13. CASE Exception \/ Spin
    BY <1>3, <2>13 DEF Exception, Spin, vars, history, RunningIsUp, CallInv
  <2>14. CASE UNCHANGED vars
    BY <1>3, <2>14 DEF vars, history, RunningIsUp, CallInv
  <2> QED
    BY <2>1, <2>2, <2>3, <2>4, <2>5, <2>6, <2>7, <2>8, <2>9, <2>10, <2>11,
       <2>12, <2>13, <2>14 DEF Next
<1> QED BY <1>1, <1>5 DEF CallInv

-----------------------------------------------------------------------------
\* Every variable has its type: the running process is alive and not waiting
\* for a child, and the args of every pcb end with a Nul.
THEOREM CallTypes == Spec => []TypeOK
<1>1. CallInv => TypeOK
  <2> SUFFICES ASSUME CallInv PROVE TypeOK
    OBVIOUS
  <2>1. \A p \in Pids : IsString(args[p]) /\ Len(args[p]) = ArgSize
    BY ArrayIsSequence DEF CallInv, ArgsInv
  <2> QED BY <2>1 DEF CallInv, ResultInv, Types, RunningIsUp, TypeOK, Live
<1> QED BY <1>1, CallInit, CallStep, PTL DEF Spec

\* getargs() gives a process the arguments of the command it was executed with,
\* whatever was in its pcb before and whoever has executed what since.
THEOREM ArgumentsStayOwn == Spec => []ArgumentsAreOwn
<1>1. CallInv => ArgumentsAreOwn
  <2> SUFFICES ASSUME CallInv, NEW p \in Pids
               PROVE  /\ IsSeparated(given[p]) =>
                           IsSplit(CString(given[p]),
                                   CString(TestCommand(given[p])),
                                   CString(args[p]))
                      /\ \A i \in DOMAIN buf[p] :
                           buf[p][i] = IF i <= StrLen(args[p]) THEN args[p][i]
                                       ELSE Nul
    BY DEF ArgumentsAreOwn, Live
  <2>1. given[p] \in Commands \cup {Shell}
        /\ CString(args[p]) = CString(Buffer(given[p]))
    BY DEF CallInv, ArgsInv
  <2> QED BY <2>1, CommandSplits, CommandsEnd DEF CallInv, ArgsInv
<1> QED BY <1>1, CallInit, CallStep, PTL DEF Spec

-----------------------------------------------------------------------------
(* The library: strings.                                                    *)

LEMMA MinOfTwo ==
  ASSUME NEW x \in Nat, NEW y \in Nat
  PROVE  Min({x, y}) = IF x <= y THEN x ELSE y
<1>1. Min({x, y}) = CHOOSE m \in {x, y} : \A z \in {x, y} : m <= z
  BY Zenon DEF Min
<1>2. \E m \in {x, y} : \A z \in {x, y} : m <= z
  OBVIOUS
<1> DEFINE m == CHOOSE m \in {x, y} : \A z \in {x, y} : m <= z
<1>3. m \in {x, y} /\ \A z \in {x, y} : m <= z
  BY <1>2
<1> HIDE DEF m
<1> QED BY <1>1, <1>3

\* strcpy() into memory that is large enough: the string is there, and what is
\* behind its Nul is as it was.  lib.c, lines 522 to 532.
THEOREM StringsAreCopied ==
  ASSUME NEW src \in Seq(Int), IsString(src),
         NEW dest \in Seq(Int), StrLen(src) < Len(dest)
  PROVE  /\ CString(StrCpy(dest, src)) = CString(src)
         /\ \A i \in StrLen(src) + 2 .. Len(dest) : StrCpy(dest, src)[i] = dest[i]
<1>1. PICK n, l \in Nat : n = StrLen(src) /\ l = Len(dest)
  BY StringEnds, LenProperties
<1>2. /\ n + 1 <= Len(src) /\ n < l /\ src[n + 1] = Nul
      /\ \A k \in 1 .. n : src[k] # Nul
  BY <1>1, StringEnds, LenProperties
<1> DEFINE t == [i \in 1 .. l |-> IF i <= n + 1 THEN src[i] ELSE dest[i]]
<1>3. StrCpy(dest, src) = t
  <2>1. DOMAIN dest = 1 .. l
    BY <1>1, LenProperties
  <2> QED BY <1>1, <2>1 DEF StrCpy
<1>4. /\ CString(src) \in Seq(Int) /\ Len(CString(src)) = n
      /\ \A k \in 1 .. n : CString(src)[k] = src[k]
  <2>1. CString(src) = SubSeq(src, 1, n)
    BY <1>1 DEF CString
  <2>2. n + 1 >= 1 /\ n <= Len(src)
    BY <1>2, LenProperties
  <2> QED BY <2>1, <2>2, Piece
<1>5. t \in Seq(Int) /\ l = Len(t)
  <2>1. \A i \in 1 .. l : t[i] \in Int
    <3>1. \A i \in 1 .. n + 1 : src[i] \in Int
      BY <1>2, ElementOfSeq, LenProperties
    <3>2. \A i \in 1 .. l : dest[i] \in Int
      BY <1>1, ElementOfSeq
    <3> QED BY <3>1, <3>2
  <2>2. t \in [1 .. l -> Int]
    BY <2>1
  <2>3. DOMAIN t = 1 .. l
    OBVIOUS
  <2> HIDE DEF t
  <2> QED BY <2>2, <2>3, LenProperties
<1>6. CString(t) = CString(src)
  <2>1. /\ t[n + 1] = Nul /\ \A k \in 1 .. n : t[k] = src[k]
    BY <1>2
  <2>2. PICK c \in Seq(Int) : c = CString(src)
    BY <1>4
  <2>3. n = Len(c) /\ \A k \in 1 .. n : t[k] = c[k] /\ c[k] # Nul
    BY <1>2, <1>4, <2>1, <2>2
  <2> HIDE DEF t
  <2>4. Len(c) < Len(t) /\ t[Len(c) + 1] = Nul
        /\ \A k \in 1 .. Len(c) : t[k] = c[k] /\ c[k] # Nul
    BY <1>2, <1>5, <2>1, <2>3
  <2> QED BY <1>5, <2>2, <2>4, CStringIs
<1>7. \A i \in n + 2 .. l : t[i] = dest[i]
  OBVIOUS
<1> QED BY <1>1, <1>3, <1>6, <1>7

\* The loop of strncmp() has a value, and stops at the first place of L.
LEMMA BoundedLoop ==
  ASSUME NEW n \in Nat, NEW L, n \in L
  PROVE  \E f : f = [i \in 0 .. n |-> IF i \in L THEN i ELSE f[i + 1]]
<1> DEFINE T(k) == {i \in Nat : k <= i /\ i <= n /\ i \in L}
           G(k) == CHOOSE i \in T(k) : \A j \in T(k) : i <= j
           g == [k \in 0 .. n |-> G(k)]
<1>1. ASSUME NEW k \in 0 .. n, k \in L PROVE G(k) = k
  <2>1. k \in T(k) /\ \A j \in T(k) : k <= j
    BY <1>1
  <2>2. G(k) \in T(k) /\ \A j \in T(k) : G(k) <= j
    BY <2>1
  <2> HIDE DEF G
  <2> QED BY <2>1, <2>2
<1>2. ASSUME NEW k \in 0 .. n, k \notin L
      PROVE  G(k) = G(k + 1) /\ k + 1 \in 0 .. n
  <2>1. T(k) = T(k + 1) /\ k # n
    BY <1>2
  <2> HIDE DEF T
  <2> QED BY <2>1
<1> HIDE DEF G
<1>3. g = [k \in 0 .. n |-> IF k \in L THEN k ELSE g[k + 1]]
  BY <1>1, <1>2
<1> QED BY <1>3

\* A loop over a bound stops at the bound or before.
LEMMA BoundedLoopStops ==
  ASSUME NEW n \in Nat, NEW L, n \in L, NEW f,
         \A i \in 0 .. n : f[i] = IF i \in L THEN i ELSE f[i + 1],
         NEW m \in 0 .. n, m \in L, \A i \in 0 .. m - 1 : i \notin L
  PROVE  f[0] = m
<1> DEFINE D == {j \in 0 .. m : f[m - j] # m}
<1>1. D = {}
  <2> SUFFICES ASSUME D # {} PROVE FALSE
    OBVIOUS
  <2>1. D \subseteq Nat
    OBVIOUS
  <2>2. PICK j \in D : \A l \in D : j <= l
    <3> HIDE DEF D
    <3> QED BY <2>1, LeastNat
  <2>3. f[m] = m
    OBVIOUS
  <2>4. j # 0
    BY <2>3
  <2>5. j - 1 \in 0 .. m /\ ~(j <= j - 1) /\ m - j \in 0 .. m - 1
        /\ m - j \in 0 .. n /\ (m - j) + 1 = m - (j - 1)
    BY <2>4
  <2>6. f[m - (j - 1)] = m
    BY <2>2, <2>5
  <2>7. f[m - j] = f[(m - j) + 1]
    BY <2>5
  <2> QED BY <2>5, <2>6, <2>7
<1>2. m \in 0 .. m /\ m - m = 0
  OBVIOUS
<1> QED BY <1>1, <1>2

\* Where strncmp() stops, and what it returns.
StopsAfter(m, s1, s2, n) ==
  /\ \A i \in 1 .. m : s1[i] = s2[i] /\ s1[i] # Nul
  /\ m = n \/ s1[m + 1] # s2[m + 1] \/ s1[m + 1] = Nul
  /\ StrNCmp(s1, s2, n) = IF m = n THEN 0 ELSE s1[m + 1] - s2[m + 1]

LEMMA ComparisonStops ==
  ASSUME NEW s1, NEW s2, NEW n \in Nat
  PROVE  \E m \in 0 .. n : StopsAfter(m, s1, s2, n)
<1> DEFINE last(i) == s1[i + 1] # s2[i + 1] \/ s1[i + 1] = Nul
           L == {i \in 0 .. n : i = n \/ last(i)}
           first == CHOOSE f :
             f = [i \in 0 .. n |-> IF i = n \/ last(i) THEN i ELSE f[i + 1]]
<1>1. StrNCmp(s1, s2, n) =
        IF first[0] = n THEN 0 ELSE s1[first[0] + 1] - s2[first[0] + 1]
  BY Zenon DEF StrNCmp
<1> HIDE DEF last
<1>2. n \in L /\ \A i \in 0 .. n : i \in L <=> i = n \/ last(i)
  OBVIOUS
<1> HIDE DEF L
<1>3. \E f : f = [i \in 0 .. n |-> IF i = n \/ last(i) THEN i ELSE f[i + 1]]
  <2>1. PICK f : f = [i \in 0 .. n |-> IF i \in L THEN i ELSE f[i + 1]]
    BY <1>2, BoundedLoop
  <2>2. f = [i \in 0 .. n |-> IF i = n \/ last(i) THEN i ELSE f[i + 1]]
    BY <1>2, <2>1, Zenon
  <2> QED BY <2>2
<1>4. first = [i \in 0 .. n |-> IF i = n \/ last(i) THEN i ELSE first[i + 1]]
  BY <1>3, Zenon
<1> HIDE DEF first
<1>5. \A i \in 0 .. n : first[i] = IF i \in L THEN i ELSE first[i + 1]
  BY <1>2, <1>4, Zenon
<1>6. PICK m \in 0 .. n : m \in L /\ \A i \in 0 .. m - 1 : i \notin L
  <2> DEFINE T == {i \in 0 .. n : i \in L}
  <2>1. T \subseteq Nat /\ T # {}
    BY <1>2
  <2>2. PICK m \in T : \A i \in T : m <= i
    <3> HIDE DEF T
    <3> QED BY <2>1, LeastNat
  <2> QED BY <2>2
<1>7. first[0] = m
  BY <1>2, <1>5, <1>6, BoundedLoopStops
<1>8. \A i \in 1 .. m : s1[i] = s2[i] /\ s1[i] # Nul
  <2> SUFFICES ASSUME NEW i \in 1 .. m PROVE s1[i] = s2[i] /\ s1[i] # Nul
    OBVIOUS
  <2>1. i - 1 \in 0 .. m - 1 /\ i - 1 \in 0 .. n /\ (i - 1) + 1 = i
    OBVIOUS
  <2>2. ~last(i - 1)
    BY <1>2, <1>6, <2>1
  <2> QED BY <2>1, <2>2 DEF last
<1>9. m = n \/ s1[m + 1] # s2[m + 1] \/ s1[m + 1] = Nul
  BY <1>2, <1>6 DEF last
<1> QED BY <1>1, <1>7, <1>8, <1>9 DEF StopsAfter

\* The first n characters of a string, or all of them.
LEMMA StartOf ==
  ASSUME NEW s \in Seq(Int), IsString(s), NEW n \in Nat
  PROVE  \E k, l \in Nat : \E start \in Seq(Int) :
           /\ l = StrLen(s) /\ k = IF n <= l THEN n ELSE l
           /\ l + 1 <= Len(s) /\ s[l + 1] = Nul /\ \A i \in 1 .. l : s[i] # Nul
           /\ start = SubSeq(CString(s), 1, Min({n, StrLen(s)}))
           /\ k = Len(start) /\ \A i \in 1 .. k : start[i] = s[i]
<1>1. PICK l \in Nat : l = StrLen(s)
  BY StringEnds
<1>2. /\ l + 1 <= Len(s) /\ s[l + 1] = Nul /\ \A i \in 1 .. l : s[i] # Nul
  BY <1>1, StringEnds, LenProperties
<1>3. PICK k \in Nat : k = (IF n <= l THEN n ELSE l) /\ k <= l
  OBVIOUS
<1>4. Min({n, StrLen(s)}) = k
  BY <1>1, <1>3, MinOfTwo
<1>5. /\ CString(s) \in Seq(Int) /\ Len(CString(s)) = l
      /\ \A i \in 1 .. l : CString(s)[i] = s[i]
  <2>1. l + 1 >= 1 /\ l <= Len(s)
    BY <1>2, LenProperties
  <2>2. CString(s) = SubSeq(s, 1, l)
    BY <1>1 DEF CString
  <2> QED BY <2>1, <2>2, Piece
<1>6. PICK c \in Seq(Int) : c = CString(s)
  BY <1>5
<1>7. k + 1 >= 1 /\ k <= Len(c)
  BY <1>3, <1>5, <1>6
<1>8. /\ SubSeq(c, 1, k) \in Seq(Int) /\ Len(SubSeq(c, 1, k)) = k - 1 + 1
      /\ \A i \in 1 .. k - 1 + 1 : SubSeq(c, 1, k)[i] = c[1 + i - 1]
  BY <1>7, Piece
<1>9. PICK start \in Seq(Int) : start = SubSeq(c, 1, k)
  BY <1>8
<1>10. k = Len(start) /\ \A i \in 1 .. k : start[i] = s[i]
  <2>1. \A i \in 1 .. k : start[i] = c[i]
    BY <1>8, <1>9
  <2>2. \A i \in 1 .. k : c[i] = s[i]
    BY <1>3, <1>5, <1>6
  <2> QED BY <1>8, <1>9, <2>1, <2>2
<1> QED BY <1>1, <1>2, <1>3, <1>4, <1>6, <1>9, <1>10

\* strncmp() answers 0 exactly when two strings print the same up to n
\* characters: lib.c, lines 493 to 512.
THEOREM ComparisonIsRight ==
  ASSUME NEW s1 \in Seq(Int), IsString(s1), NEW s2 \in Seq(Int), IsString(s2),
         NEW n \in Nat
  PROVE  StrNCmp(s1, s2, n) = 0 <=> Same(s1, s2, n)
<1>1. PICK k1, l1 \in Nat : \E start \in Seq(Int) :
           /\ l1 = StrLen(s1) /\ k1 = IF n <= l1 THEN n ELSE l1
           /\ l1 + 1 <= Len(s1) /\ s1[l1 + 1] = Nul /\ \A i \in 1 .. l1 : s1[i] # Nul
           /\ start = SubSeq(CString(s1), 1, Min({n, StrLen(s1)}))
           /\ k1 = Len(start) /\ \A i \in 1 .. k1 : start[i] = s1[i]
  BY StartOf
<1>2. PICK start1 \in Seq(Int) :
           /\ start1 = SubSeq(CString(s1), 1, Min({n, StrLen(s1)}))
           /\ k1 = Len(start1) /\ \A i \in 1 .. k1 : start1[i] = s1[i]
  BY <1>1
<1>3. PICK k2, l2 \in Nat : \E start \in Seq(Int) :
           /\ l2 = StrLen(s2) /\ k2 = IF n <= l2 THEN n ELSE l2
           /\ l2 + 1 <= Len(s2) /\ s2[l2 + 1] = Nul /\ \A i \in 1 .. l2 : s2[i] # Nul
           /\ start = SubSeq(CString(s2), 1, Min({n, StrLen(s2)}))
           /\ k2 = Len(start) /\ \A i \in 1 .. k2 : start[i] = s2[i]
  BY StartOf
<1>4. PICK start2 \in Seq(Int) :
           /\ start2 = SubSeq(CString(s2), 1, Min({n, StrLen(s2)}))
           /\ k2 = Len(start2) /\ \A i \in 1 .. k2 : start2[i] = s2[i]
  BY <1>3
<1>5. Same(s1, s2, n) <=> start1 = start2
  BY <1>2, <1>4 DEF Same
<1>6. start1 = start2 <=> k1 = k2 /\ \A i \in 1 .. k1 : s1[i] = s2[i]
  <2>1. ASSUME start1 = start2 PROVE k1 = k2 /\ \A i \in 1 .. k1 : s1[i] = s2[i]
    <3>1. k1 = k2
      BY <1>2, <1>4, <2>1
    <3> QED BY <1>2, <1>4, <2>1, <3>1
  <2>2. ASSUME k1 = k2, \A i \in 1 .. k1 : s1[i] = s2[i] PROVE start1 = start2
    <3>1. \A i \in 1 .. k1 : start1[i] = start2[i]
      BY <1>2, <1>4, <2>2
    <3>2. Len(start1) = Len(start2) /\ \A i \in 1 .. Len(start1) : start1[i] = start2[i]
      BY <1>2, <1>4, <2>2, <3>1
    <3> QED BY <3>2, SeqEqual
  <2> QED BY <2>1, <2>2
<1>7. PICK m \in 0 .. n :
           /\ \A i \in 1 .. m : s1[i] = s2[i] /\ s1[i] # Nul
           /\ m = n \/ s1[m + 1] # s2[m + 1] \/ s1[m + 1] = Nul
           /\ StrNCmp(s1, s2, n) = IF m = n THEN 0 ELSE s1[m + 1] - s2[m + 1]
  <2>1. PICK m \in 0 .. n : StopsAfter(m, s1, s2, n)
    BY ComparisonStops
  <2> QED BY <2>1 DEF StopsAfter
<1>8. m \in Nat /\ m <= n /\ m <= l1 /\ m <= l2
  <2>1. ASSUME l1 < m PROVE FALSE
    <3>1. l1 + 1 \in 1 .. m
      BY <2>1
    <3> QED BY <1>1, <1>7, <3>1
  <2>2. ASSUME l2 < m PROVE FALSE
    <3>1. l2 + 1 \in 1 .. m
      BY <2>2
    <3> QED BY <1>3, <1>7, <3>1
  <2> QED BY <2>1, <2>2
<1>9. s1[m + 1] \in Int /\ s2[m + 1] \in Int
  <2>0. l1 + 1 <= Len(s1) /\ l2 + 1 <= Len(s2)
    BY <1>1, <1>3
  <2>1. m + 1 \in 1 .. Len(s1) /\ m + 1 \in 1 .. Len(s2)
    BY <1>8, <2>0, LenProperties
  <2> QED BY <2>1, ElementOfSeq
<1>10. CASE m = n
  <2>1. k1 = n /\ k2 = n
    BY <1>1, <1>3, <1>8, <1>10
  <2> QED BY <1>5, <1>6, <1>7, <1>10, <2>1
<1>11. CASE m # n /\ s1[m + 1] = s2[m + 1]
  <2>1. l1 = m /\ l2 = m
    <3>1. s1[m + 1] = Nul /\ s2[m + 1] = Nul
      BY <1>7, <1>11
    <3>2. ASSUME m + 1 <= l1 PROVE FALSE
      <4>1. m + 1 \in 1 .. l1
        BY <1>8, <3>2
      <4> QED BY <1>1, <3>1, <4>1
    <3>3. ASSUME m + 1 <= l2 PROVE FALSE
      <4>1. m + 1 \in 1 .. l2
        BY <1>8, <3>3
      <4> QED BY <1>3, <3>1, <4>1
    <3> QED BY <1>8, <3>2, <3>3
  <2>2. k1 = m /\ k2 = m
    BY <1>1, <1>3, <1>8, <2>1
  <2> QED BY <1>5, <1>6, <1>7, <1>9, <1>11, <2>2
<1>12. CASE m # n /\ s1[m + 1] # s2[m + 1]
  <2>1. StrNCmp(s1, s2, n) # 0
    BY <1>7, <1>9, <1>12
  <2>2. m + 1 <= n
    BY <1>8, <1>12
  <2>3. ASSUME k1 = k2, \A i \in 1 .. k1 : s1[i] = s2[i] PROVE FALSE
    <3>1. CASE m + 1 <= k1
      <4>1. m + 1 \in 1 .. k1
        BY <1>8, <3>1
      <4> QED BY <1>12, <2>3, <4>1
    <3>2. CASE k1 <= m
      <4>1. l1 = m /\ l2 = m
        BY <1>1, <1>3, <1>8, <2>2, <2>3, <3>2
      <4> QED BY <1>1, <1>3, <1>12, <4>1
    <3> QED BY <1>8, <3>1, <3>2
  <2> QED BY <1>5, <1>6, <2>1, <2>3
<1> QED BY <1>10, <1>11, <1>12

\* strrev() turns a string round in its memory: lib.c, lines 260 to 275.
THEOREM StringsAreReversed ==
  ASSUME NEW s \in Seq(Int), IsString(s)
  PROVE  CString(StrRev(s)) = Reverse(CString(s))
<1> DEFINE n == StrLen(s)
           h == n \div 2
           Step(t, k) == [t EXCEPT ![k] = t[n + 1 - k], ![n + 1 - k] = t[k]]
           swapped == CHOOSE f :
             f = [k \in 0 .. h |-> IF k = 0 THEN s ELSE Step(f[k - 1], k)]
<1>1. StrRev(s) = swapped[h]
  BY Zenon DEF StrRev
<1>2. /\ n \in Nat /\ n + 1 <= Len(s) /\ s[n + 1] = Nul
      /\ \A k \in 1 .. n : s[k] # Nul
  BY StringEnds, LenProperties
<1>3. h \in Nat /\ 2 * h <= n /\ n <= 2 * h + 1
  <2> HIDE DEF n
  <2> QED BY <1>2
<1>4. CString(s) = SubSeq(s, 1, n)
  BY DEF CString
<1> HIDE DEF n, h
<1>5. PICK l \in Nat : /\ l = Len(s) /\ DOMAIN s = 1 .. l
                       /\ \A i \in 1 .. l : s[i] \in Int
  BY LenProperties, ElementOfSeq
<1>b. n \in Nat /\ n + 1 <= l
  BY <1>2, <1>5
<1> DEFINE At(i, k) == i <= k \/ (n + 1 - k <= i /\ i <= n)
           F(k) == [i \in 1 .. l |-> IF At(i, k) THEN s[n + 1 - i] ELSE s[i]]
           g == [k \in 0 .. h |-> F(k)]
<1>6. F(0) = s
  <2>1. \A i \in 1 .. l : F(0)[i] = s[i]
    BY <1>2
  <2>2. s = [i \in 1 .. l |-> s[i]]
    BY <1>5
  <2>3. F(0) = [i \in 1 .. l |-> F(0)[i]]
    OBVIOUS
  <2> HIDE DEF F
  <2> QED BY <2>1, <2>2, <2>3, Zenon
<1>7. ASSUME NEW k \in 1 .. h PROVE F(k) = Step(F(k - 1), k)
  <2>1. PICK r \in 1 .. n : r = n + 1 - k /\ k < r /\ k \in 1 .. n
    BY <1>2, <1>3, <1>b
  <2>2. r \in 1 .. l /\ k \in 1 .. l
    BY <1>2, <1>b, <2>1
  <2>3. F(k - 1)[k] = s[k] /\ F(k - 1)[r] = s[r]
    BY <1>3, <1>b, <2>1, <2>2
  <2>4. F(k)[k] = s[r] /\ F(k)[r] = s[k]
    BY <1>3, <1>b, <2>1, <2>2
  <2>5. ASSUME NEW i \in 1 .. l, i # k, i # r PROVE F(k)[i] = F(k - 1)[i]
    <3>1. At(i, k) <=> At(i, k - 1)
      BY <1>3, <1>b, <2>1, <2>5
    <3> QED BY <3>1
  <2>6. /\ F(k) = [i \in 1 .. l |-> F(k)[i]]
        /\ F(k - 1) = [i \in 1 .. l |-> F(k - 1)[i]]
    OBVIOUS
  <2>7. Step(F(k - 1), k) =
          [i \in 1 .. l |-> IF i = r THEN F(k - 1)[k]
                            ELSE IF i = k THEN F(k - 1)[r] ELSE F(k - 1)[i]]
    <3> HIDE DEF F
    <3> QED BY <2>1, <2>2, <2>6
  <2> HIDE DEF F, Step
  <2> QED BY <2>1, <2>2, <2>3, <2>4, <2>5, <2>6, <2>7
<1> HIDE DEF F, Step
<1>8. g = [k \in 0 .. h |-> IF k = 0 THEN s ELSE Step(g[k - 1], k)]
  <2>1. \A k \in 0 .. h : g[k] = F(k)
    OBVIOUS
  <2>2. ASSUME NEW k \in 0 .. h
        PROVE  F(k) = IF k = 0 THEN s ELSE Step(g[k - 1], k)
    <3>1. k = 0 \/ (k \in 1 .. h /\ k # 0 /\ k - 1 \in 0 .. h)
      BY <1>3
    <3> QED BY <1>6, <1>7, <2>1, <3>1
  <2> QED BY <2>2
<1> HIDE DEF g
<1>9. swapped = [k \in 0 .. h |-> IF k = 0 THEN s ELSE Step(swapped[k - 1], k)]
  BY <1>8, Zenon
<1> HIDE DEF swapped
<1>10. swapped[0] = g[0]
       /\ \A k \in 1 .. h : swapped[k - 1] = g[k - 1] => swapped[k] = g[k]
  BY <1>3, <1>8, <1>9
<1>11. swapped[h] = g[h]
  BY <1>3, <1>10, SameSteps
<1>12. PICK t : t = StrRev(s) /\ t = F(h)
  BY <1>1, <1>3, <1>11 DEF g
<1>13. /\ t = [i \in 1 .. l |-> t[i]] /\ t[n + 1] = Nul
       /\ \A i \in 1 .. n : t[i] = s[n + 1 - i]
       /\ \A i \in 1 .. l : t[i] \in Int
  <2>1. t = [i \in 1 .. l |-> t[i]]
    BY <1>12 DEF F
  <2>2. t[n + 1] = Nul
    <3>1. n + 1 \in 1 .. l /\ ~At(n + 1, h)
      BY <1>2, <1>b, <1>2, <1>3, <1>b
    <3> QED BY <1>2, <1>b, <1>12, <3>1 DEF F
  <2>3. ASSUME NEW i \in 1 .. n PROVE t[i] = s[n + 1 - i]
    <3>1. i \in 1 .. l
      BY <1>2, <1>b
    <3>2. CASE At(i, h)
      BY <1>12, <3>1, <3>2 DEF F
    <3>3. CASE ~At(i, h)
      <4>1. n + 1 - i = i
        BY <1>2, <1>3, <1>b, <3>3
      <4>2. t[i] = s[i]
        BY <1>12, <3>1, <3>3 DEF F
      <4> QED BY <4>1, <4>2
    <3> QED BY <3>2, <3>3
  <2>4. ASSUME NEW i \in 1 .. l PROVE t[i] \in Int
    <3>1. CASE i \in 1 .. n
      <4>1. n + 1 - i \in 1 .. l
        BY <1>2, <1>b, <3>1
      <4> QED BY <1>5, <2>3, <3>1, <4>1
    <3>2. CASE i \notin 1 .. n
      <4>1. ~At(i, h)
        BY <1>2, <1>3, <1>b, <3>2
      <4>2. t[i] = s[i]
        BY <1>12, <4>1 DEF F
      <4> QED BY <1>5, <4>2
    <3> QED BY <3>1, <3>2
  <2> QED BY <2>1, <2>2, <2>3, <2>4
<1>14. t \in Seq(Int) /\ l = Len(t)
  <2>1. t \in [1 .. l -> Int] /\ DOMAIN t = 1 .. l
    BY <1>13
  <2> QED BY <2>1, LenProperties
<1>15. PICK c \in Seq(Int) : /\ c = CString(s) /\ n = Len(c)
                            /\ \A k \in 1 .. n : c[k] = s[k]
  <2>1. n + 1 >= 1 /\ n <= Len(s)
    BY <1>2, <1>5, <1>b
  <2>2. /\ SubSeq(s, 1, n) \in Seq(Int) /\ Len(SubSeq(s, 1, n)) = n - 1 + 1
        /\ \A k \in 1 .. n - 1 + 1 : SubSeq(s, 1, n)[k] = s[1 + k - 1]
    BY <1>b, <2>1, Piece
  <2>3. PICK c \in Seq(Int) : c = SubSeq(s, 1, n)
    BY <2>2
  <2>4. n = Len(c) /\ \A k \in 1 .. n : c[k] = s[k]
    BY <1>b, <2>2, <2>3
  <2> QED BY <1>4, <2>3, <2>4
<1> DEFINE rev == [i \in 1 .. n |-> c[n + 1 - i]]
<1>16. Reverse(c) = rev
  <2>1. Reverse(c) = [i \in 1 .. n |-> c[(n - i) + 1]]
    BY <1>15, Zenon DEF Reverse
  <2>2. \A i \in 1 .. n : (n - i) + 1 = n + 1 - i
    BY <1>b
  <2> QED BY <2>1, <2>2
<1>17. /\ rev \in Seq(Int) /\ n = Len(rev)
       /\ \A i \in 1 .. n : t[i] = rev[i] /\ rev[i] # Nul
  <2>1. ASSUME NEW i \in 1 .. n
        PROVE  rev[i] = s[n + 1 - i] /\ n + 1 - i \in 1 .. n
    <3>1. n + 1 - i \in 1 .. n
      BY <1>2
    <3>2. rev[i] = c[n + 1 - i]
      OBVIOUS
    <3> HIDE DEF rev
    <3> QED BY <1>15, <3>1, <3>2
  <2>2. \A i \in 1 .. n : rev[i] \in Int
    <3>1. 1 .. n \subseteq 1 .. l
      BY <1>2, <1>b
    <3> QED BY <1>5, <2>1, <3>1
  <2>3. rev \in [1 .. n -> Int] /\ DOMAIN rev = 1 .. n
    BY <2>2
  <2>4. \A i \in 1 .. n : t[i] = rev[i] /\ rev[i] # Nul
    BY <1>2, <1>13, <2>1
  <2> HIDE DEF rev
  <2> QED BY <1>b, <2>3, <2>4, LenProperties
<1> HIDE DEF rev
<1>18. Len(rev) < Len(t) /\ t[Len(rev) + 1] = Nul
       /\ \A i \in 1 .. Len(rev) : t[i] = rev[i] /\ rev[i] # Nul
  <2>1. \A m \in Nat : m = n => m < Len(t) /\ t[m + 1] = Nul
    <3>1. t[n + 1] = Nul
      BY <1>13
    <3> QED BY <1>b, <1>14, <3>1
  <2>2. Len(rev) = n /\ Len(rev) \in Nat
    BY <1>2, <1>17
  <2>3. \A i \in 1 .. Len(rev) : t[i] = rev[i] /\ rev[i] # Nul
    BY <1>17, <2>2
  <2> QED BY <2>1, <2>2, <2>3
<1>19. CString(t) = rev
  BY <1>14, <1>17, <1>18, CStringIs
<1> QED BY <1>12, <1>15, <1>16, <1>19

-----------------------------------------------------------------------------
(* Numbers.                                                                *)

\* A function on the naturals may be defined from its value at a smaller one.
HasFunction(S, base, prev, step) ==
  \E f \in [Nat -> S] :
    f[0] = base /\ \A v \in Nat \ {0} : f[v] = step[v][f[prev[v]]]

LEMMA RecursionHasValue ==
  ASSUME NEW S, NEW base \in S, NEW prev \in [Nat \ {0} -> Nat],
         \A v \in Nat \ {0} : prev[v] < v,
         NEW step \in [Nat \ {0} -> [S -> S]]
  PROVE  HasFunction(S, base, prev, step)
<1> DEFINE Part(n) == {f \in [0 .. n -> S] :
                         f[0] = base /\ \A v \in 1 .. n : f[v] = step[v][f[prev[v]]]}
<1>1. ASSUME NEW n \in Nat, NEW m \in Nat, n <= m,
             NEW f \in Part(n), NEW g \in Part(m)
      PROVE  \A v \in 0 .. n : f[v] = g[v]
  <2> DEFINE D == {v \in 0 .. n : f[v] # g[v]}
  <2> SUFFICES ASSUME D # {} PROVE FALSE
    OBVIOUS
  <2>1. D \subseteq Nat
    OBVIOUS
  <2>2. PICK v \in D : \A w \in D : v <= w
    <3> HIDE DEF D
    <3> QED BY <2>1, LeastNat
  <2>3. v \in 1 .. n /\ v \in 1 .. m /\ v \in Nat \ {0}
    BY <1>1
  <2>4. prev[v] \in 0 .. n /\ ~(v <= prev[v])
    BY <2>3
  <2>5. f[prev[v]] = g[prev[v]]
    BY <2>2, <2>4
  <2>6. f[v] = step[v][f[prev[v]]] /\ g[v] = step[v][g[prev[v]]]
    BY <2>3
  <2> QED BY <2>5, <2>6
<1>2. \A n \in Nat : Part(n) # {}
  <2> DEFINE D == {n \in Nat : Part(n) = {}}
  <2> SUFFICES ASSUME D # {} PROVE FALSE
    OBVIOUS
  <2>1. D \subseteq Nat
    OBVIOUS
  <2>2. PICK n \in D : \A m \in D : n <= m
    <3> HIDE DEF D
    <3> QED BY <2>1, LeastNat
  <2>3. CASE n = 0
    <3>1. [v \in 0 .. 0 |-> base] \in Part(0)
      OBVIOUS
    <3> QED BY <2>3, <3>1
  <2>4. CASE n # 0
    <3>1. n - 1 \in Nat /\ ~(n <= n - 1) /\ n \in Nat \ {0}
      BY <2>4
    <3>2. PICK f : f \in Part(n - 1)
      <4> HIDE DEF Part
      <4> QED BY <2>2, <3>1
    <3>3. prev[n] \in 0 .. n - 1
      BY <3>1
    <3>4. f[prev[n]] \in S /\ step[n][f[prev[n]]] \in S
      BY <3>1, <3>2, <3>3
    <3> DEFINE g == [v \in 0 .. n |-> IF v = n THEN step[n][f[prev[n]]] ELSE f[v]]
    <3>5. g \in [0 .. n -> S] /\ g[0] = base
      BY <3>1, <3>2, <3>4
    <3>6. ASSUME NEW v \in 1 .. n PROVE g[v] = step[v][g[prev[v]]]
      <4>1. prev[v] \in 0 .. n - 1 /\ prev[v] # n /\ prev[v] \in 0 .. n
        OBVIOUS
      <4>2. g[prev[v]] = f[prev[v]]
        BY <4>1
      <4>3. CASE v = n
        BY <4>2, <4>3
      <4>4. CASE v # n
        <5>1. v \in 1 .. n - 1
          BY <4>4
        <5>2. g[v] = f[v]
          BY <4>4
        <5> QED BY <3>2, <4>2, <5>1, <5>2
      <4> QED BY <4>3, <4>4
    <3>7. g \in Part(n)
      BY <3>5, <3>6
    <3> QED BY <3>7
  <2> QED BY <2>3, <2>4
<1> DEFINE F(n) == CHOOSE f : f \in Part(n)
           h == [n \in Nat |-> F(n)[n]]
<1>3. \A n \in Nat : F(n) \in Part(n)
  <2> HIDE DEF Part
  <2> QED BY <1>2
<1> HIDE DEF F
<1>4. h \in [Nat -> S] /\ h[0] = base
  BY <1>3
<1>5. ASSUME NEW v \in Nat \ {0} PROVE h[v] = step[v][h[prev[v]]]
  <2>1. v \in 1 .. v /\ prev[v] \in Nat /\ prev[v] <= v /\ prev[v] \in 0 .. prev[v]
    OBVIOUS
  <2>2. F(v) \in Part(v) /\ F(prev[v]) \in Part(prev[v])
    BY <1>3, <2>1
  <2>3. F(prev[v])[prev[v]] = F(v)[prev[v]]
    <3> HIDE DEF Part
    <3> QED BY <1>1, <2>1, <2>2
  <2>4. F(v)[v] = step[v][F(v)[prev[v]]]
    BY <2>1, <2>2
  <2>5. h[v] = F(v)[v] /\ h[prev[v]] = F(prev[v])[prev[v]]
    BY <2>1
  <2> QED BY <2>3, <2>4, <2>5
<1> QED BY <1>4, <1>5 DEF HasFunction

\* The value of a string of digits, one digit after the other.
LEMMA ValueSteps ==
  ASSUME NEW s \in Seq(Int), NEW n \in Nat, n = Len(s), NEW radix \in Int
  PROVE  \E f \in [0 .. n -> Int] :
           /\ f[0] = 0 /\ f[n] = ValueOf(s, radix)
           /\ \A k \in 1 .. n : f[k] = f[k - 1] * radix + DigitValue(s[k])
<1> DEFINE value == CHOOSE f : f = [k \in 0 .. Len(s) |->
             IF k = 0 THEN 0 ELSE f[k - 1] * radix + DigitValue(s[k])]
           prev == [k \in Nat \ {0} |-> k - 1]
           step == [k \in Nat \ {0} |-> [x \in Int |->
                      IF k \in 1 .. n THEN x * radix + DigitValue(s[k]) ELSE 0]]
<1>1. ValueOf(s, radix) = value[Len(s)]
  BY Zenon DEF ValueOf
<1>2. \A k \in 1 .. n : DigitValue(s[k]) \in Int
  <2>1. \A k \in 1 .. n : s[k] \in Int
    BY ElementOfSeq
  <2> QED BY <2>1 DEF DigitValue, Zero
<1>3. step \in [Nat \ {0} -> [Int -> Int]]
  <2>1. ASSUME NEW k \in Nat \ {0}, NEW x \in Int
        PROVE  (IF k \in 1 .. n THEN x * radix + DigitValue(s[k]) ELSE 0) \in Int
    <3>1. x * radix \in Int
      OBVIOUS
    <3> QED BY <1>2, <3>1
  <2> QED BY <2>1
<1>4. prev \in [Nat \ {0} -> Nat] /\ \A k \in Nat \ {0} : prev[k] < k
  OBVIOUS
<1>5. ASSUME NEW k \in 1 .. n, NEW x \in Int
      PROVE  step[k][x] = x * radix + DigitValue(s[k])
  <2>1. k \in Nat \ {0}
    OBVIOUS
  <2> QED BY <2>1
<1>6. \A k \in 1 .. n : prev[k] = k - 1
  OBVIOUS
<1> HIDE DEF step, prev
<1>7. PICK h \in [Nat -> Int] :
           h[0] = 0 /\ \A k \in Nat \ {0} : h[k] = step[k][h[prev[k]]]
  <2>1. PICK I, z : I = Int /\ z = 0
    OBVIOUS
  <2>2. z \in I /\ step \in [Nat \ {0} -> [I -> I]]
    BY <1>3, <2>1
  <2>3. HasFunction(I, z, prev, step)
    BY <1>4, <2>2, RecursionHasValue
  <2> QED BY <2>1, <2>3 DEF HasFunction
<1>8. ASSUME NEW k \in 1 .. n
      PROVE  h[k] = h[k - 1] * radix + DigitValue(s[k])
  <2>1. k \in Nat \ {0} /\ k - 1 \in Nat
    OBVIOUS
  <2>2. h[k - 1] \in Int /\ h[k] = step[k][h[k - 1]]
    BY <1>6, <1>7, <2>1
  <2> QED BY <1>5, <2>2
<1> DEFINE Term(f, k) == f[k - 1] * radix + DigitValue(s[k])
           g == [k \in 0 .. n |-> h[k]]
<1>9. g \in [0 .. n -> Int] /\ g[0] = 0 /\ \A k \in 1 .. n : g[k] = Term(g, k)
  <2>1. ASSUME NEW k \in 1 .. n PROVE g[k] = Term(g, k)
    <3>1. k \in 0 .. n /\ k - 1 \in 0 .. n
      OBVIOUS
    <3>2. g[k] = h[k] /\ g[k - 1] = h[k - 1]
      BY <3>1
    <3> HIDE DEF g
    <3> QED BY <1>8, <3>2
  <2>2. g \in [0 .. n -> Int] /\ g[0] = 0
    BY <1>7
  <2> QED BY <2>1, <2>2
<1>10. g = [k \in 0 .. n |-> IF k = 0 THEN 0 ELSE Term(g, k)]
  <2>1. \A k \in 0 .. n : g[k] = IF k = 0 THEN 0 ELSE Term(g, k)
    <3> HIDE DEF g, Term
    <3> QED BY <1>9
  <2>2. g = [k \in 0 .. n |-> g[k]]
    OBVIOUS
  <2> HIDE DEF g, Term
  <2> QED BY <2>1, <2>2
<1> HIDE DEF g
<1>11. value = [k \in 0 .. Len(s) |->
                  IF k = 0 THEN 0 ELSE value[k - 1] * radix + DigitValue(s[k])]
  <2>1. 0 .. n = 0 .. Len(s)
    OBVIOUS
  <2>2. g = [k \in 0 .. Len(s) |->
               IF k = 0 THEN 0 ELSE g[k - 1] * radix + DigitValue(s[k])]
    BY <1>10, <2>1, Zenon
  <2> QED BY <2>2, Zenon
<1> HIDE DEF value
<1>12. value[n] = g[n]
  <2>1. \A k \in 0 .. n : value[k] =
          IF k = 0 THEN 0 ELSE value[k - 1] * radix + DigitValue(s[k])
    BY <1>11
  <2>2. value[0] = g[0]
    BY <1>9, <2>1
  <2>3. ASSUME NEW k \in 1 .. n, value[k - 1] = g[k - 1] PROVE value[k] = g[k]
    <3>1. k \in 0 .. n /\ k # 0
      OBVIOUS
    <3>2. value[k] = value[k - 1] * radix + DigitValue(s[k])
      BY <2>1, <3>1, Zenon
    <3>3. g[k] = g[k - 1] * radix + DigitValue(s[k])
      BY <1>9
    <3> QED BY <2>3, <3>2, <3>3
  <2> QED BY <2>2, <2>3, SameSteps
<1> QED BY <1>1, <1>9, <1>12

\* No digits have the value 0.
LEMMA ValueOfEmpty ==
  ASSUME NEW radix \in Int
  PROVE  ValueOf(<<>>, radix) = 0
<1>1. PICK s \in Seq(Int), n \in Nat : s = <<>> /\ n = Len(s) /\ n = 0
  <2>1. <<>> \in Seq(Int) /\ 0 = Len(<<>>)
    OBVIOUS
  <2> QED BY <2>1
<1>2. n = Len(s) /\ n \in Nat
  BY <1>1
<1>3. \E f \in [0 .. n -> Int] :
           /\ f[0] = 0 /\ f[n] = ValueOf(s, radix)
           /\ \A k \in 1 .. n : f[k] = f[k - 1] * radix + DigitValue(s[k])
  BY <1>2, ValueSteps
<1> QED BY <1>1, <1>3

\* One more digit.
LEMMA ValueOfMore ==
  ASSUME NEW s \in Seq(Int), NEW d \in Int, NEW radix \in Int
  PROVE  /\ ValueOf(s, radix) \in Int
         /\ ValueOf(s \o <<d>>, radix) = ValueOf(s, radix) * radix + DigitValue(d)
<1>1. PICK n \in Nat : n = Len(s)
  BY LenProperties
<1>2. PICK t \in Seq(Int) : t = s \o <<d>> /\ n + 1 = Len(t) /\ t[n + 1] = d
                           /\ \A i \in 1 .. n : t[i] = s[i]
  <2>1. <<d>> \in Seq(Int) /\ 1 = Len(<<d>>) /\ <<d>>[1] = d
    OBVIOUS
  <2>2. /\ s \o <<d>> \in Seq(Int) /\ Len(s \o <<d>>) = n + 1
        /\ \A i \in 1 .. n : (s \o <<d>>)[i] = s[i]
        /\ \A i \in 1 .. 1 : (s \o <<d>>)[n + i] = <<d>>[i]
    BY <1>1, <2>1, Joined
  <2>3. (s \o <<d>>)[n + 1] = d
    <3>1. 1 \in 1 .. 1
      OBVIOUS
    <3> QED BY <2>1, <2>2, <3>1
  <2> QED BY <2>2, <2>3
<1>3. PICK f \in [0 .. n -> Int] :
           /\ f[0] = 0 /\ f[n] = ValueOf(s, radix)
           /\ \A k \in 1 .. n : f[k] = f[k - 1] * radix + DigitValue(s[k])
  BY <1>1, ValueSteps
<1>4. PICK g \in [0 .. n + 1 -> Int] :
           /\ g[0] = 0 /\ g[n + 1] = ValueOf(t, radix)
           /\ \A k \in 1 .. n + 1 : g[k] = g[k - 1] * radix + DigitValue(t[k])
  <2>1. n + 1 \in Nat /\ n + 1 = Len(t)
    BY <1>2
  <2> QED BY <2>1, ValueSteps
<1>5. f[n] = g[n]
  <2>1. f[0] = g[0]
    BY <1>3, <1>4
  <2>2. ASSUME NEW k \in 1 .. n, f[k - 1] = g[k - 1] PROVE f[k] = g[k]
    <3>1. k \in 1 .. n + 1
      OBVIOUS
    <3>2. f[k] = f[k - 1] * radix + DigitValue(s[k])
      BY <1>3
    <3>3. g[k] = g[k - 1] * radix + DigitValue(t[k])
      BY <1>4, <3>1
    <3>4. t[k] = s[k]
      BY <1>2
    <3> QED BY <2>2, <3>2, <3>3, <3>4
  <2> QED BY <2>1, <2>2, SameSteps
<1>6. g[n + 1] = g[n] * radix + DigitValue(d)
  <2>1. n + 1 \in 1 .. n + 1 /\ (n + 1) - 1 = n
    OBVIOUS
  <2>2. g[n + 1] = g[(n + 1) - 1] * radix + DigitValue(t[n + 1])
    BY <1>4, <2>1
  <2> QED BY <1>2, <2>1, <2>2
<1>7. f[n] \in Int
  OBVIOUS
<1> QED BY <1>2, <1>3, <1>4, <1>5, <1>6, <1>7

Radices == {2, 10, 16}

LEMMA Quotients ==
  ASSUME NEW radix \in Radices, NEW v \in Nat
  PROVE  /\ v \div radix \in Nat /\ v % radix \in 0 .. radix - 1
         /\ v = (v \div radix) * radix + (v % radix)
         /\ v # 0 => v \div radix < v
         /\ v \div radix = 0 => v % radix = v
<1>1. CASE radix = 2
  BY <1>1
<1>2. CASE radix = 10
  BY <1>2
<1>3. CASE radix = 16
  BY <1>3
<1> QED BY <1>1, <1>2, <1>3 DEF Radices

\* A digit that is written has the value it was written for.
LEMMA DigitsAreRead ==
  ASSUME NEW radix \in Radices, NEW x \in 0 .. radix - 1
  PROVE  /\ Digit(x) \in Int /\ Digit(x) # Nul /\ DigitValue(Digit(x)) = x
         /\ x # 0 => Digit(x) # Zero
BY DEF Radices, Digit, DigitValue, Zero, Nul

\* Reverse of a sequence, character by character.
LEMMA ReverseOf ==
  ASSUME NEW d \in Seq(Int), NEW n \in Nat, n = Len(d)
  PROVE  /\ Reverse(d) \in Seq(Int) /\ n = Len(Reverse(d))
         /\ \A i \in 1 .. n : Reverse(d)[i] = d[n + 1 - i]
<1>1. Reverse(d) = [i \in 1 .. n |-> d[(n - i) + 1]]
  BY Zenon DEF Reverse
<1>2. ASSUME NEW i \in 1 .. n PROVE (n - i) + 1 = n + 1 - i /\ n + 1 - i \in 1 .. n
  OBVIOUS
<1>3. \A i \in 1 .. n : d[i] \in Int
  BY ElementOfSeq
<1> DEFINE r == [i \in 1 .. n |-> d[n + 1 - i]]
<1>4. Reverse(d) = r
  BY <1>1, <1>2
<1>5. r \in [1 .. n -> Int] /\ DOMAIN r = 1 .. n /\ \A i \in 1 .. n : r[i] = d[n + 1 - i]
  BY <1>2, <1>3
<1> HIDE DEF r
<1>6. r \in Seq(Int) /\ n = Len(r)
  BY <1>5, LenProperties
<1> QED BY <1>4, <1>5, <1>6

\* The digits of v, the last one first, as itoa() finds them.
DigitsOf(d, v, radix) ==
  /\ d \in Seq(Int)
  /\ \A i \in 1 .. Len(d) : d[i] # Nul /\ DigitValue(d[i]) \in 0 .. radix - 1
  /\ IF v = 0 THEN d = <<>> ELSE Len(d) >= 1 /\ d[Len(d)] # Zero
  /\ ValueOf(Reverse(d), radix) = v

LEMMA DigitsGoOn ==
  ASSUME NEW radix \in Radices, NEW v \in Nat \ {0}, NEW d,
         DigitsOf(d, v \div radix, radix)
  PROVE  DigitsOf(<<Digit(v % radix)>> \o d, v, radix)
<1>1. PICK q \in Nat, x \in 0 .. radix - 1 :
           /\ q = v \div radix /\ x = v % radix /\ v = q * radix + x
           /\ q = 0 => x = v
  BY Quotients
<1>0. PICK ch \in Int : ch = Digit(x)
  BY DigitsAreRead
<1>2. ch # Nul /\ DigitValue(ch) = x /\ (x # 0 => ch # Zero)
  <2>1. /\ Digit(x) # Nul /\ DigitValue(Digit(x)) = x
        /\ x # 0 => Digit(x) # Zero
    BY DigitsAreRead
  <2> QED BY <1>0, <2>1, Zenon
<1>3. d \in Seq(Int) /\ DigitsOf(d, q, radix)
  BY <1>1 DEF DigitsOf
<1>4. PICK n \in Nat : n = Len(d)
  BY <1>3, LenProperties
<1>5. PICK t \in Seq(Int) : t = <<ch>> \o d /\ n + 1 = Len(t) /\ t[1] = ch
                           /\ \A i \in 1 .. n : t[i + 1] = d[i]
  <2>1. <<ch>> \in Seq(Int) /\ 1 = Len(<<ch>>) /\ <<ch>>[1] = ch
    OBVIOUS
  <2>2. /\ <<ch>> \o d \in Seq(Int) /\ Len(<<ch>> \o d) = 1 + n
        /\ \A i \in 1 .. 1 : (<<ch>> \o d)[i] = <<ch>>[i]
        /\ \A i \in 1 .. n : (<<ch>> \o d)[1 + i] = d[i]
    BY <1>3, <1>4, <2>1, Joined
  <2>3. (<<ch>> \o d)[1] = ch
    <3>1. 1 \in 1 .. 1
      OBVIOUS
    <3> QED BY <2>1, <2>2, <3>1
  <2>4. \A i \in 1 .. n : (<<ch>> \o d)[i + 1] = d[i]
    BY <2>2
  <2>5. n + 1 = Len(<<ch>> \o d)
    BY <2>2
  <2> QED BY <2>2, <2>3, <2>4, <2>5, Zenon
<1>6. \A i \in 1 .. n + 1 : t[i] # Nul /\ DigitValue(t[i]) \in 0 .. radix - 1
  <2> SUFFICES ASSUME NEW i \in 1 .. n + 1
               PROVE  t[i] # Nul /\ DigitValue(t[i]) \in 0 .. radix - 1
    OBVIOUS
  <2>1. CASE i = 1
    <3>1. t[i] = ch /\ ch # Nul /\ DigitValue(ch) = x
      BY <1>2, <1>5, <2>1
    <3>2. x \in 0 .. radix - 1
      OBVIOUS
    <3> QED BY <3>1, <3>2, Zenon
  <2>2. CASE i # 1
    <3>1. i - 1 \in 1 .. n /\ (i - 1) + 1 = i
      BY <2>2
    <3>2. t[i] = d[i - 1]
      BY <1>5, <3>1
    <3> QED BY <1>3, <1>4, <3>1, <3>2 DEF DigitsOf
  <2> QED BY <2>1, <2>2
<1>7. n + 1 >= 1 /\ t[n + 1] # Zero
  <2>1. CASE q = 0
    <3>1. d = <<>>
      BY <1>3, <2>1 DEF DigitsOf
    <3>2. n = 0
      BY <1>4, <3>1
    <3>3. x # 0
      BY <1>1, <2>1
    <3>4. t[n + 1] = ch /\ ch # Zero
      <4>1. t[1] = ch /\ ch # Zero
        BY <1>2, <1>5, <3>3
      <4> QED BY <3>2, <4>1
    <3> QED BY <3>2, <3>4
  <2>2. CASE q # 0
    <3>1. n >= 1 /\ d[n] # Zero
      BY <1>3, <1>4, <2>2 DEF DigitsOf
    <3>2. n \in 1 .. n
      BY <3>1
    <3> QED BY <1>5, <3>1, <3>2
  <2> QED BY <2>1, <2>2
<1>8. ValueOf(Reverse(t), radix) = v
  <2>1. PICK r \in Seq(Int) : r = Reverse(d) /\ n = Len(r)
                             /\ \A i \in 1 .. n : r[i] = d[n + 1 - i]
    BY <1>3, <1>4, ReverseOf
  <2>2. PICK u \in Seq(Int) : u = Reverse(t) /\ n + 1 = Len(u)
                             /\ \A i \in 1 .. n + 1 : u[i] = t[n + 1 + 1 - i]
    <3>1. n + 1 \in Nat /\ n + 1 = Len(t)
      BY <1>5
    <3> QED BY <3>1, ReverseOf
  <2>3. PICK w \in Seq(Int) : w = r \o <<ch>> /\ n + 1 = Len(w) /\ w[n + 1] = ch
                             /\ \A i \in 1 .. n : w[i] = r[i]
    <3>1. <<ch>> \in Seq(Int) /\ 1 = Len(<<ch>>) /\ <<ch>>[1] = ch
      OBVIOUS
    <3>2. /\ r \o <<ch>> \in Seq(Int) /\ Len(r \o <<ch>>) = n + 1
          /\ \A i \in 1 .. n : (r \o <<ch>>)[i] = r[i]
          /\ \A i \in 1 .. 1 : (r \o <<ch>>)[n + i] = <<ch>>[i]
      BY <2>1, <3>1, Joined
    <3>3. (r \o <<ch>>)[n + 1] = ch
      <4>1. 1 \in 1 .. 1
        OBVIOUS
      <4> QED BY <3>1, <3>2, <4>1
    <3> QED BY <3>2, <3>3
  <2>4. u = w
    <3>1. ASSUME NEW i \in 1 .. n + 1 PROVE u[i] = w[i]
      <4>1. CASE i = n + 1
        <5>1. n + 1 + 1 - i = 1
          BY <4>1
        <5> QED BY <1>5, <2>2, <2>3, <4>1, <5>1
      <4>2. CASE i # n + 1
        <5>1. i \in 1 .. n /\ n + 1 - i \in 1 .. n
              /\ (n + 1 - i) + 1 = n + 1 + 1 - i
          BY <4>2
        <5>2. u[i] = t[(n + 1 - i) + 1] /\ t[(n + 1 - i) + 1] = d[n + 1 - i]
          BY <1>5, <2>2, <5>1
        <5>3. w[i] = d[n + 1 - i]
          BY <2>1, <2>3, <5>1
        <5> QED BY <5>2, <5>3
      <4> QED BY <4>1, <4>2
    <3>2. Len(u) = Len(w) /\ \A i \in 1 .. Len(u) : u[i] = w[i]
      BY <2>2, <2>3, <3>1
    <3> QED BY <3>2, SeqEqual
  <2>5. radix \in Int
    BY DEF Radices
  <2>6. ValueOf(w, radix) = ValueOf(r, radix) * radix + DigitValue(ch)
    BY <2>3, <2>5, ValueOfMore
  <2>7. ValueOf(r, radix) = q
    BY <1>3, <2>1 DEF DigitsOf
  <2>8. ValueOf(w, radix) = q * radix + x
    <3>1. DigitValue(ch) = x
      BY <1>2
    <3> QED BY <2>6, <2>7, <3>1, Zenon
  <2> QED BY <1>1, <2>2, <2>4, <2>8
<1>9. DigitsOf(t, v, radix)
  <2>1. v # 0 /\ Len(t) >= 1 /\ t[Len(t)] # Zero
    BY <1>5, <1>7
  <2>2. \A i \in 1 .. Len(t) : t[i] # Nul /\ DigitValue(t[i]) \in 0 .. radix - 1
    BY <1>5, <1>6
  <2> QED BY <1>8, <2>1, <2>2 DEF DigitsOf
<1>10. <<Digit(v % radix)>> \o d = t
  <2>1. Digit(v % radix) = ch
    BY <1>0, <1>1, Zenon
  <2> QED BY <1>5, <2>1, Zenon
<1> QED BY <1>9, <1>10, Zenon

\* Joining is associative.
LEMMA JoinedAgain ==
  ASSUME NEW s \in Seq(Int), NEW t \in Seq(Int), NEW u \in Seq(Int)
  PROVE  s \o (t \o u) = (s \o t) \o u
BY SMTT(60)

\* The loop of itoa() has found the digits of n, and then stores a Nul.
LEMMA DigitsAreFound ==
  ASSUME NEW radix \in Radices, NEW v \in Nat \ {0}
  PROVE  \E d, nb : /\ DigitsOf(d, v, radix) /\ nb = d \o <<Nul>>
                    /\ Itoa(v, radix) = StrRev(nb)
<1> DEFINE newbuf == CHOOSE f : f = [n \in Nat |->
             IF n = 0 THEN <<Nul>> ELSE <<Digit(n % radix)>> \o f[n \div radix]]
           prev == [n \in Nat \ {0} |-> n \div radix]
           step == [n \in Nat \ {0} |->
                      [t \in Seq(Int) |-> <<Digit(n % radix)>> \o t]]
<1>1. Itoa(v, radix) = StrRev(newbuf[v])
  <2>1. v # 0
    OBVIOUS
  <2>2. Itoa(v, radix) = IF v = 0 THEN <<Zero, Nul>> ELSE StrRev(newbuf[v])
    BY Zenon DEF Itoa
  <2> HIDE DEF newbuf
  <2> QED BY <2>1, <2>2, Zenon
<1>2. prev \in [Nat \ {0} -> Nat] /\ \A n \in Nat \ {0} : prev[n] < n
  <2>1. ASSUME NEW n \in Nat \ {0} PROVE n \div radix \in Nat /\ n \div radix < n
    BY Quotients
  <2> QED BY <2>1
<1>3. step \in [Nat \ {0} -> [Seq(Int) -> Seq(Int)]]
  <2>1. ASSUME NEW n \in Nat \ {0}, NEW t \in Seq(Int)
        PROVE  <<Digit(n % radix)>> \o t \in Seq(Int)
    <3>1. PICK ch \in Int : ch = Digit(n % radix)
      BY Quotients, DigitsAreRead
    <3>2. <<ch>> \in Seq(Int)
      OBVIOUS
    <3>3. <<ch>> \o t \in Seq(Int)
      BY <3>2, ConcatProperties
    <3> QED BY <3>1, <3>3, Zenon
  <2>2. PICK I : I = Seq(Int)
    OBVIOUS
  <2>3. \A n \in Nat \ {0}, t \in I : <<Digit(n % radix)>> \o t \in I
    BY <2>1, <2>2
  <2>4. [n \in Nat \ {0} |-> [t \in I |-> <<Digit(n % radix)>> \o t]]
          \in [Nat \ {0} -> [I -> I]]
    BY <2>3
  <2> QED BY <2>2, <2>4, Zenon
<1>4. \A n \in Nat \ {0} : prev[n] = n \div radix
  OBVIOUS
<1>5. \A n \in Nat \ {0}, t \in Seq(Int) : step[n][t] = <<Digit(n % radix)>> \o t
  OBVIOUS
<1> HIDE DEF prev, step
<1>6. PICK h \in [Nat -> Seq(Int)] :
           h[0] = <<Nul>> /\ \A n \in Nat \ {0} : h[n] = step[n][h[prev[n]]]
  <2>1. PICK I, z : I = Seq(Int) /\ z = <<Nul>>
    OBVIOUS
  <2>2. <<Nul>> \in Seq(Int)
    BY DEF Nul
  <2>3. z \in I /\ step \in [Nat \ {0} -> [I -> I]]
    BY <1>3, <2>1, <2>2, Zenon
  <2>4. HasFunction(I, z, prev, step)
    BY <1>2, <2>3, RecursionHasValue
  <2>5. \E f \in [Nat -> I] :
           f[0] = z /\ \A n \in Nat \ {0} : f[n] = step[n][f[prev[n]]]
    BY <2>4, Zenon DEF HasFunction
  <2> QED BY <2>1, <2>5, Zenon
<1>7. ASSUME NEW n \in Nat \ {0}
      PROVE  h[n] = <<Digit(n % radix)>> \o h[n \div radix]
  <2>1. prev[n] \in Nat /\ prev[n] = n \div radix
    BY <1>2, <1>4
  <2>2. h[prev[n]] \in Seq(Int)
    BY <2>1
  <2>3. h[n] = step[n][h[prev[n]]]
    BY <1>6, Zenon
  <2>4. step[n][h[prev[n]]] = <<Digit(n % radix)>> \o h[prev[n]]
    BY <1>5, <2>2, Zenon
  <2> QED BY <2>1, <2>3, <2>4, Zenon
<1>8. h = [n \in Nat |->
             IF n = 0 THEN <<Nul>> ELSE <<Digit(n % radix)>> \o h[n \div radix]]
  <2>1. \A n \in Nat : h[n] =
          IF n = 0 THEN <<Nul>> ELSE <<Digit(n % radix)>> \o h[n \div radix]
    <3>1. \A n \in Nat : n = 0 \/ n \in Nat \ {0}
      OBVIOUS
    <3>2. 0 \notin Nat \ {0}
      OBVIOUS
    <3> QED BY <1>6, <1>7, <3>1, <3>2, Zenon
  <2>2. h = [n \in Nat |-> h[n]]
    OBVIOUS
  <2> QED BY <2>1, <2>2, Zenon
<1>9. newbuf = [n \in Nat |->
        IF n = 0 THEN <<Nul>> ELSE <<Digit(n % radix)>> \o newbuf[n \div radix]]
  BY <1>8, Zenon
<1> HIDE DEF newbuf
<1>10. newbuf[0] = <<Nul>> /\ \A n \in Nat \ {0} :
         newbuf[n] = <<Digit(n % radix)>> \o newbuf[n \div radix]
  <2>1. 0 \in Nat /\ \A n \in Nat \ {0} : n \in Nat /\ n # 0
    OBVIOUS
  <2> QED BY <1>9, <2>1, Zenon
<1> DEFINE Found(n) == \E d : DigitsOf(d, n, radix) /\ newbuf[n] = d \o <<Nul>>
           D == {n \in Nat : ~Found(n)}
<1>11. Found(0)
  <2>1. <<>> \in Seq(Int) /\ <<>> \o <<Nul>> = <<Nul>> /\ Len(<<>>) = 0
    BY DEF Nul
  <2>2. Reverse(<<>>) = <<>>
    BY DEF Reverse
  <2>3. ValueOf(Reverse(<<>>), radix) = 0
    <3>1. radix \in Int
      BY DEF Radices
    <3> QED BY <2>2, <3>1, ValueOfEmpty
  <2>4. DigitsOf(<<>>, 0, radix)
    BY <2>1, <2>3 DEF DigitsOf
  <2> QED BY <1>10, <2>1, <2>4
<1>12. ASSUME NEW n \in Nat \ {0}, Found(n \div radix) PROVE Found(n)
  <2>1. PICK d : /\ DigitsOf(d, n \div radix, radix)
                 /\ newbuf[n \div radix] = d \o <<Nul>>
    BY <1>12
  <2>2. DigitsOf(<<Digit(n % radix)>> \o d, n, radix)
    BY <2>1, DigitsGoOn
  <2>3. newbuf[n] = <<Digit(n % radix)>> \o (d \o <<Nul>>)
    BY <1>10, <2>1, Zenon
  <2>4. <<Digit(n % radix)>> \o (d \o <<Nul>>)
          = (<<Digit(n % radix)>> \o d) \o <<Nul>>
    <3>1. PICK ch \in Int : ch = Digit(n % radix)
      BY Quotients, DigitsAreRead
    <3>2. PICK s, t, u \in Seq(Int) : s = <<ch>> /\ t = d /\ u = <<Nul>>
      <4>1. <<ch>> \in Seq(Int) /\ d \in Seq(Int) /\ <<Nul>> \in Seq(Int)
        BY <2>1 DEF DigitsOf, Nul
      <4> QED BY <4>1, Zenon
    <3>3. s \o (t \o u) = (s \o t) \o u
      <4>1. s \in Seq(Int) /\ t \in Seq(Int) /\ u \in Seq(Int)
        BY <3>2
      <4> QED BY <4>1, JoinedAgain
    <3> QED BY <3>1, <3>2, <3>3, Zenon
  <2> QED BY <2>2, <2>3, <2>4
<1>13. D = {}
  <2> SUFFICES ASSUME D # {} PROVE FALSE
    OBVIOUS
  <2> HIDE DEF Found
  <2>1. D \subseteq Nat
    OBVIOUS
  <2>2. PICK n \in D : \A m \in D : n <= m
    <3> HIDE DEF D
    <3> QED BY <2>1, LeastNat
  <2>3. n \in Nat \ {0} /\ ~Found(n)
    BY <1>11, <2>2
  <2>4. n \div radix \in Nat /\ n \div radix < n
    BY <2>3, Quotients
  <2>5. Found(n \div radix)
    BY <2>2, <2>3, <2>4
  <2> QED BY <1>12, <2>3, <2>5
<1>14. Found(v)
  <2> HIDE DEF Found
  <2> QED BY <1>13
<1> QED BY <1>1, <1>14

LEMMA ItoaWrites ==
  ASSUME NEW v \in Nat, NEW radix \in Radices
  PROVE  /\ CString(Itoa(v, radix)) \in Seq(Int)
         /\ Writes(CString(Itoa(v, radix)), v, radix)
<1>0. radix \in Int /\ radix > 1
  BY DEF Radices
<1>1. CASE v = 0
  <2>1. PICK t \in Seq(Int) : t = <<Zero>> /\ 1 = Len(t) /\ t[1] = Zero
    <3>1. <<Zero>> \in Seq(Int) /\ 1 = Len(<<Zero>>) /\ <<Zero>>[1] = Zero
      BY DEF Zero
    <3> QED BY <3>1
  <2>2. PICK w : w = <<Zero, Nul>>
    OBVIOUS
  <2>3. w \in Seq(Int) /\ Len(w) = 2 /\ w[1] = Zero /\ w[2] = Nul
    <3>1. /\ <<Zero, Nul>> \in Seq(Int) /\ Len(<<Zero, Nul>>) = 2
          /\ <<Zero, Nul>>[1] = Zero /\ <<Zero, Nul>>[2] = Nul
      BY DEF Zero, Nul
    <3> QED BY <2>2, <3>1, Zenon
  <2>4. CString(w) = t
    <3>1. Len(t) < Len(w) /\ w[Len(t) + 1] = Nul
      BY <2>1, <2>3
    <3>2. \A k \in 1 .. Len(t) : w[k] = t[k] /\ t[k] # Nul
      <4>1. w[1] = t[1] /\ t[1] # Nul
        BY <2>1, <2>3 DEF Zero, Nul
      <4> QED BY <2>1, <4>1
    <3> QED BY <2>3, <3>1, <3>2, CStringIs
  <2>5. CString(Itoa(v, radix)) = t
    <3>1. Itoa(v, radix) = <<Zero, Nul>>
      BY <1>1, Zenon DEF Itoa
    <3> QED BY <2>2, <2>4, <3>1, Zenon
  <2>6. ValueOf(t, radix) = 0
    <3>1. <<>> \in Seq(Int) /\ Zero \in Int /\ <<>> \o <<Zero>> = t
      BY <2>1 DEF Zero
    <3>2. ValueOf(<<>> \o <<Zero>>, radix) =
            ValueOf(<<>>, radix) * radix + DigitValue(Zero)
      BY <1>0, <3>1, ValueOfMore
    <3>3. ValueOf(<<>>, radix) = 0 /\ DigitValue(Zero) = 0
      BY <1>0, ValueOfEmpty DEF DigitValue, Zero
    <3> QED BY <1>0, <3>1, <3>2, <3>3
  <2>7. DOMAIN t = 1 .. 1 /\ DigitValue(t[1]) \in 0 .. radix - 1
    BY <1>0, <2>1 DEF DigitValue, Zero
  <2>8. Writes(t, 0, radix)
    <3>1. t # <<>>
      BY <2>1
    <3> QED BY <2>1, <2>6, <2>7, <3>1 DEF Writes
  <2> QED BY <1>1, <2>5, <2>8
<1>2. CASE v # 0
  <2>1. PICK d, nb : /\ DigitsOf(d, v, radix) /\ nb = d \o <<Nul>>
                     /\ Itoa(v, radix) = StrRev(nb)
    BY <1>2, DigitsAreFound
  <2>2. /\ d \in Seq(Int) /\ \A l \in 1 .. Len(d) : d[l] # Nul
        /\ \A l \in 1 .. Len(d) : DigitValue(d[l]) \in 0 .. radix - 1
        /\ Len(d) >= 1 /\ d[Len(d)] # Zero
        /\ ValueOf(Reverse(d), radix) = v
    BY <1>2, <2>1 DEF DigitsOf
  <2>3. nb \in Seq(Int) /\ IsString(nb) /\ CString(nb) = d
    <3>1. /\ d \o <<Nul>> \in Seq(Int) /\ Len(d \o <<Nul>>) = Len(d) + 1
          /\ CString(d \o <<Nul>>) = d /\ (d \o <<Nul>>)[Len(d) + 1] = Nul
      BY <2>2, EndedPiece
    <3>2. nb \in Seq(Int) /\ Len(nb) = Len(d) + 1 /\ CString(nb) = d
          /\ nb[Len(d) + 1] = Nul
      BY <2>1, <3>1, Zenon
    <3>3. Len(d) + 1 \in DOMAIN nb
      BY <2>2, <3>2, LenProperties
    <3> QED BY <3>2, <3>3 DEF IsString
  <2>4. CString(StrRev(nb)) = Reverse(d)
    BY <2>3, StringsAreReversed
  <2>5. PICK n \in Nat : n = Len(d)
    BY <2>2, LenProperties
  <2>6. PICK r \in Seq(Int) : r = Reverse(d) /\ n = Len(r)
                             /\ \A i \in 1 .. n : r[i] = d[n + 1 - i]
    BY <2>2, <2>5, ReverseOf
  <2>7. \A i \in DOMAIN r : DigitValue(r[i]) \in 0 .. radix - 1
    <3> SUFFICES ASSUME NEW i \in 1 .. n
                 PROVE  DigitValue(r[i]) \in 0 .. radix - 1
      BY <2>6, LenProperties
    <3>1. n + 1 - i \in 1 .. n
      OBVIOUS
    <3>2. r[i] = d[n + 1 - i]
      BY <2>6
    <3> QED BY <2>2, <2>5, <3>1, <3>2
  <2>8. r[1] # Zero
    <3>1. 1 \in 1 .. n /\ n + 1 - 1 = n
      BY <2>2, <2>5
    <3>2. r[1] = d[n]
      BY <2>6, <3>1
    <3> QED BY <2>2, <2>5, <3>2
  <2>9. ValueOf(r, radix) = v
    BY <2>2, <2>6, Zenon
  <2>10. Writes(r, v, radix)
    <3>1. r # <<>>
      BY <2>2, <2>5, <2>6
    <3> QED BY <2>7, <2>8, <2>9, <3>1 DEF Writes
  <2> QED BY <2>1, <2>4, <2>6, <2>10, Zenon
<1> QED BY <1>1, <1>2

\* itoa() writes every number in the radixes that printf() uses, with the
\* fewest digits that have its value: lib.c, lines 217 to 250.
THEOREM NumbersAreWritten ==
  ASSUME NEW v \in Nat, NEW radix \in Radices
  PROVE  Writes(CString(Itoa(v, radix)), v, radix)
BY ItoaWrites

\* %d prints a word as the number it is in two's complement: a minus sign
\* before Word - v from the middle of the range on.  lib.c, lines 122 to 133.
THEOREM SignedNumbersAreWritten ==
  ASSUME NEW v \in 0 .. Word - 1
  PROVE  IF v >= Word \div 2
         THEN Head(Signed(v)) = Minus /\ Writes(Tail(Signed(v)), Word - v, 10)
         ELSE Writes(Signed(v), v, 10)
<1>1. v \in Nat /\ Word - v \in Nat /\ 10 \in Radices
  BY PagesAssumption DEF Radices
<1>2. CASE v >= Word \div 2
  <2> DEFINE t == CString(Itoa(Word - v, 10))
  <2>1. Signed(v) = <<Minus>> \o t
    BY <1>2, Zenon DEF Signed
  <2>2. Writes(t, Word - v, 10)
    BY <1>1, NumbersAreWritten
  <2>3. t \in Seq(Int)
    BY <1>1, ItoaWrites
  <2> HIDE DEF t
  <2>4. Head(<<Minus>> \o t) = Minus /\ Tail(<<Minus>> \o t) = t
    BY <2>3 DEF Minus
  <2> QED BY <1>2, <2>1, <2>2, <2>4
<1>3. CASE ~(v >= Word \div 2)
  <2>1. Signed(v) = CString(Itoa(v, 10))
    BY <1>3, Zenon DEF Signed
  <2> QED BY <1>1, <1>3, <2>1, NumbersAreWritten
<1> QED BY <1>2, <1>3

\* The recursion that defines a word has a value.
LEMMA PowersOfSixteen ==
  /\ SixteenTo[0] = 1
  /\ \A n \in Nat : SixteenTo[n] \in Nat \ {0}
  /\ \A n \in Nat \ {0} : SixteenTo[n] = 16 * SixteenTo[n - 1]
<1> DEFINE prev == [n \in Nat \ {0} |-> n - 1]
           step == [n \in Nat \ {0} |-> [x \in Nat \ {0} |-> 16 * x]]
           power == CHOOSE f : f = [n \in Nat |-> IF n = 0 THEN 1 ELSE 16 * f[n - 1]]
<1>1. PICK h \in [Nat -> Nat \ {0}] :
           h[0] = 1 /\ \A n \in Nat \ {0} : h[n] = step[n][h[prev[n]]]
  <2>1. PICK S, b : S = Nat \ {0} /\ b = 1
    OBVIOUS
  <2>2. /\ b \in S /\ step \in [Nat \ {0} -> [S -> S]]
        /\ prev \in [Nat \ {0} -> Nat] /\ \A n \in Nat \ {0} : prev[n] < n
    BY <2>1
  <2> HIDE DEF prev, step
  <2>3. HasFunction(S, b, prev, step)
    BY <2>2, RecursionHasValue
  <2> QED BY <2>1, <2>3 DEF HasFunction
<1>2. ASSUME NEW n \in Nat \ {0} PROVE h[n] = 16 * h[n - 1]
  <2>1. n - 1 \in Nat /\ h[n - 1] \in Nat \ {0}
    OBVIOUS
  <2> QED BY <1>1, <2>1
<1>3. h = [n \in Nat |-> IF n = 0 THEN 1 ELSE 16 * h[n - 1]]
  <2>1. \A n \in Nat : h[n] = IF n = 0 THEN 1 ELSE 16 * h[n - 1]
    BY <1>1, <1>2
  <2>2. h = [n \in Nat |-> h[n]]
    OBVIOUS
  <2> QED BY <2>1, <2>2
<1>4. power = [n \in Nat |-> IF n = 0 THEN 1 ELSE 16 * power[n - 1]]
  BY <1>3, Zenon
<1>5. SixteenTo = power
  BY Zenon DEF SixteenTo
<1> HIDE DEF power
<1>6. ASSUME NEW m \in Nat PROVE power[m] = h[m]
  <2>1. power[0] = h[0]
    BY <1>1, <1>4
  <2>2. ASSUME NEW k \in 1 .. m, power[k - 1] = h[k - 1] PROVE power[k] = h[k]
    <3>1. k \in Nat \ {0}
      OBVIOUS
    <3>2. power[k] = 16 * power[k - 1] /\ h[k] = 16 * h[k - 1]
      BY <1>2, <1>4, <3>1
    <3> QED BY <2>2, <3>2
  <2> QED BY <2>1, <2>2, SameSteps
<1>7. \A n \in Nat \ {0} : n \in Nat /\ n - 1 \in Nat
  OBVIOUS
<1>8. \A n \in Nat : SixteenTo[n] = h[n]
  BY <1>5, <1>6
<1> QED BY <1>1, <1>2, <1>7, <1>8

\* A number of h hexadecimal digits is below 16^h.
LEMMA HexIsNoLonger ==
  ASSUME NEW d \in Seq(Int), NEW n \in Nat, n = Len(d), NEW v \in Nat,
         Writes(d, v, 16), NEW h \in Nat \ {0}, v < SixteenTo[h]
  PROVE  n >= 1 /\ n <= h
<1> DEFINE Least(k) == IF k <= h THEN SixteenTo[k] ELSE SixteenTo[h]
<1>1. PICK f \in [0 .. n -> Int] :
           /\ f[0] = 0 /\ f[n] = v
           /\ \A k \in 1 .. n : f[k] = f[k - 1] * 16 + DigitValue(d[k])
  <2>1. PICK radix \in Int : radix = 16
    OBVIOUS
  <2>2. PICK f \in [0 .. n -> Int] :
           /\ f[0] = 0 /\ f[n] = ValueOf(d, radix)
           /\ \A k \in 1 .. n : f[k] = f[k - 1] * radix + DigitValue(d[k])
    BY ValueSteps
  <2>3. ValueOf(d, radix) = v
    BY <2>1 DEF Writes
  <2> QED BY <2>1, <2>2, <2>3
<1>2. n >= 1
  BY DEF Writes
<1>3. \A k \in 1 .. n : DigitValue(d[k]) \in 0 .. 15
  <2>1. \A k \in DOMAIN d : DigitValue(d[k]) \in 0 .. 16 - 1
    BY Zenon DEF Writes
  <2>2. 16 - 1 = 15 /\ DOMAIN d = 1 .. n
    BY LenProperties
  <2> QED BY <2>1, <2>2
<1>4. \A k \in Nat : Least(k) \in Nat /\ Least(k + 1) <= 16 * Least(k)
  <2> SUFFICES ASSUME NEW k \in Nat
               PROVE  Least(k) \in Nat /\ Least(k + 1) <= 16 * Least(k)
    OBVIOUS
  <2>1. SixteenTo[k] \in Nat /\ SixteenTo[h] \in Nat
    BY PowersOfSixteen
  <2>2. SixteenTo[k + 1] = 16 * SixteenTo[k]
    <3>1. k + 1 \in Nat \ {0} /\ (k + 1) - 1 = k
      OBVIOUS
    <3>2. SixteenTo[k + 1] = 16 * SixteenTo[(k + 1) - 1]
      BY <3>1, PowersOfSixteen
    <3> QED BY <3>1, <3>2
  <2>3. CASE k + 1 <= h
    BY <2>1, <2>2, <2>3
  <2>4. CASE k = h
    BY <2>1, <2>4
  <2>5. CASE k > h
    BY <2>1, <2>5
  <2> QED BY <2>3, <2>4, <2>5
<1>5. ASSUME n > h PROVE FALSE
  <2>1. f[1] >= Least(0)
    <3>1. 1 \in 1 .. n /\ 1 - 1 = 0
      BY <1>2
    <3>2. f[1] = f[1 - 1] * 16 + DigitValue(d[1])
      BY <1>1, <3>1
    <3>3. d[1] # Zero /\ d[1] \in Int
      BY <1>5, <3>1, ElementOfSeq DEF Writes
    <3>4. DigitValue(d[1]) >= 1
      <4>1. PICK ch \in Int : ch = d[1]
        BY <3>3
      <4>2. DigitValue(ch) \in 0 .. 15 /\ ch # Zero
        BY <1>3, <3>1, <3>3, <4>1
      <4>3. DigitValue(ch) >= 1
        BY <4>2 DEF DigitValue, Zero
      <4> QED BY <4>1, <4>3
    <3>5. DigitValue(d[1]) \in Int /\ f[1] = DigitValue(d[1])
      <4>1. PICK x \in 0 .. 15 : x = DigitValue(d[1])
        BY <1>3, <3>1
      <4>2. f[1] = 0 * 16 + x
        BY <1>1, <3>1, <3>2, <4>1
      <4> QED BY <4>1, <4>2
    <3> QED BY <3>4, <3>5, PowersOfSixteen
  <2> HIDE DEF Least
  <2> DEFINE D == {k \in 1 .. n : ~(f[k] >= Least(k - 1))}
  <2>2. D = {}
    <3> SUFFICES ASSUME D # {} PROVE FALSE
      OBVIOUS
    <3>1. D \subseteq Nat
      OBVIOUS
    <3>2. PICK k \in D : \A l \in D : k <= l
      <4> HIDE DEF D
      <4> QED BY <3>1, LeastNat
    <3>3. k \in 1 .. n /\ ~(f[k] >= Least(k - 1)) /\ k # 1
      BY <2>1
    <3>4. k - 1 \in 1 .. n /\ ~(k <= k - 1) /\ k - 2 \in Nat
          /\ (k - 1) - 1 = k - 2 /\ (k - 2) + 1 = k - 1
      BY <3>3
    <3>5. f[k - 1] >= Least(k - 2)
      BY <3>2, <3>4
    <3>6. f[k] = f[k - 1] * 16 + DigitValue(d[k]) /\ DigitValue(d[k]) \in 0 .. 15
      BY <1>1, <1>3, <3>3
    <3>7. Least(k - 2) \in Nat /\ Least(k - 1) \in Nat /\ Least(k - 1) <= 16 * Least(k - 2)
      <4>1. Least((k - 2) + 1) <= 16 * Least(k - 2) /\ Least(k - 2) \in Nat
        BY <1>4, <3>4
      <4>2. Least(k - 1) \in Nat
        BY <1>4, <3>4
      <4> QED BY <3>4, <4>1, <4>2
    <3>8. f[k - 1] \in Int
      <4>1. k - 1 \in 0 .. n
        BY <3>3
      <4> QED BY <1>1, <4>1
    <3> HIDE DEF D
    <3>9. PICK x, y, z \in Int :
               /\ x = f[k - 1] /\ y = Least(k - 2) /\ z = Least(k - 1)
      BY <3>7, <3>8
    <3>10. PICK c \in 0 .. 15 : c = DigitValue(d[k])
      BY <3>6
    <3>11. f[k] = x * 16 + c
      BY <3>6, <3>9, <3>10
    <3>12. x >= y /\ z <= 16 * y /\ ~(x * 16 + c >= z)
      BY <3>3, <3>5, <3>7, <3>9, <3>11
    <3>13. x * 16 + c >= z
      BY <3>12
    <3> QED BY <3>12, <3>13
  <2>3. f[n] >= Least(n - 1)
    <3>1. n \in 1 .. n
      BY <1>2
    <3> QED BY <2>2, <3>1
  <2>4. Least(n - 1) = SixteenTo[h]
    BY <1>5 DEF Least
  <2> QED BY <1>1, <2>3, <2>4, PowersOfSixteen
<1>6. n <= h
  BY <1>5
<1> QED BY <1>2, <1>6

\* Zeros before a number do not change its value.
LEMMA ZerosBefore ==
  ASSUME NEW d \in Seq(Int), NEW n \in Nat, n = Len(d), NEW z \in Nat,
         NEW radix \in Int
  PROVE  \E s \in Seq(Int) : /\ s = [i \in 1 .. z |-> Zero] \o d
                             /\ z + n = Len(s)
                             /\ ValueOf(s, radix) = ValueOf(d, radix)
<1> DEFINE zeros == [i \in 1 .. z |-> Zero]
<1>1. zeros \in Seq(Int) /\ z = Len(zeros) /\ \A i \in 1 .. z : zeros[i] = Zero
  <2>1. zeros \in [1 .. z -> Int]
    BY DEF Zero
  <2> QED BY <2>1, LenProperties
<1> HIDE DEF zeros
<1>2. PICK s \in Seq(Int) : /\ s = zeros \o d /\ z + n = Len(s)
                            /\ \A i \in 1 .. z : s[i] = Zero
                            /\ \A i \in 1 .. n : s[z + i] = d[i]
  <2>1. /\ zeros \o d \in Seq(Int) /\ Len(zeros \o d) = z + n
        /\ \A i \in 1 .. z : (zeros \o d)[i] = zeros[i]
        /\ \A i \in 1 .. n : (zeros \o d)[z + i] = d[i]
    BY <1>1, Joined
  <2>2. \A i \in 1 .. z : (zeros \o d)[i] = Zero
    BY <1>1, <2>1
  <2> QED BY <2>1, <2>2
<1>3. PICK f \in [0 .. n -> Int] :
           /\ f[0] = 0 /\ f[n] = ValueOf(d, radix)
           /\ \A k \in 1 .. n : f[k] = f[k - 1] * radix + DigitValue(d[k])
  BY ValueSteps
<1>4. PICK g \in [0 .. z + n -> Int] :
           /\ g[0] = 0 /\ g[z + n] = ValueOf(s, radix)
           /\ \A k \in 1 .. z + n : g[k] = g[k - 1] * radix + DigitValue(s[k])
  <2>1. PICK m \in Nat : m = z + n
    OBVIOUS
  <2>2. m = Len(s)
    BY <1>2, <2>1
  <2>3. \E g \in [0 .. m -> Int] :
           /\ g[0] = 0 /\ g[m] = ValueOf(s, radix)
           /\ \A k \in 1 .. m : g[k] = g[k - 1] * radix + DigitValue(s[k])
    BY <2>2, ValueSteps
  <2> QED BY <2>1, <2>3
<1>5. g[z] = 0
  <2> DEFINE e == [k \in 0 .. z |-> 0]
  <2>1. g[0] = e[0]
    BY <1>4
  <2>2. ASSUME NEW k \in 1 .. z, g[k - 1] = e[k - 1] PROVE g[k] = e[k]
    <3>1. k \in 1 .. z + n /\ k \in 0 .. z /\ k - 1 \in 0 .. z
      OBVIOUS
    <3>2. e[k] = 0 /\ e[k - 1] = 0
      BY <3>1
    <3>3. s[k] = Zero /\ DigitValue(Zero) = 0
      BY <1>2 DEF DigitValue, Zero
    <3> HIDE DEF e
    <3>4. g[k] = g[k - 1] * radix + DigitValue(s[k])
      BY <1>4, <3>1
    <3>5. g[k] = 0 * radix + 0
      BY <2>2, <3>2, <3>3, <3>4
    <3> QED BY <3>2, <3>5
  <2>3. e[z] = 0
    OBVIOUS
  <2> HIDE DEF e
  <2>4. g[z] = e[z]
    BY <2>1, <2>2, SameSteps
  <2> QED BY <2>3, <2>4
<1>6. g[z + n] = f[n]
  <2> DEFINE e == [k \in 0 .. n |-> g[z + k]]
  <2>1. e[0] = f[0]
    BY <1>3, <1>5
  <2>2. ASSUME NEW k \in 1 .. n, e[k - 1] = f[k - 1] PROVE e[k] = f[k]
    <3>1. z + k \in 1 .. z + n /\ (z + k) - 1 = z + (k - 1)
      OBVIOUS
    <3>2. e[k] = g[z + k] /\ e[k - 1] = g[z + (k - 1)]
      OBVIOUS
    <3> HIDE DEF e
    <3>3. g[z + k] = g[(z + k) - 1] * radix + DigitValue(s[z + k])
      BY <1>4, <3>1
    <3>4. s[z + k] = d[k]
      BY <1>2
    <3>5. f[k] = f[k - 1] * radix + DigitValue(d[k])
      BY <1>3
    <3>6. g[(z + k) - 1] = f[k - 1]
      BY <2>2, <3>1, <3>2
    <3> QED BY <3>2, <3>3, <3>4, <3>5, <3>6, Zenon
  <2>3. e[n] = g[z + n]
    OBVIOUS
  <2> HIDE DEF e
  <2>4. e[n] = f[n]
    BY <2>1, <2>2, SameSteps
  <2> QED BY <2>3, <2>4
<1> QED BY <1>2, <1>3, <1>4, <1>6 DEF zeros

\* %#x prints as many digits as a word has, with the value of the argument:
\* lib.c, lines 96 to 112.
THEOREM HexNumbersAreWritten ==
  ASSUME NEW v \in 0 .. Word - 1
  PROVE  Len(PadHex(v)) = HexDigits /\ ValueOf(PadHex(v), 16) = v
<1>1. v \in Nat /\ HexDigits \in Nat \ {0} /\ v < SixteenTo[HexDigits]
  <2>1. SixteenTo[HexDigits] \in Nat
    BY LibraryAssumption, PowersOfSixteen
  <2> QED BY <2>1, LibraryAssumption
<1> DEFINE d == CString(Itoa(v, 16))
<1>2. d \in Seq(Int) /\ Writes(d, v, 16)
  BY <1>1, ItoaWrites DEF Radices
<1>3. PadHex(v) = [i \in 1 .. HexDigits - Len(d) |-> Zero] \o d
  BY Zenon DEF PadHex
<1> HIDE DEF d
<1>4. PICK n \in Nat : n = Len(d)
  BY <1>2, LenProperties
<1>5. n <= HexDigits
  BY <1>1, <1>2, <1>4, HexIsNoLonger
<1>6. PICK z \in Nat : z = HexDigits - n /\ z + n = HexDigits
  BY <1>1, <1>5
<1>7. \E s \in Seq(Int) : /\ s = [i \in 1 .. z |-> Zero] \o d
                          /\ z + n = Len(s)
                          /\ ValueOf(s, 16) = ValueOf(d, 16)
  <2>1. 16 \in Int
    OBVIOUS
  <2>2. d \in Seq(Int) /\ n \in Nat /\ n = Len(d) /\ z \in Nat
    BY <1>2, <1>4, <1>6
  <2>3. \E s \in Seq(Int) : /\ s = [i \in 1 .. z |-> Zero] \o d
                            /\ z + n = Len(s)
                            /\ ValueOf(s, 16) = ValueOf(d, 16)
    BY ONLY <2>1, <2>2, ZerosBefore, ZenonT(30)
  <2> QED BY <2>3
<1>8. PadHex(v) = [i \in 1 .. z |-> Zero] \o d
  BY <1>3, <1>4, <1>6
<1> QED BY <1>2, <1>6, <1>7, <1>8 DEF Writes

-----------------------------------------------------------------------------
(* Messages.                                                               *)

Conversions == {Letters.x, Letters.u, Letters.d, Letters.c, Letters.s}

LEMMA ConversionsAre ==
  /\ Conversions = {Letters[f] : f \in DOMAIN Letters}
  /\ \A ch \in Conversions : ch \in Int /\ ch # Percent /\ ch # Sharp /\ ch # Nul
<1>1. DOMAIN Letters = {"x", "u", "d", "c", "s"}
  BY DEF Letters
<1>2. /\ Letters["x"] = Letters.x /\ Letters["u"] = Letters.u
      /\ Letters["d"] = Letters.d /\ Letters["c"] = Letters.c
      /\ Letters["s"] = Letters.s
  BY DEF Letters
<1>3. /\ Letters.x = 120 /\ Letters.u = 117 /\ Letters.d = 100
      /\ Letters.c = 99 /\ Letters.s = 115
  BY DEF Letters
<1> QED BY <1>1, <1>2, <1>3 DEF Conversions, Percent, Sharp, Nul

\* The steps of printf(), one for each kind of character.
LEMMA TextStep ==
  ASSUME NEW out, NEW values, NEW ch, ch \notin {Nul, Percent}
  PROVE  PrintfStep(PrintState(out, values, "text"), ch) =
           PrintState(Append(out, ch), values, "text")
<1> DEFINE st == PrintState(out, values, "text")
<1>1. st.out = out /\ st.args = values /\ st.mode = "text"
  BY DEF PrintState
<1>2. st.mode # "done" /\ ch # Nul /\ ch # Percent
      /\ st.mode \notin {"conversion", "alternate"}
  BY <1>1
<1> HIDE DEF st
<1>3. PrintfStep(st, ch) =
        PrintState(Append(out, ch), values, "text")
  BY <1>1, <1>2, Zenon DEF PrintfStep
<1> QED BY <1>3 DEF st

LEMMA PercentStep ==
  ASSUME NEW out, NEW values
  PROVE  PrintfStep(PrintState(out, values, "text"), Percent) =
           PrintState(out, values, "conversion")
<1> DEFINE st == PrintState(out, values, "text")
<1>1. st.out = out /\ st.args = values /\ st.mode = "text"
  BY DEF PrintState
<1>2. st.mode # "done" /\ Percent # Nul
      /\ st.mode \notin {"conversion", "alternate"}
  BY <1>1 DEF Nul, Percent
<1> HIDE DEF st
<1>3. PrintfStep(st, Percent) =
        PrintState(out, values, "conversion")
  BY <1>1, <1>2, Zenon DEF PrintfStep
<1> QED BY <1>3 DEF st

LEMMA EndStep ==
  ASSUME NEW out, NEW values
  PROVE  PrintfStep(PrintState(out, values, "text"), Nul) =
           PrintState(out, values, "done")
<1> DEFINE st == PrintState(out, values, "text")
<1>1. st.out = out /\ st.args = values /\ st.mode = "text"
  BY DEF PrintState
<1>2. st.mode # "done" /\ Percent # Nul
      /\ st.mode \notin {"conversion", "alternate"}
  BY <1>1 DEF Nul, Percent
<1> HIDE DEF st
<1>3. PrintfStep(st, Nul) =
        PrintState(out, values, "done")
  BY <1>1, <1>2, Zenon DEF PrintfStep
<1> QED BY <1>3 DEF st

\* A percent sign before a character without a meaning, Nul among them.
LEMMA UnknownStep ==
  ASSUME NEW out, NEW values, NEW ch,
         ch \notin {Percent, Sharp}, ch \notin Conversions
  PROVE  PrintfStep(PrintState(out, values, "conversion"), ch) =
           PrintState(out, values, "text")
<1> DEFINE st == PrintState(out, values, "conversion")
<1>1. st.out = out /\ st.args = values /\ st.mode = "conversion"
  BY DEF PrintState
<1>2. /\ st.mode # "text" /\ st.mode # "done" /\ ch # Percent /\ ch # Sharp
      /\ ~ \E f \in DOMAIN Letters : Letters[f] = ch
  <2>1. st.mode # "text" /\ st.mode # "done" /\ ch # Percent /\ ch # Sharp
    BY <1>1
  <2>2. ~ \E f \in DOMAIN Letters : Letters[f] = ch
    BY ConversionsAre
  <2> QED BY <2>1, <2>2
<1> HIDE DEF st
<1>3. PrintfStep(st, ch) =
        PrintState(out, values, "text")
  BY <1>1, <1>2, Zenon DEF PrintfStep
<1> QED BY <1>3 DEF st

LEMMA SecondPercentStep ==
  ASSUME NEW out, NEW values
  PROVE  PrintfStep(PrintState(out, values, "conversion"), Percent) =
           PrintState(Append(out, Percent), values, "text")
<1> DEFINE st == PrintState(out, values, "conversion")
<1>1. st.out = out /\ st.args = values /\ st.mode = "conversion"
  BY DEF PrintState
<1>2. /\ st.mode # "text" /\ st.mode # "done" /\ Sharp # Percent
      /\ st.mode \in {"conversion", "alternate"}
      /\ ~ \E f \in DOMAIN Letters : Letters[f] = Percent
  <2>1. st.mode # "text" /\ st.mode # "done" /\ Sharp # Percent
        /\ st.mode \in {"conversion", "alternate"}
    BY <1>1 DEF Sharp, Percent
  <2>2. ~ \E f \in DOMAIN Letters : Letters[f] = Percent
    BY ConversionsAre
  <2> QED BY <2>1, <2>2
<1> HIDE DEF st
<1>3. PrintfStep(st, Percent) =
        PrintState(Append(out, Percent), values, "text")
  BY <1>1, <1>2, Zenon DEF PrintfStep
<1> QED BY <1>3 DEF st

LEMMA SharpStep ==
  ASSUME NEW out, NEW values
  PROVE  PrintfStep(PrintState(out, values, "conversion"), Sharp) =
           PrintState(out, values, "alternate")
<1> DEFINE st == PrintState(out, values, "conversion")
<1>1. st.out = out /\ st.args = values /\ st.mode = "conversion"
  BY DEF PrintState
<1>2. /\ st.mode # "text" /\ st.mode # "done" /\ Sharp # Percent
      /\ st.mode \in {"conversion", "alternate"}
      /\ ~ \E f \in DOMAIN Letters : Letters[f] = Sharp
  <2>1. st.mode # "text" /\ st.mode # "done" /\ Sharp # Percent
        /\ st.mode \in {"conversion", "alternate"}
    BY <1>1 DEF Sharp, Percent
  <2>2. ~ \E f \in DOMAIN Letters : Letters[f] = Sharp
    BY ConversionsAre
  <2> QED BY <2>1, <2>2
<1> HIDE DEF st
<1>3. PrintfStep(st, Sharp) =
        PrintState(out, values, "alternate")
  BY <1>1, <1>2, Zenon DEF PrintfStep
<1> QED BY <1>3 DEF st

LEMMA LetterStep ==
  ASSUME NEW out, NEW values, NEW ch \in Conversions,
         NEW mode \in {"conversion", "alternate"}
  PROVE  PrintfStep(PrintState(out, values, mode), ch) =
           PrintState(out \o Shown(ch, Head(values), mode = "alternate"),
                      Tail(values), "text")
<1> DEFINE st == PrintState(out, values, mode)
<1>1. st.out = out /\ st.args = values /\ st.mode = mode
  BY DEF PrintState
<1>2. /\ mode # "text" /\ mode # "done" /\ ch # Percent /\ ch # Sharp
      /\ \E f \in DOMAIN Letters : Letters[f] = ch
  BY <1>1, ConversionsAre DEF Sharp, Percent
<1> HIDE DEF st
<1>3. PrintfStep(st, ch) =
        PrintState(out \o Shown(ch, Head(values), mode = "alternate"),
                      Tail(values), "text")
  BY <1>1, <1>2, Zenon DEF PrintfStep
<1> QED BY <1>3 DEF st

\* A sequence of pieces: what is before the end of each, and what is behind it.
HasParts(S, n, pieces) ==
  \E F, R \in [0 .. n -> Seq(S)] :
    /\ F[0] = <<>> /\ F[n] = FlattenSeq(pieces) /\ R[n] = <<>>
    /\ \A k \in 1 .. n : F[k] = F[k - 1] \o pieces[k] /\ R[k - 1] = pieces[k] \o R[k]
    /\ \A k \in 0 .. n : F[k] \o R[k] = FlattenSeq(pieces)

LEMMA EmptyConcat ==
  ASSUME NEW S, NEW s \in Seq(S)
  PROVE  <<>> \o s = s /\ s \o <<>> = s
OBVIOUS

\* Joining one piece after the other, from the left and from the right.
JoinsForth(S, n, piece) ==
  \E f \in [0 .. n -> Seq(S)] :
    f[0] = <<>> /\ \A k \in 1 .. n : f[k] = f[k - 1] \o piece[k]

JoinsBack(S, n, piece) ==
  \E f \in [0 .. n -> Seq(S)] :
    f[n] = <<>> /\ \A k \in 1 .. n : f[k - 1] = piece[k] \o f[k]

LEMMA Joining ==
  ASSUME NEW S, NEW n \in Nat, NEW piece \in [1 .. n -> Seq(S)]
  PROVE  JoinsForth(S, n, piece)
<1> DEFINE prev == [k \in Nat \ {0} |-> k - 1]
           step == [k \in Nat \ {0} |-> [t \in Seq(S) |->
                      IF k \in 1 .. n THEN t \o piece[k] ELSE t]]
<1>1. step \in [Nat \ {0} -> [Seq(S) -> Seq(S)]]
  <2>1. ASSUME NEW k \in Nat \ {0}, NEW t \in Seq(S)
        PROVE  (IF k \in 1 .. n THEN t \o piece[k] ELSE t) \in Seq(S)
    <3>1. CASE k \in 1 .. n
      <4>1. piece[k] \in Seq(S)
        BY <3>1
      <4> QED BY <3>1, <4>1, ConcatProperties
    <3> QED BY <3>1
  <2> QED BY <2>1
<1>2. prev \in [Nat \ {0} -> Nat] /\ \A k \in Nat \ {0} : prev[k] < k
  OBVIOUS
<1>3. ASSUME NEW k \in 1 .. n, NEW t \in Seq(S)
      PROVE  step[k][t] = t \o piece[k] /\ prev[k] = k - 1
  <2>1. k \in Nat \ {0}
    OBVIOUS
  <2> QED BY <2>1
<1> HIDE DEF step, prev
<1>4. PICK h \in [Nat -> Seq(S)] :
           h[0] = <<>> /\ \A k \in Nat \ {0} : h[k] = step[k][h[prev[k]]]
  <2>1. PICK I, e : I = Seq(S) /\ e = <<>>
    OBVIOUS
  <2>2. e \in I /\ step \in [Nat \ {0} -> [I -> I]]
    BY <1>1, <2>1
  <2>3. HasFunction(I, e, prev, step)
    BY <1>2, <2>2, RecursionHasValue
  <2> QED BY <2>1, <2>3 DEF HasFunction
<1> DEFINE f == [k \in 0 .. n |-> h[k]]
<1>5. f \in [0 .. n -> Seq(S)] /\ f[0] = <<>>
  BY <1>4
<1>6. ASSUME NEW k \in 1 .. n PROVE f[k] = f[k - 1] \o piece[k]
  <2>1. k \in Nat \ {0} /\ k \in 0 .. n /\ k - 1 \in 0 .. n /\ k - 1 \in Nat
    OBVIOUS
  <2>2. f[k] = h[k] /\ f[k - 1] = h[k - 1] /\ h[k - 1] \in Seq(S)
    BY <1>4, <2>1
  <2>3. h[k] = step[k][h[k - 1]]
    BY <1>3, <1>4, <2>1, <2>2
  <2> HIDE DEF f
  <2> QED BY <1>3, <2>2, <2>3
<1> HIDE DEF f
<1> QED BY <1>5, <1>6 DEF JoinsForth

LEMMA JoiningBack ==
  ASSUME NEW S, NEW n \in Nat, NEW piece \in [1 .. n -> Seq(S)]
  PROVE  JoinsBack(S, n, piece)
<1> DEFINE prev == [k \in Nat \ {0} |-> k - 1]
           step == [k \in Nat \ {0} |-> [t \in Seq(S) |->
                      IF k \in 1 .. n THEN piece[n + 1 - k] \o t ELSE t]]
<1>1. step \in [Nat \ {0} -> [Seq(S) -> Seq(S)]]
  <2>1. ASSUME NEW k \in Nat \ {0}, NEW t \in Seq(S)
        PROVE  (IF k \in 1 .. n THEN piece[n + 1 - k] \o t ELSE t) \in Seq(S)
    <3>1. CASE k \in 1 .. n
      <4>1. piece[n + 1 - k] \in Seq(S)
        <5>1. n + 1 - k \in 1 .. n
          BY <3>1
        <5> QED BY <5>1
      <4> QED BY <3>1, <4>1, ConcatProperties
    <3> QED BY <3>1
  <2> QED BY <2>1
<1>2. prev \in [Nat \ {0} -> Nat] /\ \A k \in Nat \ {0} : prev[k] < k
  OBVIOUS
<1>3. ASSUME NEW k \in 1 .. n, NEW t \in Seq(S)
      PROVE  step[k][t] = piece[n + 1 - k] \o t /\ prev[k] = k - 1
  <2>1. k \in Nat \ {0}
    OBVIOUS
  <2> QED BY <2>1
<1> HIDE DEF step, prev
<1>4. PICK h \in [Nat -> Seq(S)] :
           h[0] = <<>> /\ \A k \in Nat \ {0} : h[k] = step[k][h[prev[k]]]
  <2>1. PICK I, e : I = Seq(S) /\ e = <<>>
    OBVIOUS
  <2>2. e \in I /\ step \in [Nat \ {0} -> [I -> I]]
    BY <1>1, <2>1
  <2>3. HasFunction(I, e, prev, step)
    BY <1>2, <2>2, RecursionHasValue
  <2> QED BY <2>1, <2>3 DEF HasFunction
<1> DEFINE f == [k \in 0 .. n |-> h[n - k]]
<1>5. f \in [0 .. n -> Seq(S)] /\ f[n] = <<>>
  <2>1. \A k \in 0 .. n : n - k \in Nat
    OBVIOUS
  <2>2. n \in 0 .. n /\ n - n = 0
    OBVIOUS
  <2> QED BY <1>4, <2>1, <2>2
<1>6. ASSUME NEW k \in 1 .. n PROVE f[k - 1] = piece[k] \o f[k]
  <2>1. PICK j \in 1 .. n : j = n + 1 - k /\ j - 1 = n - k /\ n + 1 - j = k
                            /\ j = n - (k - 1)
    <3>1. n + 1 - k \in 1 .. n /\ (n + 1 - k) - 1 = n - k
          /\ n + 1 - (n + 1 - k) = k /\ n + 1 - k = n - (k - 1)
      OBVIOUS
    <3> QED BY <3>1
  <2>2. j \in Nat \ {0} /\ k \in 0 .. n /\ k - 1 \in 0 .. n /\ j - 1 \in Nat
    OBVIOUS
  <2>3. f[k] = h[j - 1] /\ f[k - 1] = h[j] /\ h[j - 1] \in Seq(S)
    BY <1>4, <2>1, <2>2
  <2>4. h[j] = step[j][h[j - 1]]
    BY <1>3, <1>4, <2>2, <2>3
  <2> HIDE DEF f
  <2>5. h[j] = piece[n + 1 - j] \o h[j - 1]
    BY <1>3, <2>3, <2>4
  <2> QED BY <2>1, <2>3, <2>5
<1> HIDE DEF f
<1> QED BY <1>5, <1>6 DEF JoinsBack

\* FlattenSeq joins all pieces, and every piece is where the lemmas need it.
LEMMA PartsAre ==
  ASSUME NEW S, NEW n \in Nat, NEW pieces \in [1 .. n -> Seq(S)]
  PROVE  HasParts(S, n, pieces)
<1>1. PICK F \in [0 .. n -> Seq(S)] :
           /\ F[0] = <<>>
           /\ \A k \in 1 .. n : F[k] = F[k - 1] \o pieces[k]
  <2>1. JoinsForth(S, n, pieces)
    BY Joining
  <2> QED BY <2>1 DEF JoinsForth
<1>2. PICK R \in [0 .. n -> Seq(S)] :
           /\ R[n] = <<>>
           /\ \A k \in 1 .. n : R[k - 1] = pieces[k] \o R[k]
  <2>1. JoinsBack(S, n, pieces)
    BY JoiningBack
  <2> QED BY <2>1 DEF JoinsBack
<1>3. PICK m \in Nat : m = Len(pieces) /\ m = n
  <2>1. pieces \in Seq(Seq(S)) /\ n = Len(pieces)
    BY LenProperties
  <2> QED BY <2>1
<1>4. F[n] = FlattenSeq(pieces)
  <2>1. CASE n = 0
    <3>1. pieces = <<>> /\ FlattenSeq(pieces) = pieces
      <4>1. Len(pieces) = 0
        BY <1>3, <2>1
      <4>2. pieces = <<>>
        BY <2>1
      <4>3. FlattenSeq(pieces) = pieces
        BY <4>1, Zenon DEF FlattenSeq
      <4> QED BY <4>2, <4>3
    <3> QED BY <1>1, <2>1, <3>1
  <2>2. CASE n # 0
    <3> DEFINE flatten == CHOOSE f : f = [i \in 1 .. Len(pieces) |->
                  IF i = 1 THEN pieces[i] ELSE f[i - 1] \o pieces[i]]
               g == [i \in 1 .. Len(pieces) |-> F[i]]
    <3>1. FlattenSeq(pieces) = flatten[Len(pieces)]
      <4>1. Len(pieces) # 0
        BY <1>3, <2>2
      <4> QED BY <4>1, Zenon DEF FlattenSeq
    <3>2. 1 .. Len(pieces) = 1 .. n
      BY <1>3
    <3>3. F[1] = pieces[1]
      <4>1. 1 \in 1 .. n /\ 1 - 1 = 0
        BY <2>2
      <4>2. F[1] = F[1 - 1] \o pieces[1] /\ pieces[1] \in Seq(S)
        BY <1>1, <4>1
      <4>3. <<>> \o pieces[1] = pieces[1]
        BY <4>2, EmptyConcat
      <4> QED BY <1>1, <4>1, <4>2, <4>3
    <3>4. g = [i \in 1 .. Len(pieces) |->
                  IF i = 1 THEN pieces[i] ELSE g[i - 1] \o pieces[i]]
      <4>1. ASSUME NEW i \in 1 .. n
            PROVE  F[i] = IF i = 1 THEN pieces[i] ELSE g[i - 1] \o pieces[i]
        <5>1. CASE i = 1
          BY <3>3, <5>1
        <5>2. CASE i # 1
          <6>1. i - 1 \in 1 .. n
            BY <5>2
          <6>2. g[i - 1] = F[i - 1]
            BY <3>2, <6>1
          <6> HIDE DEF g
          <6> QED BY <1>1, <5>2, <6>2
        <5> QED BY <5>1, <5>2
      <4>2. \A i \in 1 .. Len(pieces) :
              g[i] = IF i = 1 THEN pieces[i] ELSE g[i - 1] \o pieces[i]
        BY <3>2, <4>1
      <4>3. g = [i \in 1 .. Len(pieces) |-> g[i]]
        OBVIOUS
      <4> HIDE DEF g
      <4> QED BY <4>2, <4>3
    <3> HIDE DEF g
    <3>5. flatten = [i \in 1 .. Len(pieces) |->
                  IF i = 1 THEN pieces[i] ELSE flatten[i - 1] \o pieces[i]]
      BY <3>4, Zenon
    <3> HIDE DEF flatten
    <3>6. ASSUME NEW k \in 1 .. n
          PROVE  flatten[k] = IF k = 1 THEN pieces[k] ELSE flatten[k - 1] \o pieces[k]
      BY <3>2, <3>5
    <3> DEFINE h == [k \in 0 .. n |-> IF k = 0 THEN <<>> ELSE flatten[k]]
    <3>7. h[0] = F[0]
      BY <1>1
    <3>8. ASSUME NEW k \in 1 .. n, h[k - 1] = F[k - 1] PROVE h[k] = F[k]
      <4>1. k \in 0 .. n /\ k - 1 \in 0 .. n /\ h[k] = flatten[k]
        OBVIOUS
      <4>2. CASE k = 1
        BY <3>3, <3>6, <4>1, <4>2
      <4>3. CASE k # 1
        <5>1. h[k - 1] = flatten[k - 1]
          BY <4>1, <4>3
        <5> HIDE DEF h
        <5> QED BY <1>1, <3>6, <3>8, <4>1, <4>3, <5>1
      <4> QED BY <4>2, <4>3
    <3>9. h[n] = flatten[n]
      BY <2>2
    <3> HIDE DEF h
    <3>10. h[n] = F[n]
      BY <3>7, <3>8, SameSteps
    <3> QED BY <1>3, <3>1, <3>9, <3>10
  <2> QED BY <2>1, <2>2
<1>5. \A k \in 0 .. n : F[k] \o R[k] = F[n]
  <2> SUFFICES ASSUME NEW k \in 0 .. n PROVE F[k] \o R[k] = F[n]
    OBVIOUS
  <2> DEFINE a == [j \in 0 .. n |-> F[n - j] \o R[n - j]]
             b == [j \in 0 .. n |-> F[n]]
  <2>1. \A j \in 0 .. n : n - j \in 0 .. n
    OBVIOUS
  <2>2. a[0] = b[0]
    <3>1. F[n] \in Seq(S) /\ n - 0 = n
      OBVIOUS
    <3>2. F[n] \o <<>> = F[n]
      BY <3>1, EmptyConcat
    <3> QED BY <1>2, <3>1, <3>2
  <2>3. PICK m0 \in 0 .. n : m0 = n - k /\ n - m0 = k
    <3>1. n - k \in 0 .. n /\ n - (n - k) = k
      OBVIOUS
    <3> QED BY <3>1
  <2>4. ASSUME NEW j \in 1 .. m0, a[j - 1] = b[j - 1] PROVE a[j] = b[j]
    <3>1. PICK l \in 1 .. n : l = n - (j - 1) /\ l - 1 = n - j
      <4>1. n - (j - 1) \in 1 .. n /\ n - (j - 1) - 1 = n - j
        OBVIOUS
      <4> QED BY <4>1
    <3>2. j \in 0 .. n /\ j - 1 \in 0 .. n /\ l - 1 \in 0 .. n /\ l \in 0 .. n
      OBVIOUS
    <3>3. a[j] = F[l - 1] \o R[l - 1] /\ a[j - 1] = F[l] \o R[l]
          /\ b[j] = F[n] /\ b[j - 1] = F[n]
      BY <3>1, <3>2
    <3> HIDE DEF a, b
    <3>4. F[l] = F[l - 1] \o pieces[l] /\ R[l - 1] = pieces[l] \o R[l]
      BY <1>1, <1>2
    <3>5. F[l - 1] \in Seq(S) /\ pieces[l] \in Seq(S) /\ R[l] \in Seq(S)
      BY <3>2
    <3>6. F[l - 1] \o (pieces[l] \o R[l]) = (F[l - 1] \o pieces[l]) \o R[l]
      <4>1. PICK x \in Seq(S), y \in Seq(S), z \in Seq(S) :
                 x = F[l - 1] /\ y = pieces[l] /\ z = R[l]
        BY <3>5
      <4>2. x \o (y \o z) = (x \o y) \o z
        <5>1. x \in Seq(S) /\ y \in Seq(S) /\ z \in Seq(S)
          OBVIOUS
        <5> QED BY ONLY <5>1, SMTT(30)
      <4> QED BY <4>1, <4>2, Zenon
    <3> QED BY <2>4, <3>3, <3>4, <3>6
  <2>5. m0 \in 0 .. n /\ a[m0] = F[k] \o R[k] /\ b[m0] = F[n]
    BY <2>3
  <2> HIDE DEF a, b
  <2>6. a[m0] = b[m0]
    <3>1. m0 \in Nat
      OBVIOUS
    <3> QED BY <2>2, <2>4, <3>1, SameSteps
  <2> QED BY <2>5, <2>6
<1> QED BY <1>1, <1>2, <1>4, <1>5 DEF HasParts

\* printf() has a state after every character.
HasRun(format, values, n) ==
  \E f : f = [k \in 0 .. n |-> IF k = 0 THEN PrintState(<<>>, values, "text")
                               ELSE PrintfStep(f[k - 1], format[k])]

LEMMA PrintfRuns ==
  ASSUME NEW format, NEW values, NEW n \in Nat
  PROVE  HasRun(format, values, n)
<1> DEFINE Is(f, m) ==
             f = [k \in 0 .. m |-> IF k = 0 THEN PrintState(<<>>, values, "text")
                                   ELSE PrintfStep(f[k - 1], format[k])]
           D == {m \in Nat : ~ \E f : Is(f, m)}
<1>1. D = {}
  <2> SUFFICES ASSUME D # {} PROVE FALSE
    OBVIOUS
  <2>1. D \subseteq Nat
    OBVIOUS
  <2>2. PICK m \in D : \A l \in D : m <= l
    <3> HIDE DEF D
    <3> QED BY <2>1, LeastNat
  <2>3. CASE m = 0
    <3> DEFINE g == [k \in 0 .. 0 |-> PrintState(<<>>, values, "text")]
    <3>1. g = [k \in 0 .. 0 |-> IF k = 0 THEN PrintState(<<>>, values, "text")
                                ELSE PrintfStep(g[k - 1], format[k])]
      <4>1. \A k \in 0 .. 0 : k = 0
        OBVIOUS
      <4> QED BY <4>1
    <3> HIDE DEF g
    <3>2. Is(g, m)
      BY <2>3, <3>1
    <3> HIDE DEF Is
    <3> QED BY <3>2
  <2>4. CASE m # 0
    <3>1. m \in Nat /\ m - 1 \in Nat /\ ~(m <= m - 1)
      BY <2>4
    <3>2. PICK f : Is(f, m - 1)
      <4> HIDE DEF Is
      <4> QED BY <2>2, <3>1
    <3> DEFINE g == [k \in 0 .. m |-> IF k = m THEN PrintfStep(f[m - 1], format[m])
                                      ELSE f[k]]
    <3>3. ASSUME NEW k \in 0 .. m
          PROVE  g[k] = IF k = 0 THEN PrintState(<<>>, values, "text")
                        ELSE PrintfStep(g[k - 1], format[k])
      <4>1. CASE k = m
        <5>1. g[k] = PrintfStep(f[m - 1], format[m]) /\ g[m - 1] = f[m - 1]
          BY <3>1, <4>1
        <5> HIDE DEF g
        <5> QED BY <2>4, <4>1, <5>1
      <4>2. CASE k # m
        <5>1. k \in 0 .. m - 1
          BY <3>1, <4>2
        <5>2. f[k] = IF k = 0 THEN PrintState(<<>>, values, "text")
                     ELSE PrintfStep(f[k - 1], format[k])
          BY <3>2, <5>1
        <5>3. g[k] = f[k]
          BY <4>2
        <5>4. k # 0 => g[k - 1] = f[k - 1]
          <6>1. k # 0 => k - 1 \in 0 .. m /\ k - 1 # m
            BY <3>1, <5>1
          <6> QED BY <6>1
        <5> HIDE DEF g
        <5> QED BY <5>2, <5>3, <5>4
      <4> QED BY <4>1, <4>2
    <3>4. Is(g, m)
      <4>1. g = [k \in 0 .. m |-> g[k]]
        OBVIOUS
      <4> HIDE DEF g
      <4> QED BY <3>3, <4>1
    <3> HIDE DEF Is, g
    <3> QED BY <3>4
  <2> QED BY <2>3, <2>4
<1>2. \E f : Is(f, n)
  <2> HIDE DEF Is
  <2> QED BY <1>1
<1> QED BY <1>2 DEF HasRun

\* A part of a message: text, the arguments it takes, and what it should print.
\* A percent sign before a character without a meaning, which the Nul at the end
\* of a string is, prints nothing.
IsPart(text, values, prints) ==
  \/ /\ \E ch \in Int \ {Nul, Percent} : text = <<ch>> /\ prints = <<ch>>
     /\ values = <<>>
  \/ text = <<Percent, Percent>> /\ values = <<>> /\ prints = <<Percent>>
  \/ /\ \E ch \in Int : ch \notin {Percent, Sharp} /\ ch \notin Conversions
                        /\ text = <<Percent, ch>>
     /\ values = <<>> /\ prints = <<>>
  \/ \E letter \in Conversions : \E value :
       /\ values = <<value>>
       /\ \/ text = <<Percent, letter>> /\ prints = Shown(letter, value, FALSE)
          \/ text = <<Percent, Sharp, letter>> /\ prints = Shown(letter, value, TRUE)

LEMMA FirstArgument ==
  ASSUME NEW S, NEW value \in S, NEW rest \in Seq(S)
  PROVE  Head(<<value>> \o rest) = value /\ Tail(<<value>> \o rest) = rest
OBVIOUS

\* The steps of printf() over a part of the message.
StepsOver(st, format, p, text, n) ==
  \A i \in 1 .. n : /\ st[p + i] = PrintfStep(st[p + i - 1], format[p + i])
                    /\ format[p + i] = text[i]

IsAt(st, p, n, out, values) == st[p + n] = PrintState(out, values, "text")

\* printf() prints a part and takes its arguments, and is back in the text.
LEMMA PartIsPrinted ==
  ASSUME NEW S, NEW st, NEW format, NEW p \in Nat, NEW out \in Seq(Int),
         NEW rest \in Seq(S), NEW text, NEW values \in Seq(S), NEW prints \in Seq(Int),
         IsPart(text, values, prints),
         NEW n \in Nat, n = Len(text), StepsOver(st, format, p, text, n),
         IsAt(st, p, 0, out, values \o rest)
  PROVE  IsAt(st, p, n, out \o prints, rest)
<1>0. st[p] = PrintState(out, values \o rest, "text")
  <2>1. p + 0 = p
    OBVIOUS
  <2> QED BY <2>1 DEF IsAt
<1>1. ASSUME n >= 1
      PROVE  st[p + 1] = PrintfStep(PrintState(out, values \o rest, "text"), text[1])
  <2>1. 1 \in 1 .. n /\ p + 1 - 1 = p
    BY <1>1
  <2> QED BY <1>0, <2>1 DEF StepsOver
<1>2. ASSUME n >= 2 PROVE st[p + 2] = PrintfStep(st[p + 1], text[2])
  <2>1. 2 \in 1 .. n /\ p + 2 - 1 = p + 1
    BY <1>2
  <2> QED BY <2>1 DEF StepsOver
<1>3. ASSUME n >= 3 PROVE st[p + 3] = PrintfStep(st[p + 2], text[3])
  <2>1. 3 \in 1 .. n /\ p + 3 - 1 = p + 2
    BY <1>3
  <2> QED BY <2>1 DEF StepsOver
<1>4. ASSUME NEW ch \in Int \ {Nul, Percent}, text = <<ch>>, prints = <<ch>>,
             values = <<>>
      PROVE  st[p + n] = PrintState(out \o prints, rest, "text")
  <2>1. n = 1 /\ text[1] = ch
    BY <1>4
  <2>2. values \o rest = rest
    BY <1>4
  <2>3. out \o prints = Append(out, ch)
    BY <1>4
  <2>4. st[p + 1] = PrintState(Append(out, ch), rest, "text")
    <3>1. ch \notin {Nul, Percent}
      BY <1>4
    <3>2. st[p + 1] = PrintfStep(PrintState(out, rest, "text"), ch)
      BY <1>1, <2>1, <2>2
    <3>3. PrintfStep(PrintState(out, rest, "text"), ch) =
            PrintState(Append(out, ch), rest, "text")
      BY <3>1, TextStep
    <3> QED BY <3>2, <3>3, Zenon
  <2> QED BY <2>1, <2>3, <2>4
<1>5. ASSUME text = <<Percent, Percent>>, values = <<>>, prints = <<Percent>>
      PROVE  st[p + n] = PrintState(out \o prints, rest, "text")
  <2>1. n = 2 /\ text[1] = Percent /\ text[2] = Percent
    BY <1>5
  <2>2. values \o rest = rest
    BY <1>5
  <2>3. out \o prints = Append(out, Percent)
    BY <1>5 DEF Percent
  <2>4. st[p + 1] = PrintfStep(PrintState(out, rest, "text"), Percent)
        /\ st[p + 2] = PrintfStep(st[p + 1], Percent)
    BY <1>1, <1>2, <2>1, <2>2
  <2>5. st[p + 2] = PrintState(Append(out, Percent), rest, "text")
    BY <2>4, PercentStep, SecondPercentStep, Zenon
  <2> QED BY <2>1, <2>3, <2>5
<1>6. ASSUME NEW letter \in Conversions, NEW value, values = <<value>>,
             text = <<Percent, letter>>, prints = Shown(letter, value, FALSE)
      PROVE  st[p + n] = PrintState(out \o prints, rest, "text")
  <2>1. n = 2 /\ text[1] = Percent /\ text[2] = letter
    BY <1>6
  <2>2. Head(values \o rest) = value /\ Tail(values \o rest) = rest
    <3>1. value \in S
      BY <1>6
    <3> QED BY <1>6, <3>1
  <2> DEFINE all == values \o rest
  <2> HIDE DEF all
  <2>3. st[p + 1] = PrintfStep(PrintState(out, all, "text"), Percent)
        /\ st[p + 2] = PrintfStep(st[p + 1], letter)
    BY <1>1, <1>2, <2>1 DEF all
  <2>4. st[p + 2] = PrintfStep(PrintState(out, all, "conversion"), letter)
    BY <2>3, PercentStep, Zenon
  <2>5. st[p + 2] = PrintState(out \o Shown(letter, Head(all), "conversion" = "alternate"),
                               Tail(all), "text")
    BY <2>4, LetterStep
  <2>6. ("conversion" = "alternate") = FALSE
    OBVIOUS
  <2>7. st[p + 2] = PrintState(out \o prints, rest, "text")
    BY <1>6, <2>2, <2>5, <2>6, Zenon DEF all
  <2> QED BY <2>1, <2>7
<1>7. ASSUME NEW letter \in Conversions, NEW value, values = <<value>>,
             text = <<Percent, Sharp, letter>>, prints = Shown(letter, value, TRUE)
      PROVE  st[p + n] = PrintState(out \o prints, rest, "text")
  <2>1. n = 3 /\ text[1] = Percent /\ text[2] = Sharp /\ text[3] = letter
    BY <1>7
  <2>2. Head(values \o rest) = value /\ Tail(values \o rest) = rest
    <3>1. value \in S
      BY <1>7
    <3> QED BY <1>7, <3>1
  <2> DEFINE all == values \o rest
  <2> HIDE DEF all
  <2>3. st[p + 1] = PrintfStep(PrintState(out, all, "text"), Percent)
        /\ st[p + 2] = PrintfStep(st[p + 1], Sharp)
        /\ st[p + 3] = PrintfStep(st[p + 2], letter)
    BY <1>1, <1>2, <1>3, <2>1 DEF all
  <2>4. st[p + 3] = PrintfStep(PrintState(out, all, "alternate"), letter)
    <3>1. st[p + 1] = PrintState(out, all, "conversion")
      BY <2>3, PercentStep, Zenon
    <3>2. st[p + 2] = PrintState(out, all, "alternate")
      BY <2>3, <3>1, SharpStep, Zenon
    <3> QED BY <2>3, <3>2, Zenon
  <2>5. st[p + 3] = PrintState(out \o Shown(letter, Head(all), "alternate" = "alternate"),
                               Tail(all), "text")
    BY <2>4, LetterStep
  <2>6. ("alternate" = "alternate") = TRUE
    OBVIOUS
  <2>7. st[p + 3] = PrintState(out \o prints, rest, "text")
    BY <1>7, <2>2, <2>5, <2>6, Zenon DEF all
  <2> QED BY <2>1, <2>7
<1>8. ASSUME NEW ch \in Int, ch \notin {Percent, Sharp}, ch \notin Conversions,
             text = <<Percent, ch>>, prints = <<>>, values = <<>>
      PROVE  st[p + n] = PrintState(out \o prints, rest, "text")
  <2>1. n = 2 /\ text[1] = Percent /\ text[2] = ch
    BY <1>8
  <2>2. values \o rest = rest
    BY <1>8
  <2>3. out \o prints = out
    BY <1>8
  <2>4. st[p + 1] = PrintfStep(PrintState(out, rest, "text"), Percent)
        /\ st[p + 2] = PrintfStep(st[p + 1], ch)
    BY <1>1, <1>2, <2>1, <2>2
  <2>5. st[p + 2] = PrintState(out, rest, "text")
    BY <1>8, <2>4, PercentStep, UnknownStep, Zenon
  <2> QED BY <2>1, <2>3, <2>5
<1> QED BY <1>4, <1>5, <1>6, <1>7, <1>8 DEF IsPart, IsAt

\* A message of n parts.
IsMessage(S, n, text, values, prints) ==
  /\ n \in Nat
  /\ text \in [1 .. n -> Seq(Int)]
  /\ values \in [1 .. n -> Seq(S)] /\ prints \in [1 .. n -> Seq(Int)]
  /\ \A k \in 1 .. n : IsPart(text[k], values[k], prints[k])

\* printf() prints a message of any number of parts as its format says: the
\* text, and every argument in the place of its conversion.  Only a Nul in the
\* text ends it, so that a part that is a percent sign at the end of a string is
\* followed by what is behind the string: lib.c, lines 55 to 164.
THEOREM MessagesArePrinted ==
  ASSUME NEW S, NEW n, NEW text, NEW values, NEW prints,
         IsMessage(S, n, text, values, prints)
  PROVE  Printf(FlattenSeq(text) \o <<Nul>>, FlattenSeq(values)) = FlattenSeq(prints)
<1>0. /\ n \in Nat
      /\ text \in [1 .. n -> Seq(Int)]
      /\ values \in [1 .. n -> Seq(S)] /\ prints \in [1 .. n -> Seq(Int)]
      /\ \A k \in 1 .. n : IsPart(text[k], values[k], prints[k])
  BY DEF IsMessage
<1> USE <1>0
<1> DEFINE Ch == Int
           format == FlattenSeq(text) \o <<Nul>>
           given_values == FlattenSeq(values)
           st == CHOOSE f : f = [k \in 0 .. Len(format) |->
                   IF k = 0 THEN PrintState(<<>>, given_values, "text")
                   ELSE PrintfStep(f[k - 1], format[k])]
<1>1. PICK FT, RT \in [0 .. n -> Seq(Ch)] :
        /\ FT[0] = <<>> /\ FT[n] = FlattenSeq(text) /\ RT[n] = <<>>
        /\ \A k \in 1 .. n : FT[k] = FT[k - 1] \o text[k] /\ RT[k - 1] = text[k] \o RT[k]
        /\ \A k \in 0 .. n : FT[k] \o RT[k] = FlattenSeq(text)
  <2>1. HasParts(Ch, n, text)
    BY PartsAre
  <2> HIDE DEF Ch
  <2> QED BY <2>1 DEF HasParts
<1>2. PICK RV \in [0 .. n -> Seq(S)] :
        /\ RV[0] = given_values /\ RV[n] = <<>>
        /\ \A k \in 1 .. n : RV[k - 1] = values[k] \o RV[k]
  <2>1. HasParts(S, n, values)
    BY PartsAre
  <2>2. PICK F, R \in [0 .. n -> Seq(S)] :
          /\ F[0] = <<>> /\ R[n] = <<>>
          /\ \A k \in 1 .. n : R[k - 1] = values[k] \o R[k]
          /\ \A k \in 0 .. n : F[k] \o R[k] = given_values
    BY <2>1 DEF HasParts
  <2>3. R[0] = given_values
    <3>0. 0 \in 0 .. n
      OBVIOUS
    <3>1. R[0] \in Seq(S) /\ F[0] \o R[0] = given_values
      BY <2>2, <3>0
    <3>2. <<>> \o R[0] = R[0]
      BY <3>1, EmptyConcat
    <3> QED BY <2>2, <3>1, <3>2
  <2> QED BY <2>2, <2>3
<1>3. PICK FP \in [0 .. n -> Seq(Int)] :
        /\ FP[0] = <<>> /\ FP[n] = FlattenSeq(prints)
        /\ \A k \in 1 .. n : FP[k] = FP[k - 1] \o prints[k]
  <2>1. HasParts(Int, n, prints)
    BY PartsAre
  <2> QED BY <2>1 DEF HasParts
<1>4. PICK m \in Nat : m = Len(FT[n])
  <2>1. FT[n] \in Seq(Ch)
    OBVIOUS
  <2> QED BY <2>1, LenProperties
<1>5. Len(format) = m + 1 /\ format[m + 1] = Nul
  <2>1. FT[n] \in Seq(Int) /\ <<Nul>> \in Seq(Int)
    BY DEF Nul
  <2>2. PICK one \in Nat : one = 1 /\ one = Len(<<Nul>>)
    OBVIOUS
  <2>3. Len(FT[n] \o <<Nul>>) = m + one
        /\ \A i \in 1 .. one : (FT[n] \o <<Nul>>)[m + i] = <<Nul>>[i]
    <3>1. m \in Nat /\ m = Len(FT[n]) /\ one \in Nat /\ one = Len(<<Nul>>)
      BY <1>4, <2>2
    <3> QED BY ONLY <2>1, <3>1, Joined
  <2>4. format = FT[n] \o <<Nul>>
    BY <1>1
  <2>5. 1 \in 1 .. one /\ <<Nul>>[1] = Nul
    BY <2>2
  <2> HIDE DEF format
  <2> QED BY <2>2, <2>3, <2>4, <2>5
<1>6. /\ Printf(format, given_values) = st[m + 1].out
      /\ st[0] = PrintState(<<>>, given_values, "text")
      /\ \A k \in 1 .. m + 1 : st[k] = PrintfStep(st[k - 1], format[k])
  <2>1. st = [k \in 0 .. Len(format) |->
                IF k = 0 THEN PrintState(<<>>, given_values, "text")
                ELSE PrintfStep(st[k - 1], format[k])]
    <3>1. Len(format) \in Nat
      <4>1. m + 1 \in Nat
        OBVIOUS
      <4> HIDE DEF format
      <4> QED BY <1>5, <4>1
    <3> HIDE DEF format, given_values
    <3>2. \E f : f = [k \in 0 .. Len(format) |->
                       IF k = 0 THEN PrintState(<<>>, given_values, "text")
                       ELSE PrintfStep(f[k - 1], format[k])]
      <4>1. HasRun(format, given_values, Len(format))
        BY <3>1, PrintfRuns
      <4> QED BY <4>1 DEF HasRun
    <3> QED BY <3>2, Zenon
  <2>2. Printf(format, given_values) = st[Len(format)].out
    BY Zenon DEF Printf
  <2> HIDE DEF st, format, given_values
  <2>3. \A k \in 0 .. m + 1 :
          st[k] = IF k = 0 THEN PrintState(<<>>, given_values, "text")
                  ELSE PrintfStep(st[k - 1], format[k])
    BY <1>5, <2>1
  <2>4. 0 \in 0 .. m + 1 /\ \A k \in 1 .. m + 1 : k \in 0 .. m + 1 /\ k # 0
    OBVIOUS
  <2>5. Printf(format, given_values) = st[m + 1].out
    BY <1>5, <2>2
  <2> QED BY <2>3, <2>4, <2>5, Zenon
<1> HIDE DEF st
<1> DEFINE Done(k) == st[Len(FT[k])] = PrintState(FP[k], RV[k], "text")
<1>7. Done(0)
  <2>1. Len(FT[0]) = 0
    BY <1>1
  <2> QED BY <1>2, <1>3, <1>6, <2>1
<1>8. ASSUME NEW k \in 1 .. n, Done(k - 1) PROVE Done(k)
  <2>1. k - 1 \in 0 .. n /\ k \in 0 .. n
    OBVIOUS
  <2>2. /\ FT[k - 1] \in Seq(Ch) /\ text[k] \in Seq(Ch) /\ RT[k] \in Seq(Ch)
        /\ RV[k] \in Seq(S) /\ values[k] \in Seq(S)
        /\ FP[k - 1] \in Seq(Int) /\ prints[k] \in Seq(Int)
        /\ FT[k - 1] \in Seq(Int) /\ text[k] \in Seq(Int)
        /\ FT[k] \in Seq(Int) /\ RT[k] \in Seq(Int)
    <3>1. \A t \in Seq(Ch) : t \in Seq(Int)
      BY SeqMonotonic
    <3>2. /\ FT[k - 1] \in Seq(Ch) /\ text[k] \in Seq(Ch)
          /\ FT[k] \in Seq(Ch) /\ RT[k] \in Seq(Ch)
      BY <2>1
    <3> HIDE DEF Ch
    <3> QED BY <2>1, <3>1, <3>2
  <2>3. PICK p, q, r \in Nat : p = Len(FT[k - 1]) /\ q = Len(text[k]) /\ r = Len(RT[k])
    BY <2>2, LenProperties
  <2>4. Len(FT[k]) = p + q
    <3>1. Len(FT[k - 1] \o text[k]) = p + q
      BY <2>2, <2>3, Joined
    <3> QED BY <1>1, <3>1
  <2>5. p + q <= m /\ \A i \in 1 .. q : FT[n][p + i] = text[k][i]
    <3>1. FT[n] = FT[k] \o RT[k] /\ FT[k] = FT[k - 1] \o text[k] /\ FT[k] \in Seq(Ch)
      BY <1>1, <2>1
    <3>2. Len(FT[n]) = p + q + r /\ \A i \in 1 .. p + q : FT[n][i] = FT[k][i]
      <4>1. PICK l \in Nat : l = p + q /\ l = Len(FT[k])
        BY <2>4
      <4>2. Len(FT[k] \o RT[k]) = l + r
            /\ \A i \in 1 .. l : (FT[k] \o RT[k])[i] = FT[k][i]
        <5>1. l \in Nat /\ l = Len(FT[k])
          BY <4>1
        <5>2. r \in Nat /\ r = Len(RT[k])
          BY <2>3
        <5> QED BY <2>2, <5>1, <5>2, Joined
      <4>3. Len(FT[k] \o RT[k]) = p + q + r
            /\ \A i \in 1 .. p + q : (FT[k] \o RT[k])[i] = FT[k][i]
        BY <4>1, <4>2
      <4> QED BY <3>1, <4>3
    <3>3. \A i \in 1 .. q : FT[k][p + i] = text[k][i]
      <4>1. \A i \in 1 .. q : (FT[k - 1] \o text[k])[p + i] = text[k][i]
        BY <2>2, <2>3, Joined
      <4> QED BY <3>1, <4>1
    <3>4. \A i \in 1 .. q : p + i \in 1 .. p + q
      OBVIOUS
    <3>5. m = p + q + r
      BY <1>4, <3>2
    <3>6. p + q <= m
      BY <3>5
    <3> QED BY <3>2, <3>3, <3>4, <3>6
  <2>6. \A i \in 1 .. m : format[i] = FT[n][i]
    <3>1. FT[n] \in Seq(Ch) /\ <<Nul>> \in Seq(Int) /\ FT[n] \in Seq(Int)
      <4>1. FT[n] \in Seq(Ch)
        OBVIOUS
      <4> QED BY <4>1, SeqMonotonic DEF Nul
    <3>2. format = FT[n] \o <<Nul>>
      BY <1>1
    <3>3. PICK one \in Nat : one = Len(<<Nul>>)
      BY <3>1, LenProperties
    <3>4. \A i \in 1 .. m : (FT[n] \o <<Nul>>)[i] = FT[n][i]
      <4>1. m \in Nat /\ m = Len(FT[n])
        BY <1>4
      <4> QED BY <3>1, <3>3, <4>1, Joined
    <3> HIDE DEF format
    <3> QED BY <3>2, <3>4
  <2>7. \A i \in 1 .. q : p + i \in 1 .. m /\ p + i \in Nat
    <3>1. p \in Nat /\ q \in Nat /\ m \in Nat /\ p + q <= m
      BY <2>5
    <3> QED BY ONLY <3>1
  <2>8. st[p] = PrintState(FP[k - 1], values[k] \o RV[k], "text")
    BY <1>2, <1>8, <2>3
  <2> HIDE DEF format, Done
  <2>9. /\ \A i \in 1 .. q : st[p + i] = PrintfStep(st[p + i - 1], format[p + i])
        /\ \A i \in 1 .. q : format[p + i] = text[k][i]
    <3>1. ASSUME NEW i \in 1 .. q
          PROVE  /\ st[p + i] = PrintfStep(st[p + i - 1], format[p + i])
                 /\ format[p + i] = text[k][i]
      <4>1. p + i \in 1 .. m /\ FT[n][p + i] = text[k][i]
        BY <2>5, <2>7
      <4>2. st[p + i] = PrintfStep(st[p + i - 1], format[p + i])
        <5>1. \A j \in 1 .. m + 1 : st[j] = PrintfStep(st[j - 1], format[j])
          BY <1>6
        <5>2. p + i \in 1 .. m + 1
          BY <4>1
        <5> QED BY ONLY <5>1, <5>2
      <4>3. format[p + i] = FT[n][p + i]
        BY <2>6, <4>1, Zenon
      <4> QED BY <4>1, <4>2, <4>3, Zenon
    <3> QED BY <3>1, Zenon
  <2>10. st[p + q] = PrintState(FP[k - 1] \o prints[k], RV[k], "text")
    <3>1. PICK t : t = text[k]
      OBVIOUS
    <3>2. PICK v \in Seq(S), rest \in Seq(S), out \in Seq(Int), pr \in Seq(Int) :
               v = values[k] /\ rest = RV[k] /\ out = FP[k - 1] /\ pr = prints[k]
      BY <2>2
    <3>3. /\ IsPart(t, v, pr) /\ q = Len(t)
          /\ StepsOver(st, format, p, t, q)
          /\ IsAt(st, p, 0, out, v \o rest)
      <4>1. StepsOver(st, format, p, t, q)
        BY <2>9, <3>1 DEF StepsOver
      <4>2. p + 0 = p
        OBVIOUS
      <4> QED BY <2>3, <2>8, <3>1, <3>2, <4>1, <4>2 DEF IsAt
    <3>4. st[p + q] = PrintState(out \o pr, rest, "text")
      <4>1. /\ v \in Seq(S) /\ rest \in Seq(S) /\ out \in Seq(Int) /\ pr \in Seq(Int)
            /\ p \in Nat /\ q \in Nat
        BY <3>2
      <4>2. IsAt(st, p, q, out \o pr, rest)
        BY ONLY <3>3, <4>1, PartIsPrinted
      <4> QED BY <4>2 DEF IsAt
    <3> QED BY <3>2, <3>4, Zenon
  <2> QED BY <1>3, <2>4, <2>10 DEF Done
<1>9. Done(n)
  <2> DEFINE a == [k \in 0 .. n |-> Done(k)]
             b == [k \in 0 .. n |-> TRUE]
  <2>1. a[0] = b[0]
    <3>1. Done(0) = TRUE
      BY <1>7
    <3>2. 0 \in 0 .. n
      OBVIOUS
    <3> HIDE DEF Done
    <3> QED BY <3>1, <3>2
  <2>2. ASSUME NEW k \in 1 .. n, a[k - 1] = b[k - 1] PROVE a[k] = b[k]
    <3> HIDE DEF Done
    <3>1. k \in 0 .. n /\ k - 1 \in 0 .. n
      OBVIOUS
    <3>2. Done(k - 1)
      BY <2>2, <3>1
    <3>3. Done(k)
      BY <1>8, <3>2
    <3>4. Done(k) = TRUE
      BY <3>3 DEF Done
    <3> QED BY <3>1, <3>4
  <2>3. n \in 0 .. n
    OBVIOUS
  <2> HIDE DEF Done
  <2>4. b[n] = TRUE /\ a[n] = Done(n)
    BY <2>3
  <2> HIDE DEF a, b
  <2>5. a[n] = b[n]
    BY <2>1, <2>2, SameSteps
  <2> QED BY <2>4, <2>5
<1>10. st[m + 1].out = FP[n]
  <2>1. st[m] = PrintState(FP[n], RV[n], "text")
    BY <1>4, <1>9
  <2>2. m + 1 \in 1 .. m + 1 /\ m + 1 - 1 = m
    OBVIOUS
  <2>3. st[m + 1] = PrintfStep(st[m], Nul)
    <3> HIDE DEF format
    <3> QED BY <1>5, <1>6, <2>2
  <2>4. st[m + 1] = PrintState(FP[n], RV[n], "done")
    BY <2>1, <2>3, EndStep, Zenon
  <2> QED BY <2>4 DEF PrintState
<1> QED BY <1>3, <1>6, <1>10

\* What the conversions print.
LEMMA ShownIs ==
  ASSUME NEW value
  PROVE  /\ Shown(Letters.c, value, FALSE) = <<value % 256>>
         /\ Shown(Letters.s, value, FALSE) = CString(value)
         /\ Shown(Letters.u, value, FALSE) = CString(Itoa(value, 10))
         /\ Shown(Letters.d, value, FALSE) = Signed(value)
         /\ Shown(Letters.x, value, FALSE) = CString(Itoa(value, 16))
         /\ Shown(Letters.x, value, TRUE) = PadHex(value)
<1> DEFINE x == Letters.x
           u == Letters.u
           d == Letters.d
           c == Letters.c
           s == Letters.s
<1>1. /\ x # u /\ x # d /\ x # c /\ x # s /\ u # d /\ u # c /\ u # s
      /\ d # c /\ d # s /\ c # s
  BY DEF Letters
<1>2. ASSUME NEW letter, NEW alternate
      PROVE  Shown(letter, value, alternate) =
               CASE letter = x -> IF alternate THEN PadHex(value)
                                  ELSE CString(Itoa(value, 16))
                 [] letter = u -> CString(Itoa(value, 10))
                 [] letter = d -> Signed(value)
                 [] letter = c -> <<value % 256>>
                 [] letter = s -> CString(value)
  BY Zenon DEF Shown
<1> HIDE DEF x, u, d, c, s
<1>3. Shown(c, value, FALSE) = <<value % 256>>
  BY <1>1, <1>2, Zenon
<1>4. Shown(s, value, FALSE) = CString(value)
  BY <1>1, <1>2, Zenon
<1>5. Shown(u, value, FALSE) = CString(Itoa(value, 10))
  BY <1>1, <1>2, Zenon
<1>6. Shown(x, value, TRUE) = PadHex(value)
  BY <1>1, <1>2, Zenon
<1>7. Shown(d, value, FALSE) = Signed(value)
  BY <1>1, <1>2, Zenon
<1>8. Shown(x, value, FALSE) = CString(Itoa(value, 16))
  BY <1>1, <1>2, Zenon
<1> QED BY <1>3, <1>4, <1>5, <1>6, <1>7, <1>8 DEF x, u, d, c, s

LEMMA PadHexIsString ==
  ASSUME NEW v \in Nat
  PROVE  PadHex(v) \in Seq(Int)
<1> DEFINE d == CString(Itoa(v, 16))
<1>1. d \in Seq(Int)
  BY ItoaWrites DEF Radices
<1>2. PadHex(v) = [i \in 1 .. HexDigits - Len(d) |-> Zero] \o d
  BY Zenon DEF PadHex
<1> HIDE DEF d
<1>3. PICK m \in Int : m = HexDigits - Len(d)
  <2>1. PICK l \in Nat : l = Len(d)
    BY <1>1, LenProperties
  <2>2. HexDigits - l \in Int
    BY LibraryAssumption
  <2> QED BY <2>1, <2>2
<1>4. [i \in 1 .. m |-> Zero] \in Seq(Int)
  <2>1. CASE m \in Nat
    <3>1. [i \in 1 .. m |-> Zero] \in [1 .. m -> Int]
      BY DEF Zero
    <3> QED BY <2>1, <3>1
  <2>2. CASE m \notin Nat
    <3>1. 1 .. m = 1 .. 0
      BY <2>2
    <3>2. [i \in 1 .. 0 |-> Zero] \in [1 .. 0 -> Int]
      BY DEF Zero
    <3>3. [i \in 1 .. 0 |-> Zero] \in Seq(Int)
      BY <3>2
    <3> QED BY <3>1, <3>3
  <2> QED BY <2>1, <2>2
<1> QED BY <1>1, <1>2, <1>3, <1>4, ConcatProperties

-----------------------------------------------------------------------------
(* Blocks of memory.                                                         *)

\* memmove() copies a block as if all of it were read first, however source and
\* destination overlap: lib.c, lines 457 to 477.
THEOREM MovesAreRight ==
  ASSUME NEW A \in SUBSET Int, NEW Byte, NEW mem \in [A -> Byte],
         NEW dest \in Nat, NEW src \in Nat, NEW n \in Nat,
         src .. src + n - 1 \subseteq A
  PROVE  MemMove(mem, dest, src, n) = BlockMoved(mem, dest, src, n)
<1> DEFINE place(k) == IF src >= dest THEN k - 1 ELSE n - k
           low(k) == IF src >= dest THEN dest ELSE dest + n - k
           F(k) == [i \in A |-> IF i \in low(k) .. low(k) + k - 1
                                THEN mem[src + (i - dest)] ELSE mem[i]]
           Step(m, k) == Moved(m, dest + place(k), src + place(k), 1)
           g == [k \in 0 .. n |-> F(k)]
           moved == CHOOSE f : f = [k \in 0 .. n |-> IF k = 0 THEN mem
                                                     ELSE Step(f[k - 1], k)]
<1>1. MemMove(mem, dest, src, n) = moved[n]
  BY Zenon DEF MemMove
<1>2. F(0) = mem
  BY Z3
<1>3. ASSUME NEW k \in 1 .. n PROVE F(k) = Step(F(k - 1), k)
  <2>1. DOMAIN F(k - 1) = A
    OBVIOUS
  <2>2. ASSUME NEW i \in A
        PROVE  F(k)[i] = IF i \in dest + place(k) .. dest + place(k) + 1 - 1
                         THEN F(k - 1)[src + place(k) + (i - (dest + place(k)))]
                         ELSE F(k - 1)[i]
    <3>1. CASE i = dest + place(k)
      <4>1. F(k)[i] = mem[src + (i - dest)]
        BY <3>1
      <4>2. src + (i - dest) = src + place(k) /\ src + place(k) \in A
            /\ src + place(k) + (i - (dest + place(k))) = src + place(k)
        BY <3>1
      <4>3. F(k - 1)[src + place(k)] = mem[src + place(k)]
        <5>1. src + place(k) \notin low(k - 1) .. low(k - 1) + (k - 1) - 1
          OBVIOUS
        <5> QED BY <4>2, <5>1
      <4> QED BY <3>1, <4>1, <4>2, <4>3
    <3>2. CASE i # dest + place(k)
      <4>1. i \in low(k) .. low(k) + k - 1
              <=> i \in low(k - 1) .. low(k - 1) + (k - 1) - 1
        BY <3>2
      <4>2. i \notin dest + place(k) .. dest + place(k) + 1 - 1
        BY <3>2
      <4> QED BY <4>1, <4>2
    <3> QED BY <3>1, <3>2
  <2> QED BY <2>1, <2>2 DEF Moved
<1> HIDE DEF F, Step
<1>4. g = [k \in 0 .. n |-> IF k = 0 THEN mem ELSE Step(g[k - 1], k)]
  <2>1. \A k \in 0 .. n : g[k] = F(k)
    OBVIOUS
  <2>2. ASSUME NEW k \in 0 .. n
        PROVE  F(k) = IF k = 0 THEN mem ELSE Step(g[k - 1], k)
    BY <1>2, <1>3, <2>1
  <2> QED BY <2>2
<1> HIDE DEF g
<1>5. moved = [k \in 0 .. n |-> IF k = 0 THEN mem ELSE Step(moved[k - 1], k)]
  BY <1>4, Zenon
<1> HIDE DEF moved
<1>6. moved[0] = g[0]
      /\ \A k \in 1 .. n : moved[k - 1] = g[k - 1] => moved[k] = g[k]
  BY <1>4, <1>5
<1>7. moved[n] = g[n]
  BY <1>6, SameSteps
<1>8. g[n] = F(n) /\ low(n) = dest
  BY DEF g
<1>9. F(n) = BlockMoved(mem, dest, src, n)
  BY <1>8 DEF F, BlockMoved, Moved
<1> QED BY <1>1, <1>7, <1>8, <1>9

\* The pieces of a block of n bytes fill it: at[k] bytes are done after k of
\* them.
LEMMA PiecesFill ==
  ASSUME NEW dest \in Nat, NEW n \in Nat
  PROVE  \E K \in Nat : \E at \in [0 .. K -> 0 .. n] :
           /\ K = Len(Pieces(dest, n)) /\ at[0] = 0 /\ at[K] = n
           /\ \A k \in 1 .. K : /\ Pieces(dest, n)[k] \in Nat
                              /\ at[k] = at[k - 1] + Pieces(dest, n)[k]
<1> DEFINE x == (4 - (dest % 4)) % 4
           head == Min({n, x})
           rest == n - head
<1>1. x \in Nat
  OBVIOUS
<1>2. \E m \in {n, x} : \A y \in {n, x} : m <= y
  BY <1>1
<1>3. head \in {n, x} /\ head <= n
  <2> HIDE DEF x
  <2>1. head = CHOOSE m \in {n, x} : \A y \in {n, x} : m <= y
    BY Zenon DEF Min
  <2> HIDE DEF head
  <2> QED BY <1>2, <2>1
<1>4. PICK h \in 0 .. n : h = head
  BY <1>1, <1>3
<1>5. PICK q, r \in Nat : q = rest \div 4 /\ r = rest % 4 /\ h + 4 * q + r = n
  <2>1. rest = n - h
    BY <1>4
  <2> HIDE DEF head, rest
  <2>2. rest \in Nat
    BY <2>1
  <2>3. rest \div 4 \in Nat /\ rest % 4 \in Nat
        /\ rest = 4 * (rest \div 4) + (rest % 4)
    BY <2>2
  <2> QED BY <2>1, <2>3
<1> DEFINE p == [i \in 1 .. h + q + r |-> IF i \in h + 1 .. h + q THEN 4 ELSE 1]
<1>6. Pieces(dest, n) = p
  <2>1. Pieces(dest, n) =
          [i \in 1 .. head + rest \div 4 + (rest % 4) |->
             IF i \in head + 1 .. head + rest \div 4 THEN 4 ELSE 1]
    BY Zenon DEF Pieces
  <2> HIDE DEF head, rest, x
  <2> QED BY <1>4, <1>5, <2>1
<1>7. PICK K \in Nat : K = h + q + r
  OBVIOUS
<1>8. K = Len(p)
  <2>1. p \in Seq(Nat)
    BY <1>7
  <2>2. DOMAIN p = 1 .. K
    BY <1>7
  <2> HIDE DEF p
  <2> QED BY <2>1, <2>2, LenProperties
<1> DEFINE done(k) == IF k <= h THEN k
                      ELSE IF k <= h + q THEN h + 4 * (k - h)
                      ELSE h + 4 * q + (k - h - q)
           at == [k \in 0 .. K |-> done(k)]
<1>9. at \in [0 .. K -> 0 .. n]
  BY <1>5, <1>7
<1>10. at[0] = 0 /\ at[K] = n
  <2>1. done(0) = 0 /\ done(K) = n
    BY <1>5, <1>7
  <2> HIDE DEF done
  <2> QED BY <2>1
<1>11. \A k \in 1 .. K : p[k] \in Nat /\ at[k] = at[k - 1] + p[k]
  BY <1>7
<1> HIDE DEF at, p
<1> QED BY <1>6, <1>8, <1>9, <1>10, <1>11

\* memset() writes the low byte of c to the n bytes of a block, and to no
\* other: lib.c, lines 304 to 340.
THEOREM SetsAreRight ==
  ASSUME NEW A \in SUBSET Int, NEW Byte, NEW mem \in [A -> Byte],
         NEW dest \in Nat, NEW c \in Int, NEW n \in Nat
  PROVE  MemSet(mem, dest, c, n) =
           [i \in A |-> IF i \in dest .. dest + n - 1 THEN c % 256 ELSE mem[i]]
<1> DEFINE pieces == Pieces(dest, n)
<1>0. PICK K \in Nat : \E at \in [0 .. K -> 0 .. n] :
           /\ K = Len(pieces) /\ at[0] = 0 /\ at[K] = n
           /\ \A k \in 1 .. K : pieces[k] \in Nat /\ at[k] = at[k - 1] + pieces[k]
  BY PiecesFill
<1>1. PICK at \in [0 .. K -> 0 .. n] :
           /\ K = Len(pieces) /\ at[0] = 0 /\ at[K] = n
           /\ \A k \in 1 .. K : pieces[k] \in Nat /\ at[k] = at[k - 1] + pieces[k]
  BY <1>0
<1> DEFINE byte == c % 256
           Filled(m) ==
             [i \in A |-> IF i \in dest .. dest + m - 1 THEN byte ELSE mem[i]]
           Step(st, k) ==
             [mem |-> [i \in DOMAIN mem |->
                         IF i \in st.at .. st.at + pieces[k] - 1 THEN byte
                         ELSE st.mem[i]],
              at  |-> st.at + pieces[k]]
           G(k) == [mem |-> Filled(at[k]), at |-> dest + at[k]]
           g == [k \in 0 .. K |-> G(k)]
           written == CHOOSE f : f = [k \in 0 .. Len(pieces) |->
             IF k = 0 THEN [mem |-> mem, at |-> dest] ELSE Step(f[k - 1], k)]
<1>2. MemSet(mem, dest, c, n) = written[Len(pieces)].mem
  BY Zenon DEF MemSet
<1> HIDE DEF pieces, byte
<1>3. G(0) = [mem |-> mem, at |-> dest]
  <2>1. Filled(0) = mem /\ dest + 0 = dest
    BY Z3
  <2> HIDE DEF Filled
  <2> QED BY <1>1, <2>1
<1>4. ASSUME NEW k \in 1 .. K PROVE G(k) = Step(G(k - 1), k)
  <2>1. PICK u \in 0 .. n, v \in 0 .. n, w \in Nat :
             u = at[k - 1] /\ v = at[k] /\ w = pieces[k] /\ v = u + w
    <3>1. k \in 0 .. K /\ k - 1 \in 0 .. K
      OBVIOUS
    <3>2. at[k] \in 0 .. n /\ at[k - 1] \in 0 .. n
      BY <3>1
    <3> QED BY <1>1, <3>2, Zenon
  <2>2. u \in Nat /\ v \in Nat /\ w \in Nat /\ v = u + w
    BY <2>1
  <2>3. ASSUME NEW i \in A
        PROVE  Filled(v)[i] = IF i \in dest + u .. dest + u + w - 1 THEN byte
                              ELSE Filled(u)[i]
    <3>1. i \in dest .. dest + v - 1
            <=> i \in dest .. dest + u - 1 \/ i \in dest + u .. dest + u + w - 1
      BY <2>2
    <3> QED BY <3>1
  <2>4. DOMAIN mem = A
    OBVIOUS
  <2>5. Filled(v) = [i \in DOMAIN mem |->
                       IF i \in dest + u .. dest + u + w - 1 THEN byte
                       ELSE Filled(u)[i]]
    BY <2>3, <2>4
  <2>6. dest + v = dest + u + w
    BY <2>2
  <2> HIDE DEF Filled
  <2> QED BY <2>1, <2>5, <2>6
<1> HIDE DEF G, Step
<1>5. g = [k \in 0 .. Len(pieces) |->
             IF k = 0 THEN [mem |-> mem, at |-> dest] ELSE Step(g[k - 1], k)]
  <2>1. \A k \in 0 .. K : g[k] = G(k)
    OBVIOUS
  <2>2. ASSUME NEW k \in 0 .. K
        PROVE  G(k) = IF k = 0 THEN [mem |-> mem, at |-> dest]
                      ELSE Step(g[k - 1], k)
    BY <1>3, <1>4, <2>1
  <2> QED BY <1>1, <2>2
<1> HIDE DEF g
<1>6. written = [k \in 0 .. Len(pieces) |->
        IF k = 0 THEN [mem |-> mem, at |-> dest] ELSE Step(written[k - 1], k)]
  BY <1>5, Zenon
<1> HIDE DEF written
<1>7. written[0] = g[0]
      /\ \A k \in 1 .. K : written[k - 1] = g[k - 1] => written[k] = g[k]
  <2>1. 0 .. K = 0 .. Len(pieces)
    BY <1>1
  <2>2. \A k \in 0 .. K : written[k] =
          IF k = 0 THEN [mem |-> mem, at |-> dest] ELSE Step(written[k - 1], k)
    BY <1>6, <2>1, Zenon
  <2>3. \A k \in 0 .. K : g[k] =
          IF k = 0 THEN [mem |-> mem, at |-> dest] ELSE Step(g[k - 1], k)
    BY <1>5, <2>1, Zenon
  <2>4. 0 \in 0 .. K /\ \A k \in 1 .. K : k \in 0 .. K /\ k # 0
    OBVIOUS
  <2> QED BY <2>2, <2>3, <2>4, Zenon
<1>8. written[K] = g[K]
  BY <1>7, SameSteps
<1>9. g[K].mem = Filled(n)
  <2>1. K \in 0 .. K
    OBVIOUS
  <2> HIDE DEF Filled
  <2> QED BY <1>1, <2>1 DEF g, G
<1> QED BY <1>1, <1>2, <1>8, <1>9 DEF byte

\* What memcpy() reads for address i has not been overwritten: the first u
\* bytes of the destination are below it, or the block is elsewhere.
LEMMA ReadBeforeWritten ==
  ASSUME NEW dest \in Nat, NEW src \in Nat, NEW n \in Nat, NEW u \in Nat,
         NEW w \in Nat, NEW i \in Int, u + w <= n,
         i \in dest + u .. dest + u + w - 1,
         dest <= src \/ src + n <= dest
  PROVE  \E z \in src .. src + n - 1 :
           /\ z = src + u + (i - (dest + u)) /\ z = src + (i - dest)
           /\ z \notin dest .. dest + u - 1
<1>1. src + (i - dest) \in src .. src + n - 1
  OBVIOUS
<1>2. src + (i - dest) = src + u + (i - (dest + u))
  OBVIOUS
<1>3. src + (i - dest) \notin dest .. dest + u - 1
  OBVIOUS
<1> QED BY <1>1, <1>2, <1>3

\* memcpy() copies a block when it is not overwritten before it is read: when
\* the source does not begin below an overlapping destination.  lib.c, lines
\* 405 to 444.
THEOREM CopiesAreRight ==
  ASSUME NEW A \in SUBSET Int, NEW Byte, NEW mem \in [A -> Byte],
         NEW dest \in Nat, NEW src \in Nat, NEW n \in Nat,
         src .. src + n - 1 \subseteq A,
         dest <= src \/ src + n <= dest
  PROVE  MemCpy(mem, dest, src, n) = BlockMoved(mem, dest, src, n)
<1> DEFINE pieces == Pieces(dest, n)
<1>0. PICK K \in Nat : \E at \in [0 .. K -> 0 .. n] :
           /\ K = Len(pieces) /\ at[0] = 0 /\ at[K] = n
           /\ \A k \in 1 .. K : pieces[k] \in Nat /\ at[k] = at[k - 1] + pieces[k]
  BY PiecesFill
<1>1. PICK at \in [0 .. K -> 0 .. n] :
           /\ K = Len(pieces) /\ at[0] = 0 /\ at[K] = n
           /\ \A k \in 1 .. K : pieces[k] \in Nat /\ at[k] = at[k - 1] + pieces[k]
  BY <1>0
<1> DEFINE Step(st, k) ==
             [mem |-> Moved(st.mem, dest + st.at, src + st.at, pieces[k]),
              at  |-> st.at + pieces[k]]
           Held(m) == [i \in A |-> IF i \in dest .. dest + m - 1
                                     THEN mem[src + (i - dest)] ELSE mem[i]]
           G(k) == [mem |-> Held(at[k]), at |-> at[k]]
           g == [k \in 0 .. K |-> G(k)]
           copied == CHOOSE f : f = [k \in 0 .. Len(pieces) |->
             IF k = 0 THEN [mem |-> mem, at |-> 0] ELSE Step(f[k - 1], k)]
<1>2. MemCpy(mem, dest, src, n) = copied[Len(pieces)].mem
  BY Zenon DEF MemCpy
<1> HIDE DEF pieces
<1>3. G(0) = [mem |-> mem, at |-> 0]
  <2>1. Held(0) = mem
    BY Z3
  <2> HIDE DEF Held
  <2> QED BY <1>1, <2>1
<1>4. ASSUME NEW k \in 1 .. K PROVE G(k) = Step(G(k - 1), k)
  <2>1. PICK u \in 0 .. n, v \in 0 .. n, w \in Nat :
             u = at[k - 1] /\ v = at[k] /\ w = pieces[k] /\ v = u + w
    <3>1. k \in 0 .. K /\ k - 1 \in 0 .. K
      OBVIOUS
    <3>2. at[k] \in 0 .. n /\ at[k - 1] \in 0 .. n
      BY <3>1
    <3> QED BY <1>1, <3>2, Zenon
  <2>0. u \in Nat /\ v \in Nat /\ w \in Nat /\ v = u + w /\ v <= n
    BY <2>1
  <2>2. Held(v) = Moved(Held(u), dest + u, src + u, w)
    <3>1. ASSUME NEW i \in A
          PROVE  Held(v)[i] = IF i \in dest + u .. dest + u + w - 1
                               THEN Held(u)[src + u + (i - (dest + u))]
                               ELSE Held(u)[i]
      <4>1. CASE i \in dest + u .. dest + u + w - 1
        <5>0. i \in Int /\ u \in Nat /\ w \in Nat /\ u + w <= n
          BY <2>0
        <5>1. PICK z \in src .. src + n - 1 :
                   /\ z = src + u + (i - (dest + u)) /\ z = src + (i - dest)
                   /\ z \notin dest .. dest + u - 1
          BY <4>1, <5>0, ReadBeforeWritten
        <5>3. z \in A
          BY <5>1
        <5>4. Held(u)[z] = mem[z]
          BY <5>1, <5>3
        <5>5. Held(v)[i] = mem[z]
          <6>1. i \in dest .. dest + v - 1
            BY <2>0, <4>1
          <6>2. Held(v)[i] = mem[src + (i - dest)]
            BY <6>1
          <6> HIDE DEF Held
          <6> QED BY <5>1, <6>2
        <5>6. Held(u)[src + u + (i - (dest + u))] = mem[z]
          BY <5>1, <5>4, Zenon
        <5> HIDE DEF Held
        <5> QED BY <4>1, <5>5, <5>6, Zenon
      <4>2. CASE i \notin dest + u .. dest + u + w - 1
        <5>1. i \in dest .. dest + v - 1 <=> i \in dest .. dest + u - 1
          BY <2>0, <4>2
        <5>2. Held(v)[i] = Held(u)[i]
          BY <5>1
        <5> HIDE DEF Held
        <5> QED BY <4>2, <5>2
      <4> QED BY <4>1, <4>2
    <3>2. DOMAIN Held(u) = A
      OBVIOUS
    <3> QED BY <3>1, <3>2 DEF Moved
  <2> HIDE DEF Held
  <2> QED BY <2>1, <2>2
<1> HIDE DEF G, Step
<1>5. g = [k \in 0 .. Len(pieces) |->
             IF k = 0 THEN [mem |-> mem, at |-> 0] ELSE Step(g[k - 1], k)]
  <2>1. \A k \in 0 .. K : g[k] = G(k)
    OBVIOUS
  <2>2. ASSUME NEW k \in 0 .. K
        PROVE  G(k) = IF k = 0 THEN [mem |-> mem, at |-> 0] ELSE Step(g[k - 1], k)
    BY <1>3, <1>4, <2>1
  <2> QED BY <1>1, <2>2
<1> HIDE DEF g
<1>6. copied = [k \in 0 .. Len(pieces) |->
        IF k = 0 THEN [mem |-> mem, at |-> 0] ELSE Step(copied[k - 1], k)]
  BY <1>5, Zenon
<1> HIDE DEF copied
<1>7. copied[0] = g[0]
      /\ \A k \in 1 .. K : copied[k - 1] = g[k - 1] => copied[k] = g[k]
  <2>1. 0 .. K = 0 .. Len(pieces)
    BY <1>1
  <2>2. \A k \in 0 .. K : copied[k] =
          IF k = 0 THEN [mem |-> mem, at |-> 0] ELSE Step(copied[k - 1], k)
    BY <1>6, <2>1, Zenon
  <2>3. \A k \in 0 .. K : g[k] =
          IF k = 0 THEN [mem |-> mem, at |-> 0] ELSE Step(g[k - 1], k)
    BY <1>5, <2>1, Zenon
  <2>4. 0 \in 0 .. K /\ \A k \in 1 .. K : k \in 0 .. K /\ k # 0
    OBVIOUS
  <2> QED BY <2>2, <2>3, <2>4, Zenon
<1>8. copied[K] = g[K]
  BY <1>7, SameSteps
<1>9. g[K].mem = Held(n)
  <2>1. K \in 0 .. K
    OBVIOUS
  <2> HIDE DEF Held
  <2> QED BY <1>1, <2>1 DEF g, G
<1>10. Held(n) = BlockMoved(mem, dest, src, n)
  BY DEF BlockMoved, Moved
<1> QED BY <1>1, <1>2, <1>8, <1>9, <1>10

-----------------------------------------------------------------------------
\* vidmap() accepts an address exactly when FOUR_KB from it are in the page of
\* the program, unless the sum is no uint32_t: syscall.c, lines 380 to 392.
THEOREM AddressesAreChecked ==
  ASSUME NEW address \in 0 .. Word - 1, address + FOUR_KB < Word
  PROVE  VidmapAnswer(address) = 0 <=>
           address .. address + FOUR_KB \subseteq
             PROG_START .. PROG_START + FOUR_MB - 1
<1>1. /\ address \in Nat /\ Word \in Nat /\ Word > 0
      /\ PROG_START \in Nat /\ FOUR_KB \in Nat /\ FOUR_MB \in Nat
  BY PagesAssumption
<1>2. (address + FOUR_KB) % Word = address + FOUR_KB
  BY <1>1
<1>3. VidmapAnswer(address) = 0 <=>
        address >= PROG_START /\ address + FOUR_KB < PROG_START + FOUR_MB
  BY <1>1, <1>2 DEF VidmapAnswer
<1>4. address \in address .. address + FOUR_KB
      /\ address + FOUR_KB \in address .. address + FOUR_KB
  BY <1>1
<1>5. address .. address + FOUR_KB \subseteq PROG_START .. PROG_START + FOUR_MB - 1
        <=> address >= PROG_START /\ address + FOUR_KB < PROG_START + FOUR_MB
  BY <1>1, <1>4
<1> QED BY <1>3, <1>5
-----------------------------------------------------------------------------
(* The calls of the run, which are cases of the theorems on the library.    *)

\* A text without a Nul, and behind it a Nul and anything else.
LEMMA TextBehind ==
  ASSUME NEW t \in Seq(Int), NEW n \in Nat, n = Len(t),
         \A l \in 1 .. Len(t) : t[l] # Nul,
         NEW rest \in Seq(Int), NEW r \in Nat, r = Len(rest), r >= 1, rest[1] = Nul
  PROVE  /\ t \o rest \in Seq(Int) /\ IsString(t \o rest)
         /\ StrLen(t \o rest) = n /\ CString(t \o rest) = t
         /\ Len(t \o rest) = n + r
         /\ \A i \in 1 .. r : (t \o rest)[n + i] = rest[i]
<1> DEFINE s == t \o rest
<1>2. /\ s \in Seq(Int) /\ Len(s) = n + r
      /\ \A i \in 1 .. n : s[i] = t[i]
      /\ \A i \in 1 .. r : s[n + i] = rest[i]
  BY Joined, SMTT(30)
<1> HIDE DEF s
<1>3. s[n + 1] = Nul
  BY <1>2
<1>4. Len(t) < Len(s) /\ n + 1 \in DOMAIN s
  BY <1>2, <1>3, LenProperties
<1>5. StrLen(s) = Len(t) /\ CString(s) = t
  BY <1>2, <1>3, <1>4, CStringIs
<1>6. IsString(s)
  BY <1>3, <1>4 DEF IsString
<1> QED BY <1>2, <1>5, <1>6 DEF s

LEMMA ProbeText ==
  ASSUME NEW S \in SUBSET Int, Nul \notin S, NEW m \in Nat,
         NEW t \in UNION {[1 .. n -> S] : n \in 0 .. m}
  PROVE  t \in Seq(Int) /\ \A l \in 1 .. Len(t) : t[l] # Nul
<1>1. PICK n \in 0 .. m : t \in [1 .. n -> S]
  OBVIOUS
<1>2. t \in Seq(S) /\ Len(t) = n
  BY <1>1
<1>3. t \in Seq(Int)
  BY <1>2, SeqMonotonic
<1> QED BY <1>1, <1>2, <1>3

LEMMA CommandProbesSplit ==
  ASSUME probe \in CommandProbes
  PROVE  CommandIsSplit
<1> DEFINE c == Memory(probe)
           t == probe.text
           rest == <<Nul, probe.behind, Nul>>
<1>1. /\ t \in UNION {[1 .. n -> {ChA, ChB, Blank, NewLine}] : n \in 0 .. 3}
      /\ probe.behind \in Int
  BY DEF CommandProbes, Nul, ChB
<1>2. t \in Seq(Int) /\ \A l \in 1 .. Len(t) : t[l] # Nul
  <2>1. /\ {ChA, ChB, Blank, NewLine} \in SUBSET Int
        /\ Nul \notin {ChA, ChB, Blank, NewLine} /\ 3 \in Nat
    BY DEF ChA, ChB, Blank, NewLine, Nul
  <2> HIDE DEF t
  <2> QED BY <1>1, <2>1, ProbeText
<1>3. rest \in Seq(Int) /\ 3 = Len(rest) /\ rest[1] = Nul /\ rest[3] = Nul
  BY <1>1 DEF Nul
<1>4. c = t \o rest
  BY DEF Memory
<1> HIDE DEF t, rest, c
<1>5. PICK n \in Nat : n = Len(t)
  BY <1>2, LenProperties
<1>6. /\ c \in Seq(Int) /\ IsString(c) /\ StrLen(c) = n /\ CString(c) = t
      /\ Len(c) = n + 3 /\ \A i \in 1 .. 3 : c[n + i] = rest[i]
  <2>1. PICK r \in Nat : r = Len(rest) /\ r = 3
    BY <1>3
  <2>2. r >= 1
    BY <2>1
  <2>3. /\ t \o rest \in Seq(Int) /\ IsString(t \o rest)
        /\ StrLen(t \o rest) = n /\ CString(t \o rest) = t
        /\ Len(t \o rest) = n + r
        /\ \A i \in 1 .. r : (t \o rest)[n + i] = rest[i]
    <3>1. /\ t \in Seq(Int) /\ \A l \in 1 .. Len(t) : t[l] # Nul
          /\ rest \in Seq(Int) /\ rest[1] = Nul
      BY <1>2, <1>3
    <3> QED BY ONLY <1>5, <2>1, <2>2, <3>1, TextBehind, ZenonT(30)
  <2> QED BY <1>4, <2>1, <2>3
<1>7. FirstOf(c, 0, Separators) \in 0 .. n
  <2>1. c[n + 1] \in Separators
    BY <1>3, <1>6 DEF Separators
  <2> QED BY <1>5, <2>1, FirstOfStops
<1>8. IsCommand(c)
  <2>1. n + 3 \in FirstOf(c, 0, Separators) + 2 .. Len(c) /\ c[n + 3] = Nul
    BY <1>3, <1>6, <1>7
  <2> QED BY <1>6, <2>1 DEF IsCommand
<1>9. IsSeparated(c) => IsSplit(CString(c), CString(TestCommand(c)), CString(Buffer(c)))
  BY <1>8, CommandSplits
<1> QED BY <1>6, <1>9, Zenon DEF CommandIsSplit, c, t

LEMMA StringProbesAreRight ==
  ASSUME probe \in StringProbes
  PROVE  StringsAreRight
<1> DEFINE t1 == probe.one
           t2 == probe.two
           one == t1 \o <<Nul>>
           two == t2 \o <<Nul, ChB, ChB, ChB, ChB>>
<1>1. /\ t1 \in UNION {[1 .. n -> {ChA, ChB}] : n \in 0 .. 3}
      /\ t2 \in UNION {[1 .. n -> {ChA, ChB}] : n \in 0 .. 3}
      /\ probe.n \in Nat
  BY DEF StringProbes
<1>2. /\ t1 \in Seq(Int) /\ \A l \in 1 .. Len(t1) : t1[l] # Nul
      /\ t2 \in Seq(Int) /\ \A l \in 1 .. Len(t2) : t2[l] # Nul
  <2>1. {ChA, ChB} \in SUBSET Int /\ Nul \notin {ChA, ChB} /\ 3 \in Nat
    BY DEF ChA, ChB, Nul
  <2> HIDE DEF t1, t2
  <2> QED BY <1>1, <2>1, ProbeText
<1>3. /\ <<Nul>> \in Seq(Int) /\ 1 = Len(<<Nul>>) /\ <<Nul>>[1] = Nul
      /\ <<Nul, ChB, ChB, ChB, ChB>> \in Seq(Int)
      /\ 5 = Len(<<Nul, ChB, ChB, ChB, ChB>>)
      /\ <<Nul, ChB, ChB, ChB, ChB>>[1] = Nul
  BY DEF Nul, ChB
<1>4. PICK n1, n2 \in Nat : n1 = Len(t1) /\ n2 = Len(t2)
  BY <1>2, LenProperties
<1> DEFINE rest == <<Nul, ChB, ChB, ChB, ChB>>
<1>5. /\ one \in Seq(Int) /\ IsString(one) /\ StrLen(one) = n1 /\ CString(one) = t1
      /\ two \in Seq(Int) /\ IsString(two) /\ Len(two) = n2 + 5
  <2>1. 1 \in Nat /\ 5 \in Nat /\ 1 >= 1 /\ 5 >= 1
    OBVIOUS
  <2> HIDE DEF t1, t2, rest
  <2>2. one \in Seq(Int) /\ IsString(one) /\ StrLen(one) = n1 /\ CString(one) = t1
    BY <1>2, <1>3, <1>4, <2>1, TextBehind
  <2>3. two \in Seq(Int) /\ IsString(two) /\ Len(two) = n2 + 5
    <3>1. rest \in Seq(Int) /\ 5 = Len(rest) /\ rest[1] = Nul
      BY <1>3 DEF rest
    <3>2. two = t2 \o rest
      BY DEF rest
    <3>3. PICK r \in Nat : r = Len(rest) /\ r = 5
      BY <3>1
    <3>4. r >= 1
      BY <3>3
    <3>5. /\ t2 \o rest \in Seq(Int) /\ IsString(t2 \o rest)
          /\ Len(t2 \o rest) = n2 + r
      <4>1. t2 \in Seq(Int) /\ n2 = Len(t2) /\ \A l \in 1 .. Len(t2) : t2[l] # Nul
        BY <1>2, <1>4
      <4>2. rest \in Seq(Int) /\ r = Len(rest) /\ rest[1] = Nul
        BY <3>1, <3>3
      <4> QED BY <3>4, <4>1, <4>2, TextBehind
    <3> QED BY <3>2, <3>3, <3>5
  <2> QED BY <2>2, <2>3
<1> HIDE DEF one, two
<1>6. (StrNCmp(one, two, probe.n) = 0) = Same(one, two, probe.n)
  <2>1. StrNCmp(one, two, probe.n) = 0 <=> Same(one, two, probe.n)
    BY <1>1, <1>5, ComparisonIsRight
  <2>2. Same(one, two, probe.n) \in BOOLEAN
    BY Zenon DEF Same
  <2> QED BY <2>1, <2>2
<1>7. CString(StrRev(one)) = Reverse(t1)
  BY <1>5, StringsAreReversed
<1>8. n1 <= n2 + 4 => CString(StrCpy(two, one)) = t1
  BY <1>4, <1>5, StringsAreCopied
<1> QED BY <1>4, <1>6, <1>7, <1>8, Zenon DEF StringsAreRight, one, two

LEMMA NumberProbesAreRight ==
  ASSUME probe \in NumberProbes
  PROVE  NumberIsRight
<1> DEFINE v == probe.value
<1>1. v \in 0 .. Word - 1 /\ v \in Nat
  BY PagesAssumption DEF NumberProbes
<1> HIDE DEF v
<1>2. \A radix \in {2, 10, 16} : Writes(CString(Itoa(v, radix)), v, radix)
  BY <1>1, NumbersAreWritten DEF Radices
<1>3. /\ v >= Word \div 2 => Writes(Tail(Signed(v)), Word - v, 10)
      /\ (v >= Word \div 2) = (Signed(v)[1] = Minus)
  <2>1. CASE v >= Word \div 2
    <3>1. Head(Signed(v)) = Minus /\ Writes(Tail(Signed(v)), Word - v, 10)
      BY <1>1, <2>1, SignedNumbersAreWritten
    <3> QED BY <2>1, <3>1
  <2>2. CASE ~(v >= Word \div 2)
    <3> DEFINE t == CString(Itoa(v, 10))
    <3>1. t \in Seq(Int) /\ Writes(t, v, 10)
      BY <1>1, ItoaWrites DEF Radices
    <3>2. Signed(v) = t
      BY <2>2, Zenon DEF Signed
    <3> HIDE DEF t
    <3>3. t # <<>> /\ \A i \in DOMAIN t : DigitValue(t[i]) \in 0 .. 9
      BY <3>1 DEF Writes
    <3>4. 1 \in DOMAIN t
      BY <3>1, <3>3
    <3>5. DigitValue(t[1]) \in 0 .. 9
      BY <3>3, <3>4
    <3>6. t[1] # Minus
      BY <3>5 DEF DigitValue, Zero, Minus
    <3> QED BY <2>2, <3>2, <3>6
  <2> QED BY <2>1, <2>2
<1>4. Len(PadHex(v)) = HexDigits /\ ValueOf(PadHex(v), 16) = v
  BY <1>1, HexNumbersAreWritten
<1> QED BY <1>2, <1>3, <1>4 DEF NumberIsRight, v

LEMMA MemoryProbesAreRight ==
  ASSUME probe \in MemoryProbes
  PROVE  MemoryIsRight
<1> DEFINE d == probe.dest
           s == probe.src
           n == probe.n
<1>1. d \in 0 .. 7 /\ s \in 0 .. 7 /\ n \in 0 .. 8
  BY DEF MemoryProbes
<1> HIDE DEF d, s, n
<1>2. Bytes \in [0 .. 15 -> Int] /\ 0 .. 15 \in SUBSET Int
      /\ DOMAIN Bytes = 0 .. 15 /\ \A i \in 0 .. 15 : Bytes[i] = i
  BY DEF Bytes
<1>3. s .. s + n - 1 \subseteq 0 .. 15 /\ d \in Nat /\ s \in Nat /\ n \in Nat
  BY <1>1
<1> DEFINE A == 0 .. 15
<1>7. A \in SUBSET Int /\ Bytes \in [A -> Int] /\ s .. s + n - 1 \subseteq A
  BY <1>2, <1>3
<1> HIDE DEF A
<1>4. MemMove(Bytes, d, s, n) = BlockMoved(Bytes, d, s, n)
  BY ONLY <1>3, <1>7, MovesAreRight, ZenonT(30)
<1>5. d <= s \/ s + n <= d => MemCpy(Bytes, d, s, n) = BlockMoved(Bytes, d, s, n)
  BY ONLY <1>3, <1>7, CopiesAreRight, ZenonT(30)
<1>6. MemSet(Bytes, d, 256 + 99, n) =
        [i \in DOMAIN Bytes |-> IF i \in d .. d + n - 1 THEN 99 ELSE i]
  <2>1. MemSet(Bytes, d, 355, n) =
          [i \in 0 .. 15 |-> IF i \in d .. d + n - 1 THEN 355 % 256 ELSE Bytes[i]]
    BY <1>2, <1>3, SetsAreRight
  <2>2. 355 % 256 = 99 /\ 256 + 99 = 355
    OBVIOUS
  <2> QED BY <1>2, <2>1, <2>2
<1> QED BY <1>4, <1>5, <1>6, Zenon DEF MemoryIsRight, d, s, n

LEMMA VidmapProbesAreRight ==
  ASSUME probe \in VidmapProbes
  PROVE  VidmapIsRight
<1>1. probe.address \in 0 .. Word - 1
  BY DEF VidmapProbes
<1> QED BY <1>1, AddressesAreChecked DEF VidmapIsRight

\* What printf() is called with by the run.
LEMMA TextsAreParts ==
  ASSUME NEW v \in 0 .. Word, NEW item \in Texts(v)
  PROVE  /\ item.text \in Seq(Int) /\ item.args \in Seq(Int \cup Seq(Int))
         /\ item.prints \in Seq(Int)
         /\ IsPart(item.text, item.args, item.prints)
<1> DEFINE Right == /\ item.text \in Seq(Int)
                    /\ item.args \in Seq(Int \cup Seq(Int))
                    /\ item.prints \in Seq(Int)
                    /\ IsPart(item.text, item.args, item.prints)
<1>0. Word \in Nat /\ v \in Nat
  <2>1. SixteenTo[HexDigits] \in Nat
    BY LibraryAssumption, PowersOfSixteen
  <2> QED BY <2>1, LibraryAssumption
<1>1. CASE item = [text |-> <<ChA>>, args |-> <<>>, prints |-> <<ChA>>]
  <2>1. item.text = <<ChA>> /\ item.args = <<>> /\ item.prints = <<ChA>>
    BY <1>1
  <2>2. ChA \in Int \ {Nul, Percent}
    BY DEF ChA, Nul, Percent
  <2> QED BY <2>1, <2>2 DEF IsPart
<1>2. CASE item = [text |-> <<Percent, Percent>>, args |-> <<>>, prints |-> <<Percent>>]
  <2>1. item.text = <<Percent, Percent>> /\ item.args = <<>> /\ item.prints = <<Percent>>
    BY <1>2
  <2>2. Percent \in Int
    BY DEF Nul, Percent
  <2> QED BY <2>1, <2>2 DEF IsPart
<1>3. ASSUME NEW letter \in Conversions, NEW value \in Int \cup Seq(Int),
             item.text = <<Percent, letter>>, item.args = <<value>>,
             item.prints = Shown(letter, value, FALSE), item.prints \in Seq(Int)
      PROVE  Right
  <2>1. Percent \in Int /\ letter \in Int
    BY ConversionsAre DEF Nul, Percent
  <2>2. IsPart(item.text, item.args, item.prints)
    BY <1>3, Zenon DEF IsPart
  <2>3. item.text \in Seq(Int) /\ item.args \in Seq(Int \cup Seq(Int))
    BY <1>3, <2>1
  <2> QED BY <1>3, <2>2, <2>3
<1>4. CASE item = [text |-> <<Percent, Letters.c>>, args |-> <<ChB>>, prints |-> <<ChB>>]
  <2>1. item.text = <<Percent, Letters.c>> /\ item.args = <<ChB>> /\ item.prints = <<ChB>>
    BY <1>4
  <2>2. ChB % 256 = ChB /\ ChB \in Int /\ <<ChB>> \in Seq(Int)
    BY DEF ChB
  <2>3. Letters.c \in Conversions
    BY DEF Conversions
  <2>4. item.prints = Shown(Letters.c, ChB, FALSE)
    <3>1. Shown(Letters.c, ChB, FALSE) = <<ChB % 256>>
      BY ShownIs
    <3>2. <<ChB % 256>> = <<ChB>>
      BY <2>2, Zenon
    <3> QED BY <2>1, <3>1, <3>2, Zenon
  <2> QED BY <1>3, <2>1, <2>2, <2>3, <2>4
<1>5. CASE item = [text |-> <<Percent, Letters.s>>, args |-> <<<<ChA, ChB, Nul>>>>,
                   prints |-> <<ChA, ChB>>]
  <2> DEFINE s == <<ChA, ChB, Nul>>
             t == <<ChA, ChB>>
  <2>1. item.text = <<Percent, Letters.s>> /\ item.args = <<s>> /\ item.prints = t
    BY <1>5
  <2>2. s \in Seq(Int) /\ t \in Seq(Int)
    BY DEF ChA, ChB, Nul
  <2>3. CString(s) = t
    <3>1. /\ Len(t) < Len(s) /\ s[Len(t) + 1] = Nul
          /\ \A k \in 1 .. Len(t) : s[k] = t[k] /\ t[k] # Nul
      BY DEF ChA, ChB, Nul
    <3> HIDE DEF s, t
    <3> QED BY <2>2, <3>1, CStringIs
  <2>4. Letters.s \in Conversions
    BY DEF Conversions
  <2> HIDE DEF s, t
  <2>5. item.prints = Shown(Letters.s, s, FALSE)
    BY <2>1, <2>3, ShownIs, Zenon
  <2> QED BY <1>3, <2>1, <2>2, <2>4, <2>5
<1>6. CASE item = [text |-> <<Percent, Letters.u>>, args |-> <<v>>,
                   prints |-> CString(Itoa(v, 10))]
  <2> DEFINE t == CString(Itoa(v, 10))
  <2>1. t \in Seq(Int)
    BY <1>0, ItoaWrites DEF Radices
  <2>2. Shown(Letters.u, v, FALSE) = t
    BY ShownIs
  <2> HIDE DEF t
  <2>3. item.text = <<Percent, Letters.u>> /\ item.args = <<v>> /\ item.prints = t
    BY <1>6 DEF t
  <2>4. Letters.u \in Conversions
    BY DEF Conversions
  <2>5. item.prints = Shown(Letters.u, v, FALSE) /\ v \in Int \cup Seq(Int)
    <3>1. v \in Int \cup Seq(Int)
      BY <1>0
    <3> QED BY <2>2, <2>3, <3>1, Zenon
  <2> QED BY <1>3, <2>1, <2>3, <2>4, <2>5
<1>7. CASE item = [text |-> <<Percent, Sharp, Letters.x>>, args |-> <<v>>,
                   prints |-> PadHex(v)]
  <2>1. /\ item.text = <<Percent, Sharp, Letters.x>> /\ item.args = <<v>>
        /\ item.prints = Shown(Letters.x, v, TRUE)
    <3>1. item.text = <<Percent, Sharp, Letters.x>> /\ item.args = <<v>>
          /\ item.prints = PadHex(v)
      BY <1>7
    <3> QED BY <3>1, ShownIs, Zenon
  <2>2. item.prints \in Seq(Int)
    BY <1>0, <1>7, PadHexIsString
  <2>3. Letters.x \in Conversions
    BY DEF Conversions
  <2>4. IsPart(item.text, item.args, item.prints)
    BY <2>1, <2>3, Zenon DEF IsPart
  <2>5. item.text \in Seq(Int) /\ item.args \in Seq(Int \cup Seq(Int))
    <3>1. Percent \in Int /\ Sharp \in Int /\ Letters.x \in Int
      BY <2>3, ConversionsAre DEF Nul, Percent, Sharp
    <3> QED BY <2>1, <3>1
  <2> QED BY <2>2, <2>4, <2>5, Zenon
<1>8. CASE item = [text |-> <<Percent, Letters.x>>, args |-> <<v>>,
                   prints |-> CString(Itoa(v, 16))]
  <2> DEFINE t == CString(Itoa(v, 16))
  <2>1. t \in Seq(Int)
    BY <1>0, ItoaWrites DEF Radices
  <2>2. Shown(Letters.x, v, FALSE) = t
    BY ShownIs
  <2> HIDE DEF t
  <2>3. item.text = <<Percent, Letters.x>> /\ item.args = <<v>> /\ item.prints = t
    BY <1>8 DEF t
  <2>4. Letters.x \in Conversions
    BY DEF Conversions
  <2>5. item.prints = Shown(Letters.x, v, FALSE) /\ v \in Int \cup Seq(Int)
    <3>1. v \in Int \cup Seq(Int)
      BY <1>0
    <3> QED BY <2>2, <2>3, <3>1, Zenon
  <2> QED BY <1>3, <2>1, <2>3, <2>4, <2>5
<1>9. CASE item = [text |-> <<Percent, Letters.d>>, args |-> <<v>>,
                   prints |-> Signed(v)]
  <2>1. Signed(v) \in Seq(Int)
    <3>1. Word - v \in Nat
      BY <1>0
    <3>2. CString(Itoa(v, 10)) \in Seq(Int) /\ CString(Itoa(Word - v, 10)) \in Seq(Int)
      BY <1>0, <3>1, ItoaWrites DEF Radices
    <3>3. <<Minus>> \in Seq(Int)
      BY DEF Minus
    <3>4. PICK t \in Seq(Int), u \in Seq(Int), m \in Seq(Int) :
            /\ t = CString(Itoa(v, 10)) /\ u = CString(Itoa(Word - v, 10))
            /\ m = <<Minus>>
      BY <3>2, <3>3
    <3>5. m \o u \in Seq(Int)
      OBVIOUS
    <3>6. Signed(v) = t \/ Signed(v) = m \o u
      BY <3>4, Zenon DEF Signed
    <3> QED BY <3>5, <3>6
  <2>2. item.text = <<Percent, Letters.d>> /\ item.args = <<v>> /\ item.prints = Signed(v)
    BY <1>9
  <2>3. Letters.d \in Conversions
    BY DEF Conversions
  <2>4. item.prints = Shown(Letters.d, v, FALSE) /\ v \in Int \cup Seq(Int)
    <3>1. v \in Int \cup Seq(Int)
      BY <1>0
    <3>2. Shown(Letters.d, v, FALSE) = Signed(v)
      BY ShownIs
    <3> QED BY <2>2, <3>1, <3>2, Zenon
  <2>5. item.prints \in Seq(Int)
    BY <2>1, <2>2
  <2> QED BY <1>3, <2>2, <2>3, <2>4, <2>5
<1>10. CASE item = [text |-> <<Percent, Nul>>, args |-> <<>>, prints |-> <<>>]
  <2>1. item.text = <<Percent, Nul>> /\ item.args = <<>> /\ item.prints = <<>>
    BY <1>10
  <2>2. Nul \in Int /\ Percent \in Int /\ Nul \notin {Percent, Sharp} /\ Nul \notin Conversions
    BY ConversionsAre DEF Nul, Percent, Sharp
  <2>3. IsPart(item.text, item.args, item.prints)
    BY <2>1, <2>2, Zenon DEF IsPart
  <2> QED BY <2>1, <2>2, <2>3
<1> QED BY <1>1, <1>2, <1>4, <1>5, <1>6, <1>7, <1>8, <1>9, <1>10 DEF Texts

LEMMA FormatProbesAreRight ==
  ASSUME probe \in FormatProbes
  PROVE  FormatIsRight
<1> DEFINE items == probe.items
<1>1. PICK n \in 0 .. 2 : items \in [1 .. n -> UNION {Texts(v) : v \in Values}]
  <2>1. items \in UNION {[1 .. n -> UNION {Texts(v) : v \in Values}] : n \in 0 .. 2}
    BY DEF FormatProbes
  <2> HIDE DEF items
  <2> QED BY <2>1
<1> DEFINE S == Int \cup Seq(Int)
           text   == [i \in 1 .. n |-> items[i].text]
           values == [i \in 1 .. n |-> items[i].args]
           prints == [i \in 1 .. n |-> items[i].prints]
<1>2. ASSUME NEW i \in 1 .. n
      PROVE  /\ items[i].text \in Seq(Int) /\ items[i].args \in Seq(S)
             /\ items[i].prints \in Seq(Int)
             /\ IsPart(items[i].text, items[i].args, items[i].prints)
  <2>1. PICK v \in Values : items[i] \in Texts(v)
    <3>1. items[i] \in UNION {Texts(v) : v \in Values}
      BY <1>1
    <3> QED BY <3>1
  <2>2. v \in 0 .. Word
    <3>1. Word = 16 * SixteenTo[HexDigits - 1] /\ SixteenTo[HexDigits - 1] \in Nat \ {0}
      <4>1. HexDigits \in Nat \ {0} /\ HexDigits - 1 \in Nat
        BY LibraryAssumption
      <4> QED BY <4>1, LibraryAssumption, PowersOfSixteen
    <3> QED BY <3>1 DEF Values
  <2> QED BY <2>1, <2>2, TextsAreParts
<1>3. /\ text \in [1 .. n -> Seq(Int)] /\ values \in [1 .. n -> Seq(S)]
      /\ prints \in [1 .. n -> Seq(Int)]
  <2> HIDE DEF S
  <2> QED BY <1>2
<1>4. \A k \in 1 .. n : IsPart(text[k], values[k], prints[k])
  BY <1>2
<1>5. FormatIsRight <=>
        Printf(FlattenSeq(text) \o <<Nul>>, FlattenSeq(values)) = FlattenSeq(prints)
  BY <1>1 DEF FormatIsRight
<1> HIDE DEF S, text, values, prints
<1>6. n \in Nat
  OBVIOUS
<1>7. IsMessage(S, n, text, values, prints)
  BY <1>3, <1>4, <1>6 DEF IsMessage
<1>8. Printf(FlattenSeq(text) \o <<Nul>>, FlattenSeq(values)) = FlattenSeq(prints)
  BY <1>7, MessagesArePrinted, Zenon
<1> QED BY <1>5, <1>8

\* The call that is made first is one of those that are listed.
ProbeOK ==
  \/ probe \in CommandProbes \/ probe \in StringProbes
  \/ probe \in NumberProbes  \/ probe \in FormatProbes
  \/ probe \in MemoryProbes  \/ probe \in VidmapProbes
  \/ probe = NoProbe

\* By the kind of the call.
LEMMA ProbesAreRight == ProbeOK => LibraryIsRight
<1>1. /\ probe \in CommandProbes => probe.kind = "command"
      /\ probe \in StringProbes => probe.kind = "string"
      /\ probe \in NumberProbes => probe.kind = "number"
  BY DEF CommandProbes, StringProbes, NumberProbes
<1>2. /\ probe \in FormatProbes => probe.kind = "format"
      /\ probe \in MemoryProbes => probe.kind = "memory"
      /\ probe \in VidmapProbes => probe.kind = "vidmap"
      /\ probe = NoProbe => probe.kind = "none"
  BY DEF FormatProbes, MemoryProbes, VidmapProbes, NoProbe
<1>3. /\ probe \in CommandProbes => CommandIsSplit
      /\ probe \in StringProbes => StringsAreRight
      /\ probe \in NumberProbes => NumberIsRight
      /\ probe \in FormatProbes => FormatIsRight
      /\ probe \in MemoryProbes => MemoryIsRight
      /\ probe \in VidmapProbes => VidmapIsRight
  BY CommandProbesSplit, StringProbesAreRight, NumberProbesAreRight,
     FormatProbesAreRight, MemoryProbesAreRight, VidmapProbesAreRight
<1> QED BY <1>1, <1>2, <1>3 DEF ProbeOK, LibraryIsRight

LEMMA ProbeStep == ProbeOK /\ [MCNext]_<<vars, probe>> => ProbeOK'
<1> SUFFICES ASSUME ProbeOK, [MCNext]_<<vars, probe>> PROVE ProbeOK'
  OBVIOUS
<1>1. probe' = probe \/ probe' = NoProbe
  BY DEF MCNext, ProbeReturns
<1> QED BY <1>1 DEF ProbeOK, CommandProbes, StringProbes, NumberProbes,
           FormatProbes, MemoryProbes, VidmapProbes, NoProbe

\* Whatever function of the library the run calls, and with whatever arguments,
\* its result is what it should be, every message is printed as its format says,
\* and so it is with the parsing of execute() and the test of vidmap().
THEOREM LibraryStaysRight == MCSpec => []LibraryIsRight
<1>1. MCInit => ProbeOK
  BY DEF MCInit, ProbeOK
<1> QED BY <1>1, ProbeStep, ProbesAreRight, PTL DEF MCSpec
=============================================================================
