---------------------------- MODULE SystemCalls -----------------------------
(***************************************************************************)
(* The system-call gate of idt_gate.S and the calls that syscall.c answers *)
(* itself: execute() with its command, halt() with its status, getargs(),  *)
(* vidmap() and the signal calls.  What a driver or the file system        *)
(* answers, the subject of other modules, is any result here.              *)
(*                                                                         *)
(* All processes return through one global variable, error_code: pushal    *)
(* has saved the old eax, so popal would overwrite the result.  Interrupts *)
(* are enabled only inside of the call.                                    *)
(***************************************************************************)
EXTENDS Library, FiniteSets

CONSTANTS
  NumTerminals,   \* TOTAL_TERMINALS
  NumPcbs,        \* MAX_PCB_NUM
  MaxCommand,     \* MAX_COMMAND_INPTUT
  ArgSize,        \* EXECUTE_ARG
  ParseArray,     \* parse_array: the names of the programs, as strings
  Image,          \* what is in the file with each of these names
  Shell,          \* "shell\n" in memory
  Commands,       \* what processes pass to execute(), in their memory
  Statuses,       \* what they pass to halt()
  Lengths,        \* what they pass to getargs()
  Addresses,      \* what they pass to vidmap()
  Results,        \* what the other calls return
  PROG_START, FOUR_KB, FOUR_MB

ASSUME SystemCallsAssumption ==
  /\ NumTerminals \in Nat \ {0} /\ NumPcbs \in Nat
  /\ NumPcbs >= NumTerminals
  /\ Image \in [ParseArray -> {"program", "text", "missing"}]
  /\ \A s \in ParseArray \cup Commands \cup {Shell} : IsString(s)
  /\ Statuses \subseteq Int /\ Results \subseteq Int
  /\ Lengths \subseteq Nat /\ Addresses \subseteq 0 .. Word - 1

ASSUME PagesAssumption ==
  Word \in Nat /\ PROG_START \in Nat /\ FOUR_KB \in Nat /\ FOUR_MB \in Nat

Pids == 1 .. NumPcbs
NoPid == 0

VARIABLES
  stage,       \* where each process is: see Stages
  parent,      \* the parent of each process, or NoPid
  running,     \* the process that has the CPU
  eax,         \* the register eax of each process
  error_code,  \* the global variable of idt_gate.S
  args,        \* the array args of each pcb
  exception,   \* exception_handler() has been called
  answer,      \* history: what the last call of each process returned
  given,       \* history: the command each process was executed with
  buf          \* history: what getargs() last copied for each process

history == <<answer, given, buf>>
vars == <<stage, parent, running, eax, error_code, args, exception, history>>

\* A process runs its program, or is in a call, on the way out of the gate
\* with the result in eax, or in error_code, or it waits for a child in
\* execute().
Stages == {"free", "user", "inside", "leaving", "stored", "waiting"}
Live == {p \in Pids : stage[p] # "free"}
Roots == {p \in Live : parent[p] = NoPid}

Program == stage[running] = "user" /\ ~exception
Inside  == stage[running] = "inside" /\ ~exception
-----------------------------------------------------------------------------
\* The command of execute().
Separators == {NewLine, Nul, Blank}

TestCommand(command) ==
  SubSeq(command, 1, FirstOf(command, 0, Separators)) \o <<Nul>>

\* The arguments begin behind the character that ends the command, also when
\* that is the end of the string.
Buffer(command) ==
  LET arg_start == FirstOf(command, 0, Separators) + 1
  IN SubSeq(command, arg_start + 1, FirstOf(command, arg_start, {Nul})) \o <<Nul>>

\* The memory of a command: bytes in which execute() finds the end of the name
\* and of the arguments before its arrays are full.  The shell starts without
\* arguments.
ASSUME CommandsAssumption ==
  /\ ArgSize \in Nat \ {0}
  /\ \A command \in Commands \cup {Shell} :
       /\ command \in Seq(0 .. 255)
       /\ FirstOf(command, 0, Separators) < MaxCommand
       /\ \E i \in FirstOf(command, 0, Separators) + 2 .. Len(command) :
            command[i] = Nul
       /\ StrLen(Buffer(command)) < ArgSize
  /\ Buffer(Shell) = <<Nul>>

\* What the checks of execute() can come to: a name that is not in parse_array
\* and a file that is not a program are refused.  The result of
\* read_dentry_by_name() is not looked at, and a name that is not in the image
\* leaves the inode number undefined: any file may be read.
Checks(command) ==
  LET listed == {s \in ParseArray :
                   StrNCmp(TestCommand(command), s, MaxCommand) = 0}
  IN IF listed = {} THEN {FALSE}
     ELSE CASE Image[CHOOSE s \in listed : TRUE] = "program" -> {TRUE}
            [] Image[CHOOSE s \in listed : TRUE] = "text"    -> {FALSE}
            [] Image[CHOOSE s \in listed : TRUE] = "missing" -> BOOLEAN

\* What a reader of the command takes for its name and its arguments.
IsSplit(text, name, arguments) ==
  /\ \A i \in DOMAIN name : name[i] \notin Separators
  /\ \/ text = name /\ arguments = <<>>
     \/ \E c \in Separators : text = name \o <<c>> \o arguments

\* Commands for which the byte behind the string does not count.
IsSeparated(command) ==
  \/ \E i \in 1 .. StrLen(command) : command[i] \in Separators
  \/ command[StrLen(command) + 2] = Nul

\* vidmap() answers for addresses in the page of the program that are more
\* than FOUR_KB below its end, with the sum of a uint32_t.
VidmapAnswer(screen_start) ==
  IF \/ screen_start < PROG_START
     \/ (screen_start + FOUR_KB) % Word >= PROG_START + FOUR_MB
  THEN -1 ELSE 0
-----------------------------------------------------------------------------
\* The array args of a new pcb: new_pcb() clears it before strcpy().
\* Mutant: the array is not cleared, and the Nul is not copied.
Mutant_NewArgs(old, command) ==
  [i \in DOMAIN old |-> IF i <= StrLen(Buffer(command))
                        THEN Buffer(command)[i] ELSE old[i]]
NewArgs(old, command) == StrCpy([i \in DOMAIN old |-> Nul], Buffer(command))

\* The first process is the shell of the first terminal.
Init ==
  /\ stage = [p \in Pids |-> IF p = 1 THEN "user" ELSE "free"]
  /\ parent = [p \in Pids |-> NoPid]
  /\ running = 1
  /\ eax = [p \in Pids |-> 0]
  /\ error_code = 0
  /\ args = [p \in Pids |-> [i \in 1 .. ArgSize |-> Nul]]
  /\ exception = FALSE
  /\ answer = eax
  /\ given = [p \in Pids |-> Shell]
  /\ buf = [p \in Pids |-> <<>>]

\* iret restores the flags of a program, and the call runs behind sti; from cli
\* on nothing comes between the return of the call and iret.
\* Mutant: no cli behind the call.
Mutant_InterruptsOn ==
  stage[running] \in {"user", "inside", "leaving", "stored"} /\ ~exception
InterruptsOn == Program \/ Inside

FindNewPcb(p, free) == p \in free /\ \A q \in free : p <= q

\* The call of process p has returned n.
Return(p, n) ==
  /\ stage' = [stage EXCEPT ![p] = "leaving"]
  /\ eax' = [eax EXCEPT ![p] = n]
  /\ answer' = [answer EXCEPT ![p] = n]

\* A new process c starts, for the first time, at its entry point.
Start(c, p, command, stages) ==
  /\ stage' = [stages EXCEPT ![c] = "user"]
  /\ parent' = [parent EXCEPT ![c] = p]
  /\ running' = c
  /\ args' = [args EXCEPT ![c] = NewArgs(@, command)]
  /\ given' = [given EXCEPT ![c] = command]
  /\ buf' = [buf EXCEPT ![c] = <<>>]
  /\ eax' = [eax EXCEPT ![c] = 0]
  /\ answer' = [answer EXCEPT ![c] = 0]
  /\ UNCHANGED <<error_code, exception>>
-----------------------------------------------------------------------------
\* int 0x80.  A number that is no call is answered with -1 at once.
Enter ==
  /\ Program
  /\ stage' = [stage EXCEPT ![running] = "inside"]
  /\ UNCHANGED <<parent, running, eax, error_code, args, exception, history>>

EnterError ==
  /\ Program
  /\ Return(running, -1)
  /\ UNCHANGED <<parent, running, error_code, args, exception, given, buf>>

\* read(), write(), open() and close(); getargs(), vidmap() and the signals.
ReturnResult ==
  /\ Inside
  /\ \E n \in Results \cup {VidmapAnswer(a) : a \in Addresses} \cup {-1} :
       Return(running, n)
  /\ UNCHANGED <<parent, running, error_code, args, exception, given, buf>>

GetArgs ==
  /\ Inside
  /\ \E nbytes \in Lengths :
       IF nbytes = 0
       THEN Return(running, -1) /\ UNCHANGED buf
       ELSE /\ Return(running, 0)
            /\ buf' = [buf EXCEPT ![running] = StrNCpy(args[running], nbytes)]
  /\ UNCHANGED <<parent, running, error_code, args, exception, given>>

ExecuteFails ==
  /\ Inside
  /\ \/ \E command \in Commands : FALSE \in Checks(command)
     \/ Live = Pids
  /\ Return(running, -1)
  /\ UNCHANGED <<parent, running, error_code, args, exception, given, buf>>

Execute ==
  /\ Inside
  /\ \E command \in Commands, c \in Pids :
       /\ TRUE \in Checks(command)
       /\ FindNewPcb(c, Pids \ Live)
       /\ Start(c, running, command, [stage EXCEPT ![running] = "waiting"])

\* The parent goes on behind its own execute(), with the status in eax.
\* Mutant: the parent does not become the running process.
Mutant_Halt ==
  /\ Inside
  /\ parent[running] # NoPid
  /\ LET p == parent[running]
     IN /\ running' = running
        /\ \E status \in Statuses :
             /\ eax' = [eax EXCEPT ![p] = status]
             /\ answer' = [answer EXCEPT ![p] = status]
        /\ stage' = [stage EXCEPT ![running] = "free", ![p] = "leaving"]
  /\ parent' = [parent EXCEPT ![running] = NoPid]
  /\ UNCHANGED <<error_code, args, exception, given, buf>>
Halt ==
  /\ Inside
  /\ parent[running] # NoPid
  /\ LET p == parent[running]
     IN /\ running' = p
        /\ \E status \in Statuses :
             /\ eax' = [eax EXCEPT ![p] = status]
             /\ answer' = [answer EXCEPT ![p] = status]
        /\ stage' = [stage EXCEPT ![running] = "free", ![p] = "leaving"]
  /\ parent' = [parent EXCEPT ![running] = NoPid]
  /\ UNCHANGED <<error_code, args, exception, given, buf>>

\* The last process of a terminal executes a new shell.  When the shell is
\* refused, execute() returns into halt(), which then reads the pcb of the parent
\* that is not there: an Exception.
HaltRoot ==
  /\ Inside
  /\ parent[running] = NoPid
  /\ TRUE \in Checks(Shell)
  /\ \E c \in Pids :
       /\ FindNewPcb(c, (Pids \ Live) \cup {running})
       /\ Start(c, NoPid, Shell, [stage EXCEPT ![running] = "free"])

\* movl %eax,error_code, and, behind popal, movl error_code,%eax and iret.
StoreResult ==
  /\ stage[running] = "leaving"
  /\ error_code' = eax[running]
  /\ stage' = [stage EXCEPT ![running] = "stored"]
  /\ UNCHANGED <<parent, running, eax, args, exception, history>>

LoadResult ==
  /\ stage[running] = "stored"
  /\ eax' = [eax EXCEPT ![running] = error_code]
  /\ stage' = [stage EXCEPT ![running] = "user"]
  /\ UNCHANGED <<parent, running, error_code, args, exception, history>>

\* A tick gives the CPU to the top process of another terminal, in the order
\* that is module Kernel's subject, or to a shell in one that is new.
Preempt ==
  /\ InterruptsOn
  /\ \E p \in Live : stage[p] # "waiting" /\ p # running /\ running' = p
  /\ UNCHANGED <<stage, parent, eax, error_code, args, exception, history>>

OpenTerminal ==
  /\ InterruptsOn
  /\ TRUE \in Checks(Shell)
  /\ Cardinality(Roots) < NumTerminals
  /\ \E c \in Pids :
       /\ FindNewPcb(c, Pids \ Live)
       /\ Start(c, NoPid, Shell, stage)

\* A program, or the kernel on its behalf, makes an error: exception_handler()
\* prints a message and goes into a loop without an end.  It came through an
\* interrupt gate, so that no tick takes the CPU away.
Exception ==
  /\ Program \/ Inside
  /\ exception' = TRUE
  /\ UNCHANGED <<stage, parent, running, eax, error_code, args, history>>

Spin == exception /\ UNCHANGED vars

Next ==
  \/ Enter \/ EnterError
  \/ ReturnResult \/ GetArgs
  \/ ExecuteFails \/ Execute
  \/ Halt \/ HaltRoot
  \/ StoreResult \/ LoadResult
  \/ Preempt \/ OpenTerminal
  \/ Exception \/ Spin

Spec == Init /\ [][Next]_vars
-----------------------------------------------------------------------------
TypeOK ==
  /\ stage \in [Pids -> Stages]
  /\ parent \in [Pids -> Pids \cup {NoPid}]
  /\ running \in Live /\ stage[running] # "waiting"
  /\ \A p \in Pids : IsString(args[p]) /\ Len(args[p]) = ArgSize

\* A program finds in eax what its call returned, whoever has used error_code
\* since, and a parent the status its child gave to halt().
ResultIsKept ==
  \A p \in Live :
    /\ stage[p] = "user" => eax[p] = answer[p]
    /\ stage[p] = "stored" => error_code = answer[p]

\* A process has the arguments of its own command, after any number of others
\* in the same pcb, and getargs() copies these, or as much as fits of them.
ArgumentsAreOwn ==
  \A p \in Live :
    /\ IsSeparated(given[p]) =>
         IsSplit(CString(given[p]), CString(TestCommand(given[p])),
                 CString(args[p]))
    /\ \A i \in DOMAIN buf[p] :
         buf[p][i] = IF i <= StrLen(args[p]) THEN args[p][i] ELSE Nul
=============================================================================
