------------------------------ MODULE Sessions ------------------------------
(***************************************************************************)
(* What the kernel promises its users, without a pcb, a page or a stack:   *)
(* every open terminal has a session, the stack of the programs started in *)
(* it, of which only the top one runs; the open terminals take turns on    *)
(* the CPU; and one of the terminals, open or not, is on the screen.       *)
(***************************************************************************)
EXTENDS Naturals, Sequences, SequencesExt

CONSTANTS
  NumTerminals,  \* how many terminals there are
  MaxPrograms    \* how many programs may be in all sessions together

Terminals == 0 .. NumTerminals - 1
Programs  == 1 .. MaxPrograms

VARIABLES
  sessions,  \* the programs of each terminal, the oldest first
  running,   \* the terminal that has the CPU
  view       \* the terminal on the screen

vars == <<sessions, running, view>>

Open == {t \in Terminals : sessions[t] # <<>>}
Used == UNION {Range(sessions[t]) : t \in Terminals}
Free == Programs \ Used

\* The terminal whose turn comes after that of terminal c.
Turn(c, n) ==
  \E k \in 1 .. NumTerminals :
    /\ n = (c + k) % NumTerminals
    /\ n \in Open
    /\ \A j \in 1 .. k - 1 : (c + j) % NumTerminals \notin Open

Init ==
  /\ sessions = [t \in Terminals |-> <<>>]
  /\ running = 0
  /\ view = 0

\* The first shell starts.
Start ==
  /\ Open = {}
  /\ \E p \in Programs : sessions' = [sessions EXCEPT ![running] = <<p>>]
  /\ UNCHANGED <<running, view>>

\* The program that runs starts another one, which runs in its place.
Launch ==
  /\ running \in Open
  /\ \E p \in Free :
       sessions' = [sessions EXCEPT ![running] = Append(@, p)]
  /\ UNCHANGED <<running, view>>

\* The program that runs ends and the one that started it runs again.
Finish ==
  /\ running \in Open
  /\ Len(sessions[running]) > 1
  /\ sessions' = [sessions EXCEPT ![running] = Front(@)]
  /\ UNCHANGED <<running, view>>

\* The oldest program of a session ends: the session starts again.
Restart ==
  /\ running \in Open
  /\ Len(sessions[running]) = 1
  /\ \E p \in Free \cup Range(sessions[running]) :
       sessions' = [sessions EXCEPT ![running] = <<p>>]
  /\ UNCHANGED <<running, view>>

Rotate ==
  /\ \E n \in Terminals : Turn(running, n) /\ running' = n
  /\ UNCHANGED <<sessions, view>>

\* Another terminal is shown.
Look(t) ==
  /\ view' = t
  /\ UNCHANGED <<sessions, running>>

\* A terminal is shown for the first time and gets a session and the CPU.
Visit(t) ==
  /\ Open # {} /\ t \notin Open
  /\ \E p \in Free : sessions' = [sessions EXCEPT ![t] = <<p>>]
  /\ running' = t
  /\ view' = t

\* The same when no program can be started: the CPU goes to the next terminal.
VisitInVain(t) ==
  /\ Open # {} /\ t \notin Open /\ Free = {}
  /\ Turn(t, running')
  /\ view' = t
  /\ UNCHANGED sessions

Next ==
  \/ Start \/ Launch \/ Finish \/ Restart \/ Rotate
  \/ \E t \in Terminals : Look(t) \/ Visit(t) \/ VisitInVain(t)

Spec == Init /\ [][Next]_vars /\ WF_vars(Rotate)
=============================================================================
