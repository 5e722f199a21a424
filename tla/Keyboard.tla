------------------------------ MODULE Keyboard ------------------------------
(***************************************************************************)
(* What kb_handler() makes of the keys: the flags of the modifiers, which  *)
(* every terminal has of its own, the Alt flag, which is common to all,    *)
(* and the character that goes to keyboard_fill_buffer().                  *)
(*                                                                         *)
(* A key sends a byte when it is pressed, the same one while it repeats,   *)
(* and another one when it is released.  The keys in Extended send the     *)
(* byte E0 before each of them.  One byte is one interrupt.  A key of the  *)
(* main field is pressed and released at once: its release does nothing.   *)
(*                                                                         *)
(* caps_off is 1 - caps_on.  The tables are shown by what they hold for a  *)
(* kind of key.                                                            *)
(***************************************************************************)
EXTENDS Naturals, Sequences

CONSTANTS
  NumTerminals,  \* TOTAL_TERMINALS
  Holdable       \* the modifiers and arrows of this keyboard

Terminals == 0 .. NumTerminals - 1

Shifts == {"left shift", "right shift"}
Ctrls  == {"left ctrl", "right ctrl"}
Alts   == {"left alt", "right alt"}
Arrows == {"up", "down", "left", "right"}
Extended == {"right ctrl", "right alt"} \cup Arrows

\* The keys of the main field.  A symbol is a key behind Q that is no letter;
\* "none" stands for a key without a character, like F4.
Plain == {"letter", "digit", "symbol", "none"}
FKey(t) == <<"F1", "F2", "F3">>[t + 1]

ASSUME KeyboardAssumption ==
  /\ NumTerminals \in 1 .. 3
  /\ Holdable \subseteq Shifts \cup Ctrls \cup Alts \cup Arrows \cup {"caps"}

\* A byte: E0, or a key that goes down or up.
Down(k) == [key |-> k, down |-> TRUE]
Up(k)   == [key |-> k, down |-> FALSE]
E0      == [key |-> "E0", down |-> FALSE]
Codes(k, byte) == IF k \in Extended THEN <<E0, byte>> ELSE <<byte>>

Flags == [ctrl : BOOLEAN, shift : BOOLEAN, caps_lock : BOOLEAN,
          caps_on : BOOLEAN, arrows : SUBSET Arrows]
Outputs == {"lower", "upper", "digit", "shifted digit", "symbol",
            "shifted symbol", "nul"}

VARIABLES
  terminal_number,  \* the terminal on the screen
  alt_pressed,
  termis,           \* the flags of each terminal
  bytes,            \* the bytes that wait at KB_DATA_PORT
  held,             \* the keys that are down
  last,             \* the key that repeats, or "none"
  typed,            \* what the last byte put in the buffer: a key and its
                    \*   character, or nothing
  odd,              \* history: terminals with an odd number of presses of Caps
  astray            \* history: terminals whose flags may not be those of the
                    \*   keys (see Stray)

vars == <<terminal_number, alt_pressed, termis, bytes, held, last, typed, odd,
          astray>>
hand == <<held, last, odd>>
kernel == <<terminal_number, alt_pressed, termis>>

Nothing == <<>>
TypeOK ==
  /\ terminal_number \in Terminals
  /\ alt_pressed \in BOOLEAN
  /\ termis \in [Terminals -> Flags]
  /\ Len(bytes) <= 2
  /\ held \subseteq Holdable
  /\ last \in Holdable \cup {"none"}
  /\ typed = Nothing \/ typed \in [key : Plain, out : Outputs]
  /\ odd \subseteq Terminals /\ astray \subseteq Terminals

Init ==
  /\ terminal_number = 0
  /\ alt_pressed = FALSE
  /\ termis = [t \in Terminals |->
       [ctrl |-> FALSE, shift |-> FALSE, caps_lock |-> FALSE,
        caps_on |-> FALSE, arrows |-> {}]]
  /\ bytes = <<>>
  /\ held = {} /\ last = "none" /\ typed = Nothing
  /\ odd = {} /\ astray = {}
-----------------------------------------------------------------------------
(* The user, who waits until the last key has been handled.                *)

\* A key pressed, repeated or released next to these keys loses a flag: the
\* byte E0 stands for the release of Ctrl, and one flag stands for two keys.
Stray(k, others) ==
  \/ k \in Extended /\ others \cap Ctrls # {}
  \/ k \in Shifts /\ others \cap Shifts # {}
  \/ k \in Ctrls /\ others \cap Ctrls # {}

Send(k, byte) ==
  /\ bytes = <<>>
  /\ bytes' = Codes(k, byte)
  /\ typed' = Nothing
  /\ astray' = astray \cup
       (IF Stray(k, held \ {k}) THEN {terminal_number} ELSE {})
  /\ UNCHANGED kernel

Press(k) ==
  /\ k \notin held
  /\ Send(k, Down(k))
  /\ held' = held \cup {k} /\ last' = k
  /\ odd' = IF k # "caps" THEN odd
            ELSE (odd \cup {terminal_number}) \ (odd \cap {terminal_number})

Repeat ==
  /\ last # "none"
  /\ Send(last, Down(last))
  /\ UNCHANGED hand

Release(k) ==
  /\ k \in held
  /\ Send(k, Up(k))
  /\ held' = held \ {k}
  /\ last' = IF last = k THEN "none" ELSE last
  /\ UNCHANGED odd

\* A key of the main field or a function key.
Hit(k) ==
  /\ Send(k, Down(k))
  /\ last' = "none"
  /\ UNCHANGED <<held, odd>>

User ==
  \/ \E k \in Holdable : Press(k) \/ Release(k)
  \/ Repeat
  \/ \E k \in Plain : Hit(k)
  \/ \E t \in Terminals : Hit(FKey(t))

-----------------------------------------------------------------------------
(* kb_handler().                                                           *)

Shown == termis[terminal_number]

Fetch(byte) ==
  /\ bytes # <<>> /\ Head(bytes) = byte
  /\ bytes' = Tail(bytes)
  /\ UNCHANGED hand

SetFlags(f) == termis' = [termis EXCEPT ![terminal_number] = f]
NoSwitch == UNCHANGED <<terminal_number, astray>>
Silent == typed' = Nothing

\* E0 is RIGHT_CTRL_RELEASED_1.
Prefix ==
  /\ Fetch(E0)
  /\ SetFlags([Shown EXCEPT !.ctrl = FALSE])
  /\ UNCHANGED alt_pressed /\ NoSwitch /\ Silent

KeyUp(k) ==
  /\ Fetch(Up(k))
  /\ SetFlags([Shown EXCEPT
       !.caps_on = @ /\ k # "caps",
       !.ctrl    = @ /\ k \notin Ctrls,
       !.shift   = @ /\ k \notin Shifts,
       !.arrows  = @ \ {k}])
  /\ alt_pressed' = (alt_pressed /\ k \notin Alts)
  /\ NoSwitch /\ Silent

\* Caps Lock toggles when it is pressed and not when it repeats.  An arrow sets
\* its flag, and the handler then finds the flag set and types nothing.
\* Mutant: Caps Lock toggles whenever its byte comes.
Mutant_KeyDown(k) ==
  /\ Fetch(Down(k))
  /\ SetFlags([Shown EXCEPT
       !.caps_lock = IF k = "caps" THEN ~@ ELSE @,
       !.caps_on = @ \/ k = "caps",
       !.ctrl    = @ \/ k \in Ctrls,
       !.shift   = @ \/ k \in Shifts,
       !.arrows  = @ \cup ({k} \cap Arrows)])
  /\ alt_pressed' = (alt_pressed \/ k \in Alts)
  /\ NoSwitch /\ Silent
KeyDown(k) ==
  /\ Fetch(Down(k))
  /\ SetFlags([Shown EXCEPT
       !.caps_lock = IF k = "caps" /\ ~Shown.caps_on THEN ~@ ELSE @,
       !.caps_on = @ \/ k = "caps",
       !.ctrl    = @ \/ k \in Ctrls,
       !.shift   = @ \/ k \in Shifts,
       !.arrows  = @ \cup ({k} \cap Arrows)])
  /\ alt_pressed' = (alt_pressed \/ k \in Alts)
  /\ NoSwitch /\ Silent

\* The table for a key.  With Shift and Caps Lock all keys from Q on count as
\* letters.
\* Mutant: Shift is looked at and Caps Lock is not.
Mutant_Map(k) ==
  CASE Shown.ctrl                    -> 0
    [] ~Shown.ctrl /\ Shown.shift    -> IF k = "letter" THEN 2 ELSE 1
    [] ~Shown.ctrl /\ ~Shown.shift   ->
         IF Shown.caps_lock /\ k = "letter" THEN 2 ELSE 0
Map(k) ==
  CASE Shown.ctrl -> 0
    [] ~Shown.ctrl /\ Shown.shift /\ ~Shown.caps_lock ->
         IF k = "letter" THEN 2 ELSE 1
    [] ~Shown.ctrl /\ Shown.shift /\ Shown.caps_lock ->
         IF k = "digit" THEN 1 ELSE 0
    [] ~Shown.ctrl /\ ~Shown.shift ->
         IF Shown.caps_lock /\ k = "letter" THEN 2 ELSE 0

\* keyboard_array.
Character(map, k) ==
  CASE k = "letter" -> <<"lower", "nul", "upper">>[map + 1]
    [] k = "digit"  -> <<"digit", "shifted digit", "nul">>[map + 1]
    [] k = "symbol" -> <<"symbol", "shifted symbol", "nul">>[map + 1]
    [] k = "none"   -> "nul"

\* Nothing is typed while the flag of an arrow is set.
Type(k) ==
  typed' = IF Shown.arrows # {} THEN Nothing
           ELSE [key |-> k, out |-> Character(Map(k), k)]

PlainDown(k) ==
  /\ Fetch(Down(k))
  /\ Type(k)
  /\ UNCHANGED <<kernel, astray>>

\* Without Alt a function key is a key without a character.
\* Mutant: F1 shows terminal 1.
Mutant_FKeyDown(t) ==
  /\ Fetch(Down(FKey(t)))
  /\ IF alt_pressed
     THEN /\ Silent
          /\ terminal_number' = t + 1
          /\ UNCHANGED astray
     ELSE Type("none") /\ UNCHANGED <<terminal_number, astray>>
  /\ UNCHANGED <<alt_pressed, termis>>
FKeyDown(t) ==
  /\ Fetch(Down(FKey(t)))
  /\ IF alt_pressed
     THEN /\ Silent
          /\ terminal_number' = t
          /\ astray' = IF t # terminal_number /\ held \ Alts # {}
                       THEN astray \cup {t, terminal_number} ELSE astray
     ELSE Type("none") /\ UNCHANGED <<terminal_number, astray>>
  /\ UNCHANGED <<alt_pressed, termis>>

Handler ==
  \/ Prefix
  \/ \E k \in Holdable : KeyUp(k) \/ KeyDown(k)
  \/ \E k \in Plain : PlainDown(k)
  \/ \E t \in Terminals : FKeyDown(t)

Next == User \/ Handler

Spec == Init /\ [][Next]_vars
-----------------------------------------------------------------------------
Holding(keys) == held \cap keys # {}

\* The flags of the terminal on the screen are the keys that are down, those of
\* the others are clear, and Caps Lock is on after an odd number of presses in
\* that terminal, however often the keys repeat and the user changes the
\* terminal, as long as he changes it with no key down but Alt and Fn, and
\* no two keys at a time share a flag.
FlagsFollowKeys ==
  bytes = <<>> =>
    \A t \in Terminals \ astray :
      termis[t] =
        LET here == t = terminal_number
        IN [ctrl      |-> here /\ Holding(Ctrls),
            shift     |-> here /\ Holding(Shifts),
            caps_lock |-> t \in odd,
            caps_on   |-> here /\ "caps" \in held,
            arrows    |-> IF here THEN held \cap Arrows ELSE {}]

\* What such a user types is what the keys say: a letter is a capital when one
\* of Shift and Caps Lock is on, a digit is shifted with Shift, and Ctrl takes
\* both away.
TypedFollowsKeys ==
  typed # Nothing /\ terminal_number \notin astray =>
    LET shift == Holding(Shifts) /\ ~Holding(Ctrls)
        caps  == terminal_number \in odd /\ ~Holding(Ctrls)
    IN /\ ~Holding(Arrows)
       /\ typed.key = "letter" =>
            typed.out = (IF shift # caps THEN "upper" ELSE "lower")
       /\ typed.key = "digit" =>
            typed.out = (IF shift THEN "shifted digit" ELSE "digit")
=============================================================================
