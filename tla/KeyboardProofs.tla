--------------------------- MODULE KeyboardProofs ---------------------------
(***************************************************************************)
(* The flags of the keys, on any keyboard with any of the modifiers.  The  *)
(* flags are the keys that are down only when no byte waits.  The          *)
(* invariant says what they are before: with a byte that waits, those from *)
(* which the handler gets there.                                           *)
(***************************************************************************)
EXTENDS Keyboard, TLAPS

Byte(k, d) == [key |-> k, down |-> d]
Keys == Holdable \cup Plain \cup {"F1", "F2", "F3"}

\* One byte waits, or E0 and another one.
Sent(pre, k, d) == IF pre THEN <<E0, Byte(k, d)>> ELSE <<Byte(k, d)>>
Waits(pre, k, d) == bytes = Sent(pre, k, d)

\* What waits belongs to a key, which is down unless it has been released; the
\* key that repeats is down; a character shows until the next byte waits.
Hand ==
  /\ bytes = <<>> \/ \E pre \in BOOLEAN, k \in Keys, d \in BOOLEAN :
                        /\ Waits(pre, k, d)
                        /\ pre => k \in Extended
                        /\ k \in Holdable => (d <=> k \in held)
                        /\ k \notin Holdable => d
  /\ last # "none" => last \in held
  /\ typed # Nothing => bytes = <<>>

\* The flags f of the terminal on the screen are the keys that are down.
Follow(f) ==
  /\ f.ctrl <=> Holding(Ctrls)
  /\ f.shift <=> Holding(Shifts)
  /\ f.caps_lock <=> terminal_number \in odd
  /\ f.caps_on <=> "caps" \in held
  /\ f.arrows = held \cap Arrows

\* The handler gets there from the flags f, and this Ctrl flag, when it fetches
\* the byte of a key.
Becomes(f, ctrl, k, d) ==
  /\ Holding(Ctrls) <=> IF d THEN ctrl \/ k \in Ctrls ELSE ctrl /\ k \notin Ctrls
  /\ Holding(Shifts) <=>
       IF d THEN f.shift \/ k \in Shifts ELSE f.shift /\ k \notin Shifts
  /\ terminal_number \in odd <=>
       IF d /\ k = "caps" /\ ~f.caps_on THEN ~f.caps_lock ELSE f.caps_lock
  /\ "caps" \in held <=>
       IF d THEN f.caps_on \/ k = "caps" ELSE f.caps_on /\ k # "caps"
  /\ held \cap Arrows =
       IF d THEN f.arrows \cup ({k} \cap Arrows) ELSE f.arrows \ {k}

\* A terminal that is not on the screen.
Clear(f, t) ==
  /\ ~f.ctrl /\ ~f.shift /\ ~f.caps_on /\ f.arrows = {}
  /\ f.caps_lock <=> t \in odd

FlagsInv ==
  \A t \in Terminals \ astray :
    IF t # terminal_number THEN Clear(termis[t], t)
    ELSE /\ bytes = <<>> => Follow(termis[t])
         /\ \A pre \in BOOLEAN, k \in Keys, d \in BOOLEAN :
              Waits(pre, k, d) =>
                Becomes(termis[t], ~pre /\ termis[t].ctrl, k, d)

KeyInv == TypeOK /\ Hand /\ FlagsInv

-----------------------------------------------------------------------------
(* Keys and bytes.                                                         *)

\* The keys that do not change a flag.
LEMMA OtherKeys ==
  ASSUME NEW k \in Keys
  PROVE  /\ k # "E0"
         /\ k \in Plain \cup {"F1", "F2", "F3"} <=> k \notin Holdable
         /\ k \notin Holdable => k \notin Shifts \cup Ctrls \cup Alts \cup Arrows
                                         \cup Extended \cup {"caps"}
BY KeyboardAssumption DEF Keys, Plain, Shifts, Ctrls, Alts, Arrows, Extended

LEMMA FunctionKeys ==
  ASSUME NEW t \in Terminals
  PROVE  FKey(t) \in {"F1", "F2", "F3"}
<1>1. t \in {0, 1, 2}
  BY KeyboardAssumption DEF Terminals
<1>2. CASE t = 0  BY <1>2 DEF FKey
<1>3. CASE t = 1  BY <1>3 DEF FKey
<1>4. CASE t = 2  BY <1>4 DEF FKey
<1> QED BY <1>1, <1>2, <1>3, <1>4

LEMMA SentAre ==
  ASSUME NEW pre \in BOOLEAN, NEW k \in Keys, NEW d \in BOOLEAN
  PROVE  /\ Sent(pre, k, d) # <<>> /\ Len(Sent(pre, k, d)) <= 2
         /\ Head(Sent(pre, k, d)) = IF pre THEN E0 ELSE Byte(k, d)
         /\ Tail(Sent(pre, k, d)) = IF pre THEN Sent(FALSE, k, d) ELSE <<>>
         /\ E0 # Byte(k, d)
BY OtherKeys DEF Sent, Byte, E0

LEMMA SentDiffer ==
  ASSUME NEW pre \in BOOLEAN, NEW k \in Keys, NEW d \in BOOLEAN,
         NEW pre2 \in BOOLEAN, NEW k2 \in Keys, NEW d2 \in BOOLEAN,
         Sent(pre, k, d) = Sent(pre2, k2, d2)
  PROVE  pre = pre2 /\ k = k2 /\ d = d2
<1>1. E0 # Byte(k, d) /\ E0 # Byte(k2, d2)
  BY SentAre
<1>2. pre <=> pre2
  <2>1. Head(Sent(pre, k, d)) = Head(Sent(pre2, k2, d2))
    OBVIOUS
  <2>2. CASE pre /\ ~pre2
    <3>1. Head(Sent(pre, k, d)) = E0
      BY <2>2, SentAre
    <3>2. Head(Sent(pre2, k2, d2)) = Byte(k2, d2)
      BY <2>2, SentAre
    <3> QED BY <3>1, <3>2, <2>1, <1>1
  <2>3. CASE ~pre /\ pre2
    <3>1. Head(Sent(pre, k, d)) = Byte(k, d)
      BY <2>3, SentAre
    <3>2. Head(Sent(pre2, k2, d2)) = E0
      BY <2>3, SentAre
    <3> QED BY <3>1, <3>2, <2>1, <1>1
  <2> QED BY <2>2, <2>3
<1>3. Byte(k, d) = Byte(k2, d2)
  BY <1>2 DEF Sent
<1> QED BY <1>2, <1>3 DEF Byte

LEMMA CodesAreSent ==
  ASSUME NEW k \in Keys, NEW d \in BOOLEAN
  PROVE  Codes(k, Byte(k, d)) = Sent(k \in Extended, k, d)
BY DEF Codes, Sent

\* What a set holds of some keys, seen from one key.
LEMMA HeldBut ==
  ASSUME NEW keys, NEW s, NEW k
  PROVE  s \cap keys # {} <=> (s \ {k}) \cap keys # {} \/ k \in s \cap keys
OBVIOUS

-----------------------------------------------------------------------------
(* The user.                                                               *)

LEMMA SendKeeps ==
  ASSUME KeyInv, NEW k \in Keys, NEW d \in BOOLEAN, Send(k, Byte(k, d)),
         held' \in SUBSET Holdable, held' \ {k} = held \ {k},
         k \in Holdable => (d <=> k \in held'),
         k \notin Holdable => d,
         ~d => k \in held,
         last' \in Holdable \cup {"none"}, last' # "none" => last' \in held',
         odd' \in SUBSET Terminals,
         \A t \in Terminals \ {terminal_number} : t \in odd' <=> t \in odd,
         terminal_number \in odd' <=>
           IF d /\ k = "caps" /\ "caps" \notin held
           THEN terminal_number \notin odd ELSE terminal_number \in odd
  PROVE  KeyInv'
<1> DEFINE pre == k \in Extended
<1> pre \in BOOLEAN
  OBVIOUS
<1>1. /\ bytes = <<>> /\ bytes' = Sent(pre, k, d)
      /\ typed' = Nothing /\ kernel' = kernel
      /\ astray' = astray \cup
           (IF Stray(k, held \ {k}) THEN {terminal_number} ELSE {})
  BY CodesAreSent DEF Send
<1>2. TypeOK'
  BY <1>1, SentAre DEF KeyInv, TypeOK, kernel
<1>3. Hand'
  BY <1>1, SentAre DEF Hand, Waits
<1>4. FlagsInv'
  <2> SUFFICES ASSUME NEW t \in Terminals \ astray'
               PROVE  IF t # terminal_number THEN Clear(termis[t], t)'
                      ELSE \A pre2 \in BOOLEAN, k2 \in Keys, d2 \in BOOLEAN :
                        Waits(pre2, k2, d2)' =>
                          Becomes(termis[t], ~pre2 /\ termis[t].ctrl, k2, d2)'
    BY <1>1, SentAre DEF FlagsInv, kernel
  <2>1. CASE t # terminal_number
    BY <2>1, <1>1 DEF KeyInv, FlagsInv, Clear, kernel
  <2>2. CASE t = terminal_number
    <3>1. /\ Follow(termis[t]) /\ ~Stray(k, held \ {k})
      BY <2>2, <1>1 DEF KeyInv, FlagsInv
    <3>2. Becomes(termis[t], ~pre /\ termis[t].ctrl, k, d)'
      <4> USE DEF Holding
      <4>1. (Holding(Ctrls))' <=>
              IF d THEN (~pre /\ termis[t].ctrl) \/ k \in Ctrls
              ELSE (~pre /\ termis[t].ctrl) /\ k \notin Ctrls
        <5>1. termis[t].ctrl <=> (held \ {k}) \cap Ctrls # {} \/ k \in held \cap Ctrls
          BY <3>1, HeldBut DEF Follow
        <5>2. (Holding(Ctrls))' <=>
                (held \ {k}) \cap Ctrls # {} \/ k \in held' \cap Ctrls
          BY HeldBut
        <5>3. (k \in Ctrls \/ pre) => (held \ {k}) \cap Ctrls = {}
          BY <3>1 DEF Stray
        <5>4. k \in Ctrls => (d <=> k \in held')
          BY OtherKeys
        <5>5. k \in held /\ k \notin Ctrls => k \notin held \cap Ctrls
          OBVIOUS
        <5> QED BY <5>1, <5>2, <5>3, <5>4
      <4>2. (Holding(Shifts))' <=>
              IF d THEN termis[t].shift \/ k \in Shifts
              ELSE termis[t].shift /\ k \notin Shifts
        <5>1. termis[t].shift <=>
                (held \ {k}) \cap Shifts # {} \/ k \in held \cap Shifts
          BY <3>1, HeldBut DEF Follow
        <5>2. (Holding(Shifts))' <=>
                (held \ {k}) \cap Shifts # {} \/ k \in held' \cap Shifts
          BY HeldBut
        <5>3. k \in Shifts => (held \ {k}) \cap Shifts = {}
          BY <3>1 DEF Stray
        <5>4. k \in Shifts => (d <=> k \in held')
          BY OtherKeys
        <5> QED BY <5>1, <5>2, <5>3, <5>4
      <4>3. terminal_number \in odd' <=>
              IF d /\ k = "caps" /\ ~termis[t].caps_on
              THEN ~termis[t].caps_lock ELSE termis[t].caps_lock
        BY <3>1 DEF Follow
      <4>4. "caps" \in held' <=>
              IF d THEN termis[t].caps_on \/ k = "caps"
              ELSE termis[t].caps_on /\ k # "caps"
        BY <3>1, OtherKeys DEF Follow
      <4>5. held' \cap Arrows =
              IF d THEN termis[t].arrows \cup ({k} \cap Arrows)
              ELSE termis[t].arrows \ {k}
        BY <3>1, OtherKeys DEF Follow
      <4> QED BY <4>1, <4>2, <4>3, <4>4, <4>5, <1>1 DEF Becomes, kernel
    <3>3. ASSUME NEW pre2 \in BOOLEAN, NEW k2 \in Keys, NEW d2 \in BOOLEAN,
                 Waits(pre2, k2, d2)'
          PROVE  Becomes(termis[t], ~pre2 /\ termis[t].ctrl, k2, d2)'
      <4>1. pre2 = pre /\ k2 = k /\ d2 = d
        <5>1. Sent(pre2, k2, d2) = Sent(pre, k, d)
          BY <3>3, <1>1 DEF Waits
        <5> HIDE DEF pre
        <5> QED BY <5>1, SentDiffer
      <4> QED BY <4>1, <3>2
    <3>4. ~(t # terminal_number')
      BY <2>2, <1>1 DEF kernel
    <3> QED BY <3>3, <2>2
  <2> QED BY <2>1, <2>2
<1> QED BY <1>2, <1>3, <1>4 DEF KeyInv

LEMMA UserKeeps == KeyInv /\ User => KeyInv'
<1> SUFFICES ASSUME KeyInv, User
             PROVE  KeyInv'
  OBVIOUS
<1> USE DEF Byte, Down, Up
<1>1. /\ held \in SUBSET Holdable /\ last \in Holdable \cup {"none"}
      /\ odd \in SUBSET Terminals /\ terminal_number \in Terminals
      /\ last # "none" => last \in held
      /\ Holdable \subseteq Keys
  BY DEF KeyInv, TypeOK, Hand, Keys
<1>2. ASSUME NEW k \in Holdable, Press(k)
      PROVE  KeyInv'
  BY <1>1, <1>2, SendKeeps DEF Press
<1>3. ASSUME NEW k \in Holdable, Release(k)
      PROVE  KeyInv'
  BY <1>1, <1>3, SendKeeps DEF Release
<1>4. ASSUME Repeat
      PROVE  KeyInv'
  BY <1>1, <1>4, SendKeeps DEF Repeat, hand
<1>5. ASSUME NEW k \in Plain \cup {"F1", "F2", "F3"}, Hit(k)
      PROVE  KeyInv'
  <2>1. k \in Keys /\ k \notin Holdable /\ k # "caps"
    BY OtherKeys DEF Keys
  <2> QED BY <1>1, <1>5, <2>1, SendKeeps DEF Hit
<1> QED BY <1>2, <1>3, <1>4, <1>5, FunctionKeys DEF User

-----------------------------------------------------------------------------
(* The handler.                                                            *)

LEMMA Fetched ==
  ASSUME KeyInv, NEW k \in Keys, NEW d \in BOOLEAN, Fetch(Byte(k, d))
  PROVE  /\ Waits(FALSE, k, d) /\ bytes' = <<>>
         /\ held' = held /\ last' = last /\ odd' = odd
<1>1. bytes # <<>> /\ Head(bytes) = Byte(k, d) /\ bytes' = Tail(bytes)
  BY DEF Fetch
<1>2. PICK pre \in BOOLEAN, k2 \in Keys, d2 \in BOOLEAN : Waits(pre, k2, d2)
  BY <1>1 DEF KeyInv, Hand
<1>3. Byte(k, d) # E0
  BY SentAre
<1>4. ~pre /\ Byte(k, d) = Byte(k2, d2)
  BY <1>1, <1>2, <1>3, SentAre DEF Waits
<1>5. k = k2 /\ d = d2
  BY <1>4 DEF Byte
<1>6. Tail(bytes) = <<>>
  BY <1>2, <1>4, SentAre DEF Waits
<1> QED BY <1>1, <1>2, <1>4, <1>5, <1>6 DEF Fetch, hand

\* A byte that changes the flags of the terminal on the screen to f.
LEMMA HandledKeeps ==
  ASSUME KeyInv, NEW k \in Keys, NEW d \in BOOLEAN, Fetch(Byte(k, d)),
         NEW f \in Flags, SetFlags(f),
         f.ctrl <=> IF d THEN Shown.ctrl \/ k \in Ctrls
                    ELSE Shown.ctrl /\ k \notin Ctrls,
         f.shift <=> IF d THEN Shown.shift \/ k \in Shifts
                     ELSE Shown.shift /\ k \notin Shifts,
         f.caps_lock <=> IF d /\ k = "caps" /\ ~Shown.caps_on
                         THEN ~Shown.caps_lock ELSE Shown.caps_lock,
         f.caps_on <=> IF d THEN Shown.caps_on \/ k = "caps"
                       ELSE Shown.caps_on /\ k # "caps",
         f.arrows = IF d THEN Shown.arrows \cup ({k} \cap Arrows)
                    ELSE Shown.arrows \ {k},
         alt_pressed' \in BOOLEAN, NoSwitch,
         typed' = Nothing \/ typed' \in [key : Plain, out : Outputs]
  PROVE  KeyInv'
<1>1. /\ Waits(FALSE, k, d) /\ bytes' = <<>>
      /\ held' = held /\ last' = last /\ odd' = odd
  BY Fetched
<1>2. /\ terminal_number \in Terminals /\ termis \in [Terminals -> Flags]
      /\ termis' = [termis EXCEPT ![terminal_number] = f]
      /\ terminal_number' = terminal_number /\ astray' = astray
  BY DEF KeyInv, TypeOK, SetFlags, NoSwitch
<1>3. TypeOK'
  <2>1. termis' \in [Terminals -> Flags] /\ Len(bytes') <= 2
    BY <1>1, <1>2
  <2> QED BY <1>1, <1>2, <2>1 DEF KeyInv, TypeOK
<1>4. Hand'
  BY <1>1 DEF KeyInv, Hand
<1>5. FlagsInv'
  <2> SUFFICES ASSUME NEW t \in Terminals \ astray
               PROVE  IF t # terminal_number THEN Clear(termis[t], t)'
                      ELSE Follow(termis[t])'
    <3>1. ASSUME NEW pre \in BOOLEAN, NEW k2 \in Keys, NEW d2 \in BOOLEAN
          PROVE  ~Waits(pre, k2, d2)'
      BY <1>1, SentAre DEF Waits
    <3> QED BY <3>1, <1>1, <1>2 DEF FlagsInv
  <2>1. CASE t # terminal_number
    BY <2>1, <1>1, <1>2 DEF KeyInv, FlagsInv, Clear
  <2>2. CASE t = terminal_number
    <3>1. termis'[t] = f /\ Shown = termis[t]
      BY <2>2, <1>2 DEF Shown
    <3>2. Becomes(Shown, ~FALSE /\ Shown.ctrl, k, d)
      BY ZenonT(40), <2>2, <1>1, <3>1 DEF KeyInv, FlagsInv
    <3>3. Follow(f)
      BY <3>2 DEF Becomes, Follow
    <3> QED BY <3>3, <3>1, <2>2, <1>1, <1>2 DEF Follow, Holding
  <2> QED BY <2>1, <2>2
<1> QED BY <1>3, <1>4, <1>5 DEF KeyInv

\* The byte before the one of the key.
LEMMA PrefixKeeps == KeyInv /\ Prefix => KeyInv'
<1> SUFFICES ASSUME KeyInv, Prefix
             PROVE  KeyInv'
  OBVIOUS
<1> DEFINE f == [Shown EXCEPT !.ctrl = FALSE]
<1>1. /\ bytes # <<>> /\ Head(bytes) = E0 /\ bytes' = Tail(bytes)
      /\ held' = held /\ last' = last /\ odd' = odd /\ typed' = Nothing
      /\ terminal_number' = terminal_number /\ astray' = astray
      /\ alt_pressed' = alt_pressed
      /\ termis' = [termis EXCEPT ![terminal_number] = f]
  BY DEF Prefix, Fetch, hand, NoSwitch, Silent, SetFlags
<1>2. PICK pre \in BOOLEAN, k \in Keys, d \in BOOLEAN :
        /\ Waits(pre, k, d)
        /\ k \in Holdable => (d <=> k \in held)
        /\ k \notin Holdable => d
  BY <1>1 DEF KeyInv, Hand
<1>3. pre
  BY <1>1, <1>2, SentAre DEF Waits
<1>4. PICK alone \in BOOLEAN : ~alone /\ bytes' = Sent(alone, k, d)
  <2>1. bytes' = Sent(FALSE, k, d)
    BY <1>1, <1>2, <1>3, SentAre DEF Waits
  <2> QED BY <2>1
<1>5. /\ terminal_number \in Terminals /\ termis \in [Terminals -> Flags]
      /\ Shown \in Flags
  BY DEF KeyInv, TypeOK, Shown
<1>6. /\ f \in Flags /\ ~f.ctrl /\ f.shift = Shown.shift
      /\ f.caps_on = Shown.caps_on /\ f.caps_lock = Shown.caps_lock
      /\ f.arrows = Shown.arrows
  BY <1>5 DEF Flags
<1> HIDE DEF f
<1>7. TypeOK'
  <2>1. termis' \in [Terminals -> Flags]
    BY <1>1, <1>5, <1>6
  <2>2. Len(bytes') <= 2
    BY <1>4, SentAre
  <2> QED BY <1>1, <2>1, <2>2 DEF KeyInv, TypeOK
<1>8. Hand'
  BY <1>1, <1>2, <1>4 DEF KeyInv, Hand, Waits
<1>9. FlagsInv'
  <2> SUFFICES ASSUME NEW t \in Terminals \ astray
               PROVE  IF t # terminal_number THEN Clear(termis[t], t)'
                      ELSE \A pre2 \in BOOLEAN, k2 \in Keys, d2 \in BOOLEAN :
                        Waits(pre2, k2, d2)' =>
                          Becomes(termis[t], ~pre2 /\ termis[t].ctrl, k2, d2)'
    BY <1>1, <1>4, SentAre DEF FlagsInv
  <2>1. CASE t # terminal_number
    BY <2>1, <1>1, <1>5 DEF KeyInv, FlagsInv, Clear
  <2>2. CASE t = terminal_number
    <3>1. termis'[t] = f /\ Shown = termis[t]
      BY <2>2, <1>1, <1>5 DEF Shown
    <3>2. Becomes(Shown, ~TRUE /\ Shown.ctrl, k, d)
      BY <2>2, <1>2, <1>3, <3>1 DEF KeyInv, FlagsInv
    <3>3. Becomes(f, f.ctrl, k, d)
      BY <3>2, <1>6 DEF Becomes
    <3>4. ASSUME NEW pre2 \in BOOLEAN, NEW k2 \in Keys, NEW d2 \in BOOLEAN,
                 Waits(pre2, k2, d2)'
          PROVE  Becomes(termis[t], ~pre2 /\ termis[t].ctrl, k2, d2)'
      <4>1. Sent(pre2, k2, d2) = Sent(alone, k, d)
        BY <3>4, <1>4 DEF Waits
      <4>2. pre2 = alone /\ k2 = k /\ d2 = d
        BY <4>1, SentDiffer
      <4> QED BY <4>2, <1>4, <3>1, <3>3, <1>1 DEF Becomes, Holding
    <3> QED BY <3>4, <2>2, <1>1
  <2> QED BY <2>1, <2>2
<1> QED BY <1>7, <1>8, <1>9 DEF KeyInv

LEMMA KeyUpKeeps ==
  ASSUME KeyInv, NEW k \in Holdable, KeyUp(k)
  PROVE  KeyInv'
<1> DEFINE f == [Shown EXCEPT
                   !.caps_on = @ /\ k # "caps",
                   !.ctrl    = @ /\ k \notin Ctrls,
                   !.shift   = @ /\ k \notin Shifts,
                   !.arrows  = @ \ {k}]
<1>1. Shown \in Flags
  BY DEF KeyInv, TypeOK, Shown
<1>2. /\ f \in Flags
      /\ f.ctrl <=> Shown.ctrl /\ k \notin Ctrls
      /\ f.shift <=> Shown.shift /\ k \notin Shifts
      /\ f.caps_lock <=> Shown.caps_lock
      /\ f.caps_on <=> Shown.caps_on /\ k # "caps"
      /\ f.arrows = Shown.arrows \ {k}
  BY <1>1 DEF Flags
<1>3. SetFlags(f) /\ Fetch(Byte(k, FALSE)) /\ NoSwitch /\ typed' = Nothing
  BY DEF KeyUp, Silent, Up, Byte
<1>4. alt_pressed' \in BOOLEAN /\ k \in Keys
  BY DEF KeyUp, Keys
<1> HIDE DEF f
<1> QED BY <1>2, <1>3, <1>4, HandledKeeps

LEMMA KeyDownKeeps ==
  ASSUME KeyInv, NEW k \in Holdable, KeyDown(k)
  PROVE  KeyInv'
<1> DEFINE f == [Shown EXCEPT
                   !.caps_lock = IF k = "caps" /\ ~Shown.caps_on THEN ~@ ELSE @,
                   !.caps_on = @ \/ k = "caps",
                   !.ctrl    = @ \/ k \in Ctrls,
                   !.shift   = @ \/ k \in Shifts,
                   !.arrows  = @ \cup ({k} \cap Arrows)]
<1>1. Shown \in Flags
  BY DEF KeyInv, TypeOK, Shown
<1>2. /\ f \in Flags
      /\ f.ctrl <=> Shown.ctrl \/ k \in Ctrls
      /\ f.shift <=> Shown.shift \/ k \in Shifts
      /\ f.caps_lock <=> IF k = "caps" /\ ~Shown.caps_on
                         THEN ~Shown.caps_lock ELSE Shown.caps_lock
      /\ f.caps_on <=> Shown.caps_on \/ k = "caps"
      /\ f.arrows = Shown.arrows \cup ({k} \cap Arrows)
  BY <1>1 DEF Flags
<1>3. SetFlags(f) /\ Fetch(Byte(k, TRUE)) /\ NoSwitch /\ typed' = Nothing
  BY DEF KeyDown, Silent, Down, Byte
<1>4. alt_pressed' \in BOOLEAN /\ k \in Keys
  BY DEF KeyDown, Keys
<1> HIDE DEF f
<1> QED BY <1>2, <1>3, <1>4, HandledKeeps

LEMMA Rows ==
  /\ Character(0, "letter") = "lower" /\ Character(2, "letter") = "upper"
  /\ Character(0, "digit") = "digit" /\ Character(1, "digit") = "shifted digit"
  /\ Character(0, "symbol") = "symbol" /\ Character(1, "symbol") = "shifted symbol"
  /\ Character(2, "symbol") = "nul"
  /\ \A m \in {0, 1, 2} : Character(m, "none") = "nul"
<1>1. Character(0, "letter") = "lower"  BY DEF Character
<1>2. Character(2, "letter") = "upper"  BY DEF Character
<1>3. Character(0, "digit") = "digit"  BY DEF Character
<1>4. Character(1, "digit") = "shifted digit"  BY DEF Character
<1>5. Character(0, "symbol") = "symbol"  BY DEF Character
<1>6. Character(1, "symbol") = "shifted symbol"  BY DEF Character
<1>7. Character(2, "symbol") = "nul"  BY DEF Character
<1>8. \A m \in {0, 1, 2} : Character(m, "none") = "nul"  BY DEF Character
<1> QED BY <1>1, <1>2, <1>3, <1>4, <1>5, <1>6, <1>7, <1>8

\* The tables give what the comment on TypedFollowsKeys says.
LEMMA Characters ==
  ASSUME Shown \in Flags, NEW k \in Plain
  PROVE  /\ Character(Map(k), k) \in Outputs
         /\ k = "letter" => Character(Map(k), k) =
              IF ~Shown.ctrl /\ ~(Shown.shift <=> Shown.caps_lock)
              THEN "upper" ELSE "lower"
         /\ k = "digit" => Character(Map(k), k) =
              IF ~Shown.ctrl /\ Shown.shift THEN "shifted digit" ELSE "digit"
<1> DEFINE ctrl == Shown.ctrl
           shift == Shown.shift
           caps == Shown.caps_lock
<1>1. ctrl \in BOOLEAN /\ shift \in BOOLEAN /\ caps \in BOOLEAN
  BY DEF Flags
<1>2. Map(k) = CASE ctrl -> 0
                 [] ~ctrl /\ shift /\ ~caps -> IF k = "letter" THEN 2 ELSE 1
                 [] ~ctrl /\ shift /\ caps -> IF k = "digit" THEN 1 ELSE 0
                 [] ~ctrl /\ ~shift -> IF caps /\ k = "letter" THEN 2 ELSE 0
  BY DEF Map
<1> HIDE DEF ctrl, shift, caps
<1>3. Map(k) = IF ctrl THEN 0
               ELSE IF shift /\ ~caps THEN IF k = "letter" THEN 2 ELSE 1
               ELSE IF shift THEN IF k = "digit" THEN 1 ELSE 0
               ELSE IF caps /\ k = "letter" THEN 2 ELSE 0
  BY <1>1, <1>2
<1> PICK m \in {0, 1, 2} : m = Map(k)
  BY <1>3
<1>4. CASE k = "letter"
  <2>1. m = IF ~ctrl /\ ~(shift <=> caps) THEN 2 ELSE 0
    BY <1>1, <1>3, <1>4
  <2> QED BY <2>1, <1>4, Rows DEF Outputs, ctrl, shift, caps
<1>5. CASE k = "digit"
  <2>1. m = IF ~ctrl /\ shift THEN 1 ELSE 0
    BY <1>1, <1>3, <1>5
  <2> QED BY <2>1, <1>5, Rows DEF Outputs, ctrl, shift, caps
<1>6. CASE k \in {"symbol", "none"}
  BY <1>6, Rows DEF Outputs
<1> QED BY <1>4, <1>5, <1>6 DEF Plain

\* A key that changes no flag.
LEMMA NoFlagKeeps ==
  ASSUME KeyInv, NEW k \in Keys \ Holdable, Fetch(Byte(k, TRUE)),
         termis' = termis, alt_pressed' = alt_pressed, NoSwitch,
         typed' = Nothing \/ typed' \in [key : Plain, out : Outputs]
  PROVE  KeyInv'
<1>1. /\ Shown \in Flags /\ alt_pressed \in BOOLEAN
      /\ terminal_number \in Terminals /\ termis \in [Terminals -> Flags]
  BY DEF KeyInv, TypeOK, Shown
<1>2. SetFlags(Shown)
  BY <1>1 DEF SetFlags, Shown
<1>3. k \notin Ctrls /\ k \notin Shifts /\ k # "caps" /\ {k} \cap Arrows = {}
  BY OtherKeys
<1> QED BY <1>1, <1>2, <1>3, HandledKeeps

LEMMA PlainDownKeeps ==
  ASSUME KeyInv, NEW k \in Plain, PlainDown(k)
  PROVE  KeyInv'
<1>1. Shown \in Flags
  BY DEF KeyInv, TypeOK, Shown
<1>2. typed' = Nothing \/ typed' \in [key : Plain, out : Outputs]
  BY <1>1, Characters DEF PlainDown, Type
<1>3. k \in Keys /\ k \notin Holdable
  BY OtherKeys DEF Keys
<1> QED BY <1>2, <1>3, NoFlagKeeps DEF PlainDown, kernel, NoSwitch, Down, Byte

\* Another terminal comes to the screen: its flags are clear, and those of the
\* keys that are down if only Alt is.
LEMMA SwitchKeeps ==
  ASSUME KeyInv, NEW t \in Terminals, FKeyDown(t), alt_pressed
  PROVE  KeyInv'
<1>1. FKey(t) \in Keys \ Holdable /\ Fetch(Byte(FKey(t), TRUE))
  BY FunctionKeys, OtherKeys DEF FKeyDown, Keys, Down, Byte
<1>2. /\ Waits(FALSE, FKey(t), TRUE) /\ bytes' = <<>>
      /\ held' = held /\ last' = last /\ odd' = odd
  BY <1>1, Fetched
<1>3. /\ terminal_number' = t /\ typed' = Nothing
      /\ astray' = IF t # terminal_number /\ held \ Alts # {}
                   THEN astray \cup {t, terminal_number} ELSE astray
      /\ alt_pressed' = alt_pressed /\ termis' = termis
  BY DEF FKeyDown, Silent
<1>4. TypeOK'
  BY <1>2, <1>3 DEF KeyInv, TypeOK
<1>5. Hand'
  BY <1>2, <1>3 DEF KeyInv, Hand
<1>6. FlagsInv'
  <2> SUFFICES ASSUME NEW u \in Terminals \ astray'
               PROVE  IF u # t THEN Clear(termis[u], u)' ELSE Follow(termis[u])'
    <3>1. ASSUME NEW pre \in BOOLEAN, NEW k2 \in Keys, NEW d2 \in BOOLEAN
          PROVE  ~Waits(pre, k2, d2)'
      BY <1>2, SentAre DEF Waits
    <3> QED BY <3>1, <1>2, <1>3 DEF FlagsInv
  <2>1. u \in Terminals \ astray
    BY <1>3
  <2>2. ASSUME u = terminal_number
        PROVE  Follow(termis[u])
    <3>1. Becomes(termis[u], ~FALSE /\ termis[u].ctrl, FKey(t), TRUE)
      BY <2>1, <2>2, <1>1, <1>2 DEF KeyInv, FlagsInv
    <3>2. /\ FKey(t) \notin Ctrls /\ FKey(t) \notin Shifts /\ FKey(t) # "caps"
          /\ {FKey(t)} \cap Arrows = {}
      BY <1>1, OtherKeys
    <3> QED BY <3>1, <3>2 DEF Becomes, Follow
  <2>3. ASSUME u # terminal_number
        PROVE  Clear(termis[u], u)
    BY <2>1, <2>3 DEF KeyInv, FlagsInv
  <2>4. CASE t = terminal_number
    <3>1. CASE u = t
      BY <3>1, <2>2, <2>4, <1>2, <1>3 DEF Follow, Holding
    <3>2. CASE u # t
      BY <3>2, <2>3, <2>4, <1>2, <1>3 DEF Clear
    <3> QED BY <3>1, <3>2
  <2>5. CASE t # terminal_number /\ u \in {t, terminal_number}
    <3>1. held \subseteq Alts
      BY <2>5, <1>3
    <3>2. /\ held \cap Ctrls = {} /\ held \cap Shifts = {}
          /\ held \cap Arrows = {} /\ "caps" \notin held
      BY <3>1 DEF Alts, Ctrls, Shifts, Arrows
    <3>3. CASE u = t
      <4>1. Clear(termis[u], u)
        BY <3>3, <2>3, <2>5
      <4> QED BY <4>1, <3>2, <3>3, <1>2, <1>3 DEF Clear, Follow, Holding
    <3>4. CASE u = terminal_number
      <4>1. Follow(termis[u])
        BY <3>4, <2>2
      <4> QED BY <4>1, <3>2, <3>4, <2>5, <1>2, <1>3 DEF Clear, Follow, Holding
    <3> QED BY <3>3, <3>4, <2>5
  <2>6. CASE u \notin {t, terminal_number}
    BY <2>6, <2>3, <1>2, <1>3 DEF Clear
  <2> QED BY <2>4, <2>5, <2>6
<1> QED BY <1>4, <1>5, <1>6 DEF KeyInv

LEMMA FKeyDownKeeps ==
  ASSUME KeyInv, NEW t \in Terminals, FKeyDown(t)
  PROVE  KeyInv'
<1>1. CASE ~alt_pressed
  <2>1. FKey(t) \in Keys \ Holdable /\ Fetch(Byte(FKey(t), TRUE))
    BY FunctionKeys, OtherKeys DEF FKeyDown, Keys, Down, Byte
  <2>2. Shown \in Flags /\ "none" \in Plain
    BY DEF KeyInv, TypeOK, Shown, Plain
  <2>3. typed' = Nothing \/ typed' \in [key : Plain, out : Outputs]
    <3>1. Type("none")
      BY <1>1 DEF FKeyDown
    <3>2. Character(Map("none"), "none") \in Outputs
      BY <2>2, Characters
    <3> QED BY <2>2, <3>1, <3>2 DEF Type
  <2> QED BY <1>1, <2>1, <2>3, NoFlagKeeps DEF FKeyDown, NoSwitch
<1> QED BY <1>1, SwitchKeeps

-----------------------------------------------------------------------------
(* What is typed.                                                          *)

LEMMA TypeFollows ==
  ASSUME KeyInv, KeyInv', NEW k \in Plain, Type(k), bytes' = <<>>,
         termis' = termis, terminal_number' = terminal_number
  PROVE  TypedFollowsKeys'
<1> SUFFICES ASSUME typed' # Nothing, terminal_number \notin astray'
             PROVE  /\ ~(Holding(Arrows))'
                    /\ typed'.key = "letter" => typed'.out =
                         IF ((Holding(Shifts))' /\ ~(Holding(Ctrls))')
                            # (terminal_number \in odd' /\ ~(Holding(Ctrls))')
                         THEN "upper" ELSE "lower"
                    /\ typed'.key = "digit" => typed'.out =
                         IF (Holding(Shifts))' /\ ~(Holding(Ctrls))'
                         THEN "shifted digit" ELSE "digit"
  BY DEF TypedFollowsKeys
<1>1. Shown \in Flags /\ terminal_number \in Terminals
  BY DEF KeyInv, TypeOK, Shown
<1>2. Follow(Shown)'
  BY <1>1 DEF KeyInv, FlagsInv, Shown
<1>3. Shown.arrows = {} /\ typed' = [key |-> k, out |-> Character(Map(k), k)]
  BY DEF Type
<1>4. /\ Shown.ctrl <=> (Holding(Ctrls))'
      /\ Shown.shift <=> (Holding(Shifts))'
      /\ Shown.caps_lock <=> terminal_number \in odd'
      /\ ~(Holding(Arrows))'
  BY <1>2, <1>3 DEF Follow, Shown, Holding
<1> HIDE DEF Holding
<1> QED BY <1>1, <1>3, <1>4, Characters

LEMMA TypedInit == Init => KeyInv /\ TypedFollowsKeys
<1> SUFFICES ASSUME Init
             PROVE  KeyInv /\ TypedFollowsKeys
  OBVIOUS
<1>1. /\ 0 \in Terminals /\ Len(<<>>) <= 2 /\ alt_pressed \in BOOLEAN
      /\ [ctrl |-> FALSE, shift |-> FALSE, caps_lock |-> FALSE,
          caps_on |-> FALSE, arrows |-> {}] \in Flags
  BY KeyboardAssumption DEF Terminals, Flags, Init
<1>2. TypeOK
  BY <1>1 DEF Init, TypeOK
<1>3. Hand
  BY DEF Init, Hand
<1>4. \A t \in Terminals : Clear(termis[t], t) /\ (t = terminal_number => Follow(termis[t]))
  BY DEF Init, Clear, Follow, Holding
<1>5. \A pre \in BOOLEAN, k \in Keys, d \in BOOLEAN : ~Waits(pre, k, d)
  BY SentAre DEF Init, Waits
<1> QED BY <1>2, <1>3, <1>4, <1>5 DEF Init, KeyInv, FlagsInv, TypedFollowsKeys

LEMMA KeyStep == KeyInv /\ [Next]_vars => KeyInv'
<1> SUFFICES ASSUME KeyInv, [Next]_vars
             PROVE  KeyInv'
  OBVIOUS
<1>1. CASE User
  BY <1>1, UserKeeps
<1>2. CASE Handler
  BY <1>2, PrefixKeeps, KeyUpKeeps, KeyDownKeeps, PlainDownKeeps, FKeyDownKeeps
     DEF Handler
<1>3. CASE UNCHANGED vars
  BY <1>3 DEF vars, KeyInv, TypeOK, Hand, FlagsInv, Follow, Becomes, Clear, Waits, Holding
<1> QED BY <1>1, <1>2, <1>3 DEF Next

LEMMA TypedStep ==
  KeyInv /\ KeyInv' /\ TypedFollowsKeys /\ [Next]_vars => TypedFollowsKeys'
<1> SUFFICES ASSUME KeyInv, KeyInv', TypedFollowsKeys, [Next]_vars
             PROVE  TypedFollowsKeys'
  OBVIOUS
<1>1. ASSUME typed' = Nothing
      PROVE  TypedFollowsKeys'
  BY <1>1 DEF TypedFollowsKeys
<1>2. CASE User
  BY <1>1, <1>2 DEF User, Press, Repeat, Release, Hit, Send
<1>3. CASE Prefix
  BY <1>1, <1>3 DEF Prefix, Silent
<1>4. ASSUME NEW k \in Holdable, KeyUp(k) \/ KeyDown(k)
      PROVE  TypedFollowsKeys'
  BY <1>1, <1>4 DEF KeyUp, KeyDown, Silent
<1>5. ASSUME NEW k \in Plain, PlainDown(k)
      PROVE  TypedFollowsKeys'
  <2>1. k \in Keys /\ Fetch(Byte(k, TRUE))
    BY <1>5 DEF PlainDown, Keys, Down, Byte
  <2>2. bytes' = <<>>
    BY <2>1, Fetched
  <2> QED BY <1>5, <2>2, TypeFollows DEF PlainDown, kernel
<1>6. ASSUME NEW t \in Terminals, FKeyDown(t)
      PROVE  TypedFollowsKeys'
  <2>1. CASE alt_pressed
    BY <1>1, <1>6, <2>1 DEF FKeyDown, Silent
  <2>2. CASE ~alt_pressed
    <3>1. FKey(t) \in Keys /\ Fetch(Byte(FKey(t), TRUE)) /\ "none" \in Plain
      BY <1>6, FunctionKeys DEF FKeyDown, Keys, Down, Byte, Plain
    <3>2. bytes' = <<>>
      BY <3>1, Fetched
    <3>3. Type("none") /\ termis' = termis /\ terminal_number' = terminal_number
      BY <1>6, <2>2 DEF FKeyDown
    <3> QED BY <3>1, <3>2, <3>3, TypeFollows
  <2> QED BY <2>1, <2>2
<1>7. CASE UNCHANGED vars
  BY <1>7 DEF vars, TypedFollowsKeys, Holding
<1> QED BY <1>2, <1>3, <1>4, <1>5, <1>6, <1>7 DEF Next, Handler

LEMMA KeyIsInvariant == Spec => [](KeyInv /\ TypedFollowsKeys)
BY TypedInit, KeyStep, TypedStep, PTL DEF Spec

-----------------------------------------------------------------------------
\* Every variable has its type: at most two bytes wait, and the tables hold a
\* character for every key and every one of the maps.
THEOREM KeyboardTypes == Spec => []TypeOK
<1>1. KeyInv => TypeOK
  BY DEF KeyInv
<1> QED BY <1>1, KeyIsInvariant, PTL

\* Whenever no byte waits, the flags of a terminal are the keys that are down,
\* and Caps Lock is on after an odd number of presses: kb_handler() loses no
\* change but those that Stray and FKeyDown name.
THEOREM FlagsAreKeys == Spec => []FlagsFollowKeys
<1>1. KeyInv => FlagsFollowKeys
  <2> SUFFICES ASSUME KeyInv, bytes = <<>>, NEW t \in Terminals \ astray
               PROVE  termis[t] =
                        [ctrl      |-> t = terminal_number /\ Holding(Ctrls),
                         shift     |-> t = terminal_number /\ Holding(Shifts),
                         caps_lock |-> t \in odd,
                         caps_on   |-> t = terminal_number /\ "caps" \in held,
                         arrows    |-> IF t = terminal_number THEN held \cap Arrows
                                       ELSE {}]
    BY DEF FlagsFollowKeys
  <2>1. termis[t] \in Flags
    BY DEF KeyInv, TypeOK
  <2>2. IF t # terminal_number THEN Clear(termis[t], t) ELSE Follow(termis[t])
    BY DEF KeyInv, FlagsInv
  <2> DEFINE f == termis[t]
             ctrl == t = terminal_number /\ Holding(Ctrls)
             shift == t = terminal_number /\ Holding(Shifts)
             lock == t \in odd
             on == t = terminal_number /\ "caps" \in held
             arrows == IF t = terminal_number THEN held \cap Arrows ELSE {}
  <2>3. /\ f.ctrl \in BOOLEAN /\ f.shift \in BOOLEAN
        /\ f.caps_lock \in BOOLEAN /\ f.caps_on \in BOOLEAN
    BY <2>1 DEF Flags
  <2>4. (f.ctrl <=> ctrl) /\ (f.shift <=> shift)
    BY <2>2 DEF Clear, Follow
  <2>5. (f.caps_lock <=> lock) /\ (f.caps_on <=> on) /\ f.arrows = arrows
    BY <2>2 DEF Clear, Follow
  <2>6. ctrl \in BOOLEAN /\ shift \in BOOLEAN /\ lock \in BOOLEAN /\ on \in BOOLEAN
    OBVIOUS
  <2>7. f = [ctrl |-> f.ctrl, shift |-> f.shift, caps_lock |-> f.caps_lock,
             caps_on |-> f.caps_on, arrows |-> f.arrows]
    BY <2>1 DEF Flags
  <2> HIDE DEF f, ctrl, shift, lock, on, arrows
  <2>8. f.ctrl = ctrl /\ f.shift = shift /\ f.caps_lock = lock /\ f.caps_on = on
    BY <2>3, <2>4, <2>5, <2>6
  <2>9. f = [ctrl |-> ctrl, shift |-> shift, caps_lock |-> lock, caps_on |-> on,
             arrows |-> arrows]
    BY <2>5, <2>7, <2>8, Zenon
  <2> QED BY <2>9, Zenon DEF f, ctrl, shift, lock, on, arrows
<1> QED BY <1>1, KeyIsInvariant, PTL

\* The character of a key is the one that the keys, which are still down, and
\* the number of presses of Caps Lock ask for.
THEOREM TypedIsKeys == Spec => []TypedFollowsKeys
BY KeyIsInvariant, PTL
=============================================================================
