---------------------------- MODULE ConsoleProofs ---------------------------
(***************************************************************************)
(* What the terminals show, for any size of the screen and any number of   *)
(* terminals, of processes that write and of keys.                         *)
(*                                                                         *)
(* The text of a terminal is ahead of its page from the moment that        *)
(* write_terminal() fetches a character until the cursor is behind it.     *)
(* Fits says how far, at every place of the call: which cell is not yet    *)
(* written, how many cells have been scrolled, which one is to be erased.  *)
(* It is about the view of the terminal, so it survives when the terminal  *)
(* is shown or left.  Told says the same of the two bytes that the display *)
(* gets.  OwnInv says that a process writes to the page of its own         *)
(* terminal unless nothing is said of the two, so that no other process    *)
(* disturbs what Fits says.  The lemmas before the steps are about pages   *)
(* and texts alone.                                                        *)
(***************************************************************************)
EXTENDS Console, SequenceTheorems, TLAPS

\* The positions on the screen, the last one, and the one behind a position.
Inside == [x : 0 .. WIDTH - 1, y : 0 .. HEIGHT - 1]
End    == [x |-> WIDTH - 1, y |-> HEIGHT - 1]
Bottom == [x |-> 0, y |-> HEIGHT - 1]
Behind(c) == IF c.x # WIDTH - 1 THEN [x |-> c.x + 1, y |-> c.y]
             ELSE [x |-> 0, y |-> c.y + 1]

\* The texts whose cursor is on the screen, and one with another character.
Texts == [rows : Rows, cursor : Inside]
Written(m, c, ch) == [m EXCEPT !.rows[c.y][c.x] = ch]

\* The character of a text that belongs in cell k.
CellOf(t, k) == t.rows[k \div WIDTH][k % WIDTH]

\* How a page is related to a text: it shows the text; its first n cells have
\* been scrolled to the text; the text is what printing comes to once the
\* cursor c advances; it shows the text but for the cell to be erased.
Shows(page, t) == \A k \in Cells : page[k] = CellOf(t, k)

Scrolls(page, n, t) ==
  \A k \in Cells :
    /\ k < n => page[k] = CellOf(t, k)
    /\ k >= n /\ k + WIDTH \in Cells => page[k + WIDTH] = CellOf(t, k)
    /\ k + WIDTH \notin Cells => CellOf(t, k) = BLANK

Advances(page, c, t) ==
  IF c = End THEN t.cursor = Bottom /\ Scrolls(page, 0, t)
             ELSE t.cursor = Behind(c) /\ Shows(page, t)

Erases(page, t) ==
  \A k \in Cells :
    IF k = Position(t.cursor) THEN CellOf(t, k) = BLANK
                              ELSE page[k] = CellOf(t, k)

\* The registers of a terminal; one that no process writes to is idle.
Idle == [pc |-> "program", seen |-> 0, at |-> Home, ch |-> BLANK, cell |-> 0]
Registers(t) == IF t \in Writers THEN local[t] ELSE Idle
Places == {"program", "next", "put", "load", "update", "scroll", "store",
           "clear", "back", "revert", "erase", "cursor", "high", "highbyte", "low",
           "lowbyte"}
Moving == {"cursor", "high", "highbyte", "low", "lowbyte"}

\* What the registers l of process w hold at each place of write_terminal().
Control(w, l) ==
  /\ l.pc \in {"program", "next", "put", "load", "update"} =>
       l.ch \in Glyphs /\ l.cell = 0
  /\ l.pc \in {"scroll", "store", "clear"} => l.ch \in Glyphs
  /\ l.pc = "store" => l.cell + WIDTH \in Cells
  /\ l.pc = "clear" => l.cell + WIDTH \notin Cells
  /\ l.pc \in {"back", "revert", "erase"} => l.ch = BS
  /\ l.pc \in Moving => l.seen = w

\* How far the page and the cursor c of a process with the registers l are
\* behind its text m.
Fits(l, page, c, m) ==
  /\ l.pc \in {"program", "next"} => c = m.cursor /\ Shows(page, m)
  /\ l.pc = "put" => Advances([page EXCEPT ![Position(c)] = l.ch], c, m)
  /\ l.pc \in {"load", "update"} => Advances(page, c, m)
  /\ l.pc \in {"put", "load", "update", "back", "revert"} => c \in Inside
  /\ l.pc \in {"put", "update", "revert"} => l.at = c
  /\ l.pc \in {"scroll", "store", "clear"} =>
       m.cursor = Bottom /\ Scrolls(page, l.cell, m)
  /\ l.pc = "store" => l.ch = page[l.cell + WIDTH]
  /\ l.pc \in {"back", "revert"} =>
       c # Home /\ m.cursor = Revert(c) /\ Erases(page, m)
  /\ l.pc \in Moving =>
       /\ c = m.cursor
       /\ IF l.ch = BS THEN Erases(page, m) ELSE Shows(page, m)
  /\ l.pc = "erase" => c = m.cursor /\ Erases(page, m)

\* What the display, with the registers i, hi and lo, has been told of the
\* cursor c of a process that writes to the screen with the registers l.
Told(l, c, i, hi, lo) ==
  /\ l.pc \in {"program", "next", "erase", "low", "lowbyte"} =>
       hi = High(Position(c))
  /\ l.pc \in {"program", "next", "erase"} => lo = Low(Position(c))
  /\ l.pc \in Moving \ {"cursor"} => l.at = c
  /\ l.pc = "highbyte" => i = 14
  /\ l.pc = "lowbyte" => i = 15

\* The invariant.  When no key came in the middle of a call, the calls know
\* whether their terminal is shown, and only the one for the shown terminal is
\* at work on the display.
TextInv    == text \in [Terminals -> Texts]
ControlInv == \A w \in Writers : Control(w, local[w])
ScreenInv  ==
  \A t \in Terminals \ mixed : Fits(Registers(t), View(t), cursor[t], text[t])
Knows == \A w \in Writers : InCall(w) => (Seen(w) <=> w = terminal_number)
DisplayInv ==
  ~lagging => /\ Knows
              /\ Told(Registers(terminal_number), cursor[terminal_number],
                      index, high, low)
OwnInv == \A w \in Writers : Misled(w) => {w, Recorded(w)} \subseteq mixed
ConsoleInv ==
  TypeOK /\ TextInv /\ ControlInv /\ ScreenInv /\ DisplayInv /\ OwnInv

-----------------------------------------------------------------------------
(* Cells.                                                                  *)

LEMMA Division ==
  ASSUME NEW a \in Nat, NEW b \in Nat \ {0}
  PROVE  /\ a \div b \in Nat /\ a % b \in 0 .. b - 1
         /\ a = (a \div b) * b + (a % b)
OBVIOUS

LEMMA DivisionIsUnique ==
  ASSUME NEW b \in Nat \ {0}, NEW q \in Nat, NEW r \in 0 .. b - 1,
         NEW a \in Nat, a = q * b + r
  PROVE  a \div b = q /\ a % b = r
OBVIOUS

LEMMA SmallRemainder ==
  ASSUME NEW b \in Nat \ {0}, NEW a \in 0 .. b - 1
  PROVE  a % b = a
OBVIOUS

LEMMA Remainder ==
  ASSUME NEW b \in Nat \ {0}, NEW a \in Nat
  PROVE  a % b \in 0 .. b - 1
OBVIOUS

\* One less in a word.
LEMMA Decremented ==
  ASSUME NEW b \in Nat \ {0}, NEW a \in Nat, a - 1 \in 0 .. b - 1
  PROVE  (a + b - 1) % b = a - 1
<1>1. PICK r \in Nat, s \in Nat : r = a - 1 /\ s = a + b - 1
  OBVIOUS
<1>2. s = 1 * b + r /\ r \in 0 .. b - 1 /\ 1 \in Nat
  BY <1>1
<1>3. s % b = r
  BY <1>1, <1>2, DivisionIsUnique
<1> QED BY <1>1, <1>3

LEMMA Sizes ==
  /\ WIDTH \in Nat \ {0} /\ HEIGHT \in Nat \ {0} /\ ByteSize \in Nat \ {0}
  /\ WIDTH * HEIGHT \in Nat \ {0}
  /\ WordSize \in Nat \ {0} /\ WIDTH * HEIGHT <= WordSize
  /\ WIDTH <= WordSize /\ HEIGHT <= WordSize
  /\ WordSize \div 2 \in Nat \ {0} /\ WIDTH * HEIGHT <= WordSize \div 2
  /\ PAGE \in Nat \ {0} /\ WIDTH * HEIGHT <= PAGE
<1>1. WIDTH \in Nat \ {0} /\ HEIGHT \in Nat \ {0} /\ ByteSize \in Nat \ {0}
  BY ConsoleAssumption
<1>2. WIDTH * HEIGHT \in Nat /\ WIDTH <= WIDTH * HEIGHT
      /\ HEIGHT <= WIDTH * HEIGHT /\ WIDTH * HEIGHT # 0
  BY <1>1
<1>3. PICK n \in Nat : n = WIDTH * HEIGHT
  BY <1>2
<1>4. /\ WordSize \div 2 \in Nat /\ n <= WordSize \div 2
      /\ WordSize \in Nat /\ n <= WordSize /\ PAGE \in Nat /\ n <= PAGE
  BY <1>3, ConsoleAssumption
<1> QED BY <1>1, <1>2, <1>3, <1>4

\* The cell of a position.
LEMMA CellIs ==
  ASSUME NEW x \in 0 .. WIDTH - 1, NEW y \in 0 .. HEIGHT - 1
  PROVE  /\ y * WIDTH + x \in Cells
         /\ (y * WIDTH + x) % WordSize = y * WIDTH + x
         /\ (y * WIDTH + x) % (WordSize \div 2) = y * WIDTH + x
         /\ (y * WIDTH + x) \div WIDTH = y /\ (y * WIDTH + x) % WIDTH = x
<1>1. WIDTH \in Nat \ {0} /\ HEIGHT \in Nat \ {0} /\ x \in Nat /\ y \in Nat
  BY Sizes
<1>2. PICK n \in Nat : n = y * WIDTH + x
  BY <1>1
<1>3. n < WIDTH * HEIGHT
  <2>1. y + 1 <= HEIGHT
    BY <1>1
  <2>2. (y + 1) * WIDTH <= HEIGHT * WIDTH
    BY <1>1, <2>1
  <2>3. (y + 1) * WIDTH = y * WIDTH + WIDTH /\ HEIGHT * WIDTH = WIDTH * HEIGHT
    BY <1>1
  <2> QED BY <1>1, <1>2, <2>2, <2>3
<1>4. n \in Cells
  BY <1>3, Sizes DEF Cells
<1>5. n % WordSize = n /\ n % (WordSize \div 2) = n
  <2>1. PICK h \in Nat \ {0} : h = WordSize \div 2
    BY Sizes
  <2>2. n \in 0 .. WordSize - 1 /\ n \in 0 .. h - 1
    BY <1>3, <2>1, Sizes
  <2> QED BY <2>1, <2>2, Sizes, SmallRemainder
<1>6. n \div WIDTH = y /\ n % WIDTH = x
  BY <1>1, <1>2, DivisionIsUnique
<1> QED BY <1>2, <1>4, <1>5, <1>6

\* The position of a cell.
LEMMA PlaceIs ==
  ASSUME NEW k \in Cells
  PROVE  /\ k \in Nat /\ k < WIDTH * HEIGHT
         /\ k \div WIDTH \in 0 .. HEIGHT - 1 /\ k % WIDTH \in 0 .. WIDTH - 1
         /\ k = (k \div WIDTH) * WIDTH + (k % WIDTH)
<1>1. k \in Nat /\ k < WIDTH * HEIGHT
  BY Sizes DEF Cells
<1>2. /\ k \div WIDTH \in Nat /\ k % WIDTH \in 0 .. WIDTH - 1
      /\ k = (k \div WIDTH) * WIDTH + (k % WIDTH)
  BY <1>1, Sizes, Division
<1>3. k \div WIDTH < HEIGHT
  <2>1. PICK q \in Nat, r \in Nat : q = k \div WIDTH /\ k = q * WIDTH + r
    BY <1>2, Sizes
  <2>2. q >= HEIGHT => q * WIDTH >= HEIGHT * WIDTH
    BY Sizes
  <2>3. HEIGHT * WIDTH = WIDTH * HEIGHT
    BY Sizes
  <2> QED BY <1>1, <2>1, <2>2, <2>3, Sizes
<1> QED BY <1>1, <1>2, <1>3, Sizes

\* The cell below a cell.
LEMMA BelowIs ==
  ASSUME NEW k \in Cells
  PROVE  /\ k + WIDTH \in Cells <=> k \div WIDTH # HEIGHT - 1
         /\ (k + WIDTH) \div WIDTH = (k \div WIDTH) + 1
         /\ (k + WIDTH) % WIDTH = k % WIDTH
<1>1. PICK q \in Nat, r \in Nat :
        /\ q = k \div WIDTH /\ q < HEIGHT /\ r = k % WIDTH /\ r < WIDTH
        /\ k = q * WIDTH + r
  BY PlaceIs, Sizes
<1>2. k + WIDTH = (q + 1) * WIDTH + r
  BY <1>1, Sizes
<1>3. (k + WIDTH) \div WIDTH = q + 1 /\ (k + WIDTH) % WIDTH = r
  <2>0. k \in Nat
    BY PlaceIs
  <2>1. PICK a \in Nat, p \in Nat : a = k + WIDTH /\ p = q + 1
    BY <1>1, <2>0, Sizes
  <2>2. a = p * WIDTH + r /\ r \in 0 .. WIDTH - 1
    BY <1>1, <1>2, <2>1, Sizes
  <2>3. a \div WIDTH = p /\ a % WIDTH = r
    BY <2>2, Sizes, DivisionIsUnique
  <2> QED BY <2>1, <2>3
<1>4. q # HEIGHT - 1 => k + WIDTH \in Cells
  <2>1. q # HEIGHT - 1 => q + 1 \in 0 .. HEIGHT - 1
    BY <1>1, Sizes
  <2>2. r \in 0 .. WIDTH - 1
    BY <1>1, Sizes
  <2> QED BY <1>2, <2>1, <2>2, CellIs
<1>5. q = HEIGHT - 1 => k + WIDTH \notin Cells
  <2>1. (k + WIDTH \in Cells) => (k + WIDTH) \div WIDTH \in 0 .. HEIGHT - 1
    BY PlaceIs
  <2> QED BY <1>1, <1>3, <2>1, Sizes
<1> QED BY <1>1, <1>3, <1>4, <1>5

\* Positions that are different have different cells.
LEMMA PositionIs ==
  ASSUME NEW c \in Inside
  PROVE  /\ Position(c) \in Cells /\ Offset(c) = Position(c) /\ OnPage(c)
         /\ Position(c) \div WIDTH = c.y /\ Position(c) % WIDTH = c.x
         /\ \A k \in Cells :
              k = Position(c) <=> k \div WIDTH = c.y /\ k % WIDTH = c.x
<1>1. c.x \in 0 .. WIDTH - 1 /\ c.y \in 0 .. HEIGHT - 1
  BY DEF Inside
<1>2. Position(c) = c.y * WIDTH + c.x /\ Offset(c) = Position(c)
  BY <1>1, CellIs DEF Position, Offset
<1>3. /\ Position(c) \in Cells
      /\ Position(c) \div WIDTH = c.y /\ Position(c) % WIDTH = c.x
  BY <1>1, <1>2, CellIs
<1>4. ASSUME NEW k \in Cells, k \div WIDTH = c.y, k % WIDTH = c.x
      PROVE  k = Position(c)
  <2>1. k = (k \div WIDTH) * WIDTH + (k % WIDTH)
    BY PlaceIs
  <2> QED BY <1>2, <1>4, <2>1
<1>5. OnPage(c)
  BY <1>2, <1>3, Sizes DEF Cells, OnPage
<1> QED BY <1>2, <1>3, <1>4, <1>5

LEMMA OffsetIs ==
  ASSUME NEW c \in Cursors
  PROVE  Offset(c) \in Nat
<1>1. PICK a \in Nat : a = c.y * WIDTH + c.x
  BY Sizes DEF Cursors, Word
<1> QED BY <1>1, Sizes, Division DEF Offset

LEMMA InsideIs ==
  ASSUME NEW x \in 0 .. WIDTH - 1, NEW y \in 0 .. HEIGHT - 1
  PROVE  [x |-> x, y |-> y] \in Inside /\ [x |-> x, y |-> y] \in Cursors
<1>1. x \in Word /\ y \in Word
  BY Sizes DEF Word
<1> QED BY <1>1 DEF Inside, Cursors

LEMMA Corners ==
  /\ Home \in Inside /\ End \in Inside /\ Bottom \in Inside
  /\ Inside \subseteq Cursors
<1>1. /\ 0 \in 0 .. WIDTH - 1 /\ WIDTH - 1 \in 0 .. WIDTH - 1
      /\ 0 \in 0 .. HEIGHT - 1 /\ HEIGHT - 1 \in 0 .. HEIGHT - 1
  BY Sizes
<1>2. 0 .. WIDTH - 1 \subseteq Word /\ 0 .. HEIGHT - 1 \subseteq Word
  BY Sizes DEF Word
<1> QED BY <1>1, <1>2 DEF Inside, Cursors, Home, End, Bottom

LEMMA BehindIs ==
  ASSUME NEW c \in Inside, c # End
  PROVE  /\ Behind(c) \in Inside
         /\ c.x # WIDTH - 1 => c.x + 1 \in 0 .. WIDTH - 1
         /\ c.x = WIDTH - 1 => c.y + 1 \in 0 .. HEIGHT - 1
         /\ c.x = WIDTH - 1 => c.y # HEIGHT - 1
<1>1. /\ c.x \in 0 .. WIDTH - 1 /\ c.y \in 0 .. HEIGHT - 1
      /\ c = [x |-> c.x, y |-> c.y]
  BY DEF Inside
<1>2. c.x = WIDTH - 1 => c.y # HEIGHT - 1
  BY <1>1 DEF End
<1>3. /\ c.x # WIDTH - 1 => c.x + 1 \in 0 .. WIDTH - 1
      /\ c.x = WIDTH - 1 => c.y + 1 \in 0 .. HEIGHT - 1
      /\ 0 \in 0 .. WIDTH - 1
  BY <1>1, <1>2, Sizes
<1>4. Behind(c) \in Inside
  BY <1>1, <1>3, InsideIs DEF Behind
<1> QED BY <1>2, <1>3, <1>4

LEMMA RevertIs ==
  ASSUME NEW c \in Inside
  PROVE  /\ Revert(c) \in Inside
         /\ c # Home /\ c.x = 0 =>
              c.y - 1 \in 0 .. HEIGHT - 1
              /\ Revert(c) = [x |-> WIDTH - 1, y |-> c.y - 1]
         /\ c # Home /\ c.x # 0 =>
              c.x - 1 \in 0 .. WIDTH - 1
              /\ Revert(c) = [x |-> c.x - 1, y |-> c.y]
<1>1. /\ c.x \in 0 .. WIDTH - 1 /\ c.y \in 0 .. HEIGHT - 1
      /\ c = [x |-> c.x, y |-> c.y]
  BY DEF Inside
<1>2. CASE c = Home
  BY <1>2 DEF Revert
<1>3. CASE c # Home /\ c.x = 0
  <2>1. c.y # 0
    BY <1>1, <1>3 DEF Home
  <2>2. c.y - 1 \in 0 .. HEIGHT - 1 /\ WIDTH - 1 \in 0 .. WIDTH - 1
    BY <1>1, <2>1, Sizes
  <2>3. Revert(c) = [x |-> WIDTH - 1, y |-> c.y - 1]
    BY <1>3 DEF Revert
  <2> QED BY <1>3, <2>2, <2>3, InsideIs
<1>4. CASE c # Home /\ c.x # 0
  <2>1. c.x - 1 \in 0 .. WIDTH - 1
    BY <1>1, <1>4, Sizes
  <2>2. Revert(c) = [c EXCEPT !.x = @ - 1]
    BY <1>4 DEF Revert
  <2>3. Revert(c) = [x |-> c.x - 1, y |-> c.y]
    BY <1>1, <2>2
  <2> QED BY <1>1, <1>4, <2>1, <2>3, InsideIs
<1> QED BY <1>2, <1>3, <1>4

-----------------------------------------------------------------------------
(* Texts.                                                                  *)

LEMMA Alphabet ==
  /\ BLANK \in Glyphs /\ BS \notin Glyphs /\ LF \notin Glyphs /\ BS # LF
  /\ BLANK # LF /\ BLANK # BS
BY ConsoleAssumption DEF Glyphs, BLANK, BS, LF

LEMMA RowsAre ==
  ASSUME NEW m, m.rows \in Rows, NEW k \in Cells
  PROVE  CellOf(m, k) \in Glyphs
<1>1. k \div WIDTH \in 0 .. HEIGHT - 1 /\ k % WIDTH \in 0 .. WIDTH - 1
  BY PlaceIs
<1> QED BY <1>1 DEF CellOf, Rows

LEMMA WrittenIs ==
  ASSUME NEW m \in Texts, NEW c \in Inside, NEW ch \in Glyphs
  PROVE  /\ Written(m, c, ch) \in Texts
         /\ Written(m, c, ch).cursor = m.cursor
         /\ \A k \in Cells : CellOf(Written(m, c, ch), k) =
              IF k = Position(c) THEN ch ELSE CellOf(m, k)
<1>1. c.x \in 0 .. WIDTH - 1 /\ c.y \in 0 .. HEIGHT - 1
  BY DEF Inside
<1>2. PICK r \in Rows : r = [m.rows EXCEPT ![c.y] = [@ EXCEPT ![c.x] = ch]]
  <2>1. m.rows \in Rows
    BY DEF Texts
  <2>2. m.rows[c.y] \in [0 .. WIDTH - 1 -> Glyphs]
    BY <1>1, <2>1 DEF Rows
  <2>3. [m.rows[c.y] EXCEPT ![c.x] = ch] \in [0 .. WIDTH - 1 -> Glyphs]
    BY <2>2
  <2> QED BY <2>1, <2>3 DEF Rows
<1>3. Written(m, c, ch) = [rows |-> r, cursor |-> m.cursor]
  BY <1>2 DEF Written, Texts
<1>4. ASSUME NEW y \in 0 .. HEIGHT - 1, NEW x \in 0 .. WIDTH - 1
      PROVE  r[y][x] = IF y = c.y /\ x = c.x THEN ch ELSE m.rows[y][x]
  BY <1>1, <1>2 DEF Texts, Rows
<1>5. ASSUME NEW k \in Cells
      PROVE  CellOf(Written(m, c, ch), k) =
               IF k = Position(c) THEN ch ELSE CellOf(m, k)
  <2>1. k \div WIDTH \in 0 .. HEIGHT - 1 /\ k % WIDTH \in 0 .. WIDTH - 1
    BY PlaceIs
  <2>2. k = Position(c) <=> k \div WIDTH = c.y /\ k % WIDTH = c.x
    BY PositionIs
  <2> QED BY <1>3, <1>4, <2>1, <2>2 DEF CellOf
<1> QED BY <1>3, <1>5 DEF Texts

\* A page on which the same character is written shows the same text.
LEMMA PutShows ==
  ASSUME NEW p \in Pages, NEW m \in Texts, NEW c \in Inside, NEW ch \in Glyphs,
         Shows(p, m)
  PROVE  Shows([p EXCEPT ![Position(c)] = ch], Written(m, c, ch))
BY WrittenIs, PositionIs DEF Shows, Pages

\* A new line of a text.
LEMMA TextNewLineIs ==
  ASSUME NEW m \in Texts
  PROVE  /\ TextNewLine(m) \in Texts
         /\ m.cursor.y # HEIGHT - 1 =>
              /\ TextNewLine(m).cursor = [x |-> 0, y |-> m.cursor.y + 1]
              /\ TextNewLine(m).rows = m.rows
         /\ m.cursor.y = HEIGHT - 1 =>
              /\ TextNewLine(m).cursor = Bottom
              /\ \A k \in Cells : CellOf(TextNewLine(m), k) =
                   IF k + WIDTH \in Cells THEN CellOf(m, k + WIDTH) ELSE BLANK
<1>1. /\ m.cursor.x \in 0 .. WIDTH - 1 /\ m.cursor.y \in 0 .. HEIGHT - 1
      /\ m.rows \in Rows /\ m = [rows |-> m.rows, cursor |-> m.cursor]
  BY DEF Texts, Inside
<1>2. CASE m.cursor.y # HEIGHT - 1
  <2>1. m.cursor.y < HEIGHT - 1 /\ m.cursor.y + 1 \in 0 .. HEIGHT - 1
        /\ 0 \in 0 .. WIDTH - 1
    BY <1>1, <1>2, Sizes
  <2>2. TextNewLine(m) = [rows |-> m.rows,
                          cursor |-> [x |-> 0, y |-> m.cursor.y + 1]]
    BY <1>1, <2>1 DEF TextNewLine
  <2>3. [x |-> 0, y |-> m.cursor.y + 1] \in Inside
    BY <2>1, InsideIs
  <2> QED BY <1>1, <1>2, <2>2, <2>3 DEF Texts
<1>3. CASE m.cursor.y = HEIGHT - 1
  <2>1. PICK r : r = [y \in 0 .. HEIGHT - 1 |->
                        IF y = HEIGHT - 1 THEN BlankRow ELSE m.rows[y + 1]]
    OBVIOUS
  <2>2. TextNewLine(m) = [rows |-> r, cursor |-> Bottom]
    <3>1. ~(m.cursor.y < HEIGHT - 1)
      BY <1>3, Sizes
    <3> QED BY <2>1, <3>1 DEF TextNewLine, Bottom
  <2>3. r \in Rows
    <3>1. BlankRow \in [0 .. WIDTH - 1 -> Glyphs]
      BY Alphabet DEF BlankRow
    <3>2. \A y \in 0 .. HEIGHT - 1 : y # HEIGHT - 1 => y + 1 \in 0 .. HEIGHT - 1
      BY Sizes
    <3> QED BY <1>1, <2>1, <3>1, <3>2 DEF Rows
  <2>4. ASSUME NEW k \in Cells
        PROVE  CellOf(TextNewLine(m), k) =
                 IF k + WIDTH \in Cells THEN CellOf(m, k + WIDTH) ELSE BLANK
    <3>1. k \div WIDTH \in 0 .. HEIGHT - 1 /\ k % WIDTH \in 0 .. WIDTH - 1
      BY PlaceIs
    <3>2. /\ k + WIDTH \in Cells <=> k \div WIDTH # HEIGHT - 1
          /\ (k + WIDTH) \div WIDTH = (k \div WIDTH) + 1
          /\ (k + WIDTH) % WIDTH = k % WIDTH
      BY BelowIs
    <3> QED BY <2>1, <2>2, <3>1, <3>2 DEF CellOf, BlankRow
  <2> QED BY <1>3, <2>2, <2>3, <2>4, Corners DEF Texts
<1> QED BY <1>2, <1>3

LEMMA NewLineAdvances ==
  ASSUME NEW m \in Texts, NEW p \in Pages, Shows(p, m),
         NEW c \in Inside, c.x = WIDTH - 1, c.y = m.cursor.y
  PROVE  Advances(p, c, TextNewLine(m))
<1>1. c = [x |-> WIDTH - 1, y |-> m.cursor.y]
  BY DEF Inside
<1>2. CASE m.cursor.y # HEIGHT - 1
  <2>1. c # End
    BY <1>2 DEF End
  <2>2. Behind(c) = [x |-> 0, y |-> m.cursor.y + 1]
    BY <1>1 DEF Behind
  <2>3. Shows(p, TextNewLine(m))
    BY <1>2, TextNewLineIs DEF Shows, CellOf
  <2> QED BY <1>2, <2>1, <2>2, <2>3, TextNewLineIs DEF Advances
<1>3. CASE m.cursor.y = HEIGHT - 1
  <2>1. c = End
    BY <1>1, <1>3 DEF End
  <2>2. Scrolls(p, 0, TextNewLine(m))
    <3> SUFFICES ASSUME NEW k \in Cells
                 PROVE  /\ k < 0 => p[k] = CellOf(TextNewLine(m), k)
                        /\ k + WIDTH \in Cells =>
                             p[k + WIDTH] = CellOf(TextNewLine(m), k)
                        /\ k + WIDTH \notin Cells =>
                             CellOf(TextNewLine(m), k) = BLANK
      BY DEF Scrolls
    <3>1. ~(k < 0)
      BY PlaceIs
    <3>2. CellOf(TextNewLine(m), k) =
            IF k + WIDTH \in Cells THEN CellOf(m, k + WIDTH) ELSE BLANK
      BY <1>3, TextNewLineIs
    <3> QED BY <3>1, <3>2 DEF Shows
  <2> QED BY <1>3, <2>1, <2>2, TextNewLineIs DEF Advances
<1> QED BY <1>2, <1>3

\* A character that is printed on a text and written on the page.
LEMMA PrintedAdvances ==
  ASSUME NEW m \in Texts, NEW p \in Pages, Shows(p, m), NEW ch \in Glyphs
  PROVE  /\ TextPrinted(m, ch) \in Texts
         /\ Advances([p EXCEPT ![Position(m.cursor)] = ch], m.cursor,
                     TextPrinted(m, ch))
<1>1. /\ m.cursor \in Inside /\ m.cursor.x \in 0 .. WIDTH - 1
      /\ m.cursor.y \in 0 .. HEIGHT - 1
  BY DEF Texts, Inside
<1>2. PICK n \in Texts : n = Written(m, m.cursor, ch) /\ n.cursor = m.cursor
  BY <1>1, WrittenIs
<1>3. PICK q \in Pages : q = [p EXCEPT ![Position(m.cursor)] = ch]
  BY DEF Pages
<1>4. Shows(q, n)
  BY <1>1, <1>2, <1>3, PutShows
<1>5. ch # LF
  BY Alphabet
<1>6. CASE m.cursor.x = WIDTH - 1
  <2>1. TextPrinted(m, ch) = TextNewLine(n)
    BY <1>2, <1>5, <1>6 DEF TextPrinted, Written
  <2>2. Advances(q, m.cursor, TextNewLine(n))
    BY <1>1, <1>2, <1>4, <1>6, NewLineAdvances
  <2> QED BY <1>3, <2>1, <2>2, TextNewLineIs
<1>7. CASE m.cursor.x # WIDTH - 1
  <2>1. TextPrinted(m, ch) = [n EXCEPT !.cursor.x = @ + 1]
    BY <1>2, <1>5, <1>7 DEF TextPrinted, Written
  <2>2. m.cursor # End
    BY <1>7 DEF End
  <2>3. TextPrinted(m, ch) = [rows |-> n.rows, cursor |-> Behind(m.cursor)]
    BY <1>1, <1>2, <1>7, <2>1 DEF Behind, Texts, Inside
  <2>4. Behind(m.cursor) \in Inside
    BY <1>1, <2>2, BehindIs
  <2>5. Shows(q, TextPrinted(m, ch))
    BY <1>4, <2>3 DEF Shows, CellOf
  <2> QED BY <1>2, <1>3, <2>2, <2>3, <2>4, <2>5 DEF Advances, Texts
<1> QED BY <1>6, <1>7

\* Going back in a text, and erasing.
LEMMA TextBackIs ==
  ASSUME NEW m \in Texts
  PROVE  /\ TextBack(m) = [rows |-> m.rows, cursor |-> Revert(m.cursor)]
         /\ TextBack(m) \in Texts
<1>1. /\ m.cursor \in Inside /\ m.rows \in Rows
      /\ m = [rows |-> m.rows, cursor |-> m.cursor]
  BY DEF Texts
<1>2. Revert(m.cursor) \in Inside
  BY <1>1, RevertIs
<1>3. TextBack(m) = [rows |-> m.rows, cursor |-> Revert(m.cursor)]
  <2>1. CASE m.cursor = Home
    <3>1. Revert(m.cursor) = m.cursor
      BY <2>1 DEF Revert
    <3>2. m.cursor.x = 0
      BY <2>1 DEF Home
    <3>3. TextBack(m) = [m EXCEPT !.cursor = m.cursor]
      BY <2>1, <3>2 DEF TextBack
    <3> QED BY <1>1, <3>1, <3>3
  <2>2. CASE m.cursor # Home /\ m.cursor.x = 0
    BY <1>1, <2>2 DEF TextBack, Revert
  <2>3. CASE m.cursor # Home /\ m.cursor.x # 0
    <3>1. m.cursor.x > 0
      BY <1>1, <2>3, Sizes DEF Inside
    <3>2. Revert(m.cursor) = [x |-> m.cursor.x - 1, y |-> m.cursor.y]
      BY <1>1, <2>3, RevertIs
    <3> QED BY <1>1, <2>3, <3>1, <3>2 DEF TextBack
  <2> QED BY <2>1, <2>2, <2>3
<1> QED BY <1>1, <1>2, <1>3 DEF Texts

LEMMA TextErasedIs ==
  ASSUME NEW m \in Texts, NEW p \in Pages, Shows(p, m), m.cursor # Home
  PROVE  /\ TextErased(m) \in Texts
         /\ TextErased(m).cursor = Revert(m.cursor)
         /\ Erases(p, TextErased(m))
<1>1. PICK n \in Texts : n = TextBack(m) /\ n.rows = m.rows
                         /\ n.cursor = Revert(m.cursor)
  BY TextBackIs
<1>2. n.cursor \in Inside
  BY DEF Texts
<1>3. TextErased(m) = Written(n, n.cursor, BLANK)
  BY <1>1 DEF TextErased, Written
<1>4. Shows(p, n)
  BY <1>1 DEF Shows, CellOf
<1>5. /\ Written(n, n.cursor, BLANK) \in Texts
      /\ Written(n, n.cursor, BLANK).cursor = n.cursor
      /\ \A k \in Cells : CellOf(Written(n, n.cursor, BLANK), k) =
           IF k = Position(n.cursor) THEN BLANK ELSE CellOf(n, k)
  BY <1>2, Alphabet, WrittenIs
<1> QED BY <1>1, <1>3, <1>4, <1>5 DEF Erases, Shows

LEMMA EraseShows ==
  ASSUME NEW m \in Texts, NEW p \in Pages, Erases(p, m)
  PROVE  Shows([p EXCEPT ![Position(m.cursor)] = BLANK], m)
BY PositionIs DEF Erases, Shows, Pages, Texts

\* The three steps of scrolling.
LEMMA ScrollCopies ==
  ASSUME NEW m \in Texts, NEW p \in Pages, NEW n \in Nat, Scrolls(p, n, m),
         n + WIDTH \in Cells
  PROVE  Scrolls([p EXCEPT ![n] = p[n + WIDTH]], n + 1, m)
<1>1. n \in Cells
  BY Sizes DEF Cells
<1>2. \A k \in Cells : k \in Nat
  BY PlaceIs
<1>3. \A k \in Cells : k < n + 1 => k < n \/ k = n
  BY <1>2
<1>4. \A k \in Cells : k >= n + 1 => k >= n /\ k + WIDTH # n
  BY <1>2, Sizes
<1>5. \A k \in Cells : k < n => k # n
  BY <1>2
<1>6. n >= n
  OBVIOUS
<1> QED BY <1>1, <1>3, <1>4, <1>5, <1>6 DEF Scrolls, Pages

LEMMA ScrollClears ==
  ASSUME NEW m \in Texts, NEW p \in Pages, NEW n \in Cells, Scrolls(p, n, m),
         n + WIDTH \notin Cells
  PROVE  Scrolls([p EXCEPT ![n] = BLANK], n + 1, m)
<1>1. n \in Nat /\ \A k \in Cells : k \in Nat
  BY PlaceIs
<1>2. \A k \in Cells : k < n + 1 => k < n \/ k = n
  BY <1>1
<1>3. \A k \in Cells : k >= n + 1 => k + WIDTH \notin Cells
  BY <1>1, Sizes DEF Cells
<1>4. \A k \in Cells : k < n => k # n
  BY <1>1
<1> QED BY <1>2, <1>3, <1>4 DEF Scrolls, Pages

LEMMA ScrollEnds ==
  ASSUME NEW m, NEW p, NEW n \in 0 .. WIDTH * HEIGHT, Scrolls(p, n, m),
         n \notin Cells
  PROVE  Shows(p, m)
<1>1. \A k \in Cells : k < n
  BY Sizes DEF Cells
<1> QED BY <1>1 DEF Scrolls, Shows

\* Moving the cursor of a view on, all at once.
LEMMA ScrolledIs ==
  ASSUME NEW p \in Pages, NEW m, Scrolls(p, 0, m)
  PROVE  Scrolled(p) \in Pages /\ Shows(Scrolled(p), m)
<1>1. \A k \in Cells : k >= 0
  BY PlaceIs
<1> QED BY <1>1, Alphabet DEF Scrolled, Scrolls, Shows, Pages

LEMMA AdvanceIs ==
  ASSUME NEW p \in Pages, NEW c \in Inside, NEW m \in Texts, Advances(p, c, m)
  PROVE  \E q \in Pages :
           /\ Advance([page |-> p, cursor |-> c]) =
                [page |-> q, cursor |-> m.cursor]
           /\ Shows(q, m)
<1>1. /\ c.x \in 0 .. WIDTH - 1 /\ c.y \in 0 .. HEIGHT - 1
      /\ c = [x |-> c.x, y |-> c.y]
  BY DEF Inside
<1>2. CASE c = End
  <2>1. Advance([page |-> p, cursor |-> c]) =
          [page |-> Scrolled(p), cursor |-> Bottom]
    BY <1>2 DEF Advance, End, Bottom
  <2> QED BY <1>2, <2>1, ScrolledIs DEF Advances
<1>3. CASE c # End
  <2>1. /\ c.x # WIDTH - 1 => c.x + 1 \in 0 .. WIDTH - 1
        /\ c.x = WIDTH - 1 => c.y + 1 \in 0 .. HEIGHT - 1
        /\ c.x = WIDTH - 1 => c.y # HEIGHT - 1
    BY <1>3, BehindIs
  <2>2. /\ c.x # WIDTH - 1 => (c.x + 1) % WordSize = c.x + 1
        /\ c.x = WIDTH - 1 => (c.y + 1) % WordSize = c.y + 1
    <3>1. /\ c.x # WIDTH - 1 => c.x + 1 \in 0 .. WordSize - 1
          /\ c.x = WIDTH - 1 => c.y + 1 \in 0 .. WordSize - 1
      BY <1>1, <2>1, Sizes
    <3> QED BY <3>1, Sizes, SmallRemainder
  <2>3. Advance([page |-> p, cursor |-> c]) =
          [page |-> p, cursor |-> Behind(c)]
    <3>1. CASE c.x # WIDTH - 1
      BY <1>1, <2>2, <3>1 DEF Advance, Behind
    <3>2. CASE c.x = WIDTH - 1
      BY <1>1, <2>1, <2>2, <3>2 DEF Advance, Behind
    <3> QED BY <3>1, <3>2
  <2> QED BY <1>3, <2>3 DEF Advances
<1> QED BY <1>2, <1>3

-----------------------------------------------------------------------------
(* The steps of a process.                                                 *)

\* What terminal t shows may change by a step of process w.
Reaches(w, t) ==
  Recorded(w) = t \/ ~OnPage(local[w].at) \/ ~OnPage(cursor[w])

\* A step that leaves process w with the registers l, the cursor c and the text
\* m, and its terminal, if anything is said of it, with the page q.
StepTo(w, l, q, c, m) ==
  /\ local' = [local EXCEPT ![w] = l]
  /\ screen' \in Pages /\ buffer' \in [Terminals -> Pages]
  /\ mixed' \subseteq Terminals /\ mixed \subseteq mixed'
  /\ w \notin mixed' => View(w)' = q
  /\ \A t \in Terminals : t # w /\ t \notin mixed' => View(t)' = View(t)
  /\ \A t \in Terminals :
       View(t)' # View(t) => l # local[w] /\ Reaches(w, t)
  /\ cursor' = [cursor EXCEPT ![w] = c]
  /\ text' = [text EXCEPT ![w] = m]
  /\ UNCHANGED <<terminal_number, recorded, faulted, lagging>>

\* What such a step does to the display.
Drives(w, l, c) ==
  /\ l.pc = "program" \/ l.seen = (IF InCall(w) THEN local[w].seen
                                                ELSE terminal_number)
  /\ index' \in {14, 15} /\ {high', low'} \subseteq 0 .. ByteSize - 1
  /\ local[w].pc \in Moving \/ UNCHANGED display
  /\ (InCall(w) => Seen(w)) /\ Told(local[w], cursor[w], index, high, low) =>
       Told(l, c, index', high', low')

Proceeds(w) ==
  \E l \in Locals, q \in Pages, c \in Cursors, m \in Texts :
    /\ StepTo(w, l, q, c, m)
    /\ Control(w, l)
    /\ w \notin mixed => Fits(l, q, c, m)
    /\ Drives(w, l, c)

LEMMA Views ==
  ASSUME TypeOK, NEW t \in Terminals
  PROVE  View(t) \in Pages
BY DEF TypeOK, View

LEMMA WriterFacts ==
  ASSUME ConsoleInv, NEW w \in Writers
  PROVE  /\ TypeOK /\ w \in Terminals /\ terminal_number \in Terminals
         /\ local \in [Writers -> Locals] /\ local[w] \in Locals
         /\ View(w) \in Pages /\ cursor[w] \in Cursors /\ text[w] \in Texts
         /\ Recorded(w) \in Terminals /\ mixed \subseteq Terminals
         /\ w \notin mixed => Recorded(w) = w
         /\ index \in {14, 15} /\ {high, low} \subseteq 0 .. ByteSize - 1
         /\ Control(w, local[w])
         /\ w \notin mixed => Fits(local[w], View(w), cursor[w], text[w])
<1>1. w \in Terminals
  BY ConsoleAssumption DEF Terminals
<1>2. TypeOK /\ text[w] \in Texts /\ Control(w, local[w])
  BY <1>1 DEF ConsoleInv, TextInv, ControlInv
<1>3. w \notin mixed => Fits(local[w], View(w), cursor[w], text[w])
  BY <1>1 DEF ConsoleInv, ScreenInv, Registers
<1>4. Recorded(w) \in Terminals
  <2>1. recorded[w] \in Seq(Terminals) /\ recorded[w] # <<>>
    BY <1>2 DEF TypeOK
  <2> QED BY <2>1 DEF Recorded
<1>5. w \notin mixed => Recorded(w) = w
  BY DEF ConsoleInv, OwnInv, Misled
<1> QED BY <1>1, <1>2, <1>3, <1>4, <1>5, Views DEF TypeOK

\* The registers of a process, one by one.
LEMMA OldRegisters ==
  ASSUME NEW l \in Locals
  PROVE  /\ l = [pc |-> l.pc, seen |-> l.seen, at |-> l.at, ch |-> l.ch,
                 cell |-> l.cell]
         /\ l.pc \in Places /\ l.seen \in Terminals /\ l.at \in Cursors
         /\ l.ch \in Glyphs \cup {BS} /\ l.cell \in 0 .. WIDTH * HEIGHT
BY DEF Locals, Places

\* A step that does not write to the page, and one that changes only the
\* registers.
LEMMA PagelessStep ==
  ASSUME ConsoleInv, NEW w \in Writers, NEW l \in Locals,
         NEW c \in Cursors, NEW m \in Texts,
         local' = [local EXCEPT ![w] = l], cursor' = [cursor EXCEPT ![w] = c],
         text' = [text EXCEPT ![w] = m], Unseen, NoPage
  PROVE  StepTo(w, l, View(w), c, m)
<1>1. /\ screen \in Pages /\ buffer \in [Terminals -> Pages]
      /\ mixed \subseteq Terminals
  BY WriterFacts DEF TypeOK
<1>2. UNCHANGED <<screen, buffer, mixed, terminal_number>>
  BY DEF NoPage, Unseen
<1>3. \A t : View(t)' = View(t)
  BY <1>2 DEF View
<1> QED BY <1>1, <1>2, <1>3 DEF StepTo, Unseen

LEMMA QuietStep ==
  ASSUME ConsoleInv, NEW w \in Writers, NEW l \in Locals,
         local' = [local EXCEPT ![w] = l], UNCHANGED <<cursor, text>>,
         Unseen, NoPage
  PROVE  StepTo(w, l, View(w), cursor[w], text[w])
<1>1. w \in Terminals /\ TypeOK /\ text \in [Terminals -> Texts]
  BY WriterFacts DEF ConsoleInv, TextInv
<1>2. cursor' = [cursor EXCEPT ![w] = cursor[w]]
      /\ text' = [text EXCEPT ![w] = text[w]]
  BY <1>1 DEF TypeOK
<1> QED BY <1>2, WriterFacts, PagelessStep

\* One that also writes to the page.
LEMMA StoreStep ==
  ASSUME ConsoleInv, NEW w \in Writers, NEW l \in Locals, l # local[w],
         NEW a \in Nat, NEW ch \in Glyphs, Store(w, a, ch),
         a < PAGE \/ ~OnPage(local[w].at) \/ ~OnPage(cursor[w]),
         local' = [local EXCEPT ![w] = l], UNCHANGED <<cursor, text>>, Unseen
  PROVE  \E q \in Pages :
           /\ q = IF a \in Cells THEN [View(w) EXCEPT ![a] = ch] ELSE View(w)
           /\ StepTo(w, l, q, cursor[w], text[w])
<1>1. /\ w \in Terminals /\ TypeOK /\ text \in [Terminals -> Texts]
      /\ View(w) \in Pages /\ terminal_number' = terminal_number
      /\ screen \in Pages /\ buffer \in [Terminals -> Pages]
  BY WriterFacts DEF ConsoleInv, TextInv, TypeOK, Unseen
<1>2. cursor' = [cursor EXCEPT ![w] = cursor[w]]
      /\ text' = [text EXCEPT ![w] = text[w]]
  BY <1>1 DEF TypeOK
<1>3. PICK q \in Pages :
        q = IF a \in Cells THEN [View(w) EXCEPT ![a] = ch] ELSE View(w)
  BY <1>1 DEF Pages
<1>4. PICK e \in Nat, b \in Nat : e = a \div PAGE /\ b = a % PAGE
  <2>1. a \div PAGE \in Nat /\ a % PAGE \in 0 .. PAGE - 1
    BY Sizes, Division
  <2> QED BY <2>1
<1>5. IF a < PAGE THEN e = 0 /\ b = a ELSE e # 0 /\ a \notin Cells
  <2>1. a = e * PAGE + b /\ b < PAGE
    BY <1>4, Sizes, Division
  <2>2. CASE a < PAGE
    <3>1. a = 0 * PAGE + a /\ a \in 0 .. PAGE - 1
      BY <2>2, Sizes
    <3> QED BY <1>4, <2>2, <3>1, Sizes, DivisionIsUnique
  <2>3. CASE ~(a < PAGE)
    <3>1. e # 0
      BY <2>1, <2>3, Sizes
    <3> QED BY <2>3, <3>1, Sizes DEF Cells
  <2> QED BY <2>2, <2>3
<1> DEFINE t == IF e = 0 THEN Recorded(w) ELSE e - 1
           Changed(page) == IF b \in Cells THEN [page EXCEPT ![b] = ch] ELSE page
<1>6. /\ e <= NumTerminals
      /\ IF e = 0 /\ t = terminal_number
         THEN screen' = Changed(screen) /\ UNCHANGED buffer
         ELSE /\ buffer' = [buffer EXCEPT ![t] = Changed(@)]
              /\ UNCHANGED screen
      /\ mixed' = IF e = 0 THEN mixed ELSE mixed \cup {t}
  BY <1>4 DEF Store, Mapped
<1>7. t \in Terminals
  BY <1>6, WriterFacts, ConsoleAssumption DEF Terminals
<1>8. \A p \in Pages : Changed(p) \in Pages
  BY DEF Pages
<1> HIDE DEF t, Changed
<1>9. /\ screen' \in Pages /\ buffer' \in [Terminals -> Pages]
      /\ mixed' \subseteq Terminals /\ mixed \subseteq mixed'
  BY <1>1, <1>6, <1>7, <1>8, WriterFacts
<1>10. ASSUME NEW u \in Terminals, u # t PROVE View(u)' = View(u)
  BY <1>1, <1>6, <1>7, <1>10 DEF View
<1>11. CASE a < PAGE
  <2>1. e = 0 /\ t = Recorded(w) /\ mixed' = mixed
    BY <1>5, <1>6, <1>11 DEF t
  <2>2. w \notin mixed => t = w
    BY <2>1, WriterFacts
  <2>3. Changed(View(w)) = q
    BY <1>3, <1>5, <1>11 DEF Changed
  <2>4. t = w => View(w)' = q
    BY <1>1, <1>6, <2>1, <2>3 DEF View
  <2>5. \A u \in Terminals : View(u)' # View(u) => Reaches(w, u)
    BY <1>10, <2>1 DEF Reaches
  <2>6. \A u \in Terminals : u # w /\ u \notin mixed' => View(u)' = View(u)
    BY <1>10, <2>1, WriterFacts DEF ConsoleInv, OwnInv, Misled
  <2> QED BY <1>2, <1>3, <1>9, <2>1, <2>2, <2>4, <2>5, <2>6 DEF StepTo, Unseen
<1>12. CASE ~(a < PAGE)
  <2>1. t \in mixed' /\ q = View(w)
    BY <1>3, <1>5, <1>6, <1>12
  <2>2. \A u \in Terminals : Reaches(w, u)
    BY <1>12 DEF Reaches
  <2> QED BY <1>1, <1>2, <1>3, <1>9, <1>10, <2>1, <2>2 DEF StepTo, Unseen
<1> QED BY <1>11, <1>12

LEMMA CallWriteProceeds ==
  ASSUME ConsoleInv, NEW w \in Writers, CallWrite(w)
  PROVE  Proceeds(w)
<1>0. "next" \in Places
  BY DEF Places
<1> DEFINE l == [local[w] EXCEPT !.pc = "next", !.seen = terminal_number]
<1>1. /\ l \in Locals /\ l.pc = "next" /\ l.seen = terminal_number
      /\ l.at = local[w].at /\ l.ch = local[w].ch /\ l.cell = local[w].cell
  BY <1>0, WriterFacts DEF Locals, Places
<1>2. local' = [local EXCEPT ![w] = l] /\ local[w].pc = "program"
      /\ UNCHANGED display
  BY <1>1, WriterFacts, OldRegisters DEF CallWrite, At
<1> HIDE DEF l
<1>3. StepTo(w, l, View(w), cursor[w], text[w])
  BY <1>1, <1>2, QuietStep DEF CallWrite
<1>4. Control(w, l)
  BY <1>1, <1>2, WriterFacts DEF Control, Moving
<1>5. w \notin mixed => Fits(l, View(w), cursor[w], text[w])
  BY <1>1, <1>2, WriterFacts DEF Fits, Moving
<1>6. Drives(w, l, cursor[w])
  BY <1>1, <1>2, WriterFacts DEF Drives, Told, InCall, Moving, display
<1> QED BY <1>1, <1>3, <1>4, <1>5, <1>6, WriterFacts DEF Proceeds

LEMMA ReturnProceeds ==
  ASSUME ConsoleInv, NEW w \in Writers, Return(w)
  PROVE  Proceeds(w)
<1>0. "program" \in Places /\ 0 \in Terminals
  BY ConsoleAssumption DEF Places, Terminals
<1> DEFINE l == [local[w] EXCEPT !.pc = "program", !.seen = 0]
<1>1. /\ l \in Locals /\ l.pc = "program"
      /\ l.ch = local[w].ch /\ l.cell = local[w].cell
  BY <1>0, WriterFacts, OldRegisters DEF Locals, Places
<1>2. local' = [local EXCEPT ![w] = l] /\ local[w].pc = "next"
      /\ UNCHANGED display
  BY <1>1, WriterFacts, OldRegisters DEF Return, At
<1> HIDE DEF l
<1>3. StepTo(w, l, View(w), cursor[w], text[w])
  BY <1>1, <1>2, QuietStep DEF Return
<1>4. Control(w, l)
  BY <1>1, <1>2, WriterFacts DEF Control, Moving
<1>5. w \notin mixed => Fits(l, View(w), cursor[w], text[w])
  BY <1>1, <1>2, WriterFacts DEF Fits, Moving
<1>6. Drives(w, l, cursor[w])
  BY <1>1, <1>2, WriterFacts DEF Drives, Told, InCall, Moving, display
<1> QED BY <1>1, <1>3, <1>4, <1>5, <1>6, WriterFacts DEF Proceeds

LEMMA BlankIs ==
  /\ BlankText \in Texts /\ BlankText.cursor = Home
  /\ Blank \in Pages /\ Shows(Blank, BlankText)
<1>1. BlankRow \in [0 .. WIDTH - 1 -> Glyphs]
  BY Alphabet DEF BlankRow
<1>2. [y \in 0 .. HEIGHT - 1 |-> BlankRow] \in Rows
  BY <1>1 DEF Rows
<1>3. BlankText \in Texts /\ BlankText.cursor = Home
  BY <1>2, Corners DEF BlankText, Texts
<1>4. \A k \in Cells : CellOf(BlankText, k) = BLANK
  BY PlaceIs DEF BlankText, CellOf, BlankRow
<1> QED BY <1>3, <1>4, Alphabet DEF Blank, Pages, Shows

LEMMA FetchGlyphProceeds ==
  ASSUME ConsoleInv, NEW w \in Writers, NEW ch \in Glyphs, FetchGlyph(w, ch)
  PROVE  Proceeds(w)
<1>0. "put" \in Places
  BY DEF Places
<1> DEFINE l == [local[w] EXCEPT !.pc = "put", !.ch = ch, !.at = cursor[w]]
           m == IF w \in mixed THEN BlankText ELSE TextPrinted(text[w], ch)
<1>1. /\ l \in Locals /\ l.pc = "put" /\ l.seen = local[w].seen
      /\ l.at = cursor[w] /\ l.ch = ch /\ l.cell = local[w].cell
  BY <1>0, WriterFacts DEF Locals, Places
<1>2. /\ local' = [local EXCEPT ![w] = l] /\ local[w].pc = "next"
      /\ UNCHANGED <<cursor, display>> /\ Unseen /\ NoPage
  BY <1>1, WriterFacts, OldRegisters DEF FetchGlyph, At
<1>3. text' = [text EXCEPT ![w] = m]
  <2>1. mixed' = mixed
    BY <1>2 DEF NoPage
  <2> QED BY <2>1 DEF FetchGlyph, Intend
<1>4. w \notin mixed =>
        /\ text[w] \in Texts /\ cursor[w] = text[w].cursor
        /\ Shows(View(w), text[w]) /\ cursor[w] \in Inside
  BY <1>2, WriterFacts DEF Fits, Texts
<1>5. m \in Texts
  BY <1>4, PrintedAdvances, WriterFacts, BlankIs
<1>6. w \notin mixed =>
        Advances([View(w) EXCEPT ![Position(cursor[w])] = ch], cursor[w], m)
  BY <1>4, PrintedAdvances, WriterFacts
<1> HIDE DEF l, m
<1>7. StepTo(w, l, View(w), cursor[w], m)
  <2>1. cursor' = [cursor EXCEPT ![w] = cursor[w]]
    BY <1>2, WriterFacts DEF TypeOK
  <2> QED BY <1>1, <1>2, <1>3, <1>5, <2>1, WriterFacts, PagelessStep
<1>8. Control(w, l)
  BY <1>1, <1>2, WriterFacts DEF Control, Moving
<1>9. w \notin mixed => Fits(l, View(w), cursor[w], m)
  BY <1>1, <1>4, <1>6 DEF Fits, Moving
<1>10. Drives(w, l, cursor[w])
  BY <1>1, <1>2, WriterFacts DEF Drives, Told, InCall, Moving, display
<1> QED BY <1>1, <1>5, <1>7, <1>8, <1>9, <1>10, WriterFacts DEF Proceeds

LEMMA FetchNewLineProceeds ==
  ASSUME ConsoleInv, NEW w \in Writers, FetchNewLine(w)
  PROVE  Proceeds(w)
<1>0. "load" \in Places /\ WIDTH - 1 \in Word
  BY Sizes DEF Places, Word
<1> DEFINE l == [local[w] EXCEPT !.pc = "load"]
           c == [cursor[w] EXCEPT !.x = WIDTH - 1]
           m == IF w \in mixed THEN BlankText ELSE TextNewLine(text[w])
<1>1. /\ l \in Locals /\ l.pc = "load" /\ l.seen = local[w].seen
      /\ l.at = local[w].at /\ l.ch = local[w].ch /\ l.cell = local[w].cell
      /\ c \in Cursors /\ c.x = WIDTH - 1 /\ c.y = cursor[w].y
  BY <1>0, WriterFacts DEF Locals, Places, Cursors
<1>2. /\ local' = [local EXCEPT ![w] = l] /\ local[w].pc = "next"
      /\ cursor' = [cursor EXCEPT ![w] = c]
      /\ UNCHANGED display /\ Unseen /\ NoPage
  BY <1>1, WriterFacts, OldRegisters DEF FetchNewLine, At, Goto
<1>3. text' = [text EXCEPT ![w] = m]
  <2>1. mixed' = mixed
    BY <1>2 DEF NoPage
  <2> QED BY <2>1 DEF FetchNewLine, Intend
<1>4. w \notin mixed =>
        /\ text[w] \in Texts /\ cursor[w] = text[w].cursor
        /\ Shows(View(w), text[w]) /\ cursor[w] \in Inside
  BY <1>2, WriterFacts DEF Fits, Texts
<1>5. m \in Texts
  BY TextNewLineIs, WriterFacts, BlankIs
<1>6. w \notin mixed => c \in Inside /\ Advances(View(w), c, m)
  <2>1. w \notin mixed => c \in Inside
    BY <1>4, Sizes DEF Inside
  <2> QED BY <1>1, <1>4, <2>1, NewLineAdvances, WriterFacts
<1> HIDE DEF l, c, m
<1>7. StepTo(w, l, View(w), c, m)
  BY <1>1, <1>2, <1>3, <1>5, PagelessStep
<1>8. Control(w, l)
  BY <1>1, <1>2, WriterFacts DEF Control, Moving
<1>9. w \notin mixed => Fits(l, View(w), c, m)
  BY <1>1, <1>6 DEF Fits, Moving
<1>10. Drives(w, l, c)
  BY <1>1, <1>2, WriterFacts DEF Drives, Told, InCall, Moving, display
<1> QED BY <1>1, <1>5, <1>7, <1>8, <1>9, <1>10, WriterFacts DEF Proceeds

LEMMA FetchBackspaceProceeds ==
  ASSUME ConsoleInv, NEW w \in Writers, FetchBackspace(w)
  PROVE  Proceeds(w)
<1>0. "back" \in Places
  BY DEF Places
<1> DEFINE l == [local[w] EXCEPT !.pc = "back", !.ch = BS]
           m == IF w \in mixed THEN BlankText ELSE TextErased(text[w])
<1>1. /\ l \in Locals /\ l.pc = "back" /\ l.seen = local[w].seen
      /\ l.ch = BS /\ l.cell = local[w].cell
  BY <1>0, WriterFacts DEF Locals, Places
<1>2. /\ local' = [local EXCEPT ![w] = l] /\ local[w].pc = "next"
      /\ cursor[w] # Home
      /\ UNCHANGED <<cursor, display>> /\ Unseen /\ NoPage
  BY <1>1, WriterFacts, OldRegisters DEF FetchBackspace, At
<1>3. text' = [text EXCEPT ![w] = m]
  <2>1. mixed' = mixed
    BY <1>2 DEF NoPage
  <2> QED BY <2>1 DEF FetchBackspace, Intend
<1>4. w \notin mixed =>
        /\ text[w] \in Texts /\ cursor[w] = text[w].cursor
        /\ Shows(View(w), text[w]) /\ cursor[w] \in Inside
  BY <1>2, WriterFacts DEF Fits, Texts
<1>5. m \in Texts
  BY <1>2, <1>4, TextErasedIs, WriterFacts, BlankIs
<1>6. w \notin mixed => m.cursor = Revert(cursor[w]) /\ Erases(View(w), m)
  BY <1>2, <1>4, TextErasedIs, WriterFacts
<1> HIDE DEF l, m
<1>7. StepTo(w, l, View(w), cursor[w], m)
  <2>1. cursor' = [cursor EXCEPT ![w] = cursor[w]]
    BY <1>2, WriterFacts DEF TypeOK
  <2> QED BY <1>1, <1>2, <1>3, <1>5, <2>1, WriterFacts, PagelessStep
<1>8. Control(w, l)
  BY <1>1, <1>2, WriterFacts DEF Control, Moving
<1>9. w \notin mixed => Fits(l, View(w), cursor[w], m)
  BY <1>1, <1>2, <1>4, <1>6 DEF Fits, Moving
<1>10. Drives(w, l, cursor[w])
  BY <1>1, <1>2, WriterFacts DEF Drives, Told, InCall, Moving, display
<1> QED BY <1>1, <1>5, <1>7, <1>8, <1>9, <1>10, WriterFacts DEF Proceeds

LEMMA PutCharacterProceeds ==
  ASSUME ConsoleInv, NEW w \in Writers, PutCharacter(w)
  PROVE  Proceeds(w)
<1>0. "load" \in Places
  BY DEF Places
<1> DEFINE l == [local[w] EXCEPT !.pc = "load"]
<1>1. /\ l \in Locals /\ l.pc = "load" /\ l.seen = local[w].seen
      /\ l.at = local[w].at /\ l.ch = local[w].ch /\ l.cell = local[w].cell
  BY <1>0, WriterFacts DEF Locals, Places
<1>2. /\ local' = [local EXCEPT ![w] = l] /\ local[w].pc = "put"
      /\ Store(w, Offset(local[w].at), local[w].ch)
      /\ UNCHANGED <<cursor, display, text>> /\ Unseen
  BY <1>1, WriterFacts, OldRegisters DEF PutCharacter, At, Goto
<1> HIDE DEF l
<1>3. /\ local[w].ch \in Glyphs /\ l # local[w]
      /\ Offset(local[w].at) \in Nat
      /\ Offset(local[w].at) < PAGE \/ ~OnPage(local[w].at)
  BY <1>1, <1>2, WriterFacts, OldRegisters, OffsetIs DEF Control, OnPage
<1>4. PICK q \in Pages :
        /\ q = IF Offset(local[w].at) \in Cells
               THEN [View(w) EXCEPT ![Offset(local[w].at)] = local[w].ch]
               ELSE View(w)
        /\ StepTo(w, l, q, cursor[w], text[w])
  BY <1>1, <1>2, <1>3, StoreStep
<1>5. w \notin mixed => /\ cursor[w] \in Inside
                        /\ Advances(q, cursor[w], text[w])
  <2>1. w \notin mixed =>
          /\ cursor[w] \in Inside /\ local[w].at = cursor[w]
          /\ Advances([View(w) EXCEPT ![Position(cursor[w])] = local[w].ch],
                      cursor[w], text[w])
    BY <1>2, WriterFacts DEF Fits
  <2> QED BY <1>4, <2>1, PositionIs
<1>6. Control(w, l)
  BY <1>1, <1>2, WriterFacts DEF Control, Moving
<1>7. w \notin mixed => Fits(l, q, cursor[w], text[w])
  BY <1>1, <1>5 DEF Fits, Moving
<1>8. Drives(w, l, cursor[w])
  BY <1>1, <1>2, WriterFacts DEF Drives, Told, InCall, Moving, display
<1> QED BY <1>1, <1>2, <1>4, <1>6, <1>7, <1>8, WriterFacts DEF Proceeds

LEMMA LoadCursorProceeds ==
  ASSUME ConsoleInv, NEW w \in Writers, LoadCursor(w)
  PROVE  Proceeds(w)
<1>0. {"update", "revert"} \subseteq Places
  BY DEF Places
<1>1. UNCHANGED <<cursor, display, text>> /\ Unseen /\ NoPage
  BY DEF LoadCursor
<1>2. PICK to \in {"update", "revert"} :
        /\ local[w].pc = IF to = "update" THEN "load" ELSE "back"
        /\ GotoWith(w, to, cursor[w])
  BY DEF LoadCursor, At
<1> DEFINE l == [local[w] EXCEPT !.pc = to, !.at = cursor[w]]
<1>3. /\ l \in Locals /\ l.pc = to /\ l.seen = local[w].seen
      /\ l.at = cursor[w] /\ l.ch = local[w].ch /\ l.cell = local[w].cell
  BY <1>0, WriterFacts DEF Locals, Places
<1>4. local' = [local EXCEPT ![w] = l]
  BY <1>2, WriterFacts, OldRegisters DEF GotoWith
<1> HIDE DEF l
<1>5. StepTo(w, l, View(w), cursor[w], text[w])
  BY <1>1, <1>3, <1>4, QuietStep
<1>6. Control(w, l)
  BY <1>2, <1>3, WriterFacts DEF Control, Moving
<1>7. w \notin mixed => Fits(l, View(w), cursor[w], text[w])
  BY <1>2, <1>3, WriterFacts DEF Fits, Moving
<1>8. Drives(w, l, cursor[w])
  BY <1>1, <1>2, <1>3, WriterFacts DEF Drives, Told, InCall, Moving, display
<1> QED BY <1>3, <1>5, <1>6, <1>7, <1>8, WriterFacts DEF Proceeds

\* The cursor has been moved.
LEMMA MovedProceeds ==
  ASSUME ConsoleInv, NEW w \in Writers, NEW c \in Cursors, Moved(w),
         local[w].pc \in {"update", "clear"}, UNCHANGED <<display, text>>,
         cursor' = [cursor EXCEPT ![w] = c], Unseen, NoPage,
         w \notin mixed => c = text[w].cursor /\ Shows(View(w), text[w])
  PROVE  Proceeds(w)
<1>1. /\ "cursor" \in Places /\ "next" \in Places /\ Home \in Cursors
      /\ BLANK \in Glyphs /\ BS \notin Glyphs /\ 0 \in 0 .. WIDTH * HEIGHT
  BY Alphabet, Sizes, Corners DEF Places
<1>2. local[w].ch \in Glyphs
  BY WriterFacts DEF Control
<1>3. PICK l \in Locals :
        /\ local' = [local EXCEPT ![w] = l] /\ l.seen = local[w].seen
        /\ IF Seen(w) THEN l.pc = "cursor" /\ l.ch = local[w].ch
                      ELSE l.pc = "next" /\ l.ch = BLANK /\ l.cell = 0
  <2>1. CASE Seen(w)
    <3> DEFINE l == [local[w] EXCEPT !.pc = "cursor"]
    <3>1. /\ l \in Locals /\ l.pc = "cursor" /\ l.seen = local[w].seen
          /\ l.ch = local[w].ch
      BY <1>1, WriterFacts DEF Locals, Places
    <3>2. local' = [local EXCEPT ![w] = l]
      BY <2>1, WriterFacts, OldRegisters DEF Moved, Goto
    <3> HIDE DEF l
    <3> QED BY <2>1, <3>1, <3>2
  <2>2. CASE ~Seen(w)
    <3> DEFINE l == [local[w] EXCEPT !.pc = "next", !.at = Home, !.ch = BLANK,
                                     !.cell = 0]
    <3>1. /\ l \in Locals /\ l.pc = "next" /\ l.seen = local[w].seen
          /\ l.ch = BLANK /\ l.cell = 0
      BY <1>1, WriterFacts DEF Locals, Places
    <3>2. local' = [local EXCEPT ![w] = l]
      BY <2>2, WriterFacts, OldRegisters DEF Moved, Finished
    <3> HIDE DEF l
    <3> QED BY <2>2, <3>1, <3>2
  <2> QED BY <2>1, <2>2
<1>4. StepTo(w, l, View(w), c, text[w])
  <2>1. text' = [text EXCEPT ![w] = text[w]]
    BY WriterFacts DEF ConsoleInv, TextInv
  <2> QED BY <1>3, <2>1, WriterFacts, PagelessStep
<1>5. Control(w, l)
  BY <1>1, <1>2, <1>3 DEF Control, Moving, Seen
<1>6. w \notin mixed => Fits(l, View(w), c, text[w])
  BY <1>1, <1>2, <1>3 DEF Fits, Moving
<1>7. Drives(w, l, c)
  BY <1>3, WriterFacts DEF Drives, Told, InCall, Moving, display
<1> QED BY <1>4, <1>5, <1>6, <1>7, WriterFacts DEF Proceeds

LEMMA UpdateCursorProceeds ==
  ASSUME ConsoleInv, NEW w \in Writers, UpdateCursor(w)
  PROVE  Proceeds(w)
<1> DEFINE at == local[w].at
<1>1. /\ local[w].pc = "update" /\ UNCHANGED <<display, text>>
      /\ Unseen /\ NoPage
  BY DEF UpdateCursor, At
<1>2. w \notin mixed =>
        /\ at = cursor[w] /\ at \in Inside
        /\ Advances(View(w), at, text[w])
  BY <1>1, WriterFacts DEF Fits
<1>3. CASE at.x = WIDTH - 1 /\ at.y = HEIGHT - 1
  <2>0. "scroll" \in Places
    BY DEF Places
  <2> DEFINE l == [local[w] EXCEPT !.pc = "scroll"]
  <2>1. /\ l \in Locals /\ l.pc = "scroll" /\ l.seen = local[w].seen
        /\ l.ch = local[w].ch /\ l.cell = local[w].cell
    BY <2>0, WriterFacts DEF Locals, Places
  <2>2. local' = [local EXCEPT ![w] = l] /\ UNCHANGED cursor
    BY <1>3, WriterFacts, OldRegisters DEF UpdateCursor, Goto
  <2> HIDE DEF l
  <2>3. StepTo(w, l, View(w), cursor[w], text[w])
    BY <1>1, <2>1, <2>2, QuietStep
  <2>4. Control(w, l) /\ l.cell = 0
    BY <1>1, <2>1, WriterFacts DEF Control, Moving
  <2>5. w \notin mixed =>
          text[w].cursor = Bottom /\ Scrolls(View(w), 0, text[w])
    <3>1. w \notin mixed => at = End
      BY <1>2, <1>3 DEF Inside, End
    <3> QED BY <1>2, <3>1 DEF Advances
  <2>6. w \notin mixed => Fits(l, View(w), cursor[w], text[w])
    BY <2>1, <2>4, <2>5 DEF Fits, Moving
  <2>7. Drives(w, l, cursor[w])
    BY <1>1, <2>1, WriterFacts DEF Drives, Told, InCall, Moving, display
  <2> QED BY <2>1, <2>3, <2>4, <2>6, <2>7, WriterFacts DEF Proceeds
<1>4. CASE ~(at.x = WIDTH - 1 /\ at.y = HEIGHT - 1)
  <2> DEFINE c == IF at.x = WIDTH - 1
                  THEN [x |-> 0, y |-> (cursor[w].y + 1) % WordSize]
                  ELSE [x |-> (cursor[w].x + 1) % WordSize, y |-> cursor[w].y]
  <2>1. Moved(w) /\ cursor' = [cursor EXCEPT ![w] = c]
    <3>1. CASE at.x = WIDTH - 1
      BY <1>4, <3>1 DEF UpdateCursor
    <3>2. CASE at.x # WIDTH - 1
      BY <1>4, <3>2 DEF UpdateCursor
    <3> QED BY <3>1, <3>2
  <2>2. c \in Cursors
    <3>1. cursor[w].x \in Word /\ cursor[w].y \in Word
      BY WriterFacts DEF Cursors
    <3>2. (cursor[w].y + 1) % WordSize \in Word
          /\ (cursor[w].x + 1) % WordSize \in Word /\ 0 \in Word
      BY <3>1, Sizes DEF Word
    <3> QED BY <3>2, WriterFacts DEF Cursors
  <2>3. ASSUME w \notin mixed
        PROVE  c = text[w].cursor /\ Shows(View(w), text[w])
    <3>1. at # End /\ at = cursor[w] /\ at \in Inside
      BY <1>2, <1>4, <2>3 DEF End
    <3>2. /\ at.x # WIDTH - 1 => at.x + 1 \in 0 .. WIDTH - 1
          /\ at.x = WIDTH - 1 => at.y + 1 \in 0 .. HEIGHT - 1
      BY <3>1, BehindIs
    <3>3. /\ at.x # WIDTH - 1 => (at.x + 1) % WordSize = at.x + 1
          /\ at.x = WIDTH - 1 => (at.y + 1) % WordSize = at.y + 1
      <4>1. /\ at.x # WIDTH - 1 => at.x + 1 \in 0 .. WordSize - 1
            /\ at.x = WIDTH - 1 => at.y + 1 \in 0 .. WordSize - 1
        BY <3>2, Sizes
      <4> QED BY <4>1, Sizes, SmallRemainder
    <3>4. at = [x |-> at.x, y |-> at.y]
      BY <3>1 DEF Inside
    <3>5. c = Behind(at)
      BY <3>1, <3>3, <3>4 DEF Behind
    <3> QED BY <1>2, <2>3, <3>1, <3>5 DEF Advances
  <2> HIDE DEF c
  <2> QED BY <1>1, <2>1, <2>2, <2>3, MovedProceeds
<1> QED BY <1>3, <1>4

LEMMA ScrollGetProceeds ==
  ASSUME ConsoleInv, NEW w \in Writers, ScrollGet(w)
  PROVE  Proceeds(w)
<1>0. {"store", "clear"} \subseteq Places
  BY DEF Places
<1> DEFINE from == local[w].cell + WIDTH
           l == IF from \in Cells
                THEN [local[w] EXCEPT !.pc = "store", !.ch = View(w)[from]]
                ELSE [local[w] EXCEPT !.pc = "clear"]
<1>1. local[w].pc = "scroll" /\ local[w].ch \in Glyphs
  BY WriterFacts DEF ScrollGet, At, Control
<1>2. from \in Cells => View(w)[from] \in Glyphs
  BY WriterFacts DEF Pages
<1>3. /\ l \in Locals /\ l.seen = local[w].seen /\ l.cell = local[w].cell
      /\ from \in Cells => l.pc = "store" /\ l.ch = View(w)[from]
      /\ from \notin Cells => l.pc = "clear" /\ l.ch = local[w].ch
  <2>1. CASE from \in Cells
    BY <1>0, <1>2, <2>1, WriterFacts DEF Locals, Places
  <2>2. CASE from \notin Cells
    BY <1>0, <2>2, WriterFacts DEF Locals, Places
  <2> QED BY <2>1, <2>2
<1>4. /\ local' = [local EXCEPT ![w] = l]
      /\ UNCHANGED <<cursor, display, text>> /\ Unseen /\ NoPage
  <2>1. CASE from \in Cells
    BY <2>1, WriterFacts, OldRegisters DEF ScrollGet
  <2>2. CASE from \notin Cells
    BY <2>2, WriterFacts, OldRegisters DEF ScrollGet, Goto
  <2> QED BY <2>1, <2>2
<1> HIDE DEF l
<1>5. StepTo(w, l, View(w), cursor[w], text[w])
  BY <1>3, <1>4, QuietStep
<1>6. Control(w, l)
  BY <1>1, <1>2, <1>3 DEF Control, Moving
<1>7. w \notin mixed => Fits(l, View(w), cursor[w], text[w])
  BY <1>1, <1>3, WriterFacts DEF Fits, Moving
<1>8. Drives(w, l, cursor[w])
  BY <1>1, <1>3, <1>4, WriterFacts DEF Drives, Told, InCall, Moving, display
<1> QED BY <1>3, <1>5, <1>6, <1>7, <1>8, WriterFacts DEF Proceeds

LEMMA ScrollPutProceeds ==
  ASSUME ConsoleInv, NEW w \in Writers, ScrollPut(w)
  PROVE  Proceeds(w)
<1>0. "scroll" \in Places
  BY DEF Places
<1> DEFINE n == local[w].cell
           l == [local[w] EXCEPT !.pc = "scroll", !.cell = @ + 1]
<1>1. /\ local[w].pc = "store" /\ Store(w, n, local[w].ch)
      /\ UNCHANGED <<cursor, display, text>> /\ Unseen
  BY DEF ScrollPut, At
<1>2. local[w].ch \in Glyphs /\ n + WIDTH \in Cells /\ n \in Nat /\ n \in Cells
      /\ n + 1 \in 0 .. WIDTH * HEIGHT
  <2>1. local[w].ch \in Glyphs /\ n + WIDTH \in Cells
        /\ n \in 0 .. WIDTH * HEIGHT
    BY <1>1, WriterFacts, OldRegisters DEF Control
  <2> QED BY <2>1, Sizes DEF Cells
<1>3. /\ l \in Locals /\ l.pc = "scroll" /\ l.seen = local[w].seen
      /\ l.ch = local[w].ch /\ l.cell = n + 1
  BY <1>0, <1>2, WriterFacts DEF Locals, Places
<1>4. local' = [local EXCEPT ![w] = l]
  BY WriterFacts, OldRegisters DEF ScrollPut
<1> HIDE DEF l
<1>5. PICK q \in Pages :
        /\ q = IF n \in Cells THEN [View(w) EXCEPT ![n] = local[w].ch]
                              ELSE View(w)
        /\ StepTo(w, l, q, cursor[w], text[w])
  <2>1. n < PAGE /\ l # local[w]
    BY <1>1, <1>2, <1>3, Sizes DEF Cells
  <2> QED BY <1>1, <1>2, <1>3, <1>4, <2>1, StoreStep
<1>6. w \notin mixed =>
        text[w].cursor = Bottom /\ Scrolls(q, n + 1, text[w])
  <2>1. w \notin mixed =>
          /\ text[w].cursor = Bottom /\ Scrolls(View(w), n, text[w])
          /\ local[w].ch = View(w)[n + WIDTH]
    BY <1>1, WriterFacts DEF Fits
  <2> QED BY <1>2, <1>5, <2>1, WriterFacts, ScrollCopies
<1>7. Control(w, l)
  BY <1>2, <1>3 DEF Control, Moving
<1>8. w \notin mixed => Fits(l, q, cursor[w], text[w])
  BY <1>3, <1>6 DEF Fits, Moving
<1>9. Drives(w, l, cursor[w])
  BY <1>1, <1>3, WriterFacts DEF Drives, Told, InCall, Moving, display
<1> QED BY <1>1, <1>3, <1>5, <1>7, <1>8, <1>9, WriterFacts DEF Proceeds

LEMMA ScrollClearProceeds ==
  ASSUME ConsoleInv, NEW w \in Writers, ScrollClear(w)
  PROVE  Proceeds(w)
<1> DEFINE n == local[w].cell
<1>1. local[w].pc = "clear" /\ UNCHANGED <<display, text>> /\ Unseen
  BY DEF ScrollClear, At
<1>2. /\ n \in 0 .. WIDTH * HEIGHT /\ n + WIDTH \notin Cells
      /\ local[w].ch \in Glyphs /\ BLANK \in Glyphs
  BY <1>1, WriterFacts, OldRegisters, Alphabet DEF Control
<1>3. w \notin mixed =>
        text[w].cursor = Bottom /\ Scrolls(View(w), n, text[w])
  BY <1>1, WriterFacts DEF Fits
<1>4. CASE n \in Cells
  <2> DEFINE l == [local[w] EXCEPT !.cell = @ + 1]
  <2>1. n + 1 \in 0 .. WIDTH * HEIGHT /\ n + 1 + WIDTH \notin Cells
        /\ n # n + 1
    BY <1>2, <1>4, Sizes DEF Cells
  <2>2. /\ l \in Locals /\ l.pc = "clear" /\ l.seen = local[w].seen
        /\ l.ch = local[w].ch /\ l.cell = n + 1
    BY <1>1, <2>1, WriterFacts DEF Locals, Places
  <2>3. /\ local' = [local EXCEPT ![w] = l]
        /\ UNCHANGED cursor /\ Store(w, n, BLANK)
    BY <1>4, WriterFacts, OldRegisters DEF ScrollClear
  <2> HIDE DEF l
  <2>4. PICK q \in Pages :
          /\ q = IF n \in Cells THEN [View(w) EXCEPT ![n] = BLANK] ELSE View(w)
          /\ StepTo(w, l, q, cursor[w], text[w])
    <3>1. n \in Nat /\ n < PAGE /\ l # local[w]
      BY <1>4, <2>1, <2>2, Sizes DEF Cells
    <3> QED BY <1>1, <1>2, <2>2, <2>3, <3>1, StoreStep
  <2>5. w \notin mixed =>
          text[w].cursor = Bottom /\ Scrolls(q, n + 1, text[w])
    BY <1>2, <1>3, <1>4, <2>4, WriterFacts, ScrollClears
  <2>6. Control(w, l)
    BY <1>2, <2>1, <2>2 DEF Control, Moving
  <2>7. w \notin mixed => Fits(l, q, cursor[w], text[w])
    BY <2>2, <2>5 DEF Fits, Moving
  <2>8. Drives(w, l, cursor[w])
    BY <1>1, <2>2, WriterFacts DEF Drives, Told, InCall, Moving, display
  <2> QED BY <2>1, <2>2, <2>4, <2>6, <2>7, <2>8, WriterFacts DEF Proceeds
<1>5. CASE n \notin Cells
  <2>1. /\ cursor' = [cursor EXCEPT ![w] = Bottom] /\ Moved(w) /\ NoPage
        /\ Bottom \in Cursors
    BY <1>5, Corners DEF ScrollClear, Bottom
  <2>2. w \notin mixed => Bottom = text[w].cursor /\ Shows(View(w), text[w])
    BY <1>2, <1>3, <1>5, ScrollEnds
  <2> QED BY <1>1, <2>1, <2>2, MovedProceeds
<1> QED BY <1>4, <1>5

LEMMA RevertCursorProceeds ==
  ASSUME ConsoleInv, NEW w \in Writers, RevertCursor(w)
  PROVE  Proceeds(w)
<1>0. {"cursor", "erase"} \subseteq Places
  BY DEF Places
<1> DEFINE at == local[w].at
           l == [local[w] EXCEPT !.pc = IF Seen(w) THEN "cursor" ELSE "erase"]
           c == IF at = Home THEN cursor[w]
                ELSE IF at.x = 0
                     THEN [x |-> WIDTH - 1,
                           y |-> (cursor[w].y + WordSize - 1) % WordSize]
                     ELSE [x |-> (cursor[w].x + WordSize - 1) % WordSize,
                           y |-> cursor[w].y]
<1>1. local[w].pc = "revert" /\ local[w].ch = BS
  BY WriterFacts DEF RevertCursor, At, Control
<1>2. /\ l \in Locals /\ l.pc = (IF Seen(w) THEN "cursor" ELSE "erase")
      /\ l.seen = local[w].seen /\ l.ch = BS
  BY <1>0, <1>1, WriterFacts DEF Locals, Places
<1>3. /\ local' = [local EXCEPT ![w] = l]
      /\ UNCHANGED <<display, text>> /\ Unseen /\ NoPage
  BY WriterFacts, OldRegisters DEF RevertCursor, Goto
<1>4. cursor' = [cursor EXCEPT ![w] = c]
  BY DEF RevertCursor
<1>5. c \in Cursors
  <2>1. cursor[w].x \in Word /\ cursor[w].y \in Word
    BY WriterFacts DEF Cursors
  <2>2. WIDTH - 1 \in Word
    BY Sizes DEF Word
  <2>3. \A k \in Word : (k + WordSize - 1) % WordSize \in Word
    <3> TAKE k \in Word
    <3>1. WordSize \in Nat \ {0} /\ k + WordSize - 1 \in Nat
      BY Sizes DEF Word
    <3> QED BY <3>1, Remainder DEF Word
  <2>4. CASE at = Home
    BY <2>4, WriterFacts
  <2>5. CASE at # Home
    BY <2>1, <2>2, <2>3, <2>5 DEF Cursors
  <2> QED BY <2>4, <2>5
<1>6. ASSUME w \notin mixed
      PROVE  c = text[w].cursor /\ Erases(View(w), text[w])
  <2>1. /\ at = cursor[w] /\ at \in Inside /\ at # Home
        /\ text[w].cursor = Revert(at) /\ Erases(View(w), text[w])
    BY <1>1, <1>6, WriterFacts DEF Fits
  <2>2. at.x \in Nat /\ at.y \in Nat
    BY <2>1, Sizes DEF Inside
  <2>3. CASE at.x = 0
    <3>1. at.y - 1 \in 0 .. HEIGHT - 1
          /\ Revert(at) = [x |-> WIDTH - 1, y |-> at.y - 1]
      BY <2>1, <2>3, RevertIs
    <3>2. at.y - 1 \in 0 .. WordSize - 1
      BY <2>2, <3>1, Sizes
    <3>3. (at.y + WordSize - 1) % WordSize = at.y - 1
      BY <2>2, <3>2, Sizes, Decremented
    <3> QED BY <2>1, <2>3, <3>1, <3>3
  <2>4. CASE at.x # 0
    <3>1. at.x - 1 \in 0 .. WIDTH - 1
          /\ Revert(at) = [x |-> at.x - 1, y |-> at.y]
      BY <2>1, <2>4, RevertIs
    <3>2. at.x - 1 \in 0 .. WordSize - 1
      BY <2>2, <3>1, Sizes
    <3>3. (at.x + WordSize - 1) % WordSize = at.x - 1
      BY <2>2, <3>2, Sizes, Decremented
    <3> QED BY <2>1, <2>4, <3>1, <3>3
  <2> QED BY <2>3, <2>4
<1> HIDE DEF l, c
<1>7. StepTo(w, l, View(w), c, text[w])
  <2>1. text' = [text EXCEPT ![w] = text[w]]
    BY <1>3, WriterFacts DEF ConsoleInv, TextInv
  <2> QED BY <1>2, <1>3, <1>4, <1>5, <2>1, WriterFacts, PagelessStep
<1>8. Control(w, l)
  BY <1>2 DEF Control, Moving, Seen
<1>9. w \notin mixed => Fits(l, View(w), c, text[w])
  BY <1>2, <1>6 DEF Fits, Moving
<1>10. Drives(w, l, c)
  BY <1>1, <1>2, <1>3, WriterFacts DEF Drives, Told, InCall, Moving, display
<1> QED BY <1>2, <1>5, <1>7, <1>8, <1>9, <1>10, WriterFacts DEF Proceeds

LEMMA EraseCharacterProceeds ==
  ASSUME ConsoleInv, NEW w \in Writers, EraseCharacter(w)
  PROVE  Proceeds(w)
<1>0. /\ "next" \in Places /\ Home \in Cursors /\ BLANK \in Glyphs
      /\ 0 \in 0 .. WIDTH * HEIGHT
  BY Alphabet, Sizes, Corners DEF Places
<1> DEFINE l == [local[w] EXCEPT !.pc = "next", !.at = Home, !.ch = BLANK,
                                 !.cell = 0]
           k == Offset(cursor[w])
<1>1. /\ local[w].pc = "erase" /\ Store(w, k, BLANK)
      /\ UNCHANGED <<cursor, display, text>> /\ Unseen
  BY DEF EraseCharacter, At
<1>2. /\ l \in Locals /\ l.pc = "next" /\ l.seen = local[w].seen
      /\ l.ch = BLANK /\ l.cell = 0
  BY <1>0, WriterFacts DEF Locals, Places
<1>3. local' = [local EXCEPT ![w] = l]
  BY WriterFacts, OldRegisters DEF EraseCharacter, Finished
<1> HIDE DEF l
<1>4. PICK q \in Pages :
        /\ q = IF k \in Cells THEN [View(w) EXCEPT ![k] = BLANK] ELSE View(w)
        /\ StepTo(w, l, q, cursor[w], text[w])
  <2>1. l # local[w] /\ k \in Nat /\ (k < PAGE \/ ~OnPage(cursor[w]))
    BY <1>1, <1>2, WriterFacts, OffsetIs DEF OnPage
  <2> QED BY <1>0, <1>1, <1>2, <1>3, <2>1, StoreStep
<1>5. w \notin mixed => cursor[w] = text[w].cursor /\ Shows(q, text[w])
  <2>1. w \notin mixed =>
          cursor[w] = text[w].cursor /\ Erases(View(w), text[w])
    BY <1>1, WriterFacts DEF Fits
  <2>2. text[w].cursor \in Inside
    BY WriterFacts DEF Texts
  <2> QED BY <1>4, <2>1, <2>2, WriterFacts, PositionIs, EraseShows
<1>6. Control(w, l)
  BY <1>0, <1>2 DEF Control, Moving
<1>7. w \notin mixed => Fits(l, q, cursor[w], text[w])
  BY <1>2, <1>5 DEF Fits, Moving
<1>8. Drives(w, l, cursor[w])
  BY <1>1, <1>2, WriterFacts DEF Drives, Told, InCall, Moving, display
<1> QED BY <1>1, <1>2, <1>4, <1>6, <1>7, <1>8, WriterFacts DEF Proceeds

\* The registers of the display are bytes.
LEMMA Bytes ==
  ASSUME NEW c \in Cursors
  PROVE  /\ High(Position(c)) \in 0 .. ByteSize - 1
         /\ Low(Position(c)) \in 0 .. ByteSize - 1
<1>1. c.x \in Nat /\ c.y \in Nat
  BY Sizes DEF Cursors, Word
<1>2. PICK a \in Nat : a = c.y * WIDTH + c.x
  BY <1>1, Sizes
<1>3. PICK p \in Nat : p = Position(c)
  BY <1>2, Sizes, Division DEF Position
<1>4. PICK h \in Nat : h = p \div ByteSize
  BY Sizes, Division
<1> QED BY <1>3, <1>4, Sizes, Division DEF High, Low

\* The steps of terminal_set_cursor() that do not end it.
LEMMA SetCursorStepProceeds ==
  ASSUME ConsoleInv, NEW w \in Writers, SetCursorStep(w)
  PROVE  Proceeds(w)
<1> DEFINE at == local[w].at
<1>0. /\ UNCHANGED <<cursor, text>> /\ Unseen /\ NoPage
      /\ {"high", "highbyte", "low", "lowbyte", "erase", "next"}
           \subseteq Places
      /\ at \in Cursors /\ Home \in Cursors /\ 0 \in 0 .. WIDTH * HEIGHT
      /\ BLANK \in Glyphs
  BY WriterFacts, Sizes, Corners, Alphabet DEF SetCursorStep, Places, Locals
<1>1. ASSUME NEW l \in Locals, local' = [local EXCEPT ![w] = l],
             local[w].pc \in Moving, l.seen = local[w].seen,
             \/ l.pc \in Moving \cup {"erase"} /\ l.ch = local[w].ch
             \/ l.pc = "next" /\ l.ch = BLANK /\ l.cell = 0,
             l.pc = "erase" => local[w].ch = BS,
             l.pc = "next" => local[w].ch # BS,
             Drives(w, l, cursor[w])
      PROVE  Proceeds(w)
  <2>1. StepTo(w, l, View(w), cursor[w], text[w])
    BY <1>0, <1>1, QuietStep
  <2>2. Control(w, l)
    BY <1>1, Alphabet, WriterFacts DEF Control, Moving
  <2>3. w \notin mixed => Fits(l, View(w), cursor[w], text[w])
    BY <1>1, Alphabet, WriterFacts DEF Fits, Moving
  <2> QED BY <1>1, <2>1, <2>2, <2>3, WriterFacts DEF Proceeds
<1>2. CASE At(w, "cursor") /\ GotoWith(w, "high", cursor[w])
           /\ UNCHANGED display
  <2> DEFINE l == [local[w] EXCEPT !.pc = "high", !.at = cursor[w]]
  <2>1. /\ l \in Locals /\ l.pc = "high" /\ l.seen = local[w].seen
        /\ l.at = cursor[w] /\ l.ch = local[w].ch
    BY <1>0, WriterFacts DEF Locals, Places
  <2>2. local' = [local EXCEPT ![w] = l]
    BY <1>2, WriterFacts, OldRegisters DEF GotoWith
  <2> HIDE DEF l
  <2>3. Drives(w, l, cursor[w])
    BY <1>2, <2>1, WriterFacts DEF Drives, Told, InCall, Moving, display, At
  <2> QED BY <1>1, <1>2, <2>1, <2>2, <2>3 DEF At, Moving
<1>3. CASE At(w, "high") /\ Goto(w, "highbyte")
           /\ index' = 14 /\ UNCHANGED <<high, low>>
  <2> DEFINE l == [local[w] EXCEPT !.pc = "highbyte"]
  <2>1. /\ l \in Locals /\ l.pc = "highbyte" /\ l.seen = local[w].seen
        /\ l.at = at /\ l.ch = local[w].ch
    BY <1>0, WriterFacts DEF Locals, Places
  <2>2. local' = [local EXCEPT ![w] = l]
    BY <1>3, WriterFacts, OldRegisters DEF Goto
  <2> HIDE DEF l
  <2>3. Drives(w, l, cursor[w])
    BY <1>3, <2>1, WriterFacts DEF Drives, Told, InCall, Moving, At
  <2> QED BY <1>1, <1>3, <2>1, <2>2, <2>3 DEF At, Moving
<1>4. CASE At(w, "highbyte") /\ Goto(w, "low") /\ DataPort(High(Position(at)))
  <2> DEFINE l == [local[w] EXCEPT !.pc = "low"]
  <2>1. /\ l \in Locals /\ l.pc = "low" /\ l.seen = local[w].seen
        /\ l.at = at /\ l.ch = local[w].ch
    BY <1>0, WriterFacts DEF Locals, Places
  <2>2. local' = [local EXCEPT ![w] = l]
    BY <1>4, WriterFacts, OldRegisters DEF Goto
  <2>3. High(Position(at)) \in 0 .. ByteSize - 1
    BY <1>0, Bytes
  <2> HIDE DEF l
  <2>4. Drives(w, l, cursor[w])
    BY <1>4, <2>1, <2>3, WriterFacts
    DEF Drives, Told, InCall, Moving, At, DataPort
  <2> QED BY <1>1, <1>4, <2>1, <2>2, <2>4 DEF At, Moving
<1>5. CASE At(w, "low") /\ Goto(w, "lowbyte")
           /\ index' = 15 /\ UNCHANGED <<high, low>>
  <2> DEFINE l == [local[w] EXCEPT !.pc = "lowbyte"]
  <2>1. /\ l \in Locals /\ l.pc = "lowbyte" /\ l.seen = local[w].seen
        /\ l.at = at /\ l.ch = local[w].ch
    BY <1>0, WriterFacts DEF Locals, Places
  <2>2. local' = [local EXCEPT ![w] = l]
    BY <1>5, WriterFacts, OldRegisters DEF Goto
  <2> HIDE DEF l
  <2>3. Drives(w, l, cursor[w])
    BY <1>5, <2>1, WriterFacts DEF Drives, Told, InCall, Moving, At
  <2> QED BY <1>1, <1>5, <2>1, <2>2, <2>3 DEF At, Moving
<1>6. CASE /\ At(w, "lowbyte") /\ DataPort(Low(Position(at)))
           /\ IF local[w].ch = BS THEN Goto(w, "erase") ELSE Finished(w)
  <2>1. Low(Position(at)) \in 0 .. ByteSize - 1
    BY <1>0, Bytes
  <2>2. CASE local[w].ch = BS
    <3> DEFINE l == [local[w] EXCEPT !.pc = "erase"]
    <3>1. /\ l \in Locals /\ l.pc = "erase" /\ l.seen = local[w].seen
          /\ l.ch = local[w].ch
      BY <1>0, WriterFacts DEF Locals, Places
    <3>2. local' = [local EXCEPT ![w] = l]
      BY <1>6, <2>2, WriterFacts, OldRegisters DEF Goto
    <3> HIDE DEF l
    <3>3. Drives(w, l, cursor[w])
      BY <1>6, <2>1, <3>1, WriterFacts
      DEF Drives, Told, InCall, Moving, At, DataPort
    <3> QED BY <1>1, <1>6, <2>2, <3>1, <3>2, <3>3 DEF At, Moving
  <2>3. CASE local[w].ch # BS
    <3> DEFINE l == [local[w] EXCEPT !.pc = "next", !.at = Home, !.ch = BLANK,
                                     !.cell = 0]
    <3>1. /\ l \in Locals /\ l.pc = "next" /\ l.seen = local[w].seen
          /\ l.ch = BLANK /\ l.cell = 0
      BY <1>0, WriterFacts DEF Locals, Places
    <3>2. local' = [local EXCEPT ![w] = l]
      BY <1>6, <2>3, WriterFacts, OldRegisters DEF Finished
    <3> HIDE DEF l
    <3>3. Drives(w, l, cursor[w])
      BY <1>6, <2>1, <3>1, WriterFacts
      DEF Drives, Told, InCall, Moving, At, DataPort
    <3> QED BY <1>1, <1>6, <2>3, <3>1, <3>2, <3>3 DEF At, Moving
  <2> QED BY <2>2, <2>3
<1> QED BY <1>2, <1>3, <1>4, <1>5, <1>6 DEF SetCursorStep

LEMMA WriterProceeds ==
  ASSUME ConsoleInv, NEW w \in Writers, Fetch(w) \/ WriteStep(w)
  PROVE  Proceeds(w)
<1>1. CASE Fetch(w)
  BY <1>1, FetchGlyphProceeds, FetchNewLineProceeds, FetchBackspaceProceeds
  DEF Fetch
<1>2. CASE WriteStep(w)
  BY <1>2, CallWriteProceeds, ReturnProceeds, PutCharacterProceeds,
     LoadCursorProceeds, UpdateCursorProceeds, ScrollGetProceeds,
     ScrollPutProceeds, ScrollClearProceeds, RevertCursorProceeds,
     EraseCharacterProceeds, SetCursorStepProceeds
  DEF WriteStep
<1> QED BY <1>1, <1>2

\* A step of a process keeps the invariant.
LEMMA ProceedsKeeps ==
  ASSUME ConsoleInv, NEW w \in Writers, Proceeds(w),
         keys' \in 0 .. MaxKeys, written' \in 0 .. MaxWritten
  PROVE  ConsoleInv'
<1>1. PICK l \in Locals, q \in Pages, c \in Cursors, m \in Texts :
        /\ StepTo(w, l, q, c, m) /\ Control(w, l) /\ Drives(w, l, c)
        /\ w \notin mixed => Fits(l, q, c, m)
  BY DEF Proceeds
<1>2. /\ TypeOK /\ w \in Terminals /\ terminal_number \in Terminals
      /\ text \in [Terminals -> Texts]
  BY WriterFacts DEF ConsoleInv, TextInv
<1>3. /\ local' \in [Writers -> Locals] /\ local'[w] = l
      /\ \A u \in Writers : u # w => local'[u] = local[u]
  BY <1>1, <1>2 DEF StepTo, TypeOK
<1>4. /\ cursor' \in [Terminals -> Cursors] /\ cursor'[w] = c
      /\ \A t \in Terminals : t # w => cursor'[t] = cursor[t]
  BY <1>1, <1>2 DEF StepTo, TypeOK
<1>5. /\ text' \in [Terminals -> Texts] /\ text'[w] = m
      /\ \A t \in Terminals : t # w => text'[t] = text[t]
  BY <1>1, <1>2 DEF StepTo
<1>6. /\ screen' \in Pages /\ buffer' \in [Terminals -> Pages]
      /\ mixed' \subseteq Terminals /\ mixed \subseteq mixed'
      /\ w \notin mixed' => View(w)' = q
      /\ \A t \in Terminals : t # w /\ t \notin mixed' => View(t)' = View(t)
  BY <1>1 DEF StepTo
<1>7. UNCHANGED <<terminal_number, recorded, faulted, lagging>>
  BY <1>1 DEF StepTo
<1>8. TypeOK'
  <2>1. text' \in [Terminals -> [rows : Rows, cursor : Cursors]]
    BY <1>5, Corners DEF Texts
  <2>2. index' \in {14, 15} /\ {high', low'} \subseteq 0 .. ByteSize - 1
    BY <1>1 DEF Drives
  <2> QED BY <1>2, <1>3, <1>4, <1>6, <1>7, <2>1, <2>2 DEF TypeOK
<1>9. ControlInv'
  BY <1>1, <1>3 DEF ControlInv, ConsoleInv
<1>10. ScreenInv'
  <2> SUFFICES ASSUME NEW t \in Terminals, t \notin mixed'
               PROVE  Fits(Registers(t)', View(t)', cursor'[t], text'[t])
    BY DEF ScreenInv
  <2>0. t \notin mixed
    BY <1>6
  <2>1. CASE t = w
    <3>1. Registers(t)' = l
      BY <1>3, <2>1 DEF Registers
    <3> QED BY <1>1, <1>4, <1>5, <1>6, <2>0, <2>1, <3>1
  <2>2. CASE t # w
    <3>1. Registers(t)' = Registers(t)
      BY <1>3, <2>2 DEF Registers
    <3>2. Fits(Registers(t), View(t), cursor[t], text[t])
      BY <2>0 DEF ConsoleInv, ScreenInv
    <3> QED BY <1>4, <1>5, <1>6, <2>2, <3>1, <3>2
  <2> QED BY <2>1, <2>2
<1>11. DisplayInv'
  <2> SUFFICES ASSUME ~lagging
               PROVE  /\ Knows'
                      /\ Told(Registers(terminal_number)',
                              cursor'[terminal_number], index', high', low')
    BY <1>7 DEF DisplayInv
  <2>1. /\ Knows
        /\ Told(Registers(terminal_number), cursor[terminal_number],
                index, high, low)
    BY DEF ConsoleInv, DisplayInv
  <2>2. Knows'
    <3> SUFFICES ASSUME NEW u \in Writers, local'[u].pc # "program"
                 PROVE  local'[u].seen = u <=> u = terminal_number
      BY <1>7 DEF Knows, InCall, Seen
    <3>1. CASE u = w
      <4>1. l.seen = (IF InCall(w) THEN local[w].seen ELSE terminal_number)
        BY <1>1, <1>3, <3>1 DEF Drives
      <4> QED BY <1>2, <1>3, <2>1, <3>1, <4>1 DEF Knows, Seen
    <3>2. CASE u # w
      BY <1>3, <2>1, <3>2 DEF Knows, InCall, Seen
    <3> QED BY <3>1, <3>2
  <2>3. CASE w = terminal_number
    <3>1. Registers(terminal_number) = local[w]
          /\ Registers(terminal_number)' = l
      BY <1>3, <1>7, <2>3 DEF Registers
    <3>2. InCall(w) => Seen(w)
      BY <2>1, <2>3 DEF Knows
    <3> QED BY <1>1, <1>4, <2>1, <2>2, <2>3, <3>1, <3>2 DEF Drives
  <2>4. CASE w # terminal_number
    <3>1. Registers(terminal_number)' = Registers(terminal_number)
      BY <1>3, <1>7, <2>4 DEF Registers
    <3>2. local[w].pc \notin Moving
      <4>1. local[w].pc \in Moving => InCall(w) /\ Seen(w)
        BY WriterFacts DEF Control, InCall, Seen, Moving
      <4> QED BY <2>1, <2>4, <4>1 DEF Knows
    <3>3. UNCHANGED <<index, high, low>>
      BY <1>1, <3>2 DEF Drives, display
    <3> QED BY <1>2, <1>4, <2>1, <2>2, <2>4, <3>1, <3>3
  <2> QED BY <2>3, <2>4
<1>12. OwnInv'
  BY <1>6, <1>7 DEF ConsoleInv, OwnInv, Misled, Recorded
<1> QED BY <1>5, <1>8, <1>9, <1>10, <1>11, <1>12 DEF ConsoleInv, TextInv

-----------------------------------------------------------------------------
(* The keys.                                                               *)

\* The shown terminal t comes to have the page q, the cursor c and the text m.
Typed(q, c, m) ==
  LET t == terminal_number
  IN /\ screen' = q
     /\ cursor' = [cursor EXCEPT ![t] = c]
     /\ text' = [text EXCEPT ![t] = m]
     /\ SetCursor(c)
     /\ UNCHANGED <<terminal_number, buffer, recorded, local>>
     /\ faulted' \in BOOLEAN
     /\ mixed' \subseteq mixed \cup {t} /\ mixed \ {t} \subseteq mixed'
     /\ InCall(t) => t \in mixed'
     /\ t \in mixed \ mixed' => ~Crossed(t)
     /\ t \notin mixed' => c = m.cursor /\ Shows(q, m)
     /\ lagging' = Lagging

Types == \E q \in Pages, c \in Cursors, m \in Texts : Typed(q, c, m)

LEMMA KeyFacts ==
  ASSUME ConsoleInv
  PROVE  /\ TypeOK /\ terminal_number \in Terminals
         /\ screen \in Pages /\ cursor[terminal_number] \in Cursors
         /\ text[terminal_number] \in Texts /\ mixed \subseteq Terminals
         /\ terminal_number \notin mixed /\ ~InCall(terminal_number) =>
              /\ cursor[terminal_number] = text[terminal_number].cursor
              /\ cursor[terminal_number] \in Inside
              /\ Shows(screen, text[terminal_number])
<1>1. /\ TypeOK /\ terminal_number \in Terminals
      /\ screen \in Pages /\ cursor[terminal_number] \in Cursors
      /\ text[terminal_number] \in Texts /\ mixed \subseteq Terminals
  BY DEF ConsoleInv, TypeOK, TextInv
<1>2. ASSUME terminal_number \notin mixed, ~InCall(terminal_number)
      PROVE  /\ cursor[terminal_number] = text[terminal_number].cursor
             /\ cursor[terminal_number] \in Inside
             /\ Shows(screen, text[terminal_number])
  <2>1. Registers(terminal_number).pc = "program"
    BY <1>2 DEF InCall, Registers, Idle
  <2>2. Fits(Registers(terminal_number), View(terminal_number),
             cursor[terminal_number], text[terminal_number])
    BY <1>1, <1>2 DEF ConsoleInv, ScreenInv
  <2>3. View(terminal_number) = screen
    BY DEF View
  <2> QED BY <1>1, <2>1, <2>2, <2>3 DEF Fits, Texts
<1> QED BY <1>1, <1>2

LEMMA CleanScreenTypes ==
  ASSUME ConsoleInv, CleanScreen
  PROVE  Types
<1>1. Typed(Blank, Home, BlankText)
  BY BlankIs, KeyFacts DEF CleanScreen, Typed, TypeOK
<1> QED BY <1>1, BlankIs, Corners DEF Types

\* A key keeps the invariant.
LEMMA TypesKeeps ==
  ASSUME ConsoleInv, Types,
         keys' \in 0 .. MaxKeys, written' \in 0 .. MaxWritten
  PROVE  ConsoleInv'
<1> DEFINE n == terminal_number
<1>1. PICK q \in Pages, c \in Cursors, m \in Texts : Typed(q, c, m)
  BY DEF Types
<1>2. /\ TypeOK /\ n \in Terminals /\ text \in [Terminals -> Texts]
  BY KeyFacts DEF ConsoleInv, TextInv
<1>3. /\ UNCHANGED <<terminal_number, buffer, recorded, local>>
      /\ faulted' \in BOOLEAN
      /\ mixed' \subseteq mixed \cup {n} /\ mixed \ {n} \subseteq mixed'
      /\ InCall(n) => n \in mixed'
      /\ n \in mixed \ mixed' => ~Crossed(n)
      /\ n \notin mixed' => c = m.cursor /\ Shows(q, m)
      /\ lagging' = Lagging /\ screen' = q
  BY <1>1 DEF Typed
<1>4. /\ cursor' \in [Terminals -> Cursors] /\ cursor'[n] = c
      /\ \A t \in Terminals : t # n => cursor'[t] = cursor[t]
  BY <1>1, <1>2 DEF Typed, TypeOK
<1>5. /\ text' \in [Terminals -> Texts] /\ text'[n] = m
      /\ \A t \in Terminals : t # n => text'[t] = text[t]
  BY <1>1, <1>2 DEF Typed
<1>6. /\ index' = 15 /\ high' = High(Position(c)) /\ low' = Low(Position(c))
      /\ {high', low'} \subseteq 0 .. ByteSize - 1
  BY <1>1, Bytes DEF Typed, SetCursor
<1>7. TypeOK'
  <2>1. text' \in [Terminals -> [rows : Rows, cursor : Cursors]]
    BY <1>5, Corners DEF Texts
  <2>2. mixed' \subseteq Terminals /\ lagging' \in BOOLEAN
    BY <1>2, <1>3 DEF Lagging, TypeOK
  <2> QED BY <1>2, <1>3, <1>4, <1>6, <2>1, <2>2 DEF TypeOK
<1>8. ControlInv'
  BY <1>3 DEF ControlInv, ConsoleInv
<1>9. \A t : Registers(t)' = Registers(t)
  BY <1>3 DEF Registers
<1>10. ScreenInv'
  <2> SUFFICES ASSUME NEW t \in Terminals, t \notin mixed'
               PROVE  Fits(Registers(t)', View(t)', cursor'[t], text'[t])
    BY DEF ScreenInv
  <2>1. CASE t = n
    <3>1. Registers(t).pc = "program"
      BY <1>3, <2>1 DEF InCall, Registers, Idle
    <3>2. View(t)' = q
      BY <1>3, <2>1 DEF View
    <3>3. Fits(Registers(t), q, c, m)
      BY <1>3, <2>1, <3>1 DEF Fits, Moving
    <3> QED BY <1>4, <1>5, <1>9, <2>1, <3>2, <3>3
  <2>2. CASE t # n
    <3>1. Fits(Registers(t), View(t), cursor[t], text[t])
      BY <1>3, <2>2 DEF ConsoleInv, ScreenInv
    <3>2. View(t)' = View(t)
      BY <1>3, <2>2 DEF View
    <3> QED BY <1>4, <1>5, <1>9, <2>2, <3>1, <3>2
  <2> QED BY <2>1, <2>2
<1>11. DisplayInv'
  <2>0. PICK t \in Terminals :
          t = terminal_number /\ t = terminal_number' /\ cursor'[t] = c
    BY <1>2, <1>3, <1>4
  <2> SUFFICES ASSUME ~Lagging
               PROVE  /\ Knows'
                      /\ Told(Registers(t)', cursor'[t], index', high', low')
    BY <1>3, <2>0 DEF DisplayInv
  <2>1. \A u \in Writers : InCall(u) => u # t /\ ~Seen(u)
    BY <1>3, <2>0 DEF Lagging, Seen
  <2>2. Knows'
    BY <1>3, <2>0, <2>1 DEF Knows, InCall, Seen
  <2>3. Registers(t).pc = "program"
    BY <2>1 DEF InCall, Registers, Idle
  <2>4. Told(Registers(t), c, index', high', low')
    BY <1>6, <2>3 DEF Told, Moving
  <2> QED BY <1>9, <2>0, <2>2, <2>4
<1>12. OwnInv'
  <2> SUFFICES ASSUME NEW w \in Writers, Misled(w)
               PROVE  {w, Recorded(w)} \subseteq mixed'
    BY <1>3 DEF OwnInv, Misled, Recorded
  <2>1. {w, Recorded(w)} \subseteq mixed
    BY DEF ConsoleInv, OwnInv
  <2>2. n \in {w, Recorded(w)} => n \in mixed'
    BY <1>3, <2>1 DEF Crossed
  <2> QED BY <1>3, <2>1, <2>2
<1> QED BY <1>5, <1>7, <1>8, <1>10, <1>11, <1>12 DEF ConsoleInv, TextInv

\* So does another terminal on the screen.
LEMMA SwitchKeeps ==
  ASSUME ConsoleInv, NEW t \in Terminals, SwitchTerminal(t),
         keys' \in 0 .. MaxKeys, written' \in 0 .. MaxWritten
  PROVE  ConsoleInv'
<1>1. /\ TypeOK /\ terminal_number \in Terminals /\ cursor[t] \in Cursors
      /\ t # terminal_number /\ terminal_number' = t
      /\ UNCHANGED <<recorded, faulted, cursor, local, text, mixed>>
      /\ lagging' = Lagging
  BY DEF ConsoleInv, TypeOK, SwitchTerminal
<1>2. /\ screen' \in Pages /\ buffer' \in [Terminals -> Pages]
      /\ \A u \in Terminals : View(u)' = View(u)
  BY <1>1 DEF SwitchTerminal, TypeOK, View
<1>3. /\ index' = 15
      /\ high' = High(Position(cursor[t])) /\ low' = Low(Position(cursor[t]))
      /\ {high', low'} \subseteq 0 .. ByteSize - 1
  BY <1>1, Bytes DEF SwitchTerminal, SetCursor
<1>4. TypeOK'
  BY <1>1, <1>2, <1>3 DEF TypeOK, Lagging
<1>5. ControlInv' /\ TextInv' /\ OwnInv'
  BY <1>1 DEF ControlInv, ConsoleInv, TextInv, OwnInv, Misled, Recorded
<1>6. \A u : Registers(u)' = Registers(u)
  BY <1>1 DEF Registers
<1>7. ScreenInv'
  BY <1>1, <1>2, <1>6 DEF ScreenInv, ConsoleInv
<1>8. DisplayInv'
  <2> SUFFICES ASSUME ~Lagging
               PROVE  /\ Knows'
                      /\ Told(Registers(t)', cursor'[t], index', high', low')
    BY <1>1 DEF DisplayInv
  <2>1. \A u \in Writers : InCall(u) => u # t /\ ~Seen(u)
    BY <1>1 DEF Lagging, Seen
  <2>2. Knows'
    BY <1>1, <2>1 DEF Knows, InCall, Seen
  <2>3. Registers(t).pc = "program"
    BY <2>1 DEF InCall, Registers, Idle
  <2>4. Told(Registers(t), cursor[t], index', high', low')
    BY <1>3, <2>3 DEF Told, Moving
  <2> QED BY <1>1, <1>6, <2>2, <2>4
<1> QED BY <1>4, <1>5, <1>7, <1>8 DEF ConsoleInv

-----------------------------------------------------------------------------
(* What the keys print.                                                    *)

\* Printing keeps to pages and cursors wherever the cursor is.
LEMMA PutTypes ==
  ASSUME NEW p \in Pages, NEW c \in Cursors, NEW ch \in Glyphs
  PROVE  \E q \in Pages : Put([page |-> p, cursor |-> c], ch) =
                            [page |-> q, cursor |-> c]
<1>1. CASE Offset(c) \in Cells
  <2>1. [p EXCEPT ![Offset(c)] = ch] \in Pages
    BY DEF Pages
  <2>2. Put([page |-> p, cursor |-> c], ch) =
          [page |-> [p EXCEPT ![Offset(c)] = ch], cursor |-> c]
    BY <1>1 DEF Put
  <2> QED BY <2>1, <2>2
<1>2. CASE Offset(c) \notin Cells
  BY <1>2 DEF Put
<1> QED BY <1>1, <1>2

LEMMA AdvanceTypes ==
  ASSUME NEW p \in Pages, NEW c \in Cursors
  PROVE  \E q \in Pages, d \in Cursors :
           Advance([page |-> p, cursor |-> c]) = [page |-> q, cursor |-> d]
<1>1. c.x \in Word /\ c.y \in Word
  BY DEF Cursors
<1>2. (c.x + 1) % WordSize \in Word /\ (c.y + 1) % WordSize \in Word
      /\ 0 \in Word
  BY <1>1, Sizes DEF Word
<1>3. CASE c.x # WIDTH - 1
  <2>1. [c EXCEPT !.x = (@ + 1) % WordSize] \in Cursors
    BY <1>2 DEF Cursors
  <2>2. Advance([page |-> p, cursor |-> c]) =
          [page |-> p, cursor |-> [c EXCEPT !.x = (@ + 1) % WordSize]]
    BY <1>3 DEF Advance
  <2> QED BY <2>1, <2>2
<1>4. CASE c.x = WIDTH - 1 /\ c.y # HEIGHT - 1
  <2>1. [x |-> 0, y |-> (c.y + 1) % WordSize] \in Cursors
    BY <1>2 DEF Cursors
  <2>2. Advance([page |-> p, cursor |-> c]) =
          [page |-> p, cursor |-> [x |-> 0, y |-> (c.y + 1) % WordSize]]
    BY <1>4 DEF Advance
  <2> QED BY <2>1, <2>2
<1>5. CASE c.x = WIDTH - 1 /\ c.y = HEIGHT - 1
  <2>1. Scrolled(p) \in Pages
    BY Alphabet DEF Scrolled, Pages
  <2>2. Advance([page |-> p, cursor |-> c]) =
          [page |-> Scrolled(p), cursor |-> Bottom]
    BY <1>5 DEF Advance, Bottom
  <2> QED BY <2>1, <2>2, Corners
<1> QED BY <1>3, <1>4, <1>5

LEMMA RevertTypes ==
  ASSUME NEW c \in Cursors
  PROVE  Revert(c) \in Cursors
<1>1. c.x \in Word /\ c.y \in Word /\ c = [x |-> c.x, y |-> c.y]
      /\ WIDTH - 1 \in Word
  BY Sizes DEF Cursors, Word
<1>2. c # Home /\ c.x = 0 => c.y - 1 \in Word
  <2>1. c # Home /\ c.x = 0 => c.y # 0
    BY <1>1 DEF Home
  <2> QED BY <1>1, <2>1, Sizes DEF Word
<1>3. c.x # 0 => c.x - 1 \in Word
  BY <1>1, Sizes DEF Word
<1> QED BY <1>1, <1>2, <1>3 DEF Revert, Cursors

\* A key that is printed.
LEMMA PrintedIs ==
  ASSUME NEW p \in Pages, NEW c \in Cursors, NEW ch \in Glyphs \cup {LF}
  PROVE  \E q \in Pages, d \in Cursors :
           /\ Printed([page |-> p, cursor |-> c], ch) =
                [page |-> q, cursor |-> d]
           /\ \A m \in Texts :
                Shows(p, m) /\ c = m.cursor /\ c \in Inside =>
                  /\ TextPrinted(m, ch) \in Texts
                  /\ d = TextPrinted(m, ch).cursor
                  /\ Shows(q, TextPrinted(m, ch))
<1>1. CASE ch = LF
  <2>1. PICK e \in Cursors : /\ e = [c EXCEPT !.x = WIDTH - 1]
                             /\ e.x = WIDTH - 1 /\ e.y = c.y
    <3>1. WIDTH - 1 \in Word
      BY Sizes DEF Word
    <3> DEFINE e == [c EXCEPT !.x = WIDTH - 1]
    <3>2. e \in Cursors /\ e.x = WIDTH - 1 /\ e.y = c.y
      BY <3>1 DEF Cursors
    <3> HIDE DEF e
    <3>3. e = [c EXCEPT !.x = WIDTH - 1]
      BY DEF e
    <3> QED BY <3>2, <3>3
  <2>2. Printed([page |-> p, cursor |-> c], ch) =
          Advance([page |-> p, cursor |-> e])
    BY <1>1, <2>1 DEF Printed, NewLine
  <2>3. PICK q \in Pages, d \in Cursors :
          Advance([page |-> p, cursor |-> e]) = [page |-> q, cursor |-> d]
    BY AdvanceTypes
  <2>4. ASSUME NEW m \in Texts, Shows(p, m), c = m.cursor, c \in Inside
        PROVE  /\ TextPrinted(m, ch) \in Texts
               /\ d = TextPrinted(m, ch).cursor
               /\ Shows(q, TextPrinted(m, ch))
    <3>1. TextPrinted(m, ch) = TextNewLine(m)
      BY <1>1 DEF TextPrinted
    <3>2. e \in Inside
      BY <2>1, <2>4, Sizes DEF Inside
    <3>3. TextNewLine(m) \in Texts /\ Advances(p, e, TextNewLine(m))
      BY <2>1, <2>4, <3>2, TextNewLineIs, NewLineAdvances
    <3>4. PICK r \in Pages :
            /\ Advance([page |-> p, cursor |-> e]) =
                 [page |-> r, cursor |-> TextNewLine(m).cursor]
            /\ Shows(r, TextNewLine(m))
      BY <3>2, <3>3, AdvanceIs
    <3>5. q = r /\ d = TextNewLine(m).cursor
      BY <2>3, <3>4
    <3> QED BY <3>1, <3>3, <3>4, <3>5
  <2> QED BY <2>2, <2>3, <2>4
<1>2. CASE ch \in Glyphs
  <2>0. ch # LF
    BY <1>2, Alphabet
  <2>1. PICK o \in Pages : Put([page |-> p, cursor |-> c], ch) =
                             [page |-> o, cursor |-> c]
    BY <1>2, PutTypes
  <2>2. Printed([page |-> p, cursor |-> c], ch) =
          Advance([page |-> o, cursor |-> c])
    BY <2>0, <2>1 DEF Printed
  <2>3. PICK q \in Pages, d \in Cursors :
          Advance([page |-> o, cursor |-> c]) = [page |-> q, cursor |-> d]
    BY AdvanceTypes
  <2>4. ASSUME NEW m \in Texts, Shows(p, m), c = m.cursor, c \in Inside
        PROVE  /\ TextPrinted(m, ch) \in Texts
               /\ d = TextPrinted(m, ch).cursor
               /\ Shows(q, TextPrinted(m, ch))
    <3>1. o = [p EXCEPT ![Position(c)] = ch]
      <4>1. Put([page |-> p, cursor |-> c], ch) =
              [page |-> [p EXCEPT ![Position(c)] = ch], cursor |-> c]
        BY <2>4, PositionIs DEF Put
      <4> QED BY <2>1, <4>1
    <3>2. TextPrinted(m, ch) \in Texts /\ Advances(o, c, TextPrinted(m, ch))
      BY <1>2, <2>4, <3>1, PrintedAdvances
    <3>3. PICK r \in Pages :
            /\ Advance([page |-> o, cursor |-> c]) =
                 [page |-> r, cursor |-> TextPrinted(m, ch).cursor]
            /\ Shows(r, TextPrinted(m, ch))
      BY <2>4, <3>2, AdvanceIs
    <3>4. q = r /\ d = TextPrinted(m, ch).cursor
      BY <2>3, <3>3
    <3> QED BY <3>2, <3>3, <3>4
  <2> QED BY <2>2, <2>3, <2>4
<1> QED BY <1>1, <1>2

LEMMA EchoKeyTypes ==
  ASSUME ConsoleInv, NEW ch \in Characters \cup {LF}, EchoKey(ch)
  PROVE  Types
<1> DEFINE n == terminal_number
<1>0. ch \in Glyphs \cup {LF}
  BY DEF Glyphs
<1>1. PICK q \in Pages, d \in Cursors :
        /\ Printed([page |-> screen, cursor |-> cursor[n]], ch) =
             [page |-> q, cursor |-> d]
        /\ \A m \in Texts :
             Shows(screen, m) /\ cursor[n] = m.cursor /\ cursor[n] \in Inside =>
               /\ TextPrinted(m, ch) \in Texts
               /\ d = TextPrinted(m, ch).cursor
               /\ Shows(q, TextPrinted(m, ch))
  BY <1>0, KeyFacts, PrintedIs
<1> DEFINE m == IF n \in mixed' THEN BlankText ELSE TextPrinted(text[n], ch)
<1>2. /\ UNCHANGED <<terminal_number, buffer, recorded, local>>
      /\ mixed' = IF InCall(n) THEN mixed \cup {n} ELSE mixed
      /\ lagging' = Lagging /\ faulted' \in BOOLEAN
      /\ text' = [text EXCEPT ![n] = m]
      /\ screen' = q /\ cursor' = [cursor EXCEPT ![n] = d] /\ SetCursor(d)
  <2>1. UNCHANGED <<terminal_number, buffer, recorded, local>>
    BY DEF EchoKey, Echo
  <2>2. text' = [text EXCEPT ![n] = m]
    BY DEF EchoKey, Echo, Intend
  <2>3. screen' = q /\ cursor' = [cursor EXCEPT ![n] = d] /\ SetCursor(d)
    <3> DEFINE v == Printed([page |-> screen, cursor |-> cursor[n]], ch)
    <3>1. v.page = q /\ v.cursor = d
      BY <1>1
    <3>2. screen' = v.page
      BY DEF EchoKey, Echo
    <3>3. cursor' = [cursor EXCEPT ![n] = v.cursor]
      BY DEF EchoKey, Echo
    <3>4. SetCursor(v.cursor)
      BY DEF EchoKey, Echo
    <3> QED BY <3>1, <3>2, <3>3, <3>4
  <2>4. faulted' \in BOOLEAN
    BY KeyFacts DEF EchoKey, TypeOK
  <2> QED BY <2>1, <2>2, <2>3, <2>4 DEF EchoKey, Echo
<1>3. n \notin mixed' =>
        /\ n \notin mixed /\ ~InCall(n)
        /\ text[n] \in Texts /\ cursor[n] = text[n].cursor
        /\ Shows(screen, text[n]) /\ cursor[n] \in Inside
  BY <1>2, KeyFacts
<1>4. m \in Texts /\ (n \notin mixed' => d = m.cursor /\ Shows(q, m))
  BY <1>1, <1>3, BlankIs
<1> HIDE DEF m
<1>5. Typed(q, d, m)
  BY <1>2, <1>3, <1>4 DEF Typed
<1> QED BY <1>4, <1>5 DEF Types

LEMMA EchoBackspaceTypes ==
  ASSUME ConsoleInv, EchoBackspace
  PROVE  Types
<1> DEFINE n == terminal_number
           m == IF n \in mixed' THEN BlankText ELSE TextErased(text[n])
<1>0. PICK d \in Cursors : d = Revert(cursor[n]) /\ cursor[n] # Home
  BY KeyFacts, RevertTypes DEF EchoBackspace
<1>1. PICK q \in Pages :
        Put([page |-> screen, cursor |-> d], BLANK) = [page |-> q, cursor |-> d]
  BY <1>0, KeyFacts, Alphabet, PutTypes
<1>2. Erased([page |-> screen, cursor |-> cursor[n]]) =
        [page |-> q, cursor |-> d]
  BY <1>0, <1>1 DEF Erased
<1>3. /\ UNCHANGED <<terminal_number, buffer, recorded, local>>
      /\ mixed' = IF InCall(n) THEN mixed \cup {n} ELSE mixed
      /\ lagging' = Lagging /\ faulted' \in BOOLEAN
      /\ text' = [text EXCEPT ![n] = m]
      /\ screen' = q /\ cursor' = [cursor EXCEPT ![n] = d] /\ SetCursor(d)
  <2>1. UNCHANGED <<terminal_number, buffer, recorded, local>>
    BY DEF EchoBackspace, Echo
  <2>2. Intend(n, TextErased)
    BY DEF EchoBackspace, Echo
  <2>3. text' = [text EXCEPT ![n] = m]
    BY <2>2 DEF Intend
  <2>4. screen' = q /\ cursor' = [cursor EXCEPT ![n] = d] /\ SetCursor(d)
    <3> DEFINE v == Erased([page |-> screen, cursor |-> cursor[n]])
    <3>1. v.page = q /\ v.cursor = d
      BY <1>2
    <3>2. screen' = v.page
      BY DEF EchoBackspace, Echo
    <3>3. cursor' = [cursor EXCEPT ![n] = v.cursor]
      BY DEF EchoBackspace, Echo
    <3>4. SetCursor(v.cursor)
      BY DEF EchoBackspace, Echo
    <3> QED BY <3>1, <3>2, <3>3, <3>4
  <2>5. faulted' \in BOOLEAN
    BY DEF EchoBackspace
  <2> QED BY <2>1, <2>3, <2>4, <2>5 DEF EchoBackspace, Echo
<1>4. n \notin mixed' =>
        /\ n \notin mixed /\ ~InCall(n)
        /\ text[n] \in Texts /\ cursor[n] = text[n].cursor
        /\ Shows(screen, text[n]) /\ cursor[n] \in Inside
  BY <1>3, KeyFacts
<1>5. m \in Texts /\ (n \notin mixed' => d = m.cursor /\ Erases(screen, m))
  BY <1>0, <1>4, KeyFacts, BlankIs, TextErasedIs
<1>6. n \notin mixed' => Shows(q, m)
  <2>1. n \notin mixed' => Position(d) \in Cells /\ Offset(d) = Position(d)
    BY <1>0, <1>4, RevertIs, PositionIs
  <2>2. n \notin mixed' => q = [screen EXCEPT ![Position(d)] = BLANK]
    BY <1>1, <2>1 DEF Put
  <2> QED BY <1>0, <1>5, <2>2, KeyFacts, EraseShows
<1> HIDE DEF m
<1>7. Typed(q, d, m)
  BY <1>3, <1>4, <1>5, <1>6 DEF Typed
<1> QED BY <1>0, <1>5, <1>7 DEF Types

LEMMA EchoLeftTypes ==
  ASSUME ConsoleInv, EchoLeft
  PROVE  Types
<1> DEFINE n == terminal_number
           m == IF n \in mixed' THEN BlankText ELSE TextBack(text[n])
<1>0. PICK d \in Cursors : d = Revert(cursor[n])
  BY KeyFacts, RevertTypes
<1>1. [[page |-> screen, cursor |-> cursor[n]] EXCEPT !.cursor = Revert(@)] =
        [page |-> screen, cursor |-> d]
  BY <1>0
<1>2. /\ UNCHANGED <<terminal_number, buffer, recorded, local>>
      /\ mixed' = IF InCall(n) THEN mixed \cup {n} ELSE mixed
      /\ lagging' = Lagging /\ faulted' \in BOOLEAN
      /\ text' = [text EXCEPT ![n] = m]
      /\ screen' = screen /\ cursor' = [cursor EXCEPT ![n] = d] /\ SetCursor(d)
  BY <1>1, KeyFacts DEF EchoLeft, Echo, Intend, TypeOK
<1>3. n \notin mixed' =>
        /\ n \notin mixed /\ ~InCall(n)
        /\ text[n] \in Texts /\ cursor[n] = text[n].cursor
        /\ Shows(screen, text[n])
  BY <1>2, KeyFacts
<1>4. m \in Texts /\ (n \notin mixed' => d = m.cursor)
  BY <1>0, <1>3, KeyFacts, BlankIs, TextBackIs
<1>5. n \notin mixed' => Shows(screen, m)
  BY <1>3, TextBackIs DEF Shows, CellOf
<1> HIDE DEF m
<1>6. Typed(screen, d, m)
  BY <1>2, <1>3, <1>4, <1>5 DEF Typed
<1> QED BY <1>0, <1>4, <1>6, KeyFacts DEF Types

-----------------------------------------------------------------------------
\* The screen of a kernel that has just started.
LEMMA ConsoleInit == Init => ConsoleInv
<1> SUFFICES ASSUME Init PROVE ConsoleInv
  OBVIOUS
<1>1. /\ 0 \in Terminals /\ Writers \subseteq Terminals
      /\ 0 \in 0 .. ByteSize - 1 /\ 0 \in 0 .. WIDTH * HEIGHT
      /\ 0 \in 0 .. MaxKeys /\ 0 \in 0 .. MaxWritten /\ Home \in Cursors
  BY ConsoleAssumption, Sizes, Corners DEF Terminals
<1>2. Idle \in Locals
  BY <1>1, Alphabet DEF Idle, Locals
<1>3. local = [w \in Writers |-> Idle]
  BY DEF Init, Idle
<1>4. TextInv
  BY BlankIs DEF Init, TextInv
<1>5. TypeOK
  <2>1. text \in [Terminals -> [rows : Rows, cursor : Cursors]]
    BY <1>4, Corners DEF TextInv, Texts
  <2>2. screen \in Pages /\ buffer \in [Terminals -> Pages]
    BY BlankIs DEF Init
  <2>3. local \in [Writers -> Locals] /\ cursor \in [Terminals -> Cursors]
    BY <1>1, <1>2, <1>3 DEF Init
  <2>4. recorded \in [Writers -> Seq(Terminals) \ {<<>>}]
    <3>1. \A w \in Writers : <<w>> \in Seq(Terminals) /\ <<w>> # <<>>
      BY <1>1
    <3> QED BY <3>1 DEF Init
  <2> QED BY <1>1, <2>1, <2>2, <2>3, <2>4 DEF Init, TypeOK
<1>6. \A t : Registers(t) = Idle
  BY <1>3 DEF Registers
<1>7. ControlInv
  BY <1>3, Alphabet DEF ControlInv, Control, Idle, Moving
<1>8. ScreenInv
  <2> SUFFICES ASSUME NEW t \in Terminals
               PROVE  Fits(Registers(t), View(t), cursor[t], text[t])
    BY DEF ScreenInv
  <2>1. View(t) = Blank /\ cursor[t] = Home /\ text[t] = BlankText
    BY DEF Init, View
  <2> QED BY <1>6, <2>1, BlankIs DEF Fits, Idle, Moving
<1>9. DisplayInv
  <2>1. Knows
    BY <1>3 DEF Knows, InCall, Idle
  <2>2. Position(Home) = 0
    BY <1>1, Corners, CellIs, Sizes, SmallRemainder DEF Position, Home
  <2>3. High(0) = 0 /\ Low(0) = 0
    BY Sizes DEF High, Low
  <2>4. Told(Registers(terminal_number), cursor[terminal_number],
             index, high, low)
    BY <1>1, <1>6, <2>2, <2>3 DEF Init, Told, Idle, Moving
  <2> QED BY <2>1, <2>4 DEF DisplayInv
<1>10. OwnInv
  BY DEF Init, OwnInv, Misled, Recorded
<1> QED BY <1>4, <1>5, <1>7, <1>8, <1>9, <1>10 DEF ConsoleInv

-----------------------------------------------------------------------------
(* Programs and faults.                                                    *)

\* Steps that leave the views, the cursors and the registers as they are.
Rests ==
  /\ UNCHANGED <<terminal_number, screen, buffer, cursor, display, local, text>>
  /\ UNCHANGED lagging
  /\ recorded' \in [Writers -> Seq(Terminals) \ {<<>>}]
  /\ faulted' \in BOOLEAN
  /\ mixed' \subseteq Terminals /\ mixed \subseteq mixed'
  /\ OwnInv'

LEMMA RestsKeeps ==
  ASSUME ConsoleInv, Rests,
         keys' \in 0 .. MaxKeys, written' \in 0 .. MaxWritten
  PROVE  ConsoleInv'
<1>1. /\ UNCHANGED <<terminal_number, screen, buffer, cursor, local, text>>
      /\ UNCHANGED <<index, high, low, lagging>> /\ mixed \subseteq mixed'
  BY DEF Rests, display
<1>2. \A t : View(t)' = View(t) /\ Registers(t)' = Registers(t)
  BY <1>1 DEF View, Registers
<1>3. TypeOK' /\ TextInv' /\ ControlInv' /\ OwnInv'
  BY <1>1 DEF ConsoleInv, TypeOK, TextInv, ControlInv, Rests
<1>4. ScreenInv'
  BY <1>1, <1>2 DEF ConsoleInv, ScreenInv
<1>5. DisplayInv'
  BY <1>1, <1>2 DEF ConsoleInv, DisplayInv, Knows, InCall, Seen
<1> QED BY <1>3, <1>4, <1>5 DEF ConsoleInv

LEMMA StopRests ==
  ASSUME ConsoleInv, Stop
  PROVE  Rests
<1>1. TypeOK /\ OwnInv
  BY DEF ConsoleInv
<1>2. UNCHANGED <<recorded, mixed>> /\ faulted' \in BOOLEAN
  BY DEF Stop
<1>3. OwnInv'
  BY <1>1, <1>2 DEF OwnInv, Misled, Recorded
<1> QED BY <1>1, <1>2, <1>3 DEF Stop, Rests, TypeOK

\* Another process of terminal w runs.
LEMMA RunRests ==
  ASSUME ConsoleInv, NEW w \in Writers,
         NEW line \in Seq(Terminals) \ {<<>>}, Run(w, line)
  PROVE  Rests
<1>1. TypeOK /\ OwnInv /\ w \in Terminals
  BY WriterFacts DEF ConsoleInv
<1>2. PICK h \in Terminals : h = Head(line)
  OBVIOUS
<1>3. /\ recorded' = [recorded EXCEPT ![w] = line]
      /\ mixed' = IF h = w THEN mixed ELSE mixed \cup {w, h}
      /\ UNCHANGED faulted
  BY <1>2 DEF Run
<1>4. /\ recorded' \in [Writers -> Seq(Terminals) \ {<<>>}]
      /\ recorded'[w] = line
      /\ \A u \in Writers : u # w => recorded'[u] = recorded[u]
  BY <1>1, <1>3 DEF TypeOK
<1>5. mixed' \subseteq Terminals /\ mixed \subseteq mixed'
  BY <1>1, <1>3 DEF TypeOK
<1>6. OwnInv'
  <2> SUFFICES ASSUME NEW u \in Writers, Head(recorded'[u]) # u
               PROVE  {u, Head(recorded'[u])} \subseteq mixed'
    BY DEF OwnInv, Misled, Recorded
  <2>1. CASE u = w
    BY <1>2, <1>3, <1>4, <2>1
  <2>2. CASE u # w
    BY <1>1, <1>4, <1>5, <2>2 DEF OwnInv, Misled, Recorded
  <2> QED BY <2>1, <2>2
<1> QED BY <1>1, <1>3, <1>4, <1>5, <1>6 DEF Run, Rests, TypeOK

LEMMA ProgramRests ==
  ASSUME ConsoleInv, NEW w \in Writers, ProgramStep(w)
  PROVE  Rests
<1>1. /\ recorded[w] \in Seq(Terminals) /\ recorded[w] # <<>>
      /\ terminal_number \in Terminals
  BY WriterFacts DEF TypeOK
<1>2. CASE Execute(w)
  <2>1. <<terminal_number>> \o recorded[w] \in Seq(Terminals)
        /\ <<terminal_number>> \o recorded[w] # <<>>
    BY <1>1
  <2> QED BY <1>2, <2>1, RunRests DEF Execute
<1>3. CASE HaltProgram(w)
  <2>1. Len(recorded[w]) > 1
    BY <1>3 DEF HaltProgram
  <2>2. Tail(recorded[w]) \in Seq(Terminals) /\ Tail(recorded[w]) # <<>>
    BY <1>1, <2>1, HeadTailProperties, EmptySeq
  <2> QED BY <1>3, <2>2, RunRests DEF HaltProgram
<1>4. CASE HaltShell(w)
  <2>1. <<terminal_number>> \in Seq(Terminals) /\ <<terminal_number>> # <<>>
    BY <1>1
  <2> QED BY <1>4, <2>1, RunRests DEF HaltShell
<1> QED BY <1>2, <1>3, <1>4 DEF ProgramStep

-----------------------------------------------------------------------------
\* A step is one of a process, prints a key, shows another terminal or leaves
\* everything as it is on the screen.
LEMMA Steps ==
  ASSUME ConsoleInv, Next
  PROVE  /\ keys' \in 0 .. MaxKeys /\ written' \in 0 .. MaxWritten
         /\ \/ \E w \in Writers : Proceeds(w)
            \/ Types
            \/ \E t \in Terminals : SwitchTerminal(t)
            \/ Rests
            \/ UNCHANGED vars
<1>1. keys \in 0 .. MaxKeys /\ written \in 0 .. MaxWritten
      /\ MaxKeys \in Nat /\ MaxWritten \in Nat
  BY ConsoleAssumption DEF ConsoleInv, TypeOK
<1>2. CASE Keyboard
  <2>1. keys' \in 0 .. MaxKeys /\ written' \in 0 .. MaxWritten
    BY <1>1, <1>2 DEF Keyboard
  <2>2. Types \/ Rests \/ \E t \in Terminals : SwitchTerminal(t)
    BY <1>2, EchoKeyTypes, EchoBackspaceTypes, EchoLeftTypes, CleanScreenTypes,
       StopRests
    DEF Keyboard, EchoFaults
  <2> QED BY <2>1, <2>2
<1>3. CASE \E w \in Writers : Fetch(w) \/ Process(w)
  <2>1. PICK w \in Writers : Fetch(w) \/ Process(w)
    BY <1>3
  <2>2. keys' \in 0 .. MaxKeys /\ written' \in 0 .. MaxWritten
    BY <1>1, <2>1 DEF Fetch, Process
  <2>3. Proceeds(w) \/ Rests
    BY <2>1, WriterProceeds, ProgramRests, StopRests DEF Process, WriteFaults
  <2> QED BY <2>2, <2>3
<1>4. CASE Stopped
  BY <1>1, <1>4 DEF Stopped, vars
<1> QED BY <1>2, <1>3, <1>4 DEF Next

LEMMA ConsoleNext == ConsoleInv /\ [Next]_vars => ConsoleInv'
<1> SUFFICES ASSUME ConsoleInv, [Next]_vars PROVE ConsoleInv'
  OBVIOUS
<1>1. CASE UNCHANGED vars
  <2>1. TypeOK /\ OwnInv
    BY DEF ConsoleInv
  <2>2. UNCHANGED <<recorded, mixed>>
    BY <1>1 DEF vars
  <2>3. OwnInv'
    BY <2>1, <2>2 DEF OwnInv, Misled, Recorded
  <2>4. Rests
    BY <1>1, <2>1, <2>3 DEF vars, Rests, TypeOK
  <2>5. keys' \in 0 .. MaxKeys /\ written' \in 0 .. MaxWritten
    BY <1>1, <2>1 DEF vars, TypeOK
  <2> QED BY <2>4, <2>5, RestsKeeps
<1>2. CASE Next
  BY <1>1, <1>2, Steps, ProceedsKeeps, TypesKeeps, SwitchKeeps, RestsKeeps
<1> QED BY <1>1, <1>2

LEMMA ConsoleHolds == Spec => []ConsoleInv
BY ConsoleInit, ConsoleNext, PTL DEF Spec

\* Pages, cursors, the registers of the display and of the processes keep their
\* types, whichever calls of write_terminal() and keys move a cursor at once.
THEOREM ConsoleTypes == Spec => []TypeOK
<1>1. ConsoleInv => TypeOK
  BY DEF ConsoleInv
<1> QED BY <1>1, ConsoleHolds, PTL

\* However often a terminal is shown and left while terminal_console_putc(),
\* terminal_scroll_up() and the functions that move the cursor are at work on
\* its page, it shows what was written to it, until a process whose pcb has it
\* by mistake, or whose cursor has left the screen, writes there.
THEOREM ScreenIsText == Spec => []ScreenShowsText
<1>1. ASSUME ConsoleInv PROVE ScreenShowsText
  <2> SUFFICES ASSUME NEW t \in Terminals, t \notin mixed, Between(t)
               PROVE  /\ cursor[t] = text[t].cursor
                      /\ \A y \in 0 .. HEIGHT - 1, x \in 0 .. WIDTH - 1 :
                           View(t)[y * WIDTH + x] = text[t].rows[y][x]
    BY DEF ScreenShowsText
  <2>1. Registers(t).pc \in {"program", "next"}
    BY DEF Between, Registers, Idle
  <2>2. cursor[t] = text[t].cursor /\ Shows(View(t), text[t])
    BY <1>1, <2>1 DEF ConsoleInv, ScreenInv, Fits
  <2>3. ASSUME NEW y \in 0 .. HEIGHT - 1, NEW x \in 0 .. WIDTH - 1
        PROVE  View(t)[y * WIDTH + x] = text[t].rows[y][x]
    <3>1. /\ y * WIDTH + x \in Cells
          /\ (y * WIDTH + x) \div WIDTH = y /\ (y * WIDTH + x) % WIDTH = x
      BY CellIs
    <3> QED BY <2>2, <3>1 DEF Shows, CellOf
  <2> QED BY <2>2, <2>3
<1> QED BY <1>1, ConsoleHolds, PTL

\* A process in the background does not move the cursor of the display, and
\* one on the screen leaves it where its own cursor is.
THEOREM DisplayFollows == Spec => []DisplayCursorFollows
<1>1. ASSUME ConsoleInv PROVE DisplayCursorFollows
  <2> SUFFICES ASSUME ~lagging, Between(terminal_number)
               PROVE  LET position == Position(cursor[terminal_number])
                      IN high = High(position) /\ low = Low(position)
    BY DEF DisplayCursorFollows
  <2>1. Registers(terminal_number).pc \in {"program", "next"}
    BY DEF Between, Registers, Idle
  <2> QED BY <1>1, <2>1 DEF ConsoleInv, DisplayInv, Told
<1> QED BY <1>1, ConsoleHolds, PTL

\* Only the processes that have it in their pcb, those whose cursor has left the
\* page and the keys typed while it is on the screen change what a terminal
\* shows; to show another one, to start and to end a program change no view.
THEOREM ViewsStaySeparate == Spec => ViewsAreSeparate
<1> DEFINE Separate ==
      \A t \in Terminals : View(t)' # View(t) =>
        \/ \E w \in Writers :
             /\ local'[w] # local[w]
             /\ \/ Recorded(w) = t
                \/ ~OnPage(local[w].at) \/ ~OnPage(cursor[w])
        \/ t = terminal_number /\ UNCHANGED <<terminal_number, local>>
<1>1. ASSUME ConsoleInv, Next PROVE Separate
  <2> SUFFICES ASSUME NEW t \in Terminals, View(t)' # View(t)
               PROVE  \/ \E w \in Writers : local'[w] # local[w] /\ Reaches(w, t)
                      \/ /\ t = terminal_number
                         /\ UNCHANGED <<terminal_number, local>>
    BY DEF Reaches
  <2>0. TypeOK
    BY <1>1 DEF ConsoleInv
  <2>1. CASE \E w \in Writers : Proceeds(w)
    <3>1. PICK w \in Writers, l \in Locals, q \in Pages, c \in Cursors,
               m \in Texts :
            StepTo(w, l, q, c, m)
      BY <2>1 DEF Proceeds
    <3>2. l # local[w] /\ Reaches(w, t)
      BY <3>1 DEF StepTo
    <3>3. local'[w] = l
      BY <2>0, <3>1 DEF StepTo, TypeOK
    <3> QED BY <3>2, <3>3
  <2>2. CASE Types
    BY <2>2 DEF Types, Typed, View
  <2>3. CASE \E u \in Terminals : SwitchTerminal(u)
    BY <2>0, <2>3 DEF SwitchTerminal, View, TypeOK
  <2>4. CASE Rests
    BY <2>4 DEF Rests, View
  <2>5. CASE UNCHANGED vars
    BY <2>5 DEF vars, View
  <2> QED BY <1>1, <2>1, <2>2, <2>3, <2>4, <2>5, Steps
<1>2. ASSUME UNCHANGED vars PROVE Separate
  BY <1>2 DEF vars, View
<1>3. ConsoleInv /\ [Next]_vars => [Separate]_vars
  BY <1>1, <1>2
<1> QED BY <1>3, ConsoleHolds, PTL DEF Spec, ViewsAreSeparate
=============================================================================
