------------------------------ MODULE Console -------------------------------
(***************************************************************************)
(* The screen, the pages behind it and the cursor: write_terminal() with   *)
(* interrupts enabled, and the keyboard handler, which echoes keys and     *)
(* shows another terminal, between any two of its steps.                   *)
(*                                                                         *)
(* A process writes at USER_VIDEO_ADDR.  The first page there is the       *)
(* screen or the buffer of the terminal recorded in its pcb, which need    *)
(* not be the terminal it runs in; the pages behind it are the buffers of  *)
(* all terminals, and a cursor that has left the screen takes the write    *)
(* there (module Paging).  The handler writes to the screen itself, where  *)
(* one page is mapped.  A write to a page that is not mapped stops the     *)
(* machine; the message of exception_handler() is not modelled.            *)
(*                                                                         *)
(* A page is a function from cells to characters; the colour is always the *)
(* same, and what is written behind the last cell of a page is never       *)
(* shown.  What the line buffer of the keyboard lets through is a choice   *)
(* here and modelled in LineInput.  A tab does what TAB_SPACE_NUM blanks   *)
(* do.  x and y are loaded together.  The right arrow does nothing: it     *)
(* moves the cursor only up to where it was when the handler was called.   *)
(***************************************************************************)
EXTENDS Naturals, Sequences

CONSTANTS
  NumTerminals,  \* TOTAL_TERMINALS
  Writers,       \* the terminals whose process calls write_terminal()
  WIDTH, HEIGHT,
  PAGE,          \* the cells for which a page of FOUR_KB has room: 2048
  ByteSize,      \* the number of values of a byte: 256
  WordSize,      \* the number of values of a uint16_t: 65536
  Characters,    \* the visible characters
  MaxLine,       \* bound: how many processes a terminal has
  MaxKeys,       \* bound: how many keys are pressed
  MaxWritten     \* bound: how many characters are written

ASSUME ConsoleAssumption ==
  /\ NumTerminals \in Nat \ {0}
  /\ Writers \subseteq 0 .. NumTerminals - 1
  /\ {WIDTH, HEIGHT, ByteSize} \subseteq Nat \ {0}
  /\ WordSize \in Nat /\ WordSize % 2 = 0 /\ WordSize \div 2 >= WIDTH * HEIGHT
  /\ PAGE \in Nat /\ PAGE >= WIDTH * HEIGHT
  /\ {MaxLine, MaxKeys, MaxWritten} \subseteq Nat
  /\ Characters \cap {"blank", "linefeed", "backspace"} = {}

Terminals == 0 .. NumTerminals - 1
BLANK == "blank"  \* also '\0'
LF == "linefeed"
BS == "backspace"
Glyphs == Characters \cup {BLANK}
Cells == 0 .. WIDTH * HEIGHT - 1
Pages == [Cells -> Glyphs]
Word == 0 .. WordSize - 1
Cursors == [x : Word, y : Word]
Blank == [c \in Cells |-> BLANK]
Home == [x |-> 0, y |-> 0]
Rows == [0 .. HEIGHT - 1 -> [0 .. WIDTH - 1 -> Glyphs]]
BlankRow == [x \in 0 .. WIDTH - 1 |-> BLANK]
BlankText == [rows |-> [y \in 0 .. HEIGHT - 1 |-> BlankRow], cursor |-> Home]

\* The registers of a process: where it is in write_terminal(), its local
\* terminal_number, the arguments x and y of the function it is in, the
\* character it has fetched, and the cell that the scrolling has reached.
Locals == [pc : {"program", "next", "put", "load", "update", "scroll", "store",
                 "clear", "back", "revert", "erase", "cursor", "high", "highbyte",
                 "low", "lowbyte"},
           seen : Terminals, at : Cursors, ch : Glyphs \cup {BS},
           cell : 0 .. WIDTH * HEIGHT]

VARIABLES
  terminal_number,  \* the terminal on the screen
  screen,           \* the page at VIDEO
  buffer,           \* the page of each terminal that is not shown
  recorded,         \* the terminals recorded in the pcbs of the processes of
                    \*   each writer, that of the running process first
  faulted,          \* an exception has stopped the machine
  cursor,           \* termis[].cursor_x and cursor_y
  index,            \* the index register of the display
  high, low,        \* its registers 14 and 15
  local,            \* the registers of each writer
  text,             \* history: the lines each terminal should show, with the
                    \*   cursor behind what was printed last
  mixed,            \* history: terminals a key was echoed on during a call,
                    \*   or another's process writes to, or wrote to
  lagging,          \* history: a key or switch came during a call that may
                    \*   move the cursor of the display
  keys, written     \* history: how many keys and characters there have been

display == <<index, high, low>>
vars == <<terminal_number, screen, buffer, recorded, faulted, cursor, display,
          local, text, mixed, lagging, keys, written>>

TypeOK ==
  /\ terminal_number \in Terminals
  /\ screen \in Pages /\ buffer \in [Terminals -> Pages]
  /\ recorded \in [Writers -> Seq(Terminals) \ {<<>>}] /\ faulted \in BOOLEAN
  /\ cursor \in [Terminals -> Cursors]
  /\ index \in {14, 15} /\ {high, low} \subseteq 0 .. ByteSize - 1
  /\ local \in [Writers -> Locals]
  /\ text \in [Terminals -> [rows : Rows, cursor : Cursors]]
  /\ mixed \subseteq Terminals /\ lagging \in BOOLEAN
  /\ keys \in 0 .. MaxKeys /\ written \in 0 .. MaxWritten

\* The terminals have been opened, each while it was on the screen; the first
\* one is shown.
Init ==
  /\ terminal_number = 0
  /\ screen = Blank /\ buffer = [t \in Terminals |-> Blank]
  /\ recorded = [w \in Writers |-> <<w>>] /\ faulted = FALSE
  /\ cursor = [t \in Terminals |-> Home]
  /\ index = 15 /\ high = 0 /\ low = 0
  /\ local = [w \in Writers |->
                [pc |-> "program", seen |-> 0, at |-> Home, ch |-> BLANK,
                 cell |-> 0]]
  /\ text = [t \in Terminals |-> BlankText]
  /\ mixed = {} /\ lagging = FALSE
  /\ keys = 0 /\ written = 0

\* What the terminal shows or would show: the first page of the processes whose
\* pcb has this terminal.
View(t) == IF t = terminal_number THEN screen ELSE buffer[t]
Recorded(w) == Head(recorded[w])
Misled(w) == Recorded(w) # w

\* The cell that is written for a cursor: cur_offset is a uint16_t and counts
\* bytes, two for a cell.  The cell behind USER_VIDEO_ADDR or VIDEO is on the
\* first page there, or in a page of the table that is present.
Offset(c) == (c.y * WIDTH + c.x) % (WordSize \div 2)
OnPage(c) == Offset(c) < PAGE
Mapped(cell) == cell \div PAGE <= NumTerminals

Position(c) == (c.y * WIDTH + c.x) % WordSize
High(position) == (position \div ByteSize) % ByteSize
Low(position)  == position % ByteSize
-----------------------------------------------------------------------------
(* Printing without interruption: the functions keyboard_...() on a view   *)
(* v, a page with its cursor.                                              *)

Put(v, ch) ==
  IF Offset(v.cursor) \in Cells
  THEN [v EXCEPT !.page[Offset(v.cursor)] = ch] ELSE v

\* keyboard_scroll_up() by one line.
Scrolled(page) ==
  [c \in Cells |-> IF c + WIDTH \in Cells THEN page[c + WIDTH] ELSE BLANK]

\* keyboard_cursor_update() and keyboard_cursor_revert().  The mutant of the
\* second does not go back to the line before.
Advance(v) ==
  IF v.cursor.x # WIDTH - 1
  THEN [v EXCEPT !.cursor.x = (@ + 1) % WordSize]
  ELSE IF v.cursor.y # HEIGHT - 1
       THEN [v EXCEPT !.cursor = [x |-> 0, y |-> (@.y + 1) % WordSize]]
       ELSE [page |-> Scrolled(v.page), cursor |-> [x |-> 0, y |-> HEIGHT - 1]]
Mutant_Revert(c) == IF c = Home THEN c ELSE [c EXCEPT !.x = @ - 1]
Revert(c) ==
  IF c = Home THEN c
  ELSE IF c.x = 0 THEN [x |-> WIDTH - 1, y |-> c.y - 1]
       ELSE [c EXCEPT !.x = @ - 1]
NewLine(v) == Advance([v EXCEPT !.cursor.x = WIDTH - 1])

\* write_terminal_from_keyboard(); what buffer_flag says of a backspace is a
\* choice of the caller.
Printed(v, ch) == IF ch = LF THEN NewLine(v) ELSE Advance(Put(v, ch))
Erased(v) ==
  IF v.cursor = Home THEN v
  ELSE Put([v EXCEPT !.cursor = Revert(@)], BLANK)

-----------------------------------------------------------------------------
(* What printing should do to a text, line by line.                        *)

TextNewLine(v) ==
  IF v.cursor.y < HEIGHT - 1
  THEN [v EXCEPT !.cursor = [x |-> 0, y |-> @.y + 1]]
  ELSE [rows |-> [y \in 0 .. HEIGHT - 1 |->
                    IF y = HEIGHT - 1 THEN BlankRow ELSE v.rows[y + 1]],
        cursor |-> [x |-> 0, y |-> HEIGHT - 1]]

TextPrinted(v, ch) ==
  LET put == [v EXCEPT !.rows[v.cursor.y][v.cursor.x] = ch]
  IN IF ch = LF \/ v.cursor.x = WIDTH - 1
     THEN TextNewLine(IF ch = LF THEN v ELSE put)
     ELSE [put EXCEPT !.cursor.x = @ + 1]

TextBack(v) ==
  [v EXCEPT !.cursor =
     CASE @ = Home            -> @
       [] @ # Home /\ @.x = 0 -> [x |-> WIDTH - 1, y |-> @.y - 1]
       [] @.x > 0             -> [x |-> @.x - 1, y |-> @.y]]
TextErased(v) ==
  LET back == TextBack(v)
  IN IF v.cursor = Home THEN v
     ELSE [back EXCEPT !.rows[back.cursor.y][back.cursor.x] = BLANK]

\* Terminal t should now show Edit of what it showed.  When keys were mixed
\* with what a process prints, nothing is said of it.
Intend(t, Edit(_)) ==
  text' = [text EXCEPT ![t] = IF t \in mixed' THEN BlankText ELSE Edit(@)]

-----------------------------------------------------------------------------
(* The keyboard handler, with interrupts disabled.                         *)

InCall(t) == t \in Writers /\ local[t].pc # "program"
Between(t) == ~(t \in Writers) \/ local[t].pc \in {"program", "next"}

\* A call that may still move the cursor of the display, or does not know that
\* it has to: one for a terminal shown before or now, or that saw it shown.
Lagging ==
  \E t \in Writers :
    InCall(t) /\ t \in {terminal_number, terminal_number', local[t].seen}

\* keyboard_set_cursor().
\* Mutant: the display is not told.
Mutant_SetCursor(c) == UNCHANGED display
SetCursor(c) ==
  /\ index' = 15
  /\ high' = High(Position(c)) /\ low' = Low(Position(c))

\* The shown terminal's view becomes Edit of what it was, and its text should
\* become TextEdit of what it was.
Echo(Edit(_), TextEdit(_)) ==
  LET t == terminal_number
      v == Edit([page |-> screen, cursor |-> cursor[t]])
  IN /\ screen' = v.page
     /\ cursor' = [cursor EXCEPT ![t] = v.cursor]
     /\ SetCursor(v.cursor)
     /\ UNCHANGED <<terminal_number, buffer, recorded, local>>
     /\ mixed' = IF InCall(t) THEN mixed \cup {t} ELSE mixed
     /\ Intend(t, TextEdit)
     /\ lagging' = Lagging

\* The message and the endless loop of exception_handler(), interrupts disabled.
Stop ==
  /\ faulted' = TRUE
  /\ UNCHANGED <<terminal_number, screen, buffer, recorded, cursor, display,
                 local, text, mixed, lagging>>

EchoKey(ch) ==
  /\ ch = LF \/ OnPage(cursor[terminal_number])
  /\ Echo(LAMBDA v : Printed(v, ch), LAMBDA v : TextPrinted(v, ch))
  /\ UNCHANGED faulted
EchoFaults == ~OnPage(cursor[terminal_number]) /\ Stop
EchoBackspace ==
  /\ cursor[terminal_number] # Home
  /\ Echo(Erased, TextErased)
  /\ faulted' = ~OnPage(Revert(cursor[terminal_number]))
EchoLeft ==
  /\ Echo(LAMBDA v : [v EXCEPT !.cursor = Revert(@)], TextBack)
  /\ UNCHANGED faulted

\* The process of a terminal writes to another one, and this is one of the two.
Crossed(t) == \E w \in Writers : Misled(w) /\ t \in {w, Recorded(w)}

\* Ctrl-L: the screen is all right again unless a call is under way.
CleanScreen ==
  LET t == terminal_number
  IN /\ screen' = Blank
     /\ cursor' = [cursor EXCEPT ![t] = Home]
     /\ SetCursor(Home)
     /\ UNCHANGED <<terminal_number, buffer, recorded, faulted, local>>
     /\ mixed' = IF InCall(t) \/ Crossed(t) THEN mixed \cup {t} ELSE mixed \ {t}
     /\ text' = [text EXCEPT ![t] = BlankText]
     /\ lagging' = Lagging

\* Alt-Fn shows terminal t, which has a process.
\* Mutant: the buffer is shown before the screen has been saved.
Mutant_SwitchTerminal(t) ==
  /\ t # terminal_number
  /\ screen' = buffer[t]
  /\ buffer' = [buffer EXCEPT ![terminal_number] = buffer[t]]
  /\ terminal_number' = t
  /\ SetCursor(cursor[t])
  /\ UNCHANGED <<recorded, faulted, cursor, local, text, mixed>>
  /\ lagging' = Lagging
SwitchTerminal(t) ==
  /\ t # terminal_number
  /\ buffer' = [buffer EXCEPT ![terminal_number] = screen]
  /\ screen' = buffer[t]
  /\ terminal_number' = t
  /\ SetCursor(cursor[t])
  /\ UNCHANGED <<recorded, faulted, cursor, local, text, mixed>>
  /\ lagging' = Lagging

Keyboard ==
  /\ ~faulted /\ keys < MaxKeys /\ keys' = keys + 1 /\ UNCHANGED written
  /\ \/ \E ch \in Characters \cup {LF} : EchoKey(ch)
     \/ EchoFaults \/ EchoBackspace \/ EchoLeft \/ CleanScreen
     \/ \E t \in Terminals : SwitchTerminal(t)
-----------------------------------------------------------------------------
(* The processes: execute() and halt(), which run with interrupts          *)
(* disabled, as far as the screen is concerned.                            *)

At(w, pc) == local[w].pc = pc

\* The processes of w have these terminals now.  While the running one has
\* another than w, nothing is said of either.
Run(w, line) ==
  /\ At(w, "program")
  /\ recorded' = [recorded EXCEPT ![w] = line]
  /\ mixed' = IF Head(line) = w THEN mixed ELSE mixed \cup {w, Head(line)}
  /\ UNCHANGED <<terminal_number, screen, buffer, faulted, cursor, display,
                 local, text, lagging>>

\* new_pcb() records the terminal on the screen.
Execute(w) ==
  /\ Len(recorded[w]) < MaxLine
  /\ Run(w, <<terminal_number>> \o recorded[w])

\* The parent goes on; when there is none, halt() executes a shell.
HaltProgram(w) == Len(recorded[w]) > 1 /\ Run(w, Tail(recorded[w]))
HaltShell(w) == Len(recorded[w]) = 1 /\ Run(w, <<terminal_number>>)
-----------------------------------------------------------------------------
(* write_terminal(), one access to memory that is shared at a time.        *)

Goto(w, pc) == local' = [local EXCEPT ![w].pc = pc]
GotoWith(w, pc, c) == local' = [local EXCEPT ![w].pc = pc, ![w].at = c]
Seen(w) == local[w].seen = w

\* The next character; the other registers are not used again.
Finished(w) ==
  local' = [local EXCEPT ![w].pc = "next", ![w].at = Home, ![w].ch = BLANK,
                         ![w].cell = 0]

\* A store to a cell behind USER_VIDEO_ADDR: the first page is that of the
\* recorded terminal, the next ones are the buffers of all terminals.  A
\* terminal whose buffer is written by mistake may show anything.
Store(w, cell, ch) ==
  LET entry == cell \div PAGE
      t == IF entry = 0 THEN Recorded(w) ELSE entry - 1
      Changed(page) == IF cell % PAGE \in Cells
                       THEN [page EXCEPT ![cell % PAGE] = ch] ELSE page
  IN /\ Mapped(cell)
     /\ IF entry = 0 /\ t = terminal_number
        THEN screen' = Changed(screen) /\ UNCHANGED buffer
        ELSE buffer' = [buffer EXCEPT ![t] = Changed(@)] /\ UNCHANGED screen
     /\ mixed' = IF entry = 0 THEN mixed ELSE mixed \cup {t}
Unseen == UNCHANGED <<terminal_number, recorded, faulted, lagging>>
NoPage == UNCHANGED <<screen, buffer, mixed>>

CallWrite(w) ==
  /\ At(w, "program")
  /\ local' = [local EXCEPT ![w].pc = "next", ![w].seen = terminal_number]
  /\ UNCHANGED <<cursor, display, text>> /\ Unseen /\ NoPage

Return(w) ==
  /\ At(w, "next")
  /\ local' = [local EXCEPT ![w].pc = "program", ![w].seen = 0]
  /\ UNCHANGED <<cursor, display, text>> /\ Unseen /\ NoPage

\* The loop fetches a character.
FetchGlyph(w, ch) ==
  /\ At(w, "next")
  /\ local' = [local EXCEPT ![w].pc = "put", ![w].ch = ch, ![w].at = cursor[w]]
  /\ UNCHANGED <<cursor, display>> /\ Unseen /\ NoPage
  /\ Intend(w, LAMBDA v : TextPrinted(v, ch))

FetchNewLine(w) ==
  /\ At(w, "next")
  /\ cursor' = [cursor EXCEPT ![w].x = WIDTH - 1]
  /\ Goto(w, "load")
  /\ UNCHANGED display /\ Unseen /\ NoPage
  /\ Intend(w, TextNewLine)

\* If buffer_flag allows it; otherwise, and at the first cell, nothing happens.
FetchBackspace(w) ==
  /\ At(w, "next")
  /\ cursor[w] # Home
  /\ local' = [local EXCEPT ![w].pc = "back", ![w].ch = BS]
  /\ UNCHANGED <<cursor, display>> /\ Unseen /\ NoPage
  /\ Intend(w, TextErased)

\* terminal_console_putc().
PutCharacter(w) ==
  /\ At(w, "put")
  /\ Store(w, Offset(local[w].at), local[w].ch)
  /\ Goto(w, "load")
  /\ UNCHANGED <<cursor, display, text>> /\ Unseen

\* The arguments of terminal_update_cursor() and terminal_revert_cursor(), and
\* the functions.
LoadCursor(w) ==
  /\ \/ At(w, "load") /\ GotoWith(w, "update", cursor[w])
     \/ At(w, "back") /\ GotoWith(w, "revert", cursor[w])
  /\ UNCHANGED <<cursor, display, text>> /\ Unseen /\ NoPage

Moved(w) == IF Seen(w) THEN Goto(w, "cursor") ELSE Finished(w)

\* Mutant: the cursor stays in its line when it goes back to column 0.
Mutant_UpdateCursor(w) ==
  LET at == local[w].at
      atEnd == at.x = WIDTH - 1
  IN /\ At(w, "update")
     /\ IF atEnd /\ at.y = HEIGHT - 1
        THEN Goto(w, "scroll") /\ UNCHANGED cursor
        ELSE /\ cursor' = [cursor EXCEPT ![w].x =
                              IF atEnd THEN 0 ELSE (@ + 1) % WordSize]
             /\ Moved(w)
     /\ UNCHANGED <<display, text>> /\ Unseen /\ NoPage
UpdateCursor(w) ==
  LET at == local[w].at
      atEnd == at.x = WIDTH - 1
  IN /\ At(w, "update")
     /\ IF atEnd /\ at.y = HEIGHT - 1
        THEN Goto(w, "scroll") /\ UNCHANGED cursor
        ELSE /\ cursor' = [cursor EXCEPT ![w] =
                  IF atEnd THEN [x |-> 0, y |-> (@.y + 1) % WordSize]
                  ELSE [x |-> (@.x + 1) % WordSize, y |-> @.y]]
             /\ Moved(w)
     /\ UNCHANGED <<display, text>> /\ Unseen /\ NoPage

\* terminal_scroll_up(1): cell after cell gets the character below it, and
\* the cells of the last line are cleared.
ScrollGet(w) ==
  LET from == local[w].cell + WIDTH
  IN /\ At(w, "scroll")
     /\ IF from \in Cells
        THEN local' = [local EXCEPT ![w].pc = "store", ![w].ch = View(w)[from]]
        ELSE Goto(w, "clear")
     /\ UNCHANGED <<cursor, display, text>> /\ Unseen /\ NoPage

ScrollPut(w) ==
  /\ At(w, "store")
  /\ Store(w, local[w].cell, local[w].ch)
  /\ local' = [local EXCEPT ![w].pc = "scroll", ![w].cell = @ + 1]
  /\ UNCHANGED <<cursor, display, text>> /\ Unseen

ScrollClear(w) ==
  /\ At(w, "clear")
  /\ IF local[w].cell \in Cells
     THEN /\ Store(w, local[w].cell, BLANK)
          /\ local' = [local EXCEPT ![w].cell = @ + 1]
          /\ UNCHANGED cursor
     ELSE /\ cursor' = [cursor EXCEPT ![w] = [x |-> 0, y |-> HEIGHT - 1]]
          /\ Moved(w)
          /\ NoPage
  /\ UNCHANGED <<display, text>> /\ Unseen

\* terminal_revert_cursor(): it decides on the cursor of its caller and changes
\* the one of the terminal.
RevertCursor(w) ==
  LET at == local[w].at
  IN /\ At(w, "revert")
     /\ cursor' = [cursor EXCEPT ![w] =
           IF at = Home THEN @
           ELSE IF at.x = 0
                THEN [x |-> WIDTH - 1, y |-> (@.y + WordSize - 1) % WordSize]
                ELSE [x |-> (@.x + WordSize - 1) % WordSize, y |-> @.y]]
     /\ Goto(w, IF Seen(w) THEN "cursor" ELSE "erase")
     /\ UNCHANGED <<display, text>> /\ Unseen /\ NoPage

EraseCharacter(w) ==
  /\ At(w, "erase")
  /\ Store(w, Offset(cursor[w]), BLANK)
  /\ Finished(w)
  /\ UNCHANGED <<cursor, display, text>> /\ Unseen

\* terminal_console_putc() writes to a page that is not mapped.
WriteFaults(w) ==
  /\ \/ At(w, "put") /\ ~Mapped(Offset(local[w].at))
     \/ At(w, "erase") /\ ~Mapped(Offset(cursor[w]))
  /\ Stop

\* terminal_set_cursor(): each register is selected and then written.
DataPort(b) ==
  IF index = 14 THEN high' = b /\ UNCHANGED <<index, low>>
                ELSE low' = b /\ UNCHANGED <<index, high>>
SetCursorStep(w) ==
  LET position == Position(local[w].at)
  IN /\ \/ At(w, "cursor") /\ GotoWith(w, "high", cursor[w])
          /\ UNCHANGED display
        \/ At(w, "high") /\ Goto(w, "highbyte")
          /\ index' = 14 /\ UNCHANGED <<high, low>>
        \/ At(w, "highbyte") /\ Goto(w, "low") /\ DataPort(High(position))
        \/ At(w, "low") /\ Goto(w, "lowbyte")
          /\ index' = 15 /\ UNCHANGED <<high, low>>
        \/ /\ At(w, "lowbyte") /\ DataPort(Low(position))
           /\ IF local[w].ch = BS THEN Goto(w, "erase") ELSE Finished(w)
     /\ UNCHANGED <<cursor, text>> /\ Unseen /\ NoPage

Fetch(w) ==
  /\ ~faulted /\ written < MaxWritten /\ written' = written + 1 /\ UNCHANGED keys
  /\ \/ \E ch \in Glyphs : FetchGlyph(w, ch)
     \/ FetchNewLine(w) \/ FetchBackspace(w)

WriteStep(w) ==
  \/ CallWrite(w) \/ Return(w)
  \/ PutCharacter(w) \/ LoadCursor(w) \/ UpdateCursor(w)
  \/ ScrollGet(w) \/ ScrollPut(w) \/ ScrollClear(w)
  \/ RevertCursor(w) \/ EraseCharacter(w) \/ SetCursorStep(w)
ProgramStep(w) == Execute(w) \/ HaltProgram(w) \/ HaltShell(w)

Process(w) == /\ WriteStep(w) \/ ProgramStep(w) \/ WriteFaults(w)
              /\ ~faulted /\ UNCHANGED <<keys, written>>
Stopped == faulted /\ UNCHANGED vars

Next ==
  \/ Keyboard
  \/ \E w \in Writers : Fetch(w) \/ Process(w)
  \/ Stopped

Spec == Init /\ [][Next]_vars
-----------------------------------------------------------------------------
\* Between two characters a terminal shows the text that was written and typed
\* there, with the cursor behind it, although the user may have shown and left
\* it any number of times while it was written or scrolled.  Nothing is said of
\* a terminal on which a key was echoed in the middle of a call, or which a
\* process of another terminal has written to or was made to write to, before
\* Ctrl-L; the code puts no such terminal right.
ScreenShowsText ==
  ~faulted => \A t \in Terminals \ mixed :
    Between(t) =>
      /\ cursor[t] = text[t].cursor
      /\ \A y \in 0 .. HEIGHT - 1, x \in 0 .. WIDTH - 1 :
           View(t)[y * WIDTH + x] = text[t].rows[y][x]

\* What a terminal shows changes only by keys typed while it is on the screen,
\* by a process that has it in its pcb, and by one whose cursor has left the
\* page: nothing is lost or copied when another terminal is shown or a program
\* starts or ends, and one that keeps to its page writes to one terminal.
ViewsAreSeparate ==
  [][\A t \in Terminals : View(t)' # View(t) =>
       \/ \E w \in Writers :
            /\ local'[w] # local[w]
            /\ \/ Recorded(w) = t
               \/ ~OnPage(local[w].at) \/ ~OnPage(cursor[w])
       \/ t = terminal_number /\ UNCHANGED <<terminal_number, local>>]_vars

\* The cursor of the display is that of the terminal on the screen, and no
\* process in the background moves it, unless a key came in the middle of a
\* call that may move it, or a terminal was shown or left in the middle of one.
DisplayCursorFollows ==
  LET position == Position(cursor[terminal_number])
  IN ~lagging /\ Between(terminal_number) =>
       high = High(position) /\ low = Low(position)

\* "get the previous position of cursor", "update cursor's position after
\* print a character on console": the cursor is in one of the cells.
CursorOnScreen ==
  \A t \in Terminals : cursor[t].x < WIDTH /\ cursor[t].y < HEIGHT
=============================================================================
