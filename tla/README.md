# TLA+ models of the kernel

This directory models a small teaching kernel for the i386 (`src/`): three text
terminals, up to a handful of processes with parent and child, a round-robin
scheduler driven by the PIT, a keyboard driver with line input, a console, an
RTC driver, a read-only file system in memory, and the interrupt dispatch that
ties them together. TLC checks small instances of the models; TLAPS proves every
invariant and action property of the runs, and the safety half of the
refinement, for every value of the constants: any number of processes and
terminals, any size of a screen, a buffer or a block, any image, any set of
keys, any word. Liveness is left to TLC.

`PROJECT.json` lists the components, the runs, the mutants, the map from
definitions to source lines, the divergences found, the hazards, and the
theorems.

## 1. The system

### Components

| component | source | state it keeps | operations |
|---|---|---|---|
| process lifecycle | `syscall.c`, `pcb.c`, `int_syscall_wrapper.S` | `pcb_ptr[]`, `pcb_num[]`, parent links, saved `esp`/`ebp` | `execute`, `halt` |
| scheduler and timer | `scheduling.c` | `current_terminal`, `sched_esp`/`sched_ebp`, `tss.esp0` | `pit_handler`, `schedule_next_process` |
| terminal switching | `kb.c`, `paging.c` | `terminal_number`, `termis[].run_shell`, the video page of each process, the pages of text | Alt-F1, F2, F3; `remap_page`, `restore_page` |
| keyboard line input | `kb.c` | `buffer`, `storage_buffer`, `enter_flag` | `keyboard_fill_buffer`, `read_terminal`, `close_terminal` |
| keyboard modifiers and tables | `kb.c` | `ctrl`, `shift`, `caps_*`, arrow flags, `alt_pressed` | `kb_handler` |
| console output and cursor | `kb.c` | `cursor_x`, `cursor_y`, video memory, the CRT's cursor registers | `write_terminal`, the echo of a key, Ctrl-L |
| paging | `paging.c` | page directory in use, `vidmem_pt[]`, the translations the CPU has cached | `set_paging`, `set_new_task`, `remap_page`, `restore_page` |
| file descriptors | `syscall.c`, `pcb.c` | `pcb->file[]`, `fops[]` | `open`, `close`, `read` |
| file system | `file_system.c` | an image that never changes | `read_data`, `loader`, `read_dentry_by_*` |
| real-time clock driver | `rtc.c` | the chip's index port and registers, `rtc_interrupt_occured[]` | `open_rtc`, `write_rtc`, `read_rtc`, `rtc_handler` |
| interrupt controller and dispatch | `irq.c`, `i8259.c`, `idt_gate.S` | masks, in-service bits, frames on the kernel stacks | `interrupt_handler`, `set_interrupt`, `enable_irq`, `disable_irq`, `send_eoi` |
| system-call entry | `idt_gate.S` | `error_code` | the gate 0x80 |
| IDT and exceptions | `idt.c`, `isr.c` | a table that is written once | `exception_handler` |
| boot and descriptor tables | `boot.S`, `x86_desc.S`, `kernel.c` | how far `entry()` has come | the steps of `entry()` |
| library | `lib.c` | - | string, number, memory and port functions |
| arguments, vidmap, signals | `syscall.c` | `args` of each pcb | the parsing in `execute`, `getargs`, `vidmap`, stubs |

### How they interact

There is one CPU. A system call enters through `idt_gate.S`, finds its pcb with
`find_pcb(pcb_num[current_terminal])` and calls, through `fops[]`, the file
system, the terminal or the clock driver. `execute()` and `halt()` change the
pcbs, the page directory and the TSS with interrupts disabled and leave through
a saved frame. Reads and writes of the terminal and of the clock run with
interrupts enabled and share `termis[]`, the screen and the clock's ports with
the interrupt handlers and with each other. The PIT handler gives the CPU to
the process of another terminal in the middle of a handler; the keyboard handler
does the same for the first visit to a terminal.

Two variables name a terminal and are easily confused: `current_terminal`, which
has the CPU, and `terminal_number`, which is on the screen.

### What is hard

* interleaving of system calls with the keyboard, timer and clock handlers
  (`LineInput`, `Rtc`, `Console`, `Interrupts`);
* process switches in the middle of handlers, with lines masked or in service
  (`Interrupts`) and with frames that go stale (`Kernel`);
* long sequences of `execute`, `halt` and first visits, up to and past the last
  free pcb (`Kernel`);
* cached translations and one global return value that outlive a process switch
  (`Paging`, `SystemCalls`);
* interrupts that come while `entry()` is still setting the devices up, and
  handlers that nest (`Interrupts`);
* state of dead processes that is used again (`Files`, `SystemCalls`);
* boundaries: ends of lines, screens, blocks, strings, sums that wrap
  (`LineInput`, `Console`, `FileSystem`, `Library`).

There is no persistence, no network and no timeout in this kernel: nothing to
recover after a crash, and nothing to retry. `PROJECT.json` lists each hazard at
its line.

## 2. The modules

| module | models | composed with |
|---|---|---|
| `Kernel` | processes, scheduler, terminal switching, page directories | implements `Sessions` |
| `Paging` | addresses, page directories, cached translations and kernel stacks under the processes | extends `Kernel`, steps with it |
| `Sessions` | the abstract promise of `Kernel` | - |
| `MCKernel` | `Paging` for TLC, with the refinement mapping to `Sessions` | both |
| `KernelProofs` | theorems about `Kernel` and `Paging`, and that they implement `Sessions` | `MCKernel` |
| `SystemCalls` | the gate of `int 0x80` with `error_code`, the command of `execute()`, arguments, status, `vidmap()`, exceptions | extends `Library` |
| `Library` | strings, numbers, `printf()` and blocks of memory as operators | used by `SystemCalls` |
| `MCSystemCalls` | three programs for TLC, and single calls of the library before the processes run | extends `SystemCalls` |
| `SystemCallsProofs` | theorems about `SystemCalls`, the library and `printf()` | `MCSystemCalls` |
| `Interrupts` | 8259 masks, EOIs, nested handlers, switches inside them, `entry()` | - |
| `InterruptsProofs` | theorems about `Interrupts` | `Interrupts` |
| `LineInput` | `keyboard_fill_buffer()` against `read_terminal()` | - |
| `LineInputProofs` | theorems about `LineInput` | `LineInput` |
| `Keyboard` | scan codes, modifier flags, Alt-Fn | - |
| `KeyboardProofs` | theorems about `Keyboard` | `Keyboard` |
| `Console` | `write_terminal()` against the echo and the terminal switch | - |
| `ConsoleProofs` | theorems about `Console` | `Console` |
| `Rtc` | the clock chip, its handler, and driver calls of several processes | - |
| `RtcProofs` | theorems about `Rtc` | `Rtc` |
| `FileSystem` | directory, `read_data()`, `loader()` as operators | used by `Files` |
| `Files` | descriptors, jump tables and positions of processes that come and go | extends `FileSystem` |
| `MCFileSystem` | single calls of the functions against their reference definition | extends `FileSystem` |
| `MCFiles` | an image for TLC, and the calls of `MCFileSystem` before the processes run | extends `Files`, instantiates `MCFileSystem` |
| `FilesProofs` | theorems about `Files`, and about single calls of `read_data()` and `loader()` | `MCFiles` |

Conventions. An operator `Mutant_X` stands before `X`. It is not part of the
specification: it is `X` with a plausible slip, and `PROJECT.json` names the
property that it breaks. Variables commented with "history" record what happened
so that a property can refer to it; no guard of an action reads one, except for
the bounds `keys` and `written` of `Console` and `slack` of `Interrupts`,
which are bounds on the environment and are described below.

### Kernel

A process is its pcb number. `pcb_ptr[p]` is `NULL` or a record with `parent`,
`terminal_number`, and the two saved stack pointers `sched_esp` (left by the
scheduler) and `esp` (left by `execute()` in a parent). What matters about a
saved pointer is whether the frame it names is still there, so its values are
`"null"`, `"frame"` and `"popped"`; using one that is not a `"frame"` would be a
jump into garbage. `cr3` is the page directory in use, `esp0` the owner of the
kernel stack in the TSS, `vidmem[p]` the physical page behind the video address
of process p: the screen or the buffer of a terminal.

Actions: `Boot` (the first `execute` of `entry()`), `Execute`, `HaltToParent`,
`HaltRoot` (the halt of a terminal's last process, which executes a new shell),
`PitTick`, `SwitchTerminal` (Alt-Fn to a terminal seen before), `OpenTerminal`
(the first visit, which starts a shell) and `OpenTerminalFails` (the same with
every pcb in use). Each is one step because the code disables interrupts before
it touches this state and enables them in the next context. The failures of
`execute()` before it has a pcb change nothing here; they are in `SystemCalls`.

`NextTerminal` is the scheduler's search: the next terminal in cyclic order that
has a process. `Dispatch` keeps the code's early return: with a null pointer in
the chosen pcb the interrupted process goes on, but `current_terminal` has
already moved.

### Paging

Every action of `Kernel` is taken together with what it does to the CPU's
translations. `Translate` is what `map_page()` put into a page directory, in the
numbers of `types.h`; `vidmem` of `Kernel` is the entry that changes. `tlb` is
what the CPU may still believe: a load of `cr3` (`SetNewTask`, `FlushTlb`)
replaces it, and everything else can only add to it. `CR4_VAL` does not turn on
global pages, so that the G bits of the entries have no effect. `StackBottom`
and `PcbAddress` are the addresses `execute()` computes for the TSS and the pcb.
`TickAndLoad` keeps the early return of the scheduler, which loads nothing.

`UserPages` are all that `map_page()` maps for users: the program's 4MB, and behind
the video address four pages of text: the one of the terminal recorded in the
pcb, which moves, and the buffers of the three terminals, which every directory has
at the same place. `ReachIsConfined` says no more than that is true. A program
reaches its own 4MB, its own kernel stack, the right first page, and otherwise
only text; but that text is everybody's, and the recorded terminal need not be
the one the process runs in (finding 1).

### Sessions and the refinement

`Sessions` has no pcb, page or stack: each open terminal has a sequence of
programs, of which the last one runs; the open terminals take turns; a first
visit opens a session or, when there is no room, hands the CPU to the next
terminal. `MCKernel!Line[p]` climbs the `parent` fields from process p to the
root, and `Stacks` has the line of `pcb_num[t]` as the session of terminal t.
`KernelRunsSessions` states `S!Spec` including its fairness.

### Interrupts

The state of the controllers (`mask`, `irr`, `isr`), the devices that still
have data (`due`), and for each terminal the stack of handler frames with the
place each handler has reached. `interrupt_handler()` is cut at the points where
another interrupt may come: `DisableIrq`, `SendEoi`, the handler of the device,
`EnableIrq`. `Tick` and `OpenTerminal` leave the frame on the stack of the
interrupted process and continue on another.

`boot` is how far `entry()` has come. Each device is set up by one step, with
interrupts enabled between most of them, so that a tick or a key may come when
there is no process and no shell (`OpenTooEarly`). `OpenRtc` is a process that
opens the clock, which installs the handler again and unmasks its line at any
time.

The timing assumption is `Slack`: before the CPU has come to rest, the timer and
the clock make one request and the keyboard at most `Burst`, the scan codes of
one key. At 100 ticks a second this holds by orders of magnitude. The assumption
is per device: requests of different devices come at any moment relative to each
other.

### SystemCalls and Library

A process is in its program, inside of a call, on the way out of the gate with
the result in `eax`, or with the result in `error_code`, or it waits in
`execute()` for a child. Interrupts are enabled in the first two only
(`InterruptsOn`), so that `Preempt` and `OpenTerminal` come there. `execute()`
and `halt()` are as in `Kernel`, with what `Kernel` leaves out: the name and the
arguments of the command (`TestCommand`, `Buffer`), the checks that may refuse it
(`Checks`), the array `args` of a pcb that is used again (`NewArgs`), and the
status that becomes the parent's result. An exception stops the machine: the
handler loops behind an interrupt gate (`Spin`). The shell that `halt()` or the
first visit to a terminal executes may be refused like any other command. `halt()`
then reads the pcb of a parent that is not there, which is an `Exception`, and the
first visit goes on with the search for another terminal, which is `Preempt`;
`HaltRoot` and `OpenTerminal` are the cases in which the shell is accepted.

`Library` computes on sequences of ASCII codes and on functions from addresses
to bytes, in the order of the code: `StrRev` swaps, `Itoa` finds the last digit
first, `Pieces` are the bytes up to an aligned address, the words and the bytes
that are left. `Printf` goes on until a Nul in the text: a `%` at the
end of the string takes the Nul for a conversion that does not exist, and what is
behind the string in memory is printed, too. Each loop is a recursive function whose
argument counts its passes, and so is the power `SixteenTo` in `LibraryAssumption`: the provers know
how to unfold the one and nothing of `^`. The end of the module, and of `Checks`' neighbours in
`SystemCalls`, holds the definitions they are compared with.

### LineInput

One terminal. A key is one step (the handler keeps interrupts disabled);
`read_terminal()` is cut between any two characters of its loops:
`NextPass` (the test of `enter_flag` and the clearing of the caller's buffer),
`CopyCharacter`, `FinishLine`, `CleanCharacter`. `buffer` is a sequence,
`storage_buffer` and `buf` are arrays of `MaxBuffer` cells. NUL is a character
that keys without a character do put into the line.

The copy races with the keyboard, and an Enter can come between a key and the
next pass. `hasty` records that a key came earlier than a patient user would
send it: Enter is pressed only when a program is reading, and every key leaves
the reader time for one whole pass. `PatientReadReturnsLine` is about users who
were never hasty.

### Keyboard

The user presses, repeats and releases keys; each sends one or two bytes, each
byte is one run of `kb_handler()`. The flags are per terminal, Alt is global.
`astray` records the situations in which the code cannot keep flags and keys
together: a terminal changed with a key held down, byte E0 next to a held Ctrl
(E0 is taken for the release of the right Ctrl), and two keys that share a flag.

### Console

`write_terminal()` at the granularity of its accesses to shared memory, between
any two of which the keyboard handler may echo a key, move the cursor, clean the
screen or show another terminal. The Makefile builds without optimisation, so
each access in the source is one in memory. A page is a function from cells to
characters; `View(t)` is what terminal t shows, the screen or its buffer.

Where a process writes is what `Paging` says of the table behind the video address.
`Store` takes the cell to a page by its number, `PAGE` cells to a page: page 0 is
that of the terminal recorded for the process, the next ones are the buffers of all
terminals, and what is behind them is not mapped: `WriteFaults`, after which the
machine stands still (`faulted`, `Stopped`). A cursor on the screen never leaves
page 0; one that finding 4 has taken off the screen can be in a place of the page
that is never shown, in the buffer of any terminal, or behind them all, and `Offset`
wraps as the `uint16_t` of the code does. The keyboard handler writes at `VIDEO`,
where only one page is mapped (`EchoFaults`).

`recorded` is the line of processes of each writer by the terminals in their pcbs.
`Execute`, `HaltProgram` and `HaltShell` change it as `new_pcb()` and `halt()` do: a
program started while another terminal is on the screen has that terminal, and
writes there (finding 1).

`text` is the history of what each terminal should show, computed line by line and
independently of pages and positions. `mixed` collects the terminals of which
nothing can be said until they are cleaned: a key was echoed there in the middle of
a call, a process of another terminal has them recorded, or a cursor off its screen
has written to them. `lagging` records that a key or a switch came in the middle of
a call that may move the display's cursor.

### Rtc

The chip's index port, registers A, B and C as sets of bits, and one program
counter for each process, cut between port instructions where interrupts are
enabled (`write_rtc()`, the second half of `init_rtc()`, `read_rtc()`).
`rtc_handler()` is one step.

### FileSystem and Files

A byte of the image is represented by its address, so that what a read returns
shows where it came from. `Copied` is the loop of `read_data()` in closed form:
it takes `BlockSize + 1` bytes before it goes on to the next block, as the code
does. The count is a `uint32_t` that is returned as an `int32_t` (`Int32`). A count for
which the memory behind the caller's buffer (`Room`) does not suffice ends in a page
fault, which is an `Exception` and no result; since no buffer has room for half of
the addresses, this is the end of every count that would be returned as a negative
number. `Content` is the reference. In `Files` the pcb's `file[]` and its row of
`fops[]` survive the process, and only what `new_pcb()` and `open()` assign is
new; `halt()` closes the descriptors that are *not* in use, as in the code,
which changes nothing.

## 3. The runs

All passing runs are exhaustive for their constants.

| run | instance | states | shows |
|---|---|---|---|
| `kernel` | 3 terminals, 4 pcbs | 528,000 | no pcb is lost, every frame the CPU may return to is live, page directory, TSS and `pcb_num[]` agree, video pages follow the recorded terminal, no translation or stack leads to memory of another process beyond the pages of text that all share, and `Kernel` implements `Sessions`, fairness included |
| `interrupts` | 2 terminals, 3 lines, bursts of 3 codes | 68,600 | from `entry()` on, the timer is masked only on the way to the scheduler; masked or in-service lines have a handler that will release them; handlers do not pile up; keys and clock ticks are served; the CPU is shared |
| `line_input` | buffer of 3 | 1,550,000 | a patient user's line is read exactly; what is read ends where it should; an Enter is used once; no mixture of two lines is left behind; every Enter is answered |
| `keyboard` | 2 terminals, 6 keys to hold | 5,700,000 | flags and typed characters follow the keys |
| `console` | 2 terminals, 2x2 screen, 3 keys, 4 characters, lines of 2 processes | 2,630,000 | pages, cursors and the display's cursor are right unless a key or a switch comes inside a call, or a process has another's terminal; a process that keeps to its page writes to one terminal |
| `rtc` | 2 processes | 937,000 | the rate is one somebody asked for; a read waits for a new tick, and ends unless the periodic interrupt was turned off |
| `files` | 2 pcbs, 4 descriptors, image of 3 blocks of 3 bytes, words of 32 values, 8 bytes of room | 793,000 | a descriptor is what its process opened and is read in order; reads inside a block end as they should, and the loader is right, for every offset and length |
| `system_calls` | 2 terminals, 3 pcbs, 5 commands | 2,070,000 | a process finds the result of its own call and its own arguments; the parsing and the functions of the library compute what they should, and `printf()` prints what its format says |
| `kernel_foreground` | as `kernel` | violation | finding 1 |
| `rtc_lost` | as `rtc`, default rate only | violation | finding 2 |
| `read_data_crossing` | 3x3 image | violation | finding 3 |
| `console_cursor` | as `console` | violation | finding 4 |

### Bounds, and why they are enough

* `kernel`: three terminals is the real number. Four pcbs let one terminal have
  a line of two while the others have one each, all four be in one line, and a
  first visit meet a full table. The proofs remove the bound.
  `Paging` has the real page directories under them.
* `interrupts`: all three lines that the kernel unmasks. Two terminals are a
  process that is left in a handler and one that goes on; with three the run has
  680,000 states for `Burst` 1 and passes too, but takes too long to be repeated
  with every change. Three scan codes are the longest key (E0, a code, and the
  byte of the next key). Nesting is not bounded by a constant but by `Slack`.
* `line_input`: a buffer of three has a first, a middle and a last cell and can
  be overfull; a tab of two blanks can be cut; requests of 0, 2 and 3 are
  empty, below and at the size of the buffer. One letter besides blank and NUL is enough, because
  no code depends on which letter it is and the properties compare positions and
  kinds.
* `keyboard`: two of three terminals; the keys to hold contain two Shifts, one
  Ctrl, one Alt, Caps Lock and one extended arrow, so that each kind of shared
  flag and prefix occurs. A second arrow or the right-hand keys add keys that
  behave in the same way.
* `console`: a screen of two lines of two cells has every kind of cell (first and
  last of a line and of the screen) and scrolls after four characters;
  `ByteSize` 2 makes the position need both cursor registers. A page has room for
  five cells, one more than are shown, and a word counts the bytes of twenty cells,
  which is four pages: the first one, two buffers and one that is not mapped. So a
  cursor that has left the screen wraps, and TLC finds it in each of these places.
  Two processes in a line are a shell and a program. `MaxKeys` and `MaxWritten`
  bound the counters: four characters reach the scroll, and three keys can
  interfere, switch away and interfere again. One writer, since writers of different
  terminals touch different cursors and, while they keep to their pages, different
  pages; they share only the display registers, of which `lagging` says when they
  may be wrong. The proofs remove these bounds.
* `rtc`: two processes are one race; a third only adds more of the same, as the
  index port has no memory of who set it. One rate that shares no bit with the
  divider and differs from the default in both directions.
* `files`: two pcbs and two free descriptors each are enough for a descriptor to
  be left open by a dead process, used again by another, and opened in two
  places; the file has two blocks out of order and an incomplete last block. The
  initial states of the run are one call each of `read_data()` (and `loader()`),
  over every file of up to three blocks of three bytes in any order, every offset
  and every length that a word can hold. A word has 32 values, more than three times
  the longest file: sums wrap, and there are counts that are no `int32_t`. The 8
  bytes of room are between a block and the image, so that a file can be copied
  whole, or not.
* `system_calls`: three pcbs are a child in one terminal while another process
  leaves the gate, and a pcb that is used again. The commands have a separator
  and arguments, no arguments, no separator with something behind the string, a
  name that is a prefix of another, a file that is no program and one that is not
  in the image. The initial states are one call each: every command of up to
  three of four characters, every pair of strings of up to three letters, every
  number of three hexadecimal digits, formats with every conversion of `printf()` and
  with `%` before the end of the string, every
  block of up to eight bytes at eight alignments, every address of `vidmap()`.

### Fairness

* `Kernel` and `Paging`: `WF` of the tick. The PIT runs free, and its line is unmasked at every
  switch (which `Interrupts!TimerIsUnmasked` checks). Nothing is assumed of
  processes or users.
* `Sessions`: `WF(Rotate)`, which is the promise that the tick implements.
* `Interrupts`: the CPU goes on (`WF(Kernel)`), takes an interrupt it may take
  (`WF(Deliver(i))`), and the timer ticks (`WF(Raise(PIT))`). `entry()` goes on
  when it is not interrupted (`SF(Entry)`): strong, since each interrupt disables
  it for a while, and justified because devices are slow. Keyboard and clock need
  not raise anything.
* `LineInput`: `WF(ReadStep)`: the reader is a process that the scheduler runs
  again and again (the fairness of `Sessions`, which `kernel` checks). Keys need not come, and may come at any
  rate.
* `Rtc`: `WF(Tick)`: the clock runs; `WF(Handler)`: its interrupt is served
  (`Interrupts!DeviceIsServed`); `WF(Continue(p))`: processes inside the driver
  are scheduled. No process has to call the driver.
* `Keyboard`, `Console`, `Files`, `SystemCalls`: safety only, no fairness.

Deadlock is checked in all runs but those of `Rtc`: there two waiting readers do
wait for ever once the periodic interrupt is off, which is finding 2. `Console`
does not deadlock at its bounds because a process may always call
`write_terminal()` with nothing to write. The loop of an exception is a step of
`SystemCalls` (`Spin`), so that the stopped machine is no deadlock there.

## 4. What the code does differently from what it says

Each of the four has a run in which TLC finds the violation.

1. **`pcb.c:170`** (`kernel_foreground`). `new_pcb()` records the terminal on the
   screen, not the one the process was started in. A shell that `execute()` starts,
   or a program a shell starts, while another terminal is on the screen becomes a
   process of that terminal: every later switch treats it so, and it draws on the
   wrong page.
2. **`rtc.c:187`** (`rtc_lost`). Selecting a register and writing the data port
   are two instructions with interrupts enabled. A rate written while another
   process opens the clock can land in register B and turn the periodic
   interrupt off: every `read_rtc()` waits for ever.
3. **`file_system.c:148`** (`read_data_crossing`). The loop of `read_data()` goes
   on to the next block one byte late, so that a read that crosses a block
   delivers a byte that does not belong to the file and is shifted from there on.
   Reads that stay in a block and the loader are right.
4. **`kb.c:755`** (`console_cursor`). The functions that move the cursor decide on
   a copy of it that the caller has taken, and then change the shared one. A key
   echoed in between takes the cursor out of the screen. What is written there goes
   to a page that is never shown, to the buffer of another terminal (`kb.c:665`,
   `paging.c:91`), or to memory that is not mapped, which stops the machine.

Met while modelling, and without a run of their own:

* `read_terminal()` returns another line than the one typed when Enter follows
  the last key before the reader has made a pass (`kb.c:528`), and returns up to
  128 characters when the caller asked for fewer (`kb.c:539`). `LineInput` models
  both: `PatientReadReturnsLine` is about patient users and full requests,
  `ReadEndsLine` about where the line ends in every read.
* `init_rtc()` sets 32 Hz, where the comments say 2 Hz (`rtc.c:48`, `rtc.c:65`,
  `rtc.c:81`). `Rtc` does what the code does.
* A terminal whose first shell could not be started is marked as having one
  (`scheduling.c:99`) and is never tried again.
* `length + offset` wraps in `read_data()` for lengths near 2^32
  (`file_system.c:120`): then the length is not cut at the end of the file. The count
  is then near 2^32, too: it would be returned as a negative number
  (`file_system.c:158`), but the loop leaves the memory behind the buffer and faults
  before. `FirstBlockIsCopied` says for every length which calls return and which may
  fault, and what a call that returns has copied.
* `printf()` of a string that ends in a `%` steps over its Nul and prints what is
  behind it (`lib.c:70`, `lib.c:150`).
* `memmove()` leaves the direction flag set when it copies downwards (`lib.c:467`).
  Nobody calls it. `memcpy()` and `memset()` clear the flag first, as does every other
  string instruction with a prefix.
* The result of the `execute()` inside of `halt()` is not looked at: when the shell is
  refused, the code goes on with the parent it does not have (`syscall.c:61`).
* The arguments of a command begin one byte behind its end also when that is the
  end of the string (`syscall.c:119`): a command without a separator gets what is
  behind it in memory. `SystemCalls` models it; `IsSeparated` excludes it from
  `ArgumentsAreOwn`.
* `execute()` does not look at the result of `read_dentry_by_name()`
  (`syscall.c:145`), although `buglog.txt` (Checkpoint 4) says that such a test
  was added. A program of `parse_array` that is missing from the image leaves the
  inode number undefined (`Checks`).
* `vidmap()` adds to its argument before it compares (`syscall.c:381`): for the
  last page of addresses the sum wraps and the answer is 0.
* `exception_handler()` never returns (`isr.c:24`) and comes through an interrupt
  gate: one faulty program stops all terminals, and the code behind its call in
  `idt_gate.S` is not reached.
* The G bits that `map_page()` sets have no effect, because `CR4_VAL` does not
  turn global pages on (`types.h:23`).
* Keys are accepted before `init_termis()` has run (`kernel.c:178`), which then
  resets what they did; Alt-Fn before the first shell changes the screen and opens
  nothing (`Interrupts!OpenTooEarly`).
* A modifier or arrow released after a switch of terminals stays set in the old
  one (`kb.c:362`), byte E0 clears the Ctrl flag (`kb.c:164`), and Shift with Caps
  Lock gives no symbols (`kb.c:408`). These are the reasons for `astray` and for
  the silence of `TypedFollowsKeys` about symbols.
* The keyboard does not echo a tab, although it counts its blanks in the line
  buffer (`kb.c:941`).

## 5. What is proved

Each theorem holds for every value of the constants that satisfies the `ASSUME`s
of the module it is about, and for every behaviour of its specification. The
assumptions, which TLC evaluates in each run, say no more than that

* numbers of terminals, pcbs, pages and sizes are positive, and that `NULL` is
  not a pcb (`KernelAssumption`, `InterruptsAssumption`, `LineInputAssumption`);
* there are no more pcbs than page directories, and no more terminals than buffers
  in them, which are three (`PagingAssumption`), and no more terminals than function
  keys (`KeyboardAssumption`);
* rates are in the low four bits of a register (`RtcAssumption`);
* the bytes of a screen can be numbered by a `uint16_t`, which has an even number of
  values, its cells fit in a page, and no visible character is the blank, the line
  feed or the backspace (`ConsoleAssumption`);
* a buffer has room for a block and is in less than half of the addresses, and the
  image fills no more than half of them (`FileSystemAssumption`, `ImageAssumption`);
* the image is one that `open()` can use: its entries have one of the three
  types, its regular files have an inode and are shorter than half of a `uint32_t`,
  and the programs of `Files` ask for no more than their buffer holds
  (`FilesAssumption`);
* commands are strings, their names fit in the array of `execute()` and their
  arguments in that of a pcb (`CommandsAssumption`);
* a word has `HexDigits` hexadecimal digits (`LibraryAssumption`), and the page
  of a program and the sizes of pages are natural numbers (`PagesAssumption`).

| theorem | statement |
|---|---|
| **KernelProofs** | |
| `Invariance` | `Spec => []Inv` |
| `TypeCorrect` | `Spec => []TypeOK` |
| `ContextIsConsistent` | `Spec => []ContextConsistent` |
| `FramesAreSaved` | `Spec => []SuspendedIsSaved` |
| `ParentsAreSaved` | `Spec => []ParentIsSaved` |
| `LinesAreKept` | `Spec => []ProcessLines` |
| `PagesAreMapped` | `Spec => []RecordedTerminalMapped` |
| `TerminalsStayOpen` | `Spec => TerminalStaysOpen` |
| `PagingIsKernel` | `PagingSpec => Init /\ [][Next]_vars` |
| `ReachStaysConfined` | `PagingSpec => []ReachIsConfined` |
| `KernelStepsAreSessions` | `Spec => S!Init /\ [][S!Next]_(S!vars)` |
| `PagingStepsAreSessions` | `PagingSpec => S!Init /\ [][S!Next]_(S!vars)` |
| **SystemCallsProofs** | |
| `CallTypes` | `Spec => []TypeOK` |
| `ResultsAreKept` | `Spec => []ResultIsKept` |
| `ArgumentsStayOwn` | `Spec => []ArgumentsAreOwn` |
| `LibraryStaysRight` | `MCSpec => []LibraryIsRight` |
| `MessagesArePrinted` | `printf()` of any message `IsMessage` describes |
| `NumbersAreWritten`, `SignedNumbersAreWritten`, `HexNumbersAreWritten` | `itoa()`, `%d` and `%#x` of any number or word |
| `StringsAreReversed`, `ComparisonIsRight`, `StringsAreCopied` | `strrev()`, `strncmp()` and `strcpy()` of any strings |
| `MovesAreRight`, `CopiesAreRight`, `SetsAreRight` | `memmove()`, `memcpy()` and `memset()` of any block |
| `AddressesAreChecked` | the test of `vidmap()` of any address whose sum does not wrap |
| **InterruptsProofs** | |
| `InterruptTypes` | `Spec => []TypeOK` |
| `TimerStaysUnmasked` | `Spec => []TimerIsUnmasked` |
| `LinesKeepOwners` | `Spec => []LinesHaveOwners` |
| `NestingStaysBounded` | `Spec => []NestingIsBounded` |
| **LineInputProofs** | |
| `LineInputTypes` | `Spec => []TypeOK` |
| `ReadsWaitForEnter` | `Spec => []ReadWaitsForEnter` |
| `LinesEnd` | `Spec => []ReadEndsLine` |
| `StorageStaysOneLine` | `Spec => []StorageIsOneLine` |
| `PatientReadsReturnLine` | `Spec => []PatientReadReturnsLine` |
| **KeyboardProofs** | |
| `KeyboardTypes` | `Spec => []TypeOK` |
| `FlagsAreKeys` | `Spec => []FlagsFollowKeys` |
| `TypedIsKeys` | `Spec => []TypedFollowsKeys` |
| **RtcProofs** | |
| `ClockTypes` | `Spec => []TypeOK` |
| `RateStaysAsked` | `Spec => []RateWasAsked` |
| `ReadsAwaitTicks` | `Spec => ReadWaitsForTick` |
| **ConsoleProofs** | |
| `ConsoleTypes` | `Spec => []TypeOK` |
| `ScreenIsText` | `Spec => []ScreenShowsText` |
| `DisplayFollows` | `Spec => []DisplayCursorFollows` |
| `ViewsStaySeparate` | `Spec => ViewsAreSeparate` |
| **FilesProofs** | |
| `FileTypesStay` | `Spec => []TypeOK` |
| `DescriptorsAreOpened` | `Spec => []DescriptorIsOpenedFile` |
| `ReadsStayInOrder` | `Spec => []ReadsGoOn` |
| `FirstBlocksAreCopied` | `MCSpec => []FirstBlockIsCopied` |
| `LoaderIsRight` | `MCSpec => []LoaderCopiesFile` |

No property is inductive as it stands. Each proof has a strengthening, which TLC
has checked on the module's run before it was proved, a lemma that the initial
states satisfy it, one lemma for each action (or for what several actions have
in common), and one that splits `Next`.

### Kernel and Paging

`TypeOK` needs that the pcbs the actions read are not `NULL`, which is
`ContextConsistent` and `ProcessLines`; that the process which the scheduler
resumes is a live one with a frame is `SuspendedIsSaved`, whose preservation needs
that no two terminals share a process, again `ProcessLines`. They are proved
together as

    Inv == TypeOK /\ ContextConsistent /\ SuspendedIsSaved /\ ParentIsSaved
           /\ ProcessLines /\ RecordedTerminalMapped /\ Visited

`Visited` is the one conjunct that no run states: a terminal without `run_shell`
has no process. Without it the first visit to a terminal could start its shell
as the child of a process that is suspended in the scheduler's frame and not in
`execute()`.

Lemmas say what `NewPcb` and `SaveContext` return; `SameLines`, `StartLines` and
`HaltLines` say that `ProcessLines`, as a predicate of the pcbs and of the
runnable processes, survives steps that keep parents and tops, push a fresh pcb
on one line, or pop a top whose parent becomes the new one. `StartInv` and
`DispatchInv` are shared by the actions that start a program or give the CPU away.

`ReachStaysConfined` rests on `Invariance`: by `PagingIsKernel` the invariant of
`Kernel` holds of the processes of `Paging`. What has to be added is `tlb = Walk`:
the CPU's translations are exactly what the directory in `cr3` says. Every step
that changes `cr3` or an entry of `vidmem_pt[]` replaces `tlb`. The one branch
that would not, the tick that finds a null pointer and loads nothing, is never
taken: the invariant of `Kernel` has a saved frame for every process the search
can choose (`ChosenIsSaved`, from `SuspendedIsSaved`). From there the property is
arithmetic. `ProgramAt` and `ScreenAt` say where each of the five pages is. Two
processes have different numbers, so their 4MB pages and their 8KB stacks do not
meet; the first page of text is where `RecordedTerminalMapped` has it, and the other
three are the buffers, which are outside of any program.

### Sessions

`Line` is a recursive function on pcbs, whose parents are not smaller in any order
known beforehand. The proof goes round that: `Stacked(pcbs, tops, L)` says that L, a
sequence of pcbs for each terminal, is the shape of the parent fields. Its last
members are the `pcb_num[]`, each member's parent is the one before it, the first has
none, and every live pcb is in exactly one place. `StacksOfState` proves of one state
that `Stacks = L` for every such L: the beginnings of the sequences of L are a function
that satisfies the recursion, so that `Line` satisfies it, too (`LineRecursion`), and
the least place where `Line` and L would differ cannot exist.

`SessionInv` is `Inv` with `Shaped`, that `Stacks` itself is such a shape, and with no
process before `Boot`. `PushStacks`, `PopStacks` and `SameStacks` say what the next
shape is after a step: one with a new last member, one with a member less, or the
same; `StacksOfState`, in the next state, turns that into what `Stacks` is. With
that each action is a step or a stutter of `Sessions`: `Start`, `Launch`, `Finish`,
`Restart`, `Rotate`, `Look`, `Visit` or `VisitInVain`. `SearchIsTurn` says that the search
of the scheduler is the turn of `Sessions`, which needs that both agree about which
terminals are open (`SessionsSee`). The fairness of `Sessions` is not part of it.

### SystemCalls

`ResultIsKept` is strengthened by `OneOnTheWay`: only the running process is
between the `cli` behind its call and `iret`. Without it another process could
store its own result between the store and the load.

`ArgumentsAreOwn` needs what the loops over strings find. `FirstOf` is a recursive
function: `FirstOfRecursion` gives a function that satisfies its definition,
`FirstOfIs` shows by the least counterexample that every such function stops at
the first position to stop at, and `FirstOfStops` that there is one. From there
`CommandParts` says where `execute()` ends the name and the arguments,
`CommandSplits` that they are the two parts of the command around a separator,
and `NewArgsHold` that `new_pcb()` and `strcpy()` leave the arguments in the array
and nothing of an older process in front of the end. `ArgsInv` relates the array
of each pcb to the command it was last given and to the copies of `getargs()`.

### Library and printf

The functions of the library are loops, and their operators recursive functions. The
induction theorems that come with TLAPS need an operator as a parameter, which the
provers cannot instantiate, so that each loop is treated in three steps:

* a closed form of the state after k passes is shown to satisfy the recursion;
* then the function that the recursive definition chooses satisfies it, too;
* the two agree at every k (`SameSteps`): two functions with the same beginning and the
  same steps do, or there would be a least argument where they differ.

Where there is no closed form (`Itoa`, `SixteenTo`, `ValueOf`, `Printf`), the existence of
a function that satisfies the recursion is proved by itself (`RecursionHasValue`,
`PrintfRuns`): functions on beginnings of the naturals agree and can be joined.

The closed forms say what each loop is about. In `strrev()` the first k and the last
k characters are swapped. `memmove()` has moved the low k bytes when it goes up and
the high k when it goes down: with the direction the code takes, the byte it reads
next is not among those it has written, however the blocks overlap. `memcpy()` and
`memset()` go through `Pieces`, of which `PiecesFill` says that they follow each other
from the first byte to the last, at any alignment and length; `ReadBeforeWritten`
says of `memcpy()` that a byte is read before it is overwritten. The loop of
`itoa()` is followed down to 0 (`DigitsAreFound`): `DigitsOf` says that the digits of v,
turned round, have the value v and no leading zero, and `DigitsGoOn` is one pass.
`StringsAreReversed` turns them, and `HexIsNoLonger` bounds their number by that of a
word, so that `%#x` never has a negative number of zeros to put before them.

`MessagesArePrinted` is about a message of any number of parts (`IsMessage`): a
character other than Nul, `%%`, a conversion with its argument, with or without `#`,
or a `%` before any character that is no conversion, which prints nothing and may be
the Nul of the string: what comes behind it is then part of the message. After each
part `printf()` has printed what the parts so far should print, is in the mode of
plain text, and has the arguments of the later parts left. `FlattenSeq` is treated
as in `FilesProofs`.

`LibraryStaysRight` applies these theorems to the calls from which the run
`system_calls` starts (`ProbeOK`: the call is one of them, or has returned), so that
the run and the theorems are about the same statement. The theorems themselves have
no bound on strings, numbers, blocks or messages. The proof about `printf()` needs
that no two alternatives of `PrintfStep` apply at once (`%` is no character of text),
as in the code's `switch`.

### Interrupts

The properties are about all kernel stacks at once, also of processes that were
left in the middle of a handler. The invariant has one conjunct for each reason:
`Places` (who can have a stack: only an open terminal's process, or `entry()`),
`MaskIsOwned` and `TimerIsOwned` (a masked line has a frame that will unmask it, and
the timer's is on the running stack), `InService` (a line is in service exactly
if one frame, and no other on any stack, is ahead of its EOI: the controller
delivers no line that is in service), `OneRequest` (the same for the data that a
device holds until it is fetched), `ReturnedOnTop` (`kb_handler()` returns with
interrupts disabled, and nothing nests above it) and `Fetched` (a frame below
another one of the same device has fetched its data). `NestingIsBounded` counts
frames, so that the lemmas about push, pop and a new top say what each does to
the number of frames of a line.

### LineInput

`Types` carries what the flags say of each other (`EnterIsSeen`) and that the
loops stay in the buffers (`Indices`). `StorageIsOneLine` is inductive as it
stands. `PatientInv` is about users who were never hasty: `PatientStorage` says
whose line is in `storage_buffer` at each place of the reader, and `PatientCopy`
that what was copied in this pass agrees with it. The measuring loop of
`FinishLine` is `FirstZero`, of which `FirstZeroStops` and `LineIsDelivered` say what
it finds.

### Keyboard

`FlagsFollowKeys` speaks of moments in which no byte waits. Before, the flags lag
behind the keys: `FlagsInv` says that they are those from which the handler gets
there when it fetches the byte (`Becomes`), with E0 taking a held Ctrl away; `Hand`
says which bytes can wait for which keys. The theorems are about any set of
modifiers and arrows as keys to hold. TLC has checked both conjuncts on the run's
keyboard and on one with both Ctrls, the right-hand Shift and Alt.

### Rtc

A process on its way through `write_rtc()` may find any register behind the data
port. It does not matter to the rate: what it writes has the low bits of its own
rate, which was asked for (`RatesWereAsked`), wherever the high bits come from
(`RateOfByte`). `FlagsAreTicks` says that a flag that is set while its process waits
was set by a tick in the wait. Finding 2 is about the high bits, and liveness.

### Console

`ScreenShowsText` speaks of terminals between two characters. In between the text
is ahead of the page, and `Fits` says how far at each place of `write_terminal()`:
the page shows the text once the fetched character is put and the cursor
advances (`Advances`), or its first cells have been scrolled (`Scrolls`), or one
cell is still to be erased (`Erases`). `Fits` is about the view of a terminal, the
screen or its buffer, so that it holds across any number of switches;
`ControlInv` says what the registers of the process hold. The lemmas `PutShows`,
`NewLineAdvances`, `PrintedAdvances`, `TextErasedIs`, `ScrollCopies`, `ScrollClears`
and `AdvanceIs` are about pages and texts of any width and height; they rest on
the arithmetic of cells, where a number below `WIDTH * HEIGHT` and a position are
the same (`CellIs`, `PlaceIs`, `BelowIs`, `PositionIs`).

`DisplayCursorFollows` needs two things while no key has come inside a call:
`Knows`, that a call remembers `terminal_number` rightly, so that only the call for
the shown terminal touches the ports; and `Told`, which byte of the position the
display has at each `outb()`. `Control` and `Fits` meet for the process that takes a
step in `Proceeds`, which each action is shown to satisfy; `ProceedsKeeps` then
proves the whole invariant once, and `TypesKeeps` does so for the keys.

A process may write elsewhere than to its own terminal. `OwnInv` says that whoever
has another terminal recorded has both in `mixed`, and `Fits` that the cursor of a
terminal outside of `mixed` is on the screen, so that its process stays on its page.
`StepTo` is what the other terminals see of a step: their views stay as they are
outside of `mixed`, and no view changes at all but one the process `Reaches`, which is
what `ViewsStaySeparate` needs. `Rests` is about the steps that touch no view:
programs that start and end, and faults.

### Files

The descriptors of a dead pcb keep their flags, and its row of `fops[]` keeps its
functions. `Streams`, `Descriptors` and `Forgotten` say that no live process looks at
them: a jump table is only reached through the descriptor in its own place, for
which `new_pcb()` or `open()` has assigned all that `read()` needs. `ReadsGoOn` rests on
`CopiedIsContent`: the bytes copied from the first block of a read are those of
the file, although the loop counts to `BlockSize + 1`.

`FirstBlocksAreCopied` and `LoaderIsRight` are about the single calls from which the
run `files` starts: any file of an image (`ImageFiles`), any offset and any length,
for every `BlockSize`, number of blocks, `Word` and `Room`. `CutIs` says what is left
of a length when the sum wraps, `ReadIs` whether a call returns or faults, and
`EndsWell` that a count which fits in a buffer is returned as it is. `LoaderIsRight`
adds that no read of the loader crosses
a block (`BlockIsRead`), and that the pieces make the file: `FlattenIs` treats the
recursive function of `FlattenSeq` as `FirstOfIs` does that of `FirstOf`.

### Only model-checked

No invariant and no action property is left to TLC alone. What is:

* The liveness properties (`EnterIsAnswered`, `ReadReturnsWhileEnabled`,
  `DeviceIsServed`, `TimeIsShared`): liveness under fairness is out of the prover's
  reach.
* The fairness in `KernelRunsSessions`, that the tick makes the open terminals take
  turns: it needs `ENABLED` of both steps. Its safety half is
  `PagingStepsAreSessions`.

## 6. What is not modelled

* `boot.S`, `x86_desc.S` and `entry()` up to `i8259_init()`: straight-line set-up
  with interrupts disabled, and messages about the multiboot record. The IDT is
  filled with constants, once.
* Of `lib.c`, the port functions, `memset_word()` and `memset_dword()`, each of
  which is one instruction and called by nobody, and the test functions.
* The ELF header beyond its first word, and where a program is entered.
* Commands whose name or arguments do not fit in the arrays for them:
  `CommandsAssumption` excludes them, as the shell does. `execute()` itself copies
  them without a test of the length (`syscall.c:106`).
* The direction flag of the CPU, which `memmove()` leaves set.
* The message of `exception_handler()` on the screen; what `Console` says ends with
  the fault.
* The programs that run in user mode: they make any sequence of calls.

## 7. Plan

Done in this order, because each later part rests on the one before: `Kernel`
with `Sessions` and its proofs; the drivers that share state with handlers
(`LineInput`, `Rtc`, `Console`, `Keyboard`); `FileSystem` and `Files`;
`Interrupts` with `entry()`; `Paging` on top of `Kernel`; `Library` and
`SystemCalls`.

Nothing that changes state is left to model but what section 6 lists. The proofs
came in the order of the modules, and last the refinement of `Sessions` and the
library. What is left is out of the provers' reach (section 5, Only model-checked).
