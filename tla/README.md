# TLA+ models of the JOS kernel

JOS at this commit is the kernel of lab 1: a boot loader, the entry into paged
kernel addresses, a polled console, formatted output, a line editor, a command
monitor and a stack backtrace that looks addresses up in the kernel's debugging
symbols. It runs on one processor with interrupts off. What can go wrong is
therefore not a race between threads but

* the processor against its devices: keys and bytes arrive between any two polls,
  a port may never become ready, the disk takes its time, the machine is reset in
  the middle of a loop;
* state that survives a call: the keyboard's static flags, the ring buffer, the
  screen and its cursor, readline's static line, frame pointers on the stack;
* boundaries: a full buffer, the last cell of the screen, the last slot of argv,
  a search over a region without a match, the smallest integer.

The modules below model that code, TLC checks them on small instances, and TLAPS
proves the safety properties of the boot loader, the entry and the backtrace, the
console, formatted output, the prompt, the symbol lookup and the string library for
every size of their buffers, tables, texts and stacks.

## 1. Inventory

| Component | Source | State it keeps | Operations |
|---|---|---|---|
| Keyboard driver | `kern/console.c:212-367`, `inc/kbdreg.h` | static flag word `shift` | `kbd_proc_data` |
| Console input | `kern/console.c:45-103, 370-425` | `cons.buf`, `rpos`, `wpos`, `serial_exists` | `cons_intr`, `serial_intr`, `kbd_intr`, `cons_getc` |
| Display | `kern/console.c:126-209` | adapter memory, `crt_pos`, 6845 cursor | `cga_init`, `cga_putc` |
| Console output | `kern/console.c:65-121, 427-455` | none of its own; the ports | `cons_putc`, `serial_putc`, `lpt_putc`, `cputchar` |
| Line editor | `lib/readline.c` | static `buf`, index `i` | `readline` |
| Symbol search | `kern/kdebug.c:10-95` | locals of the search | `stab_binsearch` |
| Debug information | `kern/kdebug.c:97-210` | `*info` | `debuginfo_eip` |
| Boot loader | `boot/boot.S`, `boot/main.c` | memory, line 20, disk | `seta20`, `readseg`, `readsect`, `bootmain` |
| Kernel entry, backtrace | `kern/entry.S`, `kern/entrypgdir.c`, `kern/init.c`, `kern/monitor.c:57-85` | `cr0`, `cr3`, stack, `ebp` | `entry`, `i386_init`, `test_backtrace`, `mon_backtrace` |
| Monitor | `kern/monitor.c:87-145` | line buffer, `argv`, `argc` | `monitor`, `runcmd`, commands |
| Formatted output | `lib/printfmt.c`, `kern/printf.c` | place in the format, flags, `sprintbuf` | `vprintfmt`, `printnum`, `vsnprintf`, `cprintf` |
| String library | `lib/string.c` | none | `memset`, `memmove`, `memcpy`, `memcmp`, `memfind`, the `str*` functions, `strtol` |
| Panic and warnings | `kern/init.c:47-92` | `panicstr` | `_panic`, `_warn` |
| Headers | `inc/*.h` | none | constants, one-instruction wrappers |
| User program, build, grading | `user/`, makefiles, `grade-lab1` | none | not part of this kernel |

How they interact. `getchar` calls `cons_getc` until it returns something other
than 0; `cons_getc` polls the serial port, then the keyboard, each through
`cons_intr`, which is handed the device's `*_proc_data` function as a callback.
`cputchar` calls `cons_putc`, which calls the three drivers in turn; `cga_putc`
calls `cons_putc` back for a tab. `readline` sits on `getchar` and `cputchar`;
the monitor on `readline`; `mon_backtrace` on the stack that `entry.S` set up and
on `debuginfo_eip`, which calls `stab_binsearch` three times. The boot loader
hands the machine to `entry.S`, and only `i386_init` completes the loading by
clearing the BSS. `readline`'s static buffer is shared: it returns a pointer to it,
`runcmd` cuts it up in place and a command's `argv` points into it. Both
`i386_init` and `_panic` end in the monitor.

What makes each component correct:

* keyboard: the `E0` prefix never leaks into another key, no modifier sticks, the
  reset port is written for the chord only;
* console input: a first-in first-out queue that delivers what it accepted, never
  a NUL, and a `cons_getc` that returns;
* display and console output: a terminal with its cursor on the screen, the same
  characters on both ports, and an output that cannot hang on a dead port;
* line editor: what is on the screen is what will be handed over, the prompt
  survives, the line is terminated inside its buffer;
* symbol search and debug information: the right stab, found without a read
  outside the region or table, and an end to every loop;
* boot loader: every byte of the file in its place, a clean BSS, no damage to what
  is still needed, and a start of the kernel in the end;
* entry and backtrace: no access goes astray across the switch, and the trace is
  the call stack;
* monitor: `argv` holds the words of the line as the user edited it, the right
  command runs, and the prompt comes back;
* string library: a move is exact whatever overlaps, a copy stays inside its
  destination, a comparison reads no byte behind the NUL or the count;
* panic: the first message is kept and the monitor is reached;
* formatted output: the buffer holds a prefix of the output, numbers read back to
  themselves, an unknown escape is printed as it stands, formatting ends.

## 2. Modules

A module keeps the names of the source where TLA+ allows it. Variables marked
"hardware", "ghost" or "history" in a module are not variables of the program. A
definition introduced by a comment that begins "Mutant" is a plausible mistake in
the definition after it. It is not used in the specification: replacing the
definition by it shows that a property depends on that line of the code.

| Module | Models | Built on |
|---|---|---|
| `Keyboard` | `kbd_proc_data` and its tables; keyboard and controller as hardware | - |
| `InputQueue` | abstract: a bounded queue that forgets everything when it overruns | - |
| `ConsInput` | ring buffer, two polling loops, `cons_getc`, UART, restart | extends `Keyboard`, refines `InputQueue` |
| `ConsInputLoss` | `ConsInput` with the history of accepted characters | extends `ConsInput` |
| `Terminal` | abstract: a two-dimensional screen with a cursor | - |
| `Cga` | `cga_init`, `cga_putc` on the flat buffer | refines `Terminal` |
| `ConsOutput` | `cons_putc` and the recursion for a tab, two ports | extends `Cga` |
| `Readline` | `readline` and its echo | extends `Cga` |
| `StabSearch` | `stab_binsearch`, one action per turn of each loop | - |
| `Kdebug` | `debuginfo_eip` | instantiates `StabSearch` once for each stab type |
| `BootLoader` | from `start` to the cleared BSS | - |
| `Entry` | paging, stack, calls, `mon_backtrace` | - |
| `Startup` | the machine's start: loader, entry and kernel on one processor | extends `BootLoader` and `Entry` |
| `Monitor` | `monitor`, `runcmd`, over what `readline` promises | - |
| `Shell` | the prompt: `readline` and `runcmd` on one buffer, `i386_init`, `_panic` | extends `Readline`, instantiates and refines `Monitor` |
| `MemOps` | `memset`, `memmove`, `memcpy`, one step per repetition | - |
| `StringLib` | the other functions of `lib/string.c`, one step per turn of a loop | extends `MemOps` |
| `PrintFmt` | `vprintfmt`, `printnum`, the two sinks | - |
| `ConsInputProofs` | theorems about `Keyboard` and `ConsInput` | extends `ConsInput` |
| `ConsoleProofs` | theorems about `Cga` and `ConsOutput`, about `Readline`, and about `Shell` with `Monitor` in it | extends `ConsOutput` and `Shell` |
| `KdebugProofs` | theorems about `Kdebug` | extends it, instantiates `StabSearchProofs` once for each stab type |
| `StringLibProofs` | theorems about `MemOps` and `StringLib` | extends `StringLib` |
| `EntryProofs` | theorems about `Entry` and `Startup` | extends `Startup` |
| the other `*Proofs` | theorems about the module of that name | extends it |
| `MC*` | the instance TLC checks | extends it |

### Console input

A step of `ConsInput` is one poll of one device: the pair `SerialPoll` /
`SerialDrained` is one turn of the loop of `cons_intr(serial_proc_data)` and its
end, `KbdPoll` / `KbdDrained` the same for the keyboard, `Grab` the rest of
`cons_getc`. Hardware steps (a byte on the line, a key, the controller's transfer)
come between any two of them. `pc` is where the kernel stands. The UART holds one
byte, as the driver turns its FIFO off; a missing UART reads as `0xFF`. `Restart`
is the reset that `Ctrl-Alt-Del` asked for: the program's memory is as at boot,
but the fingers are still on the keys.

`InputQueue` says what callers may rely on: characters leave in the order they
came, 0 means that the queue is empty, and the character that would fill the last
slot throws the whole queue away. The last part is not what one would design, but
what `cons_intr` does by not comparing `wpos` with `rpos`; section 6 returns to it.

### Display, console output, line editor

`Cga` keeps the adapter's memory flat as the code does; `Terminal` is the screen
as a person sees it. The refinement maps the memory to rows and the 6845's cursor
registers to a row and a column, so that a cursor not updated would show. In
`ConsOutput` the pending calls are a stack (`todo`): a tab pushes the fifteen
driver calls of its five spaces in front of the rest, which is the recursion of
`cga_putc` into `cons_putc`. `PortWait` counts the tries on a port that is not
ready; hardware may make it ready at any moment or never. `Readline` echoes
through `cga_putc`, so that the line and the screen are related by the code and
not by definition.

### Symbols

`StabSearch` starts from every table, region and target. The caller needs the
entries in order, but the code does not look whether they are; so `StabTypeOK`,
`ReadsInRegion` and `Terminates` are about every table, and only what is found
(`Brackets`) has the order as a premise. `Brackets` keeps to the cases in which the
code does what `kdebug.c:31-34` says: some entry contains the target, and none
begins right behind one that is exactly there (`NoAdjacent`); or the region
returned is empty. The comment as it stands is `ContainsOrEmpty`, which a run
refutes (section 6). `Kdebug` runs those same steps three times,
for `N_SO`, `N_FUN` and `N_SLINE`, each inside the region the last one found,
followed by the two loops of `debuginfo_eip`. A name or line of the result is the
index of the stab it came from. `Located` is about an address that has a file, a
function and a line by the meaning of the stabs (`InLine`): each is the last one of
its kind at or below the address, among stabs that are in order and of which none
begins right behind another one's exact address (`Searchable`; without the latter
`addr++` finds the next stab, section 6). Index 0 means "no file" to
`debuginfo_eip`; that stab 0 is the assembler's header and not an `N_SO` is
`HeaderAssumption`.

### Boot loader and entry

In `BootLoader` a byte of memory is the number of the byte of the kernel file it
holds. Line 20 is modelled by what it does to an address, the disk by a busy
interval between command and data. Two facts about the hardware are assumed: the
keyboard controller takes a byte within microseconds, and so before a disk read
ends (`boot.S:42` does not wait after the last byte); and an image is laid out as
`kern/kernel.ld` does it, with addresses and file offsets equal within a sector
and the data on pages of its own.

In `Entry` every instruction fetch, load and store goes through the page tables
when paging is on. `stray` records that one faulted or reached another word than
the one meant. Frames follow the calling convention: arguments, return address,
saved `ebp`, and a number of further words that is left open. A page table entry
and `cr0` are the sets of their flags, so that the write to the identity mapping,
which is read-only once `CR0_WP` is set, would show. A return address below `ULIM`
takes `mon_backtrace` into the panic of `debuginfo_eip`.

`Startup` runs the two one after the other: the kernel begins where the loader
jumps (`Entered`), and the last step of the loading, the `memset` over the BSS, is
taken by `i386_init` after its prologue and before its first call (`InInit`). The
disk and the controller go on while the kernel runs.

### The prompt

`Monitor` models `runcmd` over a buffer of which it knows only that `readline`
writes to it while the monitor waits (`Editing`) and in the end leaves a line and
its NUL at its start (`Entered`). `Shell` puts the real `readline` in the place of
these two actions: it extends `Readline`, instantiates `Monitor` over the same
variable `buf`, and is shown to implement `Monitor` (`MonitorSpec`). What would
break it is a line that is not terminated inside the buffer, or a byte typed while
`argv` points into it. White space is tab, return, newline and blank, although of
these only a blank can be typed into a line.

The monitor is entered by `i386_init` or by `_panic`. `Entry` shows that the
panic of the backtrace does not occur; `Shell` lets it occur, because what it
shows of the prompt must also hold after it.

### String library

`MemOps` models the versions of `memset` and `memmove` that are built (`ASM` is
1): a string instruction over words or bytes, upwards or downwards, one repetition
per step, each reading its unit before it writes it. `StringLib` adds the loops of
the other functions. A pointer outside the memory is no index of `mem`, so that
TLC stops with an error at a read or write there; the instances put the second
string at the very end of the memory for that reason.

### Formatted output

`PrintFmt` works on words of the stack, which hold `2 * IntHalf` values; `%lld`
takes two, low word first, and the smallest integer negates to itself where the C
code does. `args` is the stack from the first argument on: `va_arg` takes whatever
word is there. `NumberShown` says that the text of a number denotes it (`Value`
reads the digits back) and is neither padded twice nor begun with a zero, without
saying how `printnum` finds the digits. It is about numbers without the flag `-`;
`PadsOnTheRight` says what the source's comment promises of those with it, and is
refuted (section 6). A description of `error_string` is a text
of its own for each error, and no more.

## 3. Runs

Every passing run checks for deadlock.

| Run | Instance | Shows |
|---|---|---|
| `keyboard` | `ConsInput` with both Ctrl keys, Alt and the extended Delete, 2 slots, restarts | `InTypeOK`, `PrefixInStep`, `NoStuckModifier`, `RebootOnlyOnChord` |
| `input` | 3 slots, a letter, a serial letter and NUL, UART or none | `NoZeroQueued`, `GetcReturns`, `InputDelivered`; `QueueSpec`: the console implements `InputQueue` |
| `cons_output` | 3 rows of 2, five characters, 2 tries | `CgaTypeOK`, `SameStream`, `PutcReturns`; `TerminalSpec`: the display implements `Terminal` |
| `shell` | 4 rows of 2, a buffer of 6 bytes, 3 slots of `argv`, names `A` and `AA` | `LineTypeOK`, `WhatYouSee`, `LineTerminated`, `PromptKept`; `ArgvHoldsWords`, `RightAnswer`, `Prompts`; `MonitorSpec`: the real `readline` keeps the promise `Monitor` relies on |
| `stab_search` | every table of 4, in order or not | `StabTypeOK`, `ReadsInRegion`, `Brackets`, `Terminates` |
| `debuginfo` | tables of 7 in five shapes | `ReadsInTable`, `Located`, `Finishes` |
| `startup` | sectors of 2 bytes, 16 bytes of memory, every image of one or two segments, with or without the stack's empty header; pages of 16 words, a `Depth` of 3, frames of two sizes | `KernelInPlace`, `NoDamage`, `Boots`, `NoStrayAccess`, `TraceIsCallStack` |
| `printfmt` | 4-bit words, escapes with up to two flags, short mixtures | `KeepsPrefix`, `UnknownIsLiteral`, `NumberShown`, `Ends` |
| `strings` | 16 bytes of memory, strings of 3, numbers of 4 characters, 8-bit longs | `MemExact`, `CopiesExact`, `AnswersRight`, `StrtolRight` |
| `input_loss` | 4 slots | refutes `NextInputOrNone` (section 6) |
| `stab_search_doc` | tables of 3 | refutes `ContainsOrEmpty` (section 6) |
| `printfmt_doc` | as `printfmt` | refutes `PadsOnTheRight` (section 6) |

Why the bounds are enough:

* Three slots are the fewest in which a queue holds two characters, wraps at both
  positions and overruns from a state that is not full. Two bytes on the
  keyboard's line are one extended code, so that a poll can come between them.
  The keys are the chord's and a second one for one of its modifiers; the keyboard
  needs no more than two slots, the fewest a ring can have. The theorems cover what
  these instances leave out, since they hold for every set of keys: further
  modifiers, the fake shift of the extended keys and the keypad's Delete
  (`NoModifierSticks`, `PrefixStaysInStep`, `ResetOnlyOnChord`), and a queue that is
  emptied by a restart (`QueueRefinement`).
* A screen of 3 by 2 has a first, a middle and a last row, and rows and columns
  differ in number; a tab wraps and scrolls it more than once. One attribute is
  enough because the spaces of a tab have none.
* The prompt has a fourth row: five characters in a buffer of 6 bytes are the
  fewest that hold two words with white space around them, and three words, one
  more than `argv` has room for; `BuflenAssumption` asks for all rows but one to
  hold a line (the source has 1024 bytes on 25 rows of 80, so that a line does not
  scroll off the screen). A name that is a prefix of the other tells a comparison
  of whole words from one of prefixes. Two bytes that are no text, a tab and DEL,
  are typed too.
* Four stabs of two types hold every arrangement of matching and other entries
  around a midpoint; the values 1, 2, 4 contain two neighbours, which `addr++` is
  about, and a gap. Seven stabs are a leading entry, a file, functions, parameters,
  lines and a second file.
* With sectors of two bytes and segments of one to four, every alignment of a
  segment's start and end occurs; memory has one bit above line 20.
* A `Depth` of 3 nests four calls of `test_backtrace`, an outermost one, inner ones
  and an innermost one; the source's 5 nests six, and the theorems hold for every
  `Depth`. Words of 4 bits have all the signs and overflows
  of 32.
* In 16 bytes every pair of places for a move of up to four words occurs, with
  every alignment and overlap. Strings of three bytes over NUL and a byte on each
  side of 128 are shorter than, equal to and longer than the counts. Four
  characters are a sign, a prefix and a digit, or digits that overflow an 8-bit
  `long` in base 10 and 16. The bases are 0, 2, 10, 16 and 40, which has more digits
  than there are characters for.

## 4. Fairness

The kernel's next step is weakly fair in every run with a liveness property: the
processor runs and never waits for an interrupt. Beyond that:

* `ConsInput` assumes strong fairness of leaving a polling loop. The loop polls in
  microseconds, a 9600 baud line delivers a byte per millisecond and a typist far
  less; so a loop that finds its device empty again and again is not refilled
  exactly between each two polls for ever. A requested restart takes place.
* `ConsOutput` assumes nothing of the ports; the bounded wait alone makes
  `PutcReturns` true.
* `Startup` assumes that the controller takes a byte and a disk read ends. The
  loader has no timeout, so it does hang without them.
* `Shell` and `Monitor` assume that `runcmd` goes on, and nothing of the user.
* `StabSearch`, `Kdebug` and `PrintFmt` wait for nothing.

## 5. Proofs

All constants are arbitrary within the named assumptions, which TLC evaluates on
the instances of the runs. Most only say that a size is a number and not 0. Those
that say more, and why the code justifies them:

| Assumption | Says | Because |
|---|---|---|
| `BufSizeAssumption` | the ring has two slots or more | 512 |
| `BuflenAssumption` | a line fits on all rows but one | 1024 bytes, 24 rows of 80 |
| `InputAssumption` | readline is given no NUL | `getchar` waits while `cons_getc` returns 0 |
| `ShellAssumption` | names of commands hold no NUL and no white space | `commands[]` |
| `KdebugAssumption`, `HeaderAssumption` | no stab has the last address of all; stab 0 is no `N_SO` | that byte is no code; the assembler's header |
| `LayoutAssumption`, `ImageAssumption` | where the headers go; segments as `kernel.ld` lays them out, each on sectors of its own, the BSS last | `boot/main.c`, `kern/kernel.ld` |
| `EntryAssumption` | the stack holds the frames of `Depth` calls, the kernel lies in its 4 MB | `KSTKSIZE`, `entrypgdir.c` |
| `MemAssumption` | a call's arguments lie in memory | undefined in C otherwise |
| `StringAssumption` | strings end in memory or with their count, there is room for what is stored, a copy's destination does not begin inside its source | undefined in C otherwise |
| `PrintFmtAssumption` | the stack goes on for two words per character of the format, and every pointer taken from it points at a string | `va_arg` takes whatever word lies there; `%s` with a word that is no pointer to a string is undefined in C |

What is proved, and the inductive invariant it needs:

* `ConsInputProofs`, keyboard. `NoStuckModifier` and `PrefixInStep` say something
  of the moment when no code is under way. `KbdInv` adds what is on the way: the
  bytes on the line are those of genuine key events, a prefix is directly followed
  by its second byte (`LineOK`, `OutOK`), and `E0ESC` is set exactly when the next
  byte to be read is a second one (`FlagOK`). It yields `NoModifierSticks`,
  `PrefixStaysInStep` and the action property `ResetOnlyOnChord`.
* `ConsInputProofs`, ring buffer. `InTypeOK` is inductive as it stands. The
  refinement rests on lemmas about `Contents`, the sequence between two positions
  of the ring: putting a character appends it (`PutAppends`) unless the positions
  meet (`PutOverrun`), taking one drops the head (`TakeContents`). Each action then
  maps to a step of the queue or a stutter: `QueueRefinement`. `NoZeroIsQueued`
  follows from the queue's own step.
* `ConsoleProofs`, display and ports. `CgaInv` adds to the types that the 6845's registers hold
  `crt_pos`. The refinement goes from the flat buffer to rows: a cell's row and
  column are the quotient and the remainder of its index, and the move of all rows
  but one followed by blanks is the terminal's scroll (`CgaImplementsTerminal`). For
  `cons_putc`, `OutInv` says that in what is left to be done every call of
  `serial_putc` is directly followed by one of `lpt_putc` with the same character
  (`Balanced`), so that the logs differ by exactly the character between the two
  (`LogsOK`). It yields `OutputTypeCorrect`, `PortsAgree` and
  `OutputImplementsTerminal`, however deep a tab recurses and however long the ports
  stall.
* `ConsoleProofs`, line editor. `LineInv` adds to `LineTypeOK` and `WhatYouSee` that
  no NUL was typed into the line (`NoNul`, for the terminator to be the first) and
  that the display has been set up (`DisplayReady`). The step that needs care is a
  character in the last cell: the screen scrolls under the line, and the cells in
  front of the cursor are shown to be the same ones moved up (`TextScreen`). It
  yields `LineTypeCorrect`, `ScreenShowsLine`, and the action properties
  `LinesTerminated` and `PromptIsKept`.
* `ConsoleProofs`, prompt. `RunInv` says where `runcmd` stands in the line: what it
  has passed is cut at white space and the rest is as typed (`LineCut`); `argv`
  lists, in order, the words that start before that place (`WordsSaved`); names
  tried so far did not fit (`PlaceOK`). `ShellInv` is `LineInv` with it; neither
  holds alone, since the line lives in `readline`'s buffer. It yields
  `WordsReachCommand`, `AnswersAreRight`, `EditorInShell` (the editor's properties
  in the presence of `runcmd`), and `ShellImplementsMonitor`: initial states and
  steps of the prompt are those of `Monitor`.
* `StabSearchProofs`. `Brackets` says what holds at the end only. The inductive
  invariant `SearchInv` says what every turn keeps: the ends of the region
  separate, where the region is in order, the entries already known to be at or
  below the target from those known to be above it, and `addr` differs from the
  target only after an exact match (`LoopInv`); a scan has passed no match between
  `m` and the midpoint (`ScanInv`); and the last loop still has its match below it
  (`LastInv`). The bounds do not need the order. From it follow `TypeCorrect`,
  `ReadsAreSafe` and `BracketsCorrect`, the latter in the cases that `Brackets` names.
* `KdebugProofs`. Each search inside `debuginfo_eip` keeps the invariant of
  `StabSearch`, by that module's own theorems. `DebugInv` says in addition that the
  regions lie within each other (`EndsOK`), which makes every read safe whatever the
  table holds (`TableReadsAreSafe`). `LocInv` says, for an address with a file, a
  function and a line, which of them are found at which place of the code
  (`OnTheWay`); it takes `Brackets` three times, each for the region that the one
  before returned. It yields `AddressIsLocated`.
* `BootLoaderProofs`. `LoaderInv` says that what has been loaded stays
  (`Loaded`): the sectors of a later segment do not reach an earlier one, and none
  reaches the headers; and what nobody asked for is untouched (`MemOK`). Line 20 is
  open before the first address that needs it (`LineOK`), and a read is at a whole
  number of sectors from where it began, with the file offset that belongs to it
  (`SegOK`). It yields `KernelIsInPlace` and `NothingDamaged`.
* `EntryProofs`. `EntryInv` says which address the code runs at and what the
  control registers hold at every place (`MachineOK`), that each call's frame holds
  its return address and arguments and the address of the frame outside it
  (`CallsOK`), that the frames lie above `esp` and within the stack (`StackOK`), and
  that what has been listed are the innermost calls (`TraceOK`). It yields
  `NothingStray`, with the page tables of `entrypgdir.c` looked up for every fetch,
  load and store, and `BacktraceRight`. `StartupImplementsParts` shows that every
  step of `Startup` is a step of one part and leaves the other's state alone, so
  that these and the loader's theorems hold of the machine's start as a whole.
* `PrintFmtProofs`. `FmtInv` adds to the three properties that the
  words taken from the stack are at most two for each character up to the furthest
  one read, and that no new escape begins before it (`ArgsOK`): an unrecognised
  escape moves `fmt` back, but the characters read again are flags, so that no
  argument is asked for twice. `SoFar` says that, unless the format holds an escape,
  what was printed is the format up to the place reached, or up to the `%` of the
  escape that is being read. `BufferKeepsPrefix` needs only that a prefix of the
  output grows with it (`PrefixGrows`). `NumbersAreRight` rests on `PrintnumShows`:
  `printnum`'s recursion has a solution (`PrintExists`) and every level of it prints
  the quotient's digits, padded to one less, and one digit more (`NextLevel`).
  `UnknownStaysLiteral` follows from `SoFar` at the end of the format.
* `StringLibProofs`, memory functions. `MemExact` speaks of the end of a call. `MemInv` says what every
  repetition keeps: the bytes passed are final, every other byte is as it was at
  the call (`Filling`, `MovingUp`, `MovingDown`), the count is a multiple of the
  unit (`Counting`), and the direction is the one in which no unit of the source is
  overwritten before it is read. The last part is why the invariant keeps the
  relation of `dst` and `src` that `memmove` tested. It yields
  `MemFunctionsExact` and, with the other functions around them, `LibraryMemExact`, for every memory, length, overlap and alignment.
* `StringLibProofs`, strings. `LibInv` is `MemInv` during a memory function and
  `StrInv` during another: where the pointers stand (`PlaceOK`), that no byte passed
  was the one looked for or differed from the other string's (`Scanning`,
  `Comparing`), and that the bytes stored are those of the source at the call while
  all others are untouched (`Copying`, `Cutting`, `Padding`). All of it is in terms
  of the memory at the call; that the source is still as it was ahead of a copy is
  where the assumption on destination and source enters. It yields `CopiesAreExact`
  and `AnswersAreRight`.
* `StringLibProofs`, numbers. `NumInv` says of `strtol` that only blanks were
  skipped and the text still ends ahead (`Skipping`), and that behind the sign and
  the prefix, whose base is the one in force, only digits were read and `val` is
  what they make so far (`Reading`). `StrtolRight` weighs every digit by its place
  and reduces once, while the code multiplies what it has and reduces after every
  digit: `PlaceValue` shows the two sums to be the same and `WrapOnce` that reducing
  on the way changes nothing. It yields `StrtolReadsNumber`.

Progress. What a liveness property claims has two parts: the code cannot go round
for ever, and it is not left standing. The second needs the fairness of section 4
and is left to TLC. The first is an action property, that every step of the code
makes one of several measures smaller and leaves those before it as they are, and
is proved with the same invariants, for every size:

| Theorem | The hard step | Measures, in this order |
|---|---|---|
| `SearchProgresses` | an exact match leaves `l` where it is, but moves `addr` past it | the loops left; twice the region, and 1 while `l` is an exact match; the rest of the turn |
| `LookupProgresses` | three searches, each in the region the last one found | the phases left; the search's measures; the rest of a loop |
| `FormattingProgresses` | an unrecognised escape moves `fmt` back | the percent signs ahead; the stage; the rest of the format |
| `PutcProgresses` | a tab calls `cons_putc` again, a port may stall for ever | tabs left; calls left; polls left |
| `RuncmdProgresses` | `SaveArg` and `WordEnds` do not advance | the stage; the line, with a place for the start and the end of a word; the commands left |
| `LoadingProgresses` | the devices take their turns in between | the stage; segments; bytes; halves of a sector |

Where other steps can come in between, the theorem also says that they add nothing:
they leave `runcmd`'s line, `cputchar`'s calls and the loader's registers alone.
`LoadingProgresses` says in addition where the loader ends, which is the rest of
`Boots`: in the kernel, or in the loop for a bad image exactly when it is one.

What a recursive function returns is proved from least counterexamples: the naturals
are well founded (`WFMin`), so a set of exceptions would have a least member
(`Least`), and the step from its predecessor refutes it.

Checked by TLC only:

* liveness under fairness (`GetcReturns`, `InputDelivered`, `PutcReturns`,
  `Prompts`, `Terminates`, `Finishes`, `Boots`, `Ends`), the fairness that
  `MonitorSpec` contains, and freedom from deadlock, which the
  prover does not handle. For `PutcReturns`, `Prompts`, `Terminates`, `Finishes`,
  `Boots` and `Ends` the part without fairness is proved, as said above; for
  `GetcReturns` and `InputDelivered` there is none, since a device that is refilled
  between any two polls does keep its polling loop going.

## 6. Where code and comments differ

Three runs state what a comment says and refute it:

* `input_loss`: `cons_getc` does not "return the next input character from the
  console, or 0 if none waiting" (`kern/console.c:405`): when `CONSBUFSIZE`
  characters have come since the last call, `wpos` meets `rpos`, 0 is returned and
  all of them are gone.
* `stab_search_doc`: the result of `stab_binsearch` is not always one in which
  "`*region_left` points to the matching stab that contains `addr`" or
  "`*region_left > *region_right`" (`kern/kdebug.c:31-34`). A target below every
  match sets `any_matches` all the same, and the region is returned non-empty
  around no match; in the trace, a region of a single entry above the target, both
  ends become one less than its index. The same property fails in a second way:
  after an exact match `addr++` (`kdebug.c:80`) lets a stab one address above be
  returned, as for values 1, 1, 2 and a target of 1.
* `printfmt_doc`: the flag `-`, "flag to pad on the right" (`lib/printfmt.c:107`),
  sets the pad character only, and `printnum` puts it in front of the digits: 1 in
  a width of 2 is printed as `-1`.

Other differences met while modelling; the models follow the code:

* As a consequence of the second, `debuginfo_eip` gives an address in front of a
  file's first function the file's name for its function.
* `runcmd` refuses the `MAXARGS`-th word but announces `MAXARGS` as the maximum
  (`monitor.c:108-109`).
* `README.md:690-695` lists a `backtrace` command that `commands[]` does not have.
* `%e` has no text for the last error code, though `inc/error.h:7` asks for the
  list to be kept in step.

Smaller peculiarities that the models contain: `readline` stores DEL when the line
is empty; releasing one of two Shift keys clears the flag; `ctlmap[0x97]` takes the
place meant for `KEY_HOME`; a tab sends the tab itself and five spaces to both
ports; `debuginfo_eip` relies on stab 0 not being an `N_SO`; `cprintf` returns 0
because of `*cnt++`; the sign of a number does not count in its width; the
backtrace reads five words above `bootstacktop`; `strlcpy` returns the length it
stored, not that of the source.

## 7. Not modelled

* The plain C versions of `memset` and `memmove` (`string.c:173-205`), which the
  build leaves out, and `_warn`, which only prints and has no caller.
* Messages on the console ("Rebooting!", "Serial port does not exist!"), the
  contents of the GDT, port writes for a bad boot image.
* Bytes lost in the UART before a poll: they never reach code of the kernel.
* A second panic: nothing that the monitor runs can panic, so the test of
  `panicstr` never finds it set.
* What the headers declare for later labs: traps, segment descriptors, user
  address ranges, system calls, `inc/x86.h`'s wrappers for instructions that this
  kernel does not use. There is no code behind them.
* `user/sendpage.c`, which needs system calls this kernel lacks, and the build and
  grading scripts.

## 8. Plan

Done, in this order: keyboard and console input, display and console output, line
editor, symbol search with their proofs; then debug information, boot loader,
entry, monitor and formatted output with their runs; then the prompt as a
composition of line editor and monitor, panic, and the string library with the
proof of its memory functions; then the proofs of the keyboard's and the port's
invariants, of the refinement of `Terminal`, of boot loader, entry and backtrace,
of the prompt and of `debuginfo_eip`; then those of the string library's copies,
searches and comparisons and of formatted output; then those of `strtol` and of
progress; then the start of the machine as a composition of loader and entry, and
the runs that refute two more comments. Every invariant and every action property that a run checks is stated by
a theorem. What is left to TLC is listed at the end of section 5, what is left out
of the model in section 7.
