# Quakernel: models and proofs

TLA+ models of the Quakernel kernel (`src/kernel`) and of the C library it is
linked with (`src/nolibc`), TLC configurations that check them on small
instances, and proofs by TLAPS for instances of every size. Paths below are
relative to `src/`.

Contents: [the system](#1-the-system), [the modules](#2-the-modules),
[the runs](#3-the-runs), [bounds](#4-the-bounds), [fairness](#5-fairness),
[proofs](#6-what-is-proved), [disagreements found](#7-where-the-code-disagrees-with-its-own-text),
[not modelled](#8-what-is-not-modelled), [plan](#9-plan), [how to run it](#10-running-it).

## 1. The system

Quakernel is a small kernel for riscv64 and x86_64 that the Limine boot loader
starts. `KernelMain` (`kernel/src/main.c`) checks what the boot loader answered,
creates an allocator over the first large usable piece of memory, takes over a
framebuffer, checks the device tree, prints a greeting and hangs. Around it lie
parts that later stages of the boot will call and that have no caller yet: the
computation of free memory, a sort for it, the device tree walk and a driver for
the serial port. Everything runs on one processor with interrupts off, so the
only actors that move on their own are the devices; what makes the code hard is
arithmetic at the edges of unsigned types, pointers whose validity depends on an
earlier check, loops that keep several indices in step, and state that is kept
between calls.

| Component | State | Operations | Talks to |
|---|---|---|---|
| Boot sequence, `kernel/src/main.c` | `gFbo`, `gFbConsole`, `preInitArena`, the Limine responses | `KernelMain` | every other part: creates the arena, sets up and calls the console, validates the device tree, ends in `hcf` |
| Font table, `kernel/src/font/font.c` | none: 4096 constants | reading a row | the console, which computes the index from a character's code |
| Framebuffer console, `kernel/src/main.c`, `font/font.h` | cursor, console size, font, the framebuffer | `InitFramebuffer`, `DefaultFbConsole`, `QPrint`, `FramebufferPutPixel` | the boot sequence, by global variables; the font, by index; the framebuffer, by stores |
| Linear arena, `memory/linear_arena.c` | a block and `used` | `MemLinearArenaCreate`, `MemLinearArenaAlloc`, `MemLinearReset` | created by the boot sequence over a memory map entry |
| Free blocks, `memory/memory.c` | three indices and the list emitted so far | `QKEmitFreeAlignedMemBlocks` | wants its occupied regions sorted by the insertion sort |
| Insertion sort, `lib/c_lib.c` | the array, a key buffer of 256 bytes, two indices | `InsertionSort`, `MemCompareBlocksByAddr` | `QK_CHECK` halts the machine |
| Device tree walk, `device/dtb_parse.c`, `arch/riscv64/interrupts.c` | the current node, the records built | `ParseDtb`, `ParseNodeRegister`, `ValidateDtb`, the tables of names | libfdt; `strncmp` of nolibc; its `uart_port` is the serial driver's argument |
| Serial port driver, `device/uart.c` | none; the 16550A's registers | `UartTryReadByteFromRegister`, `UartTryWriteByteToRegister` | the chip, which moves between its two register accesses |
| nolibc copies, `nolibc/src/string/mem{cpy,move}.c` | two pointers, a count, memory | `memcpy`, `memmove` | every part that copies structures |
| nolibc searches and comparisons | none | `strlen`, `strnlen`, `memchr`, `strchr`, `strrchr`, `memcmp`, `strcmp`, `strncmp`, `strcoll`, `strcspn`, `strnstr`, `memmem` | each other; the device tree walk |
| nolibc numbers, `nolibc/src/stdlib` | none | `strtol`, `strtoul`, `strtoll`, `strtoull` | |
| nolibc writers | memory; of `strtok`, a static pointer | `memset`, `strcpy`, `strncpy`, `strcat`, `strncat`, `strtok` | `memcpy`, `memset`, `strlen` and `strnlen`, which they are made of |

What makes each part correct:

- **Boot**: no response is read through before its check, for any subset of
  answered requests; the arena is laid over usable memory only and is missing
  only if there is none; nothing is printed unless everything was checked; the
  kernel always ends in `hcf`.
- **Console**: no glyph leaves the screen or covers another until the text goes
  back to the top; 16-bit sums never wrap; the pixel cursor is a grid of
  character cells in reading order.
- **Font**: what the console computes from a character lies in the table, for the
  greeting and every 7-bit character, and no two of those have the same rows. That
  is a claim on the table and its index; what is lit of a row is the console's.
- **Arena**: live allocations are disjoint and leave no gap; NULL exactly when
  no run of the size is free.
- **Free blocks**: what is handed out is RAM, unoccupied and handed out once;
  all of it is handed out; the output array has a known bound.
- **Sort**: sorted, stable, and no element lost while one exists only in the key
  buffer; what it returns is all that the free block computation asks for.
- **Device tree**: each device of interest is recorded once with the address and
  size its `reg` spells out, as far as the record has room; a device that is
  off or unknown never stops the walk.
- **Serial port**: bytes come out in order, once, and none is swallowed by a
  call that returns false; a refused byte is not sent.
- **nolibc**: whole words are read only at word boundaries and no source byte is
  overwritten before it is read, at every overlap and alignment; searches,
  comparisons and conversions mean what `string.h` and `stdlib.h` say, across
  the seams between their bytewise and wordwise loops; what a writer leaves is
  what it was asked for and nothing else, whatever `strtok` remembers.

The places where this can go wrong and a test would hardly look are the
`hazards` of `PROJECT.json`, each at its line with the properties that cover it.

## 2. The modules

A module is named after its part; `MC<module>` gives it small constants for TLC,
`<module>_proofs` holds its theorems. Each definition keeps the name it has in
the source where there is one, and the `map` of `PROJECT.json` gives its lines.
Operators named after a fault, each in front of the definition it stands in for,
are the broken variants with which a property is shown to notice something:
`CutOccupiedSkipsNext`, `CheckHhdmMissing` and so on. Nothing in a specification
uses them.

### Memory: `MemBlock`, `FreeBlocks`, `FreeMap`, `LinearArena`, `BlockAllocator`

`MemBlock` is the shared vocabulary: `mem_block_t`, `AlignUp` and `AlignDown` in
uint64_t arithmetic (`% AddrLimit`), and, apart from them, what the properties
say of blocks in unbounded arithmetic (`Overlap`, `Within`).

`FreeBlocks` is `QKEmitFreeAlignedMemBlocks`. `EnterRegion` and `LeaveRegion` are
the start and the end of the outer loop's body (the latter with the left-over
that is emitted there), `SkipOccupied` and `CutOccupied` the two ways an
iteration of the inner loop goes. `currentStart` and the two indices are the
code's, counted from 1. The rounding is the code's: the start of a gap up, its
length down, independently of each other.
`FreeMap` is what a caller gets: a set of words that only grows, contains
nothing occupied if the arguments keep to the header's contract, and on return
is all the free RAM there is. The refinement maps the blocks emitted so far to
the words in them.

`LinearArena` is the bump allocator: `Init` is `MemLinearArenaCreate`, `Alloc`
and `AllocFails` are the two exits of `MemLinearArenaAlloc`, with the test
`used + sizeInBytes > size` in uint64_t, and `Reset` is `MemLinearReset`. `live`
is what callers hold; it is history, no guard reads it. `BlockAllocator` leaves
open where an allocation lies and may return NULL only when no free run of the
size exists anywhere in the block.

### Sorting: `InsertionSort`, `AdjacentSwaps`, `MemoryMap`

One action per iteration of the inner loop (`Shift`), one for taking the key and
one for writing it back, so that the moments in which an element exists only in
the key buffer are states. `CheckElemSize` is the `QK_CHECK`. The code's `j = -1`
is `j = 0`. `AdjacentSwaps` only exchanges neighbours that are strictly out of
order, and returns when there are none; the refinement maps the array with its
hole to `Contents`, the array with the key in the hole.

`MemoryMap` is the call that `memory.h:47` asks of a caller: sort the occupied
regions with `MemCompareBlocksByAddr`, then compute the free blocks. It
instantiates `FreeBlocks` over the sort's array and lets it begin when the sort
has returned. No function of the repository makes the two calls yet; the module
checks that the one's result is what the other's contract needs, ties, nesting and
repetition included, and no other order of calls is modelled.

### Boot and console: `KernelBoot`, `FbConsole`, `TextGrid`, `Font8x16`

`KernelBoot` has one action per statement of `KernelMain`. `boot` is the boot
loader's answer to each request: a value or `NoResponse`. Reading through a
missing one leads to `pc = "fault"`, which `NoNullDereference` says is never
reached; so the order of checks and uses is in the guards and not assumed. The
arena's creation is the loop over the memory map (`SkipEntry`, `CreateArena`,
`NoEntryLeft`); the second loop computes blocks and keeps none (`ScanEntries`).
The module instantiates `FbConsole` over the same variables and takes its `Call`
and `QPrintChar` as the steps of `QPrint`.

`FbConsole` has one action per character: the break tests with `>=`, the cursor
in 16 bits, the return to the top. The framebuffer's contents are never read and
are not state: `Pixels` says which pixels a glyph asks for and are not clipped,
`StoreOffset` where each is stored. `page` is history, the glyphs drawn since
the text was last at the top. `RowIndex` is the index into the font, with `char`
signed or not (`CharSigned`); a row is a `char` of the table too, widened with its
sign if it has one, and `Lit` tests its bits as the code does. The colour is left
out. `TextGrid` is the console for someone who prints: cells in reading
order, a new line on a newline or a full line, the top after the last line; its
size is `Cells(width, font.width)` by `Cells(height, font.height)`, which is one
less than what would fit when the size is a multiple of the glyph's, because the
tests are `>=`.

`Font8x16` is the table of `font.c`, a glyph written as its rows and the number of
empty rows above them; `defaultMonospace` strings the glyphs together into the one
array that the console indexes. `MCKernelBoot` gives `KernelBoot` this font.

### Devices: `DeviceTree`, `Uart16550A`

`DeviceTree` is `ParseDtb`. A tree is the sequence of nodes in the order in which
libfdt visits them, a node a record of what libfdt returns for it. The six
actions are the six ways a node is dealt with: recorded as a controller or as a
serial port, passed over, `hcf` on a bad `reg`, a read through NULL, the end.
The error branches that are only a comment (`// err lenOrErrCodeHolder`) lead to
`ReadThroughNull`. A cell beyond the end of `reg` is any
value. The code fills in a local `interrupt_controller` or `uart_port` and drops it at
the end of the iteration; `found` keeps them, as history that no guard reads, because
they are what the walk is for. The names are whole strings because the code's `strncmp` compares
`sizeof` the name, its terminator included; `TextsFound` of `Nolibc` shows that
`strncmp` keeps that promise.

`Uart16550A` splits a call at its two register accesses: `CallRead` or
`CallWrite` reads the line status, `ReadByte`, `ReadNothing`, `WriteByte` or
`WriteNothing` does the rest, and the chip (`Receive`, `Load`, `Send`, modelled
from the registers the driver uses) moves in between. Undefined behaviour is a
choice: an unknown width makes the status any set of bits, a port of another
standard returns either value.

### nolibc: `ByteMemory`, `MemCopy`, `BlockMove`, `CStrings`, `CWriters`, `CNumbers`, `Nolibc`

`MemCopy` is the loop of `memcpy`, which `memmove` calls: up to a word boundary
by bytes, then words, then bytes, upwards or downwards; one action per iteration
and one per transition between the loops. A word is read whole and then stored
whole. `BlockMove` does it in one step.

`CStrings` and `CNumbers` are pure: each function of the library as a value of
the memory it is called on. A loop is the place where it stops: `LoopEnd(first,
step, Stops)` starts at an address and goes on in steps until it meets one of
`Stops`, the addresses at which the code's condition ends the loop. Where the code
reads words, so do they: the three loops of `memchr`, the tested bytes of
`strlen`. Numbers are in words of width `LongLimit`, with the code's `cutoff` and
`cutlim`; `Digits` is the loop over the digits, `Up` and `Down` one digit more
towards the limit above or below zero. `BaseAndDigits` takes the letters of the
binary prefix, which the `long long` functions do not know.

`CWriters` gives the memory that a writing function leaves. The functions are made
of one another as in the code: `strncpy` is `strnlen`, a copy and a `memset`, and
`memset` the overlapping stores at both ends and the words between. The copies in
them are taken whole, as `BlockMove` has them, which `MemCopy` is proved to
implement. `strtok` is given what its static variable holds and returns what it
holds afterwards; `Nolibc!Tokens` passes it from call to call.

`Nolibc` composes them: a program moves a block by `MemCopy` and then asks one
function about the moved block, or calls one that writes there, or `strtok` several
times. The answer is compared with a definition over the block *as it was before
the move*, so the copy and the function have to be right together, at every
alignment the move can end at. The programs are a constant, `Programs`: any that
keep to what the headers ask of a caller (`KeepsContract`). Strings are terminated
within the block, areas lie in it, what is written fits into memory, and no two
strings that `strtok` cuts, or cuts with, have a byte in common. A program that
reads a number says which: `Spells` states, without a loop of the code, that the
text is white space, a sign, a prefix and these digits, each of which may be
missing, and then something that is no digit.

## 3. The runs

| Run | Question | Properties |
|---|---|---|
| `free` | Is what is emitted free RAM, once, and all of it? | `TypeOK`, `FreeIsUnoccupied`, `FreeIsRam`, `FreeIsDisjoint`, `OutputFits`, `ImplementsFreeMap` |
| `arena` | Do sequences of calls keep allocations apart, and is NULL honest? | `TypeOK`, `LiveDisjoint`, `ImplementsAllocator` |
| `sort` | Is the array sorted, stably, with nothing lost on the way, and is what the free block computation makes of it exact? | `TypeOK`, `Stable`, `SortedAtReturn`, `ImplementsAdjacentSwaps`, `MapIsExact` |
| `console` | Does text stay on the screen, readable, as a grid? | `TypeOK`, `GlyphsOnScreen`, `InReadingOrder`, `ImplementsTextGrid` |
| `boot` | Is the kernel safe with every boot loader, does it reach `hcf`, and does it print its greeting, with rows from the font's table? | `TypeOK`, `NoNullDereference`, `ArenaIsUsableMemory`, `PrintsOnlyWhenChecked`, `GreetingIsPrinted`, `FontTellsApart`, `Hangs` |
| `uart` | Does the stale status lose, repeat or invent bytes? | `TypeOK`, `DeliveredInOrder`, `NoneSwallowed`, `RefusedIsNotSent` |
| `dtb` | Are all devices found, with the right registers, in every tree? | `TypeOK`, `FoundAllOnce`, `RegistersDecoded`, `StopsForWantedOnly` |
| `nolibc` | Do copies, searches, comparisons, writers and conversions agree with the headers? | `TypeOK`, `WordsAligned`, `ImplementsBlockMove`, `SearchesRight`, `TextsFound`, `StringsWritten`, `NumbersReadBack` |
| `free_unaligned`, `console_store`, `console_glyph`, `uart_poll` | Four places where the code does not do what its own text says; see [section 7](#7-where-the-code-disagrees-with-its-own-text). | one each, violated |

Deadlock is checked in `arena`, `console`, `boot` and `uart`: the arena and the
console can always be called, the booted kernel waits in `hcf` (the step `Hcf`),
and the serial port can always be polled. `free`, `sort`, `dtb` and `nolibc`
model one call, or one after another, and stop when the last has returned or has
halted the machine.

What the passing runs show, beyond their one-line questions:

- `free`: nested, overlapping, adjacent and empty occupied regions and ones that
  stick out of the RAM region on either side are all among the lists. On lists
  off the word grid, sorted or not, the code still loses no whole free word and
  `OutputFits` still holds; that blocks are *unoccupied* needs the word grid, and
  `free_unaligned` shows why.
- `sort`: the regions come in every order, with ties and nesting, and the RAM maps
  are empty, whole, split in two and in descending order. Elements too large for
  the key halt the machine before anything is handed out.
- `arena`: empty blocks, blocks that end at the top of memory, requests of zero
  bytes and of more than there is. No request of the run is so large that adding
  it to `used` wraps; see section 7.
- `console`: consoles on which no glyph fits are included. There every character
  goes to the top, and `TextGrid` says so.
- `boot`: `Hangs` also says that `QPrint` returns for the greeting on every
  framebuffer of the run, the one that is narrower than a glyph included.
  `GreetingIsPrinted` says that what is on the page and what is still to come are
  the greeting, or its end after a return to the top, on the screen and in reading
  order, and that with room for it (`HasRoom`) the whole greeting stands on the
  first line from the left edge, also when the machine hangs.
  `FontTellsApart` is about the 4096 constants and the index into them: every
  character on the page was read from inside the table, and so would be every 7-bit
  character, no two of which have the same rows. Below 128 the sign of `char` makes
  no difference to the index. It does not say that a reader can tell them apart on
  the screen: `console_glyph` shows how little of a row is drawn, and a glyph that
  never sets its leftmost bit, such as `!`, is drawn as nothing at all.
- `uart`: the run has the FIFO off and on, a byte left by the firmware, and
  overruns between the status read and the data access.
- `dtb`: `RegistersDecoded` compares with the number the cells spell, written down
  without the code's loop, for one and two cells; of serial ports those sizes that
  are less than 2^32, because `uart_port` has 32 bits for them (see section 7). A
  tree whose wanted devices are complete is always walked to its end;
  `StopsForWantedOnly` says which devices can stop it. Among them is
  `riscv,cpu-intc`, which has no `reg` in the bindings and so stops the walk.
- `nolibc`: the programs are those that `MCNolibc` lists, seven kinds of them; the
  run also evaluates `ProgramsAssumption`, that every one of them keeps the
  contract from which the theorems are proved. The copies are checked with all
  bytes different, so that a byte from
  the wrong place shows. `strtok` is called on a second string halfway through the
  first, and with NULL before any string and after the last token. Numbers are
  claimed to be read back where header and code agree on how they are written:
  without a binary prefix, and for the unsigned functions up to the largest value of
  their type. Section 7 says what the code does with the others.

Every property of every passing run is violated by at least one plausible fault
in a mapped definition; `PROJECT.json` lists them under `mutants`.

## 4. The bounds

| Run | Bounds | Why they are enough |
|---|---|---|
| `free` | `AddrLimit = 64`; aligned lists up to 40 with at most 3 sorted occupied regions; half-word lists up to 32 with at most 2, in any order; 1 to 3 RAM regions | The code looks at one occupied region at a time, and what it remembers of the others is `currentStart`. Three regions give a nested one, one after it and one that overlaps both; five words give a gap before, between and after. The proofs lift it to every length. |
| `arena` | `AddrLimit = 32`, blocks and requests up to 6 bytes | One to six allocations fill the block; 0 and more than the block are among the sizes. |
| `sort` | `AddrLimit = 64`, up to 4 regions with addresses 0, 8 and 24 and sizes 0 and 16; `elemSize` 256 and 257; 4 RAM maps | Four elements with three addresses have every pattern of ties and inversions that three consecutive keys can meet; 256 and 257 are the two sides of the check. With two sizes, regions at one address differ, overlap their neighbours, touch them and stick out of the RAM regions. |
| `console` | `U16Limit = 9`, messages up to 3 characters, 3 fonts, 56 framebuffers | The console keeps its cursor between calls, so texts are unbounded: the run explores every cursor position reachable. The framebuffers lie below, at and above 2^16 (here 9), so the cut to 16 bits happens. |
| `boot` | every subset of answered requests, 6 memory maps of at most 4 entries, offset 0 and 16, `MinArena = 8`, 0 to 2 framebuffers of 4 sizes, the real font and the real greeting; a device tree that is valid, broken, null or missing | Maps with the candidate first, last, absent, of exactly the smallest size and one byte less. 16 bits are 16 bits here; the framebuffers show the greeting on one line, over several lines and pages, in none (no glyph fits), and with a width that 16 bits cut to 0. |
| `uart` | `MaxBytes = 3` arriving and 3 written, FIFO of 1 and 2 bytes, three kinds of port | Three bytes overrun either FIFO with one to spare. |
| `dtb` | 16320 trees of 2 or 3 nodes, `CellLimit = 2`, `U8Limit = 2` | All pairs of cell widths that libfdt may report, -1 to 3 by -1 to 2; each property of a node present, short and missing. Nodes are independent but for the parent's cell widths and the order, and both two siblings and a child of a device occur. |
| `nolibc` | `MemSize = 32`; copies of 0 to 11 bytes between every pair of addresses 0 to 11; strings of up to 17 characters at 9 alignments; writers: strings of up to 2 and 3 characters, `n` up to 8, a `memset` of up to 15 bytes at 4 offsets; `strtok`: strings of up to 5 letters and commas and a second string, 3 sets of delimiters, 3 orders of calls; `LongLimit = 32` | 11 bytes are a head, a whole word (`wsize` 4) and a tail; 17 characters are a head, a whole word of 8 and a tail. `memset` distinguishes lengths up to 8 and the address modulo 4; five characters hold three tokens, or two with delimiters doubled and at both ends. With `LongLimit = 32` three digits lie below, at and above every limit in bases 8, 10 and 16, and six in base 2. |

`LongBit = 0` is the build in which no header defines `LONG_BIT`, `CharSigned =
TRUE` is x86_64. Two bounds are in guards and not in constants' sizes: the chip
brings in at most `MaxBytes` bytes, and `Returned` records at most as many.

## 5. Fairness

Three specifications assume weak fairness of *all* of a program's steps:
`FreeBlocks!FairSpec`, `KernelBoot!FairSpec` (of `Boot`) and `Nolibc!LibFairSpec`
(of `CopyStep`). It says that the one processor goes on executing the call it is in;
there is no scheduler, no interrupt is enabled and nothing else could run. In
`Uart16550A!FairSpec` the caller keeps polling, a call that has begun ends (the
same reason), and the transmitter moves bytes along, as the hardware does; nothing
is assumed of the line, so no byte need ever arrive. That specification is used
where the property fails, so the assumption makes the counterexample stronger:
even a caller that polls for ever never reads the byte. The other specifications
state no fairness and no liveness is claimed of them.

## 6. What is proved

The proofs are for every value of the constants, from the named assumptions of
the modules. They are: an address space of at least one word
(`AddrLimitAssumption`); arguments that are lists of blocks (`MemMapsAssumption`,
`ArraysAssumption`, `RamsAssumption`), arena blocks that do not reach past the
address space (`MemBlocksAssumption`), sizes and counts that are numbers; fonts of
at least one pixel (`FontsAssumption`, and for the boot `ConsoleAssumption`); bytes of the serial line that are told
apart (`BytesAssumption`); trees in which a node's parent stands before it and
properties have the types that libfdt gives them (`TreesAssumption`); for the
boot what the Limine protocol promises, with usable entries that meet no others
(`BootLoadersAssumption`); and for nolibc bytes that are ASCII characters
(`ByteAssumption`), a NULL that is no address (`PointerAssumption`), a `long` that
holds at least one number on either side of zero (`LongLimitAssumption`), and
programs that keep to the contracts of `string.h` and `stdlib.h`
(`ProgramsAssumption`). TLC evaluates all of these in the runs.

| Theorem | Statement |
|---|---|
| `FreeBlocks_proofs!TypeCorrect`, `FreeUnoccupied`, `FreeInRam`, `FreeDisjoint`, `FreeFits` | `Spec => []TypeOK`, `[]FreeIsUnoccupied`, `[]FreeIsRam`, `[]FreeIsDisjoint`, `[]OutputFits` |
| `FreeBlocks_proofs!Refinement` | `Spec => Map!Spec`, for arguments whose ends do not wrap |
| `FreeBlocks_proofs!Overhang` | `Spec => []OverhangsByLessThanAWord`: off the word grid, all but the last seven bytes of a block are RAM, unoccupied and its own |
| `FreeBlocks_proofs!StartsSuffice` | `Spec => []ExactFromAlignedStarts`: blocks are exact if RAM bases and occupied ends are on the grid |
| `LinearArena_proofs!TypeCorrect`, `AllocationsDisjoint`, `AllocationsInside`, `NothingLeaked` | `Spec => []TypeOK`, `[]LiveDisjoint`, `[]LiveInside`, `[]NothingLeaks` |
| `LinearArena_proofs!Refinement` | `SizesFit => (Spec => ImplementsAllocator)` |
| `LinearArena_proofs!HonestWithoutPremise` | `Spec => []HeldHonestly`: disjoint, inside and without a gap while nothing that is held has wrapped |
| `LinearArena_proofs!GrantsFitOrWrap` | `Spec => [][...]_vars`: what is granted fits, or its sum wrapped and moves `used` back |
| `InsertionSort_proofs!TypeCorrect`, `SortIsStable`, `SortSorts` | `Spec => []TypeOK`, `[]Stable`, `[]SortedAtReturn` |
| `InsertionSort_proofs!Refinement` | `Spec => ImplementsAdjacentSwaps` |
| `InsertionSort_proofs!MapExact` | `MapSpec => []MapIsExact` |
| `InsertionSort_proofs!MapBlocks` | `MapSpec => []MapBlocksApart`: the blocks of a sorted list, one by one, at any alignment, and how many |
| `FbConsole_proofs!TypeCorrect`, `ReadingOrder`, `OnScreen` | `Spec => []TypeOK`, `[]InReadingOrder`, `[]GlyphsOnScreen` |
| `FbConsole_proofs!Refinement` | `Spec => ImplementsTextGrid` |
| `FbConsole_proofs!EachPixelInItsCell` | `Spec => []PixelsInPlace`: nothing clipped, every pixel in its glyph's cell, no pixel of two glyphs |
| `FbConsole_proofs!GlyphsAreRows` | `Spec => []OnlyPlainRowsMatch`: a glyph is drawn as the font has it iff each of its rows is all set or all clear |
| `FbConsole_proofs!StoresMissTheFrame` | `Spec => []StoresFourTimesTooFar`: where each 32-bit pixel is stored |
| `KernelBoot_proofs!TypeCorrect`, `NullSafe`, `PrintsChecked`, `ArenaUsable`, `GreetingWhole` | `Spec => []TypeOK`, `[]NoNullDereference`, `[]PrintsOnlyWhenChecked`, `[]ArenaIsUsableMemory`, `[]GreetingIsPrinted` |
| `KernelBoot_proofs!GreetsOnAGrid` | `Spec => [](pc = "print" => Console!Grid!Init)` and, until `hcf` and in it, `[Console!Grid!Next]_(Console!Grid!vars)` for every step |
| `KernelBoot_proofs!FontReads` | `Spec => []ReadsTheTable`: `InTable(c) <=> c < charCount /\ ~(CharSigned /\ c >= 128)` for every font that is a table of blocks |
| `Uart16550A_proofs!TypeCorrect`, `InOrder`, `AllAccountedFor`, `RefusedNotSent` | `Spec => []TypeOK`, `[]DeliveredInOrder`, `[]NoneSwallowed`, `[]RefusedIsNotSent` |
| `Uart16550A_proofs!FallsSilent` | `Spec => [][Working /\ Silent => ...]_vars`: once silent, silent for ever, and a byte that waits stays |
| `Uart16550A_proofs!SilentFromTheStart` | `Spec /\ Working /\ tx = << >> => [](delivered = << >> /\ accepted = << >>)` |
| `DeviceTree_proofs!TypeCorrect`, `AllFoundOnce`, `RegistersRight`, `StopsRightly` | `Spec => []TypeOK`, `[]FoundAllOnce`, `[]RegistersDecoded`, `[]StopsForWantedOnly` |
| `DeviceTree_proofs!SizesCut` | `Spec => []PortSizesAreCut`: the size of a serial port is recorded modulo 2^32, hence right iff it is less |
| `Nolibc_proofs!TypeCorrect`, `WordAccessesAligned`, `SourceReadFirst`, `NoOtherByteWritten` | `Spec => []TypeOK`, `[]WordsAligned`, `[]SourceIntact`, `[]OthersUntouched` |
| `Nolibc_proofs!Refinement` | `Spec => Abstract!Init /\ [][Abstract!Move]_(Abstract!vars)` |
| `Nolibc_proofs!LibraryCopies` | `LibSpec => Spec`: the theorems on the copy hold of programs that ask something afterwards |
| `Nolibc_proofs!Searching`, `Finding`, `Writing`, `ReadingBack` | `LibSpec => []SearchesRight`, `[]TextsFound`, `[]StringsWritten`, `[]NumbersReadBack` |
| `Nolibc_proofs!Converting` | `LibSpec => []TextsConverted`: what the conversions return and where `endptr` points, also where the header says otherwise (`0b`, `ULONG_MAX`, `0x` without digits) |
| `Nolibc_proofs!MeasuredExactly` | `LibSpec => []MeasuresOrPasses`: `strlen` is right of exactly the `Measured` strings |
| `FreeBlocks_proofs!Terminates`, `Nolibc_proofs!CopyTerminates` | `Spec => [][StepsLeft' = StepsLeft - 1]_vars`, with a natural number `StepsLeft` that is 0 at the return only and that the arguments bound |
| `InsertionSort_proofs!Terminates`, `KernelBoot_proofs!BootTerminates` | the same with `StepsLeft' < StepsLeft` |

The arguments, by their inductive invariants (`IInv` unless named otherwise):

- **Free blocks.** Of the blocks emitted alone nothing can be shown; the step that
  emits needs to know where it is. `StartInRegion`: `currentStart` is on the word
  grid and not before the region. `LookedAt`: every occupied region already
  compared lies wholly before `currentStart` or wholly after the RAM region. This
  is where the sorting is used: a later occupied region starts no earlier, so a
  gap before it meets none of those still to come. `EmittedBehind`: every block
  emitted lies in a RAM region finished earlier or in the current one before
  `currentStart`; hence blocks are disjoint. `FitInv`, for `OutputFits`: each block
  emitted is charged to a slot of its own, a block that ends a RAM region to that
  region, a block that ends at an occupied region to that region, which is cut
  once only. `Covered`, for the refinement: the free words before `currentStart`
  have been handed out.
- **Free blocks off the grid.** `Core` is a block without the bytes that rounding may
  have added, none where every gap starts on the grid and seven otherwise
  (`RoundedGap`). `CoreInv` is the argument above for cores, with nothing assumed of
  the alignment: it is the cores that lie behind `currentStart`.
- **Arena.** All parts together: allocations inside below `used` make
  the next one disjoint, and no gap below `used` makes NULL honest. A free run of
  n bytes would have to lie above `used`, so the test that refuses has seen that
  there is none. The premise is about what is held (`NoneWraps`), so the invariant
  survives a request whose sum wraps and holds again after a reset; `SizesFit`
  only makes the premise true at all times (`FitsIsHonest`).
- **Sort.** `PrefixSorted`: outside the inner loop the first i-1 elements are in
  order; inside it so are the first i, the hole left out, and all behind the hole
  are greater than the key. A shift exchanges the key with its left neighbour in
  `Contents`, which composes the arrangement with a transposition
  (`SwapKeepsArrangement`); that is stability and the refinement at once.
- **Sort, then free blocks.** `MapInv` joins the two inductive invariants: until the
  sort returns the second function has not begun (`NotBegun`), afterwards the array
  is sorted and holds the caller's regions once each, which is all that the proof of
  `FreeBlocks` asks of its arguments. `BlocksInv` carries its invariants for cores
  and for the size of the output over in the same way.
- **Console.** Every glyph on the page lies above the cursor's line, or on it and
  left of the cursor, and ends where the break tests allow; `NoU16Wrap` shows from
  `TypeOK` that no sum reaches 2^16. For the refinement, `Aligned`: the cursor is at
  a multiple of the glyph's size, so that a test `i * size + size >= limit` is one
  on the number of cells (`CellsCount`), zero of them included. Pixels add nothing to
  the state: a glyph inside the screen asks for the pixels of its box alone
  (`PixelsAre`), and the boxes of two glyphs in reading order are disjoint
  (`PixelsApart`).
- **Boot.** `CheckedInv`: what each control point may take as checked. `ArenaInv`:
  until the loop ends the entries passed are no candidates. `DirectMap` shows that
  adding the direct map's offset modulo 2^64 can be undone. `PrintInv`: the
  characters on the page followed by the rest of the string are the greeting, or
  its end after a return to the top; `FirstLine`, where there is room: the page is
  one line and the cursor behind it. The console is not proved about again:
  `FbConsole_proofs` is instantiated over the variables of the boot, `OnConsole` says
  that from its set-up on they satisfy the console's invariant, and `ConsoleSteps`
  that the steps of `QPrint` here are the console's. `FontReads` is arithmetic on
  blocks that do not overlap (`BlocksApart`).
- **Serial port.** `StillReady`: between the status and the data only the call itself
  takes a byte out, so a status of "ready" stays true, though the byte may have
  become another. What was read followed by what waits is increasing and within
  what arrived. `WriteInv`: what was sent, is being sent and waits, in this order,
  are the accepted bytes and the firmware's, in the order of the calls. With an empty
  transmitter the line status holds two bits more than the one the driver compares
  it with, so no status that is read is `Ready` (`EmptyIsNotReady`), no call writes,
  and the transmitter stays empty (`SilentStep`).
- **Device tree.** `HalfWay`: what has been found are the wanted devices among the
  nodes passed, once each and all of them complete; where the walk has stopped, it
  stands at a wanted device that lacks something. `RegistersCut`: each record has the
  numbers that its register spells, a serial port's size modulo 2^32; the claims on
  smaller sizes and on all of them follow.
- **memcpy.** `HalfWay`: memory is what it was but for the copied part, which holds
  its final bytes. `PointersInStep`: the pointers stand where that part ends.
  `AlignedAfterBytes`: if a word is left after the single bytes, both pointers will
  then be at a boundary. From `HalfWay` follow the untouched bytes and the intact
  source (upwards the copied part lies below what is still to be read, downwards
  above), and with nothing left to copy, that memory is `Moved(asked)`.
- **Loops of nolibc.** Everything computed by a loop rests on `LoopEnds` and
  `LoopEndIs`: the loop ends at a stop, and passes none before. No induction
  theorem of the library can be cited for it, because they take the induction
  hypothesis as an operator. Instead the recursive function is shown to exist
  (`WalkExists` gives its value at every address), and what it computes follows from
  the least counterexample, which `Smallest` provides for every set of natural
  numbers. The same two steps give the other recursive functions: `Tokens`
  (`CallsExist`), the loop over digits (`LoopExists`) and `Spelt` (`ValuesExist`).
- **Asking about the block.** `LibInv` joins the copy's invariant with what the
  question asks: an answer is one about the memory that the copy has left. By
  `DoneIsMoved` that memory holds the block at its new place (`BlockMoved`), so a
  text of the caller is a text there (`MovedText`).
- **Searches.** `StrlenIs`: the loop up to a word boundary and the loop over tested
  bytes end at the terminator if it is `Measured`; otherwise the second loop passes it
  and ends later (`StrlenPasses`). `WordsPassed`: every word passed
  by a wordwise loop contains no hit. With these the seams between the loops of
  `memchr` and `strchrnul` close (`MemchrFinds`, `StrchrnulFinds`). A comparison
  ends at the first difference or within equal strings (`StrncmpDiffers`,
  `StrncmpSame`). That `strnstr` may stop early is `StrnstrIs`: where the pattern
  no longer fits, none of the later places can be an answer.
- **Writers.** `AllAreSet`: the pairs at both ends of `memset` and the words between
  cover every byte of every length and no other. `MemcpyIs` and `MemsetIs` then
  compose as the functions do.
- **`strtok`.** `AfterCalls` holds after any number of calls, and the next call keeps
  it (`CallKeeps`): memory outside the strings started so far is untouched, so that
  the delimiters are what they were; of the string last started, the rest from the
  place that the static variable holds is untouched, begins with the string or behind
  a delimiter, and has as many parts before it as calls were made on this string; or
  the variable is NULL and there are no more parts than calls.
  `StrtokCuts` says what one call does with such a rest, `TokenIsPart` that its
  token is the part of the next number.
- **Numbers.** `Counted`: after k digits either `acc` is the value of the first k, or
  `any` is negative and that value is beyond the limit. What makes it inductive is
  `CutoffTells`: comparing `acc` with `cutoff` and the digit with `cutlim` says
  exactly whether the next value is, for either limit of `strtoll` too
  (`DownLimits`), and a value beyond the limit stays beyond it. `PrefixFound`,
  `BaseFound` and `DigitsFound` show that the loops stop where `Spells` says that
  the parts of the text end. `TextsConverted` is what the code does with every text
  asked for; `NumbersReadBack` is the part of it that `stdlib.h` promises.
- **Termination.** `StepsLeft` is how many steps the loops still take, or a bound on
  it, as an expression in the loop counters. Every step makes it smaller
  (`StepCounts`) and it is 0 only where the program has finished (`StepsRemain`),
  so that no loop runs for ever or starts again, and there is no step after the
  last. That the program does not stop before is left to fairness, and so to the runs.

`SourceIntact` and `OthersUntouched` (no source byte is overwritten before it is
read, no byte outside the destination changes at any moment) and `NothingLeaks`
(everything below `used` is somebody's) are proved and in no run: for the first two
`ImplementsBlockMove` shows the same at the end of a copy, for the third
`ImplementsAllocator` at every call.

Only model-checked:

- `FontTellsApart`: it is a fact about the 4096 constants of `font.c`, and false of
  other values of the constant `Fonts`. The run evaluates it for all of them. What
  holds of every table of blocks, which characters are read from inside it, is
  `FontReads`;
- liveness (`Hangs`, the return in `ImplementsFreeMap` and in
  `ImplementsBlockMove`): fairness and ENABLED are beyond the prover. The safety
  parts of both refinements are proved, and that no more than `StepsLeft` steps are
  taken.

## 7. Where the code disagrees with its own text

Four runs expect a violation; each is listed with its quotation under `findings`. The
disagreements that have no run follow below.

| Run | What it shows |
|---|---|
| `free_unaligned` | `memory.c:39` rounds the start of a gap up to a word and `memory.c:35` keeps the size from before. RAM [4, 32) with [12, 16) occupied yields the "free" block [8, 16). |
| `console_store` | `main.c:129` indexes a pointer to 32-bit pixels with a byte offset: a pixel inside the frame is stored at four times its offset, past the end of the framebuffer for three quarters of the screen. |
| `console_glyph` | `main.c:182` makes its copy of the glyph row anew for every column, so the shift in `main.c:187` is lost and a row is drawn whole or not at all. |
| `uart_poll` | `uart.c:107` compares the whole line status with 0x01. Once the transmitter is idle the register reads 0x61, and a byte that has arrived is never read. |

A run shows one instance; what it is an instance of is proved. Rounding puts at most
seven bytes of a block where they do not belong, and none if RAM regions start and
occupied ones end on the word grid (`Overhang`, `StartsSuffice`). Each 32-bit pixel is
indexed at a place of its own inside the frame and stored four times as far from its
start: inside from the top quarter, behind the end from the rest
(`StoresMissTheFrame`). The glyphs drawn right are those whose rows are all set or
all clear, and no others (`GlyphsAreRows`). And once the transmitter is empty between
two calls the serial port is silent for good: no byte is read or written any more,
and if the firmware left it empty, none ever was (`FallsSilent`,
`SilentFromTheStart`).

Some texts are contradicted without a run of their own. The model has the code's
behaviour, the run's property is stated where code and text agree, and a theorem says
what the code does everywhere:

| Place | Text | Code | Theorem |
|---|---|---|---|
| `dtb_parse.c:178` | `uart.h:16`, "Size of the entire MMIO region" | a size of two cells is computed in 64 bits and stored in 32 | `SizesCut` |
| `strtoul.c:157`, `strtoull.c` | `stdlib.h:291` and `380`: out of range, "LONG_MAX, LONG_MIN, LLONG_MAX or LLONG_MIN is returned" | `ULONG_MAX`, `ULLONG_MAX` | `Converting` |
| `strtol.c:127`, `strtoul.c` | `stdlib.h:221` and `266`: the prefixes are `0` and `0x`; `strtol.c:103` has no other either | `0b` and `0B` are a prefix in bases 0 and 2 | `Converting` |
| `strtol.c:91` and `195`, and the other three | `stdlib.h:249`: "setting errno to ERANGE" | `errno` is never set; the assignments are comments | not modelled: there is no `errno` |

Where a premise is needed to state a property at all, the model has the behaviour
and the property says where it stops. The first three of these break a header's
promise too (`memory.h:31`, NULL when no space is left; `string.h:116`, the length up to
the terminator; `stdlib.h:228`, the letters as digits):

- `linear_arena.c:16`: `used + sizeInBytes` wraps for a request near 2^64, which is
  then granted over memory in use. The properties of `LinearArena` but `TypeOK`
  assume `SizesFit`; `TypeOK` is proved without. `HonestWithoutPremise` needs no
  assumption on requests: what is spoilt is spoilt by a held allocation that wrapped,
  until the next reset; `GrantsFitOrWrap` says that such a grant always moves the
  pointer back.
- `strlen.c:106`: bytes 4 to 7 of a word are tested if `LONG_BIT >= 64` only. Where
  no header defines the macro, a string that ends in such a byte is measured to a
  later zero. `SearchesRight` asks for `Measured` strings, and `MeasuredExactly` shows
  that these are all the strings measured right.
- `strtoull.c:108` and `:112`: letters become `c - 'A' - 10` where the other three
  functions add 10. `NumbersReadBack` asks `strtoull` for texts in which
  no letter stands for a digit or directly behind the digits.
- A prefix `0x` with no hexadecimal digit behind it converts nothing, not even its
  zero: 0 is returned, as of the zero, and `endptr` is the start of the text.
  `NumbersReadBack` claims the value there and not `endptr`; `Converting` has both.
- `RegistersDecoded` is about cells that `reg` holds and widths of up to two: three
  and four cells are read as one.

## 8. What is not modelled

- `strtold`: it calls a `strtod` that the library does not have. `strcoll` is a call
  of `strcmp` and has no definition of its own.
- `PackPixel` and `qk_ppm_t` have no caller. Characters outside the font are not
  printed by the kernel's one message.
- The header files of nolibc declare and document; of their macros and character
  classes those with a caller are operators of `CNumbers`.
- The x86_64 variants: `hcf` is the same loop with other instructions,
  `PutCharSerial` is one instruction without a caller.
- The build, the linker scripts and the boot menu.
- libfdt, Limine and the compiler's runtime are git submodules which the
  repository does not contain. `DeviceTree` and `KernelBoot` model what the kernel
  sees of the first two, `Uart16550A` what it sees of the chip; the `map` marks
  those definitions external.
- Nothing in the repository hands the device tree's serial port to the driver, or
  a block of the free list to an allocator; the models of those parts stay apart.
- Nine places are listed as hazards without a property, each with a note. Section 7
  has five: `linear_arena.c:16`, `strlen.c:106`, `strtoull.c:108`, `dtb_parse.c:178`
  and `dtb_parse.c:66`. The others are: `main.c:170`, going back to the top clears
  nothing (the comment `//scroll` stands for it), so old glyphs shine through;
  unfinished by its own word. `uart.c:48`, a register width other than 1, 2, 4 or 8
  leaves the value read undefined. `uart.c:105`, reading the status clears the overrun
  bit, and the loss of bytes is reported by no call. `uart.c:129`, a write tests the
  receiver's bit and not the transmitter's, so the chip may drop a byte that was
  accepted. The models have the behaviour of all but the first, and the properties
  around them say where they stop.
- Within what is modelled: the colour of pixels, what was on the screen before, and
  bytes above 127 in strings (their sign differs between the architectures).

## 9. Plan

The order, most important behaviour first. All items are done but the last.

| # | Module | Composes | Abstract specification | Proofs |
|---|---|---|---|---|
| 1 | `FreeBlocks` | `MemBlock` | `FreeMap` | type, safety, refinement |
| 2 | `LinearArena` | `MemBlock` | `BlockAllocator` | type, safety, refinement |
| 3 | `InsertionSort` | `MemBlock` | `AdjacentSwaps` | type, safety, refinement |
| 4 | `FbConsole`, later `Font8x16` | | `TextGrid` | type, safety, refinement; what glyphs and stores look like |
| 5 | `KernelBoot` | `FbConsole`, `MemBlock` | `TextGrid`, for the console it prints on | type, safety, refinement of the console, reads of the font |
| 6 | `Uart16550A` | the chip | | type, safety, silence |
| 7 | `DeviceTree` | libfdt | | type, safety |
| 8 | `MemCopy`, `CStrings`, `CNumbers`, `Nolibc` | each other | `BlockMove` | type, safety, refinement of `MemCopy`; what the functions answer |
| 9 | `CWriters` (`strcpy`, `strncpy`, `strcat`, `strncat`, `memset`), `strcmp` and `strcspn` in `CStrings` | `CStrings`, `Nolibc` | `BlockMove` for the copies in them | what the functions write and answer |
| 10 | `strtok` with its static pointer, over several calls and two strings | `CWriters`, `Nolibc` | | every sequence of calls |
| 11 | `MemoryMap`: sort, then free-block computation | `InsertionSort`, `FreeBlocks` | | from the invariants of both: words, blocks, size of the output |
| 12 | the device tree's port handed to the serial driver: once a function of the kernel does it | `DeviceTree`, `Uart16550A` | | |

Every safety property of the runs but `FontTellsApart` is proved, and so is how far
each of the four disagreements that have a run reaches. Of the liveness
properties what can be proved without fairness is: the loops of `FreeBlocks`,
`InsertionSort`, `MemCopy` and `KernelBoot` have a measure that every step makes
smaller. The rest waits for a prover that takes fairness and ENABLED.

## 10. Running it

In this directory, with the TLA+ tools and the community modules at hand:

```
tlasany FreeBlocks.tla                       # parse
tlc -workers 2 -config free.cfg MCFreeBlocks # one run; PROJECT.json pairs modules and configurations
tlapm FreeBlocks_proofs.tla                  # one module's proofs
```

The longest run is `nolibc`, about two minutes; the longest proofs are
`Nolibc_proofs`, about eight.
