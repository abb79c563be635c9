# FOOS in TLA+

A verification development for FOOS, a small 32-bit x86 kernel: TLA+ modules
translated from its C source, TLC configurations that check them on small
instances, and TLAPS proofs of the main invariants for every value of the
constants.

## The system

FOOS is one kernel thread plus interrupt handlers on one processor. Handlers
are entered through interrupt gates, so they run with interrupts off, do not
nest, and look atomic to the thread (shown in `TtyDevice`, used by every other
module). The thread can be interrupted between any
two memory accesses from `int_enable()` in `kernel_main()` on. Nothing in the
kernel is locked; nothing is persisted. The build uses no optimisation, so
every access in the source is an access in memory, busy-waits re-read their
flag, and clearing a bit-field is a load, a change and a store.

| Component | State | Operations | Interacts with |
|---|---|---|---|
| Kernel heap (`kernel/kmalloc.c`) | list of blocks with inline headers from `HEAP_BASE` | `kmalloc`, `kmalloca`, `kfree`; inside: `lookup`, `split`, `merge` | called by every other part, from the thread only |
| Paging (`kernel/vmem.c`, `kernel/pmem.c`) | frame bitmap, page directory, tables | `pmem_init`, `vmem_init`, `vmem_get`, `pmem_map`, `pmem_mapaddr`, `pmem_get_free`, `pmem_set`, `pmem_clear` | takes the directory and the tables from the heap |
| Interval timer (`kernel/dev/pit.c`) | `busy`, `ticks` | `pit_delay` in the thread, `pit_irq` on IRQ0 | used by ACPI |
| ACPI (`kernel/acpi.c`) | register ports, sleep types, `no_shutdown` | `acpi_init` (`acpi_enable`, `acpi_shutdown_init`), `acpi_shutdown` | firmware tables, hardware, timer |
| Terminal input (`kernel/dev/tty.c`) | `struct tty`: line buffer, two pointers, a byte of bit-fields | `kbd_irq` on IRQ1, `tty_read`, `tty_readchar` | echoes to the screen; read by the shell through `gets` |
| Terminal output (`kernel/dev/tty.c`) | screen memory, index and data port of the cursor | `tty_writechar`, `tty_clear`, cursor calls | called by the thread and by `kbd_irq` |
| Device table (`kernel/dev/device.c`, `ramdisk.c`) | offset and data pointer per device | `dev_open`, `dev_close`, `dev_read`, `dev_write`, `dev_seek`, `dev_ioctl` | terminal, RAM disk, heap |
| File system (`libfs/`) | inode tables | `ramfs_init`, `devfs_init`, `fs_lookup`, `fs_read`, ... | device table, heap |
| Shell (`kernel/shell.c`) | the kernel buffer `buf` | one command per line | terminal, file system, heap |
| Interrupt dispatch (`kernel/interrupt.c`, `asm.S`, `dev/pic.c`) | gates, handler table, masks | `int_init`, `int_hook_handler`, `irq_enable`, `irq_disable`, `irq_handler` | every handler; opening and closing the terminal |
| Serial log (`kernel/dev/serial.c`) | `serial_enabled`, the chip's queue | `serial_init`, `serial_printf`, `serial_print`, `serial_send` | the thread and `kbd_irq`; `vsprintf` |
| C library (`libc/`) | `strtok`'s static pointer | `vsprintf`, the number conversions, `memmem`, `strtok` | serial log, shell, ACPI, file system |
| Floppy and PCI probes, boot loader | none that the above depend on | | |

What is hard in it: a handler between two stores of the thread (timer, line
buffer, bit-fields, cursor ports, serial port, opening and closing the
terminal); long call sequences that leave a linked list wrong (heap); steps that must agree without saying so (the paging loop and the
frame allocator); limits that nothing checks (line length, heap size, frames);
hardware that may not answer (ACPI). `PROJECT.json` lists each hazard at its
line.

## Modules

### `HeapSpec`, `KHeap`, `KHeapProofs`, `MCHeap`

`HeapSpec` is the promise made to callers: a request gets bytes nobody else
has, or NULL, and freeing one allocation leaves the others alone.

`KHeap` is `kmalloc.c`. `hdr` maps addresses to the headers memory holds, those
of the list (`list`) and dead ones that `merge()` took out of it, because
`kfree()` can still reach them. `merge`, `split`, `HandOut` and `Extend` are the
C functions as operators on `hdr`. `lookup()` is tail recursive and one
`Lookup...` action is one of its levels; `req` holds its arguments. `live` is
what clients hold, `dirty` what they ever wrote, `stray` records stores of the
allocator outside its headers: `"null"` (through a NULL `next`), `"data"` (a
header inside a client's data), `"wild"` (links read from memory that is no
header any more). After the last two the program's behaviour is undefined and
the model stops.

The code is only correct for some call sequences. With `Careful = TRUE` the
client makes an aligned request only once the first block is in use and there
is room for a header before the next multiple, and does not free a block
between two free ones. With `Careful = FALSE` any order is allowed.

### `KernelHeap`, `MCKernelHeap`

The kernel as the heap's only client, with the real addresses and sizes: the
boot sequence `Boot`, then the shell's temporary allocations in any number and
order, then the shutdown. It extends `KHeap` with `Careful = FALSE`; that the
kernel is careful is a property it checks. It assumes that `HeapBase` is a
multiple of the page size, as `HEAP_BASE` (kmalloc.h:4) is, and that one of the
shell's requests is the largest (a path as long as the line buffer). Its proofs
are the second half of `KHeapProofs`.

### `Paging`, `PagingProofs`, `MCPaging`

`vmem.c` and `pmem.c` on page numbers. `dir` is the directory, `mem` the entries
stored in the heap's pages, `taken` the pages `kmalloca()` has handed out.
Entries are only changed with `|=`, so an entry's address is the set of its
bits. Each pass of `vmem_init()`'s loop is a step. After `vmem_enable` callers
map any page of `Clients`, mapped or not and as often as they like (`Map`), to a
frame they name or, with NULL, to the one `pmem_get_free()` finds, and set and
clear bits of the bitmap. (No part of the kernel does so yet; these are the
calls `memory.h` declares.) `vmem_get()` does not clear a new table. At boot it
reads as zero because nothing is freed before `vmem_init()`; afterwards `Reuse`
lets the heap's other users leave entries of `Stale` in any page that is not a
table. `owner` is a history variable: for each frame the pages it was obtained
for and has not been given back for since.

Assumed of the constants: callers do not map the heap's pages again, through
which the tables themselves are reached, and the frames they name have a bit in
the bitmap, which nothing in `pmem_set()` and `pmem_clear()` checks
(`ClientsAssumption`); and the heap lies in the memory that is mapped at boot
(`HeapAssumption`).

### `Pit`

`pit_delay()` as four steps, one for each access to shared memory, interleaved
with `pit_irq`. `irqs` counts the interrupts during a wait, `cut` notes one that
fell between the two stores and ended the wait before it began.

### `Acpi`, `AcpiProofs`, `MCAcpi`

Extends `Pit`: `acpi_enable()`'s loop calls `pit_delay()`, and the timer runs
beside it. The firmware's tables are an arbitrary record, the hardware sets the
enable bit at any time or never. `checksum_valid()` reads an uninitialised
variable, so both verdicts are possible. The bytes searched for `_S5_` are
arbitrary and of every length up to a bound; one step is one turn of
`acpi_search_s5()`'s loop, with `from` for its moving `aml` pointer and `memmem()`
as an operator. `Patterns` is the reference, the places where one of the two
patterns of the comment on line 75 lies. The length searched is the DSDT's, counted from
behind its header (line 104), so the area may end with bytes that are not the
DSDT's. The path runs to `acpi_shutdown()`, which `kernel_main()` calls
whatever `acpi_init()` answered.

### `TtyInput`, `TtyProofs`

`kbd_irq()`, one action per kind of key, against `tty_read()`, one step per
access. One letter key stands for all printing keys. Each behaviour has one of
two users: with `ahead = 0` a patient one, who types only while a read waits,
whose lines fit and who keeps to the keys of the two tables; with `ahead = 1`
one who types anything, at any time and as much as they like. `echo` is what the
patient user's keys put on the current screen line, `shown` what that line was
when Enter was pressed: the reference for what the shell gets. `_decode()` does
not compare the scancode with the length of its table; for function keys and
most of the keypad `BehindTable` stores an arbitrary character, as what lies
behind the table depends on the link. When the buffer is full, the terminating zero lands on the lowest
byte of `bufptr`, which follows `buf` in the packed struct; `Wrap` is where the
pointer then points (461 for the address the kernel's heap gives the struct,
`0x400C30`).

### `Terminal`, `Screen`, `ScreenProofs`

`Terminal` is the promise made to those who print: rows and columns, a
position, the request being carried out (`ask`) and the letters typed so far
(`line`). When a request returns, it has had the effect of what was asked:
`Wrote(c)` says for each character what that is, `Move` belongs to TTY_SETCSR
alone and leads where it was told, `Clear` to TTY_CLEAR. A key has its effect
when it is pressed and is added to the line, taken back from it or ends it. A
key that meets a request leaves a text of which nothing is promised until the
screen is cleared.

`Screen` is `tty_writechar()` with the calls around the cursor: cells, two byte
registers behind an index and a data port, offsets as 16-bit words. Each port
access of the thread and each cell of its loops is a step, and `kbd_irq()` with
its whole echo may come between any two of them; it leaves the index port where
its own last access put it, so that the thread then reads or writes the other
register. `old` is what the screen showed when the call began, `hit` whether an
echo fell into it. `Request` is `ask` in the mapping to `Terminal`: the call the
thread is in, with its character or position. The two users are those of
`TtyInput`, with the keys of the tables only. Colours are left out.

### `Interrupts`, `TtyDevice`, `TtyDeviceProofs`

`Interrupts` is the way of an interrupt: the two controllers (masks, requests,
lines in service, priorities; external), the processor's flag and the gates of
`idt_hook()`, the stub, and `irq_handler()`, which sends the end of interrupt
before it calls the handler. `TtyDevice` runs `kernel_main()` from `int_init()`
to `int_enable()` on it, one step per store an interrupt can fall before, and
then any sequence of opening, printing and closing, while other code allocates
and frees. Closing a closed terminal is `CloseClosed`: `kfree(NULL)` fails its
assertion, and the thread spins in `__assert_func()` for ever, with interrupts
on. What the BIOS left masked and requested is arbitrary, but for the
timer, which it uses itself. `owner` says who holds each piece of heap a
`struct tty` fits in. `fs_close()` of any device's inode is `Close` of the
terminal, because it passes `node->ino`, which is 0 for all of them.

### `Conv`, `Serial`, `SerialProofs`, `MCSerial`

`Conv` has the number conversions as functions on ints from `-Half` to
`Half - 1` (`Half` is 2^31 in the code), with C's division, negation and
wrap-around; `Numeral` is the reference. `Serial`
has `vsprintf()`, one step per directive, with a format and arguments chosen
freely from `Pieces`, then `serial_print()` and `serial_send()`, with the test
of the line status and the store as two steps, in the thread and in `kbd_irq()`
at once. The chip (external) takes in one character, or sixteen once
`serial_init()` has switched its queue on. Assumed of the constants: the queue
holds at least two (`FifoAssumption`; the 16550A's holds sixteen), a character
of the format that is not part of a directive is no percent sign, and `%s` is
given a string or NULL (`PiecesAssumption`; anything else is undefined
behaviour of the caller, and `kernel/` has none).

### `Devices`, `StrTok`, `Vfs`, `Shell`, `ShellProofs`, `MCShell`

Four layers, each extending the one below. `Devices` has the device table's
offsets and data pointers and the RAM disk; a byte of the RAM disk is
represented by its address, a piece of heap by its owner's name (`alive`).
`StrTok` is `strtok()`, one action per turn of its loops, with its static
pointer `old`; `Tokens` is the reference. `Vfs` has the inode tables that
`ramfs_init()` and `devfs_init()` build, `fs_finddir()`, `fs_readdir()`,
`ramfs_read()` and `fs_lookup()`; `Resolve` says from the disk's headers what a
path means. `Shell` runs `kernel_main()` from opening the devices, the command
loop, and the halt. The buffer `buf`, which the shell uses for the line and for
file contents, is modelled cell by cell: zero, typed, or a byte of the disk.
`CHECK_DIR` is translated as C parses it (`flags & (0x7 != FS_DIR)`).
Assumed of the constants: file and device names are not empty, contain no
delimiter and differ (`DiskAssumption`), and files and lines fit in the buffer
(`BufSizeAssumption`).

## Runs

| Run | Shows |
|---|---|
| `heap_careful` | for a careful client: list intact (`Tiling`, `BackLinks`), coalesced, used blocks are held blocks, own stores in headers, refinement of `HeapSpec`, every request answered |
| `kernel_heap` | the kernel's calls are careful, the heap stops growing, boot data is kept |
| `acpi` | with the timer interrupting anywhere: thread and handler agree on the count, `acpi_init()` ends, the hardware gets its time, `_S5_` is found where it first is, power-off only with collected values |
| `paging` | identity map at boot, kept for all pages that are not mapped again; no frame but frame 0 is obtained for two pages; a frame obtained is set and its page has all the bits of its address; a call unmaps nothing and changes the entry of one mapped page at most |
| `tty` | patient user: the line returned is the line shown, Enter and shift are not undone; any user: pointers and copies in bounds, reads end |
| `screen` | `Screen` implements `Terminal`; patient user: stores and cursor on the screen, the line in the buffer is the one before the cursor; any user: the next undisturbed character brings the cursor back to the screen |
| `tty_device` | handlers do not nest, no line is held back for ever, an unmasked timer or keyboard request reaches its handler, `kbd_irq()` always has a structure that is set up and not somebody else's |
| `serial` | `vsprintf()` writes what the format asks for, and no character of the log is lost to the handler's own logging |
| `shell` | paths resolve as the disk's headers say, files and directories are shown in full whatever was read before, `strtok()` stays in its string, nothing leaks, every command ends |

What three of these rest on is worth saying. `LogComplete` holds only because
`serial_init()` switches on the queue whose comment says "I do not understand
what this does": the thread's store after an interrupted test finds one
character in the chip. `KbdHasTty` holds after a close only because a later
open does not unmask the keyboard again (`init` stays 1): the terminal is then
deaf, but the handler never meets freed memory that has gone to somebody else.
And `OneHandler` rests on the gate's type alone, since the controller has been
told that the interrupt is over before the handler runs.

Three runs are expected to be violated. Each states a sentence of a comment
that the code does not keep:

| Run | Statement | What happens |
|---|---|---|
| `kernel_heap_border` | kmalloc.c:12, no access across the border | the kernel's own frees store to address 8 |
| `pit_ticks` | pit.h:32, waits for the ticks | an interrupt between the two stores ends the wait at once |
| `tty_enter` | tty.c:252, Enter finishes the read | an Enter while flush is cleared is lost |

Other differences between text and code seen while modelling, which the models
contain unless noted but no run is spent on:

- kmalloc.c:124: freeing a block between two free ones merges through a header
  that has left the list, and the block behind gets a wrong `prev` link
  (`Careful` excludes it; the kernel never does it, `KernelIsCareful`).
- kmalloc.c:10 and 8: recycled memory is not zeroed, and the last block is never
  split. An aligned request can put its header into the last block's data.
- shell.c:159: "print out the contents of a file"; of a file shorter than the
  command line, `cat` prints the rest of the line behind it (`FileShown` has the
  condition).
- acpi.c:104: the search area is 36 bytes longer than the AML; acpi.c:20: the
  checksum starts from an uninitialised sum.
- pmem.c:61: with no frame free, `pmem_map()` maps frame 0 again
  (`FramesShared` excepts it).
- pmem.c:42: mapping a mapped page mixes the two addresses, and entries left in
  the memory of a new table are mappings nobody asked for (`FramesAreMapped` and
  `MappingsKept` hold all the same; no other mapped page changes).
- tty.c:289: a shift event between load and store of the `kbd` byte is undone.
- tty.c:200: scancodes from 59 on read behind `scancode_set`; what is found there
  may be a control character, which the screen obeys and the line contains.
- tty.c:63: printing on a closed terminal stores the cursor into the freed
  structure, through `CHECK_TTY`; main.c:104 keeps it open for that reason.
- conv.c:31: `itoa()` of the smallest int, which has no negative, writes other
  characters than digits (`FormatsAsAsked` excepts it).
- printf.c:89: `vprintf()` has 512 bytes, and shell.c:215 prints a line of up to
  511 characters with more text behind it (not modelled).

### Bounds

- `heap_careful`: sizes 0 (refused), 5 (rounded to 8) and 40
  (leaves a rest worth splitting), alignments 1 and 32, four live allocations,
  no request once a block ends above `HeapTop`. Four blocks are what it takes to
  have a free block on both sides of one that is freed, and one behind.
- `kernel_heap`: the build's values; temporary sizes from 2 to 509 cover the
  shell's paths. The heap's state repeats, so the run is exhaustive for shells
  of any length.
- `paging`: 5 pages, tables of 3, a directory of 3: the loop crosses a table
  boundary; page 0, which vmem_init() mapped, is mapped again, and page 6 needs a
  new table, from memory that may hold an entry; frames 1 and 2 are named, set
  and cleared, so that a chosen frame can be one given back or, with none free,
  frame 0; four heap pages in any order.
- `acpi`: 3 retries of 2 ticks instead of 300 of 10; the loop does not depend on
  the numbers, and `AcpiProofs` has its invariant for all of them. The name
  searched for is two equal bytes, which like `_S5_` can overlap itself by one;
  areas of every content up to six bytes hold a rejected name and a pattern
  behind it. `pit_ticks`: delays 0, 1, 2, 3 and 10.
- `tty`, `tty_enter`: a buffer of 3; the patient user's lines fit, the other's
  are of any length.
- `screen`: 2 rows of 3 cells, so that every call is near an edge; registers of
  three values, so that the position needs both; three calls of the thread, and
  two keys of the impatient user (the patient one's are bounded by the line
  alone).
- `tty_device`: timer, keyboard and one line of the slave without handler; two
  places in the heap, so that one can go to somebody else and the other be the
  next terminal. Sequences are of any length.
- `serial`: ints of nine bits, the numbers at which a digit is gained and both
  ends of the range, all formats of up to two pieces, two keys, a queue of two.
- `shell`: three files (one named like a device and empty, one that begins like
  `dev` and is shorter than its line), all paths of up to three characters and
  some longer ones. The state that commands leave behind (offsets, `old`, the
  scanned string) repeats, so sequences of commands of any length are covered.

Runs with `CHECK_DEADLOCK FALSE` model systems that may stop: a client that
asks for nothing more, or a machine that is switched off.

### Fairness

- `LookupReturns`: weak fairness of `lookup()`'s levels; the thread runs and is
  not preempted by other threads.
- `InitReturns`: weak fairness of the thread and of IRQ0, which `pit_init()`
  programs as a periodic interrupt; none of the hardware's answer.
- `LinesServed`: weak fairness of the handler's steps, and strong fairness of
  taking a request that gets through again and again: the thread never runs
  with interrupts off after `int_enable()`, and a device does not ask again
  while its own handler runs. Nothing is claimed of lines other than the timer's
  and the keyboard's, nor of the thread.
- `ReadEnds`: weak fairness of `tty_read()`; none of the keyboard.
- `CommandEnds`: weak fairness of the thread; nobody has to type a line.

## Proofs

Everything below is for all values of the constants under the named
assumptions of the modules; the proofs are inductive.

- `KHeapProofs` (under `Careful`): types, `HeapListIntact` (tiling, back links,
  coalescing), `HeapUsedIsHeld`, `HeapStoresInHeaders`, `HeapLiveApart`,
  `HeapAnswerAligned` and `HeapImplementsSpec`. None of these is inductive alone: `merge()` keeps the
  tiling only if next and prev agree, the agreement needs to know where
  `lookup()` stands in the list, and what clients hold is needed to know what a
  header may overwrite. `HeapInv` is their conjunction with these facts. The
  lemmas `Struct...` say what each C function does to the list, and each action
  is proved from them.
- `KHeapProofs`, the kernel (no assumption about `Careful`): `KernelIsCareful`,
  `BootDataKept` and `HeapStopsGrowing` for every number of files and every set of
  sizes, and `KernelHeapIntact`: what is shown of careful clients holds for the
  kernel. `KInv` is `HeapInv` with what the kernel holds (`Pointers`), what
  `lookup()` is looking for and has passed (`Asked`), that no block of booting is
  free (`Below`), where the blocks lie while page tables are still to come
  (`Layout`: before the first there is room for a header below the next page, and
  each ends where a page ends), and the three forms of what lies behind booting's
  blocks (`Above`): nothing, one block, or a block in use behind a free one that
  was too small. `kfree()` turns the third into the second, which is why the heap
  stops growing; the free block is never split because it is the last.
- `AcpiProofs`, the timer: `CountExact` and `NeverBusy`, with types. The
  strengthening `Holder` says who holds the timer at each point of `pit_delay()`.
- `AcpiProofs`, acpi.c: `TimeGiven` for every number of retries and ticks, and
  `CountExact` where `acpi_enable()` is the caller. `AInv` is the timer's
  invariant with `Delaying` (a delay runs exactly while the loop waits for it)
  and `Polling` (each finished delay has added its ticks, or was cut short).
  `FindsFirst` for every area and name: `Searching` says that no pattern begins
  before the bytes still to be searched. It is kept because a name that is
  rejected is no pattern, and because the bytes that the loop jumps over cannot
  begin one, which is what `NeedleAssumption` (neither `0x08` nor the root sign
  is in the name) is for: the loop never looks back across `from`.
  `ShutdownPrepared`: `Preparing` says what each point of `acpi_init()` has
  established before `no_shutdown` is cleared.
- `PagingProofs`: `IdentityMap`, with types, `FramesShared`, `FramesAreMapped` and
  `MappingsKept`. During the loop the first `i` pages are mapped to themselves,
  the frames below `i` are exactly those that are set, and every other entry is
  empty, because unused heap pages are blank until booting is over; so the next
  answer of `pmem_get_free()` is frame `i`. Afterwards what is needed is that no
  two directory entries have the same table (`TablesApart`): then two pages never
  share a slot, and mapping one leaves every other entry alone, except that a new
  table may turn empty entries into stale ones. For the frames, `OwnerInv` says
  that a frame somebody has is set, so that it is neither chosen by
  `pmem_get_free()` nor obtained by a caller who names it; entries only gain
  bits, so what was once stored of an address stays there.
- `TtyProofs`: types and `BufferBound` with keys at any time; the strengthening
  says that `tmp` is a pointer into the buffer whenever flush is set or the
  reader is past its loop. For the patient user `LineAsShown` and
  `NothingUndone`: `LineInv` says which of `echo` and `shown` the buffer holds at
  each point of a read, `BitsInv` that nobody touches `kbd` while the reader has
  a copy of it.
- `ScreenProofs`: `StoresOnScreen`, `LineOnScreen` and `CursorHeals` for every
  screen, register and line size, under `W * H < Byte * Byte` and lines of at
  most `H - 1` rows. `IInv` is the types, what the registers hold between two
  accesses of `tty_update_cursor()` (`Filled`) and of `tty_get_cursor()`
  (`Reading`), and that a patient user's echo never falls into a write and has
  room before the cursor (`Patient`). Most of the work is arithmetic: rows and
  columns of an offset, and what wrapping, scrolling and a backspace do to it.
  `ScreenRefinesTerminal`: `Screen` implements `Terminal`, keys at any time
  included. The mapping shows the text noted in `old` until a call returns, so
  the beginning of a call is seen as `Ask`, `Put4` as `Answer`, an echo outside of
  calls as `Key`, and nothing else. `RInv` adds to `IInv` that
  the place seen is on the screen until two characters have met (`Noted`) and how
  far a call without an echo has come from the text it noted: in
  `tty_get_cursor()` (`Got`), in the loops over the cells (`Looping`; the one that
  scrolls copies in place, from cells it has not reached) and in
  `tty_update_cursor()` (`Done`). The lemmas `Rows...` carry a store and a scroll
  over to the rows, and `CharacterStep` goes through the characters. The proof
  needs that no character is named like one of the other requests, which
  `GlyphAssumption` says.
- `TtyDeviceProofs`: `OneHandler`, `NothingHeldBack` and `KbdHasTty` for every
  set of lines and places. `DInv` says that the interrupt flag is off while
  anything is on the stack (`Flag`), that the controllers' vectors are those
  `irq_handler()` computes with (`Mapped`), that a line in service is the one
  being handled (`Service`), how `data`, `current_tty`, `owner` and the mask of the
  keyboard agree (`Tty`), and that a keyboard interrupt already taken found the
  terminal open (`Taken`): masking the line does not recall it.
- `ShellProofs`: `ScansOwnString`, `LookupResolves`, `HeldAtPrompt`, `FileShown`
  and `Answered` for every RAM disk, device table, buffer size and set of lines.
  `StrOK(s)` describes a call of `strtok()` on `s` at every point of its loops:
  what is left of the string is unchanged, the token found so far ends at the
  zeros that have replaced the delimiters, and the static pointer stands at the
  next token. With `Seen`, the tokens before the one the call is about, a return
  is token number `Cardinality(Seen) + 1` of the reference. `SInv` is `Memory`
  (only `fs_lookup()` holds something for itself, and only while it runs),
  `Lookup` (the node is where the tokens seen so far lead, `Walked`) and
  `Command` (what the running command was given and what of its answer is on the
  screen). `FileShown` rests on `ramfs_read()` seeking before it reads, and on the
  first zero in the buffer being behind the file.

- `SerialProofs`, the log: `SerialLogComplete` for every queue of at least two,
  all texts and any number of keys. `SerialInv` says what is still to be sent by
  each of the two (`Rest`) and that it follows what was heard of them so far to
  give what they were asked to log (`Total`); each step moves one character from
  the one to the other. `ChipInv` is why none is lost: between the test of the
  line status and the store, whoever stores finds room. The handler waits for
  an empty queue before each of its characters and leaves at most one behind, so
  a store of the thread that it interrupted needs no more than the second place.
- `SerialProofs`, the conversions: `SerialFormatsAsAsked` for every size of an
  int, every format and all arguments. `FormatAt` says that `vsprintf()` stands
  between two pieces of its format: what it has written is the outcome of those
  before, and the arguments left are those of the pieces behind. What a
  directive writes (`Converted`) is what it means (`Meaning`) by theorems about
  the conversions, for all numbers: `DecimalDigits` (the loop of `itoa()` and
  `utoa()` collects the digits of the numeral from the last on), `HexNumeral` and
  `ReadsBack`. These are inductions over data. The library's rules of induction
  take an operator, which no prover here can instantiate, so the proofs use
  first-order forms of them: a property is a set of numbers or of sequences
  (`Induction` and `SeqInduction`, from the theorem that a set of naturals has a
  least member), and the recursive functions of the model are shown once to
  exist and to obey their equations (`Recursion`).

- Termination, as far as it goes without fairness: a natural number that every
  step of the thread makes smaller. `HeapLookupDescends` and
  `KernelLookupDescends`: the blocks that `lookup()` has before it (`Ahead`), of a
  list that stays finite; they become fewer because the tiling rules out a ring.
  `AcpiWorkShrinks`: five steps for each turn of `acpi_enable()`'s loop and one for
  each byte of the search, to which interrupts and hardware add nothing; with
  `CountExact` each wait in it ends. `ShellWorkShrinks`: what `strtok()` has left of
  its string, which its static pointer never takes back, and the entries still to
  be listed. `LookupReturns`, `InitReturns` and `CommandEnds` follow from these, from
  fairness, and from the thread always having a step to make.

Only model-checked: liveness (`LookupReturns`, `InitReturns`, `ReadEnds`,
`LinesServed`, `CommandEnds`): fairness, and that a step is always possible, are
outside what the proof system's backends decide here. Every invariant, action
property and refinement that a passing run checks is also a theorem.

## What could follow

- `Screen` and `Serial` composed with `TtyDevice`, so that the handler's echo
  and its logging are those of one `kbd_irq()`.

## Not modelled

The floppy and PCI probes keep no state that anything else uses. The boot
loader is BIOS calls before the kernel runs; what it leaves behind is the
initial state of the modules. `kmalloc_info()`, the page fault handler and the
exception handlers only print, or print and hang. `tty_readchar()` (through
`getchar()`), `serial_read()` and `TTY_GETCSR` have no caller; the TAR file
system is only declared. Widths: sizes and addresses are naturals;
`kmalloca()`'s rounding would wrap for sizes above `0xFFFFFFF8`, which no caller
passes.
