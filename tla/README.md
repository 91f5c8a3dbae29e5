# binbowsDOS in TLA+

TLA+ modules that model the kernel of binbowsDOS (a 32-bit x86 kernel that
boots from a BIOS disk, detects IDE drives and formats one of them with its own
file system, Elixir), TLC configurations that check them on small instances, and
proofs of their main safety properties for every instance.  File names of the
repository are given from its root (`src/mem.c`, `includes/ide.h`).

## 1. The system

The kernel is one thread, `kmain`, plus interrupt handlers.  Nothing is
preempted except by interrupts, and the only handler installed (`on_irq0`)
counts ticks.  What makes it hard is at its edges: drives that answer late, fail
or cache; power that goes away between two writes; integer widths; a free list
threaded through the memory it manages; a loader that reads the disk over itself.

| Component | State | Operations | Hard behaviour | Correct when |
|---|---|---|---|---|
| Kernel heap (`src/mem.c`) | `free_list_head`, a header before every block | `init_allocator_region`, `kmalloc`, `kfree` | long call sequences, split and two merges, exhaustion, wrap of `size_t` | blocks disjoint, nothing lost, free neighbours merged, list sorted and complete, a request refused only when no gap fits |
| Memory operations (`src/mem.c`) | loop variables | `memcpy`, `memset`, `memmove`, `memcmp` | overlap | the wanted bytes and no others change; the first difference decides |
| IDE transfers (`ide_rw.c`, `ide_polling.c`) | loop variables; the drive's registers, cache, media | `ide_read_sectors`, `ide_write_sectors_counted` | drive errors at any time, lagging status, write cache, commands of at most 256 sectors, a count of 0 | a read returns what is on the disk; a write puts every sector in its place and nothing elsewhere; calls return |
| IDE detection (`ide.c`, `ide_identify.c`, `ide_pio.c`) | `channels`, `ide_devices` | `ide_initialize`, `ide_device_exists`, `ide_identify` | two indices for one table, any mix of drives, polling without limit | a slot in use leads to the drive it describes; the scan ends unless a drive keeps it |
| Free-sector search (`ide_rw.c`) | loop variables | `find_next_free_lba` | both ends of the drive, read errors | the answer starts the free tail |
| Elixir (`src/fs`) | superblock and bitmap on disk, buffers in memory | `create_super`, `create_bitmap`, `elixir_format`, `elixir_mount`, `elixir_write_bitmap`, `elixir_read_bitmap`, `create_file` | allocation failures, resets between writes, dropped writes, roundings, 8- and 16-bit fields | areas disjoint, a fresh format is empty, buffers freed, counts right |
| PIC, IRQ dispatch (`pic.c`, `idt.c`, `irq.asm`) | masks, in-service bits, `irq_handlers` | remap, mask, EOI, `irq_handler` | interrupts in any order, spurious ones | every interrupt in service is ended once |
| Timer (`timer.c`, `timer.h`) | `timer_ticks` | `on_irq0`, `timer_wait*` | tick between test and `hlt`; 64-bit load in two halves | a wait is too short by at most the tick it begins in, and ends |
| Exceptions (`exceptions.c/.asm`) | none | `fault_handler` | | halts for ever |
| Descriptor tables (`gdt.c`, `idt.c`) | `gdt`, `idt` | `gdt_install`, `idt_install`, `exceptions_install`, `irq_install` | bit fields | memory is flat, each vector leads to its stub |
| VGA console (`vga.c`) | screen, `cursor_row`, `cursor_col` | `printf`, `clear_screen`, `put_char`, scrolling | right and bottom edge, number conversion | the screen is the last rows of the text, numbers read back |
| Serial port (`serial.c`) | the UART's registers and FIFO | `serial_init`, `serial_printf`, polled writes | a UART slower than the program | characters in order, none lost |
| Boot sector (`boot.asm`) | `CH`, `DH`, `CL`, `es:bx`, geometry bytes | load loop, copy to 1 MB | read errors, byte counters, its own memory in the way | the disk is loaded in order, the kernel arrives whole and stays so |

How they interact: the boot sector loads the kernel and calls it; `kmain` gives the heap its region, installs tables and
handlers, starts the timer, runs `ide_initialize`, and formats and mounts drive 1.
The file system calls `kmalloc`/`kfree` and the two transfer functions, and reads
`ide_devices[].Size`; the transfer functions read the slots and channels that
detection filled; everything prints through `vga.c`.

## 2. Modules

| Module | Models | Uses |
|---|---|---|
| `HeapSizes` | the arithmetic of the heap: header, alignment, region | |
| `Allocator` | abstract: which blocks callers hold, what a call may answer | `HeapSizes` |
| `HeapBlocks` | the blocks, free and held, and what must hold of them; the mapping to `Allocator` | `HeapSizes`, `Allocator` |
| `Heap` | `kmalloc`/`kfree` over a set of free and a set of live blocks | `HeapBlocks` |
| `FreeList` | the same with `free_list_head`, `next` pointers and headers in memory; implements `Heap` | `HeapBlocks`, `Heap` |
| `MemOps` | the byte loops of `memcpy`, `memset`, `memmove`, `memcmp` | |
| `Boot` | the boot sector, the start of `kmain`, the heap's first writes | |
| `Descriptors` | the tables as `gdt.c`, `idt.c`, `exceptions.c` cut them, and as the processor reads them | |
| `Interrupts` | the boot order of tables, PICs and `sti`, `irq_handler`, the stubs, the interrupt flag, against two external 8259 PICs | |
| `Timer` | `timer_wait` and the conversions of `timer.h` against `on_irq0` | |
| `Console` | `printf`, `put_char` and `clear_screen`; `serial_printf` against an external UART | |
| `IdeInit` | the scan of the four positions, port decoding | |
| `IdeRw` | the two transfer functions and `ide_polling`, against an external ATA drive | |
| `FindFree` | `find_next_free_lba` | |
| `ElixirLayout` | `create_super`'s arithmetic and the sizes of the bitmap | |
| `Elixir` | all operations of `src/fs` on one drive | `ElixirLayout` |
| `HeapProofs` | the theorems about `Heap` and `FreeList` | |
| `ElixirProofs`, `IdeRwProofs`, `InterruptsProofs`, `TimerProofs`, `BootProofs` | the theorems about the module each is named after | |
| `IdeProofs` | the theorems about `IdeInit` and `FindFree` | |
| `BasicsProofs` | the theorems about `MemOps`, `Descriptors` and `Console` | |
| `MC*` | the constants of the model-checking runs | |

A definition whose name is another's with a suffix (`Splits_NoRoom`), under a
comment `Mutation:`, is a plausible mistake in the code that definition models.
It is used by no specification: replacing the original by it must make TLC
report the property that guards against it (`mutants` in `PROJECT.json`).

### Heap

`free` is the free list as a set: the list is sorted, so "the first block that
fits" is "the lowest block that fits".  `kmalloc` has one action per outcome
(`KmallocSplit`, `KmallocWhole`, `KmallocNull`), `kfree` two (`Kfree`, which is
`insert_free_block_sorted` with both merges, and `KfreeNull`).  In `Heap` each call is one
step, because the list work runs with interrupts off and no handler allocates.

`FreeList` justifies the set view.  It keeps `size` and `next` in a map from header
addresses to headers and forgets a header when its block is merged into another.
A round of a loop is a step: `pc` says which loop runs (`fit` is the walk of `kmalloc`, `insert` and
`back` the two of `insert_free_block_sorted`), `cur` is the link, and `prev` the block, at which it stands.
`TakeFront` and `TakeWhole` end `kmalloc`, `LinkIn` is the link and the merge forward, `KfreeEnds` the merge
backward.  Nothing interleaves with the steps of a call; they are steps so that the loops can be reasoned about.
`live` changes when a call succeeds, and `free` is then what the headers in memory say
(`Unheld`: every header no caller holds), so the invariants of `HeapBlocks` are statements about the memory.
In between, `free` and `live` are those of the last call, which is what the refinement of `Heap` needs: the
rounds of a loop are stutters.

In both modules `size_t` arithmetic
in `align_up` wraps at `SizeMod`, so a request near 2^32 becomes a small one, as
in the code.  Callers are the kernel's own: they free each block once and stay
inside it.

### IDE transfers

`pc` follows the functions: `chunk` (top of the write loop), `settle` (the four
ALTSTATUS reads), `spin` (the loop on BSY), `flush`.  `Command` is the write of the
command register; the preceding register writes and `timer_wait_ms(1)` (which
is no wait at all, see the hazards) are part of the same action.  The drive has
its own actions.  After a command or a sector it is busy, then ready for data,
idle, or in error.  `dev.shown` is what the status register shows: it lags
`dev.phase` until `Settle` or `DevShows`.  Accepted sectors go to `cache` and reach
`media` in any order, or with a flush.  The data of sector k of call c is `<<c, k>>`,
so a misplaced sector is visible.  `ignored` records, for the properties only, that the
drive was still busy when CACHE FLUSH arrived and did not take it.

`ide_read_sectors` takes its count as a `uint8_t`, and `elixir_read_bitmap` hands it the number of sectors of a
bitmap (`src/fs/create_bitmap.c:78`), which may be 256 and so arrive as 0.  The drive takes 0 for 256 (`CountMod`), the loop
makes no round, and the call returns 0 with the sectors unread.  `StartRead` does this, and `Command` is the next
call's: a drive still busy with the sectors nobody fetched ignores it, one that offers them drops them or
ignores it.  A call whose command was ignored (`missed`) after a read of zero sectors (`zero_read`) is `Spoiled`: a read may then
return 0 with sectors of the earlier one, a write send its data to nobody.  `ReadReturnsDisk`, `WriteVisible` and
`DurableUnlessIgnored` hold of every other call, in particular of those that come after a read of zero sectors
and whose command the drive took; `NothingMisplaced` holds of all.

### IDE detection

`attached` is any assignment of nothing, an ATA drive or a packet drive to the
four positions.  `status` is what the selected drive shows: any value at first, busy after a command, and then
whatever `DriveEnds` makes of it, whenever it likes, or never.  Each look of the code at it is a step:
`Select`, `Ask`, `Wait` and `Skip` are those of `ide_device_exists` (`pc = "wait"` is its loop on BSY), `Found`
is its answer 1, `Poll`, `IdentifyFails` and `Identify` are `ide_identify` (`pc = "poll"` is its loop on ERR and DRQ), which
stores at `ide_devices[drive]`.  `Port` is the register decoding of `ide_pio.c`.

### Free-sector search

`Loop` is one iteration over a readable sector; `ReadError`, `NoDrive` and `Finish`
are the ways to return.  `SectorRead` is the sector that answers to an address: above
2^28 the top bits are lost and another sector is read, so the properties are
about drives all of whose sectors can be addressed (`Addressable`).

### Boot

Memory is seen in slots of one sector, at 0x500 and at 1 MB.  `low` and `high` say which
sector of the disk a slot holds.  `pos` is `CH`, `DH` and `CL`; `Following` is the three nested counters,
`sectors_per_track` and `heads` the bytes they are compared with.  `ReadSector` is one round of the
loop, `ReadFails` the round in which the BIOS reports an error (past the end, or on any sector),
`ReadOverLoader` the one that lands on the code at 0x7C00 or the stack below it; what happens then
depends on the kernel's bytes and the model stops in `lost`.  `EnterKernel` is `rep movsd` and the call.
`InitAllocator` and `AllocateSuper` are the first two things the kernel writes to the addresses it
gave the heap: the header at 1 MB, then the superblock's zeroed payload.

### Memory operations and descriptor tables

`MemOps` has one action per way a loop can go on or end; `was` is the memory at the call.
`Descriptors` has one action per install function; the operators below `TablesSpec` (`SegmentLimit`,
`Offset`, ...) are the processor's reading of an entry.  Both are small enough to be proved
outright, over the machine's own 32-bit words, so no run is spent on them.

### Console

A call is a directive with its argument.  `printf` and `serial_printf` (both through `Say`) convert it and hand
the characters to `todo`; each later step writes one.  On the screen that is `Put`: `put_char` is `Placed`,
`Wrapped`, `Scrolled` in that order, as in the code, and the last character is followed by `set_cursor`.
`paper` is the same text typed on paper of unlimited length, with tab stops and line
ends defined on their own; it exists for `ScreenShowsTail`.  On the serial side `serial_write` is one round of
polling that finds the holding register empty,
and `UartSends` takes a byte from the FIFO whenever it likes.  `-INT_MIN` is not
defined in C, and both `print_int` and `serial_putnum_signed` compute it: `print_int` gives the two results compiled code has, a lone
sign or a sign and a wrong character; `serial_putnum_signed` gives the ten right digits, which the
divisions that follow find if they are unsigned, as written, or ten unknown characters, which
they find if the compiler makes them signed.  `NumbersRight` excepts this argument on both devices.

### Elixir

Every `kmalloc`, read, write and check that can fail is a step of its own, with a second action for its failure.
`elixir_format` is `CreateSuper`, `WriteSuper`, `BitmapHeader`, `BitmapData`, `WriteBitmap`, so that a reset can fall between and
inside the two writes; `elixir_mount` is `MountBuffer`, `ReadSuper` and the check of the magic number (`BadMagic` or
`Mount`); `elixir_read_bitmap` is `ReadHeader`, `ReadBuffer`, `ReadBitmap`.  The actions `...Fails` and `BadMagic` go through
`GiveUp`, whose argument is the number of buffers that this path of the code frees; a call that fails gives
nothing back in any other way.  `Refused` is a call that fails before it has obtained anything.
The driver reports no failed write in the cases that occur today; `WriteSuperFails` and
`WriteBitmapFails` are the paths written for one that does.  The disk is the superblock
sector, foreign or Elixir's, and the bits of the bitmap area at the positions in
`Marks`.  `elixir_write_bitmap` moves whole sectors from a buffer that is not a
whole number of sectors, so the bits after the end of the buffer (`PastEnd`) take
any value.  `allocated` counts buffers; `before` is its value when the call began.
`Reset` forgets memory and leaves any subset of the sectors of a write in progress.
An error of the drive during a write is not reported by the driver (finding
`ide_rw_written`), hence `dropped`, which records it for the properties only.

### Interrupts

The state of the PICs is external: the request, in-service and mask registers of the
sixteen lines (`irr`, `isr`, `imr`) and the first vector of each PIC (`offset`),
with the fixed priorities of fully nested mode (`Passes`, `INTR`, `Eoi`).  `Interrupt` is
the acknowledge cycle and the gate; `SpuriousMaster` and `SpuriousSlave` are the cycle after
a line has dropped its request again.  `frames` is the stack of handlers in
progress: `Dispatch`, `EoiSlave`, `EoiMaster` and `Iret` are the parts of
`irq_common_stub` and `irq_handler` between which a device may raise its line.  The
thread's place is `pc`: the boot steps of `kmain` up to `sti`, then any order of
critical sections (`save_and_cli` to `restore_flags`), `hlt` and changes of the masks.
A vector without gate ends in `dead`.

### Timer

One wait.  `hi` and `lo` are the halves of `timer_ticks`; `LoadHalf` reads one of them,
`StartTicks` and `Test` use the pair, `Hlt` sleeps until `Tick` or `OtherIrq`.  At most one
tick comes between two steps of the running thread (`recent`), which is the difference
between 10 ms and an instruction.  `elapsed` and `torn` are for the properties: the ticks that have come, the
first of which may have come at once (`Passed`), and that the low half went through zero between the two
loads of one value.  `timer_wait_micros(10000)` waits for one tick and may return at once: what
`ShortByAtMostATick` says of a wait is that it misses no more than the tick it begins in.

## 3. What is checked

Passing runs:

| Run | States | Shows |
|---|---|---|
| `freelist` | 62674 | `ListSound` (the list ascends and visits exactly the blocks not in use, and the headers are those of the blocks), `BlocksDisjoint`, `NothingLost`, `FullyCoalesced`, `HeadersAligned`, and that `FreeList` implements `Heap` and `Allocator` |
| `elixir` | 180630 | `LayoutOrdered`, `FormatFresh`, `NeverMarksUsed`, `BuffersAccounted`, `BitmapCountsRight` |
| `ide_rw` | 406355 | `ReadReturnsDisk`, `WriteVisible`, `NothingMisplaced`, `DurableUnlessIgnored` (what is reported written is on the medium unless the drive ignored the flush), and `CallReturns` under fairness |
| `ide_init` | 9437 | `SlotsLeadToDrives`, `SomeSlotIfSomeDrive`, and `ScanEnds` (the scan ends or one drive keeps it) under fairness of the thread alone |
| `find_free` | 16320 | `AnswerIsFree`, `NoneOnlyIfFull` |
| `interrupts` | 124544 | `AlwaysGated`, `ServiceEnded`, `EndsOnlyItsOwn`, `TicksCounted`, `CriticalUndisturbed`, and `TickServed` under fairness |
| `timer` | 103712 | `ShortByAtMostATick`, and `WaitReturns` under fairness |
| `boot` | 1797 | `LoadedInOrder`, `KernelArrives`, and `BootEnds` under fairness |
| `console` | 281740 | `ScreenShowsTail`, `NumbersRight`, `SerialInOrder` |

Runs that end in a counterexample, each a disagreement between what the
repository says and what its code does:

| Run | The code | The repository says |
|---|---|---|
| `ide_rw_written` | the write path polls with `check = 0` and returns 0 when the drive rejects a sector | "Superblock written to LBA %u" (`src/fs/elixir.c:21`) |
| `ide_init_slots` | `ide_identify` fills `ide_devices[drive]`, `ide_initialize` clears `ide_devices[i]` | "0 (Empty) or 1 (This Drive really exists)" (`includes/ide.h:89`) |
| `kernel_intact` | `kmain` gives the heap a region that begins with the kernel's own image (`src/main.c:12`) | "Mark end of kernel for memory management" (`linker-scripts/x86_64.ld:33`) |

### Bounds, and why they are enough

* `FreeList`: one region of 121 bytes from an unaligned address, with requests of 0, 1, 17, 41 bytes and
  one that wraps (`SizeMod - 3`).  Up to four blocks fit, so a freed block can have a free
  neighbour on both, either or neither side; blocks too small to split, and an
  exhausted list, all occur.  The sizes are the code's own (header 8, minimum 16).
* `Boot`: ten disks that end inside a track or a cylinder, one of 256 heads, and disks of 59, 60, 61 and 80
  sectors around the 59 slots below the loader.  A read may fail at any sector.
* `Console`: three calls (`MaxCalls`) on a screen of two rows of eight, which a text of seven
  characters and a tab overrun; a FIFO of two bytes; numbers at both ends of `int`.
* `IdeRw`: a drive of five sectors, a count register of three values in place of
  256, reads of zero to two and writes of one to four sectors at the first, second and fourth sector and
  just past the end, two calls (`MaxCalls`).  A write of three is coded as 0, a
  write of four needs two commands, and the second may pass the end of the address range.
* `IdeInit`: nothing is bounded but the sizes of the drives, which are four
  different values; each drive may answer anything at each look, or never.
* `FindFree`: drives of up to six sectors (`MaxSize`), of which five can be addressed (`LbaLimit`, `LbaWrap`),
  every content, every set of bad sectors.
* `Interrupts`: four lines, two of each PIC, the highest and the lowest of all among them;
  every set of pending requests is reached.  Ticks are counted modulo 3 (`TickMod`), which tells
  the differences that occur (none, one) from one tick lost or counted twice.
* `Timer`: halves of four values (`Word`) with waits started around a wrap of the low half,
  amounts at and next to whole ticks, and amounts whose conversion wraps (`UintMod`
  is 2^16 here, 2^32 in the code).
* `Elixir`: an empty slot, a drive one sector below the smallest and the smallest,
  sizes at which the last bitmap byte or sector is partly used, and the two sides of the
  point where the bitmap no longer fits the count register; bits followed
  (`Marks`): first and last of the drive, of the buffer and of the sector around the end.
  At most four buffers at once (`MaxBuffers`), one more than a format holds.

`CHECK_DEADLOCK FALSE` stands only in the runs where the code ends: a function that
has returned (`find_free`, `ide_init`, `timer`), the loader that has stopped or handed over (`boot`), or the
bound on the number of calls (`ide_rw`, `console`).

### Fairness

`CallReturns` assumes `WF(DriverStep)`, as the caller is the only thread and
nothing else can keep the processor from it, and `WF(DeviceStep)`: a drive that is busy some
time ends what it does, if only by an error.  The code relies on the latter, since its loops on
BSY have no limit; a drive that hangs hangs the kernel.  `ScanEnds`
assumes only that the thread keeps running (`WF(Scan)`) and nothing of the drives: it says that the scan ends or stays for ever in
`wait` with a busy drive, or in `poll` with a drive that neither reports an error nor offers data.  `BootEnds` assumes
that the boot sector keeps running and every BIOS call returns.
`TickServed` assumes weak fairness of the handlers, of the boot sequence and of
`RestoreFlags`, which are code that runs to its end, and strong fairness of
`Interrupt`: critical sections alternate with code that runs with interrupts on,
and the processor takes a pending interrupt there.  `WaitReturns` assumes that the
thread keeps running and that the timer does (init_timer's mode 3 is periodic).
The safety properties assume no fairness.

## 4. What is proved

All theorems hold for every value of the constants allowed by the named
assumptions (`RegionAssumption`, `ElixirAssumption`, `IdeInitAssumption`,
`FindFreeAssumption`, `IdeRwAssumption`, `InterruptsAssumption`, `TimerAssumption`, `BootAssumption`, `ConsoleAssumption`); `MemOps` and `Descriptors` have no constants.

* `HeapProofs`.  `HeapInv` is the conjunction of the five invariants and is inductive as
  it stands: disjointness alone is not (a split needs the block inside the region
  and aligned, a merge needs that no third block starts where two meet), and a
  merge of both neighbours preserves `FullyCoalesced` only because it held
  before.  `SplitKeepsInv`, `WholeKeepsInv` and `KfreeKeepsInv` treat the actions;
  `RegionFacts` and `PaddedFacts` the arithmetic.  `HeapImplementsAllocator` uses the
  invariant for its one hard step, the refusal: with `NothingLost` and
  `FullyCoalesced` a gap between live blocks lies inside a single free block
  (`GapInOneFreeBlock`), so if no free block fits, no gap does.
  `FreeList` is proved to implement `Heap` for a list of any length.  A recursive definition of the walk would need
  induction over data; a loop needs an invariant of its rounds.  `PointerInv` says that the links lead from every
  free header to the next one up (`Chain`, from the relation `Follows`), that the headers are those of the blocks,
  with their sizes (`Described`), and what a loop has passed: blocks too small for `kmalloc` (`FitInv`), blocks below
  the one to insert (`InsertInv`).  Between `LinkIn` and `KfreeEnds` the memory is ahead of `free`: the block freed is on
  the list and may have swallowed the one behind it (`Absorbed`, `Swallowed`), and the search for the block
  before it cannot miss it (`BackInv`).  `ChainWithout` and `ChainWith` say that one changed link takes a block off the list or puts one
  on it; the lemmas `...Step` use them, one per action, and show for the ends of calls that the same action of `Heap` is
  taken.  `HeapInv` and `PointerInv` are inductive only together: that merging joins the right blocks rests on
  `BlocksDisjoint`, which in turn rests on the headers being right.
  `RegionAssumption` says the region does not lie in the lowest 24 bytes and does not reach the top of
  the address space; both are true of `kmain`'s call.
* `ElixirProofs`.  `LayoutLemma` proves the layout for every size from 32768 sectors
  to 2^28 - 1, over all seven rungs of the ladder.  `FormatInv` adds to the
  properties that the superblock in memory is the one of the drive and that
  the drive is large enough, which no property needs to say but the next step does.
  The bitmap's two properties need facts the code never states.  `BufferInv` says, for each place the call
  may be at, how many buffers it has taken since `before`; `BuffersAccounted` speaks only of the end of a call, and
  a failed allocation, read, write or check in the middle must give back what the beginning took.  `BitmapCountsRight` compares two
  counts of bits, one of the buffer and one of the disk; `UsedBitsFacts` bounds and compares them as cardinalities
  of subsets, and `SectorOfBit` says which sector of the disk a bit is stored in.
* `IdeProofs`, detection.  `ScanInv` strengthens `SlotsLeadToDrives` by the position of the scan: at
  `identify` and `poll` the drive is an ATA drive, and a slot refers to a position already passed.
  `FoundInv` does the same for `SomeSlotIfSomeDrive`.  It must follow two indices: the slot that `ide_identify` fills and
  the slot that `ide_initialize` clears.  The property survives because the slots a drive found can be in have been
  passed by the clearing (`ClearingKeepsFound`), not because clearing and filling agree, which they do not.
* `IdeProofs`, search.  `FindInv` is the loop invariant of the scan: everything below `lba` was
  readable, `last_used_lba` is the last used sector below it.  The theorems, like the properties,
  are about drives whose sectors can all be addressed.
* `IdeRwProofs`.  The properties are about the end of a call; between two sectors they say nothing.  The invariant
  relates the driver's `pc` to what the drive is doing.  For a read, `ReadInv`: the buffer holds the first `i` sectors and
  the drive is about to deliver sector `i`.  For a write, `WriteInv`: the drive is waiting for the next sector (`AwaitsData`), has just
  taken one (`HoldsSector`), has taken the whole chunk (`ChunkTaken`), is being flushed (`Flushing`), or
  has failed (`GivenUp`).  These are the cases that the driver, which polls a status that lags and is told nothing of
  errors, cannot tell apart.  A command the drive ignored adds a case: it may still be at a read of zero
  sectors (`Leftover`), and all that is left to show is that the drive takes none of the call's data for its own.  `Arrived` (every sector sent is in the cache or on the medium) and `Stored` (the chunks
  flushed are on the medium) carry `WriteVisible` and `DurableUnlessIgnored` from chunk to chunk.  There is one
  lemma per action of driver and drive.
* `InterruptsProofs`.  `IInv` joins the thread's place with the PICs: before `sti` no interrupt can be taken
  (`FlagInv`), after it the tables are complete (`TablesReady`), at most one handler runs and the flag is
  off while it does (`OneFrame`), and a line is in service only while its handler has yet to send its EOI
  (`ServiceInv`).  The last is what makes `EndsOnlyItsOwn` true: an EOI names no line, it ends the highest priority in
  service, and that is the handler's own only because no other is.  That the highest exists is
  `LeastExists`, from the well-foundedness of the natural numbers.  `CountInv` is `TicksCounted` with the tick that a
  handler has begun and not ended.
* `TimerProofs`.  `Counted` says where each half of a load in progress came from: unless the low half
  went through zero between the two loads of a value (`torn`), the pair is the counter's value at some moment
  between the beginning and now (`Span`).  `SmallRemainder` and `TicksLongEnough` are the conversions of `timer.h`: as many ticks
  as last the time asked for, but for `timer_wait_ms`, which rounds down, and for arguments whose conversion
  wraps.  A wait of n ticks sees n of them, the first perhaps at once, which is why the theorem is short by one.
* `BootProofs`.  `BootInv` says that after n sectors the head, cylinder and sector counters, `es:bx` and
  `low` all stand at n: `n + 1 = (ch * H + dh) * spt + cl - 1`, with `H` the heads the loop counts.  The products
  are not linear, so `NextHead`, `NextCylinder` and `CylinderBound` isolate them, and `Walk` puts them together.
  `AtSlot` gives the two facts the rest needs: the destination is slot n, and the sector read is n + 1 or
  (256 heads) a later one.  That a disk of 60 sectors never destroys the loader therefore holds for
  every geometry, and the wrap of the cylinder byte is never reached.
* `BasicsProofs`.  For a copy the invariant (`LoopInv`) is that the bytes the loop is done with hold what is wanted
  and the others what they held; it survives a step only because the byte read is not yet
  overwritten, which for `memmove` is what the choice of the direction ensures.  `WriteKeeps` is the step common
  to the three writing loops.  For the tables, `HalvesJoin` is the recombination of an address.
  For the screen, `ScreenInv` adds to `ScreenShowsTail` that the column is inside the row and that nothing is written on the paper
  below the row it has reached (`Sheet`).  Both are what a step needs: the first, that `vga[position]` is the cell the
  paper means and a cell at all; the second, that the line a scroll clears shows the paper's next row.  The
  cells are numbered by a product, so `CellFacts` and `CellBelow` say once which row and column a cell is and which
  cell is below it.  `PlaceShows` and `BreakShows` are the two halves of `PutShows`: the character, and the end of a row,
  where the cursor goes down or everything else goes up.  `ConsoleAssumption` has the screen fit the 16 bits of the
  cursor registers; 80 by 25 does.
  For the serial port, `SerialInv` adds to `SerialInOrder` that a call in progress has a ready port whose divisor latch is
  closed: otherwise the byte written would go to the divisor.  `serial_write` is then a move of the head of one
  sequence to the end of another (`HeadMoves`), as the polled FIFO is empty, hence not full, whatever its size.  The lemmas
  `...IsText` say that every conversion gives a sequence of characters, which that move needs, and nothing about which.
  For the numbers, what the loops compute is recursive: the conversion divides until nothing is left, reading back
  multiplies.  The induction is done on bounded functions instead of operators: `UpTo` proves a fact for all `k` up to a bound
  from the well-foundedness of the natural numbers, applied to a set, and `RestsAre` gets from it that the
  function of the successive quotients exists and what it is.  `TenRounds` and `EightRounds` say
  that 32 bits have at most ten decimal digits, or eight of base 16, so `Rounds` counts the digits without knowing them; `Reads` describes the
  sum read so far, and `DigitsRead` gives it in closed form: after `k` digits it is the quotient `length - k` of the number.
  `NegativeReads` and `NegativeRight` are about a sign in front of such digits.  `ConsoleAssumption` has the arguments fit 32 bits, signed or unsigned, as the
  program is built for `-m32`; it is written in halves because TLC's integers stop at 2^31 - 1, so that
  the run's numbers include no unsigned one above that.  The theorem covers them.

Only model-checked: liveness (`CallReturns`, `ScanEnds`, `BootEnds`, `TickServed`, `WaitReturns`), which the proof system
does not reach.  Every safety property of a passing run is a theorem.

## 5. What is not modelled, and the plan

Not modelled: exceptions being raised (`fault_handler` prints and halts for ever) and the saving of registers
in the stubs, message texts, the drive's model string and other copied
IDENTIFY words, the content of heap payloads, `serial_read`, the A20 line (taken to be on, as no code turns it on),
`.bss` (taken to be zero, though nothing clears it), the timing of port accesses.  The one-instruction primitives of
`includes/commands.h` are part of the actions that use them; `build.sh` has no run-time state.
IDENTIFY is assumed to be obeyed although it is sent twice.  Drives do not
lose contents they have stored.

Facts the models show but no run is spent on:

* CACHE FLUSH is sent to a drive still busy with the last sector, which may ignore it (`src/drivers/ide/ide_rw.c:123`):
  `DurableUnlessIgnored` says what holds otherwise.
* Register 0x0C, to which `ide_initialize` writes to turn the drives' interrupts off, decodes to `ctrl + 4`, where no
  drive listens; no handler depends on it, and `Interrupts` lets both lines raise at any moment.
* On a drive of 2^27 sectors or more
  `s_block_size`, a `uint16_t`, is 65536 mod 2^16 = 0 (`src/fs/sb.c:45`), which nothing but
  messages uses.
* A region entirely allocated has an empty list, which `kmalloc`
  reports as "allocator not initialized!" (`src/mem.c:92`).
* `pic_enable_irq` of a line of the slave does not unmask line 2; nothing masks that line today.
* A kernel of more than 60 sectors is read over the running loader (`src/boot/boot.asm:53`), half of what the copy at
  line 128 calls "plenty for kernel": the bound of `KernelArrives`.

Planned, in this order:

1. `SectorStore`: an abstract device of sectors with read and write, implemented by `IdeRw`
   and used by `Elixir`; with it `kmain`'s calls from `ide_initialize` to `elixir_mount` in one module.
2. An exception or NMI at any moment in `Interrupts`.
