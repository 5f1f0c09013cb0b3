# A TLA+ model of the OS_LEARN kernel

The repository is a small 32-bit x86 kernel in C (a descendant of LunaixOS):
it boots through multiboot, builds its page tables, sets up a physical and a
virtual memory manager, a heap, the interrupt controllers and a timer, and
prints to the VGA text screen.  There is one processor and no process: kernel
code runs with interrupts on, and the interrupt handlers, entered through
interrupt gates, run with interrupts off.

This directory holds TLA+ modules of the parts with real logic, TLC
configurations that check them, and proofs for TLAPS.  `PROJECT.json` maps
every definition to the lines it models.

## 1. The system

| component | state | operations | who calls whom |
|---|---|---|---|
| physical memory manager, `kernel/mm/pmm.c` | bitmap of pages, `max_pg`, `pg_lookup_ptr` | mark page/chunk free or occupied, `pmm_alloc_page`, `pmm_free_page` | boot code marks; the vmm allocates and frees |
| virtual memory manager, `kernel/mm/vmm.c` | page tables (memory contents), TLB | map, forced map, set mapping, unmap, allocate one or many pages, look up | boot code, heap growth |
| kernel heap, `kernel/mm/kalloc.c`, `dmm.c` | chunks with header and footer words, `brk` | `lxmalloc`, `lxcalloc`, `lxfree`, growth | everybody; **also the timer interrupt** |
| timers, `kernel/timer.c`, `ds/llist.h` | linked list of `lx_timer`, frequencies | `timer_run`, `timer_run_second`, `timer_init`, the handler `timer_update` | kernel code registers, the APIC timer interrupt walks |
| interrupt dispatch, `kernel/asm/x86` | table of subscribers, fallback | subscribe, unsubscribe, `intr_handler` | the processor; timer and panic code |
| APIC, I/O APIC, `hal/` | device registers | initialisation, end of interrupt | boot code, `intr_handler` |
| real-time clock, `hal/rtc.c` | device registers | read the date, periodic interrupt on and off | timer calibration, timer callbacks |
| boot, `k_init.c`, `arch/x86/` | multiboot memory map, first page tables, stack in use | the start-up sequence, once | pmm, vmm, heap, ACPI, devices |
| console, `tty.c`, `kprintf.c` | cursor, theme, one static format buffer | print, scroll, clear | everybody, also timer callbacks and panics |
| C library, `libs/klibc` | none | formatting, strings, memory | everybody |
| ACPI, `hal/acpi` | parsed tables | find and parse the MADT | boot code, `ioapic_init` |

What is hard here, and what the properties are for:

* **interrupts in the middle of things**: the timer interrupt walks and edits
  the timer list while it is being appended to, and calls `lxfree` while the
  interrupted code may be inside `lxmalloc`;
* **structures whose fields must agree**: headers, footers and flags of heap
  chunks; `prev` and `next`; page tables, frame bitmap and TLB;
* **running out**: no page, no page for the page table of a page, no address
  range, and the rollback that follows; an initialisation that fails in a build
  that ignores it;
* **boundaries**: bitmap groups of eight against a memory size that is not a
  multiple of eight, pages that end inside a growth, products and sums that
  wrap at 2^32;
* **long legal sequences**: next-fit pointers that remember, flags set by one
  operation and used by another much later.

What makes each component correct:

* pmm: a page is handed out to one holder at a time, never page 0, and can be
  given back; every search ends; NULL only when there is no page.
* vmm: a frame in use is not free; a frame has one use; after a call the TLB
  agrees with the tables; a call changes what it was asked to change.
* heap: the headers tile the heap; tags agree; blocks are disjoint and never
  written by the allocator; every word of a chunk is mapped; every call ends.
* timers: the chain is complete at every moment an interrupt can come; no
  freed timer is touched or reachable; every tick is counted; timers fire.
* boot: what it still uses is mapped and cannot be given to anybody; what
  becomes free is available memory in no use; devices and the clock interrupt
  are where the firmware says.
* calibration: it ends with the frequency of the bus; every interrupt finds its
  handler and is acknowledged once.
* console: a message interrupted by another ends, in its place on the screen,
  and the colours come back.
* formatting: what C prescribes, within the limit given.
* clock: a reading is a moment that was, not a mixture of two.

## 2. Modules

| module | what it is |
|---|---|
| `PageAllocator` | abstract: a set of free pages and a set of held ones, filled while booting |
| `Pmm`, `MCPmm` | `pmm.c`; its instance for TLC |
| `PmmProofs` | theorems about `Pmm` |
| `Vmm`, `MCVmm` | `vmm.c`; its instance for TLC |
| `VmmProofs` | theorems about `Vmm` |
| `Heap` | abstract: a set of disjoint blocks |
| `Kalloc` | `kalloc.c` on `dmm.c` |
| `KallocProofs` | theorems about `Kalloc` and `KallocSizes` |
| `KallocSizes` | the size arithmetic of `kalloc.c` |
| `Timer` | `timer.c` on `llist.h` |
| `TimerProofs` | theorems about `Timer` |
| `Calibration` | `timer_init` of `timer.c` with `interrupts.c`, the RTC and the local APIC |
| `CalibrationProofs` | theorems about `Calibration` |
| `Acpi` | `acpi.c`, `madt_parser.c` and the routing of `ioapic.c` |
| `Boot`, `MCBoot` | from the loader to `_kernel_main`; extends `Acpi`; two machines for TLC |
| `BootProofs` | theorems about `Boot` and `Acpi` |
| `Console`, `MCConsole` | `kprintf.c` on `tty.c`; its instance |
| `ConsoleProofs` | theorems about `Console` and `Format` |
| `Format`, `MCFormat` | `sprintf.c` on `itoa.c`; its instance |
| `Clock` | `time_getdatetime` of `rtc.c` |
| `EndlessClock`, `MCClock` | the same against a clock that never stops; the instance of both |
| `ClockProofs` | theorems about `Clock` |

How they fit together: `Pmm` implements `PageAllocator`, and Vmm and Boot use
the frame allocator by that contract; `Kalloc` implements `Heap` and uses Vmm's
`vmm_alloc_pages` by what Vmm shows of it; `Boot` composes the start-up with
the walk of `Acpi`, which shares its program counter and machine, and passes
over `timer_init`, which is `Calibration`; the callback whose message
interrupts another in `Console` is the one that reads the date in `Clock`.

An operator named `X_Y`, marked "Seeded fault", is the operator `X` with a
plausible bug.  It is used in no specification; replacing `X` by it must make
TLC report a violation, which shows that the property about it can fail.

### Pmm

The bitmap is the set `occupied`; the three masks of `MARK_CHUNK_AUX_VAR` are
`ChunkPages`, with the code's treatment of runs of at most eight pages.  One
turn of the `while` loop of `pmm_alloc_page` is one step (`TakePage`,
`PassGroup`, `SkipFullGroup`), so that termination is a property and not an
assumption.  `GRP` is 8 in the code.  `held` is a history variable: what has
been handed out or reserved and not given back.  Callers free what they hold;
that the callers do so is Vmm's concern.

The order of boot is part of the model: `setup_memory` first frees the
available regions, then takes kernel and VGA pages out; then pages are
allocated, with the MMIO pages taken out at any moment (`_kernel_post_init`).

### Vmm

A page table is the contents of a frame (`mem`), and the directory's last
entry points to the directory: a write through the recursive slot is an
ordinary write to the directory's frame.  The frame allocator is used through
`PageAllocator`'s contract: any free frame, or a refusal at any time.  A pool
frame that is mapped is filled with junk by its owner, so a page table that
is not cleared shows.  `vmm_unmap_page` is two steps because invalidation
comes before the store; `vmm_alloc_pages` takes one page at a time.  The
remaining functions are one step each: interrupt handlers do not map memory.

Attribute bits are left out (every caller sets PRESENT).  Clients unmap pages
and not device mappings: unmapping a device page below `max_pg` would give the
device's frame to the pool, which the boot code avoids by order.

The TLB caches a translation when the kernel uses a page, between calls.  The
pages of `ReadAhead` it may cache at any moment, in the middle of a call too,
as an x86 processor is free to.  `vmm_unmap_page` invalidates before it stores
(`vmm.c:285`), so such a page can come back between the two and stay:
`TlbCoherent` is about the other pages, and `StaleOnlyByUnmap` says of all that
nothing else makes a cached translation stale.

### Kalloc

The heap is an array of words, header and footer words are records of size
and flags, and a client overwrites its whole block with junk: if the allocator
read or wrote inside a block, `BlocksIntact` or `BoundaryTags` would fail.
The walk of `lx_malloc_internal` is one step per header.  `lxbrk` maps pages
as `dmm.c` computes them; `vmm_alloc_pages` is used as Vmm describes it: all
pages or none, refused when one is mapped, refused at any time for want of
frames.

The model starts before `kalloc_init`.  That may fail twice: `dmm_init` gets no
page (`kalloc.c:68`), and neither prologue nor epilogue is written; or the first
growth gets none, and they are (`InitFails`).  The assertion of `k_init.c:233`
then stops a debug build (`pc = "panic"`), and a release build uses the heap
as it is (`pc = "idle"`); in the same way a debug build stops when `lxbrk` gets
no pages (`BrkPanic`) and a release build returns NULL (`OutOfMemory`).  The
model has both builds, and the choice is nondeterministic.  A heap without its first page has
`brk` at its start and nothing mapped: the walk ends at once, and the growth
that follows either is refused or takes the first page for mapped, because
`brk` lies in it, and reads the old epilogue there: `GrowFault` ends in
`pc = "fault"`, the handler of the page fault, which spins.  So `HeapMapped` is
about chunks and about what the walk reads, and `RefusesWithoutMemory`, which
says that the fault does not happen, does not hold.

`IsrFrees` lets the timer interrupt's `lxfree` come between two steps of the
walk.  With it the heap breaks (`IsrFrees = TRUE` in `Kalloc.cfg` violates
`BoundaryTags` and `BlocksIntact`), so the passing run is about a kernel whose
one-shot timers do not fire during an allocation.

### KallocSizes

`n * elem` (`calloc_n`, `calloc_elem`), the overflow check and the rounding, on
words of `WORD` values.  Every pair of arguments is an initial state.
`size + WSIZE` rounded up wraps for the top seven sizes, unchecked.
`ChunkHoldsRequest` says both: up to `WORD - 8` the chunk looked for holds the
request, and above it is empty or a header without a block.

### Timer

`prev` and `next` are functions on nodes; the four stores of `__llist_add` and
the read before them are steps of their own, except that the two stores to the
node nobody can reach yet are one.  The handler is one step per timer; no step
of `timer_run` falls into it.  Callbacks are left out: they print.  `list` and
`age` are history variables.

Two defects limit what the list survives, and the constants say so:

* `llist_delete` (`llist.h:54`) leaves `prev` of the following element wrong;
  with two one-shot timers in the list the second deletion does not unlink
  (`MaxOneShot = 2` violates `DeletedIsOrphan`).  `MaxOneShot = 1` in the runs.
* A one-shot timer that fires during an append can be the node the append has
  just read, and has another `prev` already (run `timer_race`).  In the passing
  run ticks come in the middle of an append only while no one-shot timer is
  registered (`OneShotRace = FALSE`); periodic timers are walked and fired at
  any point.

The case that is left is a deletion after appends in front of the one-shot timer:
if one of these did not store its `prev`, `ForwardChain` would fail.
`CountsEveryTick` compares with the deadline that is stored: that the product of
seconds and frequency was cut to 32 bits before (`timer.c:136`) it does not see.

### Calibration

The main code is `timer_init`, one step per statement; the handlers are
`intr_handler` with its subscribers, one step for acceptance, body and end of
interrupt each (interrupts are off in between, so nothing but a device can
step in).  The devices are external: the RTC sets its flag at each period and
interrupts on the edge, until register C is read; the APIC timer expires at any
moment after `MinPeriods`; pending interrupts are taken by priority, before the
next instruction when interrupts are on.  The flag of the RTC may be left over
from before, and the spurious interrupt of the 8259 on LINT0, which nobody
subscribes to, may come at any time.

Two assumptions about time: an RTC period is longer than the handling of what
is pending (`ran`, and no period before the last one was served), and the
count-down takes at least one period (a bus below 64 GHz).  `elapsed`, the
periods the count-down really took, is a history variable: the frequency
computed is compared with it.

`intr_routine_init` makes `intr_set_fallback_handler` the fallback handler
(`intr_routines.c:95`), surely meant to be `intr_routine_fallback`.
`CallFallback` does what the code does: the first unknown interrupt replaces
the fallback handler by a stack address, the second jumps there.

### Acpi and Boot

`Boot` is the whole start-up in the order of the code: `_save_multiboot_info`,
`_init_page` and the enabling of paging, `setup_memory`, stack and heap, the
switch of stacks, the release of low memory, `lock_reserved_memory`,
`acpi_init`, the mapping of the devices, the routing of the clock, and the
release of the boot's own code.  Loops take one page, region or table entry per
step.  Allocations choose any free frame, so a page table can be any of them;
nothing depends on the choice.

Each state says which pages the code touches there (`Touched`) and which frame
each must lead to (`Reaches`): `NoFault` demands that they are mapped, rightly,
and cannot be given out.  This is where the order matters: the search for the
firmware's tables begins at 0x4000, behind the three pages just released
(the comment of `k_init.c:103` says four); the memory map is read until
`lock_reserved_memory` is done and released with `hhk_init` at the very end.

The layout is the linker's, scaled: pages of 4 units, tables of 9 entries.
`kpg` holds the six boot pages of entries before paging; where the writes of
`_init_page` meet, the later one wins.  What linker, firmware and loader may do
is in named assumptions, each because the code relies on it:

* `LayoutAssumption`: low memory, `hhk_init`, the kernel and its six tables fit
  in the tables that `_init_page` writes (`hhk.c:171-175` stops the boot for a
  kernel that does not), and kernel, screen, heap and stack have addresses of
  their own;
* `MapAssumption`: the regions of the map are apart.  Available ones begin on a
  page (`k_init.c:181` rounds the base up and the length down, one by one) and
  end below `max_pg`; reserved ones above low memory end on a page
  (`k_init.c:139` counts their pages from the length alone).  Pages 1 and 2 are
  available, not reserved: otherwise `lock_reserved_memory` maps them, and the
  mappings of APIC and I/O APIC at these addresses are silently refused
  (`k_init.c:117`, `vmm.c:59`);
* `FirmwareAssumption`: the firmware's tables are in the area that is searched
  or in regions that are not available, below the screen's and the kernel's
  addresses or between them (`lock_reserved_memory` would map a table at the
  address of the kernel or the screen onto what is there); the devices are not
  in available memory;
* `MemoryAssumption`: there are frames for the stack, the heap's first page and
  every page table the start-up needs (results of `vmm_alloc_page` are
  ignored);
* `AcpiAssumption`, `MadtAssumption`: one I/O APIC and one MADT, whose entries
  follow one another to its end; overrides of lines below 24, one per line; no
  entry of length 0 (the walk of `madt_parser.c:38` would not end); the first
  RSDP signature is the real one (the checksum is looked at in debug builds
  only).

### Console

One step is one statement that touches cursor, theme or buffer, in three
contexts: the kernel, a timer callback, a panic.  An inner context runs to its
end before the outer goes on; a panic spins.  The read-modify-write of a cursor
variable within one statement is taken as one step; an interrupt between its
load and its store, where the compiler makes two of it, would only have its
own cursor movement overwritten.  What is displayed
is left out; where the next character goes is kept, because `tty_put_char`
indexes the screen with it before it tests it.

A callback that comes in the middle of a character may find the cursor one
place or more outside and write there (`tty.c:47`); `OnScreen` excepts exactly
that case.  The interrupted code itself, and a panic, never do.  A message
formatted over one that is being printed is printed twice in part, or cut; it
always ends.

`Room` is tested once for an element of the format, as in `sprintf.c:35`, and
the element is then written whole (`FormatElement`, `FormatChar`): the longest
(`MAX_FIELD`) may overwrite the last byte of the buffer and up to
`MAX_FIELD - 1` bytes behind it.  The model keeps that memory, up to `LAST`,
with the mark "others" for what is not text.  `StringEnds` says that a reader
finds a NUL before any such byte: text that overran the end was closed by the
NUL after it, or by the one of the text it was written over.  That the overrun
destroys what others keep there is not denied.  Excluded is that the owner of
that memory writes to it while a text lies there, and so might remove the NUL.

### Format

An element of the format string per step: an ordinary character or a
conversion, with the flags, width and precision the parser would find.  `itoa`
and `strnlen` do what the code does.  `Standard` is what C prescribes, put
together from the rules of C and not from the code (`Digits`: a figure for each
place, none for a leading zero).  `AsInC` lists where the
two differ, and excepts it: `%u` from 2^31 on and `%d` of the least integer
(`itoa.c:30` takes an int), a string cut by its precision comes out a character
longer (`strlen.c:15`), 0 with precision 0, `%#X`, and a negative width given
by `*`.  `LimitHolds` says how far the limit may be overrun: by less than one
element, because it is tested before each element only (`sprintf.c:35`).

### Clock

The MC146818 is external: it counts seconds, minutes and so on to the century,
leap days included, encodes its registers in binary or BCD, with 12 or 24
hours, and announces updates.  The code reads one register per step, and an
update may fall between any two reads, with at least `pace` reads from one to
the next: 3 for a reader that is held up all the time, 14 for one that gets
through two readings.  The code
compares all fields but the hour (`rtc.c:45`); that this is enough depends on
seconds being read last, so two equal readings have a whole reading between
two equal seconds.  The static `datetime` of the caller goes from call to call,
so the first comparison is with the converted result of the call before.

`Clock` stops after `MaxTicks` updates, which is enough for what a call returns
but makes any loop end.  The run therefore has the specification of
`EndlessClock`: when two readings fit between updates (`TwoReadings`, a pace of
14 or more) updates go on for ever, and after `MaxTicks` of them the clock is set
back to one of its starts, so that an endless sequence has finitely many states.
`ReadingEnds` is about these; no fairness makes updates stop.  A reader that is
held up more may loop for ever: with updates that never stop TLC finds such a
loop for each pace up to 9 and none from 10 on.

With 12-hour encoding the conversion is wrong for 12 a.m. and every hour after
noon (`rtc.c:88` tests the hour after `bcd2dec`, and masks it); `ReadingIsExact`
excepts these.

## 3. Runs

| run | bounds | shows |
|---|---|---|
| `pmm` | 3 groups of 4 pages, `MaxPg` = 10, 2 MMIO-like pages | `TypeOK`, `HeldOccupied`, `HandedOutReturnable`, `AllocTerminates`, `ImplementsPageAllocator` |
| `vmm` | tables of 3 entries, 3 frames, one VGA and one MMIO frame, requests of up to 3 pages, one page read ahead | `InUseNotFree`, `NoSharedFrames`, `TlbCoherent`, `StaleOnlyByUnmap`, `AllOrNothing`, `OnePageAtATime`, `CallsReturn` |
| `kalloc` | pages of 4 words, range of 13 words, chunks of 2, 3 and 5 words | `ChunksTile`, `BoundaryTags`, `BlocksIntact`, `HeapMapped`, `MallocReturns`, `ImplementsHeap` |
| `sizes` | all pairs of 7-bit arguments | `ChunkHoldsRequest`, `NoFalseAlarm` |
| `timer` | 3 timers, periods of 1, 3 and 2^w ticks, 2-bit counters | `ForwardChain`, `NoUseAfterFree`, `NoTimerLost`, `CountsEveryTick`, `TimerFires` |
| `calibration` | a count-down of 1 to 3 RTC periods, one spurious interrupt | `NoUnknownInterrupt`, `AcknowledgedOnce`, `FrequencyIsMeasured`, `TicksKeepComing` |
| `boot` | two machines, 81 pages of address space, 24 of memory | `NoFault`, `FreeIsUsable`, `DevicesReached`, `RtcRouted` |
| `console` | a screen of 3 by 2, a buffer of 4, elements of up to 3 characters, four messages, three contexts | `StringEnds`, `ThemeRestored`, `OnScreen` |
| `format` | 6-bit arguments, every set of flags, 4 widths, 3 precisions, 8 conversions, limits of 0, 1, 2 and 4 | `FormatsLikeC`, `LimitHolds` |
| `clock` | 4 starts, 4 encodings, paces of 3 and 14, 4 updates or updates without end | `ReadingIsExact`, `ReadingEnds` |
| `pmm_complete` | as `pmm` | violation of `AllocComplete` |
| `timer_race` | as `timer`, `OneShotRace` | violation of `DeletedIsOrphan` |

Why the bounds are enough to be interesting:

* `pmm`: memory ends inside the third group (two of its pages do not exist),
  one region crosses a group and has a tail, another loses its tail, the kernel
  chunk begins at page 0, and one MMIO page lies beyond `MaxPg`.  Searches
  start at every page, so the wrap is taken from every place, with full groups,
  partly full groups and none free.
* `vmm`: three frames are too few for three pages and two page tables, so every
  call also fails at each of its points; requests cross from one table into the
  next and meet pages that are mapped.  The search runs off the end of its
  table.  One page is read ahead, also between the two steps that unmap it, and
  the others are not.
* `kalloc`: the first page and each growth may fail, in both builds; the first
  growth fills one page, further ones cross two page boundaries and the end of
  the range; request sizes give exact fits, a remainder of one word, and
  merging with both neighbours.  The second growth can end with `brk` on the
  last word of a page.
* `sizes`: 7 bits hold every relation of two factors, their truncated product
  and the top seven values; WORD enters the code only through wrapping.
* `timer`: two neighbours of the one that changes, and a frequency whose
  product with the seconds wraps (3 * 3 mod 4) or is 0.
* `calibration`: every number of periods gives another frequency, so a tick too
  few or too many shows; a period can end at each statement of the set-up, of
  the handlers and of the clean-up.

* `boot`: the kernel's tables take three directory entries, as in the code; the
  memory of one machine ends inside of a page, its devices and firmware tables
  are in the map, and its clock interrupt is overridden; the other has a hole
  in low memory and an override of another line.
* `console`: a message whose last field ends two characters behind the buffer,
  one that is cut off before such a field, one that is wider than the screen,
  one that leaves it at the bottom; a tab and a return.  One message in the
  middle of another is the depth the code allows, and a panic.
* `format`: fields shorter, as long as and longer than width, precision and
  limit; 31 and 32 are the sides of the sign bit.
* `clock`: the starts lie one or two seconds before a new minute, hour, leap
  day, noon, month, year, century.  The setting back changes any of the fields.

`CHECK_DEADLOCK FALSE` is used where the system may stop: after a page fault
(Vmm, Kalloc), after a panic (Kalloc, Console), at the end of a calculation
(KallocSizes, Format) or of the start-up (Boot).

### Fairness

Sequential code that waits for nobody runs on: weak fairness of the loop of
`pmm_alloc_page` (`Scan`), of `vmm_alloc_pages` (`Running`), of the walk of
`lxmalloc` (`Malloc`) and of the timer handler (`timer_update`).  No fairness
is given to callers: nobody has to allocate, free or register.  The APIC timer
is in periodic mode, so ticks keep coming (`WF_vars(Tick)`).  `timer_run` is
disabled while a handler runs and a handler always returns to it, so it is
given strong fairness (`SF_vars(llist_append)`): it makes progress between
ticks as long as ticks do not take the whole processor.  In Calibration the
processor executes `timer_init` and handlers, and both clocks go on: weak
fairness of each.  In EndlessClock the reader runs on and an update that has
begun ends; nobody has to ask for the date, and whether another update begins
is open.  Clock itself has no liveness property and no fairness.

### What the runs say against the code

Two runs end in a violation; `PROJECT.json` quotes what the code says of
itself.

* `pmm_complete`: the pointer of the next-fit search stays behind the end of
  memory after a search that found nothing, and is not set back by the next
  call: that returns NULL at once, although a page was freed in between
  (`pmm.c:124`).
* `timer_race`: a one-shot timer fires after an append has written its `prev`;
  it is unlinked from the new node, which nobody can reach yet, and freed, and the
  list leads to it (`llist.h:42`).

More defects can be seen by changing a line or two of a configuration, with the
invariant named here in place of its own:

| defect | how to see it |
|---|---|
| a failing `vmm_alloc_pages` loses the frame it had just taken (`vmm.c:230`; the comment of line 232 says it releases what it took) | `NoLeak` in `MCVmm.cfg` |
| only a search that comes to the end of memory through a full group goes on at the start; one that passes a partly free group there returns NULL with pages free below (`pmm.c:129-136`) | `SearchWraps` in `MCPmmComplete.cfg` |
| after a failed `dmm_init` a release build uses the heap, and the first `lxmalloc` faults where it should return NULL (`kalloc.c:68`) | `RefusesWithoutMemory` in `Kalloc.cfg` |
| of two one-shot timers next to each other that fire in one interrupt, the second stays in the list after it is freed (`llist.h:54`) | `MaxOneShot = 2` and `DeletedIsOrphan` in `Timer.cfg` |
| the timer interrupt frees into a heap that is being walked (`timer.c:175`) | `IsrFrees = TRUE` in `Kalloc.cfg` |
| `lxcalloc` misses overflows whose product exceeds both factors (`kalloc.c:89`) | `OverflowIsDetected` in `KallocSizes.cfg` |
| the second unknown interrupt jumps to a stack address (`intr_routines.c:95`) | `MaxStray = 2` in `Calibration.cfg`: the run ends in the deadlock of a stopped kernel |

The models also contain, without a property that claims otherwise, the chunk
marking that loses the tail of short runs (`pmm.c:75`, `ChunkPages`), the
search that faults at a missing page table (`vmm.c:158`, `MapFault`), the
invalidation before the store, which leaves a page that was read ahead between
the two in the TLB (`vmm.c:285`; `TlbCoherent` excepts these pages,
`ReadAhead`), the heap that cannot grow once `brk` is the last word of a page
(`dmm.c:60`, `OutOfMemory`), sizes near 2^32 that wrap (`kalloc.c:141`; the
second case of `ChunkHoldsRequest`), and the differences listed above under
Boot, Format and Clock.

## 4. Proofs

`PmmProofs` proves, for every group size, bitmap size, memory size, list of
regions and set of MMIO pages:

* `TypeCorrectness`: `Spec => []TypeOK`;
* `NoDoubleHandOut`: `Spec => []HeldOccupied`;
* `HandedOutCanBeFreed`: `Spec => []HandedOutReturnable`;
* `Refinement`: `Spec => ImplementsPageAllocator`.

The assumptions are `SizeAssumption` (the bitmap covers `max_pg`) and
`RegionAssumption`: what marking the available regions frees lies below
`max_pg`, and what is reserved lies in the bitmap.  The first half holds on a
machine whose multiboot map agrees with `mem_upper`; the code does not check it.

The argument about `Pmm`: `HandedOutReturnable` is not inductive, because the
inner loop may look at pages beyond `max_pg`.  It is safe only because those
pages are never free, which is the strengthening `FreeInMemory`: pages become
free in two ways, by regions (below `max_pg` by assumption) and by
`pmm_free_page` (which checks).  `IInv` is `TypeOK`, `HeldOccupied`,
`FreeInMemory` and `HandedOutReturnable`; `InitIInv` and `StepIInv` show it
inductive, one step per action.  That the pointer stays positive needs
`NextGroupAdvances`.  For the refinement, `StepRefines` gives for each action
the abstract step it takes.

`CalibrationProofs` proves, for every calibration constant, frequency and
bound:

* `EveryInterruptAcknowledged`: `Spec => []AcknowledgedOnce`;
* `NoInterruptUnknown`: `Spec => []NoUnknownInterrupt`;
* `MeasuredFrequency`: `Spec => []FrequencyIsMeasured`;
* `PeriodsWereCounted`: the division of `timer.c:183` is never by zero.

The first two use only that `NULL` is no handler.  `AcknowledgedOnce`
is inductive; `NoUnknownInterrupt` is not.  The invariant says for each
statement what the subscriber table holds (`Table`), when interrupts are on
(`InterruptFlag`), and confines each device to the statements at which its
handler is there: the APIC timer to the wait before `apic_timer_done` and to
the running kernel (`ApicPhase`), the RTC to the statements from its enabling
to the end of the wait (`RtcPhase`).  That the wait ends with no RTC interrupt
pending is the point of the proof: the handler of the APIC timer turns the RTC
off, and an interrupt that was raised during that handler is taken before the
main code runs again, because 210 is the highest vector (`RtcFirst`).

For the frequency the periods noticed, counted or pending (`Periods`), are
compared with those the count-down took.  While it lasts they differ by the one
period that may have been left over (`PeriodsNoticed`).  After it (`RunDown`)
main code no longer runs, so one more period can end at most; and none is
pending when the handler of the APIC timer is taken, again because of the
priorities, so every period of the count-down is in the count.  The count is
not zero because the count-down lasts a period (`MinPeriods`).

`ConsoleProofs` proves, for every size of the screen and of the buffer and
every set of messages:

* `EveryTextEnds`: `Spec => []StringEnds`, with the limit tested once for each
  element.  `BufferOk` says that no index passes `LAST` (`Formatting`); that what is
  not text begins behind the buffer and behind every text that is being written
  (`OthersBehind`); and that a reader has a NUL before it, unless who interrupted
  it has written farther than it has read and will end its text there
  (`EndAhead`);
* `ColoursComeBack`: `Spec => []ThemeRestored`.  The colours on the stack of
  the outermost message are the default ones, and inner messages end before
  outer ones go on (`Themes`);
* `CharactersOnScreen`: `Spec => []OnScreen`.  `At` says what a statement of
  `tty_put_char` needs of the cursor; `Cursor` demands it for the innermost
  context, and of a callback between its own characters what the interrupted
  statement needs to go on.

Its end is about `Format`, whose variables and specification have names of
their own so that one module can extend both.  For every size of an int, every
limit, and every set of formats whose elements are what the parser finds with
an argument of the type it reads (`FormatAssumption`, `IsElement`):

* `TextFits`: `FormatSpec => []LimitHolds`.  `Within` keeps room for one more
  character than `LimitHolds` asks for while the loop runs, because the NUL
  comes without a test.  Most of the work is that an element is written as a
  text of some length at all (`FieldIsText`).  For a number that is the
  recursion of `itoa.c:7-27`: there is no least number for which it has no
  solution (`FiguresExist`), and none for which a solution is not a text
  (`DigitsAreText`), both by `LeastMember`;
* `TextIsStandard`: `FormatSpec => []FormatsLikeC`.  There is no least number
  for which `itoa` writes other figures than `Digits` (`ItoaWritesDigits`):
  `Digits`, one figure per place, obeys the recursion of `itoa.c:7-27`
  (`DigitsUnfold`), since a number has one figure more than its quotient by the
  base (`CountGrows`) and dividing by a place is dividing twice
  (`DivideTwice`).  `FieldIsStandard` then compares sign, zeros and padding,
  conversion by conversion, for every element that `AsInC` admits, and
  `FlattenMore` adds the element to those before it (`Written`).

`ClockProofs` proves `ReadingIsAMoment`, `Spec => []ReadingIsExact`, for every
set of starting times, every pace and every number of updates below a minute's
(`ClockAssumption`).  The invariant counts updates: a reading carries the
second of the update it was ended after (`SecondAt`), a second names that
update as long as the call takes less than a minute (`SecondsDiffer`), so two
readings that agree enclose no update and the later one shows a single time
(`CompareInv`).  The date of the call before never agrees, because its year
has four digits or its month is 0 (`Stale`, `FreshRegister`).

`VmmProofs` proves, for every table size, pool of frames, boot map, set of
requests and choice of the frame allocator:

* `NothingInUseIsFree`: `Spec /\ []SearchBelowTop => []InUseNotFree`;
* `FramesHaveOneOwner`: the same for `NoSharedFrames`;
* `AllocPagesIsAtomic`: the same for `AllOrNothing`;
* `StepsAreLocal`: the same for `OnePageAtATime`;
* `OneWindowForStaleEntries`: the same for `StaleOnlyByUnmap`, for every
  set of pages that the processor reads ahead: a step that turns a cached
  translation into a stale one is the store of `vmm_unmap_page`, for the page
  being unmapped, and that page is read ahead.

`SearchBelowTop` is a hypothesis about the run, and not a formality: the search
of `vmm_map_page` (`vmm.c:158-171`) steps from a full table into the next
without a look at the directory, and from the last one into the recursive slot,
where the "free entry" it may find is an empty directory entry; the page it
maps there would become a page table full of old data.  `SearchBelowTop`
says that no search stops there.  It holds in every reachable state of the
`vmm` run, whose first table is always there; in general it needs a hole in
the directory below and every page from the address asked for up to the top
taken.  The other
hypothesis, that a frame of the pool is in the boot map once, is in
`VmmAssumption`.

None of these is inductive alone.  `IInv` has five parts: `Tree` (the directory
leads to itself in its last slot and to a table of its own in each other one),
`Ownership` (tables, pages of clients and free frames are disjoint, a frame of
the pool is behind one page), `Control` and `Progress` (what an interrupted
`vmm_alloc_pages` has mapped, compared with the address space `before` it), and
`Cached` (what the TLB holds of a page that is not read ahead is the tables' or
empty).  The page tables are treated as values: lemmas say what writing one
entry does to the tree, what clearing a new table through the recursive slot
does, and that a step that makes a table changes no other translation.

`KallocProofs` proves, for every size of heap and pages and every set of
requests of at least a word, on pages of more than one word, if no interrupt
frees during a walk (`~IsrFrees`; with it the claims are false, see Kalloc):

* `HeadersTileTheHeap`: `Spec => []ChunksTile`;
* `TagsAreRight`: `Spec => []BoundaryTags`;
* `OwnersKeepTheirWords`: `Spec => []BlocksIntact`;
* `HeapIsMapped`: `Spec => []HeapMapped`, also of a heap that `kalloc_init`
  failed to set up;
* `Refinement`: `Spec => ImplementsHeap`.

`IInv` has two cases.  `Unset` is the heap before `kalloc_init`, and for ever
if `dmm_init` failed: no header, no block, nothing mapped unless the machine
has stopped, and no step of a walk.  `Usable` is the heap once prologue and
epilogue are written: it is `Sound`, its owners' blocks are the chunks in use
and full of what they wrote (`Owned`), the pages up to that of the epilogue are
mapped, and a walk stands on a header (`Walking`).  `Sound` is three things:
the headers tile the heap (`Tiled`), flags and footers are right (`Tagged`), no
two free chunks are neighbours (`Separate`).  Releasing a chunk breaks the last
two for a moment: `Loose` says how far, and the lemma `Coalesce` shows that all
four cases of merging (`kalloc.c:206-231`) lead from a loose heap back to a
sound one.  Freeing and growing make a loose heap (`Release`, `Extend`) and end
in `Coalesce`; `place_chunk` takes a chunk, or splits one off, without a loose
moment (`Place`).  The proof is by the order of the headers and needs no
induction: a chunk's neighbours are the ones the flags and sizes lead to, and
every other header lies before or behind.

The end of `KallocProofs` is about `KallocSizes`, for every size of the machine
word that `WordAssumption` admits (a multiple of the alignment, above 8):

* `WhichRequestsFit`: `SizesSpec => []ChunkHoldsRequest`, with the sizes that
  wrap as its second case;
* `OnlyOverflowsAreRefused`: `SizesSpec => []NoFalseAlarm`.

The two models share no variable; one module of proofs extends both, which is
why `KallocSizes` calls its variables and its specification by names of their
own.

`TimerProofs` proves, for any number of periodic timers, every frequency,
deadline and width of the counters, within the two bounds named under Timer
(`MaxOneShot <= 1`, `~OneShotRace`; beyond each the run with it violates
`DeletedIsOrphan`):

* `TheListIsWhole`: `Spec => []ForwardChain`;
* `NothingFreedIsUsed`: `Spec => []NoUseAfterFree`;
* `NoTimerIsLost`: `Spec => []NoTimerLost`;
* `EveryTickIsCounted`: `Spec => []CountsEveryTick`.

`IInv` has, besides the types, `Registered` (`next` leads through the list, the
new node's fields are what the statement of the append says), `OneShots` (there
is at most one, and its `prev` is the node before it, or the new node while an
append is between its stores) and `Walk`.  During a tick the invariant is about
the place at which the handler stands (`StandsAt`): the timers before it have
counted the tick, the others not.  `CountsEveryTick` holds between ticks only,
and needs that strengthening to get from one to the next; `CountOneTick` is the
arithmetic, with counters that wrap.  A list is treated by the element at each
place, with the head at both ends (`At`): `WithoutPlaces` and `PrependPlaces`
say where the elements go when one is deleted or put in front.

`BootProofs` proves, for every size of pages and tables, every layout, memory
map and set of firmware tables that meets the assumptions listed under Boot,
and every choice the frame allocator makes:

* `BootInductive`: `Spec => []IInv`;
* `NothingFaults`: `Spec => []NoFault`;
* `FreeFramesUsable`: `Spec => []FreeIsUsable`;
* `DevicesAreReached`: `Spec => []DevicesReached`;
* `ClockIsRouted`: `Spec => []RtcRouted`.

`PagesInitialised` and `FirstTables` compute what `_init_page` leaves for every
layout: its writes do not meet, and the processor finds the low pages mapped to
themselves and the kernel `HIGHER` up.  From there `IInv` follows the start-up.
`Paged` says what is mapped: what is still needed of low memory (`Kept`), the
kernel, the screen, the stack, every page of a reserved region that
`lock_reserved_memory` has come to (`LockedMapped`), the devices.  That a
mapping is not only there but right comes from `LowerIdentity`: below the
kernel each entry is the identity or absent until the devices are mapped, so a
mapping that is refused because another is in the way does no harm, except at
pages 1 and 2, which is why these must be free (`DevicesMapped`).

`FreeIsUsable` alone is not inductive, because a release may free a frame that
is mapped a second time: the screen's page, for example, is, and is not
released.  `Sole` says that the pages to be released are mapped once and are no
page tables.  `Free` says that free frames are of available memory and in no
table, which the locked regions cannot break, since a page of a reserved region
meets no available one (`HeldNotMet`).  That an allocation never fails
(`Enough`) counts the pages and page tables still to come against the free
frames; the count holds step by step because a page table is made in a
directory entry that is one of `UsedSlots`.

For the firmware's tables, `Walking` says what the context holds of the entries
before the one the walk has come to (`ParsedBelow`).  At the end of the MADT
that is all of them (`Complete`), whatever tables follow it.  `Selected` then
shows that the register of the redirection is the one of the pin, and
`Redirected` that no other register is written.

Only model-checked: liveness (`AllocTerminates`, `CallsReturn`,
`MallocReturns`, `TimerFires`, `TicksKeepComing`, `ReadingEnds`), because TLAPS
proves nothing about fairness and `ENABLED`.  Every safety property that a
passing run checks is stated by a theorem, except `TlbCoherent`, which is what
`StaleOnlyByUnmap` comes to between calls.  None of the modules declares a
recursive operator.  Where a function is recursive (`itoa`, the places of
`Digits`, `FlattenSeq`) the induction is by the least counterexample: the
theorem of the library that takes a set (`WFMin`) can be cited where those that
take an operator cannot.

## 5. Plan

Done, in this order: `Pmm` with `PageAllocator` and `PmmProofs`, `Vmm`,
`Kalloc` with `Heap`, `KallocSizes`, `Timer`, `Calibration` with
`CalibrationProofs`, `Clock`, `Format`, `Console`, `Acpi` and `Boot`,
`ConsoleProofs`, `ClockProofs`, `VmmProofs`, `KallocProofs`, `TimerProofs`,
`BootProofs`.

Left:

1. Vmm: which boot maps and requests rule out that the search stops in the
   recursive slot, in place of the hypothesis `SearchBelowTop`.
2. Heap and timers composed: one-shot timers allocated and freed by the heap.
3. That the fallback handler is always a function (it is not, after two unknown
   interrupts).

## 6. Not modelled

* Segment and interrupt descriptor tables, register access, the build: single
  instructions and constants.
* The contents of the screen, `tty_clear` and `tty_clear_line`; logging; page
  attributes; the register writes of `apic_init`.
* The memory and string functions of the C library other than `strlen` and
  `strnlen`: single loops without a decision.
* `lxsbrk`, `llist_prepend`, `unlock_reserved_memory`: they have no caller.
* Panic routines: a message (`Console`) and a halt.
