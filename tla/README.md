# System/14 in TLA+

System/14 is a small x86-64 kernel in C. This directory holds TLA+ models of
its parts, the TLC configurations that check them on small instances, and
proofs that TLAPS checks for instances of any size.

    tlc -config MCScheduler_core.cfg MCScheduler      one run
    tlapm SchedulerProofs.tla                         the proofs of one module

`PROJECT.json` lists the components, runs, theorems, hazards and findings, and
maps each definition to the lines of the source it models. Paths below are
relative to `src/`.

## The system

| Part | Source | State | Interacts with |
|---|---|---|---|
| Boot sequence | `bootstrap/kmain.c` | none of its own | calls every `Initialize*` once, then loads `a.out` from the ramdisk and halts |
| Bootloader interface | `bootstrap/bootloader.c`, `limine.h` | Limine's responses | memory map for the allocator, framebuffer, ACPI root, modules |
| Page frame allocator | `mm/allocator` | `FrameList` | page tables, heap, `AllocatePage` |
| Paging | `mm/paging` | page tables, `GlobalPagingInfo` | takes pages; the interrupt stubs load the kernel's tables |
| Virtual page allocation | `mm/vmm` | none | `GetCurrentProcess`, `PageAlloc`, `MapMemory` |
| Kernel heap | `mm/heapalloc` | list of free nodes | takes pages; used by scheduler, ramdisk, `_kmain` |
| Scheduler | `multitasking/scheduler.c` | list of `ProcessFrame`s, `current` | entered by the RTC interrupt |
| Interrupt stubs and handlers | `interrupts` | IDT | scheduler, keyboard, system calls, exceptions |
| APIC, ACPI, RTC, PIT, PCI Express | `drivers` | device registers | deliver the interrupts; enumerate devices |
| Keyboard | `drivers/keyboard.c` | shift flag | prints from its interrupt |
| Ramdisk, ELF | `ramdisk`, `elf` | list of files | heap; `_kmain` reads `a.out` |
| Terminal, printf, strings | `util` | static buffers, cursor | called from everywhere, handlers included |
| System calls | `syscall` | none | `int 0x80` |
| GDT, panic, errors, CPU identification, spinlock | `gdt`, `system`, `multitasking/spinlock.c` | constant tables, one lock word | the lock has no user |

There is one CPU. What runs concurrently is `_kmain`, the tasks, and the
interrupt handlers that come between any two of their instructions while IF is
set.

## Modules

| Module | Models | Extended by |
|---|---|---|
| `Scheduler` | `scheduler.c`, the stubs of `interrupt.asm`, the handlers of `idt.c` | `SchedulerPool`, `SchedulerProofs` |
| `TaskPool` | what the scheduler promises, without lists, quanta or registers | instance in `SchedulerPool` |
| `SchedulerPool` | the refinement mapping | `MCScheduler` |
| `PageAllocator` | `allocator.c`, one action per access to `FrameList` | `MCPageAllocator`, `PageAllocatorProofs` |
| `PagePool` | what the allocator promises: an atomic pool of pages | instance in `PageAllocator` |
| `Heap` | `heap.c` on top of a `PageAlloc` that hands out ascending pages | `MCHeap`, `HeapProofs` |
| `Paging` | `paging.c`, `AllocatePage` and the stacks of processes | `MCPaging`, `PagingProofs` |
| `Interrupts` | the set-up of IDT, legacy controllers, MADT, I/O APIC and real-time clock, and the clock | `Boot` |
| `Pcie` | the enumeration of `pcie.c` | `Boot` |
| `Ramdisk` | `tar.c`, with an instance of `Heap` | `Boot` |
| `Boot` | `_kmain`: composes the three above and the heap | `MCBoot`, `BootProofs` |
| `Console` | `print.c`, `string.c`, `serial.c` and `keyboard.c`, one store or port access per step | `MCConsole`, `ConsoleProofs` |
| `ListLemmas` | lemmas about linked lists as sequences | `SchedulerProofs`, `HeapProofs` |
| `PageTableLemmas` | lemmas about the shape of page tables and walks through them | `PagingProofs` |

Some definitions have a faulty variant in front of them (`NextPidWide`,
`FreedNot`, ...). No specification uses one; putting it in the place of the
definition it precedes makes a property fail, which shows that the property
depends on that line of the code.

### Scheduler

`procs` is the list behind `prochead.next`; `orphanNext` keeps the next pointers
of frames that were unlinked, since `TerminateTask` leaves them in place and
`TaskSwitch` may follow them. `pid`, `quanta`, `registers` and `invalid` are the
fields of `struct ProcessFrame`. `cpu` holds the live registers: `rbx` stands for
all that `TimerStub` pushes untouched and counts instructions, `rdi` is apart
because `cr3load` uses it. `done` is a history variable, the instructions a task
has really executed.

Every gate is an interrupt gate, and `IntAddTask`, `TerminateTask` and
`ProcessExit` run under `cli`, so each handler and each of these calls is one
step.

| Action | Code |
|---|---|
| `Work` | an instruction of the running context |
| `IntAddTask` | `IntAddTask`, through `AddTask` or `KeAddTask` |
| `IntAddTaskFails` | the same when `malloc`, `CreateProcessPML4` or `PageAlloc` faults or panics in it |
| `MarkSchedulingActive` | the same (its call in `_kmain` is commented out) |
| `SyscallStub`, `KeyboardHandler` | the same; both leave the kernel's tables loaded |
| `Exception` | an exception handler and `CommonExceptionHandler` |
| `ProcessExit` | the same |
| `TerminateTask` | the same, called by a task (only in `NextApi`) |
| `TimerStub` | `TimerStub`, `TaskSwitch`, `_TaskSwitch_Stage2`, by the case `TaskSwitch` meets |
| `Halted` | `panic()` and the other ends |

A NULL dereference is taken to fault: `CreateDefaultMappings` maps page 0 to itself
only if the memory map has an entry with base 0.

`FbMapped` says whether process tables map the framebuffer. `CreateProcessPML4` does not
map it, so it is FALSE in every run: an exception under a process's tables prints, faults
again and stops the machine, as does a panic in a task's `AddTask`. The properties are
about the kernel up to then, and `TicksNeverStop` says that a tick is never what stops it.
A task's stack is taken to be mapped by its tables; `Paging` has the case where it is not.

`TerminateTask` returns with interrupts off, and nothing turns them on again for the
task that called it. `scheduler_api` lets tasks call it all the same and checks that
contexts survive; that its caller is never preempted again is noted as a hazard.

### PageAllocator

`ptr` and `free` are `FrameList`; `pc` and `idx` are each caller's position in
`PageAlloc`; `masking` is the caller that runs with interrupts off. Callers in
`Masked` have IF clear during the call, as in `IntAddTask`. Others can be
preempted between two accesses, as in `AllocatePage`. `held` and `dirty` are
history: who was given which page, and which pages hold data.

### Heap

Addresses are numbers and a node lies in the memory it describes. `freeList` is
the list behind `head.next`, `blocks` the allocations. `alloc` is `_alloc`, split
by what `FindAndRemoveNode` meets: `ReuseNode`, `FreshPage`, `FreshBlock`. No
reachable code calls `PageFree`, so page k is at `k * PageSize`. Calls are serial:
`IntAddTask` calls with interrupts off and the other callers run before there is a
task.

`_alloc` lists what is left of a node even if it is shorter than a header, and takes the
padding of an aligned allocation off nothing. `Carve` therefore knows where the memory of
its node ends: when the header of the new node would be stored past it, the mode is
`"strayed"` and the list is not followed any further. `free` of a pointer that
`aligned_alloc` moved away from its header strays as well (`freeMoved`: the word in front
of the pointer is taken for a size). With the code's numbers, a request that leaves 1 to 15
bytes of a node strays, and so does an aligned request for 2000 bytes after one for 5000,
which fits the remainder of the first only without its padding.

### Paging

Addresses are page numbers. `mem` holds the tables, a function from physical pages
to arrays of entries; `GetEntryNextLevel` and `MapMemory` work on it as the code
does, one call of `MapMemory` per step. `todo` are the calls the loops of
`CreateDefaultMappings` and `CreateProcessPML4` have still to make. `wanted` is
history: what was asked for, which `MapsAsAsked` compares with `Walk`, the
processor's translation. A store through a 2 MiB entry goes to memory that is no
table (`spoilt`) or, if a table lies there, damages it; the model does not follow a
damaged table further, and the properties leave that mode out.

`stacks` has the page each process's stack pointer starts at. `IntAddTask` points `rsp`
at the start of the page it takes, so the first push of a task (`TaskPushes`, external: the
task's own code) goes to the page before, which is the last table `CreateProcessPML4` took
for the task. If the task's tables do not map that page, the push faults, the fault's own
frame does not get through either, and the machine resets (mode `"reset"`); if they do, the
table is overwritten (`"damaged"`). The layouts of the run reach the first case only. The
properties hold up to that push; none says that it is harmless.

### Console

Every task may be preempted between any two stores of `printf`, and handlers print
with interrupts off, so `printf` is a process: `stage` is where a printer is, `rest` the
conversions and literal texts still to print, `value` and `index` the locals of `itoa`
and `hexToString`. `ret` and `hexString` are the static buffers all printers share.

| Action | Code |
|---|---|
| `InitializeTerminal` | the same |
| `printf` | one turn of its loop; `lprint` gives its text the same way |
| `itoaEnd`, `itoaDigit`, `hexEnd`, `hexDigit` | the stores of `itoa` and `hexToString`, one each |
| `printChar`, `printDone` | one turn of the loop of `print` |
| `write_serial`, `outb` | the wait for the transmitter, and only then the port access |
| `flanterm_write` | the end of `putchar`; flanterm itself is external |
| `KeyboardHandler` | the interrupt with `KeyboardDriver`, up to its `printf` |
| `EnterHandler`, `LeaveHandler` | entry and `iret` of another handler that prints |
| `Transmit` | the serial port (external): it holds one character, and a character written over another one is lost |

Messages and scan codes come from `Scenarios`. Characters are numbers, and the keyboard
has a shift key, an Enter key and one more, each with a code for its release.

### Boot, Interrupts, Pcie, Ramdisk

`pc` goes through the calls of `_kmain` and `InitializeIDT` in the order `Kmain`
lists, with a loop each for the MADT, the buses, the archive and the program's segments.
The nodes of the list of files, the program and its segments come from the heap (`Request`),
an instance of `Heap`, and a request that faults or panics there ends the boot (`Requested`).
Once the heap has strayed, a request may return, fault or panic. `malloc` never returns
NULL, so the branch of `_kmain` that refuses to load is not reached. A machine is a
record of what firmware and bootloader provide. A NULL dereference resets the
machine before `lidt` and panics after it. `Clock` and `Tick` come between any two
steps: the clock's flag raises one edge, which is latched if the I/O APIC entry is
there and lost otherwise, and the next edge needs `RTC_Check`. The archive is a
sequence of blocks as tar writes them; `ReadsLatest` speaks of data blocks, so it
sees a read that is off by a block. A gate holds its handler's address in three parts,
as `AddIDTEntry` splits it, and `Target` is what the processor puts together again; an
exception without a gate becomes a double fault (`Escalated`). Firmware leaves the legacy
controllers' lines masked or not (`FirmwareMasks`), at vectors that are the exceptions',
until `RemapPIC` and `DisablePIC`. Components' state is in their own modules;
their actions take the machine's part as an argument.

## Runs

| Run | Specification | Shows |
|---|---|---|
| `scheduler_core` | `FairSpec` | invariants, action properties, liveness and refinement of `TaskPool` until memory runs out or an exception stops the machine, which no tick does, with `TaskSwitch` as the only caller of `TerminateTask` |
| `scheduler_api` | `SpecApi` | registers survive even when tasks call `TerminateTask` |
| `timer_rdi` | `Spec` | violation: a tick loses the task's `rdi` |
| `pages_masked` | `Spec` | the allocator with interrupts off implements `PagePool` |
| `pages_beyond` | `Spec` | violation: frames past the end of the usable memory |
| `heap_serial` | `Spec` | blocks never overlap, leave the heap's pages or lose bytes until a header is stored past the end of its memory, and that does not happen in a block `CombineBlocks` has just made |
| `heap_nofit` | `Spec` | violation: a non-empty list without a node that fits |
| `heap_page_request` | `Spec` | violation: a request of a whole page takes all memory |
| `paging_spaces` | `Spec` | pages translate as asked for, spaces share no tables and the kernel is alike in all of them, until a task's first push |
| `paging_spoilt` | `Spec` | violation: 4 KiB mappings inside 2 MiB pages write to the memory mapped there |
| `boot_up` | `Spec` | whatever interrupts finds its handler at every step of the initialisation; the walks over firmware tables and archive are right and end; boot completes when the heap can serve the archive (`Modest`), and ticks never cease |
| `console_print` | `Spec` | a task's message gets through whole whatever interrupts it, as long as no handler and no other task converts a number in the same buffer meanwhile (`Undisturbed`); keys echo as typed, printers stay within the static buffers even when they share them, and all is printed in the end |

The violations are described under `findings` in `PROJECT.json`, each with the
line that says otherwise.

### Bounds

- Scheduler: three frames give a list with a first, a middle and a last task;
  `Quantum = 2` gives both a tick that keeps the task and one that moves on;
  `MaxSteps = 1` tells a context that has run from one that has not;
  `PidModulus = 4` keeps the pids of three tasks distinct. The list is walked by
  next pointers alone, so a fourth task adds no new case. `scheduler_core` uses no
  symmetry, because it checks liveness.
- PageAllocator: pages of 4 units and entries of 1 unit, so `FrameList` takes up
  part of a page as it does in the kernel. The memory maps cover no usable
  entry, less than a page, ties, odd lengths and a reserved entry that is the
  longest.
- Heap: pages of 8 units, headers of 2, six pages. The sizes of `heap_serial` (3, 7 and
  13, plain or aligned to a page) reach reuse, splitting, remainders of nothing, of less
  than a header and of more, padding, `CombineBlocks` and exhaustion. `MCHeap_nofit` and
  `MCHeap_pagesize` use the sizes in their findings.
- Paging: tables of 5 entries, so a 2 MiB page is 5 pages, 1 GiB is 25 and a PML4's
  entry covers 125; `FourGiB = 30` keeps the loop of 4 KiB mappings short; two
  processes. The direct map starts at 250, so identity, direct map and kernel image are in
  different entries of the PML4. The layouts are a machine with most of its memory above
  4 GiB; one with an unaligned entry and the framebuffer above 4 GiB; and one with all
  memory below 4 GiB, an entry for page 0 and tables inside the 2 MiB region. Processes
  ask for pages until memory runs out or a table is damaged.
- Boot: blocks of 4 bytes and sizes of five binary digits, so sizes are zero, below, at
  and above a multiple of the block; two devices per bus and two functions per device;
  `Uint32 = 1024`, more than any table's length, for the MADT's unsigned counter. The
  machines are one that has everything and one variation for each response or table the
  kernel asks for; MADTs without entries, without an I/O APIC and with two; archives that
  are empty, that hold a file twice, and that hold an empty `a.out`. Pages of 17 bytes,
  headers of 2 and file nodes of 3 let three files fill a page but for one header, as 30
  files do in the kernel (30 * 136 + 16 = 4096). There are archives with more files than
  that, programs that fit what the files leave, leave less than a header, do not fit or
  need pages of their own, and segments next to multiples of a page or after one that
  leaves them room. On these archives `Modest` holds exactly where the boot completes and
  the heap has not strayed. `Word = 4`, and each handler's address has three different
  parts; firmware masks all lines, none, or all but two.
- Console: buffers of 4 and 3 characters, numbers that fill them and numbers that do
  not; a table of 4 scan codes. The six scenarios are: a task alone with keys pressed,
  held and released with and without shift; one with `lprint`, an unknown conversion and
  zeros, interrupted by a handler's line; two tasks in different buffers; two tasks in
  one buffer; a task and a handler in one buffer with keys; and negative numbers.

Outside those bounds some of the properties fail, and the hazards in
`PROJECT.json` say which: with as many frames as pids, `highest_pid` wraps and
`TerminateTask` unlinks the newest task with the pid (`ReapsExited`).

### Fairness

`FairSpec` of `Scheduler` has weak fairness on `TimerStub`: the RTC interrupts
periodically and `TaskSwitch` calls `RTC_Check` on every tick, which re-arms it, so
a tick arrives while IF stays set; `TicksGoOn` of `Boot` checks that the set-up loses
no edge on the way there. Nothing is assumed of tasks. `Spec` of `Boot` has weak
fairness on `_kmain`, which no task preempts, on the clock and on the delivery of a
latched interrupt while IF is set. `Spec` of `Console` has weak fairness on every
printer's next step: a handler runs on until it returns, and a task gets the CPU again
and again because the scheduler gives it (`EveryTaskRuns`); on taking an interrupt while
none is being handled, on returning from one, and on the serial port, which sends what it
was given. Page allocator, heap and paging have no liveness properties.

## Proofs

`SchedulerProofs` assumes `Fits`: the quantum is below 256, and there are finitely
many frames and fewer of them than pids. For any such instance it proves `TypeOK`,
`CpuRunsCurrent`, `ContextKept`, `NoTaskLost`, `QuantaKept`, `OwnTables`,
`ReapsExited`, `TickPicksLive`, `BootNeverResumes` and `TicksNeverStop` of `Spec`, and
that every step is one of `TaskPool` or leaves the pool as it is (`RefinesTaskPool`).

None of these is inductive alone. `IInv` adds:

- pids: `highest_pid` counts the spawned frames and pids are distinct, so the
  pid search finds the very frame that exited;
- the CPU: an invalid frame that is still linked is the current one and loops, so
  the task chosen after a reap is never itself invalid;
- the end: once `current` is `&prochead` the list is empty and nothing executes,
  so nothing can be spawned into a list nobody runs.

The proof has a lemma per action; `DispatchOutcome` describes the last part of
`TaskSwitch` once for the two actions that share it.

`PageAllocatorProofs` assumes `AllMasked`: every caller has interrupts off while it is in
`PageAlloc`. For every memory map, page size and set of callers it proves `TypeOK`,
`ExclusivePages`, `NoFrameLost`, `PanicOnlyWhenFull`, `DataKept` and `TableApart`, also
`HandedOutZeroed`, which needs no masking, and that `Spec` implements `PagePool`
(`RefinesPool`). Its `IInv` says that only the caller with interrupts off is inside
`PageAlloc`, that all flags before its index are clear, and that a held page is a frame
with a clear flag and one holder. `AllMasked` is needed: with `OnCpuPreempted` in the
place of `OnCpu`, callers that are preempted between test and store, as `AllocatePage` may
be, are given one page.

`PagingProofs` proves `TypeOK`, `MapsAsAsked`, `TablesPrivate` and `KernelInEverySpace` for
every fan-out, layout and number of processes. It assumes `LayoutsFit`, which says that the
calls of `MapMemory` a layout leads to are calls with addresses of the machine, and
`LayoutsHigherHalf`: memory lies below the direct map, the direct map below the kernel, as
Limine and `linker.ld` place them. Without it two calls could ask for different frames at one
address. TLC evaluates both for the layouts of the runs.

What the processor finds for one page depends on tables that calls for other pages made,
so none of the properties follows step by step from itself. `PagingInv` says that every
table has a level, an owner and a page whose walk goes through it (`Shape`): a PML4 is at
level 4 and its own owner, and an entry that is present and maps no 2 MiB page leads to a
table one level down, with the same owner and the entry's index. It also says that every
call asks for the one frame its layout gives the page, and that 2 MiB calls come before the
space has any table of level 1. `PageTableLemmas` shows that `GetEntryNextLevel` keeps the
shape and every walk, whether it follows an entry or makes a table, and that a store changes
the walks of the pages it is for and no others; a store through a 2 MiB page either goes to
memory that is no table, and then the page had its frame already, or ends in `"damaged"`.

`HeapProofs` proves `BlocksApart`, `KeepsToOwnPages` and `CombinedNeverStrays` for every
page size, header, number of pages and set of requests, with alignments up to a page. `HeapInv`
says that allocations and followed nodes are disjoint and lie in the heap's pages. The
step that needs it is the split in `Carve` (`CarveFits`): the allocation ends within its
node, and the new node lies within what is left or its header is the one that strays.
`CarvedEnds` has the arithmetic of the block `CombineBlocks` makes: padding and header
together take less than the page it takes in excess.

`BootProofs` proves `HandlersReady` for every machine, firmware mask and placement of the
handlers, with no assumption beyond the constants' types. Its invariant says for each
step of `_kmain` what has been set up by then: gates from `"remap"` on, masks from `"apic"`
on, the local APIC before any pin is redirected, and paging before all of them. A lemma
(`WholeAddress`) shows that the three parts of a gate make up the address again.

`ConsoleProofs` proves `TypeOK` and `NumbersInBuffers` for any printers, messages and
buffer sizes, with numbers that fit (`Items`). Its invariant has, for each buffer, a NUL
that all writers of digits stay below and no reader is past. In `hexString` it is the last
place, and what is left of a number fits in the digits in front of it; in `ret` it is some
place `m` (`RetInv`), which changes only when `itoa` stores a NUL further on.
`PowersOf16` is a fact of arithmetic the provers do not have and TLC evaluates.

Only model-checked: liveness (`EveryTaskRuns`, `ExitedReaped`, `BootEnds`, `BootCompletes`,
`TicksGoOn`, `PrintsAll`, and that no task of `TaskPool` starves), which needs fairness and
ENABLED and is out of the prover's reach; `BytesKept`, `MessagesComplete`, `KeysEchoed` and
the walks of `Boot`, which are folds over sequences or compare with one, and would need
induction over data.

## Not modelled

- The spinlock, which nothing in the kernel calls; `PITDriver`, `GetRamdiskListing`,
  `KVaddrToPaddr` and the other functions without a caller.
- The GDT, a constant table, and `limine.h`, third-party declarations.
- `strlen`, `strcmp`, `memcpy` and the like, which keep no state: they are `=`, assignment or
  a length in the modules that use them. Wording of messages, tables of device names,
  CPU feature strings, process names.
- The inside of flanterm, which is third-party and not made to be entered twice:
  `Console` appends to what each printer has shown, and says nothing about the order of
  characters of different printers.
- The TLB, and what a damaged page table leads to.
- The order the compiler gives to stores within a handler or a call under `cli`.
- The failure branches of the heap that need `PageAlloc` to return NULL: it panics.
- Preemption inside `AllocatePage` together with the rest of paging: `PageAllocator` has the
  preempted `PageAlloc`, `Paging` has whole calls.
