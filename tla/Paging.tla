------------------------------- MODULE Paging -------------------------------
(***************************************************************************)
(* Page tables (src/mm/paging/paging.c) and AllocatePage (src/mm/vmm).     *)
(*                                                                         *)
(* Addresses are page numbers, virtual and physical.  A table has Fanout   *)
(* entries (512 in the code), so a 2 MiB page is Fanout pages and 1 GiB is *)
(* Fanout * Fanout.  mem holds the contents of the tables only: it is the  *)
(* part of physical memory that GetEntryNextLevel may read.  RW is set     *)
(* with Present and left out.                                              *)
(*                                                                         *)
(* The loops of CreateDefaultMappings and CreateProcessPML4 are sequences  *)
(* of calls of MapMemory, todo, worked off one call per step.  They run at *)
(* boot before interrupts are on, or under the cli of IntAddTask.          *)
(***************************************************************************)
EXTENDS Integers, Sequences, FiniteSets, Functions

CONSTANTS
    Fanout,       \* 512 in the code
    FourGiB,      \* 0x100000000 in pages: 4 * Fanout^2 in the code
    Layouts,      \* memory layouts the machine may have (bound)
    MaxSpaces,    \* bound on the processes
    NoPage        \* what an unmapped page maps to

VARIABLES
    layout,       \* the layout of this boot: mmap and GlobalPagingInfo
    next,         \* the next page PageAlloc hands out
    mem,          \* the tables
    spaces,       \* the PML4s that are finished, the kernel's first
    target,       \* the PML4 that is being filled in
    todo,         \* the calls of MapMemory still to come
    wanted,       \* history: what MapMemory was asked for, per PML4
    spoilt,       \* pages MapMemory has written to that are no tables
    stacks,       \* the page each process's stack pointer starts at, per PML4
    mode          \* "boot", "map", "run", "panic", "damaged" or "reset"

vars == <<layout, next, mem, spaces, target, todo, wanted, spoilt, stacks, mode>>

TwoMiB == Fanout
OneGiB == Fanout * Fanout
SlotSize == Fanout * Fanout * Fanout        \* what one entry of a PML4 covers
Virtual == 0 .. Fanout * SlotSize - 1
Slots == 0 .. Fanout - 1

Layout == [
    entries    : Seq([base : Nat, length : Nat, aligned : BOOLEAN]),
    first      : Virtual, last : Virtual,   \* the pages PageAlloc has
    hhdm       : Virtual,
    kernelVirt : Virtual, kernelPhys : Nat, kernelSize : Nat,
    fbVirt     : Virtual, fbSize : Nat,
    start      : Nat, end : Nat]            \* the image AddTask is called with

ASSUME PagingAssumption ==
    /\ Fanout \in Nat \ {0, 1}
    /\ FourGiB \in Nat
    /\ Layouts \subseteq {l \in Layout : l.first <= l.last}
    /\ MaxSpaces \in Nat
    /\ NoPage \notin Nat

-----------------------------------------------------------------------------
(* Entries and tables. *)

Entry == [present : BOOLEAN, addr : Nat, big : BOOLEAN, user : BOOLEAN]
Zeroed == [present |-> FALSE, addr |-> 0, big |-> FALSE, user |-> FALSE]
EmptyTable == [i \in Slots |-> Zeroed]

\* The index of page v in its table at level 1 (page table) to 4 (PML4).
Span == <<1, TwoMiB, OneGiB, SlotSize>>
IndexOneDown(v, level) == (v \div Span[IF level = 1 THEN 1 ELSE level - 1]) % Fanout
Index(v, level) == (v \div Span[level]) % Fanout

\* The memory m with a fresh, zeroed page p.
WithTable(m, p) ==
    [q \in DOMAIN m \cup {p} |-> IF q = p THEN EmptyTable ELSE m[q]]

\* What GetEntryNextLevel writes into an entry that was not present.
LinkTo(p) == [present |-> TRUE, addr |-> p, big |-> FALSE, user |-> FALSE]

\* PageAlloc: the page after p.
AfterPage(p) == p + 1

\* GetEntryNextLevel: s is the memory, the next free page and the table at
\* hand; the result has the table one level down at hand.  The PageSize bit
\* of the entry is not looked at.
HasNext(e) == e.present
GetEntryNextLevel(s, i) ==
    IF HasNext(s.mem[s.at][i])
    THEN [s EXCEPT !.at = s.mem[s.at][i].addr]
    ELSE [mem  |-> WithTable([s.mem EXCEPT ![s.at][i] = LinkTo(s.next)], s.next),
          next |-> AfterPage(s.next),
          at   |-> s.next]

-----------------------------------------------------------------------------
(* MapMemory. *)

Calls == [virt : Virtual, phys : Nat, size : {"4K", "2M"}, user : BOOLEAN]
Call(virt, phys, size, user) ==
    [virt |-> virt, phys |-> phys, size |-> size, user |-> user]

\* The table MapMemory stores in, and the index there.
ReachTable(c) ==
    LET pdpt == GetEntryNextLevel([mem |-> mem, next |-> next, at |-> target],
                                  Index(c.virt, 4))
        pd   == GetEntryNextLevel(pdpt, Index(c.virt, 3))
    IN  IF c.size = "2M" THEN pd ELSE GetEntryNextLevel(pd, Index(c.virt, 2))
StoreIndex(c) == IF c.size = "2M" THEN Index(c.virt, 2) ELSE Index(c.virt, 1)

\* The last stores: bits are set, never cleared.
Stored(e, c) ==
    [present |-> TRUE, addr |-> c.phys,
     big |-> e.big \/ c.size = "2M", user |-> e.user \/ c.user]

\* Did the descent go through an entry that maps a 2 MiB page?  Then the
\* table at hand is not a table but the first page of that memory.
ThroughBig(c) ==
    /\ c.size = "4K"
    /\ LET pdpt == mem[target][Index(c.virt, 4)]
           pd   == mem[pdpt.addr][Index(c.virt, 3)]
       IN  /\ pdpt.present /\ pd.present
           /\ mem[pd.addr][Index(c.virt, 2)].big

\* The pages a call is about, and what it asks for.
Asked(c) == IF c.size = "2M" THEN c.virt .. c.virt + TwoMiB - 1 ELSE {c.virt}
WantedAfter(c) ==
    [wanted EXCEPT ![target] =
        [v \in Virtual |-> IF v \in Asked(c) THEN c.phys + (v - c.virt) ELSE @[v]]]

\* PageAlloc has handed out its last page and is asked for one more.
ExhaustedLate(s) == s.next > layout.last + 2
Exhausted(s) == s.next > layout.last + 1

\* PageAlloc panics in GetEntryNextLevel.
MapMemoryPanics ==
    /\ Exhausted(ReachTable(Head(todo)))
    /\ mode' = "panic"
    /\ UNCHANGED <<layout, next, mem, spaces, target, todo, wanted, spoilt,
                   stacks>>

MapMemoryStores ==
    LET c == Head(todo)
        s == ReachTable(c)
    IN  /\ ~Exhausted(s)
        /\ ~ThroughBig(c)
        /\ mem' = [s.mem EXCEPT ![s.at][StoreIndex(c)] = Stored(@, c)]
        /\ next' = s.next
        /\ wanted' = WantedAfter(c)
        /\ todo' = Tail(todo)
        /\ UNCHANGED <<layout, spaces, target, spoilt, stacks, mode>>

\* The store goes to memory that is not a table.
MapMemorySpoils ==
    LET c == Head(todo)
        s == ReachTable(c)
    IN  /\ ThroughBig(c)
        /\ s.at \notin DOMAIN mem
        /\ spoilt' = spoilt \cup {s.at}
        /\ wanted' = WantedAfter(c)
        /\ todo' = Tail(todo)
        /\ UNCHANGED <<layout, next, mem, spaces, target, stacks, mode>>

\* The store goes to a table that is not the one of this address.  What the
\* tables hold after it is not followed any further.
MapMemoryDamages ==
    LET c == Head(todo)
        s == ReachTable(c)
    IN  /\ ThroughBig(c)
        /\ s.at \in DOMAIN mem
        /\ mem' = [mem EXCEPT ![s.at][StoreIndex(c)] = Stored(@, c)]
        /\ wanted' = WantedAfter(c)
        /\ todo' = Tail(todo)
        /\ mode' = "damaged"
        /\ UNCHANGED <<layout, next, spaces, target, spoilt, stacks>>

MapMemory ==
    /\ mode = "map" /\ todo # << >>
    /\ \/ MapMemoryPanics
       \/ MapMemoryStores
       \/ MapMemorySpoils
       \/ MapMemoryDamages

-----------------------------------------------------------------------------
(* What the processor makes of the tables. *)

\* The entry of table t, and the frame it translates page v to.
At(t, i) == IF t \in DOMAIN mem THEN mem[t][i] ELSE Zeroed
Walk(root, v) ==
    LET e4 == At(root, Index(v, 4))
        e3 == At(e4.addr, Index(v, 3))
        e2 == At(e3.addr, Index(v, 2))
        e1 == At(e2.addr, Index(v, 1))
    IN  IF ~(e4.present /\ e3.present /\ e2.present) THEN NoPage
        ELSE IF e2.big THEN e2.addr + (v % TwoMiB)
        ELSE IF e1.present THEN e1.addr
        ELSE NoPage

-----------------------------------------------------------------------------
(* Who calls MapMemory. *)

\* The loops of CreateDefaultMappings, in their order.
Pages(from, to, F(_)) == [k \in 1 .. to - from |-> F(from + k - 1)]
BigPages(from, to, F(_)) == [k \in 1 .. (to - from) \div TwoMiB |-> F(from + (k - 1) * TwoMiB)]

Identity(l, i, size) == Call(i, i, size, FALSE)
Direct(l, i, size) == Call(l.hhdm + i, i, size, FALSE)
Twice(l, i, size) == <<Identity(l, i, size), Direct(l, i, size)>>

\* What the sequences in ss have, one after the other.
Flatten(ss) ==
    LET upTo[n \in 0 .. Len(ss)] == IF n = 0 THEN << >> ELSE upTo[n - 1] \o ss[n]
    IN  upTo[Len(ss)]

LowPage(l, i) == IF i # 0 THEN Twice(l, i, "4K") ELSE <<Direct(l, i, "4K")>>

KernelImage(l) ==
    Pages(0, l.kernelSize, LAMBDA i : Call(l.kernelVirt + i, l.kernelPhys + i, "4K", FALSE))
BigRegion(l) ==
    Flatten(BigPages(TwoMiB, OneGiB, LAMBDA i : Twice(l, i, "2M")))
Sections(l) ==
    Flatten([k \in DOMAIN l.entries |->
        LET e == l.entries[k]
        IN  IF e.aligned THEN Pages(e.base, e.base + e.length,
                                    LAMBDA j : Identity(l, j, "4K"))
                         ELSE << >>])
Framebuffer(l) ==
    Pages(l.fbVirt, l.fbVirt + l.fbSize, LAMBDA i : Call(i, i - l.hhdm, "4K", FALSE))

CreateDefaultMappings(l) ==
    KernelImage(l)
        \o Flatten(Pages(0, TwoMiB, LAMBDA i : LowPage(l, i)))
        \o BigRegion(l)
        \o Flatten(Pages(OneGiB, FourGiB, LAMBDA i : Twice(l, i, "4K")))
        \o Sections(l)
        \o Framebuffer(l)

ProcessMappingsNoKernel(l, inKernelCode) == BigRegion(l)
ProcessMappings(l, inKernelCode) ==
    BigRegion(l) \o KernelImage(l)
        \o IF inKernelCode THEN << >>
           ELSE Pages(l.start, l.end, LAMBDA i : Call(i, i, "4K", TRUE))

\* Kernel, framebuffer and memory map lie where they can be mapped.
ASSUME LayoutsFit ==
    \A l \in Layouts :
        /\ CreateDefaultMappings(l) \in Seq(Calls)
        /\ \A inKernelCode \in BOOLEAN : ProcessMappings(l, inKernelCode) \in Seq(Calls)

\* Memory and the images of tasks lie below the direct map, the direct map and
\* the framebuffer in it below the kernel, and 2 MiB pages fit the direct map:
\* where Limine puts the direct map, and linker.ld the kernel.
ASSUME LayoutsHigherHalf ==
    \A l \in Layouts :
        /\ l.hhdm % TwoMiB = 0
        /\ OneGiB <= l.hhdm /\ FourGiB <= l.hhdm
        /\ l.last < l.hhdm /\ l.end <= l.hhdm
        /\ \A k \in DOMAIN l.entries :
            l.entries[k].aligned => l.entries[k].base + l.entries[k].length <= l.hhdm
        /\ l.hhdm + OneGiB <= l.kernelVirt /\ l.hhdm + FourGiB <= l.kernelVirt
        /\ l.hhdm <= l.fbVirt /\ l.fbVirt + l.fbSize <= l.kernelVirt

\* The memory m with an empty PML4 at page p.
WithRootCopied(m, p) ==
    [q \in DOMAIN m \cup {p} |-> IF q # p THEN m[q] ELSE IF spaces = << >> THEN EmptyTable
                                                         ELSE m[spaces[1]]]
WithRoot(m, p) == WithTable(m, p)

\* A page from PageAlloc becomes the PML4 that calls fills in.
StartSpace(calls) ==
    /\ target' = next
    /\ mem' = WithRoot(mem, next)
    /\ next' = AfterPage(next)
    /\ wanted' = [r \in DOMAIN wanted \cup {next} |->
                    IF r = next THEN [v \in Virtual |-> NoPage] ELSE wanted[r]]
    /\ todo' = calls
    /\ mode' = "map"
    /\ UNCHANGED <<layout, spaces, spoilt, stacks>>

InitializePaging == mode = "boot" /\ StartSpace(CreateDefaultMappings(layout))

CreateProcessPML4(inKernelCode) ==
    /\ mode = "run"
    /\ Len(spaces) <= MaxSpaces
    /\ next <= layout.last
    /\ StartSpace(ProcessMappings(layout, inKernelCode))

\* CreateDefaultMappings is done: LoadKernelPML4.
LoadKernelPML4 ==
    /\ mode = "map" /\ todo = << >> /\ spaces = << >>
    /\ spaces' = <<target>>
    /\ mode' = "run"
    /\ UNCHANGED <<layout, next, mem, target, todo, wanted, spoilt,
                   stacks>>

\* CreateProcessPML4 is done, and IntAddTask takes the stack from PageAlloc.
StackPage == next
ProcessReady ==
    /\ mode = "map" /\ todo = << >> /\ spaces # << >>
    /\ target \notin Range(spaces)
    /\ \/ /\ next <= layout.last
          /\ next' = AfterPage(next)
          /\ spaces' = Append(spaces, target)
          /\ stacks' = [r \in DOMAIN stacks \cup {target} |->
                            IF r = target THEN StackPage ELSE stacks[r]]
          /\ mode' = "run"
       \/ /\ next > layout.last
          /\ mode' = "panic"
          /\ UNCHANGED <<next, spaces, stacks>>
    /\ UNCHANGED <<layout, mem, target, todo, wanted, spoilt>>

\* A process asks for a page.
AllocatePage ==
    /\ mode = "run"
    /\ next <= layout.last
    /\ \E k \in 2 .. Len(spaces) : target' = spaces[k]
    /\ todo' = <<Call(next, next, "4K", TRUE)>>
    /\ next' = AfterPage(next)
    /\ mode' = "map"
    /\ UNCHANGED <<layout, mem, spaces, wanted, spoilt, stacks>>

\* The call AllocatePage made is done.
PageAllocated ==
    /\ mode = "map" /\ todo = << >> /\ target \in Range(spaces)
    /\ mode' = "run"
    /\ UNCHANGED <<layout, next, mem, spaces, target, todo, wanted, spoilt,
                   stacks>>

\* PageAlloc panics in CreateProcessPML4 or AllocatePage.
PageAllocPanics ==
    /\ mode = "run"
    /\ next > layout.last
    /\ mode' = "panic"
    /\ UNCHANGED <<layout, next, mem, spaces, target, todo, wanted, spoilt,
                   stacks>>

\* A process runs and pushes: its stack pointer is the start of its stack page,
\* so the page before is written to, and that is a table: the last one that
\* CreateProcessPML4 took.  What the tables hold after it is not followed any
\* further.  Where the page is not mapped, the push faults, and so does
\* delivering the fault, on the same stack.
TaskPushes ==
    /\ mode = "run"
    /\ \E r \in DOMAIN stacks :
        mode' = IF Walk(r, stacks[r] - 1) = NoPage THEN "reset" ELSE "damaged"
    /\ UNCHANGED <<layout, next, mem, spaces, target, todo, wanted, spoilt,
                   stacks>>

Stopped == mode \in {"panic", "damaged", "reset"} /\ UNCHANGED vars

Init ==
    /\ layout \in Layouts
    /\ next = layout.first
    /\ mem = [p \in {} |-> EmptyTable]
    /\ spaces = << >>
    /\ target = NoPage
    /\ todo = << >>
    /\ wanted = [r \in {} |-> [v \in Virtual |-> NoPage]]
    /\ spoilt = {}
    /\ stacks = [r \in {} |-> NoPage]
    /\ mode = "boot"

Next ==
    \/ InitializePaging
    \/ MapMemory
    \/ LoadKernelPML4
    \/ \E inKernelCode \in BOOLEAN : CreateProcessPML4(inKernelCode)
    \/ ProcessReady
    \/ AllocatePage
    \/ PageAllocated
    \/ PageAllocPanics
    \/ TaskPushes
    \/ Stopped

Spec == Init /\ [][Next]_vars

-----------------------------------------------------------------------------
\* The tables one level below some, and those under a PML4, itself included.
Down(tables) ==
    UNION {{mem[t][i].addr : i \in {j \in Slots : mem[t][j].present /\ ~mem[t][j].big}} :
            t \in tables}
TablesOf(root) ==
    {root} \cup Down({root}) \cup Down(Down({root})) \cup Down(Down(Down({root})))

Roots == DOMAIN wanted

-----------------------------------------------------------------------------
(* Properties. *)

\* Types of all variables.
TypeOK ==
    /\ layout \in Layouts
    /\ next \in layout.first .. layout.last + 1
    /\ DOMAIN mem \subseteq layout.first .. next - 1
    /\ mem \in [DOMAIN mem -> [Slots -> Entry]]
    /\ spaces \in Seq(Roots)
    /\ Roots \subseteq DOMAIN mem
    /\ target \in Roots \cup {NoPage}
    /\ todo \in Seq(Calls)
    /\ wanted \in [Roots -> [Virtual -> Nat \cup {NoPage}]]
    /\ spoilt \subseteq Nat
    /\ DOMAIN stacks \subseteq Roots
    /\ stacks \in [DOMAIN stacks -> layout.first .. next - 1]
    /\ mode \in {"boot", "map", "run", "panic", "damaged", "reset"}

\* The processor translates every page of every address space to what the
\* last call of MapMemory for it asked for, and to nothing if there was none,
\* whatever was mapped in between.
MapsAsAsked ==
    mode # "damaged" =>
        \A r \in Roots : \A v \in Virtual : Walk(r, v) = wanted[r][v]

\* Address spaces share no tables, so that mapping a page in one never shows
\* in another.
TablesPrivate ==
    mode # "damaged" =>
        \A r, s \in Roots : r # s => TablesOf(r) \cap TablesOf(s) = {}

\* Interrupts arrive with the tables of a process loaded, and the stubs change
\* tables under themselves: the kernel's image and the direct map below 1 GiB
\* are where they are in the kernel's own tables.
SharedPages ==
    layout.kernelVirt .. layout.kernelVirt + layout.kernelSize - 1
        \cup TwoMiB .. OneGiB - 1
        \cup layout.hhdm + TwoMiB .. layout.hhdm + OneGiB - 1
KernelInEverySpace ==
    mode # "damaged" =>
        \A k \in DOMAIN spaces : \A v \in SharedPages :
            Walk(spaces[k], v) = Walk(spaces[1], v)

\* MapMemory writes to page tables only: GetEntryNextLevel gives it the next
\* level of the tables and nothing else.
WritesTablesOnly == spoilt = {} /\ mode # "damaged"
=============================================================================
