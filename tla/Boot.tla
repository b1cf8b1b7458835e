-------------------------------- MODULE Boot --------------------------------
(***************************************************************************)
(* _kmain (src/bootstrap/kmain.c): the kernel's start from the bootloader  *)
(* to the idle loop, on a machine that may lack what the kernel needs,     *)
(* with the clock's interrupts in between as soon as they can arrive.      *)
(* Composes Interrupts, Pcie, Ramdisk and Heap; allocator and paging have  *)
(* modules of their own and only succeed or fail here.                     *)
(*                                                                         *)
(* A machine is a record:                                                  *)
(*   responses  the bootloader answered the requests that are not tested   *)
(*   rsdp       "none", "noRsdt", "badSignature" or "ok"                   *)
(*   tables     the RSDT: tables with a signature and their entries        *)
(*   memory     "none", "little" (too little for page tables), "enough"    *)
(*   functions, multi    what answers on PCI Express (see Pcie)            *)
(*   module     the bootloader loaded a ramdisk                            *)
(*   archive    its files: path, size, elf and loads, p_memsz of each of   *)
(*              the loadable segments                                      *)
(***************************************************************************)
EXTENDS Interrupts, Pcie, Ramdisk, FiniteSets

CONSTANTS Machines

VARIABLES
    machine,
    pc,           \* the step of _kmain that is next
    mcfgPtr,      \* positions of the tables in the RSDT, 0 for NULL
    madtPtr,
    pagingOn,     \* the kernel's PML4 exists and is loaded
    buffer,       \* the blocks of a.out that were read
    segments      \* segments that memory was allocated for

ownVars == <<machine, mcfgPtr, madtPtr, pagingOn, buffer, segments>>
vars == <<ownVars, pc, interruptVars, pcieVars, ramdiskVars>>

Init ==
    /\ machine \in Machines
    /\ pc = "bootloader"
    /\ mcfgPtr = 0
    /\ madtPtr = 0
    /\ pagingOn = FALSE
    /\ buffer = << >>
    /\ segments = 0
    /\ InterruptsInit
    /\ PcieInit
    /\ RamdiskInit

-----------------------------------------------------------------------------
(* The order of the calls of _kmain and of InitializeIDT. *)

KmainPagingLate ==
    <<"bootloader", "acpi", "allocator", "idt", "remap", "mask", "apic", "irq8",
      "rtc", "irq1", "sti", "paging", "pitCli", "pitSti", "pcie", "ramdisk",
      "elf", "idle">>
KmainClockEarly ==
    <<"bootloader", "acpi", "allocator", "paging", "idt", "remap", "mask", "apic",
      "rtc", "irq8", "irq1", "sti", "pitCli", "pitSti", "pcie", "ramdisk", "elf",
      "idle">>
Kmain ==
    <<"bootloader", "acpi", "allocator", "paging", "idt", "remap", "mask", "apic",
      "irq8", "rtc", "irq1", "sti", "pitCli", "pitSti", "pcie", "ramdisk", "elf",
      "idle">>

\* Loops the steps "apic", "pcie", "ramdisk" and "elf" go through.
Loops == {"madt", "buses", "files", "segments"}

After(step) == Kmain[SelectInSeq(Kmain, LAMBDA s : s = step) + 1]

\* A page fault without an IDT resets the machine; with one, the handler panics.
Fault == IF Gates(Escalated(14)) = {} THEN "reset" ELSE "panic"

Ends == {"panic", "reset"}

\* Where _kmain goes on after a request to the heap.
Requested(next) ==
    IF Served' THEN next ELSE IF heapMode' = "fault" THEN Fault ELSE "panic"

-----------------------------------------------------------------------------
\* InitializeGDT, InitializeBootloader and InitializeTerminal.
InitializeBootloader ==
    /\ pc = "bootloader"
    /\ pc' = IF machine.responses THEN After(pc) ELSE Fault
    /\ UNCHANGED <<ownVars, interruptVars, pcieVars, ramdiskVars>>

\* EnumerateACPITables: the last table with the signature.
TableLast(signature) ==
    SelectLastInSeq(machine.tables, LAMBDA t : t.signature = signature)

InitializeACPI ==
    /\ pc = "acpi"
    /\ \/ /\ machine.rsdp # "ok"
          /\ pc' = "panic"
          /\ UNCHANGED <<mcfgPtr, madtPtr>>
       \/ /\ machine.rsdp = "ok"
          /\ pc' = After(pc)
          /\ mcfgPtr' = TableLast("MCFG")
          /\ madtPtr' = TableLast("APIC")
    /\ UNCHANGED <<machine, pagingOn, buffer, segments, interruptVars, pcieVars,
                   ramdiskVars>>

InitializeAllocator ==
    /\ pc = "allocator"
    /\ pc' = IF machine.memory = "none" THEN "panic" ELSE After(pc)
    /\ UNCHANGED <<ownVars, interruptVars, pcieVars, ramdiskVars>>

InitializePaging ==
    /\ pc = "paging"
    /\ \/ /\ machine.memory = "little"
          /\ pc' = "panic"
          /\ UNCHANGED pagingOn
       \/ /\ machine.memory # "little"
          /\ pc' = After(pc)
          /\ pagingOn' = TRUE
    /\ UNCHANGED <<machine, mcfgPtr, madtPtr, buffer, segments, interruptVars,
                   pcieVars, ramdiskVars>>

-----------------------------------------------------------------------------
(* InitializeIDT. *)

InitializeIDT ==
    /\ pc = "idt"
    /\ AddIDTEntries
    /\ pc' = After(pc)
    /\ UNCHANGED <<ownVars, pcieVars, ramdiskVars>>

\* The two calls for the legacy controllers.
SilencePIC ==
    /\ \/ pc = "remap" /\ RemapPIC(32, 40)
       \/ pc = "mask" /\ DisablePIC
    /\ pc' = After(pc)
    /\ UNCHANGED <<ownVars, pcieVars, ramdiskVars>>

Madt == machine.tables[madtPtr].entries

InitializeAPIC ==
    /\ pc = "apic"
    /\ \/ /\ madtPtr = 0
          /\ pc' = Fault
          /\ UNCHANGED interruptVars
       \/ /\ madtPtr # 0
          /\ StartWalk(Madt)
          /\ pc' = "madt"
    /\ UNCHANGED <<ownVars, pcieVars, ramdiskVars>>

\* Where no entry starts there is no step, and BootEnds would fail.
MadtStep ==
    /\ pc = "madt"
    /\ \/ WalkEntry(Madt) /\ pc' = pc
       \/ length = 0 /\ pc' = After("apic") /\ UNCHANGED interruptVars
    /\ UNCHANGED <<ownVars, pcieVars, ramdiskVars>>

RegisterIRQ(step, vector, pin) ==
    /\ pc = step
    /\ \/ ioAPIC = NoAPIC /\ pc' = Fault /\ UNCHANGED interruptVars
       \/ IOAPICRegisterIRQ(vector, pin) /\ pc' = After(pc)
    /\ UNCHANGED <<ownVars, pcieVars, ramdiskVars>>

RegisterClock == RegisterIRQ("irq8", 40, 8)
RegisterKeyboard == RegisterIRQ("irq1", 33, 1)

StartClock ==
    /\ pc = "rtc"
    /\ InitializeRTC
    /\ pc' = After(pc)
    /\ UNCHANGED <<ownVars, pcieVars, ramdiskVars>>

\* The sti of InitializeIDT; the cli and the sti of InitializePIT.
SwitchInterrupts ==
    /\ pc \in {"sti", "pitCli", "pitSti"}
    /\ SetIF(IF pc = "pitCli" THEN 0 ELSE 1)
    /\ pc' = After(pc)
    /\ UNCHANGED <<ownVars, pcieVars, ramdiskVars>>

-----------------------------------------------------------------------------
(* The devices, the ramdisk and the program. *)

Mcfg == machine.tables[mcfgPtr].entries

InitializePCIEUntested ==
    /\ pc = "pcie"
    /\ \/ mcfgPtr = 0 /\ pc' = Fault /\ UNCHANGED pcieVars
       \/ mcfgPtr # 0 /\ pc' = "buses" /\ FirstEntry(Mcfg)
    /\ UNCHANGED <<ownVars, interruptVars, ramdiskVars>>
InitializePCIE ==
    /\ pc = "pcie"
    /\ \/ mcfgPtr = 0 /\ pc' = After(pc) /\ UNCHANGED pcieVars
       \/ mcfgPtr # 0 /\ pc' = "buses" /\ FirstEntry(Mcfg)
    /\ UNCHANGED <<ownVars, interruptVars, ramdiskVars>>

PcieStep ==
    /\ pc = "buses"
    /\ \/ ScanBus(Mcfg, machine.functions, machine.multi) /\ pc' = pc
       \/ NextEntry(Mcfg) /\ pc' = pc
       \/ Scanned(Mcfg) /\ pc' = After("pcie") /\ UNCHANGED pcieVars
    /\ UNCHANGED <<ownVars, interruptVars, ramdiskVars>>

InitializeRamdisk ==
    /\ pc = "ramdisk"
    /\ pc' = IF machine.module THEN "files" ELSE After(pc)
    /\ UNCHANGED <<ownVars, interruptVars, pcieVars, ramdiskVars>>

\* As for the MADT: ListsArchive rules out blocks that are data.
RamdiskStep ==
    /\ pc = "files"
    /\ \/ RegisterFile(machine.archive) /\ pc' = Requested(pc)
       \/ EndOfArchive(machine.archive) /\ pc' = After("ramdisk")
    /\ UNCHANGED <<ownVars, interruptVars, pcieVars>>

\* The file that is in the buffer.
Program == machine.archive[buffer[1].file]

\* Reads a.out, if it is there and not empty.
LoadProgram ==
    /\ pc = "elf"
    /\ \/ /\ RdFileGetSz("a.out") = 0
          /\ pc' = After(pc)
          /\ UNCHANGED <<buffer, heapVars>>
       \/ /\ RdFileGetSz("a.out") # 0
          /\ Request(RdFileGetSz("a.out"), 1)
          /\ buffer' = IF Served' THEN RdFileGetStream(machine.archive, "a.out",
                                                      RdFileGetSz("a.out"))
                                  ELSE buffer
          /\ pc' = Requested("segments")
    /\ UNCHANGED <<machine, mcfgPtr, madtPtr, pagingOn, segments, interruptVars,
                   pcieVars, rdstart, files, ramdiskInitialized>>

\* One turn of the loop over the program headers, for those that are loadable,
\* if the program is an ELF file of this machine.
LoadSegment ==
    /\ pc = "segments"
    /\ \/ /\ Program.elf /\ segments < Len(Program.loads)
          /\ Request(Program.loads[segments + 1], PageSize)
          /\ segments' = IF Served' THEN segments + 1 ELSE segments
          /\ pc' = Requested(pc)
       \/ /\ ~Program.elf \/ segments = Len(Program.loads)
          /\ pc' = After("elf")
          /\ UNCHANGED <<segments, heapVars>>
    /\ UNCHANGED <<machine, mcfgPtr, madtPtr, pagingOn, buffer, interruptVars,
                   pcieVars, rdstart, files, ramdiskInitialized>>

KmainStep ==
    \/ InitializeBootloader \/ InitializeACPI \/ InitializeAllocator
    \/ InitializePaging \/ InitializeIDT \/ SilencePIC
    \/ InitializeAPIC \/ MadtStep
    \/ RegisterClock \/ StartClock \/ RegisterKeyboard \/ SwitchInterrupts
    \/ InitializePCIE \/ PcieStep \/ InitializeRamdisk \/ RamdiskStep
    \/ LoadProgram \/ LoadSegment

-----------------------------------------------------------------------------
Clock ==
    /\ pc \notin Ends
    /\ RtcPeriod
    /\ UNCHANGED <<ownVars, pc, pcieVars, ramdiskVars>>

Tick ==
    /\ pc \notin Ends
    /\ TimerTick
    /\ UNCHANGED <<ownVars, pc, pcieVars, ramdiskVars>>

\* hlt, for good or in the idle loop.
Stopped == pc \in Ends \cup {"idle"} /\ UNCHANGED vars

Next == KmainStep \/ Clock \/ Tick \/ Stopped

Fairness == WF_vars(KmainStep) /\ WF_vars(Clock) /\ WF_vars(Tick)

Spec == Init /\ [][Next]_vars /\ Fairness

-----------------------------------------------------------------------------
(* Properties. *)

\* The gate for vector v leads to the code of handler h.
LeadsTo(v, h) == Vector[h] = v /\ {Target(g) : g \in Gates(v)} = {Address[h]}

\* Whatever interrupts the kernel finds its handler, and the handler finds what
\* it uses.  From lidt on an exception of any number reaches the code of an
\* exception handler, if only the double fault's: vectors 0 and 2, for which
\* there is no gate, included.  From the first sti, which InitializeRTC makes in
\* the middle of InitializeIDT, every vector that a redirected pin or an
\* unmasked line of the legacy controllers can deliver has its gate, and the
\* kernel's PML4 (LoadKernelPML4) and the local APIC (LAPIC_EOI) are there.
HandlersReady ==
    /\ idt # {} => \A v \in 0 .. 31 : \E h \in DOMAIN Vector : LeadsTo(Escalated(v), h)
    /\ flagIF = 1 =>
        \A v \in Deliverable :
            /\ \E h \in {"TimerStub", "KeyboardHandler"} : LeadsTo(v, h)
            /\ pagingOn /\ localAPIC

\* When the enumeration is over, it has reported every function that answers on
\* a bus it covers, and no function twice: buses from startPCIBus up to but not
\* including endPCIBus, if their first device answers.
Covered ==
    {f \in machine.functions :
        /\ \E e \in Range(Mcfg) :
            e.base = f[1] /\ e.startPCIBus <= f[2] /\ f[2] < e.endPCIBus
        /\ <<f[1], f[2], 0, 0>> \in machine.functions}
EveryFunctionOnce ==
    mcfgPtr # 0 /\ entry > Len(Mcfg) =>
        /\ Range(reported) = Covered
        /\ Len(reported) = Cardinality(Covered)

\* The walk of InitializeRamdisk ends on the archive's first zero block, and the
\* list then has every file of the archive, the last one first, with its size
\* and with the block behind its own header as its beginning.
ListsArchive ==
    /\ pc = "files" => At(machine.archive).kind \in {"header", "zero"}
    /\ ramdiskInitialized =>
        /\ Len(files) = Len(machine.archive)
        /\ \A k \in DOMAIN files :
            LET n == Len(files) + 1 - k
            IN  /\ files[k].path = machine.archive[n].path
                /\ files[k].size = machine.archive[n].size
                /\ Blocks(machine.archive)[files[k].begin] = Header(machine.archive[n])

\* In the idle loop the buffer holds all of the data of the file named a.out
\* that was archived last (a newer version appended to an archive replaces the
\* older one), and segments were allocated for that file's program headers;
\* without a ramdisk, or if that file is empty, nothing was read.  (What a heap
\* that has strayed wrote over is not known.)
ReadsLatest ==
    pc = "idle" /\ heapMode = "run" =>
        LET last == IF machine.module
                    THEN SelectLastInSeq(machine.archive, LAMBDA f : f.path = "a.out")
                    ELSE 0
        IN  /\ buffer = IF last = 0 THEN << >> ELSE DataBlocks(machine.archive, last)
            /\ segments = IF buffer # << >> /\ machine.archive[last].elf
                          THEN Len(machine.archive[last].loads) ELSE 0

\* A machine that has what the kernel needs.
IOAPICs(table) == {e \in Range(table.entries) : e.type = 1}
Complete ==
    /\ machine.responses
    /\ machine.rsdp = "ok"
    /\ machine.memory = "enough"
    /\ \E t \in Range(machine.tables) : t.signature = "APIC"
    /\ \A t \in Range(machine.tables) : t.signature = "APIC" => IOAPICs(t) # {}

\* Whatever the machine, no loop over firmware tables, buses, files, segments or
\* the heap's list runs on: _kmain gets to its idle loop or stops.  (A list that
\* has strayed is not followed.)
BootEnds == <>(pc \in Ends \cup {"idle"} \/ heapMode = "strayed")

\* What is left of rest bytes once size bytes are allocated there; the header of
\* what is left must fit, unless nothing is.
Rest(rest, size) == rest - NodeSize - size
FitsIn(rest, size) == Rest(rest, size) = 0 \/ Rest(rest, size) >= NodeSize

\* size bytes from CombineBlocks: too many for a page, and room for a header.
WholePages(size) ==
    /\ NodeSize + size >= PageSize
    /\ NodeSize + size <= Heap!CombinedSize(size)

\* An archive the heap can serve.  The nodes of its files take no more than a
\* page; the program fits in what they leave of it, or takes whole pages; each
\* of its segments takes whole pages of its own; and there are enough pages.
Modest ==
    LET archive == IF machine.module THEN machine.archive ELSE << >>
        left    == PageSize - Len(archive) * (NodeSize + FileNodeSize)
        a       == SelectLastInSeq(archive, LAMBDA f : f.path = "a.out")
        size    == IF a = 0 THEN 0 ELSE archive[a].size
        loads   == IF size # 0 /\ archive[a].elf THEN archive[a].loads ELSE << >>
        wanted  == [i \in DOMAIN loads |-> loads[i] + PageSize - 1]
    IN  /\ left = 0 \/ left >= NodeSize
        /\ size = 0 \/ FitsIn(left, size) \/ WholePages(size)
        /\ \A i \in DOMAIN wanted : WholePages(wanted[i])
        /\ \A i, j \in DOMAIN wanted : i < j =>
            Rest(Heap!CombinedSize(wanted[i]), loads[i]) < NodeSize + wanted[j]
        /\ 1 + Heap!CombineTakes(size)
             + FoldLeft(LAMBDA n, w : n + Heap!CombineTakes(w), 0, wanted) <= HeapPages

\* On a machine that has what the kernel needs, with an archive the heap can
\* serve, _kmain reaches its idle loop.
BootCompletes == Complete /\ Modest ~> pc = "idle"

\* Once the kernel is up, clock interrupts never cease, if the I/O APIC that is
\* listed last is the one the clock is wired to: no edge of the clock's line is
\* lost while it is being set up, and each tick rearms the clock.
TicksGoOn ==
    \A set \in BOOLEAN : (pc = "idle" /\ ioAPIC = 0) ~> (rtcFlag = set)
=============================================================================
