----------------------------- MODULE BootProofs -----------------------------
(***************************************************************************)
(* Proof that interrupts and exceptions always find their handler while   *)
(* _kmain sets the machine up (HandlersReady of Boot).                     *)
(***************************************************************************)
EXTENDS Boot, TLAPS

-----------------------------------------------------------------------------
(* The order of the calls. *)

\* No call occurs twice in Kmain.
LEMMA KmainOnce ==
    /\ Len(Kmain) = 18
    /\ \A i, j \in 1 .. 18 : Kmain[i] = Kmain[j] => i = j
<1>1. Len(Kmain) = 18
  BY DEF Kmain
<1>2. ASSUME NEW i \in 1 .. 18, NEW j \in 1 .. 18, Kmain[i] = Kmain[j]
      PROVE  i = j
  BY <1>2 DEF Kmain
<1>. QED
  BY <1>1, <1>2

\* After(step) is what follows step in Kmain.
LEMMA NextCall ==
    ASSUME NEW k \in 1 .. 17
    PROVE  After(Kmain[k]) = Kmain[k + 1]
<1>1. {i \in 1 .. Len(Kmain) : Kmain[i] = Kmain[k]} = {k}
  BY KmainOnce
<1>2. SelectInSeq(Kmain, LAMBDA s : s = Kmain[k]) = k
  BY <1>1 DEF SelectInSeq, Min
<1>. QED
  BY <1>2 DEF After

\* The order of the calls in _kmain (kmain.c) and InitializeIDT (idt.c).
LEMMA Order ==
    /\ After("bootloader") = "acpi" /\ After("acpi") = "allocator"
    /\ After("allocator") = "paging" /\ After("paging") = "idt"
    /\ After("idt") = "remap" /\ After("remap") = "mask" /\ After("mask") = "apic"
    /\ After("apic") = "irq8" /\ After("irq8") = "rtc" /\ After("rtc") = "irq1"
    /\ After("irq1") = "sti" /\ After("sti") = "pitCli"
    /\ After("pitCli") = "pitSti" /\ After("pitSti") = "pcie"
    /\ After("pcie") = "ramdisk" /\ After("ramdisk") = "elf"
    /\ After("elf") = "idle"
<1>1. \A k \in 1 .. 17 : After(Kmain[k]) = Kmain[k + 1]
  BY NextCall
<1>2. /\ Kmain[1] = "bootloader" /\ Kmain[2] = "acpi" /\ Kmain[3] = "allocator"
      /\ Kmain[4] = "paging" /\ Kmain[5] = "idt" /\ Kmain[6] = "remap"
      /\ Kmain[7] = "mask" /\ Kmain[8] = "apic" /\ Kmain[9] = "irq8"
      /\ Kmain[10] = "rtc" /\ Kmain[11] = "irq1" /\ Kmain[12] = "sti"
      /\ Kmain[13] = "pitCli" /\ Kmain[14] = "pitSti" /\ Kmain[15] = "pcie"
      /\ Kmain[16] = "ramdisk" /\ Kmain[17] = "elf" /\ Kmain[18] = "idle"
  BY DEF Kmain
<1>. QED
  BY <1>1, <1>2
-----------------------------------------------------------------------------
(* The gates. *)

\* What AddIDTEntries leaves in the table.
Installed == {AddIDTEntry(Address[h], Vector[h]) : h \in DOMAIN Vector}

\* The parts AddIDTEntry splits an address into make up the whole of it again.
LEMMA WholeAddress ==
    ASSUME NEW offset \in Nat, NEW index
    PROVE  Target(AddIDTEntry(offset, index)) = offset
<1>. USE InterruptsAssumption
<1>1. \A n \in Nat : n \div Word \in Nat /\ n % Word \in Nat /\ n = (n % Word) + Word * (n \div Word)
  OBVIOUS
<1>. PICK q \in Nat : q = offset \div Word
  BY <1>1
<1>2. offset = (offset % Word) + Word * q
  BY <1>1
<1>3. q = (q % Word) + Word * (q \div Word)
  BY <1>1
<1>. QED
  BY <1>2, <1>3 DEF Target, AddIDTEntry

\* No two handlers are registered for one vector.
LEMMA VectorsOnce ==
    /\ DOMAIN Vector =
        {"DivZeroHandler", "BreakpointHandler", "OverflowHandler",
         "BoundRageExceededHandler", "InvalidOpcodeHandler",
         "DeviceNotAvailableHandler", "DFHandler", "InvalidTSSHandler",
         "GPFaultHandler", "PageFaultHandler", "KeyboardHandler", "TimerStub",
         "SyscallStub"}
    /\ \A g, h \in DOMAIN Vector : Vector[g] = Vector[h] => g = h
<1>1. DOMAIN Vector =
        {"DivZeroHandler", "BreakpointHandler", "OverflowHandler",
         "BoundRageExceededHandler", "InvalidOpcodeHandler",
         "DeviceNotAvailableHandler", "DFHandler", "InvalidTSSHandler",
         "GPFaultHandler", "PageFaultHandler", "KeyboardHandler", "TimerStub",
         "SyscallStub"}
  BY DEF Vector
<1>2. ASSUME NEW g \in DOMAIN Vector, NEW h \in DOMAIN Vector, Vector[g] = Vector[h]
      PROVE  g = h
  BY <1>1, <1>2 DEF Vector
<1>. QED
  BY <1>1, <1>2

\* Every registered handler is reached through its vector.
LEMMA GateOfHandler ==
    ASSUME idt = Installed, NEW h \in DOMAIN Vector
    PROVE  /\ LeadsTo(Vector[h], h)
           /\ Gates(Vector[h]) # {}
<1>. DEFINE gate == AddIDTEntry(Address[h], Vector[h])
<1>1. Gates(Vector[h]) = {gate}
  <2>1. gate \in Gates(Vector[h])
    BY DEF Gates, Installed, AddIDTEntry
  <2>2. ASSUME NEW g \in Gates(Vector[h])
        PROVE  g = gate
    <3>1. PICK i \in DOMAIN Vector : g = AddIDTEntry(Address[i], Vector[i])
      BY DEF Gates, Installed
    <3>2. Vector[i] = Vector[h]
      BY <3>1 DEF Gates, AddIDTEntry
    <3>. QED
      BY <3>1, <3>2, VectorsOnce
  <2>. QED
    BY <2>1, <2>2
<1>2. Target(gate) = Address[h]
  <2>1. Address[h] \in Nat
    BY InterruptsAssumption
  <2>. QED
    BY <2>1, WholeAddress
<1>. QED
  BY <1>1, <1>2 DEF LeadsTo

-----------------------------------------------------------------------------
(* The inductive invariant: how far the set-up has come, by the call of      *)
(* _kmain that is next, and that interrupts are off before it is complete.   *)

AfterAPIC ==
    {"madt", "irq8", "rtc", "irq1", "sti", "pitCli", "pitSti", "pcie", "buses",
     "ramdisk", "files", "elf", "segments", "idle"}
AfterMask == {"apic"} \cup AfterAPIC
AfterIDT == {"remap", "mask"} \cup AfterMask

BootInv ==
    /\ idt \in {{}, Installed}
    /\ pc = "idt" => pagingOn
    /\ pc \in AfterIDT => pagingOn /\ idt = Installed
    /\ pc \in AfterMask => picMasked = Lines
    /\ pc \in AfterAPIC => localAPIC
    /\ flagIF = 1 => pagingOn /\ idt = Installed /\ picMasked = Lines /\ localAPIC
    /\ \A r \in redirected : r[3] \in {33, 40}

\* The variables the invariant is about, besides pc.
watched == <<idt, picMasked, pagingOn, localAPIC, flagIF, redirected>>

\* Nothing is set up and interrupts are off when the bootloader starts _kmain.
LEMMA BootInvInit == Init => BootInv
  BY DEF Init, InterruptsInit, BootInv, AfterIDT, AfterMask, AfterAPIC

\* The invariant implies the property.
LEMMA BootInvImplies == BootInv => HandlersReady
<1>. SUFFICES ASSUME BootInv PROVE HandlersReady
  OBVIOUS
<1>1. ASSUME idt # {}, NEW v \in 0 .. 31
      PROVE  \E h \in DOMAIN Vector : LeadsTo(Escalated(v), h)
  <2>1. idt = Installed
    BY <1>1 DEF BootInv
  <2>2. CASE Gates(v) = {}
    <3>1. Escalated(v) = Vector["DFHandler"] /\ "DFHandler" \in DOMAIN Vector
      BY <2>2 DEF Escalated, Vector
    <3>. QED
      BY <2>1, <3>1, GateOfHandler
  <2>3. CASE Gates(v) # {}
    <3>1. PICK h \in DOMAIN Vector : v = Vector[h]
      BY <2>1, <2>3 DEF Gates, Installed, AddIDTEntry
    <3>. QED
      BY <2>1, <2>3, <3>1, GateOfHandler DEF Escalated
  <2>. QED
    BY <2>2, <2>3
<1>2. ASSUME flagIF = 1, NEW v \in Deliverable
      PROVE  /\ \E h \in {"TimerStub", "KeyboardHandler"} : LeadsTo(v, h)
             /\ pagingOn /\ localAPIC
  <2>1. pagingOn /\ localAPIC /\ idt = Installed /\ v \in {33, 40}
    BY <1>2 DEF BootInv, Deliverable
  <2>2. /\ Vector["TimerStub"] = 40 /\ "TimerStub" \in DOMAIN Vector
        /\ Vector["KeyboardHandler"] = 33 /\ "KeyboardHandler" \in DOMAIN Vector
    BY DEF Vector
  <2>. QED
    BY <2>1, <2>2, GateOfHandler
<1>. QED
  BY <1>1, <1>2 DEF HandlersReady

\* A call that leaves the set-up alone and only moves on, or stops.
LEMMA MovesOn ==
    ASSUME BootInv, UNCHANGED watched,
           \/ pc' \in {pc, "panic", "reset"}
           \/ pc' = "acpi" \/ pc' = "allocator" \/ pc' = "paging"
           \/ pc \in AfterAPIC /\ pc' \in AfterAPIC
    PROVE  BootInv'
  BY DEF BootInv, watched, Installed, AfterIDT, AfterMask, AfterAPIC, Gates

\* Every step of _kmain, the clock and TimerStub keeps the invariant.
LEMMA BootInvStep == BootInv /\ [Next]_vars => BootInv'
<1>. SUFFICES ASSUME BootInv, [Next]_vars PROVE BootInv'
  OBVIOUS
<1>. USE DEF ownVars, interruptVars, picVars, walkVars, rtcVars
<1>1. Fault \in {"panic", "reset"}
  BY DEF Fault
<1>2. CASE InitializeBootloader
  BY <1>1, <1>2, MovesOn, Order DEF InitializeBootloader, watched
<1>3. CASE InitializeACPI
  BY <1>3, MovesOn, Order DEF InitializeACPI, watched
<1>4. CASE InitializeAllocator
  BY <1>4, MovesOn, Order DEF InitializeAllocator, watched
<1>5. CASE InitializePaging
  <2>1. CASE machine.memory = "little"
    BY <1>5, <2>1, MovesOn DEF InitializePaging, watched
  <2>2. CASE pc' = "idt" /\ pagingOn'
    BY <1>5, <2>2 DEF InitializePaging, BootInv, AfterIDT, AfterMask, AfterAPIC, Installed
  <2>. QED
    BY <1>5, <2>1, <2>2, Order DEF InitializePaging
<1>6. CASE InitializeIDT
  BY <1>6, Order DEF InitializeIDT, AddIDTEntries, BootInv, AfterIDT, AfterMask, AfterAPIC, Installed
<1>7. CASE SilencePIC
  BY <1>7, Order DEF SilencePIC, RemapPIC, DisablePIC, BootInv, AfterIDT, AfterMask, AfterAPIC, Installed
<1>8. CASE InitializeAPIC
  <2>1. CASE madtPtr = 0
    BY <1>1, <1>8, <2>1, MovesOn DEF InitializeAPIC, watched
  <2>2. CASE madtPtr # 0
    BY <1>8, <2>2 DEF InitializeAPIC, StartWalk, BootInv, AfterIDT, AfterMask, AfterAPIC, Installed
  <2>. QED
    BY <2>1, <2>2
<1>9. CASE MadtStep
  BY <1>9, MovesOn, Order DEF MadtStep, WalkEntry, watched, AfterAPIC
<1>10. CASE RegisterClock \/ RegisterKeyboard
  <2>1. PICK step \in {"irq8", "irq1"}, vector \in {33, 40}, pin \in {1, 8} :
          RegisterIRQ(step, vector, pin)
    BY <1>10 DEF RegisterClock, RegisterKeyboard
  <2>2. CASE ioAPIC = NoAPIC
    BY <1>1, <2>1, <2>2, MovesOn DEF RegisterIRQ, IOAPICRegisterIRQ, watched
  <2>3. CASE ioAPIC # NoAPIC
    <3>1. /\ redirected' = redirected \cup {<<ioAPIC, pin, vector>>}
          /\ pc \in AfterAPIC /\ pc' \in AfterAPIC
          /\ UNCHANGED <<idt, picMasked, pagingOn, localAPIC, flagIF>>
      BY <2>1, <2>3, Order DEF RegisterIRQ, IOAPICRegisterIRQ, AfterAPIC
    <3>2. \A r \in redirected' : r[3] \in {33, 40}
      BY <3>1 DEF BootInv
    <3>. QED
      BY <3>1, <3>2 DEF BootInv, AfterIDT, AfterMask, AfterAPIC, Installed
  <2>. QED
    BY <2>2, <2>3
<1>11. CASE StartClock
  BY <1>11, Order DEF StartClock, InitializeRTC, BootInv, AfterIDT, AfterMask, AfterAPIC, Installed
<1>12. CASE SwitchInterrupts
  BY <1>12, Order DEF SwitchInterrupts, SetIF, BootInv, AfterIDT, AfterMask, AfterAPIC, Installed
<1>13. CASE InitializePCIE
  BY <1>13, MovesOn, Order DEF InitializePCIE, watched, AfterAPIC
<1>14. CASE PcieStep
  BY <1>14, MovesOn, Order DEF PcieStep, watched, AfterAPIC
<1>15. CASE InitializeRamdisk
  BY <1>15, MovesOn, Order DEF InitializeRamdisk, watched, AfterAPIC
<1>16. CASE RamdiskStep
  BY <1>1, <1>16, MovesOn, Order DEF RamdiskStep, Requested, watched, AfterAPIC
<1>17. CASE LoadProgram \/ LoadSegment
  <2>1. \/ pc' \in {"panic", "reset"}
        \/ pc \in AfterAPIC /\ pc' \in AfterAPIC
    BY <1>1, <1>17, Order DEF LoadProgram, LoadSegment, Requested, AfterAPIC
  <2>. QED
    BY <1>17, <2>1, MovesOn DEF LoadProgram, LoadSegment, watched
<1>18. CASE Clock
  BY <1>18, MovesOn DEF Clock, RtcPeriod, watched
<1>19. CASE Tick
  BY <1>19, MovesOn DEF Tick, TimerTick, watched
<1>20. CASE UNCHANGED vars
  BY <1>20, MovesOn DEF vars, watched
<1>. QED
  BY <1>2, <1>3, <1>4, <1>5, <1>6, <1>7, <1>8, <1>9, <1>10, <1>11, <1>12, <1>13,
     <1>14, <1>15, <1>16, <1>17, <1>18, <1>19, <1>20
  DEF Next, KmainStep, Stopped

\* On every machine, whatever its firmware tables, masks, devices and archive,
\* and wherever the handlers' code lies, every exception from lidt on and every
\* interrupt from the first sti on (idt.c, InitializeRTC) reaches its handler
\* and finds the kernel's PML4 and the local APIC.
THEOREM AlwaysHandled == Spec => []HandlersReady
<1>1. Init /\ [][Next]_vars => []BootInv
  BY BootInvInit, BootInvStep, PTL
<1>. QED
  BY <1>1, BootInvImplies, PTL DEF Spec
=============================================================================
