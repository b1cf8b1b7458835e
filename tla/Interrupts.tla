----------------------------- MODULE Interrupts -----------------------------
(***************************************************************************)
(* Setting up interrupts: InitializeIDT (src/interrupts/idt.c) with its    *)
(* gates and the legacy interrupt controllers, the walk over the MADT and  *)
(* the I/O APIC (src/drivers/apic/apic.c) and the real-time clock          *)
(* (src/drivers/rtc/rtc.c), and the clock's interrupts.                    *)
(*                                                                         *)
(* The clock sets its flag periodically.  While its interrupt is on, the   *)
(* flag raises the interrupt line; the I/O APIC latches the edge if the    *)
(* pin has been redirected by then, and there is no other edge before the  *)
(* flag has been read, which RTC_Check does.                               *)
(***************************************************************************)
EXTENDS Integers, Sequences, SequencesExt

CONSTANTS
    Uint32,       \* 2^32 in the code
    NoAPIC,       \* ioAPIC is NULL
    Word,         \* 2^16 in the code: a gate has two words and the rest
    Address,      \* where each handler's code is
    FirmwareMasks \* interrupt lines the firmware may leave masked

\* The vector each handler is registered for.
Vector ==
    [DivZeroHandler |-> 1, BreakpointHandler |-> 3, OverflowHandler |-> 4,
     BoundRageExceededHandler |-> 5, InvalidOpcodeHandler |-> 6,
     DeviceNotAvailableHandler |-> 7, DFHandler |-> 8, InvalidTSSHandler |-> 10,
     GPFaultHandler |-> 13, PageFaultHandler |-> 14, KeyboardHandler |-> 32 + 1,
     TimerStub |-> 32 + 8, SyscallStub |-> 128]

\* The lines of the two legacy controllers.
Lines == 0 .. 15

ASSUME InterruptsAssumption ==
    /\ Uint32 \in Nat \ {0}
    /\ NoAPIC \notin Nat
    /\ Word \in Nat \ {0}
    /\ Address \in [DOMAIN Vector -> Nat]
    /\ FirmwareMasks \subseteq SUBSET Lines

VARIABLES
    idt,          \* the gates of the table lidt has loaded
    picOffsets,   \* first vector of each legacy controller
    picMasked,    \* masked lines of both
    localAPIC,    \* the local APIC's address is known
    ioAPIC,       \* the first interrupt number of the I/O APIC in use
    current,      \* the walk over the MADT: offset of the entry
    length,       \* and bytes left
    redirected,   \* redirection entries: I/O APIC, pin, vector
    rtcOn,        \* the clock's periodic interrupt is on
    rtcFlag,      \* the clock's flag is set
    pending,      \* its interrupt is latched
    flagIF

picVars == <<picOffsets, picMasked>>
interruptVars == <<idt, picVars, localAPIC, ioAPIC, current, length, redirected,
                   rtcOn, rtcFlag, pending, flagIF>>
walkVars == <<localAPIC, ioAPIC, current, length>>
rtcVars == <<rtcOn, rtcFlag, pending>>

\* The clock may have set its flag before the kernel starts; the controllers
\* are as the firmware has left them.
InterruptsInit ==
    /\ idt = {}
    /\ picOffsets = <<8, 112>>
    /\ picMasked \in FirmwareMasks
    /\ localAPIC = FALSE
    /\ ioAPIC = NoAPIC
    /\ current = 0
    /\ length = 0
    /\ redirected = {}
    /\ rtcOn = FALSE
    /\ rtcFlag \in BOOLEAN
    /\ pending = FALSE
    /\ flagIF = 0

-----------------------------------------------------------------------------
(* InitializeIDT up to InitializeAPIC, and the MADT. *)

\* A gate holds the handler's address in three parts.
AddIDTEntry(offset, index) ==
    [vector |-> index,
     offset_1 |-> offset % Word,
     offset_2 |-> (offset \div Word) % Word,
     offset_3 |-> (offset \div Word) \div Word]

\* Up to and including lidt.
AddIDTEntries ==
    /\ idt' = {AddIDTEntry(Address[h], Vector[h]) : h \in DOMAIN Vector}
    /\ UNCHANGED <<picVars, walkVars, redirected, rtcVars, flagIF>>

\* The address the processor puts together from a gate.
Target(gate) == gate.offset_1 + Word * (gate.offset_2 + Word * gate.offset_3)

\* The gates for v.  A missing gate is a fault of its own whose gate (11) is
\* missing too, and so ends as a double fault.
Gates(v) == {g \in idt : g.vector = v}
Escalated(v) == IF Gates(v) # {} THEN v ELSE 8

\* Initialising a controller clears its mask: RemapPIC saves and restores both.
RemapPIC(offset1, offset2) ==
    /\ picOffsets' = <<offset1, offset2>>
    /\ UNCHANGED <<idt, picMasked, walkVars, redirected, rtcVars, flagIF>>

DisablePIC ==
    /\ picMasked' = Lines
    /\ UNCHANGED <<idt, picOffsets, walkVars, redirected, rtcVars, flagIF>>

\* The vector of a line of the legacy controllers.
PicVector(line) ==
    IF line < 8 THEN picOffsets[1] + line ELSE picOffsets[2] + line - 8

\* Offset of the k-th entry; the entries follow 44 bytes of header.
Offset(madt, k) == FoldLeft(LAMBDA n, e : n + e.length, 0, SubSeq(madt, 1, k - 1))
TableLength(madt) == 44 + Offset(madt, Len(madt) + 1)
sizeofMADT == 46

\* struct MADT includes the first two bytes of the first entry.
EntriesLength(madt) == (TableLength(madt) - sizeofMADT + 2) % Uint32

StartWalk(madt) ==
    /\ localAPIC' = TRUE
    /\ current' = 0
    /\ length' = EntriesLength(madt)
    /\ UNCHANGED <<ioAPIC, idt, picVars, redirected, rtcVars, flagIF>>

EntriesAt(madt) == {k \in DOMAIN madt : Offset(madt, k) = current}

\* Type 1 is an I/O APIC.
IsIOAPIC(e) == e.type = 1

\* One turn of the loop.
WalkEntryStays(madt) ==
    /\ length > 0
    /\ \E k \in EntriesAt(madt) :
        /\ ioAPIC' = IF IsIOAPIC(madt[k]) THEN madt[k].base ELSE ioAPIC
        /\ length' = (length - madt[k].length) % Uint32
    /\ UNCHANGED <<current, localAPIC, idt, picVars, redirected, rtcVars, flagIF>>
WalkEntry(madt) ==
    /\ length > 0
    /\ \E k \in EntriesAt(madt) :
        /\ ioAPIC' = IF IsIOAPIC(madt[k]) THEN madt[k].base ELSE ioAPIC
        /\ length' = (length - madt[k].length) % Uint32
        /\ current' = current + madt[k].length
    /\ UNCHANGED <<localAPIC, idt, picVars, redirected, rtcVars, flagIF>>

-----------------------------------------------------------------------------
(* The rest of InitializeIDT. *)

IOAPICRegisterIRQ(vector, pin) ==
    /\ ioAPIC # NoAPIC
    /\ redirected' = redirected \cup {<<ioAPIC, pin, vector>>}
    /\ UNCHANGED <<walkVars, idt, picVars, rtcVars, flagIF>>

\* The clock's line is wired to input 8 of the I/O APIC that has number 0.
ClockRedirected == <<0, 8, 32 + 8>> \in redirected

\* Ends with sti.
InitializeRTC ==
    /\ rtcOn' = TRUE
    /\ pending' = (pending \/ (rtcFlag /\ ClockRedirected))
    /\ flagIF' = 1
    /\ UNCHANGED <<walkVars, idt, picVars, redirected, rtcFlag>>

SetIF(bit) ==
    /\ flagIF' = bit
    /\ UNCHANGED <<walkVars, idt, picVars, redirected, rtcVars>>

\* Vectors that can arrive while interrupts are on.
Deliverable ==
    {r[3] : r \in redirected} \cup {PicVector(l) : l \in Lines \ picMasked}

-----------------------------------------------------------------------------
(* The clock and its handler. *)

RtcPeriod ==
    /\ ~rtcFlag
    /\ rtcFlag' = TRUE
    /\ pending' = (pending \/ (rtcOn /\ ClockRedirected))
    /\ UNCHANGED <<walkVars, idt, picVars, redirected, rtcOn, flagIF>>

\* TimerStub while there are no tasks: TaskSwitch calls RTC_Check and returns.
TimerTick ==
    /\ flagIF = 1 /\ pending
    /\ pending' = FALSE
    /\ rtcFlag' = FALSE
    /\ UNCHANGED <<walkVars, idt, picVars, redirected, rtcOn, flagIF>>
=============================================================================
