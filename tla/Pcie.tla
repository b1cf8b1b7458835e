-------------------------------- MODULE Pcie --------------------------------
(***************************************************************************)
(* The PCI Express enumeration (src/drivers/pci/pcie.c).                   *)
(*                                                                         *)
(* The MCFG is a sequence of entries with a base and a range of buses.  A  *)
(* function that answers is <<base, bus, device, function>>; any other     *)
(* reads as vendor 0xFFFF.  A device is in multi if bit 7 of its header    *)
(* type is set.  What is printed of a function is left out.                *)
(***************************************************************************)
EXTENDS Integers, Sequences, SequencesExt

CONSTANTS
    DevicesPerBus,        \* 32 in the code
    FunctionsPerDevice    \* 8

ASSUME PcieAssumption ==
    /\ DevicesPerBus \in Nat \ {0}
    /\ FunctionsPerDevice \in Nat \ {0}

VARIABLES
    entry,        \* number of the MCFG entry
    bus,          \* the bus that is next
    reported      \* what has been printed, in order

pcieVars == <<entry, bus, reported>>

PcieInit ==
    /\ entry = 0
    /\ bus = 0
    /\ reported = << >>

-----------------------------------------------------------------------------
PCIEEnumerateFunction(functions, base, b, d, f) ==
    IF <<base, b, d, f>> \in functions THEN <<<<base, b, d, f>>>> ELSE << >>

\* A device of one function is printed at once; of a device of several, each
\* function is, the first one included.
PCIEEnumerateDeviceTwice(functions, multi, base, b, d) ==
    IF <<base, b, d, 0>> \notin functions THEN << >>
    ELSE <<<<base, b, d, 0>>>> \o
         IF <<base, b, d>> \notin multi THEN << >>
         ELSE FlattenSeq([f \in 1 .. FunctionsPerDevice |->
                  PCIEEnumerateFunction(functions, base, b, d, f - 1)])
PCIEEnumerateDevice(functions, multi, base, b, d) ==
    IF <<base, b, d, 0>> \notin functions THEN << >>
    ELSE IF <<base, b, d>> \notin multi THEN <<<<base, b, d, 0>>>>
    ELSE FlattenSeq([f \in 1 .. FunctionsPerDevice |->
             PCIEEnumerateFunction(functions, base, b, d, f - 1)])

\* A bus whose first device does not answer is passed over.
PCIEEnumerateBus(functions, multi, base, b) ==
    IF <<base, b, 0, 0>> \notin functions THEN << >>
    ELSE FlattenSeq([d \in 1 .. DevicesPerBus |->
             PCIEEnumerateDevice(functions, multi, base, b, d - 1)])

-----------------------------------------------------------------------------
(* InitializePCIE with an MCFG. *)

FirstEntry(mcfg) ==
    /\ entry' = 1
    /\ bus' = IF mcfg = << >> THEN 0 ELSE mcfg[1].startPCIBus
    /\ UNCHANGED reported

ScanBus(mcfg, functions, multi) ==
    /\ entry \in DOMAIN mcfg
    /\ bus < mcfg[entry].endPCIBus
    /\ reported' = reported \o PCIEEnumerateBus(functions, multi, mcfg[entry].base, bus)
    /\ bus' = bus + 1
    /\ UNCHANGED entry

NextEntry(mcfg) ==
    /\ entry \in DOMAIN mcfg
    /\ bus >= mcfg[entry].endPCIBus
    /\ entry' = entry + 1
    /\ bus' = IF entry + 1 \in DOMAIN mcfg THEN mcfg[entry + 1].startPCIBus ELSE bus
    /\ UNCHANGED reported

Scanned(mcfg) == entry > Len(mcfg)
=============================================================================
