------------------------------- MODULE MCBoot -------------------------------
(* Machines for Boot: one that has everything, and variations of it. *)
EXTENDS Boot

LocalEntry == [type |-> 0, length |-> 8, base |-> 0]
OverrideEntry == [type |-> 2, length |-> 10, base |-> 0]
IOEntry(base) == [type |-> 1, length |-> 12, base |-> base]
Apic(entries) == [signature |-> "APIC", entries |-> entries]
McfgEntry(base, first, last) == [base |-> base, startPCIBus |-> first, endPCIBus |-> last]
McfgTable(entries) == [signature |-> "MCFG", entries |-> entries]
Other == [signature |-> "FACP", entries |-> << >>]

File(path, size, elf, loads) == [path |-> path, size |-> size, elf |-> elf, loads |-> loads]

\* Addresses whose three parts all differ (Word = 4).
MCAddress ==
    [DivZeroHandler |-> 27, BreakpointHandler |-> 45, OverflowHandler |-> 54,
     BoundRageExceededHandler |-> 75, InvalidOpcodeHandler |-> 114,
     DeviceNotAvailableHandler |-> 180, DFHandler |-> 198, InvalidTSSHandler |-> 201,
     GPFaultHandler |-> 210, PageFaultHandler |-> 225, KeyboardHandler |-> 228,
     TimerStub |-> 216, SyscallStub |-> 120]
MCMasks == {Lines, {}, Lines \ {0, 8}}

\* Two segment groups; bus 1 answers, bus 2 does not, bus 3 is not covered.
PC ==
    [responses |-> TRUE,
     rsdp |-> "ok",
     tables |-> <<Other, Apic(<<LocalEntry, IOEntry(0), OverrideEntry>>),
                  McfgTable(<<McfgEntry(10, 0, 3), McfgEntry(20, 1, 2)>>)>>,
     memory |-> "enough",
     functions |-> {<<10, 0, 0, 0>>, <<10, 0, 1, 0>>, <<10, 0, 1, 1>>, <<10, 1, 0, 0>>,
                    <<10, 2, 1, 0>>, <<10, 3, 0, 0>>, <<20, 1, 0, 0>>, <<20, 1, 0, 1>>},
     multi |-> {<<10, 0, 1>>, <<20, 1, 0>>},
     module |-> TRUE,
     archive |-> <<File("boot", 0, FALSE, << >>), File("a.out", 5, TRUE, <<2, 14>>)>>]

\* A page has room for the nodes of three files, and for a program of 10 bytes
\* behind one, 5 behind two and none behind three of them.
Archives ==
    {<< >>,
     <<File("a.out", 3, FALSE, <<5>>)>>,
     <<File("a.out", 5, TRUE, <<3>>), File("a.out", 2, TRUE, <<4, 16, 16>>)>>,
     <<File("a.out", 6, TRUE, <<1>>), File("boot", 4, FALSE, << >>),
       File("a.out", 0, FALSE, << >>)>>}
    \cup {<<File("a.out", size, TRUE, <<16>>)>> : size \in {8, 9, 10, 11, 14, 15, 16, 17, 18}}
    \cup {<<File("a.out", 18, TRUE, loads)>> :
            loads \in {<<0>>, <<1>>, <<17>>, <<19>>, <<5, 5>>, <<5, 5, 5>>, <<35, 35, 35>>}}
    \cup {[k \in 1 .. n |-> File("boot", k, FALSE, << >>)] : n \in 3 .. 4}
    \cup {<<File("boot", 0, FALSE, << >>), File("notes", 4, FALSE, << >>),
            File("a.out", size, TRUE, << >>)>> : size \in {1, 15}}

Rsdts ==
    {<< >>,
     <<Apic(<<IOEntry(0)>>)>>,
     <<Apic(<<LocalEntry, LocalEntry>>)>>,
     <<Apic(<< >>), McfgTable(<< >>)>>,
     <<Apic(<<IOEntry(24), LocalEntry, IOEntry(0)>>), McfgTable(<< >>)>>,
     <<Apic(<<IOEntry(0), IOEntry(24)>>), Other>>,
     <<Apic(<<LocalEntry>>), McfgTable(<<McfgEntry(20, 0, 9)>>),
       McfgTable(<<McfgEntry(10, 1, 2)>>), Apic(<<IOEntry(0)>>)>>}

MCMachines ==
    {PC}
    \cup {[PC EXCEPT !.responses = FALSE], [PC EXCEPT !.module = FALSE]}
    \cup {[PC EXCEPT !.rsdp = r] : r \in {"none", "noRsdt", "badSignature"}}
    \cup {[PC EXCEPT !.memory = m] : m \in {"none", "little"}}
    \cup {[PC EXCEPT !.tables = t] : t \in Rsdts}
    \cup {[PC EXCEPT !.archive = a] : a \in Archives}
=============================================================================
