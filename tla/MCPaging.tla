------------------------------ MODULE MCPaging ------------------------------
(* Small instances of Paging for TLC: tables of five entries, so that 2 MiB *)
(* are 5 pages, 1 GiB is 25 and an entry of a PML4 covers 125.              *)
EXTENDS Paging

Section(b, l) == [base |-> b, length |-> l, aligned |-> TRUE]
Unaligned(b, l) == [base |-> b, length |-> l, aligned |-> FALSE]

\* The direct map is in the third slot of a PML4, the kernel in the fifth.
Machine(entries, first, last, fb) ==
    [entries |-> entries, first |-> first, last |-> last,
     hhdm |-> 250, kernelVirt |-> 618, kernelPhys |-> 1, kernelSize |-> 2,
     fbVirt |-> 250 + fb, fbSize |-> 1, start |-> last + 1, end |-> last + 3]

\* Most memory lies above 4 GiB, and the pages PageAlloc has with it; the
\* memory below is listed, too.
LargeMachine == Machine(<<Section(1, 23), Section(32, 62)>>, 34, 93, 28)

\* The same with firmware tables that do not start on a page, and a
\* framebuffer above 4 GiB; the memory below 1 GiB is one page.
SparseMachine == Machine(<<Section(1, 1), Unaligned(26, 2), Section(40, 40)>>, 42, 80, 36)

\* All memory below 4 GiB, and the first process's tables below 1 GiB.
SmallMachine == Machine(<<Section(0, 1), Section(1, 29)>>, 3, 29, 28)

MCLayouts == {LargeMachine, SparseMachine, SmallMachine}
=============================================================================
