--------------------------- MODULE PageAllocator ---------------------------
(***************************************************************************)
(* The page frame allocator (src/mm/allocator/allocator.c).                *)
(*                                                                         *)
(* FrameList[i] is the pair of ptr[i] and of the flag free, kept as the    *)
(* set of the indices whose flag is set.  PageAlloc is not atomic: it      *)
(* tests the flag of one entry after the other, clears the flag it found   *)
(* set and then zeroes the page.  Callers in Masked run it with interrupts *)
(* off (IntAddTask does); the others can be preempted between two steps.   *)
(***************************************************************************)
EXTENDS Integers, Sequences

CONSTANTS
    Callers,      \* contexts that allocate pages (bound)
    Masked,       \* those that call with interrupts off
    Nobody,       \* not a caller
    MemMaps,      \* memory maps the boot loader may report (bound)
    PageSize,     \* 0x1000 in the code
    EntrySize     \* sizeof(struct Page), 16 in the code

Entries == [type : {"usable", "reserved"}, base : Nat, length : Nat]

ASSUME PageAllocatorAssumption ==
    /\ PageSize \in Nat \ {0}
    /\ EntrySize \in Nat \ {0}
    /\ MemMaps \subseteq Seq(Entries)
    /\ Masked \subseteq Callers
    /\ Nobody \notin Callers

VARIABLES
    mmap,         \* the memory map of this boot
    frames,       \* LargestMemSegSize / 0x1000
    ptr, free,    \* FrameList
    mode,         \* "boot", "run" or "panic"
    masking,      \* the caller that has interrupts off, or Nobody
    pc, idx,      \* where each caller is in PageAlloc, and its loop index i
    held,         \* history: pages each caller was given and has not freed
    dirty         \* pages that hold data

vars == <<mmap, frames, ptr, free, mode, masking, pc, idx, held, dirty>>
listVars == <<mmap, frames, ptr>>     \* fixed by InitializeAllocator

Init ==
    /\ mmap \in MemMaps
    /\ frames = 0
    /\ ptr = [i \in {} |-> 0]
    /\ free = {}
    /\ mode = "boot"
    /\ masking = Nobody
    /\ pc = [t \in Callers |-> "idle"]
    /\ idx = [t \in Callers |-> 0]
    /\ held = [t \in Callers |-> {}]
    /\ dirty = {}

-----------------------------------------------------------------------------
ALIGN_UP(value, boundary) == ((value + (boundary - 1)) \div boundary) * boundary

\* The entries that can become largestEntry, and the one the loop ends with:
\* the first of the longest.
Usable(m) == {i \in 1 .. Len(m) : m[i].type = "usable" /\ m[i].length > 0}
Largest(m) ==
    {m[i] : i \in {k \in Usable(m) : \A j \in Usable(m) :
                        \/ m[k].length > m[j].length
                        \/ m[k].length = m[j].length /\ k <= j}}

\* The first page lies behind FrameList, which starts at the entry's base.
FirstFrameAtBase(e) == e.base
FirstFrame(e) == ALIGN_UP(e.base + EntrySize * (e.length \div PageSize), PageSize)

InitializeAllocator ==
    /\ mode = "boot"
    /\ \/ /\ Usable(mmap) = {}
          /\ mode' = "panic"
          /\ UNCHANGED <<frames, ptr, free>>
       \/ \E e \in Largest(mmap) :
            /\ frames' = e.length \div PageSize
            /\ ptr' = [i \in 0 .. frames' - 1 |-> FirstFrame(e) + i * PageSize]
            /\ free' = 0 .. frames' - 1
            /\ mode' = "run"
    /\ UNCHANGED <<mmap, masking, pc, idx, held, dirty>>

-----------------------------------------------------------------------------
(* PageAlloc, one action per access to FrameList. *)

\* t is on the CPU: nobody else has interrupts off.
OnCpuPreempted(t) == mode = "run"
OnCpu(t) == mode = "run" /\ masking \in {Nobody, t}

CallPageAlloc(t) ==
    /\ OnCpu(t)
    /\ pc[t] = "idle"
    /\ pc' = [pc EXCEPT ![t] = "scan"]
    /\ idx' = [idx EXCEPT ![t] = 0]
    /\ masking' = IF t \in Masked THEN t ELSE Nobody
    /\ UNCHANGED <<listVars, free, mode, held, dirty>>

\* The loop's condition fails.
LastIndexLate(t) == idx[t] > frames
LastIndexEarly(t) == idx[t] + 1 >= frames
LastIndex(t) == idx[t] >= frames

\* i++
NextIndex(t) == idx[t] + 1

\* One turn of the loop up to the test of the flag, or the panic behind it.
Scan(t) ==
    /\ OnCpu(t)
    /\ pc[t] = "scan"
    /\ \/ /\ LastIndex(t)
          /\ mode' = "panic"
          /\ UNCHANGED <<pc, idx>>
       \/ /\ ~LastIndex(t) /\ idx[t] \notin free
          /\ idx' = [idx EXCEPT ![t] = NextIndex(t)]
          /\ UNCHANGED <<pc, mode>>
       \/ /\ ~LastIndex(t) /\ idx[t] \in free
          /\ pc' = [pc EXCEPT ![t] = "claim"]
          /\ UNCHANGED <<idx, mode>>
    /\ UNCHANGED <<listVars, free, masking, held, dirty>>

\* FrameList[i].free = false
ClaimedNot(t) == free
Claimed(t) == free \ {idx[t]}
Claim(t) ==
    /\ OnCpu(t)
    /\ pc[t] = "claim"
    /\ free' = Claimed(t)
    /\ pc' = [pc EXCEPT ![t] = "clear"]
    /\ UNCHANGED <<listVars, mode, masking, idx, held, dirty>>

\* The memset and the return; the caller enables interrupts again.
ClearedNot(t) == dirty
Cleared(t) == dirty \ {ptr[idx[t]]}
Clear(t) ==
    /\ OnCpu(t)
    /\ pc[t] = "clear"
    /\ dirty' = Cleared(t)
    /\ held' = [held EXCEPT ![t] = @ \cup {ptr[idx[t]]}]
    /\ pc' = [pc EXCEPT ![t] = "idle"]
    /\ masking' = Nobody
    /\ UNCHANGED <<listVars, free, mode, idx>>

-----------------------------------------------------------------------------
\* A caller writes to a page it was given.
Use(t) ==
    /\ OnCpu(t)
    /\ pc[t] = "idle"
    /\ \E p \in held[t] : dirty' = dirty \cup {p}
    /\ UNCHANGED <<listVars, free, mode, masking, pc, idx, held>>

\* The pointers never change after boot, so the loop of PageFree is one store
\* to the flags; callers free pages they were given.
FreedNot(addr) == free
Freed(addr) == free \cup {i \in 0 .. frames - 1 : ptr[i] = addr}
PageFree(t, addr) ==
    /\ OnCpu(t)
    /\ pc[t] = "idle"
    /\ free' = Freed(addr)
    /\ held' = [held EXCEPT ![t] = @ \ {addr}]
    /\ UNCHANGED <<listVars, mode, masking, pc, idx, dirty>>

\* panic() halts the machine.
Halted == mode = "panic" /\ UNCHANGED vars

PageAlloc(t) == CallPageAlloc(t) \/ Scan(t) \/ Claim(t) \/ Clear(t)

Next ==
    \/ InitializeAllocator
    \/ \E t \in Callers : PageAlloc(t)
    \/ \E t \in Callers : Use(t)
    \/ \E t \in Callers : \E addr \in held[t] : PageFree(t, addr)
    \/ Halted

Spec == Init /\ [][Next]_vars

-----------------------------------------------------------------------------
(* Properties. *)

Indices == 0 .. frames - 1

\* Types of all variables.
TypeOK ==
    /\ mmap \in MemMaps
    /\ frames \in Nat
    /\ ptr \in [Indices -> Nat]
    /\ free \subseteq Indices
    /\ mode \in {"boot", "run", "panic"}
    /\ masking \in Masked \cup {Nobody}
    /\ pc \in [Callers -> {"idle", "scan", "claim", "clear"}]
    /\ idx \in [Callers -> 0 .. frames]
    /\ held \in [Callers -> SUBSET Nat]
    /\ dirty \subseteq Nat

\* The pages t has, or is about to be given.
Owned(t) == held[t] \cup IF pc[t] = "clear" THEN {ptr[idx[t]]} ELSE {}

\* PageAlloc never gives a page to two callers, nor one whose flag says it is
\* still free.
ExclusivePages ==
    /\ \A t, u \in Callers : t # u => Owned(t) \cap Owned(u) = {}
    /\ \A t \in Callers : \A i \in free : ptr[i] \notin Owned(t)

\* Every frame is free or some caller's: none is lost.
NoFrameLost ==
    \A i \in Indices : i \in free \/ \E t \in Callers : ptr[i] \in Owned(t)

\* A page that is in use is not zeroed by somebody else's PageAlloc.
DataKept ==
    [][\A t \in Callers : \A p \in held[t] : p \in dirty => p \in dirty']_vars

\* A page is handed out zeroed, whatever its last owner left in it.
HandedOutZeroed ==
    [][\A t \in Callers : \A p \in held'[t] \ held[t] : p \notin dirty']_vars

\* panic("No free mem left!") happens only when every frame is in use.
PanicOnlyWhenFull == mode = "panic" => free = {}

\* No page that can be handed out overlaps FrameList itself.
TableApart ==
    \A e \in Largest(mmap) : \A i \in Indices :
        ptr[i] >= e.base + EntrySize * frames

\* Every page lies in the usable memory the boot loader reported.
FramesUsable ==
    \A e \in Largest(mmap) : \A i \in Indices :
        e.base <= ptr[i] /\ ptr[i] + PageSize <= e.base + e.length

\* The loop over FrameList implements the pool of pages: a page changes hands
\* when its flag is cleared.
Pool == INSTANCE PagePool WITH
            avail <- {ptr[i] : i \in free},
            given <- [t \in Callers |-> Owned(t)],
            phase <- mode
ImplementsPool == Pool!PoolSpec
=============================================================================
