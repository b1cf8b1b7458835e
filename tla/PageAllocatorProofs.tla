------------------------ MODULE PageAllocatorProofs ------------------------
(***************************************************************************)
(* Proofs about PageAllocator, for any memory map, page size and number of *)
(* callers, when every caller has interrupts off while it is in PageAlloc. *)
(***************************************************************************)
EXTENDS PageAllocator, TLAPS

\* What the theorems assume of the callers: IntAddTask's cli.
AllMasked == Callers \subseteq Masked

\* FrameList names every page once.
Injective == \A i, j \in Indices : ptr[i] = ptr[j] => i = j

\* Nothing has happened before InitializeAllocator.
BootInv ==
    mode = "boot" => /\ frames = 0
                     /\ \A t \in Callers : pc[t] = "idle" /\ held[t] = {}

\* A caller inside PageAlloc is the one with interrupts off; what its index
\* says about the flags.
CallInv ==
    \A t \in Callers :
        /\ pc[t] # "idle" => masking = t
        /\ pc[t] = "scan" => \A i \in Indices : i < idx[t] => i \notin free
        /\ pc[t] = "claim" => idx[t] \in free
        /\ pc[t] = "clear" => idx[t] \in Indices /\ idx[t] \notin free
                              /\ \A u \in Callers : ptr[idx[t]] \notin held[u]

\* A page in use is a frame whose flag is clear, and has one holder.
HeldInv ==
    /\ \A t \in Callers : \A p \in held[t] :
            \E i \in Indices : i \notin free /\ ptr[i] = p
    /\ \A t, u \in Callers : t # u => held[t] \cap held[u] = {}

IInv ==
    /\ TypeOK /\ Injective /\ BootInv /\ CallInv /\ HeldInv
    /\ NoFrameLost /\ PanicOnlyWhenFull

-----------------------------------------------------------------------------
(* Arithmetic of addresses. *)

\* A division of naturals rounds down.
LEMMA DivRoundsDown ==
    ASSUME NEW a \in Nat, NEW b \in Nat \ {0}
    PROVE  /\ a \div b \in Nat
           /\ (a \div b) * b <= a /\ a < (a \div b) * b + b
OBVIOUS

\* The macro ALIGN_UP never goes below its argument.
LEMMA AlignUpAbove ==
    ASSUME NEW v \in Nat, NEW b \in Nat \ {0}
    PROVE  ALIGN_UP(v, b) \in Nat /\ ALIGN_UP(v, b) >= v
<1>1. v + (b - 1) \in Nat
  OBVIOUS
<1>2. (v + (b - 1)) \div b \in Nat
  BY <1>1, DivRoundsDown
<1>3. ((v + (b - 1)) \div b) * b \in Nat
  BY <1>2
<1>4. v + (b - 1) < ((v + (b - 1)) \div b) * b + b
  BY <1>1, DivRoundsDown
<1> QED BY <1>3, <1>4 DEF ALIGN_UP

\* nextAddr += 0x1000 gives every frame an address of its own.
LEMMA StrideInjective ==
    ASSUME NEW i \in Nat, NEW j \in Nat, NEW b \in Nat \ {0}, NEW s \in Nat, i < j
    PROVE  s + i * b # s + j * b
<1>1. PICK d \in Nat : j = i + 1 + d
  <2> WITNESS (j - i) - 1 \in Nat
  <2> QED OBVIOUS
<1>2. j * b = i * b + b + d * b
  BY <1>1
<1>3. d * b >= 0
  OBVIOUS
<1>4. i * b \in Nat /\ j * b \in Nat /\ d * b \in Nat
  OBVIOUS
<1> HIDE <1>1
<1> QED BY <1>2, <1>3, <1>4

\* The entry InitializeAllocator chooses is one of the memory map, and there is
\* only one such entry.
LEMMA LargestEntry ==
    ASSUME NEW m \in MemMaps, NEW e \in Largest(m)
    PROVE  /\ e.base \in Nat /\ e.length \in Nat
           /\ \A d \in Largest(m) : d = e
<1>1. m \in Seq(Entries)
  BY PageAllocatorAssumption
<1>2. \A i \in Usable(m) : i \in 1 .. Len(m) /\ m[i] \in Entries
  BY <1>1 DEF Usable
<1>3. \A i \in Usable(m) : i \in Int /\ m[i].base \in Nat /\ m[i].length \in Nat
  BY <1>1, <1>2 DEF Entries
<1> HIDE <1>1, <1>2
<1> QED BY <1>3 DEF Largest

\* The addresses InitializeAllocator computes.
LEMMA FirstFrameAboveTable ==
    ASSUME NEW m \in MemMaps, NEW e \in Largest(m)
    PROVE  /\ e.length \div PageSize \in Nat
           /\ EntrySize * (e.length \div PageSize) \in Nat
           /\ FirstFrame(e) \in Nat
           /\ FirstFrame(e) >= e.base + EntrySize * (e.length \div PageSize)
<1>1. e.base \in Nat /\ e.length \in Nat
  BY LargestEntry
<1>2. e.length \div PageSize \in Nat
  BY <1>1, DivRoundsDown, PageAllocatorAssumption
<1>3. EntrySize * (e.length \div PageSize) \in Nat
  BY <1>2, PageAllocatorAssumption
<1>4. e.base + EntrySize * (e.length \div PageSize) \in Nat
  BY <1>1, <1>3
<1> QED BY <1>2, <1>3, <1>4, AlignUpAbove, PageAllocatorAssumption DEF FirstFrame

-----------------------------------------------------------------------------
(* The steps. *)

\* Before InitializeAllocator there is nothing to allocate and nobody allocates.
LEMMA InitEstablishes == Init => IInv
<1> SUFFICES ASSUME Init PROVE IInv
  OBVIOUS
<1> USE DEF Init, Indices
<1>1. TypeOK
  BY DEF TypeOK
<1>2. BootInv /\ CallInv
  BY DEF BootInv, CallInv
<1>3. Injective /\ HeldInv /\ NoFrameLost /\ PanicOnlyWhenFull
  BY DEF Injective, HeldInv, NoFrameLost, PanicOnlyWhenFull
<1> QED BY <1>1, <1>2, <1>3 DEF IInv

\* InitializeAllocator builds a FrameList of distinct pages, all free.
LEMMA InitializeAllocatorPreserves == IInv /\ InitializeAllocator => IInv'
<1> SUFFICES ASSUME IInv, InitializeAllocator PROVE IInv'
  OBVIOUS
<1>1. CASE mode' = "panic"
  <2> USE <1>1 DEF InitializeAllocator, Indices
  <2>1. UNCHANGED <<mmap, frames, ptr, free, masking, pc, idx, held, dirty>>
    OBVIOUS
  <2>2. frames = 0 /\ free = {}
    BY DEF IInv, BootInv, TypeOK
  <2>3. TypeOK'
    BY <2>1, <1>1 DEF IInv, TypeOK
  <2> QED BY <2>1, <2>2, <2>3
          DEF IInv, Injective, BootInv, CallInv, HeldInv, NoFrameLost, Owned,
              PanicOnlyWhenFull
<1>2. CASE mode' = "run"
  <2>1. PICK e \in Largest(mmap) :
            /\ frames' = e.length \div PageSize
            /\ ptr' = [i \in 0 .. frames' - 1 |-> FirstFrame(e) + i * PageSize]
            /\ free' = 0 .. frames' - 1
    BY <1>2 DEF InitializeAllocator
  <2>2. mmap \in MemMaps
    BY DEF IInv, TypeOK
  <2>3. frames' \in Nat /\ FirstFrame(e) \in Nat
    BY <2>1, <2>2, FirstFrameAboveTable
  <2>4. /\ mode = "boot" /\ frames = 0
        /\ \A t \in Callers : pc[t] = "idle" /\ held[t] = {}
        /\ UNCHANGED <<mmap, masking, pc, idx, held, dirty>>
    BY DEF InitializeAllocator, IInv, BootInv
  <2>5. ptr' \in [0 .. frames' - 1 -> Nat]
    <3>1. \A i \in 0 .. frames' - 1 : FirstFrame(e) + i * PageSize \in Nat
      BY <2>3, PageAllocatorAssumption
    <3> QED BY <2>1, <3>1
  <2>6. TypeOK'
    <3>1. idx \in [Callers -> 0 .. frames']
      BY <2>3, <2>4 DEF IInv, TypeOK
    <3> QED BY <2>1, <2>3, <2>4, <2>5, <1>2, <3>1 DEF IInv, TypeOK, Indices
  <2>7. Injective'
    <3> SUFFICES ASSUME NEW i \in 0 .. frames' - 1, NEW j \in 0 .. frames' - 1,
                        i # j
                 PROVE  ptr'[i] # ptr'[j]
      BY DEF Injective, Indices
    <3>1. ptr'[i] = FirstFrame(e) + i * PageSize
          /\ ptr'[j] = FirstFrame(e) + j * PageSize
      BY <2>1
    <3>2. i \in Nat /\ j \in Nat /\ (i < j \/ j < i)
      BY <2>3
    <3> QED BY <3>1, <3>2, <2>3, StrideInjective, PageAllocatorAssumption
  <2>8. NoFrameLost'
    BY <2>1 DEF NoFrameLost, Indices
  <2> QED BY <2>4, <2>6, <2>7, <2>8, <1>2
          DEF IInv, BootInv, CallInv, HeldInv, PanicOnlyWhenFull
<1> QED BY <1>1, <1>2 DEF InitializeAllocator

\* With interrupts off, a call of PageAlloc begins alone.
LEMMA CallPageAllocPreserves ==
    ASSUME AllMasked, IInv, NEW t \in Callers, CallPageAlloc(t)
    PROVE  IInv'
<1> USE DEF CallPageAlloc, listVars, OnCpu
<1>1. masking' = t /\ masking \in {Nobody, t} /\ pc[t] = "idle"
  BY DEF AllMasked
<1>2. \A u \in Callers : u # t => pc[u] = "idle" /\ pc'[u] = "idle"
  BY <1>1, PageAllocatorAssumption DEF IInv, TypeOK, CallInv
<1>3. pc'[t] = "scan" /\ idx'[t] = 0 /\ UNCHANGED <<mmap, frames, ptr, free, held>>
  BY DEF IInv, TypeOK
<1>4. TypeOK'
  BY DEF IInv, TypeOK, Indices, AllMasked
<1>5. CallInv'
  <2>1. \A i \in Indices : ~(i < 0)
    BY DEF Indices
  <2> QED BY <1>1, <1>2, <1>3, <2>1 DEF CallInv, Indices
<1>6. NoFrameLost'
  <2>1. \A u \in Callers : Owned(u)' = Owned(u)
    BY <1>1, <1>2, <1>3 DEF Owned
  <2> QED BY <2>1, <1>3 DEF IInv, NoFrameLost, Indices
<1> QED BY <1>3, <1>4, <1>5, <1>6
        DEF IInv, Injective, BootInv, HeldInv, PanicOnlyWhenFull, Indices

\* The other callers are outside PageAlloc while t is inside.
LEMMA OthersIdle ==
    ASSUME AllMasked, IInv, NEW t \in Callers, pc[t] # "idle"
    PROVE  masking = t /\ \A u \in Callers : u # t => pc[u] = "idle"
BY PageAllocatorAssumption DEF IInv, TypeOK, CallInv

\* A turn of the loop keeps what the index says about the flags.
LEMMA ScanPreserves ==
    ASSUME AllMasked, IInv, NEW t \in Callers, Scan(t)
    PROVE  IInv'
<1> USE DEF Scan, NextIndex, listVars
<1>1. /\ pc[t] = "scan" /\ mode = "run"
      /\ UNCHANGED <<mmap, frames, ptr, free, masking, held, dirty>>
  BY DEF OnCpu
<1>2. masking = t /\ \A u \in Callers : u # t => pc[u] = "idle"
  BY <1>1, OthersIdle
<1>3. /\ frames \in Nat /\ idx \in [Callers -> 0 .. frames]
      /\ pc \in [Callers -> {"idle", "scan", "claim", "clear"}]
      /\ free \subseteq Indices
      /\ \A i \in Indices : i < idx[t] => i \notin free
  BY <1>1 DEF IInv, TypeOK, CallInv
<1>4. CASE LastIndex(t) /\ mode' = "panic" /\ UNCHANGED <<pc, idx>>
  <2>1. free = {}
    BY <1>3, <1>4 DEF LastIndex, Indices
  <2>2. TypeOK'
    BY <1>1, <1>4 DEF IInv, TypeOK, Indices
  <2> QED BY <1>1, <1>4, <2>1, <2>2
          DEF IInv, Injective, BootInv, CallInv, HeldInv, NoFrameLost, Owned,
              PanicOnlyWhenFull, Indices
<1>5. CASE /\ ~LastIndex(t) /\ idx[t] \notin free
           /\ idx' = [idx EXCEPT ![t] = @ + 1]
           /\ UNCHANGED <<pc, mode>>
  <2>1. idx' \in [Callers -> 0 .. frames] /\ idx'[t] = idx[t] + 1
    BY <1>3, <1>5 DEF LastIndex
  <2>2. TypeOK'
    BY <1>1, <1>5, <2>1 DEF IInv, TypeOK, Indices
  <2>3. \A i \in Indices : i < idx'[t] => i \notin free
    BY <1>3, <1>5, <2>1 DEF Indices
  <2>4. CallInv'
    BY <1>1, <1>2, <1>5, <2>3 DEF CallInv, Indices
  <2>5. NoFrameLost'
    <3>1. \A u \in Callers : Owned(u)' = Owned(u)
      BY <1>1, <1>2, <1>5 DEF Owned
    <3> QED BY <3>1, <1>1 DEF IInv, NoFrameLost, Indices
  <2> QED BY <1>1, <1>5, <2>2, <2>4, <2>5
          DEF IInv, Injective, BootInv, HeldInv, PanicOnlyWhenFull, Indices
<1>6. CASE /\ ~LastIndex(t) /\ idx[t] \in free
           /\ pc' = [pc EXCEPT ![t] = "claim"]
           /\ UNCHANGED <<idx, mode>>
  <2>1. pc'[t] = "claim" /\ \A u \in Callers : u # t => pc'[u] = "idle"
    BY <1>2, <1>3, <1>6
  <2>2. TypeOK'
    BY <1>1, <1>3, <1>6 DEF IInv, TypeOK, Indices
  <2>3. CallInv'
    BY <1>1, <1>2, <1>6, <2>1 DEF CallInv, Indices
  <2>4. NoFrameLost'
    <3>1. \A u \in Callers : Owned(u)' = Owned(u)
      BY <1>1, <1>2, <2>1 DEF Owned
    <3> QED BY <3>1, <1>1 DEF IInv, NoFrameLost, Indices
  <2> QED BY <1>1, <1>6, <2>2, <2>3, <2>4
          DEF IInv, Injective, BootInv, HeldInv, PanicOnlyWhenFull, Indices
<1> QED BY <1>4, <1>5, <1>6

\* The frame whose flag is cleared belongs to nobody yet.
LEMMA ClaimPreserves ==
    ASSUME AllMasked, IInv, NEW t \in Callers, Claim(t)
    PROVE  IInv'
<1> USE DEF Claim, listVars
<1>1. /\ pc[t] = "claim" /\ mode = "run"
      /\ UNCHANGED <<mmap, frames, ptr, masking, mode, idx, held, dirty>>
  BY DEF OnCpu
<1>2. masking = t /\ \A u \in Callers : u # t => pc[u] = "idle"
  BY <1>1, OthersIdle
<1>3. free' = free \ {idx[t]} /\ idx[t] \in free /\ free \subseteq Indices
  BY <1>1 DEF Claimed, IInv, TypeOK, CallInv
<1>4. pc'[t] = "clear" /\ \A u \in Callers : u # t => pc'[u] = "idle"
  BY <1>2 DEF IInv, TypeOK
<1>5. TypeOK'
  BY <1>1, <1>3 DEF IInv, TypeOK, Indices
<1>6. \A u \in Callers : ptr[idx[t]] \notin held[u]
  BY <1>3 DEF IInv, HeldInv, Injective
<1>7. CallInv'
  BY <1>1, <1>2, <1>3, <1>4, <1>6 DEF CallInv, Indices
<1>8. HeldInv'
  BY <1>1, <1>3 DEF IInv, HeldInv, Indices
<1>9. NoFrameLost'
  <2>1. \A u \in Callers : Owned(u) \subseteq Owned(u)'
    BY <1>1, <1>2, <1>4 DEF Owned
  <2>2. ptr[idx[t]] \in Owned(t)'
    BY <1>1, <1>4 DEF Owned
  <2> QED BY <2>1, <2>2, <1>1, <1>3 DEF IInv, NoFrameLost, Indices
<1> QED BY <1>1, <1>5, <1>7, <1>8, <1>9
        DEF IInv, Injective, BootInv, PanicOnlyWhenFull, Indices

\* The page that is returned had no holder.
LEMMA ClearPreserves ==
    ASSUME AllMasked, IInv, NEW t \in Callers, Clear(t)
    PROVE  IInv'
<1> USE DEF Clear, listVars
<1>1. /\ pc[t] = "clear" /\ mode = "run"
      /\ UNCHANGED <<mmap, frames, ptr, free, mode, idx>>
  BY DEF OnCpu
<1>2. masking = t /\ \A u \in Callers : u # t => pc[u] = "idle"
  BY <1>1, OthersIdle
<1>3. /\ idx[t] \in Indices /\ idx[t] \notin free
      /\ \A u \in Callers : ptr[idx[t]] \notin held[u]
  BY <1>1 DEF IInv, CallInv
<1>4. \A u \in Callers : pc'[u] = "idle"
  BY <1>2 DEF IInv, TypeOK
<1>5. /\ held'[t] = held[t] \cup {ptr[idx[t]]}
      /\ \A u \in Callers : u # t => held'[u] = held[u]
  BY DEF IInv, TypeOK
<1>6. TypeOK'
  <2>1. ptr[idx[t]] \in Nat
    BY <1>3 DEF IInv, TypeOK
  <2> QED BY <2>1, <1>1 DEF IInv, TypeOK, Indices, Cleared
<1>7. CallInv'
  BY <1>4 DEF CallInv
<1>8. HeldInv'
  BY <1>1, <1>3, <1>5 DEF IInv, HeldInv, Indices
<1>9. NoFrameLost'
  <2>1. \A u \in Callers : Owned(u)' = Owned(u)
    BY <1>1, <1>2, <1>4, <1>5 DEF Owned
  <2> QED BY <2>1, <1>1 DEF IInv, NoFrameLost, Indices
<1> QED BY <1>1, <1>6, <1>7, <1>8, <1>9
        DEF IInv, Injective, BootInv, PanicOnlyWhenFull, Indices

\* Writing to a page changes nothing the allocator looks at.
LEMMA UsePreserves ==
    ASSUME IInv, NEW t \in Callers, Use(t)
    PROVE  IInv'
<1> USE DEF Use, listVars
<1>1. UNCHANGED <<mmap, frames, ptr, free, mode, masking, pc, idx, held>>
  OBVIOUS
<1>2. TypeOK'
  BY DEF IInv, TypeOK, Indices
<1> QED BY <1>1, <1>2
        DEF IInv, Injective, BootInv, CallInv, HeldInv, NoFrameLost, Owned,
            PanicOnlyWhenFull, Indices

\* PageFree gives up one frame, which only its caller held.
LEMMA PageFreePreserves ==
    ASSUME AllMasked, IInv, NEW t \in Callers, NEW a \in held[t], PageFree(t, a)
    PROVE  IInv'
<1> USE DEF PageFree, Freed, listVars
<1>1. /\ pc[t] = "idle" /\ mode = "run" /\ masking \in {Nobody, t}
      /\ UNCHANGED <<mmap, frames, ptr, mode, masking, pc, idx, dirty>>
  BY DEF OnCpu
<1>2. \A u \in Callers : pc[u] = "idle" /\ pc'[u] = "idle"
  BY <1>1, PageAllocatorAssumption DEF IInv, TypeOK, CallInv
<1>3. PICK k \in Indices : k \notin free /\ ptr[k] = a
  BY DEF IInv, HeldInv
<1>4. free' = free \cup {k}
  BY <1>3 DEF IInv, Injective, Indices
<1>5. /\ held'[t] = held[t] \ {a}
      /\ \A u \in Callers : u # t => held'[u] = held[u]
  BY DEF IInv, TypeOK
<1>6. TypeOK'
  BY <1>1, <1>3, <1>4 DEF IInv, TypeOK, Indices
<1>7. CallInv'
  BY <1>2 DEF CallInv
<1>8. HeldInv'
  <2>1. \A u \in Callers : u # t => a \notin held[u]
    BY DEF IInv, HeldInv
  <2> QED BY <2>1, <1>1, <1>3, <1>4, <1>5 DEF IInv, HeldInv, Indices
<1>9. NoFrameLost'
  <2>1. \A i \in Indices : i # k => ptr[i] # a
    BY <1>3 DEF IInv, Injective
  <2>2. \A u \in Callers : Owned(u) = held[u] /\ Owned(u)' = held'[u]
    BY <1>2 DEF Owned
  <2> QED BY <2>1, <2>2, <1>1, <1>4, <1>5 DEF IInv, NoFrameLost, Indices
<1> QED BY <1>1, <1>6, <1>7, <1>8, <1>9
        DEF IInv, Injective, BootInv, PanicOnlyWhenFull, Indices

\* Every step, stuttering included.
LEMMA NextPreserves ==
    ASSUME AllMasked, IInv, [Next]_vars
    PROVE  IInv'
<1>1. CASE InitializeAllocator
  BY <1>1, InitializeAllocatorPreserves
<1>2. CASE \E t \in Callers : PageAlloc(t)
  BY <1>2, CallPageAllocPreserves, ScanPreserves, ClaimPreserves, ClearPreserves
     DEF PageAlloc
<1>3. CASE \E t \in Callers : Use(t)
  BY <1>3, UsePreserves
<1>4. CASE \E t \in Callers : \E addr \in held[t] : PageFree(t, addr)
  BY <1>4, PageFreePreserves
<1>5. CASE UNCHANGED vars
  <2> USE <1>5 DEF vars
  <2>1. TypeOK'
    BY DEF IInv, TypeOK, Indices
  <2> QED BY <2>1 DEF IInv, Injective, BootInv, CallInv, HeldInv, NoFrameLost,
                      Owned, PanicOnlyWhenFull, Indices
<1> QED BY <1>1, <1>2, <1>3, <1>4, <1>5 DEF Next, Halted

-----------------------------------------------------------------------------
\* The inductive invariant, for calls of PageAlloc with interrupts off.
THEOREM Invariance == AllMasked => (Spec => []IInv)
<1> SUFFICES ASSUME AllMasked PROVE Spec => []IInv
  OBVIOUS
<1>1. Init => IInv
  BY InitEstablishes
<1>2. IInv /\ [Next]_vars => IInv'
  BY NextPreserves
<1> QED BY <1>1, <1>2, PTL DEF Spec

\* The variables of the allocator always have their types.
THEOREM TypeCorrect == AllMasked => (Spec => []TypeOK)
<1>1. IInv => TypeOK
  BY DEF IInv
<1> QED BY <1>1, Invariance, PTL

\* No page has two owners, and no owned page is marked free.
LEMMA IInvExclusive == AllMasked /\ IInv => ExclusivePages
<1> SUFFICES ASSUME AllMasked, IInv PROVE ExclusivePages
  OBVIOUS
<1>1. \A t, u \in Callers : t # u => Owned(t) \cap Owned(u) = {}
  <2> SUFFICES ASSUME NEW t \in Callers, NEW u \in Callers, t # u
               PROVE  Owned(t) \cap Owned(u) = {}
    OBVIOUS
  <2>1. pc[t] = "clear" => pc[u] = "idle"
    BY OthersIdle
  <2>2. pc[u] = "clear" => pc[t] = "idle"
    BY OthersIdle
  <2> QED BY <2>1, <2>2 DEF Owned, IInv, HeldInv, CallInv
<1>2. \A t \in Callers : \A i \in free : ptr[i] \notin Owned(t)
  BY DEF Owned, IInv, HeldInv, CallInv, Injective, TypeOK
<1> QED BY <1>1, <1>2 DEF ExclusivePages

\* PageAlloc never hands a page to two callers.
THEOREM PagesExclusive == AllMasked => (Spec => []ExclusivePages)
<1> SUFFICES ASSUME AllMasked PROVE Spec => []ExclusivePages
  OBVIOUS
<1>1. IInv => ExclusivePages
  BY IInvExclusive
<1>2. Spec => []IInv
  BY Invariance
<1> QED BY <1>1, <1>2, PTL

\* Every frame stays free or somebody's.
THEOREM FramesKept == AllMasked => (Spec => []NoFrameLost)
<1>1. IInv => NoFrameLost
  BY DEF IInv
<1> QED BY <1>1, Invariance, PTL

\* PageAlloc panics only when no frame is free.
THEOREM PanicsWhenFull == AllMasked => (Spec => []PanicOnlyWhenFull)
<1>1. IInv => PanicOnlyWhenFull
  BY DEF IInv
<1> QED BY <1>1, Invariance, PTL

\* Only the page being handed out is zeroed, and nobody holds it.
THEOREM DataStaysPut == AllMasked => (Spec => DataKept)
<1> SUFFICES ASSUME AllMasked PROVE Spec => DataKept
  OBVIOUS
<1> DEFINE A == \A t \in Callers : \A p \in held[t] : p \in dirty => p \in dirty'
<1>1. IInv /\ [Next]_vars => [A]_vars
  <2> SUFFICES ASSUME IInv, Next, NEW t \in Callers, NEW p \in held[t], p \in dirty
               PROVE  p \in dirty'
    OBVIOUS
  <2>1. CASE dirty \subseteq dirty'
    BY <2>1
  <2>2. CASE \E u \in Callers : Clear(u)
    BY <2>2 DEF Clear, Cleared, IInv, CallInv
  <2> QED BY <2>1, <2>2
          DEF Next, InitializeAllocator, PageAlloc, CallPageAlloc, Scan, Claim,
              Use, PageFree, Halted, vars
<1>2. Spec => []IInv
  BY Invariance
<1> QED BY <1>1, <1>2, PTL DEF Spec, DataKept

\* PageAlloc's memset comes before the page has an owner, so that what a caller is
\* given holds nothing of its last owner's, in every interleaving of callers and
\* whoever wrote to it before it was freed; interrupts need not be off for it.
THEOREM PagesComeZeroed == Spec => HandedOutZeroed
<1> DEFINE A == \A t \in Callers : \A p \in held'[t] \ held[t] : p \notin dirty'
           Inv == held = [t \in Callers |-> held[t]]
<1>1. Init => Inv
  BY DEF Init
<1>2. Inv /\ [Next]_vars => Inv'
  BY DEF Next, InitializeAllocator, PageAlloc, CallPageAlloc, Scan, Claim, Clear,
         Use, PageFree, Halted, vars
<1>3. Inv /\ [Next]_vars => [A]_vars
  <2> SUFFICES ASSUME Inv, Next, NEW t \in Callers, NEW p \in held'[t] \ held[t]
               PROVE  p \notin dirty'
    OBVIOUS
  <2>1. CASE held' = held
    BY <2>1
  <2>2. ASSUME NEW u \in Callers, Clear(u)
        PROVE  p \notin dirty'
    <3>1. /\ held' = [held EXCEPT ![u] = held[u] \cup {ptr[idx[u]]}]
          /\ dirty' = dirty \ {ptr[idx[u]]}
      BY <2>2 DEF Clear, Cleared
    <3>2. p = ptr[idx[u]]
      BY <3>1
    <3> QED BY <3>1, <3>2
  <2>3. ASSUME NEW u \in Callers, NEW addr \in held[u], PageFree(u, addr)
        PROVE  held'[t] \subseteq held[t]
    BY <2>3 DEF PageFree
  <2> QED BY <2>1, <2>2, <2>3
          DEF Next, InitializeAllocator, PageAlloc, CallPageAlloc, Scan, Claim,
              Use, Halted, vars
<1> QED BY <1>1, <1>2, <1>3, PTL DEF Spec, HandedOutZeroed

\* FrameList is never part of a page that is handed out.
THEOREM TableStaysApart == AllMasked => (Spec => []TableApart)
<1> SUFFICES ASSUME AllMasked PROVE Spec => []TableApart
  OBVIOUS
<1>1. Init => TableApart
  BY DEF Init, TableApart, Indices
<1>2. IInv /\ TableApart /\ [Next]_vars => TableApart'
  <2> SUFFICES ASSUME IInv, TableApart, [Next]_vars PROVE TableApart'
    OBVIOUS
  <2>1. CASE UNCHANGED <<mmap, frames, ptr>>
    BY <2>1 DEF TableApart, Indices
  <2>2. CASE InitializeAllocator /\ mode' = "run"
    <3>1. PICK e \in Largest(mmap) :
              /\ frames' = e.length \div PageSize
              /\ ptr' = [i \in 0 .. frames' - 1 |-> FirstFrame(e) + i * PageSize]
      BY <2>2 DEF InitializeAllocator
    <3>2. mmap \in MemMaps /\ mmap' = mmap
      BY <2>2 DEF IInv, TypeOK, InitializeAllocator
    <3>3. \A d \in Largest(mmap) : d = e
      BY <3>2, LargestEntry
    <3>4. /\ frames' \in Nat /\ e.base \in Nat
          /\ EntrySize * frames' \in Nat
          /\ FirstFrame(e) \in Nat
          /\ FirstFrame(e) >= e.base + EntrySize * frames'
      BY <3>1, <3>2, FirstFrameAboveTable, LargestEntry
    <3>5. \A i \in 0 .. frames' - 1 : i * PageSize \in Nat
      BY <3>4, PageAllocatorAssumption
    <3> SUFFICES ASSUME NEW i \in 0 .. frames' - 1
                 PROVE  ptr'[i] >= e.base + EntrySize * frames'
      BY <3>2, <3>3 DEF TableApart, Indices
    <3>6. ptr'[i] = FirstFrame(e) + i * PageSize
      BY <3>1
    <3> DEFINE first == FirstFrame(e)
               skip  == i * PageSize
               table == e.base + EntrySize * frames'
    <3>7. skip \in Nat
      BY <3>5
    <3>8. first \in Nat /\ first >= table
      BY <3>4
    <3>9. table \in Nat
      BY <3>4
    <3>10. ptr'[i] = first + skip
      BY <3>6
    <3> HIDE DEF first, skip, table
    <3>11. ptr'[i] >= table
      BY <3>7, <3>8, <3>9, <3>10
    <3> QED BY <3>11 DEF table
  <2> QED BY <2>1, <2>2
          DEF Next, InitializeAllocator, PageAlloc, CallPageAlloc, Scan, Claim,
              Clear, Use, PageFree, Halted, vars, listVars
<1>3. Spec => []IInv
  BY Invariance
<1> QED BY <1>1, <1>2, <1>3, PTL DEF Spec

-----------------------------------------------------------------------------
(* The loop over FrameList implements the abstract pool. *)

\* A step that changes neither flags nor owners nor the mode is a stutter.
LEMMA Stutters ==
    ASSUME UNCHANGED <<ptr, free, mode>>,
           \A t \in Callers : Owned(t)' = Owned(t)
    PROVE  UNCHANGED Pool!poolVars
BY DEF Pool!poolVars

\* Every step is a step of the pool or a stutter: the flag that Claim clears
\* is the Give, the store of PageFree the TakeBack.
LEMMA StepSimulation ==
    ASSUME AllMasked, IInv, [Next]_vars
    PROVE  [Pool!PoolNext]_(Pool!poolVars)
<1>1. CASE InitializeAllocator
  <2>1. /\ mode = "boot" /\ free = {} /\ UNCHANGED <<pc, idx, held>>
        /\ \A t \in Callers : pc[t] = "idle"
    BY <1>1 DEF InitializeAllocator, IInv, BootInv, TypeOK, Indices
  <2>2. \A t \in Callers : Owned(t) = held[t] /\ Owned(t)' = held[t]
    BY <2>1 DEF Owned
  <2>3. CASE mode' = "run"
    BY <2>1, <2>2, <2>3 DEF Pool!PoolNext, Pool!Found
  <2>4. CASE mode' = "panic"
    <3>1. UNCHANGED <<ptr, free>>
      BY <1>1, <2>4 DEF InitializeAllocator
    <3> QED BY <2>1, <2>2, <2>4, <3>1 DEF Pool!PoolNext, Pool!Exhausted
  <2> QED BY <1>1, <2>3, <2>4 DEF InitializeAllocator
<1>2. ASSUME NEW t \in Callers, CallPageAlloc(t) \/ Use(t)
      PROVE  UNCHANGED Pool!poolVars
  <2>1. UNCHANGED <<ptr, free, mode, held>>
    BY <1>2 DEF CallPageAlloc, Use, listVars
  <2>2. \A u \in Callers : Owned(u)' = Owned(u)
    BY <1>2, <2>1 DEF CallPageAlloc, Use, Owned, IInv, TypeOK
  <2> QED BY <2>1, <2>2, Stutters
<1>3. ASSUME NEW t \in Callers, Scan(t)
      PROVE  [Pool!PoolNext]_(Pool!poolVars)
  <2>1. UNCHANGED <<ptr, free, held>> /\ pc[t] = "scan"
    BY <1>3 DEF Scan, listVars
  <2>2. \A u \in Callers : Owned(u)' = Owned(u)
    BY <1>3, <2>1 DEF Scan, Owned, IInv, TypeOK
  <2>3. CASE mode' = mode
    BY <2>1, <2>2, <2>3, Stutters
  <2>4. CASE LastIndex(t) /\ mode' = "panic"
    <3>1. free = {}
      BY <2>1, <2>4 DEF LastIndex, IInv, TypeOK, CallInv, Indices
    <3> QED BY <2>1, <2>2, <2>4, <3>1 DEF Pool!PoolNext, Pool!Exhausted
  <2> QED BY <1>3, <2>3, <2>4 DEF Scan
<1>4. ASSUME NEW t \in Callers, Claim(t)
      PROVE  Pool!Give(t)
  <2> DEFINE p == ptr[idx[t]]
  <2>1. /\ mode = "run" /\ pc[t] = "claim" /\ UNCHANGED <<ptr, idx, mode, held>>
        /\ free' = free \ {idx[t]} /\ idx[t] \in free /\ free \subseteq Indices
    BY <1>4 DEF Claim, Claimed, OnCpu, listVars, IInv, TypeOK, CallInv
  <2>2. {ptr'[i] : i \in free'} = {ptr[i] : i \in free} \ {p}
    BY <2>1 DEF IInv, Injective
  <2>3. Owned(t)' = Owned(t) \cup {p}
    BY <1>4, <2>1 DEF Claim, Owned, IInv, TypeOK
  <2>4. \A u \in Callers : u # t => Owned(u)' = Owned(u)
    BY <1>4, <2>1 DEF Claim, Owned, IInv, TypeOK
  <2>5. p \in {ptr[i] : i \in free}
    BY <2>1
  <2> HIDE DEF p
  <2>6. [u \in Callers |-> Owned(u)]'
          = [[u \in Callers |-> Owned(u)] EXCEPT ![t] = @ \cup {p}]
    BY <2>3, <2>4
  <2> QED BY <2>1, <2>2, <2>5, <2>6 DEF Pool!Give
<1>5. ASSUME NEW t \in Callers, Clear(t)
      PROVE  UNCHANGED Pool!poolVars
  <2>1. UNCHANGED <<ptr, free, mode, idx>> /\ pc[t] = "clear"
    BY <1>5 DEF Clear, listVars
  <2>2. \A u \in Callers : Owned(u)' = Owned(u)
    BY <1>5, <2>1 DEF Clear, Owned, IInv, TypeOK
  <2> QED BY <2>1, <2>2, Stutters
<1>6. ASSUME NEW t \in Callers, NEW a \in held[t], PageFree(t, a)
      PROVE  Pool!TakeBack(t)
  <2>1. /\ mode = "run" /\ pc[t] = "idle" /\ UNCHANGED <<ptr, idx, mode, pc>>
        /\ free' = free \cup {i \in Indices : ptr[i] = a}
        /\ held' = [held EXCEPT ![t] = @ \ {a}]
    BY <1>6 DEF PageFree, Freed, OnCpu, listVars, Indices
  <2>2. \E i \in Indices : ptr[i] = a
    BY DEF IInv, HeldInv
  <2>3. {ptr'[i] : i \in free'} = {ptr[i] : i \in free} \cup {a}
    BY <2>1, <2>2
  <2>4. a \in Owned(t) /\ Owned(t)' = Owned(t) \ {a}
    BY <2>1 DEF Owned, IInv, TypeOK
  <2>5. \A u \in Callers : u # t => Owned(u)' = Owned(u)
    BY <2>1 DEF Owned, IInv, TypeOK
  <2> QED BY <2>1, <2>3, <2>4, <2>5 DEF Pool!TakeBack
<1>7. CASE UNCHANGED vars
  BY <1>7, Stutters DEF vars, Owned
<1> QED BY <1>1, <1>2, <1>3, <1>4, <1>5, <1>6, <1>7
        DEF Next, PageAlloc, Halted, Pool!PoolNext

\* PageAlloc and PageFree implement an atomic pool of pages.
THEOREM RefinesPool == AllMasked => (Spec => ImplementsPool)
<1> SUFFICES ASSUME AllMasked PROVE Spec => ImplementsPool
  OBVIOUS
<1>1. Init => Pool!PoolInit
  <2> SUFFICES ASSUME Init PROVE Pool!PoolInit
    OBVIOUS
  <2>1. \A t \in Callers : Owned(t) = {}
    BY DEF Init, Owned
  <2> QED BY <2>1 DEF Init, Pool!PoolInit
<1>2. IInv /\ [Next]_vars => [Pool!PoolNext]_(Pool!poolVars)
  BY StepSimulation
<1>3. Spec => []IInv
  BY Invariance
<1> QED BY <1>1, <1>2, <1>3, PTL DEF Spec, ImplementsPool, Pool!PoolSpec
=============================================================================
