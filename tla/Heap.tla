-------------------------------- MODULE Heap --------------------------------
(***************************************************************************)
(* The kernel heap (src/mm/heapalloc/heap.c).                              *)
(*                                                                         *)
(* The list that starts at head.next is the sequence freeList; a node lies *)
(* in the memory it describes, header first, and addresses are numbers.    *)
(* blocks are the allocations: their header's address and size field, and  *)
(* the pointer and size the caller knows.  Calls are serial (IntAddTask    *)
(* calls with interrupts off, the other callers run before any task).      *)
(*                                                                         *)
(* No reachable code calls PageFree, so PageAlloc hands out pages in       *)
(* ascending order: page k is at k * PageSize.                             *)
(*                                                                         *)
(* _alloc may put the node for the rest of a block beyond the memory it    *)
(* cut the block from, and free may list a header nobody wrote.  From then *)
(* on ("strayed") the list depends on who writes to those bytes, and the   *)
(* model does not follow it any further.                                   *)
(***************************************************************************)
EXTENDS Integers, Sequences, FiniteSets, SequencesExt, FiniteSetsExt

CONSTANTS
    PageSize,     \* 4096 in the code
    NodeSize,     \* sizeof(struct HeapNode), 16 in the code
    MaxPages,     \* pages PageAlloc has
    Sizes,        \* sizes that are asked for (bound)
    Alignments    \* alignments aligned_alloc is called with (bound)

ASSUME HeapAssumption ==
    /\ NodeSize \in Nat \ {0}
    /\ PageSize \in Nat /\ PageSize > NodeSize
    /\ MaxPages \in Nat
    /\ Sizes \subseteq Nat
    /\ Alignments \subseteq 1 .. PageSize

VARIABLES
    freeList,     \* the nodes, first to last: address and size
    blocks,       \* the allocations
    pages,        \* pages PageAlloc has handed out so far
    others,       \* those of them that were not for the heap
    combined,     \* history: calls of CombineBlocks that made a block
    mode          \* "run"; "panic", "fault" or "strayed" at the end

vars == <<freeList, blocks, pages, others, combined, mode>>

Init ==
    /\ freeList = << >>
    /\ blocks = {}
    /\ pages = 0
    /\ others = {}
    /\ combined = 0
    /\ mode = "run"

-----------------------------------------------------------------------------
ALIGN_UP(value, boundary) == ((value + (boundary - 1)) \div boundary) * boundary

\* The bytes a listed node and an allocation take up: [from, to).  A node has
\* at least its header.
NodeSpan(n) ==
    [from |-> n.addr, to |-> n.addr + IF n.size < NodeSize THEN NodeSize ELSE n.size]
BlockSpan(b) == [from |-> b.node, to |-> b.ptr + b.asked]

\* CreateNode for the list l.
CreateNode(addr, size, l) == <<[addr |-> addr, size |-> size]>> \o l

\* The first node FindAndRemoveNode accepts for size; 0 when there is none.
SuitsForgetsHeader(node, size) == size <= node.size
Suits(node, size) == NodeSize + size <= node.size
Suitable(size) == SelectInSeq(freeList, LAMBDA node : Suits(node, size))

\* The list once FindAndRemoveNode has taken out its node at position i.
RemoveNodeNot(i) == freeList
RemoveNode(i) == RemoveAt(freeList, i)

\* PageAlloc has a page left; the address of the next one.
PageLeftOneMore == pages <= MaxPages
PageLeft == pages < MaxPages
NextPage == (pages + 1) * PageSize

\* Turns of the loop of CombineBlocks, and the size of the node it makes.  It
\* takes one page more than that, for initial.
NumPages(size) == (size + PageSize - 1) \div PageSize
CombinedSize(size) == NumPages(size) * PageSize
CombineTakesExact(size) == NumPages(size)
CombineTakes(size) == NumPages(size) + 1

\* What is left of a node of size n once size bytes are allocated in it.
Extra(n, size) == (n - NodeSize) - size

\* The rest of _alloc, for the node FindAndRemoveNode has taken out of the list
\* and the list l without it; malloc and calloc have alignment 1.  The memory
\* the node was made for ends at limit.  Neither the padding in front of align
\* nor the header of the new node is taken off extra.
Carve(node, l, size, alignment, limit) ==
    LET base  == node.addr + NodeSize
        align == ALIGN_UP(base, alignment)
        extra == Extra(node.size, size)
        rest  == [addr |-> align + size, size |-> extra]
    IN  /\ freeList' = IF extra > 0 THEN CreateNode(align + size, extra, l) ELSE l
        /\ mode' = IF extra > 0 /\ NodeSpan(rest).to > limit THEN "strayed" ELSE mode
        /\ blocks' = blocks \cup
               {[node |-> node.addr, size |-> node.size - extra,
                 ptr |-> align, asked |-> size]}

-----------------------------------------------------------------------------
(* _alloc(size, alignment), by what FindAndRemoveNode meets. *)

\* A node of the list is large enough.
ReuseNode(size, alignment) ==
    LET i == Suitable(size + alignment - 1)
    IN  /\ mode = "run" /\ i # 0
        /\ Carve(freeList[i], RemoveNode(i), size, alignment,
                 freeList[i].addr + freeList[i].size)
        /\ UNCHANGED <<pages, others, combined>>

\* PageAlloc panics.
OutOfMemory ==
    /\ mode' = "panic"
    /\ pages' = MaxPages
    /\ UNCHANGED <<freeList, blocks, others, combined>>

\* None is, and the request fits in a page.  The new node becomes the first of
\* the list: current->next is that node only if the list was empty, and NULL
\* otherwise.
FreshPage(size, alignment) ==
    LET wanted == size + alignment - 1
    IN  /\ mode = "run" /\ Suitable(wanted) = 0
        /\ wanted + NodeSize < PageSize
        /\ \/ ~PageLeft /\ OutOfMemory
           \/ /\ PageLeft /\ freeList = << >>
              /\ Carve([addr |-> NextPage, size |-> PageSize], << >>, size,
                       alignment, NextPage + PageSize)
              /\ pages' = pages + 1
              /\ UNCHANGED <<others, combined>>
           \/ /\ PageLeft /\ freeList # << >>
              /\ freeList' = CreateNode(NextPage, PageSize, freeList)
              /\ pages' = pages + 1
              /\ mode' = "fault"
              /\ UNCHANGED <<blocks, others, combined>>

\* None is, and the request needs CombineBlocks.  A node that is too small
\* even so leads back to CombineBlocks, until PageAlloc panics.  All the pages
\* taken are the node's, its size counts one less.
FreshBlock(size, alignment) ==
    LET wanted == size + alignment - 1
        node   == [addr |-> NextPage, size |-> CombinedSize(wanted)]
    IN  /\ mode = "run" /\ Suitable(wanted) = 0
        /\ wanted + NodeSize >= PageSize
        /\ \/ pages + CombineTakes(wanted) > MaxPages /\ OutOfMemory
           \/ /\ pages + CombineTakes(wanted) <= MaxPages
              /\ ~Suits(node, wanted)
              /\ OutOfMemory
           \/ /\ pages + CombineTakes(wanted) <= MaxPages
              /\ Suits(node, wanted)
              /\ Carve(node, freeList, size, alignment,
                       NextPage + CombineTakes(wanted) * PageSize)
              /\ pages' = pages + CombineTakes(wanted)
              /\ combined' = combined + 1
              /\ UNCHANGED others

alloc(size, alignment) ==
    \/ ReuseNode(size, alignment)
    \/ FreshPage(size, alignment)
    \/ FreshBlock(size, alignment)

malloc(size) == alloc(size, 1)
aligned_alloc(alignment, size) == alloc(size, alignment)

\* free(b.ptr) for a pointer whose header is right in front of it.
FreedSizeOfRequest(b) == b.asked
FreedSize(b) == b.size
freeBlock(b) ==
    /\ mode = "run"
    /\ b.ptr = b.node + NodeSize
    /\ freeList' = CreateNode(b.node, FreedSize(b), freeList)
    /\ blocks' = blocks \ {b}
    /\ UNCHANGED <<pages, others, combined, mode>>

\* free(b.ptr) for a pointer that aligned_alloc has moved away from its header:
\* the word in front of the pointer is taken for the size, whatever it is.
WordsFound == {0, PageSize}
freeMoved(b) ==
    /\ mode = "run"
    /\ b.ptr # b.node + NodeSize
    /\ \E size \in WordsFound :
            freeList' = CreateNode(b.ptr - NodeSize, size, freeList)
    /\ blocks' = blocks \ {b}
    /\ mode' = "strayed"
    /\ UNCHANGED <<pages, others, combined>>

\* PageAlloc for somebody else: page tables, stacks.
OtherPage ==
    /\ mode = "run"
    /\ PageLeft
    /\ pages' = pages + 1
    /\ others' = others \cup {pages + 1}
    /\ UNCHANGED <<freeList, blocks, combined, mode>>

\* The machine has halted, or the list is not followed any further.
Halted == mode # "run" /\ UNCHANGED vars

Next ==
    \/ \E size \in Sizes : malloc(size)
    \/ \E size \in Sizes, alignment \in Alignments : aligned_alloc(alignment, size)
    \/ \E b \in blocks : freeBlock(b) \/ freeMoved(b)
    \/ OtherPage
    \/ Halted

Spec == Init /\ [][Next]_vars

-----------------------------------------------------------------------------
(* Properties. *)

Nodes == [addr : Nat, size : Nat]

\* Types of all variables.
TypeOK ==
    /\ freeList \in Seq(Nodes)
    /\ \A b \in blocks : b \in [node : Nat, size : Nat, ptr : Nat, asked : Sizes]
    /\ pages \in 0 .. MaxPages
    /\ others \subseteq 1 .. pages
    /\ combined \in 0 .. pages
    /\ mode \in {"run", "panic", "fault", "strayed"}

Apart(x, y) == x.to <= y.from \/ y.to <= x.from

\* The list, without the node that has strayed (it is always the newest).
Followed == IF mode = "strayed" THEN Tail(freeList) ELSE freeList

\* No byte belongs to two of the listed nodes and the allocations: malloc never
\* hands out memory that is in use, nor that the list runs through.  The only
\* node that may ever share bytes with others is the one that strays.
BlocksApart ==
    /\ \A i, j \in DOMAIN Followed :
            i # j => Apart(NodeSpan(Followed[i]), NodeSpan(Followed[j]))
    /\ \A b \in blocks, i \in DOMAIN Followed :
            Apart(BlockSpan(b), NodeSpan(Followed[i]))
    /\ \A b, c \in blocks : b # c => Apart(BlockSpan(b), BlockSpan(c))

\* The heap keeps to the pages PageAlloc gave it, whatever sizes and alignments
\* are asked for, up to the first node that strays, and every allocation does.
KeepsToOwnPages ==
    LET spans == {BlockSpan(b) : b \in blocks}
                   \cup {NodeSpan(Followed[i]) : i \in DOMAIN Followed}
    IN  \A s \in spans :
            /\ s.from >= PageSize /\ s.to <= (pages + 1) * PageSize
            /\ \A k \in others :
                Apart(s, [from |-> k * PageSize, to |-> (k + 1) * PageSize])

\* A block of CombineBlocks has room for the padding of any alignment, and for
\* the header of the rest: the page taken for initial, which its size does not
\* count, makes up for both.  _alloc strays only in other nodes.
CombinedNeverStrays == [][combined' # combined => mode' = "run"]_vars

\* Bytes in the list and in allocations.
BytesInUse == MapThenSumSet(LAMBDA b : b.size, blocks)
BytesListed == FoldLeft(LAMBDA sum, n : sum + n.size, 0, freeList)
HeapBytes == PageSize * (pages - Cardinality(others))

\* However often blocks are split and freed, no byte gets lost, except the page
\* CombineBlocks takes beyond the node it makes.
BytesKept ==
    mode = "run" =>
        BytesInUse + BytesListed + PageSize * combined = HeapBytes

\* Asking for memory never dereferences NULL.
NeverFaults == mode # "fault"

\* malloc panics only when PageAlloc is short of pages: never while twice what
\* the largest request takes is left.
PanicsOnlyWhenLow ==
    [][mode = "run" /\ mode' = "panic" =>
        MaxPages - pages < 2 * (1 + NumPages(Max(Sizes) + NodeSize))]_vars
=============================================================================
