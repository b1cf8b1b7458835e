----------------------------- MODULE HeapProofs -----------------------------
(***************************************************************************)
(* Proofs about Heap, for every page size, header, number of pages, and    *)
(* sizes and alignments asked for.                                         *)
(***************************************************************************)
EXTENDS Heap, ListLemmas, WellFoundedInduction, TLAPS

\* ALIGN_UP moves up, by less than the boundary.
LEMMA AlignUpBounds ==
    ASSUME NEW v \in Nat, NEW a \in Nat \ {0}
    PROVE  /\ ALIGN_UP(v, a) \in Nat
           /\ v <= ALIGN_UP(v, a) /\ ALIGN_UP(v, a) <= v + (a - 1)
<1>1. PICK q \in Int : q = (v + (a - 1)) \div a
  OBVIOUS
<1>2. a * q <= v + (a - 1) /\ v + (a - 1) < a * q + a
  BY <1>1
<1>3. PICK x \in Int : x = q * a /\ x = a * q
  OBVIOUS
<1>4. v <= x /\ x <= v + (a - 1) /\ x \in Nat
  BY <1>2, <1>3
<1>5. ALIGN_UP(v, a) = x
  BY <1>1, <1>3 DEF ALIGN_UP
<1>. QED
  BY <1>4, <1>5

-----------------------------------------------------------------------------
(* The list. *)

\* FindAndRemoveNode's choice is a node that suits.
LEMMA SuitableSuits ==
    ASSUME freeList \in Seq(Nodes), NEW size, Suitable(size) # 0
    PROVE  Suitable(size) \in 1 .. Len(freeList) /\ Suits(freeList[Suitable(size)], size)
<1>. DEFINE I == {i \in 1 .. Len(freeList) : Suits(freeList[i], size)}
<1>1. I # {} /\ Suitable(size) = Min(I)
  BY DEF Suitable, SelectInSeq
<1>2. I \subseteq Nat
  OBVIOUS
<1>3. PICK x \in I : \A y \in I : ~(<<y, x>> \in OpToRel(<, Nat))
  BY <1>1, <1>2, NatLessThanWellFounded, WFMin, Zenon
<1>4. \A y \in I : x =< y
  <2>1. OpToRel(<, Nat) = {ss \in Nat \X Nat : ss[1] < ss[2]}
    BY Zenon DEF OpToRel
  <2>2. PICK R : R = {ss \in Nat \X Nat : ss[1] < ss[2]} /\ R = OpToRel(<, Nat)
    BY <2>1, Zenon
  <2>3. \A y \in I : ~(<<y, x>> \in R)
    BY <1>3, <2>2, Zenon
  <2>. HIDE DEF I
  <2>4. \A y \in Nat, z \in Nat : y < z => <<y, z>> \in {ss \in Nat \X Nat : ss[1] < ss[2]}
    OBVIOUS
  <2>5. \A y \in Nat, z \in Nat : y < z => <<y, z>> \in R
    BY <2>2, <2>4, Zenon
  <2>6. ASSUME NEW y \in I PROVE x =< y
    <3>1. x \in Nat /\ y \in Nat
      BY <1>2
    <3>2. ~(y < x)
      BY <2>3, <2>5, <3>1, Zenon
    <3>. QED
      BY ONLY <3>1, <3>2
  <2>. QED
    BY <2>6
<1>5. Min(I) \in I
  BY <1>4 DEF Min
<1>. QED
  BY <1>1, <1>5

\* The list and the allocations.  What is proved about them speaks of any list l
\* and set of allocations bs.
BlocksFit(bs) ==
    \A b \in bs : /\ b \in [node : Nat, size : Nat, ptr : Nat, asked : Sizes]
                  /\ b.node + NodeSize <= b.ptr /\ b.size = NodeSize + b.asked

\* The bytes x = [from, to) are clear of them, or all of them are in bounds.
Spans == [from : Nat, to : Nat]
ClearOfList(x, l) == \A i \in DOMAIN l : Apart(x, NodeSpan(l[i]))
ClearOfBlocks(x, bs) == \A b \in bs : Apart(x, BlockSpan(b))
ListDisjoint(l) ==
    \A i, j \in DOMAIN l : i # j => Apart(NodeSpan(l[i]), NodeSpan(l[j]))
BlocksDisjoint(bs) == \A b, c \in bs : b # c => Apart(BlockSpan(b), BlockSpan(c))
Disjoint(l, bs) ==
    /\ ListDisjoint(l) /\ BlocksDisjoint(bs)
    /\ \A b \in bs : ClearOfList(BlockSpan(b), l)

LEMMA SpanTypes ==
    ASSUME NEW n \in Nodes
    PROVE  /\ NodeSpan(n) \in Spans /\ NodeSpan(n).from = n.addr
           /\ NodeSize <= n.size => NodeSpan(n) = [from |-> n.addr, to |-> n.addr + n.size]
  BY HeapAssumption DEF NodeSpan, Nodes, Spans

LEMMA BlockSpanTypes ==
    ASSUME NEW bs, BlocksFit(bs), NEW b \in bs
    PROVE  BlockSpan(b) \in Spans /\ b.node \in Nat /\ b.size \in Nat /\ b.asked \in Nat
<1>1. b.asked \in Nat /\ b.node \in Nat /\ b.ptr \in Nat /\ b.size \in Nat
  BY HeapAssumption DEF BlocksFit
<1>2. b.ptr + b.asked \in Nat
  BY <1>1
<1>. QED
  BY <1>1, <1>2 DEF BlockSpan, Spans

\* CreateNode with bytes that are clear.
LEMMA CreateNodeFits ==
    ASSUME NEW l \in Seq(Nodes), ListDisjoint(l), NEW n \in Nodes,
           ClearOfList(NodeSpan(n), l)
    PROVE  /\ CreateNode(n.addr, n.size, l) \in Seq(Nodes)
           /\ ListDisjoint(CreateNode(n.addr, n.size, l))
           /\ \A x \in Spans : ClearOfList(x, l) /\ Apart(x, NodeSpan(n))
                => ClearOfList(x, CreateNode(n.addr, n.size, l))
<1>1. n = [addr |-> n.addr, size |-> n.size]
  BY DEF Nodes
<1>4. PICK k : k = CreateNode(n.addr, n.size, l)
  OBVIOUS
<1>5. /\ k \in Seq(Nodes) /\ Len(k) = Len(l) + 1 /\ k[1] = n
      /\ \A i \in DOMAIN k : i = 1 \/ (i - 1 \in DOMAIN l /\ k[i] = l[i - 1])
  BY <1>1, <1>4 DEF CreateNode
<1>7. \A i \in DOMAIN l : Apart(NodeSpan(n), NodeSpan(l[i])) /\ Apart(NodeSpan(l[i]), NodeSpan(n))
  BY DEF ClearOfList, Apart
<1>8. ListDisjoint(k)
  <2>. SUFFICES ASSUME NEW i \in DOMAIN k, NEW j \in DOMAIN k, i # j
                PROVE  Apart(NodeSpan(k[i]), NodeSpan(k[j]))
    BY DEF ListDisjoint
  <2>1. CASE i = 1
    <3>1. j - 1 \in DOMAIN l /\ k[j] = l[j - 1]
      BY <1>5, <2>1
    <3>. QED
      BY <1>5, <1>7, <2>1, <3>1
  <2>2. CASE j = 1
    <3>1. i - 1 \in DOMAIN l /\ k[i] = l[i - 1]
      BY <1>5, <2>2
    <3>. QED
      BY <1>5, <1>7, <2>2, <3>1
  <2>3. CASE i # 1 /\ j # 1
    <3>1. /\ i - 1 \in DOMAIN l /\ k[i] = l[i - 1]
          /\ j - 1 \in DOMAIN l /\ k[j] = l[j - 1]
      BY <1>5, <2>3
    <3>2. i - 1 # j - 1
      BY <1>5
    <3>. QED
      BY <3>1, <3>2 DEF ListDisjoint
  <2>. QED
    BY <2>1, <2>2, <2>3
<1>9. ASSUME NEW x \in Spans, ClearOfList(x, l), Apart(x, NodeSpan(n))
      PROVE  ClearOfList(x, k)
  <2>1. Apart(x, NodeSpan(k[1]))
    BY <1>5, <1>9
  <2>2. \A i \in DOMAIN k : i # 1 => Apart(x, NodeSpan(k[i]))
    BY <1>5, <1>9 DEF ClearOfList
  <2>. QED
    BY <2>1, <2>2 DEF ClearOfList
<1>. QED
  BY <1>4, <1>5, <1>8, <1>9

\* Taking a node out of the list leaves its bytes clear.
LEMMA RemoveNodeFits ==
    ASSUME NEW l \in Seq(Nodes), ListDisjoint(l), NEW i \in DOMAIN l
    PROVE  /\ RemoveAt(l, i) \in Seq(Nodes) /\ ListDisjoint(RemoveAt(l, i))
           /\ ClearOfList(NodeSpan(l[i]), RemoveAt(l, i))
           /\ \A x : ClearOfList(x, l) => ClearOfList(x, RemoveAt(l, i))
<1>1. PICK k : k = RemoveAt(l, i)
  OBVIOUS
<1>. DEFINE old(j) == IF j < i THEN j ELSE j + 1
<1>2. i \in 1 .. Len(l)
  OBVIOUS
<1>3. /\ k \in Seq(Nodes) /\ Len(k) = Len(l) - 1
      /\ \A j \in 1 .. Len(l) - 1 : k[j] = IF j < i THEN l[j] ELSE l[j + 1]
  BY <1>1, <1>2, RemoveAtProperties, Zenon
<1>4. \A j \in DOMAIN k : old(j) \in DOMAIN l /\ old(j) # i /\ k[j] = l[old(j)]
  BY <1>2, <1>3
<1>5. \A j, m \in DOMAIN k : j # m => old(j) # old(m)
  BY <1>2, <1>3
<1>. HIDE DEF old
<1>7. ListDisjoint(k)
  BY <1>4, <1>5 DEF ListDisjoint
<1>8. ClearOfList(NodeSpan(l[i]), k) /\ \A x : ClearOfList(x, l) => ClearOfList(x, k)
  BY <1>4 DEF ClearOfList, ListDisjoint
<1>. QED
  BY <1>1, <1>3, <1>7, <1>8

-----------------------------------------------------------------------------
(* The heap: a list l and allocations bs in the first p pages, without the   *)
(* pages o.                                                                  *)

Inside(x, p, o) ==
    /\ x.from >= PageSize /\ x.to <= (p + 1) * PageSize
    /\ \A k \in o : Apart(x, [from |-> k * PageSize, to |-> (k + 1) * PageSize])

HeapFits(l, bs, p, o) ==
    /\ l \in Seq(Nodes) /\ BlocksFit(bs) /\ Disjoint(l, bs)
    /\ \A i \in DOMAIN l : Inside(NodeSpan(l[i]), p, o)
    /\ \A b \in bs : Inside(BlockSpan(b), p, o)

\* The bytes x belong to the heap and are neither in the list nor allocated.
Spare(x, l, bs, p, o) == ClearOfList(x, l) /\ ClearOfBlocks(x, bs) /\ Inside(x, p, o)

LEMMA ListSpans ==
    ASSUME NEW l \in Seq(Nodes), NEW i \in DOMAIN l
    PROVE  NodeSpan(l[i]) \in Spans
<1>1. l[i] \in Nodes
  OBVIOUS
<1>. QED
  BY <1>1, SpanTypes

LEMMA ApartParts ==
    ASSUME NEW x \in Spans, NEW y \in Spans, NEW z \in Spans,
           x.from <= y.from, y.to <= x.to, Apart(x, z)
    PROVE  Apart(y, z)
  BY DEF Spans, Apart

\* A part of spare bytes is spare.
LEMMA SparePart ==
    ASSUME NEW l, NEW bs, NEW p \in Nat, NEW o \in SUBSET Nat, HeapFits(l, bs, p, o),
           NEW x \in Spans, NEW y \in Spans, x.from <= y.from, y.to <= x.to,
           Spare(x, l, bs, p, o)
    PROVE  Spare(y, l, bs, p, o)
<1>1. ClearOfList(y, l)
  BY ListSpans, ApartParts DEF Spare, ClearOfList, HeapFits
<1>2. ClearOfBlocks(y, bs)
  BY BlockSpanTypes, ApartParts DEF Spare, ClearOfBlocks, HeapFits
<1>3. PICK last \in Nat : last = (p + 1) * PageSize
  BY HeapAssumption
<1>4. y.from >= PageSize /\ y.to <= (p + 1) * PageSize
  <2>1. x.from >= PageSize /\ x.to <= last
    BY <1>3 DEF Spare, Inside
  <2>. QED
    BY <1>3, <2>1, HeapAssumption DEF Spans
<1>5. ASSUME NEW k \in o
      PROVE  Apart(y, [from |-> k * PageSize, to |-> (k + 1) * PageSize])
  <2>1. k * PageSize \in Nat /\ (k + 1) * PageSize \in Nat
    BY HeapAssumption
  <2>2. PICK z \in Spans : z = [from |-> k * PageSize, to |-> (k + 1) * PageSize]
    BY <2>1, Zenon DEF Spans
  <2>3. Apart(x, z)
    BY <2>2 DEF Spare, Inside
  <2>. QED
    BY <2>2, <2>3, ApartParts
<1>. QED
  BY <1>1, <1>2, <1>4, <1>5 DEF Spare, Inside

\* CreateNode with spare bytes.
LEMMA AddNode ==
    ASSUME NEW l, NEW bs, NEW p \in Nat, NEW o \in SUBSET Nat, HeapFits(l, bs, p, o),
           NEW n \in Nodes, Spare(NodeSpan(n), l, bs, p, o)
    PROVE  HeapFits(CreateNode(n.addr, n.size, l), bs, p, o)
<1>1. l \in Seq(Nodes)
  BY DEF HeapFits
<1>2. PICK k : k = CreateNode(n.addr, n.size, l)
  OBVIOUS
<1>3. /\ k \in Seq(Nodes) /\ ListDisjoint(k)
      /\ \A y \in Spans : ClearOfList(y, l) /\ Apart(y, NodeSpan(n)) => ClearOfList(y, k)
  BY <1>1, <1>2, CreateNodeFits DEF HeapFits, Disjoint, Spare
<1>4. ASSUME NEW b \in bs PROVE ClearOfList(BlockSpan(b), k)
  <2>1. BlockSpan(b) \in Spans
    BY BlockSpanTypes DEF HeapFits
  <2>2. Apart(BlockSpan(b), NodeSpan(n))
    BY DEF Spare, ClearOfBlocks, Apart
  <2>3. ClearOfList(BlockSpan(b), l)
    BY DEF HeapFits, Disjoint
  <2>. QED
    BY <1>3, <2>1, <2>2, <2>3
<1>5. ASSUME NEW i \in DOMAIN k PROVE Inside(NodeSpan(k[i]), p, o)
  <2>1. n = [addr |-> n.addr, size |-> n.size]
    BY DEF Nodes
  <2>3. \/ k[i] = n
        \/ i - 1 \in DOMAIN l /\ k[i] = l[i - 1]
    BY <1>1, <1>2, <2>1 DEF CreateNode
  <2>. QED
    BY <2>3 DEF HeapFits, Spare
<1>. QED
  BY <1>2, <1>3, <1>4, <1>5 DEF HeapFits, Disjoint

\* An allocation of spare bytes.
LEMMA AddBlock ==
    ASSUME NEW l, NEW bs, NEW p \in Nat, NEW o \in SUBSET Nat, HeapFits(l, bs, p, o),
           NEW b, BlocksFit({b}), Spare(BlockSpan(b), l, bs, p, o)
    PROVE  HeapFits(l, bs \cup {b}, p, o)
<1>1. BlocksFit(bs \cup {b})
  BY DEF BlocksFit, HeapFits
<1>2. BlocksDisjoint(bs \cup {b})
  BY DEF BlocksDisjoint, HeapFits, Disjoint, Spare, ClearOfBlocks, Apart
<1>. QED
  BY <1>1, <1>2 DEF HeapFits, Disjoint, Spare

\* Taking a node out of the list, or an allocation back, makes its bytes spare.
LEMMA DropNode ==
    ASSUME NEW l, NEW bs, NEW p, NEW o, HeapFits(l, bs, p, o), NEW i \in DOMAIN l
    PROVE  /\ HeapFits(RemoveAt(l, i), bs, p, o)
           /\ Spare(NodeSpan(l[i]), RemoveAt(l, i), bs, p, o)
<1>1. PICK k : k = RemoveAt(l, i)
  OBVIOUS
<1>2. /\ k \in Seq(Nodes) /\ ListDisjoint(k)
      /\ ClearOfList(NodeSpan(l[i]), k)
      /\ \A x : ClearOfList(x, l) => ClearOfList(x, k)
  BY <1>1, RemoveNodeFits DEF HeapFits, Disjoint
<1>3. \A j \in DOMAIN k : \E m \in DOMAIN l : k[j] = l[m]
  <2>1. l \in Seq(Nodes) /\ i \in 1 .. Len(l)
    BY DEF HeapFits
  <2>2. /\ k \in Seq(Nodes) /\ Len(k) = Len(l) - 1
        /\ \A j \in 1 .. Len(l) - 1 : k[j] = IF j < i THEN l[j] ELSE l[j + 1]
    BY <1>1, <2>1, RemoveAtProperties, Zenon
  <2>. QED
    BY <2>1, <2>2
<1>4. ClearOfBlocks(NodeSpan(l[i]), bs)
  BY DEF ClearOfBlocks, HeapFits, Disjoint, ClearOfList, Apart
<1>. QED
  BY <1>1, <1>2, <1>3, <1>4 DEF HeapFits, Disjoint, Spare

LEMMA DropBlock ==
    ASSUME NEW l, NEW bs, NEW p, NEW o, HeapFits(l, bs, p, o), NEW b \in bs
    PROVE  /\ HeapFits(l, bs \ {b}, p, o)
           /\ Spare(BlockSpan(b), l, bs \ {b}, p, o)
<1>1. BlocksFit(bs \ {b})
  BY DEF BlocksFit, HeapFits
<1>2. BlocksDisjoint(bs \ {b}) /\ ClearOfBlocks(BlockSpan(b), bs \ {b})
  BY DEF BlocksDisjoint, ClearOfBlocks, HeapFits, Disjoint
<1>. QED
  BY <1>1, <1>2 DEF HeapFits, Disjoint, Spare

-----------------------------------------------------------------------------
(* Pages. *)

LEMMA PageOrder ==
    ASSUME NEW m \in Nat, NEW n \in Nat, m <= n
    PROVE  m * PageSize \in Nat /\ n * PageSize \in Nat /\ m * PageSize <= n * PageSize
<1>1. PICK d \in Nat : n = m + d
  <2>1. n - m \in Nat /\ n = m + (n - m)
    OBVIOUS
  <2>. QED
    BY <2>1
<1>2. n * PageSize = m * PageSize + d * PageSize /\ d * PageSize \in Nat /\ m * PageSize \in Nat
  BY <1>1, HeapAssumption
<1>. QED
  BY <1>2

\* More pages from PageAlloc are spare, unless they are somebody else's.
LEMMA MoreInside ==
    ASSUME NEW x \in Spans, NEW p \in Nat, NEW q \in Nat, p <= q, NEW o, Inside(x, p, o)
    PROVE  Inside(x, q, o)
<1>1. p + 1 \in Nat /\ q + 1 \in Nat /\ p + 1 <= q + 1
  OBVIOUS
<1>2. PICK m \in Nat, n \in Nat : m = (p + 1) * PageSize /\ n = (q + 1) * PageSize /\ m <= n
  BY <1>1, PageOrder
<1>3. x.to <= m /\ x.to \in Nat
  BY <1>2 DEF Inside, Spans
<1>4. x.to <= (q + 1) * PageSize
  BY <1>2, <1>3
<1>. QED
  BY <1>4 DEF Inside

LEMMA MorePages ==
    ASSUME NEW l, NEW bs, NEW p \in Nat, NEW q \in Nat, p <= q,
           NEW o \in SUBSET (1 .. p), HeapFits(l, bs, p, o)
    PROVE  HeapFits(l, bs, q, o)
  BY MoreInside, ListSpans, BlockSpanTypes DEF HeapFits

LEMMA NewPagesSpare ==
    ASSUME NEW l, NEW bs, NEW p \in Nat, NEW q \in Nat, p <= q,
           NEW o \in SUBSET (1 .. p), HeapFits(l, bs, p, o)
    PROVE  LET x == [from |-> (p + 1) * PageSize, to |-> (q + 1) * PageSize]
           IN  x \in Spans /\ Spare(x, l, bs, q, o)
<1>1. p + 1 \in Nat /\ q + 1 \in Nat /\ p + 1 <= q + 1
  OBVIOUS
<1>2. PICK m \in Nat, n \in Nat : m = (p + 1) * PageSize /\ n = (q + 1) * PageSize /\ m <= n
  BY <1>1, PageOrder
<1>3. PICK x \in Spans : x = [from |-> m, to |-> n] /\ x.from = m /\ x.to = n
  <2>1. m \in Nat /\ n \in Nat
    BY <1>2
  <2>2. [from |-> m, to |-> n] \in Spans
    BY <2>1 DEF Spans
  <2>. QED
    BY <2>2
<1>4. \A y \in Spans : Inside(y, p, o) => Apart(x, y)
  BY <1>2, <1>3 DEF Inside, Apart
<1>5. ClearOfList(x, l) /\ ClearOfBlocks(x, bs)
  BY <1>4, ListSpans, BlockSpanTypes DEF ClearOfList, ClearOfBlocks, HeapFits
<1>6. PageSize <= m
  <2>1. 1 \in Nat /\ 1 <= p + 1
    OBVIOUS
  <2>2. 1 * PageSize <= (p + 1) * PageSize
    BY <1>1, <2>1, PageOrder
  <2>. QED
    BY <1>2, <2>2, HeapAssumption
<1>7. ASSUME NEW k \in o
      PROVE  Apart(x, [from |-> k * PageSize, to |-> (k + 1) * PageSize])
  <2>1. k + 1 \in Nat /\ k + 1 <= p + 1
    OBVIOUS
  <2>2. (k + 1) * PageSize <= m
    BY <1>1, <1>2, <2>1, PageOrder
  <2>. QED
    BY <1>3, <2>2 DEF Apart
<1>8. Inside(x, q, o)
  BY <1>2, <1>3, <1>6, <1>7 DEF Inside
<1>. QED
  BY <1>2, <1>3, <1>5, <1>8 DEF Spare

\* A page for somebody else.
LEMMA NewOtherPage ==
    ASSUME NEW l, NEW bs, NEW p \in Nat,
           NEW o \in SUBSET (1 .. p), HeapFits(l, bs, p, o)
    PROVE  HeapFits(l, bs, p + 1, o \cup {p + 1})
<1>1. HeapFits(l, bs, p + 1, o)
  <2>1. p + 1 \in Nat /\ p <= p + 1
    OBVIOUS
  <2>. QED
    BY <2>1, MorePages
<1>2. PICK q \in Nat : q = p + 1
  OBVIOUS
<1>3. PICK m \in Nat, n \in Nat : m = q * PageSize /\ n = (q + 1) * PageSize
  BY HeapAssumption
<1>4. ASSUME NEW x \in Spans, Inside(x, p, o), Inside(x, q, o)
      PROVE  Inside(x, q, o \cup {q})
  <2>1. Apart(x, [from |-> m, to |-> n])
    BY <1>2, <1>3, <1>4 DEF Inside, Apart
  <2>. QED
    BY <1>3, <1>4, <2>1 DEF Inside
<1>. QED
  BY <1>1, <1>2, <1>4, ListSpans, BlockSpanTypes, Zenon DEF HeapFits

-----------------------------------------------------------------------------
(* The rest of _alloc. *)

\* The end of the block and the node for the rest, when a node suits.
LEMMA CarvedEnds ==
    ASSUME NEW node \in Nodes, NEW size \in Sizes, NEW a \in Alignments \cup {1},
           Suits(node, size + a - 1)
    PROVE  LET end == ALIGN_UP(node.addr + NodeSize, a) + size
               extra == Extra(node.size, size)
           IN  /\ end \in Nat /\ extra \in Nat
               /\ node.addr + NodeSize + size <= end /\ end <= node.addr + node.size
               /\ end <= node.addr + NodeSize + size + (a - 1)
               /\ node.size - extra = NodeSize + size
<1>1. a \in Nat \ {0} /\ size \in Nat /\ NodeSize \in Nat
  BY HeapAssumption
<1>2. node.addr \in Nat /\ node.size \in Nat
  BY DEF Nodes
<1>3. PICK base \in Nat : base = node.addr + NodeSize
  BY <1>1, <1>2
<1>4. PICK align \in Nat : /\ align = ALIGN_UP(base, a)
                           /\ base <= align /\ align <= base + (a - 1)
  BY <1>1, AlignUpBounds
<1>5. NodeSize + (size + a - 1) <= node.size
  BY DEF Suits
<1>6. Extra(node.size, size) = (node.size - NodeSize) - size
  BY DEF Extra
<1>7. PICK extra \in Nat : /\ extra = Extra(node.size, size)
                           /\ node.size - extra = NodeSize + size
  BY <1>1, <1>2, <1>5, <1>6
<1>8. PICK end \in Nat : end = align + size
  BY <1>1, <1>4
<1>9. /\ node.addr + NodeSize + size <= end /\ end <= node.addr + node.size
      /\ end <= node.addr + NodeSize + size + (a - 1)
  BY ONLY <1>1, <1>2, <1>3, <1>4, <1>5, <1>8
<1>. QED
  BY <1>3, <1>4, <1>7, <1>8, <1>9

\* A block is carved out of spare memory that ends at limit.
LEMMA CarveFits ==
    ASSUME NEW l, NEW p \in Nat, NEW o \in SUBSET Nat, HeapFits(l, blocks, p, o),
           NEW node \in Nodes, NEW limit \in Nat, node.addr + node.size <= limit,
           Spare([from |-> node.addr, to |-> limit], l, blocks, p, o),
           NEW size \in Sizes, NEW a \in Alignments \cup {1}, Suits(node, size + a - 1),
           mode = "run", Carve(node, l, size, a, limit)
    PROVE  HeapFits(Followed', blocks', p, o)
<1>1. /\ size \in Nat /\ node.addr \in Nat /\ node.size \in Nat
      /\ NodeSize \in Nat /\ a \in Nat
  BY HeapAssumption DEF Nodes
<1>2. PICK end \in Nat, extra \in Nat :
        /\ end = ALIGN_UP(node.addr + NodeSize, a) + size /\ extra = Extra(node.size, size)
        /\ node.addr + NodeSize + size <= end /\ end <= node.addr + node.size
        /\ node.size - extra = NodeSize + size
  BY CarvedEnds
<1>3. PICK ptr \in Nat : ptr = ALIGN_UP(node.addr + NodeSize, a) /\ end = ptr + size
  <2>1. node.addr + NodeSize \in Nat /\ a \in Nat \ {0}
    BY <1>1, HeapAssumption
  <2>2. ALIGN_UP(node.addr + NodeSize, a) \in Nat
    BY <2>1, AlignUpBounds
  <2>. QED
    BY <1>2, <2>2
<1>4. PICK b : b = [node |-> node.addr, size |-> NodeSize + size, ptr |-> ptr, asked |-> size]
  BY Zenon
<1>5. blocks' = blocks \cup {b}
  BY <1>2, <1>3, <1>4 DEF Carve
<1>6. BlocksFit({b})
  BY <1>1, <1>2, <1>3, <1>4 DEF BlocksFit
<1>7. PICK x \in Spans : x = [from |-> node.addr, to |-> limit]
  BY <1>1 DEF Spans
<1>8. BlockSpan(b) = [from |-> node.addr, to |-> end] /\ BlockSpan(b) \in Spans
  BY <1>1, <1>2, <1>3, <1>4 DEF BlockSpan, Spans
<1>9. Spare(BlockSpan(b), l, blocks, p, o)
  <2>1. x.from <= BlockSpan(b).from /\ BlockSpan(b).to <= x.to
    BY <1>1, <1>2, <1>7, <1>8
  <2>. QED
    BY <1>7, <1>8, <2>1, SparePart
<1>10. HeapFits(l, blocks \cup {b}, p, o)
  BY <1>6, <1>9, AddBlock
<1>11. PICK n \in Nodes : n = [addr |-> end, size |-> extra] /\ n.addr = end /\ n.size = extra
  <2>1. [addr |-> end, size |-> extra] \in Nodes
    BY DEF Nodes
  <2>. QED
    BY <2>1
<1>12. /\ freeList' = IF extra > 0 THEN CreateNode(end, extra, l) ELSE l
       /\ mode' = IF extra > 0 /\ NodeSpan(n).to > limit THEN "strayed" ELSE mode
  BY <1>2, <1>11, Zenon DEF Carve
<1>13. CASE extra = 0
  <2>1. freeList' = l /\ mode' = "run"
    BY <1>12, <1>13
  <2>. QED
    BY <1>5, <1>10, <2>1 DEF Followed
<1>14. CASE extra > 0 /\ NodeSpan(n).to > limit
  <2>1. freeList' = <<n>> \o l /\ mode' = "strayed" /\ l \in Seq(Nodes)
    BY <1>11, <1>12, <1>14 DEF CreateNode, HeapFits
  <2>2. Tail(<<n>> \o l) = l
    BY <2>1
  <2>. QED
    BY <1>5, <1>10, <2>1, <2>2 DEF Followed
<1>15. CASE extra > 0 /\ ~(NodeSpan(n).to > limit)
  <2>1. freeList' = CreateNode(n.addr, n.size, l) /\ mode' = "run"
    BY <1>11, <1>12, <1>15
  <2>2. PICK y \in Spans : y = NodeSpan(n) /\ y.from = end /\ y.to <= limit
    BY <1>11, <1>15, SpanTypes DEF Spans
  <2>3. Spare(y, l, blocks, p, o)
    <3>1. x.from <= y.from /\ y.to <= x.to
      BY <1>1, <1>2, <1>7, <2>2
    <3>. QED
      BY <1>7, <2>2, <3>1, SparePart
  <2>4. Apart(y, BlockSpan(b))
    BY <1>8, <2>2 DEF Apart
  <2>5. Spare(y, l, blocks \cup {b}, p, o)
    BY <2>3, <2>4 DEF Spare, ClearOfBlocks
  <2>. QED
    BY <1>5, <1>10, <2>1, <2>2, <2>5, AddNode DEF Followed
<1>. QED
  BY <1>13, <1>14, <1>15

-----------------------------------------------------------------------------
(* The inductive invariant and its steps. *)

HeapInv ==
    /\ HeapFits(Followed, blocks, pages, others)
    /\ pages \in 0 .. MaxPages
    /\ others \in SUBSET (1 .. pages)

LEMMA HeapInit == Init => HeapInv
  BY HeapAssumption DEF Init, HeapInv, Followed, HeapFits, BlocksFit, Disjoint,
     ListDisjoint, BlocksDisjoint

LEMMA WhileFollowed ==
    ASSUME HeapInv, mode = "run"
    PROVE  /\ freeList \in Seq(Nodes) /\ HeapFits(freeList, blocks, pages, others)
           /\ pages \in Nat /\ others \in SUBSET Nat /\ others \in SUBSET (1 .. pages)
  BY HeapAssumption DEF HeapInv, Followed, HeapFits

LEMMA ReuseNodeStep ==
    ASSUME HeapInv, NEW size \in Sizes, NEW a \in Alignments \cup {1}, ReuseNode(size, a)
    PROVE  HeapInv'
<1>1. PICK i : i = Suitable(size + a - 1)
  OBVIOUS
<1>2. /\ freeList \in Seq(Nodes) /\ HeapFits(freeList, blocks, pages, others)
      /\ pages \in Nat /\ others \in SUBSET Nat /\ mode = "run"
  BY WhileFollowed DEF ReuseNode
<1>3. i \in DOMAIN freeList /\ Suits(freeList[i], size + a - 1)
  BY <1>1, <1>2, SuitableSuits DEF ReuseNode
<1>4. PICK n \in Nodes : n = freeList[i] /\ Suits(n, size + a - 1)
  BY <1>2, <1>3
<1>5. PICK l : l = RemoveAt(freeList, i)
  OBVIOUS
<1>6. HeapFits(l, blocks, pages, others) /\ Spare(NodeSpan(n), l, blocks, pages, others)
  BY <1>2, <1>3, <1>4, <1>5, DropNode
<1>7. n.addr \in Nat /\ n.size \in Nat /\ NodeSize <= n.size
  <2>1. size \in Nat /\ a \in Nat \ {0} /\ NodeSize \in Nat
    BY HeapAssumption
  <2>2. n.addr \in Nat /\ n.size \in Nat
    BY DEF Nodes
  <2>. QED
    BY <1>4, <2>1, <2>2 DEF Suits
<1>8. PICK limit \in Nat : limit = n.addr + n.size
  BY <1>7
<1>9. NodeSpan(n) = [from |-> n.addr, to |-> limit]
  BY <1>7, <1>8, SpanTypes
<1>10. Carve(n, l, size, a, limit) /\ UNCHANGED <<pages, others>>
  BY <1>1, <1>4, <1>5, <1>8 DEF ReuseNode, RemoveNode
<1>11. n.addr + n.size <= limit
  BY <1>7, <1>8
<1>12. HeapFits(Followed', blocks', pages, others)
  BY <1>2, <1>4, <1>6, <1>9, <1>10, <1>11, CarveFits
<1>. QED
  BY <1>10, <1>12 DEF HeapInv

LEMMA OutOfMemoryStep ==
    ASSUME HeapInv, mode = "run", OutOfMemory
    PROVE  HeapInv'
<1>1. HeapFits(freeList, blocks, MaxPages, others)
  BY HeapAssumption, MorePages, WhileFollowed DEF HeapInv
<1>2. Followed' = freeList
  BY DEF OutOfMemory, Followed
<1>. QED
  BY <1>1, <1>2, HeapAssumption DEF HeapInv, OutOfMemory

\* A node of n of the t pages taken, from the next one on, and all t pages.
LEMMA NewNode ==
    ASSUME HeapInv, mode = "run", NEW n \in Nat \ {0}, NEW t \in Nat, n <= t
    PROVE  /\ [addr |-> NextPage, size |-> n * PageSize] \in Nodes
           /\ NextPage + t * PageSize \in Nat
           /\ NextPage + n * PageSize <= NextPage + t * PageSize
           /\ HeapFits(freeList, blocks, pages + t, others)
           /\ Spare([from |-> NextPage, to |-> NextPage + t * PageSize],
                    freeList, blocks, pages + t, others)
<1>1. /\ pages \in Nat /\ others \in SUBSET (1 .. pages) /\ others \in SUBSET Nat
      /\ HeapFits(freeList, blocks, pages, others)
  BY WhileFollowed
<1>2. PageSize \in Nat
  BY HeapAssumption
<1>3. NextPage \in Nat /\ n * PageSize \in Nat /\ t * PageSize \in Nat
  BY <1>1, <1>2 DEF NextPage
<1>4. n * PageSize <= t * PageSize
  BY PageOrder
<1>5. PICK q \in Nat : q = pages + t /\ pages <= q
  BY <1>1
<1>6. HeapFits(freeList, blocks, q, others)
  BY <1>1, <1>5, MorePages
<1>7. Spare([from |-> (pages + 1) * PageSize, to |-> (q + 1) * PageSize],
            freeList, blocks, q, others)
  BY <1>1, <1>5, NewPagesSpare, Zenon
<1>8. (q + 1) * PageSize = NextPage + t * PageSize
  <2>1. q + 1 = (pages + 1) + t
    BY <1>1, <1>5
  <2>2. ((pages + 1) + t) * PageSize = (pages + 1) * PageSize + t * PageSize
    BY <1>1, <1>2
  <2>. QED
    BY <2>1, <2>2 DEF NextPage
<1>9. [addr |-> NextPage, size |-> n * PageSize] \in Nodes
  BY <1>3 DEF Nodes
<1>10. NextPage + t * PageSize \in Nat /\ NextPage + n * PageSize <= NextPage + t * PageSize
  BY <1>3, <1>4
<1>. QED
  BY <1>5, <1>6, <1>7, <1>8, <1>9, <1>10 DEF NextPage

LEMMA FreshPageStep ==
    ASSUME HeapInv, NEW size \in Sizes, NEW a \in Alignments \cup {1}, FreshPage(size, a)
    PROVE  HeapInv'
<1>0. mode = "run"
  BY DEF FreshPage
<1>1. CASE ~PageLeft /\ OutOfMemory
  BY <1>0, <1>1, OutOfMemoryStep
<1>2. PICK node : node = [addr |-> NextPage, size |-> PageSize]
  BY Zenon
<1>3. /\ node \in Nodes /\ node.addr = NextPage /\ node.size = PageSize
      /\ NextPage + PageSize \in Nat
      /\ HeapFits(freeList, blocks, pages + 1, others)
      /\ Spare([from |-> NextPage, to |-> NextPage + PageSize],
               freeList, blocks, pages + 1, others)
  <2>1. 1 \in Nat \ {0} /\ 1 \in Nat /\ 1 <= 1 /\ 1 * PageSize = PageSize
    BY HeapAssumption
  <2>2. /\ [addr |-> NextPage, size |-> 1 * PageSize] \in Nodes
        /\ NextPage + 1 * PageSize \in Nat
        /\ HeapFits(freeList, blocks, pages + 1, others)
        /\ Spare([from |-> NextPage, to |-> NextPage + 1 * PageSize],
                 freeList, blocks, pages + 1, others)
    BY <1>0, <2>1, NewNode
  <2>. QED
    BY <1>2, <2>1, <2>2
<1>4. pages + 1 \in Nat /\ others \in SUBSET Nat /\ pages \in Nat
  BY <1>0, WhileFollowed
<1>5. ASSUME PageLeft, pages' = pages + 1, others' = others
      PROVE  pages' \in 0 .. MaxPages /\ others' \in SUBSET (1 .. pages')
  BY <1>5, HeapAssumption DEF HeapInv, PageLeft
<1>6. CASE /\ PageLeft /\ freeList = << >>
           /\ Carve([addr |-> NextPage, size |-> PageSize], << >>, size, a,
                    NextPage + PageSize)
           /\ pages' = pages + 1
           /\ UNCHANGED <<others, combined>>
  <2>1. Suits(node, size + a - 1)
    <3>1. size \in Nat /\ a \in Nat
      BY HeapAssumption
    <3>. QED
      BY <1>3, <3>1, HeapAssumption DEF FreshPage, Suits
  <2>2. Carve(node, freeList, size, a, NextPage + PageSize)
    BY <1>2, <1>6
  <2>3. PICK limit \in Nat : limit = NextPage + PageSize /\ node.addr + node.size <= limit
    BY <1>3
  <2>4. HeapFits(Followed', blocks', pages + 1, others)
    BY <1>0, <1>3, <1>4, <2>1, <2>2, <2>3, CarveFits
  <2>. QED
    BY <1>5, <1>6, <2>4 DEF HeapInv
<1>7. CASE /\ PageLeft /\ freeList # << >>
           /\ freeList' = CreateNode(NextPage, PageSize, freeList)
           /\ pages' = pages + 1
           /\ mode' = "fault"
           /\ UNCHANGED <<blocks, others, combined>>
  <2>1. NodeSpan(node) = [from |-> NextPage, to |-> NextPage + PageSize]
    BY <1>3, SpanTypes, HeapAssumption
  <2>2. HeapFits(CreateNode(NextPage, PageSize, freeList), blocks, pages + 1, others)
    BY <1>3, <1>4, <2>1, AddNode
  <2>3. Followed' = freeList'
    BY <1>7 DEF Followed
  <2>. QED
    BY <1>5, <1>7, <2>2, <2>3 DEF HeapInv
<1>. QED
  BY <1>1, <1>6, <1>7 DEF FreshPage

LEMMA FreshBlockStep ==
    ASSUME HeapInv, NEW size \in Sizes, NEW a \in Alignments \cup {1}, FreshBlock(size, a)
    PROVE  HeapInv'
<1>0. mode = "run"
  BY DEF FreshBlock
<1>1. CASE OutOfMemory
  BY <1>0, <1>1, OutOfMemoryStep
<1>2. PICK w \in Nat : w = size + a - 1
  BY HeapAssumption
<1>3. PICK node : node = [addr |-> NextPage, size |-> CombinedSize(w)]
  BY Zenon
<1>4. CASE /\ pages + CombineTakes(w) <= MaxPages
           /\ Suits(node, w)
           /\ Carve(node, freeList, size, a, NextPage + CombineTakes(w) * PageSize)
           /\ pages' = pages + CombineTakes(w)
           /\ UNCHANGED others
  <2>1. PICK n \in Nat \ {0} : n = NumPages(w)
    <3>1. NumPages(w) \in Nat
      BY HeapAssumption DEF NumPages
    <3>2. NumPages(w) # 0
      <4>. SUFFICES ASSUME NumPages(w) = 0 PROVE FALSE
        OBVIOUS
      <4>1. CombinedSize(w) = 0
        BY HeapAssumption DEF CombinedSize
      <4>. QED
        BY <1>3, <1>4, <4>1, HeapAssumption DEF Suits
    <3>. QED
      BY <3>1, <3>2
  <2>2. PICK t \in Nat : t = CombineTakes(w) /\ n <= t
    BY <2>1 DEF CombineTakes
  <2>3. CombinedSize(w) = n * PageSize
    BY <2>1 DEF CombinedSize
  <2>4. /\ node \in Nodes /\ node.addr = NextPage /\ node.size = n * PageSize
        /\ NextPage + t * PageSize \in Nat
        /\ NextPage + n * PageSize <= NextPage + t * PageSize
        /\ HeapFits(freeList, blocks, pages + t, others)
        /\ Spare([from |-> NextPage, to |-> NextPage + t * PageSize],
                 freeList, blocks, pages + t, others)
    BY <1>0, <1>3, <2>2, <2>3, NewNode
  <2>5. /\ pages + t \in Nat /\ others \in SUBSET Nat
        /\ pages + t \in 0 .. MaxPages /\ others \in SUBSET (1 .. pages + t)
    BY <1>4, <2>2, HeapAssumption DEF HeapInv
  <2>6. PICK limit \in Nat : /\ limit = NextPage + t * PageSize
                             /\ node.addr + node.size <= limit
    BY <2>4
  <2>7. HeapFits(Followed', blocks', pages + t, others)
    BY <1>0, <1>2, <1>4, <2>2, <2>4, <2>5, <2>6, CarveFits
  <2>. QED
    BY <1>4, <2>2, <2>5, <2>7 DEF HeapInv
<1>. QED
  BY <1>1, <1>2, <1>3, <1>4 DEF FreshBlock

LEMMA FreeStep ==
    ASSUME HeapInv, NEW b \in blocks, freeBlock(b) \/ freeMoved(b)
    PROVE  HeapInv'
<1>0. mode = "run"
  BY DEF freeBlock, freeMoved
<1>1. /\ HeapFits(freeList, blocks, pages, others) /\ freeList \in Seq(Nodes)
      /\ pages \in Nat /\ others \in SUBSET Nat
  BY <1>0, WhileFollowed
<1>2. PICK bs : bs = blocks \ {b}
  BY Zenon
<1>3. HeapFits(freeList, bs, pages, others) /\ Spare(BlockSpan(b), freeList, bs, pages, others)
  BY <1>1, <1>2, DropBlock
<1>4. /\ b.node \in Nat /\ b.size \in Nat /\ b.asked \in Nat
      /\ b.size = NodeSize + b.asked /\ NodeSize \in Nat
  BY <1>1, BlockSpanTypes, HeapAssumption DEF HeapFits, BlocksFit
<1>5. CASE freeBlock(b)
  <2>1. PICK n \in Nodes : n.addr = b.node /\ n.size = b.size
    <3>1. [addr |-> b.node, size |-> b.size] \in Nodes
      BY <1>4 DEF Nodes
    <3>. QED
      BY <3>1
  <2>2. NodeSpan(n) = BlockSpan(b)
    <3>1. b.ptr + b.asked = b.node + b.size /\ NodeSize <= n.size
      BY <1>4, <1>5, <2>1 DEF freeBlock
    <3>. QED
      BY <2>1, <3>1, SpanTypes DEF BlockSpan
  <2>3. HeapFits(CreateNode(b.node, b.size, freeList), bs, pages, others)
    BY <1>1, <1>3, <2>1, <2>2, AddNode
  <2>4. Followed' = CreateNode(b.node, b.size, freeList)
    BY <1>5 DEF freeBlock, FreedSize, Followed
  <2>. QED
    BY <1>2, <1>5, <2>3, <2>4 DEF freeBlock, HeapInv
<1>6. CASE freeMoved(b)
  <2>1. PICK size : freeList' = CreateNode(b.ptr - NodeSize, size, freeList)
    BY <1>6 DEF freeMoved
  <2>2. PICK e : freeList' = <<e>> \o freeList
    BY <2>1 DEF CreateNode
  <2>3. Tail(<<e>> \o freeList) = freeList
    BY <1>1
  <2>4. Followed' = freeList
    BY <1>6, <2>2, <2>3 DEF freeMoved, Followed
  <2>. QED
    BY <1>2, <1>3, <1>6, <2>4 DEF freeMoved, HeapInv
<1>. QED
  BY <1>5, <1>6

LEMMA OtherPageStep ==
    ASSUME HeapInv, OtherPage
    PROVE  HeapInv'
<1>1. pages \in Nat /\ HeapFits(freeList, blocks, pages + 1, others \cup {pages + 1})
  BY WhileFollowed, NewOtherPage DEF OtherPage
<1>2. Followed' = freeList
  BY DEF OtherPage, Followed
<1>. QED
  BY <1>1, <1>2, HeapAssumption DEF OtherPage, PageLeft, HeapInv

LEMMA HeapInvStep ==
    ASSUME HeapInv, [Next]_vars
    PROVE  HeapInv'
<1>1. ASSUME NEW size \in Sizes, NEW a \in Alignments \cup {1}, alloc(size, a)
      PROVE  HeapInv'
  BY <1>1, ReuseNodeStep, FreshPageStep, FreshBlockStep DEF alloc
<1>2. CASE \E size \in Sizes : malloc(size)
  BY <1>1, <1>2 DEF malloc
<1>3. CASE \E size \in Sizes, a \in Alignments : aligned_alloc(a, size)
  BY <1>1, <1>3 DEF aligned_alloc
<1>4. CASE \E b \in blocks : freeBlock(b) \/ freeMoved(b)
  BY <1>4, FreeStep
<1>5. CASE OtherPage
  BY <1>5, OtherPageStep
<1>6. CASE UNCHANGED vars
  <2>1. Followed' = Followed
    BY <1>6 DEF vars, Followed
  <2>. QED
    BY <1>6, <2>1 DEF vars, HeapInv
<1>. QED
  BY <1>2, <1>3, <1>4, <1>5, <1>6 DEF Next, Halted

LEMMA HeapInvHolds == Spec => []HeapInv
<1>1. HeapInv /\ [Next]_vars => HeapInv'
  BY HeapInvStep
<1>. QED
  BY <1>1, HeapInit, PTL DEF Spec

-----------------------------------------------------------------------------
\* Whatever sizes and alignments malloc and aligned_alloc are asked for, and in
\* whatever order blocks are freed, no byte is in two of the listed nodes and the
\* allocations, but for the one node with which the list strays.
THEOREM NoSharedBytes == Spec => []BlocksApart
<1>1. HeapInv => BlocksApart
  BY DEF HeapInv, HeapFits, Disjoint, ListDisjoint, BlocksDisjoint, ClearOfList, BlocksApart
<1>. QED
  BY <1>1, HeapInvHolds, PTL

\* The list, but for that node, and all allocations stay within the pages
\* PageAlloc gave the heap, whoever else takes pages in between.
THEOREM OwnPagesOnly == Spec => []KeepsToOwnPages
<1>1. HeapInv => KeepsToOwnPages
  BY DEF HeapInv, HeapFits, Inside, KeepsToOwnPages
<1>. QED
  BY <1>1, HeapInvHolds, PTL

\* The page CombineBlocks takes beyond the size of its node covers the padding of
\* every alignment up to a page and the header of a short rest: FindAndRemoveNode's
\* new blocks never make the list stray.
THEOREM SparePageSuffices == Spec => CombinedNeverStrays
<1>. DEFINE A == combined' # combined => mode' = "run"
<1>1. HeapInv /\ [Next]_vars => [A]_vars
  <2>. SUFFICES ASSUME HeapInv, Next, combined' # combined PROVE mode' = "run"
    OBVIOUS
  <2>1. PICK size \in Sizes, a \in Alignments \cup {1} : FreshBlock(size, a)
    <3>1. ASSUME NEW size \in Sizes, NEW a \in Alignments \cup {1},
                 ReuseNode(size, a) \/ FreshPage(size, a)
          PROVE  FALSE
      BY <3>1 DEF ReuseNode, FreshPage, OutOfMemory
    <3>2. ASSUME NEW b \in blocks, freeBlock(b) \/ freeMoved(b) PROVE FALSE
      BY <3>2 DEF freeBlock, freeMoved
    <3>3. ~OtherPage /\ ~Halted
      BY DEF OtherPage, Halted, vars
    <3>4. PICK size \in Sizes, a \in Alignments \cup {1} : alloc(size, a)
      BY <3>2, <3>3 DEF Next, malloc, aligned_alloc
    <3>. QED
      BY <3>1, <3>4 DEF alloc
  <2>2. PICK w \in Nat : w = size + a - 1
    BY HeapAssumption
  <2>3. PICK n : n = NumPages(w)
    OBVIOUS
  <2>4. n \in Nat
    BY <2>3, HeapAssumption DEF NumPages
  <2>5. PICK node : node = [addr |-> NextPage, size |-> n * PageSize]
    BY Zenon
  <2>6. /\ mode = "run" /\ Suits(node, w)
        /\ Carve(node, freeList, size, a, NextPage + (n + 1) * PageSize)
    BY <2>1, <2>2, <2>3, <2>5 DEF FreshBlock, OutOfMemory, CombinedSize, CombineTakes
  <2>7. /\ NextPage \in Nat /\ n * PageSize \in Nat /\ PageSize \in Nat
        /\ (n + 1) * PageSize = n * PageSize + PageSize
    BY <2>4, <2>6, WhileFollowed, HeapAssumption DEF NextPage
  <2>8. /\ node \in Nodes /\ node.addr = NextPage /\ node.size = n * PageSize
    BY <2>5, <2>7 DEF Nodes
  <2>9. PICK end \in Nat, extra \in Nat :
          /\ end = ALIGN_UP(node.addr + NodeSize, a) + size /\ extra = Extra(node.size, size)
          /\ end <= node.addr + node.size
          /\ end <= node.addr + NodeSize + size + (a - 1)
          /\ node.size - extra = NodeSize + size
    BY <2>2, <2>6, <2>8, CarvedEnds
  <2>10. PICK rest \in Nodes : rest = [addr |-> end, size |-> extra]
                               /\ rest.addr = end /\ rest.size = extra
    <3>1. [addr |-> end, size |-> extra] \in Nodes
      BY DEF Nodes
    <3>. QED
      BY <3>1
  <2>11. NodeSpan(rest).to <= NextPage + (n + 1) * PageSize
    <3>1. /\ a \in Nat /\ 1 <= a /\ a <= PageSize /\ size \in Nat
          /\ NodeSize \in Nat /\ PageSize \in Nat /\ NodeSize < PageSize
      BY HeapAssumption
    <3>2. NodeSpan(rest).to = end + IF extra < NodeSize THEN NodeSize ELSE extra
      BY <2>10 DEF NodeSpan
    <3>3. PICK m \in Nat, nx \in Nat : /\ m = n * PageSize /\ nx = NextPage
                                       /\ m = node.size /\ nx = node.addr
      BY <2>7, <2>8
    <3>4. /\ end <= nx + m /\ end <= nx + NodeSize + size + (a - 1)
          /\ m - extra = NodeSize + size
      BY <2>9, <3>3
    <3>5. end + NodeSize <= nx + m + PageSize
      BY ONLY <3>1, <3>4
    <3>6. end + extra <= nx + m + PageSize
      BY ONLY <3>1, <3>4
    <3>7. NextPage + (n + 1) * PageSize = nx + m + PageSize
      BY ONLY <2>7, <3>3
    <3>. QED
      BY <3>2, <3>5, <3>6, <3>7
  <2>12. mode' = IF extra > 0 /\ NodeSpan(rest).to > NextPage + (n + 1) * PageSize
                 THEN "strayed" ELSE mode
    BY <2>6, <2>9, <2>10, Zenon DEF Carve
  <2>13. NodeSpan(rest).to \in Nat
    BY SpanTypes DEF Spans
  <2>. QED
    BY <2>6, <2>7, <2>11, <2>12, <2>13
<1>. QED
  BY <1>1, HeapInvHolds, PTL DEF Spec, CombinedNeverStrays
=============================================================================
