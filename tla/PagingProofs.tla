---------------------------- MODULE PagingProofs ----------------------------
(***************************************************************************)
(* Proofs about Paging: that the processor's walks find what MapMemory was *)
(* asked for, that address spaces share no tables, that a task's pushes    *)
(* stay in its own tables and that the kernel is mapped in every space.    *)
(*                                                                         *)
(* None of them is inductive.  The invariant PagingInv says of the calls,  *)
(* made and to come, that all of them for a page ask for one and the same  *)
(* frame (FrameOf) and that 2 MiB pages stay in the direct map below 1 GiB *)
(* (BigArea); of the tables, that they have the Shape of PageTableLemmas   *)
(* and that walks find what was asked for; of a process's space, that the  *)
(* 2 MiB pages come before the 4 KiB ones; and of PageAlloc, that the page *)
(* handed out last while a space is filled in is one of its tables.  What  *)
(* the calls ask for is proved first, from the memory layouts.             *)
(***************************************************************************)
EXTENDS PageTableLemmas, WellFoundedInduction

-----------------------------------------------------------------------------
(* Induction. *)

\* A set of natural numbers that is not empty has a smallest element.
LEMMA SmallestElement ==
    ASSUME NEW I \in SUBSET Nat, I # {}
    PROVE  \E x \in I : \A y \in I : x <= y
<1>1. PICK x \in I : \A y \in I : ~(<<y, x>> \in OpToRel(<, Nat))
  BY NatLessThanWellFounded, WFMin, Zenon
<1>2. OpToRel(<, Nat) = {ss \in Nat \X Nat : ss[1] < ss[2]}
  BY Zenon DEF OpToRel
<1>3. PICK R : R = {ss \in Nat \X Nat : ss[1] < ss[2]} /\ R = OpToRel(<, Nat)
  BY <1>2, Zenon
<1>4. \A y \in I : ~(<<y, x>> \in R)
  BY <1>1, <1>3, Zenon
<1>5. \A y \in Nat, z \in Nat : y < z => <<y, z>> \in {ss \in Nat \X Nat : ss[1] < ss[2]}
  OBVIOUS
<1>6. \A y \in Nat, z \in Nat : y < z => <<y, z>> \in R
  BY <1>3, <1>5, Zenon
<1>7. ASSUME NEW y \in I PROVE x <= y
  <2>1. x \in Nat /\ y \in Nat
    OBVIOUS
  <2>2. ~(y < x)
    BY <1>4, <1>6, <2>1, Zenon
  <2>. QED
    BY ONLY <2>1, <2>2
<1>. QED
  BY <1>7

\* A set with 0 and with the successor of each of its numbers has all of them.
LEMMA Induction ==
    ASSUME NEW S, 0 \in S, \A n \in Nat : n \in S => n + 1 \in S
    PROVE  \A n \in Nat : n \in S
<1>. DEFINE I == {n \in Nat : n \notin S}
<1>. SUFFICES ASSUME I # {} PROVE FALSE
  OBVIOUS
<1>1. PICK x \in I : \A y \in I : x <= y
  BY SmallestElement, Zenon
<1>2. x \in Nat /\ x # 0 /\ x - 1 \in Nat /\ x - 1 \notin I
  BY <1>1
<1>. QED
  BY <1>1, <1>2

-----------------------------------------------------------------------------
(* Flattened sequences. *)

LEMMA ElementTyped ==
    ASSUME NEW S, NEW s \in Seq(S)
    PROVE  \A i \in 1 .. Len(s) : s[i] \in S
  OBVIOUS

\* Concatenation, under a name whose definition can be hidden.
Cat(s, t) == s \o t

LEMMA CatSeq ==
    ASSUME NEW S, NEW s \in Seq(S), NEW t \in Seq(S)
    PROVE  /\ Cat(s, t) \in Seq(S)
           /\ Len(Cat(s, t)) = Len(s) + Len(t)
  BY DEF Cat

LEMMA CatLeft ==
    ASSUME NEW S, NEW s \in Seq(S), NEW t \in Seq(S), NEW i \in 1 .. Len(s)
    PROVE  Cat(s, t)[i] = s[i]
  BY DEF Cat

LEMMA CatRight ==
    ASSUME NEW S, NEW s \in Seq(S), NEW t \in Seq(S), NEW i \in 1 .. Len(t)
    PROVE  Cat(s, t)[Len(s) + i] = t[i]
  BY DEF Cat

\* f has the sequences that the first elements of ss make up.
Sums(f, S, ss, n) ==
    /\ f \in [0 .. n -> Seq(S)]
    /\ f[0] = << >>
    /\ \A i \in 1 .. n : f[i] = Cat(f[i - 1], ss[i])

LEMMA SumsExist ==
    ASSUME NEW S, NEW ss \in Seq(Seq(S))
    PROVE  \A n \in Nat : n <= Len(ss) => \E f : Sums(f, S, ss, n)
<1>. DEFINE I == {n \in Nat : n <= Len(ss) => \E f : Sums(f, S, ss, n)}
<1>1. 0 \in I
  <2>1. Sums([i \in 0 .. 0 |-> << >>], S, ss, 0)
    BY DEF Sums
  <2>. QED
    BY <2>1
<1>2. ASSUME NEW n \in Nat, n \in I PROVE n + 1 \in I
  <2>. SUFFICES ASSUME n + 1 <= Len(ss) PROVE \E f : Sums(f, S, ss, n + 1)
    OBVIOUS
  <2>1. PICK f : Sums(f, S, ss, n)
    BY <1>2
  <2>2. f[n] \in Seq(S) /\ ss[n + 1] \in Seq(S)
    BY <2>1 DEF Sums
  <2>3. PICK last \in Seq(S) : last = Cat(f[n], ss[n + 1])
    BY <2>2, CatSeq, Zenon
  <2>. DEFINE g == [i \in 0 .. n + 1 |-> IF i = n + 1 THEN last ELSE f[i]]
  <2>4. g \in [0 .. n + 1 -> Seq(S)]
    BY <2>1, <2>3 DEF Sums
  <2>5. g[0] = << >>
    BY <2>1 DEF Sums
  <2>6. ASSUME NEW i \in 1 .. n + 1 PROVE g[i] = Cat(g[i - 1], ss[i])
    <3>1. CASE i = n + 1
      BY <2>3, <3>1
    <3>2. CASE i # n + 1
      BY <2>1, <3>2 DEF Sums
    <3>. QED
      BY <3>1, <3>2
  <2>. HIDE DEF g
  <2>7. Sums(g, S, ss, n + 1)
    BY <2>4, <2>5, <2>6 DEF Sums
  <2>. QED
    BY <2>7
<1>. HIDE DEF I
<1>3. \A n \in Nat : n \in I
  BY <1>1, <1>2, Induction
<1>. QED
  BY <1>3 DEF I

\* What Flatten returns is the last of them.
LEMMA FlattenSums ==
    ASSUME NEW S, NEW ss \in Seq(Seq(S))
    PROVE  \E f : Sums(f, S, ss, Len(ss)) /\ Flatten(ss) = f[Len(ss)]
<1>. PICK n \in Nat : n = Len(ss)
  OBVIOUS
<1>. DEFINE Def(g) == [i \in 0 .. n |-> IF i = 0 THEN << >> ELSE Cat(g[i - 1], ss[i])]
            flatten == CHOOSE g : g = Def(g)
<1>1. Flatten(ss) = flatten[n]
  BY DEF Flatten, Cat
<1>2. PICK g : Sums(g, S, ss, n)
  BY SumsExist
<1>3. g = Def(g)
  <2>1. g \in [0 .. n -> Seq(S)]
    BY <1>2 DEF Sums
  <2>2. \A i \in 0 .. n : g[i] = IF i = 0 THEN << >> ELSE Cat(g[i - 1], ss[i])
    BY <1>2 DEF Sums
  <2>. QED
    BY <2>1, <2>2
<1>4. flatten = Def(flatten)
  BY <1>3, Zenon
<1>. HIDE DEF flatten
<1>. DEFINE I == {i \in Nat : i \in 0 .. n => flatten[i] = g[i]}
<1>5. 0 \in I
  BY <1>2, <1>4 DEF Sums
<1>6. ASSUME NEW i \in Nat, i \in I PROVE i + 1 \in I
  BY <1>2, <1>4, <1>6 DEF Sums
<1>7. \A i \in Nat : i \in I
  <2>. HIDE DEF I
  <2>. QED
    BY <1>5, <1>6, Induction, Zenon
<1>8. flatten[n] = g[n]
  BY <1>7
<1>. QED
  BY <1>1, <1>2, <1>8

LEMMA CatSet ==
    ASSUME NEW S, NEW s \in Seq(S), NEW t \in Seq(S)
    PROVE  Range(Cat(s, t)) = Range(s) \cup Range(t)
<1>0. PICK u : u = Cat(s, t)
  OBVIOUS
<1>1. /\ u \in Seq(S) /\ Len(u) = Len(s) + Len(t)
  BY <1>0, CatSeq
<1>a. \A i \in 1 .. Len(s) : u[i] = s[i]
  BY <1>0, CatLeft
<1>b. \A i \in 1 .. Len(t) : u[Len(s) + i] = t[i]
  BY <1>0, CatRight
<1>. PICK m \in Nat, n \in Nat : m = Len(s) /\ n = Len(t)
  OBVIOUS
<1>2. DOMAIN u = 1 .. m + n /\ DOMAIN s = 1 .. m /\ DOMAIN t = 1 .. n
  BY <1>1
<1>3. ASSUME NEW i \in 1 .. m + n PROVE u[i] \in Range(s) \cup Range(t)
  <2>1. CASE i <= m
    BY <1>2, <1>a, <2>1 DEF Range
  <2>2. CASE i > m
    <3>1. i - m \in 1 .. n /\ i = m + (i - m)
      BY <2>2
    <3>2. u[i] = t[i - m]
      BY <1>b, <3>1
    <3>. QED
      BY <1>2, <3>1, <3>2 DEF Range
  <2>. QED
    BY <2>1, <2>2
<1>4. ASSUME NEW i \in 1 .. m PROVE s[i] \in Range(u)
  BY <1>2, <1>a DEF Range
<1>5. ASSUME NEW i \in 1 .. n PROVE t[i] \in Range(u)
  <2>1. m + i \in 1 .. m + n
    OBVIOUS
  <2>2. u[m + i] = t[i]
    BY <1>b
  <2>. QED
    BY <1>2, <2>1, <2>2 DEF Range
<1>6. Range(u) = Range(s) \cup Range(t)
  BY <1>2, <1>3, <1>4, <1>5 DEF Range
<1>. QED
  BY <1>0, <1>6

LEMMA CatTwice ==
    ASSUME NEW S, NEW s \in Seq(S), NEW t \in Seq(S), NEW u \in Seq(S)
    PROVE  Cat(Cat(s, t), u) = Cat(s, Cat(t, u))
  BY DEF Cat

LEMMA AppendItems ==
    ASSUME NEW S, NEW s \in Seq(S), NEW x \in S
    PROVE  Range(Append(s, x)) = Range(s) \cup {x}
<1>. PICK n \in Nat : n = Len(s)
  OBVIOUS
<1>. PICK t : t = Append(s, x)
  BY Zenon
<1>1. /\ DOMAIN s = 1 .. n /\ DOMAIN t = 1 .. n + 1
      /\ t[n + 1] = x /\ \A k \in 1 .. n : t[k] = s[k]
  OBVIOUS
<1>2. \A k \in 1 .. n + 1 : k \in 1 .. n \/ k = n + 1
  OBVIOUS
<1>3. n + 1 \in 1 .. n + 1 /\ 1 .. n \subseteq 1 .. n + 1
  OBVIOUS
<1>4. Range(t) = Range(s) \cup {x}
  BY ONLY <1>1, <1>2, <1>3 DEF Range
<1>. QED
  BY <1>4

LEMMA TailItems ==
    ASSUME NEW S, NEW s \in Seq(S), s # << >>
    PROVE  /\ Head(s) \in S /\ Tail(s) \in Seq(S)
           /\ Range(s) = {Head(s)} \cup Range(Tail(s))
           /\ Len(Tail(s)) = Len(s) - 1 /\ Len(s) \in Nat \ {0}
           /\ Head(s) = s[1] /\ \A k \in 1 .. Len(s) - 1 : Tail(s)[k] = s[k + 1]
<1>. PICK n \in Nat \ {0} : n = Len(s)
  OBVIOUS
<1>. PICK h, t : h = Head(s) /\ t = Tail(s)
  BY Zenon
<1>1. /\ h \in S /\ h = s[1] /\ t \in Seq(S) /\ Len(t) = n - 1
      /\ \A k \in 1 .. n - 1 : t[k] = s[k + 1]
  OBVIOUS
<1>2. DOMAIN s = 1 .. n /\ DOMAIN t = 1 .. n - 1
  BY <1>1
<1>3. \A k \in 1 .. n : k = 1 \/ (k - 1 \in 1 .. n - 1 /\ k = (k - 1) + 1)
  OBVIOUS
<1>4. 1 \in 1 .. n /\ \A k \in 1 .. n - 1 : k + 1 \in 1 .. n
  OBVIOUS
<1>5. Range(s) \subseteq {h} \cup Range(t)
  <2>1. ASSUME NEW k \in 1 .. n, k # 1 PROVE s[k] = t[k - 1] /\ k - 1 \in 1 .. n - 1
    BY <1>1, <1>3, <2>1
  <2>2. \A k \in 1 .. n : s[k] \in {h} \cup Range(t)
    BY <1>1, <1>2, <2>1, Zenon DEF Range
  <2>. QED
    BY <1>2, <2>2 DEF Range
<1>6. {h} \cup Range(t) \subseteq Range(s)
  BY <1>1, <1>2, <1>4 DEF Range
<1>7. Range(s) = {h} \cup Range(t)
  BY <1>5, <1>6
<1>. QED
  BY <1>1, <1>7

LEMMA CatItems ==
    ASSUME NEW S, NEW s \in Seq(S), NEW t \in Seq(S)
    PROVE  \E u \in Seq(S) : u = Cat(s, t) /\ Range(u) = Range(s) \cup Range(t)
<1>1. Cat(s, t) \in Seq(S)
  BY CatSeq
<1>2. Range(Cat(s, t)) = Range(s) \cup Range(t)
  BY CatSet
<1>. QED
  BY <1>1, <1>2, Zenon

\* What is in Flatten(ss) is what is in the elements of ss.
LEMMA FlattenItems ==
    ASSUME NEW S, NEW ss \in Seq(Seq(S))
    PROVE  /\ Flatten(ss) \in Seq(S)
           /\ Range(Flatten(ss)) = UNION {Range(ss[k]) : k \in 1 .. Len(ss)}
<1>0. PICK n \in Nat : n = Len(ss)
  OBVIOUS
<1>1. PICK f : Sums(f, S, ss, n) /\ Flatten(ss) = f[n]
  BY <1>0, FlattenSums
<1>2. /\ \A i \in 0 .. n : f[i] \in Seq(S)
      /\ \A i \in 1 .. n : ss[i] \in Seq(S)
  <2>1. f \in [0 .. n -> Seq(S)]
    BY <1>1, Zenon DEF Sums
  <2>2. \A i \in 1 .. n : ss[i] \in Seq(S)
    BY <1>0, ElementTyped
  <2>. QED
    BY <2>1, <2>2, Zenon
<1>3. f[0] = << >> /\ \A i \in 1 .. n : f[i] = Cat(f[i - 1], ss[i])
  BY <1>1, Zenon DEF Sums
<1>. DEFINE Up(m) == UNION {Range(ss[k]) : k \in 1 .. m}
            I == {m \in Nat : m \in 0 .. n => Range(f[m]) = Up(m)}
<1>4. 0 \in I
  <2>1. Range(<< >>) = {} /\ Up(0) = {}
    BY DEF Range
  <2>. QED
    BY <1>3, <2>1
<1>5. ASSUME NEW m \in Nat, m \in I PROVE m + 1 \in I
  <2>1. ASSUME m + 1 \in 0 .. n PROVE Range(f[m + 1]) = Up(m + 1)
    <3>1. m \in 0 .. n /\ m + 1 \in 1 .. n /\ (m + 1) - 1 = m
      BY <2>1
    <3>2. f[m + 1] = Cat(f[m], ss[m + 1]) /\ f[m] \in Seq(S) /\ ss[m + 1] \in Seq(S)
      BY <1>2, <1>3, <3>1
    <3>3. Range(f[m + 1]) = Range(f[m]) \cup Range(ss[m + 1])
      BY <3>2, CatSet
    <3>4. Range(f[m]) = Up(m)
      BY <1>5, <3>1
    <3>5. 1 .. m + 1 = (1 .. m) \cup {m + 1}
      OBVIOUS
    <3>6. Up(m + 1) = Up(m) \cup Range(ss[m + 1])
      BY <3>5, Zenon
    <3>. QED
      BY <3>3, <3>4, <3>6, Zenon
  <2>. QED
    BY <2>1
<1>6. \A m \in Nat : m \in I
  <2>. HIDE DEF I
  <2>. QED
    BY <1>4, <1>5, Induction
<1>7. Range(f[n]) = Up(n) /\ f[n] \in Seq(S)
  <2>1. n \in 0 .. n
    OBVIOUS
  <2>. QED
    BY <1>2, <1>6, <2>1, Zenon
<1>. QED
  BY <1>0, <1>1, <1>7

-----------------------------------------------------------------------------
(* What the calls of MapMemory ask for. *)

\* The one frame that calls of MapMemory ask for page v, and the pages that they
\* ask 2 MiB pages for.
FrameOf(l, v) ==
    IF l.kernelVirt <= v THEN l.kernelPhys + (v - l.kernelVirt)
    ELSE IF l.hhdm <= v THEN v - l.hhdm
    ELSE v
BigArea(l) == TwoMiB .. OneGiB - 1 \cup l.hhdm + TwoMiB .. l.hhdm + OneGiB - 1

\* A call that asks for those.
Fits(l, c) ==
    /\ Aligned(c)
    /\ c.size = "2M" => Asked(c) \subseteq BigArea(l)
    /\ \A v \in Asked(c) : c.phys + (v - c.virt) = FrameOf(l, v)
FitCalls(l) ==
    {c \in [virt : Nat, phys : Nat, size : {"4K", "2M"}, user : BOOLEAN] : Fits(l, c)}

LEMMA LayoutFields ==
    ASSUME NEW l \in Layouts
    PROVE  /\ l.entries \in Seq([base : Nat, length : Nat, aligned : BOOLEAN])
           /\ l.first \in Nat /\ l.last \in Nat /\ l.hhdm \in Nat
           /\ l.kernelVirt \in Virtual /\ l.kernelVirt \in Nat /\ l.kernelPhys \in Nat
           /\ l.kernelSize \in Nat /\ l.fbVirt \in Nat /\ l.fbSize \in Nat
           /\ l.start \in Nat /\ l.end \in Nat
<1>1. l \in Layout
  BY PagingAssumption
<1>2. Virtual \subseteq Nat
  BY DEF Virtual
<1>. QED
  BY <1>1, <1>2, Zenon DEF Layout

LEMMA SmallFits ==
    ASSUME NEW l \in Layouts, NEW virt \in Nat, NEW phys \in Nat, NEW user \in BOOLEAN,
           phys = FrameOf(l, virt)
    PROVE  Call(virt, phys, "4K", user) \in FitCalls(l)
<1>. DEFINE c == Call(virt, phys, "4K", user)
<1>1. /\ c \in [virt : Nat, phys : Nat, size : {"4K", "2M"}, user : BOOLEAN]
      /\ c.virt = virt /\ c.phys = phys /\ c.size = "4K"
  BY DEF Call
<1>. HIDE DEF c
<1>2. Asked(c) = {virt} /\ Aligned(c)
  BY <1>1 DEF Asked, Aligned
<1>3. Fits(l, c)
  BY <1>1, <1>2 DEF Fits
<1>. QED
  BY <1>1, <1>3 DEF FitCalls, c

\* Pages of memory at their own address, in the direct map, and of the kernel.
LEMMA MemoryFits ==
    ASSUME NEW l \in Layouts, NEW x \in Nat
    PROVE  /\ \A user \in BOOLEAN : x < l.hhdm => Call(x, x, "4K", user) \in FitCalls(l)
           /\ l.hhdm + x < l.kernelVirt => Call(l.hhdm + x, x, "4K", FALSE) \in FitCalls(l)
           /\ Call(l.kernelVirt + x, l.kernelPhys + x, "4K", FALSE) \in FitCalls(l)
<1>1. /\ l.hhdm \in Nat /\ l.kernelVirt \in Nat /\ l.kernelPhys \in Nat /\ OneGiB \in Nat
      /\ l.hhdm + OneGiB <= l.kernelVirt
  BY LayoutFields, LayoutsHigherHalf, Sizes
<1>2. x < l.hhdm => x = FrameOf(l, x)
  BY <1>1 DEF FrameOf
<1>3. l.hhdm + x \in Nat /\ (l.hhdm + x < l.kernelVirt => x = FrameOf(l, l.hhdm + x))
  BY <1>1 DEF FrameOf
<1>4. /\ l.kernelVirt + x \in Nat /\ l.kernelPhys + x \in Nat
      /\ l.kernelPhys + x = FrameOf(l, l.kernelVirt + x)
  BY <1>1 DEF FrameOf
<1>. QED
  BY <1>2, <1>3, <1>4, SmallFits, Zenon

\* The 2 MiB pages of BigRegion.
LEMMA Multiples ==
    ASSUME NEW f \in Nat \ {0, 1}, NEW k \in 1 .. f - 1
    PROVE  /\ f * k \in Nat /\ f <= f * k /\ f * k + f <= f * f
           /\ (f * k) % f = 0 /\ (f * k) \div f = k
<1>1. f * k \in Nat /\ f * k = f * (k - 1) + f /\ f * (k - 1) \in Nat
  BY Products
<1>2. f * k + f <= f * f
  BY TimesMonotone
<1>3. f * k = f * k + 0 /\ 0 \in 0 .. f - 1
  BY <1>1
<1>4. (f * k) % f = 0 /\ (f * k) \div f = k
  <2>. PICK a \in Nat : a = f * k
    BY <1>1
  <2>1. a \div f = k /\ a % f = 0
    BY ONLY <1>3, a \in Nat, a = f * k, f \in Nat \ {0}, k \in Nat, DivisionUnique
  <2>. QED
    BY <2>1
<1>. QED
  BY <1>1, <1>2, <1>4

LEMMA BigFits ==
    ASSUME NEW l \in Layouts, NEW k \in 1 .. Fanout - 1, NEW x, x = Fanout * k
    PROVE  Identity(l, x, "2M") \in FitCalls(l) /\ Direct(l, x, "2M") \in FitCalls(l)
<1>. PICK f \in Nat \ {0, 1} : f = Fanout
  BY Sizes
<1>. PICK g \in Nat : g = OneGiB /\ g = f * f
  BY Sizes DEF OneGiB
<1>. PICK h \in Nat, v \in Nat : h = l.hhdm /\ v = l.kernelVirt
  BY LayoutFields
<1>1. x \in Nat /\ f <= x /\ x + f <= g /\ x % f = 0
  BY Multiples
<1>2. g <= h /\ h + g <= v /\ h % f = 0
  BY LayoutsHigherHalf DEF TwoMiB
<1>3. (h + x) % f = 0
  <2>0. PICK q \in Nat, r \in 0 .. f - 1 : r = h % f /\ h = f * q + r
    BY ONLY h \in Nat, f \in Nat \ {0}, QuotientAndRest
  <2>1. h = f * q
    BY <1>2, <2>0, Products
  <2>2. h + x = f * (q + k) + 0 /\ q + k \in Nat
    BY <2>1
  <2>3. h + x \in Nat
    BY <1>1
  <2>. PICK y \in Nat, z \in Nat : y = h + x /\ z = q + k
    BY <2>2, <2>3
  <2>4. y = f * z + 0 /\ 0 \in 0 .. f - 1
    BY <2>2
  <2>5. y % f = 0
    BY ONLY <2>4, y \in Nat, z \in Nat, f \in Nat \ {0}, DivisionUnique
  <2>. QED
    BY <2>5
<1>4. ASSUME NEW c, NEW virt \in {x, h + x}, c = Call(virt, x, "2M", FALSE)
      PROVE  c \in FitCalls(l)
  <2>1. /\ c \in [virt : Nat, phys : Nat, size : {"4K", "2M"}, user : BOOLEAN]
        /\ c.virt = virt /\ c.phys = x /\ c.size = "2M"
    BY <1>1, <1>4 DEF Call
  <2>2. Asked(c) = virt .. virt + f - 1 /\ Aligned(c)
    BY <1>1, <1>3, <2>1 DEF Asked, Aligned, TwoMiB
  <2>a. BigArea(l) = f .. g - 1 \cup h + f .. h + g - 1
    BY DEF BigArea, TwoMiB
  <2>3. Asked(c) \subseteq BigArea(l)
    BY ONLY <1>1, <2>2, <2>a, f \in Nat, g \in Nat, h \in Nat, virt \in {x, h + x}
  <2>b. \A w : FrameOf(l, w) = IF v <= w THEN l.kernelPhys + (w - v)
                              ELSE IF h <= w THEN w - h ELSE w
    BY DEF FrameOf
  <2>4. ASSUME NEW w \in Asked(c) PROVE c.phys + (w - c.virt) = FrameOf(l, w)
    <3>1. w \in virt .. virt + f - 1
      BY <2>2
    <3>. QED
      BY ONLY <1>1, <1>2, <2>1, <2>b, <3>1, f \in Nat, g \in Nat, h \in Nat, v \in Nat,
              virt \in {x, h + x}
  <2>5. Fits(l, c)
    BY <2>2, <2>3, <2>4 DEF Fits
  <2>. QED
    BY <2>1, <2>5 DEF FitCalls
<1>. QED
  BY <1>4, Zenon DEF Identity, Direct

-----------------------------------------------------------------------------
(* The loops. *)

\* A loop as a sequence.
LEMMA LoopItems ==
    ASSUME NEW S, NEW n \in Int, NEW f \in [1 .. n -> S]
    PROVE  f \in Seq(S) /\ Range(f) = {f[k] : k \in 1 .. n} /\ DOMAIN f = 1 .. n
<1>1. CASE n \in Nat
  BY <1>1 DEF Range
<1>2. CASE n < 0
  <2>1. 1 .. n = 1 .. 0
    BY <1>2
  <2>2. f \in [1 .. 0 -> S]
    BY <2>1
  <2>3. f \in Seq(S)
    BY <2>2
  <2>. QED
    BY <2>3 DEF Range
<1>. QED
  BY <1>1, <1>2

\* Loops in a loop.
LEMMA LoopsItems ==
    ASSUME NEW S, NEW n \in Int, NEW f \in [1 .. n -> Seq(S)]
    PROVE  /\ Flatten(f) \in Seq(S)
           /\ \A c : c \in Range(Flatten(f)) <=> \E k \in 1 .. n : c \in Range(f[k])
<1>1. f \in Seq(Seq(S)) /\ DOMAIN f = 1 .. n
  BY LoopItems
<1>2. \A k : k \in 1 .. Len(f) <=> k \in 1 .. n
  BY <1>1
<1>3. /\ Flatten(f) \in Seq(S)
      /\ Range(Flatten(f)) = UNION {Range(f[k]) : k \in 1 .. Len(f)}
  BY <1>1, FlattenItems, Zenon
<1>. QED
  BY <1>2, <1>3, Zenon

LEMMA KernelImageCalls ==
    ASSUME NEW l \in Layouts
    PROVE  /\ KernelImage(l) \in Seq(FitCalls(l))
           /\ \A c \in Range(KernelImage(l)) : c.size = "4K"
           /\ \A v \in l.kernelVirt .. l.kernelVirt + l.kernelSize - 1 :
                \E c \in Range(KernelImage(l)) : c.virt = v
<1>. PICK n \in Nat, a \in Nat, p \in Nat :
        n = l.kernelSize /\ a = l.kernelVirt /\ p = l.kernelPhys
  BY LayoutFields
<1>. DEFINE F(i) == Call(a + i, p + i, "4K", FALSE)
            f == [k \in 1 .. n |-> F(k - 1)]
<1>1. KernelImage(l) = f
  BY DEF KernelImage, Pages
<1>2. \A i \in Nat : F(i) \in FitCalls(l)
  BY MemoryFits, Zenon
<1>3. \A i \in Nat : F(i).size = "4K" /\ F(i).virt = a + i
  BY DEF Call
<1>. HIDE DEF F
<1>4. f \in Seq(FitCalls(l)) /\ Range(f) = {F(k - 1) : k \in 1 .. n}
  <2>1. \A k \in 1 .. n : F(k - 1) \in FitCalls(l)
    BY <1>2
  <2>. QED
    BY <2>1 DEF Range
<1>. HIDE DEF f
<1>5. ASSUME NEW c \in Range(f) PROVE c.size = "4K"
  <2>1. PICK k \in 1 .. n : c = F(k - 1)
    BY <1>4
  <2>. QED
    BY <1>3, <2>1
<1>6. ASSUME NEW v \in a .. a + n - 1 PROVE \E c \in Range(f) : c.virt = v
  <2>1. v - a + 1 \in 1 .. n /\ (v - a + 1) - 1 = v - a /\ v - a \in Nat /\ a + (v - a) = v
    OBVIOUS
  <2>2. F(v - a) \in Range(f)
    BY <1>4, <2>1
  <2>. QED
    BY <1>3, <2>1, <2>2
<1>. QED
  BY <1>1, <1>4, <1>5, <1>6

LEMMA TwiceItems ==
    ASSUME NEW l, NEW x, NEW size, NEW S, Identity(l, x, size) \in S, Direct(l, x, size) \in S
    PROVE  /\ Twice(l, x, size) \in Seq(S)
           /\ Range(Twice(l, x, size)) = {Identity(l, x, size), Direct(l, x, size)}
<1>. PICK a \in S, b \in S : a = Identity(l, x, size) /\ b = Direct(l, x, size)
  OBVIOUS
<1>1. Twice(l, x, size) = <<a, b>>
  BY DEF Twice
<1>2. <<a, b>> \in Seq(S) /\ Range(<<a, b>>) = {a, b}
  BY DEF Range
<1>. QED
  BY <1>1, <1>2

LEMMA BigRegionCalls ==
    ASSUME NEW l \in Layouts
    PROVE  /\ BigRegion(l) \in Seq(FitCalls(l))
           /\ \A c \in Range(BigRegion(l)) : c.size = "2M"
           /\ \A v \in BigArea(l) : \E c \in Range(BigRegion(l)) : v \in Asked(c)
<1>. PICK n \in Nat \ {0, 1} : n = Fanout
  BY Sizes
<1>. PICK h \in Nat : h = l.hhdm
  BY LayoutFields
<1>. DEFINE I(x) == Identity(l, x, "2M")
            D(x) == Direct(l, x, "2M")
            T(x) == Twice(l, x, "2M")
            f == [k \in 1 .. n - 1 |-> T(n * k)]
<1>1. BigRegion(l) = Flatten(f)
  <2>1. (OneGiB - TwoMiB) \div TwoMiB = n - 1
    <3>1. OneGiB - TwoMiB = n * (n - 1) + 0 /\ n * (n - 1) \in Nat
      BY Products DEF OneGiB, TwoMiB
    <3>. PICK y \in Nat : y = OneGiB - TwoMiB
      BY <3>1
    <3>2. y = n * (n - 1) + 0 /\ 0 \in 0 .. n - 1
      BY <3>1
    <3>3. y \div n = n - 1
      BY ONLY <3>2, y \in Nat, n \in Nat \ {0}, n - 1 \in Nat, DivisionUnique
    <3>. QED
      BY <3>3 DEF TwoMiB
  <2>2. \A k \in 1 .. n - 1 : TwoMiB + (k - 1) * TwoMiB = n * k
    BY DEF TwoMiB
  <2>3. [k \in 1 .. n - 1 |-> T(TwoMiB + (k - 1) * TwoMiB)] = f
    BY <2>2
  <2>4. BigPages(TwoMiB, OneGiB, T) = f
    BY <2>1, <2>3 DEF BigPages
  <2>. QED
    BY <2>4 DEF BigRegion
<1>2. \A k \in 1 .. n - 1 : I(n * k) \in FitCalls(l) /\ D(n * k) \in FitCalls(l)
  BY BigFits
<1>3. \A k \in 1 .. n - 1 : T(n * k) \in Seq(FitCalls(l)) /\ Range(T(n * k)) = {I(n * k), D(n * k)}
  BY <1>2, TwiceItems, Zenon
<1>4. \A x : /\ I(x).size = "2M" /\ I(x).virt = x
             /\ D(x).size = "2M" /\ D(x).virt = h + x
  BY DEF Identity, Direct, Call
<1>. HIDE DEF I, D, T
<1>5. f \in [1 .. n - 1 -> Seq(FitCalls(l))] /\ \A k \in 1 .. n - 1 : f[k] = T(n * k)
  BY <1>3, Zenon
<1>. HIDE DEF f
<1>6. /\ Flatten(f) \in Seq(FitCalls(l))
      /\ \A c : c \in Range(Flatten(f)) <=> \E k \in 1 .. n - 1 : c \in Range(f[k])
  <2>1. n - 1 \in Int
    OBVIOUS
  <2>. QED
    BY ONLY <1>5, <2>1, LoopsItems, Zenon
<1>7. \A c : c \in Range(Flatten(f)) <=> \E k \in 1 .. n - 1 : c = I(n * k) \/ c = D(n * k)
  <2>1. \A k \in 1 .. n - 1 : \A c : c \in Range(f[k]) <=> c = I(n * k) \/ c = D(n * k)
    BY <1>3, <1>5
  <2>. QED
    BY <1>6, <2>1, Zenon
<1>8. ASSUME NEW c \in Range(Flatten(f)) PROVE c.size = "2M"
  BY <1>4, <1>7
<1>9. ASSUME NEW v \in BigArea(l) PROVE \E c \in Range(Flatten(f)) : v \in Asked(c)
  <2>1. \/ v \in n .. n * n - 1 \/ v \in h + n .. h + (n * n) - 1
    BY DEF BigArea, TwoMiB, OneGiB
  <2>2. PICK x \in n .. n * n - 1 : v = x \/ v = h + x
    <3>1. n * n \in Nat
      BY Products
    <3>2. CASE v \in h + n .. h + (n * n) - 1
      <4>1. v - h \in n .. n * n - 1 /\ v = h + (v - h)
        BY <3>1, <3>2
      <4>. QED
        BY <4>1
    <3>. QED
      BY <2>1, <3>2
  <2>3. x \in Nat
    BY <2>2, Products
  <2>4. PICK k \in Nat, r \in 0 .. n - 1 : k = x \div n /\ r = x % n /\ x = n * k + r
    BY ONLY <2>3, n \in Nat \ {0}, QuotientAndRest
  <2>5. n * k \in Nat /\ n * n \in Nat
    BY Products
  <2>6. k \in 1 .. n - 1
    <3>1. k # 0
      BY <2>2, <2>4
    <3>2. ~(n < k) /\ k # n
      <4>1. ASSUME n < k PROVE n * n + n <= n * k
        BY ONLY <4>1, n \in Nat, k \in Nat, TimesMonotone
      <4>2. k = n => n * k = n * n
        OBVIOUS
      <4>. QED
        BY <2>2, <2>4, <2>5, <4>1, <4>2
    <3>. QED
      BY <3>1, <3>2
  <2>7. \A y, c : c.size = "2M" /\ c.virt = y => Asked(c) = y .. y + n - 1
    BY DEF Asked, TwoMiB
  <2>8. Asked(I(n * k)) = n * k .. (n * k) + n - 1
    BY <1>4, <2>7
  <2>9. Asked(D(n * k)) = h + (n * k) .. h + (n * k) + n - 1
    BY <1>4, <2>7
  <2>10. CASE v = x
    <3>1. v \in Asked(I(n * k))
      BY <2>4, <2>5, <2>8, <2>10
    <3>. QED
      BY <1>7, <2>6, <3>1, Zenon
  <2>11. CASE v = h + x
    <3>1. v \in Asked(D(n * k))
      BY <2>4, <2>5, <2>9, <2>11
    <3>. QED
      BY <1>7, <2>6, <3>1, Zenon
  <2>. QED
    BY <2>2, <2>10, <2>11
<1>. QED
  BY <1>1, <1>6, <1>8, <1>9

\* The other loops.
LowRegion(l) == Flatten(Pages(0, TwoMiB, LAMBDA i : LowPage(l, i)))
HighRegion(l) == Flatten(Pages(OneGiB, FourGiB, LAMBDA i : Twice(l, i, "4K")))
UserImage(l) == Pages(l.start, l.end, LAMBDA i : Call(i, i, "4K", TRUE))

LEMMA SmallTwice ==
    ASSUME NEW l \in Layouts, NEW x \in Nat, x < l.hhdm, l.hhdm + x < l.kernelVirt
    PROVE  /\ Identity(l, x, "4K") \in FitCalls(l)
           /\ Direct(l, x, "4K") \in FitCalls(l)
           /\ Twice(l, x, "4K") \in Seq(FitCalls(l))
           /\ LowPage(l, x) \in Seq(FitCalls(l))
<1>1. Identity(l, x, "4K") \in FitCalls(l) /\ Direct(l, x, "4K") \in FitCalls(l)
  BY MemoryFits, Zenon DEF Identity, Direct
<1>2. Twice(l, x, "4K") \in Seq(FitCalls(l))
  BY <1>1, TwiceItems
<1>3. <<Direct(l, x, "4K")>> \in Seq(FitCalls(l))
  BY <1>1
<1>. QED
  BY <1>1, <1>2, <1>3 DEF LowPage

LEMMA LowRegionCalls ==
    ASSUME NEW l \in Layouts
    PROVE  LowRegion(l) \in Seq(FitCalls(l))
<1>. PICK n \in Nat \ {0, 1} : n = Fanout
  BY Sizes
<1>. DEFINE F(i) == LowPage(l, i)
            f == [k \in 1 .. n |-> F(0 + k - 1)]
<1>1. LowRegion(l) = Flatten(f)
  <2>1. TwoMiB - 0 = n
    BY DEF TwoMiB
  <2>2. Pages(0, TwoMiB, F) = f
    BY <2>1 DEF Pages
  <2>. QED
    BY <2>2 DEF LowRegion
<1>2. \A i \in 0 .. n - 1 : F(i) \in Seq(FitCalls(l))
  <2>. PICK h \in Nat, v \in Nat, g \in Nat : h = l.hhdm /\ v = l.kernelVirt /\ g = OneGiB
    BY LayoutFields, Sizes
  <2>1. g <= h /\ h + g <= v
    BY LayoutsHigherHalf
  <2>2. n <= g
    <3>1. n * n = n * (n - 1) + n /\ n * (n - 1) \in Nat
      BY Products
    <3>. QED
      BY <3>1 DEF OneGiB
  <2>3. \A i \in 0 .. n - 1 : i \in Nat /\ i < h /\ h + i < v
    BY <2>1, <2>2
  <2>. QED
    BY <2>3, SmallTwice
<1>. HIDE DEF F
<1>3. f \in [1 .. n -> Seq(FitCalls(l))]
  <2>1. \A k \in 1 .. n : 0 + k - 1 \in 0 .. n - 1
    OBVIOUS
  <2>. QED
    BY <1>2, <2>1
<1>. HIDE DEF f
<1>4. Flatten(f) \in Seq(FitCalls(l))
  <2>1. n \in Int
    OBVIOUS
  <2>. QED
    BY ONLY <1>3, <2>1, LoopsItems
<1>. QED
  BY <1>1, <1>4

LEMMA HighRegionCalls ==
    ASSUME NEW l \in Layouts
    PROVE  HighRegion(l) \in Seq(FitCalls(l))
<1>. PICK g \in Nat, m \in Nat : g = OneGiB /\ m = FourGiB
  BY Sizes, PagingAssumption
<1>. PICK n \in Int : n = m - g
  OBVIOUS
<1>. DEFINE F(i) == Twice(l, i, "4K")
            f == [k \in 1 .. n |-> F(g + k - 1)]
<1>1. HighRegion(l) = Flatten(f)
  <2>1. Pages(OneGiB, FourGiB, F) = f
    BY DEF Pages
  <2>. QED
    BY <2>1 DEF HighRegion
<1>2. \A i \in 0 .. m - 1 : F(i) \in Seq(FitCalls(l))
  <2>. PICK h \in Nat, v \in Nat : h = l.hhdm /\ v = l.kernelVirt
    BY LayoutFields
  <2>1. m <= h /\ h + m <= v
    BY LayoutsHigherHalf
  <2>3. \A i \in 0 .. m - 1 : i \in Nat /\ i < h /\ h + i < v
    BY <2>1
  <2>. QED
    BY <2>3, SmallTwice
<1>. HIDE DEF F
<1>3. f \in [1 .. n -> Seq(FitCalls(l))]
  <2>1. \A k \in 1 .. n : g + k - 1 \in 0 .. m - 1
    OBVIOUS
  <2>. QED
    BY <1>2, <2>1
<1>. HIDE DEF f
<1>4. Flatten(f) \in Seq(FitCalls(l))
  BY ONLY <1>3, n \in Int, LoopsItems
<1>. QED
  BY <1>1, <1>4

IdentityCalls(a, b, user) == [k \in 1 .. b - a |-> Call(a + k - 1, a + k - 1, "4K", user)]
LEMMA IdentityLoop ==
    ASSUME NEW l \in Layouts, NEW a \in Nat, NEW b \in Nat, b <= l.hhdm, NEW user \in BOOLEAN
    PROVE  IdentityCalls(a, b, user) \in Seq(FitCalls(l))
<1>. DEFINE F(i) == Call(i, i, "4K", user)
            f == [k \in 1 .. b - a |-> F(a + k - 1)]
<1>0. l.hhdm \in Nat /\ b - a \in Int
  BY LayoutFields
<1>1. \A i \in 0 .. b - 1 : F(i) \in FitCalls(l)
  <2>1. \A i \in 0 .. b - 1 : i \in Nat /\ i < l.hhdm
    BY <1>0
  <2>. QED
    BY <2>1, MemoryFits, Zenon
<1>. HIDE DEF F
<1>2. \A k \in 1 .. b - a : a + k - 1 \in 0 .. b - 1
  OBVIOUS
<1>3. f \in [1 .. b - a -> FitCalls(l)]
  BY <1>1, <1>2
<1>. HIDE DEF f
<1>4. f \in Seq(FitCalls(l))
  BY ONLY <1>0, <1>3, LoopItems
<1>. QED
  BY <1>4 DEF f, F, IdentityCalls

LEMMA SectionsCalls ==
    ASSUME NEW l \in Layouts
    PROVE  Sections(l) \in Seq(FitCalls(l))
<1>. PICK es : es = l.entries
  OBVIOUS
<1>. PICK n \in Nat : n = Len(es)
  BY LayoutFields
<1>0. es \in Seq([base : Nat, length : Nat, aligned : BOOLEAN]) /\ DOMAIN es = 1 .. n
  BY LayoutFields
<1>. DEFINE F(k) == LET e == es[k]
                    IN  IF e.aligned THEN Pages(e.base, e.base + e.length,
                                                LAMBDA j : Identity(l, j, "4K"))
                                     ELSE << >>
            f == [k \in 1 .. n |-> F(k)]
<1>1. Sections(l) = Flatten(f)
  BY <1>0 DEF Sections
<1>2. ASSUME NEW k \in 1 .. n PROVE F(k) \in Seq(FitCalls(l))
  <2>0. es[k] \in [base : Nat, length : Nat, aligned : BOOLEAN]
    BY <1>0, ElementTyped, Zenon
  <2>. PICK a \in Nat, len \in Nat : a = es[k].base /\ len = es[k].length
    BY <2>0
  <2>1. CASE es[k].aligned
    <3>. PICK b \in Nat : b = a + len
      OBVIOUS
    <3>1. b <= l.hhdm
      BY <1>0, <2>1, LayoutsHigherHalf
    <3>2. F(k) = IdentityCalls(a, b, FALSE)
      BY <2>1 DEF Pages, Identity, IdentityCalls
    <3>3. FALSE \in BOOLEAN
      OBVIOUS
    <3>. HIDE DEF F
    <3>. QED
      BY <3>1, <3>2, <3>3, IdentityLoop, Zenon
  <2>2. CASE ~es[k].aligned
    BY <2>2
  <2>. QED
    BY <2>1, <2>2
<1>. HIDE DEF F
<1>3. f \in [1 .. n -> Seq(FitCalls(l))]
  BY <1>2
<1>. HIDE DEF f
<1>4. Flatten(f) \in Seq(FitCalls(l))
  <2>1. n \in Int
    OBVIOUS
  <2>. QED
    BY ONLY <1>3, <2>1, LoopsItems
<1>. QED
  BY <1>1, <1>4

LEMMA FramebufferCalls ==
    ASSUME NEW l \in Layouts
    PROVE  Framebuffer(l) \in Seq(FitCalls(l))
<1>. PICK a \in Nat, n \in Nat, h \in Nat, v \in Nat :
        a = l.fbVirt /\ n = l.fbSize /\ h = l.hhdm /\ v = l.kernelVirt
  BY LayoutFields
<1>. DEFINE F(i) == Call(i, i - h, "4K", FALSE)
            f == [k \in 1 .. n |-> F(a + k - 1)]
<1>0. h <= a /\ a + n <= v
  BY LayoutsHigherHalf
<1>1. Framebuffer(l) = f
  <2>1. l.fbVirt + l.fbSize - l.fbVirt = n
    OBVIOUS
  <2>. QED
    BY <2>1 DEF Framebuffer, Pages
<1>2. ASSUME NEW k \in 1 .. n PROVE F(a + k - 1) \in FitCalls(l)
  <2>. PICK x \in Nat : x = a + k - 1 - h
    BY <1>0
  <2>1. a + k - 1 = h + x /\ h + x < v
    BY <1>0
  <2>2. Call(h + x, x, "4K", FALSE) \in FitCalls(l)
    BY <2>1, MemoryFits, Zenon
  <2>3. F(h + x) = Call(h + x, x, "4K", FALSE)
    <3>1. (h + x) - h = x
      OBVIOUS
    <3>. QED
      BY <3>1, Zenon
  <2>. HIDE DEF F
  <2>. QED
    BY <2>1, <2>2, <2>3, Zenon
<1>. HIDE DEF F
<1>3. f \in [1 .. n -> FitCalls(l)]
  BY <1>2
<1>. HIDE DEF f
<1>4. f \in Seq(FitCalls(l))
  <2>1. n \in Int
    OBVIOUS
  <2>. QED
    BY ONLY <1>3, <2>1, LoopItems
<1>. QED
  BY <1>1, <1>4

LEMMA UserImageCalls ==
    ASSUME NEW l \in Layouts
    PROVE  /\ UserImage(l) \in Seq(FitCalls(l))
           /\ \A c \in Range(UserImage(l)) : c.size = "4K"
<1>. PICK a \in Nat, b \in Nat : a = l.start /\ b = l.end
  BY LayoutFields
<1>. DEFINE F(i) == Call(i, i, "4K", TRUE)
            f == [k \in 1 .. b - a |-> F(a + k - 1)]
<1>1. UserImage(l) = f
  BY DEF UserImage, Pages
<1>2. b <= l.hhdm
  BY LayoutsHigherHalf
<1>3. f \in Seq(FitCalls(l))
  <2>1. f = IdentityCalls(a, b, TRUE) /\ TRUE \in BOOLEAN
    BY DEF IdentityCalls
  <2>. HIDE DEF f
  <2>. QED
    BY <1>2, <2>1, IdentityLoop, Zenon
<1>4. \A i : F(i).size = "4K"
  BY DEF Call
<1>. HIDE DEF F
<1>5. ASSUME NEW c \in Range(f) PROVE c.size = "4K"
  BY <1>4 DEF Range
<1>. QED
  BY <1>1, <1>3, <1>5

\* The calls s ask for what fits, and among it for the pages all spaces share.
Shared(l) == l.kernelVirt .. l.kernelVirt + l.kernelSize - 1 \cup BigArea(l)
GoodCalls(l, s) ==
    /\ s \in Seq(Calls)
    /\ \A c \in Range(s) : Fits(l, c)
    /\ \A v \in Shared(l) : \E c \in Range(s) : v \in Asked(c)

\* Once a 4 KiB page is asked for, no 2 MiB page follows.
BigFirst(s) == \A i, j \in DOMAIN s : i < j /\ s[i].size = "4K" => s[j].size = "4K"

LEMMA GoodCallsFrom ==
    ASSUME NEW l \in Layouts, NEW s \in Seq(FitCalls(l)), s \in Seq(Calls),
           Range(BigRegion(l)) \subseteq Range(s), Range(KernelImage(l)) \subseteq Range(s)
    PROVE  GoodCalls(l, s)
<1>1. \A c \in Range(s) : Fits(l, c)
  BY DEF Range, FitCalls
<1>2. ASSUME NEW v \in BigArea(l) PROVE \E c \in Range(s) : v \in Asked(c)
  BY BigRegionCalls
<1>3. ASSUME NEW v \in l.kernelVirt .. l.kernelVirt + l.kernelSize - 1
      PROVE  \E c \in Range(s) : v \in Asked(c)
  <2>1. PICK c \in Range(KernelImage(l)) : c.virt = v /\ c.size = "4K"
    BY KernelImageCalls
  <2>2. v \in Asked(c)
    BY <2>1 DEF Asked
  <2>. QED
    BY <2>1, <2>2
<1>. QED
  BY <1>1, <1>2, <1>3 DEF GoodCalls, Shared

LEMMA KernelCalls ==
    ASSUME NEW l \in Layouts
    PROVE  GoodCalls(l, CreateDefaultMappings(l))
<1>. DEFINE S == FitCalls(l)
<1>. PICK k \in Seq(S), a \in Seq(S), b \in Seq(S), h \in Seq(S), t \in Seq(S), f \in Seq(S) :
        /\ k = KernelImage(l) /\ a = LowRegion(l) /\ b = BigRegion(l)
        /\ h = HighRegion(l) /\ t = Sections(l) /\ f = Framebuffer(l)
  BY KernelImageCalls, LowRegionCalls, BigRegionCalls, HighRegionCalls, SectionsCalls,
     FramebufferCalls
<1>. HIDE DEF S
<1>. PICK s1 \in Seq(S) : s1 = Cat(k, a) /\ Range(s1) = Range(k) \cup Range(a)
  BY ONLY k \in Seq(S), a \in Seq(S), CatItems
<1>. PICK s2 \in Seq(S) : s2 = Cat(s1, b) /\ Range(s2) = Range(s1) \cup Range(b)
  BY ONLY s1 \in Seq(S), b \in Seq(S), CatItems
<1>. PICK s3 \in Seq(S) : s3 = Cat(s2, h) /\ Range(s3) = Range(s2) \cup Range(h)
  BY ONLY s2 \in Seq(S), h \in Seq(S), CatItems
<1>. PICK s4 \in Seq(S) : s4 = Cat(s3, t) /\ Range(s4) = Range(s3) \cup Range(t)
  BY ONLY s3 \in Seq(S), t \in Seq(S), CatItems
<1>. PICK s5 \in Seq(S) : s5 = Cat(s4, f) /\ Range(s5) = Range(s4) \cup Range(f)
  BY ONLY s4 \in Seq(S), f \in Seq(S), CatItems
<1>1. CreateDefaultMappings(l) = s5
  BY Zenon DEF CreateDefaultMappings, Cat, LowRegion, HighRegion
<1>2. s5 \in Seq(FitCalls(l)) /\ s5 \in Seq(Calls)
  BY <1>1, LayoutsFit DEF S
<1>3. Range(BigRegion(l)) \subseteq Range(s5) /\ Range(KernelImage(l)) \subseteq Range(s5)
  OBVIOUS
<1>. QED
  BY ONLY <1>1, <1>2, <1>3, l \in Layouts, GoodCallsFrom, Zenon

LEMMA BigThenSmall ==
    ASSUME NEW S, NEW s \in Seq(S), NEW t \in Seq(S),
           \A c \in Range(s) : c.size = "2M", \A c \in Range(t) : c.size = "4K"
    PROVE  BigFirst(Cat(s, t))
<1>. PICK m \in Nat, n \in Nat : m = Len(s) /\ n = Len(t)
  OBVIOUS
<1>1. DOMAIN Cat(s, t) = 1 .. m + n
  BY CatSeq
<1>2. ASSUME NEW i \in 1 .. m PROVE Cat(s, t)[i].size = "2M"
  BY CatLeft DEF Range
<1>3. ASSUME NEW i \in m + 1 .. m + n PROVE Cat(s, t)[i].size = "4K"
  <2>. PICK j \in 1 .. n : i = m + j
    <3>1. i - m \in 1 .. n /\ i = m + (i - m)
      OBVIOUS
    <3>. QED
      BY <3>1, Zenon
  <2>1. Cat(s, t)[i] = t[j]
    BY CatRight
  <2>. QED
    BY <2>1 DEF Range
<1>4. "2M" # "4K"
  OBVIOUS
<1>5. ASSUME NEW i \in 1 .. m + n, NEW j \in 1 .. m + n, i < j, Cat(s, t)[i].size = "4K"
      PROVE  Cat(s, t)[j].size = "4K"
  <2>1. ~(i \in 1 .. m)
    BY <1>2, <1>4, <1>5
  <2>2. j \in m + 1 .. m + n
    BY <1>5, <2>1
  <2>. QED
    BY <1>3, <2>2
<1>. QED
  BY <1>1, <1>5 DEF BigFirst

LEMMA ProcessCalls ==
    ASSUME NEW l \in Layouts, NEW inKernelCode \in BOOLEAN
    PROVE  /\ GoodCalls(l, ProcessMappings(l, inKernelCode))
           /\ BigFirst(ProcessMappings(l, inKernelCode))
<1>. DEFINE S == FitCalls(l)
<1>. PICK k \in Seq(S), b \in Seq(S) : k = KernelImage(l) /\ b = BigRegion(l)
  BY KernelImageCalls, BigRegionCalls
<1>. PICK u \in Seq(S) : /\ u = IF inKernelCode THEN << >> ELSE UserImage(l)
                         /\ \A c \in Range(u) : c.size = "4K"
  <2>1. << >> \in Seq(S) /\ \A c \in Range(<< >>) : c.size = "4K"
    BY DEF Range
  <2>. QED
    BY <2>1, UserImageCalls, Zenon
<1>a. (\A c \in Range(k) : c.size = "4K") /\ \A c \in Range(b) : c.size = "2M"
  BY KernelImageCalls, BigRegionCalls
<1>. HIDE DEF S
<1>. PICK s1 \in Seq(S) : s1 = Cat(k, u) /\ Range(s1) = Range(k) \cup Range(u)
  BY ONLY k \in Seq(S), u \in Seq(S), CatItems
<1>. PICK s2 \in Seq(S) : s2 = Cat(b, s1) /\ Range(s2) = Range(b) \cup Range(s1)
  BY ONLY b \in Seq(S), s1 \in Seq(S), CatItems
<1>1. ProcessMappings(l, inKernelCode) = s2
  <2>1. ProcessMappings(l, inKernelCode) = Cat(Cat(b, k), u)
    BY Zenon DEF ProcessMappings, UserImage, Cat
  <2>2. Cat(Cat(b, k), u) = Cat(b, Cat(k, u))
    BY ONLY b \in Seq(S), k \in Seq(S), u \in Seq(S), CatTwice
  <2>. QED
    BY <2>1, <2>2
<1>2. s2 \in Seq(FitCalls(l)) /\ s2 \in Seq(Calls)
  BY <1>1, LayoutsFit DEF S
<1>3. Range(BigRegion(l)) \subseteq Range(s2) /\ Range(KernelImage(l)) \subseteq Range(s2)
  OBVIOUS
<1>4. GoodCalls(l, ProcessMappings(l, inKernelCode))
  BY ONLY <1>1, <1>2, <1>3, l \in Layouts, GoodCallsFrom, Zenon
<1>5. \A c \in Range(s1) : c.size = "4K"
  BY <1>a
<1>6. BigFirst(s2)
  BY <1>5, <1>a, BigThenSmall
<1>. QED
  BY <1>1, <1>4, <1>6

LEMMA SharedVirtual ==
    ASSUME NEW l \in Layouts
    PROVE  Shared(l) \subseteq Virtual
<1>. SUFFICES ASSUME NEW v \in Shared(l) PROVE v \in Virtual
  OBVIOUS
<1>1. PICK c \in Calls : Fits(l, c) /\ v \in Asked(c)
  <2>. PICK s \in Seq(Calls) : GoodCalls(l, s)
    BY KernelCalls DEF GoodCalls
  <2>1. PICK c \in Range(s) : Fits(l, c) /\ v \in Asked(c)
    BY DEF GoodCalls
  <2>2. c \in Calls
    BY DEF Range
  <2>. QED
    BY <2>1, <2>2
<1>2. CASE c.size = "4K"
  BY <1>1, <1>2 DEF Asked, Calls
<1>3. CASE c.size = "2M"
  <2>1. v \in BigArea(l)
    BY <1>1, <1>3 DEF Fits
  <2>. PICK n \in Nat, g \in Nat, h \in Nat, k \in Nat :
          n = TwoMiB /\ g = OneGiB /\ h = l.hhdm /\ k = l.kernelVirt
    BY LayoutFields, Sizes, Zenon DEF TwoMiB
  <2>2. h + g <= k /\ k \in Virtual
    BY LayoutsHigherHalf, LayoutFields
  <2>3. v \in n .. g - 1 \cup h + n .. h + g - 1
    BY <2>1 DEF BigArea
  <2>4. v \in Nat /\ v <= k
    BY <2>2, <2>3
  <2>. PICK top \in Int : top = Fanout * SlotSize - 1
    BY Sizes
  <2>5. k \in 0 .. top
    BY <2>2 DEF Virtual
  <2>6. v \in 0 .. top
    BY ONLY <2>4, <2>5, top \in Int, k \in Nat
  <2>. QED
    BY <2>6 DEF Virtual
<1>. QED
  BY <1>2, <1>3 DEF Calls

-----------------------------------------------------------------------------
(* The inductive invariant. *)

\* A process's address space is being filled in; as long as 2 MiB pages are
\* asked for, it has no tables of level 1.
Growing == mode = "map" /\ spaces # << >> /\ target \notin Range(spaces)
Bare == IF Growing /\ todo # << >> /\ Head(todo).size = "2M" THEN {target} ELSE {}

\* Types, and where the address spaces under way are.
BasicInv ==
    /\ TypeOK
    /\ mode = "boot" => next = layout.first /\ spaces = << >>
    /\ mode = "map" => target \in Roots

\* What was asked for and what is still to come.
CallsInv ==
    /\ \A c \in Range(todo) : Fits(layout, c)
    /\ \A r \in Roots, v \in Virtual : wanted[r][v] \in {NoPage, FrameOf(layout, v)}
    /\ Growing => BigFirst(todo)
    /\ mode = "map" /\ target \in Range(spaces) => \A c \in Range(todo) : c.size = "4K"
    /\ mode = "map" => \A v \in Shared(layout) :
            wanted[target][v] # NoPage \/ \E c \in Range(todo) : v \in Asked(c)
    /\ \A r \in Range(spaces), v \in Shared(layout) : wanted[r][v] # NoPage

\* The tables have a shape, and walks through them go where they were asked to.
TablesInv ==
    mode # "damaged" =>
        /\ \E level, owner, pos : Shape(mem, Roots, BigArea(layout), Bare, level, owner, pos)
        /\ \A r \in Roots, v \in Virtual : Walk4(mem, r, v) = wanted[r][v]

PagingInv == BasicInv /\ CallsInv /\ TablesInv

-----------------------------------------------------------------------------
(* The first state. *)

LEMMA PagingInvInit == Init => PagingInv
<1>. SUFFICES ASSUME Init PROVE PagingInv
  OBVIOUS
<1>1. /\ mem \in [{} -> [Slots -> Entry]] /\ DOMAIN mem = {}
      /\ wanted \in [{} -> [Virtual -> Nat \cup {NoPage}]] /\ Roots = {}
      /\ stacks \in [{} -> layout.first .. next - 1] /\ DOMAIN stacks = {}
  BY DEF Init, Roots
<1>2. layout \in Layouts /\ layout \in Layout /\ layout.first <= layout.last
  BY PagingAssumption DEF Init
<1>3. layout.first \in Nat /\ layout.last \in Nat
  BY <1>2 DEF Layout, Virtual
<1>4. next \in layout.first .. layout.last + 1
  BY <1>2, <1>3 DEF Init
<1>5. TypeOK
  BY <1>1, <1>2, <1>4 DEF Init, TypeOK
<1>6. BasicInv
  BY <1>1, <1>5 DEF BasicInv, Init
<1>7. Range(todo) = {} /\ Range(spaces) = {}
  BY DEF Init, Range
<1>8. CallsInv
  BY <1>1, <1>7 DEF CallsInv, Growing, Init
<1>9. \A bare : Shape(mem, Roots, BigArea(layout), bare,
                      [p \in {} |-> 1], [p \in {} |-> 1], [p \in {} |-> 1])
  BY <1>1 DEF Shape
<1>10. TablesInv
  BY <1>1, <1>9 DEF TablesInv
<1>. QED
  BY <1>6, <1>8, <1>10 DEF PagingInv

-----------------------------------------------------------------------------
(* A new PML4: InitializePaging, CreateProcessPML4. *)

\* The finished address spaces.
LEMMA SpacesKnown ==
    ASSUME TypeOK
    PROVE  /\ Range(spaces) \subseteq Roots
           /\ \A k \in DOMAIN spaces : spaces[k] \in Range(spaces)
           /\ \A x \in Roots : Range(Append(spaces, x)) = Range(spaces) \cup {x}
<1>. PICK s \in Seq(Roots), n \in Nat : s = spaces /\ n = Len(s)
  BY DEF TypeOK
<1>1. DOMAIN s = 1 .. n /\ \A k \in 1 .. n : s[k] \in Roots
  OBVIOUS
<1>2. Range(s) \subseteq Roots /\ \A k \in DOMAIN s : s[k] \in Range(s)
  BY <1>1 DEF Range
<1>3. \A x \in Roots : Range(Append(s, x)) = Range(s) \cup {x}
  BY ONLY s \in Seq(Roots), AppendItems
<1>. QED
  BY <1>2, <1>3

LEMMA StartSpaceTypes ==
    ASSUME BasicInv, NEW calls \in Seq(Calls), next <= layout.last, StartSpace(calls)
    PROVE  /\ BasicInv'
           /\ next \notin DOMAIN mem /\ next \notin Roots /\ Roots' = Roots \cup {next}
           /\ next \in Nat
           /\ mem' = WithTable(mem, next) /\ next' = next + 1 /\ target' = next
           /\ todo' = calls /\ mode' = "map"
           /\ UNCHANGED <<layout, spaces, spoilt, stacks>>
           /\ wanted' = [r \in Roots \cup {next} |->
                            IF r = next THEN [v \in Virtual |-> NoPage] ELSE wanted[r]]
<1>0. TypeOK
  BY DEF BasicInv
<1>. PICK p \in Nat : p = next
  BY <1>0, LayoutType
<1>1. /\ mem' = WithTable(mem, p) /\ next' = p + 1 /\ target' = p /\ todo' = calls
      /\ mode' = "map" /\ layout' = layout /\ spaces' = spaces /\ spoilt' = spoilt
      /\ stacks' = stacks
  BY DEF StartSpace, WithRoot, AfterPage
<1>2. /\ DOMAIN mem \subseteq layout.first .. p - 1
      /\ mem \in [DOMAIN mem -> [Slots -> Entry]]
      /\ Roots \subseteq DOMAIN mem
      /\ layout.first \in Nat /\ layout.last \in Nat /\ layout.first <= p /\ p <= layout.last
  BY <1>0, LayoutType DEF TypeOK
<1>3. p \notin DOMAIN mem /\ p \notin Roots
  BY <1>2
<1>4. /\ DOMAIN mem' = DOMAIN mem \cup {p}
      /\ mem' \in [DOMAIN mem' -> [Slots -> Entry]]
      /\ DOMAIN mem' \subseteq layout.first .. p
  BY <1>1, <1>2, EmptyTyped DEF WithTable
<1>5. /\ Roots' = Roots \cup {p}
      /\ wanted' = [r \in Roots \cup {p} |->
                        IF r = p THEN [v \in Virtual |-> NoPage] ELSE wanted[r]]
      /\ wanted' \in [Roots' -> [Virtual -> Nat \cup {NoPage}]]
  <2>1. wanted' = [r \in Roots \cup {p} |->
                    IF r = p THEN [v \in Virtual |-> NoPage] ELSE wanted[r]]
    BY DEF StartSpace, Roots
  <2>2. wanted \in [Roots -> [Virtual -> Nat \cup {NoPage}]]
    BY <1>0 DEF TypeOK
  <2>. QED
    BY <2>1, <2>2 DEF Roots
<1>6. TypeOK'
  <2>1. layout' \in Layouts /\ next' \in layout'.first .. layout'.last + 1
    BY <1>0, <1>1, <1>2 DEF TypeOK
  <2>2. DOMAIN mem' \subseteq layout'.first .. next' - 1
    BY <1>1, <1>2, <1>4
  <2>3. spaces' \in Seq(Roots')
    BY <1>0, <1>1, <1>5 DEF TypeOK
  <2>4. Roots' \subseteq DOMAIN mem' /\ target' \in Roots' \cup {NoPage} /\ todo' \in Seq(Calls)
    BY <1>1, <1>2, <1>4, <1>5
  <2>5. /\ DOMAIN stacks' \subseteq Roots'
        /\ stacks' \in [DOMAIN stacks' -> layout'.first .. next' - 1]
    <3>1. stacks \in [DOMAIN stacks -> layout.first .. p - 1] /\ DOMAIN stacks \subseteq Roots
      BY <1>0 DEF TypeOK
    <3>2. layout.first .. p - 1 \subseteq layout'.first .. next' - 1
      BY <1>1, <1>2
    <3>. QED
      BY <1>1, <1>5, <3>1, <3>2
  <2>6. spoilt' \subseteq Nat /\ mode' \in {"boot", "map", "run", "panic", "damaged", "reset"}
    BY <1>0, <1>1 DEF TypeOK
  <2>. QED
    BY <1>4, <1>5, <2>1, <2>2, <2>3, <2>4, <2>5, <2>6 DEF TypeOK
<1>7. BasicInv'
  BY <1>1, <1>5, <1>6 DEF BasicInv
<1>. QED
  BY <1>1, <1>3, <1>5, <1>7

LEMMA StartSpaceStep ==
    ASSUME PagingInv, NEW calls, GoodCalls(layout, calls), mode # "damaged",
           next <= layout.last, StartSpace(calls), spaces # << >> => BigFirst(calls)
    PROVE  PagingInv'
<1>0. BasicInv /\ CallsInv /\ TablesInv /\ TypeOK /\ calls \in Seq(Calls)
  BY DEF PagingInv, BasicInv, GoodCalls
<1>1. /\ BasicInv'
      /\ next \notin DOMAIN mem /\ next \notin Roots /\ Roots' = Roots \cup {next}
      /\ next \in Nat
      /\ mem' = WithTable(mem, next) /\ next' = next + 1 /\ target' = next
      /\ todo' = calls /\ mode' = "map"
      /\ UNCHANGED <<layout, spaces, spoilt, stacks>>
      /\ wanted' = [r \in Roots \cup {next} |->
                       IF r = next THEN [v \in Virtual |-> NoPage] ELSE wanted[r]]
  BY <1>0, StartSpaceTypes, Zenon
<1>2. Range(spaces) \subseteq Roots
  BY <1>0, SpacesKnown
<1>3. /\ \A r \in Roots : wanted'[r] = wanted[r]
      /\ \A v \in Virtual : wanted'[next][v] = NoPage
  BY <1>1, Zenon
<1>4. CallsInv'
  <2>1. \A c \in Range(todo') : Fits(layout', c)
    BY <1>1 DEF GoodCalls
  <2>2. \A r \in Roots', v \in Virtual : wanted'[r][v] \in {NoPage, FrameOf(layout', v)}
    BY <1>0, <1>1, <1>3 DEF CallsInv
  <2>3. Growing' => BigFirst(todo')
    BY <1>1 DEF Growing
  <2>4. target' \notin Range(spaces')
    BY <1>1, <1>2
  <2>5. \A v \in Shared(layout') : \E c \in Range(todo') : v \in Asked(c)
    BY <1>1 DEF GoodCalls
  <2>6. \A r \in Range(spaces'), v \in Shared(layout') : wanted'[r][v] # NoPage
    BY <1>0, <1>1, <1>2, <1>3 DEF CallsInv
  <2>. QED
    BY <2>1, <2>2, <2>3, <2>4, <2>5, <2>6 DEF CallsInv
<1>5. WithNewRoot(mem, mem', Roots, BigArea(layout), Bare', next)
  <2>1. PICK level, owner, pos : Shape(mem, Roots, BigArea(layout), Bare, level, owner, pos)
    BY <1>0 DEF TablesInv
  <2>2. Bare' \subseteq {next}
    BY <1>1 DEF Bare
  <2>. QED
    BY <1>1, <2>1, <2>2, NewRoot, Zenon
<1>6. TablesInv'
  <2>1. \E level, owner, pos : Shape(mem', Roots', BigArea(layout'), Bare', level, owner, pos)
    BY <1>1, <1>5, Zenon DEF WithNewRoot
  <2>2. \A r \in Roots', v \in Virtual : Walk4(mem', r, v) = wanted'[r][v]
    <3>1. /\ \A w \in Virtual : Walk4(mem', next, w) = NoPage
          /\ \A x \in Roots, w \in Virtual : Walk4(mem', x, w) = Walk4(mem, x, w)
      BY <1>5, Zenon DEF WithNewRoot
    <3>2. \A r \in Roots, v \in Virtual : Walk4(mem, r, v) = wanted[r][v]
      BY <1>0, Zenon DEF TablesInv
    <3>3. Roots' = Roots \cup {next}
      BY <1>1, Zenon
    <3>. QED
      BY ONLY <1>3, <3>1, <3>2, <3>3
  <2>. QED
    BY <2>1, <2>2 DEF TablesInv
<1>. QED
  BY <1>1, <1>4, <1>6 DEF PagingInv

-----------------------------------------------------------------------------
(* MapMemory. *)

\* The call of MapMemory that is next, and those after it.
LEMMA NextCall ==
    ASSUME BasicInv, CallsInv, mode = "map", todo # << >>
    PROVE  /\ Head(todo) \in Calls /\ Fits(layout, Head(todo)) /\ Tail(todo) \in Seq(Calls)
           /\ Range(todo) = {Head(todo)} \cup Range(Tail(todo))
           /\ target \in Range(spaces) => Head(todo).size = "4K"
           /\ Growing => BigFirst(Tail(todo))
           /\ Growing /\ Head(todo).size = "4K" /\ Tail(todo) # << >>
                => Head(Tail(todo)).size = "4K"
<1>. PICK s \in Seq(Calls) : s = todo
  BY DEF BasicInv, TypeOK
<1>. PICK c, t : c = Head(s) /\ t = Tail(s)
  BY Zenon
<1>. PICK n \in Nat : n = Len(s)
  OBVIOUS
<1>1. /\ c \in Calls /\ t \in Seq(Calls) /\ Range(s) = {c} \cup Range(t)
      /\ Len(t) = n - 1 /\ n # 0 /\ c = s[1] /\ \A k \in 1 .. n - 1 : t[k] = s[k + 1]
  BY TailItems
<1>2. Fits(layout, c) /\ (target \in Range(spaces) => c.size = "4K")
  BY <1>1 DEF CallsInv
<1>3. DOMAIN s = 1 .. n /\ DOMAIN t = 1 .. n - 1
  BY <1>1
<1>4. ASSUME Growing PROVE BigFirst(t)
  <2>1. BigFirst(s)
    BY <1>4 DEF CallsInv
  <2>2. ASSUME NEW i \in 1 .. n - 1, NEW j \in 1 .. n - 1, i < j, t[i].size = "4K"
        PROVE  t[j].size = "4K"
    <3>1. i + 1 \in 1 .. n /\ j + 1 \in 1 .. n /\ i + 1 < j + 1
      BY <2>2
    <3>2. s[i + 1].size = "4K"
      BY <1>1, <2>2
    <3>3. s[j + 1].size = "4K"
      BY <1>3, <2>1, <3>1, <3>2 DEF BigFirst
    <3>. QED
      BY <1>1, <3>3
  <2>. QED
    BY <1>3, <2>2 DEF BigFirst
<1>5. ASSUME Growing, c.size = "4K", t # << >> PROVE Head(t).size = "4K"
  <2>1. BigFirst(s)
    BY <1>5 DEF CallsInv
  <2>2. 1 \in 1 .. n - 1 /\ Head(t) = t[1]
    BY <1>1, <1>5
  <2>3. t[1] = s[1 + 1] /\ 1 \in 1 .. n /\ 1 + 1 \in 1 .. n /\ 1 < 1 + 1
    BY <1>1, <2>2
  <2>4. s[1 + 1].size = "4K"
    BY <1>1, <1>3, <1>5, <2>1, <2>3 DEF BigFirst
  <2>. QED
    BY <2>2, <2>3, <2>4
<1>. QED
  BY <1>1, <1>2, <1>4, <1>5

\* A call is done, as far as what is asked for goes.
LEMMA CallDone ==
    ASSUME BasicInv, CallsInv, mode = "map", todo # << >>, NEW c, c = Head(todo),
           wanted' = WantedAfter(c), todo' = Tail(todo),
           UNCHANGED <<layout, spaces, target>>, mode' \in {"map", "damaged"}
    PROVE  /\ CallsInv'
           /\ Roots' = Roots /\ wanted' \in [Roots' -> [Virtual -> Nat \cup {NoPage}]]
           /\ \A r \in Roots, v \in Virtual :
                wanted'[r][v] = IF r = target /\ v \in Asked(c) THEN c.phys + (v - c.virt)
                                                              ELSE wanted[r][v]
<1>0. /\ c \in Calls /\ Fits(layout, c) /\ Tail(todo) \in Seq(Calls)
      /\ Range(todo) = {c} \cup Range(Tail(todo)) /\ (Growing => BigFirst(Tail(todo)))
  BY NextCall
<1>1. wanted \in [Roots -> [Virtual -> Nat \cup {NoPage}]] /\ target \in Roots /\ TypeOK
  BY DEF BasicInv, TypeOK
<1>2. \A v \in Asked(c) : c.phys + (v - c.virt) \in Nat
  <2>1. c.virt \in Nat /\ c.phys \in Nat /\ TwoMiB \in Nat
    BY <1>0, PagingAssumption DEF Calls, Virtual, TwoMiB
  <2>. QED
    BY <2>1 DEF Asked
<1>. DEFINE W == [v \in Virtual |-> IF v \in Asked(c) THEN c.phys + (v - c.virt)
                                                     ELSE wanted[target][v]]
<1>3. W \in [Virtual -> Nat \cup {NoPage}]
  BY <1>1, <1>2
<1>4. wanted' = [wanted EXCEPT ![target] = W]
  BY DEF WantedAfter
<1>5. \A v \in Virtual : W[v] = IF v \in Asked(c) THEN c.phys + (v - c.virt)
                                                  ELSE wanted[target][v]
  OBVIOUS
<1>. HIDE DEF W
<1>6. /\ Roots' = Roots /\ wanted' \in [Roots' -> [Virtual -> Nat \cup {NoPage}]]
      /\ wanted'[target] = W /\ \A r \in Roots : r # target => wanted'[r] = wanted[r]
  BY <1>1, <1>3, <1>4, Zenon DEF Roots
<1>7. \A r \in Roots, v \in Virtual :
        wanted'[r][v] = IF r = target /\ v \in Asked(c) THEN c.phys + (v - c.virt)
                                                      ELSE wanted[r][v]
  BY <1>5, <1>6
<1>8. \A r \in Roots, v \in Virtual : wanted[r][v] # NoPage => wanted'[r][v] # NoPage
  BY <1>2, <1>7, PagingAssumption
<1>9. layout \in Layouts /\ Shared(layout) \subseteq Virtual /\ Range(spaces) \subseteq Roots
  BY <1>1, SharedVirtual, SpacesKnown, Zenon DEF TypeOK
<1>10. \A r \in Roots', v \in Virtual : wanted'[r][v] \in {NoPage, FrameOf(layout', v)}
  <2>1. \A v \in Asked(c) : c.phys + (v - c.virt) = FrameOf(layout, v)
    BY <1>0 DEF Fits
  <2>2. \A r \in Roots, v \in Virtual : wanted[r][v] \in {NoPage, FrameOf(layout, v)}
    BY DEF CallsInv
  <2>. QED
    BY <1>6, <1>7, <2>1, <2>2
<1>11. ASSUME NEW v \in Shared(layout)
       PROVE  wanted'[target][v] # NoPage \/ \E x \in Range(todo') : v \in Asked(x)
  <2>1. wanted[target][v] # NoPage \/ \E x \in Range(todo) : v \in Asked(x)
    BY DEF CallsInv
  <2>2. v \in Asked(c) => wanted'[target][v] # NoPage
    BY <1>1, <1>2, <1>7, <1>9, PagingAssumption
  <2>. QED
    BY <1>0, <1>1, <1>8, <1>9, <2>1, <2>2
<1>12. \A r \in Range(spaces'), v \in Shared(layout') : wanted'[r][v] # NoPage
  <2>1. \A r \in Range(spaces), v \in Shared(layout) : wanted[r][v] # NoPage
    BY DEF CallsInv
  <2>. QED
    BY <1>8, <1>9, <2>1
<1>13. \A x \in Range(todo') : Fits(layout', x)
  BY <1>0 DEF CallsInv
<1>14. Growing' => BigFirst(todo')
  BY <1>0 DEF Growing
<1>15. mode' = "map" /\ target' \in Range(spaces') => \A x \in Range(todo') : x.size = "4K"
  BY <1>0, Zenon DEF CallsInv
<1>16. CallsInv'
  BY <1>10, <1>11, <1>12, <1>13, <1>14, <1>15 DEF CallsInv
<1>. QED
  BY <1>6, <1>7, <1>16

\* With each call the address space under way has at most what was not there.
LEMMA BareLess ==
    ASSUME BasicInv, CallsInv, mode = "map", todo # << >>, todo' = Tail(todo),
           UNCHANGED <<spaces, target>>, mode' = "map"
    PROVE  /\ Bare' \subseteq Bare /\ Growing' = Growing
           /\ Head(todo).size = "4K" => target \notin Bare
           /\ Growing /\ Head(todo).size = "2M" => target \in Bare
<1>1. Growing' <=> Growing
  BY DEF Growing
<1>2. Head(todo).size \in {"4K", "2M"} /\ Head(todo) \in Calls
  BY NextCall DEF Calls
<1>3. Bare' \subseteq Bare
  BY <1>1, <1>2, NextCall DEF Bare
<1>4. Growing /\ Head(todo).size = "2M" => target \in Bare
  BY DEF Bare
<1>5. "4K" # "2M"
  OBVIOUS
<1>6. Head(todo).size = "4K" => target \notin Bare
  BY <1>5 DEF Bare
<1>. QED
  BY <1>1, <1>3, <1>4, <1>6 DEF Growing

\* The tables after a call that does not go through a 2 MiB page.
LEMMA StoresTables ==
    ASSUME PagingInv, mode = "map", todo # << >>, NEW c, c = Head(todo),
           NEW s, s = ReachTable(c), ~ThroughBig(c)
    PROVE  /\ Typed(s, layout.first) /\ next <= s.next /\ DOMAIN mem \subseteq DOMAIN s.mem
           /\ s.at \in DOMAIN s.mem
           /\ StoredIn(s.mem, [s.mem EXCEPT ![s.at][StoreIndex(c)] = Stored(@, c)],
                       Roots, BigArea(layout), Bare, target, c)
           /\ Grown(AtRoot, s, Roots)
           /\ s.next = next \/ s.at = s.next - 1
           /\ Leads(s.mem, target, c.virt, IF c.size = "2M" THEN 2 ELSE 1, s.at)
<1>0. /\ BasicInv /\ CallsInv /\ TablesInv /\ TypeOK /\ target \in Roots
      /\ c \in Calls /\ Fits(layout, c)
  BY NextCall DEF PagingInv, BasicInv
<1>. PICK big, bare, roots : big = BigArea(layout) /\ bare = Bare /\ roots = Roots
  OBVIOUS
<1>. PICK r \in roots : r = target
  BY <1>0
<1>1. PICK level0, owner0, pos0 : Shape(mem, Roots, big, bare, level0, owner0, pos0)
  BY <1>0 DEF TablesInv
<1>2. c.size = "4K" => target \notin bare
  <2>1. "4K" # "2M"
    OBVIOUS
  <2>. QED
    BY <2>1 DEF Bare
<1>3. Arrived(s, c, big, bare)
  BY <1>0, <1>1, <1>2, Reached
<1>. PICK d : d = IF c.size = "2M" THEN 2 ELSE 1
  OBVIOUS
<1>4. /\ Holds(s, layout.first, Roots, big, bare, target, c.virt, d)
      /\ Grown(AtRoot, s, Roots)
      /\ s.next = next \/ s.at = s.next - 1
  BY <1>3 DEF Arrived
<1>5. next <= s.next /\ DOMAIN mem \subseteq DOMAIN s.mem
  BY <1>4 DEF Grown, AtRoot
<1>6. Typed(s, layout.first) /\ Leads(s.mem, target, c.virt, d, s.at)
  BY <1>4 DEF Holds
<1>7. PICK level, owner, pos :
        /\ Shape(s.mem, Roots, big, bare, level, owner, pos)
        /\ On(s.mem, level, owner, pos, s.at, d, target, c.virt)
  BY <1>4, Zenon DEF Holds
<1>8. s.at \in DOMAIN s.mem
  BY <1>7 DEF On
<1>9. StoredIn(s.mem, [s.mem EXCEPT ![s.at][StoreIndex(c)] = Stored(@, c)],
               roots, big, bare, r, c)
  <2>. PICK m, t : m = s.mem /\ t = s.at
    OBVIOUS
  <2>. PICK n : n = [m EXCEPT ![t][StoreIndex(c)] = Stored(@, c)]
    BY Zenon
  <2>1. m \in [DOMAIN m -> [Slots -> Entry]]
    BY <1>6, Zenon DEF Typed
  <2>2. Aligned(c) /\ (c.size = "2M" => Asked(c) \subseteq big)
    BY <1>0 DEF Fits
  <2>3. /\ Shape(m, roots, big, bare, level, owner, pos)
        /\ On(m, level, owner, pos, t, d, r, c.virt)
    BY <1>7, Zenon
  <2>4. Leads(m, r, c.virt, d, t)
    BY <1>6
  <2>5. StoredIn(m, n, roots, big, bare, r, c)
    BY ONLY Zenon, <1>0, <2>1, <2>2, <2>3, <2>4, d = IF c.size = "2M" THEN 2 ELSE 1, r \in roots,
            n = [m EXCEPT ![t][StoreIndex(c)] = Stored(@, c)], StoreMaps
  <2>. QED
    BY <2>5, Zenon
<1>. QED
  BY <1>4, <1>5, <1>6, <1>8, <1>9, Zenon

LEMMA MapMemoryStoresStep ==
    ASSUME PagingInv, mode = "map", todo # << >>, MapMemoryStores
    PROVE  PagingInv'
<1>0. BasicInv /\ CallsInv /\ TablesInv /\ TypeOK /\ target \in Roots
  BY DEF PagingInv, BasicInv
<1>a. PICK c \in Calls : c = Head(todo)
  BY <1>0, NextCall
<1>b. PICK s : s = ReachTable(c)
  OBVIOUS
<1>c. PICK n : n = [s.mem EXCEPT ![s.at][StoreIndex(c)] = Stored(@, c)]
  BY Zenon
<1>1. /\ ~(s.next > layout.last + 1) /\ ~ThroughBig(c) /\ mem' = n
      /\ next' = s.next /\ wanted' = WantedAfter(c) /\ todo' = Tail(todo)
      /\ layout' = layout /\ spaces' = spaces /\ target' = target /\ spoilt' = spoilt
      /\ stacks' = stacks /\ mode' = mode
  BY <1>a, <1>b, <1>c DEF MapMemoryStores, Exhausted
<1>d. PICK d \in 1 .. 4 : d = IF c.size = "2M" THEN 2 ELSE 1
  OBVIOUS
<1>2. /\ Typed(s, layout.first) /\ next <= s.next /\ DOMAIN mem \subseteq DOMAIN s.mem
      /\ s.at \in DOMAIN s.mem
      /\ StoredIn(s.mem, n, Roots, BigArea(layout), Bare, target, c)
      /\ Grown(AtRoot, s, Roots)
      /\ s.next = next \/ s.at = s.next - 1
      /\ Leads(s.mem, target, c.virt, d, s.at)
  BY <1>1, <1>a, <1>b, <1>c, <1>d, StoresTables, Zenon
<1>3. /\ CallsInv' /\ Roots' = Roots
      /\ wanted' \in [Roots' -> [Virtual -> Nat \cup {NoPage}]]
      /\ \A r \in Roots, v \in Virtual :
           wanted'[r][v] = IF r = target /\ v \in Asked(c) THEN c.phys + (v - c.virt)
                                                         ELSE wanted[r][v]
  BY <1>0, <1>1, <1>a, CallDone
<1>4. /\ Bare' \subseteq Bare /\ Growing' = Growing
      /\ c.size = "4K" => target \notin Bare
      /\ Growing /\ c.size = "2M" => target \in Bare
  BY <1>0, <1>1, <1>a, BareLess, Zenon
<1>5. /\ s.next \in Nat /\ DOMAIN s.mem \subseteq layout.first .. s.next - 1
  BY <1>2 DEF Typed
<1>6. /\ DOMAIN mem' = DOMAIN s.mem /\ mem' \in [DOMAIN mem' -> [Slots -> Entry]]
      /\ todo' \in Seq(Calls)
  <2>1. n \in [DOMAIN s.mem -> [Slots -> Entry]]
    BY <1>2, Zenon DEF StoredIn
  <2>2. Tail(todo) \in Seq(Calls)
    BY <1>0, NextCall
  <2>. QED
    BY <1>1, <2>1, <2>2
<1>7. TypeOK'
  <2>0. /\ layout.first \in Nat /\ layout.last \in Nat /\ next \in Nat /\ layout.first <= next
        /\ layout \in Layouts
    BY <1>0, LayoutType DEF TypeOK
  <2>a. /\ layout' = layout /\ next' = s.next /\ s.next \in Nat /\ next <= s.next
        /\ ~(s.next > layout.last + 1)
    BY <1>1, <1>2, <1>5, Zenon
  <2>1. layout' \in Layouts /\ next' \in layout'.first .. layout'.last + 1
    BY ONLY <2>0, <2>a
  <2>2. DOMAIN mem' \subseteq layout'.first .. next' - 1
    BY <1>1, <1>5, <1>6, Zenon
  <2>3. spaces' \in Seq(Roots') /\ target' \in Roots' \cup {NoPage}
    <3>1. spaces \in Seq(Roots)
      BY <1>0, Zenon DEF TypeOK
    <3>. QED
      BY <1>0, <1>1, <1>3, <3>1
  <2>4. Roots' \subseteq DOMAIN mem'
    BY <1>0, <1>2, <1>3, <1>6 DEF TypeOK
  <2>5. /\ DOMAIN stacks' \subseteq Roots'
        /\ stacks' \in [DOMAIN stacks' -> layout'.first .. next' - 1]
    <3>1. stacks \in [DOMAIN stacks -> layout.first .. next - 1] /\ DOMAIN stacks \subseteq Roots
      BY <1>0 DEF TypeOK
    <3>2. layout.first .. next - 1 \subseteq layout'.first .. next' - 1
      BY ONLY <2>0, <2>a
    <3>. QED
      BY <1>1, <1>3, <3>1, <3>2
  <2>6. spoilt' \subseteq Nat /\ mode' \in {"boot", "map", "run", "panic", "damaged", "reset"}
    BY <1>0, <1>1, Zenon DEF TypeOK
  <2>. QED
    BY <1>3, <1>6, <2>1, <2>2, <2>3, <2>4, <2>5, <2>6 DEF TypeOK
<1>8. BasicInv'
  BY <1>0, <1>1, <1>3, <1>7, Zenon DEF BasicInv
<1>9. TablesInv'
  <2>1. PICK level, owner, pos : Shape(n, Roots, BigArea(layout), Bare, level, owner, pos)
    BY <1>2, Zenon DEF StoredIn
  <2>2. Shape(n, Roots, BigArea(layout), Bare', level, owner, pos)
    BY <1>4, <2>1, LessBare
  <2>3. \E L, O, P : Shape(mem', Roots', BigArea(layout'), Bare', L, O, P)
    BY <1>1, <1>3, <2>2, Zenon
  <2>4. ASSUME NEW r \in Roots, NEW v \in Virtual PROVE Walk4(n, r, v) = wanted'[r][v]
    <3>1. Walk4(s.mem, r, v) = Walk4(mem, r, v)
      BY <1>2, Zenon DEF Grown, AtRoot
    <3>2. Walk4(mem, r, v) = wanted[r][v]
      BY <1>0 DEF TablesInv
    <3>3. Walk4(n, r, v) = IF r = target /\ v \in Asked(c) THEN c.phys + (v - c.virt)
                                                         ELSE Walk4(s.mem, r, v)
      BY <1>2, Zenon DEF StoredIn
    <3>. QED
      BY <1>3, <3>1, <3>2, <3>3
  <2>. QED
    BY <1>1, <1>3, <2>3, <2>4, Zenon DEF TablesInv
<1>. QED
  BY <1>3, <1>8, <1>9 DEF PagingInv

\* A call of MapMemory that goes through a 2 MiB page ends at an address, for a
\* page that is mapped.
LEMMA ThroughBigReach ==
    ASSUME TypeOK, target \in Roots, NEW big, NEW bare, NEW level, NEW owner, NEW pos,
           NEW c \in Calls, Shape(mem, Roots, big, bare, level, owner, pos), ThroughBig(c)
    PROVE  /\ ReachTable(c).at \in Nat
           /\ Walk4(mem, target, c.virt) \in Nat
           /\ c.size = "4K"
<1>. PICK v \in Virtual : v = c.virt
  BY DEF Calls
<1>. DEFINE Meets(p, l) == On(mem, level, owner, pos, p, l, target, v)
<1>a. ASSUME NEW p, NEW l \in 2 .. 4, Meets(p, l), NEW e, e = mem[p][Index(v, l)], e.present
      PROVE  (l > 2 => ~e.big) /\ (~e.big => Meets(e.addr, l - 1) /\ e.addr \in DOMAIN mem)
  <2>1. (e.big => l = 2) /\ (~e.big => Meets(e.addr, l - 1))
    BY ONLY <1>a, v \in Virtual, Shape(mem, Roots, big, bare, level, owner, pos), OnBelow, SMTT(20)
  <2>. QED
    BY <2>1 DEF On
<1>b. ASSUME NEW l, l = 4 PROVE Meets(target, l)
  BY <1>b, OnRoot
<1>. HIDE DEF Meets
<1>. DEFINE i4 == Index(v, 4)
            i3 == Index(v, 3)
            i2 == Index(v, 2)
<1>. PICK l4 \in 2 .. 4, l3 \in 2 .. 4, l2 \in 2 .. 4 :
        l4 = 4 /\ l3 = 3 /\ l2 = 2 /\ l4 > 2 /\ l3 > 2 /\ l4 - 1 = l3 /\ l3 - 1 = l2
  OBVIOUS
<1>1. i4 \in Slots /\ i3 \in Slots /\ i2 \in Slots
  BY CallIndices
<1>2. /\ c.size = "4K" /\ mem[target][i4].present
      /\ mem[mem[target][i4].addr][i3].present
      /\ mem[mem[mem[target][i4].addr][i3].addr][i2].big
  BY Zenon DEF ThroughBig
<1>3. ReachTable(c) = GetEntryNextLevel(GetEntryNextLevel(GetEntryNextLevel(
        [mem |-> mem, next |-> next, at |-> target], i4), i3), i2)
  BY <1>2, Zenon DEF ReachTable
<1>4. PICK p3 \in DOMAIN mem : p3 = mem[target][i4].addr /\ Meets(p3, l3)
  <2>. PICK e : e = mem[target][i4]
    OBVIOUS
  <2>1. Meets(target, l4) /\ e = mem[target][Index(v, l4)] /\ e.present
    BY <1>2, <1>b, Zenon
  <2>2. ~e.big /\ Meets(e.addr, l3) /\ e.addr \in DOMAIN mem
    BY <1>a, <2>1, Zenon
  <2>. QED
    BY <2>2, Zenon
<1>5. PICK p2 \in DOMAIN mem : p2 = mem[p3][i3].addr /\ Meets(p2, l2)
  <2>. PICK e : e = mem[p3][i3]
    OBVIOUS
  <2>1. Meets(p3, l3) /\ e = mem[p3][Index(v, l3)] /\ e.present
    BY <1>2, <1>4, Zenon
  <2>2. ~e.big /\ Meets(e.addr, l2) /\ e.addr \in DOMAIN mem
    BY <1>a, <2>1, Zenon
  <2>. QED
    BY <2>2, Zenon
<1>. HIDE DEF i4, i3, i2
<1>6. mem[p2][i2].present /\ mem[p2][i2].big
  <2>1. mem[p2][i2].big
    BY <1>2, <1>4, <1>5, Zenon
  <2>2. GoodEntry(mem, level, owner, pos, big, p2, i2, mem[p2][i2])
    BY <1>1 DEF Shape
  <2>. QED
    BY <2>1, <2>2, Zenon DEF GoodEntry
<1>7. mem[p2][i2].addr \in Nat
  BY <1>1 DEF TypeOK, Entry
<1>8. GetEntryNextLevel([mem |-> mem, next |-> next, at |-> target], i4)
        = [mem |-> mem, next |-> next, at |-> p3]
  BY <1>2, <1>4, Zenon DEF GetEntryNextLevel, HasNext
<1>9. GetEntryNextLevel([mem |-> mem, next |-> next, at |-> p3], i3)
        = [mem |-> mem, next |-> next, at |-> p2]
  BY <1>2, <1>4, <1>5, Zenon DEF GetEntryNextLevel, HasNext
<1>10. GetEntryNextLevel([mem |-> mem, next |-> next, at |-> p2], i2)
        = [mem |-> mem, next |-> next, at |-> mem[p2][i2].addr]
  BY <1>6 DEF GetEntryNextLevel, HasNext
<1>11. Walk4(mem, target, v) = mem[p2][i2].addr + (v % TwoMiB)
  <2>1. Walk4(mem, target, v) = Walk3(mem, p3, v)
    BY <1>2, <1>4, Zenon DEF Walk4, i4
  <2>2. Walk3(mem, p3, v) = Walk2(mem, p2, v)
    BY <1>2, <1>4, <1>5, Zenon DEF Walk3, i3
  <2>3. Walk2(mem, p2, v) = mem[p2][i2].addr + (v % TwoMiB)
    BY <1>6 DEF Walk2, i2
  <2>. QED
    BY <2>1, <2>2, <2>3, Zenon
<1>12. v % TwoMiB \in Nat
  <2>. PICK f \in Nat \ {0} : f = TwoMiB
    BY Sizes DEF TwoMiB
  <2>1. v \in Nat
    BY DEF Virtual
  <2>2. v % f \in 0 .. f - 1
    BY ONLY <2>1, f \in Nat \ {0}, Division
  <2>. QED
    BY <2>2
<1>13. ReachTable(c).at = mem[p2][i2].addr
  <2>1. ReachTable(c) = [mem |-> mem, next |-> next, at |-> mem[p2][i2].addr]
    BY <1>3, <1>8, <1>9, <1>10, Zenon
  <2>. QED
    BY ONLY <2>1
<1>14. Walk4(mem, target, c.virt) \in Nat
  BY <1>7, <1>11, <1>12
<1>. QED
  BY <1>2, <1>7, <1>13, <1>14, Zenon

LEMMA MapMemorySpoilsStep ==
    ASSUME PagingInv, mode = "map", todo # << >>, MapMemorySpoils
    PROVE  PagingInv'
<1>0. BasicInv /\ CallsInv /\ TablesInv /\ TypeOK /\ target \in Roots
  BY DEF PagingInv, BasicInv
<1>a. PICK c \in Calls : c = Head(todo) /\ Fits(layout, c)
  BY <1>0, NextCall
<1>1. PICK level, owner, pos : Shape(mem, Roots, BigArea(layout), Bare, level, owner, pos)
  BY <1>0 DEF TablesInv
<1>2. /\ ThroughBig(c) /\ spoilt' = spoilt \cup {ReachTable(c).at}
      /\ wanted' = WantedAfter(c) /\ todo' = Tail(todo)
      /\ layout' = layout /\ next' = next /\ mem' = mem /\ spaces' = spaces /\ target' = target
      /\ stacks' = stacks /\ mode' = mode
  BY <1>a DEF MapMemorySpoils
<1>3. ReachTable(c).at \in Nat /\ Walk4(mem, target, c.virt) \in Nat /\ c.size = "4K"
  BY <1>0, <1>1, <1>2, ThroughBigReach, Zenon
<1>4. /\ CallsInv' /\ Roots' = Roots
      /\ wanted' \in [Roots' -> [Virtual -> Nat \cup {NoPage}]]
      /\ \A r \in Roots, v \in Virtual :
           wanted'[r][v] = IF r = target /\ v \in Asked(c) THEN c.phys + (v - c.virt)
                                                         ELSE wanted[r][v]
  BY <1>0, <1>2, <1>a, CallDone
<1>5. Bare' \subseteq Bare /\ Growing' = Growing
  BY <1>0, <1>2, BareLess
<1>6. todo' \in Seq(Calls)
  BY <1>0, <1>2, NextCall
<1>7. spoilt' \subseteq Nat
  BY <1>0, <1>2, <1>3 DEF TypeOK
<1>8. TypeOK'
  BY <1>0, <1>2, <1>4, <1>6, <1>7 DEF TypeOK
<1>9. BasicInv'
  BY <1>0, <1>2, <1>4, <1>8, Zenon DEF BasicInv
<1>10. ASSUME NEW r \in Roots, NEW v \in Virtual PROVE wanted'[r][v] = wanted[r][v]
  <2>1. CASE r = target /\ v \in Asked(c)
    <3>1. v = c.virt /\ wanted'[r][v] = c.phys + (v - c.virt)
      BY <1>3, <1>4, <2>1, Zenon DEF Asked
    <3>2. wanted[r][v] # NoPage
      BY <1>0, <1>3, <2>1, <3>1, PagingAssumption, Zenon DEF TablesInv
    <3>3. wanted[r][v] = FrameOf(layout, v)
      BY <1>0, <3>2 DEF CallsInv
    <3>4. c.phys + (v - c.virt) = FrameOf(layout, v)
      BY <1>a, <2>1 DEF Fits
    <3>. QED
      BY <3>1, <3>3, <3>4, Zenon
  <2>2. CASE ~(r = target /\ v \in Asked(c))
    BY <1>4, <2>2
  <2>. QED
    BY <2>1, <2>2
<1>11. TablesInv'
  <2>1. Shape(mem, Roots, BigArea(layout), Bare', level, owner, pos)
    BY <1>1, <1>5, LessBare, Zenon
  <2>2. \A r \in Roots, v \in Virtual : Walk4(mem, r, v) = wanted'[r][v]
    BY <1>0, <1>10, Zenon DEF TablesInv
  <2>. QED
    BY <1>2, <1>4, <2>1, <2>2, Zenon DEF TablesInv
<1>. QED
  BY <1>4, <1>9, <1>11 DEF PagingInv

LEMMA MapMemoryDamagesStep ==
    ASSUME PagingInv, mode = "map", todo # << >>, MapMemoryDamages
    PROVE  PagingInv'
<1>0. BasicInv /\ CallsInv /\ TypeOK /\ target \in Roots
  BY DEF PagingInv, BasicInv
<1>a. PICK c \in Calls : c = Head(todo)
  BY <1>0, NextCall
<1>b. PICK i \in Slots : i = StoreIndex(c)
  BY CallIndices
<1>c. PICK t \in DOMAIN mem : t = ReachTable(c).at
  BY <1>a DEF MapMemoryDamages
<1>2. /\ mem' = [mem EXCEPT ![t][i] = Stored(@, c)]
      /\ wanted' = WantedAfter(c) /\ todo' = Tail(todo) /\ mode' = "damaged"
      /\ UNCHANGED <<layout, next, spaces, target, spoilt, stacks>>
  BY <1>a, <1>b, <1>c DEF MapMemoryDamages
<1>3. mem' \in [DOMAIN mem' -> [Slots -> Entry]] /\ DOMAIN mem' = DOMAIN mem
  <2>1. mem \in [DOMAIN mem -> [Slots -> Entry]]
    BY <1>0 DEF TypeOK
  <2>2. PICK e \in Entry : e = Stored(mem[t][i], c)
    BY <2>1, StoredType
  <2>3. mem' = [mem EXCEPT ![t][i] = e]
    BY <1>2, <2>1, <2>2
  <2>. QED
    BY <2>1, <2>3
<1>4. /\ CallsInv' /\ Roots' = Roots
      /\ wanted' \in [Roots' -> [Virtual -> Nat \cup {NoPage}]]
  BY <1>0, <1>2, <1>a, CallDone
<1>5. todo' \in Seq(Calls)
  BY <1>0, <1>2, NextCall
<1>6. TypeOK'
  BY <1>0, <1>2, <1>3, <1>4, <1>5 DEF TypeOK
<1>7. BasicInv'
  BY <1>0, <1>2, <1>6 DEF BasicInv
<1>8. TablesInv'
  BY <1>2 DEF TablesInv
<1>. QED
  BY <1>4, <1>7, <1>8 DEF PagingInv

\* Steps that leave the tables alone.
LEMMA SameTablesStep ==
    ASSUME PagingInv, mode # "damaged", UNCHANGED <<mem, wanted, layout, spoilt>>,
           next' = next \/ (next <= layout.last /\ next' = next + 1),
           spaces' \in Seq(Roots), target' \in Roots \cup {NoPage}, todo' \in Seq(Calls),
           DOMAIN stacks' \subseteq Roots,
           stacks' \in [DOMAIN stacks' -> layout.first .. next' - 1],
           mode' \in {"map", "run", "panic", "damaged", "reset"},
           mode' = "map" => target' \in Roots, ~Growing'
    PROVE  BasicInv' /\ TablesInv' /\ Roots' = Roots
<1>1. TypeOK /\ TablesInv /\ Roots' = Roots
  BY DEF PagingInv, BasicInv, Roots
<1>2. /\ layout.first \in Nat /\ layout.last \in Nat /\ next \in Nat
      /\ layout.first <= next /\ next <= layout.last + 1
  BY <1>1, LayoutType
<1>3. layout' \in Layouts /\ next' \in layout'.first .. layout'.last + 1
  BY <1>1, <1>2 DEF TypeOK
<1>4. DOMAIN mem' \subseteq layout'.first .. next' - 1
  <2>1. DOMAIN mem \subseteq layout.first .. next - 1
    BY <1>1 DEF TypeOK
  <2>2. layout.first .. next - 1 \subseteq layout'.first .. next' - 1
    BY <1>2
  <2>. QED
    BY <2>1, <2>2
<1>5. /\ mem' \in [DOMAIN mem' -> [Slots -> Entry]] /\ Roots' \subseteq DOMAIN mem'
      /\ wanted' \in [Roots' -> [Virtual -> Nat \cup {NoPage}]] /\ spoilt' \subseteq Nat
  BY <1>1 DEF TypeOK
<1>6. stacks' \in [DOMAIN stacks' -> layout'.first .. next' - 1]
  BY Zenon
<1>7. TypeOK'
  BY <1>1, <1>3, <1>4, <1>5, <1>6 DEF TypeOK
<1>8. BasicInv'
  BY <1>1, <1>7 DEF BasicInv
<1>9. Bare' \subseteq Bare
  BY DEF Bare
<1>10. PICK level, owner, pos : Shape(mem, Roots, BigArea(layout), Bare, level, owner, pos)
  BY <1>1 DEF TablesInv
<1>11. Shape(mem, Roots, BigArea(layout), Bare', level, owner, pos)
  BY <1>9, <1>10, LessBare
<1>12. \A r \in Roots, v \in Virtual : Walk4(mem, r, v) = wanted[r][v]
  BY <1>1 DEF TablesInv
<1>13. TablesInv'
  BY <1>1, <1>11, <1>12 DEF TablesInv
<1>. QED
  BY <1>1, <1>8, <1>13

\* The stacks that are handed out stay where they are.
LEMMA StacksStay ==
    ASSUME BasicInv, stacks' = stacks, spaces' = spaces, next' = next \/ next' = next + 1
    PROVE  /\ DOMAIN stacks' \subseteq Roots
           /\ stacks' \in [DOMAIN stacks' -> layout.first .. next' - 1]
<1>1. /\ stacks \in [DOMAIN stacks -> layout.first .. next - 1]
      /\ DOMAIN stacks \subseteq Roots
  BY DEF BasicInv, TypeOK
<1>2. layout.first .. next - 1 \subseteq layout.first .. next' - 1
  BY LayoutType DEF BasicInv
<1>. QED
  BY <1>1, <1>2

\* CreateDefaultMappings or CreateProcessPML4 done, and a page mapped: the calls
\* are made, so that the space has all the pages they share.
LEMMA NoCallsLeft ==
    ASSUME CallsInv, mode = "map", todo = << >>
    PROVE  \A v \in Shared(layout) : wanted[target][v] # NoPage
<1>1. Range(todo) = {}
  BY DEF Range
<1>. QED
  BY <1>1 DEF CallsInv

LEMMA CallsSettled ==
    ASSUME CallsInv, UNCHANGED <<wanted, layout, todo>>, mode' # "map",
           \A r \in Range(spaces'), v \in Shared(layout) : wanted[r][v] # NoPage
    PROVE  CallsInv'
<1>1. ~Growing'
  BY Zenon DEF Growing
<1>2. /\ \A c \in Range(todo') : Fits(layout', c)
      /\ \A r \in Roots', v \in Virtual : wanted'[r][v] \in {NoPage, FrameOf(layout', v)}
  BY DEF CallsInv, Roots
<1>. QED
  BY <1>1, <1>2, Zenon DEF CallsInv

\* Steps that only change the mode, and perhaps finish the kernel's PML4.
LEMMA ModeStep ==
    ASSUME PagingInv, mode # "damaged",
           UNCHANGED <<layout, next, mem, target, todo, wanted, spoilt, stacks>>,
           \/ spaces' = spaces
           \/ mode = "map" /\ todo = << >> /\ spaces = << >> /\ spaces' = <<target>>,
           mode' \in {"run", "panic", "damaged", "reset"}
    PROVE  PagingInv'
<1>0. BasicInv /\ TypeOK /\ CallsInv /\ spaces \in Seq(Roots)
  BY DEF PagingInv, BasicInv, TypeOK
<1>1. target' \in Roots \cup {NoPage} /\ todo' \in Seq(Calls) /\ ~Growing' /\ mode' # "map"
  BY <1>0 DEF TypeOK, Growing
<1>2. /\ DOMAIN stacks \subseteq Roots
      /\ stacks \in [DOMAIN stacks -> layout.first .. next - 1]
  BY <1>0 DEF BasicInv, TypeOK
<1>3. /\ spaces' \in Seq(Roots) /\ Range(spaces) \subseteq Range(spaces')
      /\ \A r \in Range(spaces'), v \in Shared(layout) : wanted[r][v] # NoPage
  <2>1. CASE spaces' = spaces
    BY <1>0, <2>1 DEF CallsInv
  <2>2. CASE mode = "map" /\ todo = << >> /\ spaces = << >> /\ spaces' = <<target>>
    <3>1. target \in Roots /\ spaces' \in Seq(Roots)
      BY <1>0, <2>2 DEF BasicInv
    <3>2. Range(spaces) = {} /\ Range(spaces') = {target}
      BY <2>2 DEF Range
    <3>. QED
      BY <1>0, <2>2, <3>1, <3>2, NoCallsLeft
  <2>. QED
    BY <2>1, <2>2, Zenon
<1>4. BasicInv' /\ TablesInv' /\ Roots' = Roots
  BY <1>1, <1>2, <1>3, SameTablesStep
<1>5. CallsInv'
  BY <1>0, <1>1, <1>3, CallsSettled
<1>. QED
  BY <1>4, <1>5, Zenon DEF PagingInv

\* CreateProcessPML4 done, with the stack.
LEMMA ProcessReadyStep ==
    ASSUME PagingInv, ProcessReady
    PROVE  PagingInv'
<1>0. /\ BasicInv /\ TypeOK /\ CallsInv /\ spaces \in Seq(Roots)
      /\ target \in Roots /\ mode = "map" /\ todo = << >> /\ spaces # << >>
      /\ target \notin Range(spaces)
      /\ UNCHANGED <<layout, mem, target, todo, wanted, spoilt>>
  BY DEF PagingInv, BasicInv, TypeOK, ProcessReady
<1>1. CASE /\ next <= layout.last /\ next' = AfterPage(next)
           /\ spaces' = Append(spaces, target) /\ mode' = "run"
           /\ stacks' = [r \in DOMAIN stacks \cup {target} |->
                            IF r = target THEN StackPage ELSE stacks[r]]
  <2>1. spaces' \in Seq(Roots) /\ next' = next + 1 /\ next <= layout.last /\ mode' # "map"
    <3>1. Append(spaces, target) \in Seq(Roots)
      BY ONLY <1>0
    <3>2. next' = next + 1 /\ next <= layout.last /\ mode' = "run"
      BY <1>1, Zenon DEF AfterPage
    <3>. QED
      BY ONLY <1>1, <3>1, <3>2
  <2>2. Range(spaces') = Range(spaces) \cup {target}
    BY <1>0, <1>1, SpacesKnown, Zenon
  <2>3. /\ DOMAIN stacks' = DOMAIN stacks \cup {target}
        /\ DOMAIN stacks' \subseteq Roots
    BY <1>0, <1>1, <2>2, Zenon DEF TypeOK, BasicInv
  <2>4. /\ stacks \in [DOMAIN stacks -> layout.first .. next - 1]
        /\ layout.first .. next - 1 \subseteq layout.first .. next' - 1
        /\ next \in layout.first .. next' - 1
    BY <1>0, <2>1, LayoutType, SMTT(20) DEF TypeOK
  <2>5. stacks' \in [DOMAIN stacks' -> layout.first .. next' - 1]
    BY <1>1, <2>3, <2>4, Zenon DEF StackPage
  <2>6. target' \in Roots \cup {NoPage} /\ todo' \in Seq(Calls) /\ ~Growing'
    BY <1>0, <2>1, Zenon DEF TypeOK, Growing
  <2>7. BasicInv' /\ TablesInv'
    BY <1>0, <1>1, <2>1, <2>3, <2>5, <2>6, SameTablesStep
  <2>8. \A r \in Range(spaces'), v \in Shared(layout) : wanted[r][v] # NoPage
    BY <1>0, <2>2, NoCallsLeft, Zenon DEF CallsInv
  <2>9. CallsInv'
    BY <1>0, <2>1, <2>8, CallsSettled
  <2>. QED
    BY <2>7, <2>9 DEF PagingInv
<1>2. CASE mode' = "panic" /\ UNCHANGED <<next, spaces, stacks>>
  BY <1>0, <1>2, ModeStep
<1>. QED
  BY <1>1, <1>2, Zenon DEF ProcessReady

\* A process asks for a page: it is mapped where it is.
LEMMA AllocatePageStep ==
    ASSUME PagingInv, AllocatePage
    PROVE  PagingInv'
<1>0. /\ BasicInv /\ TypeOK /\ CallsInv
      /\ mode = "run" /\ mode' = "map" /\ next <= layout.last /\ next' = next + 1
      /\ UNCHANGED <<layout, mem, spaces, wanted, spoilt, stacks>>
      /\ todo' = <<Call(next, next, "4K", TRUE)>>
  BY DEF PagingInv, BasicInv, AllocatePage, AfterPage
<1>1. spaces' \in Seq(Roots) /\ spaces \in Seq(Roots)
  BY <1>0, Zenon DEF TypeOK
<1>2. target' \in Roots /\ target' \in Range(spaces)
  <2>1. PICK k \in 2 .. Len(spaces) : target' = spaces[k]
    BY DEF AllocatePage
  <2>2. k \in DOMAIN spaces
    BY <1>1, <2>1
  <2>. QED
    BY <1>0, <1>1, <2>1, <2>2, SpacesKnown
<1>3. next \in Virtual /\ next \in Nat
  <2>1. PICK n \in Int : n = Fanout * SlotSize - 1
    BY PagingAssumption DEF SlotSize
  <2>2. next \in Nat /\ layout.last \in Nat /\ layout.last \in 0 .. n
    BY <1>0, <2>1, LayoutType DEF Virtual
  <2>. QED
    BY <1>0, <2>1, <2>2 DEF Virtual
<1>4. PICK c \in Calls : c = Call(next, next, "4K", TRUE) /\ c.size = "4K" /\ Fits(layout, c)
  <2>1. layout \in Layouts /\ layout.last < layout.hhdm /\ layout.last \in Nat /\ layout.hhdm \in Nat
    BY <1>0, LayoutFields, LayoutsHigherHalf DEF TypeOK
  <2>2. next < layout.hhdm
    BY <1>0, <1>3, <2>1
  <2>3. Call(next, next, "4K", TRUE) \in FitCalls(layout)
    BY <1>3, <2>1, <2>2, MemoryFits, Zenon
  <2>4. Call(next, next, "4K", TRUE) \in Calls /\ Call(next, next, "4K", TRUE).size = "4K"
    BY <1>3 DEF Call, Calls
  <2>. QED
    BY <2>3, <2>4, Zenon DEF FitCalls
<1>5. todo' \in Seq(Calls) /\ Range(todo') = {c}
  <2>1. todo' = <<c>>
    BY <1>0, <1>4
  <2>2. <<c>> \in Seq(Calls) /\ Range(<<c>>) = {c}
    BY DEF Range
  <2>. QED
    BY <2>1, <2>2
<1>6. /\ DOMAIN stacks' \subseteq Roots
      /\ stacks' \in [DOMAIN stacks' -> layout.first .. next' - 1]
  BY <1>0, StacksStay
<1>7. ~Growing'
  BY <1>0, <1>2, Zenon DEF Growing
<1>8. BasicInv' /\ TablesInv' /\ Roots' = Roots
  BY <1>0, <1>1, <1>2, <1>5, <1>6, <1>7, SameTablesStep
<1>9. CallsInv'
  <2>1. \A r \in Range(spaces), v \in Shared(layout) : wanted[r][v] # NoPage
    BY <1>0 DEF CallsInv
  <2>2. \A v \in Shared(layout) : wanted'[target'][v] # NoPage
    BY <1>0, <1>2, <2>1, Zenon
  <2>3. \A r \in Roots', v \in Virtual : wanted'[r][v] \in {NoPage, FrameOf(layout', v)}
    BY <1>0, <1>8 DEF CallsInv
  <2>4. \A d \in Range(todo') : Fits(layout', d) /\ d.size = "4K"
    BY <1>0, <1>4, <1>5, Zenon
  <2>. QED
    BY <1>0, <1>7, <2>1, <2>2, <2>3, <2>4, Zenon DEF CallsInv
<1>. QED
  BY <1>8, <1>9 DEF PagingInv

LEMMA PagingInvStep == PagingInv /\ [Next]_vars => PagingInv'
<1>. SUFFICES ASSUME PagingInv, [Next]_vars PROVE PagingInv'
  OBVIOUS
<1>0. /\ BasicInv /\ TypeOK /\ layout \in Layouts /\ spaces \in Seq(Roots)
      /\ mode \in {"boot", "map", "run", "panic", "damaged", "reset"}
  BY Zenon DEF PagingInv, BasicInv, TypeOK
<1>1. CASE InitializePaging
  <2>1. mode = "boot" /\ spaces = << >> /\ StartSpace(CreateDefaultMappings(layout))
    BY <1>0, <1>1 DEF InitializePaging, BasicInv
  <2>2. next <= layout.last
    BY <1>0, <2>1, LayoutType DEF BasicInv
  <2>3. GoodCalls(layout, CreateDefaultMappings(layout))
    BY <1>0, KernelCalls
  <2>. QED
    BY <2>1, <2>2, <2>3, StartSpaceStep
<1>2. CASE MapMemory
  <2>0. mode = "map" /\ todo # << >>
    BY <1>2 DEF MapMemory
  <2>1. CASE MapMemoryPanics
    BY <2>0, <2>1, ModeStep DEF MapMemoryPanics
  <2>2. CASE MapMemoryStores
    BY <2>0, <2>2, MapMemoryStoresStep
  <2>3. CASE MapMemorySpoils
    BY <2>0, <2>3, MapMemorySpoilsStep
  <2>4. CASE MapMemoryDamages
    BY <2>0, <2>4, MapMemoryDamagesStep
  <2>. QED
    BY <1>2, <2>1, <2>2, <2>3, <2>4 DEF MapMemory
<1>3. CASE LoadKernelPML4
  BY <1>3, ModeStep DEF LoadKernelPML4
<1>4. CASE \E inKernelCode \in BOOLEAN : CreateProcessPML4(inKernelCode)
  <2>1. PICK inKernelCode \in BOOLEAN : CreateProcessPML4(inKernelCode)
    BY <1>4
  <2>2. /\ mode # "damaged" /\ next <= layout.last
        /\ StartSpace(ProcessMappings(layout, inKernelCode))
    BY <2>1 DEF CreateProcessPML4
  <2>3. /\ GoodCalls(layout, ProcessMappings(layout, inKernelCode))
        /\ BigFirst(ProcessMappings(layout, inKernelCode))
    BY <1>0, ProcessCalls
  <2>. QED
    BY <2>2, <2>3, StartSpaceStep
<1>5. CASE ProcessReady
  BY <1>5, ProcessReadyStep
<1>6. CASE AllocatePage
  BY <1>6, AllocatePageStep
<1>7. CASE PageAllocated
  BY <1>7, ModeStep DEF PageAllocated
<1>8. CASE PageAllocPanics
  BY <1>8, ModeStep DEF PageAllocPanics
<1>9. CASE TaskPushes
  <2>1. mode' \in {"reset", "damaged"}
    BY <1>9 DEF TaskPushes
  <2>. QED
    BY <1>9, <2>1, ModeStep DEF TaskPushes
<1>10. CASE UNCHANGED vars
  <2>1. BasicInv'
    BY <1>0, <1>10 DEF BasicInv, TypeOK, Roots, vars
  <2>2. Roots' = Roots /\ Growing' = Growing /\ Bare' = Bare
    BY <1>10 DEF Roots, Growing, Bare, vars
  <2>3. CallsInv'
    BY <1>10, <2>2, Zenon DEF PagingInv, CallsInv, vars
  <2>4. TablesInv'
    BY <1>10, <2>2, Zenon DEF PagingInv, TablesInv, vars
  <2>. QED
    BY <2>1, <2>3, <2>4, Zenon DEF PagingInv
<1>. QED
  BY <1>1, <1>2, <1>3, <1>4, <1>5, <1>6, <1>7, <1>8, <1>9, <1>10 DEF Next, Stopped

-----------------------------------------------------------------------------
(* What the invariant says of the address spaces. *)

\* Tables of one level, all owned by r.
AllOwned(level, owner, tables, l, r) ==
    \A t \in tables : t \in DOMAIN mem /\ level[t] = l /\ owner[t] = r

LEMMA DownOwned ==
    ASSUME NEW big, NEW bare, NEW level, NEW owner, NEW pos,
           Shape(mem, Roots, big, bare, level, owner, pos), NEW r, NEW l \in 2 .. 4,
           NEW tables, AllOwned(level, owner, tables, l, r)
    PROVE  AllOwned(level, owner, Down(tables), l - 1, r)
<1>. SUFFICES ASSUME NEW t \in Down(tables)
              PROVE  t \in DOMAIN mem /\ level[t] = l - 1 /\ owner[t] = r
  BY Zenon DEF AllOwned
<1>1. PICK p \in tables, i \in Slots :
        mem[p][i].present /\ ~mem[p][i].big /\ t = mem[p][i].addr
  BY Zenon DEF Down
<1>2. p \in DOMAIN mem /\ level[p] = l /\ owner[p] = r /\ level[p] > 1
  BY DEF AllOwned
<1>3. GoodEntry(mem, level, owner, pos, big, p, i, mem[p][i])
  BY <1>2 DEF Shape
<1>4. t \in DOMAIN mem /\ Below(level, owner, pos, p, i, t)
  BY <1>1, <1>2, <1>3, Zenon DEF GoodEntry
<1>. QED
  BY <1>2, <1>4, Zenon DEF Below

\* All the tables under a PML4 are owned by it.
LEMMA TablesOwned ==
    ASSUME NEW big, NEW bare, NEW level, NEW owner, NEW pos,
           Shape(mem, Roots, big, bare, level, owner, pos), NEW r \in Roots
    PROVE  \A t \in TablesOf(r) : t \in DOMAIN mem /\ owner[t] = r
<1>. PICK l4 \in 2 .. 4, l3 \in 2 .. 4, l2 \in 2 .. 4 : l4 = 4 /\ l3 = 3 /\ l2 = 2
  OBVIOUS
<1>. DEFINE t3 == Down({r})
            t2 == Down(t3)
            t1 == Down(t2)
<1>1. AllOwned(level, owner, {r}, l4, r)
  BY DEF Shape, AllOwned
<1>2. AllOwned(level, owner, t3, l4 - 1, r)
  BY <1>1, DownOwned
<1>. HIDE DEF t3
<1>3. AllOwned(level, owner, t2, l3 - 1, r)
  <2>1. AllOwned(level, owner, t3, l3, r)
    BY <1>2
  <2>. QED
    BY <2>1, DownOwned
<1>. HIDE DEF t2
<1>4. AllOwned(level, owner, t1, l2 - 1, r)
  <2>1. AllOwned(level, owner, t2, l2, r)
    BY <1>3
  <2>. QED
    BY <2>1, DownOwned
<1>. QED
  BY <1>1, <1>2, <1>3, <1>4 DEF TablesOf, AllOwned, t3, t2, t1

LEMMA PrivateFromInv == PagingInv => TablesPrivate
<1>. SUFFICES ASSUME PagingInv, mode # "damaged", NEW r \in Roots, NEW s \in Roots, r # s
              PROVE  TablesOf(r) \cap TablesOf(s) = {}
  BY DEF TablesPrivate
<1>1. PICK level, owner, pos : Shape(mem, Roots, BigArea(layout), Bare, level, owner, pos)
  BY Zenon DEF PagingInv, TablesInv
<1>2. /\ \A t \in TablesOf(r) : owner[t] = r
      /\ \A t \in TablesOf(s) : owner[t] = s
  BY <1>1, TablesOwned, SMTT(20)
<1>. QED
  BY <1>2

LEMMA MapsFromInv == PagingInv => MapsAsAsked
<1>. SUFFICES ASSUME PagingInv, mode # "damaged", NEW r \in Roots, NEW v \in Virtual
              PROVE  Walk(r, v) = wanted[r][v]
  BY DEF MapsAsAsked
<1>1. PICK level, owner, pos : Shape(mem, Roots, BigArea(layout), Bare, level, owner, pos)
  BY DEF PagingInv, TablesInv
<1>2. Walk(r, v) = Walk4(mem, r, v)
  BY <1>1, WalkIs
<1>3. Walk4(mem, r, v) = wanted[r][v]
  BY DEF PagingInv, TablesInv
<1>. QED
  BY <1>2, <1>3

LEMMA KernelFromInv == PagingInv => KernelInEverySpace
<1>. SUFFICES ASSUME PagingInv, mode # "damaged", NEW k \in DOMAIN spaces, NEW v \in SharedPages
              PROVE  Walk(spaces[k], v) = Walk(spaces[1], v)
  BY Zenon DEF KernelInEverySpace
<1>0. BasicInv /\ TypeOK /\ CallsInv /\ layout \in Layouts /\ spaces \in Seq(Roots)
  BY DEF PagingInv, BasicInv, TypeOK
<1>1. v \in Shared(layout) /\ v \in Virtual
  <2>1. v \in Shared(layout)
    BY DEF SharedPages, Shared, BigArea
  <2>. QED
    BY <1>0, <2>1, SharedVirtual
<1>2. ASSUME NEW r \in Range(spaces) PROVE Walk(r, v) = FrameOf(layout, v)
  <2>1. r \in Roots
    BY <1>0, SpacesKnown, Zenon
  <2>2. wanted[r][v] = FrameOf(layout, v)
    BY <1>0, <1>1, <2>1 DEF CallsInv
  <2>3. Walk(r, v) = wanted[r][v]
    BY <1>1, <2>1, MapsFromInv DEF MapsAsAsked
  <2>. QED
    BY <2>2, <2>3
<1>3. 1 \in DOMAIN spaces
  BY <1>0
<1>4. spaces[k] \in Range(spaces) /\ spaces[1] \in Range(spaces)
  BY <1>0, <1>3, SpacesKnown
<1>. QED
  BY <1>2, <1>4

-----------------------------------------------------------------------------
\* The types of the tables, of what is handed out and of the calls under way
\* hold for every fan-out, memory layout and number of processes: whatever order
\* processes are created and pages asked for in, PageAlloc never hands out more
\* than it has and every PML4 is one of the tables it handed out.
THEOREM TypeCorrect == Spec => []TypeOK
<1>1. PagingInv => TypeOK
  BY DEF PagingInv, BasicInv
<1>. QED
  BY <1>1, PagingInvInit, PagingInvStep, PTL DEF Spec

\* For every fan-out, layout and order of calls, what the processor finds for a
\* page is what the last MapMemory for it in that address space asked for, and
\* nothing if there was none, whether the page is alone in its table, shares one
\* with others or lies in a 2 MiB page that was mapped before.
THEOREM SpacesMapAsAsked == Spec => []MapsAsAsked
  BY PagingInvInit, PagingInvStep, MapsFromInv, PTL DEF Spec

\* No call of MapMemory, for whichever address space, size and address, leaves
\* two address spaces with a table in common.
THEOREM SpacesPrivate == Spec => []TablesPrivate
  BY PagingInvInit, PagingInvStep, PrivateFromInv, PTL DEF Spec

\* Every address space CreateProcessPML4 made has the kernel's image and the
\* first GiB of memory where the kernel's own tables have them, and keeps them
\* there through every page the processes ask for later.
THEOREM KernelMappedEverywhere == Spec => []KernelInEverySpace
  BY PagingInvInit, PagingInvStep, KernelFromInv, PTL DEF Spec
=============================================================================
