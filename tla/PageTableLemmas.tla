-------------------------- MODULE PageTableLemmas --------------------------
(***************************************************************************)
(* Lemmas about the page tables of Paging: the indices of a page, the      *)
(* shape the tables keep, and what a store changes in the walks through    *)
(* them.                                                                   *)
(*                                                                         *)
(* Every table has a level, an owner (a PML4) and a page whose walk goes   *)
(* through it.  Entries above level 1 lead one level down, to a table of   *)
(* the same owner, whose page has this entry's index; so a walk meets a    *)
(* table only if its page has the same indices above the table's level.    *)
(***************************************************************************)
EXTENDS Paging, TLAPS

-----------------------------------------------------------------------------
(* Division. *)

LEMMA Products ==
    ASSUME NEW a \in Nat, NEW b \in Nat
    PROVE  a * b \in Nat /\ (a # 0 /\ b # 0 => a * b # 0)
  OBVIOUS

LEMMA TimesMonotone ==
    ASSUME NEW d \in Nat, NEW p \in Nat, NEW q \in Nat, q < p
    PROVE  d * q + d <= d * p
<1>1. PICK k \in Nat : p = q + 1 + k
  <2>1. p - q - 1 \in Nat /\ p = q + 1 + (p - q - 1)
    OBVIOUS
  <2>. QED
    BY <2>1
<1>2. d * p = d * q + d + d * k
  BY <1>1
<1>3. d * k \in Nat /\ d * q \in Nat
  BY Products
<1>. QED
  BY <1>2, <1>3

LEMMA Division ==
    ASSUME NEW a \in Nat, NEW d \in Nat \ {0}
    PROVE  /\ a \div d \in Nat /\ a % d \in 0 .. d - 1
           /\ a = d * (a \div d) + (a % d)
  OBVIOUS

LEMMA QuotientAndRest ==
    ASSUME NEW a \in Nat, NEW d \in Nat \ {0}
    PROVE  \E q \in Nat, r \in 0 .. d - 1 : q = a \div d /\ r = a % d /\ a = d * q + r
  BY Division

LEMMA DivisionUnique ==
    ASSUME NEW d \in Nat \ {0}, NEW p \in Nat, NEW t \in 0 .. d - 1, NEW a \in Nat,
           a = d * p + t
    PROVE  a \div d = p /\ a % d = t
<1>. PICK q \in Nat, r \in 0 .. d - 1 : q = a \div d /\ r = a % d /\ a = d * q + r
  BY Division
<1>0. d * p \in Nat /\ d * q \in Nat
  BY Products
<1>1. ~(q < p)
  <2>1. ASSUME q < p PROVE d * q + d <= d * p
    BY <2>1, TimesMonotone
  <2>. QED
    BY <1>0, <2>1
<1>2. ~(p < q)
  <2>1. ASSUME p < q PROVE d * p + d <= d * q
    BY <2>1, TimesMonotone
  <2>. QED
    BY <1>0, <2>1
<1>3. p = q
  BY <1>1, <1>2
<1>. QED
  BY <1>0, <1>3

LEMMA DivisionTwice ==
    ASSUME NEW a \in Nat, NEW m \in Nat \ {0}, NEW n \in Nat \ {0}
    PROVE  a \div (m * n) = (a \div m) \div n
<1>. PICK q \in Nat, r \in 0 .. m - 1 : q = a \div m /\ a = m * q + r
  BY Division
<1>. PICK p \in Nat, s \in 0 .. n - 1 : p = q \div n /\ q = n * p + s
  BY ONLY q \in Nat, n \in Nat \ {0}, Division
<1>. PICK d \in Nat \ {0} : d = m * n
  BY Products
<1>1. d = m * (n - 1) + m
  OBVIOUS
<1>2. m * s \in Nat /\ m * (n - 1) \in Nat
  BY Products
<1>3. m * s <= m * (n - 1)
  <2>1. CASE s = n - 1
    BY <2>1
  <2>2. CASE s < n - 1
    <3>1. m * s + m <= m * (n - 1)
      BY <2>2, TimesMonotone
    <3>. QED
      BY <1>2, <3>1
  <2>. QED
    BY <2>1, <2>2
<1>4. m * s + r \in 0 .. d - 1
  BY <1>1, <1>2, <1>3
<1>5. a = d * p + (m * s + r)
  <2>1. m * q = m * (n * p) + m * s
    <3>. PICK x \in Nat : x = n * p
      BY Products
    <3>. QED
      BY ONLY q = x + s, x = n * p, x \in Nat, s \in Nat, m \in Nat
  <2>2. m * (n * p) = d * p
    OBVIOUS
  <2>. QED
    BY <2>1, <2>2
<1>6. a \div d = p
  <2>. PICK t \in 0 .. d - 1 : t = m * s + r
    BY <1>4
  <2>1. a = d * p + t
    BY <1>5, Zenon
  <2>. QED
    BY ONLY <2>1, d \in Nat \ {0}, p \in Nat, t \in 0 .. d - 1, a \in Nat, DivisionUnique
<1>. QED
  BY <1>6
-----------------------------------------------------------------------------
(* The indices of a page. *)

LEMMA Sizes ==
    /\ Fanout \in Nat \ {0, 1}
    /\ OneGiB \in Nat \ {0} /\ SlotSize \in Nat \ {0}
    /\ OneGiB = Fanout * Fanout /\ SlotSize = OneGiB * Fanout
    /\ TwoMiB = Fanout
<1>1. Fanout \in Nat \ {0, 1}
  BY PagingAssumption
<1>2. Fanout * Fanout \in Nat \ {0}
  BY <1>1, Products
<1>3. (Fanout * Fanout) * Fanout \in Nat \ {0}
  BY <1>1, <1>2, Products
<1>. QED
  BY <1>1, <1>2, <1>3 DEF OneGiB, SlotSize, TwoMiB

LEMMA SpanDigits ==
    ASSUME NEW v \in Nat
    PROVE  /\ v \div OneGiB = (v \div Fanout) \div Fanout
           /\ v \div SlotSize = ((v \div Fanout) \div Fanout) \div Fanout
<1>. PICK f \in Nat \ {0} : f = Fanout
  BY Sizes
<1>. PICK g \in Nat \ {0} : g = OneGiB
  BY Sizes
<1>1. g = f * f /\ SlotSize = g * f
  BY Sizes
<1>2. v \div (f * f) = (v \div f) \div f
  BY ONLY v \in Nat, f \in Nat \ {0}, DivisionTwice, Zenon
<1>3. v \div (g * f) = (v \div g) \div f
  BY ONLY v \in Nat, f \in Nat \ {0}, g \in Nat \ {0}, DivisionTwice, Zenon
<1>. QED
  BY <1>1, <1>2, <1>3, Zenon

\* The index at a level is the last digit, to the base Fanout, of what is left of
\* the page's number when the digits of the levels below are taken off.
LEMMA IndexDigits ==
    ASSUME NEW v \in Nat
    PROVE  /\ Index(v, 1) = v % Fanout
           /\ Index(v, 2) = (v \div Fanout) % Fanout
           /\ Index(v, 3) = ((v \div Fanout) \div Fanout) % Fanout
           /\ Index(v, 4) = (((v \div Fanout) \div Fanout) \div Fanout) % Fanout
<1>. PICK f \in Nat \ {0, 1} : f = Fanout
  BY Sizes
<1>1. Span = <<1, f, OneGiB, SlotSize>>
  BY Sizes DEF Span
<1>2. v \div 1 = v
  OBVIOUS
<1>3. v \div OneGiB = (v \div f) \div f /\ v \div SlotSize = ((v \div f) \div f) \div f
  BY SpanDigits
<1>. QED
  BY <1>1, <1>2, <1>3 DEF Index

\* An index into a table.
LEMMA IndexInSlots ==
    ASSUME NEW v \in Nat, NEW level \in 1 .. 4
    PROVE  Index(v, level) \in Slots
<1>. PICK f \in Nat \ {0, 1} : f = Fanout
  BY Sizes
<1>1. \A a \in Nat : a % f \in 0 .. f - 1 /\ a \div f \in Nat
  BY Division, Zenon
<1>. PICK a \in Nat, b \in Nat, c \in Nat :
        a = v \div f /\ b = a \div f /\ c = b \div f
  BY <1>1, Zenon
<1>2. /\ Index(v, 1) = v % f /\ Index(v, 2) = a % f
      /\ Index(v, 3) = b % f /\ Index(v, 4) = c % f
  BY IndexDigits, Zenon
<1>3. /\ Index(v, 1) \in Slots /\ Index(v, 2) \in Slots
      /\ Index(v, 3) \in Slots /\ Index(v, 4) \in Slots
  BY <1>1, <1>2 DEF Slots
<1>. QED
  BY ONLY <1>3, level \in 1 .. 4

\* Two pages with the same indices above level 1 lie in the same 2 MiB, and with
\* the same index there, too, they are the same.
LEMMA IndicesTell ==
    ASSUME NEW v \in Virtual, NEW w \in Virtual,
           Index(v, 4) = Index(w, 4), Index(v, 3) = Index(w, 3), Index(v, 2) = Index(w, 2)
    PROVE  /\ v \div Fanout = w \div Fanout
           /\ Index(v, 1) = Index(w, 1) => v = w
<1>. PICK f \in Nat \ {0, 1} : f = Fanout
  BY Sizes
<1>. DEFINE d(x) == x \div f
<1>1. \A x \in Nat : x % f \in 0 .. f - 1 /\ d(x) \in Nat /\ x = f * d(x) + (x % f)
  BY Division
<1>2. \A x, y \in Nat : d(x) = d(y) /\ x % f = y % f => x = y
  BY <1>1
<1>3. v \in Nat /\ w \in Nat
  BY DEF Virtual
<1>4. ASSUME NEW x \in Virtual PROVE d(d(d(x))) \in 0 .. f - 1
  <2>. PICK z \in Nat \ {0} : z = SlotSize
    BY Sizes
  <2>0. x \in Nat
    BY DEF Virtual
  <2>1. x \in Nat /\ x <= f * z - 1 /\ f * z = z * f /\ z * f \in Nat
    BY Products DEF Virtual
  <2>2. x \div z = d(d(d(x)))
    BY <2>1, SpanDigits
  <2>3. PICK q \in Nat, r \in 0 .. z - 1 : q = x \div z /\ x = z * q + r
    BY ONLY <2>0, z \in Nat \ {0}, Division, Zenon
  <2>4. z * q \in Nat
    BY Products
  <2>5. ~(f < q) /\ q # f
    <3>1. ASSUME f < q PROVE z * f + z <= z * q
      BY ONLY <3>1, z \in Nat, f \in Nat, q \in Nat, TimesMonotone
    <3>2. z * q <= z * f - 1 /\ z * f \in Nat
      BY <2>1, <2>3, <2>4
    <3>. QED
      BY ONLY <3>1, <3>2, z \in Nat, f \in Nat, q \in Nat
  <2>6. q \in 0 .. f - 1
    BY ONLY <2>5, q \in Nat, f \in Nat
  <2>. QED
    BY <2>2, <2>3, <2>6
<1>5. PICK v1 \in Nat, v2 \in Nat, v3 \in 0 .. f - 1 : v1 = d(v) /\ v2 = d(v1) /\ v3 = d(v2)
  BY <1>1, <1>3, <1>4, Zenon
<1>6. PICK w1 \in Nat, w2 \in Nat, w3 \in 0 .. f - 1 : w1 = d(w) /\ w2 = d(w1) /\ w3 = d(w2)
  BY <1>1, <1>3, <1>4, Zenon
<1>7. /\ Index(v, 1) = v % f /\ Index(v, 2) = v1 % f
      /\ Index(v, 3) = v2 % f /\ Index(v, 4) = v3 % f
  BY <1>3, <1>5, IndexDigits, Zenon
<1>8. /\ Index(w, 1) = w % f /\ Index(w, 2) = w1 % f
      /\ Index(w, 3) = w2 % f /\ Index(w, 4) = w3 % f
  BY <1>3, <1>6, IndexDigits, Zenon
<1>9. v3 % f = v3 /\ w3 % f = w3
  OBVIOUS
<1>10. v3 = w3 /\ v2 % f = w2 % f /\ v1 % f = w1 % f
  BY <1>7, <1>8, <1>9
<1>11. v2 = w2
  BY <1>2, <1>5, <1>6, <1>10
<1>12. v1 = w1
  BY <1>2, <1>5, <1>6, <1>10, <1>11
<1>13. v % f = w % f => v = w
  BY <1>2, <1>3, <1>5, <1>6, <1>12, Zenon
<1>. QED
  BY <1>5, <1>6, <1>7, <1>8, <1>12, <1>13

-----------------------------------------------------------------------------
(* The shape of the tables. *)

\* Walks of v and w meet the same tables down to level l.
SamePath(v, w, l) == \A k \in l + 1 .. 4 : Index(v, k) = Index(w, k)

\* Table q is where entry i of table p leads.
Below(level, owner, pos, p, i, q) ==
    /\ level[q] = level[p] - 1
    /\ owner[q] = owner[p]
    /\ SamePath(pos[q], pos[p], level[p])
    /\ Index(pos[q], level[p]) = i

\* An entry of table p: 2 MiB pages lie in big, and links lead one level down.
GoodEntry(m, level, owner, pos, big, p, i, e) ==
    /\ e.big => e.present
    /\ level[p] > 1 /\ e.big =>
        /\ level[p] = 2
        /\ \A v \in Virtual : SamePath(v, pos[p], 2) /\ Index(v, 2) = i => v \in big
    /\ level[p] > 1 /\ e.present /\ ~e.big =>
        e.addr \in DOMAIN m /\ Below(level, owner, pos, p, i, e.addr)

\* Every table has a level, an owner and a page; the owners are the roots, and
\* those in bare have no tables of level 1.
Shape(m, roots, big, bare, level, owner, pos) ==
    /\ level \in [DOMAIN m -> 1 .. 4]
    /\ owner \in [DOMAIN m -> roots]
    /\ pos \in [DOMAIN m -> Virtual]
    /\ \A r \in roots : r \in DOMAIN m /\ level[r] = 4 /\ owner[r] = r
    /\ \A p \in DOMAIN m : owner[p] \in bare => level[p] # 1
    /\ \A p \in DOMAIN m, i \in Slots : GoodEntry(m, level, owner, pos, big, p, i, m[p][i])

LEMMA EmptyTyped ==
    /\ EmptyTable \in [Slots -> Entry]
    /\ \A i \in Slots : ~EmptyTable[i].present /\ ~EmptyTable[i].big
  BY DEF EmptyTable, Zeroed, Entry

\* A function on the tables of m, with the value x for table p.
With(m, p, f, x) == [q \in DOMAIN m \cup {p} |-> IF q = p THEN x ELSE f[q]]

\* A fresh table keeps the shape: below level 4 for an owner there is, or as the
\* PML4 of a new one.
LEMMA FreshTable ==
    ASSUME NEW m, NEW roots, NEW big, NEW bare, NEW level, NEW owner, NEW pos,
           Shape(m, roots, big, bare, level, owner, pos),
           NEW p, p \notin DOMAIN m, NEW R, NEW Bare,
           NEW l \in 1 .. 4, NEW o \in R, NEW v \in Virtual,
           \/ R = roots /\ l < 4
           \/ R = roots \cup {p} /\ l = 4 /\ o = p,
           \A q \in DOMAIN m : owner[q] \in Bare => level[q] # 1,
           o \in Bare => l # 1
    PROVE  Shape(WithTable(m, p), R, big, Bare,
                 With(m, p, level, l), With(m, p, owner, o), With(m, p, pos, v))
<1>. DEFINE L == With(m, p, level, l)
            O == With(m, p, owner, o)
            P == With(m, p, pos, v)
<1>0. /\ L \in [DOMAIN m \cup {p} -> 1 .. 4] /\ O \in [DOMAIN m \cup {p} -> R]
      /\ P \in [DOMAIN m \cup {p} -> Virtual]
      /\ \A q \in DOMAIN m : L[q] = level[q] /\ O[q] = owner[q] /\ P[q] = pos[q]
      /\ L[p] = l /\ O[p] = o /\ P[p] = v
  BY DEF Shape, With
<1>. HIDE DEF L, O, P
<1>. DEFINE n == WithTable(m, p)
<1>1. DOMAIN n = DOMAIN m \cup {p} /\ n[p] = EmptyTable /\ \A q \in DOMAIN m : n[q] = m[q]
  BY DEF WithTable
<1>. HIDE DEF n
<1>2. roots \subseteq DOMAIN m
  BY DEF Shape
<1>3. L \in [DOMAIN n -> 1 .. 4] /\ O \in [DOMAIN n -> R] /\ P \in [DOMAIN n -> Virtual]
  BY <1>0, <1>1
<1>4. \A x \in R : x \in DOMAIN n /\ L[x] = 4 /\ O[x] = x
  BY <1>0, <1>1, <1>2 DEF Shape
<1>5. ASSUME NEW q \in DOMAIN n, NEW i \in Slots
      PROVE  GoodEntry(n, L, O, P, big, q, i, n[q][i])
  <2>1. CASE q = p
    BY <1>1, <2>1, EmptyTyped DEF GoodEntry
  <2>2. CASE q \in DOMAIN m
    <3>1. n[q][i] = m[q][i] /\ L[q] = level[q] /\ O[q] = owner[q] /\ P[q] = pos[q]
      BY <1>0, <1>1, <2>2
    <3>2. PICK e : e = m[q][i]
      OBVIOUS
    <3>3. GoodEntry(m, level, owner, pos, big, q, i, e)
      BY <2>2, <3>2 DEF Shape
    <3>4. e.addr \in DOMAIN m =>
            /\ e.addr \in DOMAIN n
            /\ L[e.addr] = level[e.addr] /\ O[e.addr] = owner[e.addr] /\ P[e.addr] = pos[e.addr]
      BY <1>0, <1>1
    <3>. QED
      BY <3>1, <3>2, <3>3, <3>4 DEF GoodEntry, Below
  <2>. QED
    BY <1>1, <2>1, <2>2
<1>6. \A q \in DOMAIN n : O[q] \in Bare => L[q] # 1
  BY <1>0, <1>1
<1>7. Shape(n, R, big, Bare, L, O, P)
  BY <1>3, <1>4, <1>5, <1>6 DEF Shape
<1>. QED
  BY <1>7 DEF n, L, O, P

\* Storing an entry keeps the shape, if it is a good one.
LEMMA EntryStored ==
    ASSUME NEW m, NEW roots, NEW big, NEW bare, NEW level, NEW owner, NEW pos,
           NEW t \in DOMAIN m, NEW i \in Slots, NEW e \in Entry,
           m \in [DOMAIN m -> [Slots -> Entry]],
           Shape(m, roots, big, bare, level, owner, pos),
           GoodEntry(m, level, owner, pos, big, t, i, e)
    PROVE  /\ Shape([m EXCEPT ![t][i] = e], roots, big, bare, level, owner, pos)
           /\ [m EXCEPT ![t][i] = e] \in [DOMAIN m -> [Slots -> Entry]]
<1>. DEFINE n == [m EXCEPT ![t][i] = e]
<1>1. /\ DOMAIN n = DOMAIN m
      /\ n[t][i] = e
      /\ \A p \in DOMAIN m, j \in Slots : p # t \/ j # i => n[p][j] = m[p][j]
      /\ n \in [DOMAIN m -> [Slots -> Entry]]
  OBVIOUS
<1>. HIDE DEF n
<1>2. ASSUME NEW p \in DOMAIN n, NEW j \in Slots
      PROVE  GoodEntry(n, level, owner, pos, big, p, j, n[p][j])
  <2>1. CASE p = t /\ j = i
    BY <1>1, <2>1 DEF GoodEntry
  <2>2. CASE p # t \/ j # i
    <3>1. n[p][j] = m[p][j] /\ p \in DOMAIN m
      BY <1>1, <2>2
    <3>2. GoodEntry(m, level, owner, pos, big, p, j, m[p][j])
      BY <3>1 DEF Shape
    <3>. QED
      BY <1>1, <3>1, <3>2 DEF GoodEntry
  <2>. QED
    BY <2>1, <2>2
<1>3. Shape(n, roots, big, bare, level, owner, pos)
  BY <1>1, <1>2 DEF Shape
<1>. QED
  BY <1>1, <1>3 DEF n

-----------------------------------------------------------------------------
(* Walks. *)

\* The translation of v from a table of each level on.
Walk1(m, t, v) ==
    LET e == m[t][Index(v, 1)] IN IF e.present THEN e.addr ELSE NoPage
Walk2(m, t, v) ==
    LET e == m[t][Index(v, 2)]
    IN  IF ~e.present THEN NoPage
        ELSE IF e.big THEN e.addr + (v % TwoMiB)
        ELSE Walk1(m, e.addr, v)
Walk3(m, t, v) ==
    LET e == m[t][Index(v, 3)] IN IF e.present THEN Walk2(m, e.addr, v) ELSE NoPage
Walk4(m, t, v) ==
    LET e == m[t][Index(v, 4)] IN IF e.present THEN Walk3(m, e.addr, v) ELSE NoPage

\* The walk of v from root r may meet table t at level l.
On(m, level, owner, pos, t, l, r, v) ==
    t \in DOMAIN m /\ level[t] = l /\ owner[t] = r /\ SamePath(v, pos[t], l)

\* It starts at the root and goes one level down.
LEMMA OnRoot ==
    ASSUME NEW m, NEW roots, NEW big, NEW bare, NEW level, NEW owner, NEW pos,
           Shape(m, roots, big, bare, level, owner, pos), NEW r \in roots, NEW v
    PROVE  On(m, level, owner, pos, r, 4, r, v)
  BY DEF On, Shape, SamePath

LEMMA OnBelow ==
    ASSUME NEW m, NEW roots, NEW big, NEW bare, NEW level, NEW owner, NEW pos,
           Shape(m, roots, big, bare, level, owner, pos), NEW r, NEW v \in Virtual,
           NEW p, NEW l \in 2 .. 4, On(m, level, owner, pos, p, l, r, v),
           NEW e, e = m[p][Index(v, l)], e.present
    PROVE  /\ e.big => l = 2 /\ v \in big
           /\ ~e.big => On(m, level, owner, pos, e.addr, l - 1, r, v)
<1>1. p \in DOMAIN m /\ level[p] = l /\ owner[p] = r /\ SamePath(v, pos[p], l)
  BY DEF On
<1>2. PICK i \in Slots : i = Index(v, l)
  BY IndexInSlots DEF Virtual
<1>3. GoodEntry(m, level, owner, pos, big, p, i, e)
  BY <1>1, <1>2 DEF Shape
<1>4. ASSUME e.big PROVE l = 2 /\ v \in big
  <2>1. l = 2
    BY <1>1, <1>3, <1>4 DEF GoodEntry
  <2>2. SamePath(v, pos[p], 2) /\ Index(v, 2) = i
    BY <1>1, <1>2, <2>1
  <2>. QED
    BY <1>1, <1>3, <1>4, <2>1, <2>2 DEF GoodEntry
<1>5. ASSUME ~e.big PROVE On(m, level, owner, pos, e.addr, l - 1, r, v)
  <2>1. e.addr \in DOMAIN m /\ Below(level, owner, pos, p, i, e.addr)
    BY <1>1, <1>3, <1>5 DEF GoodEntry
  <2>2. /\ level[e.addr] = l - 1 /\ owner[e.addr] = r
        /\ SamePath(pos[e.addr], pos[p], l) /\ Index(pos[e.addr], l) = Index(v, l)
    BY <1>1, <1>2, <2>1 DEF Below
  <2>3. SamePath(v, pos[e.addr], l - 1)
    <3>. SUFFICES ASSUME NEW k \in (l - 1) + 1 .. 4 PROVE Index(v, k) = Index(pos[e.addr], k)
      BY DEF SamePath
    <3>1. k = l \/ k \in l + 1 .. 4
      OBVIOUS
    <3>. QED
      BY <1>1, <2>2, <3>1 DEF SamePath
  <2>. QED
    BY <2>1, <2>2, <2>3 DEF On
<1>. QED
  BY <1>4, <1>5

\* Memories m and n have the same entries on the walk of v from r, but n may have
\* an empty table where m has none.
SameEntries(m, n, level, owner, pos, r, v) ==
    \A p, l : l \in 1 .. 4 /\ On(m, level, owner, pos, p, l, r, v) =>
        LET d == m[p][Index(v, l)]
            e == n[p][Index(v, l)]
        IN  \/ e = d
            \/ /\ l > 1 /\ ~d.present /\ e.present /\ ~e.big
               /\ \A j \in Slots : ~n[e.addr][j].present

\* Then it is the same walk.
LEMMA WalkKept ==
    ASSUME NEW m, NEW roots, NEW big, NEW bare, NEW level, NEW owner, NEW pos,
           Shape(m, roots, big, bare, level, owner, pos),
           NEW r \in roots, NEW v \in Virtual, NEW n,
           SameEntries(m, n, level, owner, pos, r, v)
    PROVE  Walk4(n, r, v) = Walk4(m, r, v)
<1>. DEFINE Meets(p, l) == On(m, level, owner, pos, p, l, r, v)
<1>0. \A l \in 1 .. 4 : Index(v, l) \in Slots
  BY IndexInSlots DEF Virtual
<1>1. ASSUME NEW p, Meets(p, 1) PROVE Walk1(n, p, v) = Walk1(m, p, v)
  <2>1. n[p][Index(v, 1)] = m[p][Index(v, 1)]
    BY <1>1 DEF SameEntries
  <2>. QED
    BY <2>1 DEF Walk1
<1>2. ASSUME NEW p, Meets(p, 2) PROVE Walk2(n, p, v) = Walk2(m, p, v)
  <2>. PICK d, e : d = m[p][Index(v, 2)] /\ e = n[p][Index(v, 2)]
    OBVIOUS
  <2>1. CASE e = d
    <3>1. d.present /\ ~d.big => Meets(d.addr, 1)
      <4>. PICK l \in 2 .. 4 : l = 2
        OBVIOUS
      <4>1. d.present /\ ~d.big => Meets(d.addr, l - 1)
        BY <1>2, OnBelow, SMTT(20)
      <4>. QED
        BY <4>1
    <3>2. d.present /\ ~d.big => Walk1(n, d.addr, v) = Walk1(m, d.addr, v)
      BY <1>1, <3>1
    <3>. QED
      BY <2>1, <3>2 DEF Walk2
  <2>2. CASE ~d.present /\ e.present /\ ~e.big /\ \A j \in Slots : ~n[e.addr][j].present
    <3>1. Walk1(n, e.addr, v) = NoPage
      BY <1>0, <2>2 DEF Walk1
    <3>. QED
      BY <2>2, <3>1 DEF Walk2
  <2>. QED
    BY <1>2, <2>1, <2>2 DEF SameEntries
<1>3. ASSUME NEW p, Meets(p, 3) PROVE Walk3(n, p, v) = Walk3(m, p, v)
  <2>. PICK d, e : d = m[p][Index(v, 3)] /\ e = n[p][Index(v, 3)]
    OBVIOUS
  <2>1. CASE e = d
    <3>1. d.present => Meets(d.addr, 2)
      <4>. PICK l \in 2 .. 4 : l = 3
        OBVIOUS
      <4>1. d.present => (d.big => l = 2) /\ (~d.big => Meets(d.addr, l - 1))
        BY <1>3, OnBelow
      <4>. QED
        BY <4>1
    <3>2. d.present => Walk2(n, d.addr, v) = Walk2(m, d.addr, v)
      BY <1>2, <3>1
    <3>. QED
      BY <2>1, <3>2 DEF Walk3
  <2>2. CASE ~d.present /\ e.present /\ ~e.big /\ \A j \in Slots : ~n[e.addr][j].present
    <3>1. Walk2(n, e.addr, v) = NoPage
      BY <1>0, <2>2, SMTT(20) DEF Walk2
    <3>. QED
      BY <2>2, <3>1 DEF Walk3
  <2>. QED
    BY <1>3, <2>1, <2>2 DEF SameEntries
<1>4. ASSUME NEW p, Meets(p, 4) PROVE Walk4(n, p, v) = Walk4(m, p, v)
  <2>. PICK d, e : d = m[p][Index(v, 4)] /\ e = n[p][Index(v, 4)]
    OBVIOUS
  <2>1. CASE e = d
    <3>1. d.present => Meets(d.addr, 3)
      <4>. PICK l \in 2 .. 4 : l = 4
        OBVIOUS
      <4>1. d.present => (d.big => l = 2) /\ (~d.big => Meets(d.addr, l - 1))
        BY <1>4, OnBelow, SMTT(20)
      <4>. QED
        BY <4>1
    <3>2. d.present => Walk3(n, d.addr, v) = Walk3(m, d.addr, v)
      BY <1>3, <3>1
    <3>. QED
      BY <2>1, <3>2 DEF Walk4
  <2>2. CASE ~d.present /\ e.present /\ ~e.big /\ \A j \in Slots : ~n[e.addr][j].present
    <3>1. Walk3(n, e.addr, v) = NoPage
      BY <1>0, <2>2 DEF Walk3
    <3>. QED
      BY <2>2, <3>1 DEF Walk4
  <2>. QED
    BY <1>4, <2>1, <2>2, SMTT(20) DEF SameEntries
<1>. QED
  BY <1>4, OnRoot

\* The processor's walk is the one through the tables.
LEMMA WalkIs ==
    ASSUME NEW roots, NEW big, NEW bare, NEW level, NEW owner, NEW pos,
           Shape(mem, roots, big, bare, level, owner, pos), NEW r \in roots, NEW v \in Virtual
    PROVE  Walk(r, v) = Walk4(mem, r, v)
<1>. DEFINE Meets(p, l) == On(mem, level, owner, pos, p, l, r, v)
            e4 == At(r, Index(v, 4))
            e3 == At(e4.addr, Index(v, 3))
            e2 == At(e3.addr, Index(v, 2))
            e1 == At(e2.addr, Index(v, 1))
<1>. PICK l4 \in 2 .. 4, l3 \in 2 .. 4, l2 \in 2 .. 4 : l4 = 4 /\ l3 = 3 /\ l2 = 2
  OBVIOUS
<1>1. Meets(r, l4) /\ e4 = mem[r][Index(v, 4)]
  BY OnRoot DEF At, On
<1>2. e4.present => Meets(e4.addr, l3) /\ e3 = mem[e4.addr][Index(v, 3)]
  <2>1. e4.present => (e4.big => l4 = 2) /\ (~e4.big => Meets(e4.addr, l4 - 1))
    BY <1>1, OnBelow
  <2>2. e4.present => Meets(e4.addr, l3)
    BY <2>1
  <2>. QED
    BY <2>2 DEF At, On
<1>3. e4.present /\ e3.present => Meets(e3.addr, l2) /\ e2 = mem[e3.addr][Index(v, 2)]
  <2>1. e4.present /\ e3.present => (e3.big => l3 = 2) /\ (~e3.big => Meets(e3.addr, l3 - 1))
    BY <1>2, OnBelow, SMTT(20)
  <2>2. e4.present /\ e3.present => Meets(e3.addr, l2)
    BY <2>1
  <2>. QED
    BY <2>2, Zenon DEF At, On
<1>4. e4.present /\ e3.present /\ e2.present /\ ~e2.big => e1 = mem[e2.addr][Index(v, 1)]
  <2>1. e4.present /\ e3.present /\ e2.present /\ ~e2.big => Meets(e2.addr, l2 - 1)
    BY <1>3, OnBelow
  <2>. QED
    BY <2>1, Zenon DEF At, On
<1>5. Walk(r, v) = IF ~(e4.present /\ e3.present /\ e2.present) THEN NoPage
                   ELSE IF e2.big THEN e2.addr + (v % TwoMiB)
                   ELSE IF e1.present THEN e1.addr
                   ELSE NoPage
  BY DEF Walk
<1>. HIDE DEF e4, e3, e2, e1, Meets
<1>. QED
  BY <1>1, <1>2, <1>3, <1>4, <1>5, Zenon DEF Walk4, Walk3, Walk2, Walk1

-----------------------------------------------------------------------------
(* The table a walk leads to. *)

\* The entries of v from root r on lead to table t of level d.
LedBy(e4, e3, e2, r, d, t) ==
    \/ d = 4 /\ t = r
    \/ d = 3 /\ e4.present /\ t = e4.addr
    \/ d = 2 /\ e4.present /\ e3.present /\ t = e3.addr
    \/ d = 1 /\ e4.present /\ e3.present /\ e2.present /\ ~e2.big /\ t = e2.addr
Leads(m, r, v, d, t) ==
    LET e4 == m[r][Index(v, 4)]
        e3 == m[e4.addr][Index(v, 3)]
        e2 == m[e3.addr][Index(v, 2)]
    IN  LedBy(e4, e3, e2, r, d, t)

\* Where they lead on to.
LEMMA LeadsOn ==
    ASSUME NEW m, NEW r, NEW v, NEW d \in 2 .. 4, NEW t, Leads(m, r, v, d, t),
           m[t][Index(v, d)].present, d = 2 => ~m[t][Index(v, d)].big
    PROVE  Leads(m, r, v, d - 1, m[t][Index(v, d)].addr)
<1>1. PICK e4, e3, e2 : /\ e4 = m[r][Index(v, 4)] /\ e3 = m[e4.addr][Index(v, 3)]
                        /\ e2 = m[e3.addr][Index(v, 2)]
  BY Zenon
<1>2. PICK e : e = m[t][Index(v, d)] /\ e.present /\ (d = 2 => ~e.big)
  BY Zenon
<1>3. \/ d = 4 /\ t = r
      \/ d = 3 /\ e4.present /\ t = e4.addr
      \/ d = 2 /\ e4.present /\ e3.present /\ t = e3.addr
  <2>1. LedBy(e4, e3, e2, r, d, t)
    BY <1>1, Zenon DEF Leads
  <2>2. d # 1
    OBVIOUS
  <2>. QED
    BY <2>1, <2>2, Zenon DEF LedBy
<1>4. \/ d = 4 /\ e = e4
      \/ d = 3 /\ e4.present /\ e = e3
      \/ d = 2 /\ e4.present /\ e3.present /\ e = e2
  BY <1>1, <1>2, <1>3, Zenon
<1>5. \/ d - 1 = 3 /\ e4.present /\ e.addr = e4.addr
      \/ d - 1 = 2 /\ e4.present /\ e3.present /\ e.addr = e3.addr
      \/ d - 1 = 1 /\ e4.present /\ e3.present /\ e2.present /\ ~e2.big /\ e.addr = e2.addr
  BY ONLY <1>2, <1>4
<1>6. LedBy(e4, e3, e2, r, d - 1, e.addr)
  BY <1>5, Zenon DEF LedBy
<1>. QED
  BY <1>1, <1>2, <1>6, Zenon DEF Leads

\* A walk still leads where it led, if the links above are left alone.
SameLinks(m, n, level, owner, r, d) ==
    \A p \in DOMAIN m, j \in Slots :
        level[p] > d /\ owner[p] = r /\ m[p][j].present /\ ~m[p][j].big => n[p][j] = m[p][j]

LEMMA LeadsKept ==
    ASSUME NEW m, NEW roots, NEW big, NEW bare, NEW level, NEW owner, NEW pos,
           Shape(m, roots, big, bare, level, owner, pos),
           NEW r \in roots, NEW v \in Virtual, NEW n, NEW d \in 1 .. 4,
           SameLinks(m, n, level, owner, r, d), NEW t, Leads(m, r, v, d, t)
    PROVE  Leads(n, r, v, d, t)
<1>. DEFINE Meets(p, l) == On(m, level, owner, pos, p, l, r, v)
<1>a. PICK e4, e3, e2 : /\ e4 = m[r][Index(v, 4)] /\ e3 = m[e4.addr][Index(v, 3)]
                        /\ e2 = m[e3.addr][Index(v, 2)]
  BY Zenon
<1>0. ASSUME NEW l \in 1 .. 4 PROVE Index(v, l) \in Slots
  BY IndexInSlots DEF Virtual
<1>1. ASSUME NEW p, NEW l \in 2 .. 4, Meets(p, l), l > d, NEW e, e = m[p][Index(v, l)],
             e.present, l = 2 => ~e.big
      PROVE  n[p][Index(v, l)] = e /\ Meets(e.addr, l - 1)
  <2>1. ~e.big /\ Meets(e.addr, l - 1)
    BY <1>1, OnBelow, SMTT(20)
  <2>2. p \in DOMAIN m /\ level[p] = l /\ owner[p] = r /\ Index(v, l) \in Slots
    BY <1>0, <1>1 DEF On
  <2>. HIDE DEF Meets
  <2>. QED
    BY <1>1, <2>1, <2>2 DEF SameLinks
<1>2. ASSUME NEW l, l = 4 PROVE Meets(r, l)
  BY <1>2, OnRoot
<1>. HIDE DEF Meets
<1>3. ASSUME d < 4, e4.present PROVE n[r][Index(v, 4)] = e4 /\ Meets(e4.addr, 3)
  <2>. PICK l \in 2 .. 4 : l = 4
    OBVIOUS
  <2>1. /\ Meets(r, l) /\ l > d /\ (l = 2 => ~e4.big) /\ e4 = m[r][Index(v, l)]
        /\ l - 1 = 3
    BY <1>2, <1>3, <1>a, SMTT(20)
  <2>. QED
    BY <1>1, <1>3, <2>1
<1>4. ASSUME d < 3, e4.present, e3.present
      PROVE  n[e4.addr][Index(v, 3)] = e3 /\ Meets(e3.addr, 2)
  <2>. PICK l \in 2 .. 4 : l = 3
    OBVIOUS
  <2>1. d < 4 /\ l > d /\ (l = 2 => ~e3.big) /\ l - 1 = 2
    BY <1>4
  <2>2. Meets(e4.addr, l) /\ e3 = m[e4.addr][Index(v, l)]
    BY <1>3, <1>4, <1>a, <2>1, Zenon
  <2>. QED
    BY <1>1, <1>4, <2>1, <2>2
<1>5. ASSUME d < 2, e4.present, e3.present, e2.present, ~e2.big
      PROVE  n[e3.addr][Index(v, 2)] = e2
  <2>. PICK l \in 2 .. 4 : l = 2
    OBVIOUS
  <2>1. d < 3 /\ l > d
    BY <1>5
  <2>2. Meets(e3.addr, l) /\ e2 = m[e3.addr][Index(v, l)]
    BY <1>4, <1>5, <1>a, <2>1, Zenon
  <2>. QED
    BY <1>1, <1>5, <2>1, <2>2, Zenon
<1>6. LedBy(e4, e3, e2, r, d, t)
  BY <1>a, Zenon DEF Leads
<1>7. PICK f4, f3, f2 : /\ f4 = n[r][Index(v, 4)] /\ f3 = n[f4.addr][Index(v, 3)]
                        /\ f2 = n[f3.addr][Index(v, 2)]
  BY Zenon
<1>8. (d = 3 => d < 4) /\ (d = 2 => d < 4 /\ d < 3) /\ (d = 1 => d < 4 /\ d < 3 /\ d < 2)
  OBVIOUS
<1>9. LedBy(f4, f3, f2, r, d, t)
  BY <1>3, <1>4, <1>5, <1>6, <1>7, <1>8, Zenon DEF LedBy
<1>. QED
  BY <1>7, <1>9, Zenon DEF Leads

-----------------------------------------------------------------------------
(* The descent of MapMemory. *)

\* The tables at hand: s has the memory, the next page and a table.
Typed(s, first) ==
    /\ s = [mem |-> s.mem, next |-> s.next, at |-> s.at]
    /\ s.next \in Nat
    /\ first <= s.next
    /\ DOMAIN s.mem \subseteq first .. s.next - 1
    /\ s.mem \in [DOMAIN s.mem -> [Slots -> Entry]]

\* The table at hand is the one at level d that the entries of v from r lead to.
Holds(s, first, roots, big, bare, r, v, d) ==
    /\ Typed(s, first)
    /\ Leads(s.mem, r, v, d, s.at)
    /\ \E level, owner, pos :
        /\ Shape(s.mem, roots, big, bare, level, owner, pos)
        /\ On(s.mem, level, owner, pos, s.at, d, r, v)

\* From s to t tables were added, but no walk changed.
Grown(s, t, roots) ==
    /\ s.next <= t.next
    /\ DOMAIN s.mem \subseteq DOMAIN t.mem
    /\ \A x \in roots, w \in Virtual : Walk4(t.mem, x, w) = Walk4(s.mem, x, w)
    /\ \A x \in roots, w \in Virtual, k \in 1 .. 4 : \A q :
        Leads(s.mem, x, w, k, q) => Leads(t.mem, x, w, k, q)

LEMMA GrownTwice ==
    ASSUME NEW s, NEW t, NEW u, NEW roots, Grown(s, t, roots), Grown(t, u, roots),
           s.next \in Nat, t.next \in Nat, u.next \in Nat
    PROVE  Grown(s, u, roots)
<1>1. s.next <= u.next /\ DOMAIN s.mem \subseteq DOMAIN u.mem
  BY DEF Grown
<1>2. \A x \in roots, w \in Virtual : Walk4(u.mem, x, w) = Walk4(s.mem, x, w)
  BY Zenon DEF Grown
<1>3. \A x \in roots, w \in Virtual, k \in 1 .. 4 : \A q :
        Leads(s.mem, x, w, k, q) => Leads(u.mem, x, w, k, q)
  BY Zenon DEF Grown
<1>. QED
  BY <1>1, <1>2, <1>3 DEF Grown

\* t is one level down from s, by entry i, which led there or was empty.
OneDown(s, t, i, roots) ==
    /\ Grown(s, t, roots)
    /\ s.mem[s.at][i].present =>
         t.mem = s.mem /\ t.next = s.next /\ t.at = s.mem[s.at][i].addr
    /\ ~s.mem[s.at][i].present =>
         /\ t.at = t.next - 1
         /\ \A j \in Slots : ~t.mem[t.at][j].present /\ ~t.mem[t.at][j].big

\* In n, entry i of table t, which was empty in m, leads to the new table p.
Linked(m, n, roots, big, bare, r, v, d, t, i, p) ==
    /\ n \in [DOMAIN m \cup {p} -> [Slots -> Entry]]
    /\ \A q \in DOMAIN m, j \in Slots : q # t \/ j # i => n[q][j] = m[q][j]
    /\ n[t][i] = LinkTo(p)
    /\ n[p] = EmptyTable
    /\ \E L, O, P : Shape(n, roots, big, bare, L, O, P) /\ On(n, L, O, P, p, d - 1, r, v)

\* The table GetEntryNextLevel makes.
LEMMA LinkFresh ==
    ASSUME NEW m, NEW roots, NEW big, NEW bare, NEW level, NEW owner, NEW pos,
           m \in [DOMAIN m -> [Slots -> Entry]],
           Shape(m, roots, big, bare, level, owner, pos),
           NEW r, NEW v \in Virtual, NEW d \in 2 .. 4, NEW t,
           On(m, level, owner, pos, t, d, r, v),
           ~m[t][Index(v, d)].present, d = 2 => r \notin bare,
           NEW p \in Nat, p \notin DOMAIN m,
           NEW n, n = [WithTable(m, p) EXCEPT ![t][Index(v, d)] = LinkTo(p)]
    PROVE  Linked(m, n, roots, big, bare, r, v, d, t, Index(v, d), p)
<1>0. t \in DOMAIN m /\ level[t] = d /\ owner[t] = r /\ SamePath(v, pos[t], d) /\ t # p
  BY DEF On
<1>. PICK i \in Slots : i = Index(v, d)
  BY IndexInSlots DEF Virtual
<1>. DEFINE k == WithTable(m, p)
            L == With(m, p, level, d - 1)
            O == With(m, p, owner, r)
            P == With(m, p, pos, v)
<1>1. /\ k \in [DOMAIN m \cup {p} -> [Slots -> Entry]] /\ DOMAIN k = DOMAIN m \cup {p}
      /\ k[p] = EmptyTable /\ \A q \in DOMAIN m : k[q] = m[q]
  BY EmptyTyped DEF WithTable
<1>2. r \in roots
  BY <1>0 DEF Shape
<1>3. /\ L \in [DOMAIN m \cup {p} -> 1 .. 4] /\ O \in [DOMAIN m \cup {p} -> roots]
      /\ P \in [DOMAIN m \cup {p} -> Virtual]
      /\ \A q \in DOMAIN m : L[q] = level[q] /\ O[q] = owner[q] /\ P[q] = pos[q]
      /\ L[p] = d - 1 /\ O[p] = r /\ P[p] = v
  BY <1>2 DEF Shape, With
<1>4. Shape(k, roots, big, bare, L, O, P)
  <2>1. \A q \in DOMAIN m : owner[q] \in bare => level[q] # 1
    BY DEF Shape
  <2>2. d - 1 \in 1 .. 4 /\ d - 1 < 4 /\ (r \in bare => d - 1 # 1)
    OBVIOUS
  <2>. QED
    BY <1>2, <2>1, <2>2, FreshTable, Zenon
<1>. HIDE DEF k, L, O, P
<1>5. PICK e \in Entry : e = LinkTo(p) /\ e.present /\ ~e.big /\ e.addr = p
  <2>1. LinkTo(p) \in Entry /\ LinkTo(p).present /\ ~LinkTo(p).big /\ LinkTo(p).addr = p
    BY DEF LinkTo, Entry
  <2>. QED
    BY <2>1
<1>6. GoodEntry(k, L, O, P, big, t, i, e)
  <2>1. Below(L, O, P, t, i, p)
    BY <1>0, <1>3 DEF Below
  <2>. QED
    BY <1>1, <1>5, <2>1 DEF GoodEntry
<1>7. n = [k EXCEPT ![t][i] = e]
  BY <1>5 DEF k
<1>8. Shape(n, roots, big, bare, L, O, P) /\ n \in [DOMAIN k -> [Slots -> Entry]]
  <2>1. k \in [DOMAIN k -> [Slots -> Entry]] /\ t \in DOMAIN k
    BY <1>0, <1>1
  <2>. QED
    BY ONLY <1>4, <1>6, <1>7, <2>1, i \in Slots, e \in Entry, EntryStored, Zenon
<1>9. /\ \A q \in DOMAIN m, j \in Slots : q # t \/ j # i => n[q][j] = m[q][j]
      /\ n[t][i] = e /\ n[p] = EmptyTable /\ DOMAIN n = DOMAIN m \cup {p}
  BY <1>0, <1>1, <1>7
<1>10. On(n, L, O, P, p, d - 1, r, v)
  BY <1>3, <1>9 DEF On, SamePath
<1>. QED
  BY <1>1, <1>5, <1>8, <1>9, <1>10 DEF Linked

\* Linking it changes no walk, and leads nowhere else.
StoresLink(m, n, t, i, p) ==
    /\ \A q \in DOMAIN m, j \in Slots : q # t \/ j # i => n[q][j] = m[q][j]
    /\ n[t][i] = LinkTo(p)
    /\ n[p] = EmptyTable
WalksOn(m, n, roots) ==
    /\ \A x \in roots, w \in Virtual : Walk4(n, x, w) = Walk4(m, x, w)
    /\ \A x \in roots, w \in Virtual, k \in 1 .. 4 : \A q :
         Leads(m, x, w, k, q) => Leads(n, x, w, k, q)

LEMMA LinkKeeps ==
    ASSUME NEW m, NEW roots, NEW big, NEW bare, NEW level, NEW owner, NEW pos,
           Shape(m, roots, big, bare, level, owner, pos),
           NEW t, NEW i, ~m[t][i].present, level[t] > 1, NEW n, NEW p, StoresLink(m, n, t, i, p)
    PROVE  WalksOn(m, n, roots)
<1>0. /\ \A q \in DOMAIN m, j \in Slots : q # t \/ j # i => n[q][j] = m[q][j]
      /\ n[t][i] = LinkTo(p)
      /\ n[p] = EmptyTable
  BY Zenon DEF StoresLink
<1>1. LinkTo(p).present /\ ~LinkTo(p).big /\ LinkTo(p).addr = p
  BY DEF LinkTo
<1>2. \A j \in Slots : ~n[p][j].present
  BY <1>0, EmptyTyped
<1>3. ASSUME NEW x \in roots, NEW w \in Virtual PROVE Walk4(n, x, w) = Walk4(m, x, w)
  <2>1. ASSUME NEW q, NEW l \in 1 .. 4, On(m, level, owner, pos, q, l, x, w)
        PROVE  LET d == m[q][Index(w, l)]
                   e == n[q][Index(w, l)]
               IN  \/ e = d
                   \/ /\ l > 1 /\ ~d.present /\ e.present /\ ~e.big
                      /\ \A j \in Slots : ~n[e.addr][j].present
    <3>1. q \in DOMAIN m /\ level[q] = l /\ Index(w, l) \in Slots
      BY <2>1, IndexInSlots DEF On, Virtual
    <3>2. CASE q = t /\ Index(w, l) = i
      BY <1>0, <1>1, <1>2, <3>1, <3>2
    <3>3. CASE q # t \/ Index(w, l) # i
      BY <1>0, <3>1, <3>3
    <3>. QED
      BY <3>2, <3>3
  <2>2. SameEntries(m, n, level, owner, pos, x, w)
    BY <2>1, Zenon DEF SameEntries
  <2>. QED
    BY <2>2, WalkKept
<1>4. ASSUME NEW x \in roots, NEW w \in Virtual, NEW k \in 1 .. 4, NEW q, Leads(m, x, w, k, q)
      PROVE  Leads(n, x, w, k, q)
  <2>1. SameLinks(m, n, level, owner, x, k)
    BY <1>0 DEF SameLinks
  <2>. QED
    BY <1>4, <2>1, LeadsKept, Zenon
<1>. QED
  BY <1>3, <1>4, Zenon DEF WalksOn

\* GetEntryNextLevel, from an entry that maps no 2 MiB page, goes one level down
\* within the tables of one owner, making a table if there is none.
LEMMA Descend ==
    ASSUME NEW s, NEW first \in Nat, NEW roots, NEW big, NEW bare, NEW r, NEW v \in Virtual,
           NEW d \in 2 .. 4, Holds(s, first, roots, big, bare, r, v, d),
           d = 2 => ~s.mem[s.at][Index(v, d)].big /\ r \notin bare,
           NEW t, t = GetEntryNextLevel(s, Index(v, d))
    PROVE  Holds(t, first, roots, big, bare, r, v, d - 1) /\ OneDown(s, t, Index(v, d), roots)
<1>. PICK i \in Slots : i = Index(v, d)
  BY IndexInSlots DEF Virtual
<1>. PICK m, a : m = s.mem /\ a = s.at
  OBVIOUS
<1>1. Typed(s, first) /\ Leads(m, r, v, d, a)
  BY DEF Holds
<1>2. PICK level, owner, pos :
        Shape(m, roots, big, bare, level, owner, pos) /\ On(m, level, owner, pos, a, d, r, v)
  BY DEF Holds
<1>3. /\ s = [mem |-> m, next |-> s.next, at |-> a] /\ s.next \in Nat /\ first <= s.next
      /\ DOMAIN m \subseteq first .. s.next - 1 /\ m \in [DOMAIN m -> [Slots -> Entry]]
  BY <1>1 DEF Typed
<1>4. a \in DOMAIN m /\ level[a] = d /\ level[a] > 1
  BY <1>2 DEF On
<1>5. CASE m[a][i].present
  <2>1. t.mem = m /\ t.next = s.next /\ t.at = m[a][i].addr /\ Typed(t, first)
    BY <1>1, <1>3, <1>5 DEF GetEntryNextLevel, HasNext, Typed
  <2>2. On(m, level, owner, pos, m[a][i].addr, d - 1, r, v)
    BY <1>2, <1>5, OnBelow, Zenon
  <2>3. Leads(m, r, v, d - 1, m[a][i].addr)
    BY <1>1, <1>5, LeadsOn
  <2>4. Holds(t, first, roots, big, bare, r, v, d - 1)
    BY <1>2, <2>1, <2>2, <2>3, Zenon DEF Holds
  <2>5. Grown(s, t, roots)
    BY <1>3, <2>1 DEF Grown
  <2>. QED
    BY <1>5, <2>1, <2>4, <2>5, Zenon DEF OneDown
<1>6. CASE ~m[a][i].present
  <2>. PICK p \in Nat : p = s.next
    BY <1>3
  <2>. DEFINE n == [WithTable(m, p) EXCEPT ![a][i] = LinkTo(p)]
  <2>1. p \notin DOMAIN m /\ a # p
    BY <1>3, <1>4
  <2>2. t = [mem |-> WithTable([m EXCEPT ![a][i] = LinkTo(p)], p), next |-> p + 1, at |-> p]
    BY <1>6 DEF GetEntryNextLevel, HasNext, AfterPage
  <2>3. WithTable([m EXCEPT ![a][i] = LinkTo(p)], p) = n
    BY <1>3, <1>4, <2>1, Zenon DEF WithTable
  <2>4. t = [mem |-> n, next |-> p + 1, at |-> p]
    BY <2>2, <2>3
  <2>. HIDE DEF n
  <2>5. /\ n \in [DOMAIN m \cup {p} -> [Slots -> Entry]]
        /\ \A q \in DOMAIN m, j \in Slots : q # a \/ j # i => n[q][j] = m[q][j]
        /\ n[a][i] = LinkTo(p)
        /\ n[p] = EmptyTable
        /\ \E L, O, P : /\ Shape(n, roots, big, bare, L, O, P)
                        /\ On(n, L, O, P, p, d - 1, r, v)
    <3>1. n = [WithTable(m, p) EXCEPT ![a][Index(v, d)] = LinkTo(p)]
      BY DEF n
    <3>2. Linked(m, n, roots, big, bare, r, v, d, a, Index(v, d), p)
      <4>1. m \in [DOMAIN m -> [Slots -> Entry]]
        BY <1>3
      <4>2. ~m[a][Index(v, d)].present /\ (d = 2 => r \notin bare)
        BY <1>6
      <4>3. p \notin DOMAIN m
        BY <2>1
      <4>. QED
        BY ONLY <1>2, <3>1, <4>1, <4>2, <4>3, v \in Virtual, d \in 2 .. 4, p \in Nat, LinkFresh, Zenon
    <3>. QED
      BY <3>2 DEF Linked
  <2>6. /\ \A x \in roots, w \in Virtual : Walk4(n, x, w) = Walk4(m, x, w)
        /\ \A x \in roots, w \in Virtual, k \in 1 .. 4 : \A q :
             Leads(m, x, w, k, q) => Leads(n, x, w, k, q)
    <3>1. StoresLink(m, n, a, i, p)
      BY <2>5, Zenon DEF StoresLink
    <3>2. WalksOn(m, n, roots)
      BY <1>2, <1>4, <1>6, <3>1, LinkKeeps, Zenon
    <3>. QED
      BY <3>2, Zenon DEF WalksOn
  <2>7. t.mem = n /\ t.next = p + 1 /\ t.at = p /\ DOMAIN n = DOMAIN m \cup {p}
    BY <2>4, <2>5, SMTT(20)
  <2>8. Typed(t, first)
    BY <1>3, <2>4, <2>5, <2>7 DEF Typed
  <2>9. Leads(n, r, v, d - 1, p)
    <3>1. r \in roots
      BY <1>2 DEF On, Shape
    <3>2. Leads(n, r, v, d, a)
      BY <1>1, <2>6, <3>1
    <3>3. n[a][i].present /\ ~n[a][i].big /\ n[a][i].addr = p
      BY <2>5, SMTT(20) DEF LinkTo
    <3>. QED
      BY <3>2, <3>3, LeadsOn, Zenon
  <2>10. Holds(t, first, roots, big, bare, r, v, d - 1)
    BY <2>5, <2>7, <2>8, <2>9, Zenon DEF Holds
  <2>11. Grown(s, t, roots)
    BY <1>3, <2>6, <2>7 DEF Grown
  <2>12. \A j \in Slots : ~n[p][j].present /\ ~n[p][j].big
    BY <2>5, EmptyTyped
  <2>. QED
    BY <1>6, <2>7, <2>10, <2>11, <2>12, SMTT(20) DEF OneDown
<1>. QED
  BY <1>5, <1>6

\* The layout's pages.
LEMMA LayoutType ==
    ASSUME TypeOK
    PROVE  /\ layout.first \in Nat /\ layout.last \in Virtual /\ layout.last \in Nat
           /\ layout.first <= layout.last
           /\ next \in Nat /\ layout.first <= next /\ next <= layout.last + 1
<1>1. layout \in Layout /\ layout.first <= layout.last
  BY PagingAssumption DEF TypeOK
<1>2. layout.first \in Virtual /\ layout.last \in Virtual
  BY <1>1 DEF Layout
<1>3. Virtual \subseteq Nat
  BY DEF Virtual
<1>. QED
  BY <1>1, <1>2, <1>3 DEF TypeOK

\* The indices of a call.
LEMMA CallIndices ==
    ASSUME NEW c \in Calls
    PROVE  /\ Index(c.virt, 4) \in Slots /\ Index(c.virt, 3) \in Slots
           /\ Index(c.virt, 2) \in Slots /\ Index(c.virt, 1) \in Slots
           /\ StoreIndex(c) \in Slots
           /\ c.size \in {"4K", "2M"}
<1>1. c.virt \in Nat
  BY DEF Calls, Virtual
<1>2. \A l \in 1 .. 4 : Index(c.virt, l) \in Slots
  BY <1>1, IndexInSlots
<1>. QED
  BY <1>2 DEF StoreIndex, Calls

\* MapMemory before its descent.
AtRoot == [mem |-> mem, next |-> next, at |-> target]

\* s is what the descent for call c ends with: the table at level 2 or 1, as the
\* page size asks, that the entries of the page lead to.
Arrived(s, c, big, bare) ==
    /\ Holds(s, layout.first, Roots, big, bare, target, c.virt, IF c.size = "2M" THEN 2 ELSE 1)
    /\ Grown(AtRoot, s, Roots)
    /\ s.next = next \/ s.at = s.next - 1

\* The descent of MapMemory, unless it goes through a 2 MiB page, ends there.
LEMMA Reached ==
    ASSUME TypeOK, target \in Roots, NEW big, NEW bare, NEW level, NEW owner, NEW pos,
           NEW c \in Calls, Shape(mem, Roots, big, bare, level, owner, pos),
           ~ThroughBig(c), c.size = "4K" => target \notin bare
    PROVE  Arrived(ReachTable(c), c, big, bare)
<1>. PICK v \in Virtual : v = c.virt
  BY DEF Calls
<1>. PICK first \in Nat : first = layout.first
  BY LayoutType
<1>. PICK d4 \in 2 .. 4, d3 \in 2 .. 4, d2 \in 2 .. 4 : d4 = 4 /\ d3 = 3 /\ d2 = 2
  OBVIOUS
<1>. DEFINE H(s, d) == Holds(s, first, Roots, big, bare, target, v, d)
<1>a. PICK s0 : s0 = AtRoot
  OBVIOUS
<1>b. PICK s1 : s1 = GetEntryNextLevel(s0, Index(v, d4))
  OBVIOUS
<1>c. PICK s2 : s2 = GetEntryNextLevel(s1, Index(v, d3))
  OBVIOUS
<1>d. PICK s3 : s3 = GetEntryNextLevel(s2, Index(v, d2))
  OBVIOUS
<1>0. \A l \in 1 .. 4 : Index(v, l) \in Slots
  BY IndexInSlots DEF Virtual
<1>1. s0.next = next /\ s0.mem = mem /\ s0.at = target
      /\ s0 = [mem |-> s0.mem, next |-> s0.next, at |-> s0.at]
  BY <1>a DEF AtRoot
<1>2. H(s0, d4)
  <2>1. Typed(s0, first)
    BY <1>1, LayoutType DEF TypeOK, Typed
  <2>2. On(mem, level, owner, pos, target, d4, target, v)
    BY OnRoot
  <2>3. Leads(mem, target, v, d4, target)
    BY DEF Leads, LedBy
  <2>. QED
    BY <1>1, <2>1, <2>2, <2>3 DEF Holds
<1>3. H(s1, d4 - 1) /\ OneDown(s0, s1, Index(v, d4), Roots)
  <2>1. d4 = 2 => ~s0.mem[s0.at][Index(v, d4)].big /\ target \notin bare
    BY SMTT(20)
  <2>. QED
    BY <1>2, <1>b, <2>1, Descend
<1>4. H(s1, d3)
  BY <1>3
<1>5. H(s2, d3 - 1) /\ OneDown(s1, s2, Index(v, d3), Roots)
  <2>1. d3 = 2 => ~s1.mem[s1.at][Index(v, d3)].big /\ target \notin bare
    BY SMTT(20)
  <2>. QED
    BY <1>4, <1>c, <2>1, Descend
<1>6. H(s2, d2)
  BY <1>5
<1>7. Grown(s0, s1, Roots) /\ Grown(s1, s2, Roots)
  BY <1>3, <1>5, Zenon DEF OneDown
<1>8. s0.next \in Nat /\ s1.next \in Nat /\ s2.next \in Nat
  BY <1>2, <1>4, <1>6 DEF Holds, Typed
<1>9. Grown(s0, s2, Roots)
  BY <1>7, <1>8, GrownTwice
<1>10. /\ s0.mem[s0.at][Index(v, 4)].present =>
            s1.mem = s0.mem /\ s1.next = s0.next /\ s1.at = s0.mem[s0.at][Index(v, 4)].addr
       /\ ~s0.mem[s0.at][Index(v, 4)].present =>
            /\ s1.at = s1.next - 1
            /\ \A j \in Slots : ~s1.mem[s1.at][j].present /\ ~s1.mem[s1.at][j].big
  BY <1>3, Zenon DEF OneDown
<1>11. /\ s1.mem[s1.at][Index(v, 3)].present =>
            s2.mem = s1.mem /\ s2.next = s1.next /\ s2.at = s1.mem[s1.at][Index(v, 3)].addr
       /\ ~s1.mem[s1.at][Index(v, 3)].present =>
            /\ s2.at = s2.next - 1
            /\ \A j \in Slots : ~s2.mem[s2.at][j].present /\ ~s2.mem[s2.at][j].big
  BY <1>5, Zenon DEF OneDown
<1>12. s2.next = next \/ s2.at = s2.next - 1
  BY <1>0, <1>1, <1>10, <1>11, SMTT(20)
<1>13. CASE c.size = "2M"
  <2>1. ReachTable(c) = s2
    BY <1>13, <1>a, <1>b, <1>c DEF ReachTable, AtRoot
  <2>2. H(s2, IF c.size = "2M" THEN 2 ELSE 1)
    BY <1>6, <1>13
  <2>. QED
    BY <1>9, <1>12, <1>a, <2>1, <2>2 DEF Arrived
<1>14. CASE c.size # "2M"
  <2>0. c.size = "4K"
    BY <1>14 DEF Calls
  <2>1. ReachTable(c) = s3
    BY <1>14, <1>a, <1>b, <1>c, <1>d DEF ReachTable, AtRoot
  <2>2. ~s2.mem[s2.at][Index(v, 2)].big
    <3>1. CASE s1.mem[s1.at][Index(v, 3)].present /\ mem[target][Index(v, 4)].present
      <4>1. s2.mem = mem /\ s2.at = mem[mem[target][Index(v, 4)].addr][Index(v, 3)].addr
        BY <1>1, <1>10, <1>11, <3>1
      <4>2. mem[mem[target][Index(v, 4)].addr][Index(v, 3)].present
        BY <1>1, <1>10, <3>1
      <4>. QED
        BY <2>0, <3>1, <4>1, <4>2, Zenon DEF ThroughBig
    <3>2. CASE s1.mem[s1.at][Index(v, 3)].present /\ ~mem[target][Index(v, 4)].present
      BY <1>0, <1>1, <1>10, <3>2
    <3>3. CASE ~s1.mem[s1.at][Index(v, 3)].present
      BY <1>0, <1>11, <3>3, SMTT(20)
    <3>. QED
      BY <3>1, <3>2, <3>3
  <2>3. H(s3, d2 - 1) /\ OneDown(s2, s3, Index(v, d2), Roots)
    BY <1>6, <1>d, <2>0, <2>2, Descend, Zenon
  <2>4. Grown(s2, s3, Roots)
    BY <2>3 DEF OneDown
  <2>5. H(s3, IF c.size = "2M" THEN 2 ELSE 1)
    BY <1>14, <2>3
  <2>6. s3.next \in Nat
    BY <2>3 DEF Holds, Typed
  <2>7. Grown(s0, s3, Roots)
    BY <1>8, <1>9, <2>4, <2>6, GrownTwice
  <2>8. /\ s2.mem[s2.at][Index(v, 2)].present => s3.next = s2.next
        /\ s2.mem[s2.at][Index(v, 2)].present => s3.mem = s2.mem
        /\ ~s2.mem[s2.at][Index(v, 2)].present => s3.at = s3.next - 1
    BY <2>3, Zenon DEF OneDown
  <2>9. s3.next = next \/ s3.at = s3.next - 1
    BY <1>0, <1>1, <1>10, <1>11, <2>8, SMTT(20)
  <2>. QED
    BY <1>a, <2>1, <2>5, <2>7, <2>9 DEF Arrived
<1>. QED
  BY <1>13, <1>14

-----------------------------------------------------------------------------
(* The last store of MapMemory. *)

LEMMA StoredType ==
    ASSUME NEW e \in Entry, NEW c \in Calls
    PROVE  /\ Stored(e, c) \in Entry /\ Stored(e, c).present /\ Stored(e, c).addr = c.phys
           /\ c.size = "2M" => Stored(e, c).big
  BY Zenon DEF Entry, Calls, Stored

\* The pages of a call are those with its indices, down to the level of its size.
Aligned(c) == c.size = "2M" => c.virt % TwoMiB = 0
LEMMA AskedIndices ==
    ASSUME NEW c \in Calls, Aligned(c), NEW w \in Virtual,
           NEW d, d = IF c.size = "2M" THEN 2 ELSE 1
    PROVE  /\ w \in Asked(c) <=> SamePath(w, c.virt, d) /\ Index(w, d) = Index(c.virt, d)
           /\ w \in Asked(c) => w - c.virt = IF c.size = "2M" THEN w % TwoMiB ELSE 0
<1>. PICK v \in Virtual : v = c.virt
  BY DEF Calls
<1>. PICK f \in Nat \ {0} : f = Fanout
  BY Sizes
<1>0. v \in Nat /\ w \in Nat
  BY DEF Virtual
<1>1. CASE c.size = "2M"
  <2>1. Asked(c) = v .. v + f - 1 /\ d = 2 /\ v % f = 0
    BY <1>1 DEF Asked, TwoMiB, Aligned
  <2>2. PICK p \in Nat : p = v \div f /\ v = f * p
    <3>1. PICK p \in Nat, z \in 0 .. f - 1 : p = v \div f /\ z = v % f /\ v = f * p + z
      BY ONLY <1>0, f \in Nat \ {0}, QuotientAndRest, Zenon
    <3>2. z = 0 /\ f * p \in Nat
      BY <2>1, <3>1, Products, Zenon
    <3>. QED
      BY <3>1, <3>2
  <2>3. PICK q \in Nat, t \in 0 .. f - 1 : q = w \div f /\ t = w % f /\ w = f * q + t
    BY ONLY <1>0, f \in Nat \ {0}, QuotientAndRest, Zenon
  <2>4. ASSUME SamePath(w, v, 2), Index(w, 2) = Index(v, 2) PROVE w \in Asked(c)
    <3>1. Index(w, 4) = Index(v, 4) /\ Index(w, 3) = Index(v, 3)
      BY <2>4 DEF SamePath
    <3>2. w \div Fanout = v \div Fanout
      BY <2>4, <3>1, IndicesTell
    <3>3. p = q /\ w = v + t
      BY <2>2, <2>3, <3>2
    <3>. QED
      BY <1>0, <2>1, <3>3
  <2>5. ASSUME w \in Asked(c)
        PROVE  SamePath(w, v, 2) /\ Index(w, 2) = Index(v, 2) /\ w - v = w % f
    <3>1. PICK u \in 0 .. f - 1 : w = v + u
      <4>1. w - v \in 0 .. f - 1 /\ w = v + (w - v)
        BY <1>0, <2>1, <2>5
      <4>. QED
        BY <4>1
    <3>2. w = f * p + u
      BY <2>2, <3>1
    <3>3. w \div f = p /\ w % f = u
      BY ONLY <1>0, <3>2, f \in Nat \ {0}, p \in Nat, u \in 0 .. f - 1, DivisionUnique
    <3>4. Index(w, 4) = Index(v, 4) /\ Index(w, 3) = Index(v, 3) /\ Index(w, 2) = Index(v, 2)
      <4>1. w \div Fanout = v \div Fanout
        BY <2>2, <3>3
      <4>. PICK x : x = v \div Fanout
        OBVIOUS
      <4>2. /\ Index(v, 2) = x % Fanout /\ Index(v, 3) = (x \div Fanout) % Fanout
            /\ Index(v, 4) = ((x \div Fanout) \div Fanout) % Fanout
        BY <1>0, IndexDigits, Zenon
      <4>3. /\ Index(w, 2) = x % Fanout /\ Index(w, 3) = (x \div Fanout) % Fanout
            /\ Index(w, 4) = ((x \div Fanout) \div Fanout) % Fanout
        BY <1>0, <4>1, IndexDigits, Zenon
      <4>. QED
        BY <4>2, <4>3, Zenon
    <3>5. SamePath(w, v, 2)
      <4>1. 2 + 1 .. 4 = {3, 4}
        OBVIOUS
      <4>. QED
        BY <3>4, <4>1 DEF SamePath
    <3>. QED
      BY <1>0, <3>1, <3>3, <3>4, <3>5
  <2>. QED
    BY <1>1, <2>1, <2>4, <2>5 DEF TwoMiB
<1>2. CASE c.size # "2M"
  <2>1. Asked(c) = {v} /\ d = 1
    BY <1>2 DEF Asked
  <2>2. ASSUME SamePath(w, v, 1), Index(w, 1) = Index(v, 1) PROVE w = v
    <3>1. Index(w, 4) = Index(v, 4) /\ Index(w, 3) = Index(v, 3) /\ Index(w, 2) = Index(v, 2)
      BY <2>2 DEF SamePath
    <3>. QED
      BY <2>2, <3>1, IndicesTell
  <2>3. SamePath(v, v, 1) /\ v - v = 0
    BY <1>0 DEF SamePath
  <2>. QED
    BY <1>2, <2>1, <2>2, <2>3
<1>. QED
  BY <1>1, <1>2

\* A walk down to t goes on there.
LEMMA WalkFrom ==
    ASSUME NEW m, NEW r, NEW v, NEW t
    PROVE  /\ Leads(m, r, v, 2, t) => Walk4(m, r, v) = Walk2(m, t, v)
           /\ Leads(m, r, v, 1, t) => Walk4(m, r, v) = Walk1(m, t, v)
<1>. DEFINE e4 == m[r][Index(v, 4)]
            e3 == m[e4.addr][Index(v, 3)]
            e2 == m[e3.addr][Index(v, 2)]
<1>0. \A d \in 1 .. 2 : Leads(m, r, v, d, t) =>
        /\ e4.present /\ e3.present
        /\ d = 2 => t = e3.addr
        /\ d = 1 => e2.present /\ ~e2.big /\ t = e2.addr
  <2>1. \A d \in 1 .. 2 : d # 4 /\ d # 3 /\ (d = 1 => d # 2)
    OBVIOUS
  <2>. QED
    BY <2>1, Zenon DEF Leads, LedBy
<1>3. e4.present /\ e3.present => Walk4(m, r, v) = Walk2(m, e3.addr, v)
  BY DEF Walk4, Walk3
<1>4. e2.present /\ ~e2.big => Walk2(m, e3.addr, v) = Walk1(m, e2.addr, v)
  BY Zenon DEF Walk2
<1>5. 1 \in 1 .. 2 /\ 2 \in 1 .. 2
  OBVIOUS
<1>. HIDE DEF e4, e3, e2
<1>. QED
  BY <1>0, <1>3, <1>4, <1>5, Zenon

LEMMA LeadsSamePath ==
    ASSUME NEW m, NEW r, NEW v, NEW w, NEW t, NEW d \in {1, 2}, Leads(m, r, v, d, t),
           SamePath(w, v, d)
    PROVE  Leads(m, r, w, d, t)
<1>1. Index(w, 4) = Index(v, 4) /\ Index(w, 3) = Index(v, 3) /\ (d = 1 => Index(w, 2) = Index(v, 2))
  BY DEF SamePath
<1>2. CASE d = 1
  BY <1>1, <1>2, Zenon DEF Leads, LedBy
<1>3. CASE d = 2
  <2>1. d # 1 /\ d # 3 /\ d # 4
    BY <1>3
  <2>. QED
    BY <1>1, <1>3, <2>1, Zenon DEF Leads, LedBy
<1>. QED
  BY <1>2, <1>3

\* What the store makes of the tables: the pages of the call are mapped as it
\* asks, and no other page is mapped otherwise than before.
StoredIn(m, n, roots, big, bare, r, c) ==
    /\ n \in [DOMAIN m -> [Slots -> Entry]]
    /\ \E level, owner, pos : Shape(n, roots, big, bare, level, owner, pos)
    /\ \A x \in roots, w \in Virtual :
        Walk4(n, x, w) = IF x = r /\ w \in Asked(c) THEN c.phys + (w - c.virt)
                                                   ELSE Walk4(m, x, w)
    /\ \A x \in roots, w \in Virtual, k \in 1 .. 4 : \A q :
        /\ Leads(m, x, w, k, q)
        /\ c.size = "2M" /\ x = r => r \in bare
        => Leads(n, x, w, k, q)

LEMMA StoreMaps ==
    ASSUME NEW m, NEW roots, NEW big, NEW bare, NEW level, NEW owner, NEW pos,
           m \in [DOMAIN m -> [Slots -> Entry]],
           Shape(m, roots, big, bare, level, owner, pos),
           NEW r \in roots, NEW c \in Calls, Aligned(c), c.size = "2M" => Asked(c) \subseteq big,
           NEW t, NEW d, d = IF c.size = "2M" THEN 2 ELSE 1,
           On(m, level, owner, pos, t, d, r, c.virt), Leads(m, r, c.virt, d, t),
           NEW n, n = [m EXCEPT ![t][StoreIndex(c)] = Stored(@, c)]
    PROVE  StoredIn(m, n, roots, big, bare, r, c)
<1>. PICK v \in Virtual : v = c.virt
  BY DEF Calls
<1>0. c.size \in {"4K", "2M"} /\ d \in 1 .. 4 /\ d \in {1, 2}
  BY DEF Calls
<1>. PICK i \in Slots : i = StoreIndex(c)
  BY CallIndices
<1>1. i = Index(v, d)
  BY <1>0 DEF StoreIndex
<1>2. t \in DOMAIN m /\ level[t] = d /\ owner[t] = r /\ SamePath(v, pos[t], d)
  BY DEF On
<1>3. PICK e \in Entry : /\ e = Stored(m[t][i], c) /\ e.present /\ e.addr = c.phys
                         /\ c.size = "2M" => e.big
  <2>1. m[t][i] \in Entry
    BY <1>2
  <2>. QED
    BY <2>1, StoredType
<1>4. n = [m EXCEPT ![t][i] = e]
  BY <1>2, <1>3
<1>5. /\ DOMAIN n = DOMAIN m /\ n[t][i] = e
      /\ \A q \in DOMAIN m, j \in Slots : q # t \/ j # i => n[q][j] = m[q][j]
  BY <1>2, <1>4
<1>6. \A w \in Virtual : /\ w \in Asked(c) <=> SamePath(w, v, d) /\ Index(w, d) = i
                         /\ w \in Asked(c) =>
                                w - c.virt = IF c.size = "2M" THEN w % TwoMiB ELSE 0
  BY <1>1, AskedIndices
<1>7. \A w \in Virtual : SamePath(w, pos[t], d) <=> SamePath(w, v, d)
  BY <1>2 DEF SamePath
<1>8. Shape(n, roots, big, bare, level, owner, pos) /\ n \in [DOMAIN m -> [Slots -> Entry]]
  <2>1. GoodEntry(m, level, owner, pos, big, t, i, e)
    <3>1. ASSUME level[t] > 1 PROVE c.size = "2M" /\ d = 2 /\ level[t] = 2 /\ e.big
      BY <1>0, <1>2, <1>3, <3>1
    <3>2. ASSUME level[t] > 1, NEW w \in Virtual, SamePath(w, pos[t], 2), Index(w, 2) = i
          PROVE  w \in big
      BY <1>6, <1>7, <3>1, <3>2
    <3>. QED
      BY <1>3, <3>1, <3>2 DEF GoodEntry
  <2>. QED
    BY ONLY <1>2, <1>4, <2>1, i \in Slots, e \in Entry, m \in [DOMAIN m -> [Slots -> Entry]],
            Shape(m, roots, big, bare, level, owner, pos), EntryStored, Zenon
<1>9. ASSUME NEW x \in roots, NEW w \in Virtual, ~(x = r /\ w \in Asked(c))
      PROVE  Walk4(n, x, w) = Walk4(m, x, w)
  <2>1. ASSUME NEW q, NEW l \in 1 .. 4, On(m, level, owner, pos, q, l, x, w)
        PROVE  n[q][Index(w, l)] = m[q][Index(w, l)]
    <3>1. q \in DOMAIN m /\ level[q] = l /\ owner[q] = x /\ SamePath(w, pos[q], l)
      BY <2>1 DEF On
    <3>2. Index(w, l) \in Slots
      BY IndexInSlots DEF Virtual
    <3>3. ~(q = t /\ Index(w, l) = i)
      BY <1>2, <1>6, <1>7, <1>9, <3>1
    <3>. QED
      BY <1>5, <3>1, <3>2, <3>3
  <2>2. SameEntries(m, n, level, owner, pos, x, w)
    BY <2>1, Zenon DEF SameEntries
  <2>. QED
    BY <2>2, WalkKept
<1>10. ASSUME NEW w \in Virtual, w \in Asked(c)
       PROVE  Walk4(n, r, w) = c.phys + (w - c.virt)
  <2>1. SamePath(w, v, d) /\ Index(w, d) = i
    BY <1>6, <1>10
  <2>2. Leads(m, r, w, d, t)
    BY <1>0, <2>1, LeadsSamePath
  <2>3. Leads(n, r, w, d, t)
    <3>1. SameLinks(m, n, level, owner, r, d)
      BY <1>0, <1>2, <1>5 DEF SameLinks
    <3>. QED
      BY <1>0, <2>2, <3>1, LeadsKept
  <2>4. CASE c.size = "2M"
    <3>1. Walk4(n, r, w) = Walk2(n, t, w) /\ Index(w, 2) = i
      BY <2>1, <2>3, <2>4, WalkFrom
    <3>2. Walk2(n, t, w) = c.phys + (w % TwoMiB)
      BY <1>3, <1>5, <2>4, <3>1 DEF Walk2
    <3>3. w - c.virt = w % TwoMiB
      BY <1>6, <1>10, <2>4
    <3>. QED
      BY <3>1, <3>2, <3>3
  <2>5. CASE c.size # "2M"
    <3>1. Walk4(n, r, w) = Walk1(n, t, w) /\ Index(w, 1) = i
      BY <2>1, <2>3, <2>5, WalkFrom
    <3>2. Walk1(n, t, w) = c.phys
      BY <1>3, <1>5, <3>1 DEF Walk1
    <3>3. w - c.virt = 0 /\ c.phys \in Nat
      BY <1>6, <1>10, <2>5 DEF Calls
    <3>. QED
      BY <3>1, <3>2, <3>3
  <2>. QED
    BY <2>4, <2>5
<1>11. ASSUME NEW x \in roots, NEW w \in Virtual, NEW k \in 1 .. 4, NEW q,
              Leads(m, x, w, k, q), c.size = "2M" /\ x = r => r \in bare
       PROVE  Leads(n, x, w, k, q)
  <2>1. ASSUME NEW p \in DOMAIN m, NEW j \in Slots,
               level[p] > k, owner[p] = x, m[p][j].present, ~m[p][j].big
        PROVE  p # t \/ j # i
    <3>1. SUFFICES ASSUME p = t, j = i PROVE FALSE
      OBVIOUS
    <3>2. level[t] = 2 /\ c.size = "2M" /\ x = r /\ r \in bare
      BY <1>0, <1>2, <1>11, <2>1, <3>1
    <3>3. GoodEntry(m, level, owner, pos, big, t, i, m[t][i])
      BY <1>2 DEF Shape
    <3>4. /\ m[t][i].addr \in DOMAIN m
          /\ level[m[t][i].addr] = 1 /\ owner[m[t][i].addr] = r
      BY <1>2, <2>1, <3>1, <3>2, <3>3 DEF GoodEntry, Below
    <3>. QED
      BY <3>2, <3>4 DEF Shape
  <2>2. SameLinks(m, n, level, owner, x, k)
    BY <1>5, <2>1 DEF SameLinks
  <2>. QED
    BY <1>11, <2>2, LeadsKept
<1>12. \A x \in roots, w \in Virtual :
        Walk4(n, x, w) = IF x = r /\ w \in Asked(c) THEN c.phys + (w - c.virt)
                                                   ELSE Walk4(m, x, w)
  BY <1>9, <1>10, Zenon
<1>. QED
  BY <1>8, <1>11, <1>12, Zenon DEF StoredIn

\* A new, empty PML4 p changes nothing for the others.
WithNewRoot(m, n, roots, big, bare, p) ==
    /\ \E level, owner, pos : Shape(n, roots \cup {p}, big, bare, level, owner, pos)
    /\ \A w \in Virtual : Walk4(n, p, w) = NoPage /\ Leads(n, p, w, 4, p)
    /\ \A x \in roots, w \in Virtual : Walk4(n, x, w) = Walk4(m, x, w)
    /\ \A x \in roots, w \in Virtual, k \in 1 .. 4 : \A q :
        Leads(m, x, w, k, q) => Leads(n, x, w, k, q)

LEMMA NewRoot ==
    ASSUME NEW m, NEW roots, NEW big, NEW bare, NEW level, NEW owner, NEW pos,
           Shape(m, roots, big, bare, level, owner, pos),
           NEW p, p \notin DOMAIN m, NEW Bare, Bare \subseteq {p}, NEW n, n = WithTable(m, p)
    PROVE  WithNewRoot(m, n, roots, big, Bare, p)
<1>1. n[p] = EmptyTable /\ \A q \in DOMAIN m : n[q] = m[q]
  BY DEF WithTable
<1>2. \E L, O, P : Shape(n, roots \cup {p}, big, Bare, L, O, P)
  <2>. PICK R : R = roots \cup {p}
    BY Zenon
  <2>. PICK l \in 1 .. 4 : l = 4
    OBVIOUS
  <2>. PICK o \in R : o = p
    OBVIOUS
  <2>. PICK v \in Virtual : TRUE
    BY Sizes, Products DEF Virtual
  <2>1. \A q \in DOMAIN m : owner[q] \in Bare => level[q] # 1
    <3>1. \A q \in DOMAIN m : owner[q] \in DOMAIN m
      BY DEF Shape
    <3>. QED
      BY <3>1
  <2>2. \/ R = roots /\ l < 4
        \/ R = roots \cup {p} /\ l = 4 /\ o = p
    OBVIOUS
  <2>3. o \in Bare => l # 1
    OBVIOUS
  <2>4. Shape(WithTable(m, p), R, big, Bare,
              With(m, p, level, l), With(m, p, owner, o), With(m, p, pos, v))
    BY <2>1, <2>2, <2>3, FreshTable, Zenon
  <2>. QED
    BY <2>4
<1>3. ASSUME NEW w \in Virtual PROVE Walk4(n, p, w) = NoPage /\ Leads(n, p, w, 4, p)
  <2>1. Index(w, 4) \in Slots
    BY IndexInSlots DEF Virtual
  <2>2. ~n[p][Index(w, 4)].present
    BY <1>1, <2>1, EmptyTyped
  <2>. QED
    BY <2>2, Zenon DEF Walk4, Leads, LedBy
<1>4. ASSUME NEW x \in roots, NEW w \in Virtual PROVE Walk4(n, x, w) = Walk4(m, x, w)
  <2>1. ASSUME NEW q, NEW l \in 1 .. 4, On(m, level, owner, pos, q, l, x, w)
        PROVE  n[q][Index(w, l)] = m[q][Index(w, l)]
    BY <1>1, <2>1 DEF On
  <2>2. SameEntries(m, n, level, owner, pos, x, w)
    BY <2>1, Zenon DEF SameEntries
  <2>. QED
    BY <2>2, WalkKept
<1>5. ASSUME NEW x \in roots, NEW w \in Virtual, NEW k \in 1 .. 4, NEW q, Leads(m, x, w, k, q)
      PROVE  Leads(n, x, w, k, q)
  <2>1. SameLinks(m, n, level, owner, x, k)
    BY <1>1 DEF SameLinks
  <2>. QED
    BY <1>5, <2>1, LeadsKept
<1>. QED
  BY <1>2, <1>3, <1>4, <1>5 DEF WithNewRoot

\* Fewer of the roots need have no tables of level 1.
LEMMA LessBare ==
    ASSUME NEW m, NEW roots, NEW big, NEW bare, NEW level, NEW owner, NEW pos,
           Shape(m, roots, big, bare, level, owner, pos), NEW Bare, Bare \subseteq bare
    PROVE  Shape(m, roots, big, Bare, level, owner, pos)
  BY DEF Shape
=============================================================================
