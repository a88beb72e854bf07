-------------------------- MODULE DesktopIconsProofs --------------------------
(***************************************************************************)
(* Theorems about the icons of the desktop (Shortcuts in WebDesktop), for    *)
(* whatever folders, stored lists and sizes of the grid there are.           *)
(***************************************************************************)
EXTENDS WebDesktop, FiltersProofs, FiniteSetTheorems, SequenceTheorems, TLAPS

(* Their layout.  It is computed by two loops over    *)
(* the list, one for the cells that are stored and one for the others.         *)

Grid == [cols : Nat \ {0}, rows : Nat \ {0}]
Iconed(its) == its \in Seq(Shortcuts!Shortcut)

PlacedTo(fill, l, s, g) ==
    IF fill THEN Shortcuts!PlaceFree(l, s, g) ELSE Shortcuts!PlaceStored(l, s, g)
PlacedOf(fill, from, its, g, f, n) ==
    f = [i \in 0..n |-> IF i = 0 THEN from ELSE PlacedTo(fill, f[i - 1], its[i], g)]

LEMMA PlacedExists ==
    ASSUME NEW fill, NEW from, NEW its, NEW g, NEW n \in Nat
    PROVE  \E f : PlacedOf(fill, from, its, g, f, n)
<1> DEFINE Good == {m \in Nat : \E f : PlacedOf(fill, from, its, g, f, m)}
<1>1. 0 \in Good
  <2>1. PlacedOf(fill, from, its, g, [i \in 0..0 |-> from], 0)
    BY DEF PlacedOf
  <2> QED BY <2>1
<1>2. ASSUME NEW m \in Nat, m \in Good PROVE m + 1 \in Good
  <2>1. PICK f : PlacedOf(fill, from, its, g, f, m)
    BY <1>2
  <2> DEFINE next == PlacedTo(fill, f[m], its[m + 1], g)
             h == [i \in 0..(m + 1) |-> IF i = m + 1 THEN next ELSE f[i]]
  <2>2. ASSUME NEW i \in 0..(m + 1)
        PROVE  h[i] = IF i = 0 THEN from ELSE PlacedTo(fill, h[i - 1], its[i], g)
    <3>1. CASE i = m + 1
      BY <3>1
    <3>2. CASE i # m + 1
      <4>1. i \in 0..m /\ i \in 0..(m + 1) /\ (i # 0 => i - 1 \in 0..m /\ i - 1 \in 0..(m + 1))
        BY <3>2
      <4>2. h[i] = f[i] /\ (i # 0 => h[i - 1] = f[i - 1])
        BY <3>2, <4>1
      <4>3. f[i] = IF i = 0 THEN from ELSE PlacedTo(fill, f[i - 1], its[i], g)
        BY <2>1, <4>1 DEF PlacedOf
      <4> QED BY <4>2, <4>3
    <3> QED BY <3>1, <3>2
  <2> HIDE DEF h
  <2>3. PlacedOf(fill, from, its, g, h, m + 1)
    <3>1. h = [i \in 0..(m + 1) |-> h[i]]
      BY DEF h
    <3> QED BY <2>2, <3>1 DEF PlacedOf
  <2> QED BY <2>3
<1>3. Nat \subseteq Good
  <2> HIDE DEF Good
  <2> QED BY <1>1, <1>2, Inductive
<1> QED BY <1>3

Loops(its, g, f, h) ==
    LET n == Len(its)
    IN /\ f[0] = Shortcuts!Nowhere /\ h[0] = f[n]
       /\ \A i \in 1..n : f[i] = Shortcuts!PlaceStored(f[i - 1], its[i], g)
       /\ \A i \in 1..n : h[i] = Shortcuts!PlaceFree(h[i - 1], its[i], g)
       /\ Shortcuts!layoutShortcuts(its, g) = h[n].at

LEMMA LayoutLoops ==
    ASSUME NEW its, Iconed(its), NEW g
    PROVE  \E f, h : Loops(its, g, f, h)
<1> DEFINE n == Len(its)
           f == CHOOSE f : f = [i \in 0..n |->
                  IF i = 0 THEN Shortcuts!Nowhere ELSE Shortcuts!PlaceStored(f[i - 1], its[i], g)]
           h == CHOOSE h : h = [i \in 0..n |->
                  IF i = 0 THEN Shortcuts!placed(its, g) ELSE Shortcuts!PlaceFree(h[i - 1], its[i], g)]
<1>1. n \in Nat
  BY LenProperties DEF Iconed
<1>2. Shortcuts!placed(its, g) = f[n] /\ Shortcuts!layoutShortcuts(its, g) = h[n].at
  BY DEF Shortcuts!placed, Shortcuts!layoutShortcuts
<1>3. f = [i \in 0..n |->
            IF i = 0 THEN Shortcuts!Nowhere ELSE Shortcuts!PlaceStored(f[i - 1], its[i], g)]
  <2>1. PICK k : PlacedOf(FALSE, Shortcuts!Nowhere, its, g, k, n)
    BY <1>1, PlacedExists
  <2> QED
    BY <2>1 DEF PlacedOf, PlacedTo
<1>4. h = [i \in 0..n |->
            IF i = 0 THEN Shortcuts!placed(its, g) ELSE Shortcuts!PlaceFree(h[i - 1], its[i], g)]
  <2>1. PICK k : PlacedOf(TRUE, Shortcuts!placed(its, g), its, g, k, n)
    BY <1>1, PlacedExists
  <2> QED
    BY <2>1 DEF PlacedOf, PlacedTo
<1> HIDE DEF f, h, n
<1>5. 0 \in 0..n /\ \A i \in 1..n : i \in 0..n /\ i # 0
  BY <1>1
<1>6. Loops(its, g, f, h)
  BY <1>2, <1>3, <1>4, <1>5 DEF Loops, n
<1> QED
  BY <1>6

(* A cell of the grid that is pulled into it stays; every cell comes into it.   *)
LEMMA PulledIn ==
    ASSUME NEW g \in Grid, NEW c \in Shortcuts!Cell
    PROVE  /\ Shortcuts!Pulled(c, g) \in Shortcuts!Cells(g)
           /\ c \in Shortcuts!Cells(g) => Shortcuts!Pulled(c, g) = c
<1> DEFINE x == Shortcuts!Least(c.col, g.cols - 1)
           y == Shortcuts!Least(c.row, g.rows - 1)
<1>1. c.col \in Nat /\ c.row \in Nat /\ g.cols \in Nat \ {0} /\ g.rows \in Nat \ {0}
  BY DEF Grid, Shortcuts!Cell
<1>2. x \in 0..(g.cols - 1) /\ y \in 0..(g.rows - 1)
  BY <1>1 DEF Shortcuts!Least
<1>3. ASSUME c \in Shortcuts!Cells(g) PROVE x = c.col /\ y = c.row /\ c = [col |-> c.col, row |-> c.row]
  <2>1. c.col <= g.cols - 1 /\ c.row <= g.rows - 1 /\ c = [col |-> c.col, row |-> c.row]
    BY <1>1, <1>3 DEF Shortcuts!Cells
  <2> QED
    BY <2>1, <1>1 DEF Shortcuts!Least
<1>4. Shortcuts!Pulled(c, g) = [col |-> x, row |-> y]
  BY DEF Shortcuts!Pulled
<1> HIDE DEF x, y
<1> QED
  BY <1>2, <1>3, <1>4 DEF Shortcuts!Cells

(* Among free cells there is a first one.                                     *)
LEMMA FreeCellFound ==
    ASSUME NEW g \in Grid, NEW taken
    PROVE  /\ Shortcuts!FreeCell(taken, g) \in Shortcuts!Cells(g)
           /\ Shortcuts!Cells(g) \ taken # {} => Shortcuts!FreeCell(taken, g) \notin taken
<1> DEFINE free == Shortcuts!Cells(g) \ taken
<1>0. g.cols \in Nat \ {0} /\ g.rows \in Nat \ {0}
  BY DEF Grid
<1>1. CASE free = {}
  <2>1. Shortcuts!FreeCell(taken, g) = [col |-> 0, row |-> g.rows - 1]
    BY <1>1 DEF Shortcuts!FreeCell
  <2> QED
    BY <1>0, <1>1, <2>1 DEF Shortcuts!Cells
<1>2. CASE free # {}
  <2> DEFINE C == {g.cols - 1 - o.col : o \in free}
  <2>1. \A o \in free : /\ o.col \in 0..(g.cols - 1) /\ o.row \in 0..(g.rows - 1)
                        /\ o = [col |-> o.col, row |-> o.row] /\ g.cols - 1 - o.col \in Nat
    BY <1>0 DEF Shortcuts!Cells
  <2> HIDE DEF free
  <2>2. C \subseteq Nat /\ C # {}
    BY <1>2, <2>1
  <2> HIDE DEF C
  <2>3. PICK m \in C : \A k \in C : m <= k
    BY <2>2, Least
  <2>4. PICK a \in free : m = g.cols - 1 - a.col
    BY <2>3 DEF C
  <2>5. \A o \in free : o.col <= a.col
    <3> SUFFICES ASSUME NEW o \in free PROVE o.col <= a.col
      OBVIOUS
    <3>1. g.cols - 1 - o.col \in C
      BY DEF C
    <3>2. g.cols - 1 - a.col <= g.cols - 1 - o.col
      BY <2>3, <2>4, <3>1
    <3> QED
      BY <3>2, <2>1, <1>0
  <2> DEFINE R == {o.row : o \in {o \in free : o.col = a.col}}
  <2>6. R \subseteq Nat /\ R # {}
    BY <2>1, <2>4
  <2> HIDE DEF R
  <2>7. PICK r \in R : \A k \in R : r <= k
    BY <2>6, Least
  <2>8. PICK b \in free : b.col = a.col /\ r = b.row
    BY <2>7 DEF R
  <2>9. \A o \in free : o = b \/ Shortcuts!Before(b, o)
    <3> SUFFICES ASSUME NEW o \in free PROVE o = b \/ Shortcuts!Before(b, o)
      OBVIOUS
    <3>1. CASE o.col # a.col
      BY <2>1, <2>5, <2>8, <3>1 DEF Shortcuts!Before
    <3>2. CASE o.col = a.col
      <4>1. o.row \in R
        BY <3>2 DEF R
      <4>2. b.row <= o.row
        BY <4>1, <2>7, <2>8
      <4>3. b.row = o.row => o = b
        BY <2>1, <2>8, <3>2
      <4> QED
        BY <4>2, <4>3, <2>1, <2>8, <3>2 DEF Shortcuts!Before
    <3> QED
      BY <3>1, <3>2
  <2>10. Shortcuts!FreeCell(taken, g) = CHOOSE c \in free : \A o \in free : o = c \/ Shortcuts!Before(c, o)
    BY <1>2 DEF Shortcuts!FreeCell, free
  <2>11. Shortcuts!FreeCell(taken, g) \in free
    BY <2>8, <2>9, <2>10
  <2> QED
    BY <2>11 DEF free
<1> QED
  BY <1>1, <1>2

LaidOut(l, g) ==
    /\ l.at \in [DOMAIN l.at -> Shortcuts!Cells(g)] /\ l.taken \subseteq Shortcuts!Cells(g)
    /\ \A p \in DOMAIN l.at : l.at[p] \in l.taken
LaidApart(l) == \A p, q \in DOMAIN l.at : l.at[p] = l.at[q] => p = q
Placed(its, m, l) == {j \in 1..m : its[j].path \in DOMAIN l.at}

LEMMA Gives ==
    ASSUME NEW l, NEW g, LaidOut(l, g), NEW p, NEW c \in Shortcuts!Cells(g)
    PROVE  /\ LaidOut(Shortcuts!Give(l, p, c), g)
           /\ DOMAIN Shortcuts!Give(l, p, c).at = DOMAIN l.at \cup {p}
           /\ Shortcuts!Give(l, p, c).taken = l.taken \cup {c}
           /\ LaidApart(l) /\ c \notin l.taken => LaidApart(Shortcuts!Give(l, p, c))
           /\ Shortcuts!Give(l, p, c).at[p] = c
           /\ \A q \in DOMAIN l.at \ {p} : Shortcuts!Give(l, p, c).at[q] = l.at[q]
<1> DEFINE at == [q \in DOMAIN l.at \cup {p} |-> IF q = p THEN c ELSE l.at[q]]
           taken == l.taken \cup {c}
<1>1. Shortcuts!Give(l, p, c) = [at |-> at, taken |-> taken]
  BY DEF Shortcuts!Give
<1>2. /\ at \in [DOMAIN l.at \cup {p} -> Shortcuts!Cells(g)] /\ taken \subseteq Shortcuts!Cells(g)
      /\ DOMAIN at = DOMAIN l.at \cup {p} /\ at[p] = c
      /\ \A q \in DOMAIN l.at \ {p} : at[q] = l.at[q]
      /\ \A q \in DOMAIN at : at[q] \in taken
  BY DEF LaidOut
<1>3. ASSUME LaidApart(l), c \notin l.taken, NEW q \in DOMAIN at, NEW r \in DOMAIN at, at[q] = at[r]
      PROVE  q = r
  BY <1>3 DEF LaidOut, LaidApart
<1> HIDE DEF at, taken
<1>4. Shortcuts!Give(l, p, c).at = at /\ Shortcuts!Give(l, p, c).taken = taken
  BY <1>1
<1>5. taken = l.taken \cup {c}
  BY DEF taken
<1>6. LaidOut(Shortcuts!Give(l, p, c), g)
  BY <1>2, <1>4 DEF LaidOut
<1>7. LaidApart(l) /\ c \notin l.taken => LaidApart(Shortcuts!Give(l, p, c))
  BY <1>3, <1>4 DEF LaidApart
<1> QED
  BY <1>2, <1>4, <1>5, <1>6, <1>7

LEMMA CellsFinite == ASSUME NEW g \in Grid PROVE IsFiniteSet(Shortcuts!Cells(g))
<1> DEFINE C == 0..(g.cols - 1)
           R == 0..(g.rows - 1)
           f == [x \in C \X R |-> [col |-> x[1], row |-> x[2]]]
<1>1. g.cols - 1 \in Int /\ g.rows - 1 \in Int
  BY DEF Grid
<1>2. IsFiniteSet(C) /\ IsFiniteSet(R)
  BY <1>1, FS_Interval
<1>3. Shortcuts!Cells(g) = [col : C, row : R]
  BY DEF Shortcuts!Cells
<1> HIDE DEF C, R
<1>4. IsFiniteSet(C \X R)
  BY <1>2, FS_Product
<1>5. f \in Surjection(C \X R, [col : C, row : R])
  <2>1. f \in [C \X R -> [col : C, row : R]]
    OBVIOUS
  <2>2. ASSUME NEW y \in [col : C, row : R] PROVE \E x \in C \X R : f[x] = y
    <3>1. <<y.col, y.row>> \in C \X R /\ f[<<y.col, y.row>>] = y
      OBVIOUS
    <3> QED
      BY <3>1
  <2> HIDE DEF f
  <2> QED
    BY <2>1, <2>2 DEF Surjection
<1> HIDE DEF f
<1> QED
  BY <1>3, <1>4, <1>5, FS_Surjection

(* A set with one element more has room for another one.                      *)
LEMMA OneMore ==
    ASSUME NEW A, NEW B, NEW C, NEW D, NEW c, NEW i,
           IsFiniteSet(A), IsFiniteSet(D), Cardinality(A) <= Cardinality(B),
           C = A \cup {c}, B \cup {i} \subseteq D, i \notin B
    PROVE  Cardinality(C) <= Cardinality(D)
<1>1. IsFiniteSet(B) /\ IsFiniteSet(B \cup {i}) /\ Cardinality(B \cup {i}) <= Cardinality(D)
  <2>1. B \cup {i} \in SUBSET D /\ B \in SUBSET D
    OBVIOUS
  <2> QED
    BY <2>1, FS_Subset
<1>2. Cardinality(B \cup {i}) = Cardinality(B) + 1
  BY <1>1, FS_AddElement
<1>3. IsFiniteSet(C) /\ Cardinality(C) = IF c \in A THEN Cardinality(A) ELSE Cardinality(A) + 1
  BY FS_AddElement
<1>4. Cardinality(A) \in Nat /\ Cardinality(B) \in Nat /\ Cardinality(D) \in Nat
  BY <1>1, FS_CardinalityType
<1>5. Cardinality(C) <= Cardinality(A) + 1
  BY <1>3, <1>4
<1>6. Cardinality(C) \in Nat
  BY <1>3, FS_CardinalityType
<1> QED
  BY <1>1, <1>2, <1>4, <1>5, <1>6

LEMMA StoredPlaced ==
    ASSUME NEW its, Iconed(its), NEW g \in Grid, NEW f, NEW h, Loops(its, g, f, h)
    PROVE  /\ LaidOut(f[Len(its)], g) /\ LaidApart(f[Len(its)])
           /\ DOMAIN f[Len(its)].at \subseteq Shortcuts!Paths(its)
           /\ Cardinality(f[Len(its)].taken) <= Cardinality(Placed(its, Len(its), f[Len(its)]))
<1> DEFINE n == Len(its)
           Fine(m) ==
             /\ LaidOut(f[m], g) /\ LaidApart(f[m])
             /\ DOMAIN f[m].at \subseteq Shortcuts!Paths(its)
             /\ Cardinality(f[m].taken) <= Cardinality(Placed(its, m, f[m]))
           Good == {m \in Nat : m <= n => Fine(m)}
<1>1. n \in Nat /\ DOMAIN its = 1..n /\ \A i \in 1..n : its[i] \in Shortcuts!Shortcut
  BY LenProperties, ElementOfSeq DEF Iconed
<1>2. /\ f[0] = Shortcuts!Nowhere
      /\ \A i \in 1..n : f[i] = Shortcuts!PlaceStored(f[i - 1], its[i], g)
  BY DEF Loops
<1> HIDE DEF n
<1>3. Fine(0)
  <2>1. f[0].at = [p \in {} |-> None] /\ f[0].taken = {}
    BY <1>2 DEF Shortcuts!Nowhere
  <2>2. DOMAIN f[0].at = {} /\ Placed(its, 0, f[0]) = {}
    BY <2>1 DEF Placed
  <2>3. LaidOut(f[0], g) /\ LaidApart(f[0])
    BY <2>1, <2>2 DEF LaidOut, LaidApart
  <2>4. Cardinality({}) <= Cardinality({})
    BY FS_EmptySet
  <2> QED
    BY <2>1, <2>2, <2>3, <2>4
<1>4. ASSUME NEW m \in Nat, m + 1 <= n, Fine(m) PROVE Fine(m + 1)
  <2> DEFINE s == its[m + 1]
             l == f[m]
             c == Shortcuts!Pulled(s.cell, g)
  <2>1. m + 1 \in 1..n /\ m + 1 - 1 = m /\ f[m + 1] = Shortcuts!PlaceStored(l, s, g)
    BY <1>1, <1>2, <1>4
  <2>2. s \in Shortcuts!Shortcut /\ s.path \in Shortcuts!Paths(its)
    BY <1>1, <2>1 DEF Shortcuts!Paths
  <2>3. \A k \in Nat : \A x : IsFiniteSet(Placed(its, k, x))
    <3> SUFFICES ASSUME NEW k \in Nat, NEW x PROVE IsFiniteSet(Placed(its, k, x))
      OBVIOUS
    <3>1. Placed(its, k, x) \in SUBSET (1..k)
      BY DEF Placed
    <3> QED
      BY <3>1, FS_Interval, FS_Subset
  <2>4. CASE s.cell = None \/ c \in l.taken
    <3>1. f[m + 1] = l
      BY <2>1, <2>4 DEF Shortcuts!PlaceStored
    <3>2. Placed(its, m, l) \in SUBSET Placed(its, m + 1, l) /\ IsFiniteSet(Placed(its, m + 1, l))
      <4>1. Placed(its, m, l) \in SUBSET Placed(its, m + 1, l)
        BY DEF Placed
      <4>2. IsFiniteSet(Placed(its, m + 1, l))
        BY <2>3
      <4> QED
        BY <4>1, <4>2
    <3>3. Cardinality(Placed(its, m, l)) <= Cardinality(Placed(its, m + 1, l))
      BY <3>2, FS_Subset
    <3>4. IsFiniteSet(l.taken) /\ IsFiniteSet(Placed(its, m, l))
      <4>1. l.taken \in SUBSET Shortcuts!Cells(g)
        BY <1>4 DEF LaidOut
      <4> QED
        BY <4>1, <2>3, CellsFinite, FS_Subset
    <3>5. Cardinality(l.taken) <= Cardinality(Placed(its, m + 1, l))
      <4>1. /\ Cardinality(l.taken) \in Nat /\ Cardinality(Placed(its, m, l)) \in Nat
            /\ Cardinality(Placed(its, m + 1, l)) \in Nat
        BY <3>2, <3>4, FS_CardinalityType
      <4>2. Cardinality(l.taken) <= Cardinality(Placed(its, m, l))
        BY <1>4
      <4> QED
        BY <4>1, <4>2, <3>3
    <3> QED
      BY <3>1, <3>5, <1>4
  <2>5. CASE s.cell # None /\ c \notin l.taken
    <3>1. f[m + 1] = Shortcuts!Give(l, s.path, c)
      BY <2>1, <2>5 DEF Shortcuts!PlaceStored
    <3>2. s.cell \in Shortcuts!Cell
      BY <2>2, <2>5 DEF Shortcuts!Shortcut
    <3>3. c \in Shortcuts!Cells(g)
      BY <3>2, PulledIn
    <3> HIDE DEF c
    <3>4. LaidOut(l, g) /\ LaidApart(l)
      BY <1>4
    <3> DEFINE x == Shortcuts!Give(l, s.path, c)
    <3>5. /\ LaidOut(x, g) /\ LaidApart(x) /\ DOMAIN x.at = DOMAIN l.at \cup {s.path}
          /\ x.taken = l.taken \cup {c}
      BY <3>3, <3>4, <2>5, Gives DEF c
    <3> HIDE DEF x
    <3>6. Cardinality(x.taken) <= Cardinality(Placed(its, m + 1, x))
      <4>1. Placed(its, m, l) \cup {m + 1} \subseteq Placed(its, m + 1, x) /\ m + 1 \notin Placed(its, m, l)
        BY <2>1, <3>5 DEF Placed
      <4>2. IsFiniteSet(l.taken) /\ IsFiniteSet(Placed(its, m + 1, x))
        <5>1. l.taken \in SUBSET Shortcuts!Cells(g)
          BY <1>4 DEF LaidOut
        <5> QED
          BY <5>1, <2>3, CellsFinite, FS_Subset
      <4>3. Cardinality(l.taken) <= Cardinality(Placed(its, m, l))
        BY <1>4
      <4> DEFINE A == l.taken
                 B == Placed(its, m, l)
                 C == x.taken
                 D == Placed(its, m + 1, x)
                 i == m + 1
      <4>4. IsFiniteSet(A) /\ IsFiniteSet(D) /\ Cardinality(A) <= Cardinality(B) /\ C = A \cup {c}
        BY <4>2, <4>3, <3>5
      <4>5. B \cup {i} \subseteq D /\ i \notin B
        BY <4>1
      <4> HIDE DEF A, B, C, D, i
      <4>6. Cardinality(C) <= Cardinality(D)
        BY <4>4, <4>5, OneMore
      <4> QED
        BY <4>6 DEF C, D
    <3>7. DOMAIN x.at \subseteq Shortcuts!Paths(its)
      BY <1>4, <2>2, <3>5
    <3>8. f[m + 1] = x
      BY <3>1 DEF x
    <3> QED
      BY <3>5, <3>6, <3>7, <3>8
  <2> QED
    BY <2>4, <2>5
<1>5. Nat \subseteq Good
  <2> HIDE DEF Fine
  <2>1. 0 \in Good
    BY <1>3
  <2>2. ASSUME NEW m \in Nat, m \in Good PROVE m + 1 \in Good
    BY <1>1, <1>4, <2>2
  <2> HIDE DEF Good
  <2> QED
    BY <2>1, <2>2, Inductive
<1>6. Fine(n)
  <2> HIDE DEF Fine
  <2> QED
    BY <1>1, <1>5
<1> QED
  BY <1>6 DEF n

LEMMA OthersPlaced ==
    ASSUME NEW its, Iconed(its), NEW g \in Grid, NEW f, NEW h, Loops(its, g, f, h)
    PROVE  /\ LaidOut(h[Len(its)], g)
           /\ DOMAIN h[Len(its)].at = Shortcuts!Paths(its)
           /\ Len(its) <= Cardinality(Shortcuts!Cells(g)) => LaidApart(h[Len(its)])
<1> DEFINE n == Len(its)
           Room == n <= Cardinality(Shortcuts!Cells(g))
           Fine(m) ==
             /\ LaidOut(h[m], g)
             /\ DOMAIN h[m].at \subseteq Shortcuts!Paths(its)
             /\ \A j \in 1..m : its[j].path \in DOMAIN h[m].at
             /\ Room => /\ LaidApart(h[m])
                        /\ Cardinality(h[m].taken) <= Cardinality(Placed(its, n, h[m]))
           Good == {m \in Nat : m <= n => Fine(m)}
<1>1. n \in Nat /\ DOMAIN its = 1..n /\ \A i \in 1..n : its[i] \in Shortcuts!Shortcut
  BY LenProperties, ElementOfSeq DEF Iconed
<1>2. h[0] = f[n] /\ \A i \in 1..n : h[i] = Shortcuts!PlaceFree(h[i - 1], its[i], g)
  BY DEF Loops
<1>3. Fine(0)
  BY <1>2, StoredPlaced
<1> HIDE DEF n
<1>4. ASSUME NEW m \in Nat, m + 1 <= n, Fine(m) PROVE Fine(m + 1)
  <2> DEFINE s == its[m + 1]
             l == h[m]
             c == Shortcuts!FreeCell(l.taken, g)
  <2>1. m + 1 \in 1..n /\ m + 1 - 1 = m /\ h[m + 1] = Shortcuts!PlaceFree(l, s, g)
    BY <1>1, <1>2, <1>4
  <2>2. s.path \in Shortcuts!Paths(its)
    BY <1>1, <2>1 DEF Shortcuts!Paths
  <2>3. CASE s.path \in DOMAIN l.at
    <3>1. h[m + 1] = l
      BY <2>1, <2>3 DEF Shortcuts!PlaceFree
    <3>2. \A j \in 1..(m + 1) : j \in 1..m \/ j = m + 1
      OBVIOUS
    <3> QED
      BY <3>1, <3>2, <2>3, <1>4
  <2>4. CASE s.path \notin DOMAIN l.at
    <3>1. h[m + 1] = Shortcuts!Give(l, s.path, c)
      BY <2>1, <2>4 DEF Shortcuts!PlaceFree
    <3>2. c \in Shortcuts!Cells(g) /\ (Shortcuts!Cells(g) \ l.taken # {} => c \notin l.taken)
      BY FreeCellFound
    <3> HIDE DEF c
    <3>3. LaidOut(l, g)
      BY <1>4
    <3> DEFINE x == Shortcuts!Give(l, s.path, c)
    <3>4. /\ LaidOut(x, g) /\ DOMAIN x.at = DOMAIN l.at \cup {s.path} /\ x.taken = l.taken \cup {c}
          /\ LaidApart(l) /\ c \notin l.taken => LaidApart(x)
      BY <3>2, <3>3, Gives
    <3> HIDE DEF x
    <3>5. h[m + 1] = x
      BY <3>1 DEF x
    <3>6. \A j \in 1..(m + 1) : its[j].path \in DOMAIN x.at
      <4>1. \A j \in 1..(m + 1) : j \in 1..m \/ j = m + 1
        OBVIOUS
      <4> QED
        BY <4>1, <3>4, <1>4
    <3>7. DOMAIN x.at \subseteq Shortcuts!Paths(its)
      BY <1>4, <2>2, <3>4
    <3>8. l.taken \in SUBSET Shortcuts!Cells(g) /\ IsFiniteSet(l.taken) /\ IsFiniteSet(Shortcuts!Cells(g))
      <4>1. l.taken \in SUBSET Shortcuts!Cells(g)
        BY <1>4 DEF LaidOut
      <4> QED
        BY <4>1, CellsFinite, FS_Subset
    <3>9. /\ Placed(its, n, l) \in SUBSET ((1..n) \ {m + 1}) /\ IsFiniteSet(Placed(its, n, x))
          /\ Placed(its, n, l) \cup {m + 1} \subseteq Placed(its, n, x) /\ m + 1 \notin Placed(its, n, l)
      <4>1. /\ Placed(its, n, l) \in SUBSET ((1..n) \ {m + 1}) /\ Placed(its, n, x) \in SUBSET (1..n)
            /\ Placed(its, n, l) \cup {m + 1} \subseteq Placed(its, n, x) /\ m + 1 \notin Placed(its, n, l)
        BY <2>1, <2>4, <3>4 DEF Placed
      <4>2. IsFiniteSet(1..n)
        BY <1>1, FS_Interval
      <4>3. IsFiniteSet(Placed(its, n, x))
        BY <4>1, <4>2, FS_Subset
      <4> QED
        BY <4>1, <4>3
    <3>10. ASSUME Room
           PROVE  /\ LaidApart(x)
                  /\ Cardinality(x.taken) <= Cardinality(Placed(its, n, x))
      <4>1. LaidApart(l) /\ Cardinality(l.taken) <= Cardinality(Placed(its, n, l))
        BY <1>4, <3>10
      <4>2. IsFiniteSet(1..n) /\ Cardinality(1..n) = n
        <5>1. Cardinality(1..n) = IF 1 > n THEN 0 ELSE n - 1 + 1
          BY <1>1, FS_Interval
        <5>2. IsFiniteSet(1..n)
          BY <1>1, FS_Interval
        <5> QED
          BY <5>1, <5>2, <1>1
      <4>3. IsFiniteSet((1..n) \ {m + 1}) /\ Cardinality((1..n) \ {m + 1}) = n - 1
        <5>1. /\ IsFiniteSet((1..n) \ {m + 1})
              /\ Cardinality((1..n) \ {m + 1}) =
                   IF m + 1 \in 1..n THEN Cardinality(1..n) - 1 ELSE Cardinality(1..n)
          BY <4>2, FS_RemoveElement
        <5> QED
          BY <5>1, <4>2, <2>1
      <4>4. Cardinality(Placed(its, n, l)) <= n - 1 /\ Cardinality(Placed(its, n, l)) \in Nat
        BY <3>9, <4>3, FS_Subset, FS_CardinalityType
      <4>5. Shortcuts!Cells(g) \ l.taken # {}
        <5> SUFFICES ASSUME Shortcuts!Cells(g) \ l.taken = {} PROVE FALSE
          OBVIOUS
        <5>1. l.taken = Shortcuts!Cells(g)
          BY <3>8
        <5>2. Cardinality(l.taken) \in Nat
          BY <3>8, FS_CardinalityType
        <5>3. n <= Cardinality(l.taken)
          BY <3>10, <5>1
        <5> HIDE DEF l
        <5> QED
          BY <5>2, <5>3, <4>1, <4>4, <1>1
      <4>6. c \notin l.taken
        BY <3>2, <4>5
      <4>7. Cardinality(x.taken) <= Cardinality(Placed(its, n, x))
        <5> HIDE DEF l
        <5> QED
          BY <3>4, <3>8, <3>9, <4>1, OneMore
      <4> QED
        BY <4>1, <4>6, <4>7, <3>4
    <3> HIDE DEF l, s, Room
    <3> QED
      BY <3>4, <3>5, <3>6, <3>7, <3>10
  <2> QED
    BY <2>3, <2>4
<1>5. Nat \subseteq Good
  <2> HIDE DEF Fine
  <2>1. 0 \in Good
    BY <1>3
  <2>2. ASSUME NEW m \in Nat, m \in Good PROVE m + 1 \in Good
    BY <1>1, <1>4, <2>2
  <2> HIDE DEF Good
  <2> QED
    BY <2>1, <2>2, Inductive
<1>6. Fine(n)
  <2> HIDE DEF Fine
  <2> QED
    BY <1>1, <1>5
<1>7. Shortcuts!Paths(its) \subseteq DOMAIN h[n].at
  BY <1>1, <1>6 DEF Shortcuts!Paths
<1> QED
  BY <1>6, <1>7 DEF n

(* Every shortcut has a cell of the grid, and one of its own while there is room. *)
LEMMA LayoutApart ==
    ASSUME NEW its, Iconed(its), NEW g \in Grid
    PROVE  LET at == Shortcuts!layoutShortcuts(its, g)
           IN /\ at \in [Shortcuts!Paths(its) -> Shortcuts!Cells(g)]
              /\ Len(its) <= Cardinality(Shortcuts!Cells(g)) =>
                   \A p, q \in DOMAIN at : at[p] = at[q] => p = q
<1>1. PICK f, h : Loops(its, g, f, h)
  BY LayoutLoops
<1>2. Shortcuts!layoutShortcuts(its, g) = h[Len(its)].at
  BY <1>1 DEF Loops
<1>3. /\ LaidOut(h[Len(its)], g) /\ DOMAIN h[Len(its)].at = Shortcuts!Paths(its)
      /\ Len(its) <= Cardinality(Shortcuts!Cells(g)) => LaidApart(h[Len(its)])
  BY <1>1, OthersPlaced
<1> QED
  BY <1>2, <1>3 DEF LaidOut, LaidApart

(* A list whose cells are in the grid and apart is laid out as it stands.       *)
LEMMA LayoutKeeps ==
    ASSUME NEW its, Iconed(its), NEW g \in Grid,
           \A i \in DOMAIN its : its[i].cell \in Shortcuts!Cells(g),
           \A i, j \in DOMAIN its : its[i].path = its[j].path => i = j,
           \A i, j \in DOMAIN its : its[i].cell = its[j].cell => i = j
    PROVE  \A i \in DOMAIN its : Shortcuts!layoutShortcuts(its, g)[its[i].path] = its[i].cell
<1> DEFINE n == Len(its)
<1>1. n \in Nat /\ DOMAIN its = 1..n /\ \A i \in 1..n : its[i] \in Shortcuts!Shortcut
  BY LenProperties, ElementOfSeq DEF Iconed
<1>2. PICK f, h : Loops(its, g, f, h)
  BY LayoutLoops
<1>3. /\ f[0] = Shortcuts!Nowhere /\ h[0] = f[n]
      /\ \A i \in 1..n : f[i] = Shortcuts!PlaceStored(f[i - 1], its[i], g)
      /\ \A i \in 1..n : h[i] = Shortcuts!PlaceFree(h[i - 1], its[i], g)
      /\ Shortcuts!layoutShortcuts(its, g) = h[n].at
  BY <1>2 DEF Loops
<1> HIDE DEF n
<1> DEFINE Stands(m) ==
             /\ LaidOut(f[m], g)
             /\ DOMAIN f[m].at = {its[j].path : j \in 1..m} /\ f[m].taken = {its[j].cell : j \in 1..m}
             /\ \A j \in 1..m : f[m].at[its[j].path] = its[j].cell
           Good == {m \in Nat : m <= n => Stands(m)}
<1>4. Stands(0)
  <2>1. f[0].at = [p \in {} |-> None] /\ f[0].taken = {}
    BY <1>3 DEF Shortcuts!Nowhere
  <2>2. DOMAIN f[0].at = {}
    BY <2>1
  <2> QED
    BY <2>1, <2>2 DEF LaidOut
<1>5. ASSUME NEW m \in Nat, m + 1 <= n, Stands(m) PROVE Stands(m + 1)
  <2> DEFINE s == its[m + 1]
             l == f[m]
             x == Shortcuts!Give(l, s.path, s.cell)
  <2>1. m + 1 \in 1..n /\ m + 1 - 1 = m /\ f[m + 1] = Shortcuts!PlaceStored(l, s, g)
    BY <1>1, <1>3, <1>5
  <2>2. s.cell \in Shortcuts!Cells(g) /\ s.cell \in Shortcuts!Cell
    <3>1. s.cell \in Shortcuts!Cells(g)
      BY <1>1, <2>1
    <3> QED
      BY <3>1 DEF Shortcuts!Cells, Shortcuts!Cell, Grid
  <2>3. Shortcuts!Pulled(s.cell, g) = s.cell /\ s.cell # None
    BY <2>2, PulledIn, ShortcutsAssumption
  <2>4. \A j \in 1..m : j \in 1..n /\ j # m + 1
    BY <1>1, <1>5
  <2>5. s.cell \notin l.taken /\ s.path \notin DOMAIN l.at
    BY <1>1, <1>5, <2>1, <2>4
  <2>6. f[m + 1] = x
    BY <2>1, <2>3, <2>5 DEF Shortcuts!PlaceStored
  <2>7. /\ LaidOut(x, g) /\ DOMAIN x.at = DOMAIN l.at \cup {s.path} /\ x.taken = l.taken \cup {s.cell}
        /\ x.at[s.path] = s.cell /\ \A q \in DOMAIN l.at \ {s.path} : x.at[q] = l.at[q]
    <3>1. LaidOut(l, g)
      BY <1>5
    <3> QED
      BY <3>1, <2>2, Gives
  <2> HIDE DEF x
  <2>8. \A j \in 1..(m + 1) : j \in 1..m \/ j = m + 1
    OBVIOUS
  <2>9. \A j \in 1..m : j \in 1..(m + 1)
    OBVIOUS
  <2>10. m + 1 \in 1..(m + 1)
    OBVIOUS
  <2>11. /\ DOMAIN x.at = {its[j].path : j \in 1..(m + 1)}
         /\ x.taken = {its[j].cell : j \in 1..(m + 1)}
    BY <1>5, <2>7, <2>8, <2>9, <2>10
  <2>12. \A j \in 1..(m + 1) : x.at[its[j].path] = its[j].cell
    <3> SUFFICES ASSUME NEW j \in 1..(m + 1) PROVE x.at[its[j].path] = its[j].cell
      OBVIOUS
    <3>1. CASE j = m + 1
      BY <3>1, <2>7
    <3>2. CASE j \in 1..m
      BY <3>2, <2>5, <2>7, <1>5
    <3> QED
      BY <3>1, <3>2, <2>8
  <2> QED
    BY <2>6, <2>7, <2>11, <2>12
<1>6. Nat \subseteq Good
  <2> HIDE DEF Stands
  <2>1. 0 \in Good
    BY <1>4
  <2>2. ASSUME NEW m \in Nat, m \in Good PROVE m + 1 \in Good
    BY <1>1, <1>5, <2>2
  <2> HIDE DEF Good
  <2> QED
    BY <2>1, <2>2, Inductive
<1>7. Stands(n)
  <2> HIDE DEF Stands
  <2> QED
    BY <1>1, <1>6
<1> DEFINE Same == {m \in Nat : m <= n => h[m] = f[n]}
<1>8. Nat \subseteq Same
  <2>1. 0 \in Same
    BY <1>3
  <2>2. ASSUME NEW m \in Nat, m \in Same PROVE m + 1 \in Same
    <3> SUFFICES ASSUME m + 1 <= n PROVE h[m + 1] = f[n]
      OBVIOUS
    <3>1. m + 1 \in 1..n /\ m + 1 - 1 = m /\ h[m + 1] = Shortcuts!PlaceFree(h[m], its[m + 1], g)
      BY <1>1, <1>3
    <3>2. h[m] = f[n]
      BY <1>1, <2>2
    <3>3. its[m + 1].path \in DOMAIN f[n].at
      BY <1>7, <3>1
    <3> QED
      BY <3>1, <3>2, <3>3 DEF Shortcuts!PlaceFree
  <2> HIDE DEF Same
  <2> QED
    BY <2>1, <2>2, Inductive
<1>9. h[n] = f[n]
  BY <1>1, <1>8
<1> QED
  BY <1>1, <1>3, <1>7, <1>9

LEMMA ShortcutsCardinality == \A S : Shortcuts!Cardinality(S) = Cardinality(S)
  BY DEF Shortcuts!Cardinality, Cardinality

(* As many cells as shortcuts: no two of them share a path or a cell.           *)
LEMMA DistinctApart ==
    ASSUME NEW its, Iconed(its), NEW g \in Grid, NEW at, at = Shortcuts!layoutShortcuts(its, g),
           Cardinality({at[p] : p \in DOMAIN at}) = Len(its)
    PROVE  \A i, j \in DOMAIN its : at[its[i].path] = at[its[j].path] => i = j
<1> DEFINE n == Len(its)
           On == {at[p] : p \in DOMAIN at}
           to == [i \in 1..n |-> at[its[i].path]]
<1>1. n \in Nat /\ DOMAIN its = 1..n
  BY LenProperties DEF Iconed
<1>2. DOMAIN at = Shortcuts!Paths(its)
  BY LayoutApart
<1> HIDE DEF n
<1>3. to \in Surjection(1..n, On)
  <2>1. \A i \in 1..n : its[i].path \in DOMAIN at
    BY <1>1, <1>2 DEF Shortcuts!Paths
  <2>2. to \in [1..n -> On]
    BY <2>1
  <2>3. ASSUME NEW c \in On PROVE \E i \in 1..n : to[i] = c
    <3>1. PICK p \in DOMAIN at : c = at[p]
      OBVIOUS
    <3>2. PICK i \in 1..n : p = its[i].path
      BY <1>1, <1>2 DEF Shortcuts!Paths
    <3> QED
      BY <3>1, <3>2
  <2> HIDE DEF to, On
  <2> QED
    BY <2>2, <2>3 DEF Surjection
<1>4. IsFiniteSet(1..n) /\ Cardinality(1..n) = Cardinality(On)
  <2>1. Cardinality(1..n) = IF 1 > n THEN 0 ELSE n - 1 + 1
    BY <1>1, FS_Interval
  <2>2. IsFiniteSet(1..n)
    <3>1. 1 \in Int /\ n \in Int
      BY <1>1
    <3> HIDE DEF to, On
    <3> QED
      BY <3>1, FS_Interval
  <2>3. Cardinality(On) = n
    BY DEF n
  <2> QED
    BY <2>1, <2>2, <2>3, <1>1
<1>5. to \in Injection(1..n, On)
  <2> HIDE DEF to, On
  <2> QED
    BY <1>3, <1>4, FS_SurjSameCardinalityImpliesInj
<1>6. \A i, j \in 1..n : to[i] = to[j] => i = j
  BY <1>5 DEF Injection, IsInjective
<1> QED
  BY <1>1, <1>6

(* The list that a drop stores: the same paths, each with a cell of its own.     *)
Swapped(at, path, target, p) ==
    CASE p = path -> target
      [] p # path /\ at[p] = target -> at[path]
      [] OTHER -> at[p]

LEMMA ShortcutsMoved ==
    ASSUME NEW its, Iconed(its), NEW g \in Grid, NEW at, at = Shortcuts!layoutShortcuts(its, g),
           NEW path \in Shortcuts!Paths(its), NEW target \in Shortcuts!Cells(g)
    PROVE  LET moved == Shortcuts!moveShortcut(its, at, path, target)
           IN /\ Iconed(moved) /\ DOMAIN moved = DOMAIN its
              /\ \A i \in DOMAIN its : /\ moved[i].path = its[i].path
                                       /\ moved[i].cell = Swapped(at, path, target, its[i].path)
                                       /\ moved[i].cell \in Shortcuts!Cells(g)
<1> DEFINE n == Len(its)
           to(i) == Swapped(at, path, target, its[i].path)
           moved == Shortcuts!moveShortcut(its, at, path, target)
<1>1. n \in Nat /\ DOMAIN its = 1..n /\ \A i \in 1..n : its[i] \in Shortcuts!Shortcut
  BY LenProperties, ElementOfSeq DEF Iconed
<1>2. at \in [Shortcuts!Paths(its) -> Shortcuts!Cells(g)]
  BY LayoutApart
<1>3. moved = [i \in DOMAIN its |-> [its[i] EXCEPT !.cell = to(i)]]
  BY DEF Shortcuts!moveShortcut, Swapped
<1>4. \A i \in 1..n : to(i) \in Shortcuts!Cells(g)
  <2> SUFFICES ASSUME NEW i \in 1..n PROVE to(i) \in Shortcuts!Cells(g)
    OBVIOUS
  <2>1. its[i].path \in Shortcuts!Paths(its)
    BY <1>1 DEF Shortcuts!Paths
  <2> QED
    BY <1>2, <2>1 DEF Swapped
<1>5. Shortcuts!Cells(g) \subseteq Shortcuts!Cell
  BY DEF Shortcuts!Cells, Shortcuts!Cell, Grid
<1> HIDE DEF n, moved, to
<1>6. \A i \in 1..n : [its[i] EXCEPT !.cell = to(i)] \in Shortcuts!Shortcut
  BY <1>1, <1>4, <1>5 DEF Shortcuts!Shortcut
<1>7. \A i \in 1..n : /\ [its[i] EXCEPT !.cell = to(i)].path = its[i].path
                      /\ [its[i] EXCEPT !.cell = to(i)].cell = to(i)
  BY <1>1 DEF Shortcuts!Shortcut
<1>8. DOMAIN moved = 1..n /\ \A i \in 1..n : moved[i] = [its[i] EXCEPT !.cell = to(i)]
  BY <1>1, <1>3
<1>9. Iconed(moved)
  <2>1. moved = [i \in 1..n |-> moved[i]]
    BY <1>1, <1>3
  <2>2. \A i \in 1..n : moved[i] \in Shortcuts!Shortcut
    BY <1>6, <1>8
  <2> DEFINE T == Shortcuts!Shortcut
  <2> HIDE DEF T
  <2>3. \A i \in 1..n : moved[i] \in T
    BY <2>2 DEF T
  <2>4. moved \in Seq(T)
    BY <1>1, <2>1, <2>3
  <2> QED
    BY <2>4 DEF T, Iconed
<1>10. \A i \in DOMAIN its : /\ moved[i].path = its[i].path /\ moved[i].cell = to(i)
                             /\ moved[i].cell \in Shortcuts!Cells(g)
  <2> SUFFICES ASSUME NEW i \in 1..n
               PROVE  /\ moved[i].path = its[i].path /\ moved[i].cell = to(i)
                      /\ moved[i].cell \in Shortcuts!Cells(g)
    BY <1>1
  <2>1. moved[i].path = its[i].path /\ moved[i].cell = to(i)
    BY <1>7, <1>8
  <2>2. to(i) \in Shortcuts!Cells(g)
    BY <1>4
  <2> QED
    BY <2>1, <2>2
<1> QED
  BY <1>1, <1>8, <1>9, <1>10 DEF moved, to

LEMMA ShortcutsRead ==
    ASSUME NEW raw, Iconed(raw)
    PROVE  /\ Iconed(Shortcuts!parseShortcuts(raw))
           /\ (\A i, j \in DOMAIN raw : raw[i].path = raw[j].path => i = j) =>
                Shortcuts!parseShortcuts(raw) = raw
<1> DEFINE key == [i \in DOMAIN raw |-> [path |-> raw[i].path, serverId |-> raw[i].serverId]]
<1>1. \A s, S : Shortcuts!Keep(s, S) = Keep(s, S)
  BY DEF Shortcuts!Keep, Keep
<1>2. Shortcuts!FirstOf(raw, key) = FirstOf(raw, key)
  BY <1>1 DEF Shortcuts!FirstOf, FirstOf
<1>3. Shortcuts!parseShortcuts(raw) = FirstOf(raw, key)
  BY <1>2 DEF Shortcuts!parseShortcuts
<1>4. ASSUME \A i, j \in DOMAIN raw : raw[i].path = raw[j].path => i = j
      PROVE  \A i, j \in DOMAIN raw : key[i] = key[j] => i = j
  BY <1>4
<1> HIDE DEF key
<1> QED
  BY <1>3, <1>4, FirstsTaken DEF Iconed

-----------------------------------------------------------------------------
(* The icons: the lists are of shortcuts, and what a drop said stays true until  *)
(* the next step, which forgets it.                                           *)

Dragging == [path : {f.path : f \in Folders}, to : Shortcuts!Cell, moved : BOOLEAN]
ShortcutsShape ==
    /\ Iconed(stored) /\ Iconed(shortcuts) /\ grid \in Grid
    /\ drag # None => drag \in Dragging
ShortcutsIInv == ShortcutsShape /\ Shortcuts!DropPlaces

LEMMA ShortcutsImplies == ShortcutsIInv => ShortcutsInv
<1> SUFFICES ASSUME ShortcutsIInv PROVE Shortcuts!CellsApart
  BY DEF ShortcutsIInv, ShortcutsInv, Shortcuts!ShortcutsInv
<1>1. Iconed(shortcuts) /\ grid \in Grid
  BY DEF ShortcutsIInv, ShortcutsShape
<1>2. /\ Shortcuts!cells \in [Shortcuts!Paths(shortcuts) -> Shortcuts!Cells(grid)]
      /\ Len(shortcuts) <= Cardinality(Shortcuts!Cells(grid)) =>
           \A p, q \in DOMAIN Shortcuts!cells : Shortcuts!cells[p] = Shortcuts!cells[q] => p = q
  BY <1>1, LayoutApart DEF Shortcuts!cells
<1> QED
  BY <1>2, ShortcutsCardinality DEF Shortcuts!CellsApart, Shortcuts!OnCells

LEMMA ShortcutsInit == Shortcuts!Init => ShortcutsIInv
<1> SUFFICES ASSUME Shortcuts!Init PROVE ShortcutsIInv
  OBVIOUS
<1>1. Iconed(stored) /\ grid \in Grid
  BY ShortcutsAssumption DEF Shortcuts!Init, Iconed, Grid
<1>2. Iconed(shortcuts)
  BY <1>1, ShortcutsRead DEF Shortcuts!Init
<1> QED
  BY <1>1, <1>2 DEF Shortcuts!Init, ShortcutsIInv, ShortcutsShape, Shortcuts!DropPlaces

(* A list that is stored is read by this tab, at once or later.                 *)
LEMMA ShortcutsAdds == ASSUME ShortcutsIInv, Shortcuts!Add PROVE ShortcutsIInv'
<1> USE DEF ShortcutsIInv, ShortcutsShape
<1>1. PICK f \in Folders : Shortcuts!addDesktopShortcut(f)
  BY DEF Shortcuts!Add
<1> DEFINE now == Shortcuts!parseShortcuts(stored)
           s == [path |-> f.path, serverId |-> f.serverId, cell |-> None]
<1>2. Iconed(now)
  BY ShortcutsRead
<1>3. stored' = Append(now, s)
  BY <1>1 DEF Shortcuts!addDesktopShortcut
<1>4. s \in Shortcuts!Shortcut
  BY DEF Shortcuts!Shortcut
<1> HIDE DEF now, s
<1>5. Iconed(stored')
  <2> DEFINE T == Shortcuts!Shortcut
  <2> HIDE DEF T
  <2>1. now \in Seq(T) /\ s \in T
    BY <1>2, <1>4 DEF T, Iconed
  <2>2. Append(now, s) \in Seq(T)
    BY <2>1
  <2> QED
    BY <1>3, <2>2 DEF T, Iconed
<1>6. Iconed(Shortcuts!parseShortcuts(stored'))
  BY <1>5, ShortcutsRead
<1>7. shortcuts' \in {shortcuts, Shortcuts!parseShortcuts(stored')} /\ dropped' = None /\ UNCHANGED <<grid, drag>>
  BY DEF Shortcuts!Add
<1>8. Iconed(shortcuts')
  BY <1>6, <1>7
<1> QED
  BY <1>5, <1>7, <1>8 DEF Shortcuts!DropPlaces

LEMMA ShortcutsSyncs ==
    ASSUME ShortcutsIInv, Shortcuts!Synced \/ Shortcuts!Resize \/ Shortcuts!Remount
    PROVE  ShortcutsIInv'
<1> USE DEF ShortcutsIInv, ShortcutsShape
<1>1. Iconed(Shortcuts!parseShortcuts(stored))
  BY ShortcutsRead
<1>2. CASE Shortcuts!Synced
  BY <1>1, <1>2 DEF Shortcuts!Synced, Shortcuts!DropPlaces
<1>3. CASE Shortcuts!Resize
  BY <1>3, ShortcutsAssumption DEF Shortcuts!Resize, Grid, Shortcuts!DropPlaces
<1>4. CASE Shortcuts!Remount
  BY <1>1, <1>4 DEF Shortcuts!Remount, Shortcuts!DropPlaces
<1> QED
  BY <1>2, <1>3, <1>4

LEMMA ShortcutsRemoves == ASSUME ShortcutsIInv, Shortcuts!RemoveItem PROVE ShortcutsIInv'
<1> USE DEF ShortcutsIInv, ShortcutsShape
<1> DEFINE now == Shortcuts!parseShortcuts(stored)
           others == {s \in Shortcuts!ToSet(now) : s.path # menu}
<1>1. Iconed(now)
  BY ShortcutsRead
<1>2. stored' = Keep(now, others) /\ shortcuts' = Shortcuts!parseShortcuts(Keep(now, others))
  <2>1. \A s, S : Shortcuts!Keep(s, S) = Keep(s, S)
    BY DEF Shortcuts!Keep, Keep
  <2> QED
    BY <2>1 DEF Shortcuts!RemoveItem, Shortcuts!removeDesktopShortcut, Shortcuts!saveDesktopShortcuts
<1> HIDE DEF now, others
<1>3. Iconed(Keep(now, others))
  BY <1>1, Keeps DEF Iconed
<1>4. Iconed(Shortcuts!parseShortcuts(Keep(now, others)))
  BY <1>3, ShortcutsRead
<1> QED
  BY <1>2, <1>3, <1>4 DEF Shortcuts!RemoveItem, Shortcuts!DropPlaces

LEMMA ShortcutsPressed ==
    ASSUME ShortcutsIInv, NEW p \in Shortcuts!Paths(shortcuts),
           Shortcuts!onPointerDown(p) \/ Shortcuts!onContextMenu(p)
    PROVE  ShortcutsIInv'
<1> USE DEF ShortcutsIInv, ShortcutsShape
<1>1. CASE Shortcuts!onPointerDown(p)
  <2>1. Shortcuts!cells[p] \in Shortcuts!Cell
    <3>1. Shortcuts!cells \in [Shortcuts!Paths(shortcuts) -> Shortcuts!Cells(grid)]
      BY LayoutApart DEF Shortcuts!cells
    <3>2. Shortcuts!Cells(grid) \subseteq Shortcuts!Cell
      BY DEF Shortcuts!Cells, Shortcuts!Cell, Grid
    <3> QED
      BY <3>1, <3>2
  <2>2. p \in {f.path : f \in Folders}
    <3>1. \A i \in DOMAIN shortcuts : shortcuts[i] \in Shortcuts!Shortcut
      BY LenProperties, ElementOfSeq DEF Iconed
    <3> QED
      BY <3>1 DEF Shortcuts!Paths, Shortcuts!Shortcut
  <2>3. drag' \in Dragging
    BY <1>1, <2>1, <2>2 DEF Shortcuts!onPointerDown, Dragging
  <2> QED
    BY <1>1, <2>3 DEF Shortcuts!onPointerDown, Shortcuts!DropPlaces
<1>2. CASE Shortcuts!onContextMenu(p)
  BY <1>2 DEF Shortcuts!onContextMenu, Shortcuts!DropPlaces
<1> QED
  BY <1>1, <1>2

LEMMA ShortcutsDragged ==
    ASSUME ShortcutsIInv, NEW g \in Grids, NEW c \in Shortcuts!Cells(g), Shortcuts!onPointerMove(c)
    PROVE  ShortcutsIInv'
<1> USE DEF ShortcutsIInv, ShortcutsShape
<1>1. c \in Shortcuts!Cell
  BY ShortcutsAssumption DEF Shortcuts!Cells, Shortcuts!Cell
<1>2. Iconed(Shortcuts!parseShortcuts(stored))
  BY ShortcutsRead
<1> DEFINE at == [drag EXCEPT !.to = c]
<1>3. drag \in Dragging /\ drag' = [drag EXCEPT !.to = c, !.moved = TRUE]
  BY DEF Shortcuts!onPointerMove
<1>4. at \in Dragging
  BY <1>1, <1>3 DEF Dragging
<1>5. drag' = [at EXCEPT !.moved = TRUE]
  BY <1>3
<1> HIDE DEF at
<1>6. drag' \in Dragging
  BY <1>4, <1>5 DEF Dragging
<1> QED
  BY <1>2, <1>6 DEF Shortcuts!onPointerMove, Shortcuts!DropPlaces

LEMMA ShortcutsDropped == ASSUME ShortcutsIInv, Shortcuts!onPointerUp PROVE ShortcutsIInv'
<1> USE DEF ShortcutsIInv, ShortcutsShape
<1>1. drag' = None /\ grid' = grid /\ drag \in Dragging
  BY DEF Shortcuts!onPointerUp
<1>2. CASE ~(drag.moved /\ drag.path \in Shortcuts!Paths(shortcuts))
  BY <1>1, <1>2 DEF Shortcuts!onPointerUp, Shortcuts!DropPlaces
<1>3. CASE drag.moved /\ drag.path \in Shortcuts!Paths(shortcuts)
  <2> DEFINE at == Shortcuts!cells
             path == drag.path
             target == Shortcuts!Pulled(drag.to, grid)
             moved == Shortcuts!moveShortcut(shortcuts, at, path, target)
             apart == Shortcuts!Cardinality(Shortcuts!OnCells) = Len(shortcuts)
  <2>1. /\ stored' = moved /\ shortcuts' = Shortcuts!parseShortcuts(moved)
        /\ dropped' = [path |-> path, target |-> target, before |-> at, distinct |-> apart]
    BY <1>3 DEF Shortcuts!onPointerUp, Shortcuts!saveDesktopShortcuts
  <2>2. target \in Shortcuts!Cells(grid)
    BY <1>1, PulledIn DEF Dragging
  <2>3. at = Shortcuts!layoutShortcuts(shortcuts, grid)
    BY DEF Shortcuts!cells
  <2>4. apart = (Cardinality({at[p] : p \in DOMAIN at}) = Len(shortcuts))
    BY ShortcutsCardinality DEF Shortcuts!OnCells
  <2>5. path \in Shortcuts!Paths(shortcuts) /\ Iconed(shortcuts) /\ grid \in Grid
    BY <1>3
  <2> HIDE DEF at, path, target, apart
  <2>6. /\ Iconed(moved) /\ DOMAIN moved = DOMAIN shortcuts
        /\ \A i \in DOMAIN shortcuts :
             /\ moved[i].path = shortcuts[i].path
             /\ moved[i].cell = Swapped(at, path, target, shortcuts[i].path)
             /\ moved[i].cell \in Shortcuts!Cells(grid)
    BY <2>2, <2>3, <2>5, ShortcutsMoved
  <2>7. at \in [Shortcuts!Paths(shortcuts) -> Shortcuts!Cells(grid)]
    BY <2>3, <2>5, LayoutApart
  <2> HIDE DEF moved
  <2>8. ASSUME apart, NEW p \in DOMAIN at
        PROVE  Shortcuts!layoutShortcuts(shortcuts', grid)[p] = Swapped(at, path, target, p)
    <3>1. \A i, j \in DOMAIN shortcuts : at[shortcuts[i].path] = at[shortcuts[j].path] => i = j
      <4>1. Cardinality({at[q] : q \in DOMAIN at}) = Len(shortcuts)
        BY <2>4, <2>8
      <4>2. Iconed(shortcuts) /\ grid \in Grid
        BY <2>5
      <4> QED
        BY <2>3, <4>1, <4>2, DistinctApart
    <3>2. \A i, j \in DOMAIN moved : moved[i].path = moved[j].path => i = j
      BY <2>6, <3>1
    <3>3. \A i, j \in DOMAIN moved : moved[i].cell = moved[j].cell => i = j
      <4> SUFFICES ASSUME NEW i \in DOMAIN shortcuts, NEW j \in DOMAIN shortcuts,
                          Swapped(at, path, target, shortcuts[i].path) =
                            Swapped(at, path, target, shortcuts[j].path)
                   PROVE  i = j
        BY <2>6
      <4>1. PICK k \in DOMAIN shortcuts : path = shortcuts[k].path
        BY <2>5 DEF Shortcuts!Paths
      <4> QED
        BY <3>1, <4>1 DEF Swapped
    <3>4. shortcuts' = moved
      BY <2>1, <2>6, <3>2, ShortcutsRead
    <3>5. \A i \in DOMAIN moved : Shortcuts!layoutShortcuts(moved, grid)[moved[i].path] = moved[i].cell
      <4>1. \A i \in DOMAIN moved : moved[i].cell \in Shortcuts!Cells(grid)
        BY <2>6
      <4> QED
        BY <4>1, <2>5, <2>6, <3>2, <3>3, LayoutKeeps
    <3>6. PICK i \in DOMAIN shortcuts : p = shortcuts[i].path
      BY <2>7, <2>8 DEF Shortcuts!Paths
    <3> QED
      BY <2>6, <3>4, <3>5, <3>6
  <2>9. Shortcuts!DropPlaces'
    <3>1. Shortcuts!cells' = Shortcuts!layoutShortcuts(shortcuts', grid)
      BY <1>1 DEF Shortcuts!cells
    <3>2. /\ dropped'.distinct = apart /\ dropped'.before = at
          /\ dropped'.path = path /\ dropped'.target = target
      BY <2>1
    <3> QED
      BY <2>8, <3>1, <3>2 DEF Shortcuts!DropPlaces, Swapped
  <2>10. Iconed(stored') /\ Iconed(shortcuts')
    BY <2>1, <2>6, ShortcutsRead
  <2> QED
    BY <1>1, <2>5, <2>9, <2>10
<1> QED
  BY <1>2, <1>3

LEMMA ShortcutsKept == ASSUME ShortcutsIInv, UNCHANGED shortcutsVars PROVE ShortcutsIInv'
  BY DEF ShortcutsIInv, ShortcutsShape, Shortcuts!DropPlaces, Shortcuts!cells, shortcutsVars

LEMMA ShortcutsNext == ASSUME ShortcutsIInv, Shortcuts!Next PROVE ShortcutsIInv'
<1>1. CASE Shortcuts!onPointerCancel
  BY <1>1 DEF Shortcuts!onPointerCancel, ShortcutsIInv, ShortcutsShape, Shortcuts!DropPlaces
<1>2. CASE Shortcuts!Icons
  BY <1>1, <1>2, ShortcutsPressed, ShortcutsDragged, ShortcutsDropped DEF Shortcuts!Icons
<1> QED
  BY <1>2, ShortcutsAdds, ShortcutsSyncs, ShortcutsRemoves DEF Shortcuts!Next

LEMMA ShortcutsStep == ShortcutsIInv /\ [Next]_vars => ShortcutsIInv'
<1> SUFFICES ASSUME ShortcutsIInv, [Next]_vars PROVE ShortcutsIInv'
  OBVIOUS
<1>1. CASE UNCHANGED shortcutsVars
  BY <1>1, ShortcutsKept
<1>2. CASE Shortcuts!Next
  BY <1>2, ShortcutsNext
<1>3. CASE DesktopSwitch
  BY <1>3, ShortcutsSyncs DEF DesktopSwitch
<1> QED
  BY <1>1, <1>2, <1>3 DEF Next, Other, vars

(* Every icon is in the grid, and no two share a cell while there is room; an     *)
(* icon that is let go stands where it was dropped, the one it found there where *)
(* it came from, and no third one moves - whatever other tabs add and remove and *)
(* however the grid is resized (DesktopShortcuts.tsx, desktop-shortcuts.ts).     *)
THEOREM ShortcutsInvariance == Spec => []ShortcutsInv
<1>1. Init => ShortcutsIInv
  BY ShortcutsInit DEF Init
<1> QED
  BY <1>1, ShortcutsStep, ShortcutsImplies, PTL DEF Spec
===============================================================================
