---------------------------- MODULE FilesProofs ----------------------------
(***************************************************************************)
(* Theorems about a Files window (Files), for any number of servers, files  *)
(* and operations.                                                          *)
(***************************************************************************)
EXTENDS Files, FiniteSetTheorems, SequenceTheorems, TLAPS

-----------------------------------------------------------------------------
(* Paths: sequences, of whatever names.                                       *)

IsPath(p) == \E S : p \in Seq(S)

LEMMA PathLen ==
    ASSUME NEW p, IsPath(p)
    PROVE  Len(p) \in Nat /\ DOMAIN p = 1..Len(p) /\ (p = <<>> <=> Len(p) = 0)
<1>1. PICK S : p \in Seq(S)
  BY DEF IsPath
<1> QED
  BY <1>1, LenProperties, EmptySeq

LEMMA PathEqual ==
    ASSUME NEW p, NEW q, IsPath(p), IsPath(q), Len(p) = Len(q), \A i \in 1..Len(p) : p[i] = q[i]
    PROVE  p = q
<1>1. PICK S, T : p \in Seq(S) /\ q \in Seq(T)
  BY DEF IsPath
<1>2. p \in Seq(S \cup T) /\ q \in Seq(S \cup T)
  BY <1>1, SeqMonotonic
<1> QED
  BY <1>2, SeqEqual

LEMMA EmptyPath == IsPath(<<>>)
BY EmptySeq DEF IsPath

(* The names of a path from the i-th to the j-th.                              *)
LEMMA Piece ==
    ASSUME NEW p, IsPath(p), NEW m \in Nat, m <= Len(p)
    PROVE  /\ IsPath(SubSeq(p, 1, m)) /\ Len(SubSeq(p, 1, m)) = m
           /\ \A i \in 1..m : SubSeq(p, 1, m)[i] = p[i]
<1>1. PICK S : p \in Seq(S)
  BY DEF IsPath
<1>2. Len(p) \in Nat
  BY PathLen
<1>3. \A i \in 1..m : p[i] \in S
  BY <1>1, <1>2, ElementOfSeq
<1>4. /\ SubSeq(p, 1, m) \in Seq(S)
      /\ Len(SubSeq(p, 1, m)) = IF 1 <= m THEN m - 1 + 1 ELSE 0
      /\ \A i \in 1..(m - 1 + 1) : SubSeq(p, 1, m)[i] = p[1 + i - 1]
  BY <1>3, SubSeqProperties
<1>5. (IF 1 <= m THEN m - 1 + 1 ELSE 0) = m /\ m - 1 + 1 = m /\ \A i \in Nat : 1 + i - 1 = i
  OBVIOUS
<1>6. \A i \in 1..m : SubSeq(p, 1, m)[i] = p[i]
  <2> TAKE i \in 1..m
  <2>1. SubSeq(p, 1, m)[i] = p[1 + i - 1]
    BY <1>4, <1>5
  <2>2. 1 + i - 1 = i
    OBVIOUS
  <2> QED
    BY <2>1, <2>2
<1> QED
  BY <1>4, <1>5, <1>6 DEF IsPath

LEMMA Joined ==
    ASSUME NEW p, IsPath(p), NEW n
    PROVE  /\ IsPath(joinPath(p, n)) /\ Len(joinPath(p, n)) = Len(p) + 1
           /\ joinPath(p, n) # <<>>
           /\ \A i \in 1..Len(p) : joinPath(p, n)[i] = p[i]
<1>1. PICK S : p \in Seq(S)
  BY DEF IsPath
<1>2. p \in Seq(S \cup {n})
  BY <1>1, SeqMonotonic
<1>3. /\ Append(p, n) \in Seq(S \cup {n}) /\ Len(Append(p, n)) = Len(p) + 1
      /\ \A i \in 1..Len(p) : Append(p, n)[i] = p[i]
  BY <1>2
<1>4. Len(p) \in Nat
  BY PathLen
<1> QED
  BY <1>3, <1>4, EmptySeq DEF IsPath, joinPath

LEMMA Parent ==
    ASSUME NEW p, IsPath(p)
    PROVE  /\ IsPath(parentPath(p))
           /\ p # <<>> => Len(parentPath(p)) = Len(p) - 1
           /\ \A i \in 1..(Len(p) - 1) : parentPath(p)[i] = p[i]
<1>2. Len(p) \in Nat /\ (p = <<>> <=> Len(p) = 0)
  BY PathLen
<1>3. CASE p = <<>>
  BY <1>2, <1>3, EmptyPath DEF parentPath
<1>4. CASE p # <<>>
  <2> DEFINE m == Len(p) - 1
  <2>1. m \in Nat /\ m <= Len(p)
    BY <1>2, <1>4
  <2>2. parentPath(p) = SubSeq(p, 1, m)
    BY <1>4 DEF parentPath, Front
  <2> HIDE DEF m
  <2>3. /\ IsPath(parentPath(p)) /\ Len(parentPath(p)) = m
        /\ \A i \in 1..m : parentPath(p)[i] = p[i]
    BY <2>1, <2>2, Piece
  <2> QED
    BY <2>3 DEF m
<1> QED
  BY <1>3, <1>4

LEMMA ParentOfJoined ==
    ASSUME NEW p, IsPath(p), NEW n
    PROVE  parentPath(joinPath(p, n)) = p
<1> DEFINE q == joinPath(p, n)
<1>1. IsPath(q) /\ Len(q) = Len(p) + 1 /\ q # <<>> /\ \A i \in 1..Len(p) : q[i] = p[i]
  BY Joined
<1> HIDE DEF q
<1>2. Len(p) \in Nat
  BY PathLen
<1>3. /\ IsPath(parentPath(q)) /\ Len(parentPath(q)) = Len(p)
      /\ \A i \in 1..Len(p) : parentPath(q)[i] = p[i]
  BY <1>1, <1>2, Parent
<1>4. parentPath(q) = p
  BY <1>3, PathEqual
<1> QED
  BY <1>4 DEF q

(* Within(p, q): q is the item at p, or one in it.                             *)
LEMMA Within ==
    ASSUME NEW p, NEW q, IsPath(p), IsPath(q)
    PROVE  IsPrefix(p, q) <=> Len(p) <= Len(q) /\ \A i \in 1..Len(p) : p[i] = q[i]
<1>1. PICK S : p \in Seq(S)
  BY DEF IsPath
<1>2. Len(p) \in Nat /\ Len(q) \in Nat
  BY PathLen
<1>3. SubSeq(p, 1, Len(p)) = p
  BY <1>1, SubSeqFull
<1>4. ASSUME Len(p) <= Len(q)
      PROVE  /\ IsPath(SubSeq(q, 1, Len(p))) /\ Len(SubSeq(q, 1, Len(p))) = Len(p)
             /\ \A i \in 1..Len(p) : SubSeq(q, 1, Len(p))[i] = q[i]
  BY <1>2, <1>4, Piece
<1>5. ASSUME Len(p) <= Len(q), \A i \in 1..Len(p) : p[i] = q[i]
      PROVE  p = SubSeq(q, 1, Len(p))
  BY <1>4, <1>5, PathEqual
<1>6. ASSUME Len(p) <= Len(q), p = SubSeq(q, 1, Len(p))
      PROVE  \A i \in 1..Len(p) : p[i] = q[i]
  BY <1>4, <1>6
<1> QED
  BY <1>3, <1>5, <1>6 DEF IsPrefix

LEMMA WithinItself == ASSUME NEW p, IsPath(p) PROVE IsPrefix(p, p)
BY Within, PathLen

LEMMA WithinTwice ==
    ASSUME NEW p, NEW q, NEW r, IsPath(p), IsPath(q), IsPath(r),
           IsPrefix(p, q), IsPrefix(q, r)
    PROVE  IsPrefix(p, r)
<1>1. Len(p) \in Nat /\ Len(q) \in Nat /\ Len(r) \in Nat
  BY PathLen
<1> QED
  BY <1>1, Within

LEMMA WithinEachOther ==
    ASSUME NEW p, NEW q, IsPath(p), IsPath(q), IsPrefix(p, q), Len(q) <= Len(p)
    PROVE  p = q
<1>1. Len(p) \in Nat /\ Len(q) \in Nat
  BY PathLen
<1> QED
  BY <1>1, Within, PathEqual

LEMMA BothAround ==
    ASSUME NEW p, NEW q, NEW r, IsPath(p), IsPath(q), IsPath(r),
           IsPrefix(p, r), IsPrefix(q, r), Len(p) <= Len(q)
    PROVE  IsPrefix(p, q)
<1>1. Len(p) \in Nat /\ Len(q) \in Nat /\ Len(r) \in Nat
  BY PathLen
<1> QED
  BY <1>1, Within

LEMMA WithinParent ==
    ASSUME NEW p, NEW q, IsPath(p), IsPath(q), IsPrefix(p, q), p # q
    PROVE  IsPrefix(p, parentPath(q))
<1>1. Len(p) \in Nat /\ Len(q) \in Nat
  BY PathLen
<1>2. Len(p) < Len(q)
  BY <1>1, Within, PathEqual
<1>3. q # <<>>
  BY <1>1, <1>2, PathLen
<1>4. IsPath(parentPath(q)) /\ Len(parentPath(q)) = Len(q) - 1
      /\ \A i \in 1..(Len(q) - 1) : parentPath(q)[i] = q[i]
  BY <1>3, Parent
<1> QED
  BY <1>1, <1>2, <1>4, Within

(* What is at q within `from`, once `from` is at `to`.                         *)
Under(to, from, q) == to \o SubSeq(q, Len(from) + 1, Len(q))

IsUnder(r, to, from, q) ==
    /\ IsPath(r) /\ Len(r) = Len(to) + Len(q) - Len(from)
    /\ \A i \in 1..Len(to) : r[i] = to[i]
    /\ \A i \in 1..(Len(q) - Len(from)) : r[Len(to) + i] = q[Len(from) + i]

LEMMA UnderIs ==
    ASSUME NEW to, NEW from, NEW q, IsPath(to), IsPath(from), IsPath(q), IsPrefix(from, q)
    PROVE  IsUnder(Under(to, from, q), to, from, q)
<1>1. PICK S, T : to \in Seq(S) /\ q \in Seq(T)
  BY DEF IsPath
<1>2. Len(to) \in Nat /\ Len(q) \in Nat /\ Len(from) \in Nat /\ Len(from) <= Len(q)
  BY PathLen, Within
<1>3. \A i \in (Len(from) + 1)..Len(q) : q[i] \in T
  BY <1>1, <1>2, ElementOfSeq
<1> DEFINE m == Len(from) + 1
           rest == SubSeq(q, m, Len(q))
<1>4. m \in Int /\ Len(q) \in Int /\ \A i \in m..Len(q) : q[i] \in T
  BY <1>2, <1>3
<1>5. /\ rest \in Seq(T)
      /\ Len(rest) = IF m <= Len(q) THEN Len(q) - m + 1 ELSE 0
      /\ \A i \in 1..(Len(q) - m + 1) : rest[i] = q[m + i - 1]
  <2> HIDE DEF m
  <2> QED
    BY <1>4, SubSeqProperties
<1>6. /\ Len(rest) = Len(q) - Len(from)
      /\ \A i \in 1..(Len(q) - Len(from)) : rest[i] = q[Len(from) + i]
  <2>1. Len(q) - m + 1 = Len(q) - Len(from)
    BY <1>2
  <2>2. (IF m <= Len(q) THEN Len(q) - m + 1 ELSE 0) = Len(q) - Len(from)
    BY <1>2
  <2>3. ASSUME NEW i \in 1..(Len(q) - Len(from)) PROVE rest[i] = q[Len(from) + i]
    <3>1. m + i - 1 = Len(from) + i
      BY <1>2
    <3> HIDE DEF m, rest
    <3>2. rest[i] = q[m + i - 1]
      BY <1>5, <2>1, <2>3
    <3> QED
      BY <3>1, <3>2
  <2> HIDE DEF m, rest
  <2> QED
    BY <1>5, <2>2, <2>3
<1> HIDE DEF m, rest
<1>7. to \in Seq(S \cup T) /\ rest \in Seq(S \cup T)
  BY <1>1, <1>5, SeqMonotonic
<1>8. /\ to \o rest \in Seq(S \cup T) /\ Len(to \o rest) = Len(to) + Len(rest)
      /\ \A i \in 1..(Len(to) + Len(rest)) :
           (to \o rest)[i] = IF i <= Len(to) THEN to[i] ELSE rest[i - Len(to)]
  BY <1>7, ConcatProperties
<1>9. Under(to, from, q) = to \o rest
  BY DEF Under, rest, m
<1>10. \A i \in 1..(Len(q) - Len(from)) : (to \o rest)[Len(to) + i] = q[Len(from) + i]
  <2> TAKE i \in 1..(Len(q) - Len(from))
  <2>1. Len(to) + i \in 1..(Len(to) + Len(rest)) /\ ~(Len(to) + i <= Len(to))
        /\ (Len(to) + i) - Len(to) = i
    BY <1>2, <1>6
  <2> QED
    BY <1>6, <1>8, <2>1
<1>11. \A i \in 1..Len(to) : (to \o rest)[i] = to[i]
  BY <1>2, <1>6, <1>8
<1> QED
  BY <1>2, <1>6, <1>8, <1>9, <1>10, <1>11 DEF IsPath, IsUnder

LEMMA UnderThere ==
    ASSUME NEW to, NEW from, NEW q, IsPath(to), IsPath(from), IsPath(q), IsPrefix(from, q)
    PROVE  IsPrefix(to, Under(to, from, q)) /\ Under(from, to, Under(to, from, q)) = q
<1> DEFINE r == Under(to, from, q)
           b == Under(from, to, r)
<1>1. Len(to) \in Nat /\ Len(q) \in Nat /\ Len(from) \in Nat /\ Len(from) <= Len(q)
      /\ \A i \in 1..Len(from) : from[i] = q[i]
  BY PathLen, Within
<1>2. IsPath(r) /\ Len(r) = Len(to) + Len(q) - Len(from)
      /\ (\A i \in 1..Len(to) : r[i] = to[i])
      /\ \A i \in 1..(Len(q) - Len(from)) : r[Len(to) + i] = q[Len(from) + i]
  BY UnderIs DEF IsUnder
<1> HIDE DEF r
<1>3. IsPrefix(to, r)
  BY <1>1, <1>2, Within
<1>4. IsPath(b) /\ Len(b) = Len(from) + Len(r) - Len(to)
      /\ (\A i \in 1..Len(from) : b[i] = from[i])
      /\ \A i \in 1..(Len(r) - Len(to)) : b[Len(from) + i] = r[Len(to) + i]
  <2>1. IsPath(from) /\ IsPath(to) /\ IsPath(r) /\ IsPrefix(to, r)
    BY <1>2, <1>3
  <2> HIDE DEF b
  <2>2. b = Under(from, to, r)
    BY DEF b
  <2> QED
    BY <2>1, <2>2, UnderIs DEF IsUnder
<1> HIDE DEF b
<1>5. Len(b) = Len(q) /\ Len(r) - Len(to) = Len(q) - Len(from)
  BY <1>1, <1>2, <1>4
<1>6. ASSUME NEW i \in 1..Len(b) PROVE b[i] = q[i]
  <2>1. CASE i <= Len(from)
    BY <1>1, <1>4, <1>5, <2>1
  <2>2. CASE i > Len(from)
    <3>1. i - Len(from) \in 1..(Len(q) - Len(from)) /\ Len(from) + (i - Len(from)) = i
      BY <1>1, <1>5, <2>2
    <3> QED
      BY <1>2, <1>4, <1>5, <3>1
  <2> QED
    BY <1>1, <1>5, <2>1, <2>2
<1>7. b = q
  <2>1. IsPath(b) /\ Len(b) = Len(q) /\ \A i \in 1..Len(b) : b[i] = q[i]
    BY <1>4, <1>5, <1>6
  <2> QED
    BY <2>1, PathEqual
<1> QED
  BY <1>3, <1>7 DEF r, b

(* What is within an item is within it wherever the item is.                  *)
LEMMA UnderKeeps ==
    ASSUME NEW to, NEW from, NEW p, NEW q, IsPath(to), IsPath(from), IsPath(p), IsPath(q),
           IsPrefix(from, p), IsPrefix(p, q)
    PROVE  IsPrefix(Under(to, from, p), Under(to, from, q))
<1> DEFINE a == Under(to, from, p)
           b == Under(to, from, q)
<1> HIDE DEF a, b
<1>0. a = Under(to, from, p) /\ b = Under(to, from, q)
  BY DEF a, b
<1>1. /\ Len(to) \in Nat /\ Len(p) \in Nat /\ Len(q) \in Nat /\ Len(from) \in Nat
      /\ Len(from) <= Len(p) /\ Len(p) <= Len(q) /\ \A i \in 1..Len(p) : p[i] = q[i]
      /\ IsPrefix(from, q)
  BY PathLen, Within, WithinTwice
<1>2. IsUnder(a, to, from, p)
  BY <1>0, UnderIs
<1>3. IsUnder(b, to, from, q)
  BY <1>0, <1>1, UnderIs
<1>4. ASSUME NEW i \in 1..Len(a) PROVE a[i] = b[i]
  <2>1. CASE i <= Len(to)
    BY <1>1, <1>2, <1>3, <2>1 DEF IsUnder
  <2>2. CASE i > Len(to)
    <3> DEFINE k == i - Len(to)
    <3>1. /\ k \in 1..(Len(p) - Len(from)) /\ k \in 1..(Len(q) - Len(from)) /\ Len(to) + k = i
          /\ Len(from) + k \in 1..Len(p)
      BY <1>1, <1>2, <2>2 DEF IsUnder
    <3> HIDE DEF k
    <3> QED
      BY <1>1, <1>2, <1>3, <3>1 DEF IsUnder
  <2> QED
    BY <1>1, <1>2, <2>1, <2>2 DEF IsUnder
<1>5. Len(a) <= Len(b)
  BY <1>1, <1>2, <1>3 DEF IsUnder
<1>6. IsPrefix(a, b)
  BY <1>2, <1>3, <1>4, <1>5, Within DEF IsUnder
<1> QED
  BY <1>0, <1>6

-----------------------------------------------------------------------------
(* A tree has the folders of all it has.                                      *)
IsTree(D) ==
    \A q \in D : IsPath(q) /\ \A p : IsPath(p) /\ p # <<>> /\ IsPrefix(p, q) => p \in D

Inside(D, p) == {q \in D : IsPrefix(p, q)}

LEMMA TreeWithout ==
    ASSUME NEW D, IsTree(D), NEW p, IsPath(p)
    PROVE  IsTree(D \ Inside(D, p))
<1>1. ASSUME NEW q \in D, ~IsPrefix(p, q), NEW r, IsPath(r), r # <<>>, IsPrefix(r, q)
      PROVE  r \in D /\ ~IsPrefix(p, r)
  <2>1. IsPath(q) /\ r \in D
    BY <1>1 DEF IsTree
  <2> QED
    BY <1>1, <2>1, WithinTwice
<1> QED
  BY <1>1 DEF IsTree, Inside

(* Where something may be put: into a folder that is there.                   *)
HasPlace(D, p) == IsPath(p) /\ p # <<>> /\ (parentPath(p) = <<>> \/ parentPath(p) \in D)

LEMMA Above ==
    ASSUME NEW D, IsTree(D), NEW p, HasPlace(D, p), NEW r, IsPath(r), r # <<>>, IsPrefix(r, p), r # p
    PROVE  r \in D /\ ~IsPrefix(p, r)
<1>1. IsPrefix(r, parentPath(p)) /\ IsPath(parentPath(p))
  BY WithinParent, Parent DEF HasPlace
<1>2. ~IsPrefix(p, r)
  <2>1. Len(p) \in Nat /\ Len(r) \in Nat /\ Len(r) <= Len(p)
    BY PathLen, Within DEF HasPlace
  <2> QED
    BY <2>1, WithinEachOther, Within DEF HasPlace
<1>3. parentPath(p) # <<>>
  <2>1. Len(r) \in Nat /\ Len(r) # 0 /\ Len(r) <= Len(parentPath(p))
    BY <1>1, PathLen, Within
  <2>2. parentPath(p) = <<>> => Len(parentPath(p)) = 0
    BY <1>1, PathLen
  <2> QED
    BY <2>1, <2>2
<1>4. parentPath(p) \in D
  BY <1>3 DEF HasPlace
<1> QED
  BY <1>1, <1>2, <1>4 DEF IsTree

LEMMA TreeWith ==
    ASSUME NEW D, IsTree(D), NEW p, HasPlace(D, p)
    PROVE  IsTree((D \ Inside(D, p)) \cup {p})
<1>1. IsPath(p)
  BY DEF HasPlace
<1>2. IsTree(D \ Inside(D, p))
  BY <1>1, TreeWithout
<1>3. ASSUME NEW r, IsPath(r), r # <<>>, IsPrefix(r, p)
      PROVE  r \in (D \ Inside(D, p)) \cup {p}
  BY <1>3, Above DEF Inside
<1> QED
  BY <1>1, <1>2, <1>3 DEF IsTree

NewPaths(E, from, to) == {Under(to, from, q) : q \in Inside(E, from)}

LEMMA MovedThere ==
    ASSUME NEW E, IsTree(E), NEW from, NEW to, IsPath(from), IsPath(to), NEW r \in NewPaths(E, from, to)
    PROVE  /\ IsPath(r) /\ IsPrefix(to, r)
           /\ Under(from, to, r) \in Inside(E, from) /\ r = Under(to, from, Under(from, to, r))
<1>1. PICK q \in Inside(E, from) : r = Under(to, from, q)
  BY DEF NewPaths
<1>2. IsPath(q) /\ IsPrefix(from, q)
  BY <1>1 DEF Inside, IsTree
<1>3. IsPath(r)
  BY <1>1, <1>2, UnderIs DEF IsUnder
<1>4. IsPrefix(to, r) /\ Under(from, to, r) = q
  BY <1>1, <1>2, UnderThere
<1> QED
  BY <1>1, <1>3, <1>4

(* With every item moved, the folders between it and where it is moved to.     *)
LEMMA MovedTree ==
    ASSUME NEW E, IsTree(E), NEW from \in E, from # <<>>, NEW to, IsPath(to),
           NEW q \in NewPaths(E, from, to), NEW r, IsPath(r), IsPrefix(r, q), IsPrefix(to, r)
    PROVE  r \in NewPaths(E, from, to)
<1> DEFINE a == Under(from, to, r)
           b == Under(from, to, q)
<1> HIDE DEF a, b
<1>0. a = Under(from, to, r) /\ b = Under(from, to, q)
  BY DEF a, b
<1>1. IsPath(from)
  BY DEF IsTree
<1>2. IsPath(q) /\ IsPrefix(to, q) /\ b \in Inside(E, from)
  BY <1>0, <1>1, MovedThere
<1>3. IsPrefix(a, b)
  BY <1>0, <1>1, <1>2, UnderKeeps
<1>4. IsPath(a)
  BY <1>0, <1>1, UnderIs DEF IsUnder
<1>5. IsPrefix(from, a) /\ Under(to, from, a) = r
  BY <1>0, <1>1, UnderThere
<1>6. a # <<>>
  BY <1>1, <1>4, <1>5, PathLen, Within
<1>7. a \in E
  BY <1>2, <1>3, <1>4, <1>6 DEF Inside, IsTree
<1> QED
  BY <1>5, <1>7 DEF NewPaths, Inside

(* A tree with what was within `from` of another moved to `to`.                *)
LEMMA TreeMoved ==
    ASSUME NEW D, IsTree(D), NEW E, IsTree(E), NEW from \in E, from # <<>>, NEW to, HasPlace(D, to)
    PROVE  /\ IsTree((D \ Inside(D, to)) \cup NewPaths(E, from, to))
           /\ ~IsPrefix(from, to) =>
                IsTree(((D \ Inside(D, to)) \cup NewPaths(E, from, to))
                         \ (Inside(D, from) \ NewPaths(E, from, to)))
<1> DEFINE old == D \ Inside(D, to)
           new == NewPaths(E, from, to)
<1>1. IsPath(from) /\ IsPath(to)
  BY DEF IsTree, HasPlace
<1>2. to \in new
  <2>1. from \in Inside(E, from) /\ IsPrefix(from, from)
    BY <1>1, WithinItself DEF Inside
  <2>2. Under(to, from, from) = to
    <3>1. IsUnder(Under(to, from, from), to, from, from)
      BY <1>1, <2>1, UnderIs
    <3>2. Len(to) \in Nat /\ Len(from) \in Nat
      BY <1>1, PathLen
    <3> DEFINE u == Under(to, from, from)
    <3> HIDE DEF u
    <3>3. IsPath(u) /\ Len(u) = Len(to) /\ \A i \in 1..Len(to) : u[i] = to[i]
      BY <3>1, <3>2 DEF IsUnder, u
    <3>4. u = to
      BY <1>1, <3>3, PathEqual
    <3> QED
      BY <3>4 DEF u
  <2> QED
    BY <2>1, <2>2 DEF NewPaths
<1>3. IsTree(old)
  BY <1>1, TreeWithout
<1>4. \A q \in new : IsPath(q) /\ IsPrefix(to, q)
  BY <1>1, MovedThere
<1>5. ASSUME NEW q \in new, NEW r, IsPath(r), r # <<>>, IsPrefix(r, q)
      PROVE  r \in new \/ (r \in old /\ IsPrefix(r, to))
  <2>1. IsPath(q) /\ IsPrefix(to, q) /\ Len(r) \in Nat /\ Len(to) \in Nat
    BY <1>1, <1>4, <1>5, PathLen
  <2>2. CASE Len(to) <= Len(r)
    <3>1. IsPrefix(to, r)
      BY <1>1, <1>5, <2>1, <2>2, BothAround
    <3> QED
      BY <1>1, <1>5, <3>1, MovedTree
  <2>3. CASE Len(r) <= Len(to)
    <3>1. IsPrefix(r, to)
      BY <1>1, <1>5, <2>1, <2>3, BothAround
    <3> QED
      BY <1>2, <1>5, <3>1, Above DEF Inside
  <2> QED
    BY <2>1, <2>2, <2>3
<1>6. IsTree(old \cup new)
  <2> HIDE DEF old, new
  <2> QED
    BY <1>3, <1>4, <1>5 DEF IsTree
<1>7. ASSUME ~IsPrefix(from, to) PROVE IsTree((old \cup new) \ (Inside(D, from) \ new))
  <2>1. ASSUME NEW q \in old, q \notin Inside(D, from), NEW r, IsPath(r), r # <<>>, IsPrefix(r, q)
        PROVE  r \in old /\ r \notin Inside(D, from)
    <3>1. IsPath(q) /\ r \in old
      BY <1>3, <2>1 DEF IsTree
    <3>2. ~IsPrefix(from, q)
      BY <2>1 DEF Inside
    <3>3. ~IsPrefix(from, r)
      BY <1>1, <2>1, <3>1, <3>2, WithinTwice
    <3> QED
      BY <3>1, <3>3 DEF Inside
  <2>2. ASSUME NEW r, IsPath(r), IsPrefix(r, to) PROVE r \notin Inside(D, from)
    <3>1. ~IsPrefix(from, r)
      BY <1>1, <1>7, <2>2, WithinTwice
    <3> QED
      BY <3>1 DEF Inside
  <2> HIDE DEF old, new
  <2> QED
    BY <1>3, <1>4, <1>5, <2>1, <2>2 DEF IsTree
<1> QED
  BY <1>6, <1>7

-----------------------------------------------------------------------------
(* What a call may do to the files: what is at a path is still somewhere, but   *)
(* for what was at the one path it was told to remove or to replace.           *)
Good(disk) == DOMAIN disk = Servers /\ \A s \in Servers : IsTree(DOMAIN disk[s])

Remains(disk, c) == \E s \in Servers : \E p \in DOMAIN disk[s] : disk[s][p] = c

LosesOnly(disk, s, p) ==
    /\ Good(disk)
    /\ \A a \in Servers : \A q \in DOMAIN fs[a] :
         Remains(disk, fs[a][q]) \/ (a = s /\ IsPrefix(p, q))

LosesNothing(disk) ==
    Good(disk) /\ \A a \in Servers : \A q \in DOMAIN fs[a] : Remains(disk, fs[a][q])

LEMMA Nowhere ==
    ASSUME Good(fs), NEW s \in Servers, NEW p, IsPath(p), p # <<>>, p \notin DOMAIN fs[s],
           NEW disk, LosesOnly(disk, s, p)
    PROVE  LosesNothing(disk)
<1>1. ASSUME NEW q \in DOMAIN fs[s] PROVE ~IsPrefix(p, q)
  BY <1>1 DEF Good, IsTree
<1> QED
  BY <1>1 DEF LosesOnly, LosesNothing

LEMMA RemoveKeeps ==
    ASSUME Good(fs), NEW s \in Servers, NEW p \in DOMAIN fs[s]
    PROVE  LosesOnly(remove(s, p), s, p)
<1> DEFINE disk == remove(s, p)
<1>1. /\ DOMAIN disk = Servers
      /\ DOMAIN disk[s] = DOMAIN fs[s] \ Inside(DOMAIN fs[s], p)
      /\ \A q \in DOMAIN disk[s] : disk[s][q] = fs[s][q]
      /\ \A a \in Servers \ {s} : disk[a] = fs[a]
  BY DEF remove, Tree, Inside, Good
<1> HIDE DEF disk
<1>2. Good(disk)
  <2>1. IsTree(DOMAIN disk[s])
    BY <1>1, TreeWithout DEF Good, IsTree
  <2> QED
    BY <1>1, <2>1 DEF Good
<1>3. ASSUME NEW a \in Servers, NEW q \in DOMAIN fs[a], ~(a = s /\ IsPrefix(p, q))
      PROVE  q \in DOMAIN disk[a] /\ disk[a][q] = fs[a][q]
  BY <1>1, <1>3 DEF Inside
<1>4. LosesOnly(disk, s, p)
  BY <1>2, <1>3 DEF LosesOnly, Remains
<1> QED
  BY <1>4 DEF disk

LEMMA CanInsertAt ==
    ASSUME NEW s \in Servers, NEW p, IsPath(p), NEW overwrite, CanInsert(s, p, overwrite)
    PROVE  HasPlace(DOMAIN fs[s], p) /\ (p \in DOMAIN fs[s] => overwrite)
BY DEF CanInsert, IsDir, HasPlace

LEMMA InsertKeeps ==
    ASSUME Good(fs), NEW s \in Servers, NEW p, IsPath(p), NEW overwrite, NEW content,
           CanInsert(s, p, overwrite)
    PROVE  /\ LosesOnly(insert(s, p, content), s, p)
           /\ ~overwrite => LosesNothing(insert(s, p, content))
<1> DEFINE disk == insert(s, p, content)
<1>1. /\ DOMAIN disk = Servers
      /\ DOMAIN disk[s] = (DOMAIN fs[s] \ Inside(DOMAIN fs[s], p)) \cup {p}
      /\ \A q \in DOMAIN disk[s] : q # p => disk[s][q] = fs[s][q]
      /\ \A a \in Servers \ {s} : disk[a] = fs[a]
  BY DEF insert, Tree, Inside, Good
<1> HIDE DEF disk
<1>2. HasPlace(DOMAIN fs[s], p) /\ (p \in DOMAIN fs[s] => overwrite)
  BY CanInsertAt
<1>3. Good(disk)
  <2>1. IsTree(DOMAIN disk[s])
    BY <1>1, <1>2, TreeWith DEF Good
  <2> QED
    BY <1>1, <2>1 DEF Good
<1>4. ASSUME NEW a \in Servers, NEW q \in DOMAIN fs[a], ~(a = s /\ IsPrefix(p, q))
      PROVE  q \in DOMAIN disk[a] /\ disk[a][q] = fs[a][q]
  BY <1>1, <1>4, WithinItself DEF Inside
<1>5. LosesOnly(disk, s, p)
  BY <1>3, <1>4 DEF LosesOnly, Remains
<1>6. ~overwrite => LosesNothing(disk)
  BY <1>2, <1>5, Nowhere DEF HasPlace
<1> QED
  BY <1>5, <1>6 DEF disk

(* A copy is of all that was there; with `cut`, it is there instead.           *)
LEMMA PlaceKeeps ==
    ASSUME Good(fs), NEW a \in Servers, NEW b \in Servers, NEW from, NEW to, IsPath(to),
           NEW overwrite, NEW cut \in BOOLEAN, CanPlace(a, from, b, to, overwrite)
    PROVE  /\ LosesOnly(place(a, from, b, to, cut), b, to)
           /\ ~overwrite => LosesNothing(place(a, from, b, to, cut))
<1> DEFINE disk == place(a, from, b, to, cut)
           old == DOMAIN fs[b] \ Inside(DOMAIN fs[b], to)
           new == NewPaths(DOMAIN fs[a], from, to)
           gone == IF cut THEN Inside(DOMAIN fs[a], from) ELSE {}
           left == (old \cup new) \ (IF a = b THEN gone \ new ELSE {})
           onto == [q \in left |-> IF q \in new THEN fs[a][Under(from, to, q)] ELSE fs[b][q]]
<1>1. /\ HasPlace(DOMAIN fs[b], to) /\ (to \in DOMAIN fs[b] => overwrite)
      /\ from # <<>> /\ from \in DOMAIN fs[a] /\ (a = b => ~IsPrefix(from, to))
  BY CanInsertAt DEF CanPlace
<1>2. IsPath(from)
  BY <1>1 DEF Good, IsTree
<1>3. disk = IF a = b THEN [fs EXCEPT ![b] = onto]
             ELSE [fs EXCEPT ![b] = onto, ![a] = [q \in DOMAIN @ \ gone |-> @[q]]]
  BY DEF place, Tree, Under, Inside, NewPaths
<1> HIDE DEF old, new, gone, left, onto, disk
<1>4. DOMAIN onto = left /\ \A q \in left : onto[q] = IF q \in new THEN fs[a][Under(from, to, q)] ELSE fs[b][q]
  BY DEF onto
<1>5. /\ DOMAIN disk = Servers /\ disk[b] = onto
      /\ \A s \in Servers \ {a, b} : disk[s] = fs[s]
      /\ a # b => DOMAIN disk[a] = DOMAIN fs[a] \ gone /\ \A q \in DOMAIN fs[a] \ gone : disk[a][q] = fs[a][q]
  BY <1>3 DEF Good
<1>6. IsTree(left)
  <2>1. IsTree(DOMAIN fs[b]) /\ IsTree(DOMAIN fs[a]) /\ from \in DOMAIN fs[a] /\ from # <<>>
        /\ HasPlace(DOMAIN fs[b], to)
    BY <1>1 DEF Good
  <2>2. IsTree(old \cup new)
    BY <2>1, TreeMoved DEF old, new
  <2>3. ~IsPrefix(from, to) => IsTree((old \cup new) \ (Inside(DOMAIN fs[b], from) \ new))
    BY <2>1, TreeMoved DEF old, new
  <2>4. CASE a # b \/ ~cut
    <3>1. left = old \cup new
      BY <2>4 DEF left, gone
    <3> QED
      BY <2>2, <3>1
  <2>5. CASE a = b /\ cut
    <3>1. left = (old \cup new) \ (Inside(DOMAIN fs[b], from) \ new)
      BY <2>5 DEF left, gone
    <3> QED
      BY <1>1, <2>3, <2>5, <3>1
  <2> QED
    BY <2>4, <2>5
<1>7. IsTree(DOMAIN fs[a] \ gone)
  BY <1>2, TreeWithout DEF Good, gone
<1>8. Good(disk)
  BY <1>4, <1>5, <1>6, <1>7 DEF Good
<1>9. ASSUME NEW q \in Inside(DOMAIN fs[a], from) PROVE Remains(disk, fs[a][q])
  <2> DEFINE r == Under(to, from, q)
  <2>1. IsPath(q) /\ IsPrefix(from, q) /\ q \in DOMAIN fs[a]
    BY <1>9 DEF Good, IsTree, Inside
  <2>2. r \in new /\ Under(from, to, r) = q
    BY <1>2, <1>9, <2>1, UnderThere DEF new, NewPaths
  <2> HIDE DEF r
  <2>3. r \in left
    BY <2>2 DEF left
  <2>4. onto[r] = fs[a][q]
    BY <1>4, <2>2, <2>3
  <2> QED
    BY <1>4, <1>5, <2>3, <2>4 DEF Remains
<1>10. ASSUME NEW s \in Servers, NEW q \in DOMAIN fs[s], ~(s = b /\ IsPrefix(to, q)),
              ~(s = a /\ q \in Inside(DOMAIN fs[a], from))
       PROVE  Remains(disk, fs[s][q])
  <2>1. CASE s = b
    <3>1. q \in old
      BY <1>10, <2>1 DEF old, Inside
    <3>2. q \notin new
      BY <1>2, <1>10, <2>1, MovedThere DEF new, Good
    <3>3. q \in left
      BY <1>10, <2>1, <3>1 DEF left, gone
    <3> QED
      BY <1>4, <1>5, <2>1, <3>2, <3>3 DEF Remains
  <2>2. CASE s # b /\ s = a
    BY <1>5, <1>10, <2>2 DEF Remains, gone
  <2>3. CASE s # b /\ s # a
    BY <1>5, <1>10, <2>3 DEF Remains
  <2> QED
    BY <2>1, <2>2, <2>3
<1>11. LosesOnly(disk, b, to)
  BY <1>8, <1>9, <1>10 DEF LosesOnly, Inside
<1>12. ~overwrite => LosesNothing(disk)
  BY <1>1, <1>11, Nowhere DEF HasPlace
<1> QED
  BY <1>11, <1>12 DEF disk
-----------------------------------------------------------------------------
(* The rows of a Files window.  Rows that are not those of the folder the title *)
(* names are about to be replaced, by the answer of a load(), which always      *)
(* counts.  As long as nothing was under way when the server was changed, every *)
(* listing that still counts and every operation is of the window's server.     *)

Load(a) == [srv |-> a.srv, path |-> a.path, first |-> a.first, live |-> a.live]
Operation(o) ==
    [n |-> o.n, kind |-> o.kind, srv |-> o.srv, dir |-> o.dir, todo |-> o.todo,
     failed |-> o.failed, with |-> o.with]

Kinds == {"delete", "paste", "drop", "look", "compress", "name", "upload", "rename", "resolve"}

RowsOfFolder == \A p \in entries : parentPath(p) = path
RowsRight == listed = serverId /\ RowsOfFolder

LoadsInv ==
    /\ \A l \in DOMAIN loads : loads[l] = Load(loads[l])
    /\ \A o \in ops : o = Operation(o) /\ o.kind \in Kinds

OfTheServer ==
    /\ \A l \in DOMAIN loads : loads[l].live => loads[l].srv = serverId
    /\ \A o \in ops : o.srv = serverId

RowsComing == RowsRight \/ \E l \in DOMAIN loads : loads[l].live

FolderComing ==
    /\ \A l \in DOMAIN loads : ~loads[l].first => loads[l].live
    /\ RowsOfFolder \/ \E l \in DOMAIN loads : ~loads[l].first

RowsIInv ==
    /\ LoadsInv
    /\ FolderComing
    /\ ~crossed => OfTheServer
    /\ ~crossed /\ serverId # None => RowsComing

LEMMA RowsImply == RowsIInv => Coherent
BY DEF RowsIInv, FolderComing, OfTheServer, RowsComing, RowsOfFolder, RowsRight, Coherent

LEMMA RowsInit == ASSUME Bound \in Servers, Init PROVE RowsIInv
<1>1. connected = Servers /\ pickedId = None
  BY DEF Init
<1>2. serverId = Bound
  BY <1>1 DEF serverId, serverOf
<1>3. PICK l : /\ loads = [k \in {l} |-> [srv |-> Bound, path |-> Start, first |-> TRUE, live |-> TRUE]]
               /\ ops = {}
  BY DEF Init
<1> QED
  <2>1. entries = {}
    BY DEF Init
  <2>2. FolderComing
    BY <1>3, <2>1 DEF FolderComing, RowsOfFolder
  <2> QED
    BY <1>2, <1>3, <2>2 DEF RowsIInv, LoadsInv, Load, OfTheServer, RowsComing

(* Operations that go on, or begin, are of a server that had one or of the      *)
(* window's.                                                                   *)
OpsStay ==
    \A o \in ops' :
      /\ o = Operation(o) /\ o.kind \in Kinds
      /\ (o.srv = serverId \/ \E q \in ops : o.srv = q.srv)

sameServer == <<connected, pickedId, crossed>>

LEMMA ServerIdStays == ASSUME UNCHANGED sameServer PROVE UNCHANGED <<serverId, crossed>>
BY DEF serverId, serverOf, sameServer

LEMMA OpsOfTheServer ==
    ASSUME RowsIInv, OpsStay, ~crossed
    PROVE  \A o \in ops' : o.srv = serverId
BY DEF RowsIInv, OpsStay, OfTheServer

LEMMA RowsStay ==
    ASSUME RowsIInv, UNCHANGED <<sameServer, loads, path, entries, listed>>, OpsStay
    PROVE  RowsIInv'
<1>1. UNCHANGED <<serverId, crossed>>
  BY ServerIdStays
<1> QED
  BY <1>1, OpsOfTheServer DEF RowsIInv, LoadsInv, FolderComing, RowsOfFolder, OfTheServer,
     RowsComing, RowsRight, OpsStay, parentPath

LEMMA ListingBegins ==
    ASSUME RowsIInv, Room, UNCHANGED sameServer, OpsStay, NEW s, NEW p,
           s = serverId \/ \E q \in ops : s = q.srv, loads' = Begun(loads, s, p, FALSE)
    PROVE  RowsIInv'
<1>1. UNCHANGED <<serverId, crossed>>
  BY ServerIdStays
<1>2. \A l \in DOMAIN loads : loads[l] = Load(loads[l])
  BY DEF RowsIInv, LoadsInv
<1> DEFINE new == loads'
<1>3. /\ \A l \in DOMAIN new : new[l] = Load(new[l])
      /\ \E l \in DOMAIN new : new[l].live
      /\ \E l \in DOMAIN new : ~new[l].first
      /\ \A l \in DOMAIN new : (new[l].srv = s /\ new[l].live)
                               \/ (l \in DOMAIN loads /\ new[l] = loads[l])
  <2>1. new = Begun(loads, s, p, FALSE)
    OBVIOUS
  <2> HIDE DEF new
  <2> QED
    BY <1>2, <2>1 DEF Begun, Load
<1>4. ~crossed => s = serverId
  BY DEF RowsIInv, OfTheServer
<1>5. LoadsInv' /\ FolderComing'
  <2>1. \A l \in DOMAIN loads : ~loads[l].first => loads[l].live
    BY DEF RowsIInv, FolderComing
  <2> HIDE DEF new
  <2>2. \A l \in DOMAIN new : ~new[l].first => new[l].live
    BY <1>3, <2>1
  <2> QED
    BY <1>3, <2>2 DEF LoadsInv, FolderComing, OpsStay, new
<1>6. ~crossed' => OfTheServer'
  <2>1. ~crossed => \A o \in ops' : o.srv = serverId
    BY OpsOfTheServer
  <2>2. ~crossed => \A l \in DOMAIN new : new[l].live => new[l].srv = serverId
    <3>1. ~crossed => \A l \in DOMAIN loads : loads[l].live => loads[l].srv = serverId
      BY DEF RowsIInv, OfTheServer
    <3> HIDE DEF new
    <3> QED
      BY <1>3, <1>4, <3>1
  <2> QED
    BY <1>1, <2>1, <2>2 DEF OfTheServer
<1> QED
  BY <1>3, <1>5, <1>6 DEF RowsIInv, RowsComing

(* Another server: the listings of the one before no longer count.             *)
LEMMA ServerChanges ==
    ASSUME RowsIInv, Room, NEW con, NEW picked, NEW start,
           connected' = con, pickedId' = picked, listEffect(con, picked, start),
           UNCHANGED <<ops, path, entries, listed>>
    PROVE  RowsIInv'
<1>1. serverId' = serverOf(con, picked)
  BY DEF serverId, serverOf
<1>2. CASE serverOf(con, picked) = serverId
  <2>1. UNCHANGED <<serverId, loads, crossed>>
    BY <1>1, <1>2 DEF listEffect
  <2> QED
    BY <2>1 DEF RowsIInv, LoadsInv, FolderComing, RowsOfFolder, OfTheServer, RowsComing,
       RowsRight, parentPath
<1>3. CASE serverOf(con, picked) # serverId
  <2> DEFINE s == serverOf(con, picked)
             stale == [l \in DOMAIN loads |->
                         IF loads[l].first THEN [loads[l] EXCEPT !.live = FALSE] ELSE loads[l]]
  <2>1. /\ loads' = IF s = None THEN stale ELSE Begun(stale, s, start, TRUE)
        /\ crossed' = (crossed \/ (\E l \in DOMAIN loads : ~loads[l].first) \/ ops # {})
    BY <1>3 DEF listEffect
  <2>2. /\ DOMAIN stale = DOMAIN loads
        /\ \A l \in DOMAIN stale : stale[l] = Load(stale[l])
        /\ \A l \in DOMAIN stale : ~stale[l].first => stale[l].live
        /\ \A l \in DOMAIN loads : ~loads[l].first => ~stale[l].first
        /\ ~crossed' => \A l \in DOMAIN stale : ~stale[l].live
    <3>1. \A l \in DOMAIN loads : loads[l] = Load(loads[l])
      BY DEF RowsIInv, LoadsInv
    <3>2. DOMAIN stale = DOMAIN loads
      OBVIOUS
    <3>3. ASSUME NEW l \in DOMAIN loads
          PROVE  stale[l] = Load(stale[l])
      BY <3>1, <3>3 DEF Load
    <3>5. ASSUME NEW l \in DOMAIN loads, loads[l].first PROVE stale[l].first
      BY <3>1, <3>5 DEF Load
    <3>6. ASSUME NEW l \in DOMAIN loads, ~loads[l].first
          PROVE  ~stale[l].first /\ stale[l].live
      BY <3>6 DEF RowsIInv, FolderComing
    <3>4. ASSUME NEW l \in DOMAIN loads, loads[l].first PROVE ~stale[l].live
      BY <3>1, <3>4 DEF Load
    <3> HIDE DEF stale
    <3> QED
      BY <2>1, <3>2, <3>3, <3>4, <3>5, <3>6
  <2> HIDE DEF s, stale
  <2>3. s = serverId'
    BY <1>1 DEF s
  <2>4. CASE s = None
    <3>1. loads' = stale
      BY <2>1, <2>4
    <3>2. FolderComing'
      <4> DEFINE new == loads'
      <4>1. new = stale
        BY <3>1
      <4> HIDE DEF new
      <4>2. \A l \in DOMAIN new : ~new[l].first => new[l].live
        BY <2>2, <4>1
      <4>3. RowsOfFolder' \/ \E l \in DOMAIN new : ~new[l].first
        BY <2>2, <4>1 DEF RowsIInv, FolderComing, RowsOfFolder, parentPath
      <4> QED
        BY <4>2, <4>3 DEF FolderComing, new
    <3> QED
      BY <2>1, <2>2, <2>3, <2>4, <3>1, <3>2 DEF RowsIInv, LoadsInv, OfTheServer
  <2>5. CASE s # None
    <3>1. loads' = Begun(stale, s, start, TRUE)
      BY <2>1, <2>5
    <3>2. /\ \A l \in DOMAIN loads' : loads'[l] = Load(loads'[l])
          /\ \E l \in DOMAIN loads' : loads'[l].live
          /\ \A l \in DOMAIN loads' : (loads'[l].srv = s /\ loads'[l].live)
                                      \/ (l \in DOMAIN stale /\ loads'[l] = stale[l])
          /\ \A l \in DOMAIN stale : l \in DOMAIN loads' /\ loads'[l] = stale[l]
      <4> DEFINE new == loads'
      <4>1. new = Begun(stale, s, start, TRUE)
        BY <3>1
      <4> HIDE DEF new
      <4>2. /\ \A l \in DOMAIN new : new[l] = Load(new[l])
            /\ \E l \in DOMAIN new : new[l].live
            /\ \A l \in DOMAIN new : (new[l].srv = s /\ new[l].live)
                                     \/ (l \in DOMAIN stale /\ new[l] = stale[l])
        BY <2>2, <4>1 DEF Begun, Load
      <4>3. FreeLoad \notin DOMAIN stale
        BY <2>2 DEF Room, FreeLoad
      <4>4. \A l \in DOMAIN stale : l \in DOMAIN new /\ new[l] = stale[l]
        BY <4>1, <4>3 DEF Begun
      <4> QED
        BY <4>2, <4>4 DEF new
    <3>3. FolderComing'
      <4> DEFINE new == loads'
      <4>1. /\ \A l \in DOMAIN new : (new[l].srv = s /\ new[l].live)
                                      \/ (l \in DOMAIN stale /\ new[l] = stale[l])
            /\ \A l \in DOMAIN stale : l \in DOMAIN new /\ new[l] = stale[l]
        BY <3>2
      <4> HIDE DEF new
      <4>2. \A l \in DOMAIN new : ~new[l].first => new[l].live
        BY <2>2, <4>1
      <4>3. RowsOfFolder' \/ \E l \in DOMAIN new : ~new[l].first
        BY <2>2, <4>1 DEF RowsIInv, FolderComing, RowsOfFolder, parentPath
      <4> QED
        BY <4>2, <4>3 DEF FolderComing, new
    <3> QED
      BY <2>1, <2>2, <2>3, <3>2, <3>3 DEF RowsIInv, LoadsInv, OfTheServer, RowsComing
  <2> QED
    BY <2>4, <2>5
<1> QED
  BY <1>2, <1>3

(* An answer takes its listing away, and puts the rows right.                  *)
LEMMA RowsListed == ASSUME RowsIInv, NEW l \in DOMAIN loads, Listed(l) PROVE RowsIInv'
<1>1. UNCHANGED <<sameServer, ops>> /\ loads' = Ended(l)
  BY DEF Listed, sameServer
<1>2. UNCHANGED <<serverId, crossed>>
  BY <1>1, ServerIdStays
<1>3. DOMAIN loads' = DOMAIN loads \ {l} /\ \A k \in DOMAIN loads' : loads'[k] = loads[k]
  BY <1>1 DEF Ended
<1>4. LoadsInv' /\ (~crossed' => OfTheServer')
  BY <1>1, <1>2, <1>3 DEF RowsIInv, LoadsInv, Load, OfTheServer
<1>5. CASE ~loads[l].live
  <2>1. UNCHANGED <<path, entries, listed>>
    BY <1>5 DEF Listed, view
  <2>2. (RowsRight => RowsRight') /\ (RowsOfFolder => RowsOfFolder')
    BY <1>2, <2>1 DEF RowsRight, RowsOfFolder, parentPath
  <2>3. FolderComing'
    BY <1>3, <1>5, <2>2 DEF RowsIInv, FolderComing
  <2> QED
    BY <1>2, <1>3, <1>4, <1>5, <2>2, <2>3 DEF RowsIInv, RowsComing
<1>6. CASE loads[l].live
  <2>1. listed' = loads[l].srv
    BY <1>6 DEF Listed
  <2>2. RowsOfFolder'
    BY <1>6 DEF Listed, Children, RowsOfFolder, parentPath
  <2>3. FolderComing'
    BY <1>3, <2>2 DEF RowsIInv, FolderComing
  <2>4. ~crossed => RowsRight'
    BY <1>2, <1>6, <2>1, <2>2 DEF RowsIInv, OfTheServer, RowsRight
  <2> QED
    BY <1>2, <1>4, <2>3, <2>4 DEF RowsIInv, RowsComing
<1> QED
  BY <1>5, <1>6

-----------------------------------------------------------------------------
(* What the user does begins at most one operation, on the window's server.    *)

LEMMA OpsAsTheyAre == ASSUME RowsIInv, UNCHANGED ops PROVE OpsStay
BY DEF RowsIInv, LoadsInv, OpsStay

LEMMA OpBegun ==
    ASSUME RowsIInv, NEW kind \in Kinds, NEW todo, NEW with, Begin(Op(kind, todo, with))
    PROVE  OpsStay
BY DEF RowsIInv, LoadsInv, OpsStay, Begin, Op, Operation

LEMMA RowsNavigate == ASSUME RowsIInv, Navigate PROVE RowsIInv'
<1>1. ASSUME NEW s \in Servers, selectServer(s) PROVE RowsIInv'
  <2>1. PICK start : listEffect(connected, s, start)
    BY <1>1 DEF selectServer
  <2>2. Room /\ UNCHANGED <<connected, ops, path, entries, listed>> /\ pickedId' = s
    BY <1>1 DEF selectServer, view
  <2> QED
    BY <2>1, <2>2, ServerChanges
<1>2. ASSUME NEW p, goTo(p) PROVE RowsIInv'
  <2>1. Room /\ UNCHANGED <<sameServer, ops>> /\ loads' = Begun(loads, serverId, p, FALSE)
    BY <1>2 DEF goTo, load, sameServer
  <2> QED
    BY <2>1, OpsAsTheyAre, ListingBegins
<1>3. ASSUME NEW to, Travel(to) PROVE RowsIInv'
  <2>1. Room /\ UNCHANGED <<sameServer, ops>>
        /\ loads' = Begun(loads, serverId, history[to], FALSE)
    BY <1>3 DEF Travel, load, sameServer
  <2> QED
    BY <2>1, OpsAsTheyAre, ListingBegins
<1> QED
  BY <1>1, <1>2, <1>3 DEF Navigate

LEMMA RowsConfirm == ASSUME RowsIInv, Confirm PROVE RowsIInv'
<1>1. UNCHANGED <<sameServer, loads, path, entries, listed>>
  BY DEF Confirm, still, rows, sameServer
<1>2. ASSUME NEW d, \/ onDelete(d) \/ submitDialog(d) \/ AnswerPaste(d)
                    \/ resolveMove(d) \/ submitCompress(d)
      PROVE  OpsStay
  BY <1>2, OpBegun DEF Kinds, onDelete, submitDialog, AnswerPaste, runPaste,
     resolveMove, submitCompress
<1>3. OpsStay
  BY <1>2 DEF Confirm
<1> QED
  BY <1>1, <1>3, RowsStay

LEMMA RowsUserActs == ASSUME RowsIInv, UserActs PROVE RowsIInv'
<1>1. CASE AskDelete \/ AskName \/ AskCompress \/ Cancel \/ copyToClipboard
  <2>1. UNCHANGED <<sameServer, loads, path, entries, listed, ops>>
    BY <1>1 DEF AskDelete, AskName, AskCompress, Cancel,
       copyToClipboard, still, view, sameServer
  <2> QED
    BY <2>1, OpsAsTheyAre, RowsStay
<1>2. CASE paste
  <2>1. UNCHANGED <<sameServer, loads, path, entries, listed>>
    BY <1>2 DEF paste, still, rows, sameServer
  <2>2. OpsStay
    BY <1>2, OpsAsTheyAre, OpBegun DEF Kinds, paste, runPaste
  <2> QED
    BY <2>1, <2>2, RowsStay
<1>3. CASE handleMove \/ onUpload \/ copyOntoServer
  <2>1. UNCHANGED <<sameServer, loads, path, entries, listed>>
    BY <1>3 DEF handleMove, onUpload, copyOntoServer, still, rows,
       view, sameServer
  <2>2. OpsStay
    BY <1>3, OpBegun DEF Kinds, handleMove, onUpload, copyOntoServer
  <2> QED
    BY <2>1, <2>2, RowsStay
<1> QED
  BY <1>1, <1>2, <1>3, RowsNavigate, RowsConfirm DEF UserActs

-----------------------------------------------------------------------------
(* An operation goes on, or ends with a listing of the folder it began in.      *)

LEMMA OpGoes ==
    ASSUME RowsIInv, UNCHANGED <<sameServer, path, entries, listed>>, NEW o \in ops, NEW next,
           next = Operation(next), next.srv = o.srv, next.kind \in Kinds, Goes(o, next)
    PROVE  RowsIInv'
<1>1. UNCHANGED loads /\ OpsStay
  BY DEF Goes, OpsStay, RowsIInv, LoadsInv
<1> QED
  BY <1>1, RowsStay

LEMMA OpLeaves ==
    ASSUME RowsIInv, UNCHANGED <<sameServer, path, entries, listed, loads>>, NEW o \in ops,
           ops' = ops \ {o}
    PROVE  RowsIInv'
<1>1. OpsStay
  BY DEF OpsStay, RowsIInv, LoadsInv
<1> QED
  BY <1>1, RowsStay

LEMMA OpEnds ==
    ASSUME RowsIInv, UNCHANGED <<sameServer, path, entries, listed>>, NEW o \in ops, NEW kind,
           EndsWell(o, kind)
    PROVE  RowsIInv'
<1>1. Room /\ loads' = Begun(loads, o.srv, o.dir, FALSE) /\ OpsStay
  BY DEF EndsWell, load, OpsStay, RowsIInv, LoadsInv
<1> QED
  BY <1>1, ListingBegins

LEMMA CountedIs ==
    ASSUME RowsIInv, NEW o \in ops, NEW p, NEW ok
    PROVE  /\ Counted(o, p, ok) = Operation(Counted(o, p, ok))
           /\ Counted(o, p, ok).srv = o.srv /\ Counted(o, p, ok).kind \in Kinds
<1> DEFINE more == IF ok THEN o.failed ELSE o.failed \cup {p}
           next == [o EXCEPT !.todo = @ \ {p}, !.failed = more]
<1>1. o = Operation(o) /\ o.kind \in Kinds
  BY DEF RowsIInv, LoadsInv
<1>2. next = [n |-> o.n, kind |-> o.kind, srv |-> o.srv, dir |-> o.dir, todo |-> o.todo \ {p},
              failed |-> more, with |-> o.with]
  <2> DEFINE left == o.todo \ {p}
             r == [o EXCEPT !.todo = left]
  <2> HIDE DEF more, left
  <2>1. r = [n |-> o.n, kind |-> o.kind, srv |-> o.srv, dir |-> o.dir, todo |-> left,
             failed |-> o.failed, with |-> o.with]
    BY <1>1 DEF Operation
  <2>2. [o EXCEPT !.todo = left, !.failed = more] = [r EXCEPT !.failed = more]
    BY <1>1 DEF Operation
  <2> HIDE DEF r
  <2>3. [r EXCEPT !.failed = more]
          = [n |-> o.n, kind |-> o.kind, srv |-> o.srv, dir |-> o.dir, todo |-> left,
             failed |-> more, with |-> o.with]
    BY <2>1
  <2> QED
    BY <2>2, <2>3 DEF left
<1>3. Counted(o, p, ok) = next
  BY DEF Counted
<1> HIDE DEF next, more
<1> QED
  BY <1>1, <1>2, <1>3 DEF Operation

LEMMA RowsOpStep == ASSUME RowsIInv, OpStep PROVE RowsIInv'
<1>1. UNCHANGED <<sameServer, path, entries, listed>>
  BY DEF OpStep, still, rows, sameServer
<1>2. ASSUME NEW o \in ops, NEW p, NEW ok \in BOOLEAN, NEW possible, NEW result, NEW kind, NEW left,
             Single(o, p, ok, possible, result, kind, left)
      PROVE  RowsIInv'
  BY <1>1, <1>2, OpEnds, OpLeaves DEF Single, EndsBadly
<1>3. ASSUME NEW o \in ops, NEW p, NEW ok \in BOOLEAN, deleteNext(o, p, ok) PROVE RowsIInv'
  BY <1>1, <1>3, OpEnds, OpGoes, CountedIs DEF deleteNext
<1>4. ASSUME NEW o \in ops, NEW p, NEW ok \in BOOLEAN, pasteNext(o, p, ok) PROVE RowsIInv'
  <2>1. PICK name : LET done == [Counted(o, p, ok) EXCEPT !.with.taken = @ \cup {name}]
                    IN Goes(o, done) \/ EndsWell(o, "paste")
    BY <1>4 DEF pasteNext
  <2> DEFINE c == Counted(o, p, ok)
             done == [c EXCEPT !.with.taken = @ \cup {name}]
  <2>2. c = Operation(c) /\ c.srv = o.srv /\ c.kind \in Kinds
    BY CountedIs
  <2> HIDE DEF c
  <2>3. done = Operation(done) /\ done.srv = o.srv /\ done.kind \in Kinds
    BY <2>2 DEF Operation
  <2> QED
    BY <1>1, <2>1, <2>3, OpEnds, OpGoes DEF c
<1>5. ASSUME NEW o \in ops, NEW p, NEW ok \in BOOLEAN, dropNext(o, p, ok) PROVE RowsIInv'
  BY <1>1, <1>5, OpLeaves, OpGoes, CountedIs DEF dropNext
<1>6. ASSUME NEW o \in ops, NEW p, NEW ok \in BOOLEAN, lookNext(o, p, ok) PROVE RowsIInv'
  <2>1. CASE UNCHANGED loads /\ ops' = ops \ {o}
    BY <1>1, <2>1, OpLeaves
  <2>2. ASSUME NEW to, Goes(o, [o EXCEPT !.kind = "rename", !.with = to]) PROVE RowsIInv'
    <3> DEFINE next == [o EXCEPT !.kind = "rename", !.with = to]
    <3>1. o = Operation(o)
      BY DEF RowsIInv, LoadsInv
    <3>2. next = [n |-> o.n, kind |-> "rename", srv |-> o.srv, dir |-> o.dir, todo |-> o.todo,
                  failed |-> o.failed, with |-> to]
      <4> DEFINE r == [o EXCEPT !.kind = "rename"]
      <4>1. r = [n |-> o.n, kind |-> "rename", srv |-> o.srv, dir |-> o.dir, todo |-> o.todo,
                 failed |-> o.failed, with |-> o.with]
        BY <3>1 DEF Operation
      <4>2. next = [r EXCEPT !.with = to]
        BY <3>1 DEF Operation
      <4> HIDE DEF r, next
      <4> QED
        BY <4>1, <4>2
    <3>3. Goes(o, next)
      BY <2>2
    <3> HIDE DEF next
    <3>4. next = Operation(next) /\ next.srv = o.srv /\ next.kind \in Kinds
      BY <3>2 DEF Operation, Kinds
    <3> QED
      BY <1>1, <3>3, <3>4, OpGoes
  <2> QED
    BY <1>6, <2>1, <2>2 DEF lookNext, EndsBadly
<1>7. ASSUME NEW o \in ops, NEW p, NEW ok \in BOOLEAN, compressNext(o, p, ok) PROVE RowsIInv'
  <2>1. CASE UNCHANGED loads /\ ops' = ops \ {o}
    BY <1>1, <2>1, OpLeaves
  <2> QED
    BY <1>2, <1>7, <2>1 DEF compressNext
<1>8. ASSUME NEW o \in ops, NEW p, NEW ok \in BOOLEAN, Next1(o, p, ok) PROVE RowsIInv'
  <2>0. o.kind \in Kinds
    BY DEF RowsIInv, LoadsInv
  <2>1. CASE o.kind = "delete"
    BY <1>3, <1>8, <2>1 DEF Next1
  <2>2. CASE o.kind = "paste"
    BY <1>4, <1>8, <2>2 DEF Next1
  <2>3. CASE o.kind = "drop"
    BY <1>5, <1>8, <2>3 DEF Next1
  <2>4. CASE o.kind = "look"
    BY <1>6, <1>8, <2>4 DEF Next1
  <2>5. CASE o.kind = "compress"
    BY <1>7, <1>8, <2>5 DEF Next1
  <2>6. CASE o.kind = "name"
    BY <1>2, <1>8, <2>6 DEF Next1
  <2>7. CASE o.kind = "upload"
    BY <1>2, <1>8, <2>7 DEF Next1
  <2>8. CASE o.kind = "rename"
    BY <1>2, <1>8, <2>8 DEF Next1
  <2>9. CASE o.kind = "resolve"
    BY <1>2, <1>8, <2>9 DEF Next1
  <2> QED
    BY <2>0, <2>1, <2>2, <2>3, <2>4, <2>5, <2>6, <2>7, <2>8, <2>9 DEF Kinds
<1> QED
  BY <1>8 DEF OpStep

LEMMA RowsNext == ASSUME RowsIInv, [Next]_vars PROVE RowsIInv'
<1>1. ASSUME NEW con, ServersChange(con) PROVE RowsIInv'
  <2>1. Room /\ UNCHANGED <<ops, path, entries, listed, pickedId>> /\ connected' = con
        /\ listEffect(con, pickedId, Start)
    BY <1>1 DEF ServersChange, view
  <2> QED
    BY <2>1, ServerChanges
<1>2. CASE UNCHANGED vars
  <2>1. UNCHANGED <<sameServer, loads, path, entries, listed, ops>>
    BY <1>2 DEF vars, sameServer
  <2> QED
    BY <2>1, OpsAsTheyAre, RowsStay
<1> QED
  BY <1>1, <1>2, RowsListed, RowsUserActs, RowsOpStep DEF Next

(* Once no listing is under way, the rows of a Files window are those of the     *)
(* folder the title names, whatever order the answers came in and however often *)
(* the server was changed meanwhile.  They are of the server the sidebar marks  *)
(* as long as nothing but a first listing was under way at such a change: the   *)
(* answer of a load() of the server before is shown too, under the new server's *)
(* name (load() and the effect of FilesApp.tsx).                                *)
THEOREM RowsCoherent == ASSUME Bound \in Servers PROVE Spec => []Coherent
<1>1. Init => RowsIInv
  BY RowsInit
<1> QED
  BY <1>1, RowsImply, RowsNext, PTL DEF Spec
-----------------------------------------------------------------------------
(* What is given up.  Everything an operation may overwrite or remove was named *)
(* by a press on Delete or Replace, on the server and in the folder it was      *)
(* begun in; and what the window works with are servers and paths.              *)

Agreed(s, p) == [srv |-> s, path |-> p] \in agreed
Given(s, q) == \E g \in agreed : g.srv = s /\ IsPrefix(g.path, q)

Question(d) ==
    [kind |-> "compress", names |-> d.names, name |-> d.name, conflict |-> d.conflict,
     busy |-> d.busy]
Pasting(w) == [srv |-> w.srv, mode |-> w.mode, res |-> w.res, taken |-> w.taken]

ServersInv == connected \subseteq Servers

IsTrail(h, i) == \E S : h \in Seq(S) /\ (\A p \in S : IsPath(p)) /\ i \in 1..Len(h)

PlacesInv ==
    /\ IsPath(path) /\ \A p \in entries : IsPath(p)
    /\ DOMAIN folderByServer = Servers
    /\ \A s \in Servers : folderByServer[s] # None => IsPath(folderByServer[s])
    /\ IsTrail(history, historyIndex)

AnswersInv == \A l \in DOMAIN loads : loads[l].srv \in Servers /\ IsPath(loads[l].path)

DialogInv(d) ==
    /\ d.kind \in {"delete", "paste"} => \A p \in d.items : IsPath(p)
    /\ d.kind = "name" => d.type = "new" \/ IsPath(d.from)
    /\ d.kind = "move" => IsPath(d.from) /\ IsPath(d.destDir)
    /\ d.kind = "compress" => d = Question(d)

DialogsInv == \A d \in dialogs : DialogInv(d)

ClipInv == clipboard # None => clipboard.srv \in Servers /\ \A p \in clipboard.items : IsPath(p)

(* What an operation of a kind needs, on server s in folder dir.               *)
Granted(kind, s, dir, todo, with, given) ==
    /\ kind \in {"delete", "upload"} => \A p \in todo : [srv |-> s, path |-> p] \in given
    /\ kind = "paste" =>
         /\ with = Pasting(with) /\ with.srv \in Servers
         /\ with.res = "replace" =>
              \A p \in todo : [srv |-> s, path |-> joinPath(dir, baseName(p))] \in given
    /\ kind = "drop" => with \in Servers
    /\ kind = "look" => IsPath(with.dir)
    /\ kind = "rename" => IsPath(with)
    /\ kind = "resolve" => IsPath(with.to) /\ (with.over => [srv |-> s, path |-> with.to] \in given)
    /\ kind = "compress" =>
         /\ with.asked = Question(with.asked)
         /\ with.over => \A p \in todo : [srv |-> s, path |-> p] \in given

OpInv(o, given) ==
    /\ o.srv \in Servers /\ IsPath(o.dir) /\ \A p \in o.todo \cup o.failed : IsPath(p)
    /\ Granted(o.kind, o.srv, o.dir, o.todo, o.with, given)

OpsInv == \A o \in ops : OpInv(o, agreed)

RestInv == AnswersInv /\ DialogsInv /\ ClipInv /\ OpsInv

LostIInv == RowsIInv /\ Good(fs) /\ ServersInv /\ PlacesInv /\ RestInv

(* A step of the files that loses nothing but what was given up.               *)
Safe ==
    /\ Good(fs')
    /\ \A s \in Servers : \A q \in DOMAIN fs[s] : Remains(fs', fs[s][q]) \/ Given(s, q)

LEMMA KeptIs ==
    ASSUME NEW disk, NEW c
    PROVE  c \in Kept(disk) <=> c \notin {"dir", "new"} /\ Remains(disk, c)
<1> DEFINE At(s) == {disk[s][p] : p \in DOMAIN disk[s]}
           all == UNION {At(s) : s \in Servers}
<1>1. Kept(disk) = all \ {"dir", "new"}
  BY Zenon DEF Kept
<1>2. \A s : c \in At(s) <=> \E p \in DOMAIN disk[s] : disk[s][p] = c
  OBVIOUS
<1> HIDE DEF At
<1>3. c \in all <=> \E s \in Servers : c \in At(s)
  OBVIOUS
<1> HIDE DEF all
<1> QED
  BY <1>1, <1>2, <1>3 DEF Remains

LEMMA SafeStep ==
    ASSUME Good(fs), Safe
    PROVE  \A s \in Servers : \A p \in DOMAIN fs[s] :
             fs[s][p] \in Kept(fs) \ Kept(fs')
               => \E g \in agreed : g.srv = s /\ IsPrefix(g.path, p)
<1> TAKE s \in Servers
<1> TAKE p \in DOMAIN fs[s]
<1> HAVE fs[s][p] \in Kept(fs) \ Kept(fs')
<1>1. ~Remains(fs', fs[s][p])
  BY KeptIs
<1> QED
  BY <1>1 DEF Safe, Given

LEMMA SameFiles == ASSUME Good(fs), UNCHANGED fs PROVE Safe
BY DEF Safe, Good, Remains

LEMMA CallSafe ==
    ASSUME Good(fs), NEW possible, NEW result, NEW ok, Call(possible, result, ok),
           possible => \/ LosesNothing(result)
                       \/ \E s \in Servers : \E p : Agreed(s, p) /\ LosesOnly(result, s, p)
    PROVE  Safe
<1>1. CASE fs' = fs
  BY <1>1, SameFiles
<1>2. CASE possible /\ fs' = result /\ LosesNothing(result)
  BY <1>2 DEF LosesNothing, Safe
<1>3. ASSUME NEW s \in Servers, NEW p, Agreed(s, p), LosesOnly(result, s, p), fs' = result
      PROVE  Safe
  <2>1. ASSUME NEW q, IsPrefix(p, q) PROVE Given(s, q)
    BY <1>3, <2>1 DEF Agreed, Given
  <2> QED
    BY <1>3, <2>1 DEF LosesOnly, Safe
<1> QED
  BY <1>1, <1>2, <1>3 DEF Call

-----------------------------------------------------------------------------
(* The server of the window is one; a listing is of a server and a folder.     *)

LEMMA OneOfThem ==
    ASSUME NEW con, con \subseteq Servers, NEW picked
    PROVE  serverOf(con, picked) # None => serverOf(con, picked) \in con
BY DEF serverOf

LEMMA TheServer == ASSUME ServersInv, serverId # None PROVE serverId \in Servers
BY OneOfThem DEF serverId, ServersInv

LEMMA AnswersBegun ==
    ASSUME NEW all, \A l \in DOMAIN all : all[l].srv \in Servers /\ IsPath(all[l].path),
           NEW s \in Servers, NEW p, IsPath(p), NEW f, NEW new, new = Begun(all, s, p, f)
    PROVE  \A l \in DOMAIN new : new[l].srv \in Servers /\ IsPath(new[l].path)
BY DEF Begun

LEMMA AnswersLoad ==
    ASSUME AnswersInv, NEW s \in Servers, NEW p, IsPath(p), load(s, p)
    PROVE  AnswersInv'
<1> DEFINE new == loads'
<1>1. new = Begun(loads, s, p, FALSE)
  BY DEF load
<1>2. \A l \in DOMAIN loads : loads[l].srv \in Servers /\ IsPath(loads[l].path)
  BY DEF AnswersInv
<1> HIDE DEF new
<1>3. \A l \in DOMAIN new : new[l].srv \in Servers /\ IsPath(new[l].path)
  BY <1>1, <1>2, AnswersBegun
<1> QED
  BY <1>3 DEF AnswersInv, new

LEMMA AnswersEffect ==
    ASSUME LostIInv, NEW con, con \subseteq Servers, NEW picked, NEW start, IsPath(start),
           listEffect(con, picked, start)
    PROVE  AnswersInv'
<1> DEFINE s == serverOf(con, picked)
           stale == [l \in DOMAIN loads |->
                       IF loads[l].first THEN [loads[l] EXCEPT !.live = FALSE] ELSE loads[l]]
<1>1. CASE UNCHANGED loads
  BY <1>1 DEF LostIInv, RestInv, AnswersInv
<1>2. \A l \in DOMAIN stale : stale[l].srv \in Servers /\ IsPath(stale[l].path)
  <2>1. ASSUME NEW l \in DOMAIN loads
        PROVE  stale[l].srv = loads[l].srv /\ stale[l].path = loads[l].path
    <3>1. loads[l] = Load(loads[l])
      BY DEF LostIInv, RowsIInv, LoadsInv
    <3> QED
      BY <3>1 DEF Load
  <2>2. DOMAIN stale = DOMAIN loads
    OBVIOUS
  <2> HIDE DEF stale
  <2> QED
    BY <2>1, <2>2 DEF LostIInv, RestInv, AnswersInv
<1>3. CASE loads' = IF s = None THEN stale ELSE Begun(stale, s, start, TRUE)
  <2> HIDE DEF s, stale
  <2>1. CASE s = None
    BY <1>2, <1>3, <2>1 DEF AnswersInv
  <2>2. CASE s # None
    <3>1. s \in Servers
      BY <2>2, OneOfThem DEF s
    <3> DEFINE new == loads'
    <3>2. new = Begun(stale, s, start, TRUE)
      BY <1>3, <2>2
    <3> HIDE DEF new
    <3>3. \A l \in DOMAIN new : new[l].srv \in Servers /\ IsPath(new[l].path)
      BY <1>2, <3>1, <3>2, AnswersBegun
    <3> QED
      BY <3>3 DEF AnswersInv, new
  <2> QED
    BY <2>1, <2>2
<1> QED
  BY <1>1, <1>3 DEF listEffect

-----------------------------------------------------------------------------
(* What the user does.                                                         *)

LEMMA OpsRemain ==
    ASSUME OpsInv, agreed \subseteq agreed', \A o \in ops' : o \in ops \/ OpInv(o, agreed')
    PROVE  OpsInv'
<1>1. ASSUME NEW o \in ops PROVE OpInv(o, agreed')
  BY <1>1 DEF OpsInv, OpInv, Granted
<1> QED
  BY <1>1 DEF OpsInv

LEMMA OpAdded ==
    ASSUME OpsInv, agreed \subseteq agreed', NEW op, Begin(op), OpInv(op, agreed')
    PROVE  OpsInv'
BY OpsRemain DEF Begin

placesVars == <<path, history, historyIndex, entries, folderByServer>>

LEMMA PlacesStay == ASSUME PlacesInv, UNCHANGED placesVars PROVE PlacesInv'
BY DEF PlacesInv, placesVars, IsTrail

LEMMA RestStays == ASSUME RestInv, UNCHANGED <<loads, dialogs, clipboard, ops, agreed>> PROVE RestInv'
BY OpsRemain DEF RestInv, AnswersInv, DialogsInv, ClipInv

LEMMA EntriesArePaths ==
    ASSUME Good(fs), NEW s \in Servers, NEW p
    PROVE  \A q \in Children(s, p) : IsPath(q)
BY DEF Good, IsTree, Children

LEMMA LossListed ==
    ASSUME LostIInv, NEW l \in DOMAIN loads, Listed(l)
    PROVE  ServersInv' /\ PlacesInv' /\ RestInv'
<1> DEFINE a == loads[l]
<1>1. a.srv \in Servers /\ IsPath(a.path)
  BY DEF LostIInv, RestInv, AnswersInv
<1>2. UNCHANGED <<connected, dialogs, clipboard, ops, agreed>> /\ loads' = Ended(l)
  BY DEF Listed
<1>3. ServersInv'
  BY <1>2 DEF LostIInv, ServersInv
<1>4. RestInv'
  <2>1. AnswersInv'
    BY <1>2 DEF Ended, LostIInv, RestInv, AnswersInv
  <2> QED
    BY <1>2, <2>1, OpsRemain DEF LostIInv, RestInv, DialogsInv, ClipInv
<1>5. IsPath(path') /\ \A p \in entries' : IsPath(p)
  <2>1. path' = path \/ path' = a.path
    BY DEF Listed, view
  <2>2. entries' = entries \/ entries' = {} \/ entries' = Children(a.srv, a.path)
    BY DEF Listed, view
  <2> QED
    BY <1>1, <2>1, <2>2, EntriesArePaths DEF LostIInv, PlacesInv
<1>6. DOMAIN folderByServer' = Servers
      /\ \A s \in Servers : folderByServer'[s] # None => IsPath(folderByServer'[s])
  <2>1. UNCHANGED folderByServer \/ folderByServer' = [folderByServer EXCEPT ![a.srv] = a.path]
    BY DEF Listed
  <2> QED
    BY <1>1, <2>1 DEF LostIInv, PlacesInv
<1>7. IsTrail(history', historyIndex')
  <2>1. CASE UNCHANGED <<history, historyIndex>>
    BY <2>1 DEF LostIInv, PlacesInv
  <2>2. CASE history' = <<a.path>> /\ historyIndex' = 1
    <3> DEFINE h == <<a.path>>
    <3>1. h \in Seq({a.path}) /\ 1 \in 1..Len(h)
      OBVIOUS
    <3>2. \A p \in {a.path} : IsPath(p)
      BY <1>1
    <3>3. history' = h /\ historyIndex' = 1
      BY <2>2
    <3> HIDE DEF h, a
    <3>4. IsTrail(h, 1)
      BY <3>1, <3>2 DEF IsTrail
    <3> QED
      BY <3>3, <3>4
  <2> QED
    BY <2>1, <2>2 DEF Listed, view
<1> QED
  BY <1>3, <1>4, <1>5, <1>6, <1>7 DEF PlacesInv

LEMMA LossServersChange ==
    ASSUME LostIInv, IsPath(Start), NEW con \in SUBSET Servers, ServersChange(con)
    PROVE  ServersInv' /\ PlacesInv' /\ RestInv'
<1>1. /\ UNCHANGED <<placesVars, dialogs, clipboard, ops, agreed>> /\ connected' = con
      /\ listEffect(con, pickedId, Start)
  BY DEF ServersChange, view, placesVars
<1>2. AnswersInv'
  BY <1>1, AnswersEffect
<1> QED
  BY <1>1, <1>2, PlacesStay, OpsRemain DEF LostIInv, ServersInv, RestInv, DialogsInv, ClipInv

LEMMA TrailGoesOn ==
    ASSUME NEW h, NEW i, IsTrail(h, i), NEW p, IsPath(p)
    PROVE  IsTrail(Append(SubSeq(h, 1, i), p), i + 1)
<1>1. PICK S : h \in Seq(S) /\ (\A q \in S : IsPath(q)) /\ i \in 1..Len(h)
  BY DEF IsTrail
<1>2. IsPath(h) /\ Len(h) \in Nat /\ i \in Nat /\ i <= Len(h)
  BY <1>1, LenProperties DEF IsPath
<1> DEFINE b == SubSeq(h, 1, i)
<1>3. Len(b) = i
  BY <1>2, Piece
<1>4. b \in Seq(S)
  <2>1. \A k \in 1..i : h[k] \in S
    BY <1>1, <1>2, ElementOfSeq
  <2> QED
    BY <1>2, <2>1, SubSeqProperties
<1> HIDE DEF b
<1>5. b \in Seq(S \cup {p})
  BY <1>4, SeqMonotonic
<1>6. Append(b, p) \in Seq(S \cup {p}) /\ Len(Append(b, p)) = i + 1
  BY <1>3, <1>5
<1>7. i + 1 \in 1..Len(Append(b, p)) /\ \A q \in S \cup {p} : IsPath(q)
  BY <1>1, <1>2, <1>6
<1> QED
  BY <1>6, <1>7 DEF IsTrail, b

LEMMA TrailHas ==
    ASSUME NEW h, NEW i, IsTrail(h, i), NEW to \in DOMAIN h
    PROVE  IsPath(h[to]) /\ IsTrail(h, to)
<1>1. PICK S : h \in Seq(S) /\ \A q \in S : IsPath(q)
  BY DEF IsTrail
<1>2. to \in 1..Len(h) /\ h[to] \in S
  BY <1>1
<1> QED
  BY <1>1, <1>2 DEF IsTrail

LEMMA LossNavigate ==
    ASSUME LostIInv, \A s \in Servers : IsPath(Home[s]), Navigate
    PROVE  ServersInv' /\ PlacesInv' /\ RestInv'
<1>1. ASSUME NEW s \in Servers, selectServer(s) PROVE ServersInv' /\ PlacesInv' /\ RestInv'
  <2> DEFINE start == IF folderByServer[s] = None THEN Home[s] ELSE folderByServer[s]
  <2>1. /\ UNCHANGED <<connected, path, history, historyIndex, entries, dialogs, clipboard, ops, agreed>>
        /\ folderByServer' = [folderByServer EXCEPT ![serverId] = path]
        /\ listEffect(connected, s, start)
    BY <1>1 DEF selectServer, view
  <2>2. IsPath(start)
    BY DEF LostIInv, PlacesInv
  <2> HIDE DEF start
  <2>3. AnswersInv'
    BY <2>1, <2>2, AnswersEffect DEF LostIInv, ServersInv
  <2>4. PlacesInv'
    BY <2>1 DEF LostIInv, PlacesInv
  <2> QED
    BY <2>1, <2>3, <2>4, OpsRemain DEF LostIInv, ServersInv, RestInv, DialogsInv, ClipInv
<1>2. ASSUME NEW p, IsPath(p), goTo(p) PROVE ServersInv' /\ PlacesInv' /\ RestInv'
  <2>1. /\ UNCHANGED <<connected, entries, folderByServer, clipboard, ops, agreed>> /\ path' = p
        /\ history' = Append(SubSeq(history, 1, historyIndex), p) /\ historyIndex' = historyIndex + 1
        /\ dialogs' \subseteq dialogs /\ load(serverId, p) /\ serverId # None
    BY <1>2 DEF goTo, Unmoved, Ask
  <2>2. AnswersInv'
    BY <1>2, <2>1, TheServer, AnswersLoad DEF LostIInv, RestInv
  <2>3. PlacesInv'
    BY <1>2, <2>1, TrailGoesOn DEF LostIInv, PlacesInv
  <2> QED
    BY <2>1, <2>2, <2>3, OpsRemain DEF LostIInv, ServersInv, RestInv, DialogsInv, ClipInv
<1>3. ASSUME NEW to, Travel(to) PROVE ServersInv' /\ PlacesInv' /\ RestInv'
  <2>1. /\ UNCHANGED <<connected, entries, folderByServer, clipboard, ops, agreed, history, dialogs>>
        /\ to \in DOMAIN history /\ path' = history[to] /\ historyIndex' = to
        /\ load(serverId, history[to]) /\ serverId # None
    BY <1>3 DEF Travel, Ask
  <2>2. IsPath(history[to]) /\ IsTrail(history, to)
    BY <2>1, TrailHas DEF LostIInv, PlacesInv
  <2>3. AnswersInv'
    BY <2>1, <2>2, TheServer, AnswersLoad DEF LostIInv, RestInv
  <2>4. PlacesInv'
    BY <2>1, <2>2 DEF LostIInv, PlacesInv
  <2> QED
    BY <2>1, <2>3, <2>4, OpsRemain DEF LostIInv, ServersInv, RestInv, DialogsInv, ClipInv
<1>4. IsPath(parentPath(path)) /\ \A p \in entries : IsPath(p)
  BY Parent DEF LostIInv, PlacesInv
<1> QED
  BY <1>1, <1>2, <1>3, <1>4 DEF Navigate

(* The question about an archive, as it is changed.                            *)
Renamed(d, n, busy, conflict) == [d EXCEPT !.name = n, !.busy = busy, !.conflict = conflict]
Marked(d, busy, conflict) == [d EXCEPT !.busy = busy, !.conflict = conflict]

LEMMA AskedKeeps ==
    ASSUME NEW d, d = Question(d), NEW n, NEW busy, NEW conflict
    PROVE  /\ Renamed(d, n, busy, conflict) = Question(Renamed(d, n, busy, conflict))
           /\ Marked(d, busy, conflict) = Question(Marked(d, busy, conflict))
<1> DEFINE a == [d EXCEPT !.name = n]
           b == [a EXCEPT !.busy = busy]
           c == [b EXCEPT !.conflict = conflict]
           f == [d EXCEPT !.busy = busy]
           g == [f EXCEPT !.conflict = conflict]
<1>1. a = [kind |-> "compress", names |-> d.names, name |-> n, conflict |-> d.conflict, busy |-> d.busy]
  BY DEF Question
<1>2. b = [kind |-> "compress", names |-> d.names, name |-> n, conflict |-> d.conflict, busy |-> busy]
  <2> HIDE DEF a
  <2> QED
    BY <1>1
<1>3. c = [kind |-> "compress", names |-> d.names, name |-> n, conflict |-> conflict, busy |-> busy]
  <2> HIDE DEF a, b
  <2> QED
    BY <1>2
<1>4. f = [kind |-> "compress", names |-> d.names, name |-> d.name, conflict |-> d.conflict, busy |-> busy]
  BY DEF Question
<1>5. g = [kind |-> "compress", names |-> d.names, name |-> d.name, conflict |-> conflict, busy |-> busy]
  <2> HIDE DEF f
  <2> QED
    BY <1>4
<1>6. Renamed(d, n, busy, conflict) = c
  BY DEF Question, Renamed
<1>7. Marked(d, busy, conflict) = g
  BY DEF Question, Marked
<1> HIDE DEF a, b, c, f, g
<1> QED
  BY <1>3, <1>5, <1>6, <1>7 DEF Question

LEMMA LossAsks ==
    ASSUME LostIInv, \/ AskDelete \/ AskName \/ AskCompress \/ Cancel
                     \/ copyToClipboard
    PROVE  ServersInv' /\ PlacesInv' /\ RestInv'
<1>1. UNCHANGED <<connected, placesVars, loads, ops, agreed>>
  BY DEF AskDelete, AskName, AskCompress, Cancel, copyToClipboard,
     still, view, placesVars
<1>2. \A p \in entries : IsPath(p)
  BY DEF LostIInv, PlacesInv
<1>3. ASSUME NEW items \in Selections PROVE \A p \in items : IsPath(p)
  BY <1>2 DEF Selections
<1>4. DialogsInv'
  <2>1. DialogsInv
    BY DEF LostIInv, RestInv
  <2>2. ASSUME NEW d, DialogInv(d), openDialog(d) PROVE DialogsInv'
    BY <2>1, <2>2 DEF openDialog, Unmoved, DialogsInv
  <2>3. CASE AskDelete
    <3>1. ASSUME NEW items \in Selections PROVE DialogInv([kind |-> "delete", items |-> items])
      BY <1>3 DEF DialogInv
    <3> QED
      BY <2>2, <2>3, <3>1 DEF AskDelete
  <2>4. CASE AskName
    <3>1. DialogInv([kind |-> "name", type |-> "new", from |-> None])
      BY DEF DialogInv
    <3>2. \A p \in entries : DialogInv([kind |-> "name", type |-> "rename", from |-> p])
      BY <1>2 DEF DialogInv
    <3> QED
      BY <2>2, <2>4, <3>1, <3>2 DEF AskName
  <2>5. CASE AskCompress
    <3>1. \A names : DialogInv([kind |-> "compress", names |-> names, name |-> None,
                                conflict |-> FALSE, busy |-> FALSE])
      BY DEF DialogInv, Question
    <3> QED
      BY <2>2, <2>5, <3>1 DEF AskCompress
  <2>6. CASE Cancel
    BY <2>1, <2>6 DEF Cancel, Close, DialogsInv
  <2>7. CASE copyToClipboard
    BY <2>1, <2>7 DEF copyToClipboard, DialogsInv
  <2> QED
    BY <2>3, <2>4, <2>5, <2>6, <2>7
<1>5. ClipInv'
  <2>1. CASE UNCHANGED clipboard
    BY <2>1 DEF LostIInv, RestInv, ClipInv
  <2>2. CASE copyToClipboard
    <3>1. PICK items \in Selections, mode \in {"copy", "cut"} :
            clipboard' = [mode |-> mode, srv |-> serverId, items |-> items]
      BY <2>2 DEF copyToClipboard
    <3>2. serverId \in Servers
      BY <2>2, TheServer DEF copyToClipboard, Ask, LostIInv
    <3> QED
      BY <1>3, <3>1, <3>2 DEF ClipInv
  <2> QED
    BY <2>1, <2>2 DEF AskDelete, AskName, AskCompress, Cancel
<1> QED
  BY <1>1, <1>4, <1>5, PlacesStay, OpsRemain DEF LostIInv, ServersInv, RestInv, AnswersInv

-----------------------------------------------------------------------------
(* What a new operation may overwrite has just been agreed to.                 *)

LEMMA OpStarts ==
    ASSUME LostIInv, serverId # None, agreed \subseteq agreed',
           NEW kind, NEW todo, NEW with, \A p \in todo : IsPath(p),
           Granted(kind, serverId, path, todo, with, agreed'),
           Begin(Op(kind, todo, with))
    PROVE  OpsInv'
<1> DEFINE op == Op(kind, todo, with)
<1>1. op.kind = kind /\ op.srv = serverId /\ op.dir = path /\ op.todo = todo /\ op.failed = {}
      /\ op.with = with
  BY DEF Op
<1> HIDE DEF op
<1>2. serverId \in Servers /\ IsPath(path)
  BY TheServer DEF LostIInv, PlacesInv
<1>3. OpInv(op, agreed')
  BY <1>1, <1>2 DEF OpInv
<1> QED
  BY <1>3, OpAdded DEF LostIInv, RestInv, op

LEMMA Agrees ==
    ASSUME NEW paths, Agree(paths)
    PROVE  agreed \subseteq agreed' /\ \A p \in paths : [srv |-> serverId, path |-> p] \in agreed'
BY DEF Agree

LEMMA ConfirmDelete ==
    ASSUME LostIInv, serverId # None, NEW d \in dialogs, onDelete(d)
    PROVE  OpsInv' /\ DialogsInv'
<1>1. /\ Begin(Op("delete", d.items, None)) /\ Agree(d.items) /\ UNCHANGED dialogs
      /\ \A p \in d.items : IsPath(p)
  BY DEF onDelete, LostIInv, RestInv, DialogsInv, DialogInv
<1>2. Granted("delete", serverId, path, d.items, None, agreed') /\ agreed \subseteq agreed'
  BY <1>1, Agrees DEF Granted
<1> QED
  BY <1>1, <1>2, OpStarts DEF LostIInv, RestInv, DialogsInv

LEMMA ConfirmName ==
    ASSUME LostIInv, serverId # None, NEW d \in dialogs, submitDialog(d)
    PROVE  OpsInv' /\ DialogsInv'
<1>1. PICK n \in NewNames :
        Begin(Op("name",
          {IF d.type = "new" THEN Named(n) ELSE joinPath(parentPath(d.from), n)}, d.from))
  BY DEF submitDialog
<1>2. d.kind = "name" /\ UNCHANGED <<agreed, dialogs>>
  BY DEF submitDialog
<1>3. IsPath(path) /\ (d.type = "new" \/ IsPath(d.from))
  BY <1>2 DEF LostIInv, PlacesInv, RestInv, DialogsInv, DialogInv
<1> DEFINE p == IF d.type = "new" THEN Named(n) ELSE joinPath(parentPath(d.from), n)
<1>4. IsPath(p)
  BY <1>3, Joined, Parent DEF Named
<1> HIDE DEF p
<1>5. Granted("name", serverId, path, {p}, d.from, agreed')
  BY DEF Granted
<1>6. OpsInv'
  BY <1>1, <1>2, <1>4, <1>5, OpStarts DEF p
<1> QED
  BY <1>2, <1>6 DEF LostIInv, RestInv, DialogsInv

PasteWith(items, res) ==
    Begin(Op("paste", items,
      [srv |-> clipboard.srv, mode |-> clipboard.mode, res |-> res, taken |-> Names(entries)]))

LEMMA PasteStarts ==
    ASSUME LostIInv, serverId # None, clipboard # None, NEW items, \A p \in items : IsPath(p),
           NEW res, runPaste(items, res), agreed \subseteq agreed',
           res = "replace" =>
             \A p \in items : [srv |-> serverId,
                               path |-> joinPath(path, baseName(p))] \in agreed'
    PROVE  OpsInv' /\ DialogsInv'
<1> DEFINE with == [srv |-> clipboard.srv, mode |-> clipboard.mode, res |-> res,
                    taken |-> Names(entries)]
<1>1. Begin(Op("paste", items, with)) /\ dialogs' \subseteq dialogs
  BY DEF runPaste, Unmoved
<1>2. clipboard.srv \in Servers
  BY DEF LostIInv, RestInv, ClipInv
<1>3. with = Pasting(with) /\ with.srv \in Servers /\ with.res = res
  BY <1>2 DEF Pasting
<1> HIDE DEF with
<1>4. Granted("paste", serverId, path, items, with, agreed')
  BY <1>3 DEF Granted
<1> QED
  BY <1>1, <1>4, OpStarts DEF LostIInv, RestInv, DialogsInv

LEMMA ConfirmPaste ==
    ASSUME LostIInv, serverId # None, NEW d \in dialogs, AnswerPaste(d)
    PROVE  OpsInv' /\ DialogsInv' /\ agreed \subseteq agreed'
<1>1. clipboard # None /\ \A p \in d.items : IsPath(p)
  BY DEF AnswerPaste, LostIInv, RestInv, DialogsInv, DialogInv
<1>2. CASE runPaste(d.items, "keep") /\ UNCHANGED agreed
  BY <1>1, <1>2, PasteStarts
<1>3. CASE runPaste(d.items, "replace") /\ Agree({Named(n) : n \in Names(d.items)})
  <2>1. agreed \subseteq agreed'
        /\ \A p \in {Named(n) : n \in Names(d.items)} :
             [srv |-> serverId, path |-> p] \in agreed'
    BY <1>3, Agrees
  <2>2. \A p \in d.items : [srv |-> serverId,
                            path |-> joinPath(path, baseName(p))] \in agreed'
    BY <2>1 DEF Names, Named
  <2> QED
    BY <1>1, <1>3, <2>1, <2>2, PasteStarts
<1> QED
  BY <1>2, <1>3 DEF AnswerPaste

LEMMA ConfirmMove ==
    ASSUME LostIInv, serverId # None, NEW d \in dialogs, resolveMove(d)
    PROVE  OpsInv' /\ DialogsInv' /\ agreed \subseteq agreed'
<1>1. IsPath(d.from) /\ IsPath(d.destDir) /\ UNCHANGED dialogs
  BY DEF resolveMove, LostIInv, RestInv, DialogsInv, DialogInv
<1>2. \A n : IsPath(joinPath(d.destDir, n))
  BY <1>1, Joined
<1>3. ASSUME NEW to, IsPath(to), Agree({to}),
             Begin(Op("resolve", {d.from}, [to |-> to, over |-> TRUE]))
      PROVE  OpsInv' /\ agreed \subseteq agreed'
  <2>1. agreed \subseteq agreed' /\ [srv |-> serverId, path |-> to] \in agreed'
    BY <1>3, Agrees
  <2>2. Granted("resolve", serverId, path, {d.from}, [to |-> to, over |-> TRUE], agreed')
    BY <1>3, <2>1 DEF Granted
  <2> QED
    BY <1>1, <1>3, <2>1, <2>2, OpStarts
<1>4. ASSUME NEW to, IsPath(to), UNCHANGED agreed,
             Begin(Op("resolve", {d.from}, [to |-> to, over |-> FALSE]))
      PROVE  OpsInv' /\ agreed \subseteq agreed'
  <2>1. Granted("resolve", serverId, path, {d.from}, [to |-> to, over |-> FALSE], agreed')
    BY <1>4 DEF Granted
  <2> QED
    BY <1>1, <1>4, <2>1, OpStarts
<1>5. OpsInv' /\ agreed \subseteq agreed'
  BY <1>2, <1>3, <1>4 DEF resolveMove
<1> QED
  BY <1>1, <1>5 DEF LostIInv, RestInv, DialogsInv

LEMMA ConfirmCompress ==
    ASSUME LostIInv, serverId # None, NEW d \in dialogs, submitCompress(d)
    PROVE  OpsInv' /\ DialogsInv' /\ agreed \subseteq agreed'
<1>1. d = Question(d)
  BY DEF submitCompress, LostIInv, RestInv, DialogsInv, DialogInv
<1>2. PICK n : LET busy == [d EXCEPT !.name = n, !.busy = TRUE, !.conflict = FALSE] IN
        /\ Begin(Op("compress", {Named(n)}, [asked |-> busy, over |-> d.conflict]))
        /\ openDialog(busy)
        /\ IF d.conflict THEN Agree({Named(n)}) ELSE UNCHANGED agreed
  BY DEF submitCompress
<1> DEFINE busy == [d EXCEPT !.name = n, !.busy = TRUE, !.conflict = FALSE]
           p == Named(n)
           with == [asked |-> busy, over |-> d.conflict]
<1>3. busy = Question(busy)
  <2>1. busy = Renamed(d, n, TRUE, FALSE)
    BY DEF Renamed
  <2>2. Renamed(d, n, TRUE, FALSE) = Question(Renamed(d, n, TRUE, FALSE))
    BY ONLY <1>1, AskedKeeps
  <2> HIDE DEF busy
  <2> QED
    BY ONLY <2>1, <2>2
<1>4. IsPath(p)
  BY Joined DEF Named, LostIInv, PlacesInv
<1>5. /\ Begin(Op("compress", {p}, with)) /\ openDialog(busy)
      /\ IF d.conflict THEN Agree({p}) ELSE UNCHANGED agreed
  BY <1>2
<1> HIDE DEF busy, p
<1>6. agreed \subseteq agreed' /\ (d.conflict => [srv |-> serverId, path |-> p] \in agreed')
  BY <1>5, Agrees
<1>7. Granted("compress", serverId, path, {p}, with, agreed')
  BY <1>3, <1>6 DEF Granted
<1>8. OpsInv'
  <2> HIDE DEF with
  <2> QED
    BY <1>4, <1>5, <1>6, <1>7, OpStarts
<1>9. DialogInv(busy)
  <2>1. busy.kind = "compress"
    BY <1>3 DEF Question
  <2> QED
    BY <1>3, <2>1 DEF DialogInv
<1> QED
  BY <1>5, <1>6, <1>8, <1>9 DEF openDialog, Unmoved, LostIInv, RestInv, DialogsInv

LEMMA LossConfirm ==
    ASSUME LostIInv, Confirm
    PROVE  ServersInv' /\ PlacesInv' /\ RestInv'
<1>1. /\ UNCHANGED <<connected, placesVars, clipboard, loads>> /\ serverId # None
  BY DEF Confirm, still, rows, placesVars, Ask
<1>2. OpsInv' /\ DialogsInv'
  BY <1>1, ConfirmDelete, ConfirmName, ConfirmPaste, ConfirmMove, ConfirmCompress DEF Confirm
<1> QED
  BY <1>1, <1>2, PlacesStay DEF LostIInv, ServersInv, RestInv, AnswersInv, ClipInv

LEMMA LossPaste ==
    ASSUME LostIInv, paste
    PROVE  ServersInv' /\ PlacesInv' /\ RestInv'
<1>1. /\ UNCHANGED <<connected, placesVars, clipboard, loads, agreed>> /\ clipboard # None
  BY DEF paste, still, rows, placesVars
<1>2. \A p \in clipboard.items : IsPath(p)
  BY <1>1 DEF LostIInv, RestInv, ClipInv
<1>3. PICK items \in SUBSET clipboard.items :
        \/ serverId # None /\ runPaste(items, "keep")
        \/ openDialog([kind |-> "paste", items |-> items]) /\ UNCHANGED ops
  BY DEF paste, Ask
<1>4. CASE serverId # None /\ runPaste(items, "keep")
  BY <1>1, <1>2, <1>4, PasteStarts, PlacesStay DEF LostIInv, ServersInv, RestInv, AnswersInv, ClipInv
<1>5. CASE openDialog([kind |-> "paste", items |-> items]) /\ UNCHANGED ops
  <2>1. DialogInv([kind |-> "paste", items |-> items])
    BY <1>2 DEF DialogInv
  <2>2. DialogsInv'
    BY <1>5, <2>1 DEF openDialog, Unmoved, LostIInv, RestInv, DialogsInv
  <2> QED
    BY <1>1, <1>5, <2>2, PlacesStay, OpsRemain DEF LostIInv, ServersInv, RestInv, AnswersInv, ClipInv
<1> QED
  BY <1>3, <1>4, <1>5

LEMMA LossDrop ==
    ASSUME LostIInv, handleMove \/ onUpload \/ copyOntoServer
    PROVE  ServersInv' /\ PlacesInv' /\ RestInv'
<1>1. UNCHANGED <<connected, placesVars, dialogs, clipboard, loads>> /\ serverId # None
  BY DEF handleMove, onUpload, copyOntoServer, still, rows, view,
     placesVars, Ask
<1>2. IsPath(path) /\ \A p \in entries : IsPath(p)
  BY DEF LostIInv, PlacesInv
<1>3. OpsInv'
  <2>1. CASE handleMove
    <3>0. PICK p \in entries, dir \in entries \cup {parentPath(path), path} :
            \E seen : Begin(Op("look", {p}, [dir |-> dir, seen |-> seen])) /\ UNCHANGED agreed
      BY <2>1 DEF handleMove
    <3>1. PICK seen : Begin(Op("look", {p}, [dir |-> dir, seen |-> seen])) /\ UNCHANGED agreed
      BY <3>0
    <3>2. IsPath(dir) /\ IsPath(p)
      BY <1>2, Parent
    <3>3. Granted("look", serverId, path, {p}, [dir |-> dir, seen |-> seen], agreed')
      BY <3>2 DEF Granted
    <3> QED
      BY <1>1, <3>1, <3>2, <3>3, OpStarts
  <2>2. CASE onUpload
    <3>1. PICK n \in NewNames : Begin(Op("upload", {Named(n)}, None))
                                /\ Agree({Named(n)})
      BY <2>2 DEF onUpload
    <3> DEFINE p == Named(n)
    <3>2. IsPath(p)
      BY <1>2, Joined DEF Named
    <3> HIDE DEF p
    <3>3. agreed \subseteq agreed' /\ [srv |-> serverId, path |-> p] \in agreed'
      BY <3>1, Agrees DEF p
    <3>4. Granted("upload", serverId, path, {p}, None, agreed')
      BY <3>3 DEF Granted
    <3> QED
      BY <1>1, <3>1, <3>2, <3>3, <3>4, OpStarts DEF p
  <2>3. CASE copyOntoServer
    <3>1. PICK items \in Selections, s \in connected : 
            Begin(Op("drop", items, s)) /\ UNCHANGED agreed
      BY <2>3 DEF copyOntoServer
    <3>2. \A p \in items : IsPath(p)
      BY <1>2 DEF Selections
    <3>3. Granted("drop", serverId, path, items, s, agreed')
      BY DEF Granted, LostIInv, ServersInv
    <3> QED
      BY <1>1, <3>1, <3>2, <3>3, OpStarts
  <2> QED
    BY <2>1, <2>2, <2>3
<1> QED
  BY <1>1, <1>3, PlacesStay DEF LostIInv, ServersInv, RestInv, AnswersInv, DialogsInv, ClipInv

LEMMA LossUserActs ==
    ASSUME LostIInv, \A s \in Servers : IsPath(Home[s]), UserActs
    PROVE  ServersInv' /\ PlacesInv' /\ RestInv' /\ UNCHANGED fs
<1>1. ServersInv' /\ PlacesInv' /\ RestInv'
  BY LossNavigate, LossAsks, LossConfirm, LossPaste, LossDrop DEF UserActs
<1>2. UNCHANGED fs
  BY DEF UserActs, Navigate, selectServer, goTo, Travel, AskDelete,
     AskName, AskCompress, Cancel, copyToClipboard, Confirm, paste,
     handleMove, onUpload, copyOntoServer
<1> QED
  BY <1>1, <1>2

-----------------------------------------------------------------------------
(* An operation goes on.                                                       *)

LEMMA GrantedLess ==
    ASSUME NEW kind, NEW s, NEW dir, NEW todo, NEW with, NEW given, NEW left \in SUBSET todo,
           Granted(kind, s, dir, todo, with, given)
    PROVE  Granted(kind, s, dir, left, with, given)
BY DEF Granted

LEMMA CountedOp ==
    ASSUME LostIInv, NEW o \in ops, NEW p \in o.todo, NEW ok
    PROVE  /\ OpInv(Counted(o, p, ok), agreed)
           /\ Counted(o, p, ok) = Operation(Counted(o, p, ok))
           /\ Counted(o, p, ok).kind = o.kind /\ Counted(o, p, ok).srv = o.srv
           /\ Counted(o, p, ok).dir = o.dir /\ Counted(o, p, ok).with = o.with
           /\ Counted(o, p, ok).todo = o.todo \ {p}
<1> DEFINE c == Counted(o, p, ok)
<1>1. o = Operation(o) /\ OpInv(o, agreed)
  BY DEF LostIInv, RowsIInv, LoadsInv, RestInv, OpsInv
<1>2. c = Operation(c)
  BY CountedIs DEF LostIInv
<1>3. c.kind = o.kind /\ c.srv = o.srv /\ c.dir = o.dir /\ c.with = o.with /\ c.todo = o.todo \ {p}
      /\ c.failed \subseteq o.failed \cup {p}
  BY <1>1 DEF Operation, Counted
<1> HIDE DEF c
<1>4. Granted(c.kind, c.srv, c.dir, c.todo, c.with, agreed)
  BY <1>1, <1>3, GrantedLess DEF OpInv
<1>5. OpInv(c, agreed)
  BY <1>1, <1>3, <1>4 DEF OpInv
<1> QED
  BY <1>2, <1>3, <1>5 DEF c

LEMMA LossGoes ==
    ASSUME LostIInv, NEW o \in ops, NEW next, OpInv(next, agreed), Goes(o, next),
           UNCHANGED agreed
    PROVE  RestInv'
<1>1. OpsInv'
  BY OpsRemain DEF Goes, LostIInv, RestInv
<1> QED
  BY <1>1 DEF Goes, LostIInv, RestInv, AnswersInv, DialogsInv, ClipInv

LEMMA LossEnds ==
    ASSUME LostIInv, NEW o \in ops, NEW kind, EndsWell(o, kind), UNCHANGED agreed, ClipInv'
    PROVE  RestInv'
<1>1. o.srv \in Servers /\ IsPath(o.dir)
  BY DEF LostIInv, RestInv, OpsInv, OpInv
<1>2. AnswersInv'
  BY <1>1, AnswersLoad DEF EndsWell, LostIInv, RestInv
<1>3. OpsInv'
  BY OpsRemain DEF EndsWell, LostIInv, RestInv
<1>4. DialogsInv'
  BY DEF EndsWell, Unmoved, LostIInv, RestInv, DialogsInv
<1> QED
  BY <1>2, <1>3, <1>4 DEF RestInv

LEMMA LossLeaves ==
    ASSUME LostIInv, NEW o \in ops, ops' = ops \ {o}, UNCHANGED <<agreed, loads, clipboard>>,
           \A d \in dialogs' : d \in dialogs \/ DialogInv(d)
    PROVE  RestInv'
<1>1. OpsInv'
  BY OpsRemain DEF LostIInv, RestInv
<1> QED
  BY <1>1 DEF LostIInv, RestInv, AnswersInv, DialogsInv, ClipInv

(* The clipboard is as it was, unless a move was pasted.                       *)
LEMMA ClipStays == ASSUME LostIInv, UNCHANGED clipboard PROVE ClipInv'
BY DEF LostIInv, RestInv, ClipInv

Allowed(possible, result) ==
    possible => \/ LosesNothing(result)
                \/ \E s \in Servers : \E p : Agreed(s, p) /\ LosesOnly(result, s, p)

LEMMA AllowedCall ==
    ASSUME LostIInv, NEW possible, NEW result, NEW ok, Call(possible, result, ok),
           Allowed(possible, result)
    PROVE  Safe
BY CallSafe DEF Allowed, LostIInv

LEMMA AllowedRemove ==
    ASSUME LostIInv, NEW s \in Servers, NEW p, Agreed(s, p)
    PROVE  Allowed(p \in DOMAIN fs[s], remove(s, p))
BY RemoveKeeps DEF Allowed, LostIInv

LEMMA AllowedInsert ==
    ASSUME LostIInv, NEW s \in Servers, NEW p, IsPath(p), NEW over, over => Agreed(s, p),
           NEW content, NEW possible, possible => CanInsert(s, p, over)
    PROVE  Allowed(possible, insert(s, p, content))
BY InsertKeeps DEF Allowed, LostIInv

LEMMA AllowedPlace ==
    ASSUME LostIInv, NEW a \in Servers, NEW b \in Servers, NEW from, NEW to, IsPath(to),
           NEW over, over => Agreed(b, to), NEW cut \in BOOLEAN
    PROVE  Allowed(CanPlace(a, from, b, to, over), place(a, from, b, to, cut))
BY PlaceKeeps DEF Allowed, LostIInv

(* The calls that are one operation each.                                      *)
LEMMA LossSingle ==
    ASSUME LostIInv, UNCHANGED agreed, NEW o \in ops, NEW p, NEW ok \in BOOLEAN, NEW possible,
           NEW result, Allowed(possible, result), NEW kind, NEW left,
           \A d \in left : d \in dialogs \/ DialogInv(d),
           Single(o, p, ok, possible, result, kind, left)
    PROVE  Safe /\ RestInv'
<1>1. Safe
  BY AllowedCall DEF Single
<1>2. CASE EndsWell(o, kind) /\ UNCHANGED clipboard
  BY <1>1, <1>2, LossEnds, ClipStays
<1>3. CASE EndsBadly(o, left)
  BY <1>1, <1>3, LossLeaves DEF EndsBadly
<1> QED
  BY <1>2, <1>3 DEF Single

LEMMA LossDelete ==
    ASSUME LostIInv, UNCHANGED agreed, NEW o \in ops, o.kind = "delete", NEW p \in o.todo,
           NEW ok \in BOOLEAN, deleteNext(o, p, ok)
    PROVE  Safe /\ RestInv'
<1>1. o.srv \in Servers /\ Agreed(o.srv, p)
  BY DEF LostIInv, RestInv, OpsInv, OpInv, Granted, Agreed
<1>2. Safe
  BY <1>1, AllowedRemove, AllowedCall DEF deleteNext
<1>3. RestInv'
  BY CountedOp, LossGoes, LossEnds, ClipStays DEF deleteNext
<1> QED
  BY <1>2, <1>3

LEMMA LossDropNext ==
    ASSUME LostIInv, \A s \in Servers : IsPath(Home[s]), UNCHANGED agreed, NEW o \in ops,
           o.kind = "drop", NEW p \in o.todo, NEW ok \in BOOLEAN, dropNext(o, p, ok)
    PROVE  Safe /\ RestInv'
<1> DEFINE to == joinPath(Home[o.with], baseName(p))
<1>1. o.srv \in Servers /\ o.with \in Servers
  BY DEF LostIInv, RestInv, OpsInv, OpInv, Granted
<1>2. IsPath(to)
  BY <1>1, Joined
<1>3. Call(CanPlace(o.srv, p, o.with, to, FALSE), place(o.srv, p, o.with, to, FALSE), ok)
  BY DEF dropNext
<1> HIDE DEF to
<1>4. Safe
  <2>1. Allowed(CanPlace(o.srv, p, o.with, to, FALSE), place(o.srv, p, o.with, to, FALSE))
    BY <1>1, <1>2, AllowedPlace
  <2> QED
    BY <1>3, <2>1, AllowedCall
<1>5. RestInv'
  BY CountedOp, LossGoes, LossLeaves DEF dropNext
<1> QED
  BY <1>4, <1>5

LEMMA LossLook ==
    ASSUME LostIInv, UNCHANGED agreed, NEW o \in ops, o.kind = "look", NEW p \in o.todo,
           NEW ok \in BOOLEAN, lookNext(o, p, ok)
    PROVE  Safe /\ RestInv'
<1> DEFINE to == joinPath(o.with.dir, baseName(p))
<1>1. o = Operation(o) /\ OpInv(o, agreed) /\ IsPath(o.with.dir) /\ IsPath(p)
  BY DEF LostIInv, RowsIInv, LoadsInv, RestInv, OpsInv, OpInv, Granted
<1>2. UNCHANGED fs
  BY DEF lookNext
<1>3. Safe
  BY <1>2, SameFiles DEF LostIInv
<1>4. CASE EndsBadly(o, dialogs)
  <2>1. ops' = ops \ {o} /\ UNCHANGED <<agreed, loads, clipboard>>
        /\ \A d \in dialogs' : d \in dialogs \/ DialogInv(d)
    BY <1>4 DEF EndsBadly
  <2> QED
    BY <1>3, <2>1, LossLeaves
<1>5. ASSUME NEW names, ops' = ops \ {o}, UNCHANGED <<clipboard, loads>>,
             openDialog([kind |-> "move", from |-> p, destDir |-> o.with.dir, names |-> names])
      PROVE  RestInv'
  <2>1. DialogInv([kind |-> "move", from |-> p, destDir |-> o.with.dir, names |-> names])
    BY <1>1 DEF DialogInv
  <2> QED
    BY <1>5, <2>1, LossLeaves DEF openDialog, Unmoved
<1>6. CASE Goes(o, [o EXCEPT !.kind = "rename", !.with = to])
  <2> DEFINE r == [o EXCEPT !.kind = "rename"]
             next == [o EXCEPT !.kind = "rename", !.with = to]
  <2>1. r = [n |-> o.n, kind |-> "rename", srv |-> o.srv, dir |-> o.dir, todo |-> o.todo,
             failed |-> o.failed, with |-> o.with]
    BY <1>1 DEF Operation
  <2>2. IsPath(to)
    BY <1>1, Joined
  <2> HIDE DEF to
  <2>3. next = [r EXCEPT !.with = to]
    BY <1>1 DEF Operation
  <2>4. Goes(o, next)
    BY <1>6
  <2> HIDE DEF r, next
  <2>5. next.kind = "rename" /\ next.srv = o.srv /\ next.dir = o.dir /\ next.todo = o.todo
        /\ next.failed = o.failed /\ next.with = to
    BY <2>1, <2>3
  <2>6. OpInv(next, agreed)
    BY <1>1, <2>2, <2>5 DEF OpInv, Granted
  <2>7. RestInv'
    BY <2>4, <2>6, LossGoes
  <2> QED
    BY <1>3, <2>7
<1> QED
  BY <1>3, <1>4, <1>5, <1>6 DEF lookNext

LEMMA LossPasteNext ==
    ASSUME LostIInv, UNCHANGED agreed, NEW o \in ops, o.kind = "paste", NEW p \in o.todo,
           NEW ok \in BOOLEAN, pasteNext(o, p, ok)
    PROVE  Safe /\ RestInv'
<1> DEFINE w == o.with
           clash == baseName(p) \in w.taken
           over == clash /\ w.res = "replace" /\ (~(w.srv = o.srv) \/ parentPath(p) # o.dir)
           name == IF clash /\ ~over THEN suggestUniqueName(w.taken, baseName(p))
                   ELSE baseName(p)
           to == joinPath(o.dir, name)
           c == Counted(o, p, ok)
           done == [c EXCEPT !.with.taken = @ \cup {name}]
<1>1. /\ o.srv \in Servers /\ w.srv \in Servers /\ IsPath(o.dir) /\ w = Pasting(w)
      /\ w.res = "replace" => Agreed(o.srv, joinPath(o.dir, baseName(p)))
  BY DEF LostIInv, RestInv, OpsInv, OpInv, Granted, Agreed
<1>2. Call(CanPlace(w.srv, p, o.srv, to, over),
                 place(w.srv, p, o.srv, to, w.mode = "cut"), ok)
  BY DEF pasteNext
<1>3. \/ Goes(o, done)
      \/ /\ EndsWell(o, "paste")
         /\ clipboard' = IF w.mode = "copy" THEN clipboard
                         ELSE IF done.failed = {} THEN None
                         ELSE [mode |-> "cut", srv |-> w.srv, items |-> done.failed]
  BY DEF pasteNext
<1>4. IsPath(to) /\ (over => Agreed(o.srv, to))
  BY <1>1, Joined
<1>5. Safe
  <2> DEFINE cut == w.mode = "cut"
  <2>1. cut \in BOOLEAN
    OBVIOUS
  <2> HIDE DEF w, over, to, cut
  <2>2. Allowed(CanPlace(w.srv, p, o.srv, to, over), place(w.srv, p, o.srv, to, cut))
    BY <1>1, <1>4, <2>1, AllowedPlace
  <2>3. Call(CanPlace(w.srv, p, o.srv, to, over), place(w.srv, p, o.srv, to, cut), ok)
    BY <1>2 DEF cut
  <2> QED
    BY <2>2, <2>3, AllowedCall
<1>6. c = Operation(c) /\ OpInv(c, agreed) /\ c.kind = "paste" /\ c.with = w
  BY CountedOp
<1>7. done.kind = "paste" /\ done.srv = c.srv /\ done.dir = c.dir /\ done.todo = c.todo
      /\ done.failed = c.failed /\ done.with = [w EXCEPT !.taken = @ \cup {name}]
  <2> HIDE DEF c, w, name
  <2> QED
    BY <1>6 DEF Operation
<1> HIDE DEF done
<1>8. done.with = Pasting(done.with) /\ done.with.srv = w.srv /\ done.with.res = w.res
  <2> HIDE DEF w, name
  <2> QED
    BY <1>1, <1>7 DEF Pasting
<1>9. OpInv(done, agreed)
  <2> HIDE DEF c, w, name
  <2> QED
    BY <1>6, <1>7, <1>8 DEF OpInv, Granted
<1>10. RestInv'
  <2>1. CASE Goes(o, done)
    BY <1>9, <2>1, LossGoes
  <2>2. CASE /\ EndsWell(o, "paste")
             /\ clipboard' = IF w.mode = "copy" THEN clipboard
                             ELSE IF done.failed = {} THEN None
                             ELSE [mode |-> "cut", srv |-> w.srv, items |-> done.failed]
    <3>1. ClipInv'
      <4>1. \A q \in done.failed : IsPath(q)
        BY <1>9 DEF OpInv
      <4> HIDE DEF w
      <4> QED
        BY <1>1, <2>2, <4>1, ClipStays DEF ClipInv
    <3> QED
      BY <2>2, <3>1, LossEnds
  <2> QED
    BY <1>3, <2>1, <2>2
<1> QED
  BY <1>5, <1>10

LEMMA LossCompress ==
    ASSUME LostIInv, UNCHANGED agreed, NEW o \in ops, o.kind = "compress", NEW p \in o.todo,
           NEW ok \in BOOLEAN, compressNext(o, p, ok)
    PROVE  Safe /\ RestInv'
<1> DEFINE again(conflict) == Unmoved("compress") \cup {Marked(o.with.asked, FALSE, conflict)}
           all == \A n \in o.with.asked.names : joinPath(o.dir, n) \in DOMAIN fs[o.srv]
<1>1. o.srv \in Servers /\ IsPath(p) /\ o.with.asked = Question(o.with.asked)
      /\ (o.with.over => Agreed(o.srv, p))
  BY DEF LostIInv, RestInv, OpsInv, OpInv, Granted, Agreed
<1>2. \/ ops' = ops \ {o} /\ dialogs' = again(TRUE) /\ UNCHANGED <<fs, clipboard, loads>>
      \/ Single(o, p, ok, all /\ CanInsert(o.srv, p, o.with.over),
                      insert(o.srv, p, "new"), "compress", again(FALSE))
  BY DEF compressNext, Marked
<1>3. ASSUME NEW conflict PROVE \A d \in again(conflict) : d \in dialogs \/ DialogInv(d)
  <2>1. DialogInv(Marked(o.with.asked, FALSE, conflict))
    <3> DEFINE e == Marked(o.with.asked, FALSE, conflict)
    <3>1. e = Question(e)
      BY ONLY <1>1, AskedKeeps
    <3> HIDE DEF e
    <3>2. e.kind = "compress"
      BY <3>1 DEF Question
    <3>3. DialogInv(e)
      BY <3>1, <3>2 DEF DialogInv
    <3> QED
      BY <3>3 DEF e
  <2> QED
    BY <2>1 DEF Unmoved
<1> HIDE DEF again, all
<1>4. CASE ops' = ops \ {o} /\ dialogs' = again(TRUE) /\ UNCHANGED <<fs, clipboard, loads>>
  <2>1. Safe
    BY <1>4, SameFiles DEF LostIInv
  <2> QED
    BY <1>3, <1>4, <2>1, LossLeaves
<1>5. CASE Single(o, p, ok, all /\ CanInsert(o.srv, p, o.with.over),
                        insert(o.srv, p, "new"), "compress", again(FALSE))
  <2>1. Allowed(all /\ CanInsert(o.srv, p, o.with.over), insert(o.srv, p, "new"))
    BY <1>1, AllowedInsert
  <2> QED
    BY <1>3, <1>5, <2>1, LossSingle
<1> QED
  BY <1>2, <1>4, <1>5

LEMMA LossNext1 ==
    ASSUME LostIInv, \A s \in Servers : IsPath(Home[s]), UNCHANGED agreed, NEW o \in ops,
           NEW p \in o.todo, NEW ok \in BOOLEAN, Next1(o, p, ok)
    PROVE  Safe /\ RestInv'
<1>1. o.kind \in Kinds /\ o.srv \in Servers /\ IsPath(p)
  BY DEF LostIInv, RowsIInv, LoadsInv, RestInv, OpsInv, OpInv
<1>2. \A d \in dialogs : d \in dialogs \/ DialogInv(d)
  OBVIOUS
<1>3. CASE o.kind = "delete"
  BY <1>3, LossDelete DEF Next1
<1>4. CASE o.kind = "paste"
  BY <1>4, LossPasteNext DEF Next1
<1>5. CASE o.kind = "drop"
  BY <1>5, LossDropNext DEF Next1
<1>6. CASE o.kind = "look"
  BY <1>6, LossLook DEF Next1
<1>7. CASE o.kind = "compress"
  BY <1>7, LossCompress DEF Next1
<1>8. CASE o.kind = "name"
  <2>1. CASE o.with = None
    <3>1. Single(o, p, ok, CanInsert(o.srv, p, FALSE), insert(o.srv, p, "new"),
                       "name", dialogs)
      BY <1>8, <2>1 DEF Next1
    <3>2. Allowed(CanInsert(o.srv, p, FALSE), insert(o.srv, p, "new"))
      BY <1>1, AllowedInsert
    <3> QED
      BY <1>2, <3>1, <3>2, LossSingle
  <2>2. CASE o.with # None
    <3>1. Single(o, p, ok, CanPlace(o.srv, o.with, o.srv, p, FALSE),
                       place(o.srv, o.with, o.srv, p, TRUE), "name", dialogs)
      BY <1>8, <2>2 DEF Next1
    <3>2. Allowed(CanPlace(o.srv, o.with, o.srv, p, FALSE), place(o.srv, o.with, o.srv, p, TRUE))
      BY <1>1, AllowedPlace
    <3> QED
      BY <1>2, <3>1, <3>2, LossSingle
  <2> QED
    BY <2>1, <2>2
<1>9. CASE o.kind = "upload"
  <2>1. Single(o, p, ok, CanInsert(o.srv, p, TRUE), insert(o.srv, p, "new"),
                     "none", dialogs)
    BY <1>9 DEF Next1
  <2>2. Agreed(o.srv, p)
    BY <1>9 DEF LostIInv, RestInv, OpsInv, OpInv, Granted, Agreed
  <2>3. Allowed(CanInsert(o.srv, p, TRUE), insert(o.srv, p, "new"))
    BY <1>1, <2>2, AllowedInsert
  <2> QED
    BY <1>2, <2>1, <2>3, LossSingle
<1>10. CASE o.kind = "rename"
  <2>1. Single(o, p, ok, CanPlace(o.srv, p, o.srv, o.with, FALSE),
                     place(o.srv, p, o.srv, o.with, TRUE), "none", dialogs)
    BY <1>10 DEF Next1
  <2>2. IsPath(o.with)
    BY <1>10 DEF LostIInv, RestInv, OpsInv, OpInv, Granted
  <2>3. Allowed(CanPlace(o.srv, p, o.srv, o.with, FALSE), place(o.srv, p, o.srv, o.with, TRUE))
    BY <1>1, <2>2, AllowedPlace
  <2> QED
    BY <1>2, <2>1, <2>3, LossSingle
<1>11. CASE o.kind = "resolve"
  <2>1. Single(o, p, ok, CanPlace(o.srv, p, o.srv, o.with.to, o.with.over),
                     place(o.srv, p, o.srv, o.with.to, TRUE), "move", dialogs)
    BY <1>11 DEF Next1
  <2>2. IsPath(o.with.to) /\ (o.with.over => Agreed(o.srv, o.with.to))
    BY <1>11 DEF LostIInv, RestInv, OpsInv, OpInv, Granted, Agreed
  <2>3. Allowed(CanPlace(o.srv, p, o.srv, o.with.to, o.with.over),
                place(o.srv, p, o.srv, o.with.to, TRUE))
    BY <1>1, <2>2, AllowedPlace
  <2> QED
    BY <1>2, <2>1, <2>3, LossSingle
<1> QED
  BY <1>1, <1>3, <1>4, <1>5, <1>6, <1>7, <1>8, <1>9, <1>10, <1>11 DEF Kinds

LEMMA LossOpStep ==
    ASSUME LostIInv, \A s \in Servers : IsPath(Home[s]), OpStep
    PROVE  Safe /\ ServersInv' /\ PlacesInv' /\ RestInv'
<1>1. UNCHANGED <<connected, placesVars, agreed>>
  BY DEF OpStep, still, rows, placesVars
<1>2. Safe /\ RestInv'
  BY <1>1, LossNext1 DEF OpStep
<1> QED
  BY <1>1, <1>2, PlacesStay DEF LostIInv, ServersInv

(* What the theorem is about: servers with trees of files, and folders to      *)
(* start in.                                                                   *)
Disks ==
    /\ Bound \in Servers /\ IsPath(Start) /\ \A s \in Servers : IsPath(Home[s])
    /\ Good(Disk)

LEMMA LossNext ==
    ASSUME LostIInv, Disks, [Next]_vars
    PROVE  Safe /\ LostIInv'
<1>1. RowsIInv'
  BY RowsNext DEF LostIInv
<1>2. CASE UNCHANGED vars
  <2>1. UNCHANGED <<fs, connected, placesVars, loads, dialogs, clipboard, ops, agreed>>
    BY <1>2 DEF vars, placesVars
  <2> QED
    BY <1>1, <2>1, SameFiles, PlacesStay, RestStays DEF LostIInv, ServersInv, Safe
<1>3. CASE UserActs
  BY <1>1, <1>3, LossUserActs, SameFiles DEF LostIInv, Safe, Disks
<1>4. CASE OpStep
  BY <1>1, <1>4, LossOpStep DEF LostIInv, Safe, Disks
<1>5. ASSUME NEW l \in DOMAIN loads, Listed(l) PROVE Safe /\ LostIInv'
  BY <1>1, <1>5, LossListed, SameFiles DEF LostIInv, Safe, Listed
<1>6. ASSUME NEW con \in SUBSET Servers, ServersChange(con) PROVE Safe /\ LostIInv'
  BY <1>1, <1>6, LossServersChange, SameFiles DEF LostIInv, Safe, ServersChange, Disks
<1> QED
  BY <1>2, <1>3, <1>4, <1>5, <1>6 DEF Next

LEMMA LossInit == ASSUME Disks, Init PROVE LostIInv
<1>1. RowsIInv
  BY RowsInit DEF Disks
<1>2. Good(fs) /\ ServersInv
  BY DEF Disks, Init, ServersInv
<1>3. PlacesInv
  <2>1. IsTrail(history, historyIndex)
    <3> DEFINE h == <<<<>>>>
    <3>1. h \in Seq({<<>>}) /\ 1 \in 1..Len(h)
      OBVIOUS
    <3>2. \A p \in {<<>>} : IsPath(p)
      BY EmptyPath
    <3>3. history = h /\ historyIndex = 1
      BY DEF Init
    <3> HIDE DEF h
    <3> QED
      BY <3>1, <3>2, <3>3 DEF IsTrail
  <2> QED
    BY <2>1, EmptyPath DEF Init, PlacesInv
<1>4. RestInv
  <2>1. PICK l : loads = [k \in {l} |-> [srv |-> Bound, path |-> Start, first |-> TRUE, live |-> TRUE]]
    BY DEF Init
  <2>2. AnswersInv
    BY <2>1 DEF AnswersInv, Disks
  <2> QED
    BY <2>2 DEF Init, RestInv, DialogsInv, ClipInv, OpsInv
<1> QED
  BY <1>1, <1>2, <1>3, <1>4 DEF LostIInv

(* Whatever is pasted, moved, renamed, archived, dropped or deleted, in any       *)
(* order, on any servers, with any answer lost: a file is lost only where the     *)
(* user pressed Delete or Replace (or uploaded), that item, on the server and in  *)
(* the folder the window showed at that moment.                                   *)
THEOREM LostOnlyWhereAgreed == ASSUME Disks PROVE Spec => NothingLost
<1> DEFINE Step == \A s \in Servers : \A p \in DOMAIN fs[s] :
                     fs[s][p] \in Kept(fs) \ Kept(fs')
                       => \E g \in agreed : g.srv = s /\ IsPrefix(g.path, p)
<1>1. Init => LostIInv
  BY LossInit
<1>2. LostIInv /\ [Next]_vars => LostIInv'
  BY LossNext
<1>3. LostIInv /\ [Next]_vars => Step
  BY LossNext, SafeStep DEF LostIInv
<1> HIDE DEF Step
<1>4. Spec => [][Step]_vars
  BY <1>1, <1>2, <1>3, PTL DEF Spec
<1> QED
  BY <1>4 DEF Step, NothingLost

=============================================================================
