---------------------------- MODULE FiltersProofs ----------------------------
(***************************************************************************)
(* Lemmas about sequences: what the recursive functions of Filters compute,  *)
(* for every sequence, by induction over the prefixes; and what joining,     *)
(* cutting and moving elements keeps.                                       *)
(*                                                                         *)
(* An induction is over a set of numbers (Inductive), from the theorem that  *)
(* a set with a well-founded relation has a minimal element.                *)
(***************************************************************************)
EXTENDS Filters, FiniteSetTheorems, SequenceTheorems, WellFoundedInduction, TLAPS

(* A set that has 0 and with every number the next one has every number.     *)
LEMMA Inductive ==
  ASSUME NEW S, 0 \in S, \A n \in Nat : n \in S => n + 1 \in S
  PROVE  Nat \subseteq S
<1> DEFINE R == OpToRel(<, Nat)
          T == Nat \ S
<1>1. IsWellFoundedOn(R, Nat) BY NatLessThanWellFounded
<1>2. SUFFICES ASSUME T # {} PROVE FALSE OBVIOUS
<1> HIDE DEF R
<1>3. PICK x \in T : \A y \in T : <<y, x>> \notin R
  <2>1. T \subseteq Nat OBVIOUS
  <2> HIDE DEF T
  <2> QED BY <1>1, <1>2, <2>1, WFMin
<1>4. x \in Nat /\ x # 0 /\ x - 1 \in Nat /\ x - 1 \notin T
  <2>1. x \in Nat /\ x # 0 OBVIOUS
  <2>2. x - 1 \in Nat BY <2>1
  <2>3. <<x - 1, x>> \in R BY <2>1, <2>2 DEF R, OpToRel
  <2> QED BY <2>1, <2>2, <2>3, <1>3
<1> QED BY <1>4

(* Array.filter up to its n-th element.                                      *)
KeptTo(k, x, S) == IF x \in S THEN Append(k, x) ELSE k
KeptOf(s, S, f, n) ==
    f = [i \in 0..n |-> IF i = 0 THEN <<>> ELSE KeptTo(f[i - 1], s[i], S)]

LEMMA KeptExists ==
    ASSUME NEW s, NEW S, NEW n \in Nat
    PROVE  \E f : KeptOf(s, S, f, n)
<1> DEFINE Good == {m \in Nat : \E f : KeptOf(s, S, f, m)}
<1>1. 0 \in Good
  <2>1. KeptOf(s, S, [i \in 0..0 |-> <<>>], 0)
    BY DEF KeptOf
  <2> QED BY <2>1
<1>2. ASSUME NEW m \in Nat, m \in Good PROVE m + 1 \in Good
  <2>1. PICK f : KeptOf(s, S, f, m)
    BY <1>2
  <2> DEFINE next == KeptTo(f[m], s[m + 1], S)
             g == [i \in 0..(m + 1) |-> IF i = m + 1 THEN next ELSE f[i]]
  <2>2. ASSUME NEW i \in 0..(m + 1)
        PROVE  g[i] = IF i = 0 THEN <<>> ELSE KeptTo(g[i - 1], s[i], S)
    <3>1. CASE i = m + 1
      BY <3>1
    <3>2. CASE i # m + 1
      <4>1. i \in 0..m /\ i \in 0..(m + 1) /\ (i # 0 => i - 1 \in 0..m /\ i - 1 \in 0..(m + 1))
        BY <3>2
      <4>2. g[i] = f[i] /\ (i # 0 => g[i - 1] = f[i - 1])
        BY <3>2, <4>1
      <4>3. f[i] = IF i = 0 THEN <<>> ELSE KeptTo(f[i - 1], s[i], S)
        BY <2>1, <4>1 DEF KeptOf
      <4> QED BY <4>2, <4>3
    <3> QED BY <3>1, <3>2
  <2> HIDE DEF g
  <2>3. KeptOf(s, S, g, m + 1)
    <3>1. g = [i \in 0..(m + 1) |-> g[i]]
      BY DEF g
    <3> QED BY <2>2, <3>1 DEF KeptOf
  <2> QED BY <2>3
<1>3. Nat \subseteq Good
  <2> HIDE DEF Good
  <2> QED BY <1>1, <1>2, Inductive
<1> QED BY <1>3

LEMMA KeepIs ==
    ASSUME NEW T, NEW s \in Seq(T), NEW S
    PROVE  \E f : KeptOf(s, S, f, Len(s)) /\ Keep(s, S) = f[Len(s)]
<1> DEFINE f == CHOOSE f : KeptOf(s, S, f, Len(s))
<1>1. KeptOf(s, S, f, Len(s))
  BY KeptExists, LenProperties
<1>2. Keep(s, S) = f[Len(s)]
  BY DEF Keep, KeptOf, KeptTo
<1> QED BY <1>1, <1>2

(* at: where the kept elements k stand in s, of which n are looked at.         *)
Embeds(at, k, s, S, n) ==
    /\ at \in [1..Len(k) -> 1..n]
    /\ \A i \in 1..Len(k) : k[i] = s[at[i]] /\ s[at[i]] \in S
    /\ \A i, j \in 1..Len(k) : i < j => at[i] < at[j]
    /\ \A m \in 1..n : s[m] \in S => \E i \in 1..Len(k) : at[i] = m

(* What filter keeps stands in s in the same order, and nothing is missing.  *)
LEMMA KeepEmbeds ==
    ASSUME NEW T, NEW s \in Seq(T), NEW S
    PROVE  /\ Keep(s, S) \in Seq(T)
           /\ \E at : Embeds(at, Keep(s, S), s, S, Len(s))
<1>1. PICK f : KeptOf(s, S, f, Len(s)) /\ Keep(s, S) = f[Len(s)]
  BY KeepIs
<1> DEFINE Good == {n \in Nat : n <= Len(s) => f[n] \in Seq(T) /\ \E at : Embeds(at, f[n], s, S, n)}
<1>n. Len(s) \in Nat
  BY LenProperties
<1>2. 0 \in Good
  <2>1. f[0] = <<>>
    BY <1>1, <1>n DEF KeptOf
  <2>2. Embeds(<<>>, <<>>, s, S, 0)
    BY EmptySeq DEF Embeds
  <2> QED BY <2>1, <2>2, EmptySeq
<1>3. ASSUME NEW n \in Nat, n \in Good PROVE n + 1 \in Good
  <2> SUFFICES ASSUME n + 1 <= Len(s)
               PROVE  f[n + 1] \in Seq(T) /\ \E at : Embeds(at, f[n + 1], s, S, n + 1)
    OBVIOUS
  <2>1. n \in 0..Len(s) /\ n + 1 \in 0..Len(s) /\ n + 1 \in 1..Len(s) /\ n + 1 # 0 /\ n + 1 - 1 = n
    BY <1>n
  <2>2. f[n + 1] = KeptTo(f[n], s[n + 1], S)
    BY <1>1, <2>1 DEF KeptOf
  <2>3. f[n] \in Seq(T) /\ s[n + 1] \in T
    BY <1>3, <1>n, <2>1, ElementOfSeq
  <2>4. PICK at : Embeds(at, f[n], s, S, n)
    BY <1>3, <1>n, <2>1
  <2> DEFINE k == f[n]
  <2>5. Len(k) \in Nat
    BY <2>3, LenProperties
  <2>6. CASE s[n + 1] \in S
    <3> DEFINE more == [i \in 1..(Len(k) + 1) |-> IF i = Len(k) + 1 THEN n + 1 ELSE at[i]]
               kk == Append(k, s[n + 1])
    <3>1. kk \in Seq(T) /\ Len(kk) = Len(k) + 1 /\ kk[Len(k) + 1] = s[n + 1]
          /\ \A i \in 1..Len(k) : kk[i] = k[i]
      BY <2>3, AppendProperties
    <3> HIDE DEF kk
    <3>2. more \in [1..Len(kk) -> 1..(n + 1)]
      BY <2>4, <2>5, <3>1 DEF Embeds
    <3>3. \A i \in 1..Len(kk) : kk[i] = s[more[i]] /\ s[more[i]] \in S
      BY <2>4, <2>5, <2>6, <3>1 DEF Embeds
    <3>4. ASSUME NEW i \in 1..Len(kk), NEW j \in 1..Len(kk), i < j PROVE more[i] < more[j]
      <4>1. i \in 1..Len(k)
        BY <3>1, <3>4, <2>5
      <4>2. at[i] \in 1..n
        BY <4>1, <2>4 DEF Embeds
      <4>3. j \in 1..Len(k) => at[i] < at[j]
        BY <4>1, <3>4, <2>4 DEF Embeds
      <4> QED BY <4>1, <4>2, <4>3, <3>1, <2>5
    <3>5. ASSUME NEW m \in 1..(n + 1), s[m] \in S PROVE \E i \in 1..Len(kk) : more[i] = m
      <4>1. CASE m = n + 1
        BY <4>1, <2>5, <3>1
      <4>2. CASE m # n + 1
        <5>1. PICK i \in 1..Len(k) : at[i] = m
          BY <4>2, <3>5, <2>4 DEF Embeds
        <5>2. i \in 1..Len(kk) /\ more[i] = m
          BY <5>1, <2>5, <3>1
        <5> QED BY <5>2
      <4> QED BY <4>1, <4>2
    <3> HIDE DEF more
    <3>6. Embeds(more, kk, s, S, n + 1)
      BY <3>2, <3>3, <3>4, <3>5 DEF Embeds
    <3>7. f[n + 1] = kk
      BY <2>2, <2>6 DEF kk, KeptTo
    <3> QED BY <3>1, <3>6, <3>7
  <2>7. CASE s[n + 1] \notin S
    <3>1. Embeds(at, k, s, S, n + 1)
      BY <2>4, <2>7 DEF Embeds
    <3>2. f[n + 1] = k
      BY <2>2, <2>7 DEF KeptTo
    <3> QED BY <2>3, <3>1, <3>2
  <2> QED BY <2>6, <2>7
<1>4. Nat \subseteq Good
  <2> HIDE DEF Good
  <2> QED BY <1>2, <1>3, Inductive
<1>5. Len(s) \in Good
  BY <1>4, <1>n
<1> QED BY <1>1, <1>5

(* A set of naturals that is not empty has a least element.                  *)
LEMMA Least ==
    ASSUME NEW S, S \subseteq Nat, S # {}
    PROVE  \E m \in S : \A k \in S : m <= k
<1> DEFINE R == OpToRel(<, Nat)
<1>1. IsWellFoundedOn(R, Nat)
  BY NatLessThanWellFounded
<1> HIDE DEF R
<1>2. PICK m \in S : \A k \in S : <<k, m>> \notin R
  BY <1>1, WFMin
<1>3. ASSUME NEW k \in S PROVE m <= k
  <2>1. k \in Nat /\ m \in Nat
    BY <1>3
  <2>2. ~(k < m)
    BY <1>2, <1>3, <2>1 DEF R, OpToRel
  <2> QED
    BY <2>1, <2>2
<1> QED
  BY <1>3

Of(s) == {s[i] : i \in DOMAIN s}
OnceEach(s) == \A i, j \in DOMAIN s : s[i] = s[j] => i = j

(* What a filter keeps, as a set; and that it repeats nothing that s does not. *)
LEMMA Keeps ==
    ASSUME NEW T, NEW s \in Seq(T), NEW S
    PROVE  /\ Keep(s, S) \in Seq(T) /\ Of(Keep(s, S)) = Of(s) \cap S
           /\ OnceEach(s) => OnceEach(Keep(s, S))
<1> DEFINE k == Keep(s, S)
<1>1. k \in Seq(T) /\ \E at : Embeds(at, k, s, S, Len(s))
  BY KeepEmbeds
<1>2. PICK at : Embeds(at, k, s, S, Len(s))
  BY <1>1
<1> HIDE DEF k
<1>3. DOMAIN k = 1..Len(k) /\ Len(k) \in Nat /\ DOMAIN s = 1..Len(s)
  BY <1>1
<1>4. Of(k) \subseteq Of(s) \cap S
  BY <1>2, <1>3 DEF Of, Embeds
<1>5. Of(s) \cap S \subseteq Of(k)
  BY <1>2, <1>3 DEF Of, Embeds
<1>6. OnceEach(s) => OnceEach(k)
  <2> SUFFICES ASSUME OnceEach(s), NEW i \in 1..Len(k), NEW j \in 1..Len(k), k[i] = k[j]
               PROVE  i = j
    BY <1>3 DEF OnceEach
  <2>1. at[i] = at[j]
    BY <1>2, <1>3 DEF OnceEach, Embeds
  <2>2. i < j \/ j < i \/ i = j
    BY <1>3
  <2>3. at[i] \in 1..Len(s) /\ at[j] \in 1..Len(s)
    BY <1>2 DEF Embeds
  <2>4. ~(i < j) /\ ~(j < i)
    BY <1>2, <2>1, <2>3 DEF Embeds
  <2> QED
    BY <2>2, <2>4
<1> QED
  BY <1>1, <1>4, <1>5, <1>6 DEF k

(* A filter that the first m elements pass and no other.                      *)
LEMMA KeepsFront ==
    ASSUME NEW T, NEW s \in Seq(T), NEW S, NEW m \in 0..Len(s),
           \A i \in 1..m : s[i] \in S, \A i \in (m + 1)..Len(s) : s[i] \notin S
    PROVE  Keep(s, S) = SubSeq(s, 1, m)
<1>1. PICK f : KeptOf(s, S, f, Len(s)) /\ Keep(s, S) = f[Len(s)]
  BY KeepIs
<1>n. Len(s) \in Nat /\ m \in Nat
  BY LenProperties
<1> DEFINE To(n) == IF n <= m THEN n ELSE m
           Good == {n \in Nat : n <= Len(s) => f[n] = SubSeq(s, 1, To(n))}
<1>2. 0 \in Good
  <2>1. f[0] = <<>> /\ To(0) = 0
    BY <1>1, <1>n DEF KeptOf
  <2>2. SubSeq(s, 1, 0) = <<>>
    BY <1>n, SubSeqProperties, EmptySeq
  <2> QED
    BY <2>1, <2>2
<1>3. ASSUME NEW n \in Nat, n \in Good PROVE n + 1 \in Good
  <2> SUFFICES ASSUME n + 1 <= Len(s) PROVE f[n + 1] = SubSeq(s, 1, To(n + 1))
    OBVIOUS
  <2>1. n \in 0..Len(s) /\ n + 1 \in 0..Len(s) /\ n + 1 \in 1..Len(s) /\ n + 1 # 0 /\ n + 1 - 1 = n
    BY <1>n
  <2>2. f[n + 1] = KeptTo(f[n], s[n + 1], S)
    BY <1>1, <2>1 DEF KeptOf
  <2>3. f[n] = SubSeq(s, 1, To(n))
    BY <1>3, <1>n, <2>1
  <2>4. CASE n + 1 <= m
    <3>1. To(n) = n /\ To(n + 1) = n + 1 /\ s[n + 1] \in S
      BY <1>n, <2>4
    <3>2. Append(SubSeq(s, 1, n), s[n + 1]) = SubSeq(s, 1, n + 1)
      BY <1>n, <2>1
    <3> HIDE DEF To
    <3> QED
      BY <2>2, <2>3, <3>1, <3>2 DEF KeptTo
  <2>5. CASE ~(n + 1 <= m)
    <3>1. To(n) = m /\ To(n + 1) = m /\ s[n + 1] \notin S
      BY <1>n, <2>1, <2>5
    <3> HIDE DEF To
    <3> QED
      BY <2>2, <2>3, <3>1 DEF KeptTo
  <2> QED
    BY <2>4, <2>5
<1>4. Nat \subseteq Good
  <2> HIDE DEF Good
  <2> QED BY <1>2, <1>3, Inductive
<1>5. To(Len(s)) = m
  BY <1>n
<1>6. Len(s) \in Good
  BY <1>4, <1>n
<1> QED
  BY <1>1, <1>n, <1>5, <1>6

(* A filter that every element passes, or the elements of the front part alone. *)
LEMMA KeepsAll ==
    ASSUME NEW T, NEW s \in Seq(T), NEW S, Of(s) \subseteq S
    PROVE  Keep(s, S) = s
<1>1. Len(s) \in 0..Len(s) /\ DOMAIN s = 1..Len(s)
  OBVIOUS
<1>2. Keep(s, S) = SubSeq(s, 1, Len(s))
  BY <1>1, KeepsFront DEF Of
<1> QED
  BY <1>2

LEMMA KeepsOne ==
    ASSUME NEW T, NEW a \in Seq(T), NEW b \in Seq(T), NEW S,
           Of(a) \subseteq S, Of(b) \cap S = {}
    PROVE  Keep(a \o b, S) = a
<1> DEFINE s == a \o b
<1>1. /\ s \in Seq(T) /\ Len(a) \in 0..Len(s) /\ Len(a) \in Nat /\ Len(b) \in Nat
      /\ Len(s) = Len(a) + Len(b) /\ DOMAIN a = 1..Len(a) /\ DOMAIN b = 1..Len(b)
      /\ \A i \in 1..Len(a) : s[i] = a[i]
      /\ \A i \in (Len(a) + 1)..Len(s) : s[i] = b[i - Len(a)] /\ i - Len(a) \in 1..Len(b)
  BY ConcatProperties
<1> HIDE DEF s
<1>2. Keep(s, S) = SubSeq(s, 1, Len(a))
  BY <1>1, KeepsFront DEF Of
<1>3. SubSeq(s, 1, Len(a)) = a
  <2>1. SubSeq(s, 1, Len(a)) \in Seq(T) /\ Len(SubSeq(s, 1, Len(a))) = Len(a)
        /\ \A i \in 1..Len(a) : SubSeq(s, 1, Len(a))[i] = s[i]
    BY <1>1
  <2> QED
    BY <1>1, <2>1, SeqEqual
<1> QED
  BY <1>2, <1>3 DEF s

(* Two sequences joined, and cut again.                                      *)
LEMMA Joins ==
    ASSUME NEW T, NEW a \in Seq(T), NEW b \in Seq(T)
    PROVE  /\ a \o b \in Seq(T) /\ Of(a \o b) = Of(a) \cup Of(b)
           /\ OnceEach(a) /\ OnceEach(b) /\ Of(a) \cap Of(b) = {} => OnceEach(a \o b)
<1> DEFINE s == a \o b
<1>1. /\ s \in Seq(T) /\ Len(a) \in Nat /\ Len(b) \in Nat /\ DOMAIN s = 1..Len(s)
      /\ Len(s) = Len(a) + Len(b) /\ DOMAIN a = 1..Len(a) /\ DOMAIN b = 1..Len(b)
      /\ \A i \in 1..Len(a) : s[i] = a[i]
      /\ \A i \in (Len(a) + 1)..Len(s) : s[i] = b[i - Len(a)]
  BY ConcatProperties
<1>2. /\ \A i \in 1..Len(s) : i \in 1..Len(a) \/ (i \in (Len(a) + 1)..Len(s) /\ i - Len(a) \in 1..Len(b))
      /\ \A i \in 1..Len(a) : i \in 1..Len(s)
      /\ \A i \in 1..Len(b) : i + Len(a) \in (Len(a) + 1)..Len(s) /\ i + Len(a) \in 1..Len(s) /\ i + Len(a) - Len(a) = i
  BY <1>1
<1> HIDE DEF s
<1>3. Of(s) \subseteq Of(a) \cup Of(b)
  BY <1>1, <1>2 DEF Of
<1>4. Of(a) \subseteq Of(s)
  BY <1>1, <1>2 DEF Of
<1>5. Of(b) \subseteq Of(s)
  <2> SUFFICES ASSUME NEW i \in 1..Len(b) PROVE b[i] \in Of(s)
    BY <1>1 DEF Of
  <2>1. s[i + Len(a)] = b[i]
    BY <1>1, <1>2
  <2> QED
    BY <1>1, <1>2, <2>1 DEF Of
<1>6. ASSUME OnceEach(a), OnceEach(b), Of(a) \cap Of(b) = {}, NEW i \in 1..Len(s), NEW j \in 1..Len(s),
             s[i] = s[j]
      PROVE  i = j
  <2>1. CASE i \in 1..Len(a) /\ j \in 1..Len(a)
    BY <1>1, <1>6, <2>1 DEF OnceEach
  <2>2. CASE i \notin 1..Len(a) /\ j \notin 1..Len(a)
    <3>1. i - Len(a) \in 1..Len(b) /\ j - Len(a) \in 1..Len(b) /\ b[i - Len(a)] = b[j - Len(a)]
      BY <1>1, <1>2, <1>6, <2>2
    <3>2. i - Len(a) = j - Len(a)
      BY <1>1, <1>6, <3>1 DEF OnceEach
    <3> QED
      BY <1>1, <3>2
  <2>3. CASE i \in 1..Len(a) /\ j \notin 1..Len(a)
    <3>1. s[i] \in Of(a) /\ s[j] \in Of(b)
      BY <1>1, <1>2, <2>3 DEF Of
    <3> QED
      BY <1>6, <3>1
  <2>4. CASE i \notin 1..Len(a) /\ j \in 1..Len(a)
    <3>1. s[j] \in Of(a) /\ s[i] \in Of(b)
      BY <1>1, <1>2, <2>4 DEF Of
    <3> QED
      BY <1>6, <3>1
  <2> QED
    BY <2>1, <2>2, <2>3, <2>4
<1>7. OnceEach(a) /\ OnceEach(b) /\ Of(a) \cap Of(b) = {} => OnceEach(s)
  BY <1>1, <1>6 DEF OnceEach
<1> QED
  BY <1>1, <1>3, <1>4, <1>5, <1>7 DEF s

(* Once(s) has every element of s, once.                                     *)
LEMMA DropsRepeated ==
    ASSUME NEW T, NEW s \in Seq(T)
    PROVE  /\ Once(s) \in Seq(T) /\ Of(Once(s)) = Of(s) /\ OnceEach(Once(s))
           /\ OnceEach(s) => Once(s) = s
<1> DEFINE n == Len(s)
           first == {i \in DOMAIN s : \A j \in 1..(i - 1) : s[j] # s[i]}
           all == [i \in DOMAIN s |-> i]
           places == Keep(all, first)
           once == [k \in DOMAIN places |-> s[places[k]]]
<1>1. n \in Nat /\ DOMAIN s = 1..n /\ \A i \in 1..n : s[i] \in T
  OBVIOUS
<1>2. all \in Seq(1..n) /\ DOMAIN all = 1..n /\ \A i \in 1..n : all[i] = i
  BY <1>1
<1>3. Once(s) = once
  BY DEF Once, FirstOf
<1>4. first \subseteq 1..n
  BY <1>1
<1> HIDE DEF all, first
<1>5. places \in Seq(1..n) /\ Of(places) = first /\ OnceEach(places)
  <2>1. Of(all) = 1..n /\ OnceEach(all)
    BY <1>2 DEF Of, OnceEach
  <2>2. (1..n) \cap first = first
    BY <1>4
  <2>3. /\ Keep(all, first) \in Seq(1..n) /\ Of(Keep(all, first)) = Of(all) \cap first
        /\ OnceEach(all) => OnceEach(Keep(all, first))
    BY <1>2, Keeps
  <2> QED
    BY <2>1, <2>2, <2>3
<1>6. first = 1..n => places = all
  <2>1. Of(all) = 1..n
    BY <1>2 DEF Of
  <2> QED
    BY <1>2, <2>1, KeepsAll
<1> HIDE DEF places
<1>7. Len(places) \in Nat /\ DOMAIN places = 1..Len(places) /\ \A k \in DOMAIN places : places[k] \in first
  BY <1>5 DEF Of
<1>8. once \in Seq(T) /\ DOMAIN once = DOMAIN places
  <2>1. \A k \in 1..Len(places) : s[places[k]] \in T
    BY <1>1, <1>4, <1>7
  <2> QED
    BY <1>7, <2>1
<1>9. Of(once) \subseteq Of(s)
  BY <1>1, <1>4, <1>7 DEF Of
<1>10. ASSUME NEW i \in 1..n PROVE s[i] \in Of(once)
  <2> DEFINE same == {j \in 1..n : s[j] = s[i]}
  <2>1. same \subseteq Nat /\ same # {}
    BY <1>1
  <2>2. PICK m \in same : \A k \in same : m <= k
    <3> HIDE DEF same
    <3> QED BY <2>1, Least
  <2>3. m \in first
    <3>1. ASSUME NEW j \in 1..(m - 1) PROVE s[j] # s[m]
      <4>1. j \in 1..n /\ ~(m <= j)
        BY <1>1, <3>1, <2>2
      <4> QED
        BY <2>2, <4>1
    <3> QED
      BY <1>1, <3>1 DEF first
  <2>4. PICK k \in DOMAIN places : places[k] = m
    BY <1>5, <2>3 DEF Of
  <2>5. once[k] = s[i]
    BY <2>2, <2>4
  <2> QED
    BY <1>8, <2>4, <2>5 DEF Of
<1>11. ASSUME NEW k \in DOMAIN places, NEW l \in DOMAIN places, once[k] = once[l] PROVE k = l
  <2>1. s[places[k]] = s[places[l]]
    BY <1>11
  <2>2. places[k] \in first /\ places[l] \in first /\ places[k] \in 1..n /\ places[l] \in 1..n
    BY <1>4, <1>7
  <2>3. places[k] = places[l]
    <3>1. ~(places[k] < places[l])
      BY <2>1, <2>2 DEF first
    <3>2. ~(places[l] < places[k])
      BY <2>1, <2>2 DEF first
    <3> QED
      BY <2>2, <3>1, <3>2
  <2> QED
    BY <1>5, <2>3 DEF OnceEach
<1>12. OnceEach(s) => once = s
  <2> SUFFICES ASSUME OnceEach(s) PROVE once = s
    OBVIOUS
  <2>1. first = 1..n
    BY <1>1 DEF first, OnceEach
  <2>2. places = all
    BY <1>6, <2>1
  <2>3. \A k \in 1..n : once[k] = s[k]
    BY <1>2, <2>2
  <2>4. DOMAIN once = 1..n
    BY <1>2, <2>2
  <2> HIDE DEF once
  <2>5. Len(once) = n /\ Len(s) = n
    BY <1>1, <1>8, <2>4
  <2> QED
    BY <1>8, <2>3, <2>5, SeqEqual
<1>13. Of(s) \subseteq Of(once)
  BY <1>1, <1>10 DEF Of
<1>14. OnceEach(once)
  BY <1>8, <1>11 DEF OnceEach
<1> HIDE DEF once
<1> QED
  BY <1>3, <1>8, <1>9, <1>12, <1>13, <1>14

(* The first of every key: elements of the sequence, and all of them when no   *)
(* key comes twice.                                                           *)
LEMMA FirstsTaken ==
    ASSUME NEW T, NEW s \in Seq(T), NEW key
    PROVE  /\ FirstOf(s, key) \in Seq(T)
           /\ (\A i, j \in DOMAIN s : key[i] = key[j] => i = j) => FirstOf(s, key) = s
<1> DEFINE n == Len(s)
           first == {i \in DOMAIN s : \A j \in 1..(i - 1) : key[j] # key[i]}
           all == [i \in DOMAIN s |-> i]
           places == Keep(all, first)
<1>1. n \in Nat /\ DOMAIN s = 1..n /\ \A i \in 1..n : s[i] \in T
  OBVIOUS
<1>2. all \in Seq(1..n) /\ DOMAIN all = 1..n /\ \A i \in 1..n : all[i] = i
  BY <1>1
<1>3. FirstOf(s, key) = [k \in DOMAIN places |-> s[places[k]]]
  BY DEF FirstOf
<1>4. ASSUME \A i, j \in DOMAIN s : key[i] = key[j] => i = j PROVE first = 1..n
  BY <1>1, <1>4
<1> HIDE DEF all, first
<1>5. places \in Seq(1..n)
  BY <1>2, Keeps
<1> HIDE DEF places, n
<1>6. [k \in DOMAIN places |-> s[places[k]]] \in Seq(T)
  <2>1. Len(places) \in Nat /\ DOMAIN places = 1..Len(places) /\ \A k \in 1..Len(places) : places[k] \in 1..n
    BY <1>5, LenProperties, ElementOfSeq
  <2> QED
    BY <1>1, <2>1
<1>7. ASSUME first = 1..n PROVE [k \in DOMAIN places |-> s[places[k]]] = s
  <2>1. Of(all) \subseteq first
    BY <1>2, <1>7 DEF Of
  <2>2. places = all
    BY <1>2, <2>1, KeepsAll DEF places
  <2> QED
    BY <1>1, <1>2, <2>2
<1> QED
  BY <1>3, <1>4, <1>6, <1>7

LEMMA Parts ==
    ASSUME NEW T, NEW a \in Seq(T), NEW b \in Seq(T), OnceEach(a \o b)
    PROVE  OnceEach(a) /\ OnceEach(b) /\ Of(a) \cap Of(b) = {}
<1> DEFINE s == a \o b
<1>1. /\ s \in Seq(T) /\ Len(a) \in Nat /\ Len(b) \in Nat /\ DOMAIN s = 1..Len(s)
      /\ Len(s) = Len(a) + Len(b) /\ DOMAIN a = 1..Len(a) /\ DOMAIN b = 1..Len(b)
      /\ \A i \in 1..Len(a) : s[i] = a[i]
      /\ \A i \in (Len(a) + 1)..Len(s) : s[i] = b[i - Len(a)]
  BY ConcatProperties
<1> HIDE DEF s
<1>2. /\ \A i \in 1..Len(a) : i \in DOMAIN s
      /\ \A i \in 1..Len(b) : i + Len(a) \in DOMAIN s /\ s[i + Len(a)] = b[i]
  <2>1. ASSUME NEW i \in 1..Len(b)
        PROVE  i + Len(a) \in (Len(a) + 1)..Len(s) /\ i + Len(a) \in 1..Len(s) /\ i + Len(a) - Len(a) = i
    BY <1>1
  <2> QED
    BY <1>1, <2>1
<1>3. OnceEach(s)
  BY DEF s
<1>4. OnceEach(a)
  BY <1>1, <1>2, <1>3 DEF OnceEach
<1>5. OnceEach(b)
  <2> SUFFICES ASSUME NEW i \in 1..Len(b), NEW j \in 1..Len(b), b[i] = b[j] PROVE i = j
    BY <1>1 DEF OnceEach
  <2>1. i + Len(a) = j + Len(a)
    BY <1>2, <1>3 DEF OnceEach
  <2> QED
    BY <1>1, <2>1
<1>6. ASSUME NEW i \in 1..Len(a), NEW j \in 1..Len(b), a[i] = b[j] PROVE FALSE
  <2>1. i = j + Len(a)
    BY <1>1, <1>2, <1>3, <1>6 DEF OnceEach
  <2> QED
    BY <1>1, <2>1
<1> QED
  BY <1>1, <1>4, <1>5, <1>6 DEF Of

LEMMA Splits ==
    ASSUME NEW T, NEW s \in Seq(T), NEW k \in 0..Len(s)
    PROVE  /\ SubSeq(s, 1, k) \in Seq(T) /\ SubSeq(s, k + 1, Len(s)) \in Seq(T)
           /\ Len(SubSeq(s, 1, k)) = k
           /\ s = SubSeq(s, 1, k) \o SubSeq(s, k + 1, Len(s))
<1> DEFINE n == Len(s)
           a == SubSeq(s, 1, k)
           b == SubSeq(s, k + 1, n)
<1>1. n \in Nat /\ k \in Nat /\ k <= n
  BY LenProperties
<1>2. a \in Seq(T) /\ Len(a) = k /\ \A i \in 1..k : a[i] = s[i]
  BY <1>1
<1>3. b \in Seq(T) /\ Len(b) = n - k /\ \A i \in 1..(n - k) : b[i] = s[k + i]
  BY <1>1
<1> HIDE DEF a, b
<1>4. a \o b \in Seq(T) /\ Len(a \o b) = n
      /\ \A i \in 1..n : (a \o b)[i] = IF i <= k THEN a[i] ELSE b[i - k]
  BY <1>1, <1>2, <1>3, ConcatProperties
<1>5. \A i \in 1..n : (a \o b)[i] = s[i]
  <2> SUFFICES ASSUME NEW i \in 1..n PROVE (a \o b)[i] = s[i]
    OBVIOUS
  <2>1. CASE i <= k
    BY <1>1, <1>2, <1>4, <2>1
  <2>2. CASE ~(i <= k)
    <3>1. i - k \in 1..(n - k) /\ k + (i - k) = i
      BY <1>1, <2>2
    <3> QED
      BY <1>3, <1>4, <2>2, <3>1
  <2> QED
    BY <2>1, <2>2
<1>6. s = a \o b
  BY <1>1, <1>4, <1>5, SeqEqual
<1> QED
  BY <1>2, <1>3, <1>6 DEF a, b

(* Two orders of the same elements have the same length.                     *)
LEMMA SameLength ==
    ASSUME NEW T, NEW a \in Seq(T), NEW b \in Seq(T), OnceEach(a), OnceEach(b), Of(a) = Of(b)
    PROVE  Len(a) = Len(b)
<1>1. ASSUME NEW s \in Seq(T), OnceEach(s) PROVE Cardinality(Of(s)) = Len(s)
  <2>1. Len(s) \in Nat /\ DOMAIN s = 1..Len(s) /\ s \in [1..Len(s) -> Of(s)]
    BY DEF Of
  <2>2. s \in Bijection(1..Len(s), Of(s))
    BY <1>1, <2>1 DEF Bijection, Injection, Surjection, IsInjective, OnceEach, Of
  <2> QED
    BY <2>1, <2>2, FS_CountingElements DEF ExistsBijection
<1> QED
  BY <1>1

(* A sequence is one of its own elements.                                      *)
LEMMA OwnElements == ASSUME NEW T, NEW s \in Seq(T) PROVE s \in Seq(Of(s)) /\ Of(s) \subseteq T
<1>1. Len(s) \in Nat /\ DOMAIN s = 1..Len(s) /\ s = [i \in 1..Len(s) |-> s[i]] /\ \A i \in 1..Len(s) : s[i] \in T
  OBVIOUS
<1>2. \A i \in 1..Len(s) : s[i] \in Of(s)
  BY <1>1 DEF Of
<1>3. [i \in 1..Len(s) |-> s[i]] \in Seq(Of(s))
  BY <1>1, <1>2
<1> QED
  BY <1>1, <1>3 DEF Of

(* A filter that no element passes.                                           *)
LEMMA NothingKept == ASSUME NEW T, NEW s \in Seq(T), NEW S, Of(s) \cap S = {} PROVE Keep(s, S) = <<>>
<1>1. <<>> \in Seq(T) /\ Of(<<>>) = {} /\ <<>> \o s = s
  BY EmptySeq, ConcatEmptySeq DEF Of
<1>2. Keep(<<>> \o s, S) = <<>>
  BY <1>1, KeepsOne
<1> QED
  BY <1>1, <1>2

(* Two elements replaced, wherever.                                           *)
LEMMA Swaps ==
    ASSUME NEW T, NEW s \in Seq(T), NEW p, NEW q, NEW a \in T, NEW b \in T
    PROVE  [s EXCEPT ![p] = a, ![q] = b] \in Seq(T)
<1>1. \A r \in Seq(T), x \in T : \A i : [r EXCEPT ![i] = x] \in Seq(T)
  <2> SUFFICES ASSUME NEW r \in Seq(T), NEW x \in T, NEW i PROVE [r EXCEPT ![i] = x] \in Seq(T)
    OBVIOUS
  <2>1. Len(r) \in Nat /\ r \in [1..Len(r) -> T]
    OBVIOUS
  <2>2. [r EXCEPT ![i] = x] \in [1..Len(r) -> T]
    BY <2>1
  <2> QED
    BY <2>1, <2>2
<1>2. [[s EXCEPT ![p] = a] EXCEPT ![q] = b] \in Seq(T)
  BY <1>1
<1> QED
  BY <1>2

(* One element comes out at `from` and goes in at `over`, and none is lost.   *)
LEMMA Moves ==
    ASSUME NEW T, NEW v \in Seq(T), OnceEach(v), NEW from \in 1..Len(v), NEW over \in 1..Len(v)
    PROVE  LET less == SubSeq(v, 1, from - 1) \o SubSeq(v, from + 1, Len(v))
               next == SubSeq(less, 1, over - 1) \o <<v[from]>> \o SubSeq(less, over, Len(less))
           IN next \in Seq(T) /\ OnceEach(next) /\ Of(next) = Of(v) /\ next[over] = v[from]
              /\ over \in DOMAIN next
<1> DEFINE n == Len(v)
           x == v[from]
           F == SubSeq(v, 1, from - 1)
           G == SubSeq(v, from, n)
           K == SubSeq(v, from + 1, n)
           w == SubSeq(v, 1, from - 1) \o SubSeq(v, from + 1, n)
           A == SubSeq(w, 1, over - 1)
           B == SubSeq(w, over, Len(w))
           next == SubSeq(w, 1, over - 1) \o <<x>> \o SubSeq(w, over, Len(w))
<1>1. n \in Nat /\ from \in Nat /\ from - 1 \in 0..n /\ from - 1 + 1 = from /\ x \in T
  BY LenProperties, ElementOfSeq
<1>2. F \in Seq(T) /\ G \in Seq(T) /\ v = F \o G /\ Len(F) = from - 1
  BY <1>1, Splits
<1>3. G = <<x>> \o K /\ K \in Seq(T) /\ Len(K) = n - from
  <2>1. G \in Seq(T) /\ Len(G) = n - from + 1 /\ \A i \in 1..(n - from + 1) : G[i] = v[from + i - 1]
    BY <1>1
  <2>2. K \in Seq(T) /\ Len(K) = n - from /\ \A i \in 1..(n - from) : K[i] = v[from + 1 + i - 1]
    BY <1>1
  <2> HIDE DEF G, K, x
  <2>3. <<x>> \in Seq(T) /\ Len(<<x>>) = 1 /\ <<x>>[1] = x
    BY <1>1
  <2>4. <<x>> \o K \in Seq(T) /\ Len(<<x>> \o K) = 1 + Len(K)
        /\ \A i \in 1..(1 + Len(K)) : (<<x>> \o K)[i] = IF i <= 1 THEN <<x>>[i] ELSE K[i - 1]
    BY <2>2, <2>3, ConcatProperties
  <2>5. \A i \in 1..(n - from + 1) : (<<x>> \o K)[i] = G[i]
    <3> SUFFICES ASSUME NEW i \in 1..(n - from + 1) PROVE (<<x>> \o K)[i] = G[i]
      OBVIOUS
    <3>1. CASE i = 1
      <4>1. i \in 1..(1 + Len(K)) /\ i <= 1 /\ from + i - 1 = from
        BY <1>1, <2>2, <3>1
      <4>2. (<<x>> \o K)[i] = x
        BY <2>3, <2>4, <3>1, <4>1
      <4>3. G[i] = v[from]
        BY <2>1, <4>1
      <4> QED
        BY <4>2, <4>3 DEF x
    <3>2. CASE i # 1
      <4>1. i - 1 \in 1..(n - from) /\ from + 1 + (i - 1) - 1 = from + i - 1 /\ i \in 1..(1 + Len(K)) /\ ~(i <= 1)
        BY <1>1, <2>2, <3>2
      <4>2. K[i - 1] = v[from + 1 + (i - 1) - 1]
        BY <2>2, <4>1
      <4>3. (<<x>> \o K)[i] = K[i - 1]
        BY <2>4, <4>1
      <4> QED
        BY <2>1, <4>1, <4>2, <4>3
    <3> QED
      BY <3>1, <3>2
  <2>6. Len(<<x>> \o K) = Len(G)
    BY <1>1, <2>1, <2>2, <2>4
  <2> QED
    BY <1>1, <2>1, <2>2, <2>4, <2>5, <2>6, SeqEqual
<1>4. w = F \o K
  OBVIOUS
<1> HIDE DEF F, G, K, w, x
<1>5. <<x>> \in Seq(T) /\ Of(<<x>>) = {x} /\ OnceEach(<<x>>)
  BY <1>1 DEF Of, OnceEach
<1>6. OnceEach(F) /\ OnceEach(G) /\ Of(F) \cap Of(G) = {} /\ Of(v) = Of(F) \cup Of(G)
  BY <1>2, Parts, Joins
<1>7. OnceEach(K) /\ x \notin Of(K) /\ Of(G) = {x} \cup Of(K)
  <2>1. /\ OnceEach(<<x>>) /\ OnceEach(K) /\ Of(<<x>>) \cap Of(K) = {}
    BY <1>3, <1>5, <1>6, Parts
  <2>2. Of(<<x>> \o K) = Of(<<x>>) \cup Of(K)
    <3> DEFINE one == <<x>>
    <3>1. one \in Seq(T)
      BY <1>5
    <3> HIDE DEF one
    <3>2. Of(one \o K) = Of(one) \cup Of(K)
      BY <1>3, <3>1, Joins
    <3> QED
      BY <3>2 DEF one
  <2> QED
    BY <1>3, <1>5, <2>1, <2>2
<1>8. w \in Seq(T) /\ OnceEach(w) /\ Of(w) = Of(v) \ {x} /\ Len(w) = n - 1 /\ x \in Of(v)
  <2>1. /\ F \o K \in Seq(T) /\ Of(F \o K) = Of(F) \cup Of(K)
        /\ OnceEach(F) /\ OnceEach(K) /\ Of(F) \cap Of(K) = {} => OnceEach(F \o K)
    BY <1>2, <1>3, Joins
  <2>2. Len(F \o K) = Len(F) + Len(K)
    BY <1>2, <1>3, ConcatProperties
  <2>3. Len(F) + Len(K) = n - 1
    <3>1. Len(F) = from - 1 /\ Len(K) = n - from
      BY <1>2, <1>3
    <3> HIDE DEF n
    <3> QED
      BY <1>1, <3>1
  <2> QED
    BY <1>4, <1>6, <1>7, <2>1, <2>2, <2>3
<1>9. over - 1 \in 0..Len(w) /\ over - 1 + 1 = over /\ over \in Nat
  BY <1>1, <1>8
<1>10. A \in Seq(T) /\ B \in Seq(T) /\ w = A \o B /\ Len(A) = over - 1
  BY <1>8, <1>9, Splits
<1>11. next = A \o <<x>> \o B
  OBVIOUS
<1> HIDE DEF A, B, next
<1>12. OnceEach(A) /\ OnceEach(B) /\ Of(A) \cap Of(B) = {} /\ Of(w) = Of(A) \cup Of(B)
  BY <1>8, <1>10, Parts, Joins
<1>13. A \o <<x>> \in Seq(T) /\ Of(A \o <<x>>) = Of(A) \cup {x} /\ OnceEach(A \o <<x>>)
  <2>1. /\ A \o <<x>> \in Seq(T) /\ Of(A \o <<x>>) = Of(A) \cup Of(<<x>>)
        /\ OnceEach(A) /\ OnceEach(<<x>>) /\ Of(A) \cap Of(<<x>>) = {} => OnceEach(A \o <<x>>)
    BY <1>5, <1>10, Joins
  <2> QED
    BY <1>5, <1>8, <1>12, <2>1
<1>14. next \in Seq(T) /\ OnceEach(next) /\ Of(next) = Of(v)
  <2>1. /\ (A \o <<x>>) \o B \in Seq(T) /\ Of((A \o <<x>>) \o B) = Of(A \o <<x>>) \cup Of(B)
        /\ OnceEach(A \o <<x>>) /\ OnceEach(B) /\ Of(A \o <<x>>) \cap Of(B) = {} => OnceEach((A \o <<x>>) \o B)
    BY <1>10, <1>13, Joins
  <2> QED
    BY <1>8, <1>11, <1>12, <1>13, <2>1
<1>15. next[over] = x /\ over \in DOMAIN next
  <2>1. Len(A \o <<x>>) = over /\ (A \o <<x>>)[over] = x
    <3>1. A \o <<x>> = Append(A, x)
      BY <1>1, <1>10, AppendIsConcat
    <3>2. Len(Append(A, x)) = Len(A) + 1 /\ Append(A, x)[Len(A) + 1] = x
      BY <1>1, <1>10, AppendProperties
    <3>3. Len(A) + 1 = over
      BY <1>9, <1>10
    <3> QED
      BY <3>1, <3>2, <3>3
  <2> DEFINE C == A \o <<x>>
  <2>2. C \in Seq(T) /\ Len(C) = over /\ C[over] = x
    BY <1>13, <2>1
  <2> HIDE DEF C
  <2>3. /\ Len(C \o B) = Len(C) + Len(B)
        /\ \A i \in 1..(Len(C) + Len(B)) : (C \o B)[i] = IF i <= Len(C) THEN C[i] ELSE B[i - Len(C)]
    BY <1>10, <2>2, ConcatProperties
  <2>4. Len(B) \in Nat /\ over \in 1..(Len(C) + Len(B)) /\ over <= Len(C)
    BY <1>10, <2>2, LenProperties
  <2>5. next = C \o B
    BY <1>11 DEF C
  <2>6. next[over] = x /\ Len(next) = Len(C) + Len(B)
    BY <2>2, <2>3, <2>4, <2>5
  <2>7. DOMAIN next = 1..Len(next)
    BY <1>14
  <2> QED
    BY <2>4, <2>6, <2>7
<1> QED
  BY <1>14, <1>15 DEF next, w, x

(* Points in their order: the window's own after the others, and of either the  *)
(* later after the earlier.                                                   *)
Later(p, q) == (p.own => q.own) /\ (p.own = q.own => p.t < q.t)
Ordered(s) == \A i, j \in DOMAIN s : i < j => Later(s[i], s[j])

LEMMA KeepsOrder ==
    ASSUME NEW T, NEW s \in Seq(T), NEW S, Ordered(s)
    PROVE  Ordered(Keep(s, S))
<1> DEFINE k == Keep(s, S)
<1>1. k \in Seq(T) /\ \E at : Embeds(at, k, s, S, Len(s))
  BY KeepEmbeds
<1>2. PICK at : Embeds(at, k, s, S, Len(s))
  BY <1>1
<1> HIDE DEF k
<1>3. DOMAIN k = 1..Len(k) /\ DOMAIN s = 1..Len(s)
  BY <1>1
<1> SUFFICES ASSUME NEW i \in 1..Len(k), NEW j \in 1..Len(k), i < j PROVE Later(k[i], k[j])
  BY <1>3 DEF Ordered, k
<1>4. at[i] \in 1..Len(s) /\ at[j] \in 1..Len(s) /\ at[i] < at[j]
      /\ k[i] = s[at[i]] /\ k[j] = s[at[j]]
  BY <1>2 DEF Embeds
<1> QED
  BY <1>3, <1>4 DEF Ordered

-----------------------------------------------------------------------------
(* Quotients: of the sizes of groups, and rounded ones.                        *)

LEMMA Less ==
    ASSUME NEW d \in Nat \ {0}, NEW x \in Int, NEW y \in Int, d * x < d * y + d
    PROVE  x <= y
<1>1. SUFFICES ASSUME x >= y + 1 PROVE FALSE
  OBVIOUS
<1>2. d * x >= d * (y + 1)
  BY <1>1
<1>3. d * (y + 1) = d * y + d
  OBVIOUS
<1> QED
  BY <1>2, <1>3

LEMMA Quotient ==
    ASSUME NEW a \in Nat, NEW d \in Nat \ {0}
    PROVE  a \div d \in Nat /\ d * (a \div d) <= a /\ a < d * (a \div d) + d
  OBVIOUS

LEMMA QuotientIs ==
    ASSUME NEW a \in Nat, NEW d \in Nat \ {0}, NEW q \in Int, d * q <= a, a < d * q + d
    PROVE  a \div d = q
<1> DEFINE p == a \div d
<1>1. p \in Nat /\ d * p <= a /\ a < d * p + d
  BY Quotient
<1> HIDE DEF p
<1>2. d * p \in Int /\ d * q \in Int
  BY <1>1
<1>3. d * p < d * q + d /\ d * q < d * p + d
  BY <1>1, <1>2
<1>4. p <= q /\ q <= p
  BY <1>1, <1>3, Less
<1> QED
  BY <1>1, <1>4 DEF p

(* Math.round of a quotient: it never falls, and a multiple is met.            *)
LEMMA RoundsUp ==
    ASSUME NEW a \in Nat, NEW b \in Nat, NEW d \in Nat \ {0}, a <= b
    PROVE  LET Rounded(n) == (2 * n + d) \div (2 * d)
           IN Rounded(a) \in Nat /\ Rounded(a) <= Rounded(b)
<1> DEFINE p == (2 * a + d) \div (2 * d)
           q == (2 * b + d) \div (2 * d)
           e == 2 * d
<1>1. e \in Nat \ {0} /\ 2 * a + d \in Nat /\ 2 * b + d \in Nat /\ 2 * a + d <= 2 * b + d
  OBVIOUS
<1>2. p \in Nat /\ e * p <= 2 * a + d /\ q \in Nat /\ 2 * b + d < e * q + e
  <2>1. p = (2 * a + d) \div e /\ q = (2 * b + d) \div e
    OBVIOUS
  <2> HIDE DEF e, p, q
  <2> QED
    BY <1>1, <2>1, Quotient
<1> HIDE DEF p, q, e
<1>3. e * p \in Int /\ e * q \in Int
  BY <1>1, <1>2
<1>4. e * p < e * q + e
  BY <1>1, <1>2, <1>3
<1>5. p <= q
  BY <1>1, <1>2, <1>4, Less
<1> QED
  BY <1>2, <1>5 DEF p, q

LEMMA RoundsMultiple ==
    ASSUME NEW k \in Nat, NEW d \in Nat \ {0}
    PROVE  (2 * (d * k) + d) \div (2 * d) = k
<1> DEFINE e == 2 * d
           a == 2 * (d * k) + d
<1>1. e \in Nat \ {0} /\ d * k \in Nat
  OBVIOUS
<1>2. a \in Nat /\ e * k = 2 * (d * k)
  BY <1>1
<1>3. e * k <= a /\ a < e * k + e
  BY <1>1, <1>2
<1> HIDE DEF e, a
<1>4. a \div e = k
  BY <1>1, <1>2, <1>3, QuotientIs
<1> QED
  BY <1>4 DEF e, a

(* n things in c groups, the i-th of which begins at (i * n) \div c: no group is  *)
(* empty, or larger than the largest.                                         *)
LEMMA Groups ==
    ASSUME NEW n \in Nat, NEW c \in Nat \ {0}, n > c, NEW i \in 0..(c - 1)
    PROVE  LET Begin(k) == (k * n) \div c
               group == (n + c - 1) \div c
           IN /\ Begin(i) \in 0..n /\ Begin(i + 1) \in 0..n
              /\ Begin(i + 1) - Begin(i) \in 1..group
              /\ group \in Nat
              /\ Begin(0) = 0 /\ Begin(c) = n
<1> DEFINE Begin(k) == (k * n) \div c
           group == (n + c - 1) \div c
           b == Begin(i)
           bb == Begin(i + 1)
<1>1. i \in Nat /\ i + 1 \in Nat /\ i + 1 <= c /\ i * n \in Nat /\ (i + 1) * n \in Nat
      /\ (i + 1) * n = i * n + n /\ n + c - 1 \in Nat
  OBVIOUS
<1>2. b \in Nat /\ c * b <= i * n /\ i * n < c * b + c
  BY <1>1, Quotient
<1>3. bb \in Nat /\ c * bb <= (i + 1) * n /\ (i + 1) * n < c * bb + c
  BY <1>1, Quotient
<1>4. group \in Nat /\ c * group <= n + c - 1 /\ n + c - 1 < c * group + c
  BY <1>1, Quotient
<1>5. Begin(0) = 0
  BY QuotientIs
<1>6. Begin(c) = n
  <2>1. c * n \in Nat /\ c * n <= c * n /\ c * n < c * n + c
    OBVIOUS
  <2> QED
    BY <2>1, QuotientIs
<1> HIDE DEF b, bb, group
<1>7. c * b \in Int /\ c * bb \in Int /\ c * group \in Int /\ c * n \in Int
  BY <1>2, <1>3, <1>4
<1>8. (i + 1) * n <= c * n
  BY <1>1
<1>9. bb <= n
  <2>1. c * bb < c * n + c
    BY <1>1, <1>3, <1>7, <1>8
  <2> QED
    BY <1>3, <2>1, Less
<1>10. bb - b <= group
  <2>1. c * (bb - b) = c * bb - c * b
    BY <1>2, <1>3
  <2>2. c * bb - c * b < c * group + c
    BY <1>1, <1>2, <1>3, <1>4, <1>7
  <2> QED
    BY <1>2, <1>3, <1>4, <2>1, <2>2, Less
<1>11. 1 <= bb - b
  <2>1. c * (bb - b) = c * bb - c * b
    BY <1>2, <1>3
  <2>2. c * 1 < c * (bb - b) + c
    <3>1. c * bb - c * b > 0
      BY <1>1, <1>2, <1>3, <1>7
    <3> QED
      BY <2>1, <3>1, <1>7
  <2> QED
    BY <1>2, <1>3, <2>2, Less
<1> QED
  BY <1>2, <1>3, <1>4, <1>5, <1>6, <1>9, <1>10, <1>11 DEF b, bb, group

LEMMA GroupsFollow ==
    ASSUME NEW n \in Nat, NEW c \in Nat \ {0}, NEW i \in Nat, NEW j \in Nat, i <= j
    PROVE  (i * n) \div c <= (j * n) \div c
<1> DEFINE a == i * n
           b == j * n
           p == a \div c
           q == b \div c
<1>1. a \in Nat /\ b \in Nat /\ a <= b
  OBVIOUS
<1> HIDE DEF a, b
<1>2. p \in Nat /\ c * p <= a /\ q \in Nat /\ b < c * q + c
  BY <1>1, Quotient
<1> HIDE DEF p, q
<1>3. c * p \in Int /\ c * q \in Int
  BY <1>2
<1>4. c * p < c * q + c
  BY <1>1, <1>2, <1>3
<1>5. p <= q
  BY <1>2, <1>4, Less
<1> QED
  BY <1>5 DEF p, q, a, b
=============================================================================
