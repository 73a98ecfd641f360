---------------------------- MODULE OrderLemmas ----------------------------
(***************************************************************************)
(* Lemmas about naturals, repetition, lists, ranks and counts that proofs  *)
(* of several components share.  Induction is by least counterexample:     *)
(* the naturals are well founded.                                          *)
(***************************************************************************)
EXTENDS Integers, Sequences, FiniteSets, FiniteSetTheorems, WellFoundedInduction, TLAPS

-----------------------------------------------------------------------------
(* The naturals are well founded.                                          *)

\* A set of naturals that is not empty has a least member.
LEMMA LeastNat ==
  ASSUME NEW S \in SUBSET Nat, S # {}
  PROVE  \E n \in S : \A m \in S : n <= m
<1> DEFINE R == OpToRel(<, Nat)
<1>1. IsWellFoundedOn(R, Nat)
  BY NatLessThanWellFounded
<1>2. \A x, y \in Nat : y < x => <<y, x>> \in R
  BY DEF OpToRel
<1> HIDE DEF R
<1>3. PICK x \in S : \A y \in S : ~ (<<y, x>> \in R)
  BY <1>1, WFMin
<1>4. \A y \in S : ~ (y < x)
  BY <1>2, <1>3
<1> QED BY <1>4

\* f repeats a step n times.
Repeats(f, X, first, step, n) ==
  f \in [0 .. n -> X] /\ f[0] = first /\ \A d \in 1 .. n : f[d] = step[f[d - 1]]

\* A function that does exists: what a recursive function over 0 .. n needs to be one.
LEMMA Iterates ==
  ASSUME NEW X, NEW first \in X, NEW step \in [X -> X], NEW n \in Nat
  PROVE  \E f : Repeats(f, X, first, step, n)
<1> DEFINE exists(m) == \E f : Repeats(f, X, first, step, m)
<1> DEFINE Bad == {m \in Nat : ~ exists(m)}
<1>1. SUFFICES ASSUME Bad # {} PROVE FALSE
  OBVIOUS
<1>2. PICK m \in Bad : \A k \in Bad : m <= k
  <2>1. Bad \in SUBSET Nat
    OBVIOUS
  <2> HIDE DEF Bad
  <2> QED BY <1>1, <2>1, LeastNat
<1>3. m # 0
  <2> DEFINE f == [d \in 0 .. 0 |-> first]
  <2>1. f \in [0 .. 0 -> X] /\ f[0] = first /\ 1 .. 0 = {}
    OBVIOUS
  <2>2. exists(0)
    <3> HIDE DEF f
    <3> QED BY <2>1 DEF Repeats
  <2> QED BY <1>2, <2>2
<1>4. m - 1 \in Nat /\ m - 1 \notin Bad
  <2>1. m \in Nat
    BY <1>2
  <2> HIDE DEF Bad
  <2> QED BY <1>2, <1>3, <2>1
<1>5. PICK f \in [0 .. m - 1 -> X] : f[0] = first /\ \A d \in 1 .. m - 1 : f[d] = step[f[d - 1]]
  BY <1>4 DEF Repeats
<1> DEFINE g == [d \in 0 .. m |-> IF d = m THEN step[f[m - 1]] ELSE f[d]]
<1>6. \A d \in 0 .. m - 1 : g[d] = f[d]
  BY <1>2
<1>7. g \in [0 .. m -> X]
  BY <1>4, <1>5
<1>8. ASSUME NEW d \in 1 .. m PROVE g[d] = step[g[d - 1]]
  <2>1. d - 1 \in 0 .. m - 1 /\ m \in Nat
    BY <1>2
  <2>2. g[d - 1] = f[d - 1]
    BY <1>6, <2>1
  <2> QED BY <1>5, <2>1, <2>2
<1>9. g[0] = first
  BY <1>4, <1>5, <1>6
<1>10. exists(m)
  <2> HIDE DEF g
  <2> QED BY <1>7, <1>8, <1>9 DEF Repeats
<1> QED BY <1>2, <1>10

-----------------------------------------------------------------------------
(* Lists.                                                                  *)

\* A list, whatever it is of.
IsList(l) == l \in Seq({l[i] : i \in DOMAIN l})

LEMMA ListOf ==
  ASSUME NEW S, NEW l \in Seq(S)
  PROVE  IsList(l)
<1>1. \A i \in DOMAIN l : l[i] \in {l[j] : j \in DOMAIN l}
  OBVIOUS
<1>2. l = [i \in 1 .. Len(l) |-> l[i]] /\ Len(l) \in Nat /\ DOMAIN l = 1 .. Len(l)
  OBVIOUS
<1> QED BY <1>1, <1>2 DEF IsList

LEMMA OneList == \A st : IsList(<<st>>) /\ Len(<<st>>) = 1 /\ <<st>>[1] = st
<1> TAKE st
<1>1. <<st>> \in Seq({st})
  OBVIOUS
<1> QED BY <1>1, ListOf

LEMMA NoList == IsList(<<>>)
<1>1. <<>> \in Seq({})
  OBVIOUS
<1> QED BY <1>1, ListOf

LEMMA ListMeans ==
  ASSUME NEW l, IsList(l)
  PROVE  Len(l) \in Nat /\ DOMAIN l = 1 .. Len(l)
BY DEF IsList

LEMMA ListsJoin ==
  ASSUME NEW a, NEW b, IsList(a), IsList(b)
  PROVE  /\ IsList(a \o b) /\ Len(a \o b) = Len(a) + Len(b)
         /\ \A i \in 1 .. Len(a) : (a \o b)[i] = a[i]
         /\ \A i \in 1 .. Len(b) : (a \o b)[Len(a) + i] = b[i]
<1> DEFINE S == {a[i] : i \in DOMAIN a} \cup {b[i] : i \in DOMAIN b}
<1>1. a \in Seq(S) /\ b \in Seq(S)
  <2>1. a \in Seq({a[i] : i \in DOMAIN a}) /\ b \in Seq({b[i] : i \in DOMAIN b})
    BY DEF IsList
  <2> QED BY <2>1
<1> HIDE DEF S
<1>2. a \o b \in Seq(S)
  BY <1>1
<1>3. IsList(a \o b)
  BY <1>2, ListOf
<1> QED BY <1>1, <1>3

LEMMA ListsAssociate ==
  ASSUME NEW a, NEW b, NEW c, IsList(a), IsList(b), IsList(c)
  PROVE  a \o b \o c = a \o (b \o c)
<1> DEFINE S == {a[i] : i \in DOMAIN a} \cup {b[i] : i \in DOMAIN b} \cup {c[i] : i \in DOMAIN c}
<1>1. a \in Seq(S) /\ b \in Seq(S) /\ c \in Seq(S)
  <2>1. /\ a \in Seq({a[i] : i \in DOMAIN a}) /\ b \in Seq({b[i] : i \in DOMAIN b})
        /\ c \in Seq({c[i] : i \in DOMAIN c})
    BY DEF IsList
  <2> QED BY <2>1
<1> HIDE DEF S
<1> QED BY <1>1

LEMMA ListRest ==
  ASSUME NEW l, IsList(l), l # <<>>
  PROVE  /\ IsList(Tail(l)) /\ Len(l) = Len(Tail(l)) + 1 /\ Head(l) = l[1]
         /\ \A i \in 1 .. Len(Tail(l)) : Tail(l)[i] = l[i + 1]
<1> DEFINE S == {l[i] : i \in DOMAIN l}
<1>1. l \in Seq(S)
  BY DEF IsList
<1> HIDE DEF S
<1>2. Tail(l) \in Seq(S)
  BY <1>1
<1>3. IsList(Tail(l))
  BY <1>2, ListOf
<1> QED BY <1>1, <1>3

LEMMA ListAppends ==
  ASSUME NEW l, IsList(l), NEW x
  PROVE  /\ IsList(Append(l, x)) /\ Len(Append(l, x)) = Len(l) + 1
         /\ DOMAIN Append(l, x) = 1 .. Len(l) + 1 /\ Append(l, x)[Len(l) + 1] = x
         /\ \A i \in 1 .. Len(l) : Append(l, x)[i] = l[i]
<1> DEFINE S == {l[i] : i \in DOMAIN l} \cup {x}
<1>1. l \in Seq(S) /\ x \in S
  <2>1. l \in Seq({l[i] : i \in DOMAIN l})
    BY DEF IsList
  <2> QED BY <2>1
<1> HIDE DEF S
<1>2. Append(l, x) \in Seq(S)
  BY <1>1
<1>3. IsList(Append(l, x))
  BY <1>2, ListOf
<1> QED BY <1>1, <1>3

-----------------------------------------------------------------------------
(* Ranks.                                                                  *)

\* R orders S strictly and totally.
TotalOrder(R, S) ==
  /\ \A x \in S : <<x, x>> \notin R
  /\ \A x, y, z \in S : <<x, y>> \in R /\ <<y, z>> \in R => <<x, z>> \in R
  /\ \A x, y \in S : x # y => <<x, y>> \in R \/ <<y, x>> \in R

\* The members of S that come before x.
Before(R, S, x) == {y \in S : <<y, x>> \in R}

\* row_number() - 1 numbers the rows 0 .. n-1, each number once.
LEMMA RanksAre ==
  ASSUME NEW S, IsFiniteSet(S), NEW R, TotalOrder(R, S),
         NEW pos, \A x \in S : pos[x] = Cardinality(Before(R, S, x))
  PROVE  /\ \A x \in S : pos[x] \in 0 .. Cardinality(S) - 1
         /\ \A x, y \in S : <<x, y>> \in R => pos[x] < pos[y]
         /\ \A x, y \in S : pos[x] = pos[y] => x = y
         /\ \A k \in 0 .. Cardinality(S) - 1 : \E x \in S : pos[x] = k
<1> DEFINE before(x) == {y \in S : <<y, x>> \in R}
<1> DEFINE rank == [x \in S |-> Cardinality(before(x))]
<1> DEFINE T == 0 .. Cardinality(S) - 1
<1>1. Cardinality(S) \in Nat
  BY FS_CardinalityType
<1>2. ASSUME NEW x \in S
      PROVE  /\ IsFiniteSet(before(x)) /\ Cardinality(before(x)) \in Nat
             /\ Cardinality(before(x)) < Cardinality(S)
  <2>1. before(x) \in SUBSET S /\ before(x) # S
    BY DEF TotalOrder
  <2>2. IsFiniteSet(before(x)) /\ Cardinality(before(x)) <= Cardinality(S)
        /\ (Cardinality(S) = Cardinality(before(x)) => S = before(x))
    <3> HIDE DEF before
    <3> QED BY <2>1, FS_Subset
  <2>3. Cardinality(before(x)) \in Nat
    <3> HIDE DEF before
    <3> QED BY <2>2, FS_CardinalityType
  <2> HIDE DEF before
  <2> QED BY <1>1, <2>1, <2>2, <2>3
<1>3. rank \in [S -> T]
  <2> HIDE DEF before
  <2> QED BY <1>1, <1>2
<1>4. ASSUME NEW x \in S, NEW y \in S, <<x, y>> \in R PROVE rank[x] < rank[y]
  <2>1. before(x) \in SUBSET before(y) /\ x \in before(y) /\ x \notin before(x)
    BY <1>4 DEF TotalOrder
  <2>2. Cardinality(before(x)) <= Cardinality(before(y))
        /\ (Cardinality(before(y)) = Cardinality(before(x)) => before(y) = before(x))
    <3>1. IsFiniteSet(before(y))
      BY <1>2
    <3> HIDE DEF before
    <3> QED BY <2>1, <3>1, FS_Subset
  <2>3. Cardinality(before(x)) \in Nat /\ Cardinality(before(y)) \in Nat
    BY <1>2
  <2>4. before(x) # before(y)
    BY <2>1
  <2> HIDE DEF before
  <2> QED BY <2>2, <2>3, <2>4
<1>5. \A x, y \in S : rank[x] = rank[y] => x = y
  <2> SUFFICES ASSUME NEW x \in S, NEW y \in S, rank[x] = rank[y], x # y PROVE FALSE
    OBVIOUS
  <2>1. rank[x] < rank[y] \/ rank[y] < rank[x]
    <3> HIDE DEF rank
    <3> QED BY <1>4 DEF TotalOrder
  <2>2. rank[x] \in Nat /\ rank[y] \in Nat
    <3> HIDE DEF rank
    <3> QED BY <1>1, <1>3
  <2> HIDE DEF rank
  <2> QED BY <2>1, <2>2
<1>6. \A k \in T : \E x \in S : rank[x] = k
  <2>1. IsFiniteSet(T) /\ Cardinality(T) = Cardinality(S)
    <3>1. 0 \in Int /\ Cardinality(S) - 1 \in Int
      BY <1>1
    <3>2. IsFiniteSet(T) /\ Cardinality(T) = IF 0 > Cardinality(S) - 1 THEN 0 ELSE Cardinality(S) - 1 - 0 + 1
      BY <3>1, FS_Interval
    <3> QED BY <1>1, <3>2
  <2> HIDE DEF rank, T
  <2>2. rank \in Injection(S, T)
    BY <1>3, <1>5 DEF Injection, IsInjective
  <2>3. rank \in Surjection(S, T)
    BY <2>1, <2>2, FS_Injection
  <2> QED BY <2>3 DEF Surjection
<1>7. \A x \in S : pos[x] = rank[x]
  BY DEF Before
<1>8. \A x \in S : rank[x] \in 0 .. Cardinality(S) - 1
  <2> HIDE DEF rank
  <2> QED BY <1>3
<1> HIDE DEF rank
<1> QED BY <1>4, <1>5, <1>6, <1>7, <1>8

\* A one-to-one correspondence preserves the count.
LEMMA SameCount ==
  ASSUME NEW A, NEW B, IsFiniteSet(B), NEW f \in [A -> B],
         \A x, y \in A : f[x] = f[y] => x = y, \A b \in B : \E x \in A : f[x] = b
  PROVE  IsFiniteSet(A) /\ Cardinality(A) = Cardinality(B)
<1>1. f \in Injection(A, B)
  BY DEF Injection, IsInjective
<1>2. f \in Surjection(A, B)
  BY DEF Surjection
<1> QED BY <1>1, <1>2, FS_Injection

=============================================================================
