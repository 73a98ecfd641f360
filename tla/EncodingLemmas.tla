--------------------------- MODULE EncodingLemmas ---------------------------
(***************************************************************************)
(* Lemmas about the projection of a source (TreeEncoding): what the joins  *)
(* of 02_projection.sql derive from levels that P13 lets through, how many *)
(* rows there are, which positions they stand at, and what the rows of an  *)
(* accepted source encode; and about the parent basis, what the walk       *)
(* reaches and that the order of its paths lists a forest in preorder.     *)
(***************************************************************************)
EXTENDS TreeEncoding, OrderLemmas

-----------------------------------------------------------------------------
(* The least and the greatest of a set.                                    *)

LEMMA LeastIs ==
  ASSUME NEW S \in SUBSET Nat, S # {}
  PROVE  Least(S) \in S /\ \A m \in S : Least(S) <= m
BY LeastNat DEF Least

LEMMA GreatestIs ==
  ASSUME NEW S \in SUBSET Nat, S # {}, NEW n \in Nat, \A m \in S : m <= n
  PROVE  Greatest(S) \in S /\ \A m \in S : m <= Greatest(S)
<1> DEFINE T == {k \in Nat : \E m \in S : k = n - m}
<1>1. T # {} /\ T \subseteq Nat
  <2>1. PICK m \in S : TRUE
    OBVIOUS
  <2>2. n - m \in T
    BY <2>1
  <2> QED BY <2>2
<1>2. PICK k \in T : \A l \in T : k <= l
  BY <1>1, LeastNat
<1>3. PICK m \in S : k = n - m
  BY <1>2
<1>4. \A y \in S : n - y \in T
  OBVIOUS
<1>5. \A y \in S : y <= m
  BY <1>2, <1>3, <1>4
<1> QED BY <1>3, <1>5 DEF Greatest

-----------------------------------------------------------------------------
(* Levels that P13 lets through.                                           *)

\* Of n rows, the first at level 0, and no row more than one level below the row
\* before it.
Stepwise(levels, n) ==
  /\ n \in Nat \ {0}
  /\ levels \in [0 .. n - 1 -> Nat]
  /\ levels[0] = 0
  /\ \A i \in 1 .. n - 1 : levels[i] <= levels[i - 1] + 1

\* A descent passes every level on its way.
LEMMA Passes ==
  ASSUME NEW n, NEW levels, Stepwise(levels, n),
         NEW a \in 0 .. n - 1, NEW b \in a .. n - 1, NEW l \in Nat,
         levels[a] <= l, l <= levels[b]
  PROVE  \E k \in a .. b : levels[k] = l
<1> DEFINE S == {k \in a .. b : l <= levels[k]}
<1>1. b \in S /\ S \subseteq Nat
  BY DEF Stepwise
<1>2. PICK k \in S : \A m \in S : k <= m
  BY <1>1, LeastNat
<1>3. CASE k = a
  BY <1>2, <1>3 DEF Stepwise
<1>4. CASE k # a
  <2>1. k - 1 \in a .. b /\ k - 1 \notin S /\ k \in 1 .. n - 1
    BY <1>2, <1>4 DEF Stepwise
  <2>2. levels[k - 1] < l /\ l <= levels[k] /\ levels[k] <= levels[k - 1] + 1
    BY <1>2, <2>1 DEF Stepwise
  <2>3. k \in a .. b /\ levels[k] \in Nat /\ levels[k - 1] \in Nat
    BY <2>1 DEF Stepwise
  <2>4. levels[k] = l
    BY <2>2, <2>3
  <2> QED BY <2>3, <2>4
<1> QED BY <1>3, <1>4

\* A row at level 0 has no parent.  Any other row's is the row before it that is one
\* level up, and the rows between the two are no higher than the row itself.
LEMMA ParentIs ==
  ASSUME NEW n, NEW levels, Stepwise(levels, n), NEW i \in 0 .. n - 1
  PROVE  LET p == DerivedParent(levels, i) IN
         IF levels[i] = 0 THEN p = NULL
         ELSE /\ p \in 0 .. i - 1 /\ levels[p] = levels[i] - 1
              /\ \A k \in p + 1 .. i : levels[k] >= levels[i]
<1> n \in Nat \ {0}
  BY DEF Stepwise
<1> DEFINE U == PriorUp(levels, i)
<1> DEFINE p == DerivedParent(levels, i)
<1>1. U = {j \in 0 .. n - 1 : j < i /\ levels[j] = levels[i] - 1}
  BY DEF PriorUp, Stepwise
<1>2. CASE levels[i] = 0
  <2>1. U = {}
    BY <1>1, <1>2 DEF Stepwise
  <2> QED BY <1>2, <2>1 DEF DerivedParent
<1>3. CASE levels[i] # 0
  <2>1. levels[i] \in Nat /\ levels[i] - 1 \in Nat /\ 0 \in 0 .. n - 1 /\ levels[0] <= levels[i] - 1
    BY <1>3 DEF Stepwise
  <2>2. PICK k \in 0 .. i : levels[k] = levels[i] - 1
    <3>1. i \in 0 .. n - 1 /\ levels[i] - 1 <= levels[i]
      BY <2>1
    <3> QED BY <2>1, <3>1, Passes
  <2>3. k \in U /\ U \subseteq Nat /\ \A m \in U : m <= n
    BY <1>1, <2>2, <2>1 DEF Stepwise
  <2>4. p \in U /\ \A m \in U : m <= p
    <3>1. n \in Nat BY DEF Stepwise
    <3> HIDE DEF U
    <3> QED BY <2>3, <3>1, GreatestIs DEF DerivedParent, U
  <2>5. ASSUME NEW m \in p + 1 .. i, levels[m] < levels[i] PROVE FALSE
    <3>0. p \in 0 .. n - 1 /\ m # i
      BY <1>1, <2>4, <2>5, <2>1
    <3>1. m \in 0 .. n - 1 /\ m < i /\ i \in m .. n - 1
      <4> HIDE DEF p
      <4> QED BY <2>5, <3>0
    <3>2. levels[m] <= levels[i] - 1 /\ levels[i] - 1 <= levels[i]
      BY <2>5, <3>1 DEF Stepwise
    <3>3. PICK j \in m .. i : levels[j] = levels[i] - 1
      <4> DEFINE l == levels[i] - 1
      <4>1. l \in Nat /\ levels[m] <= l /\ l <= levels[i]
        BY <2>1, <3>2
      <4> HIDE DEF l
      <4>2. \E j \in m .. i : levels[j] = l
        BY <3>1, <4>1, Passes
      <4> QED BY <4>2 DEF l
    <3>4. j \in U
      <4>1. levels[i] \in Nat /\ levels[j] < levels[i]
        BY <2>1, <3>3
      <4>2. j # i /\ j \in 0 .. n - 1 /\ j < i
        BY <3>1, <3>3, <4>1
      <4> QED BY <1>1, <3>3, <4>2
    <3> QED BY <1>1, <2>4, <2>5, <3>3, <3>4
  <2>6. \A m \in p + 1 .. i : levels[m] >= levels[i]
    <3>1. p \in 0 .. n - 1
      BY <1>1, <2>4
    <3> HIDE DEF p
    <3>2. \A m \in p + 1 .. i : m \in 0 .. n - 1 /\ levels[m] \in Nat
      BY <3>1 DEF Stepwise
    <3> QED BY <2>1, <2>5, <3>2
  <2> QED BY <1>1, <1>3, <2>4, <2>6
<1> QED BY <1>2, <1>3

\* No row is deeper than its position, so the deepest row has a level.
LEMMA DeepestIs ==
  ASSUME NEW n, NEW levels, Stepwise(levels, n)
  PROVE  /\ Deepest(levels) \in Nat
         /\ \A k \in 0 .. n - 1 : levels[k] <= Deepest(levels) /\ levels[k] <= k
<1> DEFINE all == {levels[k] : k \in DOMAIN levels}
<1> DEFINE Bad == {k \in 0 .. n - 1 : levels[k] > k}
<1>0. DOMAIN levels = 0 .. n - 1 /\ n \in Nat \ {0} /\ \A k \in 0 .. n - 1 : levels[k] \in Nat
  BY DEF Stepwise
<1>1. Bad = {}
  <2>1. SUFFICES ASSUME Bad # {} PROVE FALSE
    OBVIOUS
  <2>2. Bad \in SUBSET Nat
    OBVIOUS
  <2>3. PICK k \in Bad : \A m \in Bad : k <= m
    <3> HIDE DEF Bad
    <3> QED BY <2>1, <2>2, LeastNat
  <2>4. k # 0 /\ k - 1 \in 0 .. n - 1 /\ k - 1 \notin Bad /\ k \in 1 .. n - 1
    BY <2>3 DEF Stepwise
  <2> QED BY <2>3, <2>4 DEF Stepwise
<1>2. all \in SUBSET Nat /\ all # {} /\ \A m \in all : m <= n
  BY <1>0, <1>1
<1>3. Deepest(levels) \in all /\ \A m \in all : m <= Deepest(levels)
  <2> HIDE DEF all
  <2> QED BY <1>0, <1>2, GreatestIs DEF Deepest, all
<1>4. \A k \in 0 .. n - 1 : levels[k] <= k
  <2> TAKE k \in 0 .. n - 1
  <2>1. ~ (levels[k] > k) /\ levels[k] \in Nat /\ k \in Nat
    BY <1>0, <1>1
  <2> QED BY <2>1
<1> QED BY <1>0, <1>2, <1>3, <1>4

\* A boundary is a later row no lower than the row it bounds, so a subtree ends
\* before the first of them.
LEMMA SizeIs ==
  ASSUME NEW n, NEW levels, Stepwise(levels, n), NEW i \in 0 .. n - 1
  PROVE  LET z == DerivedSize(levels, i) IN
         /\ z \in 0 .. n - 1 - i
         /\ \A k \in i + 1 .. i + z : levels[k] > levels[i]
         /\ i + z + 1 <= n - 1 => levels[i + z + 1] <= levels[i]
<1> n \in Nat \ {0}
  BY DEF Stepwise
<1> DEFINE B == Boundaries(levels, i)
<1>0. DOMAIN levels = 0 .. n - 1 /\ n \in Nat \ {0} /\ \A k \in 0 .. n - 1 : levels[k] \in Nat
  BY DEF Stepwise
<1>1. B = {c \in 0 .. n - 1 : c > i /\ levels[c] <= levels[i]}
  <2>1. \A k \in 0 .. n - 1 : levels[k] <= Deepest(levels)
    BY DeepestIs
  <2> QED BY <1>0, <2>1 DEF Boundaries
<1>2. CASE B = {}
  <2>1. 0 .. n - 1 \in SUBSET Nat /\ 0 .. n - 1 # {} /\ \A m \in 0 .. n - 1 : m <= n
    BY <1>0
  <2>2. Greatest(DOMAIN levels) = n - 1
    <3>1. Greatest(0 .. n - 1) \in 0 .. n - 1 /\ \A m \in 0 .. n - 1 : m <= Greatest(0 .. n - 1)
      BY <1>0, <2>1, GreatestIs
    <3> QED BY <1>0, <3>1
  <2>3. DerivedSize(levels, i) = n - 1 - i
    BY <1>0, <1>2, <2>2 DEF DerivedSize
  <2> DEFINE z == DerivedSize(levels, i)
  <2>4. z = n - 1 - i
    BY <2>3
  <2>5. \A k \in i + 1 .. n - 1 : levels[k] > levels[i]
    <3> TAKE k \in i + 1 .. n - 1
    <3>1. k \in 0 .. n - 1 /\ k > i
      BY <1>0
    <3>2. ~ (levels[k] <= levels[i])
      BY <1>1, <1>2, <3>1
    <3> QED BY <1>0, <3>1, <3>2
  <2> HIDE DEF z
  <2>6. z \in 0 .. n - 1 - i /\ i + z = n - 1
    BY <1>0, <2>4
  <2>7. ~ (i + z + 1 <= n - 1)
    BY <1>0, <2>6
  <2>8. \A k \in i + 1 .. i + z : levels[k] > levels[i]
    BY <2>5, <2>6
  <2> QED BY <2>6, <2>7, <2>8 DEF z
<1>3. CASE B # {}
  <2>1. B \in SUBSET Nat
    BY <1>1
  <2>2. Least(B) \in B /\ \A m \in B : Least(B) <= m
    BY <1>3, <2>1, LeastIs
  <2>3. DerivedSize(levels, i) = Least(B) - i - 1
    BY <1>3 DEF DerivedSize
  <2>4. Least(B) \in i + 1 .. n - 1 /\ levels[Least(B)] <= levels[i]
    BY <1>1, <2>2
  <2>5. ASSUME NEW k \in i + 1 .. Least(B) - 1 PROVE levels[k] > levels[i]
    <3> HIDE DEF B
    <3>1. k \notin B /\ k \in 0 .. n - 1
      BY <2>2, <2>4
    <3> QED BY <1>0, <1>1, <3>1
  <2> HIDE DEF B
  <2> QED BY <2>3, <2>4, <2>5
<1> QED BY <1>2, <1>3

-----------------------------------------------------------------------------
(* The level basis: positions number the rows of a root.                   *)

\* A source of some number of rows, whose numbers are numbers or NULL.
IsSource(rows) ==
  /\ DOMAIN rows = 1 .. Len(rows) /\ Len(rows) \in Nat
  /\ \A i \in DOMAIN rows :
       /\ rows[i].ord \in Int \cup {NULL} /\ rows[i].level \in Int \cup {NULL}
       /\ rows[i].key \in Int \cup {NULL} /\ rows[i].sib \in Int

\* pre numbers the rows of each root 0 .. n-1, each position once.
NumbersRows(pre, rows) ==
  /\ DOMAIN pre = DOMAIN rows
  /\ \A root :
       LET S == In(rows, root)
           n == Cardinality(S) IN
       /\ \A i \in S : pre[i] \in 0 .. n - 1
       /\ \A i, j \in S : pre[i] = pre[j] => i = j
       /\ \A k \in 0 .. n - 1 : \E i \in S : pre[i] = k

LEMMA RowsAreFinite ==
  ASSUME NEW rows, IsSource(rows), NEW root
  PROVE  /\ IsFiniteSet(In(rows, root)) /\ Cardinality(In(rows, root)) \in Nat
         /\ root \in RootsOf(rows) => Cardinality(In(rows, root)) # 0
<1>1. IsFiniteSet(1 .. Len(rows))
  BY FS_Interval DEF IsSource
<1>2. In(rows, root) \in SUBSET (1 .. Len(rows))
  BY DEF In, IsSource
<1>3. IsFiniteSet(In(rows, root))
  BY <1>1, <1>2, FS_Subset
<1>4. ASSUME root \in RootsOf(rows) PROVE In(rows, root) # {}
  BY <1>4 DEF RootsOf, In
<1> QED BY <1>3, <1>4, FS_CardinalityType, FS_EmptySet

\* Earlier orders the rows of a source, NULLs last and ties in scan order.
LEMMA EarlierOrders ==
  ASSUME NULL \notin Int, NEW decl, NEW rows, IsSource(rows)
  PROVE  /\ \A i, j, k \in DOMAIN rows :
              i # j /\ Earlier(decl, rows, i, j) /\ j # k /\ Earlier(decl, rows, j, k)
              => i # k /\ Earlier(decl, rows, i, k)
         /\ \A i, j \in DOMAIN rows : i # j => Earlier(decl, rows, i, j) \/ Earlier(decl, rows, j, i)
<1>1. \A i \in DOMAIN rows : i \in Int /\ Order(decl, rows, i) \in Int \cup {NULL}
  BY DEF IsSource, Order
<1> DEFINE ord == [i \in DOMAIN rows |-> Order(decl, rows, i)]
<1>2. \A i, j \in DOMAIN rows :
        Earlier(decl, rows, i, j) <=>
          IF ord[i] = NULL \/ ord[j] = NULL THEN ord[i] # NULL \/ (ord[j] = NULL /\ i < j)
          ELSE ord[i] < ord[j] \/ (ord[i] = ord[j] /\ i < j)
  BY DEF Earlier
<1>3. \A i \in DOMAIN rows : i \in Int /\ (ord[i] = NULL \/ ord[i] \in Int)
  BY <1>1
<1> HIDE DEF ord
<1>4. ASSUME NEW i \in DOMAIN rows, NEW j \in DOMAIN rows, i # j
      PROVE  Earlier(decl, rows, i, j) \/ Earlier(decl, rows, j, i)
  BY <1>2, <1>3, <1>4
<1>5. ASSUME NEW i \in DOMAIN rows, NEW j \in DOMAIN rows, NEW k \in DOMAIN rows,
             i # j, Earlier(decl, rows, i, j), j # k, Earlier(decl, rows, j, k)
      PROVE  i # k /\ Earlier(decl, rows, i, k)
  BY <1>2, <1>3, <1>5
<1> QED BY <1>4, <1>5

\* row_number() - 1 numbers the rows of each root 0 .. n-1, each position once.
LEMMA RankedIs ==
  ASSUME NULL \notin Int, NEW decl, NEW rows, IsSource(rows), LevelBasis(decl)
  PROVE  NumbersRows(Ranked(decl, rows), rows)
<1> SUFFICES ASSUME NEW root
             PROVE  LET pre == Ranked(decl, rows)
                        S == In(rows, root)
                        n == Cardinality(S) IN
                    /\ DOMAIN pre = DOMAIN rows
                    /\ \A i \in S : pre[i] \in 0 .. n - 1
                    /\ \A i, j \in S : pre[i] = pre[j] => i = j
                    /\ \A k \in 0 .. n - 1 : \E i \in S : pre[i] = k
  BY DEF NumbersRows
<1> DEFINE pre == Ranked(decl, rows)
<1> DEFINE S == In(rows, root)
<1> DEFINE R == {p \in S \X S : p[1] # p[2] /\ Earlier(decl, rows, p[1], p[2])}
<1>1. \A i \in S : i \in DOMAIN rows /\ rows[i].root = root
  BY DEF In
<1>2. \A i, j \in S : <<i, j>> \in R <=> i # j /\ Earlier(decl, rows, i, j)
  OBVIOUS
<1>3. TotalOrder(R, S)
  <2> HIDE DEF R, S
  <2>1. \A i, j, k \in S : <<i, j>> \in R /\ <<j, k>> \in R => <<i, k>> \in R
    BY <1>1, <1>2, EarlierOrders
  <2>2. \A i, j \in S : i # j => <<i, j>> \in R \/ <<j, i>> \in R
    BY <1>1, <1>2, EarlierOrders
  <2> QED BY <1>2, <2>1, <2>2 DEF TotalOrder
<1>4. pre = [i \in DOMAIN rows |-> Cardinality({j \in In(rows, rows[i].root) : j # i /\ Earlier(decl, rows, j, i)})]
  BY DEF Ranked
<1>5. \A i \in S : pre[i] = Cardinality(Before(R, S, i))
  <2> TAKE i \in S
  <2>1. {j \in S : j # i /\ Earlier(decl, rows, j, i)} = Before(R, S, i)
    <3> HIDE DEF R, S
    <3> QED BY <1>2 DEF Before
  <2>2. pre[i] = Cardinality({j \in S : j # i /\ Earlier(decl, rows, j, i)})
    BY <1>1, <1>4
  <2> HIDE DEF R, S, pre
  <2> QED BY <2>1, <2>2
<1>6. /\ \A i \in S : pre[i] \in 0 .. Cardinality(S) - 1
      /\ \A i, j \in S : pre[i] = pre[j] => i = j
      /\ \A k \in 0 .. Cardinality(S) - 1 : \E i \in S : pre[i] = k
  <2>1. IsFiniteSet(S)
    BY RowsAreFinite
  <2> HIDE DEF R, S, pre
  <2> QED BY <1>3, <1>5, <2>1, RanksAre
<1>7. DOMAIN pre = DOMAIN rows
  BY <1>4
<1> HIDE DEF pre, S
<1> QED BY <1>6, <1>7 DEF pre, S

\* The level at a position is that of the row ranked there.
LEMMA LevelsAre ==
  ASSUME NEW decl, NEW rows, NumbersRows(Ranked(decl, rows), rows),
         \A i \in DOMAIN rows : LevelIn(decl, rows, i) \in Int \cup {NULL}, NEW root
  PROVE  LET pre == Ranked(decl, rows)
             levels == Levels(decl, rows, pre, root) IN
         /\ levels \in [0 .. Cardinality(In(rows, root)) - 1 -> Int \cup {NULL}]
         /\ \A i \in In(rows, root) : levels[pre[i]] = LevelIn(decl, rows, i)
<1> DEFINE pre == Ranked(decl, rows)
<1> DEFINE S == In(rows, root)
<1> DEFINE P == 0 .. Cardinality(S) - 1
<1> DEFINE level(i) == LevelIn(decl, rows, i)
<1> DEFINE levels == Levels(decl, rows, pre, root)
<1>1. /\ DOMAIN pre = DOMAIN rows
      /\ \A i \in S : pre[i] \in P
      /\ \A i, j \in S : pre[i] = pre[j] => i = j
      /\ \A k \in P : \E i \in S : pre[i] = k
  BY DEF NumbersRows
<1>2. S \subseteq DOMAIN rows
  BY DEF In
<1>3. \A i \in S : level(i) \in Int \cup {NULL}
  BY <1>2
<1> DEFINE at == [i \in DOMAIN pre \cap S |-> pre[i]]
<1>4. levels = [p \in {at[i] : i \in DOMAIN at} |-> level(CHOOSE i \in DOMAIN at : at[i] = p)]
  BY DEF Levels
<1> HIDE DEF pre, S, P, level
<1>5. DOMAIN at = S /\ \A i \in S : at[i] = pre[i]
  BY <1>1, <1>2
<1> HIDE DEF at, levels
<1>6. {at[i] : i \in DOMAIN at} = P
  BY <1>1, <1>5
<1>7. \A i \in S : (CHOOSE j \in DOMAIN at : at[j] = pre[i]) = i
  BY <1>1, <1>5
<1>8. DOMAIN levels = P /\ \A i \in S : levels[pre[i]] = level(i)
  BY <1>1, <1>4, <1>6, <1>7
<1>9. levels \in [P -> Int \cup {NULL}]
  <2>1. \A p \in P : levels[p] \in Int \cup {NULL}
    BY <1>1, <1>3, <1>8
  <2>2. levels = [p \in P |-> levels[p]]
    BY <1>4, <1>6
  <2> QED BY <2>1, <2>2
<1> QED BY <1>8, <1>9 DEF pre, S, P, level, levels

-----------------------------------------------------------------------------
(* The rows of a projection.                                               *)

\* What the stages of the projection read for a row: the candidates for its parent,
\* and for its next, and its children.
LevelsAt(decl, rows, root) == Levels(decl, rows, Ranked(decl, rows), root)
ParentsAt(decl, rows, i) ==
  ParentsServed(decl, rows, Ranked(decl, rows), LevelsAt(decl, rows, rows[i].root), i)
SizeAt(decl, rows, i) ==
  IF "SIZE" \in decl.over THEN rows[i].size
  ELSE DerivedSize(LevelsAt(decl, rows, rows[i].root), Ranked(decl, rows)[i])
SizedRow(decl, rows, i, p) ==
  [row |-> i, root |-> rows[i].root, pre |-> Ranked(decl, rows)[i],
   level |-> LevelsAt(decl, rows, rows[i].root)[Ranked(decl, rows)[i]], parent |-> p,
   size |-> SizeAt(decl, rows, i)]
ChildrenAt(decl, rows, x) ==
  IF "CHILDREN" \in decl.over THEN rows[x.row].children
  ELSE Cardinality({y \in Sized(decl, rows) : y.root = x.root /\ y.parent = x.pre})
AfterRow(x) == IF x.size = NULL THEN NULL ELSE x.pre + x.size + 1
NextsAt(decl, rows, x) ==
  LET named == Names(decl, rows, Ranked(decl, rows), x.row, rows[x.row].next)
  IN  IF "NEXT" \notin decl.over \/ named = {} THEN {AfterRow(x)} ELSE named

LEMMA SizedHas ==
  ASSUME NEW decl, NEW rows, DOMAIN Ranked(decl, rows) \subseteq DOMAIN rows, NEW x
  PROVE  x \in Sized(decl, rows) <=>
           \E i \in DOMAIN Ranked(decl, rows) : \E p \in ParentsAt(decl, rows, i) : x = SizedRow(decl, rows, i, p)
<1> DEFINE pre == Ranked(decl, rows)
<1> DEFINE levels == [root \in RootsOf(rows) |-> Levels(decl, rows, pre, root)]
<1> DEFINE sized(i, p) ==
      [row |-> i, root |-> rows[i].root, pre |-> pre[i], level |-> levels[rows[i].root][pre[i]], parent |-> p,
       size |-> IF "SIZE" \in decl.over THEN rows[i].size ELSE DerivedSize(levels[rows[i].root], pre[i])]
<1> DEFINE parents(i) == ParentsServed(decl, rows, pre, levels[rows[i].root], i)
<1>1. Sized(decl, rows) = UNION {{sized(i, p) : p \in parents(i)} : i \in DOMAIN pre}
  BY DEF Sized
<1>2. ASSUME NEW i \in DOMAIN pre PROVE levels[rows[i].root] = LevelsAt(decl, rows, rows[i].root)
  BY DEF RootsOf, LevelsAt
<1>3. ASSUME NEW i \in DOMAIN pre
      PROVE  parents(i) = ParentsAt(decl, rows, i) /\ \A p : sized(i, p) = SizedRow(decl, rows, i, p)
  <2> HIDE DEF levels
  <2> QED BY <1>2, <1>3 DEF ParentsAt, SizedRow, SizeAt
<1> HIDE DEF sized, parents, pre
<1> QED BY <1>1, <1>3 DEF pre

LEMMA ProjectedHas ==
  ASSUME NEW decl, NEW rows, NEW r
  PROVE  r \in Projected(decl, rows) <=>
           \E x \in Sized(decl, rows) : \E n \in NextsAt(decl, rows, x) :
             r = [row |-> x.row, root |-> x.root, pre |-> x.pre, level |-> x.level, parent |-> x.parent,
                  size |-> x.size, children |-> ChildrenAt(decl, rows, x), next |-> n]
<1> DEFINE pre == Ranked(decl, rows)
<1> DEFINE sized == Sized(decl, rows)
<1> DEFINE children(x) == IF "CHILDREN" \in decl.over THEN rows[x.row].children
                          ELSE Cardinality({y \in sized : y.root = x.root /\ y.parent = x.pre})
<1> DEFINE after(x) == IF x.size = NULL THEN NULL ELSE x.pre + x.size + 1
<1> DEFINE nexts(x) == IF "NEXT" \in decl.over
                       THEN LET named == Names(decl, rows, pre, x.row, rows[x.row].next)
                            IN  IF named = {} THEN {after(x)} ELSE named
                       ELSE {after(x)}
<1> DEFINE projected(x, n) ==
      [row |-> x.row, root |-> x.root, pre |-> x.pre, level |-> x.level, parent |-> x.parent,
       size |-> x.size, children |-> children(x), next |-> n]
<1>1. Projected(decl, rows) = UNION {{projected(x, n) : n \in nexts(x)} : x \in sized}
  BY DEF Projected
<1>2. \A x : nexts(x) = NextsAt(decl, rows, x) /\ children(x) = ChildrenAt(decl, rows, x)
  BY DEF NextsAt, ChildrenAt, AfterRow
<1> HIDE DEF nexts, children, sized
<1> QED BY <1>1, <1>2 DEF sized

-----------------------------------------------------------------------------
(* One stored row per source row.                                          *)

\* What a declared PARENT or NEXT names a row by.
NamedBy(decl, rows, j) == IF LevelBasis(decl) THEN Order(decl, rows, j) ELSE rows[j].key

\* What the checks of an ingest leave.  AcceptedLevels and AcceptedWalk show it of the two
\* bases; nothing below tells them apart.
Acceptable(decl, rows) ==
  /\ IsSource(rows) /\ decl.parent \in BOOLEAN /\ decl.level \in BOOLEAN
  /\ NumbersRows(Ranked(decl, rows), rows)
  /\ \A i \in DOMAIN rows : LevelIn(decl, rows, i) \in Int \cup {NULL}
  /\ \A j, k \in DOMAIN rows :
       rows[j].root = rows[k].root /\ NamedBy(decl, rows, j) = NamedBy(decl, rows, k) => j = k
  /\ \A root \in RootsOf(rows) : Stepwise(LevelsAt(decl, rows, root), Cardinality(In(rows, root)))
  /\ ~ LevelBasis(decl) =>
       \A i \in DOMAIN rows :
         ParentsAt(decl, rows, i) = {DerivedParent(LevelsAt(decl, rows, rows[i].root), Ranked(decl, rows)[i])}
  /\ \A slot \in Compared(decl) : ~ Disagrees(decl, rows, Projected(decl, rows), slot)

LEMMA AcceptedLevels ==
  ASSUME NULL \notin Int, NEW decl, NEW rows, IsSource(rows), LevelBasis(decl),
         decl.parent \in BOOLEAN, decl.level \in BOOLEAN, decl.order => OrderIsTraversal(decl, rows),
         \A root \in RootsOf(rows) : Stepwise(LevelsAt(decl, rows, root), Cardinality(In(rows, root))),
         \A slot \in Compared(decl) : ~ Disagrees(decl, rows, Projected(decl, rows), slot)
  PROVE  Acceptable(decl, rows)
<1>1. NumbersRows(Ranked(decl, rows), rows)
  BY RankedIs
<1>2. \A i \in DOMAIN rows : LevelIn(decl, rows, i) \in Int \cup {NULL}
  BY DEF LevelIn, IsSource
<1>3. \A j, k \in DOMAIN rows :
        rows[j].root = rows[k].root /\ NamedBy(decl, rows, j) = NamedBy(decl, rows, k) => j = k
  BY DEF NamedBy, OrderIsTraversal, Order
<1> QED BY <1>1, <1>2, <1>3 DEF Acceptable

\* A declared PARENT or NEXT names at most one row of its root.
LEMMA NamesOneRow ==
  ASSUME NEW decl, NEW rows, Acceptable(decl, rows), NEW i \in DOMAIN rows, NEW value
  PROVE  LET named == Names(decl, rows, Ranked(decl, rows), i, value) IN
         /\ \A a \in named : value # NULL /\ \E j \in DOMAIN rows :
              rows[j].root = rows[i].root /\ a = Ranked(decl, rows)[j] /\ NamedBy(decl, rows, j) = value
         /\ \A a, b \in named : a = b
<1> DEFINE pre == Ranked(decl, rows)
<1> DEFINE named == Names(decl, rows, pre, i, value)
<1>1. DOMAIN pre = DOMAIN rows
  BY DEF Acceptable, NumbersRows
<1>2. \A j, k \in DOMAIN rows :
        rows[j].root = rows[k].root /\ NamedBy(decl, rows, j) = NamedBy(decl, rows, k) => j = k
  BY DEF Acceptable
<1>3. ASSUME NEW a \in named
      PROVE  \E j \in DOMAIN rows :
               rows[j].root = rows[i].root /\ value # NULL /\ NamedBy(decl, rows, j) = value /\ a = pre[j]
  BY <1>1 DEF Names, NamedBy
<1> HIDE DEF named, pre
<1>4. ASSUME NEW a \in named, NEW b \in named PROVE a = b
  <2>1. PICK j \in DOMAIN rows : rows[j].root = rows[i].root /\ NamedBy(decl, rows, j) = value /\ a = pre[j]
    BY <1>3
  <2>2. PICK k \in DOMAIN rows : rows[k].root = rows[i].root /\ NamedBy(decl, rows, k) = value /\ b = pre[k]
    BY <1>3
  <2> QED BY <1>2, <2>1, <2>2
<1> QED BY <1>3, <1>4 DEF named, pre

\* So the joins for the parent and for the next match once.
ParentOf(decl, rows, i) == CHOOSE p : ParentsAt(decl, rows, i) = {p}
RowOf(decl, rows, i)    == SizedRow(decl, rows, i, ParentOf(decl, rows, i))
NextOf(decl, rows, i)   == CHOOSE n : NextsAt(decl, rows, RowOf(decl, rows, i)) = {n}
StoredRow(decl, rows, i) ==
  LET x == RowOf(decl, rows, i)
  IN  [row |-> x.row, root |-> x.root, pre |-> x.pre, level |-> x.level, parent |-> x.parent,
       size |-> x.size, children |-> ChildrenAt(decl, rows, x), next |-> NextOf(decl, rows, i)]

LEMMA OneParent ==
  ASSUME NEW decl, NEW rows, Acceptable(decl, rows), NEW i \in DOMAIN rows
  PROVE  ParentsAt(decl, rows, i) = {ParentOf(decl, rows, i)}
<1>1. \E p : ParentsAt(decl, rows, i) = {p}
  <2>1. CASE LevelBasis(decl) /\ ~ decl.parent
    BY <2>1 DEF ParentsAt, ParentsServed
  <2>2. CASE LevelBasis(decl) /\ decl.parent
    <3> DEFINE named == Names(decl, rows, Ranked(decl, rows), i, rows[i].rawparent)
    <3>1. ParentsAt(decl, rows, i) = LeftJoin(named)
      BY <2>2 DEF ParentsAt, ParentsServed
    <3>2. \A a, b \in named : a = b
      BY NamesOneRow
    <3> HIDE DEF named
    <3>3. CASE named = {}
      BY <3>1, <3>3 DEF LeftJoin
    <3>4. CASE named # {}
      <4>1. PICK a \in named : TRUE
        BY <3>4
      <4>2. named = {a}
        BY <3>2, <4>1
      <4> QED BY <3>1, <4>2 DEF LeftJoin
    <3> QED BY <3>3, <3>4
  <2>3. CASE ~ LevelBasis(decl)
    BY <2>3 DEF Acceptable
  <2> QED BY <2>1, <2>2, <2>3 DEF Acceptable
<1> QED BY <1>1 DEF ParentOf

LEMMA OneNext ==
  ASSUME NEW decl, NEW rows, Acceptable(decl, rows), NEW i \in DOMAIN rows
  PROVE  NextsAt(decl, rows, RowOf(decl, rows, i)) = {NextOf(decl, rows, i)}
<1> DEFINE x == RowOf(decl, rows, i)
<1> DEFINE named == Names(decl, rows, Ranked(decl, rows), i, rows[i].next)
<1>1. x.row = i
  BY DEF RowOf, SizedRow
<1>2. \A a, b \in named : a = b
  BY NamesOneRow
<1>3. NextsAt(decl, rows, x) = IF "NEXT" \notin decl.over \/ named = {} THEN {AfterRow(x)} ELSE named
  BY <1>1 DEF NextsAt
<1> HIDE DEF named, x
<1>4. \E n : NextsAt(decl, rows, x) = {n}
  <2>1. CASE "NEXT" \notin decl.over \/ named = {}
    BY <1>3, <2>1
  <2>2. CASE ~ ("NEXT" \notin decl.over \/ named = {})
    <3>1. PICK a \in named : TRUE
      BY <2>2
    <3>2. named = {a}
      BY <1>2, <3>1
    <3> QED BY <1>3, <2>2, <3>2
  <2> QED BY <2>1, <2>2
<1> QED BY <1>4 DEF NextOf, x

LEMMA StoredRowsAre ==
  ASSUME NEW decl, NEW rows, Acceptable(decl, rows)
  PROVE  /\ \A x : x \in Sized(decl, rows) <=> \E i \in DOMAIN rows : x = RowOf(decl, rows, i)
         /\ \A r : r \in Projected(decl, rows) <=> \E i \in DOMAIN rows : r = StoredRow(decl, rows, i)
<1>1. DOMAIN Ranked(decl, rows) = DOMAIN rows
  BY DEF Acceptable, NumbersRows
<1>2. ASSUME NEW x
      PROVE  x \in Sized(decl, rows) <=> \E i \in DOMAIN rows : x = RowOf(decl, rows, i)
  BY <1>1, SizedHas, OneParent DEF RowOf
<1>3. ASSUME NEW r
      PROVE  r \in Projected(decl, rows) <=> \E i \in DOMAIN rows : r = StoredRow(decl, rows, i)
  BY <1>2, ProjectedHas, OneNext DEF StoredRow
<1> QED BY <1>2, <1>3

\* The stored rows of a root, by position.
LEMMA StoredAt ==
  ASSUME NEW decl, NEW rows, Acceptable(decl, rows), NEW root
  PROVE  LET pre == Ranked(decl, rows)
             rel == Projected(decl, rows)
             n == Cardinality(In(rows, root)) IN
         /\ \A i \in In(rows, root) :
              LET r == StoredRow(decl, rows, i) IN
              /\ r \in rel /\ r.row = i /\ r.root = root /\ r.pre = pre[i] /\ r.pre \in 0 .. n - 1
              /\ r.level = LevelsAt(decl, rows, root)[pre[i]] /\ r.parent = ParentOf(decl, rows, i)
              /\ r.size = SizeAt(decl, rows, i) /\ r.children = ChildrenAt(decl, rows, RowOf(decl, rows, i))
              /\ r.next = NextOf(decl, rows, i)
         /\ \A r \in rel : r.root = root => r.row \in In(rows, root) /\ r = StoredRow(decl, rows, r.row)
         /\ \A r, q \in rel : r.root = root /\ q.root = root /\ r.pre = q.pre => r = q
         /\ {r.pre : r \in {q \in rel : q.root = root}} = 0 .. n - 1
<1> DEFINE pre == Ranked(decl, rows)
<1> DEFINE rel == Projected(decl, rows)
<1> DEFINE S == In(rows, root)
<1> DEFINE P == 0 .. Cardinality(S) - 1
<1> DEFINE stands(i) == StoredRow(decl, rows, i)
<1>1. ASSUME NEW i \in S
      PROVE  /\ stands(i).row = i /\ stands(i).root = root /\ stands(i).pre = pre[i]
             /\ stands(i).level = LevelsAt(decl, rows, root)[pre[i]] /\ stands(i).parent = ParentOf(decl, rows, i)
             /\ stands(i).size = SizeAt(decl, rows, i)
             /\ stands(i).children = ChildrenAt(decl, rows, RowOf(decl, rows, i))
             /\ stands(i).next = NextOf(decl, rows, i)
  <2>1. rows[i].root = root
    BY DEF In
  <2> QED BY <2>1 DEF StoredRow, RowOf, SizedRow
<1>2. /\ \A i \in S : pre[i] \in P
      /\ \A i, j \in S : pre[i] = pre[j] => i = j
      /\ \A k \in P : \E i \in S : pre[i] = k
  BY DEF Acceptable, NumbersRows
<1>3. S \subseteq DOMAIN rows
  BY DEF In
<1>4. \A r : r \in rel <=> \E i \in DOMAIN rows : r = stands(i)
  BY StoredRowsAre
<1>5. ASSUME NEW r \in rel, r.root = root PROVE r.row \in S /\ r = stands(r.row)
  <2>1. PICK i \in DOMAIN rows : r = stands(i)
    BY <1>4
  <2>2. r.row = i /\ r.root = rows[i].root
    BY <2>1 DEF StoredRow, RowOf, SizedRow
  <2>3. i \in S
    BY <1>5, <2>2 DEF In
  <2> QED BY <2>1, <2>2, <2>3
<1> HIDE DEF stands, S, P, pre, rel
<1>6. \A r, q \in rel : r.root = root /\ q.root = root /\ r.pre = q.pre => r = q
  BY <1>1, <1>2, <1>5
<1>7. {r.pre : r \in {q \in rel : q.root = root}} = P
  <2>1. ASSUME NEW r \in rel, r.root = root PROVE r.pre \in P
    BY <1>1, <1>2, <1>5, <2>1
  <2>2. ASSUME NEW k \in P PROVE \E r \in rel : r.root = root /\ r.pre = k
    BY <1>1, <1>2, <1>3, <1>4
  <2> QED BY <2>1, <2>2
<1>8. \A i \in S : stands(i) \in rel /\ stands(i).pre \in P
  BY <1>1, <1>2, <1>3, <1>4
<1> QED BY <1>1, <1>5, <1>6, <1>7, <1>8 DEF stands, S, P, pre, rel

LEMMA LevelsOfIs ==
  ASSUME NEW decl, NEW rows, Acceptable(decl, rows), NEW root
  PROVE  LevelsOf(Projected(decl, rows), root) = LevelsAt(decl, rows, root)
<1> DEFINE own == {r \in Projected(decl, rows) : r.root = root}
<1> DEFINE P == 0 .. Cardinality(In(rows, root)) - 1
<1> DEFINE level(p) == (CHOOSE r \in own : r.pre = p).level
<1> DEFINE levels == LevelsAt(decl, rows, root)
<1>1. LevelsOf(Projected(decl, rows), root) = [p \in {r.pre : r \in own} |-> level(p)]
  BY DEF LevelsOf
<1>2. {r.pre : r \in own} = P
  BY StoredAt
<1>3. \A r \in own : r.level = levels[r.pre]
  BY StoredAt
<1>4. levels \in [P -> Int \cup {NULL}]
  BY LevelsAre DEF LevelsAt, Acceptable
<1>5. ASSUME NEW p \in P PROVE level(p) = levels[p]
  <2>1. \E r \in own : r.pre = p
    BY <1>2
  <2> HIDE DEF own, levels, P
  <2>2. (CHOOSE r \in own : r.pre = p) \in own /\ (CHOOSE r \in own : r.pre = p).pre = p
    BY <2>1
  <2> QED BY <1>3, <2>2
<1>6. levels = [p \in P |-> levels[p]]
  <2> HIDE DEF levels, P
  <2> QED BY <1>4
<1> HIDE DEF own, level, P, levels
<1> QED BY <1>1, <1>2, <1>5, <1>6 DEF levels

\* rel holds, for one root, the encoding of the forest with these levels.
Encodes(rel, root, levels, n) ==
  LET own == {r \in rel : r.root = root} IN
  /\ Stepwise(levels, n)
  /\ {r.pre : r \in own} = 0 .. n - 1
  /\ \A r, q \in own : r.pre = q.pre => r = q
  /\ \A r \in own :
       /\ r.level = levels[r.pre] /\ r.parent = DerivedParent(levels, r.pre)
       /\ r.size = DerivedSize(levels, r.pre) /\ r.children = DerivedChildren(levels, r.pre)
       /\ r.next = DerivedNext(levels, r.pre)

\* What the checks let through is that encoding, whichever of its columns are declared
\* and whichever derived.
LEMMA AcceptedEncodes ==
  ASSUME NEW decl, NEW rows, Acceptable(decl, rows), NEW root \in RootsOf(rows)
  PROVE  Encodes(Projected(decl, rows), root, LevelsAt(decl, rows, root), Cardinality(In(rows, root)))
<1> DEFINE rel == Projected(decl, rows)
<1> DEFINE own == {r \in rel : r.root = root}
<1> DEFINE S == In(rows, root)
<1> DEFINE n == Cardinality(S)
<1> DEFINE levels == LevelsAt(decl, rows, root)
<1> DEFINE pre == Ranked(decl, rows)
<1>1. Stepwise(levels, n)
  BY DEF Acceptable
<1>2. /\ {r.pre : r \in own} = 0 .. n - 1
      /\ \A r, q \in own : r.pre = q.pre => r = q
      /\ \A r \in own : r.row \in S /\ r = StoredRow(decl, rows, r.row)
  BY StoredAt
<1>3. \A i \in S :
        LET r == StoredRow(decl, rows, i) IN
        /\ r \in own /\ r.row = i /\ r.pre = pre[i] /\ r.pre \in 0 .. n - 1
        /\ r.level = levels[pre[i]] /\ r.parent = ParentOf(decl, rows, i)
        /\ r.size = SizeAt(decl, rows, i) /\ r.children = ChildrenAt(decl, rows, RowOf(decl, rows, i))
        /\ r.next = NextOf(decl, rows, i)
  BY StoredAt
<1>4. S \subseteq DOMAIN rows /\ \A i \in S : rows[i].root = root
  BY DEF In
<1>5. ASSUME NEW slot \in Compared(decl), NEW r \in own
      PROVE  /\ slot = "SIZE" => r.size = DerivedSize(levels, r.pre)
             /\ slot = "CHILDREN" => r.children = DerivedChildren(levels, r.pre)
             /\ slot = "PARENT" => r.parent = DerivedParent(levels, r.pre)
             /\ slot = "NEXT" => r.next = DerivedNext(levels, r.pre)
  <2>1. ~ Disagrees(decl, rows, rel, slot) /\ r \in rel /\ r.root = root
    BY DEF Acceptable
  <2>2. LevelsOf(rel, root) = levels
    BY LevelsOfIs
  <2> HIDE DEF rel, levels
  <2> QED BY <2>1, <2>2 DEF Disagrees, NextDiffers
<1>6. ASSUME NEW r \in own PROVE r.level = levels[r.pre]
  BY <1>2, <1>3
<1>7. ASSUME NEW i \in S PROVE ParentOf(decl, rows, i) = DerivedParent(levels, pre[i])
  <2>1. CASE LevelBasis(decl) /\ decl.parent
    <3>1. "PARENT" \in Compared(decl)
      BY <2>1 DEF Compared, Acceptable, LevelBasis
    <3> QED BY <1>3, <1>5, <3>1
  <2>2. CASE ~ (LevelBasis(decl) /\ decl.parent)
    <3>1. i \in DOMAIN rows /\ rows[i].root = root
      BY <1>4
    <3>2. ParentsAt(decl, rows, i) = {DerivedParent(levels, pre[i])}
      BY <2>2, <3>1 DEF ParentsAt, ParentsServed, Acceptable
    <3>3. ParentsAt(decl, rows, i) = {ParentOf(decl, rows, i)}
      BY <3>1, OneParent
    <3> QED BY <3>2, <3>3
  <2> QED BY <2>1, <2>2 DEF Acceptable
<1>8. ASSUME NEW r \in own PROVE r.parent = DerivedParent(levels, r.pre)
  BY <1>2, <1>3, <1>7
<1>9. ASSUME NEW r \in own PROVE r.size = DerivedSize(levels, r.pre)
  <2>1. CASE "SIZE" \in decl.over
    <3>1. "SIZE" \in Compared(decl)
      BY <2>1 DEF Compared
    <3> QED BY <1>5, <3>1
  <2>2. CASE "SIZE" \notin decl.over
    <3>1. SizeAt(decl, rows, r.row) = DerivedSize(levels, pre[r.row])
      BY <1>2, <1>4, <2>2 DEF SizeAt
    <3> HIDE DEF own, S
    <3> QED BY <1>2, <1>3, <3>1
  <2> QED BY <2>1, <2>2
<1>10. ASSUME NEW r \in own PROVE r.children = DerivedChildren(levels, r.pre)
  <2>1. CASE "CHILDREN" \in decl.over
    <3>1. "CHILDREN" \in Compared(decl)
      BY <2>1 DEF Compared
    <3> QED BY <1>5, <3>1
  <2>2. CASE "CHILDREN" \notin decl.over
    <3> DEFINE A == {y \in Sized(decl, rows) : y.root = root /\ y.parent = r.pre}
    <3> DEFINE B == {j \in DOMAIN levels : DerivedParent(levels, j) = r.pre}
    <3> DEFINE x == RowOf(decl, rows, r.row)
    <3>1. r.children = ChildrenAt(decl, rows, x) /\ x.root = root /\ x.pre = r.pre
      <4>1. r.row \in S
        BY <1>2
      <4>2. x.root = root /\ x.pre = pre[r.row]
        BY <1>4, <4>1 DEF RowOf, SizedRow
      <4> HIDE DEF own, S, x, pre
      <4>3. r.children = ChildrenAt(decl, rows, x) /\ r.pre = pre[r.row]
        BY <1>2, <1>3, <4>1 DEF x
      <4> QED BY <4>2, <4>3
    <3>2. r.children = Cardinality(A)
      BY <2>2, <3>1 DEF ChildrenAt
    <3>3. DOMAIN levels = 0 .. n - 1 /\ n \in Nat
      BY <1>1 DEF Stepwise
    <3>4. ASSUME NEW y \in A PROVE y.row \in S /\ y = RowOf(decl, rows, y.row) /\ y.pre = pre[y.row] /\ y.pre \in B
      <4>1. PICK i \in DOMAIN rows : y = RowOf(decl, rows, i)
        BY StoredRowsAre
      <4>2. y.row = i /\ y.root = rows[i].root /\ y.pre = pre[i] /\ y.parent = ParentOf(decl, rows, i)
        BY <4>1 DEF RowOf, SizedRow
      <4>3. i \in S /\ y.parent = r.pre
        BY <4>2 DEF In
      <4>4. pre[i] \in 0 .. n - 1 /\ DerivedParent(levels, pre[i]) = r.pre
        BY <1>3, <1>7, <4>2, <4>3
      <4> QED BY <3>3, <4>1, <4>2, <4>3, <4>4
    <3>5. ASSUME NEW b \in B PROVE \E y \in A : y.pre = b
      <4>1. PICK q \in own : q.pre = b
        BY <1>2, <3>3
      <4>2. q.row \in S /\ pre[q.row] = b
        <5> HIDE DEF own, S, B
        <5> QED BY <1>2, <1>3, <4>1
      <4> DEFINE y == RowOf(decl, rows, q.row)
      <4>3. y \in Sized(decl, rows)
        BY <1>4, <4>2, StoredRowsAre
      <4>4. y.root = root /\ y.pre = b /\ y.parent = ParentOf(decl, rows, q.row)
        BY <1>4, <4>2 DEF RowOf, SizedRow
      <4>5. y.parent = r.pre
        BY <1>7, <4>2, <4>4
      <4> HIDE DEF y
      <4> QED BY <4>3, <4>4, <4>5
    <3> DEFINE f == [y \in A |-> y.pre]
    <3>6. f \in [A -> B]
      <4> HIDE DEF A, B
      <4> QED BY <3>4
    <3>7. \A y, z \in A : f[y] = f[z] => y = z
      <4> SUFFICES ASSUME NEW y \in A, NEW z \in A, y.pre = z.pre PROVE y = z
        OBVIOUS
      <4>1. y.row \in S /\ z.row \in S /\ pre[y.row] = pre[z.row]
        BY <3>4
      <4>2. y.row = z.row
        BY <4>1 DEF Acceptable, NumbersRows
      <4> QED BY <3>4, <4>2
    <3>8. \A b \in B : \E y \in A : f[y] = b
      <4> HIDE DEF A, B
      <4> QED BY <3>5
    <3>9. IsFiniteSet(B)
      <4>1. IsFiniteSet(0 .. n - 1)
        BY <3>3, FS_Interval
      <4>2. B \in SUBSET (0 .. n - 1)
        BY <3>3
      <4> QED BY <4>1, <4>2, FS_Subset
    <3>10. Cardinality(A) = Cardinality(B)
      <4> HIDE DEF A, B, f
      <4> QED BY <3>6, <3>7, <3>8, <3>9, SameCount
    <3> QED BY <3>2, <3>10 DEF DerivedChildren
  <2> QED BY <2>1, <2>2
<1>11. ASSUME NEW r \in own PROVE r.next = DerivedNext(levels, r.pre)
  <2>1. CASE "NEXT" \in decl.over
    <3>1. "NEXT" \in Compared(decl)
      BY <2>1 DEF Compared
    <3> QED BY <1>5, <3>1
  <2>2. CASE "NEXT" \notin decl.over
    <3> DEFINE x == RowOf(decl, rows, r.row)
    <3>1. r.row \in S /\ r.row \in DOMAIN rows
      BY <1>2, <1>4
    <3>2. NextsAt(decl, rows, x) = {AfterRow(x)} /\ NextsAt(decl, rows, x) = {NextOf(decl, rows, r.row)}
      BY <2>2, <3>1, OneNext DEF NextsAt
    <3>3. x.pre = pre[r.row] /\ x.size = SizeAt(decl, rows, r.row)
      BY DEF RowOf, SizedRow
    <3>4. r.next = NextOf(decl, rows, r.row) /\ r.pre = pre[r.row] /\ r.size = SizeAt(decl, rows, r.row)
          /\ r.pre \in 0 .. n - 1
      <4> HIDE DEF own, S, pre
      <4> QED BY <1>2, <1>3, <3>1
    <3>5. r.size = DerivedSize(levels, r.pre) /\ r.size \in Int
      BY <1>1, <1>9, <3>4, SizeIs
    <3>6. r.next = r.pre + r.size + 1
      <4> HIDE DEF x
      <4> QED BY <3>2, <3>3, <3>4, <3>5, NullAssumption DEF AfterRow
    <3> QED BY <3>5, <3>6 DEF DerivedNext
  <2> QED BY <2>1, <2>2
<1> HIDE DEF rel, levels, n, pre, S
<1> QED BY <1>1, <1>2, <1>6, <1>8, <1>9, <1>10, <1>11 DEF Encodes, rel, levels, n, S

-----------------------------------------------------------------------------
(* What such an encoding means.                                            *)

\* A row stands at a level where its parent's chain is that long.
LEMMA EncodedDepths ==
  ASSUME NULL \notin Int, NEW rel, NEW root, NEW levels, NEW n, Encodes(rel, root, levels, n),
         NEW r \in rel, r.root = root
  PROVE  IF r.parent = NULL THEN r.level = 0
         ELSE \E q \in rel : q.root = root /\ q.pre = r.parent /\ r.level = q.level + 1
<1> DEFINE own == {q \in rel : q.root = root}
<1>1. /\ Stepwise(levels, n) /\ {q.pre : q \in own} = 0 .. n - 1
      /\ \A q \in own : q.level = levels[q.pre] /\ q.parent = DerivedParent(levels, q.pre)
  BY DEF Encodes
<1>2. r \in own /\ r.pre \in 0 .. n - 1
  BY <1>1
<1>3. IF levels[r.pre] = 0 THEN r.parent = NULL
      ELSE r.parent \in 0 .. r.pre - 1 /\ levels[r.parent] = levels[r.pre] - 1
  BY <1>1, <1>2, ParentIs
<1>4. levels[r.pre] \in Nat /\ n \in Nat
  BY <1>1, <1>2 DEF Stepwise
<1>5. CASE levels[r.pre] = 0
  BY <1>1, <1>2, <1>3, <1>5
<1>6. CASE levels[r.pre] # 0
  <2>1. r.parent \in 0 .. n - 1 /\ r.parent # NULL /\ levels[r.parent] = levels[r.pre] - 1
    BY <1>2, <1>3, <1>4, <1>6
  <2>2. PICK q \in own : q.pre = r.parent
    BY <1>1, <2>1
  <2>3. r.level = q.level + 1
    <3>1. q.level = levels[r.parent] /\ r.level = levels[r.pre]
      BY <1>1, <1>2, <2>2
    <3> QED BY <1>4, <2>1, <3>1
  <2> QED BY <2>1, <2>2, <2>3
<1> QED BY <1>5, <1>6

\* Rows with distinct positions are as many as the positions.
LEMMA CountByPosition ==
  ASSUME NEW own, NEW n \in Nat, {r.pre : r \in own} = 0 .. n - 1, \A r, q \in own : r.pre = q.pre => r = q,
         NEW T \in SUBSET (0 .. n - 1)
  PROVE  LET A == {r \in own : r.pre \in T} IN
         IsFiniteSet(A) /\ IsFiniteSet(T) /\ Cardinality(A) = Cardinality(T)
<1> DEFINE A == {r \in own : r.pre \in T}
<1> DEFINE f == [r \in A |-> r.pre]
<1>1. IsFiniteSet(T)
  <2>1. IsFiniteSet(0 .. n - 1)
    BY FS_Interval
  <2> QED BY <2>1, FS_Subset
<1>2. f \in [A -> T] /\ \A x, y \in A : f[x] = f[y] => x = y
  OBVIOUS
<1>3. \A b \in T : \E x \in A : f[x] = b
  <2> TAKE b \in T
  <2>1. PICK x \in own : x.pre = b
    OBVIOUS
  <2> QED BY <2>1
<1> HIDE DEF A, f
<1> QED BY <1>1, <1>2, <1>3, SameCount DEF A

\* A row's parent is the last row before it that is higher, so the rows that hang off
\* a row or off its subtree are the rows of its interval.
LEMMA IntervalIsClosed ==
  ASSUME NULL \notin Int, NEW n, NEW levels, Stepwise(levels, n), NEW a \in 0 .. n - 1, NEW r \in 0 .. n - 1
  PROVE  LET z == DerivedSize(levels, a)
             p == DerivedParent(levels, r) IN
         /\ p \in a .. a + z => r \in a + 1 .. a + z
         /\ r \in a + 1 .. a + z => /\ p \in a .. a + z /\ p < r
                                    /\ levels[p] = levels[r] - 1 /\ levels[r] > levels[a]
<1> DEFINE z == DerivedSize(levels, a)
<1> DEFINE p == DerivedParent(levels, r)
<1>1. IF levels[r] = 0 THEN p = NULL
      ELSE p \in 0 .. r - 1 /\ levels[p] = levels[r] - 1 /\ \A k \in p + 1 .. r : levels[k] >= levels[r]
  BY ParentIs
<1>2. /\ z \in 0 .. n - 1 - a /\ \A k \in a + 1 .. a + z : levels[k] > levels[a]
      /\ a + z + 1 <= n - 1 => levels[a + z + 1] <= levels[a]
  BY SizeIs
<1>3. n \in Nat \ {0} /\ \A k \in 0 .. n - 1 : levels[k] \in Nat
  BY DEF Stepwise
<1> HIDE DEF z, p
<1>4. ASSUME p \in a .. a + z PROVE r \in a + 1 .. a + z
  <2>1. p # NULL /\ p \in 0 .. r - 1 /\ levels[p] = levels[r] - 1 /\ \A k \in p + 1 .. r : levels[k] >= levels[r]
    BY <1>1, <1>2, <1>4
  <2>2. levels[p] >= levels[a]
    <3>1. p = a \/ p \in a + 1 .. a + z
      BY <1>2, <1>4
    <3>2. p \in 0 .. n - 1
      BY <1>2, <1>3, <1>4
    <3> QED BY <1>2, <1>3, <3>1, <3>2
  <2>3. SUFFICES ASSUME r > a + z PROVE FALSE
    BY <1>2, <1>4, <2>1
  <2> DEFINE e == a + z + 1
  <2>4. e \in p + 1 .. r /\ e \in 0 .. n - 1 /\ e <= n - 1 /\ p \in 0 .. n - 1
    BY <1>2, <1>3, <1>4, <2>1, <2>3
  <2>5. levels[e] <= levels[a] /\ levels[e] >= levels[r]
    BY <1>2, <2>1, <2>4
  <2> HIDE DEF e
  <2> QED BY <1>3, <2>1, <2>2, <2>4, <2>5
<1>5. ASSUME r \in a + 1 .. a + z
      PROVE  p \in a .. a + z /\ p < r /\ levels[p] = levels[r] - 1 /\ levels[r] > levels[a]
  <2>1. levels[r] > levels[a] /\ levels[r] \in Nat /\ levels[a] \in Nat
    BY <1>2, <1>3, <1>5
  <2>2. p \in 0 .. r - 1 /\ levels[p] = levels[r] - 1 /\ \A k \in p + 1 .. r : levels[k] >= levels[r]
    BY <1>1, <2>1
  <2>3. p >= a
    <3> SUFFICES ASSUME p < a PROVE FALSE
      BY <2>2
    <3>1. a \in p + 1 .. r
      BY <1>2, <1>5, <2>2
    <3> QED BY <2>1, <2>2, <3>1
  <2> QED BY <1>2, <1>5, <2>1, <2>2, <2>3
<1> QED BY <1>4, <1>5 DEF z, p

-----------------------------------------------------------------------------
(* The parent basis: the walk.                                             *)

\* The walk starts at the rows without a PARENT and goes on to those whose parent row
\* it has just reached.
LEMMA WalkIs ==
  ASSUME NEW rows, IsSource(rows)
  PROVE  LET walk == Walk(rows) IN
         /\ walk \in [0 .. Len(rows) -> SUBSET DOMAIN rows]
         /\ walk[0] = {i \in DOMAIN rows : rows[i].parent = NULL}
         /\ \A d \in 1 .. Len(rows) : walk[d] = {i \in DOMAIN rows : ParentRows(rows, i) \cap walk[d - 1] # {}}
<1> DEFINE D == DOMAIN rows
<1> DEFINE n == Len(rows)
<1> DEFINE tops == {i \in D : rows[i].parent = NULL}
<1> DEFINE under(T) == {i \in D : ParentRows(rows, i) \cap T # {}}
<1> DEFINE step == [T \in SUBSET D |-> under(T)]
<1>1. n \in Nat
  BY DEF IsSource
<1>2. PICK f \in [0 .. n -> SUBSET D] : f[0] = tops /\ \A d \in 1 .. n : f[d] = step[f[d - 1]]
  <2> DEFINE X == SUBSET D
  <2>1. tops \in X /\ step \in [X -> X]
    OBVIOUS
  <2>2. \E f : Repeats(f, X, tops, step, n)
    <3> HIDE DEF tops, step, X, n
    <3> QED BY <1>1, <2>1, Iterates
  <2> QED BY <2>2 DEF Repeats
<1>3. f = [d \in 0 .. n |-> IF d = 0 THEN tops ELSE under(f[d - 1])]
  <2>1. ASSUME NEW d \in 1 .. n PROVE f[d] = under(f[d - 1])
    <3>1. d - 1 \in 0 .. n
      BY <1>1
    <3>2. f[d - 1] \in SUBSET D
      <4> HIDE DEF D
      <4> QED BY <1>2, <3>1
    <3> QED BY <1>2, <3>2
  <2>2. \A d \in 0 .. n : d = 0 \/ d \in 1 .. n
    BY <1>1
  <2> HIDE DEF tops, under, D, n
  <2> QED BY <1>2, <2>1, <2>2
<1>4. Walk(rows) = [d \in 0 .. n |-> IF d = 0 THEN tops ELSE under(Walk(rows)[d - 1])]
  <2>1. Walk(rows) = CHOOSE w : w = [d \in 0 .. n |-> IF d = 0 THEN tops ELSE under(w[d - 1])]
    BY DEF Walk
  <2> HIDE DEF tops, under, n
  <2> QED BY <1>3, <2>1
<1>5. Walk(rows)[0] = tops /\ \A d \in 1 .. n : Walk(rows)[d] = under(Walk(rows)[d - 1])
  <2>1. 0 \in 0 .. n /\ \A d \in 1 .. n : d \in 0 .. n /\ d # 0
    BY <1>1
  <2> HIDE DEF tops, under, n
  <2> QED BY <1>4, <2>1
<1>6. \A d \in 0 .. n : Walk(rows)[d] \in SUBSET D
  <2> TAKE d \in 0 .. n
  <2>1. d = 0 \/ d \in 1 .. n
    BY <1>1
  <2> QED BY <1>5, <2>1
<1>7. Walk(rows) \in [0 .. n -> SUBSET D]
  <2> HIDE DEF D, n, tops, under
  <2> QED BY <1>4, <1>6
<1> QED BY <1>5, <1>7

LEMMA WalkedAreRows ==
  ASSUME NEW rows, IsSource(rows)
  PROVE  Walked(rows) \subseteq DOMAIN rows
BY WalkIs DEF Walked

\* With unique keys a row has at most one parent row, in its own root.
LEMMA OneParentRow ==
  ASSUME NEW rows, KeyIsUnique(rows), NEW i \in DOMAIN rows
  PROVE  /\ \A j \in ParentRows(rows, i) :
              /\ j \in DOMAIN rows /\ rows[j].root = rows[i].root /\ rows[j].key = rows[i].parent
              /\ rows[i].parent # NULL /\ ParentRows(rows, i) = {j}
         /\ rows[i].parent = NULL => ParentRows(rows, i) = {}
BY DEF ParentRows, KeyIsUnique

\* So the walk reaches a row in one iteration only.
LEMMA ReachedOnce ==
  ASSUME NEW rows, IsSource(rows), KeyIsUnique(rows),
         NEW i \in DOMAIN rows, NEW d \in 0 .. Len(rows), NEW e \in 0 .. Len(rows),
         i \in Walk(rows)[d], i \in Walk(rows)[e]
  PROVE  d = e
<1> DEFINE N == Len(rows)
<1> DEFINE walk == Walk(rows)
<1> DEFINE Bad == {c \in 0 .. N : \E k \in DOMAIN rows : \E b \in 0 .. N : k \in walk[c] /\ k \in walk[b] /\ b # c}
<1>1. /\ walk[0] = {k \in DOMAIN rows : rows[k].parent = NULL}
      /\ \A c \in 1 .. N : walk[c] = {k \in DOMAIN rows : ParentRows(rows, k) \cap walk[c - 1] # {}}
  BY WalkIs
<1>2. N \in Nat
  BY DEF IsSource
<1> HIDE DEF walk, N
<1>3. Bad = {}
  <2>1. SUFFICES ASSUME Bad # {} PROVE FALSE
    OBVIOUS
  <2>2. PICK c \in Bad : \A m \in Bad : c <= m
    <3>1. Bad \in SUBSET Nat
      OBVIOUS
    <3> HIDE DEF Bad
    <3> QED BY <2>1, <3>1, LeastNat
  <2>3. PICK k \in DOMAIN rows, b \in 0 .. N : k \in walk[c] /\ k \in walk[b] /\ b # c
    BY <2>2
  <2>4. c \in 0 .. N
    BY <2>2
  <2>5. CASE c = 0
    <3>1. b \in 1 .. N /\ rows[k].parent = NULL
      BY <1>1, <1>2, <2>3, <2>5
    <3>2. ParentRows(rows, k) # {}
      BY <1>1, <2>3, <3>1
    <3> QED BY <3>1, <3>2, OneParentRow
  <2>6. CASE c # 0
    <3>1. c \in 1 .. N /\ c - 1 \in 0 .. N
      BY <1>2, <2>4, <2>6
    <3>2. PICK j \in ParentRows(rows, k) : j \in walk[c - 1]
      BY <1>1, <2>3, <3>1
    <3>3. j \in DOMAIN rows /\ rows[k].parent # NULL /\ ParentRows(rows, k) = {j}
      BY <3>2, OneParentRow
    <3>4. b \in 1 .. N /\ b - 1 \in 0 .. N
      BY <1>1, <1>2, <2>3, <3>3
    <3>5. j \in walk[b - 1]
      BY <1>1, <2>3, <3>3, <3>4
    <3>6. c - 1 \in Bad
      BY <2>3, <2>4, <3>1, <3>2, <3>3, <3>4, <3>5
    <3>7. ~ (c <= c - 1)
      BY <2>4, <1>2
    <3> HIDE DEF Bad
    <3> QED BY <2>2, <3>6, <3>7
  <2> QED BY <2>5, <2>6
<1> QED BY <1>3 DEF walk, N

\* A source the reach check lets through: every row has a key and is reached.
IsWalk(rows) == IsSource(rows) /\ KeyIsUnique(rows) /\ Unreached(rows) = {}

\* The iteration that reaches a row is its depth below a row without a PARENT.
LEMMA DepthIs ==
  ASSUME NEW rows, IsWalk(rows), NEW i \in DOMAIN rows
  PROVE  /\ Walked(rows) = DOMAIN rows
         /\ Depth(rows, i) \in 0 .. Len(rows)
         /\ rows[i].parent = NULL => Depth(rows, i) = 0
         /\ rows[i].parent # NULL =>
              LET j == Least(ParentRows(rows, i)) IN
              /\ ParentRows(rows, i) = {j} /\ j \in DOMAIN rows
              /\ rows[j].root = rows[i].root /\ rows[j].key = rows[i].parent
              /\ Depth(rows, i) = Depth(rows, j) + 1
<1> DEFINE N == Len(rows)
<1> DEFINE walk == Walk(rows)
<1>0. IsSource(rows) /\ KeyIsUnique(rows) /\ N \in Nat /\ DOMAIN rows \subseteq Nat
  BY DEF IsWalk, IsSource
<1>1. /\ walk[0] = {k \in DOMAIN rows : rows[k].parent = NULL}
      /\ \A c \in 1 .. N : walk[c] = {k \in DOMAIN rows : ParentRows(rows, k) \cap walk[c - 1] # {}}
  BY <1>0, WalkIs
<1>2. Walked(rows) = DOMAIN rows
  BY <1>0, WalkedAreRows DEF IsWalk, Unreached
<1>3. \A k \in DOMAIN rows : Depth(rows, k) \in 0 .. N /\ k \in walk[Depth(rows, k)]
  <2> TAKE k \in DOMAIN rows
  <2>1. \E d \in 0 .. N : k \in walk[d]
    BY <1>2 DEF Walked
  <2> QED BY <2>1 DEF Depth
<1>4. \A k \in DOMAIN rows : \A d \in 0 .. N : k \in walk[d] => d = Depth(rows, k)
  BY <1>0, <1>3, ReachedOnce
<1> HIDE DEF walk, N
<1>5. ASSUME rows[i].parent = NULL PROVE Depth(rows, i) = 0
  BY <1>0, <1>1, <1>4, <1>5
<1>6. ASSUME rows[i].parent # NULL
      PROVE  LET j == Least(ParentRows(rows, i)) IN
             /\ ParentRows(rows, i) = {j} /\ j \in DOMAIN rows
             /\ rows[j].root = rows[i].root /\ rows[j].key = rows[i].parent
             /\ Depth(rows, i) = Depth(rows, j) + 1
  <2> DEFINE d == Depth(rows, i)
  <2>1. d # 0
    BY <1>1, <1>3, <1>6
  <2>2. d \in 1 .. N /\ d - 1 \in 0 .. N
    BY <1>0, <1>3, <2>1
  <2>3. i \in walk[d]
    BY <1>3
  <2> HIDE DEF d
  <2>4. PICK j \in ParentRows(rows, i) : j \in walk[d - 1]
    BY <1>1, <2>2, <2>3
  <2>5. /\ j \in DOMAIN rows /\ rows[j].root = rows[i].root /\ rows[j].key = rows[i].parent
        /\ ParentRows(rows, i) = {j}
    BY <1>0, OneParentRow
  <2>6. Least(ParentRows(rows, i)) = j
    <3>1. ParentRows(rows, i) \in SUBSET Nat /\ ParentRows(rows, i) # {}
      BY <1>0, <2>5
    <3>2. Least(ParentRows(rows, i)) \in ParentRows(rows, i)
      BY <3>1, LeastIs
    <3> QED BY <2>5, <3>2
  <2>7. Depth(rows, j) = d - 1
    BY <1>4, <2>2, <2>4, <2>5
  <2> QED BY <2>2, <2>5, <2>6, <2>7 DEF d
<1> QED BY <1>2, <1>3, <1>5, <1>6 DEF N

\* Siblings are ranked by SIBLING_ORDER and then by key, each rank once.
LEMMA SiblingRanks ==
  ASSUME NULL \notin Int, NEW rows, IsWalk(rows)
  PROVE  /\ \A i \in DOMAIN rows : SiblingRank(rows, i) \in Nat
         /\ \A i, j \in DOMAIN rows :
              rows[i].root = rows[j].root /\ rows[i].parent = rows[j].parent =>
                /\ SiblingRank(rows, i) = SiblingRank(rows, j) => i = j
                /\ ComesBefore(rows[i], rows[j]) => SiblingRank(rows, i) < SiblingRank(rows, j)
<1>0. /\ IsSource(rows) /\ KeyIsUnique(rows)
      /\ \A i \in DOMAIN rows : rows[i].key \in Int /\ rows[i].sib \in Int
  <2>1. \A i \in DOMAIN rows : rows[i].key # NULL
    BY DEF IsWalk, Unreached
  <2> QED BY <2>1 DEF IsWalk, IsSource
<1>1. ASSUME NEW root, NEW up
      PROVE  LET S == {k \in In(rows, root) : rows[k].parent = up} IN
             /\ \A i \in S : SiblingRank(rows, i) \in Nat
             /\ \A i, j \in S : /\ SiblingRank(rows, i) = SiblingRank(rows, j) => i = j
                                /\ ComesBefore(rows[i], rows[j]) => SiblingRank(rows, i) < SiblingRank(rows, j)
  <2> DEFINE S == {k \in In(rows, root) : rows[k].parent = up}
  <2> DEFINE R == {p \in S \X S : ComesBefore(rows[p[1]], rows[p[2]])}
  <2> DEFINE pos == [i \in S |-> SiblingRank(rows, i)]
  <2>1. \A i, j \in S : <<i, j>> \in R <=> ComesBefore(rows[i], rows[j])
    OBVIOUS
  <2>2. \A i \in S : i \in DOMAIN rows /\ rows[i].root = root /\ rows[i].parent = up
    BY DEF In
  <2>3. IsFiniteSet(S)
    <3>1. IsFiniteSet(In(rows, root)) /\ S \in SUBSET In(rows, root)
      BY <1>0, RowsAreFinite
    <3> QED BY <3>1, FS_Subset
  <2>4. \A i \in S : pos[i] = Cardinality(Before(R, S, i))
    <3> SUFFICES ASSUME NEW i \in S PROVE SiblingRank(rows, i) = Cardinality(Before(R, S, i))
      OBVIOUS
    <3>1. SiblingRank(rows, i) = Cardinality({j \in In(rows, root) : rows[j].parent = up /\ ComesBefore(rows[j], rows[i])})
      BY <2>2 DEF SiblingRank
    <3>2. {j \in In(rows, root) : rows[j].parent = up /\ ComesBefore(rows[j], rows[i])} = Before(R, S, i)
      BY DEF Before
    <3> QED BY <3>1, <3>2
  <2>5. TotalOrder(R, S)
    <3> HIDE DEF R, S
    <3>1. \A i \in S : rows[i].key \in Int /\ rows[i].sib \in Int
      BY <1>0, <2>2
    <3>2. \A i, j \in S : rows[i].key = rows[j].key => i = j
      BY <1>0, <2>2 DEF KeyIsUnique
    <3>3. \A i \in S : <<i, i>> \notin R
      BY <2>1, <3>1 DEF ComesBefore
    <3>4. \A i, j, k \in S : <<i, j>> \in R /\ <<j, k>> \in R => <<i, k>> \in R
      BY <2>1, <3>1 DEF ComesBefore
    <3>5. \A i, j \in S : i # j => <<i, j>> \in R \/ <<j, i>> \in R
      BY <2>1, <3>1, <3>2 DEF ComesBefore
    <3> QED BY <3>3, <3>4, <3>5 DEF TotalOrder
  <2>6. /\ \A i \in S : pos[i] \in 0 .. Cardinality(S) - 1
        /\ \A i, j \in S : <<i, j>> \in R => pos[i] < pos[j]
        /\ \A i, j \in S : pos[i] = pos[j] => i = j
    <3> HIDE DEF R, S, pos
    <3> QED BY <2>3, <2>4, <2>5, RanksAre
  <2>7. \A i \in S : pos[i] = SiblingRank(rows, i)
    OBVIOUS
  <2> HIDE DEF R, S, pos
  <2>8. /\ \A i \in S : SiblingRank(rows, i) \in Nat
        /\ \A i, j \in S : /\ SiblingRank(rows, i) = SiblingRank(rows, j) => i = j
                           /\ ComesBefore(rows[i], rows[j]) => SiblingRank(rows, i) < SiblingRank(rows, j)
    <3>1. \A i \in S : SiblingRank(rows, i) \in Nat
      BY <2>6, <2>7
    <3>2. ASSUME NEW i \in S, NEW j \in S
          PROVE  /\ SiblingRank(rows, i) = SiblingRank(rows, j) => i = j
                 /\ ComesBefore(rows[i], rows[j]) => SiblingRank(rows, i) < SiblingRank(rows, j)
      <4>1. pos[i] = SiblingRank(rows, i) /\ pos[j] = SiblingRank(rows, j)
        BY <2>7
      <4>2. pos[i] = pos[j] => i = j
        BY <2>6
      <4>3. <<i, j>> \in R => pos[i] < pos[j]
        BY <2>6
      <4>4. ComesBefore(rows[i], rows[j]) => <<i, j>> \in R
        BY <2>1
      <4> QED BY <4>1, <4>2, <4>3, <4>4
    <3> QED BY <3>1, <3>2
  <2> QED BY <2>8 DEF S
<1>2. \A i \in DOMAIN rows : i \in {k \in In(rows, rows[i].root) : rows[k].parent = rows[i].parent}
  BY DEF In
<1>3. ASSUME NEW i \in DOMAIN rows PROVE SiblingRank(rows, i) \in Nat
  BY <1>1, <1>2
<1>4. ASSUME NEW i \in DOMAIN rows, NEW j \in DOMAIN rows,
             rows[i].root = rows[j].root, rows[i].parent = rows[j].parent
      PROVE  /\ SiblingRank(rows, i) = SiblingRank(rows, j) => i = j
             /\ ComesBefore(rows[i], rows[j]) => SiblingRank(rows, i) < SiblingRank(rows, j)
  <2> DEFINE S == {k \in In(rows, rows[i].root) : rows[k].parent = rows[i].parent}
  <2>1. i \in S /\ j \in S
    BY <1>4 DEF In
  <2>2. \A k, l \in S : /\ SiblingRank(rows, k) = SiblingRank(rows, l) => k = l
                        /\ ComesBefore(rows[k], rows[l]) => SiblingRank(rows, k) < SiblingRank(rows, l)
    BY <1>1
  <2> HIDE DEF S
  <2> QED BY <2>1, <2>2
<1> QED BY <1>3, <1>4

\* A row's path is that of its parent row, and its own rank.
LEMMA PathsAre ==
  ASSUME NULL \notin Int, NEW rows, IsWalk(rows)
  PROVE  LET path == Paths(rows) IN
         /\ path \in [DOMAIN rows -> Seq(Nat)]
         /\ \A i \in DOMAIN rows :
              path[i] = Append(IF rows[i].parent = NULL THEN <<>> ELSE path[Least(ParentRows(rows, i))],
                               SiblingRank(rows, i))
<1> DEFINE D == DOMAIN rows
<1> DEFINE N == Len(rows)
<1> DEFINE up(i) == Least(ParentRows(rows, i))
<1> DEFINE rank(i) == SiblingRank(rows, i)
<1> DEFINE onto(i, p) == Append(IF rows[i].parent = NULL THEN <<>> ELSE p, rank(i))
<1> DEFINE X == [D -> Seq(Nat)]
<1> DEFINE step == [g \in X |-> [i \in D |-> onto(i, g[up(i)])]]
<1> DEFINE first == [i \in D |-> <<>>]
<1>0. N \in Nat /\ Walked(rows) = D
  <2>1. N \in Nat
    BY DEF IsWalk, IsSource
  <2>2. CASE D = {}
    BY <2>2, WalkedAreRows DEF IsWalk
  <2>3. CASE D # {}
    BY <2>3, DepthIs
  <2> QED BY <2>1, <2>2, <2>3
<1>1. \A i \in D : rank(i) \in Nat /\ (rows[i].parent # NULL => up(i) \in D)
  BY SiblingRanks, DepthIs
<1>2. \A i \in D : Depth(rows, i) \in 0 .. N /\ (rows[i].parent # NULL => Depth(rows, i) = Depth(rows, up(i)) + 1)
  BY DepthIs
<1> HIDE DEF D, N, up, rank
<1>3. \A g \in X : \A i \in D : onto(i, g[up(i)]) \in Seq(Nat)
  BY <1>1
<1>4. first \in X /\ step \in [X -> X]
  <2>1. first \in X
    OBVIOUS
  <2>2. ASSUME NEW g \in X PROVE [i \in D |-> onto(i, g[up(i)])] \in X
    <3> HIDE DEF onto
    <3> QED BY <1>3
  <2> QED BY <2>1, <2>2
<1>5. PICK f : Repeats(f, X, first, step, N + 1)
  <2> HIDE DEF X, first, step
  <2> QED BY <1>0, <1>4, Iterates
<1>6. f \in [0 .. N + 1 -> X] /\ \A d \in 1 .. N + 1 : f[d] = step[f[d - 1]]
  BY <1>5 DEF Repeats
<1>7. \A d \in 1 .. N + 1 : f[d - 1] \in X /\ f[d] = [i \in D |-> onto(i, f[d - 1][up(i)])]
  <2> TAKE d \in 1 .. N + 1
  <2>1. f[d - 1] \in X
    <3>1. d - 1 \in 0 .. N + 1
      BY <1>0
    <3> HIDE DEF X
    <3> QED BY <1>6, <3>1
  <2> HIDE DEF onto, X
  <2> QED BY <1>6, <2>1
<1> DEFINE path == [i \in D |-> f[Depth(rows, i) + 1][i]]
<1>8. ASSUME NEW i \in D
      PROVE  path[i] \in Seq(Nat) /\ path[i] = onto(i, path[up(i)])
  <2> DEFINE d == Depth(rows, i) + 1
  <2>1. d \in 1 .. N + 1
    BY <1>0, <1>2
  <2>2. path[i] = onto(i, f[d - 1][up(i)]) /\ f[d - 1] \in X
    <3>1. path[i] = f[d][i]
      OBVIOUS
    <3> HIDE DEF onto, d, X, path
    <3> QED BY <1>7, <2>1, <3>1
  <2>3. onto(i, f[d - 1][up(i)]) \in Seq(Nat)
    <3> HIDE DEF onto, d, X
    <3> QED BY <1>3, <2>2
  <2>4. CASE rows[i].parent = NULL
    BY <2>2, <2>3, <2>4
  <2>5. CASE rows[i].parent # NULL
    <3>1. path[up(i)] = f[Depth(rows, up(i)) + 1][up(i)] /\ Depth(rows, up(i)) + 1 = d - 1
      <4>1. up(i) \in D /\ Depth(rows, i) = Depth(rows, up(i)) + 1
        BY <1>1, <1>2, <2>5
      <4>2. Depth(rows, up(i)) \in Int
        BY <1>0, <1>2, <4>1
      <4> QED BY <4>1, <4>2
    <3> HIDE DEF path, d
    <3> QED BY <2>2, <2>3, <2>5, <3>1
  <2> QED BY <2>4, <2>5
<1>9. path = [i \in D |-> onto(i, path[up(i)])]
  <2> HIDE DEF onto
  <2>1. path = [i \in D |-> path[i]]
    OBVIOUS
  <2> HIDE DEF path
  <2> QED BY <1>8, <2>1
<1>10. Paths(rows) = CHOOSE p : p = [i \in D |-> onto(i, p[up(i)])]
  BY <1>0 DEF Paths, up, rank
<1>11. Paths(rows) = [i \in D |-> onto(i, Paths(rows)[up(i)])]
  <2> HIDE DEF onto, path
  <2> QED BY <1>9, <1>10
<1> HIDE DEF X, step, first, path
<1>12. \A i \in D : Paths(rows)[i] = onto(i, Paths(rows)[up(i)])
  <2> HIDE DEF onto
  <2> QED BY <1>11
<1>13. \A i \in D : Paths(rows)[i] \in Seq(Nat)
  <2> DEFINE Bad == {d \in 0 .. N : \E i \in D : Depth(rows, i) = d /\ Paths(rows)[i] \notin Seq(Nat)}
  <2>1. SUFFICES ASSUME Bad # {} PROVE FALSE
    BY <1>2
  <2>2. PICK d \in Bad : \A m \in Bad : d <= m
    <3>1. Bad \in SUBSET Nat
      BY <1>0
    <3> HIDE DEF Bad
    <3> QED BY <2>1, <3>1, LeastNat
  <2>3. PICK i \in D : Depth(rows, i) = d /\ Paths(rows)[i] \notin Seq(Nat)
    BY <2>2
  <2>4. CASE rows[i].parent = NULL
    BY <1>1, <1>12, <2>3, <2>4
  <2>5. CASE rows[i].parent # NULL
    <3>1. up(i) \in D /\ d = Depth(rows, up(i)) + 1 /\ Depth(rows, up(i)) \in 0 .. N
      BY <1>1, <1>2, <2>3, <2>5
    <3>2. Depth(rows, up(i)) \notin Bad
      <4>1. ~ (d <= Depth(rows, up(i)))
        BY <1>0, <3>1
      <4> HIDE DEF Bad
      <4> QED BY <2>2, <4>1
    <3>3. Paths(rows)[up(i)] \in Seq(Nat)
      BY <3>1, <3>2
    <3>4. Paths(rows)[i] = Append(Paths(rows)[up(i)], rank(i)) /\ rank(i) \in Nat
      BY <1>1, <1>12, <2>3, <2>5
    <3> QED BY <2>3, <3>3, <3>4
  <2> QED BY <2>4, <2>5
<1>14. Paths(rows) \in [D -> Seq(Nat)]
  <2> HIDE DEF onto
  <2> QED BY <1>11, <1>13
<1> QED BY <1>12, <1>14 DEF D, up, rank

-----------------------------------------------------------------------------
(* The order of the paths.                                                 *)

\* Where two lists first differ, and a list the other begins with.
Numbers(p) == Len(p) \in Nat /\ \A m \in 1 .. Len(p) : p[m] \in Nat
LessAt(p, q, k) == k \in 1 .. Len(p) /\ k \in 1 .. Len(q) /\ p[k] < q[k] /\ \A m \in 1 .. k - 1 : p[m] = q[m]
Begins(p, q) == Len(p) < Len(q) /\ \A m \in 1 .. Len(p) : p[m] = q[m]
Lower(p, q) == (\E k \in 1 .. Len(p) : LessAt(p, q, k)) \/ Begins(p, q)

LEMMA LessChains ==
  ASSUME NEW p, NEW q, NEW r, Numbers(p), Numbers(q), Numbers(r),
         NEW k, LessAt(p, q, k), NEW l, LessAt(q, r, l)
  PROVE  \E m \in 1 .. Len(p) : LessAt(p, r, m)
<1>0. Len(p) \in Nat /\ Len(q) \in Nat /\ Len(r) \in Nat
  BY DEF Numbers
<1>1. k \in 1 .. Len(p) /\ k \in 1 .. Len(q) /\ p[k] < q[k] /\ \A m \in 1 .. k - 1 : p[m] = q[m]
  BY DEF LessAt
<1>2. l \in 1 .. Len(q) /\ l \in 1 .. Len(r) /\ q[l] < r[l] /\ \A m \in 1 .. l - 1 : q[m] = r[m]
  BY DEF LessAt
<1>3. p[k] \in Nat /\ q[k] \in Nat /\ q[l] \in Nat /\ r[l] \in Nat
  BY <1>1, <1>2 DEF Numbers
<1>4. k \in Nat /\ l \in Nat /\ (k < l => k \in 1 .. l - 1) /\ (l < k => l \in 1 .. k - 1)
  BY <1>0, <1>1, <1>2
<1>5. CASE k < l
  <2>1. q[k] = r[k] /\ k \in 1 .. Len(r)
    BY <1>0, <1>1, <1>2, <1>4, <1>5
  <2>2. \A m \in 1 .. k - 1 : m \in 1 .. l - 1
    BY <1>4, <1>5
  <2>3. \A m \in 1 .. k - 1 : p[m] = r[m]
    BY <1>1, <1>2, <2>2
  <2> QED BY <1>1, <2>1, <2>3 DEF LessAt
<1>6. CASE k = l
  <2>1. \A m \in 1 .. k - 1 : p[m] = r[m]
    BY <1>1, <1>2, <1>6
  <2>2. p[k] < r[k]
    BY <1>1, <1>2, <1>3, <1>6
  <2> QED BY <1>1, <1>2, <1>6, <2>1, <2>2 DEF LessAt
<1>7. CASE l < k
  <2>1. p[l] = q[l] /\ l \in 1 .. Len(p)
    BY <1>0, <1>1, <1>2, <1>4, <1>7
  <2>2. \A m \in 1 .. l - 1 : m \in 1 .. k - 1
    BY <1>4, <1>7
  <2>3. \A m \in 1 .. l - 1 : p[m] = r[m]
    BY <1>1, <1>2, <2>2
  <2> QED BY <1>2, <2>1, <2>3 DEF LessAt
<1> QED BY <1>4, <1>5, <1>6, <1>7

LEMMA LowerChains ==
  ASSUME NEW p, NEW q, NEW r, Numbers(p), Numbers(q), Numbers(r), Lower(p, q), Lower(q, r)
  PROVE  Lower(p, r)
<1>0. Len(p) \in Nat /\ Len(q) \in Nat /\ Len(r) \in Nat
  BY DEF Numbers
<1>1. ASSUME NEW k, LessAt(p, q, k), Begins(q, r) PROVE LessAt(p, r, k)
  <2>1. k \in 1 .. Len(p) /\ k \in 1 .. Len(q) /\ p[k] < q[k] /\ \A m \in 1 .. k - 1 : p[m] = q[m]
    BY <1>1 DEF LessAt
  <2>2. \A m \in 1 .. k - 1 : m \in 1 .. Len(q)
    BY <1>0, <2>1
  <2>3. q[k] = r[k] /\ \A m \in 1 .. k - 1 : q[m] = r[m]
    BY <1>1, <2>1, <2>2 DEF Begins
  <2>4. k \in 1 .. Len(r)
    BY <1>0, <1>1, <2>1 DEF Begins
  <2> QED BY <2>1, <2>3, <2>4 DEF LessAt
<1>2. ASSUME Begins(p, q), NEW l, LessAt(q, r, l) PROVE LessAt(p, r, l) \/ Begins(p, r)
  <2>1. l \in 1 .. Len(q) /\ l \in 1 .. Len(r) /\ q[l] < r[l] /\ \A m \in 1 .. l - 1 : q[m] = r[m]
    BY <1>2 DEF LessAt
  <2>2. \A m \in 1 .. Len(p) : p[m] = q[m]
    BY <1>2 DEF Begins
  <2>3. CASE l <= Len(p)
    <3>1. l \in 1 .. Len(p) /\ \A m \in 1 .. l - 1 : m \in 1 .. Len(p)
      BY <1>0, <2>1, <2>3
    <3>2. p[l] = q[l] /\ \A m \in 1 .. l - 1 : p[m] = r[m]
      BY <2>1, <2>2, <3>1
    <3> QED BY <2>1, <3>1, <3>2 DEF LessAt
  <2>4. CASE ~ (l <= Len(p))
    <3>1. Len(p) < Len(r) /\ \A m \in 1 .. Len(p) : m \in 1 .. l - 1
      BY <1>0, <2>1, <2>4
    <3>2. \A m \in 1 .. Len(p) : p[m] = r[m]
      BY <2>1, <2>2, <3>1
    <3> QED BY <3>1, <3>2 DEF Begins
  <2> QED BY <2>3, <2>4
<1>3. ASSUME Begins(p, q), Begins(q, r) PROVE Begins(p, r)
  <2>1. Len(p) < Len(r) /\ \A m \in 1 .. Len(p) : m \in 1 .. Len(q)
    BY <1>0, <1>3 DEF Begins
  <2>2. \A m \in 1 .. Len(p) : p[m] = r[m]
    BY <1>3, <2>1 DEF Begins
  <2> QED BY <2>1, <2>2 DEF Begins
<1>4. (\E k \in 1 .. Len(p) : LessAt(p, q, k)) \/ Begins(p, q)
  BY DEF Lower
<1>5. (\E l \in 1 .. Len(q) : LessAt(q, r, l)) \/ Begins(q, r)
  BY DEF Lower
<1>6. \A k : LessAt(p, r, k) => k \in 1 .. Len(p)
  BY DEF LessAt
<1>7. (\E k \in 1 .. Len(p) : LessAt(p, r, k)) \/ Begins(p, r)
  BY <1>1, <1>2, <1>3, <1>4, <1>5, <1>6, LessChains
<1> QED BY <1>7 DEF Lower

LEMMA LowerDecides ==
  ASSUME NEW p, NEW q, Numbers(p), Numbers(q), ~ Lower(p, q), ~ Lower(q, p)
  PROVE  Len(p) = Len(q) /\ \A m \in 1 .. Len(p) : p[m] = q[m]
<1>0. Len(p) \in Nat /\ Len(q) \in Nat
  BY DEF Numbers
<1> DEFINE Differ == {k \in 1 .. Len(p) : k <= Len(q) /\ p[k] # q[k]}
<1>1. CASE Differ = {}
  <2>1. \A m \in 1 .. Len(p) : m <= Len(q) => p[m] = q[m]
    BY <1>1
  <2>2. CASE Len(p) < Len(q)
    <3>1. \A m \in 1 .. Len(p) : p[m] = q[m]
      BY <1>0, <2>1, <2>2
    <3> QED BY <2>2, <3>1 DEF Lower, Begins
  <2>3. CASE Len(q) < Len(p)
    <3>1. \A m \in 1 .. Len(q) : q[m] = p[m]
      BY <1>0, <2>1, <2>3
    <3> QED BY <2>3, <3>1 DEF Lower, Begins
  <2>4. CASE Len(p) = Len(q)
    <3>1. \A m \in 1 .. Len(p) : p[m] = q[m]
      BY <1>0, <2>1, <2>4
    <3> QED BY <2>4, <3>1
  <2> QED BY <1>0, <2>2, <2>3, <2>4
<1>2. CASE Differ # {}
  <2>1. PICK k \in Differ : \A m \in Differ : k <= m
    <3>1. Differ \in SUBSET Nat
      OBVIOUS
    <3> HIDE DEF Differ
    <3> QED BY <1>2, <3>1, LeastNat
  <2>2. k \in 1 .. Len(p) /\ k \in 1 .. Len(q) /\ p[k] # q[k]
    BY <1>0, <2>1
  <2>3. p[k] \in Nat /\ q[k] \in Nat
    BY <2>2 DEF Numbers
  <2>4. \A m \in 1 .. k - 1 : p[m] = q[m]
    <3> TAKE m \in 1 .. k - 1
    <3>1. m \in 1 .. Len(p) /\ m <= Len(q) /\ ~ (k <= m)
      BY <1>0, <2>2
    <3>2. m \notin Differ
      <4> HIDE DEF Differ
      <4> QED BY <2>1, <3>1
    <3> QED BY <3>1, <3>2
  <2>5. p[k] < q[k] \/ q[k] < p[k]
    BY <2>2, <2>3
  <2>6. \A m \in 1 .. k - 1 : q[m] = p[m]
    BY <2>4
  <2>7. LessAt(p, q, k) \/ LessAt(q, p, k)
    BY <2>2, <2>4, <2>5, <2>6 DEF LessAt
  <2> QED BY <2>2, <2>7 DEF Lower
<1> QED BY <1>1, <1>2

\* Lists compare as a strict total order.
LEMMA PrecedesOrders ==
  /\ \A p \in Seq(Nat) : ~ Precedes(p, p)
  /\ \A p, q, r \in Seq(Nat) : Precedes(p, q) /\ Precedes(q, r) => Precedes(p, r)
  /\ \A p, q \in Seq(Nat) : p # q => Precedes(p, q) \/ Precedes(q, p)
<1>1. \A p \in Seq(Nat) : Numbers(p)
  BY DEF Numbers
<1>2. ASSUME NEW p \in Seq(Nat), NEW q \in Seq(Nat) PROVE Precedes(p, q) <=> Lower(p, q)
  <2>1. Len(p) \in Nat /\ Len(q) \in Nat
    OBVIOUS
  <2> QED BY <2>1 DEF Precedes, Lower, LessAt, Begins
<1>3. ASSUME NEW p \in Seq(Nat) PROVE ~ Precedes(p, p)
  <2>1. Numbers(p)
    BY <1>1
  <2>2. ~ Lower(p, p)
    BY <2>1 DEF Numbers, Lower, LessAt, Begins
  <2> QED BY <1>2, <2>2
<1>4. ASSUME NEW p \in Seq(Nat), NEW q \in Seq(Nat), NEW r \in Seq(Nat), Precedes(p, q), Precedes(q, r)
      PROVE  Precedes(p, r)
  BY <1>1, <1>2, <1>4, LowerChains
<1>5. ASSUME NEW p \in Seq(Nat), NEW q \in Seq(Nat), p # q PROVE Precedes(p, q) \/ Precedes(q, p)
  <2>1. Numbers(p) /\ Numbers(q)
    BY <1>1
  <2>2. Len(p) = Len(q) /\ (\A m \in 1 .. Len(p) : p[m] = q[m]) => p = q
    OBVIOUS
  <2> QED BY <1>2, <1>5, <2>1, <2>2, LowerDecides
<1> QED BY <1>3, <1>4, <1>5

\* A path has one rank per level.
LEMMA PathLengths ==
  ASSUME NULL \notin Int, NEW rows, IsWalk(rows), NEW i \in DOMAIN rows
  PROVE  Paths(rows)[i] \in Seq(Nat) /\ Len(Paths(rows)[i]) = Depth(rows, i) + 1
<1> DEFINE D == DOMAIN rows
<1> DEFINE N == Len(rows)
<1> DEFINE path(k) == Paths(rows)[k]
<1> DEFINE up(k) == Least(ParentRows(rows, k))
<1> DEFINE rank(k) == SiblingRank(rows, k)
<1>1. \A k \in D : path(k) \in Seq(Nat) /\ rank(k) \in Nat
                   /\ path(k) = Append(IF rows[k].parent = NULL THEN <<>> ELSE path(up(k)), rank(k))
  BY PathsAre, SiblingRanks
<1>2. \A k \in D : /\ Depth(rows, k) \in 0 .. N
                   /\ rows[k].parent = NULL => Depth(rows, k) = 0
                   /\ rows[k].parent # NULL => up(k) \in D /\ Depth(rows, k) = Depth(rows, up(k)) + 1
  BY DepthIs
<1>3. N \in Nat
  BY DEF IsWalk, IsSource
<1> HIDE DEF D, N, path, up, rank
<1>4. \A k \in D : Len(path(k)) = Depth(rows, k) + 1
  <2> DEFINE Bad == {d \in 0 .. N : \E k \in D : Depth(rows, k) = d /\ Len(path(k)) # d + 1}
  <2>1. SUFFICES ASSUME Bad # {} PROVE FALSE
    BY <1>2
  <2>2. PICK d \in Bad : \A m \in Bad : d <= m
    <3>1. Bad \in SUBSET Nat
      BY <1>3
    <3> HIDE DEF Bad
    <3> QED BY <2>1, <3>1, LeastNat
  <2>3. PICK k \in D : Depth(rows, k) = d /\ Len(path(k)) # d + 1
    BY <2>2
  <2>4. CASE rows[k].parent = NULL
    <3>1. path(k) = Append(<<>>, rank(k))
      BY <1>1, <2>4
    <3>2. Len(path(k)) = 1
      BY <3>1
    <3> QED BY <1>2, <2>3, <2>4, <3>2
  <2>5. CASE rows[k].parent # NULL
    <3>1. up(k) \in D /\ d = Depth(rows, up(k)) + 1 /\ Depth(rows, up(k)) \in 0 .. N
      BY <1>2, <2>3, <2>5
    <3>2. Depth(rows, up(k)) \notin Bad
      <4>1. ~ (d <= Depth(rows, up(k)))
        BY <1>3, <3>1
      <4> HIDE DEF Bad
      <4> QED BY <2>2, <4>1
    <3>3. Len(path(up(k))) = d
      BY <3>1, <3>2
    <3>4. path(k) = Append(path(up(k)), rank(k)) /\ path(up(k)) \in Seq(Nat) /\ rank(k) \in Nat
      BY <1>1, <2>5, <3>1
    <3> QED BY <2>3, <3>3, <3>4
  <2> QED BY <2>4, <2>5
<1> QED BY <1>1, <1>4 DEF D, path

\* The rows of a root have paths of their own.
LEMMA PathsDiffer ==
  ASSUME NULL \notin Int, NEW rows, IsWalk(rows),
         NEW i \in DOMAIN rows, NEW j \in DOMAIN rows, rows[i].root = rows[j].root, Paths(rows)[i] = Paths(rows)[j]
  PROVE  i = j
<1> DEFINE D == DOMAIN rows
<1> DEFINE N == Len(rows)
<1> DEFINE path(k) == Paths(rows)[k]
<1> DEFINE up(k) == Least(ParentRows(rows, k))
<1> DEFINE rank(k) == SiblingRank(rows, k)
<1>1. \A k \in D : path(k) \in Seq(Nat) /\ rank(k) \in Nat /\ Len(path(k)) = Depth(rows, k) + 1
                   /\ path(k) = Append(IF rows[k].parent = NULL THEN <<>> ELSE path(up(k)), rank(k))
  BY PathsAre, SiblingRanks, PathLengths
<1>2. \A k \in D : /\ Depth(rows, k) \in 0 .. N
                   /\ rows[k].parent = NULL => Depth(rows, k) = 0
                   /\ rows[k].parent # NULL =>
                        /\ up(k) \in D /\ Depth(rows, k) = Depth(rows, up(k)) + 1
                        /\ rows[up(k)].root = rows[k].root /\ rows[up(k)].key = rows[k].parent
  BY DepthIs
<1>3. N \in Nat
  BY DEF IsWalk, IsSource
<1>4. \A k, l \in D : rows[k].root = rows[l].root /\ rows[k].parent = rows[l].parent /\ rank(k) = rank(l) => k = l
  BY SiblingRanks
<1> DEFINE same(k, l) == rows[k].root = rows[l].root /\ path(k) = path(l)
<1> DEFINE Bad == {d \in 0 .. N : \E k, l \in D : Depth(rows, k) = d /\ same(k, l) /\ k # l}
<1>5. Bad = {}
  <2> HIDE DEF D, N, path, up, rank
  <2>1. SUFFICES ASSUME Bad # {} PROVE FALSE
    OBVIOUS
  <2>2. PICK d \in Bad : \A m \in Bad : d <= m
    <3>1. Bad \in SUBSET Nat
      BY <1>3
    <3> HIDE DEF Bad
    <3> QED BY <2>1, <3>1, LeastNat
  <2>3. PICK k \in D, l \in D : Depth(rows, k) = d /\ same(k, l) /\ k # l
    BY <2>2
  <2>4. Depth(rows, l) = d /\ d \in Nat
    <3>1. Depth(rows, k) + 1 = Depth(rows, l) + 1 /\ Depth(rows, l) \in 0 .. N
      BY <1>1, <1>2, <2>3
    <3>2. d \in 0 .. N
      BY <2>2
    <3> QED BY <1>3, <2>3, <3>1, <3>2
  <2>5. CASE d = 0
    <3>1. rows[k].parent = NULL /\ rows[l].parent = NULL
      <4>1. ASSUME NEW m \in D, Depth(rows, m) = 0, rows[m].parent # NULL PROVE FALSE
        <5>1. Depth(rows, up(m)) \in 0 .. N /\ 0 = Depth(rows, up(m)) + 1
          BY <1>2, <4>1
        <5> QED BY <1>3, <5>1
      <4> QED BY <2>3, <2>4, <2>5, <4>1
    <3>2. path(k) = Append(<<>>, rank(k)) /\ path(l) = Append(<<>>, rank(l)) /\ rank(k) \in Nat /\ rank(l) \in Nat
      BY <1>1, <3>1
    <3>3. rank(k) = rank(l)
      <4>1. Append(<<>>, rank(k))[1] = rank(k) /\ Append(<<>>, rank(l))[1] = rank(l)
        BY <3>2
      <4> QED BY <2>3, <3>2, <4>1
    <3> QED BY <1>4, <2>3, <3>1, <3>3
  <2>6. CASE d # 0
    <3>1. rows[k].parent # NULL /\ rows[l].parent # NULL
      BY <1>2, <2>3, <2>4, <2>6
    <3>2. /\ path(k) = Append(path(up(k)), rank(k)) /\ path(l) = Append(path(up(l)), rank(l))
          /\ path(up(k)) \in Seq(Nat) /\ path(up(l)) \in Seq(Nat) /\ rank(k) \in Nat /\ rank(l) \in Nat
          /\ Len(path(up(k))) = d /\ Len(path(up(l))) = d
      <4>1. /\ up(k) \in D /\ up(l) \in D /\ Depth(rows, up(k)) + 1 = d /\ Depth(rows, up(l)) + 1 = d
        BY <1>2, <2>3, <2>4, <3>1
      <4> QED BY <1>1, <3>1, <4>1
    <3>3. rank(k) = rank(l) /\ path(up(k)) = path(up(l))
      <4>1. rank(k) = path(k)[d + 1] /\ rank(l) = path(l)[d + 1]
        BY <3>2
      <4>2. \A m \in 1 .. d : path(up(k))[m] = path(k)[m] /\ path(up(l))[m] = path(l)[m]
        BY <3>2
      <4>3. \A m \in 1 .. d : path(up(k))[m] = path(up(l))[m]
        BY <2>3, <4>2
      <4>4. path(up(k)) = path(up(l))
        BY <3>2, <4>3
      <4> QED BY <2>3, <4>1, <4>4
    <3>4. up(k) = up(l)
      <4>1. /\ up(k) \in D /\ up(l) \in D /\ d = Depth(rows, up(k)) + 1 /\ Depth(rows, up(k)) \in 0 .. N
            /\ rows[up(k)].root = rows[up(l)].root
        BY <1>2, <2>3, <3>1
      <4>2. Depth(rows, up(k)) \notin Bad
        <5>1. ~ (d <= Depth(rows, up(k)))
          BY <1>3, <4>1
        <5> HIDE DEF Bad
        <5> QED BY <2>2, <5>1
      <4> QED BY <3>3, <4>1, <4>2
    <3>5. rows[k].parent = rows[l].parent
      BY <1>2, <3>1, <3>4
    <3> QED BY <1>4, <2>3, <3>3, <3>5
  <2> QED BY <2>5, <2>6
<1>6. Depth(rows, i) \in 0 .. N
  BY <1>2
<1> HIDE DEF N
<1> QED BY <1>5, <1>6

\* Positions on the parent basis follow the paths.
LEMMA WalkRanks ==
  ASSUME NULL \notin Int, NEW decl, NEW rows, IsWalk(rows), ~ LevelBasis(decl)
  PROVE  /\ NumbersRows(Ranked(decl, rows), rows)
         /\ \A i, j \in DOMAIN rows :
              rows[i].root = rows[j].root =>
                (Ranked(decl, rows)[i] < Ranked(decl, rows)[j] <=> Precedes(Paths(rows)[i], Paths(rows)[j]))
<1> DEFINE pre == Ranked(decl, rows)
<1> DEFINE path == Paths(rows)
<1>0. IsSource(rows) /\ Walked(rows) = DOMAIN rows
  <2>1. CASE DOMAIN rows = {}
    BY <2>1, WalkedAreRows DEF IsWalk
  <2>2. CASE DOMAIN rows # {}
    BY <2>2, DepthIs DEF IsWalk
  <2> QED BY <2>1, <2>2 DEF IsWalk
<1>1. pre = [i \in DOMAIN rows |-> Cardinality({j \in DOMAIN rows : rows[j].root = rows[i].root /\ Precedes(path[j], path[i])})]
  BY <1>0 DEF Ranked
<1>2. ASSUME NEW root
      PROVE  LET S == In(rows, root)
                 n == Cardinality(S) IN
             /\ \A i \in S : pre[i] \in 0 .. n - 1
             /\ \A i, j \in S : pre[i] = pre[j] => i = j
             /\ \A k \in 0 .. n - 1 : \E i \in S : pre[i] = k
             /\ n \in Nat
             /\ \A i, j \in S : Precedes(path[i], path[j]) => pre[i] < pre[j]
  <2> DEFINE S == In(rows, root)
  <2> DEFINE R == {p \in S \X S : Precedes(path[p[1]], path[p[2]])}
  <2>1. \A i, j \in S : <<i, j>> \in R <=> Precedes(path[i], path[j])
    OBVIOUS
  <2>2. \A i \in S : i \in DOMAIN rows /\ rows[i].root = root
    BY DEF In
  <2>3. IsFiniteSet(S) /\ Cardinality(S) \in Nat
    BY <1>0, RowsAreFinite
  <2>4. \A i \in S : pre[i] = Cardinality(Before(R, S, i))
    <3> TAKE i \in S
    <3>1. pre[i] = Cardinality({j \in DOMAIN rows : rows[j].root = root /\ Precedes(path[j], path[i])})
      BY <1>1, <2>2
    <3>2. {j \in DOMAIN rows : rows[j].root = root /\ Precedes(path[j], path[i])} = Before(R, S, i)
      BY DEF In, Before
    <3> QED BY <3>1, <3>2
  <2>5. TotalOrder(R, S)
    <3> HIDE DEF R, S, path
    <3>1. \A i \in S : path[i] \in Seq(Nat)
      BY <2>2, PathLengths DEF path
    <3>2. \A i, j \in S : path[i] = path[j] => i = j
      BY <2>2, PathsDiffer DEF path
    <3> QED BY <2>1, <3>1, <3>2, PrecedesOrders DEF TotalOrder
  <2>6. /\ \A i \in S : pre[i] \in 0 .. Cardinality(S) - 1
        /\ \A i, j \in S : <<i, j>> \in R => pre[i] < pre[j]
        /\ \A i, j \in S : pre[i] = pre[j] => i = j
        /\ \A k \in 0 .. Cardinality(S) - 1 : \E i \in S : pre[i] = k
    <3> HIDE DEF R, S, pre
    <3> QED BY <2>3, <2>4, <2>5, RanksAre
  <2>7. \A i, j \in S : Precedes(path[i], path[j]) => pre[i] < pre[j]
    BY <2>1, <2>6
  <2> HIDE DEF R, S, pre, path
  <2> QED BY <2>3, <2>6, <2>7 DEF S, pre, path
<1>3. NumbersRows(pre, rows)
  <2>1. DOMAIN pre = DOMAIN rows
    BY <1>1
  <2> HIDE DEF pre
  <2> QED BY <1>2, <2>1 DEF NumbersRows
<1>4. ASSUME NEW i \in DOMAIN rows, NEW j \in DOMAIN rows, rows[i].root = rows[j].root
      PROVE  pre[i] < pre[j] <=> Precedes(path[i], path[j])
  <2> DEFINE S == In(rows, rows[i].root)
  <2>1. i \in S /\ j \in S
    BY <1>4 DEF In
  <2>2. pre[i] \in Nat /\ pre[j] \in Nat
    <3>1. Cardinality(S) \in Nat /\ pre[i] \in 0 .. Cardinality(S) - 1 /\ pre[j] \in 0 .. Cardinality(S) - 1
      BY <1>2, <2>1
    <3> HIDE DEF S, pre
    <3> QED BY <3>1
  <2>3. /\ Precedes(path[i], path[j]) => pre[i] < pre[j]
        /\ Precedes(path[j], path[i]) => pre[j] < pre[i]
    BY <1>2, <2>1
  <2>4. path[i] \in Seq(Nat) /\ path[j] \in Seq(Nat) /\ (path[i] = path[j] => i = j)
    BY <1>4, PathLengths, PathsDiffer
  <2> HIDE DEF S, pre, path
  <2>5. path[i] # path[j] => Precedes(path[i], path[j]) \/ Precedes(path[j], path[i])
    BY <2>4, PrecedesOrders
  <2> QED BY <2>2, <2>3, <2>4, <2>5
<1> HIDE DEF pre, path
<1> QED BY <1>3, <1>4 DEF pre, path

\* The paths list a forest in preorder: the rows from a parent row to a row that hangs
\* off it are all at least as deep as the latter.
LEMMA PathsAreAPreorder ==
  ASSUME NULL \notin Int, NEW rows, IsWalk(rows), NEW i \in DOMAIN rows, rows[i].parent # NULL
  PROVE  LET up == Least(ParentRows(rows, i)) IN
         /\ Precedes(Paths(rows)[up], Paths(rows)[i])
         /\ \A k \in DOMAIN rows :
              Precedes(Paths(rows)[up], Paths(rows)[k])
              /\ (Precedes(Paths(rows)[k], Paths(rows)[i]) \/ Paths(rows)[k] = Paths(rows)[i])
              => Depth(rows, k) >= Depth(rows, i)
<1> DEFINE up == Least(ParentRows(rows, i))
<1> DEFINE p == Paths(rows)[up]
<1> DEFINE q == Paths(rows)[i]
<1>1. up \in DOMAIN rows /\ Depth(rows, i) = Depth(rows, up) + 1
  BY DepthIs
<1>2. /\ p \in Seq(Nat) /\ Len(p) = Depth(rows, up) + 1 /\ q \in Seq(Nat) /\ Len(q) = Depth(rows, i) + 1
      /\ q = Append(p, SiblingRank(rows, i)) /\ SiblingRank(rows, i) \in Nat
  BY <1>1, PathsAre, PathLengths, SiblingRanks
<1> HIDE DEF up, p, q
<1>3. Len(q) = Len(p) + 1 /\ Len(p) \in Nat /\ \A m \in 1 .. Len(p) : q[m] = p[m]
  BY <1>2
<1>4. Precedes(p, q)
  BY <1>3 DEF Precedes
<1>5. ASSUME NEW r \in Seq(Nat), Precedes(p, r), Precedes(r, q) \/ r = q PROVE Len(r) > Len(p)
  <2>1. Len(r) \in Nat /\ \A m \in 1 .. Len(r) : r[m] \in Nat
    OBVIOUS
  <2>2. \A m \in 1 .. Len(p) : p[m] \in Nat
    BY <1>2
  <2>3. ASSUME NEW k \in 1 .. Len(p), k <= Len(r), p[k] < r[k], \A m \in 1 .. k - 1 : p[m] = r[m] PROVE FALSE
    <3>1. k \in 1 .. Len(q) /\ q[k] < r[k] /\ \A m \in 1 .. k - 1 : q[m] = r[m]
      <4>1. \A m \in 1 .. k - 1 : m \in 1 .. Len(p)
        BY <1>3
      <4> QED BY <1>3, <2>3, <4>1
    <3>2. Precedes(q, r)
      BY <2>3, <3>1 DEF Precedes
    <3>3. ~ Precedes(q, q) /\ (Precedes(r, q) /\ Precedes(q, r) => Precedes(r, r)) /\ ~ Precedes(r, r)
      BY <1>2, PrecedesOrders
    <3> QED BY <1>5, <3>2, <3>3
  <2> QED BY <1>3, <1>5, <2>1, <2>3 DEF Precedes
<1>6. ASSUME NEW k \in DOMAIN rows, Precedes(p, Paths(rows)[k]),
             Precedes(Paths(rows)[k], q) \/ Paths(rows)[k] = q
      PROVE  Depth(rows, k) >= Depth(rows, i)
  <2>1. Paths(rows)[k] \in Seq(Nat) /\ Len(Paths(rows)[k]) = Depth(rows, k) + 1
    BY PathLengths
  <2>2. Len(Paths(rows)[k]) > Len(p)
    BY <1>5, <1>6, <2>1
  <2>3. Depth(rows, k) \in Nat /\ Depth(rows, i) \in Nat
    <3>1. Len(rows) \in Nat
      BY DEF IsWalk, IsSource
    <3>2. Depth(rows, k) \in 0 .. Len(rows) /\ Depth(rows, i) \in 0 .. Len(rows)
      BY DepthIs
    <3> QED BY <3>1, <3>2
  <2> QED BY <1>2, <1>3, <2>1, <2>2, <2>3
<1> QED BY <1>4, <1>6 DEF p, q, up

\* So a row's parent, derived from the levels, is the row its PARENT names.
LEMMA WalkParents ==
  ASSUME NULL \notin Int, NEW decl, NEW rows, IsWalk(rows), ~ LevelBasis(decl), NEW i \in DOMAIN rows,
         Stepwise(LevelsAt(decl, rows, rows[i].root), Cardinality(In(rows, rows[i].root)))
  PROVE  DerivedParent(LevelsAt(decl, rows, rows[i].root), Ranked(decl, rows)[i]) =
           IF rows[i].parent = NULL THEN NULL ELSE Ranked(decl, rows)[Least(ParentRows(rows, i))]
<1> DEFINE pre == Ranked(decl, rows)
<1> DEFINE path == Paths(rows)
<1> DEFINE S == In(rows, rows[i].root)
<1> DEFINE n == Cardinality(S)
<1> DEFINE levels == LevelsAt(decl, rows, rows[i].root)
<1> DEFINE up == Least(ParentRows(rows, i))
<1>1. /\ \A k \in S : pre[k] \in 0 .. n - 1
      /\ \A j, k \in S : pre[j] = pre[k] => j = k
      /\ \A k \in 0 .. n - 1 : \E j \in S : pre[j] = k
  BY WalkRanks DEF NumbersRows
<1>2. \A k \in S : k \in DOMAIN rows /\ rows[k].root = rows[i].root
  BY DEF In
<1>3. \A j, k \in S : pre[j] < pre[k] <=> Precedes(path[j], path[k])
  BY <1>2, WalkRanks
<1>4. \A k \in S : levels[pre[k]] = Depth(rows, k)
  <2>1. \A k \in DOMAIN rows : LevelIn(decl, rows, k) = Depth(rows, k)
    BY DEF LevelIn
  <2>2. \A k \in DOMAIN rows : LevelIn(decl, rows, k) \in Int \cup {NULL}
    BY <2>1, DepthIs
  <2>3. NumbersRows(pre, rows)
    BY WalkRanks
  <2>4. \A k \in S : levels[pre[k]] = LevelIn(decl, rows, k)
    BY <2>2, <2>3, LevelsAre DEF LevelsAt
  <2> QED BY <1>2, <2>1, <2>4
<1>5. i \in S /\ n \in Nat \ {0} /\ levels \in [0 .. n - 1 -> Nat]
  BY DEF In, Stepwise
<1>6. LET p == DerivedParent(levels, pre[i]) IN
      IF levels[pre[i]] = 0 THEN p = NULL
      ELSE /\ p \in 0 .. pre[i] - 1 /\ levels[p] = levels[pre[i]] - 1
           /\ \A k \in p + 1 .. pre[i] : levels[k] >= levels[pre[i]]
  BY <1>1, <1>5, ParentIs
<1>7. CASE rows[i].parent = NULL
  <2>1. Depth(rows, i) = 0
    BY <1>7, DepthIs
  <2> QED BY <1>4, <1>5, <1>6, <1>7, <2>1
<1>8. CASE rows[i].parent # NULL
  <2>1. up \in S /\ Depth(rows, i) = Depth(rows, up) + 1
    BY <1>8, DepthIs DEF In
  <2>2. /\ Precedes(path[up], path[i])
        /\ \A k \in DOMAIN rows : Precedes(path[up], path[k]) /\ (Precedes(path[k], path[i]) \/ path[k] = path[i])
                                  => Depth(rows, k) >= Depth(rows, i)
    BY <1>8, PathsAreAPreorder
  <2> HIDE DEF pre, path, S, n, levels, up
  <2>3. /\ pre[up] < pre[i] /\ pre[up] \in 0 .. n - 1 /\ pre[i] \in 0 .. n - 1
        /\ levels[pre[up]] = levels[pre[i]] - 1 /\ levels[pre[i]] \in Nat /\ levels[pre[up]] \in Nat
    BY <1>1, <1>3, <1>4, <1>5, <2>1, <2>2
  <2>4. ASSUME NEW m \in pre[up] + 1 .. pre[i] PROVE levels[m] >= levels[pre[i]]
    <3>1. m \in 0 .. n - 1 /\ pre[up] < m /\ (m < pre[i] \/ m = pre[i])
      <4>1. pre[up] \in Nat /\ pre[i] \in Nat /\ pre[i] <= n - 1 /\ n - 1 \in Int
        BY <1>5, <2>3
      <4> QED BY <4>1
    <3>2. PICK k \in S : pre[k] = m
      BY <1>1, <3>1
    <3>3. Precedes(path[up], path[k]) /\ (Precedes(path[k], path[i]) \/ k = i)
      BY <1>1, <1>3, <1>5, <2>1, <3>1, <3>2
    <3>4. Depth(rows, k) >= Depth(rows, i)
      BY <1>2, <2>2, <3>2, <3>3
    <3> QED BY <1>4, <1>5, <3>2, <3>4
  <2> DEFINE p == DerivedParent(levels, pre[i])
  <2>5. p \in 0 .. pre[i] - 1 /\ levels[p] = levels[pre[i]] - 1 /\ \A k \in p + 1 .. pre[i] : levels[k] >= levels[pre[i]]
    <3>1. levels[pre[i]] # 0
      BY <2>3
    <3> QED BY <1>6, <3>1
  <2> HIDE DEF p
  <2>6. ~ (p < pre[up])
    <3> SUFFICES ASSUME p < pre[up] PROVE FALSE
      OBVIOUS
    <3>1. pre[up] \in p + 1 .. pre[i]
      BY <1>5, <2>3, <2>5
    <3> QED BY <2>3, <2>5, <3>1
  <2>7. ~ (pre[up] < p)
    <3> SUFFICES ASSUME pre[up] < p PROVE FALSE
      OBVIOUS
    <3>1. p \in pre[up] + 1 .. pre[i]
      BY <1>5, <2>3, <2>5
    <3> QED BY <2>3, <2>4, <2>5, <3>1
  <2>8. p = pre[up]
    BY <1>5, <2>3, <2>5, <2>6, <2>7
  <2> QED BY <1>8, <2>8 DEF p, pre, up, levels
<1> QED BY <1>7, <1>8

\* What the checks leave on the parent basis.
LEMMA AcceptedWalk ==
  ASSUME NULL \notin Int, NEW decl, NEW rows, IsWalk(rows), ~ LevelBasis(decl),
         decl.parent \in BOOLEAN, decl.level \in BOOLEAN,
         \A root \in RootsOf(rows) : Stepwise(LevelsAt(decl, rows, root), Cardinality(In(rows, root))),
         \A slot \in Compared(decl) : ~ Disagrees(decl, rows, Projected(decl, rows), slot)
  PROVE  Acceptable(decl, rows)
<1>1. IsSource(rows) /\ NumbersRows(Ranked(decl, rows), rows)
  BY WalkRanks DEF IsWalk
<1>2. \A i \in DOMAIN rows : LevelIn(decl, rows, i) \in Int \cup {NULL}
  BY DepthIs DEF LevelIn
<1>3. \A j, k \in DOMAIN rows :
        rows[j].root = rows[k].root /\ NamedBy(decl, rows, j) = NamedBy(decl, rows, k) => j = k
  BY DEF NamedBy, IsWalk, KeyIsUnique
<1>4. ASSUME NEW i \in DOMAIN rows
      PROVE  ParentsAt(decl, rows, i) = {DerivedParent(LevelsAt(decl, rows, rows[i].root), Ranked(decl, rows)[i])}
  <2> DEFINE pre == Ranked(decl, rows)
  <2> DEFINE up == Least(ParentRows(rows, i))
  <2>1. DerivedParent(LevelsAt(decl, rows, rows[i].root), pre[i]) = IF rows[i].parent = NULL THEN NULL ELSE pre[up]
    <3>1. rows[i].root \in RootsOf(rows)
      BY DEF RootsOf
    <3> QED BY <3>1, WalkParents
  <2>2. DOMAIN pre = DOMAIN rows
    BY <1>1 DEF NumbersRows
  <2>3. ParentsAt(decl, rows, i) = LeftJoin({pre[j] : j \in ParentRows(rows, i) \cap DOMAIN pre})
    BY DEF ParentsAt, ParentsServed
  <2>4. CASE rows[i].parent = NULL
    <3>1. ParentRows(rows, i) = {}
      BY <2>4, OneParentRow DEF IsWalk
    <3> QED BY <2>1, <2>3, <2>4, <3>1 DEF LeftJoin
  <2>5. CASE rows[i].parent # NULL
    <3>1. ParentRows(rows, i) = {up} /\ up \in DOMAIN rows
      BY <2>5, DepthIs
    <3> HIDE DEF up, pre
    <3>2. {pre[j] : j \in ParentRows(rows, i) \cap DOMAIN pre} = {pre[up]}
      BY <2>2, <3>1
    <3>3. LeftJoin({pre[up]}) = {pre[up]}
      BY DEF LeftJoin
    <3> QED BY <2>1, <2>3, <2>5, <3>2, <3>3 DEF pre, up
  <2> QED BY <2>4, <2>5
<1> QED BY <1>1, <1>2, <1>3, <1>4 DEF Acceptable

=============================================================================
