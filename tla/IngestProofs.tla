---------------------------- MODULE IngestProofs ----------------------------
(***************************************************************************)
(* What is proved of the ingest of a source, for sources of every length.  *)
(***************************************************************************)
EXTENDS TreeIngest, EncodingLemmas

-----------------------------------------------------------------------------
(* P13 lets through exactly the levels of forests.                         *)

\* The path from j up, as OnPath defines it.
Up(par) ==
  CHOOSE up : up = [j \in {NULL} \cup DOMAIN par |-> IF j = NULL THEN {NULL} ELSE {j} \cup up[par[j]]]

LEMMA OnPathIs ==
  ASSUME NEW par, NEW i
  PROVE  OnPath(par, i) = IF i = 0 THEN {NULL} ELSE Up(par)[i - 1]
BY DEF OnPath, Up

\* Up is well defined: j's path is the least set that holds j and, with a row, what
\* the row hangs off.
LEMMA UpIs ==
  ASSUME NEW par, NULL \notin DOMAIN par, \A j \in DOMAIN par : par[j] \in {NULL} \cup DOMAIN par
  PROVE  /\ Up(par)[NULL] = {NULL}
         /\ \A j \in DOMAIN par : Up(par)[j] = {j} \cup Up(par)[par[j]]
<1> DEFINE D == {NULL} \cup DOMAIN par
<1> DEFINE closed(T) == \A x \in T \ {NULL} : par[x] \in T
<1> DEFINE least(j) == {x \in D : \A T \in SUBSET D : j \in T /\ closed(T) => x \in T}
<1> DEFINE up == [j \in D |-> least(j)]
<1>1. least(NULL) = {NULL}
  <2>1. {NULL} \in SUBSET D /\ closed({NULL})
    OBVIOUS
  <2> QED BY <2>1
<1>2. ASSUME NEW j \in DOMAIN par PROVE least(j) = {j} \cup least(par[j])
  <2>1. ASSUME NEW x \in least(j) PROVE x \in {j} \cup least(par[j])
    <3>1. SUFFICES ASSUME x # j, NEW T \in SUBSET D, par[j] \in T, closed(T) PROVE x \in T
      BY <2>1
    <3>2. {j} \cup T \in SUBSET D /\ closed({j} \cup T)
      BY <3>1
    <3> QED BY <2>1, <3>1, <3>2
  <2>2. ASSUME NEW x \in {j} \cup least(par[j]) PROVE x \in least(j)
    <3>1. x \in D
      BY <2>2
    <3>2. SUFFICES ASSUME NEW T \in SUBSET D, j \in T, closed(T) PROVE x \in T
      BY <3>1
    <3>3. par[j] \in T
      BY <3>2
    <3> QED BY <2>2, <3>2, <3>3
  <2> QED BY <2>1, <2>2
<1>3. up = [j \in D |-> IF j = NULL THEN {NULL} ELSE {j} \cup up[par[j]]]
  <2> SUFFICES ASSUME NEW j \in D PROVE up[j] = IF j = NULL THEN {NULL} ELSE {j} \cup up[par[j]]
    <3> HIDE DEF up
    <3> QED BY DEF up
  <2> HIDE DEF least
  <2> QED BY <1>1, <1>2
<1>4. Up(par) = [j \in D |-> IF j = NULL THEN {NULL} ELSE {j} \cup Up(par)[par[j]]]
  <2> HIDE DEF up
  <2> QED BY <1>3 DEF Up
<1> HIDE DEF D
<1> QED BY <1>4 DEF D

\* Every row no deeper than the rows that follow it up to j is on j's path.
LEMMA PathHolds ==
  ASSUME NULL \notin Int, NEW n, NEW levels, Stepwise(levels, n)
  PROVE  LET par == [i \in 0 .. n - 1 |-> DerivedParent(levels, i)] IN
         \A j \in 0 .. n - 1 :
           /\ NULL \in Up(par)[j]
           /\ \A k \in 0 .. j : (\A m \in k + 1 .. j : levels[m] > levels[k]) => k \in Up(par)[j]
<1> n \in Nat \ {0}
  BY DEF Stepwise
<1> DEFINE par == [i \in 0 .. n - 1 |-> DerivedParent(levels, i)]
<1> DEFINE above(k, j) == \A m \in k + 1 .. j : levels[m] > levels[k]
<1> DEFINE Bad == {j \in 0 .. n - 1 : ~ (NULL \in Up(par)[j] /\ \A k \in 0 .. j : above(k, j) => k \in Up(par)[j])}
<1>1. ASSUME NEW i \in 0 .. n - 1
      PROVE  IF levels[i] = 0 THEN par[i] = NULL
             ELSE /\ par[i] \in 0 .. i - 1 /\ levels[par[i]] = levels[i] - 1
                  /\ \A k \in par[i] + 1 .. i : levels[k] >= levels[i]
  BY ParentIs
<1> HIDE DEF par
<1>2. DOMAIN par = 0 .. n - 1
  BY DEF par
<1>3. /\ Up(par)[NULL] = {NULL}
      /\ \A j \in 0 .. n - 1 : Up(par)[j] = {j} \cup Up(par)[par[j]]
  <2>1. NULL \notin DOMAIN par /\ \A j \in DOMAIN par : par[j] \in {NULL} \cup DOMAIN par
    <3>1. \A j \in 0 .. n - 1 : par[j] = NULL \/ par[j] \in 0 .. j - 1
      BY <1>1
    <3> QED BY <1>2, <3>1
  <2> QED BY <1>2, <2>1, UpIs
<1>4. SUFFICES ASSUME Bad # {} PROVE FALSE
  BY DEF par
<1>5. PICK j \in Bad : \A m \in Bad : j <= m
  <2>1. Bad \in SUBSET Nat
    OBVIOUS
  <2> HIDE DEF Bad
  <2> QED BY <1>4, <2>1, LeastNat
<1>6. \A m \in 0 .. j - 1 : m \notin Bad
  <2> j \in Nat
    OBVIOUS
  <2> HIDE DEF Bad
  <2> QED BY <1>5
<1>7. levels \in [0 .. n - 1 -> Nat] /\ j \in 0 .. n - 1
  BY DEF Stepwise
<1>8. CASE levels[j] = 0
  <2>1. Up(par)[j] = {j, NULL}
    BY <1>1, <1>3, <1>7, <1>8
  <2>2. ASSUME NEW k \in 0 .. j, above(k, j) PROVE k = j
    <3> SUFFICES ASSUME k < j PROVE FALSE
      BY <1>7
    <3>1. j \in k + 1 .. j /\ k \in 0 .. n - 1
      BY <1>7
    <3> QED BY <1>7, <1>8, <2>2, <3>1
  <2> QED BY <2>1, <2>2
<1>9. CASE levels[j] # 0
  <2>1. /\ par[j] \in 0 .. j - 1 /\ levels[par[j]] = levels[j] - 1
        /\ \A k \in par[j] + 1 .. j : levels[k] >= levels[j]
    BY <1>1, <1>7, <1>9
  <2>2. Up(par)[j] = {j} \cup Up(par)[par[j]]
    BY <1>3, <1>7
  <2>3. par[j] \notin Bad /\ par[j] \in 0 .. n - 1
    <3> HIDE DEF Bad
    <3> QED BY <1>6, <1>7, <2>1
  <2>4. NULL \in Up(par)[par[j]] /\ \A k \in 0 .. par[j] : above(k, par[j]) => k \in Up(par)[par[j]]
    BY <2>3
  <2>5. ASSUME NEW k \in 0 .. j, above(k, j), k # j PROVE k \in 0 .. par[j] /\ above(k, par[j])
    <3>1. j \in k + 1 .. j /\ k \in 0 .. n - 1
      BY <1>7, <2>5
    <3>2. levels[j] > levels[k] /\ levels[k] \in Nat /\ levels[j] \in Nat
      BY <1>7, <2>5, <3>1
    <3>3. k \notin par[j] + 1 .. j
      BY <2>1, <3>2
    <3>4. k \in 0 .. par[j]
      BY <1>7, <2>1, <3>3
    <3>5. \A m \in k + 1 .. par[j] : m \in k + 1 .. j
      BY <1>7, <2>1
    <3> QED BY <2>5, <3>4, <3>5
  <2> QED BY <2>2, <2>4, <2>5
<1> QED BY <1>8, <1>9

\* A row's derived parent is on the path of the row before it.
LEMMA StepwiseIsForest ==
  ASSUME NULL \notin Int, NEW n, NEW levels, Stepwise(levels, n)
  PROVE  IsForest(levels)
<1> n \in Nat \ {0}
  BY DEF Stepwise
<1> DEFINE par == [i \in 0 .. n - 1 |-> DerivedParent(levels, i)]
<1>1. levels \in [0 .. n - 1 -> Nat] /\ levels[0] = 0
  BY DEF Stepwise
<1>2. ASSUME NEW i \in 0 .. n - 1
      PROVE  IF levels[i] = 0 THEN par[i] = NULL
             ELSE /\ par[i] \in 0 .. i - 1 /\ levels[par[i]] = levels[i] - 1
                  /\ \A k \in par[i] + 1 .. i : levels[k] >= levels[i]
  BY ParentIs
<1>3. \A j \in 0 .. n - 1 :
        /\ NULL \in Up(par)[j]
        /\ \A k \in 0 .. j : (\A m \in k + 1 .. j : levels[m] > levels[k]) => k \in Up(par)[j]
  BY PathHolds
<1> HIDE DEF par
<1>4. par \in [0 .. n - 1 -> {NULL} \cup 0 .. n - 1]
  <2>1. \A i \in 0 .. n - 1 : par[i] \in {NULL} \cup 0 .. n - 1
    <3> TAKE i \in 0 .. n - 1
    <3>1. par[i] = NULL \/ par[i] \in 0 .. i - 1
      BY <1>2
    <3> QED BY <3>1
  <2> QED BY <2>1 DEF par
<1>5. \A i \in 0 .. n - 1 : par[i] = NULL \/ par[i] < i
  BY <1>2
<1>6. \A i \in 0 .. n - 1 : levels[i] = IF par[i] = NULL THEN 0 ELSE levels[par[i]] + 1
  <2> TAKE i \in 0 .. n - 1
  <2>1. CASE levels[i] = 0
    BY <1>2, <2>1
  <2>2. CASE levels[i] # 0
    <3>1. par[i] \in 0 .. i - 1 /\ levels[par[i]] = levels[i] - 1
      BY <1>2, <2>2
    <3> QED BY <1>1, <3>1
  <2> QED BY <2>1, <2>2
<1>7. ASSUME NEW i \in 0 .. n - 1 PROVE par[i] \in OnPath(par, i)
  <2>1. CASE i = 0
    BY <1>1, <1>2, <2>1, OnPathIs
  <2>2. CASE i # 0
    <3>1. i - 1 \in 0 .. n - 1 /\ OnPath(par, i) = Up(par)[i - 1]
      BY <2>2, OnPathIs
    <3>2. CASE levels[i] = 0
      BY <1>2, <1>3, <3>1, <3>2
    <3>3. CASE levels[i] # 0
      <4>1. /\ par[i] \in 0 .. i - 1 /\ levels[par[i]] = levels[i] - 1
            /\ \A k \in par[i] + 1 .. i : levels[k] >= levels[i]
        BY <1>2, <3>3
      <4>2. \A m \in par[i] + 1 .. i - 1 : levels[m] > levels[par[i]]
        <5> TAKE m \in par[i] + 1 .. i - 1
        <5>1. m \in par[i] + 1 .. i /\ m \in 0 .. n - 1
          BY <4>1
        <5> QED BY <1>1, <4>1, <5>1
      <4> QED BY <1>3, <3>1, <4>1, <4>2
    <3> QED BY <3>2, <3>3
  <2> QED BY <2>1, <2>2
<1> QED BY <1>1, <1>4, <1>5, <1>6, <1>7 DEF IsForest

\* And a forest in preorder has such levels.
LEMMA ForestIsStepwise ==
  ASSUME NULL \notin Int, NEW n \in Nat \ {0}, NEW levels,
         levels = [i \in 0 .. n - 1 |-> levels[i]], IsForest(levels)
  PROVE  Stepwise(levels, n)
<1>1. PICK par \in [0 .. n - 1 -> {NULL} \cup 0 .. n - 1] :
        /\ \A i \in 0 .. n - 1 : par[i] = NULL \/ par[i] < i
        /\ \A i \in 0 .. n - 1 : par[i] \in OnPath(par, i)
        /\ \A i \in 0 .. n - 1 : levels[i] = IF par[i] = NULL THEN 0 ELSE levels[par[i]] + 1
  BY DEF IsForest
<1>2. /\ Up(par)[NULL] = {NULL}
      /\ \A j \in 0 .. n - 1 : Up(par)[j] = {j} \cup Up(par)[par[j]]
  <2>1. DOMAIN par = 0 .. n - 1 /\ NULL \notin DOMAIN par /\ \A j \in DOMAIN par : par[j] \in {NULL} \cup DOMAIN par
    OBVIOUS
  <2> QED BY <2>1, UpIs
<1>3. \A i \in 0 .. n - 1 : levels[i] \in Nat
  <2> DEFINE Bad == {i \in 0 .. n - 1 : levels[i] \notin Nat}
  <2>1. SUFFICES ASSUME Bad # {} PROVE FALSE
    OBVIOUS
  <2>2. PICK i \in Bad : \A m \in Bad : i <= m
    <3>1. Bad \in SUBSET Nat
      OBVIOUS
    <3> HIDE DEF Bad
    <3> QED BY <2>1, <3>1, LeastNat
  <2>3. par[i] # NULL /\ par[i] < i /\ par[i] \in 0 .. n - 1 /\ levels[i] = levels[par[i]] + 1
    BY <1>1, <2>2
  <2>4. par[i] \notin Bad
    <3>1. i \in 0 .. n - 1
      BY <2>2
    <3> HIDE DEF Bad
    <3> QED BY <2>2, <2>3, <3>1
  <2> QED BY <2>2, <2>3, <2>4
<1>4. \A j \in 0 .. n - 1 : \A k \in Up(par)[j] : k = NULL \/ (k \in 0 .. n - 1 /\ levels[k] <= levels[j])
  <2> DEFINE ok(j) == \A k \in Up(par)[j] : k = NULL \/ (k \in 0 .. n - 1 /\ levels[k] <= levels[j])
  <2> DEFINE Bad == {j \in 0 .. n - 1 : ~ ok(j)}
  <2>1. SUFFICES ASSUME Bad # {} PROVE FALSE
    OBVIOUS
  <2>2. PICK j \in Bad : \A m \in Bad : j <= m
    <3>1. Bad \in SUBSET Nat
      OBVIOUS
    <3> HIDE DEF Bad
    <3> QED BY <2>1, <3>1, LeastNat
  <2>3. j \in 0 .. n - 1 /\ Up(par)[j] = {j} \cup Up(par)[par[j]]
    BY <1>2, <2>2
  <2>4. CASE par[j] = NULL
    BY <1>2, <1>3, <2>2, <2>3, <2>4
  <2>5. CASE par[j] # NULL
    <3>1. par[j] < j /\ par[j] \in 0 .. n - 1 /\ levels[j] = levels[par[j]] + 1
      BY <1>1, <2>3, <2>5
    <3>2. par[j] \notin Bad
      <4> HIDE DEF Bad
      <4> QED BY <2>2, <2>3, <3>1
    <3>3. ok(par[j])
      BY <3>1, <3>2
    <3>4. levels[j] \in Nat /\ levels[par[j]] \in Nat
      BY <1>3, <2>3, <3>1
    <3>5. ok(j)
      <4> SUFFICES ASSUME NEW k \in Up(par)[j], k # NULL, k # j PROVE k \in 0 .. n - 1 /\ levels[k] <= levels[j]
        <5>1. j \in 0 .. n - 1 /\ levels[j] <= levels[j]
          BY <2>3, <3>4
        <5> HIDE DEF Bad
        <5> QED BY <5>1
      <4>1. k \in 0 .. n - 1 /\ levels[k] <= levels[par[j]]
        BY <2>3, <3>3
      <4>2. levels[k] \in Nat
        BY <1>3, <4>1
      <4> QED BY <3>1, <3>4, <4>1, <4>2
    <3> QED BY <2>2, <3>5
  <2> QED BY <2>4, <2>5
<1>5. levels[0] = 0
  <2>1. 0 \in 0 .. n - 1 /\ OnPath(par, 0) = {NULL}
    BY OnPathIs
  <2> QED BY <1>1, <2>1
<1>6. ASSUME NEW i \in 1 .. n - 1 PROVE levels[i] <= levels[i - 1] + 1
  <2>1. i \in 0 .. n - 1 /\ i - 1 \in 0 .. n - 1 /\ par[i] \in Up(par)[i - 1]
    BY <1>1, <1>6, OnPathIs
  <2>2. levels[i] \in Nat /\ levels[i - 1] \in Nat
    BY <1>3, <2>1
  <2>3. CASE par[i] = NULL
    <3>1. levels[i] = 0
      BY <1>1, <2>1, <2>3
    <3> QED BY <2>2, <3>1
  <2>4. CASE par[i] # NULL
    <3>1. par[i] \in 0 .. n - 1 /\ levels[par[i]] <= levels[i - 1] /\ levels[i] = levels[par[i]] + 1
      BY <1>1, <1>4, <2>1, <2>4
    <3>2. levels[par[i]] \in Nat
      BY <1>3, <3>1
    <3> QED BY <2>2, <3>1, <3>2
  <2> QED BY <2>3, <2>4
<1>7. levels \in [0 .. n - 1 -> Nat]
  BY <1>3
<1> QED BY <1>5, <1>6, <1>7 DEF Stepwise

\* P13 raises on every other sequence of levels, NULLs and negative ones included.
LEMMA P13Is ==
  ASSUME NULL \notin Int, NEW n \in Nat \ {0}, NEW levels \in [0 .. n - 1 -> Int \cup {NULL}]
  PROVE  P13Raises(levels) <=> ~ Stepwise(levels, n)
<1>1. ASSUME Stepwise(levels, n), NEW i \in 0 .. n - 1
      PROVE  ~ (levels[i] = NULL \/ levels[i] < 0 \/ BreaksP13(levels, i))
  <2>1. levels[i] \in Nat /\ levels[i] # NULL /\ (i = 0 => levels[i] = 0)
    BY <1>1 DEF Stepwise
  <2>2. CASE i = 0
    BY <2>1, <2>2 DEF BreaksP13, Descent
  <2>3. CASE i # 0
    <3>1. i - 1 \in 0 .. n - 1 /\ i \in 1 .. n - 1
      BY <2>3
    <3>2. levels[i - 1] \in Nat /\ levels[i] <= levels[i - 1] + 1
      BY <1>1, <3>1 DEF Stepwise
    <3>3. Descent(levels, i) = levels[i] - levels[i - 1]
      BY <2>1, <2>3, <3>2 DEF Descent
    <3> QED BY <2>1, <2>3, <3>2, <3>3 DEF BreaksP13
  <2> QED BY <2>2, <2>3
<1>2. ASSUME ~ P13Raises(levels) PROVE Stepwise(levels, n)
  <2>1. \A i \in 0 .. n - 1 : levels[i] # NULL /\ ~ (levels[i] < 0) /\ ~ BreaksP13(levels, i)
    BY <1>2 DEF P13Raises
  <2>2. \A i \in 0 .. n - 1 : levels[i] \in Nat
    <3> TAKE i \in 0 .. n - 1
    <3>1. levels[i] \in Int
      BY <2>1
    <3> QED BY <2>1, <3>1
  <2>3. levels[0] = 0
    <3>1. 0 \in 0 .. n - 1
      OBVIOUS
    <3> QED BY <2>1, <3>1 DEF BreaksP13
  <2>4. ASSUME NEW i \in 1 .. n - 1 PROVE levels[i] <= levels[i - 1] + 1
    <3>1. i \in 0 .. n - 1 /\ i - 1 \in 0 .. n - 1 /\ i # 0
      OBVIOUS
    <3>2. levels[i] \in Nat /\ levels[i - 1] \in Nat
      BY <2>2, <3>1
    <3>3. Descent(levels, i) = levels[i] - levels[i - 1]
      BY <3>1, <3>2 DEF Descent
    <3>4. ~ (levels[i] - levels[i - 1] > 1)
      BY <2>1, <3>1, <3>2, <3>3 DEF BreaksP13
    <3> QED BY <3>2, <3>4
  <2>5. levels \in [0 .. n - 1 -> Nat]
    BY <2>2
  <2> QED BY <2>3, <2>4, <2>5 DEF Stepwise
<1> QED BY <1>1, <1>2 DEF P13Raises

-----------------------------------------------------------------------------
(* The specification: what a verdict is a verdict on.                      *)

\* An ingest is judged on the source as it stands and stores the projection of what
\* it lets through; nothing changes afterwards.
IngestInv ==
  /\ shape \in Shapes
  /\ src \in Seq(SourceRows[shape]) /\ Len(src) <= MaxRows[shape]
  /\ verdict = "none" => stored = {}
  /\ verdict # "none" =>
       /\ src # <<>> /\ verdict = Verdict(shape, src)
       /\ stored = IF verdict = "stored" THEN Projected(shape, src) ELSE {}

LEMMA IngestInvHolds == Spec => []IngestInv
<1>1. Init => IngestInv
  <2> SUFFICES ASSUME Init PROVE IngestInv
    OBVIOUS
  <2>1. MaxRows[shape] \in Nat
    BY RowsAssumption DEF Init
  <2> QED BY <2>1 DEF Init, IngestInv
<1>2. IngestInv /\ [Next]_vars => IngestInv'
  <2> SUFFICES ASSUME IngestInv, [Next]_vars PROVE IngestInv'
    OBVIOUS
  <2>1. CASE AddRow
    <3>1. PICK r \in SourceRows[shape] : src' = Append(src, r)
      BY <2>1 DEF AddRow
    <3>2. MaxRows[shape] \in Nat
      BY RowsAssumption DEF IngestInv
    <3>3. src' \in Seq(SourceRows[shape]) /\ Len(src') <= MaxRows[shape]
      BY <2>1, <3>1, <3>2 DEF AddRow, IngestInv
    <3> QED BY <2>1, <3>3 DEF AddRow, IngestInv
  <2>2. CASE Ingest
    BY <2>2 DEF Ingest, IngestInv
  <2>3. CASE UNCHANGED vars
    BY <2>3 DEF vars, IngestInv
  <2> QED BY <2>1, <2>2, <2>3 DEF Next
<1> QED BY <1>1, <1>2, PTL DEF Spec

\* The sources of the specification are sources.
LEMMA SrcIsSource ==
  ASSUME IngestInv
  PROVE  /\ IsSource(src)
         /\ shape.level \in BOOLEAN /\ shape.parent \in BOOLEAN /\ shape.order \in BOOLEAN
         /\ shape.key \in BOOLEAN /\ shape.readable \in BOOLEAN
         /\ shape.over \subseteq {"SIZE", "CHILDREN", "NEXT"}
         /\ LevelBasis(shape) \/ shape.key
<1>1. DOMAIN src = 1 .. Len(src) /\ Len(src) \in Nat /\ \A i \in DOMAIN src : src[i] \in SourceRows[shape]
  BY DEF IngestInv
<1>2. shape \in Shapes
  BY DEF IngestInv
<1>3. IsSource(src)
  BY <1>1, <1>2, RowsAssumption DEF IsSource
<1>4. shape \in [level : BOOLEAN, parent : BOOLEAN, order : BOOLEAN, key : BOOLEAN,
                 over : SUBSET {"SIZE", "CHILDREN", "NEXT"}, readable : BOOLEAN]
  BY <1>2, ShapesAssumption
<1>5. LevelBasis(shape) \/ shape.key
  BY <1>2, ShapesAssumption
<1> QED BY <1>3, <1>4, <1>5

LEMMA StoredAreRows ==
  ASSUME IngestInv, NEW r \in stored
  PROVE  r.row \in DOMAIN src
<1>1. r \in Projected(shape, src)
  BY DEF IngestInv
<1>2. PICK x \in Sized(shape, src) : r.row = x.row
  BY <1>1, ProjectedHas
<1>3. DOMAIN Ranked(shape, src) \subseteq DOMAIN src
  BY SrcIsSource, WalkedAreRows DEF Ranked
<1>4. x.row \in DOMAIN Ranked(shape, src)
  BY <1>3, SizedHas DEF SizedRow
<1> QED BY <1>2, <1>3, <1>4

\* Following _parent upwards reaches a row from exactly the _size rows behind it.
LEMMA BelowIs ==
  ASSUME NEW a \in stored, NEW levels, NEW n, Encodes(stored, a.root, levels, n)
  PROVE  Below(a) = {r \in Stored(a.root) : r.pre \in a.pre + 1 .. a.pre + a.size}
<1> DEFINE own == Stored(a.root)
<1> DEFINE N == Cardinality(own)
<1> DEFINE under(T) == {r \in own : \E q \in T : r.parent = q.pre}
<1> DEFINE X == SUBSET own
<1> DEFINE step == [T \in X |-> under(T)]
<1> DEFINE reach == CHOOSE f : f = [d \in 0 .. N |-> IF d = 0 THEN {a} ELSE under(f[d - 1])]
<1> DEFINE interval == {r \in own : r.pre \in a.pre + 1 .. a.pre + a.size}
<1>1. Below(a) = UNION {reach[d] : d \in 1 .. N}
  BY DEF Below
<1>2. /\ Stepwise(levels, n) /\ n \in Nat \ {0} /\ {q.pre : q \in own} = 0 .. n - 1
      /\ \A r, q \in own : r.pre = q.pre => r = q
      /\ \A q \in own : q.parent = DerivedParent(levels, q.pre) /\ q.size = DerivedSize(levels, q.pre)
  BY DEF Encodes, Stored, Stepwise
<1>3. a \in own /\ a.pre \in 0 .. n - 1 /\ a.size = DerivedSize(levels, a.pre)
  BY <1>2 DEF Stored
<1>4. N = n
  <2>1. own = {r \in own : r.pre \in 0 .. n - 1}
    BY <1>2
  <2> DEFINE T == 0 .. n - 1
  <2>2. T \in SUBSET (0 .. n - 1)
    OBVIOUS
  <2>3. Cardinality({r \in own : r.pre \in T}) = Cardinality(T)
    <3> HIDE DEF T, own
    <3> QED BY <1>2, <2>2, CountByPosition
  <2>4. Cardinality(T) = n
    BY <1>2, FS_Interval
  <2> QED BY <2>1, <2>3, <2>4
<1>5. reach[0] = {a} /\ \A d \in 1 .. n : reach[d] = under(reach[d - 1]) /\ reach[d] \subseteq own
  <2>1. \E f : Repeats(f, X, {a}, step, n)
    <3>1. {a} \in X /\ step \in [X -> X]
      BY <1>3
    <3> DEFINE top == {a}
    <3>2. \E f : Repeats(f, X, top, step, n)
      <4> HIDE DEF X, step, top
      <4> QED BY <1>2, <3>1, Iterates DEF top
    <3> QED BY <3>2
  <2>2. PICK f : f \in [0 .. n -> X] /\ f[0] = {a} /\ \A d \in 1 .. n : f[d] = step[f[d - 1]]
    BY <2>1 DEF Repeats
  <2>3. ASSUME NEW d \in 1 .. n PROVE f[d] = under(f[d - 1])
    <3>1. d - 1 \in 0 .. n
      BY <1>2
    <3>2. f[d - 1] \in X
      <4> HIDE DEF X
      <4> QED BY <2>2, <3>1
    <3> QED BY <2>2, <3>2
  <2>4. \A d \in 0 .. n : d = 0 \/ d \in 1 .. n
    OBVIOUS
  <2>5. f = [d \in 0 .. n |-> IF d = 0 THEN {a} ELSE under(f[d - 1])]
    <3> HIDE DEF under, X, step
    <3> QED BY <2>2, <2>3, <2>4
  <2>6. reach = [d \in 0 .. n |-> IF d = 0 THEN {a} ELSE under(reach[d - 1])]
    <3> HIDE DEF under, N
    <3> QED BY <1>4, <2>5
  <2> HIDE DEF reach
  <2>7. reach[0] = {a} /\ \A d \in 1 .. n : reach[d] = under(reach[d - 1])
    <3>1. 0 \in 0 .. n /\ \A d \in 1 .. n : d \in 0 .. n /\ d # 0
      BY <1>2
    <3> HIDE DEF under
    <3> QED BY <2>6, <3>1
  <2> QED BY <2>7
<1>6. \A r, q \in own :
        /\ q.pre \in a.pre .. a.pre + a.size /\ r.parent = q.pre => r.pre \in a.pre + 1 .. a.pre + a.size
        /\ r.pre \in a.pre + 1 .. a.pre + a.size =>
             /\ r.parent \in a.pre .. a.pre + a.size /\ r.parent < r.pre
             /\ levels[r.parent] = levels[r.pre] - 1 /\ levels[r.pre] > levels[a.pre]
  <2>1. \A r \in own : r.pre \in 0 .. n - 1 /\ r.parent = DerivedParent(levels, r.pre)
    BY <1>2
  <2> HIDE DEF own
  <2> QED BY <1>2, <1>3, <2>1, IntervalIsClosed, NullAssumption
<1>7. a.size \in 0 .. n - 1 - a.pre /\ \A k \in 0 .. n - 1 : levels[k] \in Nat /\ levels[k] <= k
  <2>1. a.size \in 0 .. n - 1 - a.pre
    BY <1>2, <1>3, SizeIs
  <2>2. \A k \in 0 .. n - 1 : levels[k] \in Nat /\ levels[k] <= k
    BY <1>2, DeepestIs DEF Stepwise
  <2> QED BY <2>1, <2>2
<1>8. ASSUME NEW d \in 1 .. n PROVE reach[d] \subseteq interval
  <2> DEFINE Bad == {e \in 1 .. n : ~ (reach[e] \subseteq interval)}
  <2>1. SUFFICES ASSUME Bad # {} PROVE FALSE
    OBVIOUS
  <2>2. PICK e \in Bad : \A m \in Bad : e <= m
    <3>1. Bad \in SUBSET Nat
      BY <1>2
    <3> HIDE DEF Bad
    <3> QED BY <2>1, <3>1, LeastNat
  <2> HIDE DEF reach
  <2>3. e \in 1 .. n /\ reach[e] = under(reach[e - 1]) /\ ~ (reach[e] \subseteq interval)
    BY <1>5, <2>2
  <2>4. \A q \in reach[e - 1] : q \in own /\ q.pre \in a.pre .. a.pre + a.size
    <3>1. CASE e = 1
      BY <1>3, <1>5, <1>7, <3>1
    <3>2. CASE e # 1
      <4>1. e - 1 \in 1 .. n /\ e - 1 \notin Bad
        <5>1. e - 1 \in 1 .. n /\ e \in Nat /\ e - 1 \in Nat /\ e - 1 < e
          BY <1>2, <2>3, <3>2
        <5>2. ~ (e <= e - 1)
          BY <5>1
        <5> HIDE DEF Bad
        <5> QED BY <2>2, <5>1, <5>2
      <4>2. reach[e - 1] \subseteq interval
        BY <4>1
      <4>3. a.pre + 1 .. a.pre + a.size \subseteq a.pre .. a.pre + a.size
        BY <1>3, <1>7
      <4> QED BY <4>2, <4>3
    <3> QED BY <3>1, <3>2
  <2> QED BY <1>6, <2>3, <2>4
<1>9. ASSUME NEW r \in interval PROVE \E d \in 1 .. n : r \in reach[d]
  <2> DEFINE reached(q) == LET d == levels[q.pre] - levels[a.pre] IN d \in 1 .. n /\ q \in reach[d]
  <2> DEFINE Bad == {k \in 0 .. n - 1 : \E q \in interval : q.pre = k /\ ~ reached(q)}
  <2>1. SUFFICES ASSUME Bad # {} PROVE FALSE
    <3>1. r.pre \in 0 .. n - 1
      BY <1>2
    <3> HIDE DEF reach
    <3> QED BY <3>1
  <2>2. PICK k \in Bad : \A m \in Bad : k <= m
    <3>1. Bad \in SUBSET Nat
      BY <1>2
    <3> HIDE DEF Bad
    <3> QED BY <2>1, <3>1, LeastNat
  <2> HIDE DEF reach
  <2>3. PICK q \in interval : q.pre = k /\ ~ reached(q)
    BY <2>2
  <2> DEFINE d == levels[q.pre] - levels[a.pre]
  <2>4. /\ q \in own /\ q.pre \in 0 .. n - 1 /\ q.parent \in a.pre .. a.pre + a.size /\ q.parent < q.pre
        /\ levels[q.parent] = levels[q.pre] - 1 /\ levels[q.pre] > levels[a.pre]
    BY <1>2, <1>6
  <2>5. d \in 1 .. n /\ levels[q.pre] \in Nat /\ levels[a.pre] \in Nat
    BY <1>2, <1>3, <1>7, <2>4
  <2>6. CASE q.parent = a.pre
    <3>1. d = 1
      BY <2>4, <2>5, <2>6
    <3>2. q \in under({a})
      BY <2>4, <2>6
    <3> HIDE DEF d
    <3> QED BY <1>5, <2>3, <2>5, <3>1, <3>2 DEF d
  <2>7. CASE q.parent # a.pre
    <3>1. q.parent \in 0 .. n - 1 /\ q.parent \in a.pre + 1 .. a.pre + a.size
      <4>1. a.pre \in 0 .. n - 1 /\ n \in Nat /\ a.size \in 0 .. n - 1 - a.pre /\ q.parent \in a.pre .. a.pre + a.size
        BY <1>2, <1>3, <1>7, <2>4
      <4> QED BY <2>7, <4>1
    <3>2. PICK p \in own : p.pre = q.parent
      BY <1>2, <3>1
    <3>3. p \in interval
      BY <3>1, <3>2
    <3>4. q.parent \notin Bad
      <4>1. q.parent < k /\ k \in Nat
        BY <1>2, <2>2, <2>3, <2>4
      <4> HIDE DEF Bad
      <4> QED BY <2>2, <3>1, <4>1
    <3>5. reached(p)
      <4> HIDE DEF interval
      <4> QED BY <3>1, <3>2, <3>3, <3>4
    <3>6. levels[p.pre] - levels[a.pre] = d - 1 /\ d - 1 \in 1 .. n
      BY <2>4, <2>5, <3>2, <3>5
    <3>7. p \in reach[d - 1]
      <4> HIDE DEF d
      <4> QED BY <3>5, <3>6
    <3>8. q \in reach[d]
      <4>1. reach[d] = under(reach[d - 1])
        <5> HIDE DEF d, under
        <5> QED BY <1>5, <2>5
      <4> HIDE DEF d
      <4> QED BY <2>4, <3>2, <3>7, <4>1
    <3> QED BY <2>3, <2>5, <3>8
  <2> QED BY <2>6, <2>7
<1> HIDE DEF reach, interval
<1> QED BY <1>1, <1>4, <1>8, <1>9 DEF interval

\* Every source the model builds is within its bound and its rows are of its
\* declaration; what is stored was let through, and stands for rows of the source.
THEOREM IngestTypes == Spec => []TypeOK
<1>1. ASSUME IngestInv PROVE TypeOK
  <2>1. verdict \in {"none", "order", "key", "reach", "p13", "conform", "stored"}
    BY <1>1 DEF IngestInv, Verdict
  <2>2. \A r \in stored : verdict = "stored" /\ r.row \in DOMAIN src
    BY <1>1, StoredAreRows DEF IngestInv
  <2>3. \A i \in DOMAIN src : src[i] \in SourceRows[shape]
    BY <1>1 DEF IngestInv
  <2> QED BY <1>1, <2>1, <2>2, <2>3 DEF IngestInv, TypeOK
<1> QED BY <1>1, IngestInvHolds, PTL

\* P13 refuses exactly the level sequences no forest has in preorder, for sources of
\* every length: no forest is refused, and nothing else gets past it.
THEOREM P13RefusesExactlyNoForests == Spec => []P13IsExact
<1>1. ASSUME IngestInv PROVE P13IsExact
  <2> SUFFICES ASSUME verdict \in {"p13", "conform", "stored"}, LevelBasis(shape)
               PROVE  verdict = "p13" <=>
                        \E root \in RootsOf(src) : ~ IsForest(Levels(shape, src, Ranked(shape, src), root))
    BY DEF P13IsExact
  <2> DEFINE levels(root) == Levels(shape, src, Ranked(shape, src), root)
  <2>1. ASSUME NEW root \in RootsOf(src) PROVE P13Raises(levels(root)) <=> ~ IsForest(levels(root))
    <3> DEFINE n == Cardinality(In(src, root))
    <3>1. n \in Nat \ {0} /\ levels(root) \in [0 .. n - 1 -> Int \cup {NULL}]
      <4>1. IsSource(src) /\ NumbersRows(Ranked(shape, src), src)
        BY <1>1, SrcIsSource, RankedIs, NullAssumption
      <4>2. \A i \in DOMAIN src : LevelIn(shape, src, i) \in Int \cup {NULL}
        BY <4>1 DEF LevelIn, IsSource
      <4> QED BY <4>1, <4>2, RowsAreFinite, LevelsAre
    <3> HIDE DEF n, levels
    <3>2. P13Raises(levels(root)) <=> ~ Stepwise(levels(root), n)
      BY <3>1, P13Is, NullAssumption
    <3>3. levels(root) = [i \in 0 .. n - 1 |-> levels(root)[i]]
      BY <3>1
    <3>4. Stepwise(levels(root), n) => IsForest(levels(root))
      BY StepwiseIsForest, NullAssumption
    <3>5. IsForest(levels(root)) => Stepwise(levels(root), n)
      BY <3>1, <3>3, ForestIsStepwise, NullAssumption
    <3> QED BY <3>2, <3>4, <3>5
  <2>2. verdict = "p13" <=> \E root \in RootsOf(src) : P13Raises(levels(root))
    BY <1>1 DEF IngestInv, Verdict
  <2> HIDE DEF levels
  <2>3. verdict = "p13" <=> \E root \in RootsOf(src) : ~ IsForest(levels(root))
    BY <2>1, <2>2
  <2> QED BY <2>3 DEF levels
<1> QED BY <1>1, IngestInvHolds, PTL

-----------------------------------------------------------------------------
(* What is stored: the encoding of the source's forest, on either basis.   *)

\* A source that was let through passed every check that applies to its basis.
LEMMA StoredIsAccepted ==
  ASSUME IngestInv, verdict = "stored"
  PROVE  /\ Acceptable(shape, src) /\ stored = Projected(shape, src)
         /\ ~ LevelBasis(shape) => IsWalk(src)
<1>1. /\ stored = Projected(shape, src)
      /\ shape.order => OrderIsTraversal(shape, src)
      /\ shape.key => KeyIsUnique(src)
      /\ ~ LevelBasis(shape) => Unreached(src) = {}
      /\ \A root \in RootsOf(src) : ~ P13Raises(LevelsAt(shape, src, root))
      /\ \A slot \in Compared(shape) : ~ Disagrees(shape, src, Projected(shape, src), slot)
  BY DEF IngestInv, Verdict, LevelsAt
<1>2. IsSource(src) /\ shape.level \in BOOLEAN /\ shape.parent \in BOOLEAN
  BY SrcIsSource
<1>3. ~ LevelBasis(shape) => IsWalk(src)
  BY <1>1, <1>2, SrcIsSource DEF IsWalk
<1>4. NumbersRows(Ranked(shape, src), src) /\ \A i \in DOMAIN src : LevelIn(shape, src, i) \in Int \cup {NULL}
  <2>1. CASE LevelBasis(shape)
    BY <1>2, <2>1, RankedIs, NullAssumption DEF LevelIn, IsSource
  <2>2. CASE ~ LevelBasis(shape)
    <3>1. \A i \in DOMAIN src : Depth(src, i) \in 0 .. Len(src)
      BY <1>3, <2>2, DepthIs
    <3> QED BY <1>2, <1>3, <2>2, <3>1, WalkRanks, NullAssumption DEF LevelIn, IsSource
  <2> QED BY <2>1, <2>2
<1>5. ASSUME NEW root \in RootsOf(src) PROVE Stepwise(LevelsAt(shape, src, root), Cardinality(In(src, root)))
  <2> DEFINE n == Cardinality(In(src, root))
  <2> DEFINE levels == LevelsAt(shape, src, root)
  <2>1. n \in Nat \ {0} /\ levels \in [0 .. n - 1 -> Int \cup {NULL}]
    BY <1>2, <1>4, RowsAreFinite, LevelsAre DEF LevelsAt
  <2>2. ~ P13Raises(levels)
    BY <1>1
  <2> HIDE DEF n, levels
  <2>3. Stepwise(levels, n)
    BY <2>1, <2>2, P13Is, NullAssumption
  <2> QED BY <2>3 DEF n, levels
<1>6. CASE LevelBasis(shape)
  BY <1>1, <1>2, <1>5, <1>6, AcceptedLevels, NullAssumption
<1>7. CASE ~ LevelBasis(shape)
  BY <1>1, <1>2, <1>3, <1>5, <1>7, AcceptedWalk, NullAssumption
<1> QED BY <1>1, <1>3, <1>6, <1>7

\* So the stored rows of a root encode the levels the projection reads.
LEMMA StoredEncodes ==
  ASSUME IngestInv, NEW r \in stored
  PROVE  /\ verdict = "stored" /\ r.row \in DOMAIN src /\ r.root = src[r.row].root
         /\ r = StoredRow(shape, src, r.row)
         /\ Encodes(stored, r.root, LevelsAt(shape, src, r.root), Cardinality(In(src, r.root)))
<1>1. verdict = "stored" /\ stored = Projected(shape, src)
  BY DEF IngestInv
<1>2. Acceptable(shape, src)
  BY <1>1, StoredIsAccepted
<1>3. r.row \in In(src, r.root) /\ r = StoredRow(shape, src, r.row)
  BY <1>1, <1>2, StoredAt
<1>4. r.root \in RootsOf(src)
  BY <1>3 DEF In, RootsOf
<1> QED BY <1>1, <1>2, <1>3, <1>4, AcceptedEncodes DEF In

\* Every row of a source that is let through is stored exactly once, and a root's rows
\* have the positions 0 .. n-1: none of the joins of the projection loses or repeats one.
THEOREM StoresEveryRowOnce == Spec => []EveryRowOnce
<1>1. ASSUME IngestInv, verdict = "stored"
      PROVE  /\ \A i \in DOMAIN src : Cardinality({r \in stored : r.row = i}) = 1
             /\ \A root \in RootsOf(src) : {r.pre : r \in Stored(root)} = 0 .. Cardinality(In(src, root)) - 1
  <2>1. Acceptable(shape, src) /\ stored = Projected(shape, src)
    BY <1>1, StoredIsAccepted
  <2>2. ASSUME NEW i \in DOMAIN src PROVE Cardinality({r \in stored : r.row = i}) = 1
    <3>1. StoredRow(shape, src, i) \in stored /\ StoredRow(shape, src, i).row = i
      <4>1. i \in In(src, src[i].root)
        BY DEF In
      <4> QED BY <2>1, <4>1, StoredAt
    <3>2. \A r \in stored : r = StoredRow(shape, src, r.row)
      BY <1>1, StoredEncodes
    <3>3. {r \in stored : r.row = i} = {StoredRow(shape, src, i)}
      BY <3>1, <3>2
    <3> QED BY <3>3, FS_Singleton
  <2>3. \A root : {r.pre : r \in Stored(root)} = 0 .. Cardinality(In(src, root)) - 1
    BY <2>1, StoredAt DEF Stored
  <2> QED BY <2>2, <2>3
<1>2. IngestInv => EveryRowOnce
  BY <1>1 DEF EveryRowOnce
<1> QED BY <1>2, IngestInvHolds, PTL

\* A stored row's level is its depth, whether the source declares its LEVEL, its PARENT,
\* both or neither.
THEOREM StoredLevelsAreDepths == Spec => []LevelsAreDepths
<1>1. ASSUME IngestInv, NEW r \in stored
      PROVE  IF r.parent = NULL THEN r.level = 0
             ELSE \E q \in Stored(r.root) : q.pre = r.parent /\ r.level = q.level + 1
  BY <1>1, StoredEncodes, EncodedDepths, NullAssumption DEF Stored
<1>2. IngestInv => LevelsAreDepths
  BY <1>1 DEF LevelsAreDepths
<1> QED BY <1>2, IngestInvHolds, PTL

\* The rows below a stored row, following _parent, are the _size rows behind it; its
\* _children are those that hang off it and its _next is the row behind its subtree.
THEOREM StoredSubtreesAreIntervals == Spec => []SubtreesAreIntervals
<1>1. ASSUME IngestInv, NEW a \in stored
      PROVE  /\ Below(a) = {r \in Stored(a.root) : r.pre \in a.pre + 1 .. a.pre + a.size}
             /\ a.children = Cardinality({r \in Stored(a.root) : r.parent = a.pre})
             /\ a.next = a.pre + Cardinality(Below(a)) + 1
  <2> DEFINE n == Cardinality(In(src, a.root))
  <2> DEFINE levels == LevelsAt(shape, src, a.root)
  <2> DEFINE own == Stored(a.root)
  <2>1. Encodes(stored, a.root, levels, n)
    BY <1>1, StoredEncodes
  <2> HIDE DEF n, levels
  <2>2. Below(a) = {r \in own : r.pre \in a.pre + 1 .. a.pre + a.size}
    BY <1>1, <2>1, BelowIs
  <2>3. /\ Stepwise(levels, n) /\ n \in Nat \ {0} /\ {r.pre : r \in own} = 0 .. n - 1
        /\ \A r, q \in own : r.pre = q.pre => r = q
        /\ \A q \in own : q.parent = DerivedParent(levels, q.pre)
        /\ a \in own /\ a.size = DerivedSize(levels, a.pre)
        /\ a.children = DerivedChildren(levels, a.pre) /\ a.next = DerivedNext(levels, a.pre)
    BY <1>1, <2>1 DEF Encodes, Stored, Stepwise
  <2>4. a.pre \in 0 .. n - 1 /\ levels \in [0 .. n - 1 -> Nat]
    BY <2>3 DEF Stepwise
  <2>5. a.size \in Nat /\ a.pre + a.size <= n - 1
    BY <2>3, <2>4, SizeIs
  <2> HIDE DEF own
  <2>6. Cardinality({r \in own : r.pre \in a.pre + 1 .. a.pre + a.size}) = a.size
    <3> DEFINE T == a.pre + 1 .. a.pre + a.size
    <3>1. T \in SUBSET (0 .. n - 1)
      BY <2>3, <2>4, <2>5
    <3>2. Cardinality(T) = a.size
      <4>1. a.pre + 1 \in Int /\ a.pre + a.size \in Int
        BY <2>4, <2>5
      <4>2. Cardinality(T) = IF a.pre + 1 > a.pre + a.size THEN 0 ELSE (a.pre + a.size) - (a.pre + 1) + 1
        BY <4>1, FS_Interval
      <4> QED BY <2>4, <2>5, <4>2
    <3> HIDE DEF T
    <3>3. Cardinality({r \in own : r.pre \in T}) = Cardinality(T)
      BY <2>3, <3>1, CountByPosition
    <3> QED BY <3>2, <3>3 DEF T
  <2>7. a.children = Cardinality({r \in own : r.parent = a.pre})
    <3> DEFINE T == {j \in 0 .. n - 1 : DerivedParent(levels, j) = a.pre}
    <3>1. T \in SUBSET (0 .. n - 1) /\ a.children = Cardinality(T)
      BY <2>3, <2>4 DEF DerivedChildren
    <3>2. {r \in own : r.parent = a.pre} = {r \in own : r.pre \in T}
      BY <2>3
    <3> HIDE DEF T
    <3>3. Cardinality({r \in own : r.pre \in T}) = Cardinality(T)
      BY <2>3, <3>1, CountByPosition
    <3> QED BY <3>1, <3>2, <3>3
  <2>8. a.next = a.pre + Cardinality(Below(a)) + 1
    BY <2>2, <2>3, <2>6 DEF DerivedNext
  <2> QED BY <2>2, <2>7, <2>8 DEF own
<1>2. IngestInv => SubtreesAreIntervals
  BY <1>1 DEF SubtreesAreIntervals
<1> QED BY <1>2, IngestInvHolds, PTL

\* A declared SIZE, CHILDREN, PARENT or NEXT is served only where it says what the levels
\* say, and a NEXT that can be read back was read back to the row it names.
THEOREM StoredOverridesConform == Spec => []OverridesConform
<1>1. ASSUME IngestInv, NEW r \in stored
      PROVE  LET levels == LevelsOf(stored, r.root) IN
             /\ r.parent = DerivedParent(levels, r.pre)
             /\ r.size = DerivedSize(levels, r.pre)
             /\ r.children = DerivedChildren(levels, r.pre)
             /\ r.next = DerivedNext(levels, r.pre)
             /\ ("NEXT" \in shape.over /\ shape.readable /\ r.next \in DOMAIN levels) =>
                  \E q \in Stored(r.root) : q.pre = r.next /\
                    src[r.row].next = IF LevelBasis(shape) THEN Order(shape, src, q.row) ELSE src[q.row].key
  <2> DEFINE n == Cardinality(In(src, r.root))
  <2> DEFINE levels == LevelsOf(stored, r.root)
  <2>1. /\ verdict = "stored" /\ r.row \in DOMAIN src /\ r.root = src[r.row].root
        /\ r = StoredRow(shape, src, r.row)
    BY <1>1, StoredEncodes
  <2>2. Acceptable(shape, src) /\ stored = Projected(shape, src)
    BY <1>1, <2>1, StoredIsAccepted
  <2>3. levels = LevelsAt(shape, src, r.root)
    BY <2>2, LevelsOfIs
  <2>4. Encodes(stored, r.root, levels, n)
    BY <1>1, <2>3, StoredEncodes
  <2>5. /\ r.parent = DerivedParent(levels, r.pre) /\ r.size = DerivedSize(levels, r.pre)
        /\ r.children = DerivedChildren(levels, r.pre) /\ r.next = DerivedNext(levels, r.pre)
        /\ DOMAIN levels = 0 .. n - 1 /\ n \in Nat \ {0}
    <3> HIDE DEF levels, n
    <3> QED BY <1>1, <2>4 DEF Encodes, Stepwise
  <2>6. ASSUME "NEXT" \in shape.over, shape.readable, r.next \in DOMAIN levels
        PROVE  \E q \in Stored(r.root) : q.pre = r.next /\ src[r.row].next = NamedBy(shape, src, q.row)
    <3> DEFINE named == Names(shape, src, Ranked(shape, src), r.row, src[r.row].next)
    <3>1. ~ DanglingNext(shape, src, stored, r)
      <4>1. ~ Disagrees(shape, src, stored, "NEXT")
        BY <2>2, <2>6 DEF Acceptable, Compared
      <4> QED BY <1>1, <4>1 DEF Disagrees
    <3>2. Greatest(DOMAIN levels) = n - 1
      <4>1. n - 1 \in 0 .. n - 1 /\ \A k \in 0 .. n - 1 : k <= n - 1
        BY <2>5
      <4> HIDE DEF levels, n
      <4>2. \A m \in 0 .. n - 1 : (\A k \in 0 .. n - 1 : k <= m) => m = n - 1
        BY <2>5, <4>1
      <4> QED BY <2>5, <4>1, <4>2 DEF Greatest
    <3>3. named # {}
      <4>1. DerivedNext(levels, r.pre) <= Greatest(DOMAIN levels)
        <5> HIDE DEF levels, n
        <5> QED BY <2>5, <2>6, <3>2
      <4> QED BY <2>6, <3>1, <4>1 DEF DanglingNext
    <3>4. r.next \in named
      <4>1. RowOf(shape, src, r.row).row = r.row
        BY DEF RowOf, SizedRow
      <4>2. NextsAt(shape, src, RowOf(shape, src, r.row)) = named
        BY <2>6, <3>3, <4>1 DEF NextsAt
      <4>3. NextsAt(shape, src, RowOf(shape, src, r.row)) = {NextOf(shape, src, r.row)}
        BY <2>1, <2>2, OneNext
      <4>4. r.next = NextOf(shape, src, r.row)
        <5>1. r.row \in In(src, r.root)
          BY <2>1 DEF In
        <5> QED BY <2>1, <2>2, <5>1, StoredAt
      <4> QED BY <4>2, <4>3, <4>4
    <3>5. PICK j \in DOMAIN src :
            src[j].root = src[r.row].root /\ r.next = Ranked(shape, src)[j] /\ NamedBy(shape, src, j) = src[r.row].next
      BY <2>1, <2>2, <3>4, NamesOneRow
    <3>6. /\ StoredRow(shape, src, j) \in Stored(r.root) /\ StoredRow(shape, src, j).row = j
          /\ StoredRow(shape, src, j).pre = r.next
      <4>1. j \in In(src, r.root)
        BY <2>1, <3>5 DEF In
      <4> QED BY <2>2, <3>5, <4>1, StoredAt DEF Stored
    <3> QED BY <3>5, <3>6
  <2> HIDE DEF levels
  <2>7. ("NEXT" \in shape.over /\ shape.readable /\ r.next \in DOMAIN levels) =>
          \E q \in Stored(r.root) : q.pre = r.next /\
            src[r.row].next = IF LevelBasis(shape) THEN Order(shape, src, q.row) ELSE src[q.row].key
    BY <2>6 DEF NamedBy
  <2> QED BY <2>5, <2>7 DEF levels
<1>2. IngestInv => OverridesConform
  BY <1>1 DEF OverridesConform
<1> QED BY <1>2, IngestInvHolds, PTL

\* On the parent basis the stored forest is the one the PARENTs name, siblings in
\* SIBLING_ORDER.
THEOREM StoredForestIsTheSources == Spec => []WalkKeepsTheForest
<1>1. ASSUME IngestInv, ~ LevelBasis(shape), verdict = "stored", NEW r \in stored, NEW q \in stored
      PROVE  /\ r.parent = NULL <=> src[r.row].parent = NULL
             /\ r.root = q.root /\ r.parent = q.pre => src[r.row].parent = src[q.row].key
             /\ (r.root = q.root /\ r.parent = q.parent /\ ComesBefore(src[r.row], src[q.row])) => r.pre < q.pre
  <2> DEFINE i == r.row
  <2> DEFINE j == q.row
  <2> DEFINE pre == Ranked(shape, src)
  <2> DEFINE up(k) == Least(ParentRows(src, k))
  <2>1. IsWalk(src) /\ Acceptable(shape, src) /\ stored = Projected(shape, src)
    BY <1>1, StoredIsAccepted
  <2>2. ASSUME NEW x \in stored
        PROVE  /\ x.row \in DOMAIN src /\ x.root = src[x.row].root /\ x.pre = pre[x.row]
               /\ x.parent = IF src[x.row].parent = NULL THEN NULL ELSE pre[up(x.row)]
               /\ src[x.row].parent # NULL =>
                    up(x.row) \in DOMAIN src /\ src[up(x.row)].root = x.root /\ src[up(x.row)].key = src[x.row].parent
    <3>1. /\ x.row \in DOMAIN src /\ x.root = src[x.row].root /\ x = StoredRow(shape, src, x.row)
          /\ Encodes(stored, x.root, LevelsAt(shape, src, x.root), Cardinality(In(src, x.root)))
      BY <1>1, StoredEncodes
    <3>2. x.pre = pre[x.row]
      <4>1. x.row \in In(src, x.root)
        BY <3>1 DEF In
      <4> QED BY <2>1, <3>1, <4>1, StoredAt
    <3>3. x.parent = DerivedParent(LevelsAt(shape, src, x.root), x.pre)
      BY <3>1 DEF Encodes
    <3>4. Stepwise(LevelsAt(shape, src, src[x.row].root), Cardinality(In(src, src[x.row].root)))
      BY <3>1 DEF Encodes
    <3>5. x.parent = IF src[x.row].parent = NULL THEN NULL ELSE pre[up(x.row)]
      BY <1>1, <2>1, <3>1, <3>2, <3>3, <3>4, WalkParents, NullAssumption
    <3> QED BY <2>1, <3>1, <3>2, <3>5, DepthIs
  <2>3. ASSUME NEW x \in DOMAIN src, NEW y \in DOMAIN src, src[x].root = src[y].root, pre[x] = pre[y]
        PROVE  x = y
    <3>1. x \in In(src, src[x].root) /\ y \in In(src, src[x].root)
      BY <2>3 DEF In
    <3> QED BY <2>1, <2>3, <3>1 DEF Acceptable, NumbersRows
  <2>4. \A x \in DOMAIN src : pre[x] # NULL
    <3> TAKE x \in DOMAIN src
    <3>1. pre[x] \in 0 .. Cardinality(In(src, src[x].root)) - 1
      <4>1. x \in In(src, src[x].root)
        BY DEF In
      <4> QED BY <2>1, <4>1 DEF Acceptable, NumbersRows
    <3> QED BY <3>1, NullAssumption
  <2> HIDE DEF pre, up
  <2>5. r.parent = NULL <=> src[i].parent = NULL
    BY <2>2, <2>4
  <2>6. ASSUME r.root = q.root, r.parent = q.pre PROVE src[i].parent = src[j].key
    BY <2>2, <2>3, <2>4, <2>6
  <2>7. ASSUME r.root = q.root, r.parent = q.parent, ComesBefore(src[i], src[j]) PROVE r.pre < q.pre
    <3>1. src[i].root = src[j].root /\ i \in DOMAIN src /\ j \in DOMAIN src
      BY <2>2, <2>7
    <3>2. src[i].parent = src[j].parent /\ (src[i].parent # NULL => up(i) = up(j))
      BY <2>2, <2>3, <2>4, <2>7
    <3>3. SiblingRank(src, i) \in Nat /\ SiblingRank(src, j) \in Nat /\ SiblingRank(src, i) < SiblingRank(src, j)
      BY <2>1, <2>7, <3>1, <3>2, SiblingRanks, NullAssumption
    <3>4. PICK p \in Seq(Nat) : /\ Paths(src)[i] = Append(p, SiblingRank(src, i))
                               /\ Paths(src)[j] = Append(p, SiblingRank(src, j))
      <4>1. /\ Paths(src) \in [DOMAIN src -> Seq(Nat)]
            /\ \A x \in DOMAIN src :
                 Paths(src)[x] = Append(IF src[x].parent = NULL THEN <<>> ELSE Paths(src)[up(x)], SiblingRank(src, x))
        BY <2>1, PathsAre, NullAssumption DEF up
      <4>2. CASE src[i].parent = NULL
        <5>1. /\ Paths(src)[i] = Append(<<>>, SiblingRank(src, i))
              /\ Paths(src)[j] = Append(<<>>, SiblingRank(src, j))
          BY <3>1, <3>2, <4>1, <4>2
        <5>2. <<>> \in Seq(Nat)
          OBVIOUS
        <5> QED BY <5>1, <5>2
      <4>3. CASE src[i].parent # NULL
        <5>1. up(i) \in DOMAIN src /\ Paths(src)[up(i)] \in Seq(Nat)
          BY <2>2, <4>1, <4>3
        <5> QED BY <3>1, <3>2, <4>1, <4>3, <5>1
      <4> QED BY <4>2, <4>3
    <3>5. Precedes(Paths(src)[i], Paths(src)[j])
      <4>1. \A a, b \in Nat : a < b => Precedes(Append(p, a), Append(p, b))
        <5> SUFFICES ASSUME NEW a \in Nat, NEW b \in Nat, a < b PROVE Precedes(Append(p, a), Append(p, b))
          OBVIOUS
        <5> DEFINE k == Len(p) + 1
        <5>1. /\ k \in 1 .. Len(Append(p, a)) /\ k <= Len(Append(p, b))
              /\ Append(p, a)[k] < Append(p, b)[k]
              /\ \A m \in 1 .. k - 1 : Append(p, a)[m] = Append(p, b)[m]
          OBVIOUS
        <5> QED BY <5>1 DEF Precedes
      <4> QED BY <3>3, <3>4, <4>1
    <3> QED BY <1>1, <2>1, <2>2, <3>1, <3>5, WalkRanks, NullAssumption DEF pre
  <2> QED BY <2>5, <2>6, <2>7
<1>2. IngestInv => WalkKeepsTheForest
  BY <1>1 DEF WalkKeepsTheForest
<1> QED BY <1>2, IngestInvHolds, PTL

\* A row the walk misses lies on, or below, PARENTs that lead to no row without one; on
\* such PARENTs the walk reaches nothing.
LEMMA UnreachedNeverEnds ==
  ASSUME IsSource(src), KeyIsUnique(src)
  PROVE  (\E i \in DOMAIN src : i \notin Walked(src)) <=> \E T \in SUBSET DOMAIN src : T # {} /\ NeverEnds(T)
<1> DEFINE N == Len(src)
<1> DEFINE walk == Walk(src)
<1>1. /\ N \in Nat /\ DOMAIN src = 1 .. N
      /\ walk \in [0 .. N -> SUBSET DOMAIN src]
      /\ walk[0] = {i \in DOMAIN src : src[i].parent = NULL}
      /\ \A d \in 1 .. N : walk[d] = {i \in DOMAIN src : ParentRows(src, i) \cap walk[d - 1] # {}}
  BY WalkIs DEF IsSource
<1>2. \A d \in 0 .. N, e \in 0 .. N : \A i \in DOMAIN src : i \in walk[d] /\ i \in walk[e] => d = e
  BY ReachedOnce
<1>3. Walked(src) = UNION {walk[d] : d \in 0 .. N}
  BY DEF Walked
<1> HIDE DEF walk, N
<1>4. ASSUME NEW T \in SUBSET DOMAIN src, NeverEnds(T), NEW i \in T PROVE i \notin Walked(src)
  <2> DEFINE Bad == {d \in 0 .. N : T \cap walk[d] # {}}
  <2>1. SUFFICES ASSUME Bad # {} PROVE FALSE
    BY <1>3
  <2>2. PICK d \in Bad : \A m \in Bad : d <= m
    <3>1. Bad \in SUBSET Nat
      OBVIOUS
    <3> HIDE DEF Bad
    <3> QED BY <2>1, <3>1, LeastNat
  <2>3. PICK k \in T : k \in walk[d] /\ d \in 0 .. N
    BY <2>2
  <2>4. d # 0
    BY <1>1, <1>4, <2>3 DEF NeverEnds
  <2>5. d \in 1 .. N /\ d - 1 \in 0 .. N /\ ~ (d <= d - 1)
    BY <1>1, <2>3, <2>4
  <2>6. T \cap walk[d - 1] # {}
    BY <1>1, <1>4, <2>3, <2>5 DEF NeverEnds
  <2>7. d - 1 \in Bad
    BY <2>5, <2>6
  <2> HIDE DEF Bad
  <2> QED BY <2>2, <2>5, <2>7
<1>5. ASSUME NEW j \in walk[N] PROVE FALSE
  <2>1. \A d \in 0 .. N : walk[d] # {}
    <3> DEFINE Bad == {m \in 0 .. N : walk[N - m] = {}}
    <3>1. SUFFICES ASSUME Bad # {} PROVE FALSE
      <4> SUFFICES ASSUME NEW d \in 0 .. N, walk[d] = {} PROVE Bad # {}
        OBVIOUS
      <4>1. N - d \in 0 .. N /\ N - (N - d) = d
        BY <1>1
      <4> QED BY <4>1
    <3>2. PICK m \in Bad : \A k \in Bad : m <= k
      <4>1. Bad \in SUBSET Nat
        OBVIOUS
      <4> HIDE DEF Bad
      <4> QED BY <3>1, <4>1, LeastNat
    <3>3. m \in 0 .. N /\ walk[N - m] = {}
      BY <3>2
    <3>4. m # 0
      <4>1. N - 0 = N
        BY <1>1
      <4> QED BY <1>5, <3>3, <4>1
    <3>5. /\ m - 1 \in 0 .. N /\ ~ (m <= m - 1) /\ N - (m - 1) \in 1 .. N
          /\ (N - (m - 1)) - 1 = N - m
      BY <1>1, <3>3, <3>4
    <3>6. walk[N - (m - 1)] = {}
      <4> DEFINE d == N - (m - 1)
      <4>1. d \in 1 .. N /\ walk[d - 1] = {}
        BY <3>3, <3>5
      <4> HIDE DEF d
      <4>2. walk[d] = {}
        BY <1>1, <4>1
      <4> QED BY <4>2 DEF d
    <3>7. m - 1 \in Bad
      BY <3>5, <3>6
    <3> HIDE DEF Bad
    <3> QED BY <3>2, <3>5, <3>7
  <2> DEFINE S == 0 .. N
  <2> DEFINE D == 1 .. N
  <2> DEFINE f == [d \in S |-> CHOOSE i \in walk[d] : TRUE]
  <2>2. \A d \in S : f[d] \in walk[d] /\ f[d] \in D
    BY <1>1, <2>1
  <2>3. f \in [S -> D]
    BY <2>2
  <2>4. /\ IsFiniteSet(S) /\ IsFiniteSet(D) /\ Cardinality(D) < Cardinality(S)
    <3>1. 0 \in Int /\ 1 \in Int /\ N \in Int
      BY <1>1
    <3>2. IsFiniteSet(S) /\ Cardinality(S) = IF 0 > N THEN 0 ELSE N - 0 + 1
      BY <3>1, FS_Interval
    <3>3. IsFiniteSet(D) /\ Cardinality(D) = IF 1 > N THEN 0 ELSE N - 1 + 1
      BY <3>1, FS_Interval
    <3>4. Cardinality(S) = N + 1 /\ Cardinality(D) = N
      BY <1>1, <3>2, <3>3
    <3> QED BY <1>1, <3>2, <3>3, <3>4
  <2> HIDE DEF f, S, D
  <2>5. PICK d, e \in S : d # e /\ f[d] = f[e]
    BY <2>3, <2>4, FS_PigeonHole
  <2>6. f[d] \in DOMAIN src /\ d \in 0 .. N /\ e \in 0 .. N
    BY <1>1, <2>2, <2>5 DEF S, D
  <2> QED BY <1>2, <2>2, <2>5, <2>6
<1>6. ASSUME NEW i \in DOMAIN src, i \notin Walked(src)
      PROVE  \E T \in SUBSET DOMAIN src : T # {} /\ NeverEnds(T)
  <2> DEFINE T == DOMAIN src \ Walked(src)
  <2>1. ASSUME NEW k \in T PROVE src[k].parent # NULL
    <3>1. 0 \in 0 .. N
      BY <1>1
    <3> QED BY <1>1, <1>3, <2>1, <3>1
  <2>2. ASSUME NEW k \in T, NEW j \in ParentRows(src, k) PROVE j \in T
    <3>1. j \in DOMAIN src
      BY <2>2 DEF ParentRows
    <3>2. SUFFICES ASSUME NEW d \in 0 .. N, j \in walk[d] PROVE FALSE
      BY <1>3, <3>1
    <3>3. d # N
      BY <1>5, <3>2
    <3>4. d + 1 \in 1 .. N /\ d + 1 \in 0 .. N /\ (d + 1) - 1 = d
      BY <1>1, <3>2, <3>3
    <3>5. k \in walk[d + 1]
      BY <1>1, <2>2, <3>2, <3>4
    <3> QED BY <1>3, <2>2, <3>4, <3>5
  <2>3. T \in SUBSET DOMAIN src /\ T # {} /\ NeverEnds(T)
    BY <1>6, <2>1, <2>2 DEF NeverEnds
  <2> QED BY <2>3
<1> QED BY <1>4, <1>6

\* The parent basis refuses exactly the sources whose PARENTs do not all lead up to a row
\* without one; cycles and orphans of any length are found, nothing else is refused.
THEOREM RefusesExactlyTheUnreachable == Spec => []RefusesWhatItCannotReach
<1>1. ASSUME IngestInv, ~ LevelBasis(shape), verdict \in {"reach", "p13", "conform", "stored"}
      PROVE  verdict = "reach" <=>
               \/ \E i \in DOMAIN src : src[i].key = NULL
               \/ \E T \in SUBSET DOMAIN src : T # {} /\ NeverEnds(T)
  <2>1. IsSource(src) /\ shape.key
    BY <1>1, SrcIsSource
  <2>2. KeyIsUnique(src) /\ (verdict = "reach" <=> Unreached(src) # {})
    BY <1>1, <2>1 DEF IngestInv, Verdict
  <2> QED BY <2>1, <2>2, UnreachedNeverEnds DEF Unreached
<1>2. IngestInv => RefusesWhatItCannotReach
  BY <1>1 DEF RefusesWhatItCannotReach
<1> QED BY <1>2, IngestInvHolds, PTL

=============================================================================
