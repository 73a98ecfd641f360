--------------------------- MODULE SelectorProofs ---------------------------
(***************************************************************************)
(* What is proved of the relations and the compiler: for forests of every  *)
(* size the relations are the forest's, and for selectors of every size    *)
(* what is accepted answers what it means, nothing of it left out, and     *)
(* without a look at an order the tree does not declare.                   *)
(***************************************************************************)
EXTENDS SelectorSpace, EncodingLemmas

-----------------------------------------------------------------------------
(* Integers.                                                               *)

\* Of two pairs as far apart, one spans its second as the other does.
LEMMA AsFarWithin ==
  ASSUME NEW x \in Int, NEW y \in Int, NEW i \in Int, NEW j \in Int, NEW z \in Int, y - x = j - i
  PROVE  y \in x + 1 .. x + z <=> j \in i + 1 .. i + z
OBVIOUS

-----------------------------------------------------------------------------
(* The ancestors of a row.                                                 *)

\* A row is drawn after the row above it.
Rising(f) ==
  /\ Len(f) \in Nat /\ DOMAIN f = 1 .. Len(f)
  /\ \A i \in 1 .. Len(f) : f[i].up \in 0 .. i - 1

OneUp(f, g, j) == IF j = 0 \/ f[j].up = 0 THEN {} ELSE {f[j].up} \cup g[f[j].up]

\* The ancestors of a row are the one above it and that one's.
LEMMA UpsAre ==
  ASSUME NEW f, Rising(f), NEW i \in 1 .. Len(f)
  PROVE  Ups(f, i) = IF f[i].up = 0 THEN {} ELSE {f[i].up} \cup Ups(f, f[i].up)
<1> DEFINE N == Len(f)
<1> DEFINE D == 0 .. N
<1> DEFINE X == [D -> SUBSET Nat]
<1> DEFINE step == [g \in X |-> [j \in D |-> OneUp(f, g, j)]]
<1> DEFINE first == [j \in D |-> {}]
<1>00. N \in Nat /\ N + 1 \in Nat
  BY DEF Rising
<1>0. N \in Nat /\ \A j \in D : j # 0 => f[j].up \in 0 .. j - 1 /\ f[j].up \in D
  BY DEF Rising
<1> HIDE DEF N
<1>1. \A g \in X : \A j \in D : OneUp(f, g, j) \in SUBSET Nat
  <2> TAKE g \in X
  <2> TAKE j \in D
  <2>1. CASE j = 0 \/ f[j].up = 0
    BY <2>1 DEF OneUp
  <2>2. CASE ~(j = 0 \/ f[j].up = 0)
    <3>1. f[j].up \in D /\ f[j].up \in Nat
      BY <1>0, <2>2
    <3>2. g[f[j].up] \in SUBSET Nat
      BY <3>1
    <3> QED BY <2>2, <3>1, <3>2 DEF OneUp
  <2> QED BY <2>1, <2>2
<1>2. first \in X /\ step \in [X -> X]
  <2>1. ASSUME NEW g \in X PROVE [j \in D |-> OneUp(f, g, j)] \in X
    BY <1>1
  <2> QED BY <2>1
<1>3. PICK h : Repeats(h, X, first, step, N + 1)
  <2> HIDE DEF X, first, step
  <2> QED BY <1>00, <1>2, Iterates
<1>4. h \in [0 .. N + 1 -> X] /\ \A d \in 1 .. N + 1 : h[d] = step[h[d - 1]]
  BY <1>3 DEF Repeats
<1>5. \A d \in 0 .. N : \A j \in D : h[d + 1][j] = OneUp(f, h[d], j)
  <2> TAKE d \in 0 .. N
  <2>1. d \in 0 .. N + 1 /\ d + 1 \in 1 .. N + 1 /\ d + 1 - 1 = d
    BY <1>0
  <2>2. h[d] \in X /\ h[d + 1] = step[h[d]]
    <3> HIDE DEF X, step
    <3> QED BY <1>4, <2>1
  <2> HIDE DEF X
  <2> QED BY <2>2
<1>55. h[N + 1] = [j \in D |-> h[N + 1][j]]
  <2>1. h[N + 1] \in X
    <3> HIDE DEF X
    <3> QED BY <1>0, <1>4
  <2> QED BY <2>1
\* The approximations of a row agree from its own number on.
<1> DEFINE Bad == {j \in D : \E d \in 1 .. N + 1 : j < d /\ h[d][j] # h[j + 1][j]}
<1>6. Bad = {}
  <2>1. SUFFICES ASSUME Bad # {} PROVE FALSE
    OBVIOUS
  <2>2. PICK j \in Bad : \A m \in Bad : j <= m
    <3>1. Bad \in SUBSET Nat
      BY <1>0
    <3> HIDE DEF Bad
    <3> QED BY <2>1, <3>1, LeastNat
  <2>3. PICK c \in 0 .. N : j < c + 1 /\ h[c + 1][j] # h[j + 1][j]
    <3>1. PICK d \in 1 .. N + 1 : j < d /\ h[d][j] # h[j + 1][j]
      BY <2>2
    <3>2. d - 1 \in 0 .. N /\ d - 1 + 1 = d
      BY <1>0
    <3> QED BY <3>1, <3>2
  <2>4. j \in 0 .. N
    BY <2>2
  <2>5. h[c + 1][j] = OneUp(f, h[c], j) /\ h[j + 1][j] = OneUp(f, h[j], j)
    <3> HIDE DEF Bad
    <3> QED BY <1>5, <2>4
  <2>6. j # 0 /\ f[j].up # 0
    BY <2>3, <2>5 DEF OneUp
  <2>7. f[j].up \in D /\ f[j].up < j /\ f[j].up \notin Bad
    <3>1. f[j].up \in D /\ f[j].up < j
      BY <1>0, <2>4, <2>6
    <3> HIDE DEF Bad
    <3> QED BY <1>0, <2>2, <2>4, <3>1
  <2>8. h[c][f[j].up] = h[f[j].up + 1][f[j].up] /\ h[j][f[j].up] = h[f[j].up + 1][f[j].up]
    <3> DEFINE u == f[j].up
    <3>0. u \in 0 .. N /\ u < j
      BY <2>7
    <3> HIDE DEF u
    <3>1. c \in 1 .. N + 1 /\ j \in 1 .. N + 1 /\ u < c
      BY <1>0, <2>3, <2>4, <3>0
    <3> QED BY <2>7, <3>1 DEF u
  <2> QED BY <2>3, <2>5, <2>8 DEF OneUp
<1>66. \A m \in D : \A d \in 1 .. N + 1 : m < d => h[d][m] = h[m + 1][m]
  BY <1>6
<1> HIDE DEF Bad
<1> DEFINE g == h[N + 1]
<1>7. g = [j \in D |-> OneUp(f, g, j)]
  <2>1. \A j \in D : h[N + 1][j] = OneUp(f, h[N], j)
    BY <1>0, <1>5
  <2>2. ASSUME NEW j \in D PROVE OneUp(f, h[N], j) = OneUp(f, h[N + 1], j)
    <3>1. CASE j = 0 \/ f[j].up = 0
      BY <3>1 DEF OneUp
    <3>2. CASE ~(j = 0 \/ f[j].up = 0)
      <4> DEFINE u == f[j].up
      <4>1. u \in D /\ u < N /\ u < N + 1 /\ N \in 1 .. N + 1 /\ N + 1 \in 1 .. N + 1
        BY <1>0, <3>2
      <4> HIDE DEF u, D
      <4>2. h[N][u] = h[u + 1][u] /\ h[N + 1][u] = h[u + 1][u]
        BY <1>66, <4>1
      <4>3. h[N][u] = h[N + 1][u]
        BY <4>2
      <4> QED BY <4>3 DEF OneUp, u
    <3> QED BY <3>1, <3>2
  <2> HIDE DEF D
  <2> QED BY <1>55, <2>1, <2>2
<1> DEFINE ups == CHOOSE u : u = [j \in D |-> OneUp(f, u, j)]
<1>8. ups = [j \in D |-> OneUp(f, ups, j)]
  <2> HIDE DEF g
  <2> QED BY <1>7
<1>9. \A j : Ups(f, j) = ups[j]
  BY DEF Ups, OneUp, N
<1>10. i \in D /\ i # 0 /\ f[i].up \in D
  BY <1>0 DEF N
<1> HIDE DEF ups
<1>11. ups[i] = OneUp(f, ups, i)
  BY <1>8, <1>10
<1> QED BY <1>9, <1>10, <1>11 DEF OneUp

\* Every ancestor comes earlier, ...
LEMMA UpsAreEarlier ==
  ASSUME NEW f, Rising(f), NEW i \in 1 .. Len(f)
  PROVE  Ups(f, i) \subseteq 1 .. i - 1
<1> DEFINE Bad == {j \in 1 .. Len(f) : ~(Ups(f, j) \subseteq 1 .. j - 1)}
<1>1. SUFFICES ASSUME Bad # {} PROVE FALSE
  OBVIOUS
<1>2. PICK j \in Bad : \A m \in Bad : j <= m
  <2>1. Bad \in SUBSET Nat
    OBVIOUS
  <2> HIDE DEF Bad
  <2> QED BY <1>1, <2>1, LeastNat
<1>3. j \in 1 .. Len(f) /\ Len(f) \in Nat /\ f[j].up \in 0 .. j - 1
  BY <1>2 DEF Rising
<1>4. Ups(f, j) = IF f[j].up = 0 THEN {} ELSE {f[j].up} \cup Ups(f, f[j].up)
  BY <1>3, UpsAre
<1>5. CASE f[j].up = 0
  BY <1>2, <1>4, <1>5
<1>6. CASE f[j].up # 0
  <2>1. f[j].up \in 1 .. Len(f) /\ f[j].up < j /\ f[j].up \notin Bad
    <3>1. f[j].up \in 1 .. Len(f) /\ f[j].up < j
      BY <1>3, <1>6
    <3> HIDE DEF Bad
    <3> QED BY <1>2, <1>3, <3>1
  <2>2. Ups(f, f[j].up) \subseteq 1 .. f[j].up - 1
    BY <2>1
  <2>3. Ups(f, j) \subseteq 1 .. j - 1
    BY <1>3, <1>4, <1>6, <2>1, <2>2
  <2> QED BY <1>2, <2>3
<1> QED BY <1>5, <1>6

\* ... and an ancestor's ancestors are ancestors.
LEMMA UpsOfUps ==
  ASSUME NEW f, Rising(f), NEW i \in 1 .. Len(f), NEW v \in Ups(f, i)
  PROVE  Ups(f, v) \subseteq Ups(f, i)
<1> DEFINE Bad == {j \in 1 .. Len(f) : \E w \in Ups(f, j) : ~(Ups(f, w) \subseteq Ups(f, j))}
<1>1. SUFFICES ASSUME Bad # {} PROVE FALSE
  OBVIOUS
<1>2. PICK j \in Bad : \A m \in Bad : j <= m
  <2>1. Bad \in SUBSET Nat
    OBVIOUS
  <2> HIDE DEF Bad
  <2> QED BY <1>1, <2>1, LeastNat
<1>3. j \in 1 .. Len(f) /\ Len(f) \in Nat /\ f[j].up \in 0 .. j - 1
  BY <1>2 DEF Rising
<1>4. Ups(f, j) = IF f[j].up = 0 THEN {} ELSE {f[j].up} \cup Ups(f, f[j].up)
  BY <1>3, UpsAre
<1>5. CASE f[j].up = 0
  BY <1>2, <1>4, <1>5
<1>6. CASE f[j].up # 0
  <2>1. f[j].up \in 1 .. Len(f) /\ f[j].up \notin Bad
    <3>1. f[j].up \in 1 .. Len(f) /\ f[j].up < j
      BY <1>3, <1>6
    <3> HIDE DEF Bad
    <3> QED BY <1>2, <1>3, <3>1
  <2>2. \A w \in Ups(f, f[j].up) : Ups(f, w) \subseteq Ups(f, f[j].up)
    BY <2>1
  <2> QED BY <1>2, <1>4, <1>6, <2>2
<1> QED BY <1>5, <1>6

\* A row drawn after it changes nothing above a row.
LEMMA UpsStay ==
  ASSUME NEW f, Rising(f), NEW g, Rising(g), Len(f) <= Len(g), \A i \in 1 .. Len(f) : g[i].up = f[i].up,
         NEW i \in 1 .. Len(f)
  PROVE  Ups(g, i) = Ups(f, i)
<1> DEFINE Bad == {j \in 1 .. Len(f) : Ups(g, j) # Ups(f, j)}
<1>1. SUFFICES ASSUME Bad # {} PROVE FALSE
  OBVIOUS
<1>2. PICK j \in Bad : \A m \in Bad : j <= m
  <2>1. Bad \in SUBSET Nat
    OBVIOUS
  <2> HIDE DEF Bad
  <2> QED BY <1>1, <2>1, LeastNat
<1>3. j \in 1 .. Len(f) /\ j \in 1 .. Len(g) /\ Len(f) \in Nat /\ f[j].up \in 0 .. j - 1 /\ g[j].up = f[j].up
  BY <1>2 DEF Rising
<1>4. Ups(f, j) = IF f[j].up = 0 THEN {} ELSE {f[j].up} \cup Ups(f, f[j].up)
  BY <1>3, UpsAre
<1>5. Ups(g, j) = IF f[j].up = 0 THEN {} ELSE {f[j].up} \cup Ups(g, f[j].up)
  BY <1>3, UpsAre
<1>6. f[j].up # 0
  BY <1>2, <1>4, <1>5
<1>7. f[j].up \in 1 .. Len(f) /\ f[j].up \notin Bad
  <2>1. f[j].up \in 1 .. Len(f) /\ f[j].up < j
    BY <1>3, <1>6
  <2> HIDE DEF Bad
  <2> QED BY <1>2, <1>3, <2>1
<1> QED BY <1>2, <1>4, <1>5, <1>7

-----------------------------------------------------------------------------
(* Levels.                                                                 *)

Level(f, i) == Cardinality(Ups(f, i))

\* A row is one level below the row above it.
LEMMA LevelIs ==
  ASSUME NEW f, Rising(f), NEW i \in 1 .. Len(f)
  PROVE  /\ IsFiniteSet(Ups(f, i)) /\ Level(f, i) \in Nat
         /\ Level(f, i) = IF f[i].up = 0 THEN 0 ELSE Level(f, f[i].up) + 1
<1>1. ASSUME NEW j \in 1 .. Len(f) PROVE IsFiniteSet(Ups(f, j)) /\ Level(f, j) \in Nat
  <2>1. j - 1 \in Int /\ 1 \in Int
    BY DEF Rising
  <2>2. IsFiniteSet(1 .. j - 1)
    BY <2>1, FS_Interval
  <2> QED BY <2>2, UpsAreEarlier, FS_Subset, FS_CardinalityType DEF Level
<1>2. Ups(f, i) = IF f[i].up = 0 THEN {} ELSE {f[i].up} \cup Ups(f, f[i].up)
  BY UpsAre
<1>3. CASE f[i].up = 0
  BY <1>1, <1>2, <1>3, FS_EmptySet DEF Level
<1>4. CASE f[i].up # 0
  <2> DEFINE u == f[i].up
  <2>1. u \in 1 .. Len(f) /\ u \in Nat
    BY <1>4 DEF Rising
  <2>2. u \notin Ups(f, u)
    <3>1. Ups(f, u) \subseteq 1 .. u - 1
      BY <2>1, UpsAreEarlier
    <3> HIDE DEF u
    <3> QED BY <2>1, <3>1
  <2>3. Ups(f, i) = Ups(f, u) \cup {u}
    BY <1>2, <1>4
  <2> HIDE DEF u
  <2>4. Cardinality(Ups(f, u) \cup {u}) = Cardinality(Ups(f, u)) + 1
    BY <1>1, <2>1, <2>2, FS_AddElement
  <2> QED BY <1>1, <1>4, <2>3, <2>4 DEF Level, u
<1> QED BY <1>1, <1>3, <1>4

\* A row is below its ancestors.
LEMMA LevelsGrow ==
  ASSUME NEW f, Rising(f), NEW i \in 1 .. Len(f), NEW u \in Ups(f, i)
  PROVE  u \in 1 .. i - 1 /\ Level(f, u) < Level(f, i)
<1>1. u \in 1 .. i - 1 /\ u \in 1 .. Len(f)
  BY UpsAreEarlier DEF Rising
<1>2. Ups(f, u) \in SUBSET Ups(f, i) /\ Ups(f, u) # Ups(f, i)
  <2>1. Ups(f, u) \subseteq 1 .. u - 1
    BY <1>1, UpsAreEarlier
  <2>2. u \notin Ups(f, u)
    BY <1>1, <2>1
  <2> QED BY <2>2, UpsOfUps
<1>3. IsFiniteSet(Ups(f, i)) /\ Level(f, i) \in Nat /\ Level(f, u) \in Nat
  BY <1>1, LevelIs
<1>4. Cardinality(Ups(f, u)) <= Cardinality(Ups(f, i)) /\ Cardinality(Ups(f, u)) # Cardinality(Ups(f, i))
  BY <1>2, <1>3, FS_Subset
<1> QED BY <1>1, <1>3, <1>4 DEF Level

-----------------------------------------------------------------------------
(* A forest in preorder.                                                   *)

LEMMA PreorderRises ==
  ASSUME NEW f, Preorder(f)
  PROVE  IsList(f) /\ Rising(f) /\ Positions(f) = 1 .. Len(f)
BY DEF Preorder, Rising, IsList, Positions

\* What lies between a row and one below it lies below it, in one root.
LEMMA BetweenIsBelow ==
  ASSUME NEW f, Preorder(f), NEW i \in 1 .. Len(f), NEW u \in Ups(f, i), NEW k \in u .. i
  PROVE  f[k].root = f[i].root /\ (k # u => u \in Ups(f, k))
<1> Rising(f) /\ Positions(f) = 1 .. Len(f) /\ Len(f) \in Nat
  BY PreorderRises DEF Rising
<1> DEFINE fine(j) == \A v \in Ups(f, j) : \A l \in v .. j : f[l].root = f[j].root /\ (l # v => v \in Ups(f, l))
<1> DEFINE Bad == {j \in 1 .. Len(f) : ~ fine(j)}
<1>1. SUFFICES ASSUME Bad # {} PROVE FALSE
  OBVIOUS
<1>2. PICK j \in Bad : \A m \in Bad : j <= m
  <2>1. Bad \in SUBSET Nat
    OBVIOUS
  <2> HIDE DEF Bad
  <2> QED BY <1>1, <2>1, LeastNat
<1>3. j \in 1 .. Len(f)
  BY <1>2
<1>40. PICK v \in Ups(f, j) : \E l \in v .. j : ~(f[l].root = f[j].root /\ (l # v => v \in Ups(f, l)))
  BY <1>2
<1>4. PICK l \in v .. j : ~(f[l].root = f[j].root /\ (l # v => v \in Ups(f, l)))
  BY <1>40
<1>5. Ups(f, j) = {f[j].up} \cup Ups(f, f[j].up) /\ f[j].up \in 1 .. j - 1
  <2>1. Ups(f, j) = IF f[j].up = 0 THEN {} ELSE {f[j].up} \cup Ups(f, f[j].up)
    BY <1>3, UpsAre
  <2>2. f[j].up \in 0 .. j - 1
    BY <1>3 DEF Rising
  <2>3. Ups(f, j) # {}
    BY <1>4
  <2> HIDE DEF fine, Bad
  <2> QED BY <1>3, <2>1, <2>2, <2>3
<1>6. j # 1 /\ f[j - 1].root = f[j].root /\ f[j].up \in {j - 1} \cup Ups(f, j - 1)
  <2>1. j \in Positions(f) /\ f[j].up # 0
    BY <1>3, <1>5
  <2>2. IF j = 1 \/ f[j - 1].root # f[j].root THEN f[j].up = 0 ELSE f[j].up \in {0, j - 1} \cup Ups(f, j - 1)
    BY <2>1 DEF Preorder
  <2> QED BY <2>1, <2>2
<1>7. j - 1 \in 1 .. Len(f) /\ fine(j - 1)
  <2>1. j - 1 \in 1 .. Len(f) /\ j - 1 < j
    BY <1>3, <1>6
  <2>2. j - 1 \notin Bad
    <3> HIDE DEF Bad
    <3> QED BY <1>2, <1>3, <2>1
  <2> QED BY <2>1, <2>2
<1>8. v = j - 1 \/ v \in Ups(f, j - 1)
  <2>1. CASE f[j].up = j - 1
    BY <1>4, <1>5, <2>1
  <2>2. CASE f[j].up \in Ups(f, j - 1)
    BY <1>4, <1>5, <1>7, <2>2, UpsOfUps
  <2> QED BY <1>6, <2>1, <2>2
<1>9. CASE l = j
  BY <1>4, <1>9
<1>10. CASE l # j
  <2>1. v \in 1 .. j - 1 /\ l \in v .. j - 1
    BY <1>3, <1>4, <1>10, UpsAreEarlier
  <2>2. CASE v = j - 1
    BY <1>4, <1>6, <2>1, <2>2
  <2>3. CASE v \in Ups(f, j - 1)
    BY <1>4, <1>6, <1>7, <2>1, <2>3
  <2> QED BY <1>8, <2>2, <2>3
<1> QED BY <1>9, <1>10

\* The rows of a root stand together.
Together(f, i) ==
  \E lo \in 1 .. i, hi \in i .. Len(f) :
    \A j \in 1 .. Len(f) : f[j].root = f[i].root <=> j \in lo .. hi

LEMMA RootsStand ==
  ASSUME NEW f, Preorder(f), NEW i \in 1 .. Len(f)
  PROVE  Together(f, i)
<1> USE DEF Together
<1> Rising(f) /\ Positions(f) = 1 .. Len(f) /\ Len(f) \in Nat
  BY PreorderRises DEF Rising
<1> DEFINE S == {j \in 1 .. Len(f) : f[j].root = f[i].root}
<1>1. i \in S /\ S \in SUBSET Nat /\ \A m \in S : m <= Len(f)
  OBVIOUS
<1>2. Least(S) \in S /\ Greatest(S) \in S /\ \A m \in S : Least(S) <= m /\ m <= Greatest(S)
  <2> HIDE DEF S
  <2>1. Least(S) \in S /\ \A m \in S : Least(S) <= m
    BY <1>1, LeastIs
  <2>2. Greatest(S) \in S /\ \A m \in S : m <= Greatest(S)
    BY <1>1, GreatestIs
  <2> QED BY <2>1, <2>2
<1>3. ASSUME NEW a \in S, NEW b \in S, NEW j \in a .. b PROVE f[j].root = f[i].root
  <2> SUFFICES ASSUME f[j].root # f[i].root PROVE FALSE
    OBVIOUS
  <2>1. a \in 1 .. j - 1 /\ j \in 1 .. b - 1 /\ j \in 1 .. Len(f) /\ f[a].root = f[i].root /\ f[b].root = f[i].root
    BY <1>3
  <2>2. \A m \in 1 .. Len(f) : \A l \in 1 .. m - 1 : f[l].root # f[m].root => f[l].root = "a"
    BY DEF Preorder
  <2>3. f[j].root = "a" /\ f[a].root = "a"
    BY <2>1, <2>2
  <2> QED BY <2>1, <2>3
<1>4. \A j \in 1 .. Len(f) : f[j].root = f[i].root <=> j \in Least(S) .. Greatest(S)
  <2> TAKE j \in 1 .. Len(f)
  <2>1. f[j].root = f[i].root => j \in S
    OBVIOUS
  <2>2. j \in Least(S) .. Greatest(S) => f[j].root = f[i].root
    <3> HIDE DEF S
    <3> QED BY <1>2, <1>3
  <2> HIDE DEF S
  <2> QED BY <1>1, <1>2, <2>1, <2>2
<1>5. Least(S) \in 1 .. i /\ Greatest(S) \in i .. Len(f)
  BY <1>1, <1>2
<1> HIDE DEF S
<1> QED BY <1>4, <1>5

-----------------------------------------------------------------------------
(* The forest, encoded.                                                    *)

\* The positions of a root's rows.
Stands(f, root, lo, hi) ==
  /\ lo \in 1 .. Len(f) /\ hi \in lo .. Len(f)
  /\ \A j \in 1 .. Len(f) : f[j].root = root <=> j \in lo .. hi

Place(f, i) == Cardinality({j \in Positions(f) : j < i /\ f[j].root = f[i].root})
RowAt(f, root, p) == CHOOSE i \in Positions(f) : f[i].root = root /\ Place(f, i) = p
DrawnLevels(f, root) ==
  [p \in 0 .. Cardinality({i \in Positions(f) : f[i].root = root}) - 1 |-> Level(f, RowAt(f, root, p))]
RowFor(f, i) ==
  LET ls == DrawnLevels(f, f[i].root) IN
  [at |-> i, root |-> f[i].root, pre |-> Place(f, i), level |-> ls[Place(f, i)],
   parent |-> DerivedParent(ls, Place(f, i)), size |-> DerivedSize(ls, Place(f, i)),
   element |-> f[i].element, says |-> f[i].says]

LEMMA EncodedIs ==
  ASSUME NEW f
  PROVE  Encoded(f) = {RowFor(f, i) : i \in Positions(f)}
BY DEF Encoded, RowFor, DrawnLevels, RowAt, Place, Level

\* The rows before one of its root fill the places from 0.
LEMMA PlaceIs ==
  ASSUME NEW f, Preorder(f), NEW root, NEW lo, NEW hi, Stands(f, root, lo, hi), NEW j \in lo .. hi
  PROVE  Place(f, j) = j - lo
<1> Positions(f) = 1 .. Len(f) /\ Len(f) \in Nat
  BY PreorderRises DEF Rising
<1>0. lo \in Nat /\ hi \in Nat /\ 1 <= lo /\ lo <= hi /\ hi <= Len(f)
  BY DEF Stands
<1>1. {k \in Positions(f) : k < j /\ f[k].root = f[j].root} = lo .. j - 1
  BY <1>0 DEF Stands
<1>2. lo \in Int /\ j - 1 \in Int
  BY <1>0
<1>3. Cardinality(lo .. j - 1) = IF lo > j - 1 THEN 0 ELSE j - 1 - lo + 1
  BY <1>2, FS_Interval
<1>4. Place(f, j) = Cardinality(lo .. j - 1)
  BY <1>1 DEF Place
<1>5. IF lo > j - 1 THEN 0 = j - lo ELSE j - 1 - lo + 1 = j - lo
  BY <1>0
<1> QED BY <1>3, <1>4, <1>5

\* A root's rows are at 0, 1, ... of it, and their levels are ones P13 lets through.
LEMMA PlacesAre ==
  ASSUME NEW f, Preorder(f), NEW root, NEW lo, NEW hi, Stands(f, root, lo, hi)
  PROVE  /\ \A j \in lo .. hi : Place(f, j) = j - lo
         /\ DrawnLevels(f, root) = [p \in 0 .. hi - lo |-> Level(f, lo + p)]
         /\ Stepwise(DrawnLevels(f, root), hi - lo + 1)
<1> Rising(f) /\ Positions(f) = 1 .. Len(f) /\ Len(f) \in Nat
  BY PreorderRises DEF Rising
<1>0. lo \in Nat /\ hi \in Nat /\ 1 <= lo /\ lo <= hi /\ hi <= Len(f)
  BY DEF Stands
<1>1. ASSUME NEW j \in lo .. hi PROVE Place(f, j) = j - lo
  BY PlaceIs
<1>2. ASSUME NEW p \in 0 .. hi - lo PROVE RowAt(f, root, p) = lo + p
  <2>1. lo + p \in lo .. hi /\ lo + p \in Positions(f)
    BY <1>0
  <2>2. f[lo + p].root = root /\ Place(f, lo + p) = p
    <3> DEFINE i == lo + p
    <3>1. i \in lo .. hi /\ i - lo = p
      BY <1>0, <2>1
    <3> HIDE DEF i
    <3>2. Place(f, i) = p
      BY <1>1, <3>1
    <3>3. f[i].root = root
      BY <1>0, <3>1 DEF Stands
    <3> QED BY <3>2, <3>3 DEF i
  <2>3. ASSUME NEW i \in Positions(f), f[i].root = root, Place(f, i) = p PROVE i = lo + p
    <3>1. i \in lo .. hi
      BY <2>3 DEF Stands
    <3> QED BY <1>0, <1>1, <2>3, <3>1
  <2> QED BY <2>1, <2>2, <2>3 DEF RowAt
<1>3. Cardinality({i \in Positions(f) : f[i].root = root}) = hi - lo + 1
  <2>1. {i \in Positions(f) : f[i].root = root} = lo .. hi
    BY <1>0 DEF Stands
  <2>2. lo \in Int /\ hi \in Int
    BY <1>0
  <2>3. Cardinality(lo .. hi) = IF lo > hi THEN 0 ELSE hi - lo + 1
    BY <2>2, FS_Interval
  <2>4. ~ (lo > hi)
    BY <1>0
  <2> QED BY <2>1, <2>3, <2>4
<1> DEFINE ls == DrawnLevels(f, root)
<1>4. ls = [p \in 0 .. hi - lo |-> Level(f, lo + p)]
  <2>1. Cardinality({i \in Positions(f) : f[i].root = root}) - 1 = hi - lo
    BY <1>0, <1>3
  <2>2. ls = [p \in 0 .. hi - lo |-> Level(f, RowAt(f, root, p))]
    BY <2>1 DEF DrawnLevels
  <2> QED BY <1>2, <2>2
<1> HIDE DEF ls
<1>5. \A j \in 1 .. Len(f) : Level(f, j) \in Nat
  BY LevelIs
<1>6. Level(f, lo) = 0
  <2>1. lo \in Positions(f) /\ f[lo].root = root
    BY <1>0 DEF Stands
  <2>2. lo = 1 \/ f[lo - 1].root # f[lo].root
    BY <1>0, <2>1 DEF Stands
  <2>3. f[lo].up = 0
    BY <2>1, <2>2 DEF Preorder
  <2> QED BY <2>1, <2>3, LevelIs
<1>7. ASSUME NEW j \in lo + 1 .. hi PROVE Level(f, j) <= Level(f, j - 1) + 1
  <2>1. j \in 1 .. Len(f) /\ j - 1 \in 1 .. Len(f) /\ j # 1 /\ f[j].root = root /\ f[j - 1].root = root
    BY <1>0 DEF Stands
  <2>2. f[j].up \in {0, j - 1} \cup Ups(f, j - 1)
    BY <2>1 DEF Preorder
  <2>3. Level(f, j) = IF f[j].up = 0 THEN 0 ELSE Level(f, f[j].up) + 1
    BY <2>1, LevelIs
  <2>4. CASE f[j].up = 0
    BY <1>5, <2>1, <2>3, <2>4
  <2>5. CASE f[j].up # 0 /\ f[j].up = j - 1
    BY <1>5, <2>1, <2>3, <2>5
  <2>6. CASE f[j].up # 0 /\ f[j].up \in Ups(f, j - 1)
    <3>1. f[j].up \in 1 .. Len(f) /\ Level(f, f[j].up) < Level(f, j - 1)
      BY <2>1, <2>6, LevelsGrow DEF Rising
    <3>2. Level(f, f[j].up) \in Nat /\ Level(f, j - 1) \in Nat
      BY <1>5, <2>1, <3>1
    <3> QED BY <2>3, <2>6, <3>1, <3>2
  <2> QED BY <2>2, <2>4, <2>5, <2>6
<1>8. Stepwise(ls, hi - lo + 1)
  <2>1. hi - lo + 1 \in Nat \ {0} /\ hi - lo + 1 - 1 = hi - lo
    BY <1>0
  <2>2. \A p \in 0 .. hi - lo : lo + p \in 1 .. Len(f)
    BY <1>0
  <2>3. ls \in [0 .. hi - lo -> Nat]
    BY <1>4, <1>5, <2>2
  <2>4. 0 \in 0 .. hi - lo /\ lo + 0 = lo
    BY <1>0
  <2>5. ls[0] = 0
    BY <1>4, <1>6, <2>4
  <2>6. ASSUME NEW p \in 1 .. hi - lo PROVE ls[p] <= ls[p - 1] + 1
    <3> DEFINE j == lo + p
    <3>1. p \in 0 .. hi - lo /\ p - 1 \in 0 .. hi - lo /\ j \in lo + 1 .. hi /\ lo + (p - 1) = j - 1
      BY <1>0
    <3>2. ls[p] = Level(f, j) /\ ls[p - 1] = Level(f, lo + (p - 1))
      BY <1>4, <3>1
    <3> HIDE DEF j
    <3> QED BY <1>7, <3>1, <3>2
  <2> DEFINE n == hi - lo + 1
  <2>7. n \in Nat \ {0} /\ n - 1 = hi - lo
    BY <1>0, <2>1
  <2> HIDE DEF n
  <2>8. Stepwise(ls, n)
    BY <2>3, <2>5, <2>6, <2>7 DEF Stepwise
  <2> QED BY <2>8 DEF n
<1> QED BY <1>1, <1>4, <1>8 DEF ls

\* The parent derived from the levels is the row above.
LEMMA ParentIsUp ==
  ASSUME NEW f, Preorder(f), NEW root, NEW lo, NEW hi, Stands(f, root, lo, hi), NEW i \in lo .. hi
  PROVE  LET p == DerivedParent(DrawnLevels(f, root), i - lo) IN
         IF f[i].up = 0 THEN p = NULL ELSE f[i].up \in lo .. i - 1 /\ p = f[i].up - lo
<1> Rising(f) /\ Positions(f) = 1 .. Len(f) /\ Len(f) \in Nat
  BY PreorderRises DEF Rising
<1> DEFINE ls == DrawnLevels(f, root)
<1> DEFINE n == hi - lo + 1
<1> DEFINE q == DerivedParent(ls, i - lo)
<1>0. lo \in Nat /\ hi \in Nat /\ 1 <= lo /\ lo <= hi /\ hi <= Len(f) /\ i \in Nat /\ i \in 1 .. Len(f)
  BY DEF Stands
<1>1. /\ ls = [p \in 0 .. hi - lo |-> Level(f, lo + p)]
      /\ Stepwise(ls, n)
  BY PlacesAre
<1> HIDE DEF ls
<1>2. ASSUME NEW j \in lo .. hi PROVE j - lo \in 0 .. hi - lo /\ ls[j - lo] = Level(f, j)
  <2>1. j - lo \in 0 .. hi - lo /\ lo + (j - lo) = j
    BY <1>0
  <2> QED BY <1>1, <2>1
<1>3. IF ls[i - lo] = 0 THEN q = NULL
      ELSE /\ q \in 0 .. i - lo - 1 /\ ls[q] = ls[i - lo] - 1
           /\ \A k \in q + 1 .. i - lo : ls[k] >= ls[i - lo]
  <2> DEFINE x == i - lo
  <2>0. Stepwise(ls, n)
    BY <1>1
  <2>1. x \in 0 .. n - 1
    BY <1>0
  <2> HIDE DEF n, x, q
  <2>2. IF ls[x] = 0 THEN DerivedParent(ls, x) = NULL
        ELSE /\ DerivedParent(ls, x) \in 0 .. x - 1 /\ ls[DerivedParent(ls, x)] = ls[x] - 1
             /\ \A k \in DerivedParent(ls, x) + 1 .. x : ls[k] >= ls[x]
    BY <2>0, <2>1, ParentIs
  <2> QED BY <2>2 DEF x, q
<1> HIDE DEF q
<1>4. Level(f, i) \in Nat /\ Level(f, i) = IF f[i].up = 0 THEN 0 ELSE Level(f, f[i].up) + 1
  BY <1>0, LevelIs
<1>5. CASE f[i].up = 0
  BY <1>2, <1>3, <1>4, <1>5 DEF q, ls
<1>6. CASE f[i].up # 0
  <2> DEFINE u == f[i].up
  <2>1. u \in Ups(f, i) /\ u \in 1 .. i - 1
    <3>1. Ups(f, i) = IF f[i].up = 0 THEN {} ELSE {f[i].up} \cup Ups(f, f[i].up)
      BY <1>0, UpsAre
    <3>2. f[i].up \in 0 .. i - 1
      BY <1>0 DEF Rising
    <3> QED BY <1>0, <1>6, <3>1, <3>2
  <2>2. \A k \in u .. i : f[k].root = f[i].root /\ (k # u => u \in Ups(f, k))
    <3> HIDE DEF u
    <3> QED BY <1>0, <2>1, BetweenIsBelow
  <2> HIDE DEF u
  <2>3. u \in lo .. i - 1
    <3>1. f[i].root = root /\ u \in u .. i /\ u \in 1 .. Len(f)
      BY <1>0, <2>1 DEF Stands
    <3>2. f[u].root = root
      BY <2>2, <3>1
    <3> QED BY <1>0, <2>1, <3>1, <3>2 DEF Stands
  <2>4. Level(f, u) \in Nat /\ Level(f, i) = Level(f, u) + 1
    BY <1>0, <1>4, <1>6, <2>1, LevelIs DEF u
  <2>5. ls[i - lo] # 0 /\ ls[i - lo] = Level(f, i) /\ ls[u - lo] = Level(f, u)
    BY <1>0, <1>2, <2>3, <2>4
  <2>6. q \in 0 .. i - lo - 1 /\ ls[q] = Level(f, u) /\ \A k \in q + 1 .. i - lo : ls[k] > Level(f, u)
    <3>1. q \in 0 .. i - lo - 1 /\ ls[q] = Level(f, u)
      BY <1>3, <2>4, <2>5
    <3>2. ASSUME NEW k \in q + 1 .. i - lo PROVE ls[k] > Level(f, u)
      <4>1. ls[k] >= Level(f, i)
        BY <1>3, <2>5, <3>2
      <4>2. lo + k \in lo .. hi /\ lo + k - lo = k /\ lo + k \in 1 .. Len(f)
        BY <1>0, <3>1
      <4>3. ls[k] \in Nat
        BY <1>0, <1>1, <3>1 DEF Stepwise
      <4> QED BY <2>4, <4>1, <4>3
    <3> QED BY <3>1, <3>2
  <2>7. ASSUME q < u - lo PROVE FALSE
    <3>1. u - lo \in q + 1 .. i - lo
      BY <1>0, <2>3, <2>6, <2>7
    <3>2. ls[u - lo] > Level(f, u)
      BY <2>6, <3>1
    <3> QED BY <2>4, <2>5, <3>2
  <2>8. ASSUME q > u - lo PROVE FALSE
    <3> DEFINE k == lo + q
    <3>1. k \in u .. i /\ k # u /\ k \in lo .. hi /\ k - lo = q /\ k \in 1 .. Len(f)
      BY <1>0, <2>3, <2>6, <2>8
    <3> HIDE DEF k
    <3>2. u \in Ups(f, k)
      BY <2>2, <3>1
    <3>3. Level(f, u) < Level(f, k) /\ ls[q] = Level(f, k)
      BY <1>2, <3>1, <3>2, LevelsGrow
    <3> QED BY <2>4, <2>6, <3>3
  <2>9. q = u - lo
    BY <1>0, <2>3, <2>6, <2>7, <2>8
  <2> QED BY <1>6, <2>3, <2>9 DEF q, ls, u
<1> QED BY <1>5, <1>6

\* The derived size spans the rows below, and they only.
LEMMA SizeIsSubtree ==
  ASSUME NEW f, Preorder(f), NEW root, NEW lo, NEW hi, Stands(f, root, lo, hi), NEW i \in lo .. hi
  PROVE  LET z == DerivedSize(DrawnLevels(f, root), i - lo) IN
         /\ z \in 0 .. hi - i
         /\ \A j \in lo .. hi : j \in i + 1 .. i + z <=> i \in Ups(f, j)
<1> Rising(f) /\ Positions(f) = 1 .. Len(f) /\ Len(f) \in Nat
  BY PreorderRises DEF Rising
<1> DEFINE ls == DrawnLevels(f, root)
<1> DEFINE n == hi - lo + 1
<1> DEFINE z == DerivedSize(ls, i - lo)
<1>0. lo \in Nat /\ hi \in Nat /\ 1 <= lo /\ lo <= hi /\ hi <= Len(f) /\ i \in Nat /\ i \in 1 .. Len(f)
  BY DEF Stands
<1>1. /\ ls = [p \in 0 .. hi - lo |-> Level(f, lo + p)]
      /\ Stepwise(ls, n)
  BY PlacesAre
<1> HIDE DEF ls
<1>2. ASSUME NEW j \in lo .. hi
      PROVE  j - lo \in 0 .. hi - lo /\ ls[j - lo] = Level(f, j) /\ j \in 1 .. Len(f) /\ Level(f, j) \in Nat
  <2>1. j - lo \in 0 .. hi - lo /\ lo + (j - lo) = j /\ j \in 1 .. Len(f)
    BY <1>0
  <2> QED BY <1>1, <2>1, LevelIs
<1>3. /\ z \in 0 .. n - 1 - (i - lo)
      /\ i - lo + z + 1 <= n - 1 => ls[i - lo + z + 1] <= ls[i - lo]
  <2>1. i - lo \in 0 .. n - 1
    BY <1>0
  <2> HIDE DEF n
  <2> QED BY <1>1, <2>1, SizeIs
<1>4. z \in 0 .. hi - i
  BY <1>0, <1>3
<1>5. ASSUME NEW r \in i + 1 .. i + z
      PROVE  f[r].up \in i .. r - 1
  <2>1. r \in lo .. hi /\ r - lo \in (i - lo) + 1 .. (i - lo) + z /\ r - lo \in 0 .. n - 1 /\ i - lo \in 0 .. n - 1
    BY <1>0, <1>4
  <2>2. DerivedParent(ls, r - lo) \in i - lo .. (i - lo) + z /\ DerivedParent(ls, r - lo) < r - lo
    <3> HIDE DEF n
    <3> QED BY <1>1, <2>1, IntervalIsClosed, NullAssumption
  <2>3. IF f[r].up = 0 THEN DerivedParent(ls, r - lo) = NULL
        ELSE f[r].up \in lo .. r - 1 /\ DerivedParent(ls, r - lo) = f[r].up - lo
    BY <2>1, ParentIsUp DEF ls
  <2>4. i - lo .. (i - lo) + z \subseteq Int
    BY <1>0, <1>4
  <2>5. f[r].up # 0
    BY <2>2, <2>3, <2>4, NullAssumption
  <2>6. f[r].up \in lo .. r - 1 /\ f[r].up - lo \in i - lo .. (i - lo) + z
    BY <2>2, <2>3, <2>5
  <2> HIDE DEF z
  <2> QED BY <1>0, <1>4, <2>6
<1> HIDE DEF z
<1> DEFINE Bad == {j \in i + 1 .. i + z : i \notin Ups(f, j)}
<1>6. Bad = {}
  <2>1. SUFFICES ASSUME Bad # {} PROVE FALSE
    OBVIOUS
  <2>2. PICK j \in Bad : \A m \in Bad : j <= m
    <3>1. Bad \in SUBSET Nat
      BY <1>0, <1>4
    <3> HIDE DEF Bad
    <3> QED BY <2>1, <3>1, LeastNat
  <2>3. j \in i + 1 .. i + z /\ i \notin Ups(f, j) /\ j \in 1 .. Len(f) /\ f[j].up \in i .. j - 1 /\ f[j].up # 0
    BY <1>0, <1>4, <1>5, <2>2
  <2>4. Ups(f, j) = {f[j].up} \cup Ups(f, f[j].up)
    BY <2>3, UpsAre
  <2>5. f[j].up \in i + 1 .. i + z /\ f[j].up < j
    BY <1>0, <1>4, <2>3, <2>4
  <2>6. f[j].up \in Bad
    BY <2>3, <2>4, <2>5
  <2>7. ~ (j <= f[j].up)
    <3>1. j \in Int /\ f[j].up \in i .. j - 1
      BY <2>3
    <3> QED BY <1>0, <3>1
  <2> HIDE DEF Bad
  <2> QED BY <2>2, <2>6, <2>7
<1>7. ASSUME NEW j \in lo .. hi, i \in Ups(f, j) PROVE j \in i + 1 .. i + z
  <2>1. i \in 1 .. j - 1 /\ j \in 1 .. Len(f)
    BY <1>2, <1>7, UpsAreEarlier
  <2>2. SUFFICES ASSUME j > i + z PROVE FALSE
    BY <1>0, <1>4, <2>1
  <2> DEFINE k == i + z + 1
  <2>3. k \in i .. j /\ k # i /\ k \in lo .. hi /\ k - lo = i - lo + z + 1 /\ i - lo + z + 1 <= n - 1
    BY <1>0, <1>4, <2>1, <2>2
  <2> HIDE DEF k
  <2>4. i \in Ups(f, k)
    BY <1>7, <2>1, <2>3, BetweenIsBelow
  <2>5. Level(f, i) < Level(f, k)
    BY <1>2, <2>3, <2>4, LevelsGrow
  <2>6. ls[k - lo] <= ls[i - lo]
    BY <1>3, <2>3
  <2> QED BY <1>0, <1>2, <2>3, <2>5, <2>6
<1>8. \A j \in lo .. hi : j \in i + 1 .. i + z <=> i \in Ups(f, j)
  <2>1. \A j \in i + 1 .. i + z : i \in Ups(f, j)
    BY <1>6
  <2> QED BY <1>7, <2>1
<1> QED BY <1>4, <1>8 DEF z, ls

\* What the rows of one root say of each other.
LEMMA RowsShow ==
  ASSUME NEW f, Preorder(f), NEW i \in 1 .. Len(f), NEW j \in 1 .. Len(f)
  PROVE  LET a == RowFor(f, i)  b == RowFor(f, j) IN
         /\ a.at = i /\ a.root = f[i].root /\ a.element = f[i].element /\ a.says = f[i].says
         /\ a.pre \in 0 .. i - 1 /\ a.size \in Nat /\ i + a.size <= Len(f)
         /\ a.pre = 0 <=> (i = 1 \/ f[i - 1].root # f[i].root)
         /\ a.parent = NULL \/ a.parent \in Nat
         /\ a.parent = NULL <=> f[i].up = 0
         /\ f[i].root = f[j].root =>
              /\ b.pre - a.pre = j - i
              /\ a.parent = b.parent <=> f[i].up = f[j].up
              /\ b.pre = a.parent <=> f[i].up = j
              /\ j \in i + 1 .. i + a.size <=> i \in Ups(f, j)
<1> Rising(f) /\ Positions(f) = 1 .. Len(f) /\ Len(f) \in Nat
  BY PreorderRises DEF Rising
<1> DEFINE root == f[i].root
<1> DEFINE ls == DrawnLevels(f, root)
<1>1. Together(f, i)
  BY RootsStand
<1>2. PICK lo \in 1 .. i, hi \in i .. Len(f) : \A k \in 1 .. Len(f) : f[k].root = root <=> k \in lo .. hi
  BY <1>1, Zenon DEF Together
<1>3. Stands(f, root, lo, hi) /\ lo \in Nat /\ hi \in Nat /\ lo <= i /\ i <= hi /\ hi <= Len(f) /\ 1 <= lo
  BY <1>2 DEF Stands
<1> HIDE DEF root, ls
<1>4. \A k \in lo .. hi :
        /\ Place(f, k) = k - lo /\ k \in 1 .. Len(f) /\ f[k].root = root
        /\ IF f[k].up = 0 THEN DerivedParent(ls, k - lo) = NULL
           ELSE f[k].up \in lo .. k - 1 /\ DerivedParent(ls, k - lo) = f[k].up - lo
  <2> TAKE k \in lo .. hi
  <2>1. Place(f, k) = k - lo
    BY <1>3, PlaceIs
  <2>2. k \in 1 .. Len(f) /\ f[k].root = root
    BY <1>2, <1>3
  <2>3. IF f[k].up = 0 THEN DerivedParent(ls, k - lo) = NULL
        ELSE f[k].up \in lo .. k - 1 /\ DerivedParent(ls, k - lo) = f[k].up - lo
    BY <1>3, ParentIsUp, Zenon DEF ls
  <2> QED BY <2>1, <2>2, <2>3
<1> DEFINE z == DerivedSize(ls, i - lo)
<1>5. z \in 0 .. hi - i /\ \A k \in lo .. hi : k \in i + 1 .. i + z <=> i \in Ups(f, k)
  <2>1. i \in lo .. hi
    BY <1>3
  <2> QED BY <1>3, <2>1, SizeIsSubtree DEF ls
<1> HIDE DEF z
<1> DEFINE a == RowFor(f, i)
<1>6. /\ a.at = i /\ a.root = root /\ a.element = f[i].element /\ a.says = f[i].says
      /\ a.pre = i - lo /\ a.size = z /\ a.parent = DerivedParent(ls, i - lo)
  <2>1. Place(f, i) = i - lo
    BY <1>3, <1>4
  <2> QED BY <2>1 DEF RowFor, root, ls, z
<1>7. a.pre = 0 <=> (i = 1 \/ f[i - 1].root # f[i].root)
  <2>1. i = lo <=> i = 1 \/ f[i - 1].root # root
    <3>1. CASE i = 1
      BY <1>3, <3>1
    <3>2. CASE i # 1
      <4>1. i - 1 \in 1 .. Len(f)
        BY <3>2
      <4>2. f[i - 1].root = root <=> i - 1 \in lo .. hi
        BY <1>2, <4>1
      <4> QED BY <1>3, <3>2, <4>2
    <3> QED BY <3>1, <3>2
  <2> HIDE DEF a
  <2> QED BY <1>3, <1>6, <2>1 DEF root
<1>8. (a.parent = NULL \/ a.parent \in Nat) /\ (a.parent = NULL <=> f[i].up = 0)
  <2>1. i \in lo .. hi
    BY <1>3
  <2> HIDE DEF a
  <2>2. CASE f[i].up = 0
    BY <1>4, <1>6, <2>1, <2>2
  <2>3. CASE f[i].up # 0
    <3>1. f[i].up \in lo .. i - 1 /\ a.parent = f[i].up - lo
      BY <1>4, <1>6, <2>1, <2>3
    <3>2. a.parent \in Nat
      BY <1>3, <3>1
    <3> QED BY <2>3, <3>2, NullAssumption
  <2> QED BY <2>2, <2>3
<1> DEFINE b == RowFor(f, j)
<1>9. ASSUME f[j].root = root
      PROVE  /\ b.pre - a.pre = j - i
             /\ a.parent = b.parent <=> f[i].up = f[j].up
             /\ b.pre = a.parent <=> f[i].up = j
             /\ j \in i + 1 .. i + a.size <=> i \in Ups(f, j)
  <2>1. i \in lo .. hi /\ j \in lo .. hi
    BY <1>2, <1>3, <1>9
  <2>2. b.pre = j - lo /\ b.parent = DerivedParent(ls, j - lo)
    BY <1>4, <1>9, <2>1 DEF RowFor, ls
  <2> HIDE DEF a, b
  <2>3. /\ IF f[i].up = 0 THEN a.parent = NULL ELSE f[i].up \in lo .. i - 1 /\ a.parent = f[i].up - lo
        /\ IF f[j].up = 0 THEN b.parent = NULL ELSE f[j].up \in lo .. j - 1 /\ b.parent = f[j].up - lo
    BY <1>4, <1>6, <2>1, <2>2
  <2>4. b.pre - a.pre = j - i
    BY <1>3, <1>6, <2>2
  <2>5. a.parent = b.parent <=> f[i].up = f[j].up
    <3>1. f[i].up # 0 => a.parent \in Nat
      BY <1>3, <2>3
    <3>2. f[j].up # 0 => b.parent \in Nat
      BY <1>3, <2>3
    <3>3. NULL \notin Nat
      BY NullAssumption
    <3>4. ASSUME NEW x \in Int, NEW y \in Int PROVE x - lo = y - lo <=> x = y
      BY <1>3
    <3>5. ASSUME f[i].up # 0, f[j].up # 0 PROVE a.parent = b.parent <=> f[i].up = f[j].up
      <4>1. f[i].up \in Int /\ f[j].up \in Int
        BY <2>3, <3>5
      <4>2. a.parent = f[i].up - lo /\ b.parent = f[j].up - lo
        BY <2>3, <3>5
      <4> QED BY <3>4, <4>1, <4>2, Zenon
    <3> QED BY <2>3, <3>1, <3>2, <3>3, <3>5
  <2>6. b.pre = a.parent <=> f[i].up = j
    <3>1. CASE f[i].up = 0
      <4>1. b.pre \in Int /\ j # 0
        BY <1>3, <2>1, <2>2
      <4> QED BY <2>3, <3>1, <4>1, NullAssumption
    <3>2. CASE f[i].up # 0
      <4>1. ASSUME NEW x \in Int PROVE j - lo = x - lo <=> x = j
        BY <1>3
      <4>2. f[i].up \in Int /\ a.parent = f[i].up - lo
        BY <1>3, <2>3, <3>2
      <4> QED BY <2>2, <4>1, <4>2
    <3> QED BY <3>1, <3>2
  <2> QED BY <1>5, <1>6, <2>1, <2>4, <2>5, <2>6
<1>10. a.pre \in 0 .. i - 1 /\ a.size \in Nat /\ i + a.size <= Len(f)
  <2> HIDE DEF a
  <2>1. z \in Nat /\ i + z <= Len(f)
    BY <1>3, <1>5
  <2>2. i - lo \in 0 .. i - 1
    BY <1>3
  <2> QED BY <1>6, <2>1, <2>2
<1> HIDE DEF a, b
<1> QED BY <1>6, <1>7, <1>8, <1>9, <1>10 DEF a, b, root

\* The same, a row at a time ...
LEMMA RowStands ==
  ASSUME NEW f, Preorder(f), NEW i \in 1 .. Len(f)
  PROVE  /\ RowFor(f, i).root = f[i].root /\ RowFor(f, i).pre \in Nat
         /\ RowFor(f, i).size \in Nat /\ i + RowFor(f, i).size <= Len(f)
<1> DEFINE a == RowFor(f, i)
<1>1. Len(f) \in Nat
  BY PreorderRises DEF Rising
<1>2. a.root = f[i].root /\ a.pre \in 0 .. i - 1 /\ a.size \in Nat /\ i + a.size <= Len(f)
  BY RowsShow
<1> HIDE DEF a
<1>3. a.pre \in Nat
  BY <1>1, <1>2
<1> QED BY <1>2, <1>3 DEF a

\* ... and two rows of one root.
LEMMA RowsStand ==
  ASSUME NEW f, Preorder(f), NEW i \in 1 .. Len(f), NEW j \in 1 .. Len(f), f[i].root = f[j].root
  PROVE  /\ RowFor(f, j).pre - RowFor(f, i).pre = j - i
         /\ RowFor(f, i).parent = RowFor(f, j).parent <=> f[i].up = f[j].up
         /\ RowFor(f, j).pre = RowFor(f, i).parent <=> f[i].up = j
         /\ j \in i + 1 .. i + RowFor(f, i).size <=> i \in Ups(f, j)
BY RowsShow

-----------------------------------------------------------------------------
(* Siblings.                                                               *)

Spans(f, i) == RowFor(f, i).size

\* Behind its subtree stands a row's next sibling, when it has one.
LEMMA NextStands ==
  ASSUME NEW f, Preorder(f), NEW i \in 1 .. Len(f), NEW j \in 1 .. Len(f), Kin(f, i, j), i < j
  PROVE  i + Spans(f, i) + 1 \in i + 1 .. j /\ Kin(f, i, i + Spans(f, i) + 1)
<1> Rising(f) /\ Positions(f) = 1 .. Len(f) /\ Len(f) \in Nat
  BY PreorderRises DEF Rising
<1> DEFINE z == Spans(f, i)
<1> DEFINE k == i + z + 1
<1> DEFINE u == f[i].up
<1> DEFINE w == f[k].up
<1>1. z \in Nat /\ i + z <= Len(f)
  BY RowsShow DEF Spans
<1>2. \A l \in 1 .. Len(f) : f[l].root = f[i].root => (l \in i + 1 .. i + z <=> i \in Ups(f, l))
  BY RowsShow DEF Spans
<1> HIDE DEF z
<1>3. f[j].up = u /\ f[j].root = f[i].root
  BY DEF Kin
<1>4. /\ \A l \in 1 .. Len(f) : f[l].up \in 0 .. l - 1
      /\ \A l \in 1 .. Len(f) : Ups(f, l) = IF f[l].up = 0 THEN {} ELSE {f[l].up} \cup Ups(f, f[l].up)
  BY UpsAre DEF Rising
<1>5. \A l \in 1 .. Len(f) : Ups(f, l) \subseteq 1 .. l - 1
  BY UpsAreEarlier
<1>6. i \notin Ups(f, j)
  <2>1. Ups(f, j) = Ups(f, i)
    BY <1>3, <1>4
  <2>2. i \notin 1 .. i - 1
    OBVIOUS
  <2> QED BY <1>5, <2>1, <2>2
<1>7. j > i + z
  BY <1>1, <1>2, <1>3, <1>6
<1>8. k \in i + 1 .. j /\ k \in 1 .. Len(f) /\ k - 1 \in 1 .. Len(f) /\ k # 1
  BY <1>1, <1>7
<1> HIDE DEF k
<1>9. \A l \in i .. j : f[l].root = f[i].root
  <2> TAKE l \in i .. j
  <2>1. Together(f, i)
    BY RootsStand
  <2>2. PICK lo \in 1 .. i, hi \in i .. Len(f) : \A m \in 1 .. Len(f) : f[m].root = f[i].root <=> m \in lo .. hi
    BY <2>1, Zenon DEF Together
  <2> QED BY <1>3, <2>2
<1>10. i \notin Ups(f, k)
  BY <1>1, <1>2, <1>8, <1>9 DEF k
<1>11. k - 1 = i \/ i \in Ups(f, k - 1)
  <2>1. k - 1 \in i .. j /\ (k - 1 # i => k - 1 \in i + 1 .. i + z)
    BY <1>1, <1>8 DEF k
  <2> QED BY <1>2, <1>8, <1>9, <2>1
<1>12. w \in {0, k - 1} \cup Ups(f, k - 1)
  <2>1. f[k - 1].root = f[k].root
    BY <1>8, <1>9
  <2> QED BY <1>8, <2>1 DEF Preorder
<1>13. w # 0 => Ups(f, k) = {w} \cup Ups(f, w)
  BY <1>4, <1>8
<1>14. w # k - 1
  BY <1>8, <1>10, <1>11, <1>13
<1>15. w = 0 \/ w \in Ups(f, i)
  <2> SUFFICES ASSUME w # 0, k - 1 # i PROVE w \in Ups(f, i)
    BY <1>11, <1>12, <1>14
  <2>1. w \in Ups(f, k - 1) /\ i \in Ups(f, k - 1) /\ w \in 1 .. k - 2 /\ i \in 1 .. k - 2
    <3>1. w \in Ups(f, k - 1) /\ i \in Ups(f, k - 1) /\ Ups(f, k - 1) \subseteq 1 .. k - 1 - 1
      BY <1>5, <1>8, <1>11, <1>12, <1>14
    <3> QED BY <1>8, <3>1
  <2>2. w # i
    BY <1>10, <1>13
  <2>3. CASE w > i
    <3>1. w \in i .. k - 1
      BY <1>8, <2>1, <2>3
    <3>2. i \in Ups(f, w)
      BY <1>8, <2>1, <2>3, <3>1, BetweenIsBelow
    <3> QED BY <1>10, <1>13, <3>2
  <2>4. CASE w < i
    <3>1. i \in w .. k - 1
      BY <1>8, <2>1, <2>4
    <3> QED BY <1>8, <2>1, <2>4, <3>1, BetweenIsBelow
  <2> QED BY <1>8, <2>1, <2>2, <2>3, <2>4
<1>16. w = u
  <2>1. CASE u = 0
    BY <1>4, <1>15, <2>1
  <2>2. CASE u # 0
    <3>1. u \in Ups(f, j) /\ u \in 1 .. i - 1 /\ u \in 1 .. Len(f)
      <4>1. u \in 0 .. i - 1
        BY <1>4
      <4>2. Ups(f, j) = {u} \cup Ups(f, u)
        BY <1>3, <1>4, <2>2
      <4> HIDE DEF u
      <4> QED BY <2>2, <4>1, <4>2
    <3>2. u \in Ups(f, k)
      <4>1. k \in u .. j /\ k # u
        BY <1>8, <3>1
      <4> QED BY <3>1, <4>1, BetweenIsBelow
    <3>3. w # 0
      BY <1>4, <1>8, <3>2
    <3>4. w = u \/ w \in Ups(f, u)
      BY <1>4, <1>15, <2>2, <3>3
    <3>5. u = w \/ u \in Ups(f, w)
      BY <1>13, <3>2, <3>3
    <3>6. w \in 1 .. Len(f)
      BY <1>4, <1>8, <3>3
    <3> HIDE DEF u, w
    <3>7. Ups(f, u) \subseteq 1 .. u - 1 /\ Ups(f, w) \subseteq 1 .. w - 1
      BY <1>5, <3>1, <3>6
    <3>8. (w \in Ups(f, u) => w < u) /\ (u \in Ups(f, w) => u < w)
      BY <3>1, <3>6, <3>7
    <3> QED BY <3>1, <3>4, <3>5, <3>6, <3>8
  <2> QED BY <2>1, <2>2
<1>17. k # i
  BY <1>8
<1> QED BY <1>8, <1>9, <1>16, <1>17 DEF k, z, Kin

\* Among elements only, the next sibling is the one behind the subtree.
LEMMA NextIs ==
  ASSUME NEW f, Preorder(f), \A k \in 1 .. Len(f) : f[k].element,
         NEW i \in 1 .. Len(f), NEW j \in 1 .. Len(f), Kin(f, i, j)
  PROVE  j = i + Spans(f, i) + 1 <=> i < j /\ Between(f, i, j) = {}
<1> Positions(f) = 1 .. Len(f) /\ Len(f) \in Nat
  BY PreorderRises DEF Rising
<1>1. Spans(f, i) \in Nat
  BY RowsShow DEF Spans
<1>2. ASSUME j = i + Spans(f, i) + 1, NEW l \in Between(f, i, j) PROVE FALSE
  <2>1. l \in 1 .. Len(f) /\ Kin(f, i, l) /\ i < l /\ l < j
    BY DEF Between
  <2>2. i + Spans(f, i) + 1 \in i + 1 .. l
    BY <2>1, NextStands
  <2> QED BY <1>1, <1>2, <2>1, <2>2
<1>3. ASSUME i < j, Between(f, i, j) = {} PROVE j = i + Spans(f, i) + 1
  <2> DEFINE k == i + Spans(f, i) + 1
  <2>1. k \in i + 1 .. j /\ Kin(f, i, k)
    BY <1>3, NextStands
  <2> HIDE DEF k
  <2>2. k \in 1 .. Len(f) /\ i < k /\ k \notin Between(f, i, j)
    BY <1>3, <2>1
  <2>3. ~ (k < j)
    BY <2>1, <2>2 DEF Between
  <2> QED BY <2>1, <2>3 DEF k
<1>4. j = i + Spans(f, i) + 1 => i < j
  BY <1>1
<1> QED BY <1>2, <1>3, <1>4

LEMMA EncodedCount ==
  ASSUME NEW f, Preorder(f)
  PROVE  Cardinality(Encoded(f)) = Len(f)
<1> Positions(f) = 1 .. Len(f) /\ Len(f) \in Nat
  BY PreorderRises DEF Rising
<1> DEFINE R == Encoded(f)
<1>1. R = {RowFor(f, i) : i \in 1 .. Len(f)}
  BY EncodedIs
<1>2. \A i \in 1 .. Len(f) : RowFor(f, i).at = i
  BY DEF RowFor
<1> DEFINE at == [r \in R |-> r.at]
<1> HIDE DEF R
<1>3. at \in [R -> 1 .. Len(f)] /\ (\A x, y \in R : at[x] = at[y] => x = y)
      /\ \A b \in 1 .. Len(f) : \E x \in R : at[x] = b
  BY <1>1, <1>2
<1>4. IsFiniteSet(1 .. Len(f)) /\ Cardinality(1 .. Len(f)) = Len(f)
  <2>1. 1 \in Int /\ Len(f) \in Int
    OBVIOUS
  <2>2. IsFiniteSet(1 .. Len(f)) /\ Cardinality(1 .. Len(f)) = IF 1 > Len(f) THEN 0 ELSE Len(f) - 1 + 1
    BY <2>1, FS_Interval
  <2> QED BY <2>2
<1> HIDE DEF at
<1>5. Cardinality(R) = Cardinality(1 .. Len(f))
  BY <1>3, <1>4, SameCount
<1> QED BY <1>4, <1>5 DEF R

\* The rows that are siblings are kin, and each is an element when its position is.
LEMMA SiblingsAreKin ==
  ASSUME NEW f, Preorder(f), NEW i \in 1 .. Len(f), NEW j \in 1 .. Len(f)
  PROVE  /\ Siblings(RowFor(f, i), RowFor(f, j)) <=> Kin(f, i, j)
         /\ Kin(f, i, j) => RowFor(f, j).pre - RowFor(f, i).pre = j - i
         /\ RowFor(f, j).element = f[j].element
<1> DEFINE a == RowFor(f, i)
<1> DEFINE b == RowFor(f, j)
<1>1. /\ a.root = f[i].root /\ a.pre \in 0 .. i - 1 /\ b.root = f[j].root /\ b.pre \in 0 .. j - 1
      /\ b.element = f[j].element
      /\ f[i].root = f[j].root =>
           b.pre - a.pre = j - i /\ (a.parent = b.parent <=> f[i].up = f[j].up)
  BY RowsShow
<1> HIDE DEF a, b
<1>2. Siblings(a, b) <=> Kin(f, i, j)
  BY <1>1 DEF Siblings, SameRoot, Kin
<1>3. Kin(f, i, j) => b.pre - a.pre = j - i
  BY <1>1 DEF Kin
<1> QED BY <1>1, <1>2, <1>3 DEF a, b

Later(f, i)  == {k \in 1 .. Len(f) : Kin(f, i, k) /\ f[k].element /\ i < k}
Sooner(f, i) == {k \in 1 .. Len(f) : Kin(f, i, k) /\ f[k].element /\ k < i}

\* The window finds the nearest element siblings.
LEMMA WindowIs ==
  ASSUME NEW f, Preorder(f), NEW i \in 1 .. Len(f)
  PROVE  LET rows == Encoded(f)  a == RowFor(f, i) IN
         /\ IF Later(f, i) = {} THEN NextEl(rows, a) = NULL
            ELSE \E k \in Later(f, i) : NextEl(rows, a) = RowFor(f, k).pre /\ \A m \in Later(f, i) : k <= m
         /\ IF Sooner(f, i) = {} THEN PrevEl(rows, a) = NULL
            ELSE \E k \in Sooner(f, i) : PrevEl(rows, a) = RowFor(f, k).pre /\ \A m \in Sooner(f, i) : m <= k
<1> Positions(f) = 1 .. Len(f) /\ Len(f) \in Nat
  BY PreorderRises DEF Rising
<1> DEFINE rows == Encoded(f)
<1> DEFINE a == RowFor(f, i)
<1> DEFINE pre(k) == RowFor(f, k).pre
<1> DEFINE N == Len(f)
<1>1. rows = {RowFor(f, k) : k \in 1 .. N} /\ Cardinality(rows) = N
  BY EncodedIs, EncodedCount
<1>2. \A k \in 1 .. N : pre(k) \in 0 .. k - 1
  BY RowsShow
<1>3. \A k, l \in 1 .. N : Kin(f, k, l) => pre(l) - pre(k) = l - k
  BY SiblingsAreKin
<1> DEFINE sibs == {b.pre : b \in ElementSiblings(rows, a)}
<1>4. sibs = {pre(k) : k \in {l \in 1 .. N : Kin(f, i, l) /\ f[l].element}}
  <2>1. ASSUME NEW k \in 1 .. N PROVE (Siblings(a, RowFor(f, k)) /\ RowFor(f, k).element) <=> (Kin(f, i, k) /\ f[k].element)
    <3>1. /\ Siblings(RowFor(f, i), RowFor(f, k)) <=> Kin(f, i, k)
          /\ RowFor(f, k).element = f[k].element
      BY SiblingsAreKin
    <3> QED BY <3>1
  <2> HIDE DEF rows, a
  <2>2. ASSUME NEW b \in ElementSiblings(rows, a) PROVE \E k \in 1 .. N : b = RowFor(f, k) /\ Kin(f, i, k) /\ f[k].element
    <3>1. b \in rows /\ Siblings(a, b) /\ b.element
      BY DEF ElementSiblings
    <3>2. PICK k \in 1 .. N : b = RowFor(f, k)
      BY <1>1, <3>1
    <3> QED BY <2>1, <3>1, <3>2
  <2>3. ASSUME NEW k \in 1 .. N, Kin(f, i, k), f[k].element PROVE RowFor(f, k) \in ElementSiblings(rows, a)
    <3>1. RowFor(f, k) \in rows
      BY <1>1
    <3> QED BY <2>1, <2>3, <3>1 DEF ElementSiblings
  <2>4. ASSUME NEW p \in sibs PROVE \E k \in 1 .. N : p = pre(k) /\ Kin(f, i, k) /\ f[k].element
    <3>1. PICK b \in ElementSiblings(rows, a) : p = b.pre
      OBVIOUS
    <3>2. PICK k \in 1 .. N : b = RowFor(f, k) /\ Kin(f, i, k) /\ f[k].element
      BY <2>2
    <3> QED BY <3>1, <3>2
  <2>5. ASSUME NEW k \in 1 .. N, Kin(f, i, k), f[k].element PROVE pre(k) \in sibs
    BY <2>3, <2>5
  <2> HIDE DEF pre, sibs
  <2> QED BY <2>4, <2>5
<1>5. pre(i) = a.pre
  OBVIOUS
<1> DEFINE after == sibs \cap {p \in 0 .. Cardinality(rows) : p > a.pre}
<1> DEFINE before == sibs \cap {p \in 0 .. Cardinality(rows) : p < a.pre}
<1> HIDE DEF pre, rows, sibs, a
<1>6. after = {pre(k) : k \in Later(f, i)} /\ after \in SUBSET Nat
  <2>1. ASSUME NEW k \in 1 .. N, Kin(f, i, k) PROVE pre(k) \in 0 .. N /\ (pre(k) > a.pre <=> i < k)
    <3>1. pre(i) \in 0 .. i - 1 /\ pre(k) \in 0 .. k - 1
      BY <1>2
    <3>2. pre(k) - pre(i) = k - i
      BY <1>3, <2>1
    <3> QED BY <1>5, <3>1, <3>2
  <2>2. ASSUME NEW p \in after PROVE \E k \in Later(f, i) : p = pre(k)
    <3>1. p \in sibs /\ p > a.pre
      OBVIOUS
    <3>2. PICK k \in 1 .. N : p = pre(k) /\ Kin(f, i, k) /\ f[k].element
      BY <1>4, <3>1
    <3> QED BY <2>1, <3>1, <3>2 DEF Later
  <2>3. ASSUME NEW k \in Later(f, i) PROVE pre(k) \in after
    <3>1. k \in 1 .. N /\ Kin(f, i, k) /\ f[k].element /\ i < k
      BY DEF Later
    <3>2. pre(k) \in sibs
      BY <1>4, <3>1
    <3>3. pre(k) \in 0 .. N /\ pre(k) > a.pre
      BY <2>1, <3>1
    <3> QED BY <1>1, <3>2, <3>3
  <2>4. after \in SUBSET Nat
    BY <1>1
  <2> HIDE DEF after
  <2> QED BY <2>2, <2>3, <2>4
<1>7. before = {pre(k) : k \in Sooner(f, i)} /\ before \in SUBSET Nat
  <2>1. ASSUME NEW k \in 1 .. N, Kin(f, i, k) PROVE pre(k) \in 0 .. N /\ (pre(k) < a.pre <=> k < i)
    <3>1. pre(i) \in 0 .. i - 1 /\ pre(k) \in 0 .. k - 1
      BY <1>2
    <3>2. pre(k) - pre(i) = k - i
      BY <1>3, <2>1
    <3> QED BY <1>5, <3>1, <3>2
  <2>2. ASSUME NEW p \in before PROVE \E k \in Sooner(f, i) : p = pre(k)
    <3>1. p \in sibs /\ p < a.pre
      OBVIOUS
    <3>2. PICK k \in 1 .. N : p = pre(k) /\ Kin(f, i, k) /\ f[k].element
      BY <1>4, <3>1
    <3> QED BY <2>1, <3>1, <3>2 DEF Sooner
  <2>3. ASSUME NEW k \in Sooner(f, i) PROVE pre(k) \in before
    <3>1. k \in 1 .. N /\ Kin(f, i, k) /\ f[k].element /\ k < i
      BY DEF Sooner
    <3>2. pre(k) \in sibs
      BY <1>4, <3>1
    <3>3. pre(k) \in 0 .. N /\ pre(k) < a.pre
      BY <2>1, <3>1
    <3> QED BY <1>1, <3>2, <3>3
  <2>4. before \in SUBSET Nat
    BY <1>1
  <2> HIDE DEF before
  <2> QED BY <2>2, <2>3, <2>4
<1>8. ASSUME NEW k \in 1 .. N, NEW l \in 1 .. N, Kin(f, i, k), Kin(f, i, l), pre(k) <= pre(l) PROVE k <= l
  <2>1. pre(i) \in 0 .. i - 1 /\ pre(k) \in 0 .. k - 1 /\ pre(l) \in 0 .. l - 1
    BY <1>2
  <2>2. pre(k) - pre(i) = k - i /\ pre(l) - pre(i) = l - i
    BY <1>3, <1>8
  <2> QED BY <1>8, <2>1, <2>2
<1>9. NextEl(rows, a) = IF after = {} THEN NULL ELSE Least(after)
  BY DEF NextEl, sibs
<1>10. PrevEl(rows, a) = IF before = {} THEN NULL ELSE Greatest(before)
  BY DEF PrevEl, sibs
<1>11. IF Later(f, i) = {} THEN NextEl(rows, a) = NULL
       ELSE \E k \in Later(f, i) : NextEl(rows, a) = pre(k) /\ \A m \in Later(f, i) : k <= m
  <2> HIDE DEF after
  <2>1. CASE Later(f, i) = {}
    BY <1>6, <1>9, <2>1
  <2>2. CASE Later(f, i) # {}
    <3>1. after # {}
      BY <1>6, <2>2
    <3>2. Least(after) \in after /\ \A m \in after : Least(after) <= m
      BY <1>6, <3>1, LeastIs
    <3>3. PICK k \in Later(f, i) : Least(after) = pre(k)
      BY <1>6, <3>2
    <3>4. ASSUME NEW m \in Later(f, i) PROVE k <= m
      <4>1. pre(m) \in after
        BY <1>6
      <4>2. pre(k) <= pre(m)
        BY <3>2, <3>3, <4>1
      <4> QED BY <1>8, <4>2 DEF Later
    <3> QED BY <1>9, <2>2, <3>1, <3>3, <3>4
  <2> QED BY <2>1, <2>2
<1>12. IF Sooner(f, i) = {} THEN PrevEl(rows, a) = NULL
       ELSE \E k \in Sooner(f, i) : PrevEl(rows, a) = pre(k) /\ \A m \in Sooner(f, i) : m <= k
  <2>0. \A m \in before : m <= N
    BY <1>1
  <2> HIDE DEF before
  <2>1. CASE Sooner(f, i) = {}
    BY <1>7, <1>10, <2>1
  <2>2. CASE Sooner(f, i) # {}
    <3>1. before # {}
      BY <1>7, <2>2
    <3>2. Greatest(before) \in before /\ \A m \in before : m <= Greatest(before)
      BY <1>7, <2>0, <3>1, GreatestIs
    <3>3. PICK k \in Sooner(f, i) : Greatest(before) = pre(k)
      BY <1>7, <3>2
    <3>4. ASSUME NEW m \in Sooner(f, i) PROVE m <= k
      <4>1. pre(m) \in before
        BY <1>7
      <4>2. pre(m) <= pre(k)
        BY <3>2, <3>3, <4>1
      <4> QED BY <1>8, <4>2 DEF Sooner
    <3> QED BY <1>10, <2>2, <3>1, <3>3, <3>4
  <2> QED BY <2>1, <2>2
<1> QED BY <1>11, <1>12 DEF pre, rows, a

-----------------------------------------------------------------------------
(* The relations.                                                          *)

\* What a row is below is of its root.
LEMMA UpsInRoot ==
  ASSUME NEW f, Preorder(f), NEW i \in 1 .. Len(f), NEW u \in Ups(f, i)
  PROVE  u \in 1 .. i - 1 /\ f[u].root = f[i].root
<1>1. Rising(f) /\ Len(f) \in Nat
  BY PreorderRises DEF Rising
<1>2. u \in 1 .. i - 1 /\ u \in u .. i
  BY <1>1, UpsAreEarlier
<1> QED BY <1>2, BetweenIsBelow

\* A row is below the row above it.
LEMMA UpIsOfUps ==
  ASSUME NEW f, Preorder(f), NEW i \in 1 .. Len(f), f[i].up # 0
  PROVE  f[i].up \in Ups(f, i) /\ f[i].up \in 1 .. i - 1 /\ f[f[i].up].root = f[i].root
<1>1. Rising(f)
  BY PreorderRises
<1>2. f[i].up \in Ups(f, i)
  BY <1>1, UpsAre
<1> QED BY <1>2, UpsInRoot

\* The fragments on one and two rows are the forest's.
LEMMA PairIs ==
  ASSUME NEW f, Preorder(f), NEW i \in 1 .. Len(f), NEW j \in 1 .. Len(f)
  PROVE  LET a == RowFor(f, i)  b == RowFor(f, j) IN
         /\ Subtree(a, b)   <=> i \in Ups(f, j)
         /\ Ancestors(a, b) <=> j \in Ups(f, i)
         /\ Children(a, b)  <=> f[j].up = i
         /\ Parent(a, b)    <=> f[i].up = j
         /\ Self(a, b)      <=> i = j
         /\ After(a, b)     <=> Kin(f, i, j) /\ i < j /\ f[j].element
<1> Len(f) \in Nat /\ i \in Nat /\ j \in Nat
  BY PreorderRises DEF Rising
<1> DEFINE a == RowFor(f, i)
<1> DEFINE b == RowFor(f, j)
<1>1. a.root = f[i].root /\ a.pre \in Nat /\ a.size \in Nat /\ b.root = f[j].root /\ b.pre \in Nat /\ b.size \in Nat
  BY RowStands
<1>2. ASSUME f[i].root = f[j].root
      PROVE  /\ b.pre - a.pre = j - i
             /\ b.pre = a.parent <=> f[i].up = j
             /\ j \in i + 1 .. i + a.size <=> i \in Ups(f, j)
  BY <1>2, RowsStand
<1>3. ASSUME f[i].root = f[j].root
      PROVE  /\ a.pre - b.pre = i - j
             /\ a.pre = b.parent <=> f[j].up = i
             /\ i \in j + 1 .. j + b.size <=> j \in Ups(f, i)
  BY <1>3, RowsStand
<1>4. (Siblings(a, b) <=> Kin(f, i, j)) /\ b.element = f[j].element
  BY SiblingsAreKin
<1> HIDE DEF a, b
<1>0. a.pre \in Int /\ b.pre \in Int /\ a.size \in Int /\ b.size \in Int /\ i \in Int /\ j \in Int
  BY <1>1
<1>5. (i \in Ups(f, j) => f[i].root = f[j].root) /\ (j \in Ups(f, i) => f[i].root = f[j].root)
  BY UpsInRoot
<1>6. (f[j].up = i => f[i].root = f[j].root) /\ (f[i].up = j => f[i].root = f[j].root)
  BY UpIsOfUps
<1>7. Subtree(a, b) <=> i \in Ups(f, j)
  <2>1. CASE f[i].root = f[j].root
    <3>1. b.pre \in a.pre + 1 .. a.pre + a.size <=> j \in i + 1 .. i + a.size
      BY <1>0, <1>2, <2>1, AsFarWithin, Zenon
    <3> QED BY <1>1, <1>2, <2>1, <3>1 DEF Subtree, SameRoot
  <2>2. CASE f[i].root # f[j].root
    BY <1>1, <1>5, <2>2 DEF Subtree, SameRoot
  <2> QED BY <2>1, <2>2
<1>8. Ancestors(a, b) <=> j \in Ups(f, i)
  <2>1. CASE f[i].root = f[j].root
    <3>1. a.pre \in b.pre + 1 .. b.pre + b.size <=> i \in j + 1 .. j + b.size
      BY <1>0, <1>3, <2>1, AsFarWithin, Zenon
    <3> QED BY <1>1, <1>3, <2>1, <3>1 DEF Ancestors, Subtree, SameRoot
  <2>2. CASE f[i].root # f[j].root
    BY <1>1, <1>5, <2>2 DEF Ancestors, Subtree, SameRoot
  <2> QED BY <2>1, <2>2
<1>9. Children(a, b) <=> f[j].up = i
  BY <1>1, <1>3, <1>6 DEF Children, SameRoot
<1>10. Parent(a, b) <=> f[i].up = j
  BY <1>1, <1>2, <1>6 DEF Parent, SameRoot
<1>11. Self(a, b) <=> i = j
  <2>1. CASE f[i].root = f[j].root
    <3>1. a.pre = b.pre <=> i = j
      <4> DEFINE x == a.pre
      <4> DEFINE y == b.pre
      <4>1. x \in Int /\ y \in Int /\ y - x = j - i
        BY <1>0, <1>2, <2>1
      <4> HIDE DEF x, y
      <4>2. x = y <=> i = j
        BY <4>1
      <4> QED BY <4>2 DEF x, y
    <3> QED BY <1>1, <2>1, <3>1 DEF Self, SameRoot
  <2>2. CASE f[i].root # f[j].root
    BY <1>1, <2>2 DEF Self, SameRoot
  <2> QED BY <2>1, <2>2
<1>12. After(a, b) <=> Kin(f, i, j) /\ i < j /\ f[j].element
  <2>1. ASSUME Kin(f, i, j) PROVE b.pre > a.pre <=> i < j
    <3> DEFINE x == a.pre
    <3> DEFINE y == b.pre
    <3>1. x \in Int /\ y \in Int /\ y - x = j - i
      BY <1>0, <1>2, <2>1 DEF Kin
    <3> HIDE DEF x, y
    <3>2. y > x <=> i < j
      BY <3>1
    <3> QED BY <3>2 DEF x, y
  <2> QED BY <1>4, <2>1 DEF After
<1> QED BY <1>7, <1>8, <1>9, <1>10, <1>11, <1>12 DEF a, b

\* A row is before or after its kin, and as far in its partition as in the forest.
LEMMA KinStand ==
  ASSUME NEW f, Preorder(f), NEW i \in 1 .. Len(f), NEW j \in 1 .. Len(f), f[i].root = f[j].root
  PROVE  /\ RowFor(f, i).pre \in Nat /\ RowFor(f, j).pre \in Nat
         /\ RowFor(f, j).pre - RowFor(f, i).pre = j - i
         /\ RowFor(f, i).pre = RowFor(f, j).pre => i = j
<1>1. Len(f) \in Nat /\ i \in Nat /\ j \in Nat
  BY PreorderRises DEF Rising
<1>2. RowFor(f, i).pre \in 0 .. i - 1 /\ RowFor(f, j).pre \in 0 .. j - 1 /\ RowFor(f, j).pre - RowFor(f, i).pre = j - i
  BY RowsShow
<1> QED BY <1>1, <1>2

\* NEXT and PREVIOUS, through the window and by arithmetic.
LEMMA NextSiblingIs ==
  ASSUME NEW f, Preorder(f), NEW i \in 1 .. Len(f), NEW j \in 1 .. Len(f),
         NEW elem \in BOOLEAN, elem \/ \A k \in 1 .. Len(f) : f[k].element
  PROVE  NextSibling(Encoded(f), elem, RowFor(f, i), RowFor(f, j)) <=>
           Kin(f, i, j) /\ i < j /\ f[j].element /\ Between(f, i, j) = {}
<1> Positions(f) = 1 .. Len(f) /\ Len(f) \in Nat /\ i \in Nat /\ j \in Nat
  BY PreorderRises DEF Rising
<1> DEFINE a == RowFor(f, i)
<1> DEFINE b == RowFor(f, j)
<1> DEFINE nearest == NextEl(Encoded(f), a)
<1>1. Siblings(a, b) <=> Kin(f, i, j)
  BY SiblingsAreKin
<1>2. ASSUME Kin(f, i, j) PROVE a.pre \in Nat /\ b.pre \in Nat /\ b.pre - a.pre = j - i
  BY <1>2, KinStand DEF Kin
<1>3. NextSibling(Encoded(f), elem, a, b) <=> Siblings(a, b) /\ b.pre = IF elem THEN nearest ELSE a.pre + a.size + 1
  BY DEF NextSibling
<1>4. CASE elem
  <2>1. IF Later(f, i) = {} THEN nearest = NULL
        ELSE \E k \in Later(f, i) : nearest = RowFor(f, k).pre /\ \A m \in Later(f, i) : k <= m
    BY WindowIs
  <2> HIDE DEF nearest, a, b
  <2>2. ASSUME Kin(f, i, j), b.pre = nearest PROVE i < j /\ f[j].element /\ Between(f, i, j) = {}
    <3>1. Later(f, i) # {}
      BY <1>2, <2>1, <2>2, NullAssumption
    <3>2. PICK k \in Later(f, i) : nearest = RowFor(f, k).pre /\ \A m \in Later(f, i) : k <= m
      BY <2>1, <3>1
    <3>3. k \in 1 .. Len(f) /\ Kin(f, i, k) /\ f[k].element /\ i < k
      BY <3>2 DEF Later
    <3>4. k = j
      <4>1. f[k].root = f[j].root /\ RowFor(f, k).pre = RowFor(f, j).pre
        BY <2>2, <3>2, <3>3 DEF b, Kin
      <4> QED BY <3>3, <4>1, KinStand
    <3>5. \A m \in Between(f, i, j) : m \in Later(f, i) /\ m < j /\ m \in Nat
      BY DEF Between, Later
    <3> QED BY <3>2, <3>3, <3>4, <3>5
  <2>3. ASSUME Kin(f, i, j), i < j, f[j].element, Between(f, i, j) = {} PROVE b.pre = nearest
    <3>1. j \in Later(f, i)
      BY <2>3 DEF Later
    <3>2. PICK k \in Later(f, i) : nearest = RowFor(f, k).pre /\ \A m \in Later(f, i) : k <= m
      BY <2>1, <3>1
    <3>3. k <= j /\ k \in 1 .. Len(f) /\ Kin(f, i, k) /\ f[k].element /\ i < k
      BY <3>1, <3>2 DEF Later
    <3>4. ~(k < j)
      BY <2>3, <3>3 DEF Between
    <3> QED BY <3>2, <3>3, <3>4 DEF b
  <2> QED BY <1>1, <1>3, <1>4, <2>2, <2>3 DEF a, b
<1>5. CASE ~elem
  <2>1. Kin(f, i, j) => (j = i + a.size + 1 <=> i < j /\ Between(f, i, j) = {})
    BY <1>5, NextIs DEF Spans
  <2>2. a.size \in Nat
    BY RowStands
  <2> HIDE DEF a, b
  <2>3. ASSUME Kin(f, i, j) PROVE b.pre = a.pre + a.size + 1 <=> j = i + a.size + 1
    <3> DEFINE x == a.pre
    <3> DEFINE y == b.pre
    <3> DEFINE z == a.size
    <3>1. x \in Int /\ y \in Int /\ z \in Int /\ y - x = j - i
      BY <1>2, <2>2, <2>3
    <3> HIDE DEF x, y, z
    <3>2. y = x + z + 1 <=> j = i + z + 1
      BY <3>1
    <3> QED BY <3>2 DEF x, y, z
  <2> QED BY <1>1, <1>3, <1>5, <2>1, <2>3 DEF a, b
<1> QED BY <1>4, <1>5

LEMMA PrevSiblingIs ==
  ASSUME NEW f, Preorder(f), NEW i \in 1 .. Len(f), NEW j \in 1 .. Len(f),
         NEW elem \in BOOLEAN, elem \/ \A k \in 1 .. Len(f) : f[k].element
  PROVE  PrevSibling(Encoded(f), elem, RowFor(f, i), RowFor(f, j)) <=>
           Kin(f, i, j) /\ j < i /\ f[j].element /\ Between(f, j, i) = {}
<1> Positions(f) = 1 .. Len(f) /\ Len(f) \in Nat /\ i \in Nat /\ j \in Nat
  BY PreorderRises DEF Rising
<1> DEFINE a == RowFor(f, i)
<1> DEFINE b == RowFor(f, j)
<1> DEFINE nearest == PrevEl(Encoded(f), a)
<1>1. Siblings(a, b) <=> Kin(f, i, j)
  BY SiblingsAreKin
<1>2. ASSUME Kin(f, i, j) PROVE a.pre \in Nat /\ b.pre \in Nat /\ b.pre - a.pre = j - i
  BY <1>2, KinStand DEF Kin
<1>3. PrevSibling(Encoded(f), elem, a, b) <=> Siblings(a, b) /\ IF elem THEN b.pre = nearest ELSE a.pre = b.pre + b.size + 1
  BY DEF PrevSibling
<1>4. CASE elem
  <2>1. IF Sooner(f, i) = {} THEN nearest = NULL
        ELSE \E k \in Sooner(f, i) : nearest = RowFor(f, k).pre /\ \A m \in Sooner(f, i) : m <= k
    BY WindowIs
  <2> HIDE DEF nearest, a, b
  <2>2. ASSUME Kin(f, i, j), b.pre = nearest PROVE j < i /\ f[j].element /\ Between(f, j, i) = {}
    <3>1. Sooner(f, i) # {}
      BY <1>2, <2>1, <2>2, NullAssumption
    <3>2. PICK k \in Sooner(f, i) : nearest = RowFor(f, k).pre /\ \A m \in Sooner(f, i) : m <= k
      BY <2>1, <3>1
    <3>3. k \in 1 .. Len(f) /\ Kin(f, i, k) /\ f[k].element /\ k < i
      BY <3>2 DEF Sooner
    <3>4. k = j
      <4>1. f[k].root = f[j].root /\ RowFor(f, k).pre = RowFor(f, j).pre
        BY <2>2, <3>2, <3>3 DEF b, Kin
      <4> QED BY <3>3, <4>1, KinStand
    <3>5. \A m \in Between(f, j, i) : m \in Sooner(f, i) /\ j < m /\ m \in Nat
      BY <2>2 DEF Between, Sooner, Kin
    <3> QED BY <3>2, <3>3, <3>4, <3>5
  <2>3. ASSUME Kin(f, i, j), j < i, f[j].element, Between(f, j, i) = {} PROVE b.pre = nearest
    <3>1. j \in Sooner(f, i)
      BY <2>3 DEF Sooner
    <3>2. PICK k \in Sooner(f, i) : nearest = RowFor(f, k).pre /\ \A m \in Sooner(f, i) : m <= k
      BY <2>1, <3>1
    <3>3. j <= k /\ k \in 1 .. Len(f) /\ Kin(f, i, k) /\ f[k].element /\ k < i
      BY <3>1, <3>2 DEF Sooner
    <3>4. ~(j < k)
      BY <2>3, <3>3 DEF Between, Kin
    <3> QED BY <3>2, <3>3, <3>4 DEF b
  <2> QED BY <1>1, <1>3, <1>4, <2>2, <2>3 DEF a, b
<1>5. CASE ~elem
  <2>1. Kin(f, j, i) => (i = j + b.size + 1 <=> j < i /\ Between(f, j, i) = {})
    BY <1>5, NextIs DEF Spans
  <2>2. b.size \in Nat
    BY RowStands
  <2>3. Kin(f, i, j) <=> Kin(f, j, i)
    BY DEF Kin
  <2> HIDE DEF a, b
  <2>4. ASSUME Kin(f, i, j) PROVE a.pre = b.pre + b.size + 1 <=> i = j + b.size + 1
    <3> DEFINE x == a.pre
    <3> DEFINE y == b.pre
    <3> DEFINE z == b.size
    <3>1. x \in Int /\ y \in Int /\ z \in Int /\ y - x = j - i
      BY <1>2, <2>2, <2>4
    <3> HIDE DEF x, y, z
    <3>2. x = y + z + 1 <=> i = j + z + 1
      BY <3>1
    <3> QED BY <3>2 DEF x, y, z
  <2> QED BY <1>1, <1>3, <1>5, <2>1, <2>3, <2>4 DEF a, b
<1> QED BY <1>4, <1>5

\* A combinator holds between two rows when it means so.
LEMMA CombIs ==
  ASSUME NEW f, Preorder(f), NEW i \in 1 .. Len(f), NEW j \in 1 .. Len(f), NEW op \in Combinator,
         NEW elem \in BOOLEAN, elem \/ \A k \in 1 .. Len(f) : f[k].element
  PROVE  Comb(Encoded(f), elem, op, RowFor(f, i), RowFor(f, j)) <=> Means(f, op, i, j)
<1> DEFINE a == RowFor(f, i)
<1> DEFINE b == RowFor(f, j)
<1>1. /\ Subtree(a, b)   <=> i \in Ups(f, j)
      /\ Ancestors(a, b) <=> j \in Ups(f, i)
      /\ Children(a, b)  <=> f[j].up = i
      /\ Parent(a, b)    <=> f[i].up = j
      /\ Self(a, b)      <=> i = j
      /\ After(a, b)     <=> Kin(f, i, j) /\ i < j /\ f[j].element
  BY PairIs
<1>2. NextSibling(Encoded(f), elem, a, b) <=> Kin(f, i, j) /\ i < j /\ f[j].element /\ Between(f, i, j) = {}
  BY NextSiblingIs
<1>3. PrevSibling(Encoded(f), elem, a, b) <=> Kin(f, i, j) /\ j < i /\ f[j].element /\ Between(f, j, i) = {}
  BY PrevSiblingIs
<1> HIDE DEF a, b
<1>4. op \in {"desc", "child", "self", "next", "after", "parent", "ancestor", "prev"}
  BY DEF Combinator
<1>5. Comb(Encoded(f), elem, op, a, b) <=> Means(f, op, i, j)
  <2>1. CASE op = "desc"
    BY <1>1, <2>1 DEF Comb, Means
  <2>2. CASE op = "child"
    BY <1>1, <2>2 DEF Comb, Means
  <2>3. CASE op = "self"
    BY <1>1, <2>3 DEF Comb, Means
  <2>4. CASE op = "next"
    BY <1>2, <2>4 DEF Comb, Means
  <2>5. CASE op = "after"
    BY <1>1, <2>5 DEF Comb, Means
  <2>6. CASE op = "parent"
    BY <1>1, <2>6 DEF Comb, Means
  <2>7. CASE op = "ancestor"
    BY <1>1, <2>7 DEF Comb, Means
  <2>8. CASE op = "prev"
    BY <1>3, <2>8 DEF Comb, Means
  <2> QED BY <1>4, <2>1, <2>2, <2>3, <2>4, <2>5, <2>6, <2>7, <2>8
<1> QED BY <1>5 DEF a, b

\* The row behind another is the first below it, when anything is.
LEMMA FirstBelow ==
  ASSUME NEW f, Preorder(f), NEW i \in 1 .. Len(f), f[i].up # 0
  PROVE  LET u == f[i].up IN
         u + 1 \in 1 .. i /\ f[u + 1].up = u /\ f[u + 1].root = f[i].root
<1> DEFINE u == f[i].up
<1>0. Rising(f) /\ Len(f) \in Nat
  BY PreorderRises DEF Rising
<1>1. u \in Ups(f, i) /\ u \in 1 .. i - 1
  BY UpIsOfUps
<1> HIDE DEF u
<1>2. u + 1 \in u .. i /\ u + 1 # u /\ u + 1 \in 1 .. i /\ u + 1 \in 1 .. Len(f) /\ u \in Nat
  BY <1>0, <1>1
<1>3. f[u + 1].root = f[i].root /\ u \in Ups(f, u + 1)
  BY <1>1, <1>2, BetweenIsBelow
<1> DEFINE w == f[u + 1].up
<1>4. w # 0 /\ (u = w \/ u \in Ups(f, w))
  BY <1>0, <1>2, <1>3, UpsAre
<1>5. w \in 1 .. u + 1 - 1
  BY <1>2, <1>4, UpIsOfUps
<1> HIDE DEF w
<1>6. w \in 1 .. Len(f) /\ w <= u
  BY <1>0, <1>2, <1>5
<1>7. u \in Ups(f, w) => u <= w - 1
  BY <1>0, <1>6, UpsAreEarlier
<1>8. w = u
  BY <1>2, <1>4, <1>6, <1>7
<1> QED BY <1>2, <1>3, <1>8 DEF u, w

\* FIRST-CHILD, through the window and by arithmetic.
LEMMA FirstIs ==
  ASSUME NEW f, Preorder(f), NEW i \in 1 .. Len(f),
         NEW elem \in BOOLEAN, elem \/ \A k \in 1 .. Len(f) : f[k].element
  PROVE  FirstChild(Encoded(f), elem, RowFor(f, i)) <=> IsFirst(f, i)
<1> Positions(f) = 1 .. Len(f) /\ Len(f) \in Nat /\ i \in Nat
  BY PreorderRises DEF Rising
<1> DEFINE a == RowFor(f, i)
<1>1. a.element = f[i].element
  BY SiblingsAreKin
<1>2. CASE elem
  <2>1. IF Sooner(f, i) = {} THEN PrevEl(Encoded(f), a) = NULL
        ELSE \E k \in Sooner(f, i) : PrevEl(Encoded(f), a) = RowFor(f, k).pre /\ \A m \in Sooner(f, i) : m <= k
    BY WindowIs
  <2>2. \A k \in 1 .. Len(f) : RowFor(f, k).pre \in Nat
    BY KinStand
  <2> HIDE DEF a
  <2>3. PrevEl(Encoded(f), a) = NULL <=> Sooner(f, i) = {}
    BY <2>1, <2>2, NullAssumption DEF Sooner
  <2>4. Sooner(f, i) = {} <=> \A j \in Positions(f) : Kin(f, i, j) /\ f[j].element => i < j
    BY DEF Sooner, Kin
  <2> QED BY <1>1, <1>2, <2>3, <2>4 DEF FirstChild, IsFirst, a
<1>3. CASE ~elem
  <2>0. \A k \in 1 .. Len(f) : f[k].element
    BY <1>3
  <2>1. FirstChild(Encoded(f), elem, a) <=> IF a.parent = NULL THEN a.pre = 0 ELSE a.pre = a.parent + 1
    BY <1>3 DEF FirstChild
  <2>2. IsFirst(f, i) <=> \A j \in 1 .. Len(f) : Kin(f, i, j) => i < j
    BY <2>0 DEF IsFirst
  <2>3. CASE f[i].up = 0
    <3>1. a.parent = NULL /\ (a.pre = 0 <=> (i = 1 \/ f[i - 1].root # f[i].root))
      BY <2>3, RowsShow
    <3>2. ASSUME a.pre = 0, NEW j \in 1 .. Len(f), Kin(f, i, j) PROVE i < j
      <4>1. RowFor(f, i).pre \in Nat /\ RowFor(f, j).pre \in Nat /\ RowFor(f, j).pre - RowFor(f, i).pre = j - i
        BY <3>2, KinStand DEF Kin
      <4>2. i # j
        BY <3>2 DEF Kin
      <4> HIDE DEF RowFor
      <4> QED BY <3>2, <4>1, <4>2
    <3>3. ASSUME a.pre # 0 PROVE \E j \in 1 .. Len(f) : Kin(f, i, j) /\ ~(i < j)
      <4>1. i # 1 /\ f[i - 1].root = f[i].root
        BY <3>1, <3>3
      <4>11. Together(f, i)
        BY RootsStand
      <4>2. PICK lo \in 1 .. i, hi \in i .. Len(f) : \A j \in 1 .. Len(f) : f[j].root = f[i].root <=> j \in lo .. hi
        BY <4>11, Zenon DEF Together
      <4>3. i - 1 \in 1 .. Len(f)
        BY <4>1
      <4>4. i - 1 \in lo .. hi
        BY <4>1, <4>2, <4>3
      <4>5. lo \in 1 .. Len(f) /\ lo < i /\ f[lo].root = f[i].root
        BY <4>2, <4>4
      <4>6. lo = 1 \/ f[lo - 1].root # f[lo].root
        <5> SUFFICES ASSUME lo # 1, f[lo - 1].root = f[lo].root PROVE FALSE
          OBVIOUS
        <5>1. lo - 1 \in 1 .. Len(f)
          BY <4>5
        <5> QED BY <4>2, <4>5, <5>1
      <4>7. f[lo].up = 0
        BY <4>5, <4>6 DEF Preorder
      <4>8. Kin(f, i, lo)
        BY <2>3, <4>5, <4>7 DEF Kin
      <4> QED BY <4>5, <4>8
    <3> QED BY <2>1, <2>2, <3>1, <3>2, <3>3
  <2>4. CASE f[i].up # 0
    <3> DEFINE u == f[i].up
    <3>1. u \in 1 .. i - 1 /\ u \in 1 .. Len(f) /\ f[u].root = f[i].root
      BY <2>4, UpIsOfUps
    <3>2. u + 1 \in 1 .. i /\ f[u + 1].up = u /\ f[u + 1].root = f[i].root
      BY <2>4, FirstBelow
    <3>3. /\ a.parent # NULL
          /\ RowFor(f, u).pre = a.parent
      BY <2>4, <3>1, RowsShow
    <3>4. a.pre \in Nat /\ RowFor(f, u).pre \in Nat /\ a.pre - RowFor(f, u).pre = i - u
      BY <3>1, KinStand
    <3>5. a.pre = a.parent + 1 <=> i = u + 1
      <4> HIDE DEF a, u
      <4> QED BY <3>1, <3>3, <3>4
    <3>6. ASSUME i = u + 1, NEW j \in 1 .. Len(f), Kin(f, i, j) PROVE i < j
      <4>1. f[j].up = u /\ j # i
        BY <3>6 DEF Kin
      <4>2. u \in 1 .. j - 1
        BY <2>4, <4>1, UpIsOfUps
      <4> QED BY <3>1, <3>6, <4>1, <4>2
    <3>7. i # u + 1 => Kin(f, i, u + 1) /\ ~(i < u + 1) /\ u + 1 \in 1 .. Len(f)
      BY <3>1, <3>2 DEF Kin
    <3> HIDE DEF a, u
    <3>8. FirstChild(Encoded(f), elem, a) <=> i = u + 1
      BY <2>1, <3>3, <3>5
    <3>9. IsFirst(f, i) <=> i = u + 1
      BY <2>2, <3>6, <3>7
    <3> QED BY <3>8, <3>9 DEF a
  <2> QED BY <2>3, <2>4
<1> QED BY <1>2, <1>3

\* LAST-CHILD.
LEMMA LastIs ==
  ASSUME NEW f, Preorder(f), NEW i \in 1 .. Len(f),
         NEW elem \in BOOLEAN, elem \/ \A k \in 1 .. Len(f) : f[k].element
  PROVE  LastChild(Encoded(f), elem, RowFor(f, i)) <=> IsLast(f, i)
<1> Positions(f) = 1 .. Len(f) /\ Len(f) \in Nat /\ i \in Nat
  BY PreorderRises DEF Rising
<1> DEFINE a == RowFor(f, i)
<1>1. a.element = f[i].element
  BY SiblingsAreKin
<1>2. CASE elem
  <2>1. IF Later(f, i) = {} THEN NextEl(Encoded(f), a) = NULL
        ELSE \E k \in Later(f, i) : NextEl(Encoded(f), a) = RowFor(f, k).pre /\ \A m \in Later(f, i) : k <= m
    BY WindowIs
  <2>2. \A k \in 1 .. Len(f) : RowFor(f, k).pre \in Nat
    BY KinStand
  <2> HIDE DEF a
  <2>3. NextEl(Encoded(f), a) = NULL <=> Later(f, i) = {}
    BY <2>1, <2>2, NullAssumption DEF Later
  <2>4. Later(f, i) = {} <=> \A j \in Positions(f) : Kin(f, i, j) /\ f[j].element => j < i
    BY DEF Later, Kin
  <2> QED BY <1>1, <1>2, <2>3, <2>4 DEF LastChild, IsLast, a
<1>3. CASE ~elem
  <2>0. \A k \in 1 .. Len(f) : f[k].element
    BY <1>3
  <2> DEFINE behind(x) == SameRoot(a, x) /\ x.pre = a.pre + a.size + 1 /\ x.parent = a.parent
  <2>1. LastChild(Encoded(f), elem, a) <=> ~ \E x \in Encoded(f) : behind(x)
    BY <1>3 DEF LastChild
  <2>2. IsLast(f, i) <=> \A j \in 1 .. Len(f) : Kin(f, i, j) => j < i
    BY <2>0 DEF IsLast
  <2>3. ASSUME NEW j \in 1 .. Len(f), Kin(f, i, j), ~(j < i) PROVE \E x \in Encoded(f) : behind(x)
    <3> DEFINE k == i + Spans(f, i) + 1
    <3>1. i < j
      BY <2>3 DEF Kin
    <3>2. k \in i + 1 .. j /\ Kin(f, i, k)
      BY <2>3, <3>1, NextStands
    <3>3. k \in 1 .. Len(f)
      <4> HIDE DEF k
      <4> QED BY <3>2
    <3>4. RowFor(f, k) \in Encoded(f)
      <4> HIDE DEF k
      <4> QED BY <3>3, EncodedIs
    <3>5. Siblings(a, RowFor(f, k)) /\ RowFor(f, k).pre - a.pre = k - i
      <4> HIDE DEF k
      <4> QED BY <3>2, <3>3, SiblingsAreKin
    <3>6. a.pre \in Nat /\ a.size \in Nat /\ RowFor(f, k).pre \in Nat
      <4> HIDE DEF k
      <4> QED BY <3>3, RowStands
    <3>7. k = i + a.size + 1
      BY DEF Spans
    <3> DEFINE x == a.pre
    <3> DEFINE y == RowFor(f, k).pre
    <3> DEFINE z == a.size
    <3> HIDE DEF k, a, behind
    <3>8. y = x + z + 1
      <4>1. x \in Int /\ y \in Int /\ z \in Int /\ k \in Int /\ y - x = k - i /\ k = i + z + 1
        BY <3>3, <3>5, <3>6, <3>7
      <4> HIDE DEF x, y, z
      <4> QED BY <4>1
    <3> USE DEF behind
    <3> QED BY <3>4, <3>5, <3>8 DEF Siblings
  <2>4. ASSUME NEW x \in Encoded(f), behind(x) PROVE \E j \in 1 .. Len(f) : Kin(f, i, j) /\ ~(j < i)
    <3>1. PICK k \in 1 .. Len(f) : x = RowFor(f, k)
      BY EncodedIs
    <3>2. x.root = f[k].root /\ a.root = f[i].root /\ a.size \in Nat
      BY <3>1, RowStands
    <3>3. f[i].root = f[k].root
      BY <2>4, <3>2 DEF SameRoot
    <3>4. f[i].up = f[k].up
      BY <2>4, <3>1, <3>3, RowsStand
    <3>5. a.pre \in Nat /\ x.pre \in Nat /\ x.pre - a.pre = k - i
      BY <3>1, <3>3, KinStand
    <3> HIDE DEF a
    <3>6. i < k
      BY <2>4, <3>2, <3>5
    <3> QED BY <3>3, <3>4, <3>6 DEF Kin
  <2> HIDE DEF behind, a
  <2> QED BY <2>1, <2>2, <2>3, <2>4 DEF a
<1> QED BY <1>2, <1>3

\* What a traversal is called among the combinators.
Traversed(name) ==
  CASE name = "children"     -> "child"
    [] name = "descendants"  -> "desc"
    [] name = "ancestors"    -> "ancestor"
    [] name = "parent"       -> "parent"
    [] name = "siblings"     -> "sibling"
    [] name = "next_sibling" -> "next"
    [] name = "prev_sibling" -> "prev"
    [] name = "first_child"  -> "child"
    [] name = "last_child"   -> "child"

\* A traversal reaches from one row to another what it means.
LEMMA ReachIs ==
  ASSUME NEW f, Preorder(f), NEW i \in 1 .. Len(f), NEW j \in 1 .. Len(f), NEW name \in Traversal
  PROVE  Reaches(Encoded(f), name, RowFor(f, i), RowFor(f, j)) <=>
           /\ Means(f, Traversed(name), i, j)
           /\ name = "first_child" => IsFirst(f, j)
           /\ name = "last_child"  => IsLast(f, j)
<1> DEFINE a == RowFor(f, i)
<1> DEFINE b == RowFor(f, j)
<1>1. /\ Subtree(a, b)   <=> i \in Ups(f, j)
      /\ Ancestors(a, b) <=> j \in Ups(f, i)
      /\ Children(a, b)  <=> f[j].up = i
      /\ Parent(a, b)    <=> f[i].up = j
  BY PairIs
<1>2. NextSibling(Encoded(f), TRUE, a, b) <=> Kin(f, i, j) /\ i < j /\ f[j].element /\ Between(f, i, j) = {}
  BY NextSiblingIs
<1>3. PrevSibling(Encoded(f), TRUE, a, b) <=> Kin(f, i, j) /\ j < i /\ f[j].element /\ Between(f, j, i) = {}
  BY PrevSiblingIs
<1>4. Siblings(a, b) <=> Kin(f, i, j)
  BY SiblingsAreKin
<1>5. FirstChild(Encoded(f), TRUE, b) <=> IsFirst(f, j)
  BY FirstIs
<1>6. LastChild(Encoded(f), TRUE, b) <=> IsLast(f, j)
  BY LastIs
<1> HIDE DEF a, b
<1>7. name \in {"children", "descendants", "ancestors", "parent", "siblings",
                "next_sibling", "prev_sibling", "first_child", "last_child"}
  BY DEF Traversal
<1>8. Reaches(Encoded(f), name, a, b) <=>
        /\ Means(f, Traversed(name), i, j)
        /\ name = "first_child" => IsFirst(f, j)
        /\ name = "last_child"  => IsLast(f, j)
  <2>1. CASE name = "children"
    BY <1>1, <2>1 DEF Reaches, Traversed, Means
  <2>2. CASE name = "descendants"
    BY <1>1, <2>2 DEF Reaches, Traversed, Means
  <2>3. CASE name = "ancestors"
    BY <1>1, <2>3 DEF Reaches, Traversed, Means
  <2>4. CASE name = "parent"
    BY <1>1, <2>4 DEF Reaches, Traversed, Means
  <2>5. CASE name = "siblings"
    BY <1>4, <2>5 DEF Reaches, Traversed, Means
  <2>6. CASE name = "next_sibling"
    BY <1>2, <2>6 DEF Reaches, Traversed, Means
  <2>7. CASE name = "prev_sibling"
    BY <1>3, <2>7 DEF Reaches, Traversed, Means
  <2>8. CASE name = "first_child"
    BY <1>1, <1>5, <2>8 DEF Reaches, Traversed, Means
  <2>9. CASE name = "last_child"
    BY <1>1, <1>6, <2>9 DEF Reaches, Traversed, Means
  <2> QED BY <1>7, <2>1, <2>2, <2>3, <2>4, <2>5, <2>6, <2>7, <2>8, <2>9
<1> QED BY <1>8 DEF a, b

\* An anchor names one row.
LEMMA NavIs ==
  ASSUME NEW f, Preorder(f), NEW i \in 1 .. Len(f), NEW name \in Traversal
  PROVE  LET a == RowFor(f, i) IN
         {b.at : b \in Nav(Encoded(f), name, a.root, a.pre)} =
           {j \in Positions(f) : Reaches(Encoded(f), name, a, RowFor(f, j))}
<1> Positions(f) = 1 .. Len(f)
  BY PreorderRises
<1> DEFINE rows == Encoded(f)
<1> DEFINE a == RowFor(f, i)
<1> DEFINE found == Nav(rows, name, a.root, a.pre)
<1>1. rows = {RowFor(f, k) : k \in 1 .. Len(f)}
  BY EncodedIs
<1>2. \A k \in 1 .. Len(f) : RowFor(f, k).at = k /\ RowFor(f, k).root = f[k].root
  BY RowsShow
<1>3. \A x \in rows : x.root = a.root /\ x.pre = a.pre => x = a
  <2> SUFFICES ASSUME NEW k \in 1 .. Len(f), RowFor(f, k).root = a.root, RowFor(f, k).pre = a.pre PROVE RowFor(f, k) = a
    BY <1>1
  <2>1. f[k].root = f[i].root
    BY <1>2
  <2>2. k = i
    BY <2>1, KinStand
  <2> QED BY <2>2
<1>4. a \in rows
  BY <1>1
<1> HIDE DEF rows, a
<1>5. \A b : b \in found <=> b \in rows /\ Reaches(rows, name, a, b)
  BY <1>3, <1>4 DEF Nav
<1> HIDE DEF found
<1>6. ASSUME NEW j \in {b.at : b \in found} PROVE j \in 1 .. Len(f) /\ Reaches(rows, name, a, RowFor(f, j))
  <2>1. PICK b \in found : j = b.at
    OBVIOUS
  <2>2. PICK k \in 1 .. Len(f) : b = RowFor(f, k)
    BY <1>1, <1>5, <2>1
  <2>3. j = k
    BY <1>2, <2>1, <2>2
  <2> QED BY <1>5, <2>1, <2>2, <2>3
<1>7. ASSUME NEW j \in 1 .. Len(f), Reaches(rows, name, a, RowFor(f, j)) PROVE j \in {b.at : b \in found}
  <2>1. RowFor(f, j) \in found
    BY <1>1, <1>5, <1>7
  <2> QED BY <1>2, <2>1
<1>8. {b.at : b \in found} = {j \in Positions(f) : Reaches(rows, name, a, RowFor(f, j))}
  BY <1>6, <1>7
<1> QED BY <1>8 DEF found, rows, a

\* A combinator's rows are those it means.
LEMMA CombinedIs ==
  ASSUME NEW f, Preorder(f), NEW i \in 1 .. Len(f), NEW op \in Combinator,
         NEW elem \in BOOLEAN, elem \/ \A k \in 1 .. Len(f) : f[k].element
  PROVE  {b.at : b \in {x \in Encoded(f) : Comb(Encoded(f), elem, op, RowFor(f, i), x)}}
           = {j \in Positions(f) : Means(f, op, i, j)}
<1> Positions(f) = 1 .. Len(f)
  BY PreorderRises
<1> DEFINE rows == Encoded(f)
<1> DEFINE holds(x) == Comb(rows, elem, op, RowFor(f, i), x)
<1>1. rows = {RowFor(f, k) : k \in 1 .. Len(f)}
  BY EncodedIs
<1>2. \A k \in 1 .. Len(f) : RowFor(f, k).at = k
  BY RowsShow
<1>3. \A k \in 1 .. Len(f) : holds(RowFor(f, k)) <=> Means(f, op, i, k)
  BY CombIs
<1> DEFINE found == {x \in rows : holds(x)}
<1> HIDE DEF rows, holds
<1>4. ASSUME NEW j \in {b.at : b \in found} PROVE j \in 1 .. Len(f) /\ Means(f, op, i, j)
  <2>1. PICK b \in found : j = b.at
    OBVIOUS
  <2>2. PICK k \in 1 .. Len(f) : b = RowFor(f, k)
    BY <1>1, <2>1
  <2> QED BY <1>2, <1>3, <2>1, <2>2
<1>5. ASSUME NEW j \in 1 .. Len(f), Means(f, op, i, j) PROVE j \in {b.at : b \in found}
  <2>1. RowFor(f, j) \in found
    BY <1>1, <1>3, <1>5
  <2> QED BY <1>2, <2>1
<1>6. {b.at : b \in found} = {j \in Positions(f) : Means(f, op, i, j)}
  BY <1>4, <1>5
<1> QED BY <1>6 DEF rows, holds

-----------------------------------------------------------------------------
(* Every forest that is drawn is in preorder.                              *)

LEMMA DrawnInPreorder ==
  ASSUME Preorder(forest), [Next]_vars
  PROVE  Preorder(forest')
<1>1. CASE UNCHANGED vars
  BY <1>1 DEF vars
<1>2. CASE AddNode
  BY <1>2 DEF AddNode
<1>3. CASE AddRow
  <2> DEFINE f == forest
  <2> DEFINE g == forest'
  <2> DEFINE n == Len(f)
  <2>1. PICK root \in {"a", "b"}, up \in 0 .. n, look \in Looks :
          /\ IF f = <<>> THEN root = "a" /\ up = 0
             ELSE \/ root = Last(f).root /\ up \in {0, n} \cup Ups(f, n)
                  \/ root = "b" /\ Last(f).root = "a" /\ up = 0
          /\ g = Append(f, [root |-> root, up |-> up, element |-> look.element, says |-> look.says])
    BY <1>3 DEF AddRow
  <2> DEFINE row == [root |-> root, up |-> up, element |-> look.element, says |-> look.says]
  <2>2. IsList(f) /\ Rising(f) /\ Positions(f) = 1 .. n /\ n \in Nat /\ f = forest
    BY PreorderRises DEF Rising
  <2>3. /\ row.root = root /\ row.up = up /\ row.element = look.element /\ look.element \in BOOLEAN
    BY LooksAssumption
  <2> HIDE DEF row
  <2>4. g = Append(f, row)
    BY <2>1 DEF row
  <2> HIDE DEF f, g
  <2>5. /\ IsList(g) /\ Len(g) = n + 1 /\ Positions(g) = 1 .. n + 1 /\ g[n + 1] = row
        /\ \A i \in 1 .. n : g[i] = f[i]
    BY <2>2, <2>4, ListAppends DEF Positions
  <2>6. Rising(g)
    <3>1. ASSUME NEW i \in 1 .. n + 1 PROVE g[i].up \in 0 .. i - 1
      <4>1. CASE i = n + 1
        BY <2>1, <2>2, <2>3, <2>5, <4>1
      <4>2. CASE i # n + 1
        BY <2>2, <2>5, <4>2 DEF Rising
      <4> QED BY <4>1, <4>2
    <3> QED BY <2>2, <2>5, <3>1 DEF Rising, Positions
  <2>7. \A i \in 1 .. n : Ups(g, i) = Ups(f, i)
    BY <2>2, <2>5, <2>6, UpsStay
  <2>8. Preorder(f)
    BY DEF f
  <2>9. \A i \in 1 .. n :
          /\ f[i].root \in {"a", "b"} /\ f[i].element \in BOOLEAN /\ f[i].up \in 0 .. i - 1
          /\ \A j \in 1 .. i - 1 : f[j].root # f[i].root => f[j].root = "a"
          /\ IF i = 1 \/ f[i - 1].root # f[i].root THEN f[i].up = 0
             ELSE f[i].up \in {0, i - 1} \cup Ups(f, i - 1)
    BY <2>2, <2>8 DEF Preorder
  <2> DEFINE good(i) ==
        /\ g[i].root \in {"a", "b"} /\ g[i].element \in BOOLEAN /\ g[i].up \in 0 .. i - 1
        /\ \A j \in 1 .. i - 1 : g[j].root # g[i].root => g[j].root = "a"
        /\ IF i = 1 \/ g[i - 1].root # g[i].root THEN g[i].up = 0
           ELSE g[i].up \in {0, i - 1} \cup Ups(g, i - 1)
  <2>10. ASSUME NEW i \in 1 .. n PROVE good(i)
    <3>1. /\ g[i] = f[i] /\ (i # 1 => i - 1 \in 1 .. n /\ g[i - 1] = f[i - 1] /\ Ups(g, i - 1) = Ups(f, i - 1))
          /\ \A j \in 1 .. i - 1 : g[j] = f[j]
      BY <2>2, <2>5, <2>7
    <3>2. /\ g[i].root \in {"a", "b"} /\ g[i].element \in BOOLEAN /\ g[i].up \in 0 .. i - 1
          /\ \A j \in 1 .. i - 1 : g[j].root # g[i].root => g[j].root = "a"
      <4>1. /\ f[i].root \in {"a", "b"} /\ f[i].element \in BOOLEAN /\ f[i].up \in 0 .. i - 1
            /\ \A j \in 1 .. i - 1 : f[j].root # f[i].root => f[j].root = "a"
        BY <2>9, Zenon
      <4> QED BY <3>1, <4>1, Zenon
    <3>3. IF i = 1 \/ g[i - 1].root # g[i].root THEN g[i].up = 0
          ELSE g[i].up \in {0, i - 1} \cup Ups(g, i - 1)
      <4>1. IF i = 1 \/ f[i - 1].root # f[i].root THEN f[i].up = 0
            ELSE f[i].up \in {0, i - 1} \cup Ups(f, i - 1)
        BY <2>9, Zenon
      <4>2. CASE i = 1
        BY <3>1, <4>1, <4>2, Zenon
      <4>3. CASE i # 1
        BY <3>1, <4>1, <4>3, Zenon
      <4> QED BY <4>2, <4>3, Zenon
    <3> QED BY <3>2, <3>3
  <2>11. good(n + 1)
    <3>1. g[n + 1].root = root /\ g[n + 1].up = up /\ g[n + 1].element \in BOOLEAN /\ n + 1 - 1 = n
      BY <2>2, <2>3, <2>5
    <3>2. CASE n = 0
      <4>1. f = <<>>
        BY <2>2, <3>2 DEF IsList
      <4> QED BY <2>1, <3>1, <3>2, <4>1
    <3>3. CASE n # 0
      <4>1. n \in 1 .. n /\ g[n] = f[n] /\ Ups(g, n) = Ups(f, n) /\ n + 1 # 1
        BY <2>2, <2>5, <2>7, <3>3
      <4>2. f # <<>> /\ Last(f) = f[n]
        BY <2>2, <3>3 DEF Last
      <4>3. \/ root = f[n].root /\ up \in {0, n} \cup Ups(f, n)
            \/ root = "b" /\ f[n].root = "a" /\ up = 0
        BY <2>1, <4>2
      <4>4. ASSUME NEW j \in 1 .. n, f[j].root # root PROVE f[j].root = "a"
        <5>1. CASE root = "b"
          BY <2>9, <4>4, <5>1
        <5>2. CASE root = "a"
          <6>1. f[n].root = "a" /\ f[j].root # "a"
            BY <4>3, <4>4, <5>2
          <6>2. j \in 1 .. n - 1
            BY <2>2, <6>1
          <6> QED BY <2>9, <4>1, <6>1, <6>2
        <5> QED BY <5>1, <5>2
      <4>5. \A j \in 1 .. n : g[j].root # root => g[j].root = "a"
        BY <2>5, <4>4
      <4>6. IF n + 1 = 1 \/ g[n + 1 - 1].root # g[n + 1].root THEN g[n + 1].up = 0
            ELSE g[n + 1].up \in {0, n + 1 - 1} \cup Ups(g, n + 1 - 1)
        BY <3>1, <4>1, <4>3, Zenon
      <4>7. \A j \in 1 .. n + 1 - 1 : g[j].root # g[n + 1].root => g[j].root = "a"
        <5> DEFINE m == n + 1 - 1
        <5>1. m = n /\ g[n + 1].root = root
          BY <3>1
        <5> HIDE DEF m
        <5>2. \A j \in 1 .. m : g[j].root # g[n + 1].root => g[j].root = "a"
          BY <4>5, <5>1, Zenon
        <5> QED BY <5>2 DEF m
      <4>8. g[n + 1].root \in {"a", "b"} /\ g[n + 1].up \in 0 .. n + 1 - 1
        BY <2>1, <3>1
      <4>9. g[n + 1].element \in BOOLEAN
        BY <3>1
      <4> QED BY <4>6, <4>7, <4>8, <4>9
    <3> QED BY <3>2, <3>3
  <2>12. \A i \in 1 .. n + 1 : good(i)
    <3> HIDE DEF good
    <3> TAKE i \in 1 .. n + 1
    <3>1. i = n + 1 \/ i \in 1 .. n
      BY <2>2
    <3> QED BY <2>10, <2>11, <3>1
  <2>13. g \in Seq({g[i] : i \in Positions(g)})
    BY <2>5 DEF IsList, Positions
  <2>14. Preorder(g)
    BY <2>5, <2>12, <2>13 DEF Preorder
  <2> QED BY <2>14 DEF g
<1> QED BY <1>1, <1>2, <1>3 DEF Next

LEMMA RelationsOfForest ==
  ASSUME Preorder(forest)
  PROVE  RelationsAreTheForest
<1> DEFINE f == forest
<1> DEFINE rows == Encoded(f)
<1> DEFINE all == \A i \in Positions(f) : f[i].element
<1> DEFINE traversed == [children |-> "child", descendants |-> "desc", ancestors |-> "ancestor", parent |-> "parent",
                         siblings |-> "sibling", next_sibling |-> "next", prev_sibling |-> "prev",
                         first_child |-> "child", last_child |-> "child"]
<1>1. Positions(f) = 1 .. Len(f)
  BY PreorderRises
<1>2. rows = {RowFor(f, i) : i \in 1 .. Len(f)} /\ \A i \in 1 .. Len(f) : RowFor(f, i).at = i
  BY <1>1, EncodedIs, RowsShow
<1>3. ASSUME NEW i \in 1 .. Len(f), NEW elem \in {TRUE} \cup (IF all THEN {FALSE} ELSE {})
      PROVE  /\ \A op \in Combinator : {b.at : b \in {x \in rows : Comb(rows, elem, op, RowFor(f, i), x)}}
                                         = {j \in Positions(f) : Means(f, op, i, j)}
             /\ Builtin(rows, elem, "first-child", RowFor(f, i)) = IsFirst(f, i)
             /\ Builtin(rows, elem, "last-child", RowFor(f, i))  = IsLast(f, i)
  <2>1. elem \in BOOLEAN /\ (elem \/ \A k \in 1 .. Len(f) : f[k].element)
    BY <1>1, <1>3
  <2>2. \A op \in Combinator : {b.at : b \in {x \in rows : Comb(rows, elem, op, RowFor(f, i), x)}}
                                 = {j \in Positions(f) : Means(f, op, i, j)}
    BY <2>1, CombinedIs
  <2>3. FirstChild(rows, elem, RowFor(f, i)) <=> IsFirst(f, i)
    BY <2>1, FirstIs
  <2>4. LastChild(rows, elem, RowFor(f, i)) <=> IsLast(f, i)
    BY <2>1, LastIs
  <2>5. Builtin(rows, elem, "first-child", RowFor(f, i)) = FirstChild(rows, elem, RowFor(f, i))
        /\ Builtin(rows, elem, "last-child", RowFor(f, i)) = LastChild(rows, elem, RowFor(f, i))
    BY DEF Builtin
  <2>6. FirstChild(rows, elem, RowFor(f, i)) \in BOOLEAN /\ LastChild(rows, elem, RowFor(f, i)) \in BOOLEAN
        /\ IsFirst(f, i) \in BOOLEAN /\ IsLast(f, i) \in BOOLEAN
    BY DEF FirstChild, LastChild, IsFirst, IsLast
  <2> QED BY <2>2, <2>3, <2>4, <2>5, <2>6
<1>4. ASSUME NEW i \in 1 .. Len(f), NEW name \in Traversal
      PROVE  {b.at : b \in Nav(rows, name, RowFor(f, i).root, RowFor(f, i).pre)} =
               {j \in Positions(f) :
                  /\ Means(f, traversed[name], i, j)
                  /\ name = "first_child" => IsFirst(f, j)
                  /\ name = "last_child"  => IsLast(f, j)}
  <2>1. {b.at : b \in Nav(rows, name, RowFor(f, i).root, RowFor(f, i).pre)} =
          {j \in Positions(f) : Reaches(rows, name, RowFor(f, i), RowFor(f, j))}
    BY NavIs
  <2>2. \A j \in 1 .. Len(f) : Reaches(rows, name, RowFor(f, i), RowFor(f, j)) <=>
          /\ Means(f, Traversed(name), i, j)
          /\ name = "first_child" => IsFirst(f, j)
          /\ name = "last_child"  => IsLast(f, j)
    BY ReachIs
  <2>3. traversed[name] = Traversed(name)
    BY DEF Traversal, Traversed
  <2> HIDE DEF rows, traversed, f
  <2> QED BY <1>1, <2>1, <2>2, <2>3
<1>5. ASSUME NEW a \in rows PROVE \E i \in 1 .. Len(f) : a = RowFor(f, i) /\ a.at = i
  BY <1>2
<1> HIDE DEF rows, all, traversed
<1>6. ASSUME NEW a \in rows, NEW elem \in {TRUE} \cup (IF all THEN {FALSE} ELSE {})
      PROVE  /\ \A op \in Combinator : {b.at : b \in {x \in rows : Comb(rows, elem, op, a, x)}}
                                         = {j \in Positions(f) : Means(f, op, a.at, j)}
             /\ Builtin(rows, elem, "first-child", a) = IsFirst(f, a.at)
             /\ Builtin(rows, elem, "last-child", a)  = IsLast(f, a.at)
  <2>1. PICK i \in 1 .. Len(f) : a = RowFor(f, i) /\ a.at = i
    BY <1>5
  <2>2. /\ \A op \in Combinator : {b.at : b \in {x \in rows : Comb(rows, elem, op, RowFor(f, i), x)}}
                                   = {j \in Positions(f) : Means(f, op, i, j)}
        /\ Builtin(rows, elem, "first-child", RowFor(f, i)) = IsFirst(f, i)
        /\ Builtin(rows, elem, "last-child", RowFor(f, i))  = IsLast(f, i)
    BY <1>3
  <2>3. RowFor(f, i) = a /\ i = a.at
    BY <2>1
  <2> HIDE DEF f
  <2> QED BY <2>2, <2>3
<1>7. ASSUME NEW a \in rows, NEW name \in Traversal
      PROVE  {b.at : b \in Nav(rows, name, a.root, a.pre)} =
               {j \in Positions(f) :
                  /\ Means(f, traversed[name], a.at, j)
                  /\ name = "first_child" => IsFirst(f, j)
                  /\ name = "last_child"  => IsLast(f, j)}
  <2>1. PICK i \in 1 .. Len(f) : a = RowFor(f, i) /\ a.at = i
    BY <1>5
  <2> QED BY <1>4, <2>1
<1> USE DEF rows, all, traversed
<1> QED BY <1>6, <1>7 DEF RelationsAreTheForest

\* The combinators, the positional predicates and the traversals of 07_match.sql and
\* 08_traversal.sql are the forest's in a forest of any number of rows: what the
\* intervals, the window and the O(1) arithmetic of _pre and _size answer is what
\* parents and document order say.
THEOREM RelationsHold == Spec => []RelationsAreTheForest
<1>1. Init => Preorder(forest)
  BY SeedsAssumption DEF Init
<1>2. Preorder(forest) /\ [Next]_vars => Preorder(forest)'
  BY DrawnInPreorder DEF Preorder, Positions, Ups
<1>3. Preorder(forest) => RelationsAreTheForest
  BY RelationsOfForest
<1> QED BY <1>1, <1>2, <1>3, PTL DEF Spec

-----------------------------------------------------------------------------
(* The nodes of a selector.                                                *)

\* Ids tell the nodes apart, there is one root, and a parent is before its children.
LEMMA OutlineIs ==
  ASSUME NEW s, Outline(s)
  PROVE  /\ s \in Seq(ToSet(s)) /\ Len(s) \in Nat /\ DOMAIN s = 1 .. Len(s)
         /\ ToSet(s) = {s[i] : i \in 1 .. Len(s)} /\ IsFiniteSet(ToSet(s))
         /\ \A n \in ToSet(s) :
              /\ n.id \in 0 .. Len(s) - 1
              /\ n.kind = "selector" => n.parent = NULL
              /\ n.kind # "selector" => n.parent \in 0 .. n.id - 1
         /\ \A n, m \in ToSet(s) : n.id = m.id => n = m
<1>1. s \in Seq({s[i] : i \in DOMAIN s})
  BY DEF Outline
<1>2. Len(s) \in Nat /\ DOMAIN s = 1 .. Len(s)
  BY <1>1
<1>3. ToSet(s) = {s[i] : i \in 1 .. Len(s)}
  BY <1>2 DEF ToSet
<1>4. s \in Seq(ToSet(s))
  BY <1>1, <1>2, <1>3
<1>5. \A i \in 1 .. Len(s) :
        /\ s[i].id = i - 1
        /\ IF i = 1 THEN s[i].kind = "selector" /\ s[i].parent = NULL
           ELSE s[i].kind # "selector" /\ s[i].parent \in 0 .. i - 2
  BY <1>2 DEF Outline
<1>6. ASSUME NEW i \in 1 .. Len(s)
      PROVE  /\ s[i].id \in 0 .. Len(s) - 1
             /\ s[i].kind = "selector" => s[i].parent = NULL
             /\ s[i].kind # "selector" => s[i].parent \in 0 .. s[i].id - 1
  BY <1>2, <1>5
<1>7. \A i, j \in 1 .. Len(s) : s[i].id = s[j].id => s[i] = s[j]
  BY <1>2, <1>5
<1>8. IsFiniteSet(ToSet(s))
  <2>1. IsFiniteSet(1 .. Len(s))
    BY <1>2, FS_Interval
  <2>2. s \in Surjection(1 .. Len(s), ToSet(s))
    BY <1>2, <1>3, <1>4 DEF Surjection
  <2> QED BY <2>1, <2>2, FS_Surjection
<1> QED BY <1>2, <1>3, <1>4, <1>6, <1>7, <1>8

\* What the checks of tree_compile_match leave.
Grown(s) ==
  /\ \A n \in ToSet(s) : n.kind \in {"selector", "step", "has", "not"} \cup ClauseKind
  /\ \A n \in ToSet(s) : n.kind = "step" =>
       \E p \in ToSet(s) : p.id = n.parent /\ p.kind \in {"selector", "has", "not"}
  /\ \A n \in ToSet(s) : n.kind \in {"has", "not"} \cup ClauseKind =>
       \E p \in ToSet(s) : p.id = n.parent /\ p.kind = "step"
  /\ ~ TooDeep(s)

LEMMA AcceptedGrow ==
  ASSUME NEW t, NEW s, Accepted(t, s)
  PROVE  Grown(s)
<1>1. /\ ~ TooDeep(s) /\ ~ LooseClause(s) /\ ~ BadKind(s) /\ ~ BadParent(s) /\ ~ UnknownClause(t, s)
  BY DEF Accepted
<1>2. \A n \in ToSet(s) : \A k : k \in KindOver(s, n) => \E p \in ToSet(s) : p.id = n.parent /\ p.kind = k
  BY DEF KindOver
<1>3. ASSUME NEW n \in ToSet(s) PROVE n.kind \in {"selector", "step", "has", "not"} \cup ClauseKind
  <2>1. n.kind \in IrKind \/ "step" \in KindOver(s, n)
    BY <1>1 DEF BadKind
  <2>2. "step" \in KindOver(s, n) => n.kind \in ClauseKind \cup {"has", "not", "step"}
    BY <1>1 DEF UnknownClause
  <2> QED BY <2>1, <2>2 DEF IrKind
<1>4. ASSUME NEW n \in ToSet(s), n.kind = "step"
      PROVE  \E p \in ToSet(s) : p.id = n.parent /\ p.kind \in {"selector", "has", "not"}
  <2>1. PICK k \in KindOver(s, n) : k \in {"selector", "has", "not"}
    BY <1>1, <1>4 DEF BadParent
  <2> QED BY <1>2, <2>1
<1>5. ASSUME NEW n \in ToSet(s), n.kind \in {"has", "not"} \cup ClauseKind
      PROVE  \E p \in ToSet(s) : p.id = n.parent /\ p.kind = "step"
  <2>1. "step" \in KindOver(s, n)
    BY <1>1, <1>5 DEF BadParent, Group
  <2> QED BY <1>2, <2>1
<1> QED BY <1>1, <1>3, <1>4, <1>5 DEF Grown

\* The walk from the roots.
Rooted(s) == {[n |-> n, d |-> 0] : n \in {x \in ToSet(s) : x.parent = NULL}}
Deeper(w, n) == [n |-> n, d |-> w.d + IF Group(n) THEN 1 ELSE 0]
Descended(s, W) == UNION {{Deeper(w, n) : n \in Under(s, w.n.id)} : w \in W}
Walks(s, walk) == walk = [lv \in 0 .. 7 |-> IF lv = 0 THEN Rooted(s) ELSE Descended(s, walk[lv - 1])]

LEMMA GroupDepthIs ==
  ASSUME NEW s
  PROVE  \E walk : /\ Walks(s, walk) /\ walk \in [0 .. 7 -> SUBSET [n : ToSet(s), d : Nat]]
                   /\ LET depths == {w.d : w \in UNION {walk[lv] : lv \in 0 .. 7}} IN
                      GroupDepth(s) = IF depths = {} THEN 0 ELSE Greatest(depths)
<1> DEFINE R == [n : ToSet(s), d : Nat]
<1> DEFINE X == SUBSET R
<1> DEFINE step == [W \in X |-> Descended(s, W)]
<1>1. Rooted(s) \in X
  BY DEF Rooted
<1>2. ASSUME NEW W \in X PROVE Descended(s, W) \in X
  <2>1. ASSUME NEW w \in W, NEW n \in Under(s, w.n.id) PROVE Deeper(w, n) \in R
    BY DEF Deeper, Under
  <2> QED BY <2>1 DEF Descended
<1>3. step \in [X -> X]
  BY <1>2
<1>4. PICK h : Repeats(h, X, Rooted(s), step, 7)
  <2> HIDE DEF X, step
  <2> QED BY <1>1, <1>3, Iterates
<1>5. h \in [0 .. 7 -> X] /\ h[0] = Rooted(s) /\ \A lv \in 1 .. 7 : h[lv] = step[h[lv - 1]]
  BY <1>4 DEF Repeats
<1>6. \A lv \in 1 .. 7 : h[lv] = Descended(s, h[lv - 1])
  <2> TAKE lv \in 1 .. 7
  <2>1. lv - 1 \in 0 .. 7
    OBVIOUS
  <2>2. h[lv - 1] \in X
    <3> HIDE DEF X
    <3> QED BY <1>5, <2>1
  <2> HIDE DEF X
  <2> QED BY <1>5, <2>2
<1>7. Walks(s, h)
  <2> HIDE DEF X
  <2>1. h = [lv \in 0 .. 7 |-> h[lv]]
    BY <1>5
  <2>2. \A lv \in 0 .. 7 : h[lv] = IF lv = 0 THEN Rooted(s) ELSE Descended(s, h[lv - 1])
    BY <1>5, <1>6
  <2> QED BY <2>1, <2>2 DEF Walks
<1> DEFINE walk == CHOOSE w : w = [lv \in 0 .. 7 |-> IF lv = 0 THEN Rooted(s) ELSE Descended(s, w[lv - 1])]
<1>8. Walks(s, walk)
  <2> HIDE DEF X, step
  <2>1. \E w : w = [lv \in 0 .. 7 |-> IF lv = 0 THEN Rooted(s) ELSE Descended(s, w[lv - 1])]
    BY <1>7, Zenon DEF Walks
  <2>2. walk = [lv \in 0 .. 7 |-> IF lv = 0 THEN Rooted(s) ELSE Descended(s, walk[lv - 1])]
    BY <2>1, Zenon
  <2> QED BY <2>2, Zenon DEF Walks
<1> DEFINE ofWalk(w, bound) == LET depths == {v.d : v \in UNION {w[lv] : lv \in 0 .. bound}} IN
                               IF depths = {} THEN 0 ELSE Greatest(depths)
<1> DEFINE walked(bound) ==
      CHOOSE w : w = [lv \in 0 .. bound |-> IF lv = 0 THEN Rooted(s) ELSE Descended(s, w[lv - 1])]
<1>9. GroupDepth(s) = ofWalk(walk, 7)
  <2> HIDE DEF X, step, R
  <2>1. 2 * DepthLimit + 3 = 7
    BY DEF DepthLimit
  <2>2. GroupDepth(s) = ofWalk(walked(2 * DepthLimit + 3), 2 * DepthLimit + 3)
    BY Zenon DEF GroupDepth, Rooted, Descended, Deeper
  <2> HIDE DEF ofWalk, walked
  <2>3. GroupDepth(s) = ofWalk(walked(7), 7)
    BY <2>1, <2>2, Zenon
  <2> QED BY <2>3, Zenon DEF walked
<1> HIDE DEF walk
<1>10. \A lv \in 0 .. 7 : walk[lv] \in X
  <2> DEFINE Bad == {lv \in 0 .. 7 : walk[lv] \notin X}
  <2>1. SUFFICES ASSUME Bad # {} PROVE FALSE
    OBVIOUS
  <2>2. PICK lv \in Bad : \A m \in Bad : lv <= m
    <3>1. Bad \in SUBSET Nat
      OBVIOUS
    <3> HIDE DEF Bad
    <3> QED BY <2>1, <3>1, LeastNat
  <2>3. lv # 0
    BY <1>1, <1>8, <2>2 DEF Walks
  <2>4. lv - 1 \in 0 .. 7 /\ lv - 1 \notin Bad
    BY <2>2, <2>3
  <2>5. walk[lv] = Descended(s, walk[lv - 1])
    BY <1>8, <2>2, <2>3 DEF Walks
  <2>6. walk[lv - 1] \in X
    BY <2>4
  <2> HIDE DEF X
  <2> QED BY <1>2, <2>2, <2>5, <2>6
<1>11. walk \in [0 .. 7 -> X]
  <2> HIDE DEF X
  <2> QED BY <1>8, <1>10 DEF Walks
<1> QED BY <1>8, <1>9, <1>11

\* What hangs off a walked node is walked next.
LEMMA WalkGoesOn ==
  ASSUME NEW s, NEW walk, Walks(s, walk), NEW lv \in 0 .. 6, NEW m, NEW d, [n |-> m, d |-> d] \in walk[lv],
         NEW n \in ToSet(s), n.parent = m.id
  PROVE  [n |-> n, d |-> d + IF Group(n) THEN 1 ELSE 0] \in walk[lv + 1]
<1>1. walk[lv + 1] = Descended(s, walk[lv])
  <2>1. lv + 1 \in 0 .. 7 /\ lv + 1 # 0 /\ lv + 1 - 1 = lv
    OBVIOUS
  <2> QED BY <2>1 DEF Walks
<1> DEFINE w == [n |-> m, d |-> d]
<1>2. n \in Under(s, w.n.id) /\ Deeper(w, n) = [n |-> n, d |-> d + IF Group(n) THEN 1 ELSE 0]
  BY DEF Under, Deeper
<1>3. Deeper(w, n) \in Descended(s, walk[lv])
  <2> HIDE DEF w
  <2>1. w \in walk[lv]
    BY DEF w
  <2> QED BY <1>2, <2>1 DEF Descended
<1> QED BY <1>1, <1>2, <1>3

\* No walked node is deeper than the walk is long.
LEMMA WalkIsShort ==
  ASSUME NEW s, NEW walk, Walks(s, walk), walk \in [0 .. 7 -> SUBSET [n : ToSet(s), d : Nat]],
         NEW lv \in 0 .. 7, NEW w \in walk[lv]
  PROVE  w.d \in Nat /\ w.d <= 7
<1> DEFINE Bad == {l \in 0 .. 7 : \E v \in walk[l] : ~ (v.d <= l)}
<1>0. \A l \in 0 .. 7 : \A v \in walk[l] : v.d \in Nat
  <2> TAKE l \in 0 .. 7
  <2> TAKE v \in walk[l]
  <2>1. v \in [n : ToSet(s), d : Nat]
    OBVIOUS
  <2> QED BY <2>1
<1>1. Bad = {}
  <2>1. SUFFICES ASSUME Bad # {} PROVE FALSE
    OBVIOUS
  <2>2. PICK l \in Bad : \A m \in Bad : l <= m
    <3>1. Bad \in SUBSET Nat
      OBVIOUS
    <3> HIDE DEF Bad
    <3> QED BY <2>1, <3>1, LeastNat
  <2>3. PICK v \in walk[l] : ~ (v.d <= l)
    BY <2>2
  <2>4. l # 0
    <3> SUFFICES ASSUME l = 0 PROVE FALSE
      OBVIOUS
    <3>1. v \in Rooted(s)
      BY <2>3 DEF Walks
    <3>2. v.d = 0
      BY <3>1 DEF Rooted
    <3> QED BY <2>3, <3>2
  <2>5. l - 1 \in 0 .. 7 /\ l - 1 \notin Bad
    BY <2>2, <2>4
  <2>6. v \in Descended(s, walk[l - 1])
    BY <2>2, <2>3, <2>4 DEF Walks
  <2>7. PICK u \in walk[l - 1] : \E n \in Under(s, u.n.id) : v = Deeper(u, n)
    BY <2>6 DEF Descended
  <2>8. u.d \in Nat /\ u.d <= l - 1 /\ v.d \in Nat
    BY <1>0, <2>2, <2>3, <2>5, <2>7
  <2>9. v.d = u.d \/ v.d = u.d + 1
    BY <2>7, <2>8 DEF Deeper
  <2>10. l \in 0 .. 7
    BY <2>2
  <2> HIDE DEF Bad
  <2> QED BY <2>3, <2>8, <2>9, <2>10
<1>2. w.d \in Nat /\ w.d <= lv
  BY <1>0, <1>1
<1> QED BY <1>2

\* Three groups, one below the other, are one too many.
LEMMA ThreeGroupsAreTooDeep ==
  ASSUME NEW s,
         NEW r \in ToSet(s), r.parent = NULL,
         NEW t \in ToSet(s), t.parent = r.id, ~ Group(t),
         NEW g \in ToSet(s), g.parent = t.id, Group(g),
         NEW u \in ToSet(s), u.parent = g.id, ~ Group(u),
         NEW h \in ToSet(s), h.parent = u.id, Group(h),
         NEW v \in ToSet(s), v.parent = h.id, ~ Group(v),
         NEW k \in ToSet(s), k.parent = v.id, Group(k)
  PROVE  TooDeep(s)
<1> DEFINE depthsOf(walk) == {w.d : w \in UNION {walk[lv] : lv \in 0 .. 7}}
<1>1. PICK walk : /\ Walks(s, walk) /\ walk \in [0 .. 7 -> SUBSET [n : ToSet(s), d : Nat]]
                  /\ GroupDepth(s) = IF depthsOf(walk) = {} THEN 0 ELSE Greatest(depthsOf(walk))
  BY GroupDepthIs
<1>2. [n |-> r, d |-> 0] \in walk[0]
  BY <1>1 DEF Walks, Rooted
<1>3. [n |-> t, d |-> 0] \in walk[1]
  <2>1. [n |-> t, d |-> 0 + IF Group(t) THEN 1 ELSE 0] \in walk[0 + 1]
    BY <1>1, <1>2, WalkGoesOn
  <2> QED BY <2>1
<1>4. [n |-> g, d |-> 1] \in walk[2]
  <2>1. [n |-> g, d |-> 0 + IF Group(g) THEN 1 ELSE 0] \in walk[1 + 1]
    BY <1>1, <1>3, WalkGoesOn
  <2> QED BY <2>1
<1>5. [n |-> u, d |-> 1] \in walk[3]
  <2>1. [n |-> u, d |-> 1 + IF Group(u) THEN 1 ELSE 0] \in walk[2 + 1]
    BY <1>1, <1>4, WalkGoesOn
  <2> QED BY <2>1
<1>6. [n |-> h, d |-> 2] \in walk[4]
  <2>1. [n |-> h, d |-> 1 + IF Group(h) THEN 1 ELSE 0] \in walk[3 + 1]
    BY <1>1, <1>5, WalkGoesOn
  <2> QED BY <2>1
<1>7. [n |-> v, d |-> 2] \in walk[5]
  <2>1. [n |-> v, d |-> 2 + IF Group(v) THEN 1 ELSE 0] \in walk[4 + 1]
    BY <1>1, <1>6, WalkGoesOn
  <2> QED BY <2>1
<1>8. [n |-> k, d |-> 3] \in walk[6]
  <2>1. [n |-> k, d |-> 2 + IF Group(k) THEN 1 ELSE 0] \in walk[5 + 1]
    BY <1>1, <1>7, WalkGoesOn
  <2> QED BY <2>1
<1> DEFINE D == depthsOf(walk)
<1>9. 3 \in D
  <2>1. [n |-> k, d |-> 3] \in UNION {walk[lv] : lv \in 0 .. 7}
    BY <1>8
  <2>2. [n |-> k, d |-> 3].d = 3
    OBVIOUS
  <2> QED BY <2>1, <2>2
<1>10. \A d \in D : d \in Nat /\ d <= 7
  BY <1>1, WalkIsShort
<1> HIDE DEF depthsOf, D
<1>11. 3 <= Greatest(D)
  <2>1. D \in SUBSET Nat /\ D # {}
    BY <1>9, <1>10
  <2> QED BY <1>9, <1>10, <2>1, GreatestIs
<1>12. GroupDepth(s) = Greatest(D) /\ Greatest(D) \in Nat
  <2>1. D # {} /\ D \in SUBSET Nat
    BY <1>9, <1>10
  <2>2. Greatest(D) \in D
    BY <1>10, <2>1, GreatestIs
  <2> QED BY <1>1, <2>1, <2>2 DEF D
<1> QED BY <1>11, <1>12 DEF TooDeep, DepthLimit

-----------------------------------------------------------------------------
(* Where the nodes of an accepted selector are.                            *)

Parts(s, S)  == UNION {{n \in Under(s, x.id) : n.kind # "step"} : x \in S}
Inner(s, S)  == UNION {Steps(s, g.id) : g \in {n \in Parts(s, S) : Group(n)}}

LEMMA CompiledParts ==
  ASSUME NEW s
  PROVE  LET top == TopSteps(s)  one == Inner(s, top)  two == Inner(s, one) IN
         Compiled(s) = top \cup Parts(s, top) \cup one \cup Parts(s, one) \cup two \cup {n \in Parts(s, two) : ~Group(n)}
BY DEF Compiled, Parts, Inner

LEMMA PartsAre ==
  ASSUME NEW s, NEW S, NEW n
  PROVE  n \in Parts(s, S) <=> n \in ToSet(s) /\ n.kind # "step" /\ \E x \in S : n.parent = x.id
BY DEF Parts, Under

LEMMA InnerAre ==
  ASSUME NEW s, NEW S, NEW n
  PROVE  n \in Inner(s, S) <=>
           n \in ToSet(s) /\ n.kind = "step" /\ \E g \in Parts(s, S) : Group(g) /\ n.parent = g.id
BY DEF Inner, Steps, Under

LEMMA TopAre ==
  ASSUME NEW s, NEW n
  PROVE  n \in TopSteps(s) <=> n \in ToSet(s) /\ n.kind = "step" /\ \E r \in ToSet(s) : r.kind = "selector" /\ n.parent = r.id
BY DEF TopSteps, Steps, Under

\* Nothing but clauses hangs off the steps of a group of a group.
LEMMA InnermostAreBare ==
  ASSUME NEW s, Outline(s), Grown(s), NEW x \in Inner(s, Inner(s, TopSteps(s))), NEW k \in ToSet(s), k.parent = x.id
  PROVE  ~ Group(k)
<1> SUFFICES ASSUME Group(k) PROVE FALSE
  OBVIOUS
<1>1. PICK h \in Parts(s, Inner(s, TopSteps(s))) : Group(h) /\ x.parent = h.id
  BY InnerAre
<1>2. PICK u \in Inner(s, TopSteps(s)) : h.parent = u.id
  BY PartsAre
<1>3. PICK g \in Parts(s, TopSteps(s)) : Group(g) /\ u.parent = g.id
  BY InnerAre
<1>4. PICK t \in TopSteps(s) : g.parent = t.id
  BY PartsAre
<1>5. PICK r \in ToSet(s) : r.kind = "selector" /\ t.parent = r.id
  BY TopAre
<1>6. r.parent = NULL
  BY <1>5, OutlineIs
<1>7. h \in ToSet(s) /\ g \in ToSet(s)
  BY PartsAre
<1>8. x \in ToSet(s) /\ x.kind = "step" /\ u \in ToSet(s) /\ u.kind = "step"
  BY InnerAre
<1>9. t \in ToSet(s) /\ t.kind = "step"
  BY TopAre
<1>10. ~ Group(x) /\ ~ Group(u) /\ ~ Group(t)
  BY <1>8, <1>9 DEF Group
<1>11. TooDeep(s)
  BY <1>1, <1>2, <1>3, <1>4, <1>5, <1>6, <1>7, <1>8, <1>9, <1>10, ThreeGroupsAreTooDeep
<1> QED BY <1>11 DEF Grown

\* Every step is in the outer chain, in a group of its, or in a group of one of those.
LEMMA StepsAre ==
  ASSUME NEW s, Outline(s), Grown(s), NEW x \in ToSet(s), x.kind = "step"
  PROVE  x \in TopSteps(s) \cup Inner(s, TopSteps(s)) \cup Inner(s, Inner(s, TopSteps(s)))
<1> DEFINE top == TopSteps(s)
<1> DEFINE one == Inner(s, top)
<1> DEFINE two == Inner(s, one)
<1> DEFINE Bad == {i \in Nat : \E y \in ToSet(s) : y.id = i /\ y.kind = "step" /\ y \notin top \cup one \cup two}
<1>1. Bad = {}
  <2>1. SUFFICES ASSUME Bad # {} PROVE FALSE
    OBVIOUS
  <2>2. PICK i \in Bad : \A m \in Bad : i <= m
    <3>1. Bad \in SUBSET Nat
      OBVIOUS
    <3> HIDE DEF Bad
    <3> QED BY <2>1, <3>1, LeastNat
  <2>3. PICK y \in ToSet(s) : y.id = i /\ y.kind = "step" /\ y \notin top \cup one \cup two
    BY <2>2
  <2>4. PICK g \in ToSet(s) : g.id = y.parent /\ g.kind \in {"selector", "has", "not"}
    BY <2>3 DEF Grown
  <2>5. g.kind # "selector"
    BY <2>3, <2>4, TopAre
  <2>6. PICK z \in ToSet(s) : z.id = g.parent /\ z.kind = "step"
    BY <2>4, <2>5 DEF Grown
  <2>7. Group(g) /\ g.kind # "step"
    BY <2>4, <2>5 DEF Group
  <2>8. z.id \in Nat /\ z.id < i
    <3>1. Len(s) \in Nat /\ \A n \in ToSet(s) : n.id \in 0 .. Len(s) - 1
      BY OutlineIs
    <3>2. y.parent \in 0 .. y.id - 1 /\ g.parent \in 0 .. g.id - 1
      BY <2>3, <2>5, OutlineIs
    <3>3. y.id \in Nat /\ g.id \in Nat /\ z.id \in Nat
      BY <3>1
    <3> QED BY <2>3, <2>4, <2>6, <3>2, <3>3
  <2>9. z \in top \cup one \cup two
    <3>1. z.id \notin Bad
      <4>1. i \in Nat
        BY <2>2
      <4> HIDE DEF Bad
      <4> QED BY <2>2, <2>8, <4>1
    <3> QED BY <2>6, <2>8, <3>1
  <2> HIDE DEF Bad, top, one, two
  <2>10. CASE z \in top
    <3>1. g \in Parts(s, top)
      BY <2>6, <2>7, <2>10, PartsAre
    <3>2. y \in one
      BY <2>3, <2>4, <2>7, <3>1, InnerAre DEF one
    <3> QED BY <2>3, <3>2
  <2>11. CASE z \in one
    <3>1. g \in Parts(s, one)
      BY <2>6, <2>7, <2>11, PartsAre
    <3>2. y \in two
      BY <2>3, <2>4, <2>7, <3>1, InnerAre DEF two
    <3> QED BY <2>3, <3>2
  <2>12. CASE z \in two
    BY <2>6, <2>7, <2>12, InnermostAreBare DEF two, one, top
  <2> QED BY <2>9, <2>10, <2>11, <2>12
<1>2. x.id \in Nat
  BY OutlineIs
<1> QED BY <1>1, <1>2

\* Everything but the root is in the compiled text.
LEMMA CompiledIsAll ==
  ASSUME NEW s, Outline(s), Grown(s)
  PROVE  ToSet(s) \ Compiled(s) = {n \in ToSet(s) : n.kind = "selector"}
<1> DEFINE top == TopSteps(s)
<1> DEFINE one == Inner(s, top)
<1> DEFINE two == Inner(s, one)
<1>1. Compiled(s) = top \cup Parts(s, top) \cup one \cup Parts(s, one) \cup two \cup {n \in Parts(s, two) : ~Group(n)}
  BY CompiledParts
<1>2. \A x \in ToSet(s) : x.kind = "step" => x \in top \cup one \cup two
  BY StepsAre
<1>3. \A x \in two : \A k \in ToSet(s) : k.parent = x.id => ~ Group(k)
  BY InnermostAreBare
<1>4. \A S : \A n \in Parts(s, S) : n \in ToSet(s) /\ \E x \in S : n.parent = x.id
  BY PartsAre
<1>5. \A S : \A n \in ToSet(s) : n.kind # "step" /\ (\E x \in S : n.parent = x.id) => n \in Parts(s, S)
  BY PartsAre
<1>6. \A x \in top \cup one \cup two : x.id \in Nat /\ x.kind = "step"
  <2>1. \A x \in top \cup one \cup two : x \in ToSet(s) /\ x.kind = "step"
    BY TopAre, InnerAre
  <2> QED BY <2>1, OutlineIs
<1> HIDE DEF top, one, two
<1>7. ASSUME NEW n \in ToSet(s), n.kind # "selector" PROVE n \in Compiled(s)
  <2>1. CASE n.kind = "step"
    BY <1>1, <1>2, <2>1
  <2>2. CASE n.kind \in {"has", "not"} \cup ClauseKind
    <3>1. n.kind # "step"
      BY <2>2 DEF ClauseKind
    <3>2. PICK x \in ToSet(s) : x.id = n.parent /\ x.kind = "step"
      BY <2>2 DEF Grown
    <3>3. n \in Parts(s, top) \/ n \in Parts(s, one) \/ (n \in Parts(s, two) /\ ~ Group(n))
      BY <1>2, <1>3, <1>5, <3>1, <3>2
    <3> QED BY <1>1, <3>3
  <2> QED BY <1>7, <2>1, <2>2 DEF Grown
<1>8. ASSUME NEW n \in Compiled(s), n \in ToSet(s), n.kind = "selector" PROVE FALSE
  <2>1. n \notin top \cup one \cup two
    BY <1>6, <1>8
  <2>2. PICK x \in top \cup one \cup two : n.parent = x.id
    BY <1>1, <1>4, <2>1
  <2>3. n.parent = NULL
    BY <1>8, OutlineIs
  <2>4. x.id \in Int
    BY <1>6
  <2>5. NULL \in Int
    BY <2>2, <2>3, <2>4
  <2> QED BY <2>5, NullAssumption
<1> QED BY <1>7, <1>8

\* A selector grown by hand is numbered in order, or an id repeats.
LEMMA OutlineKept ==
  ASSUME ~ Forward, DupIds(ir) \/ Outline(ir), [Next]_vars
  PROVE  DupIds(ir)' \/ Outline(ir')
<1>1. CASE UNCHANGED vars
  BY <1>1 DEF vars, DupIds, ToSet
<1>2. CASE AddRow
  BY <1>2 DEF AddRow, DupIds, ToSet
<1>3. CASE AddNode
  <2> DEFINE s == ir
  <2> DEFINE n == Len(s)
  <2>1. ~ DupIds(s) /\ Outline(s)
    BY <1>3 DEF AddNode
  <2>2. PICK m \in Nodes, id \in {1, n}, p \in 0 .. n + (IF Forward THEN 1 ELSE -1) :
          ir' = Append(s, [id |-> id, parent |-> p, kind |-> m.kind, op |-> m.op, value |-> m.value])
    BY <1>3 DEF AddNode
  <2> DEFINE x == [id |-> id, parent |-> p, kind |-> m.kind, op |-> m.op, value |-> m.value]
  <2> DEFINE t == ir'
  <2>3. x.id = id /\ x.parent \in 0 .. n - 1 /\ x.kind # "selector"
    <3>1. n + (IF Forward THEN 1 ELSE -1) = n - 1
      BY <2>1, OutlineIs
    <3> QED BY <3>1, NodesAssumption
  <2>4. IsList(s) /\ n \in Nat /\ DOMAIN s = 1 .. n /\ n # 0
    BY <2>1, OutlineIs DEF Outline, IsList
  <2> HIDE DEF x
  <2>5. t = Append(s, x)
    BY <2>2 DEF x
  <2> HIDE DEF t, s, n
  <2>50. n = Len(s)
    BY DEF n
  <2>6. /\ IsList(t) /\ Len(t) = n + 1 /\ DOMAIN t = 1 .. n + 1 /\ t[n + 1] = x
        /\ \A i \in 1 .. n : t[i] = s[i]
    <3>1. /\ IsList(Append(s, x)) /\ Len(Append(s, x)) = Len(s) + 1
          /\ DOMAIN Append(s, x) = 1 .. Len(s) + 1 /\ Append(s, x)[Len(s) + 1] = x
          /\ \A i \in 1 .. Len(s) : Append(s, x)[i] = s[i]
      BY <2>4, ListAppends
    <3> QED BY <2>5, <2>50, <3>1
  <2>7. \A i \in 1 .. n :
          /\ s[i].id = i - 1
          /\ IF i = 1 THEN s[i].kind = "selector" /\ s[i].parent = NULL
             ELSE s[i].kind # "selector" /\ s[i].parent \in 0 .. i - 2
    BY <2>1, <2>4 DEF Outline
  <2>8. CASE id = n
    <3>1. \A i \in 1 .. n + 1 :
            /\ t[i].id = i - 1
            /\ IF i = 1 THEN t[i].kind = "selector" /\ t[i].parent = NULL
               ELSE t[i].kind # "selector" /\ t[i].parent \in 0 .. i - 2
      <4> TAKE i \in 1 .. n + 1
      <4>1. CASE i = n + 1
        BY <2>3, <2>4, <2>6, <2>8, <4>1
      <4>2. CASE i # n + 1
        BY <2>4, <2>6, <2>7, <4>2
      <4> QED BY <4>1, <4>2
    <3>2. t # <<>> /\ t \in Seq({t[i] : i \in DOMAIN t})
      BY <2>4, <2>6 DEF IsList
    <3> QED BY <2>6, <3>1, <3>2 DEF Outline, t
  <2>9. CASE id # n
    <3>1. id = 1 /\ n > 1
      BY <2>4, <2>9
    <3> DEFINE I == {y.id : y \in ToSet(t)}
    <3>2. I = 0 .. n - 1
      <4>1. ASSUME NEW y \in ToSet(t) PROVE y.id \in 0 .. n - 1
        <5>1. PICK i \in 1 .. n + 1 : y = t[i]
          BY <2>6 DEF ToSet
        <5>2. CASE i = n + 1
          BY <2>3, <2>4, <2>6, <3>1, <5>1, <5>2
        <5>3. CASE i # n + 1
          BY <2>4, <2>6, <2>7, <5>1, <5>3
        <5> QED BY <5>2, <5>3
      <4>2. ASSUME NEW j \in 0 .. n - 1 PROVE \E y \in ToSet(t) : y.id = j
        <5>1. j + 1 \in 1 .. n /\ j + 1 - 1 = j
          BY <2>4
        <5>2. t[j + 1].id = j
          BY <2>6, <2>7, <5>1
        <5>3. t[j + 1] \in ToSet(t)
          BY <2>4, <2>6, <5>1 DEF ToSet
        <5> QED BY <5>2, <5>3
      <4> QED BY <4>1, <4>2
    <3>3. Cardinality(0 .. n - 1) = n
      <4>1. 0 \in Int /\ n - 1 \in Int
        BY <2>4
      <4>2. Cardinality(0 .. n - 1) = IF 0 > n - 1 THEN 0 ELSE n - 1 - 0 + 1
        BY <4>1, FS_Interval
      <4> QED BY <2>4, <3>1, <4>2
    <3> HIDE DEF I
    <3>4. Cardinality(I) # Len(t)
      BY <2>4, <2>6, <3>2, <3>3
    <3>6. DupIds(t)
      BY <3>4 DEF DupIds, I
    <3>5. DupIds(t) <=> DupIds(ir)'
      BY DEF DupIds, ToSet, t
    <3> QED BY <3>6, <3>5
  <2> QED BY <2>8, <2>9
<1> QED BY <1>1, <1>2, <1>3 DEF Next

\* The fold of tree_compile_match reaches everything it accepts: a selector of any size
\* whose nodes come after their parents is refused or in the compiled text, node by
\* node, because a step is in the outer chain, in a group of it or in a group of that,
\* and anything further down is too deep.
THEOREM NothingDropped == ASSUME ~ Forward PROVE Spec => []NothingIsDropped
<1>1. Init => DupIds(ir) \/ Outline(ir)
  BY SeedsAssumption DEF Init
<1>2. (DupIds(ir) \/ Outline(ir)) /\ [Next]_vars => (DupIds(ir) \/ Outline(ir))'
  BY OutlineKept DEF Outline
<1>3. DupIds(ir) \/ Outline(ir) => NothingIsDropped
  <2> SUFFICES ASSUME DupIds(ir) \/ Outline(ir), Accepted(tree, ir)
               PROVE  ToSet(ir) \ Compiled(ir) = {n \in ToSet(ir) : n.kind = "selector"}
    BY DEF NothingIsDropped
  <2>1. ~ DupIds(ir)
    BY DEF Accepted
  <2> QED BY <2>1, AcceptedGrow, CompiledIsAll
<1> QED BY <1>1, <1>2, <1>3, PTL DEF Spec

-----------------------------------------------------------------------------
(* The chains.                                                             *)

\* Nodes told apart by their ids are listed by them.
LEMMA InOrderIs ==
  ASSUME NEW S, IsFiniteSet(S), \A n \in S : n.id \in Nat, \A n, m \in S : n.id = m.id => n = m
  PROVE  /\ Cardinality(S) \in Nat /\ DOMAIN InOrder(S) = 1 .. Cardinality(S)
         /\ Len(InOrder(S)) = Cardinality(S)
         /\ \A i \in 1 .. Cardinality(S) : InOrder(S)[i] \in S
<1> DEFINE R == {p \in S \X S : p[1].id < p[2].id}
<1> DEFINE pos == [n \in S |-> Cardinality(Before(R, S, n))]
<1>1. TotalOrder(R, S)
  <2>1. \A x, y \in S : <<x, y>> \in R <=> x.id < y.id
    OBVIOUS
  <2> HIDE DEF R
  <2> QED BY <2>1 DEF TotalOrder
<1>2. ASSUME NEW n \in S PROVE Before(R, S, n) = {m \in S : m.id < n.id}
  BY DEF Before
<1>3. Cardinality(S) \in Nat
  BY FS_CardinalityType
<1>4. \A k \in 0 .. Cardinality(S) - 1 : \E n \in S : pos[n] = k
  <2>1. \A n \in S : pos[n] = Cardinality(Before(R, S, n))
    OBVIOUS
  <2> HIDE DEF pos, R
  <2> QED BY <1>1, <2>1, RanksAre
<1>5. \A n \in S : pos[n] = Cardinality({m \in S : m.id < n.id})
  BY <1>2
<1> HIDE DEF pos
<1>6. ASSUME NEW i \in 1 .. Cardinality(S)
      PROVE  (CHOOSE n \in S : Cardinality({m \in S : m.id < n.id}) = i - 1) \in S
  <2>1. i - 1 \in 0 .. Cardinality(S) - 1
    BY <1>3
  <2>2. \E n \in S : Cardinality({m \in S : m.id < n.id}) = i - 1
    BY <1>4, <1>5, <2>1
  <2> QED BY <2>2
<1>7. InOrder(S) \in [1 .. Cardinality(S) -> S]
  BY <1>6 DEF InOrder
<1>8. Len(InOrder(S)) = Cardinality(S)
  <2>1. InOrder(S) \in Seq(S)
    BY <1>3, <1>7
  <2> QED BY <1>3, <1>7, <2>1
<1> QED BY <1>3, <1>7, <1>8

\* The chain of a node, and the outer one, are of steps.
LEMMA ChainsAre ==
  ASSUME NEW s, Outline(s), NEW id
  PROVE  /\ DOMAIN Chain(s, id) = 1 .. Len(Chain(s, id)) /\ Len(Chain(s, id)) \in Nat
         /\ \A k \in DOMAIN Chain(s, id) : Chain(s, id)[k] \in Steps(s, id)
         /\ Steps(s, id) # {} => Len(Chain(s, id)) # 0
         /\ DOMAIN Top(s) = 1 .. Len(Top(s)) /\ Len(Top(s)) \in Nat
         /\ \A k \in DOMAIN Top(s) : Top(s)[k] \in TopSteps(s)
<1>1. /\ IsFiniteSet(ToSet(s)) /\ \A n, m \in ToSet(s) : n.id = m.id => n = m
      /\ Len(s) \in Nat /\ \A n \in ToSet(s) : n.id \in 0 .. Len(s) - 1
  BY OutlineIs
<1>2. \A n \in ToSet(s) : n.id \in Nat
  BY <1>1
<1>3. ASSUME NEW S, S \subseteq ToSet(s)
      PROVE  /\ DOMAIN InOrder(S) = 1 .. Len(InOrder(S)) /\ Len(InOrder(S)) \in Nat
             /\ \A k \in DOMAIN InOrder(S) : InOrder(S)[k] \in S
             /\ S # {} => Len(InOrder(S)) # 0
  <2>1. IsFiniteSet(S)
    BY <1>1, <1>3, FS_Subset
  <2>2. /\ Cardinality(S) \in Nat /\ DOMAIN InOrder(S) = 1 .. Cardinality(S)
        /\ Len(InOrder(S)) = Cardinality(S)
        /\ \A i \in 1 .. Cardinality(S) : InOrder(S)[i] \in S
    BY <1>1, <1>2, <1>3, <2>1, InOrderIs
  <2>3. S # {} => Cardinality(S) # 0
    BY <2>1, FS_EmptySet
  <2> QED BY <2>2, <2>3
<1>4. Steps(s, id) \subseteq ToSet(s) /\ TopSteps(s) \subseteq ToSet(s)
  BY DEF TopSteps, Steps, Under
<1> QED BY <1>3, <1>4 DEF Chain, Top

-----------------------------------------------------------------------------
(* What a selector means.                                                  *)

Related(f, op, x, y) == Means(f, IF op = NULL THEN "desc" ELSE op, x, y)
Leads(f, g, chain, i) ==
  \E path \in [DOMAIN chain -> Positions(f)] :
    \A k \in DOMAIN chain :
      /\ path[k] \in g[chain[k].id]
      /\ Related(f, chain[k].op, IF k = 1 THEN i ELSE path[k - 1], path[k])

\* The positions a step is true of, when g are those of the steps in its groups.
TrueOf(f, s, g, id) ==
  {i \in Positions(f) :
     \A n \in Under(s, id) :
       /\ n.kind \in ClauseKind => True(f, n, i)
       /\ Group(n) => ((n.kind = "has") <=> Leads(f, g, Chain(s, n.id), i))}
Sound(f, s, g) == g = [id \in StepIds(s) |-> TrueOf(f, s, g, id)]

LEMMA SelectedIs ==
  ASSUME NEW f, \E g : Sound(f, ir, g)
  PROVE  \E g : /\ Sound(f, ir, g)
                /\ Selected(f) = {b \in [DOMAIN Top(ir) -> Positions(f)] :
                                    \A k \in DOMAIN b :
                                      /\ b[k] \in g[Top(ir)[k].id]
                                      /\ k > 1 => Means(f, Top(ir)[k].op, b[k - 1], b[k])}
<1> DEFINE true == CHOOSE g : Sound(f, ir, g)
<1>1. Sound(f, ir, true)
  OBVIOUS
<1>2. Selected(f) = {b \in [DOMAIN Top(ir) -> Positions(f)] :
                       \A k \in DOMAIN b :
                         /\ b[k] \in true[Top(ir)[k].id]
                         /\ k > 1 => Means(f, Top(ir)[k].op, b[k - 1], b[k])}
  BY DEF Selected, Sound, TrueOf, Leads, Related
<1> HIDE DEF true
<1> QED BY <1>1, <1>2

\* The steps without groups, and those whose groups are of steps in A.
Flat(s)    == {id \in StepIds(s) : \A n \in Under(s, id) : ~ Group(n)}
Over(s, A) == {id \in StepIds(s) : \A n \in Under(s, id) : Group(n) => \A x \in Steps(s, n.id) : x.id \in A}

LEMMA AllIsOver ==
  ASSUME NEW s, Outline(s), Grown(s)
  PROVE  StepIds(s) = Over(s, Over(s, Flat(s)))
<1> DEFINE top == TopSteps(s)
<1> DEFINE one == Inner(s, top)
<1> DEFINE two == Inner(s, one)
<1>1. \A x \in ToSet(s) : x.kind = "step" => x \in top \cup one \cup two
  BY StepsAre
<1>2. \A x \in two : \A k \in ToSet(s) : k.parent = x.id => ~ Group(k)
  BY InnermostAreBare
<1>3. \A x \in top \cup one \cup two : x \in ToSet(s) /\ x.kind = "step"
  BY TopAre, InnerAre
<1>4. \A x \in top \cup one \cup two : x.id \in StepIds(s)
  BY <1>3 DEF StepIds
<1>5. ASSUME NEW S, NEW x \in S, NEW n \in Under(s, x.id), Group(n), NEW y \in Steps(s, n.id)
      PROVE  y \in Inner(s, S)
  <2>1. n \in Parts(s, S)
    BY <1>5, PartsAre DEF Under, Group
  <2> QED BY <1>5, <2>1, InnerAre DEF Steps, Under
<1> HIDE DEF top, one, two
<1>6. \A x \in two : x.id \in Flat(s)
  BY <1>2, <1>4 DEF Flat, Under
<1>7. \A x \in one : x.id \in Over(s, Flat(s))
  BY <1>4, <1>5, <1>6 DEF Over, two
<1>8. \A x \in top : x.id \in Over(s, Over(s, Flat(s)))
  BY <1>4, <1>5, <1>7 DEF Over, one
<1>9. Flat(s) \subseteq Over(s, Flat(s))
  BY DEF Flat, Over
<1>10. Over(s, Flat(s)) \subseteq Over(s, Over(s, Flat(s)))
  BY <1>9 DEF Over
<1>11. StepIds(s) \subseteq Over(s, Over(s, Flat(s)))
  <2> SUFFICES ASSUME NEW x \in ToSet(s), x.kind = "step" PROVE x.id \in Over(s, Over(s, Flat(s)))
    BY DEF StepIds
  <2> QED BY <1>1, <1>6, <1>7, <1>8, <1>9, <1>10
<1>12. Over(s, Over(s, Flat(s))) \subseteq StepIds(s)
  BY DEF Over
<1> QED BY <1>11, <1>12

\* What is true of a step depends on the steps in its groups alone.
LEMMA TrueDepends ==
  ASSUME NEW f, NEW s, Outline(s), NEW A, NEW g, NEW h, \A id \in A : g[id] = h[id], NEW id \in Over(s, A)
  PROVE  TrueOf(f, s, g, id) = TrueOf(f, s, h, id)
<1>1. ASSUME NEW n \in Under(s, id), Group(n), NEW i
      PROVE  Leads(f, g, Chain(s, n.id), i) <=> Leads(f, h, Chain(s, n.id), i)
  <2>1. \A k \in DOMAIN Chain(s, n.id) : Chain(s, n.id)[k].id \in A
    BY <1>1, ChainsAre DEF Over
  <2>2. \A k \in DOMAIN Chain(s, n.id) : g[Chain(s, n.id)[k].id] = h[Chain(s, n.id)[k].id]
    BY <2>1
  <2> QED BY <2>2 DEF Leads
<1> QED BY <1>1 DEF TrueOf

LEMMA FlatIsTrue ==
  ASSUME NEW f, NEW s, NEW g, NEW id \in Flat(s)
  PROVE  TrueOf(f, s, g, id) = {i \in Positions(f) : \A n \in Under(s, id) : n.kind \in ClauseKind => True(f, n, i)}
BY DEF TrueOf, Flat

\* A selector means something: its recursion ends.
LEMMA SoundExists ==
  ASSUME NEW f, NEW s, Outline(s), Grown(s)
  PROVE  \E g : Sound(f, s, g)
<1> DEFINE pass(g) == [id \in StepIds(s) |-> TrueOf(f, s, g, id)]
<1> DEFINE p1 == pass(<<>>)
<1> DEFINE p2 == pass(p1)
<1> DEFINE p3 == pass(p2)
<1>0. Flat(s) \subseteq StepIds(s) /\ \A A : Over(s, A) \subseteq StepIds(s)
  BY DEF Flat, Over
<1>1. ASSUME NEW g, NEW id \in StepIds(s) PROVE pass(g)[id] = TrueOf(f, s, g, id)
  OBVIOUS
<1>2. \A id \in Flat(s) : p1[id] = p2[id]
  <2> TAKE id \in Flat(s)
  <2>1. TrueOf(f, s, <<>>, id) = TrueOf(f, s, p1, id)
    <3> HIDE DEF p1
    <3> QED BY FlatIsTrue
  <2>2. p1[id] = TrueOf(f, s, <<>>, id)
    BY <1>0
  <2>3. p2[id] = TrueOf(f, s, p1, id)
    <3> HIDE DEF p1
    <3> QED BY <1>0
  <2> QED BY <2>1, <2>2, <2>3
<1> HIDE DEF pass
<1>3. \A id \in Over(s, Flat(s)) : p2[id] = p3[id]
  <2> TAKE id \in Over(s, Flat(s))
  <2>1. TrueOf(f, s, p1, id) = TrueOf(f, s, p2, id)
    BY <1>2, TrueDepends
  <2> QED BY <1>0, <1>1, <2>1
<1>4. \A id \in StepIds(s) : TrueOf(f, s, p2, id) = TrueOf(f, s, p3, id)
  <2> TAKE id \in StepIds(s)
  <2>1. id \in Over(s, Over(s, Flat(s)))
    BY AllIsOver
  <2> HIDE DEF p2, p3
  <2> QED BY <1>3, <2>1, TrueDepends
<1>5. p3 = [id \in StepIds(s) |-> TrueOf(f, s, p3, id)]
  <2>1. p3 = [id \in StepIds(s) |-> TrueOf(f, s, p2, id)]
    BY DEF pass
  <2> HIDE DEF p2, p3
  <2> QED BY <1>4, <2>1
<1> HIDE DEF p3
<1> QED BY <1>5 DEF Sound

-----------------------------------------------------------------------------
(* What the compiled query answers.                                        *)

\* A clause holds of a row when it is true of its position.
LEMMA HoldsIs ==
  ASSUME NEW f, Preorder(f), Declared(tree, f), NEW i \in 1 .. Len(f), NEW c
  PROVE  Holds(tree, Encoded(f), c, RowFor(f, i)) <=> True(f, c, i)
<1>1. tree.elem \in BOOLEAN /\ (tree.elem \/ \A k \in 1 .. Len(f) : f[k].element)
  BY PreorderRises DEF Declared
<1>2. /\ FirstChild(Encoded(f), tree.elem, RowFor(f, i)) <=> IsFirst(f, i)
      /\ LastChild(Encoded(f), tree.elem, RowFor(f, i)) <=> IsLast(f, i)
  BY <1>1, FirstIs, LastIs
<1>3. RowFor(f, i).says = f[i].says
  BY RowsShow
<1>4. CASE c.kind = "pseudo" /\ c.value = "first-child"
  BY <1>2, <1>4 DEF Holds, True, Builtin, Positional
<1>5. CASE c.kind = "pseudo" /\ c.value = "last-child"
  BY <1>2, <1>5 DEF Holds, True, Builtin, Positional
<1>6. CASE c.kind = "pseudo" /\ c.value \notin Positional \cup tree.preds
  BY <1>6 DEF Holds, True, Positional
<1>7. CASE c.kind # "pseudo" \/ (c.value \in tree.preds /\ c.value \notin Positional)
  BY <1>3, <1>7 DEF Holds, True, Positional
<1> QED BY <1>4, <1>5, <1>6, <1>7 DEF Positional

\* A pass holds the rows of the positions g.
Shows(f, pass, g, id) == \A i \in 1 .. Len(f) : <<id, RowFor(f, i)>> \in pass <=> i \in g[id]

Chained(f, chain, pass, g) ==
  /\ DOMAIN chain = 1 .. Len(chain) /\ Len(chain) \in Nat
  /\ \A k \in DOMAIN chain : (k > 1 => chain[k].op \in Combinator) /\ Shows(f, pass, g, chain[k].id)

LEMMA JoinedIs ==
  ASSUME NEW f, Preorder(f), Declared(tree, f), NEW chain, NEW pass, NEW g, Chained(f, chain, pass, g),
         NEW path \in [DOMAIN chain -> Positions(f)]
  PROVE  [k \in DOMAIN chain |-> RowFor(f, path[k])] \in Joined(tree, Encoded(f), chain, pass) <=>
           \A k \in DOMAIN chain :
             path[k] \in g[chain[k].id] /\ (k > 1 => Means(f, chain[k].op, path[k - 1], path[k]))
<1> DEFINE rows == Encoded(f)
<1> DEFINE b == [k \in DOMAIN chain |-> RowFor(f, path[k])]
<1>0. tree.elem \in BOOLEAN /\ (tree.elem \/ \A k \in 1 .. Len(f) : f[k].element) /\ Positions(f) = 1 .. Len(f)
  BY PreorderRises DEF Declared
<1>1. b \in [DOMAIN chain -> rows]
  <2>1. \A k \in DOMAIN chain : RowFor(f, path[k]) \in rows
    BY <1>0, EncodedIs
  <2> QED BY <2>1
<1>2. ASSUME NEW k \in DOMAIN chain
      PROVE  /\ <<chain[k].id, b[k]>> \in pass <=> path[k] \in g[chain[k].id]
             /\ k > 1 => (Comb(rows, tree.elem, chain[k].op, b[k - 1], b[k])
                            <=> Means(f, chain[k].op, path[k - 1], path[k]))
  <2>1. path[k] \in 1 .. Len(f) /\ b[k] = RowFor(f, path[k])
    BY <1>0
  <2>2. <<chain[k].id, b[k]>> \in pass <=> path[k] \in g[chain[k].id]
    BY <2>1 DEF Chained, Shows
  <2>3. ASSUME k > 1
        PROVE  Comb(rows, tree.elem, chain[k].op, b[k - 1], b[k]) <=> Means(f, chain[k].op, path[k - 1], path[k])
    <3>1. k - 1 \in DOMAIN chain /\ chain[k].op \in Combinator
      BY <2>3 DEF Chained
    <3>2. path[k - 1] \in 1 .. Len(f) /\ b[k - 1] = RowFor(f, path[k - 1])
      BY <1>0, <3>1
    <3> HIDE DEF b
    <3> QED BY <1>0, <2>1, <3>1, <3>2, CombIs
  <2> HIDE DEF b, rows
  <2> QED BY <2>2, <2>3
<1> HIDE DEF b, rows
<1>3. b \in Joined(tree, rows, chain, pass) <=>
        \A k \in DOMAIN chain :
          <<chain[k].id, b[k]>> \in pass /\ (k > 1 => Comb(rows, tree.elem, chain[k].op, b[k - 1], b[k]))
  BY <1>1 DEF Joined
<1> QED BY <1>2, <1>3 DEF b, rows

LEMMA JoinedRows ==
  ASSUME NEW f, Preorder(f), NEW chain, NEW pass, NEW b \in Joined(tree, Encoded(f), chain, pass)
  PROVE  \E path \in [DOMAIN chain -> Positions(f)] :
           /\ b = [k \in DOMAIN chain |-> RowFor(f, path[k])]
           /\ path = [k \in DOMAIN b |-> b[k].at]
<1> DEFINE path == [k \in DOMAIN b |-> b[k].at]
<1>1. b \in [DOMAIN chain -> Encoded(f)]
  BY DEF Joined
<1>2. \A k \in DOMAIN chain : path[k] \in Positions(f) /\ b[k] = RowFor(f, path[k])
  <2> TAKE k \in DOMAIN chain
  <2>1. PICK i \in 1 .. Len(f) : b[k] = RowFor(f, i)
    BY <1>1, EncodedIs, PreorderRises
  <2>2. b[k].at = i
    BY <2>1, RowsShow
  <2>3. path[k] = i
    BY <1>1, <2>2
  <2> QED BY <2>1, <2>3, PreorderRises
<1>3. path \in [DOMAIN chain -> Positions(f)]
  BY <1>1, <1>2
<1>4. b = [k \in DOMAIN chain |-> RowFor(f, path[k])]
  <2> HIDE DEF path
  <2>1. b = [k \in DOMAIN chain |-> b[k]]
    BY <1>1
  <2> QED BY <1>2, <2>1
<1> QED BY <1>3, <1>4

\* An anchored chain joins when it leads somewhere.
LEMMA LeadsIs ==
  ASSUME NEW f, Preorder(f), Declared(tree, f), NEW chain, NEW pass, NEW g, Chained(f, chain, pass, g),
         Len(chain) # 0, chain[1].op \in Combinator \cup {NULL}, NEW i \in 1 .. Len(f)
  PROVE  LET op == IF chain[1].op = NULL THEN "desc" ELSE chain[1].op IN
         (\E b \in Joined(tree, Encoded(f), chain, pass) : Comb(Encoded(f), tree.elem, op, RowFor(f, i), b[1]))
           <=> Leads(f, g, chain, i)
<1> DEFINE rows == Encoded(f)
<1> DEFINE op == IF chain[1].op = NULL THEN "desc" ELSE chain[1].op
<1>0. tree.elem \in BOOLEAN /\ (tree.elem \/ \A k \in 1 .. Len(f) : f[k].element) /\ Positions(f) = 1 .. Len(f)
  BY PreorderRises DEF Declared
<1>1. op \in Combinator
  BY DEF Combinator
<1>2. 1 \in DOMAIN chain
  BY DEF Chained
<1>3. ASSUME NEW j \in 1 .. Len(f)
      PROVE  Comb(rows, tree.elem, op, RowFor(f, i), RowFor(f, j)) <=> Related(f, chain[1].op, i, j)
  <2>1. Comb(rows, tree.elem, op, RowFor(f, i), RowFor(f, j)) <=> Means(f, op, i, j)
    <3> HIDE DEF op
    <3> QED BY <1>0, <1>1, CombIs
  <2> QED BY <2>1 DEF Related
<1>4. \A k \in DOMAIN chain : k > 1 => \A x, y : Related(f, chain[k].op, x, y) <=> Means(f, chain[k].op, x, y)
  BY OpsAssumption DEF Chained, Related
<1> DEFINE linked(path) ==
      \A k \in DOMAIN chain :
        path[k] \in g[chain[k].id] /\ (k > 1 => Means(f, chain[k].op, path[k - 1], path[k]))
<1>5. ASSUME NEW path \in [DOMAIN chain -> Positions(f)]
      PROVE  (linked(path) /\ Related(f, chain[1].op, i, path[1])) <=>
               \A k \in DOMAIN chain :
                 /\ path[k] \in g[chain[k].id]
                 /\ Related(f, chain[k].op, IF k = 1 THEN i ELSE path[k - 1], path[k])
  <2>1. \A k \in DOMAIN chain : k = 1 \/ k > 1
    BY DEF Chained
  <2>2. ASSUME NEW k \in DOMAIN chain
        PROVE  Related(f, chain[k].op, IF k = 1 THEN i ELSE path[k - 1], path[k]) <=>
                 /\ k = 1 => Related(f, chain[1].op, i, path[1])
                 /\ k > 1 => Means(f, chain[k].op, path[k - 1], path[k])
    <3>1. CASE k = 1
      BY <3>1
    <3>2. CASE k > 1
      BY <1>4, <3>2
    <3> QED BY <2>1, <3>1, <3>2
  <2> QED BY <1>2, <2>2
<1> HIDE DEF op, rows, linked
<1>6. ASSUME NEW b \in Joined(tree, rows, chain, pass), Comb(rows, tree.elem, op, RowFor(f, i), b[1])
      PROVE  Leads(f, g, chain, i)
  <2>1. PICK path \in [DOMAIN chain -> Positions(f)] : b = [k \in DOMAIN chain |-> RowFor(f, path[k])]
    BY JoinedRows DEF rows
  <2>2. linked(path)
    BY <2>1, JoinedIs DEF rows, linked
  <2>3. path[1] \in 1 .. Len(f) /\ b[1] = RowFor(f, path[1])
    BY <1>0, <1>2, <2>1
  <2>4. Related(f, chain[1].op, i, path[1])
    BY <1>3, <1>6, <2>3
  <2> QED BY <1>5, <2>2, <2>4 DEF Leads
<1>7. ASSUME Leads(f, g, chain, i)
      PROVE  \E b \in Joined(tree, rows, chain, pass) : Comb(rows, tree.elem, op, RowFor(f, i), b[1])
  <2>1. PICK path \in [DOMAIN chain -> Positions(f)] : linked(path) /\ Related(f, chain[1].op, i, path[1])
    BY <1>5, <1>7 DEF Leads
  <2> DEFINE b == [k \in DOMAIN chain |-> RowFor(f, path[k])]
  <2>2. b \in Joined(tree, rows, chain, pass)
    BY <2>1, JoinedIs DEF rows, linked
  <2>3. path[1] \in 1 .. Len(f) /\ b[1] = RowFor(f, path[1])
    BY <1>0, <1>2
  <2>4. Comb(rows, tree.elem, op, RowFor(f, i), RowFor(f, path[1]))
    BY <1>3, <2>1, <2>3
  <2> HIDE DEF b
  <2> QED BY <2>2, <2>3, <2>4
<1> QED BY <1>6, <1>7 DEF op, rows

\* What the checks leave of the chains of groups, and of the outer one.
Linked(s) ==
  /\ \A n \in ToSet(s) : Group(n) =>
       /\ Steps(s, n.id) # {}
       /\ \A k \in DOMAIN Chain(s, n.id) : Chain(s, n.id)[k].op \in Combinator \cup (IF k = 1 THEN {NULL} ELSE {})
  /\ \A k \in 2 .. Len(Top(s)) : Top(s)[k].op \in Combinator

LEMMA AcceptedLink ==
  ASSUME NEW t, NEW s, Accepted(t, s)
  PROVE  Linked(s)
BY DEF Accepted, EmptyGroup, UnknownComb, Linked

LEMMA NodeIs ==
  ASSUME NEW s, Outline(s), NEW n \in ToSet(s)
  PROVE  Node(s, n.id) = n
BY OutlineIs DEF Node

GroupRows(s, rows, pass, id) ==
  LET op    == IF Chain(s, id)[1].op = NULL THEN "desc" ELSE Chain(s, id)[1].op
      found == {a \in rows : \E b \in Joined(tree, rows, Chain(s, id), pass) : Comb(rows, tree.elem, op, a, b[1])}
  IN  IF Node(s, id).kind = "has" THEN found ELSE rows \ found

LEMMA GroupsAre ==
  ASSUME NEW s, NEW rows, NEW pass, NEW id, NEW r
  PROVE  <<id, r>> \in Groups(tree, s, rows, pass) <=> id \in GroupIds(s) /\ r \in GroupRows(s, rows, pass, id)
<1>1. Groups(tree, s, rows, pass) = UNION {{g} \X GroupRows(s, rows, pass, g) : g \in GroupIds(s)}
  BY DEF Groups, GroupRows
<1> QED BY <1>1

\* A group holds of a row when it is true of its position.
LEMMA GroupIs ==
  ASSUME NEW f, Preorder(f), Declared(tree, f), NEW s, Outline(s), Linked(s), NEW pass, NEW g,
         NEW n \in ToSet(s), Group(n), \A x \in Steps(s, n.id) : Shows(f, pass, g, x.id), NEW i \in 1 .. Len(f)
  PROVE  <<n.id, RowFor(f, i)>> \in Groups(tree, s, Encoded(f), pass) <=>
           ((n.kind = "has") <=> Leads(f, g, Chain(s, n.id), i))
<1> DEFINE rows == Encoded(f)
<1> DEFINE chain == Chain(s, n.id)
<1> DEFINE a == RowFor(f, i)
<1> DEFINE op == IF chain[1].op = NULL THEN "desc" ELSE chain[1].op
<1>1. /\ DOMAIN chain = 1 .. Len(chain) /\ Len(chain) \in Nat /\ Len(chain) # 0
      /\ \A k \in DOMAIN chain : chain[k] \in Steps(s, n.id)
  BY ChainsAre DEF Linked
<1>2. \A k \in DOMAIN chain : chain[k].op \in Combinator \cup (IF k = 1 THEN {NULL} ELSE {})
  BY DEF Linked
<1>3. Chained(f, chain, pass, g) /\ chain[1].op \in Combinator \cup {NULL}
  <2> HIDE DEF chain
  <2>1. \A k \in DOMAIN chain : (k > 1 => chain[k].op \in Combinator) /\ Shows(f, pass, g, chain[k].id)
    BY <1>1, <1>2
  <2> QED BY <1>1, <1>2, <2>1 DEF Chained
<1>4. a \in rows /\ Node(s, n.id) = n /\ n.id \in GroupIds(s)
  BY EncodedIs, PreorderRises, NodeIs DEF GroupIds
<1>5. (\E b \in Joined(tree, rows, chain, pass) : Comb(rows, tree.elem, op, a, b[1])) <=> Leads(f, g, chain, i)
  <2> HIDE DEF chain
  <2> QED BY <1>1, <1>3, LeadsIs
<1>6. <<n.id, a>> \in Groups(tree, s, rows, pass) <=> n.id \in GroupIds(s) /\ a \in GroupRows(s, rows, pass, n.id)
  BY GroupsAre
<1>7. a \in GroupRows(s, rows, pass, n.id) <=>
        IF n.kind = "has" THEN \E b \in Joined(tree, rows, chain, pass) : Comb(rows, tree.elem, op, a, b[1])
        ELSE ~ \E b \in Joined(tree, rows, chain, pass) : Comb(rows, tree.elem, op, a, b[1])
  <2> HIDE DEF rows, a
  <2> QED BY <1>4 DEF GroupRows
<1> HIDE DEF rows, chain, a, op
<1>8. <<n.id, a>> \in Groups(tree, s, rows, pass) <=> ((n.kind = "has") <=> Leads(f, g, chain, i))
  BY <1>4, <1>5, <1>6, <1>7
<1> QED BY <1>8 DEF rows, chain, a

\* A step from its clauses, and from its clauses and its groups.
LEMMA StepAIs ==
  ASSUME NEW f, Preorder(f), Declared(tree, f), NEW s, NEW id \in StepIds(s), NEW i \in 1 .. Len(f)
  PROVE  <<id, RowFor(f, i)>> \in StepA(tree, s, Encoded(f)) <=>
           \A n \in Under(s, id) : n.kind \in ClauseKind => True(f, n, i)
<1>1. \A n \in Under(s, id) : Holds(tree, Encoded(f), n, RowFor(f, i)) <=> True(f, n, i)
  BY HoldsIs
<1>2. RowFor(f, i) \in Encoded(f)
  BY EncodedIs, PreorderRises
<1> DEFINE rows == Encoded(f)
<1> DEFINE a == RowFor(f, i)
<1> DEFINE p == <<id, a>>
<1>3. p \in StepIds(s) \X rows
  BY <1>2
<1>4. p[1] = id /\ p[2] = a
  OBVIOUS
<1> HIDE DEF p, rows, a
<1>5. p \in StepA(tree, s, rows) <=> \A c \in Under(s, id) : c.kind \in ClauseKind => Holds(tree, rows, c, a)
  BY <1>3, <1>4 DEF StepA
<1> QED BY <1>1, <1>5 DEF p, rows, a

LEMMA PassIsSound ==
  ASSUME NEW f, Preorder(f), Declared(tree, f), NEW s, Outline(s), Linked(s), NEW pass, NEW g, Sound(f, s, g),
         NEW A, \A id \in A : Shows(f, pass, g, id), NEW id \in Over(s, A)
  PROVE  Shows(f, StepWith(tree, s, Encoded(f), Groups(tree, s, Encoded(f), pass)), g, id)
<1> DEFINE rows == Encoded(f)
<1> DEFINE groups == Groups(tree, s, rows, pass)
<1> SUFFICES ASSUME NEW i \in 1 .. Len(f)
             PROVE  <<id, RowFor(f, i)>> \in StepWith(tree, s, rows, groups) <=> i \in g[id]
  BY DEF Shows
<1> DEFINE a == RowFor(f, i)
<1> DEFINE p == <<id, a>>
<1>0. id \in StepIds(s) /\ \A n \in Under(s, id) : Group(n) => \A x \in Steps(s, n.id) : x.id \in A
  BY DEF Over
<1>1. ASSUME NEW n \in Under(s, id), Group(n)
      PROVE  <<n.id, a>> \in groups <=> ((n.kind = "has") <=> Leads(f, g, Chain(s, n.id), i))
  <2>1. n \in ToSet(s) /\ \A x \in Steps(s, n.id) : Shows(f, pass, g, x.id)
    BY <1>0, <1>1 DEF Under
  <2> QED BY <1>1, <2>1, GroupIs
<1>2. p \in StepA(tree, s, rows) <=> \A n \in Under(s, id) : n.kind \in ClauseKind => True(f, n, i)
  BY <1>0, StepAIs
<1>3. p[1] = id /\ p[2] = a
  OBVIOUS
<1> HIDE DEF p, a, groups, rows
<1>4. p \in StepWith(tree, s, rows, groups) <=>
        p \in StepA(tree, s, rows) /\ \A h \in GroupIds(s) : Node(s, h).parent = id => <<h, a>> \in groups
  BY <1>3 DEF StepWith
<1>5. (\A h \in GroupIds(s) : Node(s, h).parent = id => <<h, a>> \in groups) <=>
        \A n \in Under(s, id) : Group(n) => <<n.id, a>> \in groups
  <2>1. \A n \in ToSet(s) : Node(s, n.id) = n
    BY NodeIs
  <2> QED BY <2>1 DEF GroupIds, Under
<1>6. i \in TrueOf(f, s, g, id) <=>
        \A n \in Under(s, id) :
          /\ n.kind \in ClauseKind => True(f, n, i)
          /\ Group(n) => ((n.kind = "has") <=> Leads(f, g, Chain(s, n.id), i))
  BY PreorderRises DEF TrueOf
<1>7. g[id] = TrueOf(f, s, g, id)
  BY <1>0 DEF Sound
<1>8. p \in StepWith(tree, s, rows, groups) <=> i \in g[id]
  BY <1>1, <1>2, <1>4, <1>5, <1>6, <1>7
<1> QED BY <1>8 DEF p, a

\* The last pass holds of every step what is true of it.
LEMMA StepCIsSound ==
  ASSUME NEW f, Preorder(f), Declared(tree, f), NEW s, Outline(s), Grown(s), Linked(s), NEW g, Sound(f, s, g),
         NEW id \in StepIds(s)
  PROVE  Shows(f, StepC(tree, s, Encoded(f)), g, id)
<1> DEFINE rows == Encoded(f)
<1> DEFINE stepA == StepA(tree, s, rows)
<1> DEFINE stepB == StepWith(tree, s, rows, Groups(tree, s, rows, stepA))
<1>1. \A x \in Flat(s) : Shows(f, stepA, g, x)
  <2> TAKE x \in Flat(s)
  <2>1. x \in StepIds(s)
    BY DEF Flat
  <2>2. g[x] = {i \in Positions(f) : \A n \in Under(s, x) : n.kind \in ClauseKind => True(f, n, i)}
    BY <2>1, FlatIsTrue DEF Sound
  <2>3. \A i \in 1 .. Len(f) : <<x, RowFor(f, i)>> \in stepA <=>
          \A n \in Under(s, x) : n.kind \in ClauseKind => True(f, n, i)
    BY <2>1, StepAIs
  <2> HIDE DEF stepA
  <2> QED BY <2>2, <2>3, PreorderRises DEF Shows
<1> HIDE DEF stepA
<1>2. \A x \in Over(s, Flat(s)) : Shows(f, stepB, g, x)
  BY <1>1, PassIsSound
<1>3. StepC(tree, s, rows) = StepWith(tree, s, rows, Groups(tree, s, rows, stepB))
  BY DEF StepC, stepA
<1>4. id \in Over(s, Over(s, Flat(s)))
  BY AllIsOver
<1> HIDE DEF stepB
<1>5. Shows(f, StepWith(tree, s, rows, Groups(tree, s, rows, stepB)), g, id)
  BY <1>2, <1>4, PassIsSound
<1> QED BY <1>3, <1>5

LEMMA AnswersMean ==
  ASSUME NEW f, Preorder(f), Declared(tree, f), Outline(ir), Accepted(tree, ir)
  PROVE  Answered(f) = Selected(f)
<1>1. Grown(ir) /\ Linked(ir)
  BY AcceptedGrow, AcceptedLink
<1>2. PICK g : /\ Sound(f, ir, g)
               /\ Selected(f) = {b \in [DOMAIN Top(ir) -> Positions(f)] :
                                   \A k \in DOMAIN b :
                                     /\ b[k] \in g[Top(ir)[k].id]
                                     /\ k > 1 => Means(f, Top(ir)[k].op, b[k - 1], b[k])}
  BY <1>1, SoundExists, SelectedIs
<1> DEFINE rows == Encoded(f)
<1> DEFINE chain == Top(ir)
<1> DEFINE pass == StepC(tree, ir, rows)
<1>3. /\ DOMAIN chain = 1 .. Len(chain) /\ Len(chain) \in Nat
      /\ \A k \in DOMAIN chain : chain[k].id \in StepIds(ir)
  <2>1. /\ DOMAIN chain = 1 .. Len(chain) /\ Len(chain) \in Nat
        /\ \A k \in DOMAIN chain : chain[k] \in TopSteps(ir)
    BY ChainsAre
  <2>2. \A x \in TopSteps(ir) : x.id \in StepIds(ir)
    BY TopAre DEF StepIds
  <2> QED BY <2>1, <2>2
<1>4. Chained(f, chain, pass, g)
  <2>1. \A k \in DOMAIN chain : k > 1 => chain[k].op \in Combinator
    BY <1>1, <1>3 DEF Linked
  <2>2. \A k \in DOMAIN chain : Shows(f, pass, g, chain[k].id)
    BY <1>1, <1>2, <1>3, StepCIsSound
  <2> HIDE DEF pass
  <2> QED BY <1>3, <2>1, <2>2 DEF Chained
<1> DEFINE J == Joined(tree, rows, chain, pass)
<1>5. Answered(f) = {[k \in DOMAIN b |-> b[k].at] : b \in J}
  BY DEF Answered, Answers
<1> HIDE DEF pass, chain
<1>6. ASSUME NEW b \in J PROVE [k \in DOMAIN b |-> b[k].at] \in Selected(f)
  <2>1. PICK path \in [DOMAIN chain -> Positions(f)] :
          b = [k \in DOMAIN chain |-> RowFor(f, path[k])] /\ path = [k \in DOMAIN b |-> b[k].at]
    BY JoinedRows
  <2>2. \A k \in DOMAIN chain : path[k] \in g[chain[k].id] /\ (k > 1 => Means(f, chain[k].op, path[k - 1], path[k]))
    BY <1>4, <2>1, JoinedIs
  <2>3. path \in Selected(f)
    BY <1>2, <2>2 DEF chain
  <2> QED BY <2>1, <2>3
<1>7. ASSUME NEW path \in Selected(f) PROVE \E b \in J : path = [k \in DOMAIN b |-> b[k].at]
  <2>1. /\ path \in [DOMAIN chain -> Positions(f)]
        /\ \A k \in DOMAIN chain : path[k] \in g[chain[k].id] /\ (k > 1 => Means(f, chain[k].op, path[k - 1], path[k]))
    BY <1>2 DEF chain
  <2> DEFINE b == [k \in DOMAIN chain |-> RowFor(f, path[k])]
  <2>2. b \in J
    BY <1>4, <2>1, JoinedIs
  <2>3. \A k \in DOMAIN chain : b[k].at = path[k]
    BY <2>1, RowsShow, PreorderRises
  <2>4. path = [k \in DOMAIN b |-> b[k].at]
    BY <2>1, <2>3
  <2> HIDE DEF b, J
  <2> QED BY <2>2, <2>4
<1> HIDE DEF J
<1> QED BY <1>5, <1>6, <1>7

LEMMA DeclaredKept ==
  ASSUME Preorder(forest), Declared(tree, forest), [Next]_vars
  PROVE  Declared(tree', forest')
<1>1. CASE UNCHANGED vars
  BY <1>1 DEF vars
<1>2. CASE AddNode
  BY <1>2 DEF AddNode
<1>3. CASE AddRow
  <2> DEFINE f == forest
  <2> DEFINE g == forest'
  <2>1. PICK row : g = Append(f, row) /\ (tree.elem \/ row.element)
    <3>1. PICK root \in {"a", "b"}, up \in 0 .. Len(f), look \in Looks :
            /\ tree.elem \/ look.element
            /\ g = Append(f, [root |-> root, up |-> up, element |-> look.element, says |-> look.says])
      BY <1>3 DEF AddRow
    <3> QED BY <3>1
  <2>2. IsList(f) /\ Positions(f) = 1 .. Len(f) /\ Len(f) \in Nat
    BY PreorderRises DEF Rising
  <2>3. tree' = tree /\ Declared(tree, f)
    BY <1>3 DEF AddRow
  <2> HIDE DEF f, g
  <2>4. /\ Positions(g) = 1 .. Len(f) + 1 /\ g[Len(f) + 1] = row
        /\ \A i \in 1 .. Len(f) : g[i] = f[i]
    BY <2>1, <2>2, ListAppends DEF Positions
  <2>5. tree.elem \/ \A i \in Positions(g) : g[i].element
    <3> SUFFICES ASSUME ~ tree.elem, NEW i \in Positions(g) PROVE g[i].element
      OBVIOUS
    <3>1. CASE i = Len(f) + 1
      BY <2>1, <2>4, <3>1
    <3>2. CASE i # Len(f) + 1
      BY <2>2, <2>3, <2>4, <3>2 DEF Declared
    <3> QED BY <3>1, <3>2
  <2>6. Declared(tree', g)
    BY <2>3, <2>5 DEF Declared
  <2> QED BY <2>6 DEF g
<1> QED BY <1>1, <1>2, <1>3 DEF Next

\* What is drawn and grown is a forest in preorder, with elements where the tree says
\* so, and a selector in order.
Drawn ==
  /\ Preorder(forest) /\ Declared(tree, forest)
  /\ ~ Forward => DupIds(ir) \/ Outline(ir)

LEMMA DrawnInv == Spec => []Drawn
<1>1. Init => Drawn
  BY SeedsAssumption DEF Init, Drawn
<1>2. Drawn /\ [Next]_vars => Drawn'
  <2> SUFFICES ASSUME Drawn, [Next]_vars PROVE Drawn'
    OBVIOUS
  <2>1. Preorder(forest')
    BY DrawnInPreorder DEF Drawn
  <2>2. Declared(tree', forest')
    BY DeclaredKept DEF Drawn
  <2>3. ~ Forward => DupIds(ir)' \/ Outline(ir')
    BY OutlineKept DEF Drawn
  <2>4. (DupIds(ir))' = DupIds(ir')
    BY DEF DupIds, ToSet
  <2> QED BY <2>1, <2>2, <2>3, <2>4 DEF Drawn, Preorder, Positions, Ups, Declared, Outline, DupIds, ToSet
<1> QED BY <1>1, <1>2, PTL DEF Spec

\* A selector of any size over a forest of any size: what the compiler accepts answers
\* the bindings it means.  The recursion through the groups ends after DepthLimit + 1
\* rounds, which are the passes of stepA, stepB and stepC.
THEOREM AnswersHold == Spec => []AnswersAreTheMeaning
<1>1. Drawn => AnswersAreTheMeaning
  <2> SUFFICES ASSUME Drawn, ~ Forward, Accepted(tree, ir) PROVE Answered(forest) = Selected(forest)
    BY DEF AnswersAreTheMeaning
  <2>1. Outline(ir)
    BY DEF Drawn, Accepted
  <2> QED BY <2>1, AnswersMean DEF Drawn
<1> QED BY <1>1, DrawnInv, PTL

-----------------------------------------------------------------------------
(* Siblings in another order.                                              *)

\* g is f with its row p[k] drawn k-th.
Relisted(f, g, p) ==
  /\ Len(f) \in Nat /\ Len(g) = Len(f) /\ Positions(f) = 1 .. Len(f) /\ Positions(g) = 1 .. Len(f)
  /\ p \in [1 .. Len(f) -> 1 .. Len(f)]
  /\ \A i, j \in 1 .. Len(f) : p[i] = p[j] => i = j
  /\ \A i \in 1 .. Len(f) : \E k \in 1 .. Len(f) : p[k] = i
  /\ \A k \in 1 .. Len(f) :
       /\ g[k].element = f[p[k]].element /\ g[k].says = f[p[k]].says
       /\ IF f[p[k]].up = 0 THEN g[k].up = 0 ELSE g[k].up \in 1 .. Len(f) /\ p[g[k].up] = f[p[k]].up

LEMMA RelistingsAre ==
  ASSUME NEW f, Preorder(f), NEW again \in Relistings(f)
  PROVE  Preorder(again.forest) /\ Relisted(f, again.forest, again.perm)
<1> DEFINE n == Len(f)
<1> DEFINE inverse(p, i) == CHOOSE k \in 1 .. n : p[k] = i
<1> DEFINE up(p, i) == IF f[i].up = 0 THEN 0 ELSE inverse(p, f[i].up)
<1> DEFINE redrawn(p) == [k \in 1 .. n |-> [root |-> f[p[k]].root, up |-> up(p, p[k]),
                                           element |-> f[p[k]].element, says |-> f[p[k]].says]]
<1>1. n \in Nat /\ Positions(f) = 1 .. n /\ Rising(f)
  BY PreorderRises DEF Rising
<1>2. PICK p \in [1 .. n -> 1 .. n] :
        /\ \A i, j \in 1 .. n : p[i] = p[j] => i = j
        /\ Preorder(redrawn(p))
        /\ again = [perm |-> p, forest |-> redrawn(p)]
  BY DEF Relistings
<1>3. \A i \in 1 .. n : \E k \in 1 .. n : p[k] = i
  <2>1. p \in Injection(1 .. n, 1 .. n)
    BY <1>2 DEF Injection, IsInjective
  <2>2. IsFiniteSet(1 .. n)
    BY <1>1, FS_Interval
  <2>3. p \in Surjection(1 .. n, 1 .. n)
    BY <2>1, <2>2, FS_Injection
  <2> QED BY <2>3 DEF Surjection
<1> DEFINE g == redrawn(p)
<1>4. ASSUME NEW k \in 1 .. n
      PROVE  /\ g[k].element = f[p[k]].element /\ g[k].says = f[p[k]].says
             /\ IF f[p[k]].up = 0 THEN g[k].up = 0 ELSE g[k].up \in 1 .. n /\ p[g[k].up] = f[p[k]].up
  <2>1. /\ g[k].element = f[p[k]].element /\ g[k].says = f[p[k]].says
        /\ g[k].up = up(p, p[k])
    OBVIOUS
  <2>2. p[k] \in 1 .. n
    BY <1>2
  <2>3. f[p[k]].up # 0 => f[p[k]].up \in 1 .. n
    BY <1>1, <2>2 DEF Rising
  <2>4. f[p[k]].up # 0 => inverse(p, f[p[k]].up) \in 1 .. n /\ p[inverse(p, f[p[k]].up)] = f[p[k]].up
    BY <1>3, <2>3
  <2> HIDE DEF g, inverse
  <2> QED BY <2>1, <2>4
<1>5. Positions(g) = 1 .. n
  BY DEF Positions
<1> HIDE DEF redrawn
<1>6. again.forest = g /\ again.perm = p /\ Preorder(g)
  BY <1>2
<1>7. Len(g) = n
  <2>1. Positions(g) = 1 .. Len(g) /\ Len(g) \in Nat
    BY <1>6, PreorderRises DEF Rising
  <2> HIDE DEF g
  <2> QED BY <1>1, <1>5, <2>1
<1> HIDE DEF g
<1> QED BY <1>1, <1>2, <1>3, <1>4, <1>5, <1>6, <1>7 DEF Relisted

\* The rows above a row are above it wherever its siblings stand.
LEMMA UpsRelisted ==
  ASSUME NEW f, Preorder(f), NEW g, Preorder(g), NEW p, Relisted(f, g, p),
         NEW k \in 1 .. Len(f), NEW v \in 1 .. Len(f)
  PROVE  v \in Ups(g, k) <=> p[v] \in Ups(f, p[k])
<1> DEFINE n == Len(f)
<1>0. n \in Nat /\ Rising(f) /\ Rising(g) /\ Len(g) = n /\ p \in [1 .. n -> 1 .. n]
  BY PreorderRises DEF Relisted
<1> DEFINE Bad == {j \in 1 .. n : ~ (v \in Ups(g, j) <=> p[v] \in Ups(f, p[j]))}
<1>1. SUFFICES ASSUME Bad # {} PROVE FALSE
  OBVIOUS
<1>2. PICK j \in Bad : \A m \in Bad : j <= m
  <2>1. Bad \in SUBSET Nat
    BY <1>0
  <2> HIDE DEF Bad
  <2> QED BY <1>1, <2>1, LeastNat
<1>3. j \in 1 .. n /\ p[j] \in 1 .. n /\ ~ (v \in Ups(g, j) <=> p[v] \in Ups(f, p[j]))
  BY <1>0, <1>2
<1>4. Ups(g, j) = IF g[j].up = 0 THEN {} ELSE {g[j].up} \cup Ups(g, g[j].up)
  BY <1>0, <1>3, UpsAre
<1>5. Ups(f, p[j]) = IF f[p[j]].up = 0 THEN {} ELSE {f[p[j]].up} \cup Ups(f, f[p[j]].up)
  BY <1>0, <1>3, UpsAre
<1>6. f[p[j]].up # 0 /\ g[j].up \in 1 .. n /\ p[g[j].up] = f[p[j]].up
  BY <1>3, <1>4, <1>5 DEF Relisted
<1>7. g[j].up < j /\ g[j].up # 0
  <2>1. g[j].up \in 0 .. j - 1
    BY <1>0, <1>3 DEF Rising
  <2> QED BY <1>0, <1>3, <1>6, <2>1
<1>8. g[j].up \notin Bad
  <2>1. j \in Nat
    BY <1>0, <1>3
  <2> HIDE DEF Bad
  <2> QED BY <1>0, <1>2, <1>6, <1>7, <2>1
<1>9. v \in Ups(g, g[j].up) <=> p[v] \in Ups(f, f[p[j]].up)
  BY <1>6, <1>8
<1>10. v = g[j].up <=> p[v] = f[p[j]].up
  <2>1. \A a, b \in 1 .. n : p[a] = p[b] => a = b
    BY DEF Relisted
  <2>2. p[v] = p[g[j].up] <=> v = g[j].up
    BY <1>6, <2>1
  <2> QED BY <1>6, <2>2
<1> QED BY <1>3, <1>4, <1>5, <1>6, <1>7, <1>9, <1>10

\* A combinator that asks for no order means the same, ...
LEMMA MeansRelisted ==
  ASSUME NEW f, Preorder(f), NEW g, Preorder(g), NEW p, Relisted(f, g, p),
         NEW op \in Combinator \ RequiresOrder, NEW x \in 1 .. Len(f), NEW y \in 1 .. Len(f)
  PROVE  Means(g, op, x, y) <=> Means(f, op, p[x], p[y])
<1>1. (x \in Ups(g, y) <=> p[x] \in Ups(f, p[y])) /\ (y \in Ups(g, x) <=> p[y] \in Ups(f, p[x]))
  BY UpsRelisted
<1>2. x = y <=> p[x] = p[y]
  BY DEF Relisted
<1>3. ASSUME NEW k \in 1 .. Len(f), NEW v \in 1 .. Len(f) PROVE g[k].up = v <=> f[p[k]].up = p[v]
  <2>1. p[v] \in 1 .. Len(f) /\ p[v] # 0 /\ v # 0
    <3>1. p \in [1 .. Len(f) -> 1 .. Len(f)] /\ Len(f) \in Nat
      BY DEF Relisted
    <3>2. p[v] \in 1 .. Len(f)
      BY <3>1
    <3> QED BY <3>1, <3>2
  <2>2. \A a, b \in 1 .. Len(f) : p[a] = p[b] => a = b
    BY DEF Relisted
  <2>3. IF f[p[k]].up = 0 THEN g[k].up = 0 ELSE g[k].up \in 1 .. Len(f) /\ p[g[k].up] = f[p[k]].up
    BY DEF Relisted
  <2> QED BY <2>1, <2>2, <2>3
<1>4. op \in {"desc", "child", "self", "parent", "ancestor"}
  BY DEF Combinator, RequiresOrder
<1>5. CASE op = "desc"
  BY <1>1, <1>5 DEF Means
<1>6. CASE op = "child"
  BY <1>3, <1>6 DEF Means
<1>7. CASE op = "self"
  BY <1>2, <1>7 DEF Means
<1>8. CASE op = "parent"
  BY <1>3, <1>8 DEF Means
<1>9. CASE op = "ancestor"
  BY <1>1, <1>9 DEF Means
<1> QED BY <1>4, <1>5, <1>6, <1>7, <1>8, <1>9

\* ... and so does a clause that asks for none.
LEMMA TrueRelisted ==
  ASSUME NEW f, NEW g, NEW p, Relisted(f, g, p), NEW c, ~ (c.kind = "pseudo" /\ c.value \in Positional),
         NEW k \in 1 .. Len(f)
  PROVE  True(g, c, k) <=> True(f, c, p[k])
<1>1. g[k].says = f[p[k]].says
  BY DEF Relisted
<1>2. CASE c.kind = "pseudo" /\ c.value \notin Positional \cup tree.preds
  BY <1>2 DEF True, Positional
<1>3. CASE ~ (c.kind = "pseudo" /\ c.value \notin Positional \cup tree.preds)
  BY <1>1, <1>3 DEF True, Positional
<1> QED BY <1>2, <1>3

\* What the checks of a sibling-free tree leave: nothing that asks for an order.
Unordered(s) ==
  \A n \in ToSet(s) : /\ ~ (n.kind = "pseudo" /\ n.value \in Positional)
                      /\ n.kind = "step" => n.op \notin RequiresOrder

LEMMA AcceptedUnordered ==
  ASSUME NEW t, t.free, NEW s, Accepted(t, s)
  PROVE  Unordered(s)
BY DEF Accepted, Unavailable, Unordered

\* A step is true of the same rows, G of those of f and H of those of g.
Alike(f, p, G, H, id) == \A k \in 1 .. Len(f) : k \in H[id] <=> p[k] \in G[id]

LEMMA LeadsRelisted ==
  ASSUME NEW f, Preorder(f), NEW g, Preorder(g), NEW p, Relisted(f, g, p), NEW G, NEW H,
         NEW chain, DOMAIN chain = 1 .. Len(chain), Len(chain) \in Nat,
         \A k \in DOMAIN chain : chain[k].op \in (Combinator \cup {NULL}) \ RequiresOrder,
         \A k \in DOMAIN chain : Alike(f, p, G, H, chain[k].id),
         NEW i \in 1 .. Len(f)
  PROVE  Leads(g, H, chain, i) <=> Leads(f, G, chain, p[i])
<1> DEFINE n == Len(f)
<1>0. /\ Positions(f) = 1 .. n /\ Positions(g) = 1 .. n /\ p \in [1 .. n -> 1 .. n]
      /\ \A x \in 1 .. n : \E k \in 1 .. n : p[k] = x
  BY DEF Relisted
<1> DEFINE leads(ff, G0, path, j) ==
      \A k \in DOMAIN chain :
        /\ path[k] \in G0[chain[k].id]
        /\ Related(ff, chain[k].op, IF k = 1 THEN j ELSE path[k - 1], path[k])
<1>1. ASSUME NEW path \in [DOMAIN chain -> 1 .. n], NEW far \in [DOMAIN chain -> 1 .. n],
             \A k \in DOMAIN chain : far[k] = p[path[k]]
      PROVE  leads(g, H, path, i) <=> leads(f, G, far, p[i])
  <2>1. ASSUME NEW k \in DOMAIN chain
        PROVE  /\ path[k] \in H[chain[k].id] <=> far[k] \in G[chain[k].id]
               /\ Related(g, chain[k].op, IF k = 1 THEN i ELSE path[k - 1], path[k])
                    <=> Related(f, chain[k].op, IF k = 1 THEN p[i] ELSE far[k - 1], far[k])
    <3>1. path[k] \in 1 .. n /\ far[k] = p[path[k]]
      BY <1>1
    <3>2. path[k] \in H[chain[k].id] <=> far[k] \in G[chain[k].id]
      BY <3>1 DEF Alike
    <3> DEFINE x == IF k = 1 THEN i ELSE path[k - 1]
    <3>3. x \in 1 .. n /\ p[x] = IF k = 1 THEN p[i] ELSE far[k - 1]
      <4>1. k # 1 => k - 1 \in DOMAIN chain
        OBVIOUS
      <4> QED BY <1>1, <4>1
    <3> DEFINE op == IF chain[k].op = NULL THEN "desc" ELSE chain[k].op
    <3>4. op \in Combinator \ RequiresOrder
      BY DEF Combinator, RequiresOrder
    <3> HIDE DEF x, op
    <3>5. Means(g, op, x, path[k]) <=> Means(f, op, p[x], p[path[k]])
      BY <3>1, <3>3, <3>4, MeansRelisted
    <3> QED BY <3>1, <3>2, <3>3, <3>5 DEF Related, x, op
  <2> QED BY <2>1
<1> HIDE DEF leads
<1>2. ASSUME NEW path \in [DOMAIN chain -> 1 .. n], leads(g, H, path, i)
      PROVE  \E far \in [DOMAIN chain -> 1 .. n] : leads(f, G, far, p[i])
  <2> DEFINE far == [k \in DOMAIN chain |-> p[path[k]]]
  <2>1. far \in [DOMAIN chain -> 1 .. n] /\ \A k \in DOMAIN chain : far[k] = p[path[k]]
    BY <1>0
  <2> HIDE DEF far
  <2> QED BY <1>1, <1>2, <2>1
<1>3. ASSUME NEW far \in [DOMAIN chain -> 1 .. n], leads(f, G, far, p[i])
      PROVE  \E path \in [DOMAIN chain -> 1 .. n] : leads(g, H, path, i)
  <2> DEFINE path == [k \in DOMAIN chain |-> CHOOSE x \in 1 .. n : p[x] = far[k]]
  <2>1. path \in [DOMAIN chain -> 1 .. n] /\ \A k \in DOMAIN chain : far[k] = p[path[k]]
    BY <1>0
  <2> HIDE DEF path
  <2> QED BY <1>1, <1>3, <2>1
<1>4. Leads(g, H, chain, i) <=> \E path \in [DOMAIN chain -> 1 .. n] : leads(g, H, path, i)
  BY <1>0 DEF Leads, leads
<1>5. Leads(f, G, chain, p[i]) <=> \E far \in [DOMAIN chain -> 1 .. n] : leads(f, G, far, p[i])
  BY <1>0 DEF Leads, leads
<1> QED BY <1>2, <1>3, <1>4, <1>5

LEMMA TrueOfRelisted ==
  ASSUME NEW f, Preorder(f), NEW g, Preorder(g), NEW p, Relisted(f, g, p), NEW G, NEW H,
         NEW s, Outline(s), Linked(s), Unordered(s),
         NEW A, \A x \in A : Alike(f, p, G, H, x), NEW id \in Over(s, A), NEW k \in 1 .. Len(f)
  PROVE  k \in TrueOf(g, s, H, id) <=> p[k] \in TrueOf(f, s, G, id)
<1>1. k \in Positions(g) /\ p[k] \in Positions(f)
  BY DEF Relisted
<1>2. ASSUME NEW n \in Under(s, id) PROVE True(g, n, k) <=> True(f, n, p[k])
  BY TrueRelisted DEF Unordered, Under
<1>3. ASSUME NEW n \in Under(s, id), Group(n)
      PROVE  Leads(g, H, Chain(s, n.id), k) <=> Leads(f, G, Chain(s, n.id), p[k])
  <2> DEFINE chain == Chain(s, n.id)
  <2>1. DOMAIN chain = 1 .. Len(chain) /\ Len(chain) \in Nat /\ \A j \in DOMAIN chain : chain[j] \in Steps(s, n.id)
    BY ChainsAre
  <2>2. n \in ToSet(s)
    BY DEF Under
  <2>3. \A j \in DOMAIN chain : chain[j].op \in Combinator \cup {NULL}
    BY <1>3, <2>2 DEF Linked
  <2>4. \A j \in DOMAIN chain : chain[j].op \notin RequiresOrder
    <3> HIDE DEF chain
    <3> QED BY <2>1 DEF Unordered, Steps, Under
  <2>5. \A j \in DOMAIN chain : Alike(f, p, G, H, chain[j].id)
    <3> HIDE DEF chain
    <3> QED BY <1>3, <2>1 DEF Over
  <2> HIDE DEF chain
  <2>6. Leads(g, H, chain, k) <=> Leads(f, G, chain, p[k])
    BY <2>1, <2>3, <2>4, <2>5, LeadsRelisted
  <2> QED BY <2>6 DEF chain
<1> QED BY <1>1, <1>2, <1>3 DEF TrueOf

\* A step is true of the same rows however their siblings stand, a step without groups
\* first, and then one over those it is known of.
LEMMA SoundRelisted ==
  ASSUME NEW f, Preorder(f), NEW g, Preorder(g), NEW p, Relisted(f, g, p),
         NEW s, Outline(s), Grown(s), Linked(s), Unordered(s),
         NEW G, Sound(f, s, G), NEW H, Sound(g, s, H), NEW id \in StepIds(s)
  PROVE  Alike(f, p, G, H, id)
<1>1. ASSUME NEW A, \A x \in A : Alike(f, p, G, H, x), NEW x \in Over(s, A)
      PROVE  Alike(f, p, G, H, x)
  <2>1. x \in StepIds(s)
    BY DEF Over
  <2>2. G[x] = TrueOf(f, s, G, x) /\ H[x] = TrueOf(g, s, H, x)
    BY <2>1 DEF Sound
  <2>3. \A k \in 1 .. Len(f) : k \in TrueOf(g, s, H, x) <=> p[k] \in TrueOf(f, s, G, x)
    BY <1>1, TrueOfRelisted
  <2> QED BY <2>2, <2>3 DEF Alike
<1>2. Flat(s) \subseteq Over(s, {})
  BY DEF Flat, Over
<1>3. \A x \in Flat(s) : Alike(f, p, G, H, x)
  BY <1>1, <1>2
<1>4. \A x \in Over(s, Flat(s)) : Alike(f, p, G, H, x)
  BY <1>1, <1>3
<1>5. \A x \in Over(s, Over(s, Flat(s))) : Alike(f, p, G, H, x)
  BY <1>1, <1>4
<1> QED BY <1>5, AllIsOver

LEMMA SelectedRelisted ==
  ASSUME NEW f, Preorder(f), NEW g, Preorder(g), NEW p, Relisted(f, g, p),
         Outline(ir), Grown(ir), Linked(ir), Unordered(ir)
  PROVE  {[k \in DOMAIN b |-> p[b[k]]] : b \in Selected(g)} = Selected(f)
<1> DEFINE n == Len(f)
<1> DEFINE chain == Top(ir)
<1>0. /\ Positions(f) = 1 .. n /\ Positions(g) = 1 .. n /\ p \in [1 .. n -> 1 .. n]
      /\ \A x \in 1 .. n : \E k \in 1 .. n : p[k] = x
  BY DEF Relisted
<1> DEFINE leads(ff, G0, path) ==
      \A k \in DOMAIN chain :
        path[k] \in G0[chain[k].id] /\ (k > 1 => Means(ff, chain[k].op, path[k - 1], path[k]))
<1>1. PICK G : Sound(f, ir, G) /\ Selected(f) = {b \in [DOMAIN chain -> 1 .. n] : leads(f, G, b)}
  <2>1. PICK G : /\ Sound(f, ir, G)
                 /\ Selected(f) = {b \in [DOMAIN chain -> Positions(f)] :
                                     \A k \in DOMAIN b :
                                       /\ b[k] \in G[chain[k].id]
                                       /\ k > 1 => Means(f, chain[k].op, b[k - 1], b[k])}
    BY SoundExists, SelectedIs
  <2> HIDE DEF chain
  <2> QED BY <1>0, <2>1
<1>2. PICK H : Sound(g, ir, H) /\ Selected(g) = {b \in [DOMAIN chain -> 1 .. n] : leads(g, H, b)}
  <2>1. PICK H : /\ Sound(g, ir, H)
                 /\ Selected(g) = {b \in [DOMAIN chain -> Positions(g)] :
                                     \A k \in DOMAIN b :
                                       /\ b[k] \in H[chain[k].id]
                                       /\ k > 1 => Means(g, chain[k].op, b[k - 1], b[k])}
    BY SoundExists, SelectedIs
  <2> HIDE DEF chain
  <2> QED BY <1>0, <2>1
<1>3. /\ DOMAIN chain = 1 .. Len(chain) /\ Len(chain) \in Nat
      /\ \A k \in DOMAIN chain : chain[k].id \in StepIds(ir) /\ chain[k].op \notin RequiresOrder
      /\ \A k \in DOMAIN chain : k > 1 => chain[k].op \in Combinator
  <2>1. /\ DOMAIN chain = 1 .. Len(chain) /\ Len(chain) \in Nat
        /\ \A k \in DOMAIN chain : chain[k] \in TopSteps(ir)
    BY ChainsAre
  <2>2. \A x \in TopSteps(ir) : x.id \in StepIds(ir) /\ x.op \notin RequiresOrder
    BY TopAre DEF StepIds, Unordered
  <2>3. \A k \in DOMAIN chain : k > 1 => chain[k].op \in Combinator
    BY <2>1 DEF Linked
  <2> HIDE DEF chain
  <2> QED BY <2>1, <2>2, <2>3
<1>4. \A k \in DOMAIN chain : Alike(f, p, G, H, chain[k].id)
  BY <1>1, <1>2, <1>3, SoundRelisted
<1> HIDE DEF chain
<1>5. ASSUME NEW path \in [DOMAIN chain -> 1 .. n], NEW far \in [DOMAIN chain -> 1 .. n],
             \A k \in DOMAIN chain : far[k] = p[path[k]]
      PROVE  leads(g, H, path) <=> leads(f, G, far)
  <2>1. ASSUME NEW k \in DOMAIN chain
        PROVE  /\ path[k] \in H[chain[k].id] <=> far[k] \in G[chain[k].id]
               /\ k > 1 => (Means(g, chain[k].op, path[k - 1], path[k]) <=> Means(f, chain[k].op, far[k - 1], far[k]))
    <3>1. path[k] \in H[chain[k].id] <=> far[k] \in G[chain[k].id]
      BY <1>4, <1>5 DEF Alike
    <3>2. ASSUME k > 1
          PROVE  Means(g, chain[k].op, path[k - 1], path[k]) <=> Means(f, chain[k].op, far[k - 1], far[k])
      <4>1. k - 1 \in DOMAIN chain
        BY <1>3, <3>2
      <4>2. path[k - 1] \in 1 .. n /\ far[k - 1] = p[path[k - 1]] /\ path[k] \in 1 .. n /\ far[k] = p[path[k]]
        BY <1>5, <4>1
      <4>3. chain[k].op \in Combinator \ RequiresOrder
        BY <1>3, <3>2
      <4> QED BY <4>2, <4>3, MeansRelisted
    <3> QED BY <3>1, <3>2
  <2> QED BY <2>1
<1> HIDE DEF leads
<1>6. ASSUME NEW path \in Selected(g)
      PROVE  [k \in DOMAIN path |-> p[path[k]]] \in Selected(f)
  <2> DEFINE far == [k \in DOMAIN path |-> p[path[k]]]
  <2>1. path \in [DOMAIN chain -> 1 .. n] /\ leads(g, H, path)
    BY <1>2
  <2>2. far \in [DOMAIN chain -> 1 .. n] /\ \A k \in DOMAIN chain : far[k] = p[path[k]]
    BY <1>0, <2>1
  <2> HIDE DEF far
  <2>3. far \in Selected(f)
    BY <1>1, <1>5, <2>1, <2>2
  <2> QED BY <2>3 DEF far
<1>7. ASSUME NEW far \in Selected(f)
      PROVE  \E path \in Selected(g) : far = [k \in DOMAIN path |-> p[path[k]]]
  <2> DEFINE path == [k \in DOMAIN chain |-> CHOOSE x \in 1 .. n : p[x] = far[k]]
  <2>1. far \in [DOMAIN chain -> 1 .. n] /\ leads(f, G, far)
    BY <1>1
  <2>2. path \in [DOMAIN chain -> 1 .. n] /\ \A k \in DOMAIN chain : far[k] = p[path[k]]
    BY <1>0, <2>1
  <2> HIDE DEF path
  <2>3. path \in Selected(g)
    BY <1>2, <1>5, <2>1, <2>2
  <2>4. far = [k \in DOMAIN path |-> p[path[k]]]
    BY <2>1, <2>2
  <2> QED BY <2>3, <2>4
<1> QED BY <1>6, <1>7

\* On a tree that declares its siblings free, over a forest of any size: what an
\* accepted selector finds does not depend on the order its siblings were read in,
\* for no combinator and no clause it kept asks for one.
THEOREM OrderUnread == Spec => []OrderIsNotRead
<1>1. Drawn => OrderIsNotRead
  <2> SUFFICES ASSUME Drawn, ~ Forward, tree.free, Accepted(tree, ir), NEW again \in Relistings(forest)
               PROVE  {[k \in DOMAIN b |-> again.perm[b[k]]] : b \in Answered(again.forest)} = Answered(forest)
    BY DEF OrderIsNotRead
  <2> DEFINE f == forest
  <2> DEFINE g == again.forest
  <2> DEFINE p == again.perm
  <2>1. Preorder(f) /\ Declared(tree, f) /\ Outline(ir)
    BY DEF Drawn, Accepted
  <2>2. Preorder(g) /\ Relisted(f, g, p)
    BY <2>1, RelistingsAre
  <2> HIDE DEF f, g, p
  <2>3. Declared(tree, g)
    <3>1. \A k \in Positions(g) : g[k].element = f[p[k]].element /\ p[k] \in Positions(f)
      BY <2>2 DEF Relisted
    <3> QED BY <2>1, <3>1 DEF Declared
  <2>4. Grown(ir) /\ Linked(ir) /\ Unordered(ir)
    BY AcceptedGrow, AcceptedLink, AcceptedUnordered
  <2>5. Answered(g) = Selected(g) /\ Answered(f) = Selected(f)
    BY <2>1, <2>2, <2>3, AnswersMean
  <2>6. {[k \in DOMAIN b |-> p[b[k]]] : b \in Selected(g)} = Selected(f)
    BY <2>1, <2>2, <2>4, SelectedRelisted
  <2>7. {[k \in DOMAIN b |-> p[b[k]]] : b \in Answered(g)} = Answered(f)
    BY <2>5, <2>6
  <2> QED BY <2>7 DEF f, g, p
<1> QED BY <1>1, DrawnInv, PTL

=============================================================================
