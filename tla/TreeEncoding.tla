---------------------------- MODULE TreeEncoding ----------------------------
(***************************************************************************)
(* The projection of a source onto the canonical encoding of a forest      *)
(* (02_projection.sql) and the checks of an ingest (04_dml.sql), as pure   *)
(* operators.                                                              *)
(*                                                                         *)
(* A source is a sequence of rows in scan order.  A row has a ROOT, the    *)
(* values of its R slots (ord, level, key, parent, sib) and those of its   *)
(* declared O slots (SIZE, CHILDREN, NEXT, PARENT: "raw").  A shape says   *)
(* which slots are declared.  A partition is a function from positions     *)
(* (_pre, 0 .. n-1) to levels.  Rows are joined by position or by value    *)
(* exactly as the compiled SQL joins them, so a LEFT JOIN that matches     *)
(* twice yields two rows.                                                  *)
(*                                                                         *)
(* A definition that differs from the one below it by one mistake, as      *)
(* KeyIsUniqueUnchecked does from KeyIsUnique, is a mutant of it: a         *)
(* property of some run fails when it takes its place.                     *)
(***************************************************************************)
EXTENDS Integers, FiniteSets, Sequences

CONSTANT NULL   \* SQL NULL

\* NULL is no number: no comparison, count or position is ever NULL by accident.
ASSUME NullAssumption == NULL \notin Int

Greatest(S) == CHOOSE x \in S : \A y \in S : y <= x
Least(S)    == CHOOSE x \in S : \A y \in S : x <= y

-----------------------------------------------------------------------------
(* What the levels of one partition imply.                                 *)

\* tree_sql_parent_join: the nearest prior row one level up.
PriorUpAnyLevel(levels, i) == {j \in DOMAIN levels : j < i /\ levels[j] < levels[i] - 1}
PriorUp(levels, i) == {j \in DOMAIN levels : j < i /\ levels[j] = levels[i] - 1}
DerivedParent(levels, i) ==
  IF PriorUp(levels, i) = {} THEN NULL ELSE Greatest(PriorUp(levels, i))

\* tree_sql_size_join: a later row is a boundary for every level from its own
\* down to the deepest of the partition; the nearest boundary ends a subtree.
Deepest(levels) == Greatest({levels[i] : i \in DOMAIN levels})
BoundariesOwnLevel(levels, i) == {c \in DOMAIN levels : c > i /\ levels[c] = levels[i]}
Boundaries(levels, i) == {c \in DOMAIN levels : c > i /\ levels[i] \in levels[c] .. Deepest(levels)}
DerivedSize(levels, i) ==
  (IF Boundaries(levels, i) = {} THEN Greatest(DOMAIN levels) + 1 ELSE Least(Boundaries(levels, i))) - i - 1

\* tree_sql_children_join, and the structural successor.
DerivedChildren(levels, i) == Cardinality({j \in DOMAIN levels : DerivedParent(levels, j) = i})
DerivedNext(levels, i)     == i + DerivedSize(levels, i) + 1

\* tree_sql_p13_pred, as tree_check counts it: lag(_level, 1, -1) is -1 before the
\* first row, and a NULL on either side of a comparison is not a violation.
Descent(levels, i) ==
  LET before == IF i = 0 THEN -1 ELSE levels[i - 1]
  IN  IF NULL \in {levels[i], before} THEN NULL ELSE levels[i] - before
BreaksP13(levels, i) ==
  \/ Descent(levels, i) # NULL /\ Descent(levels, i) > 1
  \/ i = 0 /\ levels[i] \notin {NULL, 0}

\* tree_compile_p13: what an ingest refuses.
P13RaisesLater(levels) ==
  \E i \in DOMAIN levels : levels[i] = NULL \/ levels[i] < 0 \/ (i > 0 /\ BreaksP13(levels, i))
P13Raises(levels) == \E i \in DOMAIN levels : levels[i] = NULL \/ levels[i] < 0 \/ BreaksP13(levels, i)

-----------------------------------------------------------------------------
(* Sources.                                                                *)

\* Positions of the source's rows, and those of one ROOT.
RowsOf(src)      == DOMAIN src
In(src, root)    == {i \in DOMAIN src : src[i].root = root}
RootsOf(src)     == {src[i].root : i \in DOMAIN src}

LevelBasis(shape) == shape.level \/ ~shape.parent

\* __order: the declared ORDER, or __seq, the scan position.
Order(shape, src, i) == IF shape.order THEN src[i].ord ELSE i

\* tree_compile_order_check: no NULL, no tie within a root.
OrderIsTraversal(shape, src) ==
  /\ \A i \in DOMAIN src : src[i].ord # NULL
  /\ \A i, j \in DOMAIN src : src[i].root = src[j].root /\ src[i].ord = src[j].ord => i = j

\* tree_compile_unique_key_check (a repeated NULL is a repeated key).
KeyIsUniqueUnchecked(src) == TRUE
KeyIsUnique(src) ==
  \A i, j \in DOMAIN src : src[i].root = src[j].root /\ src[i].key = src[j].key => i = j

-----------------------------------------------------------------------------
(* The parent basis: the walk from the rows whose PARENT is NULL.          *)

\* c JOIN __walk w: a row's parent rows, in its own root.
ParentRows(src, i) ==
  {j \in DOMAIN src : src[i].parent # NULL /\ src[j].key = src[i].parent /\ src[j].root = src[i].root}

\* The rows each iteration of the recursive CTE adds.
Walk(src) ==
  LET step[d \in 0 .. Len(src)] ==
        IF d = 0 THEN {i \in DOMAIN src : src[i].parent = NULL}
        ELSE {i \in DOMAIN src : ParentRows(src, i) \cap step[d - 1] # {}}
  IN  step

Walked(src)   == UNION {Walk(src)[d] : d \in 0 .. Len(src)}
Depth(src, i) == CHOOSE d \in 0 .. Len(src) : i \in Walk(src)[d]

\* row_number() OVER (PARTITION BY parent ORDER BY sibling_order, key ASC), among
\* the rows of one root: positions are never compared across roots.
ComesBefore(a, b) == a.sib < b.sib \/ (a.sib = b.sib /\ a.key < b.key)
SiblingRankDesc(src, i) ==
  Cardinality({j \in In(src, src[i].root) : src[j].parent = src[i].parent /\ ComesBefore(src[i], src[j])})
SiblingRank(src, i) ==
  Cardinality({j \in In(src, src[i].root) : src[j].parent = src[i].parent /\ ComesBefore(src[j], src[i])})

\* __path: the sibling ranks from the root of the walk down.
Paths(src) ==
  LET path[i \in Walked(src)] ==
        Append(IF src[i].parent = NULL THEN <<>> ELSE path[Least(ParentRows(src, i))], SiblingRank(src, i))
  IN  path

\* ORDER BY __path: lists compare element by element, a prefix first.
Precedes(p, q) ==
  \/ \E k \in 1 .. Len(p) : k <= Len(q) /\ p[k] < q[k] /\ \A m \in 1 .. k - 1 : p[m] = q[m]
  \/ Len(p) < Len(q) /\ \A m \in 1 .. Len(p) : p[m] = q[m]

\* tree_compile_reach_check: rows the walk's output, joined on the key, misses.
UnreachedOrphans(src) ==
  {i \in DOMAIN src : src[i].key = NULL \/ (src[i].parent # NULL /\ ParentRows(src, i) = {})}
Unreached(src) == {i \in DOMAIN src : src[i].key = NULL \/ i \notin Walked(src)}

-----------------------------------------------------------------------------
(* tree_compile_projection, stage by stage.                                *)

\* __rn, __r0: row_number() OVER (PARTITION BY _root ORDER BY ...) - 1.  Ties are
\* numbered in some order; scan order is as good as another.
Earlier(shape, src, j, i) ==
  LET a == Order(shape, src, j)  b == Order(shape, src, i)
  IN  IF a = NULL \/ b = NULL THEN a # NULL \/ (b = NULL /\ j < i)
      ELSE a < b \/ (a = b /\ j < i)

Ranked(shape, src) ==
  IF LevelBasis(shape)
  THEN [i \in DOMAIN src |-> Cardinality({j \in In(src, src[i].root) : j # i /\ Earlier(shape, src, j, i)})]
  ELSE LET path == Paths(src) IN
       [i \in Walked(src) |-> Cardinality({j \in Walked(src) : src[j].root = src[i].root /\ Precedes(path[j], path[i])})]

LevelIn(shape, src, i) ==
  IF ~LevelBasis(shape) THEN Depth(src, i) ELSE IF shape.level THEN src[i].level ELSE 0

\* The levels of one root, by position.
Levels(shape, src, pre, root) ==
  LET at == [i \in DOMAIN pre \cap In(src, root) |-> pre[i]]
  IN  [p \in {at[i] : i \in DOMAIN at} |-> LevelIn(shape, src, CHOOSE i \in DOMAIN at : at[i] = p)]

\* A LEFT JOIN's values: those matched, or NULL.
LeftJoin(matched) == IF matched = {} THEN {NULL} ELSE matched

\* Declared PARENT and NEXT are translated to positions, never cast: they name a
\* row of their root by its ORDER, or by its KEY on the parent basis.
Names(shape, src, pre, i, value) ==
  LET id(j) == IF LevelBasis(shape) THEN Order(shape, src, j) ELSE src[j].key
  IN  {pre[j] : j \in {k \in DOMAIN pre : src[k].root = src[i].root /\ value # NULL /\ id(k) = value}}

ParentsServed(shape, src, pre, levels, i) ==
  IF ~LevelBasis(shape) THEN LeftJoin({pre[j] : j \in ParentRows(src, i) \cap DOMAIN pre})
  ELSE IF shape.parent THEN LeftJoin(Names(shape, src, pre, i, src[i].rawparent))
  ELSE {DerivedParent(levels, pre[i])}

\* __p and __s: position, level, parent and size of every row.
Sized(shape, src) ==
  LET pre == Ranked(shape, src)
      by(root) == Levels(shape, src, pre, root)
      levels == [root \in RootsOf(src) |-> by(root)]
  IN  UNION {{[row |-> i, root |-> src[i].root, pre |-> pre[i], level |-> levels[src[i].root][pre[i]], parent |-> p,
               size |-> IF "SIZE" \in shape.over THEN src[i].size ELSE DerivedSize(levels[src[i].root], pre[i])]
              : p \in ParentsServed(shape, src, pre, levels[src[i].root], i)} : i \in DOMAIN pre}

\* __c: children, and next, whose default follows the SIZE that is served.
Projected(shape, src) ==
  LET pre == Ranked(shape, src)
      sized == Sized(shape, src)
      children(r) == IF "CHILDREN" \in shape.over THEN src[r.row].children
                     ELSE Cardinality({x \in sized : x.root = r.root /\ x.parent = r.pre})
      after(r) == IF r.size = NULL THEN NULL ELSE r.pre + r.size + 1
      nexts(r) == IF "NEXT" \in shape.over
                  THEN LET named == Names(shape, src, pre, r.row, src[r.row].next)
                       IN  IF named = {} THEN {after(r)} ELSE named
                  ELSE {after(r)}
  IN  UNION {{[row |-> r.row, root |-> r.root, pre |-> r.pre, level |-> r.level, parent |-> r.parent,
               size |-> r.size, children |-> children(r), next |-> n] : n \in nexts(r)} : r \in sized}

\* The levels of one root of a projection.
LevelsOf(rel, root) ==
  LET rows == {r \in rel : r.root = root}
  IN  [p \in {r.pre : r \in rows} |-> (CHOOSE r \in rows : r.pre = p).level]

-----------------------------------------------------------------------------
(* tree_sql_o_bad_cte: the declared O columns against their derivation.    *)

\* A declared NEXT that names no row although the structure goes on; seen only
\* when the raw value can be read back.
DanglingNextUnseen(shape, src, rel, r) == FALSE
DanglingNext(shape, src, rel, r) ==
  /\ shape.readable
  /\ Names(shape, src, Ranked(shape, src), r.row, src[r.row].next) = {}
  /\ DerivedNext(LevelsOf(rel, r.root), r.pre) <= Greatest(DOMAIN LevelsOf(rel, r.root))

\* For every row, the last one of a root included.
NextDiffers(levels, r) == r.next # DerivedNext(levels, r.pre)

Disagrees(shape, src, rel, slot) ==
  \E r \in rel :
    LET levels == LevelsOf(rel, r.root) IN
    CASE slot = "SIZE"     -> r.size # DerivedSize(levels, r.pre)
      [] slot = "CHILDREN" -> r.children # DerivedChildren(levels, r.pre)
      [] slot = "PARENT"   -> r.parent # DerivedParent(levels, r.pre)
      [] slot = "NEXT"     -> NextDiffers(levels, r) \/ DanglingNext(shape, src, rel, r)

\* The slots compared: PARENT only beside LEVEL.
Compared(shape) == shape.over \cup (IF shape.parent /\ shape.level THEN {"PARENT"} ELSE {})

-----------------------------------------------------------------------------
(* The checks of an ingest, in the order of the statement list.            *)

Verdict(shape, src) ==
  IF shape.order /\ ~OrderIsTraversal(shape, src) THEN "order"
  ELSE IF shape.key /\ ~KeyIsUnique(src) THEN "key"
  ELSE IF ~LevelBasis(shape) /\ Unreached(src) # {} THEN "reach"
  ELSE IF \E root \in RootsOf(src) : P13Raises(Levels(shape, src, Ranked(shape, src), root)) THEN "p13"
  ELSE IF \E slot \in Compared(shape) : Disagrees(shape, src, Projected(shape, src), slot) THEN "conform"
  ELSE "stored"

=============================================================================
