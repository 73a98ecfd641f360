----------------------------- MODULE TreeIngest -----------------------------
(***************************************************************************)
(* A source is filled row by row and then ingested: the checks refuse it,  *)
(* or its projection is stored.  The properties say which sources pass     *)
(* and what the stored encoding then means.                                *)
(***************************************************************************)
EXTENDS TreeEncoding

CONSTANTS
  Shapes,      \* the declarations considered
  SourceRows,  \* [shape -> the rows its source may have]
  MaxRows      \* [shape -> bound: rows in a source]

\* A declaration says which slots have a column; the parent basis requires a key.
ASSUME ShapesAssumption ==
  /\ Shapes \subseteq [level : BOOLEAN, parent : BOOLEAN, order : BOOLEAN, key : BOOLEAN,
                       over : SUBSET {"SIZE", "CHILDREN", "NEXT"}, readable : BOOLEAN]
  /\ \A s \in Shapes : LevelBasis(s) \/ s.key

\* What is compared or counted is a number or NULL, and a SIBLING_ORDER is no NULL;
\* nothing is asked of any other column.
ASSUME RowsAssumption ==
  \A s \in Shapes :
    /\ MaxRows[s] \in Nat
    /\ \A r \in SourceRows[s] : {r.ord, r.level, r.key} \subseteq Int \cup {NULL} /\ r.sib \in Int

VARIABLES shape, src, verdict, stored

vars == <<shape, src, verdict, stored>>

Init ==
  /\ shape \in Shapes
  /\ src = <<>>
  /\ verdict = "none"
  /\ stored = {}

\* The users' INSERT INTO the source relation.
AddRow ==
  /\ verdict = "none" /\ Len(src) < MaxRows[shape]
  /\ \E r \in SourceRows[shape] : src' = Append(src, r)
  /\ UNCHANGED <<shape, verdict, stored>>

\* A mutant: the table is made before O conformance is asked.
IngestBeforeConform ==
  /\ verdict = "none" /\ src # <<>>
  /\ verdict' = Verdict(shape, src)
  /\ stored' = IF verdict' \in {"stored", "conform"} THEN Projected(shape, src) ELSE {}
  /\ UNCHANGED <<shape, src>>

\* tree_ddl_create's checks, and CREATE TABLE t_x AS projection.
Ingest ==
  /\ verdict = "none" /\ src # <<>>
  /\ verdict' = Verdict(shape, src)
  /\ stored' = IF verdict' = "stored" THEN Projected(shape, src) ELSE {}
  /\ UNCHANGED <<shape, src>>

Next == AddRow \/ Ingest
Spec == Init /\ [][Next]_vars

-----------------------------------------------------------------------------
(* Reference definitions, none of which reads a level join.                *)

Stored(root) == {r \in stored : r.root = root}

\* Rows below a, following _parent.
Below(a) ==
  LET rows == Stored(a.root)
      reach[d \in 0 .. Cardinality(rows)] ==
        IF d = 0 THEN {a} ELSE {r \in rows : \E q \in reach[d - 1] : r.parent = q.pre}
  IN  UNION {reach[d] : d \in 1 .. Cardinality(rows)}

\* A parent function lists a forest in preorder when each row hangs off the path
\* that ends in the row before it.
OnPath(par, i) ==
  LET up[j \in {NULL} \cup DOMAIN par] == IF j = NULL THEN {NULL} ELSE {j} \cup up[par[j]]
  IN  IF i = 0 THEN {NULL} ELSE up[i - 1]

IsForest(levels) ==
  \E par \in [DOMAIN levels -> {NULL} \cup DOMAIN levels] :
    /\ \A i \in DOMAIN levels : par[i] = NULL \/ par[i] < i
    /\ \A i \in DOMAIN levels : par[i] \in OnPath(par, i)
    /\ \A i \in DOMAIN levels : levels[i] = IF par[i] = NULL THEN 0 ELSE levels[par[i]] + 1

\* Following PARENT upwards from a row of T stays in T and ends at no row without one.
NeverEnds(T) == \A i \in T : src[i].parent # NULL /\ ParentRows(src, i) \subseteq T

-----------------------------------------------------------------------------
(* Properties.                                                             *)

\* Types.
TypeOK ==
  /\ shape \in Shapes
  /\ Len(src) <= MaxRows[shape] /\ \A i \in DOMAIN src : src[i] \in SourceRows[shape]
  /\ verdict \in {"none", "order", "key", "reach", "p13", "conform", "stored"}
  /\ \A r \in stored : verdict = "stored" /\ r.row \in DOMAIN src

\* Every source row is stored once, and the positions of a root are 0 .. n-1: the
\* checks run before the joins that a tie, a repeated key or a cycle would make
\* multiply or lose rows (04_dml.sql).
EveryRowOnce ==
  verdict = "stored" =>
    /\ \A i \in DOMAIN src : Cardinality({r \in stored : r.row = i}) = 1
    /\ \A root \in RootsOf(src) :
         {r.pre : r \in Stored(root)} = 0 .. Cardinality(In(src, root)) - 1

\* A row's subtree is the _size rows that follow it, and _next is the row after
\* them: the intervals every compiled descendant and sibling test reads.  It holds
\* of what is served, declared columns included.
SubtreesAreIntervals ==
  \A a \in stored :
    /\ Below(a) = {r \in Stored(a.root) : r.pre \in a.pre + 1 .. a.pre + a.size}
    /\ a.children = Cardinality({r \in Stored(a.root) : r.parent = a.pre})
    /\ a.next = a.pre + Cardinality(Below(a)) + 1

\* Levels are depths: a row without a parent is at level 0, any other one below its
\* parent, which the two bases read from different columns.
LevelsAreDepths ==
  \A r \in stored :
    IF r.parent = NULL THEN r.level = 0
    ELSE \E q \in Stored(r.root) : q.pre = r.parent /\ r.level = q.level + 1

\* P13 refuses exactly the level sequences no forest has in preorder.
P13IsExact ==
  (verdict \in {"p13", "conform", "stored"} /\ LevelBasis(shape)) =>
    (verdict = "p13" <=>
       \E root \in RootsOf(src) : ~IsForest(Levels(shape, src, Ranked(shape, src), root)))

\* On the parent basis the stored forest is the source's: a row's parent is the row
\* its PARENT names, in its own root, and siblings stand in SIBLING_ORDER.
WalkKeepsTheForest ==
  (~LevelBasis(shape) /\ verdict = "stored") =>
    \A r, q \in stored :
      /\ r.parent = NULL <=> src[r.row].parent = NULL
      /\ r.root = q.root /\ r.parent = q.pre => src[r.row].parent = src[q.row].key
      /\ (r.root = q.root /\ r.parent = q.parent /\ ComesBefore(src[r.row], src[q.row])) => r.pre < q.pre

\* What the walk cannot encode is refused: rows without a key, and rows from which
\* following PARENT upwards never ends at a row without one, an orphan's descendants
\* and every cycle included.
RefusesWhatItCannotReach ==
  (~LevelBasis(shape) /\ verdict \in {"reach", "p13", "conform", "stored"}) =>
    (verdict = "reach" <=>
       \/ \E i \in DOMAIN src : src[i].key = NULL
       \/ \E T \in SUBSET DOMAIN src : T # {} /\ NeverEnds(T))

\* An override is served only when it says what the structure says, and a declared
\* NEXT that can be read back names a row whenever one follows.
OverridesConform ==
  \A r \in stored :
    LET levels == LevelsOf(stored, r.root) IN
    /\ r.parent = DerivedParent(levels, r.pre)
    /\ r.size = DerivedSize(levels, r.pre)
    /\ r.children = DerivedChildren(levels, r.pre)
    /\ r.next = DerivedNext(levels, r.pre)
    /\ ("NEXT" \in shape.over /\ shape.readable /\ r.next \in DOMAIN levels) =>
         \E q \in Stored(r.root) : q.pre = r.next /\
           src[r.row].next = IF LevelBasis(shape) THEN Order(shape, src, q.row) ELSE src[q.row].key

=============================================================================
