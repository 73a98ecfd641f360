---------------------------- MODULE SelectorSpace ----------------------------
(***************************************************************************)
(* A forest is drawn row by row in preorder, and a selector node by node;  *)
(* the forest is encoded as the projection encodes it and the selector is  *)
(* compiled over it.  The properties compare what the compiled relations   *)
(* and queries answer with what they mean on the forest as it was drawn.   *)
(***************************************************************************)
EXTENDS MatchCompiler

CONSTANTS
  Seeds,      \* the [tree, forest, ir] records the exploration starts from
  Looks,      \* the [element, says] records a row may have
  Nodes,      \* the nodes a selector may get, but for their ids and parents
  Forward,    \* may a node name a parent that comes after it?
  MaxRows,    \* bound: rows of a forest that is drawn
  MaxNodes    \* bound: nodes added to a seed's selector

VARIABLES tree, forest, ir, added

vars == <<tree, forest, ir, added>>

Positions(f) == DOMAIN f

\* Proper ancestors, following the drawn parents (0 is none).
Ups(f, i) ==
  LET ups[j \in 0 .. Len(f)] == IF j = 0 \/ f[j].up = 0 THEN {} ELSE {f[j].up} \cup ups[f[j].up]
  IN  ups[i]

\* A forest in preorder: root a's rows, then root b's, each below the row before it,
\* beside it or beside an ancestor of its.
Preorder(f) ==
  /\ f \in Seq({f[i] : i \in Positions(f)})
  /\ \A i \in Positions(f) :
       /\ f[i].root \in {"a", "b"} /\ f[i].element \in BOOLEAN /\ f[i].up \in 0 .. i - 1
       /\ \A j \in 1 .. i - 1 : f[j].root # f[i].root => f[j].root = "a"
       /\ IF i = 1 \/ f[i - 1].root # f[i].root THEN f[i].up = 0
          ELSE f[i].up \in {0, i - 1} \cup Ups(f, i - 1)

\* A tree that declares no ELEMENT has no rows but elements.
Declared(t, f) == t.elem \in BOOLEAN /\ (t.elem \/ \A i \in Positions(f) : f[i].element)

\* A selector as the front-ends number it: one root, and every other node after its parent.
Outline(s) ==
  /\ s \in Seq({s[i] : i \in DOMAIN s}) /\ s # <<>>
  /\ \A i \in DOMAIN s :
       /\ s[i].id = i - 1
       /\ IF i = 1 THEN s[i].kind = "selector" /\ s[i].parent = NULL
          ELSE s[i].kind # "selector" /\ s[i].parent \in 0 .. i - 2

ASSUME SeedsAssumption ==
  \A seed \in Seeds : Preorder(seed.forest) /\ Declared(seed.tree, seed.forest) /\ Outline(seed.ir)
ASSUME LooksAssumption == \A look \in Looks : look.element \in BOOLEAN
ASSUME NodesAssumption == \A n \in Nodes : n.kind # "selector"

Init ==
  /\ \E seed \in Seeds : tree = seed.tree /\ forest = seed.forest /\ ir = seed.ir
  /\ added = 0

\* The next row in preorder: below the last row, beside it or beside an ancestor of
\* its, or the first of another root.
AddRow ==
  /\ Len(forest) < MaxRows
  /\ \E root \in {"a", "b"}, up \in 0 .. Len(forest), look \in Looks :
       /\ IF forest = <<>> THEN root = "a" /\ up = 0
          ELSE \/ root = Last(forest).root /\ up \in {0, Len(forest)} \cup Ups(forest, Len(forest))
               \/ root = "b" /\ Last(forest).root = "a" /\ up = 0
       /\ tree.elem \/ look.element
       /\ forest' = Append(forest, [root |-> root, up |-> up, element |-> look.element, says |-> look.says])
  /\ UNCHANGED <<tree, ir, added>>

\* A selector built by hand over a seed's own forest: any node, under any node, under
\* a fresh or a used id.
AddNode ==
  /\ Len(forest) > MaxRows /\ added < MaxNodes /\ ~DupIds(ir)
  /\ \E n \in Nodes, id \in {1, Len(ir)}, p \in 0 .. Len(ir) + (IF Forward THEN 1 ELSE -1) :
       ir' = Append(ir, [id |-> id, parent |-> p, kind |-> n.kind, op |-> n.op, value |-> n.value])
  /\ added' = added + 1
  /\ UNCHANGED <<tree, forest>>

Next == AddRow \/ AddNode
Spec == Init /\ [][Next]_vars

\* The forest, encoded: positions and levels within each root, and what the
\* projection derives from the levels.
Encoded(f) ==
  LET pre(i) == Cardinality({j \in Positions(f) : j < i /\ f[j].root = f[i].root})
      at(root, p) == CHOOSE i \in Positions(f) : f[i].root = root /\ pre(i) = p
      size(root) == Cardinality({i \in Positions(f) : f[i].root = root})
      levels(root) == [p \in 0 .. size(root) - 1 |-> Cardinality(Ups(f, at(root, p)))]
  IN  {LET ls == levels(f[i].root) IN
       [at |-> i, root |-> f[i].root, pre |-> pre(i), level |-> ls[pre(i)],
        parent |-> DerivedParent(ls, pre(i)), size |-> DerivedSize(ls, pre(i)),
        element |-> f[i].element, says |-> f[i].says] : i \in Positions(f)}

-----------------------------------------------------------------------------
(* What the relations and the selectors mean on the forest as drawn.       *)

Kin(f, i, j) == f[i].root = f[j].root /\ f[i].up = f[j].up /\ i # j
Between(f, i, j) == {k \in Positions(f) : Kin(f, i, k) /\ f[k].element /\ i < k /\ k < j}

Means(f, op, i, j) ==
  CASE op = "desc"     -> i \in Ups(f, j)
    [] op = "child"    -> f[j].up = i
    [] op = "self"     -> i = j
    [] op = "next"     -> Kin(f, i, j) /\ i < j /\ f[j].element /\ Between(f, i, j) = {}
    [] op = "after"    -> Kin(f, i, j) /\ i < j /\ f[j].element
    [] op = "parent"   -> f[i].up = j
    [] op = "ancestor" -> j \in Ups(f, i)
    [] op = "prev"     -> Kin(f, i, j) /\ j < i /\ f[j].element /\ Between(f, j, i) = {}
    [] op = "sibling"  -> Kin(f, i, j)

IsFirst(f, i) == f[i].element /\ \A j \in Positions(f) : Kin(f, i, j) /\ f[j].element => i < j
IsLast(f, i)  == f[i].element /\ \A j \in Positions(f) : Kin(f, i, j) /\ f[j].element => j < i

True(f, c, i) ==
  CASE c.kind = "pseudo" /\ c.value = "first-child" -> IsFirst(f, i)
    [] c.kind = "pseudo" /\ c.value = "last-child"  -> IsLast(f, i)
    [] c.kind = "pseudo" /\ c.value \notin Positional \cup tree.preds -> FALSE
    [] OTHER -> <<c.kind, c.value>> \in f[i].says

\* The positions a step of the IR is true of, to any depth of groups: a group is true
\* of i when its chain leads somewhere from i, or, under NOT, nowhere.
Selected(f) ==
  LET true[s \in StepIds(ir)] ==
        {i \in Positions(f) :
           \A n \in Under(ir, s) :
             /\ n.kind \in ClauseKind => True(f, n, i)
             /\ Group(n) =>
                  LET chain == Chain(ir, n.id)
                      related(op, x, y) == Means(f, IF op = NULL THEN "desc" ELSE op, x, y)
                  IN  (n.kind = "has") <=>
                        \E path \in [DOMAIN chain -> Positions(f)] :
                          \A k \in DOMAIN chain :
                            /\ path[k] \in true[chain[k].id]
                            /\ related(chain[k].op, IF k = 1 THEN i ELSE path[k - 1], path[k])}
  IN  {b \in [DOMAIN Top(ir) -> Positions(f)] :
         \A k \in DOMAIN b :
           /\ b[k] \in true[Top(ir)[k].id]
           /\ k > 1 => Means(f, Top(ir)[k].op, b[k - 1], b[k])}

\* The answers of the compiled query, as positions of the drawn forest.
Answered(f) == {[k \in DOMAIN b |-> b[k].at] : b \in Answers(tree, ir, Encoded(f))}

\* The orders in which the same forest could have been drawn: the row drawn k-th is
\* the forest's row perm[k].
Relistings(f) ==
  LET n == Len(f)
      inverse(perm, i) == CHOOSE k \in 1 .. n : perm[k] = i
      up(perm, i) == IF f[i].up = 0 THEN 0 ELSE inverse(perm, f[i].up)
      redrawn(perm) == [k \in 1 .. n |-> [root |-> f[perm[k]].root, up |-> up(perm, perm[k]),
                                          element |-> f[perm[k]].element, says |-> f[perm[k]].says]]
      perms == {p \in [1 .. n -> 1 .. n] : \A i, j \in 1 .. n : p[i] = p[j] => i = j}
      parentsFirst(p) == \A i \in 1 .. n : f[i].up # 0 => inverse(p, f[i].up) < inverse(p, i)
  IN  {[perm |-> p, forest |-> redrawn(p)] : p \in {q \in perms : parentsFirst(q) /\ Preorder(redrawn(q))}}

-----------------------------------------------------------------------------
(* Properties.                                                             *)

\* Every relation and every traversal is the forest's: intervals, window and O(1)
\* arithmetic agree with parents and document order, level-0 rows included, and the
\* element form agrees with the arithmetic wherever every row is an element.
RelationsAreTheForest ==
  LET rows == Encoded(forest)
      all  == \A i \in Positions(forest) : forest[i].element
      traversed == [children |-> "child", descendants |-> "desc", ancestors |-> "ancestor", parent |-> "parent",
                    siblings |-> "sibling", next_sibling |-> "next", prev_sibling |-> "prev",
                    first_child |-> "child", last_child |-> "child"]
  IN  Len(ir) = 1 =>
        /\ \A a \in rows, elem \in {TRUE} \cup (IF all THEN {FALSE} ELSE {}) :
             /\ \A op \in Combinator : {b.at : b \in {x \in rows : Comb(rows, elem, op, a, x)}}
                                         = {j \in Positions(forest) : Means(forest, op, a.at, j)}
             /\ Builtin(rows, elem, "first-child", a) = IsFirst(forest, a.at)
             /\ Builtin(rows, elem, "last-child", a)  = IsLast(forest, a.at)
        /\ \A a \in rows, name \in Traversal :
             {b.at : b \in Nav(rows, name, a.root, a.pre)} =
               {j \in Positions(forest) :
                  /\ Means(forest, traversed[name], a.at, j)
                  /\ name = "first_child" => IsFirst(forest, j)
                  /\ name = "last_child"  => IsLast(forest, j)}

\* An accepted selector answers exactly the bindings it means: the unrolled passes,
\* the EXISTS of each group and the joins of the chain lose and add nothing.
AnswersAreTheMeaning ==
  (~Forward /\ Accepted(tree, ir)) => Answered(forest) = Selected(forest)

\* "Structure the unrolled fold cannot reach" is refused: every node of an accepted
\* selector is in the compiled text, for a node left out widens what is matched.
NothingIsDropped ==
  Accepted(tree, ir) => ToSet(ir) \ Compiled(ir) = {n \in ToSet(ir) : n.kind = "selector"}

\* A sibling-free tree never answers by an order nothing declares: however its
\* siblings happen to be numbered, an accepted selector finds the same rows.
OrderIsNotRead ==
  (~Forward /\ tree.free /\ Accepted(tree, ir)) =>
    \A again \in Relistings(forest) :
      {[k \in DOMAIN b |-> again.perm[b[k]]] : b \in Answered(again.forest)} = Answered(forest)

=============================================================================
